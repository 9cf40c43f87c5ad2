--------------------------- MODULE PublisherProofs ---------------------------
(***************************************************************************)
(* Proofs about Publisher, for every set of requested intervals, every     *)
(* configuration, every width of a Duration and any number of calls.       *)
(***************************************************************************)
EXTENDS Publisher, SequenceTheorems, TLAPS

\* What the conversion and the clamp return: a Duration, at least the minimum,
\* even when the multiplication wraps around.
LEMMA ClampedDuration ==
  ASSUME NEW s \in Requests
  PROVE  /\ Clamp(Duration(s)) \in Int
         /\ Clamp(Duration(s)) >= MinTelemetryInterval
<1>1. s \in Int /\ Second \in Int /\ HalfRange \in Nat \ {0}
  BY RequestsAssumption, DurationAssumption
<1>2. s * Second \in Int
  BY <1>1
<1>3. Duration(s) \in Int
  BY <1>1, <1>2 DEF Duration
<1>4. MinTelemetryInterval \in Int
  BY <1>1 DEF MinTelemetryInterval
<1>5. QED
  BY <1>3, <1>4 DEF Clamp

\* The minimum and the interval a loop starts with are positive.
LEMMA PositiveStart ==
  /\ MinTelemetryInterval \in Nat \ {0}
  /\ \A l \in Loops : StartInterval(l) \in Nat \ {0}
BY DurationAssumption, ConfiguredAssumption
   DEF MinTelemetryInterval, StartInterval

\* What the tickers need beyond TickersNeverPanic: no period is ever negative,
\* and the interval of a call in progress is clamped already.
IntervalsInv ==
  /\ \A l \in Loops : interval[l] >= 0
  /\ setD >= MinTelemetryInterval
  /\ TickersNeverPanic

LEMMA ToSelectKeepsType ==
  ASSUME TypeOK, NEW l \in Loops, ToSelect(l)
  PROVE  /\ loop' \in [Loops -> {"none", "collect", "evt", "vm", "select", "done"}]
         /\ interval' \in [Loops -> Int]
BY PositiveStart DEF TypeOK, ToSelect

\* TypeOK is an invariant of Publisher.
THEOREM TypeCorrect == Spec => []TypeOK
<1>1. Init => TypeOK
  <2>1. MinTelemetryInterval \in Int
    BY PositiveStart
  <2>2. Init => /\ ch \in Seq(Updates) /\ Len(ch) <= 1
                /\ loop \in [Loops -> {"none", "collect", "evt", "vm", "select", "done"}]
    BY DEF Init
  <2>3. Init => interval \in [Loops -> Int] /\ tick \in [Loops -> BOOLEAN]
    BY DEF Init
  <2>4. Init => /\ setPc = "idle" /\ setD \in Int
                /\ calls \in Nat /\ returned \in Nat /\ applied \in Nat
    BY <2>1 DEF Init
  <2>5. Init => setPc \in {"idle", "select", "drain", "resend"} /\ cancelled \in BOOLEAN
    BY DEF Init
  <2>6. QED
    BY <2>2, <2>3, <2>4, <2>5 DEF TypeOK
<1>2. TypeOK /\ [Next]_vars => TypeOK'
  <2> SUFFICES ASSUME TypeOK, [Next]_vars
               PROVE  TypeOK'
    OBVIOUS
  <2>1. CASE \E s \in Requests : SetCall(s)
    BY <2>1, ClampedDuration DEF SetCall, TypeOK, loopVars
  <2>2. CASE SendAndReturn
    <3>1. <<setD, calls>> \in Updates
      BY DEF TypeOK, Updates
    <3>2. QED
      BY <2>2, <3>1 DEF SendAndReturn, TypeOK, loopVars
  <2>3. CASE SetFull
    BY <2>3 DEF SetFull, TypeOK, loopVars
  <2>4. CASE SetDrain
    BY <2>4 DEF SetDrain, TypeOK, loopVars
  <2>5. CASE Start
    BY <2>5 DEF Start, TypeOK, setVars
  <2>6. ASSUME NEW l \in Loops, NEW ok \in BOOLEAN, Collect(l, ok)
        PROVE  TypeOK'
    BY <2>6, ToSelectKeepsType DEF Collect, TypeOK, setVars
  <2>7. ASSUME NEW l \in Loops, NEW ok \in BOOLEAN, PublishEvt(l, ok)
        PROVE  TypeOK'
    BY <2>7, ToSelectKeepsType DEF PublishEvt, TypeOK, setVars
  <2>8. CASE PublishTelemetry
    BY <2>8, ToSelectKeepsType DEF PublishTelemetry, TypeOK, setVars, Loops
  <2>9. ASSUME NEW l \in Loops, TakeTick(l)
        PROVE  TypeOK'
    BY <2>9 DEF TakeTick, TypeOK, setVars
  <2>10. ASSUME NEW l \in Loops, Quit(l)
         PROVE  TypeOK'
    BY <2>10 DEF Quit, TypeOK, setVars
  <2>11. ASSUME NEW l \in Loops, Fire(l)
         PROVE  TypeOK'
    BY <2>11 DEF Fire, TypeOK, setVars
  <2>12. CASE TakeInterval
    <3>1. ch[1] \in Updates
      BY <2>12 DEF TakeInterval, TypeOK
    <3>2. ch[1][1] \in Int /\ ch[1][2] \in Nat
      BY <3>1 DEF Updates
    <3>3. QED
      BY <2>12, <3>2 DEF TakeInterval, TypeOK, setVars, Loops
  <2>13. CASE Cancel
    BY <2>13 DEF Cancel, TypeOK, setVars, loopVars
  <2>14. CASE UNCHANGED vars
    BY <2>14 DEF vars, setVars, loopVars, TypeOK
  <2>15. QED
    BY <2>1, <2>2, <2>3, <2>4, <2>5, <2>6, <2>7, <2>8, <2>9, <2>10, <2>11,
       <2>12, <2>13, <2>14 DEF Next, Setter, SetSend, SetResend, Send
<1>3. QED
  BY <1>1, <1>2, PTL DEF Spec

\* "Drop it and replace with the newest value": whatever the two goroutines
\* do, no interval whose call returned is lost except to a newer one.
THEOREM NewestWinsAlways == Spec => []NewestWins
<1>1. Init => NewestWins
  BY DEF Init, NewestWins
<1>2. TypeOK /\ NewestWins /\ [Next]_vars => NewestWins'
  <2> SUFFICES ASSUME TypeOK, NewestWins, [Next]_vars
               PROVE  NewestWins'
    OBVIOUS
  <2>1. CASE \E s \in Requests : SetCall(s)
    BY <2>1 DEF SetCall, NewestWins, loopVars
  <2>2. CASE SendAndReturn
    BY <2>2 DEF SendAndReturn, NewestWins, loopVars
  <2>3. CASE SetFull
    BY <2>3 DEF SetFull, NewestWins, loopVars
  <2>4. CASE SetDrain
    BY <2>4 DEF SetDrain, NewestWins, loopVars
  <2>5. CASE TakeInterval
    BY <2>5 DEF TakeInterval, NewestWins, setVars
  <2>6. CASE UNCHANGED <<ch, setVars, applied>>
    BY <2>6 DEF setVars, NewestWins
  <2>7. Start => UNCHANGED <<ch, setVars, applied>>
    BY DEF Start
  <2>8. \A l \in Loops, ok \in BOOLEAN :
          Collect(l, ok) \/ PublishEvt(l, ok) => UNCHANGED <<ch, setVars, applied>>
    BY DEF Collect, PublishEvt
  <2>9. PublishTelemetry \/ Cancel \/ UNCHANGED vars => UNCHANGED <<ch, setVars, applied>>
    BY DEF PublishTelemetry, Cancel, vars, loopVars
  <2>10. \A l \in Loops : TakeTick(l) \/ Quit(l) \/ Fire(l) => UNCHANGED <<ch, setVars, applied>>
    BY DEF TakeTick, Quit, Fire
  <2>11. QED
    BY <2>1, <2>2, <2>3, <2>4, <2>5, <2>6, <2>7, <2>8, <2>9, <2>10
       DEF Next, Setter, SetSend, SetResend, Send
<1>3. QED
  BY <1>1, <1>2, TypeCorrect, PTL DEF Spec

LEMMA IntervalsKnown == Spec => []IntervalsInv
<1>1. Init => IntervalsInv
  BY PositiveStart DEF Init, IntervalsInv, TickersNeverPanic
<1>2. TypeOK /\ IntervalsInv /\ [Next]_vars => IntervalsInv'
  <2> SUFFICES ASSUME TypeOK, IntervalsInv, [Next]_vars
               PROVE  IntervalsInv'
    OBVIOUS
  <2> USE DEF IntervalsInv, TickersNeverPanic
  <2>1. ASSUME NEW s \in Requests, SetCall(s)
        PROVE  IntervalsInv'
    BY <2>1, ClampedDuration DEF SetCall, loopVars
  <2>2. CASE SendAndReturn
    BY <2>2 DEF SendAndReturn, loopVars
  <2>3. CASE SetFull
    BY <2>3 DEF SetFull, loopVars
  <2>4. CASE SetDrain
    BY <2>4 DEF SetDrain, loopVars
  <2>5. CASE Start
    BY <2>5 DEF Start, setVars
  <2>6. ASSUME NEW l \in Loops, ToSelect(l), UNCHANGED <<ch, setVars, applied>>
        PROVE  IntervalsInv'
    <3>1. StartInterval(l) \in Nat \ {0} /\ interval[l] \in Int
      BY PositiveStart DEF TypeOK
    <3>2. /\ interval'[l] > 0 /\ interval'[l] >= 0
          /\ \A k \in Loops : k # l => interval'[k] = interval[k] /\ loop'[k] = loop[k]
          /\ interval[l] > 0 => interval'[l] = interval[l]
      BY <2>6, <3>1 DEF ToSelect, TypeOK
    <3>3. applied > 0 => interval["telemetry"] > 0
      BY PositiveStart DEF TypeOK, Loops
    <3>4. /\ applied' = applied /\ ch' = ch /\ setD' = setD
          /\ \A k \in Loops : interval'[k] >= 0
          /\ \A k \in Loops : loop'[k] \in {"select", "done"} => interval'[k] > 0
      BY <2>6, <3>2 DEF setVars
    <3>5. applied > 0 => interval'["telemetry"] >= MinTelemetryInterval
      BY <3>2, <3>3 DEF Loops
    <3>6. setD' >= MinTelemetryInterval /\ (ch' # <<>> => ch'[1][1] >= MinTelemetryInterval)
      BY <3>4
    <3>7. QED
      BY <3>4, <3>5, <3>6
  <2>7. ASSUME NEW l \in Loops, NEW ok \in BOOLEAN, Collect(l, ok) \/ PublishEvt(l, ok)
        PROVE  IntervalsInv'
    <3>1. CASE ToSelect(l)
      BY <2>6, <2>7, <3>1 DEF Collect, PublishEvt
    <3>2. CASE /\ loop' = [loop EXCEPT ![l] = "evt"] \/ loop' = [loop EXCEPT ![l] = "vm"]
               /\ UNCHANGED interval
      BY <2>7, <3>2 DEF Collect, PublishEvt, setVars, TypeOK
    <3>3. QED
      BY <2>7, <3>1, <3>2 DEF Collect, PublishEvt
  <2>8. CASE PublishTelemetry
    BY <2>6, <2>8 DEF PublishTelemetry, Loops
  <2>9. ASSUME NEW l \in Loops, TakeTick(l) \/ Quit(l) \/ Fire(l)
        PROVE  IntervalsInv'
    BY <2>9 DEF TakeTick, Quit, Fire, setVars, TypeOK
  <2>10. CASE TakeInterval
    <3>1. ch[1][1] >= MinTelemetryInterval /\ ch[1][1] \in Int
      BY <2>10 DEF TakeInterval, TypeOK, Updates
    <3>2. QED
      BY <2>10, <3>1, PositiveStart DEF TakeInterval, setVars, TypeOK, Loops
  <2>11. CASE Cancel \/ UNCHANGED vars
    BY <2>11 DEF Cancel, vars, setVars, loopVars
  <2>12. QED
    BY <2>1, <2>2, <2>3, <2>4, <2>5, <2>7, <2>8, <2>9, <2>10, <2>11
       DEF Next, Setter, SetSend, SetResend, Send
<1>3. QED
  BY <1>1, <1>2, TypeCorrect, PTL DEF Spec

\* Whatever is configured and requested, and however the seconds wrap around,
\* no ticker is ever created with, or reset to, a period that is not positive.
THEOREM TickersNeverPanicAlways == Spec => []TickersNeverPanic
<1>1. IntervalsInv => TickersNeverPanic
  BY DEF IntervalsInv
<1>2. QED
  BY <1>1, IntervalsKnown, PTL
-----------------------------------------------------------------------------
(* The hand-over as a register. *)

\* The calls are counted one by one, the channel belongs to the caller between
\* the drain and the second send, and call numbers start at 1.
HandOverInv ==
  /\ calls = returned + (IF setPc = "idle" THEN 0 ELSE 1)
  /\ setPc = "resend" => ch = <<>>
  /\ ch # <<>> => returned > 0

LEMMA OneElement ==
  ASSUME NEW S, NEW s \in Seq(S), Len(s) <= 1, s # <<>>
  PROVE  s[1] \in S /\ s = << s[1] >>
<1>1. Len(s) = 1
  <2>1. Len(s) \in Nat \ {0}
    BY EmptySeq, Zenon
  <2>2. QED
    BY <2>1
<1>2. DOMAIN s = 1..1 /\ s[1] \in S
  BY <1>1, LenProperties, ElementOfSeq
<1>3. << s[1] >> \in Seq(S) /\ Len(<< s[1] >>) = Len(s) /\ << s[1] >>[1] = s[1]
  BY <1>1, <1>2
<1>4. \A i \in 1..Len(s) : s[i] = << s[1] >>[i]
  BY <1>1, <1>3
<1>5. QED
  BY <1>1, <1>2, <1>3, <1>4, SeqEqual

\* A loop that comes to its select keeps the period of a ticker that it has.
LEMMA ToSelectUnnoticed ==
  ASSUME TypeOK, IntervalsInv, NEW l \in Loops, ToSelect(l)
  PROVE  applied > 0 => interval'["telemetry"] = interval["telemetry"]
<1>1. applied > 0 => interval["telemetry"] # 0
  BY PositiveStart DEF IntervalsInv, TickersNeverPanic, TypeOK, Loops
<1>2. interval["telemetry"] # 0 => interval'["telemetry"] = interval["telemetry"]
  BY DEF ToSelect, TypeOK, Loops
<1>3. QED
  BY <1>1, <1>2

\* Every step is one of the caller's, the loop's receive, or unnoticed.
LEMMA HandOverSteps ==
  ASSUME TypeOK, IntervalsInv, [Next]_vars
  PROVE  \/ \E s \in Requests : SetCall(s)
         \/ SetSend \/ SetFull \/ SetDrain \/ SetResend
         \/ TakeInterval
         \/ UNCHANGED <<ch, setVars, applied, Used>>
<1>1. UNCHANGED <<ch, setVars, applied>> /\ interval' = interval
        => UNCHANGED <<ch, setVars, applied, Used>>
  BY DEF Used
<1>2. ASSUME NEW l \in Loops, ToSelect(l), UNCHANGED <<ch, setVars, applied>>
      PROVE  UNCHANGED <<ch, setVars, applied, Used>>
  <2>1. applied \in Nat /\ applied' = applied
    BY <1>2 DEF TypeOK
  <2>2. applied > 0 => interval'["telemetry"] = interval["telemetry"]
    BY <1>2, ToSelectUnnoticed
  <2>3. Used' = Used
    BY <2>1, <2>2 DEF Used
  <2>4. QED
    BY <1>2, <2>3
<1>3. ASSUME NEW l \in Loops, Send(l)
      PROVE  UNCHANGED <<ch, setVars, applied, Used>>
  <2>1. UNCHANGED <<ch, setVars, applied>>
          /\ (interval' = interval \/ \E k \in Loops : ToSelect(k))
    BY <1>3 DEF Send, Collect, PublishEvt, PublishTelemetry, Loops
  <2>2. QED
    BY <1>1, <1>2, <2>1
<1>4. ASSUME NEW l \in Loops, TakeTick(l) \/ Quit(l) \/ Fire(l)
      PROVE  UNCHANGED <<ch, setVars, applied, Used>>
  BY <1>1, <1>4 DEF TakeTick, Quit, Fire
<1>5. Start \/ Cancel \/ UNCHANGED vars => UNCHANGED <<ch, setVars, applied, Used>>
  BY <1>1 DEF Start, Cancel, vars, setVars, loopVars
<1>6. QED
  BY <1>3, <1>4, <1>5 DEF Next, Setter

LEMMA HandOverStep ==
  ASSUME TypeOK, IntervalsInv, HandOverInv, [Next]_vars
  PROVE  HandOverInv'
<1>1. CASE \E s \in Requests : SetCall(s)
  BY <1>1 DEF SetCall, HandOverInv, TypeOK
<1>2. CASE SetSend \/ SetResend
  BY <1>2 DEF SetSend, SetResend, SendAndReturn, HandOverInv, TypeOK
<1>3. CASE SetFull
  BY <1>3 DEF SetFull, HandOverInv
<1>4. CASE SetDrain
  BY <1>4 DEF SetDrain, HandOverInv
<1>5. CASE TakeInterval
  BY <1>5 DEF TakeInterval, HandOverInv, setVars
<1>6. CASE UNCHANGED <<ch, setVars, applied, Used>>
  BY <1>6 DEF HandOverInv, setVars
<1>7. QED
  BY <1>1, <1>2, <1>3, <1>4, <1>5, <1>6, HandOverSteps

LEMMA HandOverKnown == Spec => [](TypeOK /\ IntervalsInv /\ NewestWins /\ HandOverInv)
<1>1. Init => HandOverInv
  BY DEF Init, HandOverInv
<1>2. TypeOK /\ IntervalsInv /\ HandOverInv /\ [Next]_vars => HandOverInv'
  BY HandOverStep
<1>3. QED
  BY <1>1, <1>2, TypeCorrect, IntervalsKnown, NewestWinsAlways, PTL DEF Spec

\* For any requests and any interleaving, the hand-over of intervals implements
\* IntervalRegister.
THEOREM RegisterImplemented == Spec => ImplementsRegister
<1>1. Init => Register!Init
  BY DEF Init, Register!Init, Asked, Held, Used
<1>2. TypeOK /\ IntervalsInv /\ NewestWins /\ HandOverInv /\ [Next]_vars
        => [Register!Next]_Register!vars
  <2> SUFFICES ASSUME TypeOK, IntervalsInv, NewestWins, HandOverInv, [Next]_vars
               PROVE  [Register!Next]_Register!vars
    OBVIOUS
  <2> USE DEF Asked, Held
  <2>1. ASSUME NEW s \in Requests, SetCall(s)
        PROVE  Register!Next
    <3>1. Used' = Used
      BY <2>1 DEF SetCall, loopVars, Used
    <3>2. Register!Ask(Clamp(Duration(s)))
      BY <2>1, <3>1 DEF SetCall, Register!Ask, InCall
    <3>3. QED
      BY <3>2 DEF Register!Next
  <2>2. CASE SetSend
    <3>1. Used' = Used /\ setPc = "select" /\ setPc' = "idle" /\ ch' = InCall
      BY <2>2 DEF SetSend, SendAndReturn, loopVars, Used, InCall
    <3>2. Register!Store
      BY <2>2, <3>1 DEF SetSend, SendAndReturn, Register!Store, InCall
    <3>3. QED
      BY <3>2 DEF Register!Next
  <2>3. CASE SetFull
    BY <2>3 DEF SetFull, loopVars, Register!vars, Used, InCall
  <2>4. CASE SetDrain
    <3>1. Used' = Used
      BY <2>4 DEF SetDrain, loopVars, Used
    <3>2. Register!Store
      BY <2>4, <3>1 DEF SetDrain, Register!Store, InCall
    <3>3. QED
      BY <3>2 DEF Register!Next
  <2>5. CASE SetResend
    <3>1. Used' = Used
      BY <2>5 DEF SetResend, SendAndReturn, loopVars, Used
    <3>2. QED
      BY <2>5, <3>1 DEF SetResend, SendAndReturn, Register!vars, InCall
  <2>6. CASE TakeInterval
    <3>1. ch # <<>> /\ ch' = <<>> /\ setPc # "resend" /\ UNCHANGED setVars
      BY <2>6 DEF TakeInterval, HandOverInv
    <3>2. ch[1] \in Updates /\ ch = << ch[1] >>
      BY <3>1, OneElement DEF TypeOK
    <3>3. ch[1] = << ch[1][1], ch[1][2] >> /\ ch[1][2] = returned /\ returned > 0
      BY <3>1, <3>2 DEF Updates, NewestWins, HandOverInv
    <3>4. applied' = ch[1][2] /\ interval'["telemetry"] = ch[1][1]
      BY <2>6 DEF TakeInterval, TypeOK, Loops
    <3>5. Used' = << << ch[1][1], ch[1][2] >> >>
      BY <3>3, <3>4 DEF Used, TypeOK
    <3>6. UNCHANGED <<calls, Asked>> /\ Held = ch /\ Held' = <<>>
      BY <3>1 DEF setVars, InCall
    <3>7. Register!Use
      BY <3>1, <3>2, <3>3, <3>5, <3>6 DEF Register!Use
    <3>8. QED
      BY <3>7 DEF Register!Next
  <2>7. CASE UNCHANGED <<ch, setVars, applied, Used>>
    BY <2>7 DEF setVars, Register!vars, InCall
  <2>8. QED
    BY <2>1, <2>2, <2>3, <2>4, <2>5, <2>6, <2>7, HandOverSteps
<1>3. QED
  BY <1>1, <1>2, HandOverKnown, PTL DEF Spec, ImplementsRegister, Register!Spec

\* A call that waits for the channel waits in the drain, for good, and its
\* interval is the only one lost.
THEOREM BlockedStaysBlocked == Spec => BlockedForGood
<1>1. TypeOK /\ IntervalsInv /\ NewestWins /\ HandOverInv /\ [Next]_vars
        => [Blocked => /\ applied = calls - 1
                       /\ Blocked' /\ UNCHANGED <<calls, applied>>]_vars
  <2> SUFFICES ASSUME TypeOK, IntervalsInv, NewestWins, HandOverInv, [Next]_vars, Blocked
               PROVE  applied = calls - 1 /\ Blocked' /\ UNCHANGED <<calls, applied>>
    OBVIOUS
  <2>1. setPc = "drain" /\ ch = <<>>
    BY DEF Blocked, HandOverInv
  <2>2. applied = calls - 1
    BY <2>1 DEF NewestWins, HandOverInv, TypeOK
  <2>3. UNCHANGED <<ch, setVars, applied>>
    BY <2>1, HandOverSteps
       DEF SetCall, SetSend, SetFull, SetDrain, SetResend, TakeInterval
  <2>4. QED
    BY <2>1, <2>2, <2>3 DEF Blocked, setVars
<1>2. QED
  BY <1>1, HandOverKnown, PTL DEF Spec, BlockedForGood
=============================================================================
