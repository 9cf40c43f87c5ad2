----------------------------- MODULE AgentProofs -----------------------------
(***************************************************************************)
(* Proofs about Agent, for every set of commands, any of which may restart *)
(* the machine, every pending limit and any number of faults and copies.   *)
(***************************************************************************)
EXTENDS Agent, SequenceTheorems, TLAPS

USE DEF platform, handler, history

ResultMsg == [id : Commands, status : Statuses]

LEMMA CopyFields ==
  ASSUME NEW p \in Copies
  PROVE  p[1] \in Commands /\ p[2] \in 1..MaxCopies /\ p[2] \in Nat
BY BoundsAssumption DEF Copies

\* What is gone with the process has the types of a process that is down.
LEMMA VanishTyped ==
  ASSUME TypeOK, Vanish, UNCHANGED <<platform, machine, history>>,
         faults' \in 0..MaxFaults
  PROVE  TypeOK'
BY BoundsAssumption DEF TypeOK, Vanish

LEMMA FaultTyped == ASSUME TypeOK, Fault PROVE faults' \in 0..MaxFaults
BY BoundsAssumption DEF TypeOK, Fault

LEMMA FaultUnlessTyped ==
  ASSUME TypeOK, FaultUnlessRestarting PROVE faults' \in 0..MaxFaults
BY FaultTyped DEF FaultUnlessRestarting, TypeOK

LEMMA ReturnsTyped ==
  ASSUME TypeOK, step # "idle", NEW s \in Statuses, Returns(s),
         machine' \in {"up", "down"}, begun' = begun
  PROVE  TypeOK'
<1>1. hand \in Copies /\ hand[1] \in Commands
  BY CopyFields DEF TypeOK
<1>2. ended' \in [Commands -> SUBSET Statuses]
  BY <1>1 DEF TypeOK, Returns
<1>3. QED
  BY <1>1, <1>2 DEF TypeOK, Returns

\* A step of the connection alone.
LEMMA LinkTyped ==
  ASSUME TypeOK, link' \in {"none", "up", "reconnecting", "closed"},
         outbox' = outbox \/ outbox' = <<>>, faults' \in 0..MaxFaults,
         phase' \in {"draining", phase},
         UNCHANGED <<platform, machine, inbox, handler, history>>
  PROVE  TypeOK'
<1>1. outbox' \in Seq([id : Commands, status : Statuses])
  BY EmptySeq DEF TypeOK
<1>2. QED
  BY <1>1 DEF TypeOK

LEMMA TypedStep == ASSUME TypeOK, [Next]_vars PROVE TypeOK'
<1>1. ASSUME NEW c \in Commands, Arrive(c)
      PROVE  TypeOK'
  <2>1. copies[c] + 1 \in 1..MaxCopies
    BY <1>1, BoundsAssumption DEF Arrive, TypeOK
  <2>2. <<c, copies[c] + 1>> \in Copies
    BY <2>1 DEF Copies
  <2>3. inbox' \in Seq(Copies) /\ Len(inbox') = Len(inbox) + 1 /\ Len(inbox) \in Nat
    BY <1>1, <2>2, AppendProperties, LenProperties DEF Arrive, TypeOK
  <2>4. Len(inbox') <= PendingLimit
    BY <1>1, <2>3, BoundsAssumption DEF Arrive
  <2>5. copies' \in [Commands -> 0..MaxCopies]
    BY <1>1, <2>1 DEF Arrive, TypeOK
  <2>6. QED
    BY <1>1, <2>3, <2>4, <2>5 DEF Arrive, TypeOK
<1>2. ASSUME NEW c \in Commands, Miss(c)
      PROVE  TypeOK'
  BY <1>2 DEF Miss, TypeOK
<1>3. ASSUME NEW c \in Commands, TimeOut(c)
      PROVE  TypeOK'
  <2>1. faults' \in 0..MaxFaults
    BY <1>3, FaultTyped DEF TimeOut, TypeOK
  <2>2. QED
    BY <1>3, <2>1 DEF TimeOut, TypeOK
<1>4. CASE Start
  <2>1. faults' \in 0..MaxFaults
    BY <1>4, FaultTyped DEF Start, TypeOK
  <2>2. QED
    BY <1>4, <2>1 DEF Start, TypeOK
<1>5. CASE Subscribe
  BY <1>5, VanishTyped DEF Subscribe, TypeOK
<1>6. CASE Listen
  BY <1>6 DEF Listen, TypeOK
<1>7. CASE Signal
  BY <1>7, FaultUnlessTyped DEF Signal, TypeOK
<1>8. CASE Drain
  <2>1. link' \in {"none", "up", "reconnecting", "closed"} /\ faults' \in 0..MaxFaults
    BY <1>8 DEF Drain, TypeOK
  <2>2. outbox' = outbox \/ outbox' = <<>>
    BY <1>8 DEF Drain
  <2>3. QED
    BY <1>8, <2>1, <2>2, LinkTyped DEF Drain
<1>9. CASE Exit
  BY <1>9, VanishTyped DEF Exit, TypeOK
<1>10. CASE Crash
  BY <1>10, VanishTyped, FaultUnlessTyped DEF Crash
<1>11. CASE Boot
  BY <1>11 DEF Boot, TypeOK
<1>12. CASE Disconnect
  <2>1. link' \in {"none", "up", "reconnecting", "closed"} /\ faults' \in 0..MaxFaults
    BY <1>12, FaultTyped DEF Disconnect
  <2>2. outbox' = outbox \/ outbox' = <<>>
    BY <1>12 DEF Disconnect
  <2>3. QED
    BY <1>12, <2>1, <2>2, LinkTyped DEF Disconnect
<1>13. CASE GiveUp \/ Reconnect
  <2>1. link' \in {"none", "up", "reconnecting", "closed"} /\ faults' \in 0..MaxFaults
    BY <1>13 DEF GiveUp, Reconnect, TypeOK
  <2>2. outbox' = outbox \/ outbox' = <<>>
    BY <1>13 DEF GiveUp, Reconnect
  <2>3. QED
    BY <1>13, <2>1, <2>2, LinkTyped DEF GiveUp, Reconnect
<1>14. CASE Write
  <2>1. Head(outbox) \in ResultMsg /\ Tail(outbox) \in Seq(ResultMsg)
    BY <1>14, HeadTailProperties DEF Write, TypeOK, ResultMsg
  <2>2. Head(outbox).id \in Commands /\ Head(outbox).status \in Statuses
    BY <2>1 DEF ResultMsg
  <2>3. acked' \in [Commands -> SUBSET Statuses]
    BY <1>14, <2>2 DEF Write, TypeOK
  <2>4. QED
    BY <1>14, <2>1, <2>3 DEF Write, TypeOK, ResultMsg
<1>15. CASE Take
  <2>1. /\ Head(inbox) \in Copies /\ Tail(inbox) \in Seq(Copies)
        /\ Len(Tail(inbox)) = Len(inbox) - 1 /\ Len(inbox) \in Nat
    BY <1>15, HeadTailProperties, LenProperties DEF Take, TypeOK
  <2>2. Len(inbox') <= PendingLimit
    BY <1>15, <2>1, BoundsAssumption DEF Take, TypeOK
  <2>3. QED
    BY <1>15, <2>1, <2>2 DEF Take, TypeOK
<1>16. CASE Begin
  <2>1. hand \in Copies /\ hand[1] \in Commands /\ hand[2] \in 0..MaxCopies
    BY <1>16, CopyFields, BoundsAssumption DEF Begin, TypeOK
  <2>2. begun' \in [Commands -> 0..MaxCopies]
    BY <1>16, <2>1 DEF Begin, TypeOK
  <2>3. QED
    BY <1>16, <2>1, <2>2 DEF Begin, TypeOK
<1>17. CASE TurnDown
  BY <1>17, ReturnsTyped DEF TurnDown, Statuses, TypeOK
<1>18. ASSUME NEW s \in Statuses, WorkEnds(s)
       PROVE  TypeOK'
  BY <1>18, ReturnsTyped DEF WorkEnds, TypeOK
<1>19. CASE Publish
  <2>1. hand \in Copies /\ hand[1] \in Commands /\ status \in Statuses
    BY <1>19, CopyFields DEF Publish, TypeOK
  <2>2. [id |-> hand[1], status |-> status] \in ResultMsg
    BY <2>1 DEF ResultMsg
  <2>3. outbox' \in Seq(ResultMsg)
    <3>1. outbox \in Seq(ResultMsg)
      BY DEF TypeOK, ResultMsg
    <3>2. outbox' \in {outbox, Append(outbox, [id |-> hand[1], status |-> status])}
      BY <1>19 DEF Publish
    <3>3. QED
      BY <2>2, <3>1, <3>2, AppendProperties
  <2>4. faults' \in 0..MaxFaults
    BY <1>19, FaultTyped DEF Publish, TypeOK
  <2>5. QED
    BY <1>19, <2>3, <2>4 DEF Publish, TypeOK, ResultMsg
<1>20. CASE UNCHANGED vars
  BY <1>20 DEF vars, TypeOK
<1>21. QED
  BY <1>1, <1>2, <1>3, <1>4, <1>5, <1>6, <1>7, <1>8, <1>9, <1>10, <1>11, <1>12, <1>13,
     <1>14, <1>15, <1>16, <1>17, <1>18, <1>19, <1>20
     DEF Next, Ask, Process, StopAgent, Handler, Statuses

\* TypeOK is an invariant of Agent; the pending list never outgrows its limit.
THEOREM TypeCorrect == Spec => []TypeOK
<1>1. Init => TypeOK
  BY BoundsAssumption DEF Init, TypeOK
<1>2. TypeOK /\ [Next]_vars => TypeOK'
  BY TypedStep
<1>3. QED
  BY <1>1, <1>2, PTL DEF Spec

-----------------------------------------------------------------------------

\* The copies of a command wait in the order of their numbers, and none that
\* waits, or has just been taken, is as old as the last one that was begun.
Ordered ==
  /\ \A c \in Commands : begun[c] <= copies[c]
  /\ \A i \in 1..Len(inbox) : /\ begun[inbox[i][1]] < inbox[i][2]
                              /\ inbox[i][2] <= copies[inbox[i][1]]
  /\ \A i, j \in 1..Len(inbox) :
       i < j /\ inbox[i][1] = inbox[j][1] => inbox[i][2] < inbox[j][2]
  /\ step # "idle" =>
       /\ hand[2] <= copies[hand[1]]
       /\ \A i \in 1..Len(inbox) : inbox[i][1] = hand[1] => hand[2] < inbox[i][2]
  /\ step = "taken" => begun[hand[1]] < hand[2]

LEMMA OrderedStep == ASSUME TypeOK, Ordered, [Next]_vars PROVE Ordered'
<1>0. /\ inbox \in Seq(Copies) /\ Len(inbox) \in Nat
      /\ \A i \in 1..Len(inbox) : inbox[i] \in Copies
      /\ copies \in [Commands -> 0..MaxCopies] /\ begun \in [Commands -> 0..MaxCopies]
      /\ MaxCopies \in Nat
  BY BoundsAssumption, LenProperties DEF TypeOK
<1>1. \A i \in 1..Len(inbox) : inbox[i][1] \in Commands /\ inbox[i][2] \in Nat
  BY <1>0, CopyFields
<1>2. step # "idle" => hand \in Copies /\ hand[1] \in Commands /\ hand[2] \in Nat
  BY CopyFields DEF TypeOK
<1>3. ASSUME UNCHANGED <<copies, inbox, begun, hand>>, step' \in {"idle", "working", "answer", step},
             step' = "idle" \/ step # "idle"
      PROVE  Ordered'
  BY <1>3 DEF Ordered
<1>4. CASE UNCHANGED <<copies, inbox, begun, hand, step>>
  BY <1>4 DEF Ordered
<1>5. ASSUME Vanish, UNCHANGED <<copies, begun>>
      PROVE  Ordered'
  <2>1. Len(inbox') = 0 /\ step' = "idle"
    BY <1>5, EmptySeq DEF Vanish
  <2>2. QED
    BY <1>5, <2>1 DEF Ordered
<1>6. ASSUME NEW c \in Commands, Arrive(c)
      PROVE  Ordered'
  <2> DEFINE n == copies[c] + 1
             p == <<c, n>>
  <2>1. /\ n \in 1..MaxCopies /\ p \in Copies /\ p[1] = c /\ p[2] = n
    BY <1>0, <1>6, BoundsAssumption DEF Arrive, Copies
  <2>2. /\ copies' = [copies EXCEPT ![c] = n]
        /\ UNCHANGED <<begun, step, hand>> /\ inbox' = Append(inbox, p)
    BY <1>6 DEF Arrive
  <2> HIDE DEF p
  <2>3. /\ Len(inbox') = Len(inbox) + 1
        /\ \A i \in 1..Len(inbox) : inbox'[i] = inbox[i]
        /\ inbox'[Len(inbox) + 1] = p
    BY <1>0, <2>1, <2>2, AppendProperties
  <2>4. \A d \in Commands : copies[d] <= copies'[d] /\ copies'[d] \in Nat /\ copies[d] \in Nat
    BY <1>0, <2>1, <2>2
  <2>5. copies'[c] = n /\ \A d \in Commands : begun[d] \in Nat /\ begun[d] <= copies[d]
    BY <1>0, <2>1, <2>2 DEF Ordered
  <2>6. \A i \in 1..Len(inbox') : i \in 1..Len(inbox) \/ i = Len(inbox) + 1
    BY <1>0, <2>3
  <2>7. \A d \in Commands : begun'[d] <= copies'[d]
    BY <2>2, <2>4, <2>5
  <2>8. \A i \in 1..Len(inbox') : /\ begun'[inbox'[i][1]] < inbox'[i][2]
                                  /\ inbox'[i][2] <= copies'[inbox'[i][1]]
    BY <1>1, <2>1, <2>2, <2>3, <2>4, <2>5, <2>6 DEF Ordered
  <2>9. ASSUME NEW i \in 1..Len(inbox'), NEW j \in 1..Len(inbox'),
               i < j, inbox'[i][1] = inbox'[j][1]
        PROVE  inbox'[i][2] < inbox'[j][2]
    <3>1. i \in 1..Len(inbox) /\ inbox'[i] = inbox[i]
      BY <1>0, <2>3, <2>6, <2>9
    <3>2. CASE j \in 1..Len(inbox)
      BY <2>3, <2>9, <3>1, <3>2 DEF Ordered
    <3>3. CASE j = Len(inbox) + 1
      BY <1>1, <2>1, <2>3, <2>4, <2>9, <3>1, <3>3 DEF Ordered
    <3>4. QED
      BY <2>6, <3>2, <3>3
  <2>10. step' # "idle" =>
           /\ hand'[2] <= copies'[hand'[1]]
           /\ \A i \in 1..Len(inbox') : inbox'[i][1] = hand'[1] => hand'[2] < inbox'[i][2]
    BY <1>1, <1>2, <2>1, <2>2, <2>3, <2>4, <2>6 DEF Ordered
  <2>11. step' = "taken" => begun'[hand'[1]] < hand'[2]
    BY <2>2 DEF Ordered
  <2>12. QED
    BY <2>7, <2>8, <2>9, <2>10, <2>11 DEF Ordered
<1>7. CASE Take
  <2>1. /\ hand' = inbox[1] /\ step' = "taken" /\ UNCHANGED <<copies, begun>>
        /\ Len(inbox') = Len(inbox) - 1 /\ 1 \in 1..Len(inbox)
        /\ \A i \in 1..Len(inbox') : inbox'[i] = inbox[i + 1]
    BY <1>0, <1>7, HeadTailProperties, EmptySeq DEF Take
  <2>2. \A i \in 1..Len(inbox') : i + 1 \in 1..Len(inbox)
    BY <1>0, <2>1
  <2>3. \A i \in 1..Len(inbox') : /\ begun[inbox'[i][1]] < inbox'[i][2]
                                  /\ inbox'[i][2] <= copies[inbox'[i][1]]
                                  /\ inbox'[i][1] = inbox[1][1] => inbox[1][2] < inbox'[i][2]
    BY <2>1, <2>2 DEF Ordered
  <2>4. \A i, j \in 1..Len(inbox') :
          i < j /\ inbox'[i][1] = inbox'[j][1] => inbox'[i][2] < inbox'[j][2]
    BY <2>1, <2>2 DEF Ordered
  <2>5. QED
    BY <2>1, <2>3, <2>4 DEF Ordered
<1>8. CASE Begin
  <2>1. /\ begun' = [begun EXCEPT ![hand[1]] = hand[2]]
        /\ step = "taken" /\ step' = "working" /\ UNCHANGED <<copies, inbox, hand>>
    BY <1>8 DEF Begin
  <2>2. \A c \in Commands : begun'[c] = IF c = hand[1] THEN hand[2] ELSE begun[c]
    BY <1>0, <2>1
  <2>3. QED
    BY <1>1, <1>2, <2>1, <2>2 DEF Ordered
<1>9. CASE Publish
  <2>1. UNCHANGED <<copies, inbox, begun>> /\ step' = "idle"
    BY <1>9 DEF Publish
  <2>2. QED
    BY <2>1 DEF Ordered
<1>10. CASE TurnDown \/ \E s \in Statuses : WorkEnds(s)
  BY <1>3, <1>10 DEF TurnDown, WorkEnds, Returns
<1>11. CASE Exit \/ Crash
  BY <1>5, <1>11 DEF Exit, Crash
<1>12. CASE Subscribe
  BY <1>4, <1>5, <1>12 DEF Subscribe
<1>13. CASE \/ \E c \in Commands : Miss(c) \/ TimeOut(c)
            \/ Start \/ Listen \/ Signal \/ Drain \/ Boot
            \/ Disconnect \/ GiveUp \/ Reconnect \/ Write \/ UNCHANGED vars
  BY <1>4, <1>13 DEF Miss, TimeOut, Start, Listen, Signal, Drain, Boot,
                     Disconnect, GiveUp, Reconnect, Write, vars
<1>14. QED
  BY <1>6, <1>7, <1>8, <1>9, <1>10, <1>11, <1>12, <1>13
     DEF Next, Ask, Process, StopAgent, Handler, Statuses

\* No arrived command is begun twice or after a later copy of it, whatever the
\* process, the connection and the machine go through.
THEOREM NothingRunsTwiceEver == Spec => []NothingRunsTwice
<1>1. Init => Ordered
  <2> SUFFICES ASSUME Init PROVE Ordered
    OBVIOUS
  <2>1. Len(inbox) = 0
    BY EmptySeq DEF Init
  <2>2. QED
    BY <2>1 DEF Init, Ordered
<1>2. TypeOK /\ Ordered /\ [Next]_vars => Ordered'
  BY OrderedStep
<1>3. TypeOK /\ Ordered => NothingRunsTwice
  <2> SUFFICES ASSUME TypeOK, Ordered PROVE NothingRunsTwice
    OBVIOUS
  <2>1. DOMAIN inbox = 1..Len(inbox)
    BY LenProperties DEF TypeOK
  <2>2. QED
    BY <2>1 DEF NothingRunsTwice, Elements, Ordered
<1>4. QED
  BY <1>1, <1>2, <1>3, TypeCorrect, PTL DEF Spec

-----------------------------------------------------------------------------

\* Wherever a status is on its way to the platform, Dispatch returned it.
Truthful ==
  /\ \A c \in Commands :
       /\ acked[c] \subseteq ended[c]
       /\ "completed" \in ended[c] => begun[c] > 0
  /\ \A i \in 1..Len(outbox) : outbox[i].status \in ended[outbox[i].id]
  /\ step = "answer" => status \in ended[hand[1]]
  /\ step = "working" => begun[hand[1]] > 0

LEMMA OutboxFields ==
  ASSUME TypeOK
  PROVE  /\ outbox \in Seq(ResultMsg) /\ Len(outbox) \in Nat
         /\ \A i \in 1..Len(outbox) : outbox[i].id \in Commands /\ outbox[i].status \in Statuses
<1>1. outbox \in Seq(ResultMsg)
  BY DEF TypeOK, ResultMsg
<1>2. \A i \in 1..Len(outbox) : outbox[i] \in ResultMsg
  BY <1>1
<1>3. QED
  BY <1>1, <1>2, LenProperties DEF ResultMsg

\* Dispatch returns: only the command in hand gets another status.
LEMMA ReturnsTruthful ==
  ASSUME TypeOK, Truthful, step # "idle", NEW s \in Statuses, Returns(s),
         begun' = begun, acked' = acked, s = "completed" => step = "working"
  PROVE  Truthful'
<1>1. /\ hand[1] \in Commands /\ ended \in [Commands -> SUBSET Statuses]
      /\ acked \in [Commands -> SUBSET Statuses]
  BY CopyFields DEF TypeOK
<1>2. \A i \in 1..Len(outbox) : outbox[i].id \in Commands
  BY OutboxFields
<1>3. \A c \in Commands : ended'[c] = IF c = hand[1] THEN ended[c] \cup {s} ELSE ended[c]
  BY <1>1 DEF Returns
<1>4. \A c \in Commands : /\ acked'[c] \subseteq ended'[c]
                          /\ "completed" \in ended'[c] => begun'[c] > 0
  <2>1. s = "completed" => begun[hand[1]] > 0
    BY DEF Truthful
  <2>2. \A c \in Commands : acked[c] \subseteq ended[c] /\ ("completed" \in ended[c] => begun[c] > 0)
    BY DEF Truthful
  <2>3. ASSUME NEW c \in Commands
        PROVE  acked'[c] \subseteq ended'[c] /\ ("completed" \in ended'[c] => begun'[c] > 0)
    <3>1. CASE c = hand[1]
      <4>1. ended'[c] = ended[c] \cup {s}
        BY <1>3, <3>1
      <4>2. "completed" \in ended'[c] => begun[c] > 0
        BY <2>1, <2>2, <3>1, <4>1
      <4>3. QED
        BY <2>2, <4>1, <4>2
    <3>2. CASE c # hand[1]
      <4>1. ended'[c] = ended[c]
        BY <1>3, <3>2
      <4>2. QED
        BY <2>2, <4>1
    <3>3. QED
      BY <3>1, <3>2
  <2>4. QED
    BY <2>3
<1>5. \A i \in 1..Len(outbox') : outbox'[i].status \in ended'[outbox'[i].id]
  BY <1>2, <1>3 DEF Truthful, Returns
<1>6. step' = "answer" /\ status' \in ended'[hand'[1]]
  BY <1>1, <1>3 DEF Returns
<1>7. QED
  BY <1>4, <1>5, <1>6 DEF Truthful

LEMMA TruthfulStep == ASSUME TypeOK, Truthful, [Next]_vars PROVE Truthful'
<1>0. /\ outbox \in Seq(ResultMsg) /\ Len(outbox) \in Nat
      /\ \A i \in 1..Len(outbox) : outbox[i].id \in Commands /\ outbox[i].status \in Statuses
  BY OutboxFields
<1>1. CASE UNCHANGED <<acked, ended, begun, outbox, step, hand, status>>
  BY <1>1 DEF Truthful
<1>2. ASSUME UNCHANGED <<acked, ended, begun, step, hand, status>>,
             outbox' = outbox \/ outbox' = <<>>
      PROVE  Truthful'
  <2>1. outbox' = <<>> => Len(outbox') = 0
    BY EmptySeq
  <2>2. QED
    BY <1>2, <2>1 DEF Truthful
<1>3. ASSUME Vanish, UNCHANGED <<acked, ended, begun>>
      PROVE  Truthful'
  <2>1. Len(outbox') = 0 /\ step' = "idle"
    BY <1>3, EmptySeq DEF Vanish
  <2>2. QED
    BY <1>3, <2>1 DEF Truthful
<1>4. CASE Write
  <2>1. /\ 1 \in 1..Len(outbox) /\ Head(outbox) = outbox[1]
        /\ Len(outbox') = Len(outbox) - 1
        /\ \A i \in 1..Len(outbox') : outbox'[i] = outbox[i + 1]
    BY <1>0, <1>4, HeadTailProperties, EmptySeq DEF Write
  <2>2. \A i \in 1..Len(outbox') : i + 1 \in 1..Len(outbox)
    BY <1>0, <2>1
  <2>3. outbox[1].status \in ended[outbox[1].id] /\ outbox[1].id \in Commands
    BY <1>0, <2>1 DEF Truthful
  <2>4. \A c \in Commands :
          acked'[c] = IF c = outbox[1].id THEN acked[c] \cup {outbox[1].status} ELSE acked[c]
    BY <1>4, <2>1, <2>3 DEF Write, TypeOK
  <2>5. UNCHANGED <<ended, begun, step, hand, status>>
    BY <1>4 DEF Write
  <2>6. \A c \in Commands : acked'[c] \subseteq ended'[c]
    BY <2>3, <2>4, <2>5 DEF Truthful
  <2>7. QED
    BY <2>1, <2>2, <2>5, <2>6 DEF Truthful
<1>5. CASE Begin
  <2>1. /\ hand[1] \in Commands /\ hand[2] \in 1..MaxCopies
        /\ begun \in [Commands -> 0..MaxCopies]
    BY <1>5, CopyFields DEF Begin, TypeOK
  <2>2. \A c \in Commands : begun'[c] = IF c = hand[1] THEN hand[2] ELSE begun[c]
    BY <1>5, <2>1 DEF Begin
  <2>3. UNCHANGED <<acked, ended, outbox, hand>> /\ step' = "working"
    BY <1>5 DEF Begin
  <2>4. QED
    BY <2>1, <2>2, <2>3 DEF Truthful
<1>6. CASE Publish
  <2>1. /\ hand[1] \in Commands /\ status \in Statuses /\ status \in ended[hand[1]]
    BY <1>6, CopyFields DEF Publish, TypeOK, Truthful
  <2> DEFINE r == [id |-> hand[1], status |-> status]
  <2>2. r \in ResultMsg /\ r.id = hand[1] /\ r.status = status
    BY <2>1 DEF ResultMsg
  <2>3. UNCHANGED <<acked, ended, begun>> /\ step' = "idle"
        /\ outbox' \in {outbox, Append(outbox, r)}
    BY <1>6 DEF Publish
  <2> HIDE DEF r
  <2>4. \A i \in 1..Len(outbox') : outbox'[i].status \in ended[outbox'[i].id]
    BY <1>0, <2>1, <2>2, <2>3, AppendProperties DEF Truthful
  <2>5. QED
    BY <2>3, <2>4 DEF Truthful
<1>7. CASE TurnDown
  BY <1>7, ReturnsTruthful DEF TurnDown, Returns, Statuses
<1>8. ASSUME NEW s \in Statuses, WorkEnds(s)
      PROVE  Truthful'
  BY <1>8, ReturnsTruthful DEF WorkEnds, Returns
<1>9. CASE Take
  BY <1>9 DEF Take, Truthful
<1>10. CASE Exit \/ Crash
  BY <1>3, <1>10 DEF Exit, Crash
<1>11. CASE Subscribe
  BY <1>1, <1>3, <1>11 DEF Subscribe
<1>12. CASE Drain \/ Disconnect \/ GiveUp
  <2>1. outbox' = outbox \/ outbox' = <<>>
    BY <1>12 DEF Drain, Disconnect, GiveUp
  <2>2. UNCHANGED <<acked, ended, begun, step, hand, status>>
    BY <1>12 DEF Drain, Disconnect, GiveUp
  <2>3. QED
    BY <1>2, <2>1, <2>2
<1>13. CASE \/ \E c \in Commands : Arrive(c) \/ Miss(c) \/ TimeOut(c)
            \/ Start \/ Listen \/ Signal \/ Boot \/ Reconnect \/ UNCHANGED vars
  BY <1>1, <1>13 DEF Arrive, Miss, TimeOut, Start, Listen, Signal, Boot, Reconnect, vars
<1>14. QED
  BY <1>4, <1>5, <1>6, <1>7, <1>8, <1>9, <1>10, <1>11, <1>12, <1>13
     DEF Next, Ask, Process, StopAgent, Handler, Statuses

\* The platform never takes anything for the end of a command that Dispatch
\* did not return for it, and no command for completed that was not begun.
THEOREM AnswersAreTrueAlways == Spec => []AnswersAreTrue
<1>1. Init => Truthful
  <2> SUFFICES ASSUME Init PROVE Truthful
    OBVIOUS
  <2>1. Len(outbox) = 0
    BY EmptySeq DEF Init
  <2>2. QED
    BY <2>1 DEF Init, Truthful
<1>2. TypeOK /\ Truthful /\ [Next]_vars => Truthful'
  BY TruthfulStep
<1>3. Truthful => AnswersAreTrue
  BY DEF Truthful, AnswersAreTrue
<1>4. QED
  BY <1>1, <1>2, <1>3, TypeCorrect, PTL DEF Spec

-----------------------------------------------------------------------------
(* What a repeated command costs. *)

\* The next arrival of c has been paid for: its last copy left no result behind,
\* or the platform has given up on it.
Due(c) == acked[c] = {} /\ (c \notin awaited \/ ~Outstanding(c))

LinkLost    == link \in {"reconnecting", "closed"}
Doubtful(c) == Due(c) \/ LinkLost
One(b)      == IF b THEN 1 ELSE 0

\* Every fault pays for one more arrival: it makes the arrival due, or it leaves
\* the connection or the process in a state in which the copy and the result that
\* are on their way may yet be lost without another fault.
Charged ==
  NoRestartYet =>
    /\ machine = "up"
    /\ \A c \in Commands : copies[c] + One(Doubtful(c)) + One(Cancelled) <= 1 + faults

\* A process that is up has had a connection.
Linked == link = "none" => phase = "down"

\* A status that Dispatch has returned stays in the history.
LEMMA RestartRemembered == ASSUME TypeOK, [Next]_vars, NoRestartYet' PROVE NoRestartYet
<1>1. ASSUME step # "idle", NEW s \in Statuses, Returns(s) PROVE NoRestartYet
  <2>1. hand[1] \in Commands /\ ended \in [Commands -> SUBSET Statuses]
    BY <1>1, CopyFields DEF TypeOK
  <2>2. \A c \in Commands : ended[c] \subseteq ended'[c]
    BY <1>1, <2>1 DEF Returns
  <2>3. QED
    BY <2>2, CommandsAssumption DEF NoRestartYet
<1>2. CASE ended' = ended
  BY <1>2 DEF NoRestartYet
<1>3. CASE TurnDown
  BY <1>1, <1>3 DEF TurnDown, Statuses
<1>4. ASSUME NEW s \in Statuses, WorkEnds(s) PROVE NoRestartYet
  BY <1>1, <1>4 DEF WorkEnds
<1>5. QED
  BY <1>2, <1>3, <1>4
     DEF Next, Ask, Arrive, Miss, TimeOut, Process, Start, Subscribe, Listen, Signal, Drain,
         Exit, Crash, StopAgent, Boot, Vanish, Disconnect, Reconnect, GiveUp, Write,
         Handler, Take, Begin, Publish, Statuses, vars

\* While no command has restarted the machine, whatever stops the agent is a fault.
LEMMA StopIsFault ==
  ASSUME machine = "up", FaultUnlessRestarting PROVE Fault
BY DEF FaultUnlessRestarting

\* The account of one step: what it adds to the faults covers what it adds to the
\* arrivals and to the arrivals that have been paid for.
LEMMA Paid ==
  ASSUME TypeOK, Charged, NoRestartYet, machine' = "up", faults' \in Nat,
         \A c \in Commands :
           /\ copies'[c] \in Nat
           /\ copies'[c] - copies[c] + One(Doubtful(c)') - One(Doubtful(c))
                + One(Cancelled') - One(Cancelled) <= faults' - faults
  PROVE  Charged'
<1>1. /\ faults \in Nat /\ \A c \in Commands : copies[c] \in Nat
      /\ One(Cancelled) \in Nat /\ One(Cancelled') \in Nat
  BY BoundsAssumption DEF TypeOK, One
<1>2. \A c \in Commands : One(Doubtful(c)) \in Nat /\ One(Doubtful(c)') \in Nat
  BY DEF One
<1>3. \A c \in Commands : copies[c] + One(Doubtful(c)) + One(Cancelled) <= 1 + faults
  BY DEF Charged
<1>4. \A c \in Commands : copies'[c] + One(Doubtful(c)') + One(Cancelled') <= 1 + faults'
  BY <1>1, <1>2, <1>3
<1>5. QED
  BY <1>4 DEF Charged, One, Doubtful, LinkLost, Cancelled

\* A step without an arrival, after which nothing is in doubt that was not before.
LEMMA Free ==
  ASSUME TypeOK, Charged, NoRestartYet, machine' = "up", copies' = copies,
         faults' \in Nat, faults <= faults', Cancelled' => Cancelled,
         \A c \in Commands : Doubtful(c)' => Doubtful(c)
  PROVE  Charged'
<1>1. faults \in Nat /\ \A c \in Commands : copies[c] \in Nat
  BY BoundsAssumption DEF TypeOK
<1>2. One(Cancelled') - One(Cancelled) <= 0
  BY DEF One
<1>3. \A c \in Commands : One(Doubtful(c)') - One(Doubtful(c)) <= 0
  BY DEF One
<1>4. /\ One(Cancelled) \in Nat /\ One(Cancelled') \in Nat
      /\ \A c \in Commands : One(Doubtful(c)) \in Nat /\ One(Doubtful(c)') \in Nat
  BY DEF One
<1>5. \A c \in Commands :
        /\ copies'[c] \in Nat
        /\ copies'[c] - copies[c] + One(Doubtful(c)') - One(Doubtful(c))
             + One(Cancelled') - One(Cancelled) <= faults' - faults
  BY <1>1, <1>2, <1>3, <1>4
<1>6. QED
  BY <1>5, Paid

\* A fault pays for whatever it puts in doubt.
LEMMA PaidByFault ==
  ASSUME TypeOK, Charged, NoRestartYet, machine' = "up", copies' = copies,
         Fault, Cancelled' => Cancelled
  PROVE  Charged'
<1>1. faults \in Nat /\ faults' = faults + 1 /\ \A c \in Commands : copies[c] \in Nat
  BY BoundsAssumption DEF TypeOK, Fault
<1>2. One(Cancelled') - One(Cancelled) <= 0
  BY DEF One
<1>3. \A c \in Commands : One(Doubtful(c)') - One(Doubtful(c)) <= 1
  BY DEF One
<1>4. /\ One(Cancelled) \in Nat /\ One(Cancelled') \in Nat
      /\ \A c \in Commands : One(Doubtful(c)) \in Nat /\ One(Doubtful(c)') \in Nat
  BY DEF One
<1>5. \A c \in Commands :
        /\ copies'[c] \in Nat
        /\ copies'[c] - copies[c] + One(Doubtful(c)') - One(Doubtful(c))
             + One(Cancelled') - One(Cancelled) <= faults' - faults
  BY <1>1, <1>2, <1>3, <1>4
<1>6. QED
  BY <1>1, <1>5, Paid

LEMMA LinkedStep == ASSUME Linked, [Next]_vars PROVE Linked'
BY DEF Linked, Next, Ask, Arrive, Miss, TimeOut, Process, Start, Subscribe, Listen, Signal,
       Drain, Exit, Crash, StopAgent, Boot, Vanish, Disconnect, Reconnect, GiveUp, Write,
       Handler, Take, Begin, TurnDown, WorkEnds, Returns, Publish, vars

LEMMA ElementsOfAppend ==
  ASSUME NEW S, NEW q \in Seq(S), NEW e \in S
  PROVE  Elements(q) \subseteq Elements(Append(q, e)) /\ e \in Elements(Append(q, e))
<1>1. /\ Len(q) \in Nat /\ DOMAIN q = 1..Len(q)
      /\ DOMAIN Append(q, e) = 1..(Len(q) + 1)
      /\ \A i \in 1..Len(q) : Append(q, e)[i] = q[i]
      /\ Append(q, e)[Len(q) + 1] = e
  BY AppendProperties, LenProperties
<1>2. Len(q) + 1 \in 1..(Len(q) + 1) /\ \A i \in 1..Len(q) : i \in 1..(Len(q) + 1)
  BY <1>1
<1>3. QED
  BY <1>1, <1>2 DEF Elements

LEMMA ElementsOfTail ==
  ASSUME NEW S, NEW q \in Seq(S), q # <<>>
  PROVE  \A e \in Elements(q) : e = Head(q) \/ e \in Elements(Tail(q))
<1>1. /\ Len(q) \in Nat /\ DOMAIN q = 1..Len(q) /\ Head(q) = q[1]
      /\ DOMAIN Tail(q) = 1..(Len(q) - 1)
      /\ \A i \in 1..(Len(q) - 1) : Tail(q)[i] = q[i + 1]
  BY HeadTailProperties, LenProperties
<1>2. ASSUME NEW i \in 1..Len(q), i # 1
      PROVE  i - 1 \in 1..(Len(q) - 1) /\ Tail(q)[i - 1] = q[i]
  <2>1. i - 1 \in 1..(Len(q) - 1) /\ (i - 1) + 1 = i
    BY <1>1, <1>2
  <2>2. QED
    BY <1>1, <2>1
<1>3. ASSUME NEW i \in DOMAIN q
      PROVE  q[i] = Head(q) \/ q[i] \in Elements(Tail(q))
  <2>1. i = 1 => q[i] = Head(q)
    BY <1>1
  <2>2. i # 1 => i - 1 \in DOMAIN Tail(q) /\ Tail(q)[i - 1] = q[i]
    BY <1>1, <1>2
  <2>3. i # 1 => q[i] \in Elements(Tail(q))
    BY <2>2 DEF Elements
  <2>4. QED
    BY <2>1, <2>3
<1>4. QED
  BY <1>3 DEF Elements

\* The handler and the connection pass a command on without losing it.
LEMMA TakePasses ==
  ASSUME TypeOK, Take, NEW c \in Commands, Outstanding(c) PROVE Outstanding(c)'
<1>1. \A p \in Elements(inbox) : p = Head(inbox) \/ p \in Elements(Tail(inbox))
  BY ElementsOfTail DEF Take, TypeOK
<1>2. QED
  BY <1>1 DEF Take, Outstanding

LEMMA WritePasses ==
  ASSUME TypeOK, Write, NEW c \in Commands, Outstanding(c), c # Head(outbox).id
  PROVE  Outstanding(c)'
<1>1. \A r \in Elements(outbox) : r = Head(outbox) \/ r \in Elements(Tail(outbox))
  BY ElementsOfTail DEF Write, TypeOK
<1>2. QED
  BY <1>1 DEF Write, Outstanding

LEMMA PublishPasses ==
  ASSUME TypeOK, Publish, ~LinkLost, NEW c \in Commands, Outstanding(c)
  PROVE  Outstanding(c)'
<1> DEFINE r == [id |-> hand[1], status |-> status]
<1>1. r \in ResultMsg /\ r.id = hand[1]
  BY CopyFields DEF Publish, TypeOK, ResultMsg
<1>2. outbox' = Append(outbox, r) /\ inbox' = inbox
  BY DEF Publish, LinkLost
<1>3. outbox \in Seq(ResultMsg)
  BY DEF TypeOK, ResultMsg
<1> HIDE DEF r
<1>4. Elements(outbox) \subseteq Elements(outbox') /\ r \in Elements(outbox')
  BY <1>1, <1>2, <1>3, ElementsOfAppend
<1>5. QED
  BY <1>1, <1>2, <1>4 DEF Outstanding

LEMMA ArrivePasses ==
  ASSUME TypeOK, NEW d \in Commands, Arrive(d), NEW c \in Commands, Outstanding(c) \/ c = d
  PROVE  Outstanding(c)'
<1> DEFINE p == <<d, copies[d] + 1>>
<1>1. p \in Copies /\ p[1] = d
  BY BoundsAssumption DEF Arrive, TypeOK, Copies
<1>2. inbox \in Seq(Copies) /\ inbox' = Append(inbox, p)
      /\ UNCHANGED <<step, hand, outbox>>
  BY DEF Arrive, TypeOK
<1> HIDE DEF p
<1>3. Elements(inbox) \subseteq Elements(inbox') /\ p \in Elements(inbox')
  BY <1>1, <1>2, ElementsOfAppend
<1>4. QED
  BY <1>1, <1>2, <1>3 DEF Outstanding

LEMMA ChargedStep ==
  ASSUME TypeOK, TypeOK', Linked, Charged, [Next]_vars PROVE Charged'
<1>0. SUFFICES ASSUME NoRestartYet' PROVE Charged'
  BY DEF Charged
<1>1. /\ NoRestartYet /\ machine = "up" /\ faults \in Nat /\ faults' \in Nat
      /\ \A c \in Commands : copies[c] \in Nat /\ copies'[c] \in Nat
  BY <1>0, RestartRemembered, BoundsAssumption DEF Charged, TypeOK
<1>2. ASSUME NEW c \in Commands, Arrive(c) PROVE Charged'
  <2>1. /\ machine' = "up" /\ faults' = faults /\ link = "up"
        /\ \A d \in Commands : copies'[d] = IF d = c THEN copies[d] + 1 ELSE copies[d]
    BY <1>1, <1>2 DEF Arrive, Reachable, TypeOK
  <2>2. One(Doubtful(c)) = 1 /\ One(Doubtful(c)') = 0
    BY <1>2, <2>1, ArrivePasses DEF Arrive, One, Doubtful, Due, LinkLost
  <2>3. \A d \in Commands : d # c => (Doubtful(d)' => Doubtful(d))
    BY <1>2, ArrivePasses DEF Arrive, Doubtful, Due, LinkLost
  <2>4. \A d \in Commands : d # c => One(Doubtful(d)') - One(Doubtful(d)) <= 0
    BY <2>3 DEF One
  <2>5. One(Cancelled') = One(Cancelled) /\ One(Cancelled) \in Nat
        /\ \A d \in Commands : One(Doubtful(d)) \in Nat /\ One(Doubtful(d)') \in Nat
    BY <1>2 DEF Arrive, Cancelled, One
  <2>6. \A d \in Commands :
          copies'[d] - copies[d] + One(Doubtful(d)') - One(Doubtful(d))
            + One(Cancelled') - One(Cancelled) <= faults' - faults
    BY <1>1, <2>1, <2>2, <2>4, <2>5
  <2>7. QED
    BY <1>1, <2>1, <2>6, Paid
<1>3. ASSUME NEW c \in Commands, Miss(c) PROVE Charged'
  <2>1. \A d \in Commands : Doubtful(d)' => Doubtful(d)
    BY <1>3 DEF Miss, Doubtful, Due, LinkLost, Outstanding
  <2>2. QED
    BY <1>1, <1>3, <2>1, Free DEF Miss, Cancelled
<1>4. ASSUME NEW c \in Commands, TimeOut(c) PROVE Charged'
  <2>1. CASE Outstanding(c)
    BY <1>1, <1>4, <2>1, PaidByFault DEF TimeOut, Cancelled
  <2>2. CASE ~Outstanding(c)
    <3>1. \A d \in Commands : Doubtful(d)' => Doubtful(d)
      BY <1>4, <2>2 DEF TimeOut, Doubtful, Due, LinkLost, Outstanding
    <3>2. QED
      BY <1>1, <1>4, <2>2, <3>1, Free DEF TimeOut, Cancelled
  <2>3. QED
    BY <2>1, <2>2
<1>5. CASE Start
  <2>1. \A d \in Commands : Doubtful(d)' => Doubtful(d)
    BY <1>5 DEF Start, Doubtful, Due, LinkLost, Outstanding
  <2>2. QED
    BY <1>1, <1>5, <2>1, Free DEF Start, Fault, Cancelled
<1>6. CASE Subscribe
  <2>1. CASE link = "closed"
    BY <1>1, <1>6, <2>1, Free DEF Subscribe, Vanish, Cancelled, Doubtful, LinkLost
  <2>2. CASE link # "closed"
    <3>1. \A d \in Commands : Doubtful(d)' => Doubtful(d)
      BY <1>6, <2>2 DEF Subscribe, Doubtful, Due, LinkLost, Outstanding
    <3>2. QED
      BY <1>1, <1>6, <2>2, <3>1, Free DEF Subscribe, Cancelled
  <2>3. QED
    BY <2>1, <2>2
<1>7. CASE Signal
  <2>1. \A d \in Commands : One(Doubtful(d)') = One(Doubtful(d)) /\ One(Doubtful(d)) \in Nat
    BY <1>7 DEF Signal, Doubtful, Due, LinkLost, Outstanding, One
  <2>2. One(Cancelled') - One(Cancelled) <= 1 /\ One(Cancelled) \in Nat /\ One(Cancelled') \in Nat
    BY DEF One
  <2>3. faults' = faults + 1 /\ machine' = "up" /\ copies' = copies
    BY <1>1, <1>7, StopIsFault DEF Signal, Fault
  <2>4. \A d \in Commands :
          copies'[d] - copies[d] + One(Doubtful(d)') - One(Doubtful(d))
            + One(Cancelled') - One(Cancelled) <= faults' - faults
    BY <1>1, <2>1, <2>2, <2>3
  <2>5. QED
    BY <1>1, <2>3, <2>4, Paid
<1>8. CASE Drain
  <2>1. \A d \in Commands : Doubtful(d)' => Doubtful(d)
    BY <1>8 DEF Drain, Linked, TypeOK, Doubtful, Due, LinkLost, Outstanding
  <2>2. QED
    BY <1>1, <1>8, <2>1, Free DEF Drain, Cancelled
<1>9. CASE Exit
  <2>1. One(Cancelled') = 0 /\ One(Cancelled) = 1
    BY <1>9 DEF Exit, Vanish, Cancelled, One
  <2>2. faults' = faults /\ machine' = "up" /\ copies' = copies
    BY <1>1, <1>9 DEF Exit
  <2>3. \A d \in Commands : /\ One(Doubtful(d)') - One(Doubtful(d)) <= 1
                            /\ One(Doubtful(d)) \in Nat /\ One(Doubtful(d)') \in Nat
    BY DEF One
  <2>4. \A d \in Commands :
          copies'[d] - copies[d] + One(Doubtful(d)') - One(Doubtful(d))
            + One(Cancelled') - One(Cancelled) <= faults' - faults
    BY <1>1, <2>1, <2>2, <2>3
  <2>5. QED
    BY <1>1, <2>2, <2>4, Paid
<1>10. CASE Crash
  BY <1>1, <1>10, StopIsFault, PaidByFault DEF Crash, Vanish, Cancelled
<1>11. CASE Disconnect
  BY <1>1, <1>11, PaidByFault DEF Disconnect, Cancelled
<1>12. CASE Reconnect \/ GiveUp
  BY <1>1, <1>12, Free DEF Reconnect, GiveUp, Cancelled, Doubtful, LinkLost
<1>13. CASE Write
  <2>1. Head(outbox).id \in Commands /\ Head(outbox).status \in Statuses
    BY <1>13, HeadTailProperties DEF Write, TypeOK
  <2>2. acked'[Head(outbox).id] # {}
    BY <1>13, <2>1 DEF Write, TypeOK
  <2>3. \A d \in Commands : d # Head(outbox).id =>
          acked'[d] = acked[d] /\ (d \in awaited' <=> d \in awaited)
    BY <1>13, <2>1 DEF Write, TypeOK
  <2>4. \A d \in Commands : Doubtful(d)' => Doubtful(d)
    BY <1>13, <2>2, <2>3, WritePasses DEF Write, Doubtful, Due, LinkLost
  <2>5. QED
    BY <1>1, <1>13, <2>4, Free DEF Write, Cancelled
<1>14. CASE Take
  <2>1. \A d \in Commands : Doubtful(d)' => Doubtful(d)
    BY <1>14, TakePasses DEF Take, Doubtful, Due, LinkLost
  <2>2. QED
    BY <1>1, <1>14, <2>1, Free DEF Take, Cancelled
<1>15. CASE Begin
  <2>1. \A d \in Commands : Doubtful(d)' => Doubtful(d)
    BY <1>15 DEF Begin, Doubtful, Due, LinkLost, Outstanding
  <2>2. QED
    BY <1>1, <1>15, <2>1, Free DEF Begin, Cancelled
<1>16. ASSUME step # "idle", NEW s \in Statuses, Returns(s), machine' = machine
       PROVE  Charged'
  <2>1. \A d \in Commands : Doubtful(d)' => Doubtful(d)
    BY <1>16 DEF Returns, Doubtful, Due, LinkLost, Outstanding
  <2>2. QED
    BY <1>1, <1>16, <2>1, Free DEF Returns, Cancelled
<1>17. CASE TurnDown
  BY <1>16, <1>17 DEF TurnDown, Statuses
<1>18. ASSUME NEW s \in Statuses, WorkEnds(s) PROVE Charged'
  <2>1. hand[1] \in Commands /\ ended \in [Commands -> SUBSET Statuses]
    BY <1>18, CopyFields DEF WorkEnds, TypeOK
  <2>2. s \in ended'[hand[1]]
    BY <1>18, <2>1 DEF WorkEnds, Returns
  <2>3. machine' = machine
    BY <1>0, <1>18, <2>2 DEF WorkEnds, NoRestartYet
  <2>4. QED
    BY <1>16, <1>18, <2>3 DEF WorkEnds
<1>19. CASE Publish
  <2>1. \A d \in Commands : Doubtful(d)' => Doubtful(d)
    BY <1>19, PublishPasses DEF Publish, Doubtful, Due, LinkLost
  <2>2. QED
    BY <1>1, <1>19, <2>1, Free DEF Publish, Fault, Cancelled
<1>20. CASE Listen \/ UNCHANGED vars
  <2>1. \A d \in Commands : Doubtful(d)' => Doubtful(d)
    BY <1>20 DEF Listen, vars, Doubtful, Due, LinkLost, Outstanding
  <2>2. QED
    BY <1>1, <1>20, <2>1, Free DEF Listen, vars, Cancelled
<1>21. CASE Boot
  BY <1>1, <1>21 DEF Boot
<1>22. QED
  BY <1>2, <1>3, <1>4, <1>5, <1>6, <1>7, <1>8, <1>9, <1>10, <1>11, <1>12, <1>13, <1>14,
     <1>15, <1>17, <1>18, <1>19, <1>20, <1>21
     DEF Next, Ask, Process, StopAgent, Handler, Statuses

\* For any commands, pending limit and number of faults: until a command has
\* restarted the machine, no command arrives more than once without a fault, and
\* each fault brings it at most one more time.
THEOREM EveryRepeatHasAFaultAlways == Spec => []EveryRepeatHasAFault
<1>1. Init => Linked /\ Charged
  <2> SUFFICES ASSUME Init PROVE Linked /\ Charged
    OBVIOUS
  <2>1. /\ \A c \in Commands : copies[c] = 0
        /\ \A c \in Commands : One(Doubtful(c)) <= 1 /\ One(Doubtful(c)) \in Nat
    <3>1. \A c \in Commands : copies[c] = 0
      BY DEF Init
    <3>2. QED
      BY <3>1 DEF One
  <2>2. One(Cancelled) = 0 /\ faults = 0 /\ machine = "up"
    BY DEF Init, One, Cancelled
  <2>3. QED
    BY <2>1, <2>2 DEF Init, Linked, Charged
<1>2. TypeOK /\ TypeOK' /\ Linked /\ Charged /\ [Next]_vars => Linked' /\ Charged'
  BY LinkedStep, ChargedStep
<1>3. TypeOK /\ Charged => EveryRepeatHasAFault
  <2> SUFFICES ASSUME TypeOK, Charged, NoRestartYet, NEW c \in Commands
               PROVE  copies[c] <= 1 + faults
    BY DEF EveryRepeatHasAFault
  <2>1. /\ copies[c] + One(Doubtful(c)) + One(Cancelled) <= 1 + faults
        /\ copies[c] \in Nat /\ faults \in Nat
        /\ One(Doubtful(c)) \in Nat /\ One(Cancelled) \in Nat
    BY BoundsAssumption DEF Charged, TypeOK, One
  <2>2. QED
    BY <2>1
<1>4. QED
  BY <1>1, <1>2, <1>3, TypeCorrect, PTL DEF Spec

-----------------------------------------------------------------------------
(* The promise to the platform. *)

LEMMA OrderedAlways == Spec => [](TypeOK /\ Ordered /\ Truthful)
<1>1. Init => Ordered /\ Truthful
  BY EmptySeq DEF Init, Ordered, Truthful
<1>2. TypeOK /\ Ordered /\ Truthful /\ [Next]_vars => Ordered' /\ Truthful'
  BY OrderedStep, TruthfulStep
<1>3. QED
  BY <1>1, <1>2, TypeCorrect, PTL DEF Spec

\* What the platform and the handler do not notice.
Unnoticed == UNCHANGED <<copies, begun, ended, acked, step, hand, status>>

LEMMA UnnoticedSteps ==
  (\/ \E c \in Commands : Miss(c) \/ TimeOut(c)
   \/ Start \/ Listen \/ Signal \/ Drain \/ Boot
   \/ Disconnect \/ GiveUp \/ Reconnect \/ UNCHANGED vars) => Unnoticed
BY DEF Miss, TimeOut, Start, Listen, Signal, Drain, Boot,
       Disconnect, GiveUp, Reconnect, vars, Unnoticed

\* For any commands, faults and restarts, the agent among its surroundings
\* implements Delivery.
THEOREM DeliveryImplemented == Spec => ImplementsDelivery
<1>1. Init => Promise!Init
  BY DEF Init, Promise!Init, Promise!HandlerInit, Promise!NoCopy, Promise!NoStatus,
         NoCopy, NoStatus
<1>2. TypeOK /\ Ordered /\ Truthful /\ [Next]_vars => [Promise!Next]_Promise!vars
  <2> SUFFICES ASSUME TypeOK, Ordered, Truthful, [Next]_vars
               PROVE  [Promise!Next]_Promise!vars
    OBVIOUS
  <2> USE DEF Promise!vars, Promise!handlerVars
  <2>1. CASE Unnoticed
    BY <2>1 DEF Unnoticed
  <2>2. ASSUME NEW c \in Commands, Arrive(c)
        PROVE  Promise!Next
    <3>1. Promise!Arrive(c)
      BY <2>2 DEF Arrive, Promise!Arrive
    <3>2. QED
      BY <3>1 DEF Promise!Next
  <2>3. ASSUME Vanish, UNCHANGED <<copies, acked, begun, ended>>
        PROVE  Promise!Next
    <3>1. Promise!Lose
      BY <2>3 DEF Vanish, Promise!Lose, Promise!Idle, Promise!NoCopy, Promise!NoStatus,
                  NoCopy, NoStatus
    <3>2. QED
      BY <2>3, <3>1 DEF Promise!LetGo, Promise!Next
  <2>4. CASE Take
    <3>1. /\ 1 \in 1..Len(inbox) /\ Head(inbox) = inbox[1] /\ inbox[1] \in Copies
      BY <2>4, EmptySeq, LenProperties, ElementOfSeq DEF Take, TypeOK
    <3>2. inbox[1][1] \in Commands /\ inbox[1][2] \in 1..MaxCopies
          /\ inbox[1] = << inbox[1][1], inbox[1][2] >>
      BY <3>1 DEF Copies
    <3>3. hand' = inbox[1] /\ hand' \in Commands \X (Nat \ {0})
      BY <2>4, <3>1, <3>2, BoundsAssumption DEF Take
    <3>4. /\ begun[inbox[1][1]] < inbox[1][2] /\ inbox[1][2] <= copies[inbox[1][1]]
          /\ begun[inbox[1][1]] \in Nat /\ copies[inbox[1][1]] \in Nat
      BY <3>1, <3>2, BoundsAssumption DEF Ordered, TypeOK
    <3>5. hand'[2] \in (begun[hand'[1]] + 1)..copies[hand'[1]]
      BY <3>2, <3>3, <3>4, BoundsAssumption
    <3>6. Promise!TakeCopy
      BY <2>4, <3>3, <3>5 DEF Take, Promise!Take, Promise!TakeCopy
    <3>7. QED
      BY <3>6 DEF Promise!Next
  <2>5. CASE TurnDown
    <3>1. Promise!TurnCopyDown
      BY <2>5 DEF TurnDown, Returns, Promise!TurnCopyDown, Promise!TurnDown,
                  Promise!Return, Promise!Ends
    <3>2. QED
      BY <3>1 DEF Promise!Next
  <2>6. CASE Begin
    <3>1. Promise!BeginCopy
      BY <2>6 DEF Begin, Ordered, Promise!BeginCopy, Promise!Begin
    <3>2. QED
      BY <3>1 DEF Promise!Next
  <2>7. ASSUME NEW s \in Statuses, WorkEnds(s)
        PROVE  Promise!Next
    <3>1. Promise!CopyEnds(s)
      BY <2>7 DEF WorkEnds, Returns, Promise!CopyEnds, Promise!WorkEnds,
                  Promise!Return, Promise!Ends
    <3>2. QED
      BY <2>7, <3>1 DEF Promise!Next, Promise!Statuses, Statuses
  <2>8. CASE Publish
    <3>1. Promise!LetGo
      BY <2>8 DEF Publish, Promise!LetGo, Promise!Publish, Promise!Idle,
                  Promise!NoCopy, Promise!NoStatus, NoCopy, NoStatus
    <3>2. QED
      BY <3>1 DEF Promise!Next
  <2>9. CASE Write
    <3>1. 1 \in 1..Len(outbox) /\ Head(outbox) = outbox[1]
      BY <2>9, EmptySeq, LenProperties DEF Write, TypeOK
    <3>2. /\ outbox[1].id \in Commands /\ outbox[1].status \in Statuses
          /\ outbox[1].status \in ended[outbox[1].id]
      BY <3>1, OutboxFields DEF Truthful
    <3>3. Promise!Receive(outbox[1].id, outbox[1].status)
      BY <2>9, <3>1, <3>2 DEF Write, Promise!Receive
    <3>4. QED
      BY <3>2, <3>3 DEF Promise!Next, Promise!Statuses, Statuses
  <2>10. CASE Exit \/ Crash
    BY <2>3, <2>10 DEF Exit, Crash
  <2>11. CASE Subscribe
    BY <2>1, <2>3, <2>11 DEF Subscribe, Unnoticed
  <2>12. QED
    BY <2>1, <2>2, <2>4, <2>5, <2>6, <2>7, <2>8, <2>9, <2>10, <2>11, UnnoticedSteps
       DEF Next, Ask, Process, StopAgent, Handler, Statuses
<1>3. QED
  BY <1>1, <1>2, OrderedAlways, PTL DEF Spec, ImplementsDelivery, Promise!Spec

=============================================================================
