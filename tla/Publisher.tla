------------------------------- MODULE Publisher -------------------------------
(***************************************************************************)
(* The periodic side of the agent (internal/publisher/publisher.go): the   *)
(* heartbeat and telemetry goroutines, their tickers, and the one-slot     *)
(* channel through which SetTelemetryInterval, called by the NATS callback *)
(* goroutine for telemetry.set_interval, hands a new interval to the       *)
(* telemetry loop.                                                         *)
(*                                                                         *)
(* Calls of SetTelemetryInterval are numbered in the order they are made   *)
(* (there is one caller goroutine); calls, returned and applied are        *)
(* histories.  A ticker is its period (0 while it does not exist) and the  *)
(* one tick its channel can hold; when it fires is left open.              *)
(***************************************************************************)
EXTENDS Integers, Sequences

CONSTANTS
  Requests,     \* interval_s values the dispatcher passes on (positive)
  Second,       \* time.Second, in the units of a Duration
  HalfRange,    \* a Duration is in -HalfRange..HalfRange-1 (2^63 in Go)
  Configured,   \* cfg.HeartbeatInterval and cfg.TelemetryInterval
  MaxCalls      \* bound: calls of SetTelemetryInterval

Loops == {"heartbeat", "telemetry"}

ASSUME RequestsAssumption   == Requests \subseteq Nat \ {0}
ASSUME DurationAssumption   == Second \in Nat \ {0} /\ HalfRange \in Nat \ {0}
ASSUME ConfiguredAssumption == Configured \in [Loops -> Int]
ASSUME MaxCallsAssumption   == MaxCalls \in Nat

VARIABLES
  ch,         \* telemetryIntervalCh: at most one <<interval, call number>>
  setPc,      \* the caller: idle, or the statement of SetTelemetryInterval it is at
  setD,       \* the clamped interval of the call in progress
  calls,      \* history: calls made
  returned,   \* history: calls that returned
  applied,    \* history: the call whose interval the telemetry loop uses (0: none)
  loop,       \* where each goroutine is
  interval,   \* the period of each ticker, 0 before NewTicker
  tick,       \* whether each ticker's channel holds a tick
  cancelled   \* ctx.Done()

setVars  == <<setPc, setD, calls, returned>>
loopVars == <<applied, loop, interval, tick>>
vars     == <<ch, setVars, loopVars, cancelled>>

-----------------------------------------------------------------------------
(* Durations. *)

MinTelemetryInterval == 1 * Second

\* time.Duration(p.IntervalS) * time.Second, in two's complement.
Duration(s) == ((s * Second + HalfRange) % (2 * HalfRange)) - HalfRange

\* Mutant: no minimum.
ClampNone(d) == d

Clamp(d) == IF d < MinTelemetryInterval THEN MinTelemetryInterval ELSE d

\* The interval a loop creates its ticker with.
StartInterval(l) == IF Configured[l] <= 0 THEN 30 * Second ELSE Configured[l]

-----------------------------------------------------------------------------
(* SetTelemetryInterval. *)

SetCall(s) ==
  /\ setPc = "idle" /\ calls < MaxCalls
  /\ setPc' = "select"
  /\ setD' = Clamp(Duration(s))
  /\ calls' = calls + 1
  /\ UNCHANGED <<ch, returned, loopVars, cancelled>>

\* Fill the channel and return: calls is the number of the call in progress.
SendAndReturn ==
  /\ ch = <<>>
  /\ ch' = << <<setD, calls>> >>
  /\ setPc' = "idle"
  /\ returned' = calls
  /\ UNCHANGED <<setD, calls, loopVars, cancelled>>

\* Mutant: a channel made with room for two.
SetSendTwo ==
  /\ setPc = "select" /\ Len(ch) < 2
  /\ ch' = Append(ch, <<setD, calls>>)
  /\ setPc' = "idle"
  /\ returned' = calls
  /\ UNCHANGED <<setD, calls, loopVars, cancelled>>

\* case p.telemetryIntervalCh <- d
SetSend == setPc = "select" /\ SendAndReturn

\* Mutant: a default case that gives up the new value.
SetFullDrops ==
  /\ setPc = "select" /\ ch # <<>>
  /\ setPc' = "idle"
  /\ returned' = calls
  /\ UNCHANGED <<ch, setD, calls, loopVars, cancelled>>

\* default: the slot is taken
SetFull ==
  /\ setPc = "select" /\ ch # <<>>
  /\ setPc' = "drain"
  /\ UNCHANGED <<ch, setD, calls, returned, loopVars, cancelled>>

\* Mutant: the length of the channel is looked at, and nothing is received.
SetDrainKeeps ==
  /\ setPc = "drain" /\ ch # <<>>
  /\ setPc' = "resend"
  /\ UNCHANGED <<ch, setD, calls, returned, loopVars, cancelled>>

\* <-p.telemetryIntervalCh: blocks while the slot is empty
SetDrain ==
  /\ setPc = "drain" /\ ch # <<>>
  /\ ch' = <<>>
  /\ setPc' = "resend"
  /\ UNCHANGED <<setD, calls, returned, loopVars, cancelled>>

\* p.telemetryIntervalCh <- d
SetResend == setPc = "resend" /\ SendAndReturn

-----------------------------------------------------------------------------
(* The loops.  Each sends once, creates its ticker and enters its select.  *)

Start ==
  /\ \A l \in Loops : loop[l] = "none"
  /\ loop' = [l \in Loops |-> "collect"]
  /\ UNCHANGED <<ch, setVars, applied, interval, tick, cancelled>>

\* Mutant: the ticker is created in every round of the loop.
ToSelectAnew(l) ==
  /\ loop' = [loop EXCEPT ![l] = "select"]
  /\ interval' = [interval EXCEPT ![l] = StartInterval(l)]

\* The send is over, published or not: (create the ticker and) select.
ToSelect(l) ==
  /\ loop' = [loop EXCEPT ![l] = "select"]
  /\ interval' = [interval EXCEPT ![l] = IF @ = 0 THEN StartInterval(l) ELSE @]

\* GetInfo or GetMetrics; on an error the send ends.
Collect(l, ok) ==
  /\ loop[l] = "collect"
  /\ IF ok THEN loop' = [loop EXCEPT ![l] = "evt"] /\ UNCHANGED interval
           ELSE ToSelect(l)
  /\ UNCHANGED <<ch, setVars, applied, tick, cancelled>>

\* Publish to evt; telemetry goes on to the vm subject unless that failed.
PublishEvt(l, ok) ==
  /\ loop[l] = "evt"
  /\ IF ok /\ l = "telemetry" THEN loop' = [loop EXCEPT ![l] = "vm"] /\ UNCHANGED interval
                              ELSE ToSelect(l)
  /\ UNCHANGED <<ch, setVars, applied, tick, cancelled>>

PublishTelemetry ==
  /\ loop["telemetry"] = "vm"
  /\ ToSelect("telemetry")
  /\ UNCHANGED <<ch, setVars, applied, tick, cancelled>>

\* case <-ticker.C
TakeTick(l) ==
  /\ loop[l] = "select" /\ tick[l]
  /\ tick' = [tick EXCEPT ![l] = FALSE]
  /\ loop' = [loop EXCEPT ![l] = "collect"]
  /\ UNCHANGED <<ch, setVars, applied, interval, cancelled>>

\* Mutant: the value is received and the ticker keeps its period.
TakeIntervalOnly ==
  /\ loop["telemetry"] = "select" /\ ch # <<>>
  /\ ch' = <<>>
  /\ loop' = [loop EXCEPT !["telemetry"] = "collect"]
  /\ UNCHANGED <<setVars, applied, interval, tick, cancelled>>

\* case newInterval := <-p.telemetryIntervalCh: Reset (which discards a tick
\* of the old period), then an immediate snapshot.
TakeInterval ==
  /\ loop["telemetry"] = "select" /\ ch # <<>>
  /\ ch' = <<>>
  /\ interval' = [interval EXCEPT !["telemetry"] = ch[1][1]]
  /\ applied' = ch[1][2]
  /\ tick' = [tick EXCEPT !["telemetry"] = FALSE]
  /\ loop' = [loop EXCEPT !["telemetry"] = "collect"]
  /\ UNCHANGED <<setVars, cancelled>>

\* Mutant: break, which leaves the select and not the loop.
QuitBreaks(l) == loop[l] = "select" /\ cancelled /\ UNCHANGED vars

\* case <-ctx.Done(): return, which stops the ticker.
Quit(l) ==
  /\ loop[l] = "select" /\ cancelled
  /\ loop' = [loop EXCEPT ![l] = "done"]
  /\ UNCHANGED <<ch, setVars, applied, interval, tick, cancelled>>

\* The runtime fires a ticker; a tick that finds the channel full is lost.
Fire(l) ==
  /\ interval[l] # 0 /\ loop[l] # "done" /\ ~tick[l]
  /\ tick' = [tick EXCEPT ![l] = TRUE]
  /\ UNCHANGED <<ch, setVars, applied, loop, interval, cancelled>>

\* main cancels the context on SIGINT or SIGTERM.
Cancel ==
  /\ ~cancelled /\ \A l \in Loops : loop[l] # "none"
  /\ cancelled' = TRUE
  /\ UNCHANGED <<ch, setVars, loopVars>>

-----------------------------------------------------------------------------

Init ==
  /\ ch = <<>>
  /\ setPc = "idle" /\ setD = MinTelemetryInterval
  /\ calls = 0 /\ returned = 0 /\ applied = 0
  /\ loop = [l \in Loops |-> "none"]
  /\ interval = [l \in Loops |-> 0]
  /\ tick = [l \in Loops |-> FALSE]
  /\ cancelled = FALSE

Setter == SetSend \/ SetFull \/ SetDrain \/ SetResend

\* A goroutine between two selects; Collect and Publish take bounded time.
Send(l) ==
  \/ \E ok \in BOOLEAN : Collect(l, ok) \/ PublishEvt(l, ok)
  \/ l = "telemetry" /\ PublishTelemetry

Next ==
  \/ \E s \in Requests : SetCall(s)
  \/ Setter
  \/ Start
  \/ \E l \in Loops : Send(l) \/ TakeTick(l) \/ Quit(l) \/ Fire(l)
  \/ TakeInterval
  \/ Cancel

Spec == Init /\ [][Next]_vars

\* Goroutines run, tickers fire, and a select that finds several cases ready
\* picks one of them at random, so that no case is passed over for ever.
FairSpec ==
  /\ Spec
  /\ WF_vars(Setter) /\ WF_vars(Start)
  /\ \A l \in Loops : WF_vars(Send(l)) /\ WF_vars(Fire(l))
                      /\ SF_vars(TakeTick(l)) /\ SF_vars(Quit(l))
  /\ SF_vars(TakeInterval)

-----------------------------------------------------------------------------
(* Properties. *)

Updates == Int \X Nat

\* Types of the state; the channel never holds more than its one slot.
TypeOK ==
  /\ ch \in Seq(Updates) /\ Len(ch) <= 1
  /\ setPc \in {"idle", "select", "drain", "resend"}
  /\ setD \in Int
  /\ calls \in Nat /\ returned \in Nat /\ applied \in Nat
  /\ loop \in [Loops -> {"none", "collect", "evt", "vm", "select", "done"}]
  /\ interval \in [Loops -> Int]
  /\ tick \in [Loops -> BOOLEAN]
  /\ cancelled \in BOOLEAN

\* "If a pending update is already queued, drop it and replace with the newest
\* value": no update whose call returned is lost, except to a newer one.  What
\* waits in the channel is the newest interval that SetTelemetryInterval
\* returned, and while nothing waits there (and no replacement is under way)
\* the telemetry loop runs at that interval (publisher.go SetTelemetryInterval,
\* telemetryLoop).
NewestWins ==
  /\ ch # <<>> => ch[1][2] = returned
  /\ ch = <<>> /\ setPc # "resend" => applied = returned

\* time.NewTicker and Ticker.Reset panic on a period that is not positive:
\* whatever the configuration and the requested seconds, even when their
\* conversion to a Duration wraps around, every ticker has a positive period,
\* and one that came from SetTelemetryInterval is at least the minimum.
TickersNeverPanic ==
  /\ \A l \in Loops : loop[l] \in {"select", "done"} => interval[l] > 0
  /\ applied > 0 => interval["telemetry"] >= MinTelemetryInterval
  /\ ch # <<>> => ch[1][1] >= MinTelemetryInterval

\* Every update whose call returned is applied or replaced by a newer one that
\* is, unless the agent shuts down.
UpdateIsApplied ==
  \A k \in 1..MaxCalls : (returned >= k) ~> (applied >= k \/ cancelled)

\* Heartbeats and telemetry keep being collected until shutdown, whatever errors
\* the sends meet and whatever happens to the callers of SetTelemetryInterval,
\* and both goroutines end after the context is cancelled, wherever they are
\* (heartbeatLoop, telemetryLoop).
LoopsRunUntilCancelled ==
  /\ \A l \in Loops : []<>(loop[l] = "collect" \/ cancelled)
  /\ cancelled ~> \A l \in Loops : loop[l] = "done"

\* A call waits for the channel only in the drain, after the telemetry loop
\* has applied all that was asked for before, and then for good: the interval
\* of that call, and no other, is lost, and no other call is ever made, since
\* the caller is the one goroutine that handles commands (SetTelemetryInterval).
Blocked == \/ setPc = "drain"  /\ ch = <<>>
           \/ setPc = "resend" /\ ch # <<>>

BlockedForGood ==
  [][Blocked => /\ applied = calls - 1
                /\ Blocked' /\ UNCHANGED <<calls, applied>>]_vars

(* The abstract register that the hand-over implements.  A call whose drain *)
(* has emptied the channel has taken effect: nobody else can fill it.       *)

InCall   == << <<setD, calls>> >>
Asked    == IF setPc \in {"select", "drain"} THEN InCall ELSE <<>>
Held     == IF setPc = "resend" THEN InCall ELSE ch
Used     == IF applied = 0 THEN <<>> ELSE << <<interval["telemetry"], applied>> >>

Register == INSTANCE IntervalRegister WITH
  Periods <- {Clamp(Duration(s)) : s \in Requests},
  count <- calls, asked <- Asked, held <- Held, used <- Used

\* However the caller and the telemetry loop interleave, and however sends fail,
\* every call of SetTelemetryInterval takes effect at one moment, and the period
\* of the telemetry ticker is the configured one or the last to have taken
\* effect when the loop looked (SetTelemetryInterval, telemetryLoop).
ImplementsRegister == Register!Spec

(* What a comment says. *)

\* "Non-blocking send": a call of SetTelemetryInterval returns.
SetIntervalReturns == (setPc # "idle") ~> (setPc = "idle")

=============================================================================
