------------------------------ MODULE Dispatcher ------------------------------
(***************************************************************************)
(* The command path of the agent: the NATS subscription callback           *)
(* (internal/nats/client.go), Dispatcher.Dispatch and Dispatcher.run       *)
(* (internal/dispatcher/dispatcher.go) and the closure of cmd/agent/main.go*)
(* that publishes the result.  nats.go calls the callback of one           *)
(* subscription from one goroutine, so there is one handler, and a command *)
(* waits in the subscription's pending list while another one runs.        *)
(*                                                                         *)
(* A message keeps what the control flow looks at: whether the envelope    *)
(* and the payload decode, the version, the reply subject, the operation,  *)
(* and the shape and fields of the params.  handled, answers and effects   *)
(* are histories: commands given to Dispatch, results handed to Publish,   *)
(* and what was done to the machine (or published) on behalf of a command. *)
(***************************************************************************)
EXTENDS Integers, Sequences

CONSTANTS
  Messages,           \* the raw messages that may arrive on the cmd subject
  AllowedOperations,  \* cfg.Agent.AllowedOperations
  AllowedCommands,    \* cfg.Agent.AllowedCommands
  PendingLimit,       \* pending messages the subscription holds (nats.go)
  MaxDeliveries       \* bound: messages that arrive during a behaviour

QueryOps == {"system.info", "system.metrics", "system.cpu", "system.memory",
             "system.disk", "system.network", "services.list", "services.get"}
ServiceActions == {"services.start", "services.stop", "services.restart",
                   "services.reload", "services.enable", "services.disable"}
PowerOps == {"vm.reboot", "vm.shutdown"}
KnownOps == QueryOps \cup ServiceActions \cup PowerOps \cup
              {"system.update", "agent.allowed_operations",
               "telemetry.set_interval", "exec"}

RawParams == {"", "null", "[]", "{}", "object", "malformed"}

Message == [id : STRING, json : BOOLEAN, v : Int, replyTo : STRING,
            payload : BOOLEAN, op : STRING, params : RawParams,
            command : STRING, interval : Int]

ASSUME MessagesAssumption == Messages \subseteq Message
ASSUME BoundsAssumption   == PendingLimit \in Nat /\ MaxDeliveries \in Nat

VARIABLES
  inbox,      \* the subscription's pending list
  delivered,  \* messages that arrived so far
  pc,         \* where the handler goroutine is
  result,     \* what Dispatch returned, until it is published
  handled,    \* history: the commands given to Dispatch, in order
  answers,    \* history: the results handed to Publish, in order
  effects     \* history: what was started on behalf of the commands

vars == <<inbox, delivered, pc, result, handled, answers, effects>>

Statuses == {"completed", "failed", "rejected"}
Current  == handled[Len(handled)]

-----------------------------------------------------------------------------
(* Pure parts of Dispatch. *)

\* Mutant: the empty array of PHP forgotten.
emptyParamsNoArray(raw) == raw \in {"", "null", "{}"}

\* Raw params that stand for "no params" (PHP sends [] for an empty array).
emptyParams(raw) == raw \in {"", "null", "[]", "{}"}

\* Raw params that encoding/json decodes into the params struct.
Decodes(raw) == raw \in {"null", "{}", "object"}

\* The parameters run sees: the struct's zero values when there were none.
Params(m) == IF emptyParams(m.params)
             THEN [command |-> "", interval |-> 0]
             ELSE [command |-> m.command, interval |-> m.interval]

\* Mutant: no allowlist.
RefusedUngated(m) ==
  \/ ~m.payload
  \/ ~emptyParams(m.params) /\ ~Decodes(m.params)

\* The three rejections of Dispatch, in the order the code tests them.
Refused(m) == \/ ~m.payload
              \/ m.op \notin AllowedOperations
              \/ ~emptyParams(m.params) /\ ~Decodes(m.params)

\* Where the result of m goes: the caller's inbox, or the evt subject.
ReplySubject(m) == IF m.replyTo # "" THEN m.replyTo ELSE "evt"

-----------------------------------------------------------------------------
(* The subscription (external: nats.go). *)

Deliver(m) ==
  /\ delivered < MaxDeliveries
  /\ delivered' = delivered + 1
  /\ Len(inbox) < PendingLimit
  /\ inbox' = Append(inbox, m)
  /\ UNCHANGED <<pc, result, handled, answers, effects>>

\* A slow consumer loses what does not fit; the handler is not told.
Overflow(m) ==
  /\ delivered < MaxDeliveries
  /\ delivered' = delivered + 1
  /\ Len(inbox) >= PendingLimit
  /\ UNCHANGED <<inbox, pc, result, handled, answers, effects>>

\* Mutant: a message that is not taken is delivered again.
DropRedelivered ==
  /\ pc = "idle" /\ inbox # <<>>
  /\ ~Head(inbox).json \/ Head(inbox).v # 1
  /\ inbox' = Append(Tail(inbox), Head(inbox))
  /\ UNCHANGED <<delivered, pc, result, handled, answers, effects>>

(* The callback drops what it cannot read and hands the rest to Dispatch. *)

Drop ==
  /\ pc = "idle" /\ inbox # <<>>
  /\ ~Head(inbox).json \/ Head(inbox).v # 1
  /\ inbox' = Tail(inbox)
  /\ UNCHANGED <<delivered, pc, result, handled, answers, effects>>

\* Mutant: each command is dispatched in a goroutine of its own.
HandleAtOnce ==
  /\ pc \in {"idle", "service", "exec"} /\ inbox # <<>>
  /\ Head(inbox).json /\ Head(inbox).v = 1
  /\ inbox' = Tail(inbox)
  /\ handled' = Append(handled, Head(inbox))
  /\ pc' = "dispatch"
  /\ UNCHANGED <<delivered, result, answers, effects>>

Handle ==
  /\ pc = "idle" /\ inbox # <<>>
  /\ Head(inbox).json /\ Head(inbox).v = 1
  /\ inbox' = Tail(inbox)
  /\ handled' = Append(handled, Head(inbox))
  /\ pc' = "dispatch"
  /\ UNCHANGED <<delivered, result, answers, effects>>

-----------------------------------------------------------------------------
(* Dispatch and run.  success is the success field of an ActionResult (or  *)
(* whether the operation did what it was asked, for the other operations). *)

Return(status, success) ==
  /\ pc' = "publish"
  /\ result' = [status |-> status, success |-> success]
  /\ UNCHANGED <<inbox, delivered, handled, answers>>

\* Mutant: a status the protocol does not have.
ReturnErrStatus(ok) == Return(IF ok THEN "completed" ELSE "error", ok)

\* run's (output, err) pair turned into a result by Dispatch.
ReturnErr(ok) == Return(IF ok THEN "completed" ELSE "failed", ok)

\* Something happens for the current command; done tells how it ended.
ForCurrent(what, done) == [n |-> Len(handled), what |-> what, done |-> done]

Begin(what, next) ==
  /\ effects' = Append(effects, ForCurrent(what, "no"))
  /\ pc' = next
  /\ UNCHANGED <<inbox, delivered, result, handled, answers>>

Ended(ok) == [effects EXCEPT ![Len(effects)].done = IF ok THEN "ok" ELSE "failed"]
End(ok)   == effects' = Ended(ok)

\* Mutant: a refused command is dropped without a result.
RejectSilently ==
  /\ pc = "dispatch" /\ Refused(Current)
  /\ pc' = "idle"
  /\ UNCHANGED <<inbox, delivered, result, handled, answers, effects>>

Reject ==
  /\ pc = "dispatch" /\ Refused(Current)
  /\ Return("rejected", FALSE)
  /\ UNCHANGED effects

Accept ==
  /\ pc = "dispatch" /\ ~Refused(Current)
  /\ pc' = "run"
  /\ UNCHANGED <<inbox, delivered, result, handled, answers, effects>>

Running(ops) == pc = "run" /\ Current.op \in ops

\* Read-only operations: the module answers or returns an error.
Query(ok) ==
  /\ Running(QueryOps)
  /\ ReturnErr(ok)
  /\ UNCHANGED effects

\* A service action on a nil bus fails at once; its error is in the output.
ServiceUnavailable ==
  /\ Running(ServiceActions)
  /\ Return("completed", FALSE)
  /\ UNCHANGED effects

\* Mutant: the job is queued and not waited for.
ServiceCallAsync == Running(ServiceActions) /\ Begin(Current.op, "publish")

ServiceCall == Running(ServiceActions) /\ Begin(Current.op, "service")

\* systemd answered: an ActionResult and a nil error, whatever the job did.
ServiceDone(ok) ==
  /\ pc = "service"
  /\ End(ok)
  /\ Return("completed", ok)

PowerCall == Running(PowerOps) /\ Begin(Current.op, "exec")

\* /etc/os-release cannot be read, or names no apt-based distribution.
UpdateUnsupported ==
  /\ Running({"system.update"})
  /\ Return("failed", FALSE)
  /\ UNCHANGED effects

UpdateCall == Running({"system.update"}) /\ Begin("apt_get_update", "update")

\* Mutant: the upgrade is run although the update failed.
UpdateFailedGoesOn ==
  /\ pc = "update"
  /\ effects' = Append(Ended(FALSE), ForCurrent("apt_get_upgrade", "no"))
  /\ pc' = "exec"
  /\ UNCHANGED <<inbox, delivered, result, handled, answers>>

UpdateFailed ==
  /\ pc = "update"
  /\ End(FALSE)
  /\ Return("failed", FALSE)

\* The update succeeded: run goes straight on to the upgrade.
UpgradeCall ==
  /\ pc = "update"
  /\ effects' = Append(Ended(TRUE), ForCurrent("apt_get_upgrade", "no"))
  /\ pc' = "exec"
  /\ UNCHANGED <<inbox, delivered, result, handled, answers>>

\* The capabilities event goes to evt before the result; SendCapabilities
\* returns a nil error even when that publish failed.
SendCapabilities(ok) ==
  /\ Running({"agent.allowed_operations"})
  /\ effects' = Append(effects, ForCurrent("capabilities", IF ok THEN "ok" ELSE "failed"))
  /\ Return("completed", TRUE)

BadInterval ==
  /\ Running({"telemetry.set_interval"}) /\ Params(Current).interval <= 0
  /\ Return("failed", FALSE)
  /\ UNCHANGED effects

SetIntervalCall ==
  /\ Running({"telemetry.set_interval"}) /\ Params(Current).interval > 0
  /\ Begin("set_interval", "setInterval")

\* Publisher.SetTelemetryInterval returned the interval it queued.
SetIntervalDone ==
  /\ pc = "setInterval"
  /\ End(TRUE)
  /\ Return("completed", TRUE)

CommandNotAllowed ==
  /\ Running({"exec"}) /\ Params(Current).command \notin AllowedCommands
  /\ Return("failed", FALSE)
  /\ UNCHANGED effects

ExecCall ==
  /\ Running({"exec"}) /\ Params(Current).command \in AllowedCommands
  /\ Begin(Params(Current).command, "exec")

\* Mutant: the error of Execute is not looked at.
ExecDoneUnchecked(ok) == pc = "exec" /\ End(ok) /\ Return("completed", ok)

\* Executor.Execute returned: exit 0, or any error (exit code, timeout, kill).
ExecDone(ok) ==
  /\ pc = "exec"
  /\ End(ok)
  /\ ReturnErr(ok)

UnknownOperation ==
  /\ pc = "run" /\ Current.op \notin KnownOps
  /\ Return("failed", FALSE)
  /\ UNCHANGED effects

\* Mutant: a result that could not be published is tried again later.
PublishRetries(sent) ==
  /\ pc = "publish"
  /\ answers' = Append(answers, [command_id |-> Current.id, status |-> result.status,
                                 success |-> result.success,
                                 subject |-> ReplySubject(Current), sent |-> sent])
  /\ pc' = IF sent THEN "idle" ELSE "publish"
  /\ UNCHANGED <<inbox, delivered, result, handled, effects>>

\* The closure in main: reply_to or evt; a publish error is only logged.
Publish(sent) ==
  /\ pc = "publish"
  /\ answers' = Append(answers, [command_id |-> Current.id, status |-> result.status,
                                 success |-> result.success,
                                 subject |-> ReplySubject(Current), sent |-> sent])
  /\ pc' = "idle"
  /\ UNCHANGED <<inbox, delivered, result, handled, effects>>

-----------------------------------------------------------------------------

Init ==
  /\ inbox = <<>> /\ delivered = 0
  /\ pc = "idle"
  /\ result = [status |-> "failed", success |-> FALSE]
  /\ handled = <<>> /\ answers = <<>> /\ effects = <<>>

\* Steps of run that begin or finish an operation without waiting.
RunStep ==
  \/ \E ok \in BOOLEAN : Query(ok) \/ SendCapabilities(ok)
  \/ ServiceUnavailable \/ ServiceCall \/ PowerCall
  \/ UpdateUnsupported \/ UpdateCall
  \/ BadInterval \/ SetIntervalCall
  \/ CommandNotAllowed \/ ExecCall \/ UnknownOperation

\* An operation that run waits for returns.
CallReturns ==
  \/ \E ok \in BOOLEAN : ServiceDone(ok) \/ ExecDone(ok)
  \/ UpdateFailed \/ UpgradeCall \/ SetIntervalDone

Handler ==
  \/ Drop \/ Handle \/ Reject \/ Accept
  \/ RunStep \/ CallReturns
  \/ \E sent \in BOOLEAN : Publish(sent)

Next == Handler \/ \E m \in Messages : Deliver(m) \/ Overflow(m)

Spec == Init /\ [][Next]_vars

\* The callback goroutine runs, and every operation it waits for returns.
FairSpec == Spec /\ WF_vars(Handler)

-----------------------------------------------------------------------------
(* Properties. *)

Waiting == {"service", "exec", "update", "setInterval"}
Valid(m) == m.payload /\ m.params # "malformed"
Authorized(m, what) ==
  /\ Valid(m) /\ m.op \in AllowedOperations
  /\ m.op = "exec" => what \in AllowedCommands

Result == [status : Statuses, success : BOOLEAN]
Answer == [command_id : {m.id : m \in Messages}, status : Statuses, success : BOOLEAN,
           subject : {ReplySubject(m) : m \in Messages}, sent : BOOLEAN]
Works  == ServiceActions \cup PowerOps \cup AllowedCommands \cup
            {"apt_get_update", "apt_get_upgrade", "capabilities", "set_interval"}
Effect == [n : Nat, what : Works, done : {"no", "ok", "failed"}]

\* Types of the state; the pending list never outgrows its limit.
TypeOK ==
  /\ inbox \in Seq(Messages) /\ Len(inbox) <= PendingLimit
  /\ delivered \in 0..MaxDeliveries
  /\ pc \in {"idle", "dispatch", "run", "publish"} \cup Waiting
  /\ result \in Result
  /\ handled \in Seq(Messages) /\ answers \in Seq(Answer) /\ effects \in Seq(Effect)

\* "It always returns a valid result": every command given to Dispatch gets
\* exactly one result, in the order of the commands, carrying its command id
\* and addressed to its reply_to inbox or to evt (dispatcher.go Dispatch, the
\* closure in main.go).
OneAnswerPerCommand ==
  /\ Len(handled) = Len(answers) + (IF pc = "idle" THEN 0 ELSE 1)
  /\ \A i \in DOMAIN answers :
       /\ answers[i].command_id = handled[i].id
       /\ answers[i].subject = ReplySubject(handled[i])

\* What run can carry out, as the documents describe it.
Supported(m) == /\ m.op \in KnownOps
                /\ m.op = "exec" => Params(m).command \in AllowedCommands

\* A command that cannot be read or whose operation is not allowed is answered
\* "rejected", one that is allowed and supported never is, whichever way its
\* params are left empty, and for a rejected command nothing was done at all
\* (Dispatch; config.go: "rejected without execution").
RejectedForCause ==
  \A i \in DOMAIN answers :
    LET m == handled[i]
        allowed == Valid(m) /\ m.op \in AllowedOperations
    IN /\ ~allowed => answers[i].status = "rejected"
       /\ allowed /\ Supported(m) => answers[i].status # "rejected"
       /\ answers[i].status = "rejected" => \A j \in DOMAIN effects : effects[j].n # i

\* The hard gate: whatever is done to the machine is done for a command that
\* was given to Dispatch and not refused, and exec starts listed binaries only
\* (dispatcher.go Dispatch and run).
GateHolds ==
  \A j \in DOMAIN effects :
    /\ effects[j].n \in DOMAIN handled
    /\ Authorized(handled[effects[j].n], effects[j].what)

\* Commands act on the machine one after the other: effects follow the order
\* of the commands, a command has one effect, and a second one only as the
\* upgrade that follows its own successful apt-get update (run, system.update).
EffectsInOrder ==
  \A j, k \in DOMAIN effects : j < k =>
    /\ effects[j].n <= effects[k].n
    /\ effects[j].n = effects[k].n =>
         /\ effects[j].what = "apt_get_update" /\ effects[j].done = "ok"
         /\ effects[k].what = "apt_get_upgrade" /\ k = j + 1

\* While something started for a command has not ended, the handler waits for
\* it: nothing else is started and no result goes out (run blocks in Execute,
\* in the systemd job or in SetTelemetryInterval).
NothingLeftRunning ==
  \A j \in DOMAIN effects :
    effects[j].done = "no" <=> j = Len(effects) /\ pc \in Waiting

\* Except for service actions and the capabilities event, whose errors stay
\* out of the error value, a completed result means that everything the
\* command started succeeded, and a failed one that the last thing it started
\* failed (run, Dispatch).
BestEffort == ServiceActions \cup {"agent.allowed_operations"}

StatusMatchesEffects ==
  \A i \in DOMAIN answers : handled[i].op \notin BestEffort =>
    /\ answers[i].status = "completed" =>
         \A j \in DOMAIN effects : effects[j].n = i => effects[j].done = "ok"
    /\ answers[i].status = "failed" =>
         \A j \in DOMAIN effects :
           effects[j].n = i /\ effects[j].done = "ok" =>
             \E k \in DOMAIN effects : effects[k].n = i /\ effects[k].done = "failed"

(* What the documents say. *)

\* "completed means success" (docs/protocol.md:182): a service action that is
\* answered so has not failed.
CompletedMeansSuccess ==
  \A i \in DOMAIN answers :
    handled[i].op \in ServiceActions /\ answers[i].status = "completed" =>
      \A j \in DOMAIN effects : effects[j].n = i => effects[j].done = "ok"

\* An operation that run does not know and a binary that is not listed are
\* answered "rejected", like an operation that is not listed (dispatcher.go:3,
\* README.md:295, configs/agent.yaml:63).
UnsupportedIsRejected ==
  \A i \in DOMAIN answers :
    Valid(handled[i]) /\ ~Supported(handled[i]) => answers[i].status = "rejected"

(* Liveness. *)

\* Every message that reached the pending list is eventually dropped as
\* unreadable or answered: the list empties and the handler comes to rest,
\* provided that the operations it waits for return.
AllAnswered == []<>(inbox = <<>> /\ pc = "idle")

-----------------------------------------------------------------------------
(* The abstract service that the command path implements. *)

WorksOf(es) == [j \in DOMAIN es |-> <<es[j].n, es[j].what>>]
Seen(a)       == <<<<a.command_id, a.subject>>, a.status>>
AnswersOf(rs) == [i \in DOMAIN rs |-> Seen(rs[i])]

Service == INSTANCE CommandService WITH
  Commands  <- Messages,
  Accepted  <- {m \in Messages : Valid(m) /\ m.op \in AllowedOperations},
  Permitted <- {p \in Messages \X Works : Authorized(p[1], p[2])},
  Address   <- [m \in Messages |-> <<m.id, ReplySubject(m)>>],
  taken     <- handled,
  works     <- WorksOf(effects),
  answers   <- AnswersOf(answers)

\* Every step of the handler is a step of the abstract service or changes
\* nothing it promises: whatever is started is started between the taking up
\* and the answer of a command that permits it, and the one answer carries the
\* command's own id and subject (Subscribe, Dispatch, run and main's closure).
\* Accepted is what passes the gate; that the documents would have more of it
\* rejected is UnsupportedIsRejected.
ImplementsService == Service!Spec

(* The handler that Agent sees.  A rejection is a failure there. *)

StepSeen   == CASE pc = "idle"     -> "idle"
                [] pc = "dispatch" -> "taken"
                [] pc = "publish"  -> "answer"
                [] OTHER           -> "working"
HandSeen   == IF pc = "idle" THEN <<>> ELSE <<Current.id, Len(handled)>>
StatusSeen == IF pc # "publish" THEN "none"
              ELSE IF result.status = "completed" THEN "completed" ELSE "failed"

Outside == INSTANCE CommandHandler WITH
  Commands <- {m.id : m \in Messages},
  step <- StepSeen, hand <- HandSeen, status <- StatusSeen

\* Seen from outside, the callback, Dispatch and run are the handler that Agent
\* puts among its surroundings: whatever a command makes run do, it is taken
\* while nothing else is in hand, is turned down without having been begun or
\* worked on to the end, and leaves with one status (Subscribe, Dispatch, run).
ImplementsHandler == Outside!HandlerSpec

=============================================================================
