------------------------------- MODULE Services -------------------------------
(***************************************************************************)
(* The systemd backend of the service operations                           *)
(* (internal/modules/services/linux.go): each call of the handler against  *)
(* the D-Bus connection that cmd/agent/platform_linux.go opened, or not, at*)
(* the start.                                                              *)
(*                                                                         *)
(* External: systemd, which keeps at most one job per unit, lets a job that*)
(* wants the same merge with it and cancels it for one that does not       *)
(* (mode "replace"), and signals the end of every job; and go-systemd,     *)
(* which gives the signal of a job to the channel of the call that queued  *)
(* it, and holds back signals while such a call is under way.  Of a job the*)
(* model keeps what it wants of the unit: "stop", or "run" for start,      *)
(* restart and reload.                                                     *)
(***************************************************************************)
EXTENDS Integers, Sequences

CONSTANTS
  Stems,     \* names up to the first dot
  Units,     \* the units that exist, by their full names
  Calls,     \* the calls that commands may make: action and name
  MaxCalls,  \* bound: calls of the manager during a behaviour
  MaxJobs    \* bound: jobs; others queue none beyond it

JobActions  == {"start", "stop", "restart", "reload"}
FileActions == {"enable", "disable"}
Queries     == {"list", "get"}
Actions     == JobActions \cup FileActions \cup Queries
Targets     == {"run", "stop"}
Files       == {"static", "disabled", "enabled"}

\* A name: its stem alone, or with a dot and what follows: a unit type, or
\* something else ("dotted").
UnitTypes == {"service", "socket"}
Name      == [stem : Stems, ending : {"", "dotted"} \cup UnitTypes]

ASSUME UnitsAssumption  == Units \subseteq [stem : Stems, ending : UnitTypes]
ASSUME CallsAssumption  == Calls \subseteq [action : Actions, name : Name]
ASSUME BoundsAssumption == MaxCalls \in Nat /\ MaxJobs \in Nat

VARIABLES
  bus,       \* the connection: "none" after a failed start, "live", "lost"
  canceled,  \* the context of main was cancelled
  pc,        \* where the handler is in the manager
  call,      \* the call in progress: action, name, its job, its channel
  units,     \* systemd: the job installed for each unit (0: none), and what
             \* its file says; one without [Install] section is "static"
  jobs,      \* systemd: every job so far, with its result ("": not ended)
  signals,   \* job results on their way to the agent
  log        \* history: the calls that returned

vars == <<bus, canceled, pc, call, units, jobs, signals, log>>

-----------------------------------------------------------------------------
(* Names. *)

\* Only a name without any dot gets the suffix.
ensureServiceSuffix(n) ==
  IF n.ending = "" THEN [n EXCEPT !.ending = "service"] ELSE n

\* systemd takes names with a unit type only.
Valid(n)  == ensureServiceSuffix(n).ending \in UnitTypes
Exists(n) == ensureServiceSuffix(n) \in Units

Target(action) == IF action = "stop" THEN "stop" ELSE "run"
Asked(action)  == IF action = "enable" THEN "enabled" ELSE "disabled"

-----------------------------------------------------------------------------
(* systemd and go-systemd (external). *)

Finished(id, result) ==
  IF id = 0 THEN jobs ELSE [jobs EXCEPT ![id].result = result]

\* The signal of a job's end, unless there is no connection to carry it.
Signalled(id, result) ==
  IF id = 0 \/ bus # "live" THEN signals
  ELSE Append(signals, [job |-> id, result |-> result])

\* A job for u is queued: it merges with the installed one or replaces it.
Merges(u, target) == units[u].job # 0 /\ jobs[units[u].job].target = target

Install(u, target) ==
  \/ Merges(u, target) /\ UNCHANGED <<units, jobs, signals>>
  \/ /\ ~Merges(u, target)
     /\ jobs' = Append(Finished(units[u].job, "canceled"),
                       [unit |-> u, target |-> target, result |-> ""])
     /\ signals' = Signalled(units[u].job, "canceled")
     /\ units' = [units EXCEPT ![u].job = Len(jobs) + 1]

\* Somebody else on the machine starts or stops u.
OtherJob(u, target) ==
  /\ Len(jobs) < MaxJobs
  /\ Install(u, target)
  /\ UNCHANGED <<bus, canceled, pc, call, log>>

\* The job installed for u ends.
JobEnds(u, result) ==
  /\ units[u].job # 0
  /\ jobs' = Finished(units[u].job, result)
  /\ signals' = Signalled(units[u].job, result)
  /\ units' = [units EXCEPT ![u].job = 0]
  /\ UNCHANGED <<bus, canceled, pc, call, log>>

\* systemd accepts the request of a job.  The reply is still under way.
QueueJob ==
  /\ pc = "request" /\ call.action \in JobActions
  /\ bus = "live" /\ Exists(call.name)
  /\ LET u == ensureServiceSuffix(call.name)
     IN  /\ Install(u, Target(call.action))
         /\ call' = [call EXCEPT !.job = units'[u].job]
  /\ pc' = "replied"
  /\ UNCHANGED <<bus, canceled, log>>

\* systemd changes the links of the unit file.  A static unit has none to
\* change, which is no error: the reply only says that the file carries no
\* installation information, and Enable drops that result.
ChangeFiles ==
  /\ pc = "request" /\ call.action \in FileActions
  /\ bus = "live" /\ Exists(call.name)
  /\ LET u == ensureServiceSuffix(call.name)
     IN  \/ units[u].file = "static" /\ UNCHANGED units
         \/ /\ units[u].file # "static"
            /\ units' = [units EXCEPT ![u].file = Asked(call.action)]
  /\ pc' = "replied"
  /\ UNCHANGED <<bus, canceled, call, jobs, signals, log>>

\* go-systemd holds the listeners' lock while a job is requested.
Locked == pc \in {"request", "replied"} /\ call.action \in JobActions

\* A signal reaches the listeners: the channel has room for the one result.
DeliverSignal ==
  /\ signals # <<>> /\ ~Locked
  /\ signals' = Tail(signals)
  /\ call' = IF pc = "waiting" /\ call.job = Head(signals).job /\ call.result = ""
             THEN [call EXCEPT !.result = Head(signals).result]
             ELSE call
  /\ UNCHANGED <<bus, canceled, pc, units, jobs, log>>

\* The connection is lost (systemd re-executes, for one): nobody reconnects.
Lose ==
  /\ bus = "live"
  /\ bus' = "lost"
  /\ signals' = <<>>
  /\ UNCHANGED <<canceled, pc, call, units, jobs, log>>

\* main cancels the context of all operations.
Cancel ==
  /\ pc # "start" /\ ~canceled
  /\ canceled' = TRUE
  /\ UNCHANGED <<bus, pc, call, units, jobs, signals, log>>

-----------------------------------------------------------------------------
(* The manager. *)

\* newServiceManager: without a connection the agent goes on with a nil bus.
Connect(ok) ==
  /\ pc = "start"
  /\ bus' = IF ok THEN "live" ELSE "none"
  /\ pc' = "idle"
  /\ UNCHANGED <<canceled, call, units, jobs, signals, log>>

NoCall == [action |-> "", job |-> 0, result |-> "",
           name |-> [stem |-> "", ending |-> ""]]

\* What a call returns: an ActionResult whose success is err = "none", or for
\* the queries an answer or an error.
Returned(action, name, err, job) ==
  [action |-> action, name |-> name, err |-> err, job |-> job]

Return(err, job) ==
  /\ log' = Append(log, Returned(call.action, call.name, err, job))
  /\ pc' = "idle" /\ call' = NoCall
  /\ UNCHANGED <<bus, canceled, units, jobs, signals>>

\* The nil bus: every operation fails before it looks at the name.
Unavailable(c) ==
  /\ pc = "idle" /\ bus = "none" /\ Len(log) < MaxCalls
  /\ log' = Append(log, Returned(c.action, c.name, "unavailable", 0))
  /\ UNCHANGED <<bus, canceled, pc, call, units, jobs, signals>>

\* The call makes its channel and sends its D-Bus request.
Call(c) ==
  /\ pc = "idle" /\ bus # "none" /\ Len(log) < MaxCalls
  /\ call' = [action |-> c.action, name |-> c.name, job |-> 0, result |-> ""]
  /\ pc' = "request"
  /\ UNCHANGED <<bus, canceled, units, jobs, signals, log>>

\* Mutant: the error of EnableUnitFiles is only logged, as that of the reload.
CallFailsUnchecked ==
  /\ pc \in {"request", "replied"}
  /\ pc = "replied" => bus = "lost" \/ canceled
  /\ Return(IF call.action \in FileActions THEN "none" ELSE "call", 0)

\* The request returns an error: systemd refuses it, or the connection or the
\* context ended before the reply was read, whatever systemd has done.
CallFails ==
  /\ pc \in {"request", "replied"}
  /\ pc = "replied" => bus = "lost" \/ canceled
  /\ Return("call", 0)

\* The answer to a query.  ListUnitsByNames leaves invalid names out, and
\* lists valid ones also when no such unit exists.
Answer ==
  /\ pc = "request" /\ call.action \in Queries /\ bus = "live"
  /\ Return(IF call.action = "get" /\ ~Valid(call.name) THEN "notfound" ELSE "none", 0)

\* Mutant: signals are subscribed to once the job is queued.
JobQueuedThenSubscribe ==
  /\ pc = "replied" /\ call.action \in JobActions /\ bus = "live"
  /\ pc' = "waiting"
  /\ signals' = <<>>
  /\ UNCHANGED <<bus, canceled, call, units, jobs, log>>

\* The job is queued; the call waits for its result on the channel, and for
\* nothing else: neither the context nor the connection ends the wait.
JobQueued ==
  /\ pc = "replied" /\ call.action \in JobActions /\ bus = "live"
  /\ pc' = "waiting"
  /\ UNCHANGED <<bus, canceled, call, units, jobs, signals, log>>

\* Mutant: the job's result is returned as it is.
ReceiveUntranslated ==
  /\ pc = "waiting" /\ call.result # ""
  /\ Return(call.result, call.job)

\* Mutant: any result counts as success.
ReceiveAny ==
  /\ pc = "waiting" /\ call.result # ""
  /\ Return("none", call.job)

Receive ==
  /\ pc = "waiting" /\ call.result # ""
  /\ Return(IF call.result = "done" THEN "none" ELSE "job", call.job)

\* The unit file is changed; daemon-reload follows.
FilesChanged ==
  /\ pc = "replied" /\ call.action \in FileActions /\ bus = "live"
  /\ pc' = "reload"
  /\ UNCHANGED <<bus, canceled, call, units, jobs, signals, log>>

\* daemon-reload returns, and its error is only logged.
Reloaded == pc = "reload" /\ Return("none", 0)

-----------------------------------------------------------------------------

Init ==
  /\ bus = "none" /\ canceled = FALSE /\ pc = "start" /\ call = NoCall
  /\ units \in [Units -> [job : {0}, file : Files]]
  /\ jobs = <<>> /\ signals = <<>> /\ log = <<>>

\* What the handler does in a call it has begun.
InCall == CallFails \/ Answer \/ JobQueued \/ Receive \/ FilesChanged \/ Reloaded

Systemd ==
  \/ \E u \in Units :
       \/ \E target \in Targets : OtherJob(u, target)
       \/ \E result \in {"done", "failed"} : JobEnds(u, result)
  \/ QueueJob \/ ChangeFiles

Next ==
  \/ \E ok \in BOOLEAN : Connect(ok)
  \/ \E c \in Calls : Unavailable(c) \/ Call(c)
  \/ InCall \/ Systemd
  \/ DeliverSignal \/ Lose \/ Cancel

Spec == Init /\ [][Next]_vars

\* Requests are answered, signals are delivered and the handler runs.  Nothing
\* makes a job end: one that waits for another, or starts a oneshot service,
\* has no time limit unless its unit sets one.
FairSpec == Spec /\ WF_vars(InCall) /\ WF_vars(DeliverSignal)

-----------------------------------------------------------------------------
(* Properties. *)

Results == {"done", "failed", "canceled"}
CallRec == [action : Actions, name : Name, job : Nat, result : Results \cup {""}]
UnitRec == [job : Nat, file : Files]
Job     == [unit : Units, target : Targets, result : Results \cup {""}]
Signal  == [job : Nat \ {0}, result : Results]
Entry   == [action : Actions, name : Name, job : Nat,
            err : {"none", "unavailable", "call", "job", "notfound"}]

\* Types of the state; there is a call exactly while the handler is in one.
TypeOK ==
  /\ bus \in {"none", "live", "lost"} /\ canceled \in BOOLEAN
  /\ pc \in {"start", "idle", "request", "replied", "waiting", "reload"}
  /\ IF pc \in {"start", "idle"} THEN call = NoCall ELSE call \in CallRec
  /\ units \in [Units -> UnitRec]
  /\ jobs \in Seq(Job)
  /\ signals \in Seq(Signal)
  /\ log \in Seq(Entry)

\* A call that had its job queued reports success exactly when systemd ended
\* that very job, for the unit it named and with what it wanted, as done: not
\* when it was cancelled for another's job, and never by the result of a job
\* that an earlier call or somebody else queued (linux.go Start, Stop, Restart,
\* Reload; docs/integration.md: "does not return done ... success: false").
JobReported ==
  \A i \in DOMAIN log : log[i].job # 0 =>
    LET job == jobs[log[i].job] IN
    /\ log[i].job \in DOMAIN jobs
    /\ job.unit = ensureServiceSuffix(log[i].name) /\ job.target = Target(log[i].action)
    /\ job.result # ""
    /\ (log[i].err = "none") = (job.result = "done")

\* No lost wake-up: while the connection lives, a call that waits has its
\* result on the channel or on its way, or its job has not ended, however
\* fast the job is (linux.go: the channel is passed with the request).
NoLostWakeup ==
  pc = "waiting" /\ bus = "live" =>
    \/ call.result # ""
    \/ jobs[call.job].result = ""
    \/ \E i \in DOMAIN signals : signals[i].job = call.job

\* After a successful enable or disable the unit file says what was asked or is
\* static, whatever failed or was lost between the request, its reply and the
\* reload, as long as no later call was made that may have changed it (linux.go
\* Enable, Disable).
ChangesFiles(i, u) == log[i].action \in FileActions /\ ensureServiceSuffix(log[i].name) = u

SettledBy(i, u) ==
  /\ ChangesFiles(i, u) /\ log[i].err = "none"
  /\ \A j \in DOMAIN log : j > i => ~ChangesFiles(j, u)
  /\ pc = "idle" \/ call.action \notin FileActions \/ ensureServiceSuffix(call.name) # u

EnabledAsAsked ==
  \A i \in DOMAIN log :
    LET u == ensureServiceSuffix(log[i].name)
    IN  SettledBy(i, u) => units[u].file \in {"static", Asked(log[i].action)}

JobRunning == pc = "waiting" /\ jobs[call.job].result = ""

\* While the connection lives, a call returns once the job that it waits for, if
\* any, has ended: also when another's job cancelled it, and when it had ended
\* before the call began to wait (linux.go, all operations).
ReturnsWithItsJob ==
  pc \notin {"start", "idle"} ~> pc = "idle" \/ bus = "lost" \/ JobRunning

(* What comments and documents say. *)

\* dispatcher.go, Dispatch: "It always returns a valid result"; so must the
\* operation it calls, at the latest when what it waits for is over.
ReturnsAfterItsJob == pc = "waiting" /\ ~JobRunning ~> pc = "idle"

\* docs/protocol.md: "the agent should abandon the operation and send a `failed`
\* result if it cannot complete within this many seconds": a call does not wait
\* for ever, even when its job never ends.
ReturnsWhileConnected == pc \notin {"start", "idle"} ~> pc = "idle" \/ bus = "lost"

\* types.go, ActionEnable: "enables a unit to start on boot": a unit that Enable
\* reported as enabled is.
EnableEnables ==
  \A i \in DOMAIN log :
    LET u == ensureServiceSuffix(log[i].name)
    IN  SettledBy(i, u) /\ log[i].action = "enable" => units[u].file = "enabled"

=============================================================================
