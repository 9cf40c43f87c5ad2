------------------------------- MODULE Executor -------------------------------
(***************************************************************************)
(* Executor.Execute (internal/executor/executor.go): a child process with  *)
(* a deadline, whose output goes through pipes into two buffers.  Execute  *)
(* is called by the one handler of commands, so calls follow each other.   *)
(*                                                                         *)
(* External: the child, the processes it starts, which inherit the pipes,  *)
(* and os/exec, whose Run kills the child (and only the child) when the    *)
(* context ends, waits for it, and then, as no WaitDelay is set, for the   *)
(* end of the pipes.  A process that closes the pipes is not seen.         *)
(***************************************************************************)
EXTENDS Integers, Sequences

CONSTANTS
  MaxCalls,  \* bound: calls of Execute during a behaviour
  MaxWrites  \* bound: pieces of output that one command writes

ASSUME BoundsAssumption == MaxCalls \in Nat /\ MaxWrites \in Nat

VARIABLES
  parent,       \* the context of main: "live" or "canceled"
  ctx,          \* the context of the call: "live", "expired" or "canceled"
  pc,           \* where Execute is
  child,        \* the process of the command
  interrupted,  \* os/exec sent the kill
  holder,       \* a process started by the child has the pipes open
  written,      \* pieces of output written into the pipes
  output,       \* pieces of output copied into the buffers
  inTime,       \* history: the child was waited for before its context ended
  log           \* history: the calls that returned

process == <<child, interrupted, holder, written, output, inTime>>
vars == <<parent, ctx, pc, process, log>>

Exits == {"none", "exit0", "exitN", "killed"}

-----------------------------------------------------------------------------
(* Processes and the clock (external). *)

Writes ==
  /\ child = "running" \/ holder
  /\ written < MaxWrites
  /\ written' = written + 1
  /\ UNCHANGED <<parent, ctx, pc, child, interrupted, holder, output, inTime, log>>

Forks ==
  /\ child = "running" /\ ~holder
  /\ holder' = TRUE
  /\ UNCHANGED <<parent, ctx, pc, child, interrupted, written, output, inTime, log>>

HolderEnds ==
  /\ holder
  /\ holder' = FALSE
  /\ UNCHANGED <<parent, ctx, pc, child, interrupted, written, output, inTime, log>>

Exit(how) ==
  /\ child = "running"
  /\ child' = how
  /\ UNCHANGED <<parent, ctx, pc, interrupted, holder, written, output, inTime, log>>

Expire ==
  /\ pc \in {"start", "wait", "copy", "ended"} /\ ctx = "live"
  /\ ctx' = "expired"
  /\ UNCHANGED <<parent, pc, process, log>>

\* main cancels the context that all operations get.
Cancel ==
  /\ parent = "live"
  /\ parent' = "canceled"
  /\ ctx' = IF ctx = "live" THEN "canceled" ELSE ctx
  /\ UNCHANGED <<pc, process, log>>

-----------------------------------------------------------------------------
(* Execute. *)

\* The deadline starts to run; a cancelled parent is passed on at once.
Execute ==
  /\ pc = "idle" /\ Len(log) < MaxCalls
  /\ ctx' = parent
  /\ pc' = "start"
  /\ child' = "none" /\ interrupted' = FALSE /\ holder' = FALSE
  /\ written' = 0 /\ output' = 0 /\ inTime' = FALSE
  /\ UNCHANGED <<parent, log>>

Start ==
  /\ pc = "start" /\ ctx = "live"
  /\ child' = "running"
  /\ pc' = "wait"
  /\ UNCHANGED <<parent, ctx, interrupted, holder, written, output, inTime, log>>

\* No such binary, no permission, or a context that has ended already.
StartFails ==
  /\ pc = "start"
  /\ pc' = "ended"
  /\ UNCHANGED <<parent, ctx, process, log>>

\* Mutant: exec.Command instead of exec.CommandContext.
KillNever == FALSE /\ UNCHANGED vars

\* The context ends before the child was waited for: os/exec kills it.  A
\* child that has exited by then keeps its exit code; but the kill succeeds, and
\* Run returns the context's error in place of an exit code of 0.
Kill ==
  /\ pc = "wait" /\ ctx # "live" /\ ~interrupted
  /\ interrupted' = TRUE
  /\ child' = IF child = "running" THEN "killed" ELSE child
  /\ UNCHANGED <<parent, ctx, pc, holder, written, output, inTime, log>>

\* Mutant: the pipes are not waited for (a WaitDelay of next to nothing).
ReapOnly ==
  /\ pc = "wait" /\ child # "running"
  /\ pc' = "ended"
  /\ UNCHANGED <<parent, ctx, process, log>>

Reap ==
  /\ pc = "wait" /\ child # "running"
  /\ pc' = "copy" /\ inTime' = (ctx = "live")
  /\ UNCHANGED <<parent, ctx, child, interrupted, holder, written, output, log>>

\* The goroutines of os/exec copy while the child runs and after.
Copy ==
  /\ pc \in {"wait", "copy"} /\ output < written
  /\ output' = output + 1
  /\ UNCHANGED <<parent, ctx, pc, child, interrupted, holder, written, inTime, log>>

\* The pipes end when nobody has them open and they are empty.
PipesEnd ==
  /\ pc = "copy" /\ ~holder /\ output = written
  /\ pc' = "ended"
  /\ UNCHANGED <<parent, ctx, process, log>>

\* Mutant: the deadline is looked at before the error.
VerdictDeadlineFirst ==
  IF ctx = "expired" THEN "timed out"
  ELSE IF child = "exit0" /\ ~interrupted THEN "ok" ELSE "failed"

\* Mutant: an error that is no ExitError passes.
VerdictExitErrors ==
  IF child \in {"exit0", "none"} THEN "ok"
  ELSE IF ctx = "expired" THEN "timed out" ELSE "failed"

\* Run's error, and what Execute makes of it: the deadline is the reason for
\* any error that is seen after it has passed.
Verdict ==
  IF child = "exit0" /\ ~interrupted THEN "ok"
  ELSE IF ctx = "expired" THEN "timed out" ELSE "failed"

\* Mutant: a verdict that the callers do not know.
ReturnRaw ==
  /\ pc = "ended"
  /\ log' = Append(log, [verdict |-> child, exit |-> child, inTime |-> inTime])
  /\ pc' = "idle"
  /\ UNCHANGED <<parent, ctx, process>>

Return ==
  /\ pc = "ended"
  /\ log' = Append(log, [verdict |-> Verdict, exit |-> child, inTime |-> inTime])
  /\ pc' = "idle"
  /\ UNCHANGED <<parent, ctx, process>>

-----------------------------------------------------------------------------

Init ==
  /\ parent = "live" /\ ctx = "live" /\ pc = "idle"
  /\ child = "none" /\ interrupted = FALSE /\ holder = FALSE
  /\ written = 0 /\ output = 0 /\ inTime = FALSE /\ log = <<>>

\* Steps of Execute and os/exec once the call has begun.
InCall == Start \/ StartFails \/ Kill \/ Reap \/ Copy \/ PipesEnd \/ Return

Next ==
  \/ Execute \/ InCall
  \/ Writes \/ Forks \/ HolderEnds \/ Expire \/ Cancel
  \/ \E how \in {"exit0", "exitN"} : Exit(how)

Spec == Init /\ [][Next]_vars

\* Goroutines run and time passes; nothing is expected of the processes.
FairSpec ==
  Spec /\ WF_vars(InCall) /\ WF_vars(Kill) /\ WF_vars(Reap) /\ WF_vars(Expire)

-----------------------------------------------------------------------------
(* Properties. *)

Verdicts == {"ok", "failed", "timed out"}
Entry    == [verdict : Verdicts, exit : Exits, inTime : BOOLEAN]

\* Types of the state; nothing is copied that was not written.
TypeOK ==
  /\ parent \in {"live", "canceled"}
  /\ ctx \in {"live", "expired", "canceled"}
  /\ pc \in {"idle", "start", "wait", "copy", "ended"}
  /\ child \in Exits \cup {"running"}
  /\ interrupted \in BOOLEAN /\ holder \in BOOLEAN /\ inTime \in BOOLEAN
  /\ written \in 0..MaxWrites /\ output \in 0..written
  /\ log \in Seq(Entry)

\* When Execute has returned, the child has ended, no process that it started
\* can write any more, and the buffers that were returned hold all that was
\* written: nothing of a command is left to disturb the next one
\* (executor.go Execute: "full stdout/stderr capture").
NothingLeftBehind ==
  pc = "idle" => child # "running" /\ ~holder /\ output = written

\* A nil error means that the child exited by itself with code 0; and a child
\* that did so, and was waited for before its context ended, is a success, also
\* when the deadline passes or main cancels while its output is still being
\* read (executor.go Execute).
VerdictMatchesExit ==
  \A i \in DOMAIN log :
    /\ log[i].verdict = "ok" => log[i].exit = "exit0"
    /\ log[i].exit = "exit0" /\ log[i].inTime => log[i].verdict = "ok"

\* Whatever the child does, the deadline ends the call, unless a process that
\* the child started keeps the pipes open for ever (executor.go Execute).
EndsUnlessHeld == []<>(pc = "idle") \/ <>[]holder

(* What a comment says. *)

\* executor.go, Execute: "It applies a deadline to the provided context": a
\* call whose deadline has passed comes to an end.
EndsAfterDeadline == pc # "idle" /\ ctx = "expired" ~> pc = "idle"

=============================================================================
