-------------------------------- MODULE Agent --------------------------------
(***************************************************************************)
(* The agent among its surroundings: the platform that sends a command     *)
(* until it has an answer, the NATS connection with nats.go's reconnecting *)
(* and buffering (internal/nats/client.go), the life of the process from   *)
(* systemd's start to main's cancel, Drain and exit (cmd/agent/main.go),   *)
(* the handler that works on one command at a time (main's callback and    *)
(* Dispatch, in detail in Dispatcher), and the machine that some commands  *)
(* restart.                                                                *)
(*                                                                         *)
(* Every arrival of a command at the subscription is a copy of it.  begun  *)
(* and ended are histories: the last copy of a command whose work was      *)
(* begun, and the statuses Dispatch returned for the command.              *)
(*                                                                         *)
(* A fault is anything that may lose a message or stop the process: the    *)
(* number of faults is bounded, their place is not.                        *)
(***************************************************************************)
EXTENDS Integers, Sequences

CONSTANTS
  Commands,       \* the commands the platform wants answered
  PowerCommands,  \* those that restart the machine (vm.reboot, vm.shutdown)
  PendingLimit,   \* pending messages the subscription holds (nats.go)
  GivesUp,        \* whether max_reconnects is finite
  MaxFaults,      \* bound: faults in a behaviour
  MaxCopies       \* bound: arrivals of one command

ASSUME CommandsAssumption == PowerCommands \subseteq Commands /\ GivesUp \in BOOLEAN
ASSUME BoundsAssumption == PendingLimit \in Nat /\ MaxFaults \in Nat /\ MaxCopies \in Nat

VARIABLES
  awaited,  \* platform: commands sent and not timed out
  acked,    \* platform: the statuses it has received for a command
  copies,   \* how many copies of a command have arrived
  machine,  \* "up", or "down" once it has been told to restart
  phase,    \* where main is
  link,     \* the connection of the process
  inbox,    \* the subscription's pending list
  outbox,   \* what nats.go has not written to the connection yet
  step,     \* where the handler is
  hand,     \* the copy the handler works on
  status,   \* the status Dispatch returned for it
  begun,    \* history: the last copy of a command that was begun, or 0
  ended,    \* history: the statuses Dispatch returned for a command
  faults    \* faults so far

platform == <<awaited, acked, copies>>
handler  == <<step, hand, status>>
history  == <<begun, ended>>
vars == <<platform, machine, phase, link, inbox, outbox, handler, history, faults>>

Copies   == Commands \X (1..MaxCopies)
Statuses == {"completed", "failed"}  \* "rejected" is another "failed" here
NoCopy   == <<>>
NoStatus == "none"

Elements(s) == {s[i] : i \in DOMAIN s}

\* A command of which something is still on its way through the agent.
Outstanding(c) ==
  \/ \E p \in Elements(inbox) : p[1] = c
  \/ step # "idle" /\ hand[1] = c
  \/ \E r \in Elements(outbox) : r.id = c

\* Mutant: Subscribe defers the unsubscription.
SubscribedBriefly == phase = "subscribed"

\* main is past Subscribe and not yet draining.
Subscribed == phase \in {"subscribed", "listening", "cancelled"}
Cancelled  == phase \in {"cancelled", "draining"}
Reachable  == Subscribed /\ link = "up"

Fault == faults < MaxFaults /\ faults' = faults + 1

\* A restart that waits for the answers under way is nobody's fault.
FaultUnlessRestarting ==
  IF machine = "down" /\ step # "answer" /\ outbox = <<>>
  THEN UNCHANGED faults
  ELSE Fault

-----------------------------------------------------------------------------
(* The platform (external). *)

\* Mutant: no limit on the pending list.
ArriveUnlimited(c) ==
  /\ acked[c] = {} /\ c \notin awaited
  /\ Reachable /\ copies[c] < MaxCopies
  /\ awaited' = awaited \cup {c}
  /\ copies' = [copies EXCEPT ![c] = @ + 1]
  /\ inbox' = Append(inbox, <<c, copies[c] + 1>>)
  /\ UNCHANGED <<acked, machine, phase, link, outbox, handler, history, faults>>

\* Core NATS: the message reaches whoever is subscribed at this moment.
Arrive(c) ==
  /\ acked[c] = {} /\ c \notin awaited
  /\ Reachable /\ Len(inbox) < PendingLimit /\ copies[c] < MaxCopies
  /\ awaited' = awaited \cup {c}
  /\ copies' = [copies EXCEPT ![c] = @ + 1]
  /\ inbox' = Append(inbox, <<c, copies[c] + 1>>)
  /\ UNCHANGED <<acked, machine, phase, link, outbox, handler, history, faults>>

\* Nobody is subscribed, or the pending list is full: the message is gone.
Miss(c) ==
  /\ acked[c] = {} /\ c \notin awaited
  /\ ~Reachable \/ Len(inbox) >= PendingLimit
  /\ awaited' = awaited \cup {c}
  /\ UNCHANGED <<acked, copies, machine, phase, link, inbox, outbox, handler, history, faults>>

\* The platform retries; too early if the agent is still at it.
TimeOut(c) ==
  /\ acked[c] = {} /\ c \in awaited
  /\ IF Outstanding(c) THEN Fault ELSE UNCHANGED faults
  /\ awaited' = awaited \ {c}
  /\ UNCHANGED <<acked, copies, machine, phase, link, inbox, outbox, handler, history>>

Ask(c) == Arrive(c) \/ Miss(c) \/ TimeOut(c)

-----------------------------------------------------------------------------
(* The process.  systemd starts it again whenever it has ended. *)

\* What ends with the process: all that is not on the platform.
Vanish ==
  /\ phase' = "down" /\ link' = "none"
  /\ inbox' = <<>> /\ outbox' = <<>>
  /\ step' = "idle" /\ hand' = NoCopy /\ status' = NoStatus

\* Up to the first connection nothing can arrive.  It is tried once: its
\* failure ends the process, like any other failure before it.
Start ==
  /\ phase = "down" /\ machine = "up"
  /\ \/ phase' = "connected" /\ link' = "up" /\ UNCHANGED faults
     \/ UNCHANGED <<phase, link>> /\ Fault
  /\ UNCHANGED <<platform, machine, inbox, outbox, handler, history>>

\* A connection given up in the meantime refuses the subscription.
Subscribe ==
  /\ phase = "connected"
  /\ IF link = "closed"
     THEN Vanish
     ELSE phase' = "subscribed" /\ UNCHANGED <<link, inbox, outbox, handler>>
  /\ UNCHANGED <<platform, machine, history, faults>>

\* pub.Start has returned and signals are asked for.
Listen ==
  /\ phase = "subscribed"
  /\ phase' = "listening"
  /\ UNCHANGED <<platform, machine, link, inbox, outbox, handler, history, faults>>

\* SIGINT or SIGTERM: main cancels the context.
Signal ==
  /\ phase = "listening"
  /\ FaultUnlessRestarting
  /\ phase' = "cancelled"
  /\ UNCHANGED <<platform, machine, link, inbox, outbox, handler, history>>

\* The deferred Drain: nats.go drains in a goroutine of its own, and closes
\* the connection at once when it is not connected.
Drain ==
  /\ phase = "cancelled"
  /\ phase' = "draining"
  /\ IF link = "up" THEN UNCHANGED <<link, outbox>> ELSE link' = "closed" /\ outbox' = <<>>
  /\ UNCHANGED <<platform, machine, inbox, handler, history, faults>>

\* Mutant: main waits for the handler before it returns.
ExitWaits ==
  /\ phase = "draining" /\ step = "idle"
  /\ Vanish
  /\ UNCHANGED <<platform, machine, history, faults>>

\* main returns, whatever the handler and the draining are doing.
Exit ==
  /\ phase = "draining"
  /\ Vanish
  /\ UNCHANGED <<platform, machine, history, faults>>

\* A panic, SIGKILL, or a signal before signal.Notify.
Crash ==
  /\ phase # "down"
  /\ FaultUnlessRestarting
  /\ Vanish
  /\ UNCHANGED <<platform, machine, history>>

\* The restart of the machine stops the agent; then it comes up again.
StopAgent == machine = "down" /\ (Signal \/ Crash)

Boot ==
  /\ machine = "down" /\ phase = "down"
  /\ machine' = "up"
  /\ UNCHANGED <<platform, phase, link, inbox, outbox, handler, history, faults>>

Process ==
  Start \/ Subscribe \/ Listen \/ Drain \/ Exit \/ StopAgent \/ Boot

-----------------------------------------------------------------------------
(* The connection (external: nats.go). *)

\* What was buffered but not written may be lost with the connection; one
\* that is draining is not opened again.
Disconnect ==
  /\ link = "up"
  /\ Fault
  /\ \/ phase # "draining" /\ link' = "reconnecting" /\ outbox' \in {outbox, <<>>}
     \/ phase = "draining" /\ link' = "closed" /\ outbox' = <<>>
  /\ UNCHANGED <<platform, machine, phase, inbox, handler, history>>

Reconnect ==
  /\ link = "reconnecting"
  /\ link' = "up"
  /\ UNCHANGED <<platform, machine, phase, inbox, outbox, handler, history, faults>>

\* The attempts are used up: ClosedHandler logs it and main is not told.
GiveUp ==
  /\ GivesUp /\ link = "reconnecting"
  /\ link' = "closed" /\ outbox' = <<>>
  /\ UNCHANGED <<platform, machine, phase, inbox, handler, history, faults>>

\* nats.go writes the oldest result, and the platform receives it.
Write ==
  /\ link = "up" /\ outbox # <<>>
  /\ outbox' = Tail(outbox)
  /\ acked' = [acked EXCEPT ![Head(outbox).id] = @ \cup {Head(outbox).status}]
  /\ awaited' = awaited \ {Head(outbox).id}
  /\ UNCHANGED <<copies, machine, phase, link, inbox, handler, history, faults>>

-----------------------------------------------------------------------------
(* The handler: Dispatcher, seen from outside. *)

\* Mutant: the message is removed when its result has been published.
TakeKeeps ==
  /\ step = "idle" /\ inbox # <<>>
  /\ hand' = Head(inbox)
  /\ step' = "taken"
  /\ UNCHANGED <<platform, machine, phase, link, inbox, outbox, status, history, faults>>

Take ==
  /\ step = "idle" /\ inbox # <<>>
  /\ inbox' = Tail(inbox)
  /\ hand' = Head(inbox)
  /\ step' = "taken"
  /\ UNCHANGED <<platform, machine, phase, link, outbox, status, history, faults>>

Returns(s) ==
  /\ step' = "answer" /\ status' = s
  /\ ended' = [ended EXCEPT ![hand[1]] = @ \cup {s}]
  /\ UNCHANGED <<platform, phase, link, inbox, outbox, hand, faults>>

\* Mutant: what is turned down is not answered.
TurnDownSilently ==
  /\ step = "taken"
  /\ step' = "idle" /\ hand' = NoCopy /\ status' = NoStatus
  /\ UNCHANGED <<platform, machine, phase, link, inbox, outbox, history, faults>>

\* Refused by the gate; failed at once because of a bad parameter, an
\* unlisted binary, or an operation that does not start once the context is
\* cancelled.
TurnDown ==
  /\ step = "taken"
  /\ Returns("failed")
  /\ UNCHANGED <<machine, begun>>

\* Dispatch looks at no context: work is begun after the cancel as well.
Begin ==
  /\ step = "taken"
  /\ step' = "working"
  /\ begun' = [begun EXCEPT ![hand[1]] = hand[2]]
  /\ UNCHANGED <<platform, machine, phase, link, inbox, outbox, hand, status, ended, faults>>

\* Mutant: a work that failed is tried once more.
WorkEndsRetries(s) ==
  /\ step = "working"
  /\ IF s = "failed"
     THEN step' = "taken" /\ UNCHANGED <<platform, machine, phase, link, inbox, outbox, hand, status, ended, faults>>
     ELSE Returns(s) /\ machine' = IF hand[1] \in PowerCommands THEN "down" ELSE machine
  /\ UNCHANGED begun

\* The work has ended, by itself or by the cancelled context.  systemctl
\* returns before the machine goes down.
WorkEnds(s) ==
  /\ step = "working"
  /\ Returns(s)
  /\ machine' = IF hand[1] \in PowerCommands /\ s = "completed" THEN "down" ELSE machine
  /\ UNCHANGED begun

\* Mutant: the status Dispatch returned does not get into the envelope.
PublishCompleted ==
  /\ step = "answer"
  /\ step' = "idle" /\ hand' = NoCopy /\ status' = NoStatus
  /\ outbox' = IF link = "closed" THEN outbox
               ELSE Append(outbox, [id |-> hand[1], status |-> "completed"])
  /\ UNCHANGED <<platform, machine, phase, link, inbox, history, faults>>

\* conn.Publish buffers the result.  On a closed connection it fails, which
\* is logged; the buffer for reconnecting may be full.
Publish ==
  /\ step = "answer"
  /\ step' = "idle" /\ hand' = NoCopy /\ status' = NoStatus
  /\ \/ link # "closed" /\ UNCHANGED faults
        /\ outbox' = Append(outbox, [id |-> hand[1], status |-> status])
     \/ link = "closed" /\ UNCHANGED <<outbox, faults>>
     \/ link = "reconnecting" /\ Fault /\ UNCHANGED outbox
  /\ UNCHANGED <<platform, machine, phase, link, inbox, history>>

Handler ==
  \/ Take \/ Begin \/ Publish
  \/ TurnDown \/ WorkEnds("completed") \/ WorkEnds("failed")

-----------------------------------------------------------------------------

Init ==
  /\ awaited = {} /\ acked = [c \in Commands |-> {}]
  /\ copies = [c \in Commands |-> 0]
  /\ machine = "up" /\ phase = "down" /\ link = "none"
  /\ inbox = <<>> /\ outbox = <<>>
  /\ step = "idle" /\ hand = NoCopy /\ status = NoStatus
  /\ begun = [c \in Commands |-> 0] /\ ended = [c \in Commands |-> {}]
  /\ faults = 0

Next ==
  \/ \E c \in Commands : Ask(c)
  \/ Process \/ Signal \/ Crash
  \/ Disconnect \/ GiveUp \/ Reconnect \/ Write
  \/ Handler

Spec == Init /\ [][Next]_vars

\* The platform keeps retrying, goroutines run, systemd restarts the agent, a
\* connection comes back unless it is given up, and a machine that was told
\* to restart does so.  Nothing is assumed of the work of a command.
FairSpec ==
  /\ Spec
  /\ \A c \in Commands : WF_vars(Ask(c))
  /\ WF_vars(Process) /\ WF_vars(Reconnect \/ Write)
  /\ WF_vars(Take \/ Begin \/ Publish)

-----------------------------------------------------------------------------
(* Properties. *)

TypeOK ==
  /\ awaited \subseteq Commands
  /\ acked \in [Commands -> SUBSET Statuses]
  /\ copies \in [Commands -> 0..MaxCopies]
  /\ machine \in {"up", "down"}
  /\ phase \in {"down", "connected", "subscribed", "listening",
                "cancelled", "draining"}
  /\ link \in {"none", "up", "reconnecting", "closed"}
  /\ inbox \in Seq(Copies) /\ Len(inbox) <= PendingLimit
  /\ outbox \in Seq([id : Commands, status : Statuses])
  /\ step \in {"idle", "taken", "working", "answer"}
  /\ hand \in (IF step = "idle" THEN {NoCopy} ELSE Copies)
  /\ status \in (IF step = "answer" THEN Statuses ELSE {NoStatus})
  /\ begun \in [Commands -> 0..MaxCopies]
  /\ ended \in [Commands -> SUBSET Statuses]
  /\ faults \in 0..MaxFaults

\* An arrived command is worked on at most once, and in the order of arrival:
\* nothing the process goes through, neither a reconnection nor the draining
\* nor a restart, lets a copy wait that was begun, or was overtaken by a later
\* one of its command (Subscribe, main's callback).
NothingRunsTwice ==
  \A p \in Elements(inbox) \cup (IF step = "taken" THEN {hand} ELSE {}) :
    begun[p[1]] < p[2]

\* What the platform takes for the end of a command is what Dispatch returned
\* for it, however many copies, results under way and restarts there are, and
\* "completed" means that its work was begun (main's callback, Publish).
AnswersAreTrue ==
  \A c \in Commands :
    /\ acked[c] \subseteq ended[c]
    /\ "completed" \in acked[c] => begun[c] > 0

\* Commands are not repeated without a reason: until one of them has restarted
\* the machine, every arrival of a command after its first takes one more fault.
\* Nothing that the agent does by itself, and no two consequences of one fault,
\* lose a command that was received, or its result, twice (main's callback,
\* Publish, Drain, client.go Connect).
NoRestartYet == \A p \in PowerCommands : "completed" \notin ended[p]

EveryRepeatHasAFault ==
  NoRestartYet => \A c \in Commands : copies[c] <= 1 + faults

(* The abstract delivery that the agent and its surroundings implement. *)

Promise == INSTANCE Delivery WITH arrived <- copies

\* Whatever is lost, repeated or restarted on the way, every step is one that
\* the platform has been promised: copies are taken in their order and begun at
\* most once, one at a time, and it receives what the handler came to (Connect,
\* Subscribe, main's callback, cancel and exit).
ImplementsDelivery == Promise!Spec

(* Liveness. *)

\* The process lives, but its connection has been given up.
Deaf == phase \in {"subscribed", "listening"} /\ link = "closed"

\* Every command is answered in the end, through lost messages, overflow,
\* reconnections, restarts of the process and of the machine, provided that
\* the connection is not given up for good and no command's work hangs
\* (client.go Connect, AgentCommandTimeoutCommand, Restart=always).
EventuallyAnswered ==
  (~<>[]Deaf /\ []<>(step # "working")) =>
    <>(\A c \in Commands : acked[c] # {})

\* A stop is never held up, neither by the command in hand, whatever it does,
\* nor by a connection that cannot be drained (main after the signal).
ShutdownEnds == (machine = "down" \/ Cancelled) ~> (phase = "down")

\* "Drain gracefully drains pending messages and closes the connection"
\* (client.go): a process that was asked to stop leaves no command it has
\* received and no result behind.
DrainedBeforeExit ==
  [][Exit => inbox = <<>> /\ step = "idle" /\ outbox = <<>>]_vars

=============================================================================
