---------------------------- MODULE CommandService ----------------------------
(***************************************************************************)
(* What the command path promises to whoever sends commands, without saying*)
(* how: one command at a time, work only for commands that are accepted and*)
(* only work they are permitted to start, then exactly one answer under the*)
(* command's own name and address.  Dispatcher implements it.              *)
(***************************************************************************)
EXTENDS Integers, Sequences

CONSTANTS
  Commands,   \* what can be asked for
  Accepted,   \* the commands that are not rejected
  Works,      \* what can be done to the machine
  Permitted,  \* pairs of a command and a work that it may start
  Address     \* the name and the subject of each command's answer

VARIABLES
  taken,      \* the commands taken up, in order
  works,      \* what was started, each with the number of its command
  answers     \* the answers given, in order

vars == <<taken, works, answers>>

Idle == Len(taken) = Len(answers)
Busy == Len(taken) = Len(answers) + 1

Take(c) ==
  /\ Idle
  /\ taken' = Append(taken, c)
  /\ UNCHANGED <<works, answers>>

Work(w) ==
  /\ Busy
  /\ taken[Len(taken)] \in Accepted
  /\ <<taken[Len(taken)], w>> \in Permitted
  /\ works' = Append(works, <<Len(taken), w>>)
  /\ UNCHANGED <<taken, answers>>

\* Only the verdict is free, and "rejected" is not.
Answer(status) ==
  /\ Busy
  /\ status = "rejected" <=> taken[Len(taken)] \notin Accepted
  /\ answers' = Append(answers, <<Address[taken[Len(taken)]], status>>)
  /\ UNCHANGED <<taken, works>>

Init == taken = <<>> /\ works = <<>> /\ answers = <<>>

Next ==
  \/ \E c \in Commands : Take(c)
  \/ \E w \in Works : Work(w)
  \/ \E status \in {"completed", "failed", "rejected"} : Answer(status)

Spec == Init /\ [][Next]_vars
=============================================================================
