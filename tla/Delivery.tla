------------------------------- MODULE Delivery -------------------------------
(***************************************************************************)
(* What the platform can count on when it sends a command until it has an  *)
(* answer: every copy that arrives is begun at most once and later copies  *)
(* are not overtaken by earlier ones, one copy is worked on at a time, any *)
(* copy may be lost at any moment, and an answer is a status that the      *)
(* handler came to for that command.  Agent implements it.                 *)
(***************************************************************************)
EXTENDS CommandHandler

VARIABLES
  arrived,  \* how many copies of a command have arrived
  begun,    \* the last copy of a command that was begun, or 0
  ended,    \* the statuses the handler came to for a command
  acked     \* the statuses the platform has received for a command

vars == <<handlerVars, arrived, begun, ended, acked>>

Arrive(c) ==
  /\ arrived' = [arrived EXCEPT ![c] = @ + 1]
  /\ UNCHANGED <<handlerVars, begun, ended, acked>>

\* Of the copies that have arrived, one that nothing later has overtaken.
TakeCopy ==
  /\ Take
  /\ hand'[2] \in (begun[hand'[1]] + 1)..arrived[hand'[1]]
  /\ UNCHANGED <<arrived, begun, ended, acked>>

Ends(s) == ended' = [ended EXCEPT ![hand[1]] = @ \cup {s}]

TurnCopyDown == TurnDown /\ Ends("failed") /\ UNCHANGED <<arrived, begun, acked>>

BeginCopy ==
  /\ Begin
  /\ begun[hand[1]] < hand[2]
  /\ begun' = [begun EXCEPT ![hand[1]] = hand[2]]
  /\ UNCHANGED <<arrived, ended, acked>>

CopyEnds(s) == WorkEnds(s) /\ Ends(s) /\ UNCHANGED <<arrived, begun, acked>>

\* What is published may be lost as well, or received much later.
LetGo == (Publish \/ Lose) /\ UNCHANGED <<arrived, begun, ended, acked>>

Receive(c, s) ==
  /\ s \in ended[c]
  /\ acked' = [acked EXCEPT ![c] = @ \cup {s}]
  /\ UNCHANGED <<handlerVars, arrived, begun, ended>>

Init ==
  /\ HandlerInit
  /\ arrived = [c \in Commands |-> 0] /\ begun = [c \in Commands |-> 0]
  /\ ended = [c \in Commands |-> {}] /\ acked = [c \in Commands |-> {}]

Next ==
  \/ TakeCopy \/ TurnCopyDown \/ BeginCopy \/ LetGo
  \/ \E s \in Statuses : CopyEnds(s)
  \/ \E c \in Commands : Arrive(c) \/ \E s \in Statuses : Receive(c, s)

Spec == Init /\ [][Next]_vars
=============================================================================
