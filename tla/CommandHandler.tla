---------------------------- MODULE CommandHandler ----------------------------
(***************************************************************************)
(* The handler of commands as its surroundings see it: it holds one copy of*)
(* one command at a time, turns it down or works on it, and publishes the  *)
(* one status it came to.  Dispatcher implements it from the inside, and   *)
(* Agent has its steps among those of the platform, the connection and the *)
(* process; that is what lets the two be read together.                    *)
(***************************************************************************)
EXTENDS Naturals

CONSTANT Commands

VARIABLES
  step,    \* where the handler is
  hand,    \* the copy it holds: a command and the number of the copy
  status   \* what it came to

handlerVars == <<step, hand, status>>

Statuses == {"completed", "failed"}
NoCopy   == <<>>
NoStatus == "none"

Take ==
  /\ step = "idle" /\ step' = "taken"
  /\ hand' \in Commands \X (Nat \ {0})
  /\ UNCHANGED status

Return(s) == step' = "answer" /\ status' = s /\ UNCHANGED hand

TurnDown == step = "taken" /\ Return("failed")

Begin == step = "taken" /\ step' = "working" /\ UNCHANGED <<hand, status>>

WorkEnds(s) == step = "working" /\ Return(s)

Idle == step' = "idle" /\ hand' = NoCopy /\ status' = NoStatus

Publish == step = "answer" /\ Idle

\* The process ends, wherever its handler is.
Lose == Idle

HandlerInit == step = "idle" /\ hand = NoCopy /\ status = NoStatus

HandlerNext ==
  \/ Take \/ TurnDown \/ Begin \/ Publish
  \/ \E s \in Statuses : WorkEnds(s)

\* A process that does not end.
HandlerSpec == HandlerInit /\ [][HandlerNext]_handlerVars
=============================================================================
