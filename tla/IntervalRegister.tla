--------------------------- MODULE IntervalRegister ---------------------------
(***************************************************************************)
(* What the hand-over of telemetry intervals promises, without the channel *)
(* and the statements that fill it: a register that keeps the newest       *)
(* interval until the telemetry loop uses it.  A request takes effect at   *)
(* one moment; from then on nothing older can come into use, and what is   *)
(* in use stays until something newer replaces it.  Publisher implements   *)
(* it.                                                                     *)
(***************************************************************************)
EXTENDS Naturals

CONSTANT Periods  \* the intervals that can come into use

VARIABLES
  count,  \* requests so far; a request is <<interval, number>>
  asked,  \* the request that has not taken effect yet: <<>> or one of them
  held,   \* the newest that has, until it is used: <<>> or one
  used    \* the one in use: <<>> (the configured interval) or one

vars == <<count, asked, held, used>>

Ask(d) ==
  /\ asked = <<>>
  /\ count' = count + 1
  /\ asked' = << <<d, count + 1>> >>
  /\ UNCHANGED <<held, used>>

\* What was held and not used yet is superseded.
Store ==
  /\ asked # <<>>
  /\ held' = asked /\ asked' = <<>>
  /\ UNCHANGED <<count, used>>

Use ==
  /\ held # <<>>
  /\ used' = held /\ held' = <<>>
  /\ UNCHANGED <<count, asked>>

Init == count = 0 /\ asked = <<>> /\ held = <<>> /\ used = <<>>

Next == (\E d \in Periods : Ask(d)) \/ Store \/ Use

Spec == Init /\ [][Next]_vars
=============================================================================
