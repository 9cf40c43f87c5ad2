------------------------------ MODULE DiskStats ------------------------------
(***************************************************************************)
(* The disk I/O rates of system.Module.GetDisk                             *)
(* (internal/modules/system/system.go), for one device.  Two goroutines    *)
(* call it: the telemetry loop (GetMetrics) and the NATS callback (the     *)
(* operations system.disk and system.metrics).  The time and the counters  *)
(* are read before the mutex is taken; under the mutex the call swaps them *)
(* with the baseline that the previous call left.  What follows uses local *)
(* values only, so the rates are an operator on what was swapped.          *)
(*                                                                         *)
(* The counters (bytes, operations, busy time) behave alike and one stands *)
(* for all.  swaps is a history: what each call swapped, in the order of   *)
(* the mutex.  A call whose disk.Partitions fails returns before it reads  *)
(* or writes anything and is no step.                                      *)
(***************************************************************************)
EXTENDS Integers, Sequences

CONSTANTS
  Width,     \* the counters are uint64: Width is 2^64 in Go
  MaxClock,  \* bound: how far the clock runs
  MaxIO,     \* bound: how far the device's counter runs
  MaxCalls   \* bound: calls that begin while fewer than MaxCalls have ended

ASSUME WidthAssumption  == Width \in Nat \ {0} /\ MaxIO \in Nat /\ MaxIO < Width
ASSUME BoundsAssumption == MaxClock \in Nat /\ MaxCalls \in Nat

Callers == {"telemetry", "command"}

\* No counters (a failed read, or a device that is not listed); the zero Time.
None == -1

Times    == 0..MaxClock
Readings == 0..MaxIO

VARIABLES
  clock,    \* the monotonic clock (time.Now)
  counter,  \* the device's counter in the kernel
  prevIO,   \* m.prevIO
  prevAt,   \* m.prevIOAt
  pc,       \* where each caller is in GetDisk
  now,      \* its local now
  cur,      \* its local ioCounters
  begun,    \* history: how many calls had swapped when it took its time
  swaps     \* history: the calls that swapped, in order

vars == <<clock, counter, prevIO, prevAt, pc, now, cur, begun, swaps>>

-----------------------------------------------------------------------------
(* The rates. *)

\* Mutant: the operands exchanged.
DeltaReversed(s) == (s.baseIO - s.io) % Width

\* cur.ReadBytes - old.ReadBytes, in uint64; the code divides it by Elapsed.
Delta(s) == (s.io - s.baseIO) % Width

Elapsed(s) == IF s.baseAt = None THEN 0 ELSE s.at - s.baseAt

\* Whether the entry of the device carries the io field.
HasIO(s) == Elapsed(s) > 0 /\ s.baseIO # None /\ s.io # None

-----------------------------------------------------------------------------
(* GetDisk. *)

\* Mutant: a wall clock, which may have been set back.
StampWall(c) ==
  /\ pc[c] = "idle" /\ Len(swaps) < MaxCalls
  /\ now' = [now EXCEPT ![c] = clock - 1]
  /\ begun' = [begun EXCEPT ![c] = Len(swaps)]
  /\ pc' = [pc EXCEPT ![c] = "sample"]
  /\ UNCHANGED <<clock, counter, prevIO, prevAt, cur, swaps>>

\* The partitions are listed; now := time.Now().
Stamp(c) ==
  /\ pc[c] = "idle" /\ Len(swaps) < MaxCalls
  /\ now' = [now EXCEPT ![c] = clock]
  /\ begun' = [begun EXCEPT ![c] = Len(swaps)]
  /\ pc' = [pc EXCEPT ![c] = "sample"]
  /\ UNCHANGED <<clock, counter, prevIO, prevAt, cur, swaps>>

\* ioCounters, _ := disk.IOCountersWithContext(ctx): an error leaves nil.
Sample(c, ok) ==
  /\ pc[c] = "sample"
  /\ cur' = [cur EXCEPT ![c] = IF ok THEN counter ELSE None]
  /\ pc' = [pc EXCEPT ![c] = "lock"]
  /\ UNCHANGED <<clock, counter, prevIO, prevAt, now, begun, swaps>>

Swapped(c) == [by |-> c, at |-> now[c], io |-> cur[c],
               baseAt |-> prevAt, baseIO |-> prevIO, begun |-> begun[c]]

\* Mutant: a failed read keeps the old counters, under a new time.
SwapKeepsCounters(c) ==
  /\ pc[c] = "lock"
  /\ swaps' = Append(swaps, Swapped(c))
  /\ prevIO' = IF cur[c] = None THEN prevIO ELSE cur[c]
  /\ prevAt' = now[c]
  /\ pc' = [pc EXCEPT ![c] = "idle"]
  /\ UNCHANGED <<clock, counter, now, cur, begun>>

\* The critical section.  The call then computes from its locals and returns.
Swap(c) ==
  /\ pc[c] = "lock"
  /\ swaps' = Append(swaps, Swapped(c))
  /\ prevIO' = cur[c]
  /\ prevAt' = now[c]
  /\ pc' = [pc EXCEPT ![c] = "idle"]
  /\ UNCHANGED <<clock, counter, now, cur, begun>>

-----------------------------------------------------------------------------
(* The machine (external). *)

Tick ==
  /\ clock < MaxClock
  /\ clock' = clock + 1
  /\ UNCHANGED <<counter, prevIO, prevAt, pc, now, cur, begun, swaps>>

DeviceIO ==
  /\ counter < MaxIO
  /\ counter' = counter + 1
  /\ UNCHANGED <<clock, prevIO, prevAt, pc, now, cur, begun, swaps>>

-----------------------------------------------------------------------------

Init ==
  /\ clock = 0 /\ counter = 0
  /\ prevIO = None /\ prevAt = None
  /\ pc = [c \in Callers |-> "idle"]
  /\ now = [c \in Callers |-> 0]
  /\ cur = [c \in Callers |-> None]
  /\ begun = [c \in Callers |-> 0]
  /\ swaps = <<>>

Next ==
  \/ \E c \in Callers : Stamp(c) \/ Swap(c) \/ \E ok \in BOOLEAN : Sample(c, ok)
  \/ Tick \/ DeviceIO

Spec == Init /\ [][Next]_vars

-----------------------------------------------------------------------------
(* Properties. *)

Readings0 == Readings \cup {None}
Times0    == Times \cup {None}
SwapRec   == [by : Callers, at : Times, io : Readings0,
              baseAt : Times0, baseIO : Readings0, begun : Nat]

\* Types of the state.
TypeOK ==
  /\ clock \in Times /\ counter \in Readings
  /\ prevIO \in Readings0 /\ prevAt \in Times0
  /\ pc \in [Callers -> {"idle", "sample", "lock"}]
  /\ now \in [Callers -> Times]
  /\ cur \in [Callers -> Readings0]
  /\ begun \in [Callers -> Nat]
  /\ swaps \in Seq(SwapRec)

\* Each call measures from the counters and the time of the one call that held
\* the mutex just before it, never from the counters of one call and the time
\* of another, and no baseline is used twice or skipped, whatever the two
\* goroutines do and whichever reads fail (GetDisk's critical section).
BaselinesChain ==
  /\ \A k \in DOMAIN swaps :
       IF k = 1 THEN swaps[k].baseAt = None /\ swaps[k].baseIO = None
       ELSE swaps[k].baseAt = swaps[k-1].at /\ swaps[k].baseIO = swaps[k-1].io
  /\ swaps # <<>> => prevAt = swaps[Len(swaps)].at /\ prevIO = swaps[Len(swaps)].io

\* A call during which no other call swapped reports rates that are true: the
\* device's counter grew by exactly the difference it computes, without
\* wrapping, over a positive time (GetDisk, when the two goroutines do not
\* overlap).
ExactWithoutOverlap ==
  \A k \in DOMAIN swaps : swaps[k].begun = k - 1 /\ HasIO(swaps[k]) =>
    /\ swaps[k].io >= swaps[k].baseIO
    /\ Delta(swaps[k]) = swaps[k].io - swaps[k].baseIO
    /\ swaps[k].at > swaps[k].baseAt

(* What the documents say. *)

\* "I/O rates are calculated as a delta from the previous call": what a call
\* reports is at most all the I/O there has been.
RatesAreDeltas ==
  \A k \in DOMAIN swaps : HasIO(swaps[k]) => Delta(swaps[k]) <= counter
=============================================================================
