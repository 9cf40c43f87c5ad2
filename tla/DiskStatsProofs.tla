--------------------------- MODULE DiskStatsProofs ---------------------------
(***************************************************************************)
(* Proofs about DiskStats, for every width of the counters, any number of  *)
(* calls and any time and I/O within the bounds of the constants.          *)
(***************************************************************************)
EXTENDS DiskStats, SequenceTheorems, TLAPS

LEMMA SwappedType ==
  ASSUME TypeOK, NEW c \in Callers
  PROVE  Swapped(c) \in SwapRec
BY DEF TypeOK, Swapped, SwapRec

LEMMA SwapAppends ==
  ASSUME TypeOK, NEW c \in Callers, Swap(c)
  PROVE  /\ swaps' \in Seq(SwapRec) /\ Len(swaps) \in Nat
         /\ Len(swaps') = Len(swaps) + 1
         /\ \A k \in 1..Len(swaps) : swaps'[k] = swaps[k]
         /\ swaps'[Len(swaps) + 1] = Swapped(c)
BY SwappedType, AppendProperties DEF TypeOK, Swap

LEMMA TypeStep == ASSUME TypeOK, [Next]_vars PROVE TypeOK'
<1>0. None \in Int /\ counter \in Readings0
  BY DEF None, TypeOK, Readings0
<1>1. ASSUME NEW c \in Callers, Stamp(c)
      PROVE  TypeOK'
  BY <1>1 DEF Stamp, TypeOK
<1>2. ASSUME NEW c \in Callers, NEW ok \in BOOLEAN, Sample(c, ok)
      PROVE  TypeOK'
  <2>1. (IF ok THEN counter ELSE None) \in Readings0
    BY <1>0 DEF Readings0
  <2>2. QED
    BY <1>2, <2>1 DEF Sample, TypeOK
<1>3. ASSUME NEW c \in Callers, Swap(c)
      PROVE  TypeOK'
  <2>1. prevIO' \in Readings0 /\ prevAt' \in Times0
    BY <1>3 DEF Swap, TypeOK, Times0
  <2>2. QED
    BY <1>3, <2>1, SwapAppends DEF Swap, TypeOK
<1>4. CASE Tick
  BY <1>4, BoundsAssumption DEF Tick, TypeOK, Times
<1>5. CASE DeviceIO
  BY <1>5, WidthAssumption DEF DeviceIO, TypeOK, Readings
<1>6. CASE UNCHANGED vars
  BY <1>6 DEF vars, TypeOK
<1>7. QED
  BY <1>1, <1>2, <1>3, <1>4, <1>5, <1>6 DEF Next

\* TypeOK is an invariant of DiskStats.
THEOREM TypeCorrect == Spec => []TypeOK
<1>1. Init => TypeOK
  <2>1. 0 \in Readings /\ 0 \in Times /\ None \in Readings0 /\ None \in Times0
    BY WidthAssumption, BoundsAssumption DEF Readings, Times, Readings0, Times0
  <2>2. QED
    BY <2>1 DEF Init, TypeOK
<1>2. QED
  BY <1>1, TypeStep, PTL DEF Spec

\* Every call measures from what the call just before it left, time and
\* counters together, whatever the goroutines do and whichever reads fail.
THEOREM BaselinesAlwaysChain == Spec => []BaselinesChain
<1>1. Init => BaselinesChain
  BY DEF Init, BaselinesChain
<1> DEFINE Fresh == swaps = <<>> => prevAt = None /\ prevIO = None
           Inv == BaselinesChain /\ Fresh
<1>2. Init => Inv
  BY <1>1 DEF Init
<1>3. TypeOK /\ Inv /\ [Next]_vars => Inv'
  <2> SUFFICES ASSUME TypeOK, Inv, [Next]_vars
               PROVE  Inv'
    OBVIOUS
  <2>1. CASE UNCHANGED <<swaps, prevIO, prevAt>>
    BY <2>1 DEF BaselinesChain
  <2>2. \A c \in Callers, ok \in BOOLEAN :
          Stamp(c) \/ Sample(c, ok) => UNCHANGED <<swaps, prevIO, prevAt>>
    BY DEF Stamp, Sample
  <2>3. Tick \/ DeviceIO \/ UNCHANGED vars => UNCHANGED <<swaps, prevIO, prevAt>>
    BY DEF Tick, DeviceIO, vars
  <2>4. ASSUME NEW c \in Callers, Swap(c)
        PROVE  Inv'
    <3> DEFINE n == Len(swaps) + 1
    <3>1. /\ swaps' \in Seq(SwapRec) /\ Len(swaps) \in Nat /\ Len(swaps') = n
          /\ \A k \in 1..Len(swaps) : swaps'[k] = swaps[k]
          /\ swaps'[n] = Swapped(c)
      BY <2>4, SwapAppends
    <3>2. /\ DOMAIN swaps = 1..Len(swaps) /\ DOMAIN swaps' = 1..n
          /\ swaps = <<>> <=> n = 1
      BY <3>1, LenProperties, EmptySeq DEF TypeOK
    <3>3. swaps'[n].at = prevAt' /\ swaps'[n].io = prevIO'
      BY <2>4, <3>1 DEF Swap, Swapped
    <3>4. IF n = 1 THEN swaps'[n].baseAt = None /\ swaps'[n].baseIO = None
          ELSE swaps'[n].baseAt = swaps[n-1].at /\ swaps'[n].baseIO = swaps[n-1].io
      BY <3>1, <3>2 DEF Swapped, BaselinesChain
    <3>5. \A k \in 1..n :
            IF k = 1 THEN swaps'[k].baseAt = None /\ swaps'[k].baseIO = None
            ELSE swaps'[k].baseAt = swaps'[k-1].at /\ swaps'[k].baseIO = swaps'[k-1].io
      <4>1. ASSUME NEW k \in 1..Len(swaps), k # 1
            PROVE  swaps'[k].baseAt = swaps'[k-1].at /\ swaps'[k].baseIO = swaps'[k-1].io
        <5>1. k - 1 \in 1..Len(swaps)
          BY <3>1, <4>1
        <5>2. QED
          BY <3>1, <3>2, <4>1, <5>1 DEF BaselinesChain
      <4>2. n # 1 => n - 1 \in 1..Len(swaps)
        BY <3>1
      <4>3. QED
        BY <3>1, <3>2, <3>4, <4>1, <4>2 DEF BaselinesChain
    <3>6. QED
      BY <3>1, <3>2, <3>3, <3>5 DEF BaselinesChain
  <2>5. QED
    BY <2>1, <2>2, <2>3, <2>4 DEF Next
<1>4. QED
  BY <1>2, <1>3, TypeCorrect, PTL DEF Spec

-----------------------------------------------------------------------------

\* What the counters have to do with each other: nothing that was read is past
\* the device's counter, and a call that no swap has overtaken read at least
\* what its baseline read.
SampledInOrder ==
  /\ prevIO <= counter
  /\ \A c \in Callers :
       /\ cur[c] <= counter
       /\ begun[c] <= Len(swaps)
       /\ pc[c] = "lock" /\ begun[c] = Len(swaps) /\ cur[c] # None => prevIO <= cur[c]

LEMMA CountersTyped ==
  ASSUME TypeOK
  PROVE  /\ counter \in Nat /\ counter <= MaxIO
         /\ prevIO \in Int /\ None \in Int /\ Len(swaps) \in Nat
         /\ prevIO # None => prevIO \in 0..MaxIO
         /\ \A c \in Callers : /\ cur[c] \in Int /\ begun[c] \in Nat
                               /\ cur[c] # None => cur[c] \in 0..MaxIO
BY WidthAssumption DEF TypeOK, Readings0, Readings, None

LEMMA SampledInOrderStep ==
  ASSUME TypeOK, SampledInOrder, [Next]_vars
  PROVE  SampledInOrder'
<1> USE CountersTyped
<1>1. ASSUME NEW c \in Callers, Stamp(c)
      PROVE  SampledInOrder'
  BY <1>1 DEF Stamp, SampledInOrder, TypeOK
<1>2. ASSUME NEW c \in Callers, NEW ok \in BOOLEAN, Sample(c, ok)
      PROVE  SampledInOrder'
  <2>1. cur'[c] = None \/ cur'[c] = counter
    BY <1>2 DEF Sample, TypeOK
  <2>2. None <= counter
    BY DEF None
  <2>3. \A d \in Callers : d # c => cur'[d] = cur[d] /\ pc'[d] = pc[d]
    BY <1>2 DEF Sample, TypeOK
  <2>4. UNCHANGED <<counter, prevIO, begun, swaps>>
    BY <1>2 DEF Sample
  <2>5. QED
    BY <2>1, <2>2, <2>3, <2>4 DEF SampledInOrder
<1>3. ASSUME NEW c \in Callers, Swap(c)
      PROVE  SampledInOrder'
  <2>1. Len(swaps') = Len(swaps) + 1
    BY <1>3, SwapAppends
  <2>2. prevIO' = cur[c] /\ UNCHANGED <<counter, cur, begun>>
    BY <1>3 DEF Swap
  <2>3. \A d \in Callers : begun'[d] # Len(swaps')
    BY <2>1, <2>2 DEF SampledInOrder
  <2>4. QED
    BY <2>1, <2>2, <2>3 DEF SampledInOrder
<1>4. CASE Tick
  BY <1>4 DEF Tick, SampledInOrder
<1>5. CASE DeviceIO
  BY <1>5 DEF DeviceIO, SampledInOrder
<1>6. CASE UNCHANGED vars
  BY <1>6 DEF vars, SampledInOrder
<1>7. QED
  BY <1>1, <1>2, <1>3, <1>4, <1>5, <1>6 DEF Next

\* A difference that does not underflow is not changed by the width.
LEMMA NoWrap ==
  ASSUME NEW a \in 0..MaxIO, NEW b \in 0..MaxIO, b <= a
  PROVE  (a - b) % Width = a - b
<1>1. a - b \in 0..(Width - 1) /\ Width \in Nat \ {0}
  BY WidthAssumption
<1>2. QED
  BY <1>1

\* Without overlap the rates are true: no wrap-around, a positive time.
THEOREM ExactWithoutOverlapAlways == Spec => []ExactWithoutOverlap
<1>1. Init => SampledInOrder /\ ExactWithoutOverlap
  BY DEF Init, SampledInOrder, ExactWithoutOverlap, None
<1>2. TypeOK /\ SampledInOrder /\ ExactWithoutOverlap /\ [Next]_vars
        => ExactWithoutOverlap'
  <2> SUFFICES ASSUME TypeOK, SampledInOrder, ExactWithoutOverlap, [Next]_vars
               PROVE  ExactWithoutOverlap'
    OBVIOUS
  <2>1. CASE UNCHANGED swaps
    BY <2>1 DEF ExactWithoutOverlap, HasIO, Elapsed, Delta
  <2>2. \A c \in Callers, ok \in BOOLEAN : Stamp(c) \/ Sample(c, ok) => UNCHANGED swaps
    BY DEF Stamp, Sample
  <2>3. Tick \/ DeviceIO \/ UNCHANGED vars => UNCHANGED swaps
    BY DEF Tick, DeviceIO, vars
  <2>4. ASSUME NEW c \in Callers, Swap(c)
        PROVE  ExactWithoutOverlap'
    <3> DEFINE n == Len(swaps) + 1
               s == Swapped(c)
    <3>1. /\ Len(swaps) \in Nat
          /\ \A k \in 1..Len(swaps) : swaps'[k] = swaps[k]
          /\ swaps'[n] = s
          /\ DOMAIN swaps = 1..Len(swaps) /\ DOMAIN swaps' = 1..n
      BY <2>4, SwapAppends, LenProperties DEF TypeOK
    <3>2. ASSUME s.begun = n - 1, HasIO(s)
          PROVE  s.io >= s.baseIO /\ Delta(s) = s.io - s.baseIO /\ s.at > s.baseAt
      <4>1. s.io = cur[c] /\ s.baseIO = prevIO /\ s.begun = begun[c]
            /\ s.at = now[c] /\ s.baseAt = prevAt
        BY DEF Swapped
      <4>2. s.io \in 0..MaxIO /\ s.baseIO \in 0..MaxIO
        BY <3>2, <4>1, CountersTyped DEF HasIO
      <4>3. s.baseIO <= s.io
        BY <2>4, <3>1, <3>2, <4>1 DEF Swap, SampledInOrder, HasIO
      <4>4. Delta(s) = s.io - s.baseIO
        BY <4>2, <4>3, NoWrap DEF Delta
      <4>5. s.at > s.baseAt
        <5>1. s.at \in Int /\ s.baseAt \in Int
          BY <4>1 DEF TypeOK, Times, Times0, None
        <5>2. QED
          BY <3>2, <5>1 DEF HasIO, Elapsed
      <4>6. QED
        BY <4>2, <4>3, <4>4, <4>5, WidthAssumption
    <3>3. QED
      BY <3>1, <3>2 DEF ExactWithoutOverlap
  <2>5. QED
    BY <2>1, <2>2, <2>3, <2>4 DEF Next
<1>3. QED
  BY <1>1, <1>2, TypeCorrect, SampledInOrderStep, PTL DEF Spec
=============================================================================
