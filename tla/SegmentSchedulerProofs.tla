----------------------- MODULE SegmentSchedulerProofs -----------------------
(***************************************************************************)
(* Proofs about SegmentScheduler, for any number of segments and any         *)
(* settings.                                                                 *)
(***************************************************************************)
EXTENDS SegmentScheduler, FiniteSetTheorems, TLAPS

InFlightIn(phase) == {b \in Segments : phase[b] \in InFlightPhases}

(* The inductive invariant.  The type of inFlightBatches needs that it       *)
(* counts the batches in flight (else .finally could take it below zero),    *)
(* and that in turn needs that a batch is never scheduled over another one:  *)
(* everything launched lies below scheduledSegments.                         *)
LaunchedBelow == \A b \in Segments : batch[b] # "none" => b < scheduledSegments

SchedulerInv ==
  /\ SchedulerTypeOK
  /\ WindowBound
  /\ InFlightExact
  /\ LaunchedBelow

(* What pump relies on when a callback calls it.                             *)
PumpReady(consumed, inFlight, phase) ==
  /\ consumed \in 0 .. totalSegments
  /\ inFlight \in 0 .. maxConcurrentSegmentBatches
  /\ scheduledSegments \in 0 .. totalSegments
  /\ phase \in [Segments -> Phases]
  /\ consumed <= scheduledSegments
  /\ scheduledSegments - consumed <= maxPrefetchedSegments
  /\ inFlight = Cardinality(InFlightIn(phase))
  /\ \A b \in Segments : phase[b] # "none" => b < scheduledSegments

(* Multiplication by a positive number, as pump's loop uses it.              *)
LEMMA Multiples ==
  ASSUME NEW B \in Nat \ {0}
  PROVE  /\ \A j \in Nat : j * B \in Nat
         /\ \A i, j \in Nat : i < j => i * B + B <= j * B
  <1>1. \A j \in Nat : j * B \in Nat
    OBVIOUS
  <1>2. ASSUME NEW i \in Nat, NEW j \in Nat, i < j
        PROVE  i * B + B <= j * B
    <2>1. PICK d \in Nat : j = i + 1 + d
      BY <1>2, j - i - 1 \in Nat
    <2>2. j * B = i * B + B + d * B
      BY <2>1
    <2>3. d * B \in Nat
      BY <1>1
    <2> QED
      BY <2>2, <2>3, <1>1
  <1> QED
    BY <1>1, <1>2

LEMMA SegmentsFinite ==
  ASSUME totalSegments \in Nat
  PROVE  /\ IsFiniteSet(Segments)
         /\ \A S \in SUBSET Segments :
              IsFiniteSet(S) /\ Cardinality(S) \in Nat
  <1>1. IsFiniteSet(Segments)
    BY FS_Interval DEF Segments
  <1> QED
    BY <1>1, FS_Subset, FS_CardinalityType

(* The batch starts of "turns" turns of the loop are as many as the turns.   *)
LEMMA TurnsCount ==
  ASSUME NEW B \in Nat \ {0}, NEW start \in Nat, NEW turns \in Nat
  PROVE  /\ IsFiniteSet({start + j * B : j \in 0 .. turns - 1})
         /\ Cardinality({start + j * B : j \in 0 .. turns - 1}) = turns
  <1> DEFINE starts == {start + j * B : j \in 0 .. turns - 1}
             f == [j \in 0 .. turns - 1 |-> start + j * B]
  <1>1. \A j \in Nat : j * B \in Nat
    BY Multiples
  <1>2. f \in Bijection(0 .. turns - 1, starts)
    <2>1. f \in Surjection(0 .. turns - 1, starts)
      BY DEF Surjection
    <2>2. ASSUME NEW i \in 0 .. turns - 1, NEW j \in 0 .. turns - 1, i < j
          PROVE  f[i] # f[j]
      <3>1. i * B + B <= j * B
        BY <2>2, Multiples
      <3> QED
        BY <3>1, <1>1
    <2>3. \A i, j \in 0 .. turns - 1 : f[i] = f[j] => i = j
      BY <2>2
    <2> QED
      BY <2>1, <2>3 DEF Bijection, Injection, IsInjective, Surjection
  <1>3. IsFiniteSet(0 .. turns - 1) /\ Cardinality(0 .. turns - 1) = turns
    BY FS_Interval
  <1> QED
    BY <1>2, <1>3, FS_Bijection DEF ExistsBijection

(* pump keeps the invariant: it stops inside the window, and it counts what  *)
(* it launches.                                                              *)
LEMMA PumpKeepsInv ==
  ASSUME SettingsAssumption,
         NEW consumed, NEW inFlight, NEW phase,
         PumpReady(consumed, inFlight, phase),
         Pump(consumed, inFlight, phase)
  PROVE  /\ inFlightBatches' \in 0 .. maxConcurrentSegmentBatches
         /\ scheduledSegments' \in scheduledSegments .. totalSegments
         /\ scheduledSegments' - consumed <= maxPrefetchedSegments
         /\ batch' \in [Segments -> Phases]
         /\ inFlightBatches' = Cardinality(InFlight')
         /\ LaunchedBelow'
  <1> DEFINE B == segmentBatchSize
             Scheduled(j) == scheduledSegments + j * B
  <1>1. PICK turns \in 0 .. maxConcurrentSegmentBatches :
          /\ \A j \in 0 .. turns - 1 :
               CanSchedule(Scheduled(j), inFlight + j, consumed)
          /\ scheduledSegments' =
               IF turns = 0 THEN scheduledSegments
                            ELSE EndIndex(Scheduled(turns - 1))
          /\ inFlightBatches' = inFlight + turns
          /\ batch' = [b \in Segments |->
                         IF \E j \in 0 .. turns - 1 : b = Scheduled(j)
                         THEN "queued" ELSE phase[b]]
    BY DEF Pump
  <1> DEFINE starts == {scheduledSegments + j * B : j \in 0 .. turns - 1}
  <1>2. /\ B \in Nat \ {0}
        /\ maxConcurrentSegmentBatches \in Nat
        /\ totalSegments \in Nat
        /\ scheduledSegments \in Nat
        /\ scheduledSegments <= totalSegments
        /\ consumed \in Nat
        /\ inFlight \in Nat
        /\ turns \in Nat
    BY DEF SettingsAssumption, PumpReady
  <1>3. maxPrefetchedSegments \in Nat
    BY <1>2, Multiples DEF maxPrefetchedSegments, SettingsAssumption
  <1>4. \A j \in Nat : Scheduled(j) \in Nat /\ Scheduled(j) >= scheduledSegments
    BY <1>2, Multiples
  <1>5. inFlightBatches' \in 0 .. maxConcurrentSegmentBatches
    <2>1. CASE turns = 0
      BY <2>1, <1>1 DEF PumpReady
    <2>2. CASE turns # 0
      <3>1. CanSchedule(Scheduled(turns - 1), inFlight + (turns - 1), consumed)
        BY <2>2, <1>1, <1>2
      <3>2. inFlight + (turns - 1) < maxConcurrentSegmentBatches
        BY <3>1 DEF CanSchedule
      <3> QED
        BY <3>2, <1>1, <1>2
    <2> QED
      BY <2>1, <2>2
  <1>6. /\ scheduledSegments' \in scheduledSegments .. totalSegments
        /\ scheduledSegments' - consumed <= maxPrefetchedSegments
        /\ \A j \in 0 .. turns - 1 : Scheduled(j) < scheduledSegments'
    <2>1. CASE turns = 0
      BY <2>1, <1>1, <1>2 DEF PumpReady
    <2>2. CASE turns # 0
      <3> DEFINE last == Scheduled(turns - 1)
      <3>1. turns - 1 \in 0 .. turns - 1
        BY <2>2, <1>2
      <3>2. CanSchedule(last, inFlight + (turns - 1), consumed)
        BY <3>1, <1>1
      <3>3. last \in Nat /\ last >= scheduledSegments
        BY <3>1, <1>2, <1>4
      <3>4. /\ last < totalSegments
            /\ maxPrefetchedSegments - (last - consumed)
                 >= Smaller(B, totalSegments - last)
        BY <3>2 DEF CanSchedule
      <3>5. scheduledSegments' = last + Smaller(B, totalSegments - last)
        BY <2>2, <1>1 DEF EndIndex
      <3>6. Smaller(B, totalSegments - last) \in 1 .. totalSegments - last
        <4> HIDE DEF last
        <4> QED
          BY <3>3, <3>4, <1>2 DEF Smaller
      <3>7. scheduledSegments' \in last + 1 .. totalSegments
        <4> HIDE DEF last
        <4> QED
          BY <3>3, <3>5, <3>6, <1>2
      <3>8. scheduledSegments' - consumed <= maxPrefetchedSegments
        <4> HIDE DEF last
        <4> QED
          BY <3>3, <3>4, <3>5, <3>6, <1>2, <1>3
      <3>9. ASSUME NEW j \in 0 .. turns - 1
            PROVE  Scheduled(j) <= last
        <4>1. CASE j = turns - 1
          BY <4>1, <3>3
        <4>2. CASE j < turns - 1
          <5>1. j * B + B <= (turns - 1) * B
            BY <4>2, <3>1, <1>2, Multiples
          <5>2. j * B \in Nat /\ (turns - 1) * B \in Nat
            BY <3>1, <1>2, Multiples
          <5> QED
            BY <5>1, <5>2, <1>2
        <4> QED
          BY <4>1, <4>2, <1>2
      <3> QED
        <4> HIDE DEF last
        <4>1. \A j \in 0 .. turns - 1 : Scheduled(j) \in Nat
          BY <1>4
        <4> HIDE DEF Scheduled
        <4> QED
          BY <3>3, <3>7, <3>8, <3>9, <4>1, <1>2
    <2> QED
      BY <2>1, <2>2
  <1>7. starts \in SUBSET Segments
    <2>1. \A j \in 0 .. turns - 1 : Scheduled(j) < totalSegments
      BY <1>6, <1>4, <1>2
    <2> QED
      BY <2>1, <1>4, <1>2 DEF Segments
  <1>8. batch' = [b \in Segments |-> IF b \in starts THEN "queued" ELSE phase[b]]
    BY <1>1
  <1>9. batch' \in [Segments -> Phases]
    BY <1>8 DEF PumpReady, Phases
  <1>10. inFlightBatches' = Cardinality(InFlight')
    <2>1. InFlight' = InFlightIn(phase) \cup starts
      BY <1>7, <1>8 DEF InFlight, InFlightIn, InFlightPhases, Phases, Segments
    <2>2. InFlightIn(phase) \cap starts = {}
      <3>1. \A b \in starts : b >= scheduledSegments
        BY <1>2, <1>4
      <3>2. \A b \in InFlightIn(phase) : b \in Nat /\ b < scheduledSegments
        BY DEF InFlightIn, InFlightPhases, PumpReady, Segments
      <3> QED
        BY <3>1, <3>2, <1>2
    <2>3. IsFiniteSet(InFlightIn(phase)) /\ Cardinality(InFlightIn(phase)) \in Nat
      BY <1>2, SegmentsFinite DEF InFlightIn
    <2>4. IsFiniteSet(starts) /\ Cardinality(starts) = turns
      BY <1>2, TurnsCount
    <2>5. Cardinality(InFlightIn(phase) \cup starts)
            = Cardinality(InFlightIn(phase)) + Cardinality(starts) - Cardinality({})
      BY <2>2, <2>3, <2>4, FS_Union
    <2> QED
      BY <2>1, <2>3, <2>4, <2>5, <1>1, <1>2, FS_EmptySet DEF PumpReady
  <1>11. LaunchedBelow'
    <2> SUFFICES ASSUME NEW b \in Segments, batch'[b] # "none"
                 PROVE  b < scheduledSegments'
      BY DEF LaunchedBelow, Segments
    <2>1. CASE b \in starts
      BY <2>1, <1>6
    <2>2. CASE b \notin starts
      BY <2>2, <1>8, <1>6, <1>2 DEF PumpReady, Segments
    <2> QED
      BY <2>1, <2>2
  <1> QED
    BY <1>5, <1>6, <1>9, <1>10, <1>11

-----------------------------------------------------------------------------
LEMMA InitEstablishesInv ==
  ASSUME SettingsAssumption, SchedulerInit
  PROVE  SchedulerInv
  <1>1. maxPrefetchedSegments \in Nat
    BY Multiples DEF SettingsAssumption, maxPrefetchedSegments
  <1>2. InFlight = {}
    BY DEF SchedulerInit, InFlight, InFlightPhases
  <1>3. SchedulerTypeOK
    <2>1. stopped \in BOOLEAN
      BY Zenon DEF SchedulerInit
    <2>2. batch \in [Segments -> Phases]
      BY DEF SchedulerInit, Phases
    <2>3. /\ consumedSegments \in 0 .. totalSegments
          /\ inFlightBatches \in 0 .. maxConcurrentSegmentBatches
          /\ scheduledSegments \in 0 .. totalSegments
      BY DEF SettingsAssumption, SchedulerInit
    <2> QED
      BY <2>1, <2>2, <2>3 DEF SchedulerTypeOK
  <1>4. WindowBound
    BY <1>1 DEF SchedulerInit, WindowBound
  <1>5. InFlightExact
    BY <1>2, FS_EmptySet DEF SchedulerInit, InFlightExact
  <1>6. LaunchedBelow
    BY DEF SchedulerInit, LaunchedBelow
  <1> QED
    BY <1>3, <1>4, <1>5, <1>6 DEF SchedulerInv

(* A callback that calls pump: what it leaves to pump is ready for it.       *)
LEMMA InvIsPumpReady ==
  ASSUME SchedulerInv
  PROVE  PumpReady(consumedSegments, inFlightBatches, batch)
  BY DEF SchedulerInv, SchedulerTypeOK, WindowBound, InFlightExact, InFlight,
         InFlightIn, LaunchedBelow, PumpReady

(* markConsumed and .finally, too, leave to pump what it needs.              *)
LEMMA ConsumeIsPumpReady ==
  ASSUME SettingsAssumption, SchedulerInv,
         NEW count \in 1 .. segmentBatchSize, ConsumeScheduled(count)
  PROVE  /\ consumedSegments' \in 0 .. totalSegments
         /\ consumedSegments' <= scheduledSegments
         /\ PumpReady(consumedSegments', inFlightBatches, batch)
  <1>1. /\ consumedSegments' = consumedSegments + count
        /\ consumedSegments' \in 0 .. totalSegments
        /\ consumedSegments' <= scheduledSegments
    BY DEF ConsumeScheduled, MarkConsumed, SchedulerInv, SchedulerTypeOK, Smaller,
           SettingsAssumption
  <1>2. maxPrefetchedSegments \in Nat
    BY Multiples DEF SettingsAssumption, maxPrefetchedSegments
  <1>3. scheduledSegments - consumedSegments' <= maxPrefetchedSegments
    BY <1>1, <1>2 DEF SchedulerInv, SchedulerTypeOK, WindowBound, SettingsAssumption
  <1> QED
    BY <1>1, <1>3, InvIsPumpReady DEF PumpReady

LEMMA FinallyIsPumpReady ==
  ASSUME SettingsAssumption, SchedulerInv, NEW b \in Segments, FinallyBatch(b)
  PROVE  PumpReady(consumedSegments, inFlightBatches - 1, [batch EXCEPT ![b] = "done"])
  <1> DEFINE phase == [batch EXCEPT ![b] = "done"]
  <1>1. /\ Pump(consumedSegments, inFlightBatches - 1, phase)
        /\ batch[b] \in {"resolved", "caught"}
        /\ UNCHANGED <<consumedSegments, stopped>>
    BY DEF FinallyBatch
  <1>2. InFlightIn(phase) = InFlight \ {b}
    BY DEF SchedulerInv, SchedulerTypeOK, InFlight, InFlightIn, InFlightPhases
  <1>3. b \in InFlight
    BY <1>1 DEF InFlight, InFlightPhases, Phases
  <1>4. IsFiniteSet(InFlight) /\ Cardinality(InFlight) \in Nat
    BY SegmentsFinite DEF SettingsAssumption, InFlight
  <1>5. /\ Cardinality(InFlightIn(phase)) = inFlightBatches - 1
        /\ Cardinality(InFlightIn(phase)) \in Nat
    <2>1. InFlightIn(phase) \in SUBSET Segments
      BY DEF InFlightIn
    <2> QED
      BY <1>2, <1>3, <1>4, <2>1, FS_RemoveElement, SegmentsFinite
      DEF SchedulerInv, InFlightExact, SettingsAssumption
  <1>6. PumpReady(consumedSegments, inFlightBatches - 1, phase)
    <2>1. phase \in [Segments -> Phases]
      BY DEF SchedulerInv, SchedulerTypeOK, Phases
    <2>2. \A c \in Segments : phase[c] # "none" => c < scheduledSegments
      BY <1>1 DEF SchedulerInv, SchedulerTypeOK, LaunchedBelow
    <2>3. inFlightBatches - 1 \in 0 .. maxConcurrentSegmentBatches
      BY <1>5 DEF SchedulerInv, SchedulerTypeOK, SettingsAssumption
    <2> HIDE DEF phase
    <2> QED
      BY <1>5, <2>1, <2>2, <2>3
      DEF SchedulerInv, SchedulerTypeOK, WindowBound, PumpReady
  <1> QED
    BY <1>6

(* A batch that moves from one phase in flight to another.                   *)
LEMMA PhaseChangeKeepsInv ==
  ASSUME SettingsAssumption, SchedulerInv,
         NEW b \in Segments, NEW phase \in InFlightPhases,
         batch[b] \in InFlightPhases,
         batch' = [batch EXCEPT ![b] = phase],
         stopped' \in BOOLEAN,
         UNCHANGED <<consumedSegments, inFlightBatches, scheduledSegments>>
  PROVE  SchedulerInv'
  <1>1. batch' \in [Segments -> Phases]
    BY DEF SchedulerInv, SchedulerTypeOK, InFlightPhases
  <1>2. SchedulerTypeOK'
    BY <1>1 DEF SchedulerInv, SchedulerTypeOK
  <1>3. InFlight' = InFlight
    BY DEF SchedulerInv, SchedulerTypeOK, InFlight
  <1>4. WindowBound' /\ InFlightExact'
    BY <1>3 DEF SchedulerInv, WindowBound, InFlightExact, maxPrefetchedSegments
  <1>5. LaunchedBelow'
    BY DEF SchedulerInv, SchedulerTypeOK, LaunchedBelow, InFlightPhases
  <1> QED
    BY <1>2, <1>4, <1>5 DEF SchedulerInv

LEMMA NextKeepsInv ==
  ASSUME SettingsAssumption, SchedulerInv, [SchedulerNext]_schedulerVars
  PROVE  SchedulerInv'
  <1>1. CASE FillWindow
    <2>1. PumpReady(consumedSegments, inFlightBatches, batch)
      BY InvIsPumpReady
    <2> QED
      BY <1>1, <2>1, PumpKeepsInv
      DEF FillWindow, SchedulerInv, SchedulerTypeOK, WindowBound, InFlightExact,
          SettingsAssumption, maxPrefetchedSegments
  <1>2. ASSUME NEW count \in 1 .. segmentBatchSize, ConsumeScheduled(count)
        PROVE  SchedulerInv'
    <2>1. /\ consumedSegments' \in 0 .. totalSegments
          /\ consumedSegments' <= scheduledSegments
          /\ PumpReady(consumedSegments', inFlightBatches, batch)
      BY <1>2, ConsumeIsPumpReady
    <2>4. Pump(consumedSegments', inFlightBatches, batch) /\ stopped' = stopped
      BY <1>2 DEF ConsumeScheduled, MarkConsumed
    <2> QED
      BY <2>1, <2>4, PumpKeepsInv
      DEF SchedulerInv, SchedulerTypeOK, WindowBound, InFlightExact,
          SettingsAssumption, maxPrefetchedSegments
  <1>3. ASSUME NEW b \in Segments, StartBatch(b)
        PROVE  SchedulerInv'
    BY <1>3, PhaseChangeKeepsInv
    DEF StartBatch, InFlightPhases, Phases, SchedulerInv, SchedulerTypeOK
  <1>4. ASSUME NEW b \in Segments, NEW outcome \in {"resolved", "rejected"},
               SettleBatch(b, outcome)
        PROVE  SchedulerInv'
    BY <1>4, PhaseChangeKeepsInv
    DEF SettleBatch, InFlightPhases, Phases, SchedulerInv, SchedulerTypeOK
  <1>5. ASSUME NEW b \in Segments, CatchBatch(b)
        PROVE  SchedulerInv'
    BY <1>5, PhaseChangeKeepsInv DEF CatchBatch, InFlightPhases, Phases
  <1>6. ASSUME NEW b \in Segments, FinallyBatch(b)
        PROVE  SchedulerInv'
    <2> DEFINE phase == [batch EXCEPT ![b] = "done"]
    <2>1. /\ Pump(consumedSegments, inFlightBatches - 1, phase)
          /\ UNCHANGED <<consumedSegments, stopped>>
      BY <1>6 DEF FinallyBatch
    <2>6. PumpReady(consumedSegments, inFlightBatches - 1, phase)
      BY <1>6, FinallyIsPumpReady
    <2> HIDE DEF phase
    <2> QED
      BY <2>1, <2>6, PumpKeepsInv
      DEF SchedulerInv, SchedulerTypeOK, WindowBound, InFlightExact,
          SettingsAssumption, maxPrefetchedSegments
  <1>7. CASE UNCHANGED schedulerVars
    BY <1>7
    DEF schedulerVars, SchedulerInv, SchedulerTypeOK, WindowBound, InFlightExact,
        InFlight, LaunchedBelow, maxPrefetchedSegments
  <1> QED
    BY <1>1, <1>2, <1>3, <1>4, <1>5, <1>6, <1>7 DEF SchedulerNext, SchedulerIdle

-----------------------------------------------------------------------------
LEMMA SchedulerInvariance == SchedulerSpec => []SchedulerInv
  <1>1. SchedulerInit => SchedulerInv
    BY InitEstablishesInv, SettingsAssumption
  <1>2. SchedulerInv /\ [SchedulerNext]_schedulerVars => SchedulerInv'
    BY NextKeepsInv, SettingsAssumption
  <1> QED
    BY <1>1, <1>2, PTL DEF SchedulerSpec

(* The scheduler's counters and phases stay in their types for every size of *)
(* file and every setting: .finally never takes inFlightBatches below zero   *)
(* and pump never takes it above maxConcurrentSegmentBatches.                *)
THEOREM TypeCorrect == SchedulerSpec => []SchedulerTypeOK
  <1>1. SchedulerInv => SchedulerTypeOK
    BY DEF SchedulerInv
  <1> QED
    BY <1>1, SchedulerInvariance, PTL

(* No interleaving of batches and reader makes the scheduler run further     *)
(* ahead of the reader than its window.                                      *)
THEOREM WindowIsBounded == SchedulerSpec => []WindowBound
  <1>1. SchedulerInv => WindowBound
    BY DEF SchedulerInv
  <1> QED
    BY <1>1, SchedulerInvariance, PTL

(* inFlightBatches counts the unsettled batches in every reachable state.    *)
THEOREM InFlightIsExact == SchedulerSpec => []InFlightExact
  <1>1. SchedulerInv => InFlightExact
    BY DEF SchedulerInv
  <1> QED
    BY <1>1, SchedulerInvariance, PTL

-----------------------------------------------------------------------------
(* A scheduler that stopped adds no batch: every turn of pump would have     *)
(* found it running.                                                         *)
LEMMA StoppedPumpIsIdle ==
  ASSUME SettingsAssumption, stopped, NEW consumed, NEW inFlight, NEW phase,
         Pump(consumed, inFlight, phase)
  PROVE  scheduledSegments' = scheduledSegments
  <1> DEFINE Scheduled(j) == scheduledSegments + j * segmentBatchSize
  <1>1. PICK turns \in 0 .. maxConcurrentSegmentBatches :
          /\ \A j \in 0 .. turns - 1 :
               CanSchedule(Scheduled(j), inFlight + j, consumed)
          /\ scheduledSegments' =
               IF turns = 0 THEN scheduledSegments
                            ELSE EndIndex(Scheduled(turns - 1))
    BY DEF Pump
  <1>2. \A j \in 0 .. turns - 1 : FALSE
    BY <1>1 DEF CanSchedule
  <1>3. turns = 0
    BY <1>2 DEF SettingsAssumption
  <1> QED
    BY <1>1, <1>3

LEMMA StoppedStepIsIdle ==
  ASSUME SettingsAssumption, [SchedulerNext]_schedulerVars
  PROVE  stopped => stopped' /\ UNCHANGED scheduledSegments
  BY StoppedPumpIsIdle
  DEF SchedulerNext, FillWindow, ConsumeScheduled, MarkConsumed, StartBatch, SettleBatch,
      CatchBatch, FinallyBatch, SchedulerIdle, schedulerVars

(* After a failure nothing is scheduled any more.                            *)
THEOREM FailureIsFinal == SchedulerSpec => NothingScheduledAfterFailure
  <1>1. [SchedulerNext]_schedulerVars =>
          [stopped => stopped' /\ UNCHANGED scheduledSegments]_schedulerVars
    BY StoppedStepIsIdle, SettingsAssumption
  <1> QED
    BY <1>1, PTL DEF SchedulerSpec, NothingScheduledAfterFailure

-----------------------------------------------------------------------------
(* Multiples of the size of a batch are in the order of their factors.       *)
LEMMA StartsApart ==
  ASSUME NEW B \in Nat \ {0}, NEW i \in Nat, NEW j \in Nat
  PROVE  /\ i <= i * B
         /\ i <= j => i * B <= j * B
         /\ i * B >= j * B => i >= j
         /\ i * B < j * B => i < j
  <1>1. i * B \in Nat /\ j * B \in Nat
    BY Multiples
  <1>2. i < j => i * B + B <= j * B
    BY Multiples
  <1>3. j < i => j * B + B <= i * B
    BY Multiples
  <1>4. i <= i * B
    <2>1. PICK d \in Nat : B = d + 1
      BY B - 1 \in Nat
    <2>2. i * B = i * d + i /\ i * d \in Nat
      BY <2>1
    <2> QED
      BY <2>2
  <1> QED
    BY <1>1, <1>2, <1>3, <1>4

LEMMA IntervalGrows ==
  ASSUME NEW m \in Nat, NEW n \in Nat, m < n
  PROVE  /\ \A b \in 0 .. m - 1 : b \in 0 .. n - 1
         /\ \A b \in 0 .. n - 1 : b \in Nat /\ b < n
  OBVIOUS

(* Batches start at multiples of their size.  While the file is not yet      *)
(* scheduled to its end, the next batch would start at one.                  *)
IsStart(b) == \E k \in 0 .. b : b = k * segmentBatchSize
LaunchedIn(phase) == {b \in Segments : phase[b] # "none"}

TileInv ==
  /\ BatchesTile
  /\ scheduledSegments < totalSegments =>
       \E k \in Nat : scheduledSegments = k * segmentBatchSize

LEMMA PumpTiles ==
  ASSUME SettingsAssumption, TileInv, NEW consumed, NEW inFlight, NEW phase,
         PumpReady(consumed, inFlight, phase), LaunchedIn(phase) = Launched,
         Pump(consumed, inFlight, phase)
  PROVE  TileInv'
  <1> DEFINE B == segmentBatchSize
             Scheduled(j) == scheduledSegments + j * B
  <1>1. PICK turns \in 0 .. maxConcurrentSegmentBatches :
          /\ \A j \in 0 .. turns - 1 :
               CanSchedule(Scheduled(j), inFlight + j, consumed)
          /\ scheduledSegments' =
               IF turns = 0 THEN scheduledSegments
                            ELSE EndIndex(Scheduled(turns - 1))
          /\ batch' = [b \in Segments |->
                         IF \E j \in 0 .. turns - 1 : b = Scheduled(j)
                         THEN "queued" ELSE phase[b]]
    BY DEF Pump
  <1>2. /\ B \in Nat \ {0} /\ turns \in Nat /\ totalSegments \in Nat
        /\ scheduledSegments \in Nat /\ scheduledSegments <= totalSegments
    BY DEF SettingsAssumption, PumpReady
  <1>3. CASE turns = 0
    <2>1. scheduledSegments' = scheduledSegments /\ Launched' = LaunchedIn(phase)
      BY <1>1, <1>3 DEF Launched, LaunchedIn
    <2> QED
      BY <2>1 DEF TileInv, BatchesTile
  <1>4. CASE turns # 0
    <2> DEFINE last == Scheduled(turns - 1)
    <2>1. \A j \in 0 .. turns - 1 : Scheduled(j) < totalSegments
      BY <1>1 DEF CanSchedule
    <2>2. PICK K \in Nat : scheduledSegments = K * B
      <3>1. Scheduled(0) < totalSegments /\ Scheduled(0) = scheduledSegments
        BY <1>2, <1>4, <2>1
      <3> QED
        BY <3>1 DEF TileInv
    <2>3. \A j \in Nat : Scheduled(j) = (K + j) * B /\ Scheduled(j) \in Nat
      BY <1>2, <2>2
    <2>4. last = (K + turns - 1) * B /\ last \in Nat /\ last < totalSegments
      BY <1>2, <1>4, <2>1, <2>3, turns - 1 \in 0 .. turns - 1
    <2>5. /\ scheduledSegments' \in Nat /\ last < scheduledSegments'
          /\ scheduledSegments' <= last + B
          /\ scheduledSegments' < totalSegments => scheduledSegments' = last + B
      <3>1. scheduledSegments' = last + Smaller(B, totalSegments - last)
        BY <1>1, <1>4 DEF EndIndex
      <3> HIDE DEF last
      <3> QED
        BY <1>2, <2>4, <3>1 DEF Smaller
    <2>6. last + B = (K + turns) * B
      BY <1>2, <1>4, <2>2, <2>4
    <2>7. ASSUME NEW b \in Nat, b \notin 0 .. scheduledSegments - 1
          PROVE  (b < scheduledSegments' /\ IsStart(b))
                   <=> \E j \in 0 .. turns - 1 : b = Scheduled(j)
      <3>1. ASSUME NEW j \in 0 .. turns - 1, b = Scheduled(j)
            PROVE  b < scheduledSegments' /\ IsStart(b)
        <4>1. b = (K + j) * B /\ K + j \in Nat
          BY <1>2, <2>3, <3>1
        <4>2. K + j <= (K + j) * B
          BY <1>2, <4>1, StartsApart
        <4>3. (K + j) * B <= (K + turns - 1) * B
          BY <1>2, <1>4, <2>2, StartsApart
        <4> HIDE DEF last
        <4> QED
          <5>1. b <= last /\ b < scheduledSegments'
            BY <2>4, <2>5, <4>1, <4>3
          <5>2. K + j \in 0 .. b
            BY <4>1, <4>2
          <5> QED
            BY <4>1, <5>1, <5>2 DEF IsStart
      <3>2. ASSUME b < scheduledSegments', IsStart(b)
            PROVE  \E j \in 0 .. turns - 1 : b = Scheduled(j)
        <4>1. PICK k \in Nat : b = k * B
          BY <3>2 DEF IsStart
        <4>2. k >= K
          <5>1. k * B >= K * B
            BY <1>2, <2>2, <2>7, <4>1
          <5> QED
            BY <1>2, <2>2, <4>1, <5>1, StartsApart
        <4>3. k < K + turns
          <5>1. k * B < (K + turns) * B
            <6> HIDE DEF last
            <6>1. (K + turns) * B \in Nat /\ k * B \in Nat
              BY <1>2, <2>2, <4>1
            <6> QED
              BY <1>2, <2>4, <2>5, <2>6, <3>2, <4>1, <6>1
          <5> QED
            BY <1>2, <2>2, <4>1, <5>1, StartsApart
        <4>4. k - K \in 0 .. turns - 1 /\ Scheduled(k - K) = (K + (k - K)) * B
          BY <1>2, <2>2, <2>3, <4>1, <4>2, <4>3
        <4>5. K + (k - K) = k
          BY <2>2, <4>1
        <4> QED
          BY <4>1, <4>4, <4>5
      <3> QED
        BY <3>1, <3>2
    <2>8. Launched' = Launched \cup {b \in Segments : \E j \in 0 .. turns - 1 : b = Scheduled(j)}
      BY <1>1 DEF Launched, LaunchedIn
    <2>9. \A j \in 0 .. turns - 1 : Scheduled(j) \in Segments
      BY <1>2, <2>1, <2>3 DEF Segments
    <2>10. scheduledSegments < scheduledSegments'
      <3>1. K * B <= (K + turns - 1) * B
        BY <1>2, <1>4, <2>2, StartsApart
      <3> HIDE DEF last
      <3> QED
        BY <1>2, <2>2, <2>4, <2>5, <3>1
    <2>12. /\ scheduledSegments \in Nat /\ scheduledSegments' \in Nat
           /\ scheduledSegments < scheduledSegments'
      BY <1>2, <2>5, <2>10
    <2>13. Launched' \subseteq Nat
      BY <1>2 DEF Launched, Segments
    <2>11. BatchesTile'
      <3> HIDE DEF Scheduled, last
      <3>1. \A b \in 0 .. scheduledSegments - 1 : b \in 0 .. scheduledSegments' - 1
        BY <2>12, IntervalGrows
      <3>2. Launched = {b \in 0 .. scheduledSegments - 1 : IsStart(b)}
        BY DEF TileInv, BatchesTile, IsStart
      <3>3. ASSUME NEW b \in Launched' PROVE b \in 0 .. scheduledSegments' - 1 /\ IsStart(b)
        <4>1. CASE b \in 0 .. scheduledSegments - 1
          <5>1. b \notin {a \in Segments : \E j \in 0 .. turns - 1 : a = Scheduled(j)}
            BY <1>2, <2>3, <4>1 DEF Scheduled
          <5> QED
            BY <2>8, <3>1, <3>2, <3>3, <4>1, <5>1
        <4>2. CASE b \notin 0 .. scheduledSegments - 1
          <5>1. b \in Nat /\ \E j \in 0 .. turns - 1 : b = Scheduled(j)
            BY <2>8, <2>13, <3>2, <3>3, <4>2
          <5>2. b < scheduledSegments' /\ IsStart(b)
            BY <2>7, <4>2, <5>1
          <5> QED
            BY <2>12, <5>1, <5>2
        <4> QED
          BY <4>1, <4>2
      <3>4. ASSUME NEW b \in 0 .. scheduledSegments' - 1, IsStart(b) PROVE b \in Launched'
        <4>1. CASE b \in 0 .. scheduledSegments - 1
          BY <2>8, <3>2, <3>4, <4>1
        <4>2. CASE b \notin 0 .. scheduledSegments - 1
          <5>1. b \in Nat /\ b < scheduledSegments'
            BY <2>12, <3>4, IntervalGrows
          <5>2. \E j \in 0 .. turns - 1 : b = Scheduled(j)
            BY <2>7, <3>4, <4>2, <5>1
          <5> QED
            BY <2>8, <2>9, <5>2
        <4> QED
          BY <4>1, <4>2
      <3>5. Launched' = {b \in 0 .. scheduledSegments' - 1 : IsStart(b)}
        BY <3>3, <3>4
      <3> QED
        BY <3>5 DEF BatchesTile, IsStart
    <2>14. scheduledSegments' < totalSegments => scheduledSegments' = (K + turns) * B
      <3> HIDE DEF last
      <3> QED
        BY <2>5, <2>6
    <2>15. K + turns \in Nat
      BY <1>2, <2>2
    <2> HIDE DEF last, Scheduled
    <2> QED
      BY <2>11, <2>14, <2>15 DEF TileInv
  <1> QED
    BY <1>3, <1>4

LEMMA NextTiles ==
  ASSUME SettingsAssumption, SchedulerInv, TileInv, [SchedulerNext]_schedulerVars
  PROVE  TileInv'
  <1>1. PumpReady(consumedSegments, inFlightBatches, batch)
    BY InvIsPumpReady
  <1>2. CASE FillWindow
    BY <1>1, <1>2, PumpTiles DEF FillWindow, LaunchedIn, Launched
  <1>3. ASSUME NEW count \in 1 .. segmentBatchSize, ConsumeScheduled(count)
        PROVE  TileInv'
    <2>1. PumpReady(consumedSegments', inFlightBatches, batch)
      BY <1>3, ConsumeIsPumpReady
    <2> QED
      BY <1>3, <2>1, PumpTiles DEF ConsumeScheduled, MarkConsumed, LaunchedIn, Launched
  <1>4. ASSUME NEW b \in Segments, FinallyBatch(b)
        PROVE  TileInv'
    <2> DEFINE phase == [batch EXCEPT ![b] = "done"]
    <2>1. PumpReady(consumedSegments, inFlightBatches - 1, phase)
      BY <1>4, FinallyIsPumpReady
    <2>2. LaunchedIn(phase) = Launched
      BY <1>4 DEF FinallyBatch, LaunchedIn, Launched, SchedulerInv, SchedulerTypeOK
    <2>3. Pump(consumedSegments, inFlightBatches - 1, phase)
      BY <1>4 DEF FinallyBatch
    <2> HIDE DEF phase
    <2> QED
      BY <2>1, <2>2, <2>3, PumpTiles
  <1>5. ASSUME NEW b \in Segments, NEW phase \in InFlightPhases, batch[b] # "none",
               batch' = [batch EXCEPT ![b] = phase], UNCHANGED scheduledSegments
        PROVE  TileInv'
    <2>1. Launched' = Launched
      BY <1>5 DEF Launched, InFlightPhases, SchedulerInv, SchedulerTypeOK
    <2> QED
      BY <1>5, <2>1 DEF TileInv, BatchesTile
  <1>6. ASSUME NEW b \in Segments,
               \/ StartBatch(b) \/ SettleBatch(b, "resolved") \/ SettleBatch(b, "rejected")
               \/ CatchBatch(b)
        PROVE  TileInv'
    BY <1>5, <1>6 DEF StartBatch, SettleBatch, CatchBatch, InFlightPhases, Phases
  <1>7. CASE UNCHANGED schedulerVars
    BY <1>7 DEF schedulerVars, TileInv, BatchesTile, Launched
  <1> QED
    BY <1>2, <1>3, <1>4, <1>6, <1>7 DEF SchedulerNext, SchedulerIdle

(* What is scheduled stays so, whatever the step.                            *)
LEMMA ScheduleGrows ==
  ASSUME SettingsAssumption, SchedulerInv, [SchedulerNext]_schedulerVars
  PROVE  scheduledSegments' >= scheduledSegments
  <1>0. scheduledSegments \in 0 .. totalSegments
    BY DEF SchedulerInv, SchedulerTypeOK
  <1>1. CASE FillWindow
    BY <1>0, <1>1, InvIsPumpReady, PumpKeepsInv DEF FillWindow
  <1>2. ASSUME NEW count \in 1 .. segmentBatchSize, ConsumeScheduled(count)
        PROVE  scheduledSegments' >= scheduledSegments
    <2>1. Pump(consumedSegments', inFlightBatches, batch)
      BY <1>2 DEF ConsumeScheduled, MarkConsumed
    <2> QED
      BY <1>0, <1>2, <2>1, ConsumeIsPumpReady, PumpKeepsInv
  <1>3. ASSUME NEW b \in Segments, FinallyBatch(b)
        PROVE  scheduledSegments' >= scheduledSegments
    <2>1. Pump(consumedSegments, inFlightBatches - 1, [batch EXCEPT ![b] = "done"])
      BY <1>3 DEF FinallyBatch
    <2> QED
      BY <1>0, <1>3, <2>1, FinallyIsPumpReady, PumpKeepsInv
  <1>4. CASE UNCHANGED scheduledSegments
    BY <1>0, <1>4
  <1> QED
    BY <1>1, <1>2, <1>3, <1>4
    DEF SchedulerNext, StartBatch, SettleBatch, CatchBatch, SchedulerIdle, schedulerVars

LEMMA InitTiles ==
  ASSUME SettingsAssumption, SchedulerInit PROVE TileInv
  <1>1. Launched = {} /\ scheduledSegments = 0 /\ 0 .. scheduledSegments - 1 = {}
    BY DEF SchedulerInit, Launched
  <1>2. scheduledSegments = 0 * segmentBatchSize
    BY <1>1 DEF SettingsAssumption
  <1> QED
    BY <1>1, <1>2 DEF TileInv, BatchesTile

(* Batches are consecutive, and leave nothing out.                           *)
THEOREM BatchesAlwaysTile == SchedulerSpec => []BatchesTile
  <1>1. SchedulerInit => TileInv
    BY InitTiles, SettingsAssumption
  <1>2. SchedulerInv /\ TileInv /\ [SchedulerNext]_schedulerVars => TileInv'
    BY NextTiles, SettingsAssumption
  <1>3. TileInv => BatchesTile
    BY DEF TileInv
  <1> QED
    BY <1>1, <1>2, <1>3, SchedulerInvariance, PTL DEF SchedulerSpec
=============================================================================
