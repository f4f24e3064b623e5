-------------------------- MODULE SegmentScheduler --------------------------
(***************************************************************************)
(* createBoundedSegmentScheduler of lib/tdf3/src/tdf.ts: the sliding        *)
(* window that decides when the next batch of encrypted segments may be     *)
(* downloaded.  The scheduler is a closure over four counters; its          *)
(* callers are the code that opens a decrypt stream (fillWindow), the       *)
(* reader of that stream (markConsumed) and the batches themselves, whose   *)
(* promises settle at any time and in any order.                            *)
(*                                                                         *)
(* JavaScript runs a callback to its end, so the body of pump, whose flag   *)
(* "pumping" only guards against re-entry within one callback, is a single  *)
(* step here.  The download of a batch starts in a microtask and its        *)
(* .then, .catch and .finally callbacks are four separate microtasks:       *)
(* anything may run between two of them.                                    *)
(***************************************************************************)
EXTENDS Integers, FiniteSets

CONSTANTS
  totalSegments,               (* segments listed in the manifest             *)
  segmentBatchSize,            (* segments fetched by one request             *)
  maxConcurrentSegmentBatches  (* requests allowed to be in flight            *)

ASSUME SettingsAssumption ==
  /\ totalSegments \in Nat
  /\ segmentBatchSize \in Nat \ {0}
  /\ maxConcurrentSegmentBatches \in Nat \ {0}

VARIABLES
  consumedSegments,   (* segments the reader has taken                        *)
  inFlightBatches,    (* batches scheduled and not yet finally settled        *)
  scheduledSegments,  (* segments handed to a batch, a prefix of the file     *)
  stopped,            (* a batch failed: schedule nothing more                *)
  batch               (* phase of the batch that starts at a segment          *)

schedulerVars ==
  <<consumedSegments, inFlightBatches, scheduledSegments, stopped, batch>>

Segments == 0 .. totalSegments - 1
maxPrefetchedSegments == segmentBatchSize * maxConcurrentSegmentBatches
Smaller(a, b) == IF a < b THEN a ELSE b

(* Mutant: an inclusive end taken for an exclusive one.                      *)
EndIndexInclusive(start) ==
  start + Smaller(segmentBatchSize, totalSegments - start) - 1
EndIndex(start) == start + Smaller(segmentBatchSize, totalSegments - start)

(* "queued": its microtask is pending; "running": scheduleBatch was called;  *)
(* "resolved" / "rejected": that promise settled; "caught": .catch has run;  *)
(* "done": .finally has run.                                                 *)
Phases == {"none", "queued", "running", "resolved", "rejected", "caught", "done"}
InFlightPhases == Phases \ {"none", "done"}
InFlight == {b \in Segments : batch[b] \in InFlightPhases}
Launched == {b \in Segments : batch[b] # "none"}

-----------------------------------------------------------------------------
(* Mutants: a turn that ignores the failure, or that a batch only partly     *)
(* fits in the window.                                                       *)
CanScheduleWhenStopped(scheduled, inFlight, consumed) ==
  LET remainingWindow == maxPrefetchedSegments - (scheduled - consumed)
      nextBatchSize == Smaller(segmentBatchSize, totalSegments - scheduled)
  IN /\ inFlight < maxConcurrentSegmentBatches
     /\ scheduled < totalSegments
     /\ remainingWindow >= nextBatchSize

CanSchedulePartly(scheduled, inFlight, consumed) ==
  /\ ~stopped
  /\ inFlight < maxConcurrentSegmentBatches
  /\ scheduled < totalSegments
  /\ maxPrefetchedSegments - (scheduled - consumed) > 0

(* The condition of one more turn of pump's loop: the while condition and    *)
(* the two breaks.                                                           *)
CanSchedule(scheduled, inFlight, consumed) ==
  LET remainingWindow == maxPrefetchedSegments - (scheduled - consumed)
      nextBatchSize == Smaller(segmentBatchSize, totalSegments - scheduled)
  IN /\ ~stopped
     /\ inFlight < maxConcurrentSegmentBatches
     /\ scheduled < totalSegments
     /\ remainingWindow > 0
     /\ remainingWindow >= nextBatchSize

(* pump: the loop turns as long as its condition holds.  Turn j finds        *)
(* scheduledSegments advanced by j whole batches; only the last batch of     *)
(* the file may be short, and no turn follows it.                            *)
Pump(consumed, inFlight, phase) ==
  \E turns \in 0 .. maxConcurrentSegmentBatches :
    LET Scheduled(j) == scheduledSegments + j * segmentBatchSize
    IN /\ \A j \in 0 .. turns - 1 :
            CanSchedule(Scheduled(j), inFlight + j, consumed)
       /\ ~CanSchedule(Scheduled(turns), inFlight + turns, consumed)
       /\ scheduledSegments' =
            IF turns = 0 THEN scheduledSegments
                         ELSE EndIndex(Scheduled(turns - 1))
       /\ inFlightBatches' = inFlight + turns
       /\ batch' = [b \in Segments |->
                      IF \E j \in 0 .. turns - 1 : b = Scheduled(j)
                      THEN "queued" ELSE phase[b]]

SchedulerInit ==
  /\ consumedSegments = 0
  /\ inFlightBatches = 0
  /\ scheduledSegments = 0
  /\ stopped = FALSE
  /\ batch = [b \in Segments |-> "none"]

(* The method fillWindow.                                                    *)
FillWindow ==
  /\ Pump(consumedSegments, inFlightBatches, batch)
  /\ UNCHANGED <<consumedSegments, stopped>>

(* Mutant: markConsumed forgets to pump.                                     *)
MarkConsumedOnly(count) ==
  /\ consumedSegments' = Smaller(totalSegments, consumedSegments + count)
  /\ UNCHANGED <<inFlightBatches, scheduledSegments, stopped, batch>>

(* The method markConsumed.                                                  *)
MarkConsumed(count) ==
  /\ consumedSegments' = Smaller(totalSegments, consumedSegments + count)
  /\ Pump(consumedSegments', inFlightBatches, batch)
  /\ UNCHANGED stopped

(* Its caller's side of the contract: what is consumed was scheduled.        *)
ConsumeScheduled(count) ==
  /\ consumedSegments + count <= scheduledSegments
  /\ MarkConsumed(count)

(* The microtask that calls scheduleBatch(startIndex, endIndex).             *)
StartBatch(b) ==
  /\ batch[b] = "queued"
  /\ batch' = [batch EXCEPT ![b] = "running"]
  /\ UNCHANGED <<consumedSegments, inFlightBatches, scheduledSegments, stopped>>

(* The promise of scheduleBatch settles.                                     *)
SettleBatch(b, outcome) ==
  /\ batch[b] = "running"
  /\ batch' = [batch EXCEPT ![b] = outcome]
  /\ UNCHANGED <<consumedSegments, inFlightBatches, scheduledSegments, stopped>>

(* The .catch callback of a batch that failed.                               *)
CatchBatch(b) ==
  /\ batch[b] = "rejected"
  /\ stopped' = TRUE
  /\ batch' = [batch EXCEPT ![b] = "caught"]
  /\ UNCHANGED <<consumedSegments, inFlightBatches, scheduledSegments>>

(* Mutant: .finally pumps before it gives its place back.                    *)
FinallyBatchLate(b) ==
  /\ batch[b] \in {"resolved", "caught"}
  /\ Pump(consumedSegments, inFlightBatches, [batch EXCEPT ![b] = "done"])
  /\ UNCHANGED <<consumedSegments, stopped>>

(* The .finally callback: one batch less in flight, and pump again.          *)
FinallyBatch(b) ==
  /\ batch[b] \in {"resolved", "caught"}
  /\ Pump(consumedSegments, inFlightBatches - 1, [batch EXCEPT ![b] = "done"])
  /\ UNCHANGED <<consumedSegments, stopped>>

(* Every segment was consumed, or a batch failed, and nothing is in flight.  *)
SchedulerIdle ==
  /\ InFlight = {}
  /\ stopped \/ consumedSegments = totalSegments
  /\ UNCHANGED schedulerVars

SchedulerNext ==
  \/ FillWindow
  \/ \E count \in 1 .. segmentBatchSize : ConsumeScheduled(count)
  \/ \E b \in Segments :
       \/ StartBatch(b)
       \/ SettleBatch(b, "resolved")
       \/ SettleBatch(b, "rejected")
       \/ CatchBatch(b)
       \/ FinallyBatch(b)
  \/ SchedulerIdle

SchedulerSpec == SchedulerInit /\ [][SchedulerNext]_schedulerVars

-----------------------------------------------------------------------------
(* The counters and phases have the values the code can give them.           *)
SchedulerTypeOK ==
  /\ consumedSegments \in 0 .. totalSegments
  /\ inFlightBatches \in 0 .. maxConcurrentSegmentBatches
  /\ scheduledSegments \in 0 .. totalSegments
  /\ stopped \in BOOLEAN
  /\ batch \in [Segments -> Phases]

(* The window: what was scheduled and not yet consumed never exceeds         *)
(* segmentBatchSize * maxConcurrentSegmentBatches segments, however batches  *)
(* and reader interleave (the remainingWindow computation of pump).          *)
WindowBound ==
  /\ consumedSegments <= scheduledSegments
  /\ scheduledSegments - consumedSegments <= maxPrefetchedSegments

(* inFlightBatches, a bare counter that .then and .finally move in different *)
(* callbacks, counts exactly the batches whose promise chain is unfinished.  *)
InFlightExact == inFlightBatches = Cardinality(InFlight)

(* The batches tile the scheduled prefix of the file: each starts where the  *)
(* previous one ended, so no segment is fetched twice and none is skipped.   *)
BatchesTile ==
  Launched = {b \in 0 .. scheduledSegments - 1 : \E k \in 0 .. b : b = k * segmentBatchSize}

(* After a failure nothing is scheduled any more, whatever batch finishes    *)
(* and whatever the reader consumes afterwards.                              *)
NothingScheduledAfterFailure ==
  [][stopped => stopped' /\ UNCHANGED scheduledSegments]_schedulerVars
=============================================================================
