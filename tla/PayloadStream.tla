--------------------------- MODULE PayloadStream ---------------------------
(***************************************************************************)
(* decryptStreamFrom of lib/tdf3/src/tdf.ts from its choice of a schedule    *)
(* on: the bounded scheduler when the caller sets segmentBatchSize or        *)
(* maxConcurrentSegmentBatches, updateChunkQueue otherwise.  The consumer    *)
(* cannot tell which one fills the stream it is given; the properties below  *)
(* are those of both.                                                        *)
(***************************************************************************)
EXTENDS DecryptStream

VARIABLES
  schedule,     (* which of the two decryptStreamFrom started                 *)
  queueIndex,   (* variables of LegacyDecryptStream                           *)
  requests

Legacy == INSTANCE LegacyDecryptStream

queueVars == <<queueIndex, requests>>
streamVars == <<vars, schedule, queueVars>>

-----------------------------------------------------------------------------
StreamInit ==
  /\ schedule \in {"bounded", "legacy"}
  /\ Init
  /\ Legacy!QueueInit

(* A step of the schedule that was started; the other one has no state.      *)
Bounded(step) == schedule = "bounded" /\ step /\ UNCHANGED <<schedule, queueVars>>
Unbounded(step) == schedule = "legacy" /\ step /\ UNCHANGED <<schedule, counters>>

StreamNext == Bounded(Next) \/ Unbounded(Legacy!Next)

StreamFairness ==
  /\ WF_streamVars(Bounded(OpenStream))
  /\ \A b \in Segments : WF_streamVars(Bounded(BatchStep(b)))
  /\ WF_streamVars(Bounded(DeliverNext))
  /\ WF_streamVars(Bounded(ReadOn))
  /\ WF_streamVars(Unbounded(Legacy!LaunchGroup))
  /\ \A b \in Segments : WF_streamVars(Unbounded(Legacy!BatchStep(b)))
  /\ WF_streamVars(Unbounded(Legacy!DeliverNext))
  /\ WF_streamVars(Unbounded(Legacy!ReadOn))

StreamSpec == StreamInit /\ [][StreamNext]_streamVars
FairStreamSpec == StreamSpec /\ StreamFairness

-----------------------------------------------------------------------------
(* Work is bounded: under the bounded schedule the plaintext that waits, in  *)
(* mailboxes or queued, is never more than the window and one segment, which *)
(* takes pump, the reader's replacing of emptied mailboxes and the queue's   *)
(* high water mark; under the legacy one, whose plaintext is not bounded,    *)
(* the requests under way are never more than a group.                       *)
WorkIsBounded ==
  IF schedule = "bounded" THEN RetainedPlaintextBound ELSE Legacy!GroupBound

(* A failure reaches whoever waits: the bounded schedule stops, so nothing   *)
(* from the failed batch on may stay pending; the legacy one goes on, so the *)
(* failed slice has to be answered in full.                                  *)
FailureReachesEveryWaiter ==
  IF schedule = "bounded" THEN FailureReachesTheRest
                          ELSE Legacy!FailureReachesItsSlice

(* With either schedule the stream delivers the segments in order and ends   *)
(* once, and complete only after the last.                                   *)
Delivery == INSTANCE SegmentDelivery WITH
  outcome <- CASE stream = "readable" -> "open"
               [] stream = "closed" -> "complete"
               [] stream = "cancelled" -> "cancelled"
               [] OTHER -> "failed"
DeliversInOrder == Delivery!DeliverySpec

(* The scheduler inside the stream behaves as the scheduler specified alone: *)
(* the reader counts a segment as consumed only once it was scheduled, which *)
(* the code nowhere checks.                                                  *)
SchedulerInside == INSTANCE SegmentScheduler WITH
  batch <- IF schedule = "bounded" THEN batch ELSE [b \in Segments |-> "none"]
UsesScheduler == SchedulerInside!SchedulerSpec
=============================================================================
