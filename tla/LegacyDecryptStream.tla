------------------------ MODULE LegacyDecryptStream ------------------------
(***************************************************************************)
(* decryptStreamFrom of lib/tdf3/src/tdf.ts when neither batch setting is    *)
(* given: the pipeline of SegmentPipeline driven by updateChunkQueue, which  *)
(* downloads the file in groups of batches without looking at the reader.    *)
(* segmentBatchSize stands for LEGACY_SEGMENTS_PER_DOWNLOAD.                 *)
(***************************************************************************)
EXTENDS SegmentPipeline

CONSTANT maxConcurrentSegmentBatches   (* LEGACY_MAX_CONCURRENT_SEGMENT_BATCHES *)

VARIABLES
  queueIndex,   (* the loop variable i: where the next batch starts           *)
  requests      (* batches pushed since the last Promise.all                  *)

queueVars == <<queueIndex, requests>>
vars == <<pipelineVars, queueVars>>

QueueInit == queueIndex = 0 /\ requests = {}
Init == PipelineInit /\ QueueInit

GroupSettled == \A b \in requests : batch[b] = "done"
NextGroup == queueIndex + maxConcurrentSegmentBatches * segmentBatchSize

(* The loop from one await Promise.all(requests) to the next: each request   *)
(* is started at once and its failure is swallowed by .catch.                *)
LaunchGroup ==
  LET group == {queueIndex + j * segmentBatchSize :
                  j \in 0 .. maxConcurrentSegmentBatches - 1} \cap Segments
  IN /\ queueIndex < totalSegments
     /\ GroupSettled
     /\ requests' = group
     /\ batch' = [b \in Segments |-> IF b \in group THEN "running" ELSE batch[b]]
     /\ queueIndex' = NextGroup
     /\ UNCHANGED <<tampered, sliceVars, mailbox, readerVars>>

Settled(b) == batch' = [batch EXCEPT ![b] = "done"] /\ UNCHANGED queueVars

RequestFails(b) == FetchFails(b) /\ Settled(b)

RequestReturns(b) ==
  /\ \E bytes \in 0 .. BufferSize(b) : FetchReturns(b, bytes)
  /\ UNCHANGED queueVars

DecryptOne(b) == DecryptSegment(b) /\ UNCHANGED queueVars
BufferTooShort(b) == SegmentMissing(b) /\ Settled(b)
FinishSlice(b) == SliceDone(b) /\ Settled(b)

DeliverNext == Deliver /\ UNCHANGED <<batch, queueVars>>
Opened == totalSegments = 0 \/ queueIndex > 0
ReadStream == Opened /\ ReaderStep /\ UNCHANGED queueVars
ReadOn == Opened /\ ReadingStep /\ UNCHANGED queueVars

Ended ==
  /\ stream # "readable" /\ queue = <<>> /\ ~pulling
  /\ queueIndex >= totalSegments
  /\ GroupSettled
  /\ UNCHANGED vars

BatchStep(b) ==
  \/ RequestFails(b)
  \/ RequestReturns(b)
  \/ DecryptOne(b)
  \/ BufferTooShort(b)
  \/ FinishSlice(b)

Next ==
  \/ LaunchGroup
  \/ \E b \in Segments : BatchStep(b)
  \/ DeliverNext
  \/ ReadStream
  \/ Ended

(* As in DecryptStream: requests end, callbacks run, the consumer reads on.  *)
Fairness ==
  /\ WF_vars(LaunchGroup)
  /\ \A b \in Segments : WF_vars(BatchStep(b))
  /\ WF_vars(DeliverNext)
  /\ WF_vars(ReadOn)

Spec == Init /\ [][Next]_vars /\ Fairness

-----------------------------------------------------------------------------
(* Promise.all is a barrier: however fast some requests of a group are, the  *)
(* batches in flight never exceed the group size.                            *)
GroupBound ==
  Cardinality({b \in Segments : batch[b] = "running"})
    <= maxConcurrentSegmentBatches

(* A failed batch rejects its own slice, and only that: nothing else would,  *)
(* so once it is settled none of its segments may be left without an answer. *)
FailureReachesItsSlice ==
  \A b \in Segments :
    BatchFailed(b) => \A i \in Slice(b) : i >= nextChunkIndex => mailbox[i] # "pending"
=============================================================================
