--------------------------- MODULE DecryptStream ---------------------------
(***************************************************************************)
(* decryptStreamFrom of lib/tdf3/src/tdf.ts when segmentBatchSize or         *)
(* maxConcurrentSegmentBatches is set: the pipeline of SegmentPipeline       *)
(* driven by the scheduler of SegmentScheduler.                              *)
(***************************************************************************)
EXTENDS SegmentPipeline

CONSTANT maxConcurrentSegmentBatches   (* requests allowed to be in flight  *)

(* normalizeSegmentBatchSetting takes nothing else.                          *)
ASSUME ConcurrencyAssumption == maxConcurrentSegmentBatches \in Nat \ {0}

VARIABLES consumedSegments, inFlightBatches, scheduledSegments, stopped

Scheduler == INSTANCE SegmentScheduler

counters == <<consumedSegments, inFlightBatches, scheduledSegments, stopped>>
vars == <<pipelineVars, counters>>

-----------------------------------------------------------------------------
(* decryptStreamFrom creates the chunks and calls fillWindow before it       *)
(* returns the stream.                                                       *)
Init ==
  /\ PipelineInit
  /\ Scheduler!SchedulerInit

OpenStream ==
  /\ scheduledSegments = 0
  /\ totalSegments > 0
  /\ Scheduler!FillWindow
  /\ UNCHANGED <<tampered, sliceVars, mailbox, readerVars>>
Opened == totalSegments = 0 \/ scheduledSegments > 0

StartBatch(b) ==
  /\ Scheduler!StartBatch(b)
  /\ UNCHANGED <<tampered, sliceVars, mailbox, readerVars>>

RequestFails(b) == FetchFails(b) /\ Scheduler!SettleBatch(b, "rejected")

RequestReturns(b) ==
  /\ \E bytes \in 0 .. BufferSize(b) : FetchReturns(b, bytes)
  /\ UNCHANGED counters

DecryptOne(b) == DecryptSegment(b) /\ UNCHANGED counters

BufferTooShort(b) == SegmentMissing(b) /\ Scheduler!SettleBatch(b, "rejected")

FinishSlice(b) == SliceDone(b) /\ Scheduler!SettleBatch(b, "resolved")

(* The scheduler's .catch, with the onError that decryptStreamFrom gives it. *)
CatchBatch(b) ==
  /\ Scheduler!CatchBatch(b)
  /\ mailbox' = RejectFrom(mailbox, b)
  /\ UNCHANGED <<tampered, sliceVars, readerVars>>

FinallyBatch(b) ==
  /\ Scheduler!FinallyBatch(b)
  /\ UNCHANGED <<tampered, sliceVars, mailbox, readerVars>>

DeliverBatchwise == Deliver /\ Scheduler!MarkConsumed(segmentBatchSize)   (* mutant *)
DeliverNext == Deliver /\ Scheduler!MarkConsumed(1)

ReadStream == Opened /\ ReaderStep /\ UNCHANGED counters
ReadOn == Opened /\ ReadingStep /\ UNCHANGED counters

(* The stream has ended and every promise is settled.                        *)
Ended ==
  /\ stream # "readable" /\ queue = <<>> /\ ~pulling
  /\ Scheduler!InFlight = {}
  /\ UNCHANGED vars

BatchStep(b) ==
  \/ StartBatch(b)
  \/ RequestFails(b)
  \/ RequestReturns(b)
  \/ DecryptOne(b)
  \/ BufferTooShort(b)
  \/ FinishSlice(b)
  \/ CatchBatch(b)
  \/ FinallyBatch(b)

Next ==
  \/ OpenStream
  \/ \E b \in Segments : BatchStep(b)
  \/ DeliverNext
  \/ ReadStream
  \/ Ended

Spec == Init /\ [][Next]_vars

(* Microtasks run, requests end one way or another, the consumer reads on.   *)
(* Nothing makes the consumer cancel or its progress handler throw.          *)
Fairness ==
  /\ WF_vars(OpenStream)
  /\ \A b \in Segments : WF_vars(BatchStep(b))
  /\ WF_vars(DeliverNext)
  /\ WF_vars(ReadOn)

FairSpec == Spec /\ Fairness

-----------------------------------------------------------------------------
(* Bounded memory: the segments of plaintext in mailboxes and in the         *)
(* stream's queue are never more than the window and what the queue may      *)
(* hold.  (pump refills the window as soon as a segment is enqueued, before  *)
(* the consumer takes it: both are full at once.)  It takes the window of    *)
(* pump, the reader's replacing of each mailbox it has emptied, and the      *)
(* high water mark of the stream.                                            *)
RetainedPlaintextBound ==
  Cardinality({i \in Segments : mailbox[i] = "set"}) + Len(queue)
    <= Scheduler!maxPrefetchedSegments + HighWaterMark

(* When the .catch of a failed batch has run, whoever awaits a segment of    *)
(* that batch or of a later one is told: no mailbox from the batch's first   *)
(* segment on is left pending, so it does not matter that the scheduler      *)
(* starts no further batch.                                                  *)
FailureReachesTheRest ==
  \A b \in Segments :
    batch[b] \in {"caught", "done"} /\ BatchFailed(b) =>
      \A i \in Segments :
        i >= b /\ i >= nextChunkIndex => mailbox[i] # "pending"
=============================================================================
