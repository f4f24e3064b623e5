------------------------ MODULE PayloadStreamProofs ------------------------
(***************************************************************************)
(* For files of any length, segments of any size, batches and limits of any  *)
(* size and either schedule: the stream implements SegmentDelivery, only     *)
(* verified plaintext is in it, and its work is bounded.  For files whose    *)
(* segments are even, errors have causes and failures reach whoever waits.   *)
(* What the batches do to the stream comes down to what they may put in      *)
(* mailboxes; what the reader does, to the mailbox that pull waits for.      *)
(***************************************************************************)
EXTENDS PayloadStream, FiniteSetTheorems, WellFoundedInduction, TLAPS

MailboxStates == {"pending", "set", "rejected"}
StreamStates == {"readable", "closed", "errored", "aborted", "cancelled"}

-----------------------------------------------------------------------------
(* The invariant.                                                            *)
ReaderTypes ==
  /\ tampered \in SUBSET Segments
  /\ mailbox \in [Segments -> MailboxStates]
  /\ nextChunkIndex \in 0 .. totalSegments
  /\ stream \in StreamStates
  /\ queue \in Seq(Nat)
  /\ received \in Seq(Nat)

(* pull waits only while there is a chunk to wait for, with nothing queued.  *)
PullWaits == pulling => nextChunkIndex < totalSegments /\ queue = <<>>

(* What was delivered is received, but for one segment that may be queued.   *)
AllDelivered ==
  /\ \A k \in DOMAIN received : received[k] = k - 1
  /\ stream # "readable" => queue = <<>>
  /\ stream = "readable" /\ queue = <<>> => Len(received) = nextChunkIndex
  /\ stream = "readable" /\ queue # <<>> =>
       /\ Len(received) + 1 = nextChunkIndex
       /\ queue = <<Len(received)>>

(* Plaintext is of segments that verify, and pull passes no other.           *)
Verified ==
  /\ \A i \in Segments : mailbox[i] = "set" => i \notin tampered
  /\ \A i \in Segments : i < nextChunkIndex => i \notin tampered
  /\ \A k \in DOMAIN received : received[k] \notin tampered
  /\ stream = "closed" => tampered = {}

DeliveryInv == ReaderTypes /\ PullWaits /\ AllDelivered /\ Verified

-----------------------------------------------------------------------------
(* A step of a batch, whichever schedule it belongs to, fills a mailbox with *)
(* a segment that verifies, or rejects some.                                 *)
FillsOrRejects ==
  /\ mailbox' \in [Segments -> MailboxStates]
  /\ \A i \in Segments : mailbox'[i] = "set" => mailbox[i] = "set" \/ i \notin tampered
BatchSide == FillsOrRejects /\ UNCHANGED <<tampered, readerVars>>

LEMMA SetFills ==
  ASSUME mailbox \in [Segments -> MailboxStates], NEW i, i \notin tampered, SetMailbox(i)
  PROVE  FillsOrRejects
  BY DEF SetMailbox, FillsOrRejects, MailboxStates

LEMMA RejectingRejects ==
  ASSUME mailbox \in [Segments -> MailboxStates], NEW chunks,
         mailbox' = Rejecting(mailbox, chunks)
  PROVE  FillsOrRejects
  BY DEF Rejecting, FillsOrRejects, MailboxStates

LEMMA KeptFills ==
  ASSUME mailbox \in [Segments -> MailboxStates], UNCHANGED mailbox
  PROVE  FillsOrRejects
  BY DEF FillsOrRejects

LEMMA BoundedBatchSide ==
  ASSUME ReaderTypes, NEW b \in Segments, BatchStep(b)
  PROVE  BatchSide
<1> USE DEF BatchSide
<1>0. mailbox \in [Segments -> MailboxStates]
  BY DEF ReaderTypes
<1>1. CASE StartBatch(b) \/ FinallyBatch(b)
  BY <1>0, <1>1, KeptFills DEF StartBatch, FinallyBatch
<1>2. CASE RequestFails(b)
  BY <1>0, <1>2, RejectingRejects DEF RequestFails, FetchFails, RejectSlice
<1>3. CASE RequestReturns(b)
  BY <1>0, <1>3, KeptFills DEF RequestReturns, FetchReturns
<1>4. CASE DecryptOne(b)
  <2>1. CASE HashMatches(b, cursor[b])
    BY <1>0, <1>4, <2>1, SetFills DEF DecryptOne, DecryptSegment, HashMatches
  <2>2. CASE ~HashMatches(b, cursor[b])
    BY <1>0, <1>4, <2>2, RejectingRejects DEF DecryptOne, DecryptSegment
  <2> QED
    BY <2>1, <2>2
<1>5. CASE BufferTooShort(b)
  BY <1>0, <1>5, RejectingRejects DEF BufferTooShort, SegmentMissing, RejectSlice
<1>6. CASE FinishSlice(b)
  BY <1>0, <1>6, KeptFills DEF FinishSlice, SliceDone
<1>7. CASE CatchBatch(b)
  BY <1>0, <1>7, RejectingRejects DEF CatchBatch, RejectFrom
<1> QED
  BY <1>1, <1>2, <1>3, <1>4, <1>5, <1>6, <1>7 DEF BatchStep

LEMMA LegacyBatchSide ==
  ASSUME ReaderTypes, NEW b \in Segments, Legacy!BatchStep(b)
  PROVE  BatchSide
<1> USE DEF BatchSide
<1>0. mailbox \in [Segments -> MailboxStates]
  BY DEF ReaderTypes
<1>1. CASE Legacy!RequestFails(b)
  BY <1>0, <1>1, RejectingRejects
  DEF Legacy!RequestFails, Legacy!FetchFails, Legacy!RejectSlice, Legacy!Rejecting, Rejecting,
      Legacy!readerVars, readerVars, Legacy!Segments, Segments
<1>2. CASE Legacy!RequestReturns(b)
  BY <1>0, <1>2, KeptFills
  DEF Legacy!RequestReturns, Legacy!FetchReturns, Legacy!readerVars, readerVars
<1>3. CASE Legacy!DecryptOne(b)
  <2>1. CASE Legacy!HashMatches(b, cursor[b])
    BY <1>0, <1>3, <2>1, SetFills
    DEF Legacy!DecryptOne, Legacy!DecryptSegment, Legacy!HashMatches, Legacy!SetMailbox,
        SetMailbox, Legacy!readerVars, readerVars
  <2>2. CASE ~Legacy!HashMatches(b, cursor[b])
    BY <1>0, <1>3, <2>2, RejectingRejects
    DEF Legacy!DecryptOne, Legacy!DecryptSegment, Legacy!Rejecting, Rejecting,
        Legacy!readerVars, readerVars, Legacy!Segments, Segments
  <2> QED
    BY <2>1, <2>2
<1>4. CASE Legacy!BufferTooShort(b)
  BY <1>0, <1>4, RejectingRejects
  DEF Legacy!BufferTooShort, Legacy!SegmentMissing, Legacy!RejectSlice, Legacy!Rejecting, Rejecting,
      Legacy!readerVars, readerVars, Legacy!Segments, Segments
<1>5. CASE Legacy!FinishSlice(b)
  BY <1>0, <1>5, KeptFills DEF Legacy!FinishSlice, Legacy!SliceDone, Legacy!readerVars, readerVars
<1> QED
  BY <1>1, <1>2, <1>3, <1>4, <1>5 DEF Legacy!BatchStep

(* The reader's steps are those of SegmentPipeline in both.                  *)
LEMMA LegacyReaderSide ==
  ASSUME Legacy!ReaderStep PROVE ReaderStep
<1> USE DEF Legacy!CanPull, CanPull, Legacy!HighWaterMark, HighWaterMark,
            Legacy!ChunksLeft, ChunksLeft, Legacy!sliceVars, sliceVars
<1>1. CASE Legacy!Pull
  BY <1>1 DEF Legacy!Pull, Pull, ReaderStep, ReadingStep
<1>2. CASE Legacy!Close
  BY <1>2 DEF Legacy!Close, Close, ReaderStep, ReadingStep
<1>3. CASE Legacy!PullThrows
  BY <1>3 DEF Legacy!PullThrows, PullThrows, ReaderStep, ReadingStep
<1>4. CASE Legacy!EnqueueAfterCancel
  BY <1>4 DEF Legacy!EnqueueAfterCancel, EnqueueAfterCancel, ReaderStep, ReadingStep
<1>5. CASE Legacy!Read
  BY <1>5 DEF Legacy!Read, Read, ReaderStep, ReadingStep
<1>6. CASE Legacy!ProgressHandlerThrows
  BY <1>6 DEF Legacy!ProgressHandlerThrows, ProgressHandlerThrows, ReaderStep
<1>7. CASE Legacy!Cancel
  BY <1>7 DEF Legacy!Cancel, Cancel, ReaderStep
<1> QED
  BY <1>1, <1>2, <1>3, <1>4, <1>5, <1>6, <1>7 DEF Legacy!ReaderStep, Legacy!ReadingStep

LEMMA StepKinds ==
  ASSUME ReaderTypes, [StreamNext]_streamVars
  PROVE  BatchSide \/ Deliver \/ ReaderStep
<1>0. mailbox \in [Segments -> MailboxStates]
  BY DEF ReaderTypes
<1>1. ASSUME UNCHANGED <<tampered, mailbox, readerVars>> PROVE BatchSide
  BY <1>0, <1>1, KeptFills DEF BatchSide
<1>2. CASE UNCHANGED streamVars
  BY <1>1, <1>2 DEF streamVars, vars, pipelineVars
<1>3. CASE Bounded(Next)
  <2>1. CASE OpenStream
    BY <1>1, <2>1 DEF OpenStream
  <2>2. CASE \E b \in Segments : BatchStep(b)
    BY <2>2, BoundedBatchSide
  <2>3. CASE DeliverNext \/ ReadStream
    BY <2>3 DEF DeliverNext, ReadStream
  <2>4. CASE Ended
    BY <1>1, <2>4 DEF Ended, vars, pipelineVars
  <2> QED
    BY <1>3, <2>1, <2>2, <2>3, <2>4 DEF Bounded, Next
<1>4. CASE Unbounded(Legacy!Next)
  <2>1. CASE Legacy!LaunchGroup
    BY <1>1, <2>1 DEF Legacy!LaunchGroup, Legacy!readerVars, readerVars
  <2>2. CASE \E b \in Legacy!Segments : Legacy!BatchStep(b)
    BY <2>2, LegacyBatchSide DEF Legacy!Segments, Segments
  <2>3. CASE Legacy!DeliverNext
    BY <2>3 DEF Legacy!DeliverNext, Legacy!Deliver, Deliver, Legacy!MailboxReplaced,
                MailboxReplaced, Legacy!sliceVars, sliceVars
  <2>4. CASE Legacy!ReadStream
    BY <2>4, LegacyReaderSide DEF Legacy!ReadStream
  <2>5. CASE Legacy!Ended
    BY <1>1, <2>5 DEF Legacy!Ended, Legacy!vars, Legacy!pipelineVars, Legacy!readerVars, readerVars
  <2> QED
    BY <1>4, <2>1, <2>2, <2>3, <2>4, <2>5 DEF Unbounded, Legacy!Next
<1> QED
  BY <1>2, <1>3, <1>4 DEF StreamNext

-----------------------------------------------------------------------------
(* What each kind of step does for the invariant and for the delivery.       *)
outcome ==
  CASE stream = "readable" -> "open"
    [] stream = "closed" -> "complete"
    [] stream = "cancelled" -> "cancelled"
    [] OTHER -> "failed"

Delivers ==
  \/ Delivery!DeliveryNext
  \/ UNCHANGED <<received, outcome>>

LEMMA InitDelivers == StreamInit => DeliveryInv /\ Delivery!DeliveryInit
<1> SUFFICES ASSUME StreamInit PROVE DeliveryInv /\ Delivery!DeliveryInit
  OBVIOUS
<1>1. PipelineInit /\ totalSegments \in Nat
  BY PayloadAssumption DEF StreamInit, Init
<1>2. ReaderTypes
  BY <1>1 DEF PipelineInit, ReaderTypes, MailboxStates, StreamStates, Segments
<1>3. PullWaits /\ AllDelivered /\ Verified
  BY <1>1 DEF PipelineInit, PullWaits, AllDelivered, Verified, Segments
<1>4. Delivery!DeliveryInit
  BY <1>1 DEF PipelineInit, Delivery!DeliveryInit
<1> QED
  BY <1>2, <1>3, <1>4 DEF DeliveryInv

LEMMA BatchKeeps ==
  ASSUME DeliveryInv, BatchSide
  PROVE  DeliveryInv' /\ UNCHANGED <<received, stream>>
<1> USE DEF DeliveryInv, BatchSide, FillsOrRejects, readerVars
<1>1. ReaderTypes'
  BY DEF ReaderTypes
<1>2. PullWaits' /\ AllDelivered'
  BY DEF PullWaits, AllDelivered
<1>3. Verified'
  BY DEF Verified
<1> QED
  BY <1>1, <1>2, <1>3

LEMMA DeliverKeeps ==
  ASSUME DeliveryInv, Deliver
  PROVE  DeliveryInv' /\ UNCHANGED <<received, stream>>
<1> USE DEF DeliveryInv
<1>0. /\ nextChunkIndex \in Segments /\ queue = <<>> /\ stream = "readable" /\ totalSegments \in Nat
      /\ Len(received) = nextChunkIndex /\ queue' = <<nextChunkIndex>>
      /\ nextChunkIndex' = nextChunkIndex + 1
      /\ nextChunkIndex \notin tampered
      /\ received \in Seq(Nat)
  BY PayloadAssumption DEF Deliver, PullWaits, AllDelivered, ReaderTypes, Verified, Segments
<1>1. ReaderTypes'
  BY <1>0 DEF ReaderTypes, Deliver, MailboxReplaced, MailboxStates, Segments
<1>2. PullWaits' /\ AllDelivered'
  BY <1>0 DEF PullWaits, AllDelivered, Deliver
<1>3. Verified'
  BY <1>0 DEF Verified, Deliver, MailboxReplaced, ReaderTypes, Segments
<1> QED
  BY <1>1, <1>2, <1>3 DEF Deliver

(* A read takes what is queued, which is the segment that follows.           *)
LEMMA ReadKeeps ==
  ASSUME DeliveryInv, Read
  PROVE  DeliveryInv' /\ Delivers
<1> USE DEF DeliveryInv
<1>1. /\ stream = "readable" /\ queue = <<Len(received)>> /\ queue' = <<>>
      /\ received \in Seq(Nat) /\ received' = Append(received, Len(received))
      /\ Len(received) + 1 = nextChunkIndex /\ nextChunkIndex \in 0 .. totalSegments
      /\ totalSegments \in Nat
      /\ UNCHANGED <<tampered, mailbox, nextChunkIndex, pulling, stream>>
  <2>1. stream = "readable" /\ queue = <<Len(received)>> /\ Len(received) + 1 = nextChunkIndex
    BY DEF Read, AllDelivered
  <2>2. Head(queue) = Len(received) /\ Tail(queue) = <<>>
    BY <2>1
  <2>3. received \in Seq(Nat) /\ nextChunkIndex \in 0 .. totalSegments /\ totalSegments \in Nat
    BY PayloadAssumption DEF ReaderTypes
  <2> QED
    BY <2>1, <2>2, <2>3 DEF Read
<1>2. Len(received) \in Segments /\ Len(received) < nextChunkIndex /\ Len(received) < totalSegments
  BY <1>1 DEF Segments
<1>3. ReaderTypes'
  BY <1>1, <1>2 DEF ReaderTypes
<1>4. PullWaits' /\ AllDelivered'
  BY <1>1 DEF PullWaits, AllDelivered
<1>5. Verified'
  <2>1. Len(received) \notin tampered
    BY <1>1, <1>2 DEF Verified
  <2> QED
    BY <1>1, <2>1 DEF Verified
<1>6. Delivery!DeliverSegment
  BY <1>1, <1>2 DEF Delivery!DeliverSegment, Delivery!Receive
<1> QED
  BY <1>3, <1>4, <1>5, <1>6 DEF Delivers, Delivery!DeliveryNext

(* The progress handler throws when its segment is out, or not yet.          *)
LEMMA HandlerKeeps ==
  ASSUME DeliveryInv, ProgressHandlerThrows
  PROVE  DeliveryInv' /\ Delivers
<1> USE DEF DeliveryInv
<1>1. /\ stream = "readable" /\ stream' = "aborted" /\ queue' = <<>> /\ ~pulling'
      /\ received \in Seq(Nat) /\ totalSegments \in Nat
      /\ Len(received) = nextChunkIndex /\ nextChunkIndex \in Segments
      /\ nextChunkIndex < totalSegments /\ nextChunkIndex \notin tampered
      /\ received' \in {received, Append(received, Len(received))}
      /\ UNCHANGED <<tampered, mailbox, nextChunkIndex>>
  BY PayloadAssumption
  DEF ProgressHandlerThrows, PullWaits, AllDelivered, ReaderTypes, Verified, Segments
<1>2. ReaderTypes'
  <2>1. received' \in Seq(Nat) /\ queue' \in Seq(Nat)
    BY <1>1
  <2> QED
    BY <1>1, <2>1 DEF ReaderTypes, StreamStates
<1>3. PullWaits' /\ AllDelivered'
  BY <1>1 DEF PullWaits, AllDelivered
<1>4. Verified'
  BY <1>1 DEF Verified
<1>5. Delivery!Interrupt
  BY <1>1 DEF Delivery!Interrupt, Delivery!Receive
<1> QED
  BY <1>2, <1>3, <1>4, <1>5 DEF Delivers, Delivery!DeliveryNext

LEMMA CloseKeeps ==
  ASSUME DeliveryInv, Close
  PROVE  DeliveryInv' /\ Delivers
<1> USE DEF DeliveryInv
<1>1. /\ stream = "readable" /\ stream' = "closed" /\ queue = <<>> /\ ~pulling
      /\ nextChunkIndex = totalSegments /\ Len(received) = nextChunkIndex
      /\ totalSegments \in Nat
      /\ UNCHANGED <<tampered, mailbox, nextChunkIndex, pulling, queue, received>>
  <2>1. queue \in Seq(Nat) /\ nextChunkIndex \in 0 .. totalSegments /\ totalSegments \in Nat
    BY PayloadAssumption DEF ReaderTypes
  <2>2. ~pulling /\ stream = "readable" /\ Len(queue) < 1 /\ ~(nextChunkIndex < totalSegments)
    BY DEF Close, CanPull, ChunksLeft, HighWaterMark
  <2>3. queue = <<>> /\ nextChunkIndex = totalSegments
    BY <2>1, <2>2
  <2> QED
    BY <2>1, <2>2, <2>3 DEF Close, AllDelivered
<1>2. ReaderTypes' /\ PullWaits' /\ AllDelivered'
  BY <1>1 DEF ReaderTypes, StreamStates, PullWaits, AllDelivered
<1>3. Verified'
  BY <1>1 DEF Verified, ReaderTypes, Segments
<1>4. Delivery!Complete
  BY <1>1 DEF Delivery!Complete
<1> QED
  BY <1>2, <1>3, <1>4 DEF Delivers, Delivery!DeliveryNext

(* The others take nothing: they wait, err or cancel.                        *)
LEMMA EndKeeps ==
  ASSUME DeliveryInv, Pull \/ PullThrows \/ EnqueueAfterCancel \/ Cancel
  PROVE  DeliveryInv' /\ Delivers
<1> USE DEF DeliveryInv
<1>1. UNCHANGED <<tampered, mailbox, nextChunkIndex, received>>
  BY DEF Pull, PullThrows, EnqueueAfterCancel, Cancel
<1>2. CASE UNCHANGED stream /\ UNCHANGED queue /\ (pulling' => pulling)
  BY <1>1, <1>2 DEF ReaderTypes, PullWaits, AllDelivered, Verified, Delivers, outcome
<1>3. CASE Pull
  <2>1. queue \in Seq(Nat) /\ Len(queue) < 1
    BY <1>3 DEF Pull, CanPull, HighWaterMark, ReaderTypes
  <2>2. queue = <<>> /\ nextChunkIndex < totalSegments
    BY <1>3, <2>1 DEF Pull, ChunksLeft
  <2> QED
    BY <1>1, <1>3, <2>2
    DEF Pull, ReaderTypes, PullWaits, AllDelivered, Verified, Delivers, outcome
<1>4. ASSUME stream = "readable", queue' = <<>>, pulling' => pulling,
             stream' \in {"errored", "cancelled"}
      PROVE  DeliveryInv' /\ Delivers
  <2>1. ReaderTypes'
    BY <1>1, <1>4 DEF ReaderTypes, StreamStates
  <2>2. PullWaits' /\ AllDelivered' /\ Verified'
    BY <1>1, <1>4 DEF PullWaits, AllDelivered, Verified
  <2>3. Delivery!Interrupt
    BY <1>1, <1>4 DEF Delivery!Interrupt
  <2> QED
    BY <2>1, <2>2, <2>3 DEF Delivers, Delivery!DeliveryNext
<1>5. CASE PullThrows
  <2>1. CASE stream = "readable"
    BY <1>4, <1>5, <2>1 DEF PullThrows
  <2>2. CASE stream # "readable"
    BY <1>2, <1>5, <2>2 DEF PullThrows, AllDelivered
  <2> QED
    BY <2>1, <2>2
<1>6. CASE EnqueueAfterCancel
  BY <1>2, <1>6 DEF EnqueueAfterCancel
<1>7. CASE Cancel
  BY <1>4, <1>7 DEF Cancel
<1> QED
  BY <1>3, <1>5, <1>6, <1>7

LEMMA NextDelivers ==
  ASSUME DeliveryInv, [StreamNext]_streamVars
  PROVE  DeliveryInv' /\ Delivers
<1>1. CASE BatchSide \/ Deliver
  BY <1>1, BatchKeeps, DeliverKeeps DEF Delivers, outcome
<1>2. CASE ReaderStep
  BY <1>2, ReadKeeps, HandlerKeeps, CloseKeeps, EndKeeps DEF ReaderStep, ReadingStep
<1> QED
  BY <1>1, <1>2, StepKinds DEF DeliveryInv

(* Only plaintext of segments that verify is received or queued, and a       *)
(* stream is closed only for a file all of whose segments do.                *)
THEOREM PlaintextIsVerified == StreamSpec => []OnlyVerifiedPlaintext
<1>1. StreamInit => DeliveryInv
  BY InitDelivers
<1>2. DeliveryInv /\ [StreamNext]_streamVars => DeliveryInv'
  BY NextDelivers
<1>3. DeliveryInv => OnlyVerifiedPlaintext
  <2> SUFFICES ASSUME DeliveryInv PROVE OnlyVerifiedPlaintext
    OBVIOUS
  <2>1. received \in Seq(Nat) /\ nextChunkIndex \in 0 .. totalSegments /\ totalSegments \in Nat
    BY PayloadAssumption DEF DeliveryInv, ReaderTypes
  <2>2. queue = <<>> \/ (queue = <<Len(received)>> /\ Len(received) + 1 = nextChunkIndex)
    BY DEF DeliveryInv, AllDelivered
  <2>3. queue # <<>> => Len(received) \in Segments /\ Len(received) < nextChunkIndex
    BY <2>1, <2>2 DEF Segments
  <2> QED
    BY <2>1, <2>2, <2>3 DEF DeliveryInv, Verified, OnlyVerifiedPlaintext
<1> QED
  BY <1>1, <1>2, <1>3, PTL DEF StreamSpec

(* Either schedule implements the delivery that the consumer is promised:    *)
(* the segments in order, each once, and complete only after the last.       *)
THEOREM DeliveryIsImplemented == StreamSpec => DeliversInOrder
<1>1. StreamInit => DeliveryInv /\ Delivery!DeliveryInit
  BY InitDelivers
<1>2. DeliveryInv /\ [StreamNext]_streamVars => DeliveryInv'
  BY NextDelivers
<1>3. DeliveryInv /\ [StreamNext]_streamVars =>
        [Delivery!DeliveryNext]_(Delivery!deliveryVars)
  BY NextDelivers DEF Delivers, outcome, Delivery!deliveryVars
<1> QED
  BY <1>1, <1>2, <1>3, PTL DEF StreamSpec, DeliversInOrder, Delivery!DeliverySpec

-----------------------------------------------------------------------------
(* For files of any length, segments of any size and any settings, the       *)
(* bounded schedule inside the stream behaves as SegmentScheduler does       *)
(* alone, and the work that either schedule has under way is bounded.        *)
(* The theorems about the scheduler serve as lemmas; what they take for      *)
(* granted, that only scheduled segments are consumed, is what has to be     *)
(* shown of batches, mailboxes and reader.                                   *)
Window == INSTANCE SegmentSchedulerProofs

LEMMA Settings == Window!SettingsAssumption
  BY PayloadAssumption, ConcurrencyAssumption DEF Window!SettingsAssumption

SchedulerStep == [Window!SchedulerNext]_(Window!schedulerVars)

-----------------------------------------------------------------------------
(* The invariant of the bounded schedule.                                    *)
SliceTypes ==
  /\ cursor \in [Segments -> Nat]
  /\ arrived \in [Segments -> Int]
  /\ \A b \in Segments : cursor[b] >= b

(* A batch that was not started has fetched nothing, and one that has        *)
(* fetched nothing has not begun to decrypt.                                 *)
BegunInOrder ==
  \A b \in Segments :
    /\ batch[b] = "none" => arrived[b] = NotFetched
    /\ arrived[b] = NotFetched => cursor[b] = b

(* What a batch has yet to decrypt is neither delivered nor decrypted.       *)
StillToCome ==
  \A b \in Segments : batch[b] # "none" =>
    \A i \in Slice(b) : i >= cursor[b] => i >= nextChunkIndex /\ mailbox[i] # "set"

(* Plaintext waits only between the reader and the end of the schedule.      *)
PlaintextInWindow ==
  \A i \in Segments : mailbox[i] = "set" => nextChunkIndex <= i /\ i < scheduledSegments

WindowInv ==
  /\ Window!SchedulerInv
  /\ Window!TileInv
  /\ SliceTypes
  /\ BegunInOrder
  /\ StillToCome
  /\ PlaintextInWindow
  /\ consumedSegments = nextChunkIndex

(* That of the legacy one: what runs was requested with the last group.      *)
LegacyInv ==
  /\ queueIndex \in Nat
  /\ batch \in [Segments -> {"none", "running", "done"}]
  /\ IsFiniteSet(requests) /\ Cardinality(requests) <= maxConcurrentSegmentBatches
  /\ \A b \in Segments : batch[b] = "running" => b \in requests

StreamInv ==
  /\ DeliveryInv
  /\ schedule = "bounded" => WindowInv
  /\ schedule = "legacy" => LegacyInv

-----------------------------------------------------------------------------
(* The slices of two batches have no segment in common, and the slice of a   *)
(* batch lies within what is scheduled.                                      *)
LEMMA BatchesApart ==
  ASSUME Window!SchedulerInv, Window!TileInv,
         NEW a \in Segments, batch[a] # "none", NEW b \in Segments, batch[b] # "none", a < b
  PROVE  a + segmentBatchSize <= b
<1>1. /\ totalSegments \in Nat /\ segmentBatchSize \in Nat \ {0}
      /\ a \in Nat /\ b \in Nat
  BY PayloadAssumption DEF Segments
<1>2. a \in Window!Launched /\ b \in Window!Launched
  BY DEF Window!Launched, Window!Segments, Segments
<1>3. PICK k \in 0 .. a : a = k * segmentBatchSize
  BY <1>2 DEF Window!TileInv, Window!BatchesTile
<1>4. PICK l \in 0 .. b : b = l * segmentBatchSize
  BY <1>2 DEF Window!TileInv, Window!BatchesTile
<1>5. k \in Nat /\ l \in Nat
  BY <1>1
<1>6. k < l
  BY <1>1, <1>3, <1>4, <1>5, Window!StartsApart
<1> QED
  BY <1>1, <1>3, <1>4, <1>5, <1>6, Window!Multiples

LEMMA BatchWithinSchedule ==
  ASSUME Window!SchedulerInv, Window!TileInv, NEW b \in Segments, batch[b] # "none"
  PROVE  /\ BatchEnd(b) <= scheduledSegments
         /\ b < scheduledSegments
<1>1. /\ totalSegments \in Nat /\ segmentBatchSize \in Nat \ {0}
      /\ b \in Nat /\ b < totalSegments /\ scheduledSegments \in 0 .. totalSegments
  BY PayloadAssumption DEF Segments, Window!SchedulerInv, Window!SchedulerTypeOK
<1>2. b \in 0 .. scheduledSegments - 1 /\ \E k \in 0 .. b : b = k * segmentBatchSize
  BY DEF Window!TileInv, Window!BatchesTile, Window!Launched, Window!Segments, Segments
<1>3. b < scheduledSegments
  BY <1>1, <1>2
<1>4. CASE scheduledSegments = totalSegments
  BY <1>1, <1>3, <1>4 DEF BatchEnd
<1>5. CASE scheduledSegments < totalSegments
  <2>1. PICK k \in 0 .. b : b = k * segmentBatchSize
    BY <1>2
  <2>2. PICK l \in Nat : scheduledSegments = l * segmentBatchSize
    BY <1>5 DEF Window!TileInv
  <2>3. k \in Nat /\ k < l
    <3>1. k \in Nat
      BY <1>1
    <3> QED
      BY <1>1, <1>3, <2>1, <2>2, <3>1, Window!StartsApart
  <2>4. b + segmentBatchSize <= scheduledSegments
    BY <1>1, <2>1, <2>2, <2>3, Window!Multiples
  <2> QED
    BY <1>1, <1>3, <1>5, <2>4 DEF BatchEnd
<1> QED
  BY <1>1, <1>3, <1>4, <1>5

LEMMA SlicesApart ==
  ASSUME Window!SchedulerInv, Window!TileInv,
         NEW a \in Segments, batch[a] # "none", NEW b \in Segments, batch[b] # "none", a # b,
         NEW i \in Slice(a), NEW j \in Slice(b)
  PROVE  i # j
<1>1. /\ totalSegments \in Nat /\ segmentBatchSize \in Nat \ {0}
      /\ a \in Nat /\ b \in Nat /\ a < totalSegments /\ b < totalSegments
  BY PayloadAssumption DEF Segments
<1>2. /\ i \in Int /\ i >= a /\ i < a + segmentBatchSize
      /\ j \in Int /\ j >= b /\ j < b + segmentBatchSize
  BY <1>1 DEF Slice, BatchEnd
<1>3. a + segmentBatchSize <= b \/ b + segmentBatchSize <= a
  BY <1>1, BatchesApart
<1> QED
  BY <1>1, <1>2, <1>3

(* A step of the scheduler takes nothing back, and what it starts begins     *)
(* where its schedule ended.                                                 *)
LEMMA StepsOfTheSchedule ==
  ASSUME Window!SchedulerInv, Window!TileInv, SchedulerStep
  PROVE  /\ Window!SchedulerInv' /\ Window!TileInv'
         /\ scheduledSegments \in Nat /\ scheduledSegments' \in Nat
         /\ scheduledSegments' >= scheduledSegments
         /\ \A b \in Segments : batch[b] # "none" => batch'[b] # "none"
         /\ \A b \in Segments :
              batch'[b] # "none" => batch[b] # "none" \/ b >= scheduledSegments
<1>1. Window!SchedulerInv' /\ Window!TileInv' /\ scheduledSegments' >= scheduledSegments
  BY Settings, Window!NextKeepsInv, Window!NextTiles, Window!ScheduleGrows DEF SchedulerStep
<1>2. scheduledSegments \in Nat /\ scheduledSegments' \in Nat
  BY <1>1, PayloadAssumption DEF Window!SchedulerInv, Window!SchedulerTypeOK
<1>3. \A b \in Segments : batch[b] # "none" <=>
        b \in 0 .. scheduledSegments - 1 /\ Window!IsStart(b)
  BY DEF Window!TileInv, Window!BatchesTile, Window!Launched, Window!Segments, Segments,
         Window!IsStart
<1>4. \A b \in Segments : batch'[b] # "none" <=>
        b \in 0 .. scheduledSegments' - 1 /\ Window!IsStart(b)
  BY <1>1 DEF Window!TileInv, Window!BatchesTile, Window!Launched, Window!Segments, Segments,
         Window!IsStart
<1>5. \A b \in Segments : b \in Nat
  BY PayloadAssumption DEF Segments
<1>6. \A b \in Segments : b \in 0 .. scheduledSegments - 1 => b \in 0 .. scheduledSegments' - 1
  <2>1. ASSUME NEW m \in Nat, NEW n \in Nat, n >= m
        PROVE  \A b \in 0 .. m - 1 : b \in 0 .. n - 1
    BY <2>1
  <2> QED
    BY <1>1, <1>2, <2>1
<1>7. \A b \in Segments : b \notin 0 .. scheduledSegments - 1 => b >= scheduledSegments
  BY <1>2, <1>5
<1> QED
  BY <1>1, <1>2, <1>3, <1>4, <1>6, <1>7

-----------------------------------------------------------------------------
(* A step of the stream that moves no counter of delivered segments and      *)
(* decrypts nothing.                                                         *)
NothingDecrypted ==
  /\ \A i \in Segments : mailbox'[i] = "set" => mailbox[i] = "set"
  /\ UNCHANGED <<cursor, nextChunkIndex, consumedSegments>>
  /\ arrived' \in [Segments -> Int]
  /\ \A b \in Segments : arrived'[b] = NotFetched => arrived[b] = NotFetched
  /\ \A b \in Segments : batch[b] = "none" => arrived'[b] = arrived[b]

(* The segments of a batch that just started are still to come.              *)
LEMMA NewBatchesAhead ==
  ASSUME WindowInv, NEW b \in Segments, b >= scheduledSegments, NEW i \in Slice(b),
         nextChunkIndex \in Nat
  PROVE  i >= scheduledSegments /\ i >= nextChunkIndex /\ mailbox[i] # "set"
<1>1. /\ totalSegments \in Nat /\ segmentBatchSize \in Nat \ {0}
      /\ b \in Nat /\ b < totalSegments
      /\ scheduledSegments \in Nat
      /\ nextChunkIndex <= scheduledSegments
  BY PayloadAssumption
  DEF Segments, WindowInv, Window!SchedulerInv, Window!SchedulerTypeOK, Window!WindowBound
<1>2. i \in Segments /\ i >= b /\ i \in Nat
  BY <1>1 DEF Slice, BatchEnd, Segments
<1> QED
  BY <1>1, <1>2 DEF WindowInv, PlaintextInWindow

LEMMA QuietStepKeeps ==
  ASSUME WindowInv, ReaderTypes, SchedulerStep, NothingDecrypted
  PROVE  WindowInv'
<1>1. /\ Window!SchedulerInv' /\ Window!TileInv'
      /\ scheduledSegments \in Nat /\ scheduledSegments' \in Nat
      /\ scheduledSegments' >= scheduledSegments
      /\ \A b \in Segments : batch[b] # "none" => batch'[b] # "none"
      /\ \A b \in Segments :
           batch'[b] # "none" => batch[b] # "none" \/ b >= scheduledSegments
  BY StepsOfTheSchedule DEF WindowInv
<1>2. nextChunkIndex \in Nat /\ \A i \in Segments : i \in Nat
  BY PayloadAssumption DEF ReaderTypes, Segments
<1>3. SliceTypes' /\ BegunInOrder'
  BY <1>1 DEF WindowInv, SliceTypes, BegunInOrder, NothingDecrypted
<1>4. \A b \in Segments : \A i \in Slice(b) : i \in Segments
  BY PayloadAssumption DEF Slice, BatchEnd, Segments
<1>5. StillToCome'
  <2> SUFFICES ASSUME NEW b \in Segments, batch'[b] # "none", NEW i \in Slice(b),
                      i >= cursor[b]
               PROVE  i >= nextChunkIndex /\ mailbox'[i] # "set"
    BY DEF StillToCome, NothingDecrypted
  <2>1. CASE batch[b] # "none"
    BY <1>4, <2>1 DEF WindowInv, StillToCome, NothingDecrypted
  <2>2. CASE b >= scheduledSegments
    BY <1>2, <1>4, <2>2, NewBatchesAhead DEF NothingDecrypted
  <2> QED
    BY <1>1, <2>1, <2>2
<1>6. PlaintextInWindow'
  BY <1>1, <1>2 DEF WindowInv, PlaintextInWindow, NothingDecrypted
<1>7. consumedSegments' = nextChunkIndex'
  BY DEF WindowInv, NothingDecrypted
<1> QED
  BY <1>1, <1>3, <1>5, <1>6, <1>7 DEF WindowInv

(* A batch decrypts a segment of its slice: it is scheduled, not delivered,  *)
(* and in no other slice.                                                    *)
LEMMA DecryptKeeps ==
  ASSUME WindowInv, ReaderTypes, SchedulerStep, NEW b \in Segments, DecryptOne(b)
  PROVE  WindowInv'
<1> DEFINE s == cursor[b]
<1>1. /\ Window!SchedulerInv /\ Window!TileInv /\ Window!SchedulerInv' /\ Window!TileInv'
  BY StepsOfTheSchedule DEF WindowInv
<1>2. /\ batch[b] = "running" /\ s < BatchEnd(b) /\ arrived[b] # NotFetched
      /\ cursor' = [cursor EXCEPT ![b] = s + 1]
      /\ \A i \in Segments : i # s => (mailbox'[i] = "set" => mailbox[i] = "set")
      /\ UNCHANGED <<batch, arrived, nextChunkIndex, consumedSegments, scheduledSegments>>
  BY DEF DecryptOne, DecryptSegment, Decrypting, SetMailbox, Rejecting, readerVars, counters,
         ReaderTypes
<1>3. /\ totalSegments \in Nat /\ segmentBatchSize \in Nat \ {0}
      /\ b \in Nat /\ b < totalSegments /\ s \in Nat /\ s >= b
      /\ scheduledSegments \in 0 .. totalSegments /\ nextChunkIndex \in Nat
  BY PayloadAssumption
  DEF Segments, WindowInv, SliceTypes, ReaderTypes, Window!SchedulerInv, Window!SchedulerTypeOK
<1>4. BatchEnd(b) \in Nat /\ BatchEnd(b) <= scheduledSegments
  BY <1>1, <1>2, <1>3, BatchWithinSchedule DEF BatchEnd
<1>5. s \in Slice(b) /\ s < scheduledSegments /\ s >= nextChunkIndex
  <2>1. s \in Slice(b)
    BY <1>2, <1>3, <1>4 DEF Slice
  <2> QED
    BY <1>2, <1>3, <1>4, <2>1 DEF WindowInv, StillToCome
<1>6. \A a \in Segments : \A i \in Slice(a) : i \in Segments /\ i \in Nat
  BY PayloadAssumption DEF Slice, BatchEnd, Segments
<1> HIDE DEF s
<1>7. SliceTypes' /\ BegunInOrder'
  BY <1>2, <1>3 DEF WindowInv, SliceTypes, BegunInOrder
<1>8. StillToCome'
  <2> SUFFICES ASSUME NEW a \in Segments, batch[a] # "none", NEW i \in Slice(a),
                      i >= cursor'[a]
               PROVE  i >= nextChunkIndex /\ mailbox'[i] # "set"
    BY <1>2 DEF StillToCome
  <2>1. i # s /\ i >= cursor[a]
    <3>1. CASE a = b
      BY <1>2, <1>3, <1>6, <3>1 DEF WindowInv, SliceTypes, s
    <3>2. CASE a # b
      BY <1>1, <1>2, <1>5, <3>2, SlicesApart DEF WindowInv, SliceTypes
    <3> QED
      BY <3>1, <3>2
  <2> QED
    BY <1>2, <1>6, <2>1 DEF WindowInv, StillToCome
<1>9. PlaintextInWindow'
  BY <1>2, <1>3, <1>5 DEF WindowInv, PlaintextInWindow
<1>10. consumedSegments' = nextChunkIndex'
  BY <1>2 DEF WindowInv
<1> QED
  BY <1>1, <1>7, <1>8, <1>9, <1>10 DEF WindowInv

-----------------------------------------------------------------------------
(* What is delivered was scheduled, so that the reader keeps its side of the *)
(* scheduler's contract.                                                     *)
LEMMA DeliversScheduled ==
  ASSUME WindowInv, DeliveryInv, DeliverNext
  PROVE  Window!ConsumeScheduled(1)
<1>1. nextChunkIndex \in Segments /\ mailbox[nextChunkIndex] = "set"
  BY PayloadAssumption
  DEF DeliverNext, Deliver, DeliveryInv, PullWaits, ReaderTypes, Segments
<1>2. consumedSegments + 1 <= scheduledSegments
  BY <1>1, PayloadAssumption
  DEF WindowInv, PlaintextInWindow, Segments, Window!SchedulerInv, Window!SchedulerTypeOK
<1>3. Window!MarkConsumed(1)
  BY DEF DeliverNext, Scheduler!MarkConsumed, Window!MarkConsumed, Scheduler!Pump, Window!Pump,
         Scheduler!CanSchedule, Window!CanSchedule, Scheduler!EndIndex, Window!EndIndex,
         Scheduler!Smaller, Window!Smaller, Scheduler!Segments, Window!Segments,
         Scheduler!maxPrefetchedSegments, Window!maxPrefetchedSegments
<1> QED
  BY <1>2, <1>3 DEF Window!ConsumeScheduled

LEMMA DeliverKeepsWindow ==
  ASSUME WindowInv, DeliveryInv, DeliverNext
  PROVE  SchedulerStep /\ WindowInv'
<1> DEFINE n == nextChunkIndex
<1>1. SchedulerStep
  <2>1. 1 \in 1 .. segmentBatchSize
    BY PayloadAssumption
  <2> QED
    BY <2>1, DeliversScheduled DEF SchedulerStep, Window!SchedulerNext
<1>2. /\ Window!SchedulerInv' /\ Window!TileInv'
      /\ scheduledSegments \in Nat /\ scheduledSegments' \in Nat
      /\ scheduledSegments' >= scheduledSegments
      /\ \A b \in Segments :
           batch'[b] # "none" => batch[b] # "none" \/ b >= scheduledSegments
      /\ \A b \in Segments : batch[b] # "none" => batch'[b] # "none"
  BY <1>1, StepsOfTheSchedule DEF WindowInv
<1>3. /\ n \in Segments /\ n \in Nat /\ n + 1 <= totalSegments
      /\ n + 1 <= scheduledSegments /\ totalSegments \in Nat
      /\ mailbox[n] = "set" /\ mailbox' = [mailbox EXCEPT ![n] = "pending"]
      /\ mailbox \in [Segments -> MailboxStates]
      /\ nextChunkIndex' = n + 1 /\ consumedSegments' = n + 1
      /\ UNCHANGED <<arrived, cursor>>
  <2>1. /\ n \in Segments /\ mailbox[n] = "set" /\ totalSegments \in Nat
        /\ mailbox \in [Segments -> MailboxStates]
        /\ mailbox' = [mailbox EXCEPT ![n] = "pending"] /\ nextChunkIndex' = n + 1
        /\ UNCHANGED <<arrived, cursor>>
    BY PayloadAssumption
    DEF DeliverNext, Deliver, DeliveryInv, PullWaits, ReaderTypes, Segments, sliceVars,
        MailboxReplaced
  <2>2. /\ n + 1 <= scheduledSegments
        /\ consumedSegments' = Window!Smaller(totalSegments, n + 1)
    BY DeliversScheduled DEF Window!ConsumeScheduled, Window!MarkConsumed, WindowInv
  <2> QED
    BY <2>1, <2>2 DEF Segments, Window!Smaller
<1>4. \A b \in Segments : \A i \in Slice(b) : i \in Segments /\ i \in Nat
  BY PayloadAssumption DEF Slice, BatchEnd, Segments
<1> HIDE DEF n
<1>5. SliceTypes' /\ BegunInOrder'
  BY <1>2, <1>3 DEF WindowInv, SliceTypes, BegunInOrder
<1>6. StillToCome'
  <2> SUFFICES ASSUME NEW b \in Segments, batch'[b] # "none", NEW i \in Slice(b),
                      i >= cursor[b]
               PROVE  i >= nextChunkIndex' /\ mailbox'[i] # "set"
    BY <1>3 DEF StillToCome
  <2>1. i >= nextChunkIndex /\ mailbox[i] # "set"
    <3>1. CASE batch[b] # "none"
      BY <3>1 DEF WindowInv, StillToCome
    <3>2. CASE b >= scheduledSegments
      BY <1>3, <3>2, NewBatchesAhead DEF n
    <3> QED
      BY <1>2, <3>1, <3>2
  <2> QED
    BY <1>3, <1>4, <2>1 DEF n
<1>7. PlaintextInWindow'
  <2> SUFFICES ASSUME NEW i \in Segments, mailbox'[i] = "set"
               PROVE  n + 1 <= i /\ i < scheduledSegments'
    BY <1>3 DEF PlaintextInWindow
  <2>1. i # n /\ mailbox[i] = "set" /\ i \in Nat
    BY <1>3 DEF Segments
  <2> QED
    BY <1>2, <1>3, <2>1 DEF WindowInv, PlaintextInWindow, n
<1> QED
  BY <1>1, <1>2, <1>3, <1>5, <1>6, <1>7 DEF WindowInv

(* Every other step is one of the scheduler's or leaves it alone.            *)
LEMMA OpenKeepsWindow ==
  ASSUME WindowInv, DeliveryInv, OpenStream
  PROVE  SchedulerStep /\ WindowInv'
<1>1. Window!FillWindow
  BY DEF OpenStream, Scheduler!FillWindow, Window!FillWindow, Scheduler!Pump, Window!Pump,
         Scheduler!CanSchedule, Window!CanSchedule, Scheduler!EndIndex, Window!EndIndex,
         Scheduler!Smaller, Window!Smaller, Scheduler!Segments, Window!Segments,
         Scheduler!maxPrefetchedSegments, Window!maxPrefetchedSegments
<1>2. SchedulerStep
  BY <1>1 DEF SchedulerStep, Window!SchedulerNext
<1>3. NothingDecrypted
  BY <1>1 DEF NothingDecrypted, OpenStream, Window!FillWindow, sliceVars, readerVars, WindowInv,
              SliceTypes
<1> QED
  BY <1>2, <1>3, QuietStepKeeps DEF DeliveryInv

LEMMA ReaderKeepsWindow ==
  ASSUME WindowInv, DeliveryInv, UNCHANGED vars \/ ReadStream
  PROVE  SchedulerStep /\ WindowInv'
<1>1. UNCHANGED <<batch, counters, arrived, cursor, mailbox, nextChunkIndex>>
  BY DEF vars, pipelineVars, ReadStream, ReaderStep, ReadingStep, Pull, Close, PullThrows,
         EnqueueAfterCancel, Read, ProgressHandlerThrows, Cancel, sliceVars, readerVars
<1>2. SchedulerStep
  BY <1>1 DEF SchedulerStep, Window!schedulerVars, counters
<1>3. NothingDecrypted
  BY <1>1 DEF NothingDecrypted, counters, WindowInv, SliceTypes
<1> QED
  BY <1>2, <1>3, QuietStepKeeps DEF DeliveryInv

LEMMA BatchKeepsWindow ==
  ASSUME WindowInv, DeliveryInv, NEW b \in Segments, BatchStep(b)
  PROVE  SchedulerStep /\ WindowInv'
<1>0. /\ b \in Window!Segments /\ ReaderTypes
      /\ arrived \in [Segments -> Int] /\ mailbox \in [Segments -> MailboxStates]
  BY DEF Window!Segments, Segments, DeliveryInv, ReaderTypes, WindowInv, SliceTypes
<1>1. ASSUME SchedulerStep, UNCHANGED <<arrived, cursor, nextChunkIndex, consumedSegments>>,
             mailbox' = mailbox \/ \E chunks : mailbox' = Rejecting(mailbox, chunks)
      PROVE  SchedulerStep /\ WindowInv'
  <2>1. \A i \in Segments : mailbox'[i] = "set" => mailbox[i] = "set"
    BY <1>0, <1>1 DEF Rejecting
  <2>2. NothingDecrypted
    BY <1>0, <1>1, <2>1 DEF NothingDecrypted
  <2> QED
    BY <1>0, <1>1, <2>2, QuietStepKeeps
<1>2. CASE StartBatch(b)
  <2>1. Window!StartBatch(b)
    BY <1>2 DEF StartBatch, Scheduler!StartBatch, Window!StartBatch
  <2>2. SchedulerStep
    BY <1>0, <2>1 DEF SchedulerStep, Window!SchedulerNext
  <2> QED
    BY <1>1, <1>2, <2>2 DEF StartBatch, Scheduler!StartBatch, sliceVars, readerVars
<1>3. CASE RequestFails(b) \/ BufferTooShort(b) \/ FinishSlice(b)
  <2>1. \E result \in {"resolved", "rejected"} : Window!SettleBatch(b, result)
    BY <1>3 DEF RequestFails, BufferTooShort, FinishSlice, Scheduler!SettleBatch,
                Window!SettleBatch
  <2>2. SchedulerStep
    BY <1>0, <2>1 DEF SchedulerStep, Window!SchedulerNext
  <2>3. mailbox' = mailbox \/ \E chunks : mailbox' = Rejecting(mailbox, chunks)
    BY <1>3 DEF RequestFails, FetchFails, BufferTooShort, SegmentMissing, FinishSlice, SliceDone,
                RejectSlice
  <2>4. UNCHANGED <<arrived, cursor, nextChunkIndex, consumedSegments>>
    BY <1>3, <2>1 DEF RequestFails, FetchFails, BufferTooShort, SegmentMissing, FinishSlice,
                      SliceDone, sliceVars, readerVars, Window!SettleBatch
  <2> QED
    BY <1>1, <2>2, <2>3, <2>4
<1>4. CASE RequestReturns(b)
  <2>1. PICK bytes \in 0 .. BufferSize(b) : FetchReturns(b, bytes)
    BY <1>4 DEF RequestReturns
  <2>2. UNCHANGED <<batch, counters, mailbox, nextChunkIndex>>
    BY <1>4, <2>1 DEF RequestReturns, FetchReturns, readerVars
  <2>3. SchedulerStep
    BY <2>2 DEF SchedulerStep, Window!schedulerVars, counters
  <2>4. /\ bytes \in Int /\ bytes # NotFetched
        /\ batch[b] = "running" /\ arrived' = [arrived EXCEPT ![b] = bytes]
    BY <2>1 DEF FetchReturns, NotFetched
  <2>5. cursor' = cursor
    <3>1. cursor \in [Segments -> Nat] /\ cursor[b] = b
      BY <2>1 DEF FetchReturns, WindowInv, SliceTypes, BegunInOrder
    <3> QED
      BY <2>1, <3>1 DEF FetchReturns
  <2>6. NothingDecrypted
    BY <1>0, <2>2, <2>4, <2>5 DEF NothingDecrypted, counters
  <2> QED
    BY <1>0, <2>3, <2>6, QuietStepKeeps
<1>5. CASE DecryptOne(b)
  <2>1. SchedulerStep
    BY <1>5 DEF SchedulerStep, Window!schedulerVars, DecryptOne, DecryptSegment, counters
  <2> QED
    BY <1>0, <1>5, <2>1, DecryptKeeps
<1>6. CASE CatchBatch(b)
  <2>1. Window!CatchBatch(b)
    BY <1>6 DEF CatchBatch, Scheduler!CatchBatch, Window!CatchBatch
  <2>2. SchedulerStep
    BY <1>0, <2>1 DEF SchedulerStep, Window!SchedulerNext
  <2>3. \E chunks : mailbox' = Rejecting(mailbox, chunks)
    BY <1>6 DEF CatchBatch, RejectFrom
  <2> QED
    BY <1>1, <1>6, <2>1, <2>2, <2>3 DEF CatchBatch, Window!CatchBatch, sliceVars, readerVars
<1>7. CASE FinallyBatch(b)
  <2>1. Window!FinallyBatch(b)
    BY <1>7
    DEF FinallyBatch, Scheduler!FinallyBatch, Window!FinallyBatch, Scheduler!Pump, Window!Pump,
        Scheduler!CanSchedule, Window!CanSchedule, Scheduler!EndIndex, Window!EndIndex,
        Scheduler!Smaller, Window!Smaller, Scheduler!Segments, Window!Segments,
        Scheduler!maxPrefetchedSegments, Window!maxPrefetchedSegments
  <2>2. SchedulerStep
    BY <1>0, <2>1 DEF SchedulerStep, Window!SchedulerNext
  <2> QED
    BY <1>1, <1>7, <2>1, <2>2 DEF FinallyBatch, Window!FinallyBatch, sliceVars, readerVars
<1> QED
  BY <1>2, <1>3, <1>4, <1>5, <1>6, <1>7 DEF BatchStep

LEMMA BoundedKeepsWindow ==
  ASSUME WindowInv, DeliveryInv, Next
  PROVE  SchedulerStep /\ WindowInv'
<1>1. CASE OpenStream
  BY <1>1, OpenKeepsWindow
<1>2. CASE \E b \in Segments : BatchStep(b)
  BY <1>2, BatchKeepsWindow
<1>3. CASE DeliverNext
  BY <1>3, DeliverKeepsWindow
<1>4. CASE ReadStream \/ Ended
  BY <1>4, ReaderKeepsWindow DEF Ended
<1> QED
  BY <1>1, <1>2, <1>3, <1>4 DEF Next

-----------------------------------------------------------------------------
(* The legacy schedule: a group replaces one that is settled.                *)
LEMMA LaunchKeepsGroup ==
  ASSUME LegacyInv, Legacy!LaunchGroup
  PROVE  LegacyInv'
<1> DEFINE starts == {queueIndex + j * segmentBatchSize :
                        j \in 0 .. maxConcurrentSegmentBatches - 1}
           f == [j \in 0 .. maxConcurrentSegmentBatches - 1 |-> queueIndex + j * segmentBatchSize]
<1>1. /\ segmentBatchSize \in Nat \ {0} /\ maxConcurrentSegmentBatches \in Nat \ {0}
      /\ queueIndex \in Nat
  BY PayloadAssumption, ConcurrencyAssumption DEF LegacyInv
<1>2. IsFiniteSet(starts) /\ Cardinality(starts) <= maxConcurrentSegmentBatches
  <2>1. f \in Surjection(0 .. maxConcurrentSegmentBatches - 1, starts)
    BY DEF Surjection
  <2>2. /\ IsFiniteSet(0 .. maxConcurrentSegmentBatches - 1)
        /\ Cardinality(0 .. maxConcurrentSegmentBatches - 1) = maxConcurrentSegmentBatches
    BY <1>1, FS_Interval
  <2> HIDE DEF f, starts
  <2> QED
    BY <2>1, <2>2, FS_Surjection
<1> HIDE DEF starts
<1>3. /\ requests' = starts \cap Segments
      /\ \A b \in requests : batch[b] = "done"
      /\ batch' = [b \in Segments |-> IF b \in starts \cap Segments THEN "running" ELSE batch[b]]
      /\ queueIndex' = queueIndex + maxConcurrentSegmentBatches * segmentBatchSize
  BY DEF Legacy!LaunchGroup, Legacy!Segments, Segments, Legacy!GroupSettled, Legacy!NextGroup,
         starts
<1>4. /\ IsFiniteSet(requests') /\ Cardinality(requests') <= maxConcurrentSegmentBatches
  <2>1. requests' \in SUBSET starts
    BY <1>3
  <2>2. IsFiniteSet(requests') /\ Cardinality(requests') <= Cardinality(starts)
    BY <1>2, <2>1, FS_Subset
  <2>3. Cardinality(requests') \in Nat /\ Cardinality(starts) \in Nat
    BY <1>2, <2>2, FS_CardinalityType
  <2> QED
    BY <1>1, <1>2, <2>2, <2>3
<1>5. queueIndex' \in Nat
  <2>1. maxConcurrentSegmentBatches * segmentBatchSize \in Nat
    BY <1>1, Window!Multiples
  <2> QED
    BY <1>1, <1>3, <2>1
<1>6. /\ batch' \in [Segments -> {"none", "running", "done"}]
      /\ \A b \in Segments : batch'[b] = "running" => b \in requests'
  BY <1>3 DEF LegacyInv
<1> QED
  BY <1>4, <1>5, <1>6 DEF LegacyInv

LEMMA LegacyKeepsGroup ==
  ASSUME LegacyInv, Legacy!Next
  PROVE  LegacyInv'
<1>1. CASE Legacy!LaunchGroup
  BY <1>1, LaunchKeepsGroup
<1>2. ASSUME UNCHANGED <<batch, queueIndex, requests>> PROVE LegacyInv'
  BY <1>2 DEF LegacyInv
<1>3. ASSUME NEW b \in Segments, Legacy!BatchStep(b) PROVE LegacyInv'
  <2>1. CASE Legacy!RequestReturns(b) \/ Legacy!DecryptOne(b)
    BY <1>2, <2>1 DEF Legacy!RequestReturns, Legacy!FetchReturns, Legacy!DecryptOne,
                      Legacy!DecryptSegment, Legacy!queueVars
  <2>2. CASE Legacy!Settled(b)
    BY <2>2 DEF Legacy!Settled, Legacy!queueVars, LegacyInv
  <2> QED
    BY <1>3, <2>1, <2>2
    DEF Legacy!BatchStep, Legacy!RequestFails, Legacy!BufferTooShort, Legacy!FinishSlice
<1>4. CASE Legacy!DeliverNext
  BY <1>2, <1>4 DEF Legacy!DeliverNext, Legacy!queueVars
<1>5. CASE Legacy!ReadStream
  BY <1>2, <1>5
  DEF Legacy!ReadStream, Legacy!ReaderStep, Legacy!ReadingStep, Legacy!Pull, Legacy!Close,
      Legacy!PullThrows, Legacy!EnqueueAfterCancel, Legacy!Read, Legacy!ProgressHandlerThrows,
      Legacy!Cancel, Legacy!queueVars
<1>6. CASE Legacy!Ended
  BY <1>2, <1>6 DEF Legacy!Ended, Legacy!vars, Legacy!pipelineVars, Legacy!queueVars
<1> QED
  BY <1>1, <1>3, <1>4, <1>5, <1>6 DEF Legacy!Next, Legacy!Segments, Segments

-----------------------------------------------------------------------------
(* Both schedules together.                                                  *)
LEMMA InitIsBounded == StreamInit => StreamInv
<1> SUFFICES ASSUME StreamInit PROVE StreamInv
  OBVIOUS
<1>1. DeliveryInv
  BY InitDelivers
<1>2. /\ PipelineInit /\ Legacy!QueueInit
      /\ totalSegments \in Nat /\ maxConcurrentSegmentBatches \in Nat \ {0}
      /\ Window!SchedulerInit
  BY PayloadAssumption, ConcurrencyAssumption
  DEF StreamInit, Init, Scheduler!SchedulerInit, Window!SchedulerInit, Scheduler!Segments,
      Window!Segments
<1>3. WindowInv
  <2>1. Window!SchedulerInv /\ Window!TileInv
    BY <1>2, Settings, Window!InitEstablishesInv, Window!InitTiles
  <2>2. SliceTypes
    BY <1>2 DEF PipelineInit, SliceTypes, Segments, NotFetched
  <2>3. BegunInOrder
    BY <1>2 DEF PipelineInit, BegunInOrder
  <2>4. StillToCome /\ PlaintextInWindow
    BY <1>2 DEF PipelineInit, StillToCome, PlaintextInWindow
  <2>5. consumedSegments = nextChunkIndex
    BY <1>2 DEF PipelineInit, Window!SchedulerInit
  <2> QED
    BY <2>1, <2>2, <2>3, <2>4, <2>5 DEF WindowInv
<1>4. LegacyInv
  <2>1. IsFiniteSet({}) /\ Cardinality({}) = 0
    BY FS_EmptySet
  <2> QED
    BY <1>2, <2>1 DEF PipelineInit, Legacy!QueueInit, LegacyInv
<1> QED
  BY <1>1, <1>3, <1>4 DEF StreamInv

LEMMA NextIsBounded ==
  ASSUME StreamInv, [StreamNext]_streamVars
  PROVE  /\ StreamInv'
         /\ UNCHANGED schedule
         /\ schedule = "bounded" => SchedulerStep
         /\ schedule # "bounded" => UNCHANGED counters
<1>0. DeliveryInv'
  BY NextDelivers DEF StreamInv
<1>1. CASE Bounded(Next)
  BY <1>0, <1>1, BoundedKeepsWindow DEF Bounded, StreamInv
<1>2. CASE Unbounded(Legacy!Next)
  BY <1>0, <1>2, LegacyKeepsGroup DEF Unbounded, StreamInv
<1>3. CASE UNCHANGED streamVars
  <2>1. schedule = "bounded" => WindowInv' /\ SchedulerStep
    BY <1>3, ReaderKeepsWindow DEF StreamInv, streamVars
  <2>2. schedule = "legacy" => LegacyInv'
    BY <1>3 DEF StreamInv, LegacyInv, streamVars, vars, pipelineVars, queueVars
  <2> QED
    BY <1>0, <1>3, <2>1, <2>2 DEF StreamInv, streamVars, vars
<1> QED
  BY <1>1, <1>2, <1>3 DEF StreamNext

(* What waits in mailboxes is in the window; one more segment is queued.     *)
LEMMA WindowHoldsPlaintext ==
  ASSUME DeliveryInv, WindowInv
  PROVE  RetainedPlaintextBound
<1> DEFINE waiting == {i \in Segments : mailbox[i] = "set"}
           window == nextChunkIndex .. scheduledSegments - 1
<1>1. /\ nextChunkIndex \in Nat /\ scheduledSegments \in Nat
      /\ nextChunkIndex <= scheduledSegments
      /\ scheduledSegments - nextChunkIndex <= Scheduler!maxPrefetchedSegments
      /\ segmentBatchSize \in Nat \ {0} /\ maxConcurrentSegmentBatches \in Nat \ {0}
  BY PayloadAssumption, ConcurrencyAssumption
  DEF DeliveryInv, ReaderTypes, WindowInv, Window!SchedulerInv, Window!SchedulerTypeOK,
      Window!WindowBound, Window!maxPrefetchedSegments, Scheduler!maxPrefetchedSegments
<1>2. Scheduler!maxPrefetchedSegments \in Nat
  BY <1>1, Window!Multiples DEF Scheduler!maxPrefetchedSegments
<1>3. IsFiniteSet(window) /\ Cardinality(window) = scheduledSegments - nextChunkIndex
  <2>1. ASSUME NEW m \in Nat, NEW n \in Nat, m <= n
        PROVE  IsFiniteSet(m .. n - 1) /\ Cardinality(m .. n - 1) = n - m
    <3>1. m \in Int /\ n - 1 \in Int
      OBVIOUS
    <3>2. /\ IsFiniteSet(m .. n - 1)
          /\ Cardinality(m .. n - 1) = IF m > n - 1 THEN 0 ELSE n - 1 - m + 1
      BY <3>1, FS_Interval, Zenon
    <3> QED
      BY <2>1, <3>2
  <2> QED
    BY <1>1, <2>1
<1>4. waiting \in SUBSET window
  <2>1. \A i \in waiting : i \in Int /\ nextChunkIndex <= i /\ i < scheduledSegments
    BY PayloadAssumption DEF WindowInv, PlaintextInWindow, Segments
  <2> QED
    BY <1>1, <2>1
<1> HIDE DEF waiting, window
<1>5. /\ Cardinality(waiting) <= Cardinality(window)
      /\ Cardinality(waiting) \in Nat
  BY <1>3, <1>4, FS_Subset, FS_CardinalityType
<1>6. Len(queue) \in Int /\ Len(queue) <= 1
  <2>1. queue = <<>> \/ queue = <<Len(received)>>
    BY DEF DeliveryInv, AllDelivered
  <2>2. Len(<<>>) = 0 /\ \A r : Len(<<r>>) = 1
    OBVIOUS
  <2>3. Len(queue) = 0 \/ Len(queue) = 1
    BY <2>1, <2>2, Zenon
  <2>4. \A n : n = 0 \/ n = 1 => n \in Int /\ n <= 1
    OBVIOUS
  <2> QED
    BY <2>3, <2>4, Zenon
<1>7. Cardinality(waiting) + Len(queue) <= Scheduler!maxPrefetchedSegments + HighWaterMark
  <2>1. \A w, c, q, m \in Int : w <= c /\ c <= m /\ q <= 1 => w + q <= m + 1
    OBVIOUS
  <2> QED
    BY <1>1, <1>2, <1>3, <1>5, <1>6, <2>1 DEF HighWaterMark
<1> QED
  BY <1>7 DEF RetainedPlaintextBound, waiting

LEMMA GroupIsBounded ==
  ASSUME LegacyInv PROVE Legacy!GroupBound
<1> DEFINE running == {b \in Segments : batch[b] = "running"}
<1>1. running \in SUBSET requests
  BY DEF LegacyInv
<1> HIDE DEF running
<1>2. /\ Cardinality(running) <= Cardinality(requests)
      /\ Cardinality(running) \in Nat /\ Cardinality(requests) \in Nat
  BY <1>1, FS_Subset, FS_CardinalityType DEF LegacyInv
<1>3. Cardinality(running) <= maxConcurrentSegmentBatches
  BY <1>2, ConcurrencyAssumption DEF LegacyInv
<1>4. \A S : Legacy!Cardinality(S) = Cardinality(S)
  BY Zenon DEF Legacy!Cardinality, Cardinality
<1> QED
  BY <1>3, <1>4 DEF Legacy!GroupBound, Legacy!Segments, Segments, running

(* Memory and requests are bounded: with the bounded schedule no more        *)
(* plaintext waits, in mailboxes or in the stream's queue, than the window   *)
(* holds and one segment; with the legacy one no more requests run than a    *)
(* group has.                                                                *)
THEOREM WorkIsAlwaysBounded == StreamSpec => []WorkIsBounded
<1>1. StreamInit => StreamInv /\ schedule \in {"bounded", "legacy"}
  BY InitIsBounded DEF StreamInit
<1>2. StreamInv /\ schedule \in {"bounded", "legacy"} /\ [StreamNext]_streamVars
        => (StreamInv /\ schedule \in {"bounded", "legacy"})'
  BY NextIsBounded
<1>3. StreamInv /\ schedule \in {"bounded", "legacy"} => WorkIsBounded
  BY WindowHoldsPlaintext, GroupIsBounded DEF StreamInv, WorkIsBounded
<1> QED
  BY <1>1, <1>2, <1>3, PTL DEF StreamSpec

-----------------------------------------------------------------------------
(* The batches as UsesScheduler shows them to the scheduler are those of the *)
(* stream when it has the bounded schedule.                                  *)
LEMMA StepOfTheSchedulerInside ==
  ASSUME schedule = "bounded", UNCHANGED schedule, SchedulerStep
  PROVE  [SchedulerInside!SchedulerNext]_(SchedulerInside!schedulerVars)
<1> USE DEF SchedulerInside!Pump, Window!Pump,
            SchedulerInside!CanSchedule, Window!CanSchedule,
            SchedulerInside!EndIndex, Window!EndIndex,
            SchedulerInside!Smaller, Window!Smaller,
            SchedulerInside!Segments, Window!Segments,
            SchedulerInside!maxPrefetchedSegments, Window!maxPrefetchedSegments
<1>1. CASE Window!FillWindow
  <2>1. SchedulerInside!FillWindow
    BY <1>1 DEF Window!FillWindow, SchedulerInside!FillWindow
  <2> QED
    BY <2>1 DEF SchedulerInside!SchedulerNext
<1>2. ASSUME NEW count \in 1 .. segmentBatchSize, Window!ConsumeScheduled(count)
      PROVE  SchedulerInside!SchedulerNext
  <2>1. SchedulerInside!ConsumeScheduled(count)
    BY <1>2 DEF Window!ConsumeScheduled, SchedulerInside!ConsumeScheduled,
                Window!MarkConsumed, SchedulerInside!MarkConsumed
  <2> QED
    BY <2>1 DEF SchedulerInside!SchedulerNext
<1>3. ASSUME NEW b \in Window!Segments, Window!FinallyBatch(b)
      PROVE  SchedulerInside!SchedulerNext
  <2>1. SchedulerInside!FinallyBatch(b)
    BY <1>3 DEF Window!FinallyBatch, SchedulerInside!FinallyBatch
  <2> QED
    BY <1>3, <2>1 DEF SchedulerInside!SchedulerNext
<1>4. ASSUME NEW b \in Window!Segments,
             \/ Window!StartBatch(b)
             \/ Window!SettleBatch(b, "resolved")
             \/ Window!SettleBatch(b, "rejected")
             \/ Window!CatchBatch(b)
      PROVE  SchedulerInside!SchedulerNext
  BY <1>4 DEF Window!StartBatch, SchedulerInside!StartBatch,
              Window!SettleBatch, SchedulerInside!SettleBatch,
              Window!CatchBatch, SchedulerInside!CatchBatch, SchedulerInside!SchedulerNext
<1>5. CASE UNCHANGED Window!schedulerVars
  BY <1>5 DEF Window!schedulerVars, SchedulerInside!schedulerVars
<1> QED
  BY <1>1, <1>2, <1>3, <1>4, <1>5
  DEF SchedulerStep, Window!SchedulerNext, Window!SchedulerIdle

(* The stream drives its scheduler as the specification of the scheduler     *)
(* allows: the reader never counts a segment that was not scheduled.         *)
THEOREM SchedulerIsUsedAsSpecified == StreamSpec => UsesScheduler
<1>1. StreamInit => StreamInv /\ SchedulerInside!SchedulerInit
  <2> SUFFICES ASSUME StreamInit PROVE StreamInv /\ SchedulerInside!SchedulerInit
    OBVIOUS
  <2>1. SchedulerInside!SchedulerInit
    BY DEF StreamInit, Init, Scheduler!SchedulerInit, SchedulerInside!SchedulerInit,
           Scheduler!Segments, SchedulerInside!Segments, Segments
  <2> QED
    BY <2>1, InitIsBounded
<1>2. StreamInv /\ [StreamNext]_streamVars =>
        StreamInv' /\ [SchedulerInside!SchedulerNext]_(SchedulerInside!schedulerVars)
  <2> SUFFICES ASSUME StreamInv, [StreamNext]_streamVars
               PROVE  /\ StreamInv'
                      /\ [SchedulerInside!SchedulerNext]_(SchedulerInside!schedulerVars)
    OBVIOUS
  <2>1. CASE schedule = "bounded"
    BY <2>1, NextIsBounded, StepOfTheSchedulerInside
  <2>2. CASE schedule # "bounded"
    BY <2>2, NextIsBounded DEF counters, SchedulerInside!schedulerVars
  <2> QED
    BY <2>1, <2>2
<1> QED
  BY <1>1, <1>2, PTL DEF StreamSpec, UsesScheduler, SchedulerInside!SchedulerSpec

-----------------------------------------------------------------------------
(* Errors have causes, and failures reach whoever waits, in a file whose     *)
(* segments are even, which is what writeStream makes (EvenSegments of       *)
(* TdfWriter).  With sizes of any kind neither holds: with 1, 1, 5, 5, 5, 5  *)
(* and batches of two, the second segment of a batch is looked for at the    *)
(* wrong place, and found there even in a short buffer, so that the batch    *)
(* seems to be whole.                                                        *)
EvenFile ==
  \A i \in Segments : i + 1 < totalSegments => encryptedSegmentSize[i] = encryptedSegmentSize[0]

SettledPhases == {"resolved", "rejected", "caught", "done"}
Short(b) == arrived[b] < BufferSize(b)

(* The loop of a slice has found in the buffer what it passed.               *)
PassedIsFetched ==
  /\ cursor \in [Segments -> Nat] /\ arrived \in [Segments -> Int]
  /\ \A b \in Segments :
       /\ b <= cursor[b] /\ cursor[b] <= BatchEnd(b)
       /\ arrived[b] = NotFetched
            \/ encryptedOffset[cursor[b]] - encryptedOffset[b] <= arrived[b]

(* How a batch is settled tells whether its buffer was whole.                *)
OutcomeTells ==
  \A b \in Segments :
    /\ batch[b] \in {"rejected", "caught"} => Short(b)
    /\ batch[b] = "resolved" => ~Short(b)

(* What is rejected does not verify, or a batch up to it has failed.         *)
Caused(i) == i \in tampered \/ \E b \in 0 .. i : BatchFailed(b)
RejectionsCaused == \A i \in Segments : mailbox[i] = "rejected" => Caused(i)
ErrorCaused == stream = "errored" => nextChunkIndex \in Segments /\ Caused(nextChunkIndex)

(* Batches start at multiples of the batch size, before the queue's index.   *)
Aligned(b) == \E k \in Nat : b = k * segmentBatchSize
GroupsAligned ==
  /\ Aligned(queueIndex)
  /\ \A b \in Segments : batch[b] # "none" => b < queueIndex /\ Aligned(b)

FailureInv ==
  /\ PassedIsFetched
  /\ OutcomeTells
  /\ RejectionsCaused
  /\ ErrorCaused
  /\ schedule = "bounded" => FailureReachesTheRest
  /\ schedule = "legacy" => GroupsAligned /\ Legacy!FailureReachesItsSlice

-----------------------------------------------------------------------------
(* The layout of an even file.                                               *)
LEMMA LeastNumber ==
  ASSUME NEW T, T \subseteq Nat, T # {}
  PROVE  \E n \in T : \A m \in T : n <= m
<1>1. \A m, n \in Nat : m < n => <<m, n>> \in OpToRel(<, Nat)
  BY Zenon DEF OpToRel
<1>2. PICK n \in T : \A m \in T : ~(<<m, n>> \in OpToRel(<, Nat))
  BY NatLessThanWellFounded, WFMin, Zenon
<1>3. \A m \in T : ~(m < n)
  BY <1>1, <1>2, Zenon
<1> QED
  BY <1>3

LEMMA Remainder ==
  ASSUME NEW x \in Nat, NEW m \in Nat, m <= x, x < m + m
  PROVE  x % m = x - m
OBVIOUS

(* In an even file the offset of a segment is its number times the size of   *)
(* the first: this satisfies the equation of encryptedOffset, and nothing    *)
(* else does.                                                                *)
EvenOffset ==
  [i \in 0 .. totalSegments |->
     IF i = 0 THEN 0
     ELSE (i - 1) * encryptedSegmentSize[0] + encryptedSegmentSize[i - 1]]
SumOfSizes(f) ==
  f = [i \in 0 .. totalSegments |->
         IF i = 0 THEN 0 ELSE f[i - 1] + encryptedSegmentSize[i - 1]]

LEMMA SizesAreEven ==
  ASSUME EvenFile
  PROVE  /\ totalSegments \in Nat
         /\ \A i \in Segments : i \in Nat /\ encryptedSegmentSize[i] \in Nat \ {0}
         /\ \A i \in Segments : encryptedSegmentSize[0] \in Nat \ {0}
         /\ \A i \in Segments :
              i + 1 < totalSegments => encryptedSegmentSize[i] = encryptedSegmentSize[0]
<1>1. /\ totalSegments \in Nat
      /\ \A i \in Segments : i \in Nat /\ encryptedSegmentSize[i] \in Nat \ {0}
  BY PayloadAssumption DEF Segments
<1>2. \A i \in Segments : 0 \in Segments
  BY <1>1 DEF Segments
<1> QED
  BY <1>1, <1>2 DEF EvenFile

LEMMA EvenOffsetSums ==
  ASSUME EvenFile PROVE SumOfSizes(EvenOffset)
<1> DEFINE s == encryptedSegmentSize[0]
<1>0. totalSegments \in Nat
  BY PayloadAssumption
<1>1. ASSUME NEW i \in 0 .. totalSegments, i # 0
      PROVE  EvenOffset[i] = EvenOffset[i - 1] + encryptedSegmentSize[i - 1]
  <2>1. i \in Nat /\ i - 1 \in Nat /\ i - 1 \in 0 .. totalSegments /\ i - 1 \in Segments
    BY <1>0, <1>1 DEF Segments
  <2>2. s \in Nat
    BY <2>1, SizesAreEven
  <2>3. EvenOffset[i] = (i - 1) * s + encryptedSegmentSize[i - 1]
    BY <1>1 DEF EvenOffset
  <2>4. CASE i = 1
    <3>1. EvenOffset[i - 1] = 0 /\ (i - 1) * s = 0
      BY <2>1, <2>2, <2>4 DEF EvenOffset
    <3> QED
      BY <2>1, <2>3, <3>1, SizesAreEven
  <2>5. CASE i # 1
    <3>1. i - 2 \in Segments /\ i - 2 \in Nat /\ (i - 2) + 1 < totalSegments
      BY <1>0, <1>1, <2>1, <2>5 DEF Segments
    <3>2. encryptedSegmentSize[i - 2] = s
      BY <3>1, SizesAreEven
    <3>3. EvenOffset[i - 1] = (i - 2) * s + s
      BY <2>1, <2>5, <3>2 DEF EvenOffset
    <3>4. (i - 1) * s = (i - 2) * s + s
      <4>1. \A d, t \in Nat : (d + 1) * t = d * t + t
        OBVIOUS
      <4>2. i - 1 = (i - 2) + 1
        BY <2>1
      <4> QED
        BY <2>2, <3>1, <4>1, <4>2
    <3> QED
      BY <2>3, <3>3, <3>4
  <2> QED
    BY <2>4, <2>5
<1>2. 0 \in 0 .. totalSegments /\ EvenOffset[0] = 0
  BY <1>0 DEF EvenOffset
<1>3. EvenOffset = [i \in 0 .. totalSegments |-> EvenOffset[i]]
  BY DEF EvenOffset
<1> QED
  BY <1>1, <1>2, <1>3 DEF SumOfSizes

LEMMA OffsetSums ==
  ASSUME EvenFile PROVE SumOfSizes(encryptedOffset)
<1>1. encryptedOffset = CHOOSE f : SumOfSizes(f)
  BY DEF encryptedOffset, SumOfSizes
<1> QED
  BY <1>1, EvenOffsetSums

LEMMA OffsetIsEven ==
  ASSUME EvenFile PROVE encryptedOffset = EvenOffset
<1> DEFINE differs == {i \in 0 .. totalSegments : encryptedOffset[i] # EvenOffset[i]}
<1>0. totalSegments \in Nat
  BY PayloadAssumption
<1>1. SumOfSizes(encryptedOffset) /\ SumOfSizes(EvenOffset)
  BY OffsetSums, EvenOffsetSums
<1>2. ASSUME differs # {} PROVE FALSE
  <2>0. differs \subseteq Nat
    BY <1>0
  <2>1. PICK i \in differs : \A j \in differs : i <= j
    <3> HIDE DEF differs
    <3> QED
      BY <1>2, <2>0, LeastNumber
  <2>2. i \in 0 .. totalSegments /\ i \in Nat
    BY <1>0
  <2>3. i # 0
    BY <1>1, <2>2 DEF SumOfSizes
  <2>4. i - 1 \in 0 .. totalSegments /\ i - 1 \notin differs
    BY <1>0, <2>1, <2>2, <2>3
  <2>5. encryptedOffset[i - 1] = EvenOffset[i - 1]
    BY <2>4
  <2> QED
    BY <1>1, <2>1, <2>2, <2>3, <2>5 DEF SumOfSizes
<1>3. \A i \in 0 .. totalSegments : encryptedOffset[i] = EvenOffset[i]
  BY <1>2
<1>4. /\ encryptedOffset = [i \in 0 .. totalSegments |-> encryptedOffset[i]]
      /\ EvenOffset = [i \in 0 .. totalSegments |-> EvenOffset[i]]
  BY <1>1 DEF SumOfSizes
<1> QED
  BY <1>3, <1>4


(* What the rest needs of it: offsets grow by the sizes, and the reader's    *)
(* arithmetic for the place of a segment in the buffer of its batch is       *)
(* right, as batches start at multiples of their size.                       *)
LEMMA OffsetTypes ==
  ASSUME EvenFile
  PROVE  /\ \A i \in 0 .. totalSegments : encryptedOffset[i] \in Nat
         /\ \A i \in Segments :
              encryptedOffset[i + 1] = encryptedOffset[i] + encryptedSegmentSize[i]
         /\ \A i \in Segments : encryptedOffset[i] = i * encryptedSegmentSize[0]
<1> DEFINE s == encryptedSegmentSize[0]
<1>0. totalSegments \in Nat /\ \A i \in Segments : i \in Nat /\ i < totalSegments
  BY PayloadAssumption DEF Segments
<1>1. SumOfSizes(encryptedOffset)
  BY OffsetSums
<1>2. \A i, t \in Nat : i * t \in Nat
  OBVIOUS
<1>3. ASSUME NEW i \in 0 .. totalSegments PROVE encryptedOffset[i] \in Nat
  <2>1. CASE i = 0
    BY <1>1, <2>1 DEF SumOfSizes
  <2>2. CASE i # 0
    <3>1. i - 1 \in Nat /\ i - 1 \in Segments
      BY <1>0, <2>2 DEF Segments
    <3>2. encryptedOffset[i] = (i - 1) * s + encryptedSegmentSize[i - 1]
      BY <2>2, OffsetIsEven DEF EvenOffset
    <3>3. s \in Nat /\ encryptedSegmentSize[i - 1] \in Nat
      BY <3>1, SizesAreEven
    <3>4. (i - 1) * s \in Nat
      BY <1>2, <3>1, <3>3
    <3> QED
      BY <3>2, <3>3, <3>4
  <2> QED
    BY <2>1, <2>2
<1>4. ASSUME NEW i \in Segments
      PROVE  encryptedOffset[i + 1] = encryptedOffset[i] + encryptedSegmentSize[i]
  <2>1. i + 1 \in 0 .. totalSegments /\ i + 1 # 0 /\ (i + 1) - 1 = i
    BY <1>0
  <2> QED
    BY <1>1, <2>1 DEF SumOfSizes
<1>5. ASSUME NEW i \in Segments PROVE encryptedOffset[i] = i * s
  <2>0. s \in Nat /\ i \in Nat /\ i \in 0 .. totalSegments
    BY <1>0, SizesAreEven
  <2>1. CASE i = 0
    BY <1>1, <2>0, <2>1 DEF SumOfSizes
  <2>2. CASE i # 0
    <3>1. i - 1 \in Nat /\ i - 1 \in Segments /\ (i - 1) + 1 < totalSegments
      BY <1>0, <2>2 DEF Segments
    <3>2. encryptedOffset[i] = (i - 1) * s + encryptedSegmentSize[i - 1]
      BY <2>0, <2>2, OffsetIsEven DEF EvenOffset
    <3>3. encryptedSegmentSize[i - 1] = s
      BY <3>1, SizesAreEven
    <3>4. \A d, t \in Nat : (d + 1) * t = d * t + t
      OBVIOUS
    <3>5. i = (i - 1) + 1
      BY <2>0
    <3>6. i * s = (i - 1) * s + s
      BY <2>0, <3>1, <3>4, <3>5
    <3> QED
      BY <3>2, <3>3, <3>6
  <2> QED
    BY <2>1, <2>2
<1> QED
  BY <1>3, <1>4, <1>5

LEMMA OffsetsGrow ==
  ASSUME EvenFile, NEW i \in 0 .. totalSegments, NEW j \in 0 .. totalSegments, i <= j
  PROVE  encryptedOffset[i] <= encryptedOffset[j]
<1> DEFINE lower ==
      {k \in 0 .. totalSegments : i <= k /\ ~(encryptedOffset[i] <= encryptedOffset[k])}
<1>0. totalSegments \in Nat /\ \A k \in Segments : k \in Nat
  BY PayloadAssumption DEF Segments
<1>1. ASSUME lower # {} PROVE FALSE
  <2>0. lower \subseteq Nat
    BY <1>0
  <2>1. PICK k \in lower : \A l \in lower : k <= l
    <3> HIDE DEF lower
    <3> QED
      BY <1>1, <2>0, LeastNumber
  <2>2. /\ k \in 0 .. totalSegments /\ k \in Nat /\ i <= k
        /\ ~(encryptedOffset[i] <= encryptedOffset[k])
        /\ encryptedOffset[i] \in Nat /\ encryptedOffset[k] \in Nat
    BY <1>0, OffsetTypes
  <2>3. k # i
    BY <2>2
  <2>4. k - 1 \in Segments /\ k - 1 \in 0 .. totalSegments /\ i <= k - 1 /\ (k - 1) + 1 = k
    BY <1>0, <2>2, <2>3 DEF Segments
  <2>5. encryptedOffset[k] = encryptedOffset[k - 1] + encryptedSegmentSize[k - 1]
    <3>1. encryptedOffset[(k - 1) + 1] = encryptedOffset[k - 1] + encryptedSegmentSize[k - 1]
      BY <2>4, OffsetTypes
    <3> QED
      BY <2>4, <3>1
  <2>6. encryptedSegmentSize[k - 1] \in Nat /\ encryptedOffset[k - 1] \in Nat
    BY <2>4, SizesAreEven, OffsetTypes
  <2>7. encryptedOffset[i] <= encryptedOffset[k - 1]
    BY <2>1, <2>4, <2>6
  <2> QED
    BY <2>2, <2>5, <2>6, <2>7
<1> QED
  BY <1>1

LEMMA PlacesAreRight ==
  ASSUME EvenFile, NEW b \in Segments, Aligned(b), NEW i \in Slice(b)
  PROVE  /\ i \in Segments /\ BufferOffset(b, i) = TrueOffset(b, i)
         /\ TrueOffset(b, i) + encryptedSegmentSize[i] = encryptedOffset[i + 1] - encryptedOffset[b]
<1> DEFINE s == encryptedSegmentSize[0]
<1>0. /\ totalSegments \in Nat /\ segmentBatchSize \in Nat \ {0}
      /\ b \in Nat /\ b < totalSegments /\ s \in Nat \ {0}
  BY PayloadAssumption, SizesAreEven DEF Segments
<1>1. i \in Nat /\ i \in Segments /\ b <= i /\ i < b + segmentBatchSize
  BY <1>0 DEF Slice, BatchEnd, Segments
<1>2. encryptedOffset[b] = b * s /\ encryptedOffset[i] = i * s
  BY <1>1, OffsetTypes
<1>3. encryptedOffset[b] \in Nat /\ encryptedOffset[i] \in Nat
  BY <1>0, <1>1, OffsetTypes DEF Segments
<1>4. BufferOffset(b, i) = TrueOffset(b, i)
  <2>1. CASE encryptedOffset[b] = 0
    BY <1>3, <2>1 DEF BufferOffset, TrueOffset
  <2>2. CASE encryptedOffset[b] # 0
    <3>1. b # 0
      BY <1>0, <1>2, <2>2
    <3>2. segmentBatchSize <= b
      <4>1. PICK k \in Nat : b = k * segmentBatchSize
        BY DEF Aligned
      <4>2. k # 0
        BY <1>0, <3>1, <4>1
      <4>3. \A t \in Nat : /\ t <= t * segmentBatchSize
                            /\ 1 <= t => 1 * segmentBatchSize <= t * segmentBatchSize
        BY <1>0, Window!StartsApart
      <4> QED
        BY <1>0, <4>1, <4>2, <4>3
    <3>3. i < b + b
      BY <1>0, <1>1, <3>2
    <3>4. \A m, n \in Nat : (m <= n => m * s <= n * s) /\ (m < n => m * s < n * s)
      BY <1>0, Window!StartsApart
    <3>5. (b + b) * s = b * s + b * s
      BY <1>0
    <3>6. b * s <= i * s /\ i * s < b * s + b * s
      BY <1>0, <1>1, <3>3, <3>4, <3>5
    <3> HIDE DEF s
    <3> QED
      BY <1>2, <1>3, <2>2, <3>6, Remainder DEF BufferOffset, TrueOffset
  <2> QED
    BY <2>1, <2>2
<1>5. encryptedOffset[i + 1] = encryptedOffset[i] + encryptedSegmentSize[i]
  BY <1>1, OffsetTypes
<1> QED
  BY <1>1, <1>3, <1>4, <1>5, SizesAreEven DEF TrueOffset


-----------------------------------------------------------------------------
(* The steps of either schedule, by what they do to batches and mailboxes.   *)
(* Phases move: a batch is not settled, or stays as it is, or is done.       *)
PhasesMove ==
  \A b \in Segments :
    \/ batch'[b] = batch[b]
    \/ batch[b] \notin SettledPhases /\ batch'[b] \notin SettledPhases
    \/ batch[b] \in {"resolved", "caught"} /\ batch'[b] = "done"
PhaseStep == PhasesMove /\ UNCHANGED <<tampered, sliceVars, mailbox, readerVars>>
DeliverStep == Deliver /\ PhasesMove
ReadingOnly == ReaderStep /\ UNCHANGED batch
SettlesAs(b, phase) == batch[b] = "running" /\ batch' = [batch EXCEPT ![b] = phase]
FailStep(b, phase) == (FetchFails(b) \/ SegmentMissing(b)) /\ SettlesAs(b, phase)
FinishStep(b, phase) == SliceDone(b) /\ SettlesAs(b, phase)
ReturnStep(b) == \E bytes \in 0 .. BufferSize(b) : FetchReturns(b, bytes)
CatchStep(b) ==
  /\ batch[b] = "rejected" /\ batch' = [batch EXCEPT ![b] = "caught"]
  /\ mailbox' = RejectFrom(mailbox, b)
  /\ UNCHANGED <<tampered, sliceVars, readerVars>>

(* What all of them need of the state before.                                *)
StepContext ==
  /\ ReaderTypes /\ PullWaits
  /\ batch = [b \in Segments |-> batch[b]]
  /\ \A b \in Segments : batch[b] # "none" => Aligned(b)
  /\ PassedIsFetched /\ OutcomeTells /\ RejectionsCaused /\ ErrorCaused

(* And what they keep: nobody who waits is forgotten, no failure is undone.  *)
Waiting(i) == i >= nextChunkIndex /\ mailbox[i] = "pending"
FailuresStay == \A b \in Segments : BatchFailed(b) => BatchFailed(b)'
CausesKept ==
  /\ PassedIsFetched' /\ OutcomeTells' /\ RejectionsCaused' /\ ErrorCaused'
  /\ FailuresStay
  /\ \A i \in Segments : Waiting(i)' => Waiting(i)

LEMMA CausesStay ==
  ASSUME FailuresStay, UNCHANGED tampered
  PROVE  \A i \in Segments : Caused(i) => Caused(i)'
<1>1. \A i \in Segments : \A b \in 0 .. i : b \in Segments
  BY PayloadAssumption DEF Segments
<1> QED
  BY <1>1 DEF Caused, FailuresStay

LEMMA ErrorStays ==
  ASSUME FailuresStay, UNCHANGED <<tampered, stream, nextChunkIndex>>, ErrorCaused
  PROVE  ErrorCaused'
<1>1. \A i \in Segments : Caused(i) => Caused(i)'
  BY CausesStay
<1>2. CASE stream = "errored"
  <2> DEFINE n == nextChunkIndex
  <2>1. n \in Segments /\ Caused(n)
    BY <1>2 DEF ErrorCaused
  <2>2. PICK m \in Segments : m = n /\ m = nextChunkIndex'
    BY <2>1
  <2>3. Caused(m) /\ Caused(m)'
    BY <1>1, <2>1, <2>2
  <2>4. m \in tampered' \/ \E b \in 0 .. m : BatchFailed(b)'
    BY <2>3 DEF Caused
  <2> QED
    BY <2>2, <2>4 DEF ErrorCaused, Caused
<1> QED
  BY <1>2 DEF ErrorCaused

LEMMA RejectionsStay ==
  ASSUME FailuresStay, UNCHANGED tampered, RejectionsCaused,
         \A i \in Segments : mailbox'[i] = "rejected" => mailbox[i] = "rejected" \/ Caused(i)'
  PROVE  RejectionsCaused'
<1>1. \A i \in Segments : Caused(i) => Caused(i)'
  BY CausesStay
<1>2. \A i \in Segments : mailbox'[i] = "rejected" => Caused(i)'
  BY <1>1 DEF RejectionsCaused
<1> QED
  BY <1>2 DEF RejectionsCaused, Caused

LEMMA PhaseKeepsCauses ==
  ASSUME StepContext, PhasesMove, UNCHANGED <<tampered, arrived, cursor>>,
         UNCHANGED <<stream, nextChunkIndex>> \/ (stream # "errored" /\ stream' # "errored"),
         \A i \in Segments : mailbox'[i] = "rejected" => mailbox[i] = "rejected",
         \A i \in Segments : Waiting(i)' => Waiting(i)
  PROVE  CausesKept
<1> USE DEF StepContext
<1>1. PassedIsFetched'
  BY DEF PassedIsFetched
<1>2. OutcomeTells'
  BY DEF OutcomeTells, PhasesMove, SettledPhases, Short
<1>3. FailuresStay
  BY DEF FailuresStay, BatchFailed, PhasesMove, SettledPhases
<1>4. RejectionsCaused'
  BY <1>3, RejectionsStay
<1>5. ErrorCaused'
  BY <1>3, ErrorStays DEF ErrorCaused
<1> QED
  BY <1>1, <1>2, <1>3, <1>4, <1>5 DEF CausesKept

LEMMA DeliverKeepsCauses ==
  ASSUME StepContext, DeliverStep
  PROVE  CausesKept
<1>1. /\ nextChunkIndex \in Nat /\ nextChunkIndex' = nextChunkIndex + 1
      /\ mailbox' = [mailbox EXCEPT ![nextChunkIndex] = "pending"]
      /\ mailbox \in [Segments -> MailboxStates]
      /\ stream = "readable" /\ UNCHANGED <<tampered, arrived, cursor, stream>>
      /\ \A i \in Segments : i \in Nat
  BY PayloadAssumption
  DEF DeliverStep, Deliver, MailboxReplaced, StepContext, ReaderTypes, sliceVars, Segments
<1>2. \A i \in Segments : mailbox'[i] = "rejected" => mailbox[i] = "rejected"
  BY <1>1
<1>3. \A i \in Segments : Waiting(i)' => Waiting(i)
  BY <1>1 DEF Waiting
<1> QED
  BY <1>1, <1>2, <1>3, PhaseKeepsCauses DEF DeliverStep

LEMMA ReadingKeepsCauses ==
  ASSUME StepContext, ReadingOnly
  PROVE  CausesKept
<1> USE DEF ReadingOnly
<1>1. UNCHANGED <<tampered, batch, arrived, cursor, mailbox, nextChunkIndex>>
  BY DEF ReaderStep, ReadingStep, Pull, Close, PullThrows, EnqueueAfterCancel, Read,
         ProgressHandlerThrows, Cancel, sliceVars
<1>2. PhasesMove /\ \A i \in Segments : Waiting(i)' => Waiting(i)
  BY <1>1 DEF PhasesMove, Waiting
<1>3. CASE ~PullThrows
  <2>1. UNCHANGED <<stream, nextChunkIndex>> \/ (stream # "errored" /\ stream' # "errored")
    BY <1>1, <1>3 DEF ReaderStep, ReadingStep, Pull, Close, EnqueueAfterCancel, Read,
         ProgressHandlerThrows, Cancel, CanPull
  <2> QED
    BY <1>1, <1>2, <2>1, PhaseKeepsCauses
<1>4. CASE PullThrows /\ stream = "readable"
  <2>1. nextChunkIndex \in Segments /\ mailbox[nextChunkIndex] = "rejected"
    BY <1>4, PayloadAssumption DEF PullThrows, StepContext, PullWaits, ReaderTypes, Segments
  <2>2. Caused(nextChunkIndex)
    BY <2>1 DEF StepContext, RejectionsCaused
  <2>3. ErrorCaused'
    BY <1>1, <2>1, <2>2 DEF ErrorCaused, Caused, BatchFailed
  <2>4. /\ PassedIsFetched' /\ OutcomeTells' /\ RejectionsCaused' /\ FailuresStay
    BY <1>1 DEF StepContext, PassedIsFetched, OutcomeTells, RejectionsCaused, FailuresStay,
                BatchFailed, Short, Caused
  <2> QED
    BY <1>2, <2>3, <2>4 DEF CausesKept
<1>5. CASE PullThrows /\ stream # "readable"
  <2>1. UNCHANGED <<stream, nextChunkIndex>>
    BY <1>1, <1>5 DEF PullThrows
  <2> QED
    BY <1>1, <1>2, <2>1, PhaseKeepsCauses
<1> QED
  BY <1>3, <1>4, <1>5


(* A batch fails: it is short of a segment of its slice, which is rejected.  *)
LEMMA EndOfBatch ==
  ASSUME EvenFile, NEW b \in Segments
  PROVE  /\ b \in Nat /\ b < BatchEnd(b)
         /\ BatchEnd(b) \in 0 .. totalSegments /\ BatchEnd(b) \in Nat
         /\ b \in 0 .. totalSegments
         /\ \A i : i \in Nat /\ b <= i /\ i < BatchEnd(b) =>
              /\ i \in Slice(b) /\ i \in Segments /\ i + 1 \in 0 .. totalSegments
              /\ i + 1 <= BatchEnd(b)
         /\ \A i \in Slice(b) : i \in Segments /\ b <= i /\ b \in 0 .. i
         /\ encryptedOffset[b] \in Nat /\ encryptedOffset[BatchEnd(b)] \in Nat
         /\ encryptedOffset[b] <= encryptedOffset[BatchEnd(b)]
         /\ BufferSize(b) \in Nat
<1>1. /\ totalSegments \in Nat /\ segmentBatchSize \in Nat \ {0}
      /\ b \in Nat /\ b < totalSegments
  BY PayloadAssumption DEF Segments
<1>2. /\ BatchEnd(b) \in 0 .. totalSegments /\ BatchEnd(b) \in Nat /\ b < BatchEnd(b)
      /\ BatchEnd(b) <= totalSegments /\ b \in 0 .. totalSegments
  BY <1>1 DEF BatchEnd
<1>3. /\ encryptedOffset[b] \in Nat /\ encryptedOffset[BatchEnd(b)] \in Nat
      /\ encryptedOffset[b] <= encryptedOffset[BatchEnd(b)]
  BY <1>1, <1>2, OffsetTypes, OffsetsGrow
<1>4. BufferSize(b) \in Nat
  BY <1>3 DEF BufferSize
<1>5. \A i : i \in Nat /\ b <= i /\ i < BatchEnd(b) =>
              /\ i \in Slice(b) /\ i \in Segments /\ i + 1 \in 0 .. totalSegments
              /\ i + 1 <= BatchEnd(b)
  BY <1>1, <1>2 DEF Slice, Segments
<1>6. \A i \in Slice(b) : i \in Segments /\ b <= i /\ b \in 0 .. i
  BY <1>1, <1>2 DEF Slice, Segments
<1> QED
  BY <1>1, <1>2, <1>3, <1>4, <1>5, <1>6

LEMMA FailingIsShort ==
  ASSUME EvenFile, StepContext, NEW b \in Segments, FetchFails(b) \/ SegmentMissing(b)
  PROVE  Short(b)
<1>1. CASE FetchFails(b)
  BY <1>1, EndOfBatch DEF FetchFails, Short, NotFetched
<1>2. CASE SegmentMissing(b)
  <2> DEFINE c == cursor[b]
  <2>1. /\ c \in Nat /\ b <= c /\ c < BatchEnd(b) /\ arrived[b] \in Int /\ Aligned(b)
        /\ ~(BufferOffset(b, c) + encryptedSegmentSize[c] <= arrived[b])
    BY <1>2 DEF SegmentMissing, Decrypting, WholeSegmentFetched, StepContext, PassedIsFetched
  <2> HIDE DEF c
  <2>2. c \in Slice(b) /\ c + 1 \in 0 .. totalSegments /\ c + 1 <= BatchEnd(b)
    BY <2>1, EndOfBatch
  <2>3. ~(encryptedOffset[c + 1] - encryptedOffset[b] <= arrived[b])
    BY <2>1, <2>2, PlacesAreRight
  <2>4. encryptedOffset[c + 1] <= encryptedOffset[BatchEnd(b)] /\ encryptedOffset[c + 1] \in Nat
    BY <2>2, EndOfBatch, OffsetsGrow, OffsetTypes
  <2> QED
    BY <2>1, <2>3, <2>4, EndOfBatch DEF Short, BufferSize
<1> QED
  BY <1>1, <1>2

LEMMA FailKeepsCauses ==
  ASSUME EvenFile, StepContext, NEW b \in Segments, NEW phase \in {"rejected", "done"},
         FailStep(b, phase)
  PROVE  CausesKept /\ BatchFailed(b)' /\ \A i \in Slice(b) : ~Waiting(i)'
<1>1. /\ Short(b) /\ batch[b] = "running"
      /\ batch' = [batch EXCEPT ![b] = phase] /\ batch = [a \in Segments |-> batch[a]]
      /\ mailbox' = Rejecting(mailbox, {i \in Slice(b) : i >= nextChunkIndex})
      /\ mailbox \in [Segments -> MailboxStates]
      /\ UNCHANGED <<tampered, arrived, cursor, stream, nextChunkIndex>>
  BY FailingIsShort
  DEF FailStep, SettlesAs, FetchFails, SegmentMissing, RejectSlice, StepContext, ReaderTypes,
      sliceVars, readerVars
<1>2. batch'[b] = phase /\ \A a \in Segments : a # b => batch'[a] = batch[a]
  BY <1>1
<1>3. PassedIsFetched'
  BY <1>1 DEF StepContext, PassedIsFetched
<1>4. OutcomeTells'
  <2>1. Short(b)' /\ \A a \in Segments : Short(a)' <=> Short(a)
    BY <1>1 DEF Short
  <2> QED
    BY <1>1, <1>2, <2>1 DEF StepContext, OutcomeTells
<1>5. BatchFailed(b)'
  BY <1>1, <1>2 DEF BatchFailed, Short
<1>6. FailuresStay
  BY <1>1, <1>2 DEF FailuresStay, BatchFailed
<1>7. \A i \in Slice(b) : i \in Segments /\ Caused(i)'
  BY <1>5, EndOfBatch DEF Caused
<1>8. RejectionsCaused'
  <2>1. \A i \in Segments : mailbox'[i] = "rejected" => mailbox[i] = "rejected" \/ Caused(i)'
    BY <1>1, <1>7 DEF Rejecting
  <2> QED
    BY <1>1, <1>6, <2>1, RejectionsStay DEF StepContext
<1>9. ErrorCaused'
  BY <1>1, <1>6, ErrorStays DEF StepContext
<1>10. /\ \A i \in Segments : Waiting(i)' => Waiting(i)
       /\ \A i \in Slice(b) : ~Waiting(i)'
  BY <1>1, <1>7 DEF Waiting, Rejecting
<1> QED
  BY <1>3, <1>4, <1>5, <1>6, <1>8, <1>9, <1>10 DEF CausesKept

(* A batch that comes to the end of its slice has found all of it.           *)
LEMMA FinishKeepsCauses ==
  ASSUME EvenFile, StepContext, NEW b \in Segments, NEW phase \in {"resolved", "done"},
         FinishStep(b, phase)
  PROVE  CausesKept /\ ~BatchFailed(b)'
<1>1. /\ batch[b] = "running" /\ arrived[b] # NotFetched /\ cursor[b] = BatchEnd(b)
      /\ batch' = [batch EXCEPT ![b] = phase] /\ batch = [a \in Segments |-> batch[a]]
      /\ UNCHANGED <<tampered, arrived, cursor, mailbox, stream, nextChunkIndex>>
  BY DEF FinishStep, SettlesAs, SliceDone, StepContext, sliceVars, readerVars
<1>2. batch'[b] = phase /\ \A a \in Segments : a # b => batch'[a] = batch[a]
  BY <1>1
<1>3. ~Short(b)
  <2>1. encryptedOffset[BatchEnd(b)] - encryptedOffset[b] <= arrived[b] /\ arrived[b] \in Int
    BY <1>1 DEF StepContext, PassedIsFetched
  <2> QED
    BY <2>1, EndOfBatch DEF Short, BufferSize
<1>4. PassedIsFetched'
  BY <1>1 DEF StepContext, PassedIsFetched
<1>5. OutcomeTells'
  <2>1. ~Short(b)' /\ \A a \in Segments : Short(a)' <=> Short(a)
    BY <1>1, <1>3 DEF Short
  <2> QED
    BY <1>1, <1>2, <2>1 DEF StepContext, OutcomeTells
<1>6. FailuresStay /\ ~BatchFailed(b)'
  BY <1>1, <1>2, <1>3 DEF FailuresStay, BatchFailed, Short
<1>7. RejectionsCaused'
  BY <1>1, <1>6, RejectionsStay DEF StepContext
<1>8. ErrorCaused'
  BY <1>1, <1>6, ErrorStays DEF StepContext
<1>9. \A i \in Segments : Waiting(i)' => Waiting(i)
  BY <1>1 DEF Waiting
<1> QED
  BY <1>4, <1>5, <1>6, <1>7, <1>8, <1>9 DEF CausesKept

LEMMA ReturnKeepsCauses ==
  ASSUME EvenFile, StepContext, NEW b \in Segments, ReturnStep(b)
  PROVE  CausesKept
<1>1. PICK bytes \in 0 .. BufferSize(b) : FetchReturns(b, bytes)
  BY DEF ReturnStep
<1>2. /\ bytes \in Int /\ bytes >= 0 /\ batch[b] = "running"
      /\ arrived' = [arrived EXCEPT ![b] = bytes] /\ cursor' = [cursor EXCEPT ![b] = b]
      /\ arrived \in [Segments -> Int] /\ cursor \in [Segments -> Nat]
      /\ UNCHANGED <<tampered, batch, mailbox, stream, nextChunkIndex>>
  BY <1>1, EndOfBatch DEF FetchReturns, readerVars, StepContext, PassedIsFetched
<1>3. PassedIsFetched'
  <2>1. /\ cursor'[b] = b /\ arrived'[b] = bytes
        /\ \A a \in Segments : a # b => cursor'[a] = cursor[a] /\ arrived'[a] = arrived[a]
    BY <1>2
  <2>2. encryptedOffset[b] - encryptedOffset[b] <= bytes
    BY <1>2, EndOfBatch
  <2>3. b <= b /\ b <= BatchEnd(b) /\ b \in Nat
    BY EndOfBatch
  <2> QED
    BY <1>2, <2>1, <2>2, <2>3 DEF StepContext, PassedIsFetched
<1>4. OutcomeTells' /\ FailuresStay
  <2>1. \A a \in Segments : a # b => arrived'[a] = arrived[a]
    BY <1>2
  <2> QED
    BY <1>2, <2>1 DEF StepContext, OutcomeTells, FailuresStay, BatchFailed, Short
<1>5. RejectionsCaused'
  BY <1>2, <1>4, RejectionsStay DEF StepContext
<1>6. ErrorCaused'
  BY <1>2, <1>4, ErrorStays DEF StepContext
<1>7. \A i \in Segments : Waiting(i)' => Waiting(i)
  BY <1>2 DEF Waiting
<1> QED
  BY <1>3, <1>4, <1>5, <1>6, <1>7 DEF CausesKept

(* A segment that was found whole is rejected only if it does not verify.    *)
LEMMA DecryptKeepsCauses ==
  ASSUME EvenFile, StepContext, NEW b \in Segments, DecryptSegment(b)
  PROVE  CausesKept
<1>0. PICK c \in Nat : c = cursor[b]
  BY DEF StepContext, PassedIsFetched
<1>1. /\ c \in Nat /\ b <= c /\ c < BatchEnd(b) /\ arrived[b] \in Int /\ Aligned(b)
      /\ BufferOffset(b, c) + encryptedSegmentSize[c] <= arrived[b]
      /\ cursor' = [cursor EXCEPT ![b] = c + 1] /\ cursor \in [Segments -> Nat]
      /\ mailbox \in [Segments -> MailboxStates]
      /\ HashMatches(b, c) => SetMailbox(c)
      /\ ~HashMatches(b, c) => mailbox' = Rejecting(mailbox, {c})
      /\ UNCHANGED <<tampered, batch, arrived, stream, nextChunkIndex>>
  BY <1>0 DEF DecryptSegment, Decrypting, WholeSegmentFetched, StepContext, PassedIsFetched,
         ReaderTypes, readerVars
<1>2. c \in Slice(b) /\ c \in Segments /\ c + 1 \in 0 .. totalSegments /\ c + 1 <= BatchEnd(b)
  BY <1>1, EndOfBatch
<1>3. PassedIsFetched'
  <2>1. cursor'[b] = c + 1 /\ \A a \in Segments : a # b => cursor'[a] = cursor[a]
    BY <1>1
  <2>2. encryptedOffset[c + 1] - encryptedOffset[b] <= arrived[b]
    BY <1>1, <1>2, PlacesAreRight
  <2>3. b <= c + 1 /\ c + 1 <= BatchEnd(b) /\ c + 1 \in Nat
    BY <1>1, <1>2, EndOfBatch
  <2>4. cursor' \in [Segments -> Nat]
    BY <1>1, <2>3
  <2> QED
    BY <1>1, <2>1, <2>2, <2>3, <2>4 DEF StepContext, PassedIsFetched
<1>4. OutcomeTells' /\ FailuresStay
  BY <1>1 DEF StepContext, OutcomeTells, FailuresStay, BatchFailed, Short
<1>5. RejectionsCaused'
  <2>1. ~HashMatches(b, c) => Caused(c)'
    <3>1. ~HashMatches(b, c) => c \in tampered
      BY <1>1, <1>2, PlacesAreRight DEF HashMatches
    <3> QED
      BY <1>1, <3>1 DEF Caused
  <2>2. \A i \in Segments : mailbox'[i] = "rejected" => mailbox[i] = "rejected" \/ Caused(i)'
    BY <1>1, <2>1 DEF SetMailbox, Rejecting
  <2> QED
    BY <1>1, <1>4, <2>2, RejectionsStay DEF StepContext
<1>6. ErrorCaused'
  BY <1>1, <1>4, ErrorStays DEF StepContext
<1>7. \A i \in Segments : Waiting(i)' => Waiting(i)
  BY <1>1 DEF Waiting, SetMailbox, Rejecting
<1> QED
  BY <1>3, <1>4, <1>5, <1>6, <1>7 DEF CausesKept

(* .catch rejects what is left from a failed batch on.                       *)
LEMMA CatchKeepsCauses ==
  ASSUME EvenFile, StepContext, NEW b \in Segments, CatchStep(b)
  PROVE  CausesKept /\ \A i \in Segments : i >= b => ~Waiting(i)'
<1>1. /\ batch[b] = "rejected" /\ Short(b)
      /\ batch' = [batch EXCEPT ![b] = "caught"] /\ batch = [a \in Segments |-> batch[a]]
      /\ mailbox' = Rejecting(mailbox, {i \in Segments : i >= b})
      /\ mailbox \in [Segments -> MailboxStates]
      /\ UNCHANGED <<tampered, arrived, cursor, stream, nextChunkIndex>>
  BY DEF CatchStep, RejectFrom, StepContext, OutcomeTells, ReaderTypes, sliceVars, readerVars
<1>2. batch'[b] = "caught" /\ \A a \in Segments : a # b => batch'[a] = batch[a]
  BY <1>1
<1>3. PassedIsFetched'
  BY <1>1 DEF StepContext, PassedIsFetched
<1>4. OutcomeTells'
  <2>1. Short(b)' /\ \A a \in Segments : Short(a)' <=> Short(a)
    BY <1>1 DEF Short
  <2> QED
    BY <1>1, <1>2, <2>1 DEF StepContext, OutcomeTells
<1>5. FailuresStay /\ BatchFailed(b)'
  BY <1>1, <1>2 DEF FailuresStay, BatchFailed, Short
<1>6. \A i \in Segments : i >= b => Caused(i)'
  <2>1. \A i \in Segments : i >= b => b \in 0 .. i
    BY PayloadAssumption DEF Segments
  <2> QED
    BY <1>5, <2>1 DEF Caused
<1>7. RejectionsCaused'
  <2>1. \A i \in Segments : mailbox'[i] = "rejected" => mailbox[i] = "rejected" \/ Caused(i)'
    BY <1>1, <1>6 DEF Rejecting
  <2> QED
    BY <1>1, <1>5, <2>1, RejectionsStay DEF StepContext
<1>8. ErrorCaused'
  BY <1>1, <1>5, ErrorStays DEF StepContext
<1>9. /\ \A i \in Segments : Waiting(i)' => Waiting(i)
      /\ \A i \in Segments : i >= b => ~Waiting(i)'
  BY <1>1 DEF Waiting, Rejecting
<1> QED
  BY <1>3, <1>4, <1>5, <1>7, <1>8, <1>9 DEF CausesKept


-----------------------------------------------------------------------------
(* The bounded schedule takes such steps.                                    *)
SliceStep(b, failed, finished) ==
  \/ FailStep(b, failed)
  \/ FinishStep(b, finished)
  \/ ReturnStep(b)
  \/ DecryptSegment(b)

LEMMA PumpOnlyAdds ==
  ASSUME WindowInv, NEW consumed, NEW inFlight, NEW phase,
         Scheduler!Pump(consumed, inFlight, phase)
  PROVE  \A b \in Segments :
           batch'[b] = phase[b] \/ (batch[b] = "none" /\ batch'[b] = "queued")
<1>1. PICK turns \in 0 .. maxConcurrentSegmentBatches :
        batch' = [b \in Segments |->
                    IF \E j \in 0 .. turns - 1 : b = scheduledSegments + j * segmentBatchSize
                    THEN "queued" ELSE phase[b]]
  BY DEF Scheduler!Pump, Scheduler!Segments, Segments
<1>2. /\ segmentBatchSize \in Nat \ {0} /\ scheduledSegments \in Nat
      /\ \A b \in Segments : b \in Nat /\ (batch[b] # "none" => b < scheduledSegments)
  BY PayloadAssumption
  DEF WindowInv, Window!SchedulerInv, Window!SchedulerTypeOK, Window!LaunchedBelow,
      Window!Segments, Segments
<1>3. \A j \in 0 .. turns - 1 : j * segmentBatchSize \in Nat
  <2>1. \A j \in 0 .. turns - 1 : j \in Nat
    BY ConcurrencyAssumption
  <2> QED
    BY <1>2, <2>1, Window!Multiples
<1>4. \A b \in Segments :
        (\E j \in 0 .. turns - 1 : b = scheduledSegments + j * segmentBatchSize)
          => batch[b] = "none"
  BY <1>2, <1>3
<1> QED
  BY <1>1, <1>4

LEMMA BoundedContext ==
  ASSUME WindowInv
  PROVE  /\ batch = [b \in Segments |-> batch[b]]
         /\ \A b \in Segments : batch[b] # "none" => Aligned(b)
<1>1. batch = [b \in Segments |-> batch[b]]
  BY DEF WindowInv, Window!SchedulerInv, Window!SchedulerTypeOK, Window!Segments, Segments
<1>2. ASSUME NEW b \in Segments, batch[b] # "none" PROVE Aligned(b)
  <2>1. \E k \in 0 .. b : b = k * segmentBatchSize
    BY <1>2 DEF WindowInv, Window!TileInv, Window!BatchesTile, Window!Launched, Window!Segments,
                Segments
  <2>2. b \in Nat
    BY PayloadAssumption DEF Segments
  <2> QED
    BY <2>1, <2>2 DEF Aligned
<1> QED
  BY <1>1, <1>2

LEMMA BoundedKinds ==
  ASSUME WindowInv, Next \/ UNCHANGED vars
  PROVE  \/ PhaseStep \/ DeliverStep \/ ReadingOnly
         \/ \E b \in Segments : SliceStep(b, "rejected", "resolved") \/ CatchStep(b)
<1> USE DEF SettledPhases, SliceStep
<1>1. CASE OpenStream
  <2>1. Scheduler!Pump(consumedSegments, inFlightBatches, batch)
    BY <1>1 DEF OpenStream, Scheduler!FillWindow
  <2>2. PhasesMove
    BY <2>1, PumpOnlyAdds DEF PhasesMove
  <2> QED
    BY <1>1, <2>2 DEF PhaseStep, OpenStream
<1>2. ASSUME NEW b \in Segments, BatchStep(b)
      PROVE  PhaseStep \/ SliceStep(b, "rejected", "resolved") \/ CatchStep(b)
  <2>0. batch = [a \in Segments |-> batch[a]]
    BY BoundedContext
  <2>1. CASE StartBatch(b)
    <3>1. PhasesMove
      BY <2>0, <2>1 DEF StartBatch, Scheduler!StartBatch, PhasesMove
    <3> QED
      BY <2>1, <3>1 DEF StartBatch, PhaseStep
  <2>2. CASE RequestFails(b) \/ BufferTooShort(b)
    BY <2>2 DEF RequestFails, BufferTooShort, Scheduler!SettleBatch, FailStep, SettlesAs
  <2>3. CASE FinishSlice(b)
    BY <2>3 DEF FinishSlice, Scheduler!SettleBatch, FinishStep, SettlesAs
  <2>4. CASE RequestReturns(b) \/ DecryptOne(b)
    BY <2>4 DEF RequestReturns, ReturnStep, DecryptOne
  <2>5. CASE CatchBatch(b)
    BY <2>5 DEF CatchBatch, Scheduler!CatchBatch, CatchStep
  <2>6. CASE FinallyBatch(b)
    <3>1. /\ Scheduler!Pump(consumedSegments, inFlightBatches - 1, [batch EXCEPT ![b] = "done"])
          /\ batch[b] \in {"resolved", "caught"}
      BY <2>6 DEF FinallyBatch, Scheduler!FinallyBatch
    <3>2. \A a \in Segments :
            \/ batch'[a] = [batch EXCEPT ![b] = "done"][a]
            \/ batch[a] = "none" /\ batch'[a] = "queued"
      BY <3>1, PumpOnlyAdds
    <3>3. PhasesMove
      BY <2>0, <3>1, <3>2 DEF PhasesMove
    <3> QED
      BY <2>6, <3>3 DEF FinallyBatch, PhaseStep
  <2> QED
    BY <1>2, <2>1, <2>2, <2>3, <2>4, <2>5, <2>6 DEF BatchStep
<1>3. CASE DeliverNext
  <2>1. Scheduler!Pump(consumedSegments', inFlightBatches, batch) /\ Deliver
    BY <1>3 DEF DeliverNext, Scheduler!MarkConsumed
  <2>2. PhasesMove
    BY <2>1, PumpOnlyAdds DEF PhasesMove
  <2> QED
    BY <2>1, <2>2 DEF DeliverStep
<1>4. CASE ReadStream
  <2>1. UNCHANGED batch
    BY <1>4 DEF ReadStream, ReaderStep, ReadingStep, Pull, Close, PullThrows, EnqueueAfterCancel,
                Read, ProgressHandlerThrows, Cancel
  <2> QED
    BY <1>4, <2>1 DEF ReadStream, ReadingOnly
<1>5. CASE UNCHANGED vars
  BY <1>5 DEF vars, pipelineVars, PhaseStep, PhasesMove
<1> QED
  BY <1>1, <1>2, <1>3, <1>4, <1>5 DEF Next, Ended

-----------------------------------------------------------------------------
(* And so does the legacy one, whose code for a slice is the same.           *)
LEMMA SameLayout ==
  /\ Legacy!encryptedOffset = encryptedOffset
  /\ \A b : Legacy!BatchEnd(b) = BatchEnd(b)
  /\ \A b : Legacy!Slice(b) = Slice(b)
  /\ \A b : Legacy!BufferSize(b) = BufferSize(b)
  /\ \A b, i : Legacy!BufferOffset(b, i) = BufferOffset(b, i)
  /\ \A b, i : Legacy!TrueOffset(b, i) = TrueOffset(b, i)
  /\ Legacy!Segments = Segments
<1>1. Legacy!encryptedOffset = encryptedOffset
  BY DEF encryptedOffset, Legacy!encryptedOffset
<1>2. Legacy!Segments = Segments
  BY DEF Legacy!Segments, Segments
<1>3. \A b : Legacy!BatchEnd(b) = BatchEnd(b)
  BY DEF Legacy!BatchEnd, BatchEnd
<1>4. \A b : Legacy!Slice(b) = Slice(b)
  BY <1>3 DEF Legacy!Slice, Slice
<1>5. \A b : Legacy!BufferSize(b) = BufferSize(b)
  BY <1>1, <1>3 DEF Legacy!BufferSize, BufferSize
<1>6. \A b, i : Legacy!BufferOffset(b, i) = BufferOffset(b, i)
  BY <1>1 DEF Legacy!BufferOffset, BufferOffset
<1>7. \A b, i : Legacy!TrueOffset(b, i) = TrueOffset(b, i)
  BY <1>1 DEF Legacy!TrueOffset, TrueOffset
<1> QED
  BY <1>1, <1>2, <1>3, <1>4, <1>5, <1>6, <1>7

LEMMA LegacySliceSteps ==
  ASSUME NEW b \in Segments, Legacy!BatchStep(b)
  PROVE  SliceStep(b, "done", "done") /\ UNCHANGED queueVars
<1> USE DEF Legacy!sliceVars, sliceVars, Legacy!readerVars, readerVars, Legacy!NotFetched,
            NotFetched, Legacy!queueVars, queueVars, SliceStep
<1>0. \A box, chunks : Legacy!Rejecting(box, chunks) = Rejecting(box, chunks)
  BY SameLayout DEF Legacy!Rejecting, Rejecting
<1>1. Legacy!RejectSlice(b) => RejectSlice(b)
  BY <1>0, SameLayout DEF Legacy!RejectSlice, RejectSlice
<1>2. Legacy!Decrypting(b) => Decrypting(b)
  BY SameLayout DEF Legacy!Decrypting, Decrypting
<1>3. \A i : Legacy!WholeSegmentFetched(b, i) <=> WholeSegmentFetched(b, i)
  BY SameLayout DEF Legacy!WholeSegmentFetched, WholeSegmentFetched
<1>4. \A i : Legacy!HashMatches(b, i) <=> HashMatches(b, i)
  BY SameLayout DEF Legacy!HashMatches, HashMatches
<1>5. Legacy!Settled(b) /\ batch[b] = "running" => SettlesAs(b, "done") /\ UNCHANGED queueVars
  BY DEF Legacy!Settled, SettlesAs
<1>6. CASE Legacy!RequestFails(b)
  <2>1. FetchFails(b) /\ Legacy!Settled(b)
    BY <1>1, <1>6 DEF Legacy!RequestFails, Legacy!FetchFails, FetchFails
  <2> QED
    BY <1>5, <2>1 DEF FailStep, FetchFails
<1>7. CASE Legacy!RequestReturns(b)
  <2>1. PICK bytes \in 0 .. BufferSize(b) : Legacy!FetchReturns(b, bytes)
    BY <1>7, SameLayout DEF Legacy!RequestReturns
  <2>2. FetchReturns(b, bytes)
    BY <2>1 DEF Legacy!FetchReturns, FetchReturns
  <2> QED
    BY <1>7, <2>2 DEF Legacy!RequestReturns, ReturnStep
<1>8. CASE Legacy!DecryptOne(b)
  <2>1. DecryptSegment(b)
    BY <1>0, <1>2, <1>3, <1>4, <1>8
    DEF Legacy!DecryptOne, Legacy!DecryptSegment, DecryptSegment, Legacy!SetMailbox, SetMailbox
  <2> QED
    BY <1>8, <2>1 DEF Legacy!DecryptOne
<1>9. CASE Legacy!BufferTooShort(b)
  <2>1. SegmentMissing(b) /\ Legacy!Settled(b)
    BY <1>1, <1>2, <1>3, <1>9 DEF Legacy!BufferTooShort, Legacy!SegmentMissing, SegmentMissing
  <2> QED
    BY <1>5, <2>1 DEF FailStep, SegmentMissing, Decrypting
<1>10. CASE Legacy!FinishSlice(b)
  <2>1. SliceDone(b) /\ Legacy!Settled(b)
    BY <1>10, SameLayout DEF Legacy!FinishSlice, Legacy!SliceDone, SliceDone
  <2> QED
    BY <1>5, <2>1 DEF FinishStep, SliceDone
<1> QED
  BY <1>6, <1>7, <1>8, <1>9, <1>10 DEF Legacy!BatchStep

(* A group starts where the queue's index is, at multiples of the batch size.*)
LEMMA LaunchAligns ==
  ASSUME LegacyInv, GroupsAligned, Legacy!LaunchGroup
  PROVE  PhaseStep /\ GroupsAligned'
<1>1. /\ segmentBatchSize \in Nat \ {0} /\ maxConcurrentSegmentBatches \in Nat \ {0}
      /\ queueIndex \in Nat /\ \A b \in Segments : b \in Nat
  BY PayloadAssumption, ConcurrencyAssumption DEF LegacyInv, Segments
<1>2. PICK k \in Nat : queueIndex = k * segmentBatchSize
  BY DEF GroupsAligned, Aligned
<1>3. PICK group \in SUBSET Segments :
        /\ \A b \in group : \E j \in 0 .. maxConcurrentSegmentBatches - 1 :
             b = queueIndex + j * segmentBatchSize
        /\ batch' = [b \in Segments |-> IF b \in group THEN "running" ELSE batch[b]]
        /\ queueIndex' = queueIndex + maxConcurrentSegmentBatches * segmentBatchSize
        /\ UNCHANGED <<tampered, sliceVars, mailbox, readerVars>>
  BY DEF Legacy!LaunchGroup, Legacy!Segments, Segments, Legacy!NextGroup, Legacy!sliceVars,
         sliceVars, Legacy!readerVars, readerVars
<1>4. \A m \in Nat :
        /\ m * segmentBatchSize \in Nat
        /\ (k + m) * segmentBatchSize = queueIndex + m * segmentBatchSize
  BY <1>1, <1>2
<1>5. \A j \in 0 .. maxConcurrentSegmentBatches - 1 :
        j \in Nat /\ j * segmentBatchSize < maxConcurrentSegmentBatches * segmentBatchSize
  BY <1>1, Window!Multiples
<1>6. \A b \in group : b >= queueIndex /\ b < queueIndex' /\ Aligned(b)
  <2> SUFFICES ASSUME NEW b \in group PROVE b >= queueIndex /\ b < queueIndex' /\ Aligned(b)
    OBVIOUS
  <2>1. PICK j \in 0 .. maxConcurrentSegmentBatches - 1 : b = queueIndex + j * segmentBatchSize
    BY <1>3
  <2>2. /\ j \in Nat /\ j * segmentBatchSize \in Nat
        /\ maxConcurrentSegmentBatches * segmentBatchSize \in Nat
        /\ j * segmentBatchSize < maxConcurrentSegmentBatches * segmentBatchSize
        /\ b = (k + j) * segmentBatchSize /\ k + j \in Nat
    BY <1>1, <1>4, <1>5, <2>1
  <2>3. Aligned(b)
    BY <2>2 DEF Aligned
  <2> QED
    BY <1>1, <1>3, <2>1, <2>2, <2>3
<1>7. \A b \in group : batch[b] = "none"
  BY <1>1, <1>6 DEF GroupsAligned
<1>8. PhaseStep
  BY <1>3, <1>7 DEF PhaseStep, PhasesMove, SettledPhases
<1>9. Aligned(queueIndex)'
  <2>1. /\ k + maxConcurrentSegmentBatches \in Nat
        /\ queueIndex' = (k + maxConcurrentSegmentBatches) * segmentBatchSize
    BY <1>1, <1>3, <1>4
  <2> QED
    BY <2>1 DEF Aligned
<1>10. \A b \in Segments : batch'[b] # "none" => b < queueIndex' /\ Aligned(b)
  <2>1. queueIndex < queueIndex' /\ queueIndex' \in Nat
    <3>1. \A m, n \in Nat \ {0} : m * n \in Nat /\ m * n > 0
      OBVIOUS
    <3> QED
      BY <1>1, <1>3, <3>1
  <2> QED
    BY <1>1, <1>3, <1>6, <2>1 DEF GroupsAligned
<1> QED
  BY <1>8, <1>9, <1>10 DEF GroupsAligned, Aligned

LEMMA LegacyKinds ==
  ASSUME LegacyInv, GroupsAligned, Legacy!Next \/ UNCHANGED Legacy!vars
  PROVE  /\ GroupsAligned'
         /\ \/ PhaseStep \/ DeliverStep \/ ReadingOnly
            \/ \E b \in Segments : SliceStep(b, "done", "done")
<1> USE DEF SettledPhases
<1>1. CASE Legacy!LaunchGroup
  BY <1>1, LaunchAligns
<1>2. ASSUME UNCHANGED queueVars, NEW b \in Segments, SliceStep(b, "done", "done")
      PROVE  GroupsAligned'
  <2>1. \A a \in Segments : batch'[a] # "none" => batch[a] # "none"
    BY <1>2 DEF SliceStep, FailStep, FinishStep, SettlesAs, ReturnStep, FetchReturns,
                DecryptSegment, LegacyInv
  <2> QED
    BY <1>2, <2>1 DEF GroupsAligned, Aligned, queueVars
<1>3. CASE \E b \in Segments : Legacy!BatchStep(b)
  BY <1>2, <1>3, LegacySliceSteps
<1>4. ASSUME UNCHANGED <<batch, queueVars>> PROVE GroupsAligned'
  BY <1>4 DEF GroupsAligned, Aligned, queueVars
<1>5. CASE Legacy!DeliverNext
  <2>1. Deliver /\ UNCHANGED <<batch, queueVars>>
    BY <1>5 DEF Legacy!DeliverNext, Legacy!Deliver, Deliver, Legacy!MailboxReplaced,
                MailboxReplaced, Legacy!sliceVars, sliceVars, Legacy!queueVars, queueVars
  <2> QED
    BY <1>4, <2>1 DEF DeliverStep, PhasesMove
<1>6. CASE Legacy!ReadStream
  <2>1. ReaderStep /\ UNCHANGED queueVars
    BY <1>6, LegacyReaderSide DEF Legacy!ReadStream, Legacy!queueVars, queueVars
  <2>2. UNCHANGED batch
    BY <2>1 DEF ReaderStep, ReadingStep, Pull, Close, PullThrows, EnqueueAfterCancel,
                Read, ProgressHandlerThrows, Cancel
  <2> QED
    BY <1>4, <2>1, <2>2 DEF ReadingOnly
<1>7. CASE UNCHANGED Legacy!vars
  <2>1. UNCHANGED <<batch, queueVars, tampered, sliceVars, mailbox, readerVars>>
    BY <1>7 DEF Legacy!vars, Legacy!pipelineVars, Legacy!sliceVars, sliceVars, Legacy!readerVars,
                readerVars, Legacy!queueVars, queueVars
  <2> QED
    BY <1>4, <2>1 DEF PhaseStep, PhasesMove
<1>8. CASE Legacy!Ended
  BY <1>7, <1>8 DEF Legacy!Ended
<1> QED
  BY <1>1, <1>2, <1>3, <1>5, <1>6, <1>7, <1>8, LegacySliceSteps, SameLayout DEF Legacy!Next


-----------------------------------------------------------------------------
(* Whoever waits is told.                                                    *)
SliceTold(b) == \A i \in Slice(b) : ~Waiting(i)
RestTold(b) == \A i \in Segments : i >= b => ~Waiting(i)

(* A batch fails, or was caught, only in a step that tells.                  *)
BoundedTells ==
  \A b \in Segments :
    batch'[b] \in {"caught", "done"} /\ BatchFailed(b)' =>
      (batch[b] \in {"caught", "done"} /\ BatchFailed(b)) \/ RestTold(b)'
LegacyTells ==
  \A b \in Segments : BatchFailed(b)' => BatchFailed(b) \/ SliceTold(b)'

LEMMA PhasesTell ==
  ASSUME OutcomeTells, PhasesMove, UNCHANGED arrived
  PROVE  BoundedTells
BY DEF OutcomeTells, PhasesMove, SettledPhases, BoundedTells, BatchFailed, Short

LEMMA BoundedStepTells ==
  ASSUME EvenFile, StepContext,
         \/ PhaseStep \/ DeliverStep \/ ReadingOnly
         \/ \E b \in Segments : SliceStep(b, "rejected", "resolved") \/ CatchStep(b)
  PROVE  CausesKept /\ BoundedTells
<1>0. OutcomeTells /\ batch = [b \in Segments |-> batch[b]]
  BY DEF StepContext
<1>1. CASE PhaseStep
  <2>1. CausesKept
    BY <1>1, PhaseKeepsCauses DEF PhaseStep, sliceVars, readerVars, Waiting
  <2> QED
    BY <1>0, <1>1, <2>1, PhasesTell DEF PhaseStep, sliceVars
<1>2. CASE DeliverStep
  BY <1>0, <1>2, DeliverKeepsCauses, PhasesTell DEF DeliverStep, Deliver, sliceVars
<1>3. CASE ReadingOnly
  <2>1. PhasesMove /\ UNCHANGED arrived
    BY <1>3 DEF ReadingOnly, PhasesMove, ReaderStep, ReadingStep, Pull, Close, PullThrows,
                EnqueueAfterCancel, Read, ProgressHandlerThrows, Cancel, sliceVars
  <2> QED
    BY <1>0, <1>3, <2>1, ReadingKeepsCauses, PhasesTell
<1>4. ASSUME NEW b \in Segments, SliceStep(b, "rejected", "resolved") \/ CatchStep(b)
      PROVE  CausesKept /\ BoundedTells
  <2>1. CASE FailStep(b, "rejected")
    <3>1. CausesKept
      BY <2>1, FailKeepsCauses
    <3>2. BoundedTells
      BY <1>0, <2>1 DEF FailStep, SettlesAs, BoundedTells, BatchFailed, FetchFails, SegmentMissing,
                        sliceVars
    <3> QED
      BY <3>1, <3>2
  <2>2. CASE FinishStep(b, "resolved")
    <3>1. CausesKept
      BY <2>2, FinishKeepsCauses
    <3>2. BoundedTells
      BY <1>0, <2>2 DEF FinishStep, SettlesAs, BoundedTells, BatchFailed, SliceDone, sliceVars
    <3> QED
      BY <3>1, <3>2
  <2>3. CASE ReturnStep(b)
    <3>1. CausesKept
      BY <2>3, ReturnKeepsCauses
    <3>2. BoundedTells
      BY <1>0, <2>3 DEF ReturnStep, FetchReturns, BoundedTells, BatchFailed, StepContext,
                        PassedIsFetched
    <3> QED
      BY <3>1, <3>2
  <2>4. CASE DecryptSegment(b)
    <3>1. CausesKept
      BY <2>4, DecryptKeepsCauses
    <3>2. BoundedTells
      BY <2>4 DEF DecryptSegment, BoundedTells, BatchFailed
    <3> QED
      BY <3>1, <3>2
  <2>5. CASE CatchStep(b)
    <3>1. CausesKept /\ RestTold(b)'
      BY <2>5, CatchKeepsCauses DEF RestTold
    <3>2. BoundedTells
      BY <1>0, <2>5, <3>1 DEF CatchStep, BoundedTells, BatchFailed, sliceVars
    <3> QED
      BY <3>1, <3>2
  <2> QED
    BY <1>4, <2>1, <2>2, <2>3, <2>4, <2>5 DEF SliceStep
<1> QED
  BY <1>1, <1>2, <1>3, <1>4

LEMMA LegacyStepTells ==
  ASSUME EvenFile, StepContext, LegacyInv,
         \/ PhaseStep \/ DeliverStep \/ ReadingOnly
         \/ \E b \in Segments : SliceStep(b, "done", "done")
  PROVE  CausesKept /\ LegacyTells
<1>0. /\ OutcomeTells /\ batch = [b \in Segments |-> batch[b]]
      /\ \A b \in Segments : batch[b] \notin {"resolved", "rejected", "caught"}
  BY DEF StepContext, LegacyInv
<1>1. ASSUME PhasesMove, UNCHANGED arrived PROVE LegacyTells
  BY <1>0, <1>1 DEF PhasesMove, SettledPhases, LegacyTells, BatchFailed
<1>2. CASE PhaseStep
  <2>1. CausesKept
    BY <1>2, PhaseKeepsCauses DEF PhaseStep, sliceVars, readerVars, Waiting
  <2> QED
    BY <1>1, <1>2, <2>1 DEF PhaseStep, sliceVars
<1>3. CASE DeliverStep
  BY <1>1, <1>3, DeliverKeepsCauses DEF DeliverStep, Deliver, sliceVars
<1>4. CASE ReadingOnly
  <2>1. PhasesMove /\ UNCHANGED arrived
    BY <1>4 DEF ReadingOnly, PhasesMove, ReaderStep, ReadingStep, Pull, Close, PullThrows,
                EnqueueAfterCancel, Read, ProgressHandlerThrows, Cancel, sliceVars
  <2> QED
    BY <1>1, <1>4, <2>1, ReadingKeepsCauses
<1>5. ASSUME NEW b \in Segments, SliceStep(b, "done", "done")
      PROVE  CausesKept /\ LegacyTells
  <2>1. CASE FailStep(b, "done")
    <3>1. CausesKept /\ SliceTold(b)'
      <4>1. Slice(b)' = Slice(b)
        BY DEF Slice, BatchEnd
      <4> QED
        BY <2>1, <4>1, FailKeepsCauses DEF SliceTold
    <3>2. LegacyTells
      BY <1>0, <2>1, <3>1 DEF FailStep, SettlesAs, LegacyTells, BatchFailed, FetchFails,
                              SegmentMissing, sliceVars
    <3> QED
      BY <3>1, <3>2
  <2>2. CASE FinishStep(b, "done")
    <3>1. CausesKept /\ ~BatchFailed(b)'
      BY <2>2, FinishKeepsCauses
    <3>2. LegacyTells
      BY <1>0, <2>2, <3>1 DEF FinishStep, SettlesAs, LegacyTells, BatchFailed, SliceDone, sliceVars
    <3> QED
      BY <3>1, <3>2
  <2>3. CASE ReturnStep(b)
    <3>1. CausesKept
      BY <2>3, ReturnKeepsCauses
    <3>2. LegacyTells
      BY <1>0, <2>3 DEF ReturnStep, FetchReturns, LegacyTells, BatchFailed, StepContext,
                        PassedIsFetched
    <3> QED
      BY <3>1, <3>2
  <2>4. CASE DecryptSegment(b)
    <3>1. CausesKept
      BY <2>4, DecryptKeepsCauses
    <3>2. LegacyTells
      BY <2>4 DEF DecryptSegment, LegacyTells, BatchFailed
    <3> QED
      BY <3>1, <3>2
  <2> QED
    BY <1>5, <2>1, <2>2, <2>3, <2>4 DEF SliceStep
<1> QED
  BY <1>2, <1>3, <1>4, <1>5

-----------------------------------------------------------------------------
(* Both schedules together.                                                  *)
LEMMA SliceIsReached ==
  Legacy!FailureReachesItsSlice <=> \A b \in Segments : BatchFailed(b) => SliceTold(b)
<1>1. \A b : Legacy!BatchFailed(b) <=> BatchFailed(b)
  BY SameLayout DEF Legacy!BatchFailed, BatchFailed
<1> QED
  BY <1>1, SameLayout DEF Legacy!FailureReachesItsSlice, SliceTold, Waiting

LEMMA RestIsReached ==
  FailureReachesTheRest <=>
    \A b \in Segments : batch[b] \in {"caught", "done"} /\ BatchFailed(b) => RestTold(b)
BY DEF FailureReachesTheRest, RestTold, Waiting

LEMMA InitHasCauses ==
  ASSUME StreamInit, EvenFile PROVE FailureInv
<1>0. /\ PipelineInit /\ Legacy!QueueInit /\ schedule \in {"bounded", "legacy"}
      /\ segmentBatchSize \in Nat /\ \A b \in Segments : b \in Nat
  BY PayloadAssumption DEF StreamInit, Init, Segments
<1>1. PassedIsFetched
  <2>1. \A b \in Segments : cursor[b] = b /\ arrived[b] = NotFetched
    BY <1>0 DEF PipelineInit
  <2>2. cursor \in [Segments -> Nat] /\ arrived \in [Segments -> Int]
    BY <1>0 DEF PipelineInit, NotFetched
  <2>3. \A b \in Segments : b <= b /\ b <= BatchEnd(b)
    BY <1>0, EndOfBatch
  <2> QED
    BY <2>1, <2>2, <2>3 DEF PassedIsFetched
<1>2. OutcomeTells /\ RejectionsCaused /\ ErrorCaused
  BY <1>0 DEF PipelineInit, OutcomeTells, RejectionsCaused, ErrorCaused
<1>3. \A b \in Segments : batch[b] = "none" /\ ~BatchFailed(b)
  BY <1>0 DEF PipelineInit, BatchFailed
<1>4. GroupsAligned
  <2>1. 0 = 0 * segmentBatchSize
    BY <1>0
  <2> QED
    BY <1>0, <1>3, <2>1 DEF Legacy!QueueInit, GroupsAligned, Aligned
<1> QED
  BY <1>1, <1>2, <1>3, <1>4, SliceIsReached, RestIsReached DEF FailureInv

LEMMA NextHasCauses ==
  ASSUME EvenFile, StreamInv, FailureInv, schedule \in {"bounded", "legacy"},
         [StreamNext]_streamVars
  PROVE  FailureInv'
<1>0. /\ ReaderTypes /\ PullWaits
      /\ PassedIsFetched /\ OutcomeTells /\ RejectionsCaused /\ ErrorCaused
      /\ UNCHANGED schedule
  BY NextIsBounded DEF StreamInv, DeliveryInv, FailureInv
<1>1. CASE schedule = "bounded"
  <2>1. WindowInv /\ (Next \/ UNCHANGED vars)
    BY <1>1 DEF StreamInv, StreamNext, Bounded, Unbounded, streamVars
  <2>2. StepContext
    BY <1>0, <2>1, BoundedContext DEF StepContext
  <2>3. CausesKept /\ BoundedTells
    BY <2>1, <2>2, BoundedKinds, BoundedStepTells
  <2>4. \A b \in Segments : batch[b] \in {"caught", "done"} /\ BatchFailed(b) => RestTold(b)
    BY <1>1, RestIsReached DEF FailureInv
  <2>5. \A b \in Segments : RestTold(b) => RestTold(b)'
    BY <2>3 DEF CausesKept, RestTold
  <2>6. \A b \in Segments : batch'[b] \in {"caught", "done"} /\ BatchFailed(b)' => RestTold(b)'
    BY <2>3, <2>4, <2>5 DEF BoundedTells
  <2>7. FailureReachesTheRest'
    BY <2>6 DEF FailureReachesTheRest, RestTold, Waiting
  <2> QED
    BY <1>0, <1>1, <2>3, <2>7 DEF FailureInv, CausesKept
<1>2. CASE schedule = "legacy"
  <2>1. LegacyInv /\ GroupsAligned /\ (Legacy!Next \/ UNCHANGED Legacy!vars)
    BY <1>2 DEF StreamInv, FailureInv, StreamNext, Bounded, Unbounded, streamVars, vars,
                pipelineVars, queueVars, sliceVars, readerVars, Legacy!vars, Legacy!pipelineVars,
                Legacy!queueVars, Legacy!sliceVars, Legacy!readerVars
  <2>2. StepContext
    BY <1>0, <2>1 DEF StepContext, LegacyInv, GroupsAligned
  <2>3. CausesKept /\ LegacyTells /\ GroupsAligned'
    BY <2>1, <2>2, LegacyKinds, LegacyStepTells
  <2>4. \A b \in Segments : BatchFailed(b) => SliceTold(b)
    BY <1>2, SliceIsReached DEF FailureInv
  <2>5. \A b \in Segments : SliceTold(b) => SliceTold(b)'
    <3>1. \A b \in Segments : \A i \in Slice(b) : i \in Segments
      BY EndOfBatch
    <3>2. \A b \in Segments : Slice(b)' = Slice(b)
      BY DEF Slice, BatchEnd
    <3> QED
      BY <2>3, <3>1, <3>2 DEF CausesKept, SliceTold
  <2>6. \A b \in Segments : BatchFailed(b)' => SliceTold(b)'
    BY <2>3, <2>4, <2>5 DEF LegacyTells
  <2>7. (\A b \in Segments : BatchFailed(b) => SliceTold(b))'
    BY <2>6
  <2>8. Legacy!FailureReachesItsSlice'
    BY <2>7, SliceIsReached, PTL
  <2> QED
    BY <1>0, <1>2, <2>3, <2>8 DEF FailureInv, CausesKept
<1> QED
  BY <1>1, <1>2

LEMMA CausesInvariance ==
  ASSUME EvenFile
  PROVE  StreamSpec => [](FailureInv /\ schedule \in {"bounded", "legacy"})
<1>1. StreamInit => StreamInv /\ FailureInv /\ schedule \in {"bounded", "legacy"}
  BY InitIsBounded, InitHasCauses DEF StreamInit
<1>2. StreamInv /\ FailureInv /\ schedule \in {"bounded", "legacy"} /\ [StreamNext]_streamVars
        => (StreamInv /\ FailureInv /\ schedule \in {"bounded", "legacy"})'
  BY NextIsBounded, NextHasCauses
<1> QED
  BY <1>1, <1>2, PTL DEF StreamSpec

(* In a file with even segments, as writeStream makes them, the stream errs  *)
(* only at a segment that does not verify or whose batch, or an earlier one, *)
(* has failed: the reader's arithmetic for the buffers is right, and the     *)
(* .catch of a batch rejects nothing that others still decrypt.              *)
THEOREM ErrorsHaveCauses ==
  ASSUME EvenFile PROVE StreamSpec => []ErrorIsAttributed
<1>1. FailureInv => ErrorIsAttributed
  BY DEF FailureInv, ErrorCaused, ErrorIsAttributed, Caused
<1> QED
  BY <1>1, CausesInvariance, PTL

(* In such a file no one waits in vain for a batch that failed: the bounded  *)
(* schedule has answered everything from it on, the legacy one its slice.    *)
THEOREM FailuresReachWaiters ==
  ASSUME EvenFile PROVE StreamSpec => []FailureReachesEveryWaiter
<1>1. FailureInv /\ schedule \in {"bounded", "legacy"} => FailureReachesEveryWaiter
  BY DEF FailureInv, FailureReachesEveryWaiter
<1> QED
  BY <1>1, CausesInvariance, PTL
=============================================================================
