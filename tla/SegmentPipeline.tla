-------------------------- MODULE SegmentPipeline --------------------------
(***************************************************************************)
(* What the two download strategies of decryptStreamFrom                    *)
(* (lib/tdf3/src/tdf.ts) share: the batches that fetch, verify and decrypt  *)
(* a slice of the payload, the mailboxes (promises settled from outside)    *)
(* in which they leave the plaintext, and the ReadableStream whose pull     *)
(* callback empties the mailboxes in file order.                            *)
(*                                                                         *)
(* The operators below are the steps of these parts; a module that extends  *)
(* this one joins them to the code that launches the batches: DecryptStream *)
(* to the bounded scheduler, LegacyDecryptStream to updateChunkQueue.       *)
(* Each step runs from one await to the next.                               *)
(***************************************************************************)
EXTENDS Integers, FiniteSets, Sequences

CONSTANTS
  totalSegments,         (* segments listed in the manifest                   *)
  segmentBatchSize,      (* segments fetched by one request                   *)
  encryptedSegmentSize   (* bytes of each encrypted segment                   *)

Segments == 0 .. totalSegments - 1

ASSUME PayloadAssumption ==
  /\ totalSegments \in Nat
  /\ segmentBatchSize \in Nat \ {0}
  /\ encryptedSegmentSize \in [Segments -> Nat \ {0}]

VARIABLES
  tampered,         (* segments whose hash, tag or length will not check      *)
  batch,            (* phase of the batch that starts at a segment            *)
  arrived,          (* bytes its request returned, NotFetched before          *)
  cursor,           (* the segment its loop is about to decrypt               *)
  mailbox,          (* chunks[i].decryptedChunk                               *)
  nextChunkIndex,   (* the chunk the reader needs next                        *)
  pulling,          (* pull is suspended in "await chunk.decryptedChunk"      *)
  stream,           (* state of the plaintext ReadableStream                  *)
  queue,            (* its internal queue                                     *)
  received          (* what the consumer has read so far                      *)

sliceVars == <<arrived, cursor>>
readerVars == <<nextChunkIndex, pulling, stream, queue, received>>
pipelineVars == <<tampered, batch, sliceVars, mailbox, readerVars>>

NotFetched == -1
HighWaterMark == 1   (* DecoratedReadableStream *)

-----------------------------------------------------------------------------
(* The layout of the payload and of a batch's buffer.                        *)

encryptedOffset[i \in 0 .. totalSegments] ==
  IF i = 0 THEN 0 ELSE encryptedOffset[i - 1] + encryptedSegmentSize[i - 1]

BatchEnd(b) == IF b + segmentBatchSize < totalSegments
               THEN b + segmentBatchSize ELSE totalSegments
Slice(b) == b .. BatchEnd(b) - 1
BufferSize(b) == encryptedOffset[BatchEnd(b)] - encryptedOffset[b]

(* Where sliceAndDecrypt looks for segment i in the buffer of batch b, and   *)
(* where it is.                                                              *)
BufferOffset(b, i) ==
  IF encryptedOffset[b] = 0 THEN encryptedOffset[i]
                            ELSE encryptedOffset[i] % encryptedOffset[b]
TrueOffset(b, i) == encryptedOffset[i] - encryptedOffset[b]

-----------------------------------------------------------------------------
(* A mailbox is settled once: what comes first stays.                        *)
SetMailbox(i) ==
  mailbox' = [mailbox EXCEPT ![i] = IF @ = "pending" THEN "set" ELSE @]

Rejecting(box, chunks) ==
  [i \in Segments |-> IF i \in chunks /\ box[i] = "pending"
                      THEN "rejected" ELSE box[i]]

(* rejectChunks(slice): the slice holds the chunk objects of the time the    *)
(* batch started; for a consumed segment that mailbox is settled and chunks  *)
(* holds another one, which this does not reach.                             *)
RejectSlice(b) ==
  mailbox' = Rejecting(mailbox, {i \in Slice(b) : i >= nextChunkIndex})

(* Mutants: onError rejects every chunk, or none.                            *)
RejectAll(box, start) == Rejecting(box, Segments)
RejectNothing(box, start) == box

(* rejectChunks(chunks.slice(start)): the mailboxes chunks holds now.        *)
RejectFrom(box, start) == Rejecting(box, {i \in Segments : i >= start})

-----------------------------------------------------------------------------
(* fetchAndDecryptChunkSlice.  The modules that extend this one say what     *)
(* becomes of the batch (batch').                                            *)

(* getPayloadSegment throws.                                                 *)
FetchFails(b) ==
  /\ batch[b] = "running"
  /\ arrived[b] = NotFetched
  /\ RejectSlice(b)
  /\ UNCHANGED <<tampered, sliceVars, readerVars>>

(* getPayloadSegment returns what the range request gave: a truncated file   *)
(* gives fewer bytes than asked for.                                         *)
FetchReturns(b, bytes) ==
  /\ batch[b] = "running"
  /\ arrived[b] = NotFetched
  /\ arrived' = [arrived EXCEPT ![b] = bytes]
  /\ cursor' = [cursor EXCEPT ![b] = b]
  /\ UNCHANGED <<tampered, batch, mailbox, readerVars>>

Decrypting(b) ==
  /\ batch[b] = "running"
  /\ arrived[b] # NotFetched
  /\ cursor[b] < BatchEnd(b)
WholeSegmentFetched(b, i) ==
  BufferOffset(b, i) + encryptedSegmentSize[i] <= arrived[b]

(* The segment is cut short: sliceAndDecrypt throws, the whole slice is      *)
(* rejected.                                                                 *)
SegmentMissing(b) ==
  /\ Decrypting(b)
  /\ ~WholeSegmentFetched(b, cursor[b])
  /\ RejectSlice(b)
  /\ UNCHANGED <<tampered, sliceVars, readerVars>>

(* decryptChunk compares the hash of the bytes it was given with the         *)
(* manifest's; only then is the plaintext put in the mailbox.  A mismatch    *)
(* rejects this mailbox and the loop goes on.                                *)
HashUnchecked(b, i) == BufferOffset(b, i) = TrueOffset(b, i)   (* mutant *)
HashMatches(b, i) ==
  BufferOffset(b, i) = TrueOffset(b, i) /\ i \notin tampered

DecryptSegment(b) ==
  /\ Decrypting(b)
  /\ WholeSegmentFetched(b, cursor[b])
  /\ IF HashMatches(b, cursor[b])
       THEN SetMailbox(cursor[b])
       ELSE mailbox' = Rejecting(mailbox, {cursor[b]})
  /\ cursor' = [cursor EXCEPT ![b] = @ + 1]
  /\ UNCHANGED <<tampered, batch, arrived, readerVars>>

(* The loop is over: the promise of fetchAndDecryptChunkSlice resolves.      *)
SliceDone(b) ==
  /\ batch[b] = "running"
  /\ arrived[b] # NotFetched
  /\ cursor[b] = BatchEnd(b)
  /\ UNCHANGED <<tampered, sliceVars, mailbox, readerVars>>

-----------------------------------------------------------------------------
(* The ReadableStream: pull is called again when it is not running and the   *)
(* queue is below the high water mark.                                       *)
CanPull == stream = "readable" /\ ~pulling /\ Len(queue) < HighWaterMark

ChunksLeftButOne == nextChunkIndex + 1 < totalSegments   (* mutant *)
ChunksLeft == nextChunkIndex < totalSegments

Pull ==
  /\ CanPull
  /\ ChunksLeft
  /\ pulling' = TRUE
  /\ UNCHANGED <<tampered, batch, sliceVars, mailbox,
                 nextChunkIndex, stream, queue, received>>

(* Every chunk was enqueued: controller.close().                             *)
Close ==
  /\ CanPull
  /\ ~ChunksLeft
  /\ stream' = "closed"
  /\ UNCHANGED <<tampered, batch, sliceVars, mailbox,
                 nextChunkIndex, pulling, queue, received>>

(* The emptied mailbox is replaced by a new one (mutant: it is kept).        *)
MailboxKept(i) == mailbox
MailboxReplaced(i) == [mailbox EXCEPT ![i] = "pending"]

(* pull resumes with the plaintext: enqueue it, drop the mailbox that holds  *)
(* it, advance.  (markConsumed belongs to the module that extends this one.) *)
Deliver ==
  /\ pulling
  /\ stream = "readable"
  /\ mailbox[nextChunkIndex] = "set"
  /\ queue' = Append(queue, nextChunkIndex)
  /\ mailbox' = MailboxReplaced(nextChunkIndex)
  /\ nextChunkIndex' = nextChunkIndex + 1
  /\ pulling' = FALSE
  /\ UNCHANGED <<tampered, sliceVars, stream, received>>

(* The application's progressHandler throws after the enqueue: the stream    *)
(* errs and drops its queue; the segment reached the consumer only if a read *)
(* was waiting for it.                                                       *)
ProgressHandlerThrows ==
  /\ pulling
  /\ stream = "readable"
  /\ mailbox[nextChunkIndex] = "set"
  /\ \/ received' = Append(received, nextChunkIndex)
     \/ received' = received
  /\ stream' = "aborted"
  /\ queue' = <<>>
  /\ pulling' = FALSE
  /\ UNCHANGED <<tampered, batch, sliceVars, mailbox, nextChunkIndex>>

(* The awaited mailbox is rejected: pull throws and the stream errs, which   *)
(* empties its queue; after a cancel nobody is left to tell.                 *)
PullThrows ==
  /\ pulling
  /\ mailbox[nextChunkIndex] = "rejected"
  /\ stream' = IF stream = "readable" THEN "errored" ELSE stream
  /\ queue' = <<>>
  /\ pulling' = FALSE
  /\ UNCHANGED <<tampered, batch, sliceVars, mailbox, nextChunkIndex, received>>

(* pull resumes on a cancelled stream: controller.enqueue throws.            *)
EnqueueAfterCancel ==
  /\ pulling
  /\ stream = "cancelled"
  /\ mailbox[nextChunkIndex] = "set"
  /\ pulling' = FALSE
  /\ UNCHANGED <<tampered, batch, sliceVars, mailbox,
                 nextChunkIndex, stream, queue, received>>

(* The consumer reads what is queued, or gives up.                           *)
Read ==
  /\ queue # <<>>
  /\ received' = Append(received, Head(queue))
  /\ queue' = Tail(queue)
  /\ UNCHANGED <<tampered, batch, sliceVars, mailbox,
                 nextChunkIndex, pulling, stream>>

Cancel ==
  /\ stream = "readable"
  /\ stream' = "cancelled"
  /\ queue' = <<>>
  /\ UNCHANGED <<tampered, batch, sliceVars, mailbox,
                 nextChunkIndex, pulling, received>>

(* The steps that the launching code has no part in; those of a consumer who *)
(* reads on, and all.                                                        *)
ReadingStep == Pull \/ Close \/ PullThrows \/ EnqueueAfterCancel \/ Read
ReaderStep == ReadingStep \/ ProgressHandlerThrows \/ Cancel

PipelineInit ==
  /\ tampered \in SUBSET Segments
  /\ batch = [b \in Segments |-> "none"]
  /\ arrived = [b \in Segments |-> NotFetched]
  /\ cursor = [b \in Segments |-> b]
  /\ mailbox = [i \in Segments |-> "pending"]
  /\ nextChunkIndex = 0
  /\ pulling = FALSE
  /\ stream = "readable"
  /\ queue = <<>>
  /\ received = <<>>

-----------------------------------------------------------------------------
(* The values the code can give to the pipeline's state.                     *)
PipelineTypeOK ==
  /\ tampered \in SUBSET Segments
  /\ arrived \in [Segments -> Int]
  /\ cursor \in [Segments -> 0 .. totalSegments]
  /\ mailbox \in [Segments -> {"pending", "set", "rejected"}]
  /\ nextChunkIndex \in 0 .. totalSegments
  /\ pulling \in BOOLEAN
  /\ stream \in {"readable", "closed", "errored", "aborted", "cancelled"}
  /\ queue \in Seq(Segments) /\ Len(queue) <= HighWaterMark
  /\ received \in Seq(Segments) /\ Len(received) <= totalSegments

(* A batch whose request or whose buffer was short of a segment it needed.   *)
BatchFailed(b) ==
  /\ batch[b] \in {"rejected", "caught", "done"}
  /\ arrived[b] < BufferSize(b)

(* The stream only errs at a segment for a reason found at that segment or   *)
(* before it: the segment does not verify, or the batch of this or of an     *)
(* earlier segment failed.  Rejecting "the rest of the file" when a batch    *)
(* fails never reaches back to segments that other batches still decrypt.    *)
ErrorIsAttributed ==
  stream = "errored" =>
    \/ nextChunkIndex \in tampered
    \/ \E b \in 0 .. nextChunkIndex : BatchFailed(b)

(* Nothing reaches the consumer that was not verified: no tampered segment   *)
(* is ever received or queued, and a closed stream is an intact file.        *)
OnlyVerifiedPlaintext ==
  /\ \A k \in 1 .. Len(received) : received[k] \notin tampered
  /\ \A k \in 1 .. Len(queue) : queue[k] \notin tampered
  /\ stream = "closed" => tampered = {}

(* The consumer who keeps reading gets an end or an error: no pull waits for *)
(* a mailbox that nobody will settle.                                        *)
StreamEnds == <>(stream # "readable")
=============================================================================
