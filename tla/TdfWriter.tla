----------------------------- MODULE TdfWriter -----------------------------
(***************************************************************************)
(* writeStream of lib/tdf3/src/tdf.ts: the ReadableStream that turns a       *)
(* plaintext stream into a TDF, a zip file of two stored entries whose       *)
(* sizes are only known at the end: '0.payload', the encrypted segments,     *)
(* and '0.manifest.json', which describes them.                              *)
(*                                                                         *)
(* Bytes are counted, not kept: a chunk of plaintext is its length, the      *)
(* output a sequence of pieces as ZipWriter makes them.  A checksum is the   *)
(* sequence of pieces that went into it.  A step runs from one await of pull *)
(* to the next (and pauses once more, before the end of the payload, where   *)
(* the code does not await).                                                 *)
(***************************************************************************)
EXTENDS ZipReader, ContentSource

CONSTANTS
  Sources,              (* what is given to be encrypted                      *)
  segmentSizeDefault,
  CipherOverhead,       (* what encryption adds to a segment: IV and tag      *)
  ByteLimits,           (* values of cfg.byteLimit                            *)
  ManifestSize

ASSUME WriterAssumption ==
  /\ \A s \in Sources : sourceToStream(s) \in Seq(Nat)
  /\ {segmentSizeDefault, ManifestSize, chunkSize} \subseteq Nat \ {0}
  /\ ManifestSize <= manifestMaxSize
  /\ ByteLimits \cup {CipherOverhead} \subseteq Nat

VARIABLES
  byteLimit,
  source,           (* what contentStream has yet to yield                    *)
  bytesRead,        (* plaintext read so far                                  *)
  buffered,         (* currentBuffer.length                                   *)
  isDone,
  pull,             (* the await pull is suspended in                         *)
  segmentInfos,
  totalByteCount,
  crcCounter,       (* the pieces counted since it was last set to zero       *)
  fileByteCount,
  entryInfos,
  stream, queue, pendingRead, received    (* the ReadableStream               *)

sourceVars == <<source, bytesRead, byteLimit>>
countVars == <<totalByteCount, crcCounter, fileByteCount>>
streamVars == <<stream, queue, pendingRead, received>>
vars == <<sourceVars, buffered, isDone, pull, segmentInfos, countVars, entryInfos,
          streamVars>>

HighWaterMark == 1
Default == 0          (* a size that the manifest leaves out                  *)
EntryNumbers == {1, 2}     (* '0.payload' and '0.manifest.json'               *)
NoInfo == [offset |-> 0, size |-> 0, crc |-> <<>>]

Filename == <<"0.payload", "0.manifest.json">>
Data(e, size) == [kind |-> "data", name |-> Filename[e], size |-> size]
encryptedSize(n) == n + CipherOverhead

-----------------------------------------------------------------------------
(* The controller.  A chunk goes to a waiting read, or else in the queue; an *)
(* error drops the queue, and what was enqueued before it was thrown reaches *)
(* the consumer only through a waiting read.                                 *)
Errs(pieces) ==
  /\ received' = IF pendingRead /\ pieces # <<>>
                   THEN Append(received, Head(pieces)) ELSE received
  /\ stream' = "errored"
  /\ queue' = <<>>
  /\ pendingRead' = FALSE

Enqueues(pieces) ==
  /\ IF pendingRead
       THEN received' = Append(received, Head(pieces)) /\ queue' = Tail(pieces)
       ELSE received' = received /\ queue' = queue \o pieces
  /\ pendingRead' = FALSE

RoomAfter(waiting) == waiting < HighWaterMark /\ stream = "readable"

(* _countChunk, for several pieces in a row; crcCounter and fileByteCount    *)
(* go on from what they were.                                                *)
Counts(pieces) ==
  /\ totalByteCount' = totalByteCount + Bytes(pieces)
  /\ crcCounter' = crcCounter \o pieces
  /\ fileByteCount' = fileByteCount + Bytes(pieces)

WithinLimit(pieces) == totalByteCount + Bytes(pieces) <= byteLimit

(* The pieces enqueued up to the one whose count exceeds the limit.          *)
UpToLimit(pieces) ==
  LET Exceeds(k) == ~WithinLimit(SubSeq(pieces, 1, k))
  IN SubSeq(pieces, 1, CHOOSE k \in DOMAIN pieces :
                         Exceeds(k) /\ \A j \in 1 .. k - 1 : ~Exceeds(j))

-----------------------------------------------------------------------------
Init ==
  /\ byteLimit \in ByteLimits
  /\ source \in {sourceToStream(s) : s \in Sources}
  /\ bytesRead = 0
  /\ buffered = 0
  /\ isDone = FALSE
  /\ pull = "none"
  /\ segmentInfos = <<>>
  /\ totalByteCount = 0
  /\ crcCounter = <<>>
  /\ fileByteCount = 0
  /\ entryInfos = [e \in EntryNumbers |-> NoInfo]
  /\ stream = "new" /\ queue = <<>> /\ pendingRead = FALSE /\ received = <<>>

(* The start callback: the local header of the payload.  The constructor of  *)
(* ReadableStream throws what it throws.                                     *)
Start ==
  LET header == getLocalFileHeader(Filename[1])
  IN /\ stream = "new"
     /\ totalByteCount' = header.size
     /\ IF WithinLimit(<<header>>)
          THEN stream' = "readable" /\ queue' = <<header>>
          ELSE stream' = "errored" /\ queue' = <<>>
     /\ UNCHANGED <<sourceVars, buffered, isDone, pull, segmentInfos, crcCounter,
                    fileByteCount, entryInfos, pendingRead, received>>

(* Where pull is suspended next, once it has what it wanted to read: a full  *)
(* segment goes out only if the queue has room (mutant: as long as there is  *)
(* one).                                                                     *)
SegmentGoesOutGreedily(bytes, waiting) == bytes >= segmentSizeDefault
SegmentGoesOut(bytes, waiting) ==
  bytes >= segmentSizeDefault /\ RoomAfter(waiting)

(* Mutant: only the pull that wrote a short last segment ends the file.      *)
ContentOverAfterLast(bytes, done) == done /\ bytes = 0 /\ pull = "lastSegment"
ContentOver(bytes, done) == done /\ bytes = 0

AfterReading(bytes, done, waiting) ==
  CASE SegmentGoesOut(bytes, waiting) -> "segment"
    [] ~SegmentGoesOut(bytes, waiting) /\ done /\ bytes > 0 -> "lastSegment"
    [] ContentOver(bytes, done) -> "finish"
    [] OTHER -> "none"

ReadsToEnd(bytes, done) == ~done   (* mutant: pull reads all the content first *)
ReadsMore(bytes, done) == bytes < segmentSizeDefault /\ ~done

Suspend(bytes, done, waiting) ==
  pull' = IF ReadsMore(bytes, done) THEN "read" ELSE AfterReading(bytes, done, waiting)

(* The stream calls pull, which starts with isDone undefined.                *)
Pull ==
  /\ stream = "readable"
  /\ pull = "none"
  /\ pendingRead \/ Len(queue) < HighWaterMark
  /\ isDone' = FALSE
  /\ Suspend(buffered, FALSE, Len(queue))
  /\ UNCHANGED <<sourceVars, buffered, segmentInfos, countVars, entryInfos, streamVars>>

(* sourceReader.read() resolves: a chunk, or the end of the content.         *)
ReadSource ==
  /\ pull = "read"
  /\ LET chunk == IF source = <<>> THEN 0 ELSE Head(source)
     IN /\ bytesRead' = bytesRead + chunk
        /\ buffered' = buffered + chunk
        /\ isDone' = (source = <<>>)
        /\ source' = IF source = <<>> THEN <<>> ELSE Tail(source)
        /\ Suspend(buffered + chunk, source = <<>>, Len(queue))
  /\ UNCHANGED <<byteLimit, segmentInfos, countVars, entryInfos, streamVars>>

(* pull throws: the content stream fails, the progress handler throws, or    *)
(* encryption does.  On a cancelled stream nobody notices.                   *)
PullThrows ==
  /\ pull \in {"read", "segment", "lastSegment", "manifest"}
  /\ pull' = "threw"
  /\ IF stream = "readable" THEN Errs(<<>>) ELSE UNCHANGED streamVars
  /\ UNCHANGED <<sourceVars, buffered, isDone, segmentInfos, countVars, entryInfos>>

Recorded(size, default) == IF size = default THEN Default ELSE size

(* The segment is encrypted: _encryptAndCountSegment records it, counts it   *)
(* and returns it to be enqueued.  enqueue throws on a cancelled stream.     *)
SegmentEncrypted ==
  /\ pull \in {"segment", "lastSegment"}
  /\ LET length == IF pull = "segment" THEN segmentSizeDefault ELSE buffered
         piece == Data(1, encryptedSize(length))
         waiting == IF pendingRead THEN 0 ELSE Len(queue) + 1
     IN /\ segmentInfos' = Append(segmentInfos,
             [segmentSize |-> Recorded(length, segmentSizeDefault),
              encryptedSegmentSize |->
                Recorded(piece.size, encryptedSize(segmentSizeDefault))])
        /\ IF WithinLimit(<<piece>>)
             THEN Counts(<<piece>>)
             ELSE /\ totalByteCount' = totalByteCount + piece.size
                  /\ UNCHANGED <<crcCounter, fileByteCount>>
        /\ IF stream = "readable" /\ WithinLimit(<<piece>>)
             THEN /\ Enqueues(<<piece>>)
                  /\ UNCHANGED stream
                  /\ buffered' = buffered - length
                  /\ pull' = AfterReading(buffered - length, isDone, waiting)
             ELSE /\ pull' = "threw"
                  /\ IF stream = "readable" THEN Errs(<<>>) ELSE UNCHANGED streamVars
                  /\ UNCHANGED buffered
  /\ UNCHANGED <<sourceVars, isDone, entryInfos>>

-----------------------------------------------------------------------------
(* Mutants: the offset is taken after the header; the checksum of the        *)
(* payload goes on in the manifest's.                                        *)
OffsetAfter(before, header) == before + header.size
OffsetBefore(before, header) == before
NotReset(old) == old
Reset(old) == <<>>

(* The end of the payload, and the header of the manifest, up to the await   *)
(* of the root signature.                                                    *)
FinishPayload ==
  LET descriptor == writeDataDescriptor(Filename[1])
      header == getLocalFileHeader(Filename[2])
      pieces == <<descriptor, header>>
  IN /\ pull = "finish"
     /\ IF stream = "readable" /\ WithinLimit(pieces)
          THEN /\ Enqueues(pieces)
               /\ totalByteCount' = totalByteCount + Bytes(pieces)
               /\ crcCounter' = Reset(crcCounter)
               /\ fileByteCount' = 0
               /\ entryInfos' =
                    [entryInfos EXCEPT
                       ![1] = [offset |-> 0, size |-> fileByteCount, crc |-> crcCounter],
                       ![2].offset =
                          OffsetBefore(totalByteCount + descriptor.size, header)]
               /\ pull' = "manifest"
               /\ UNCHANGED stream
          ELSE /\ pull' = "threw"
               /\ IF stream = "readable" THEN Errs(UpToLimit(pieces))
                                         ELSE UNCHANGED streamVars
               /\ UNCHANGED <<countVars, entryInfos>>
     /\ UNCHANGED <<sourceVars, buffered, isDone, segmentInfos>>

(* Root signature and assertions are computed: the manifest, its descriptor  *)
(* and the central directory, then close.                                    *)
FinishManifest ==
  LET manifest == Data(2, ManifestSize)
      written == [entryInfos EXCEPT ![2].size = fileByteCount + ManifestSize,
                                    ![2].crc = Append(crcCounter, manifest)]
      descriptor == writeDataDescriptor(Filename[2])
      records == [e \in EntryNumbers |->
                    writeCentralDirectoryRecord(written[e].size, Filename[e],
                                                written[e].offset)]
      end == writeEndOfCentralDirectoryRecord(Len(records), Bytes(records),
               totalByteCount + Bytes(<<manifest, descriptor>>))
      pieces == <<manifest, descriptor>> \o records \o <<end>>
  IN /\ pull = "manifest"
     /\ IF stream = "readable" /\ WithinLimit(pieces)
          THEN /\ Counts(pieces)
               /\ Enqueues(pieces)
               /\ entryInfos' = written
               /\ pull' = "none"
               /\ stream' = "closed"
          ELSE /\ pull' = "threw"
               /\ IF stream = "readable" THEN Errs(UpToLimit(pieces))
                                         ELSE UNCHANGED streamVars
               /\ UNCHANGED <<countVars, entryInfos>>
     /\ UNCHANGED <<sourceVars, buffered, isDone, segmentInfos>>

-----------------------------------------------------------------------------
(* The consumer: reads what is queued, or waits with a read; or gives up.    *)
Read ==
  /\ stream \in {"readable", "closed"}
  /\ ~pendingRead
  /\ IF queue = <<>>
       THEN stream = "readable" /\ pendingRead' = TRUE /\ UNCHANGED <<queue, received>>
       ELSE /\ received' = Append(received, Head(queue))
            /\ queue' = Tail(queue)
            /\ UNCHANGED pendingRead
  /\ UNCHANGED <<sourceVars, buffered, isDone, pull, segmentInfos, countVars,
                 entryInfos, stream>>

Cancel ==
  /\ stream = "readable"
  /\ stream' = "cancelled"
  /\ queue' = <<>>
  /\ pendingRead' = FALSE
  /\ UNCHANGED <<sourceVars, buffered, isDone, pull, segmentInfos, countVars,
                 entryInfos, received>>

WriterStep == Start \/ Pull \/ ReadSource \/ SegmentEncrypted
                \/ FinishPayload \/ FinishManifest

Next == WriterStep \/ PullThrows \/ Read \/ Cancel

Spec == Init /\ [][Next]_vars

(* The content stream ends or fails, encryption ends, callbacks run, and the *)
(* consumer reads on.                                                        *)
FairSpec == Spec /\ WF_vars(WriterStep) /\ WF_vars(Read)

-----------------------------------------------------------------------------
Output == received \o queue
Place(kind, e) ==
  CHOOSE k \in DOMAIN Output : Output[k].kind = kind /\ Output[k].name = Filename[e]

(* The archive can be opened: in a file written to its end, the size and     *)
(* checksum kept for an entry are those of exactly what lies between its     *)
(* local header and its data descriptor; the end record gives the place and  *)
(* size of the directory; and ZipReader finds both entries where they are,   *)
(* whose records are all that it looks at.                                   *)
DirectoryMatchesBytes ==
  stream = "closed" =>
    LET end == Output[Len(Output)]
        Records == {k \in DOMAIN Output : Output[k].kind = "record"}
    IN /\ \A e \in EntryNumbers :
            LET content == SubSeq(Output, Place("local", e) + 1, Place("descriptor", e) - 1)
            IN /\ entryInfos[e] = [offset |-> Offset(Output, Place("local", e)),
                                   size |-> Bytes(content), crc |-> content]
               /\ TrueEntry(Output, Filename[e]) \in Entries(Output)
       /\ IsArchive(Output) /\ Readable(Output)
       /\ DirectoryParses(Output) /\ ManifestFits(Output)
       /\ end.kind = "end"
       /\ {Offset(Output, k) : k \in Records}
            \subseteq end.offsetOfDirectory .. end.offsetOfDirectory + end.sizeOfDirectory - 1
       /\ end.offsetOfDirectory + end.sizeOfDirectory = Offset(Output, Len(Output))
       /\ PieceAt(Output, end.offsetOfDirectory).kind = "record"

(* The reader's view of the manifest: a size that is left out is the default. *)
SizeOf(recorded, default) == IF recorded = Default THEN default ELSE recorded

(* Segments can be found again: the manifest lists the segments in the order *)
(* in which they were written, with the sizes they have, and all the         *)
(* plaintext that was read is in them.                                       *)
SegmentsMatchPayload ==
  stream = "closed" =>
    LET segments == SubSeq(Output, Place("local", 1) + 1, Place("descriptor", 1) - 1)
        plain == [k \in DOMAIN segmentInfos |->
                    Data(1, SizeOf(segmentInfos[k].segmentSize, segmentSizeDefault))]
    IN /\ DOMAIN segmentInfos = DOMAIN segments
       /\ \A k \in DOMAIN segments :
            segments[k].size = SizeOf(segmentInfos[k].encryptedSegmentSize,
                                      encryptedSize(segmentSizeDefault))
       /\ source = <<>>
       /\ Bytes(plain) = bytesRead

(* A reader who trusts the directory and the manifest finds what was         *)
(* written.                                                                  *)
FileDescribesItself == DirectoryMatchesBytes /\ SegmentsMatchPayload

(* Files written by this code have even segments: only the last may be       *)
(* shorter, however the content stream cuts its chunks and whenever the      *)
(* queue is full.  The reader's arithmetic for the place of a segment in a   *)
(* batch's buffer relies on it.                                              *)
EvenSegments ==
  \A k \in DOMAIN segmentInfos :
    IF k < Len(segmentInfos)
      THEN segmentInfos[k] = [segmentSize |-> Default, encryptedSegmentSize |-> Default]
      ELSE segmentInfos[k].segmentSize < segmentSizeDefault

(* Backpressure: while the payload is written, at most one piece waits in    *)
(* the queue, and less than one segment of plaintext is read ahead of it.    *)
PayloadQueueBound ==
  /\ Cardinality({k \in DOMAIN queue : queue[k] \in [kind : {"data"}, name : {Filename[1]}, size : Nat]}) <= HighWaterMark
  /\ pull = "read" => buffered < segmentSizeDefault

(* The consumer who keeps reading gets an end or an error.                   *)
WriteEnds == <>(stream \notin {"new", "readable"})
=============================================================================
