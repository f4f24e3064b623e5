-------------------------- MODULE TdfWriterProofs --------------------------
(***************************************************************************)
(* For every segment size, content, chunking and byte limit: only the last   *)
(* segment of a file is short, the queue holds at most one, and a file that  *)
(* is written to its end describes itself.  The first two rest on what pull  *)
(* relies on wherever it is suspended (WriterInv): the queue is empty        *)
(* whenever a segment may come, and content that is over leaves less than a  *)
(* segment.  The third rests on that and on FileInv: which pieces the output *)
(* has at each await, and what the counters and entries say of them.         *)
(***************************************************************************)
EXTENDS TdfWriter, FiniteSetTheorems, WellFoundedInduction, TLAPS

Names == {Filename[e] : e \in EntryNumbers}
Suspensions == {"none", "read", "segment", "lastSegment", "finish", "manifest", "threw"}
Infos == [segmentSize : Nat, encryptedSegmentSize : Nat]
PayloadPieces == [kind : {"data"}, name : {Filename[1]}, size : Nat]

WriterTypes ==
  /\ source \in Seq(Nat)
  /\ buffered \in Nat
  /\ isDone \in BOOLEAN
  /\ pull \in Suspensions
  /\ segmentInfos \in Seq(Infos)
  /\ \E pieces : queue \in Seq(pieces)
  /\ pendingRead \in BOOLEAN
  /\ stream \in {"new", "readable", "errored", "cancelled", "closed"}

(* What pull has, wherever it is suspended.                                  *)
EndIsShort == isDone => buffered < segmentSizeDefault
ReadsForMore == pull = "read" => buffered < segmentSizeDefault
SegmentIsFull == pull = "segment" => buffered >= segmentSizeDefault
LastIsShort == pull = "lastSegment" => isDone
NotStarted == stream = "new" => pull = "none" /\ queue = <<>> /\ ~pendingRead

(* The queue is empty whenever a segment may come.                           *)
QueueIsFree ==
  pendingRead \/ pull \in {"read", "segment", "lastSegment"} => queue = <<>>
OneSegmentWaits ==
  \A i, j \in DOMAIN queue :
    queue[i] \in PayloadPieces /\ queue[j] \in PayloadPieces => i = j

(* A short segment is the last: afterwards pull is on its way to the end.    *)
DefaultInfo == [segmentSize |-> Default, encryptedSegmentSize |-> Default]
AllFull == \A k \in DOMAIN segmentInfos : segmentInfos[k] = DefaultInfo
MoreMayCome ==
  \/ pull \in {"read", "segment", "lastSegment"}
  \/ pull = "none" /\ stream \in {"new", "readable"}
ShortIsLast == MoreMayCome => AllFull

WriterInv ==
  /\ WriterTypes
  /\ EndIsShort /\ ReadsForMore /\ SegmentIsFull /\ LastIsShort /\ NotStarted
  /\ QueueIsFree /\ OneSegmentWaits
  /\ ShortIsLast /\ EvenSegments
-----------------------------------------------------------------------------
(* What the source of a content stream becomes is a sequence of lengths.     *)
LEMMA InitWrites == Init => WriterInv
<1> SUFFICES ASSUME Init PROVE WriterInv
  OBVIOUS
<1>1. source \in Seq(Nat)
  BY WriterAssumption DEF Init
<1>2. segmentInfos = <<>> /\ queue = <<>> /\ stream = "new" /\ pull = "none"
      /\ ~pendingRead /\ isDone = FALSE /\ buffered = 0 /\ pendingRead = FALSE
  BY DEF Init
<1>3. queue \in Seq({}) /\ segmentInfos \in Seq(Infos)
  BY <1>2
<1>4. WriterTypes
  BY <1>1, <1>2, <1>3 DEF WriterTypes, Suspensions
<1>5. OneSegmentWaits /\ AllFull /\ EvenSegments
  BY <1>2 DEF OneSegmentWaits, AllFull, EvenSegments
<1> QED
  BY <1>2, <1>4, <1>5 DEF WriterInv, EndIsShort, ReadsForMore, SegmentIsFull, LastIsShort,
     NotStarted, QueueIsFree, ShortIsLast

(* The controller.  What is dropped or read leaves the queue; what is        *)
(* enqueued goes to its end, or to a read that waits.                        *)
LEMMA EnqueuedLater ==
  ASSUME WriterInv, NEW others, NEW pieces \in Seq(others), pieces # <<>>,
         \A k \in DOMAIN pieces : pieces[k] \notin PayloadPieces,
         Enqueues(pieces)
  PROVE  /\ \E P : queue' \in Seq(P)
         /\ pendingRead' = FALSE
         /\ OneSegmentWaits'
<1>0. pendingRead' = FALSE
  BY DEF Enqueues
<1>1. PICK P : queue \in Seq(P)
  BY DEF WriterInv, WriterTypes
<1>2. CASE pendingRead
  <2>1. queue' = Tail(pieces)
    BY <1>2 DEF Enqueues
  <2>2. /\ queue' \in Seq(others)
        /\ \A k \in DOMAIN queue' : k + 1 \in DOMAIN pieces /\ queue'[k] = pieces[k + 1]
    BY <2>1
  <2> QED
    BY <2>2, <1>0 DEF OneSegmentWaits
<1>3. CASE ~pendingRead
  <2>1. queue' = queue \o pieces
    BY <1>3 DEF Enqueues
  <2>2. queue \in Seq(P \cup others) /\ pieces \in Seq(P \cup others)
    BY <1>1
  <2>3. queue' \in Seq(P \cup others)
    BY <2>1, <2>2
  <2>4. \A k \in DOMAIN queue' :
          \/ k \in DOMAIN queue /\ queue'[k] = queue[k]
          \/ k - Len(queue) \in DOMAIN pieces /\ queue'[k] = pieces[k - Len(queue)]
    BY <2>1, <2>2
  <2>5. OneSegmentWaits
    BY DEF WriterInv
  <2> QED
    BY <2>3, <2>4, <2>5, <1>0 DEF OneSegmentWaits
<1> QED
  BY <1>2, <1>3

LEMMA ErrsEmpties ==
  ASSUME NEW pieces, Errs(pieces)
  PROVE  stream' = "errored" /\ queue' = <<>> /\ pendingRead' = FALSE /\ OneSegmentWaits'
<1>1. stream' = "errored" /\ queue' = <<>> /\ pendingRead' = FALSE
  BY DEF Errs
<1> QED
  BY <1>1 DEF OneSegmentWaits

(* A step that writes no segment, and reads nothing, keeps the rest.         *)
LEMMA StreamMoves ==
  ASSUME WriterInv, UNCHANGED <<source, buffered, isDone, segmentInfos>>,
         \E P : queue' \in Seq(P), pendingRead' \in BOOLEAN, OneSegmentWaits',
         stream' \in {"readable", "errored", "cancelled", "closed"},
         pull' \in Suspensions \ {"read", "segment", "lastSegment"} \/ pull' = pull,
         (pendingRead' \/ pull' \in {"read", "segment", "lastSegment"}) => queue' = <<>>,
         pull' = "none" /\ stream' = "readable" => MoreMayCome
  PROVE  WriterInv'
<1>1. WriterTypes'
  BY DEF WriterInv, WriterTypes
<1>2. EvenSegments' /\ AllFull' = AllFull
  BY DEF WriterInv, EvenSegments, AllFull
<1>3. /\ EndIsShort' /\ NotStarted' /\ QueueIsFree' /\ ShortIsLast'
      /\ ReadsForMore' /\ SegmentIsFull' /\ LastIsShort'
  BY <1>2 DEF WriterInv, EndIsShort, NotStarted, QueueIsFree, ShortIsLast, MoreMayCome,
     ReadsForMore, SegmentIsFull, LastIsShort
<1> QED
  BY <1>1, <1>2, <1>3 DEF WriterInv

LEMMA StartWrites == WriterInv /\ Start => WriterInv'
<1> SUFFICES ASSUME WriterInv, Start PROVE WriterInv'
  OBVIOUS
<1> DEFINE header == getLocalFileHeader(Filename[1])
<1>1. /\ stream = "new" /\ pull = "none" /\ ~pendingRead /\ MoreMayCome
      /\ UNCHANGED <<source, buffered, isDone, segmentInfos, pull, pendingRead>>
  BY DEF Start, WriterInv, NotStarted, MoreMayCome, sourceVars
<1>2. CASE stream' = "readable" /\ queue' = <<header>>
  <2>1. queue' \in Seq({header}) /\ OneSegmentWaits'
    BY <1>2 DEF OneSegmentWaits
  <2>2. pendingRead' \in BOOLEAN
    BY <1>1 DEF WriterInv, WriterTypes
  <2> QED
    BY <1>1, <1>2, <2>1, <2>2, StreamMoves
<1>3. CASE stream' = "errored" /\ queue' = <<>>
  <2>1. queue' \in Seq({}) /\ OneSegmentWaits'
    BY <1>3 DEF OneSegmentWaits
  <2>2. pendingRead' \in BOOLEAN
    BY <1>1 DEF WriterInv, WriterTypes
  <2> QED
    BY <1>1, <1>3, <2>1, <2>2, StreamMoves
<1> QED
  BY <1>2, <1>3 DEF Start

(* Where pull goes once it has what it wanted to read.                       *)
LEMMA WhereNext ==
  ASSUME NEW bytes \in Nat, NEW done \in BOOLEAN, NEW waiting \in Nat
  PROVE  LET next == AfterReading(bytes, done, waiting)
         IN /\ next \in {"segment", "lastSegment", "finish", "none"}
            /\ next = "segment" => bytes >= segmentSizeDefault /\ waiting = 0
            /\ next = "lastSegment" =>
                 done /\ (bytes < segmentSizeDefault => bytes > 0)
            /\ next = "none" => ~done \/ bytes >= segmentSizeDefault
            /\ done /\ bytes < segmentSizeDefault => next \in {"lastSegment", "finish"}
<1> DEFINE next == AfterReading(bytes, done, waiting)
<1>0. segmentSizeDefault \in Nat \ {0}
  BY WriterAssumption
<1>1. CASE SegmentGoesOut(bytes, waiting)
  <2>2. bytes >= segmentSizeDefault /\ waiting = 0
    BY <1>1 DEF SegmentGoesOut, RoomAfter, HighWaterMark
  <2>3. ~ContentOver(bytes, done)
    BY <1>0, <2>2 DEF ContentOver
  <2>1. next = "segment"
    BY <1>1, <2>3 DEF AfterReading
  <2> QED
    BY <1>0, <2>1, <2>2
<1>2. CASE ~SegmentGoesOut(bytes, waiting) /\ done /\ bytes > 0
  <2>1. next = "lastSegment"
    BY <1>2 DEF AfterReading, ContentOver
  <2> QED
    BY <1>0, <1>2, <2>1
<1>3. CASE ~SegmentGoesOut(bytes, waiting) /\ ~(done /\ bytes > 0) /\ ContentOver(bytes, done)
  <2>1. next = "finish"
    BY <1>3 DEF AfterReading
  <2> QED
    BY <1>0, <1>3, <2>1
<1>4. CASE ~SegmentGoesOut(bytes, waiting) /\ ~(done /\ bytes > 0) /\ ~ContentOver(bytes, done)
  <2>1. next = "none"
    BY <1>4 DEF AfterReading
  <2>2. ~done
    BY <1>4 DEF ContentOver
  <2> QED
    BY <1>0, <2>1, <2>2
<1> QED
  BY <1>1, <1>2, <1>3, <1>4

(* After a suspension: what the awaits rely on is there.                     *)
Suspended(bytes, done) ==
  /\ pull' \in {"read", "segment", "lastSegment", "finish", "none"}
  /\ pull' = "read" => bytes < segmentSizeDefault
  /\ pull' = "segment" => bytes >= segmentSizeDefault
  /\ pull' = "lastSegment" => done

LEMMA SuspendWaits ==
  ASSUME NEW bytes \in Nat, NEW done \in BOOLEAN, NEW waiting \in Nat,
         Suspend(bytes, done, waiting)
  PROVE  Suspended(bytes, done)
<1>1. CASE ReadsMore(bytes, done)
  BY <1>1 DEF Suspend, ReadsMore, Suspended
<1>2. CASE ~ReadsMore(bytes, done)
  <2>1. pull' = AfterReading(bytes, done, waiting)
    BY <1>2 DEF Suspend
  <2> QED
    BY <2>1, WhereNext DEF Suspended
<1> QED
  BY <1>1, <1>2

(* A suspension after which the queue is as free as it was.                  *)
LEMMA SuspensionWrites ==
  ASSUME WriterInv, source' \in Seq(Nat), buffered' \in Nat, isDone' \in BOOLEAN,
         Suspended(buffered', isDone'), isDone' => buffered' < segmentSizeDefault,
         stream # "new", queue = <<>>, MoreMayCome,
         UNCHANGED <<segmentInfos, stream, queue, pendingRead>>
  PROVE  WriterInv'
<1>1. pull' \in Suspensions
  BY DEF Suspended, Suspensions
<1>2. WriterTypes'
  BY <1>1 DEF WriterInv, WriterTypes
<1>3. OneSegmentWaits' /\ AllFull' /\ EvenSegments'
  BY DEF WriterInv, ShortIsLast, OneSegmentWaits, AllFull, EvenSegments
<1>4. EndIsShort' /\ ReadsForMore' /\ SegmentIsFull' /\ LastIsShort'
  BY DEF EndIsShort, ReadsForMore, SegmentIsFull, LastIsShort, Suspended
<1>5. NotStarted' /\ QueueIsFree' /\ ShortIsLast'
  BY <1>3 DEF NotStarted, QueueIsFree, ShortIsLast
<1> QED
  BY <1>2, <1>3, <1>4, <1>5 DEF WriterInv

LEMMA PullWrites == WriterInv /\ Pull => WriterInv'
<1> SUFFICES ASSUME WriterInv, Pull PROVE WriterInv'
  OBVIOUS
<1>1. /\ stream = "readable" /\ pull = "none" /\ isDone' = FALSE
      /\ pendingRead \/ Len(queue) < HighWaterMark
      /\ Suspend(buffered, FALSE, Len(queue))
      /\ UNCHANGED <<source, buffered, segmentInfos, stream, queue, pendingRead>>
  BY DEF Pull, sourceVars, streamVars
<1>2. queue = <<>>
  <2>1. CASE pendingRead
    BY <2>1 DEF WriterInv, QueueIsFree
  <2>2. CASE Len(queue) < 1
    <3>1. PICK P : queue \in Seq(P)
      BY DEF WriterInv, WriterTypes
    <3> QED
      BY <3>1, <2>2
  <2> QED
    BY <1>1, <2>1, <2>2 DEF HighWaterMark
<1>3. Len(queue) = 0 /\ buffered \in Nat /\ source \in Seq(Nat)
  BY <1>2 DEF WriterInv, WriterTypes
<1>4. \A n \in Nat : \A done \in BOOLEAN :
        Suspend(n, done, Len(queue)) => Suspended(n, done)
  BY <1>3, SuspendWaits
<1>5. MoreMayCome
  BY <1>1 DEF MoreMayCome
<1>6. Suspended(buffered', isDone')
  <2>1. Suspended(buffered, FALSE)
    <3>1. FALSE \in BOOLEAN
      OBVIOUS
    <3> QED
      BY <1>1, <1>3, <1>4, <3>1, Zenon
  <2> QED
    BY <1>1, <2>1 DEF Suspended
<1> QED
  BY <1>1, <1>2, <1>3, <1>5, <1>6, SuspensionWrites

LEMMA ReadSourceWrites == WriterInv /\ ReadSource => WriterInv'
<1> SUFFICES ASSUME WriterInv, ReadSource PROVE WriterInv'
  OBVIOUS
<1> DEFINE chunk == IF source = <<>> THEN 0 ELSE Head(source)
<1>1. /\ pull = "read" /\ buffered' = buffered + chunk
      /\ isDone' = (source = <<>>)
      /\ source' = IF source = <<>> THEN <<>> ELSE Tail(source)
      /\ Suspend(buffered + chunk, source = <<>>, Len(queue))
      /\ UNCHANGED <<segmentInfos, stream, queue, pendingRead>>
  BY DEF ReadSource, streamVars
<1>2. queue = <<>> /\ Len(queue) = 0 /\ stream # "new" /\ MoreMayCome
  BY <1>1 DEF WriterInv, QueueIsFree, NotStarted, MoreMayCome
<1>3. chunk \in Nat /\ source' \in Seq(Nat) /\ buffered \in Nat
      /\ buffered < segmentSizeDefault
  BY <1>1 DEF WriterInv, WriterTypes, ReadsForMore
<1> HIDE DEF chunk
<1>4. buffered + chunk \in Nat /\ (source = <<>>) \in BOOLEAN
  BY <1>3
<1>5. Suspended(buffered + chunk, source = <<>>)
  BY <1>1, <1>2, <1>4, SuspendWaits
<1>6. isDone' => buffered' < segmentSizeDefault
  <2>1. source = <<>> => chunk = 0
    BY DEF chunk
  <2>2. isDone' => source = <<>>
    BY <1>1, Zenon
  <2>3. chunk = 0 => buffered + chunk < segmentSizeDefault
    BY <1>3
  <2> QED
    BY <1>1, <2>1, <2>2, <2>3, Zenon
<1>7. Suspended(buffered', isDone')
  BY <1>1, <1>5 DEF Suspended
<1>8. buffered' \in Nat /\ isDone' \in BOOLEAN
  BY <1>1, <1>4
<1> QED
  BY <1>1, <1>2, <1>3, <1>6, <1>7, <1>8, SuspensionWrites

(* pull throws, and the stream errs or has been cancelled.                   *)
LEMMA PullEnds ==
  ASSUME WriterInv, NEW pieces, Errs(pieces) \/ UNCHANGED streamVars,
         pull # "none", pull' = "threw",
         UNCHANGED <<source, buffered, isDone, segmentInfos>>
  PROVE  WriterInv'
<1>2. pull' \in Suspensions \ {"read", "segment", "lastSegment"} /\ pull' # "none"
  BY DEF Suspensions
<1>3. CASE Errs(pieces)
  <2>1. stream' = "errored" /\ queue' = <<>> /\ pendingRead' = FALSE /\ OneSegmentWaits'
    BY <1>3, ErrsEmpties
  <2>2. queue' \in Seq({})
    BY <2>1
  <2> QED
    BY <1>2, <2>1, <2>2, StreamMoves
<1>4. CASE UNCHANGED streamVars
  <2>1. UNCHANGED <<stream, queue, pendingRead>>
    BY <1>4 DEF streamVars
  <2>2. stream' \in {"readable", "errored", "cancelled", "closed"}
    BY <2>1 DEF WriterInv, WriterTypes, NotStarted
  <2>3. (\E P : queue' \in Seq(P)) /\ pendingRead' \in BOOLEAN /\ OneSegmentWaits'
    BY <2>1 DEF WriterInv, WriterTypes, OneSegmentWaits
  <2>4. pendingRead' => queue' = <<>>
    BY <2>1 DEF WriterInv, QueueIsFree
  <2> QED
    BY <1>2, <2>2, <2>3, <2>4, StreamMoves
<1> QED
  BY <1>3, <1>4

LEMMA PullThrowsWrites == WriterInv /\ PullThrows => WriterInv'
  BY PullEnds DEF PullThrows, sourceVars

-----------------------------------------------------------------------------
(* The segments.  What a full segment is recorded as, and a shorter one.     *)
Info(length) ==
  [segmentSize |-> Recorded(length, segmentSizeDefault),
   encryptedSegmentSize |->
     Recorded(encryptedSize(length), encryptedSize(segmentSizeDefault))]

LEMMA InfosAre ==
  /\ Info(segmentSizeDefault) = DefaultInfo
  /\ \A n \in Nat : /\ Info(n) \in Infos
                    /\ n < segmentSizeDefault => Info(n).segmentSize < segmentSizeDefault
<1>1. segmentSizeDefault \in Nat \ {0} /\ CipherOverhead \in Nat
  BY WriterAssumption
<1>2. \A n \in Nat : encryptedSize(n) \in Nat
  BY <1>1 DEF encryptedSize
<1>3. \A n, d \in Nat : Recorded(n, d) \in {0, n}
  BY DEF Recorded, Default
<1>4. Recorded(segmentSizeDefault, segmentSizeDefault) = Default
      /\ Recorded(encryptedSize(segmentSizeDefault), encryptedSize(segmentSizeDefault)) = Default
  BY DEF Recorded
<1>5. Info(segmentSizeDefault) = DefaultInfo
  BY <1>4 DEF Info, DefaultInfo
<1>6. ASSUME NEW n \in Nat
      PROVE  /\ Info(n) \in Infos
             /\ n < segmentSizeDefault => Info(n).segmentSize < segmentSizeDefault
  <2>1. /\ Recorded(n, segmentSizeDefault) \in {0, n}
        /\ Recorded(encryptedSize(n), encryptedSize(segmentSizeDefault)) \in Nat
    BY <1>1, <1>2, <1>3
  <2> QED
    BY <1>1, <2>1 DEF Info, Infos
<1> QED
  BY <1>5, <1>6

(* After a segment, the segments before it being full, all are full if it    *)
(* is, and even if it is not.                                                *)
LEMMA InfosStayEven ==
  ASSUME segmentInfos \in Seq(Infos), AllFull, NEW n \in Nat,
         n <= segmentSizeDefault,
         segmentInfos' = Append(segmentInfos, Info(n))
  PROVE  /\ segmentInfos' \in Seq(Infos)
         /\ EvenSegments'
         /\ n = segmentSizeDefault => AllFull'
<1>0. segmentSizeDefault \in Nat \ {0}
  BY WriterAssumption
<1>1. Info(n) \in Infos /\ Info(segmentSizeDefault) = DefaultInfo
      /\ (n < segmentSizeDefault => Info(n).segmentSize < segmentSizeDefault)
  BY InfosAre
<1>2. segmentInfos' \in Seq(Infos)
  BY <1>1
<1>3. /\ DOMAIN segmentInfos' = 1 .. Len(segmentInfos) + 1
      /\ Len(segmentInfos') = Len(segmentInfos) + 1
      /\ \A k \in 1 .. Len(segmentInfos) : segmentInfos'[k] = DefaultInfo
      /\ segmentInfos'[Len(segmentInfos) + 1] = Info(n)
      /\ Len(segmentInfos) \in Nat
  BY <1>1 DEF AllFull
<1>4. Info(n).segmentSize < segmentSizeDefault
  <2>1. DefaultInfo.segmentSize = 0
    BY DEF DefaultInfo, Default
  <2>2. 0 < segmentSizeDefault
    BY <1>0
  <2>3. CASE n = segmentSizeDefault
    BY <1>1, <2>1, <2>2, <2>3
  <2> QED
    BY <1>0, <1>1, <2>3
<1>5. EvenSegments'
  BY <1>3, <1>4 DEF EvenSegments, DefaultInfo
<1>6. n = segmentSizeDefault => AllFull'
  BY <1>1, <1>3 DEF AllFull
<1> QED
  BY <1>2, <1>5, <1>6

LEMMA SegmentWrites == WriterInv /\ SegmentEncrypted => WriterInv'
<1> SUFFICES ASSUME WriterInv, SegmentEncrypted PROVE WriterInv'
  OBVIOUS
<1> DEFINE length == IF pull = "segment" THEN segmentSizeDefault ELSE buffered
           piece == Data(1, encryptedSize(length))
           waiting == IF pendingRead THEN 0 ELSE Len(queue) + 1
<1>1. /\ pull \in {"segment", "lastSegment"}
      /\ segmentInfos' = Append(segmentInfos, Info(length))
      /\ UNCHANGED <<source, isDone>>
  BY DEF SegmentEncrypted, Info, Data, sourceVars
<1>2. \/ /\ stream = "readable" /\ Enqueues(<<piece>>) /\ stream' = stream
         /\ buffered' = buffered - length
         /\ pull' = AfterReading(buffered - length, isDone, waiting)
      \/ /\ pull' = "threw" /\ buffered' = buffered
         /\ Errs(<<>>) \/ UNCHANGED streamVars
  BY DEF SegmentEncrypted
<1>3. /\ queue = <<>> /\ AllFull /\ stream # "new"
      /\ pull = "lastSegment" => isDone
      /\ buffered \in Nat /\ isDone \in BOOLEAN
      /\ isDone => buffered < segmentSizeDefault
      /\ source \in Seq(Nat) /\ segmentInfos \in Seq(Infos) /\ pendingRead \in BOOLEAN
      /\ stream \in {"readable", "errored", "cancelled", "closed"}
  BY <1>1 DEF WriterInv, WriterTypes, QueueIsFree, ShortIsLast, MoreMayCome, NotStarted,
     EndIsShort, LastIsShort
<1>4. /\ segmentSizeDefault \in Nat \ {0} /\ length \in Nat
      /\ length <= segmentSizeDefault /\ length <= buffered
      /\ pull = "segment" => length = segmentSizeDefault /\ ~isDone
      /\ pull = "lastSegment" => length = buffered
  <2>1. segmentSizeDefault \in Nat \ {0}
    BY WriterAssumption
  <2>2. pull = "segment" => buffered >= segmentSizeDefault
    BY DEF WriterInv, SegmentIsFull
  <2>3. CASE pull = "segment"
    <3>1. length = segmentSizeDefault
      BY <2>3
    <3> QED
      BY <2>1, <2>2, <2>3, <3>1, <1>3
  <2>4. CASE pull = "lastSegment"
    <3>1. length = buffered
      BY <2>4
    <3> QED
      BY <2>1, <2>4, <3>1, <1>3
  <2> QED
    BY <1>1, <2>3, <2>4
<1> HIDE DEF length
<1>5. /\ segmentInfos' \in Seq(Infos) /\ EvenSegments'
      /\ length = segmentSizeDefault => AllFull'
  BY <1>1, <1>3, <1>4, InfosStayEven
<1>6. CASE /\ pull' = "threw" /\ buffered' = buffered
           /\ Errs(<<>>) \/ UNCHANGED streamVars
  <2>1. /\ queue' = <<>> /\ pendingRead' \in BOOLEAN
        /\ stream' \in {"readable", "errored", "cancelled", "closed"}
    <3>1. CASE Errs(<<>>)
      BY <3>1, ErrsEmpties
    <3>2. CASE UNCHANGED streamVars
      BY <3>2, <1>3 DEF streamVars
    <3> QED
      BY <1>6, <3>1, <3>2
  <2>2. queue' \in Seq({}) /\ OneSegmentWaits'
    BY <2>1 DEF OneSegmentWaits
  <2>3. WriterTypes'
    BY <1>1, <1>3, <1>5, <1>6, <2>1, <2>2 DEF WriterTypes, Suspensions
  <2>4. /\ EndIsShort' /\ ReadsForMore' /\ SegmentIsFull' /\ LastIsShort'
        /\ NotStarted' /\ QueueIsFree' /\ ShortIsLast'
    BY <1>1, <1>3, <1>6, <2>1 DEF EndIsShort, ReadsForMore, SegmentIsFull, LastIsShort,
       NotStarted, QueueIsFree, ShortIsLast, MoreMayCome
  <2> QED
    BY <1>5, <2>2, <2>3, <2>4 DEF WriterInv
<1>7. CASE /\ stream = "readable" /\ Enqueues(<<piece>>) /\ stream' = stream
           /\ buffered' = buffered - length
           /\ pull' = AfterReading(buffered - length, isDone, waiting)
  <2>1. /\ pendingRead' = FALSE
        /\ queue' = IF pendingRead THEN <<>> ELSE <<piece>>
    <3>1. pendingRead' = FALSE
      BY <1>7 DEF Enqueues
    <3>2. CASE pendingRead
      <4>1. queue' = Tail(<<piece>>)
        BY <1>7, <3>2 DEF Enqueues
      <4> QED
        BY <3>1, <3>2, <4>1
    <3>3. CASE ~pendingRead
      <4>1. queue' = <<>> \o <<piece>>
        BY <1>3, <1>7, <3>3 DEF Enqueues
      <4> QED
        BY <3>1, <3>3, <4>1
    <3> QED
      BY <3>2, <3>3
  <2> HIDE DEF piece
  <2>2. queue' \in Seq({piece}) /\ OneSegmentWaits'
    <3>0. /\ <<>> \in Seq({piece}) /\ Len(<<>>) <= 1
          /\ <<piece>> \in Seq({piece}) /\ Len(<<piece>>) <= 1
      OBVIOUS
    <3>1. queue' \in Seq({piece}) /\ Len(queue') <= 1
      <4>1. queue' \in {<<>>, <<piece>>}
        BY <2>1
      <4>2. CASE queue' = <<>>
        BY <3>0, <4>2, Zenon
      <4>3. CASE queue' = <<piece>>
        BY <3>0, <4>3, Zenon
      <4> QED
        BY <4>1, <4>2, <4>3
    <3>2. \A i, j \in DOMAIN queue' : i = j
      BY <3>1
    <3> QED
      BY <3>1, <3>2 DEF OneSegmentWaits
  <2>3. waiting \in Nat /\ (waiting = 0 => queue' = <<>>)
    BY <1>3, <2>1
  <2>4. buffered' \in Nat /\ buffered' = buffered - length
    BY <1>3, <1>4, <1>7
  <2> HIDE DEF waiting
  <2>5. LET next == AfterReading(buffered - length, isDone, waiting)
         IN /\ next \in {"segment", "lastSegment", "finish", "none"}
            /\ next = "segment" => buffered - length >= segmentSizeDefault /\ waiting = 0
            /\ next = "lastSegment" =>
                 isDone /\ (buffered - length < segmentSizeDefault => buffered - length > 0)
            /\ next = "none" => ~isDone \/ buffered - length >= segmentSizeDefault
            /\ isDone /\ buffered - length < segmentSizeDefault
                 => next \in {"lastSegment", "finish"}
    BY <1>3, <2>3, <2>4, WhereNext
  <2>6. /\ pull' \in {"segment", "lastSegment", "finish", "none"}
        /\ pull' = "segment" => buffered' >= segmentSizeDefault /\ queue' = <<>>
        /\ pull' # "lastSegment"
        /\ pull' = "none" => length = segmentSizeDefault
        /\ pull' = "segment" => length = segmentSizeDefault
    <3>1. CASE pull = "segment"
      BY <1>4, <1>7, <2>3, <2>4, <2>5, <3>1
    <3>2. CASE pull = "lastSegment"
      <4>1. buffered - length = 0 /\ isDone
        BY <1>3, <1>4, <3>2
      <4>2. buffered - length < segmentSizeDefault /\ ~(buffered - length > 0)
        BY <1>4, <4>1
      <4>3. AfterReading(buffered - length, isDone, waiting) = "finish"
        BY <2>5, <4>1, <4>2
      <4>4. pull' = "finish"
        BY <1>7, <4>3
      <4> QED
        BY <4>4
    <3> QED
      BY <1>1, <3>1, <3>2
  <2>7. WriterTypes'
    BY <1>1, <1>3, <1>5, <1>7, <2>1, <2>2, <2>4, <2>6 DEF WriterTypes, Suspensions
  <2>8. /\ ReadsForMore' /\ SegmentIsFull' /\ LastIsShort' /\ NotStarted'
        /\ QueueIsFree' /\ ShortIsLast'
    BY <1>5, <1>7, <2>1, <2>6 DEF ReadsForMore, SegmentIsFull, LastIsShort,
       NotStarted, QueueIsFree, ShortIsLast, MoreMayCome
  <2>9. EndIsShort'
    BY <1>1, <1>3, <1>4, <2>4 DEF EndIsShort
  <2> QED
    BY <1>5, <2>2, <2>7, <2>8, <2>9 DEF WriterInv
<1> QED
  BY <1>2, <1>6, <1>7

-----------------------------------------------------------------------------
(* The end of the file.  Neither its records nor the manifest are segments.  *)
LEMMA FinishPayloadWrites == WriterInv /\ FinishPayload => WriterInv'
<1> SUFFICES ASSUME WriterInv, FinishPayload PROVE WriterInv'
  OBVIOUS
<1> DEFINE descriptor == writeDataDescriptor(Filename[1])
           header == getLocalFileHeader(Filename[2])
           pieces == <<descriptor, header>>
<1>1. /\ pull = "finish"
      /\ UNCHANGED <<source, buffered, isDone, segmentInfos>>
  BY DEF FinishPayload, sourceVars
<1>2. \/ Enqueues(pieces) /\ stream = "readable" /\ stream' = stream /\ pull' = "manifest"
      \/ pull' = "threw" /\ (Errs(UpToLimit(pieces)) \/ UNCHANGED streamVars)
  BY DEF FinishPayload
<1>3. stream \in {"readable", "errored", "cancelled", "closed"}
  BY <1>1 DEF WriterInv, WriterTypes, NotStarted
<1>4. CASE Enqueues(pieces) /\ stream = "readable" /\ stream' = stream /\ pull' = "manifest"
  <2>1. descriptor.kind = "descriptor" /\ header.kind = "local"
    BY DEF writeDataDescriptor, getLocalFileHeader
  <2> HIDE DEF descriptor, header
  <2>2. /\ pieces \in Seq({descriptor, header}) /\ pieces # <<>>
        /\ \A k \in DOMAIN pieces : pieces[k] \notin PayloadPieces
    BY <2>1 DEF PayloadPieces
  <2> HIDE DEF pieces
  <2>3. (\E P : queue' \in Seq(P)) /\ pendingRead' = FALSE /\ OneSegmentWaits'
    BY <1>4, <2>2, EnqueuedLater
  <2> QED
    BY <1>1, <1>3, <1>4, <2>3, StreamMoves DEF Suspensions
<1>5. CASE pull' = "threw" /\ (Errs(UpToLimit(pieces)) \/ UNCHANGED streamVars)
  BY <1>1, <1>5, PullEnds
<1> QED
  BY <1>2, <1>4, <1>5

LEMMA FinishManifestWrites == WriterInv /\ FinishManifest => WriterInv'
<1> SUFFICES ASSUME WriterInv, FinishManifest PROVE WriterInv'
  OBVIOUS
<1> DEFINE manifest == Data(2, ManifestSize)
           written == [entryInfos EXCEPT ![2].size = fileByteCount + ManifestSize,
                                         ![2].crc = Append(crcCounter, manifest)]
           descriptor == writeDataDescriptor(Filename[2])
           records == [e \in EntryNumbers |->
                         writeCentralDirectoryRecord(written[e].size, Filename[e],
                                                     written[e].offset)]
           end == writeEndOfCentralDirectoryRecord(Len(records), Bytes(records),
                    totalByteCount + Bytes(<<manifest, descriptor>>))
           pieces == <<manifest, descriptor>> \o records \o <<end>>
<1>1. /\ pull = "manifest"
      /\ UNCHANGED <<source, buffered, isDone, segmentInfos>>
  BY DEF FinishManifest, sourceVars
<1>2. \/ Enqueues(pieces) /\ stream = "readable" /\ stream' = "closed" /\ pull' = "none"
      \/ pull' = "threw" /\ (Errs(UpToLimit(pieces)) \/ UNCHANGED streamVars)
  BY DEF FinishManifest
<1>4. CASE Enqueues(pieces) /\ stream = "readable" /\ stream' = "closed" /\ pull' = "none"
  <2>1. /\ manifest.name = "0.manifest.json" /\ descriptor.kind = "descriptor"
        /\ end.kind = "end"
    BY DEF Data, Filename, writeDataDescriptor, writeEndOfCentralDirectoryRecord
  <2>2. /\ DOMAIN records = 1 .. 2
        /\ \A e \in 1 .. 2 : records[e].kind = "record"
    BY DEF EntryNumbers, writeCentralDirectoryRecord
  <2> HIDE DEF manifest, descriptor, end
  <2> DEFINE P == {manifest, descriptor, end, records[1], records[2]}
  <2>3. records \in Seq(P) /\ Len(records) = 2
    <3>1. records = [e \in 1 .. 2 |-> records[e]]
      BY DEF EntryNumbers
    <3> HIDE DEF records
    <3>2. \A e \in 1 .. 2 : records[e] \in P
      OBVIOUS
    <3> QED
      BY <3>1, <3>2
  <2> HIDE DEF records
  <2>5. /\ pieces \in Seq(P) /\ pieces # <<>>
        /\ \A k \in DOMAIN pieces : pieces[k] \in P
    <3>1. /\ <<manifest, descriptor>> \in Seq(P) /\ Len(<<manifest, descriptor>>) = 2
          /\ <<end>> \in Seq(P) /\ Len(<<end>>) = 1
      OBVIOUS
    <3> HIDE DEF P
    <3>c. \A s, r \in Seq(P) : s \o r \in Seq(P) /\ Len(s \o r) = Len(s) + Len(r)
      OBVIOUS
    <3>2. /\ <<manifest, descriptor>> \o records \in Seq(P)
          /\ Len(<<manifest, descriptor>> \o records) = 2 + 2
      BY <2>3, <3>1, <3>c, Zenon
    <3>3. pieces \in Seq(P) /\ Len(pieces) = 2 + 2 + 1
      BY <3>1, <3>2, <3>c, Zenon
    <3> HIDE DEF pieces
    <3> QED
      BY <3>3
  <2>6. \A p \in P : p \notin PayloadPieces
    BY <2>1, <2>2 DEF PayloadPieces, Filename
  <2>7. \A k \in DOMAIN pieces : pieces[k] \notin PayloadPieces
    BY <2>5, <2>6
  <2> HIDE DEF pieces, P
  <2>8. (\E Q : queue' \in Seq(Q)) /\ pendingRead' = FALSE /\ OneSegmentWaits'
    BY <1>4, <2>5, <2>7, EnqueuedLater
  <2> QED
    BY <1>1, <1>4, <2>8, StreamMoves DEF Suspensions
<1>5. CASE pull' = "threw" /\ (Errs(UpToLimit(pieces)) \/ UNCHANGED streamVars)
  BY <1>1, <1>5, PullEnds
<1> QED
  BY <1>2, <1>4, <1>5

(* The consumer.                                                             *)
LEMMA ReadWrites == WriterInv /\ Read => WriterInv'
<1> SUFFICES ASSUME WriterInv, Read PROVE WriterInv'
  OBVIOUS
<1>1. /\ UNCHANGED <<source, buffered, isDone, segmentInfos, stream, pull>>
      /\ stream \in {"readable", "closed"} /\ ~pendingRead
  BY DEF Read, sourceVars
<1>2. PICK P : queue \in Seq(P)
  BY DEF WriterInv, WriterTypes
<1>3. CASE queue = <<>>
  <2>1. queue' = queue /\ pendingRead' = TRUE
    BY <1>3 DEF Read
  <2>2. queue' \in Seq(P) /\ OneSegmentWaits'
    BY <1>2, <1>3, <2>1 DEF OneSegmentWaits
  <2> QED
    BY <1>1, <1>3, <2>1, <2>2, StreamMoves DEF MoreMayCome
<1>4. CASE queue # <<>>
  <2>1. queue' = Tail(queue) /\ pendingRead' = pendingRead
    BY <1>4 DEF Read
  <2>2. /\ queue' \in Seq(P)
        /\ \A k \in DOMAIN queue' : k + 1 \in DOMAIN queue /\ queue'[k] = queue[k + 1]
    BY <1>2, <1>4, <2>1
  <2>3. OneSegmentWaits'
    <3>1. \A i, j \in DOMAIN queue' :
            queue[i + 1] \in PayloadPieces /\ queue[j + 1] \in PayloadPieces => i + 1 = j + 1
      BY <2>2 DEF WriterInv, OneSegmentWaits
    <3>2. \A i, j \in DOMAIN queue' : i + 1 = j + 1 => i = j
      BY <2>2
    <3> QED
      BY <2>2, <3>1, <3>2 DEF OneSegmentWaits
  <2>4. pull \notin {"read", "segment", "lastSegment"}
    BY <1>4 DEF WriterInv, QueueIsFree
  <2>5. pendingRead' \in BOOLEAN /\ ~pendingRead'
    BY <1>1, <2>1 DEF WriterInv, WriterTypes
  <2> QED
    BY <1>1, <2>1, <2>2, <2>3, <2>4, <2>5, StreamMoves DEF MoreMayCome
<1> QED
  BY <1>3, <1>4

LEMMA CancelWrites == WriterInv /\ Cancel => WriterInv'
<1> SUFFICES ASSUME WriterInv, Cancel PROVE WriterInv'
  OBVIOUS
<1>1. /\ UNCHANGED <<source, buffered, isDone, segmentInfos, pull>>
      /\ stream' = "cancelled" /\ queue' = <<>> /\ pendingRead' = FALSE
  BY DEF Cancel, sourceVars
<1>2. queue' \in Seq({}) /\ OneSegmentWaits'
  BY <1>1 DEF OneSegmentWaits
<1> QED
  BY <1>1, <1>2, StreamMoves

LEMMA NextWrites == WriterInv /\ [Next]_vars => WriterInv'
<1> SUFFICES ASSUME WriterInv, [Next]_vars PROVE WriterInv'
  OBVIOUS
<1>1. CASE WriterStep
  BY <1>1, StartWrites, PullWrites, ReadSourceWrites, SegmentWrites, FinishPayloadWrites,
     FinishManifestWrites DEF WriterStep
<1>2. CASE PullThrows \/ Read \/ Cancel
  BY <1>2, PullThrowsWrites, ReadWrites, CancelWrites
<1>3. CASE UNCHANGED vars
  BY <1>3 DEF vars, sourceVars, streamVars, WriterInv, WriterTypes, EndIsShort, ReadsForMore,
     SegmentIsFull, LastIsShort, NotStarted, QueueIsFree, OneSegmentWaits, ShortIsLast,
     MoreMayCome, AllFull, EvenSegments
<1> QED
  BY <1>1, <1>2, <1>3 DEF Next

(* The writer, for every segment size, content and byte limit: what pull     *)
(* relies on wherever it is suspended.                                       *)
THEOREM WriterInvariant == Spec => []WriterInv
<1> QED
  BY InitWrites, NextWrites, PTL DEF Spec

(* However the content stream cuts its chunks and whenever the queue is      *)
(* full, only the last segment is short.                                     *)
THEOREM OnlyTheLastIsShort == Spec => []EvenSegments
<1>1. WriterInv => EvenSegments
  BY DEF WriterInv
<1> QED
  BY <1>1, WriterInvariant, PTL

(* At most one segment waits in the queue, and less than a segment of        *)
(* plaintext is read ahead of it.                                            *)
THEOREM BackpressureHolds == Spec => []PayloadQueueBound
<1>1. WriterInv => PayloadQueueBound
  <2> SUFFICES ASSUME WriterInv PROVE PayloadQueueBound
    OBVIOUS
  <2> DEFINE waiting == {k \in DOMAIN queue : queue[k] \in PayloadPieces}
  <2>1. Cardinality(waiting) <= 1
    <3>1. CASE waiting = {}
      <4>1. Cardinality(waiting) = 0
        BY <3>1, FS_EmptySet
      <4> QED
        BY <4>1
    <3>2. CASE waiting # {}
      <4>1. PICK k \in waiting : TRUE
        BY <3>2
      <4>2. waiting = {k}
        BY <4>1 DEF WriterInv, OneSegmentWaits
      <4>3. Cardinality(waiting) = 1
        BY <4>2, FS_Singleton
      <4> QED
        BY <4>3
    <3> QED
      BY <3>1, <3>2
  <2>2. pull = "read" => buffered < segmentSizeDefault
    BY DEF WriterInv, ReadsForMore
  <2> QED
    BY <2>1, <2>2 DEF PayloadQueueBound, PayloadPieces, HighWaterMark
<1> QED
  BY <1>1, WriterInvariant, PTL

-----------------------------------------------------------------------------
(* The numbers of a set have a least one.                                    *)
LEMMA LeastNumber ==
  ASSUME NEW T, T \subseteq Nat, T # {}
  PROVE  \E n \in T : \A m \in T : n <= m
<1>1. \A m, n \in Nat : m < n => <<m, n>> \in OpToRel(<, Nat)
  BY Zenon DEF OpToRel
<1>2. PICK n \in T : \A m \in T : ~(<<m, n>> \in OpToRel(<, Nat))
  BY NatLessThanWellFounded, WFMin, Zenon
<1>3. \A m \in T : ~(m < n)
  BY <1>1, <1>2, Zenon
<1> QED
  BY <1>3, SMT

(* The recursion of Ends: the sizes of the first pieces, summed.             *)
Sums(sum, file, n) ==
  sum = [k \in 0 .. n |-> IF k = 0 THEN 0 ELSE sum[k - 1] + file[k].size]

(* There are such sums of any number of pieces, for from those of fewer      *)
(* pieces the next one is had.                                               *)
LEMMA SumsExist ==
  ASSUME NEW file, NEW n \in Nat
  PROVE  \E sum : Sums(sum, file, n)
<1> SUFFICES ASSUME ~(\E sum : Sums(sum, file, n)) PROVE FALSE
  OBVIOUS
<1> DEFINE none == {m \in Nat : ~(\E sum : Sums(sum, file, m))}
<1>1. PICK m \in none : \A k \in none : m <= k
  BY LeastNumber
<1>2. m # 0
  <2>1. Sums([k \in 0 .. 0 |-> 0], file, 0)
    BY DEF Sums
  <2> QED
    BY <2>1
<1>3. m - 1 \in Nat /\ m - 1 \notin none
  BY <1>1, <1>2
<1>4. PICK less : Sums(less, file, m - 1)
  BY <1>3
<1> DEFINE sum == [k \in 0 .. m |-> IF k < m THEN less[k] ELSE less[m - 1] + file[m].size]
<1>5. ASSUME NEW k \in 0 .. m
      PROVE  sum[k] = IF k = 0 THEN 0 ELSE sum[k - 1] + file[k].size
  <2>1. CASE k < m
    <3>1. k \in 0 .. m - 1 /\ sum[k] = less[k]
      BY <2>1, <1>3
    <3>2. less[k] = IF k = 0 THEN 0 ELSE less[k - 1] + file[k].size
      BY <1>4, <3>1 DEF Sums
    <3>3. k # 0 => sum[k - 1] = less[k - 1]
      BY <2>1
    <3> QED
      BY <3>1, <3>2, <3>3
  <2>2. CASE k = m
    <3>1. sum[m] = less[m - 1] + file[m].size /\ sum[m - 1] = less[m - 1]
      BY <1>2, <1>3
    <3> QED
      BY <2>2, <1>2, <3>1
  <2> QED
    BY <2>1, <2>2
<1>6. Sums(sum, file, m)
  <2>1. sum = [k \in 0 .. m |-> sum[k]]
    OBVIOUS
  <2> HIDE DEF sum
  <2> QED
    BY <2>1, <1>5 DEF Sums
<1> QED
  BY <1>1, <1>6

(* Where each piece ends, from where the one before it does.                 *)
LEMMA EndsRecur ==
  \A file : Len(file) \in Nat =>
    /\ Ends(file)[0] = 0
    /\ \A k \in 1 .. Len(file) : Ends(file)[k] = Ends(file)[k - 1] + file[k].size
<1>1. SUFFICES ASSUME NEW file, Len(file) \in Nat
      PROVE  /\ Ends(file)[0] = 0
             /\ \A k \in 1 .. Len(file) : Ends(file)[k] = Ends(file)[k - 1] + file[k].size
  OBVIOUS
<1> DEFINE end == CHOOSE sum : Sums(sum, file, Len(file))
<1>2. Ends(file) = end
  BY DEF Ends, Sums
<1>3. Sums(end, file, Len(file))
  BY <1>1, SumsExist
<1> HIDE DEF end
<1>4. \A k \in 0 .. Len(file) : end[k] = IF k = 0 THEN 0 ELSE end[k - 1] + file[k].size
  BY <1>3 DEF Sums
<1>5. end[0] = 0
  BY <1>1, <1>4
<1>6. ASSUME NEW k \in 1 .. Len(file) PROVE end[k] = end[k - 1] + file[k].size
  <2>1. k \in 0 .. Len(file) /\ k # 0
    OBVIOUS
  <2> QED
    BY <1>4, <2>1
<1> QED
  BY <1>2, <1>5, <1>6

(* A file of pieces that have a size.                                        *)
IsFile(file) ==
  /\ Len(file) \in Nat /\ DOMAIN file = 1 .. Len(file)
  /\ \A k \in 1 .. Len(file) : file[k].size \in Nat

(* No piece ends before one that precedes it.                                *)
LEMMA EndsGrow ==
  \A file : IsFile(file) =>
    \A k \in 0 .. Len(file) :
      /\ Ends(file)[k] \in Nat
      /\ \A j \in 0 .. k : Ends(file)[j] <= Ends(file)[k]
<1>1. SUFFICES ASSUME NEW file, IsFile(file)
      PROVE  \A k \in 0 .. Len(file) :
               /\ Ends(file)[k] \in Nat
               /\ \A j \in 0 .. k : Ends(file)[j] <= Ends(file)[k]
  OBVIOUS
<1>2. PICK n : n = Len(file) /\ n \in Nat
  BY <1>1 DEF IsFile
<1>3. PICK end : end = Ends(file)
  OBVIOUS
<1> DEFINE Grown(k) == end[k] \in Nat /\ \A j \in 0 .. k : end[j] <= end[k]
           bad == {k \in 0 .. n : ~Grown(k)}
<1>4. SUFFICES ASSUME bad # {} PROVE FALSE
  BY <1>2, <1>3
<1>5. PICK k \in bad : \A j \in bad : k <= j
  <2>1. bad \subseteq Nat
    BY <1>2
  <2> HIDE DEF bad
  <2> QED
    BY <1>4, <2>1, LeastNumber
<1>6. end[0] = 0 /\ \A i \in 1 .. n : end[i] = end[i - 1] + file[i].size
  BY <1>1, <1>2, <1>3, EndsRecur
<1>7. k # 0
  <2>1. Grown(0)
    BY <1>6
  <2> QED
    BY <2>1
<1>8. k - 1 \in 0 .. n /\ Grown(k - 1)
  BY <1>2, <1>5, <1>7
<1>9. k \in 1 .. n /\ end[k] = end[k - 1] + file[k].size /\ file[k].size \in Nat
  BY <1>1, <1>2, <1>6, <1>7 DEF IsFile
<1>10. ~(end[k] \in Nat /\ \A j \in 0 .. k : end[j] <= end[k])
  OBVIOUS
<1>11. end[k - 1] \in Nat /\ \A j \in 0 .. k - 1 : end[j] <= end[k - 1]
  BY <1>8
<1>12. end[k] \in Nat /\ end[k - 1] <= end[k]
  BY <1>9, <1>11
<1>13. ASSUME NEW j \in 0 .. k PROVE end[j] <= end[k]
  <2>1. CASE j = k
    BY <2>1, <1>12
  <2>2. CASE j # k
    <3>1. j \in 0 .. k - 1
      BY <2>2, <1>9
    <3>2. end[j] <= end[k - 1]
      BY <3>1, <1>11
    <3>3. end[j] = 0 \/ end[j] \in Nat
      <4>1. j \in 0 .. n /\ j < k
        BY <3>1, <1>9, <1>2
      <4>2. j \notin bad
        BY <4>1, <1>5
      <4> QED
        BY <4>1, <4>2
    <3> QED
      BY <3>2, <3>3, <1>9, <1>11
  <2> QED
    BY <2>1, <2>2
<1> QED
  BY <1>10, <1>12, <1>13

(* Pieces that are not empty begin at places of their own.                   *)
LEMMA PieceIsFound ==
  \A file : IsFile(file) /\ (\A k \in DOMAIN file : file[k].size # 0) =>
    \A k \in DOMAIN file : PieceAt(file, Offset(file, k)) = file[k]
<1>1. SUFFICES ASSUME NEW file, IsFile(file), \A k \in DOMAIN file : file[k].size # 0,
                      NEW k \in DOMAIN file
      PROVE  PieceAt(file, Offset(file, k)) = file[k]
  OBVIOUS
<1>2. PICK n : n = Len(file) /\ n \in Nat /\ DOMAIN file = 1 .. n
  BY <1>1 DEF IsFile
<1>3. PICK end : end = Ends(file)
  OBVIOUS
<1>4. \A j \in 0 .. n : end[j] \in Nat /\ \A i \in 0 .. j : end[i] <= end[j]
  BY <1>1, <1>2, <1>3, EndsGrow
<1>5. \A j \in 1 .. n : end[j] = end[j - 1] + file[j].size /\ file[j].size \in Nat
  BY <1>1, <1>2, <1>3, EndsRecur DEF IsFile
<1>6. \A i, j \in 1 .. n : i < j => end[i - 1] < end[j - 1]
  <2>1. SUFFICES ASSUME NEW i \in 1 .. n, NEW j \in 1 .. n, i < j
        PROVE  end[i - 1] < end[j - 1]
    OBVIOUS
  <2>2. i - 1 \in 0 .. n /\ j - 1 \in 0 .. n /\ i \in 0 .. j - 1
    BY <1>2, <2>1
  <2>3. end[i] <= end[j - 1] /\ end[i - 1] \in Nat /\ end[i] \in Nat /\ end[j - 1] \in Nat
    BY <1>4, <2>2
  <2>4. end[i] = end[i - 1] + file[i].size /\ file[i].size \in Nat /\ file[i].size # 0
    BY <1>1, <1>2, <1>5
  <2> QED
    BY <2>3, <2>4
<1>7. \A j \in 1 .. n : end[j - 1] = end[k - 1] => j = k
  <2>1. SUFFICES ASSUME NEW j \in 1 .. n, end[j - 1] = end[k - 1], j # k PROVE FALSE
    OBVIOUS
  <2>2. j < k \/ k < j
    BY <2>1, <1>2
  <2>3. end[j - 1] < end[k - 1] \/ end[k - 1] < end[j - 1]
    BY <2>2, <1>2, <1>6
  <2>4. end[k - 1] \in Nat
    BY <1>2, <1>4
  <2> QED
    BY <2>1, <2>3, <2>4
<1>8. k = CHOOSE j \in DOMAIN file : Offset(file, j) = Offset(file, k)
  BY <1>2, <1>3, <1>7 DEF Offset
<1> QED
  BY <1>8 DEF PieceAt

(* Pieces end in a file where they do by themselves, from where they begin.  *)
Occurs(s, file, i) ==
  /\ IsFile(s) /\ IsFile(file)
  /\ i \in Nat /\ i + Len(s) <= Len(file)
  /\ \A k \in 1 .. Len(s) : file[i + k].size = s[k].size

LEMMA EndsShift ==
  \A s, file, i : Occurs(s, file, i) =>
    \A k \in 0 .. Len(s) : Ends(file)[i + k] = Ends(file)[i] + Ends(s)[k]
<1>1. SUFFICES ASSUME NEW s, NEW file, NEW i, Occurs(s, file, i)
      PROVE  \A k \in 0 .. Len(s) : Ends(file)[i + k] = Ends(file)[i] + Ends(s)[k]
  OBVIOUS
<1>2. PICK n : n = Len(s) /\ n \in Nat
  BY <1>1 DEF Occurs, IsFile
<1>3. PICK m : m = Len(file) /\ m \in Nat /\ i \in Nat /\ i + n <= m
  BY <1>1, <1>2 DEF Occurs, IsFile
<1>4. PICK end, part : end = Ends(file) /\ part = Ends(s)
  OBVIOUS
<1>5. /\ part[0] = 0
      /\ \A k \in 1 .. n : part[k] = part[k - 1] + s[k].size
      /\ \A k \in 1 .. m : end[k] = end[k - 1] + file[k].size
  BY <1>2, <1>3, <1>4, EndsRecur
<1>6. /\ \A k \in 0 .. n : part[k] \in Nat
      /\ \A k \in 0 .. m : end[k] \in Nat
  BY <1>1, <1>2, <1>3, <1>4, EndsGrow DEF Occurs
<1>7. \A k \in 1 .. n : file[i + k].size = s[k].size /\ s[k].size \in Nat
  BY <1>1, <1>2 DEF Occurs, IsFile
<1> DEFINE bad == {k \in 0 .. n : end[i + k] # end[i] + part[k]}
<1>8. SUFFICES ASSUME bad # {} PROVE FALSE
  BY <1>2, <1>4
<1>9. PICK k \in bad : \A j \in bad : k <= j
  <2>1. bad \subseteq Nat
    BY <1>2
  <2> HIDE DEF bad
  <2> QED
    BY <1>8, <2>1, LeastNumber
<1>10. k # 0
  <2>1. i + 0 = i /\ i \in 0 .. m
    BY <1>2, <1>3
  <2>2. end[i] + part[0] = end[i]
    BY <1>5, <1>6, <2>1
  <2>3. end[i + 0] = end[i] + part[0]
    BY <2>1, <2>2, Zenon
  <2> QED
    BY <2>3
<1>11. k \in 1 .. n /\ k - 1 \in 0 .. n /\ k - 1 \notin bad
  BY <1>2, <1>9, <1>10
<1>12. end[i + (k - 1)] = end[i] + part[k - 1]
  BY <1>11
<1>13. i + k \in 1 .. m /\ (i + k) - 1 = i + (k - 1) /\ i \in 0 .. m
  BY <1>2, <1>3, <1>11
<1>14. end[i + k] = end[i + (k - 1)] + s[k].size
  BY <1>5, <1>7, <1>11, <1>13
<1>15. end[i + k] = end[i] + part[k]
  <2>1. part[k] = part[k - 1] + s[k].size /\ part[k - 1] \in Nat /\ s[k].size \in Nat
        /\ end[i] \in Nat
    BY <1>5, <1>6, <1>7, <1>11, <1>13
  <2> QED
    BY <1>12, <1>14, <2>1
<1> QED
  BY <1>15

(* The bytes of one piece more, of one piece, and of two.                    *)
LEMMA BytesAppended ==
  \A s, t : Occurs(s, t, 0) /\ Len(t) = Len(s) + 1 => Bytes(t) = Bytes(s) + t[Len(t)].size
<1>1. SUFFICES ASSUME NEW s, NEW t, Occurs(s, t, 0), Len(t) = Len(s) + 1
      PROVE  Bytes(t) = Bytes(s) + t[Len(t)].size
  OBVIOUS
<1>2. PICK n : n = Len(s) /\ n \in Nat /\ Len(t) = n + 1
  BY <1>1 DEF Occurs, IsFile
<1>3. Ends(t)[0 + n] = Ends(t)[0] + Ends(s)[n]
  BY <1>1, <1>2, EndsShift
<1>4. Ends(t)[0] = 0 /\ Ends(t)[n + 1] = Ends(t)[n] + t[n + 1].size
  BY <1>2, EndsRecur
<1>5. Ends(s)[n] \in Nat
  BY <1>1, <1>2, EndsGrow DEF Occurs
<1> QED
  BY <1>2, <1>3, <1>4, <1>5 DEF Bytes

LEMMA BytesOfFew ==
  /\ Bytes(<<>>) = 0
  /\ \A p : p.size \in Nat => Bytes(<<p>>) = p.size
  /\ \A p, q : p.size \in Nat /\ q.size \in Nat => Bytes(<<p, q>>) = p.size + q.size
<1>1. Bytes(<<>>) = 0
  BY EndsRecur DEF Bytes
<1>2. ASSUME NEW p, p.size \in Nat PROVE Bytes(<<p>>) = p.size
  <2>1. PICK s : s = <<p>>
    OBVIOUS
  <2>2. Len(s) = 1 /\ s[1] = p
    BY <2>1
  <2>3. Ends(s)[0] = 0 /\ Ends(s)[1] = Ends(s)[1 - 1] + s[1].size
    BY <2>2, EndsRecur
  <2>4. Bytes(s) = p.size
    BY <1>2, <2>2, <2>3 DEF Bytes
  <2> QED
    BY <2>1, <2>4
<1>3. ASSUME NEW p, NEW q, p.size \in Nat, q.size \in Nat
      PROVE  Bytes(<<p, q>>) = p.size + q.size
  <2>1. PICK s : s = <<p, q>>
    OBVIOUS
  <2>2. Len(s) = 2 /\ s[1] = p /\ s[2] = q
    BY <2>1
  <2>3. PICK end : end = Ends(s)
    OBVIOUS
  <2>4. end[0] = 0 /\ \A k \in 1 .. 2 : end[k] = end[k - 1] + s[k].size
    <3>1. Len(s) \in Nat
      BY <2>2
    <3>2. Ends(s)[0] = 0 /\ \A k \in 1 .. Len(s) : Ends(s)[k] = Ends(s)[k - 1] + s[k].size
      BY <3>1, EndsRecur, Zenon
    <3> QED
      BY <2>2, <2>3, <3>2
  <2>5. end[1] = p.size /\ end[2] = end[1] + q.size
    BY <1>3, <2>2, <2>4
  <2>6. Bytes(s) = p.size + q.size
    BY <2>2, <2>3, <2>5 DEF Bytes
  <2> QED
    BY <2>1, <2>6
<1> QED
  BY <1>1, <1>2, <1>3, Zenon

(* Sequences of the same elements are the same.                              *)
LEMMA SameSequence ==
  ASSUME NEW S, NEW s \in Seq(S), NEW t \in Seq(S),
         Len(s) = Len(t), \A k \in 1 .. Len(s) : s[k] = t[k]
  PROVE  s = t
<1>1. DOMAIN s = 1 .. Len(s) /\ DOMAIN t = 1 .. Len(s) 
  OBVIOUS
<1>2. s = [k \in 1 .. Len(s) |-> s[k]] /\ t = [k \in 1 .. Len(s) |-> t[k]]
  BY <1>1
<1> QED
  BY <1>2

-----------------------------------------------------------------------------
(* The pieces of the file, by the number of the entry.                       *)
Header(e) == getLocalFileHeader(Filename[e])
Descriptor(e) == writeDataDescriptor(Filename[e])
RecordOf(e, size, offset) == writeCentralDirectoryRecord(size, Filename[e], offset)

(* The segments that the manifest lists, and the plaintext in them.          *)
Segment(k) ==
  Data(1, SizeOf(segmentInfos[k].encryptedSegmentSize, encryptedSize(segmentSizeDefault)))
Plain ==
  [k \in DOMAIN segmentInfos |->
     Data(1, SizeOf(segmentInfos[k].segmentSize, segmentSizeDefault))]

ArePayload(pieces) ==
  /\ pieces \in Seq(PayloadPieces)
  /\ Len(pieces) = Len(segmentInfos)
  /\ \A k \in DOMAIN pieces : pieces[k] = Segment(k) /\ pieces[k].size # 0

(* The output is the first header, the segments, and what follows them.      *)
OutputIs(rest) ==
  /\ Len(Output) = 1 + Len(segmentInfos) + Len(rest)
  /\ Output[1] = Header(1)
  /\ \A k \in DOMAIN segmentInfos : Output[1 + k] = Segment(k)
  /\ \A k \in DOMAIN rest : Output[1 + Len(segmentInfos) + k] = rest[k]

NotStartedYet ==
  /\ received = <<>> /\ queue = <<>> /\ segmentInfos = <<>>
  /\ crcCounter = <<>> /\ fileByteCount = 0 /\ totalByteCount = 0
  /\ buffered = 0 /\ bytesRead = 0 /\ ~isDone
  /\ entryInfos = [e \in EntryNumbers |-> NoInfo]

InPayload ==
  /\ OutputIs(<<>>)
  /\ ArePayload(crcCounter)
  /\ fileByteCount = Bytes(crcCounter)
  /\ totalByteCount = Header(1).size + fileByteCount
  /\ entryInfos = [e \in EntryNumbers |-> NoInfo]

(* Where the payload ends, and the header of the manifest begins.            *)
PayloadBytes == Bytes(entryInfos[1].crc)
ManifestOffset == Header(1).size + PayloadBytes + Descriptor(1).size
PayloadKept ==
  /\ DOMAIN entryInfos = EntryNumbers
  /\ ArePayload(entryInfos[1].crc)
  /\ entryInfos[1] = [offset |-> 0, size |-> PayloadBytes, crc |-> entryInfos[1].crc]

InManifest ==
  /\ OutputIs(<<Descriptor(1), Header(2)>>)
  /\ PayloadKept
  /\ entryInfos[2] = [offset |-> ManifestOffset, size |-> 0, crc |-> <<>>]
  /\ crcCounter = <<>> /\ fileByteCount = 0
  /\ totalByteCount = ManifestOffset + Header(2).size

Manifest == Data(2, ManifestSize)
PayloadRecord == RecordOf(1, PayloadBytes, 0)
ManifestRecord == RecordOf(2, ManifestSize, ManifestOffset)
EndRecord ==
  writeEndOfCentralDirectoryRecord(2, PayloadRecord.size + ManifestRecord.size,
    ManifestOffset + Header(2).size + ManifestSize + Descriptor(2).size)
IsClosed ==
  /\ OutputIs(<<Descriptor(1), Header(2), Manifest, Descriptor(2),
                PayloadRecord, ManifestRecord, EndRecord>>)
  /\ PayloadKept
  /\ entryInfos[2] = [offset |-> ManifestOffset, size |-> ManifestSize, crc |-> <<Manifest>>]

(* All that was read is in a segment or waits for the next.                  *)
NothingIsLost ==
  /\ Bytes(Plain) + buffered = bytesRead
  /\ isDone => source = <<>>
  /\ pull \in {"finish", "manifest"} => source = <<>> /\ buffered = 0

OutputTypes == \E P : received \in Seq(P) /\ queue \in Seq(P)

FileInv ==
  /\ OutputTypes
  /\ bytesRead \in Nat
  /\ pull = "lastSegment" => buffered > 0
  /\ stream = "new" => NotStartedYet
  /\ stream = "readable" =>
       /\ pull # "threw" /\ NothingIsLost
       /\ IF pull = "manifest" THEN InManifest ELSE InPayload
  /\ stream = "closed" =>
       pull = "none" /\ IsClosed /\ source = <<>> /\ Bytes(Plain) = bytesRead

(* What the pieces are.                                                      *)
LEMMA PiecesAre ==
  /\ Header(1) = [kind |-> "local", name |-> "0.payload", size |-> 67]
  /\ Header(2) = [kind |-> "local", name |-> "0.manifest.json", size |-> 73]
  /\ Descriptor(1) = [kind |-> "descriptor", name |-> "0.payload", size |-> 24]
  /\ Descriptor(2) = [kind |-> "descriptor", name |-> "0.manifest.json", size |-> 24]
  /\ Manifest = [kind |-> "data", name |-> "0.manifest.json", size |-> ManifestSize]
  /\ \A size, offset :
       /\ RecordOf(1, size, offset).kind = "record"
       /\ RecordOf(1, size, offset).name = "0.payload"
       /\ RecordOf(1, size, offset).size = 83
       /\ RecordOf(2, size, offset).kind = "record"
       /\ RecordOf(2, size, offset).name = "0.manifest.json"
       /\ RecordOf(2, size, offset).size = 89
<1>1. Filename[1] = "0.payload" /\ Filename[2] = "0.manifest.json"
  BY DEF Filename
<1>2. NameLength["0.payload"] = 9 /\ NameLength["0.manifest.json"] = 15
  BY DEF NameLength
<1>3. /\ Header(1) = [kind |-> "local", name |-> "0.payload", size |-> 67]
      /\ Header(2) = [kind |-> "local", name |-> "0.manifest.json", size |-> 73]
  BY <1>1, <1>2 DEF Header, getLocalFileHeader, LOCAL_FILE_HEADER_FIXED_SIZE,
     ZIP64_EXTENDED_INFORMATION_EXTRA_FIELD_SIZE
<1>4. /\ Descriptor(1) = [kind |-> "descriptor", name |-> "0.payload", size |-> 24]
      /\ Descriptor(2) = [kind |-> "descriptor", name |-> "0.manifest.json", size |-> 24]
      /\ Manifest = [kind |-> "data", name |-> "0.manifest.json", size |-> ManifestSize]
  BY <1>1 DEF Descriptor, writeDataDescriptor, Manifest, Data
<1>5. ASSUME NEW size, NEW offset
      PROVE  /\ RecordOf(1, size, offset).kind = "record"
             /\ RecordOf(1, size, offset).name = "0.payload"
             /\ RecordOf(1, size, offset).size = 83
             /\ RecordOf(2, size, offset).kind = "record"
             /\ RecordOf(2, size, offset).name = "0.manifest.json"
             /\ RecordOf(2, size, offset).size = 89
  BY <1>1, <1>2 DEF RecordOf, writeCentralDirectoryRecord, CENTRAL_DIRECTORY_RECORD_FIXED_SIZE,
     ZIP64_EXTENDED_INFORMATION_EXTRA_FIELD_SIZE
<1> QED
  BY <1>3, <1>4, <1>5, Zenon

(* What is enqueued is the end of the output.                                *)
Longer(pieces) ==
  /\ OutputTypes'
  /\ Len(Output') = Len(Output) + Len(pieces)
  /\ \A k \in 1 .. Len(Output) : Output'[k] = Output[k]
  /\ \A k \in 1 .. Len(pieces) : Output'[Len(Output) + k] = pieces[k]

LEMMA EnqueuesAppends ==
  ASSUME OutputTypes, pendingRead => queue = <<>>,
         NEW Q, NEW pieces \in Seq(Q), pieces # <<>>, Enqueues(pieces)
  PROVE  Longer(pieces)
<1>1. PICK P : received \in Seq(P) /\ queue \in Seq(P)
  BY DEF OutputTypes
<1>2. PICK R : R = P \cup Q
  OBVIOUS
<1>3. received \in Seq(R) /\ queue \in Seq(R) /\ pieces \in Seq(R)
  BY <1>1, <1>2
<1>4. PICK old, new : old = received \o queue /\ new = received' \o queue'
  OBVIOUS
<1>5. CASE pendingRead
  <2>1. received' = Append(received, Head(pieces)) /\ queue' = Tail(pieces)
    BY <1>5 DEF Enqueues
  <2>2. received' \in Seq(R) /\ queue' \in Seq(R)
    BY <1>3, <2>1
  <2>3. /\ Len(old) = Len(received) /\ \A k \in 1 .. Len(old) : old[k] = received[k]
    BY <1>3, <1>4, <1>5
  <2>4. /\ Len(received') = Len(received) + 1 /\ received'[Len(received) + 1] = pieces[1]
        /\ \A k \in 1 .. Len(received) : received'[k] = received[k]
        /\ Len(queue') = Len(pieces) - 1
        /\ \A k \in 1 .. Len(queue') : queue'[k] = pieces[k + 1]
    BY <1>3, <2>1
  <2>5. /\ Len(new) = Len(received') + Len(queue')
        /\ \A k \in 1 .. Len(received') : new[k] = received'[k]
        /\ \A k \in 1 .. Len(queue') : new[Len(received') + k] = queue'[k]
    BY <1>4, <2>2
  <2>6. Len(new) = Len(old) + Len(pieces)
    BY <1>3, <2>3, <2>4, <2>5
  <2>7. \A k \in 1 .. Len(old) : new[k] = old[k]
    BY <1>3, <2>3, <2>4, <2>5
  <2>8. ASSUME NEW k \in 1 .. Len(pieces) PROVE new[Len(old) + k] = pieces[k]
    <3>1. CASE k = 1
      BY <1>3, <2>3, <2>4, <2>5, <3>1
    <3>2. CASE k # 1
      <4>1. k - 1 \in 1 .. Len(queue') /\ Len(old) + k = Len(received') + (k - 1)
        BY <1>3, <2>3, <2>4, <3>2
      <4>2. new[Len(received') + (k - 1)] = queue'[k - 1] /\ queue'[k - 1] = pieces[(k - 1) + 1]
        BY <2>4, <2>5, <4>1
      <4> QED
        BY <4>1, <4>2
    <3> QED
      BY <3>1, <3>2
  <2> QED
    BY <1>4, <2>2, <2>6, <2>7, <2>8 DEF Longer, OutputTypes, Output
<1>6. CASE ~pendingRead
  <2>1. received' = received /\ queue' = queue \o pieces
    BY <1>6 DEF Enqueues
  <2>2. queue' \in Seq(R) /\ Len(queue') = Len(queue) + Len(pieces)
        /\ (\A k \in 1 .. Len(queue) : queue'[k] = queue[k])
        /\ (\A k \in 1 .. Len(pieces) : queue'[Len(queue) + k] = pieces[k])
    BY <1>3, <2>1
  <2>3. /\ Len(old) = Len(received) + Len(queue)
        /\ \A k \in 1 .. Len(received) : old[k] = received[k]
        /\ \A k \in 1 .. Len(queue) : old[Len(received) + k] = queue[k]
    BY <1>3, <1>4
  <2>4. /\ Len(new) = Len(received) + Len(queue')
        /\ \A k \in 1 .. Len(received) : new[k] = received[k]
        /\ \A k \in 1 .. Len(queue') : new[Len(received) + k] = queue'[k]
    BY <1>3, <1>4, <2>1, <2>2
  <2>5. Len(new) = Len(old) + Len(pieces)
    BY <1>3, <2>2, <2>3, <2>4
  <2>6. ASSUME NEW k \in 1 .. Len(old) PROVE new[k] = old[k]
    <3>1. CASE k <= Len(received)
      <4>1. k \in 1 .. Len(received)
        BY <1>3, <3>1
      <4> QED
        BY <2>3, <2>4, <4>1
    <3>2. CASE ~(k <= Len(received))
      <4>1. k - Len(received) \in 1 .. Len(queue) /\ k - Len(received) \in 1 .. Len(queue')
            /\ k = Len(received) + (k - Len(received))
        BY <1>3, <2>2, <2>3, <3>2
      <4>2. /\ old[Len(received) + (k - Len(received))] = queue[k - Len(received)]
            /\ new[Len(received) + (k - Len(received))] = queue'[k - Len(received)]
            /\ queue'[k - Len(received)] = queue[k - Len(received)]
        BY <2>2, <2>3, <2>4, <4>1
      <4> QED
        BY <4>1, <4>2
    <3> QED
      BY <3>1, <3>2
  <2>7. ASSUME NEW k \in 1 .. Len(pieces) PROVE new[Len(old) + k] = pieces[k]
    <3>1. Len(queue) + k \in 1 .. Len(queue') /\ Len(old) + k = Len(received) + (Len(queue) + k)
      BY <1>3, <2>2, <2>3
    <3>2. new[Len(received) + (Len(queue) + k)] = queue'[Len(queue) + k]
      BY <2>4, <3>1
    <3> QED
      BY <2>2, <3>1, <3>2
  <2> QED
    BY <1>3, <1>4, <2>1, <2>2, <2>5, <2>6, <2>7 DEF Longer, OutputTypes, Output
<1> QED
  BY <1>5, <1>6

(* What is read was queued.                                                  *)
LEMMA ReadsOutput ==
  ASSUME OutputTypes, queue # <<>>,
         received' = Append(received, Head(queue)), queue' = Tail(queue)
  PROVE  OutputTypes' /\ Output' = Output
<1>1. PICK P : received \in Seq(P) /\ queue \in Seq(P)
  BY DEF OutputTypes
<1>2. received' \in Seq(P) /\ queue' \in Seq(P)
  BY <1>1
<1>3. PICK old, new : old = received \o queue /\ new = received' \o queue'
  OBVIOUS
<1>4. old \in Seq(P) /\ new \in Seq(P) /\ Len(old) = Len(new)
  BY <1>1, <1>2, <1>3
<1>5. /\ Len(received') = Len(received) + 1 /\ received'[Len(received) + 1] = queue[1]
      /\ \A k \in 1 .. Len(received) : received'[k] = received[k]
      /\ Len(queue') = Len(queue) - 1
      /\ \A k \in 1 .. Len(queue') : queue'[k] = queue[k + 1]
  BY <1>1
<1>6. ASSUME NEW k \in 1 .. Len(old) PROVE old[k] = new[k]
  <2>1. /\ old[k] = IF k <= Len(received) THEN received[k] ELSE queue[k - Len(received)]
        /\ new[k] = IF k <= Len(received') THEN received'[k] ELSE queue'[k - Len(received')]
    BY <1>1, <1>2, <1>3, <1>4
  <2>2. Len(received) \in Nat /\ Len(queue) \in Nat /\ Len(old) = Len(received) + Len(queue)
    BY <1>1, <1>3
  <2>3. CASE k <= Len(received)
    BY <1>5, <2>1, <2>2, <2>3
  <2>4. CASE k = Len(received) + 1
    <3>1. k - Len(received) = 1
      BY <2>2, <2>4
    <3>2. new[k] = queue[1] /\ old[k] = queue[1]
      BY <1>5, <2>1, <2>2, <2>4, <3>1
    <3> QED
      BY <3>2
  <2>5. CASE k > Len(received) + 1
    <3>1. k - Len(received') \in 1 .. Len(queue')
          /\ (k - Len(received')) + 1 = k - Len(received)
      BY <1>5, <2>2, <2>5
    <3>2. new[k] = queue'[k - Len(received')] /\ old[k] = queue[k - Len(received)]
      BY <1>5, <2>1, <2>2, <2>5
    <3> QED
      BY <1>5, <3>1, <3>2
  <2> QED
    BY <2>2, <2>3, <2>4, <2>5
<1>7. old = new
  BY <1>4, <1>6, SameSequence
<1> QED
  BY <1>2, <1>3, <1>7 DEF OutputTypes, Output

(* What is enqueued comes after what is there.                               *)
LEMMA OutputGrows ==
  ASSUME NEW Q, NEW rest, NEW pieces, NEW next
  PROVE  /\ rest \in Seq(Q) /\ pieces \in Seq(Q) /\ next = rest \o pieces
         /\ segmentInfos \in Seq(Infos) /\ UNCHANGED segmentInfos
         /\ OutputIs(rest) /\ Longer(pieces)
         => OutputIs(next)'
<1>a. SUFFICES ASSUME rest \in Seq(Q), pieces \in Seq(Q), next = rest \o pieces,
                      segmentInfos \in Seq(Infos), UNCHANGED segmentInfos,
                      OutputIs(rest), Longer(pieces)
      PROVE  OutputIs(next)'
  OBVIOUS
<1>1. PICK n : n = Len(segmentInfos) /\ n \in Nat /\ DOMAIN segmentInfos = 1 .. n
  BY <1>a
<1>2. PICK m : m = Len(rest) /\ m \in Nat /\ DOMAIN rest = 1 .. m
  BY <1>a
<1>3. PICK p : p = Len(pieces) /\ p \in Nat
  BY <1>a
<1>b. /\ Len(next) = m + p /\ DOMAIN next = 1 .. m + p
      /\ \A k \in 1 .. m : next[k] = rest[k]
      /\ \A k \in 1 .. p : next[m + k] = pieces[k]
  BY <1>a, <1>2, <1>3
<1>4. /\ Len(Output) = 1 + n + m /\ Output[1] = Header(1)
      /\ \A k \in 1 .. n : Output[1 + k] = Segment(k)
      /\ \A k \in 1 .. m : Output[1 + n + k] = rest[k]
  BY <1>a, <1>1, <1>2 DEF OutputIs
<1>5. /\ Len(Output') = 1 + n + m + p
      /\ \A k \in 1 .. 1 + n + m : Output'[k] = Output[k]
      /\ \A k \in 1 .. p : Output'[1 + n + m + k] = pieces[k]
  BY <1>a, <1>1, <1>2, <1>3, <1>4 DEF Longer
<1>6. Len(Output') = 1 + n + (m + p)
  BY <1>1, <1>2, <1>3, <1>5
<1>7. Output'[1] = Header(1)
  <2>1. 1 \in 1 .. 1 + n + m
    BY <1>1, <1>2
  <2> QED
    BY <1>4, <1>5, <2>1
<1>8. \A k \in 1 .. n : Output'[1 + k] = Segment(k)
  <2>1. \A k \in 1 .. n : 1 + k \in 1 .. 1 + n + m
    BY <1>1, <1>2
  <2> QED
    BY <1>4, <1>5, <2>1
<1>9. ASSUME NEW k \in 1 .. m + p PROVE Output'[1 + n + k] = next[k]
  <2>1. CASE k <= m
    <3>1. k \in 1 .. m /\ 1 + n + k \in 1 .. 1 + n + m
      BY <1>1, <1>2, <2>1
    <3>2. next[k] = rest[k]
      BY <1>b, <3>1
    <3> QED
      BY <1>4, <1>5, <3>1, <3>2
  <2>2. CASE ~(k <= m)
    <3>1. k - m \in 1 .. p /\ 1 + n + k = 1 + n + m + (k - m) /\ k = m + (k - m)
      BY <1>1, <1>2, <1>3, <2>2
    <3>2. next[m + (k - m)] = pieces[k - m]
      BY <1>b, <3>1
    <3>3. Output'[1 + n + m + (k - m)] = pieces[k - m]
      BY <1>5, <3>1
    <3> QED
      BY <3>1, <3>2, <3>3
  <2> QED
    BY <2>1, <2>2
<1>10. \A k : Segment(k)' = Segment(k)
  BY <1>a DEF Segment
<1>11. Len(segmentInfos') = n /\ DOMAIN segmentInfos' = 1 .. n
  BY <1>a, <1>1
<1> QED
  BY <1>b, <1>6, <1>7, <1>8, <1>9, <1>10, <1>11 DEF OutputIs

(* A size that is left out is the default, and no other size is.             *)
LEMMA SizesAreRecorded ==
  \A size, default \in Nat \ {0} : SizeOf(Recorded(size, default), default) = size
  BY DEF SizeOf, Recorded, Default

(* One segment more: of the file, and of what it holds.                      *)
LEMMA SegmentRecorded ==
  ASSUME segmentInfos \in Seq(Infos), NEW length \in Nat \ {0},
         segmentInfos' = Append(segmentInfos, Info(length)),
         NEW n, n = Len(segmentInfos)
  PROVE  /\ Len(segmentInfos') = n + 1 /\ DOMAIN segmentInfos' = 1 .. n + 1
         /\ \A k \in 1 .. n : Segment(k)' = Segment(k)
         /\ Segment(n + 1)' = Data(1, encryptedSize(length))
         /\ Bytes(Plain) \in Nat
         /\ Bytes(Plain') = Bytes(Plain) + length
<1>1. segmentSizeDefault \in Nat \ {0} /\ CipherOverhead \in Nat
  BY WriterAssumption
<1>2. n \in Nat /\ DOMAIN segmentInfos = 1 .. n
  OBVIOUS
<1>3. Info(length) \in Infos
  BY InfosAre
<1>4. /\ Len(segmentInfos') = n + 1 /\ DOMAIN segmentInfos' = 1 .. n + 1
      /\ \A k \in 1 .. n : segmentInfos'[k] = segmentInfos[k]
      /\ segmentInfos'[n + 1] = Info(length)
  BY <1>2, <1>3
<1>5. \A k \in 1 .. n : Segment(k)' = Segment(k)
  BY <1>4 DEF Segment
<1>6. Segment(n + 1)' = Data(1, encryptedSize(length))
  <2>1. encryptedSize(length) \in Nat \ {0} /\ encryptedSize(segmentSizeDefault) \in Nat \ {0}
    BY <1>1 DEF encryptedSize
  <2>2. SizeOf(Info(length).encryptedSegmentSize, encryptedSize(segmentSizeDefault)) =
          encryptedSize(length)
    BY <2>1, SizesAreRecorded DEF Info
  <2> QED
    BY <1>4, <2>2 DEF Segment
<1> DEFINE plain(k) == SizeOf(segmentInfos[k].segmentSize, segmentSizeDefault)
<1>7. /\ DOMAIN Plain = 1 .. n /\ Len(Plain) = n
      /\ \A k \in 1 .. n : Plain[k].size = plain(k)
  BY <1>2 DEF Plain, Data
<1>8. \A k \in 1 .. n : plain(k) \in Nat
  <2>1. \A k \in 1 .. n : segmentInfos[k].segmentSize \in Nat
    <3>1. \A info \in Infos : info.segmentSize \in Nat
      BY DEF Infos
    <3>2. \A k \in 1 .. n : segmentInfos[k] \in Infos
      BY <1>2
    <3> QED
      BY <3>1, <3>2
  <2> QED
    BY <1>1, <2>1 DEF SizeOf
<1>9. /\ DOMAIN Plain' = 1 .. n + 1 /\ Len(Plain') = n + 1
      /\ \A k \in 1 .. n : Plain'[k].size = plain(k)
      /\ Plain'[n + 1].size = length
  <2>1. SizeOf(Info(length).segmentSize, segmentSizeDefault) = length
    BY <1>1, SizesAreRecorded DEF Info
  <2>2. DOMAIN Plain' = 1 .. n + 1 /\ \A k \in 1 .. n + 1 :
          Plain'[k].size = SizeOf(segmentInfos'[k].segmentSize, segmentSizeDefault)
    BY <1>4 DEF Plain, Data
  <2>3. n + 1 \in 1 .. n + 1 /\ \A k \in 1 .. n : k \in 1 .. n + 1
    BY <1>2
  <2>4. Len(Plain') = n + 1
    BY <1>2, <2>2
  <2> QED
    BY <1>4, <2>1, <2>2, <2>3, <2>4
<1> HIDE DEF plain
<1>10. IsFile(Plain) /\ IsFile(Plain')
  <2>1. \A k \in 1 .. n + 1 : Plain'[k].size \in Nat
    <3>1. \A k \in 1 .. n + 1 : k \in 1 .. n \/ k = n + 1
      BY <1>2
    <3> QED
      BY <1>8, <1>9, <3>1
  <2> QED
    BY <1>2, <1>7, <1>8, <1>9, <2>1 DEF IsFile
<1>11. Occurs(Plain, Plain', 0)
  BY <1>2, <1>7, <1>9, <1>10 DEF Occurs
<1>12. Bytes(Plain) \in Nat
  <2>1. n \in 0 .. n
    BY <1>2
  <2> QED
    BY <1>7, <1>10, <2>1, EndsGrow DEF Bytes
<1>13. Bytes(Plain') = Bytes(Plain) + length
  BY <1>7, <1>9, <1>11, BytesAppended
<1> QED
  BY <1>2, <1>4, <1>5, <1>6, <1>12, <1>13

(* The output after a segment, and what is counted of it.                    *)
LEMMA SegmentCounted ==
  ASSUME segmentInfos \in Seq(Infos), InPayload, NEW length \in Nat \ {0},
         NEW piece, piece = Data(1, encryptedSize(length)),
         segmentInfos' = Append(segmentInfos, Info(length)),
         Longer(<<piece>>), Counts(<<piece>>), UNCHANGED entryInfos
  PROVE  InPayload'
<1>1. PICK n : n = Len(segmentInfos) /\ n \in Nat /\ DOMAIN segmentInfos = 1 .. n
  OBVIOUS
<1>2. piece.size \in Nat \ {0} /\ piece \in PayloadPieces
  <2>1. CipherOverhead \in Nat
    BY WriterAssumption
  <2> QED
    BY <2>1 DEF Data, encryptedSize, PayloadPieces
<1>3. /\ Len(segmentInfos') = n + 1 /\ DOMAIN segmentInfos' = 1 .. n + 1
      /\ \A k \in 1 .. n : Segment(k)' = Segment(k)
      /\ Segment(n + 1)' = piece
  BY <1>1, SegmentRecorded
<1>4. /\ Len(Output) = 1 + n /\ Output[1] = Header(1)
      /\ \A k \in 1 .. n : Output[1 + k] = Segment(k)
  BY <1>1 DEF InPayload, OutputIs
<1>5. /\ Len(Output') = 1 + n + 1
      /\ \A k \in 1 .. 1 + n : Output'[k] = Output[k]
      /\ Output'[1 + n + 1] = piece
  <2>1. PICK s : s = <<piece>> /\ Len(s) = 1 /\ s[1] = piece
    OBVIOUS
  <2> QED
    BY <1>4, <2>1 DEF Longer
<1>6. OutputIs(<<>>)'
  <2>1. Len(Output') = 1 + (n + 1) + 0
    BY <1>1, <1>5
  <2>2. Output'[1] = Header(1)
    BY <1>1, <1>4, <1>5
  <2>3. ASSUME NEW k \in 1 .. n + 1 PROVE Output'[1 + k] = Segment(k)'
    <3>1. CASE k \in 1 .. n
      <4>1. 1 + k \in 1 .. 1 + n
        BY <1>1, <3>1
      <4> QED
        BY <1>3, <1>4, <1>5, <3>1, <4>1
    <3>2. CASE k = n + 1
      <4>1. 1 + k = 1 + n + 1
        BY <1>1, <3>2
      <4> QED
        BY <1>3, <1>5, <3>2, <4>1
    <3> QED
      BY <1>1, <3>1, <3>2
  <2> QED
    BY <1>3, <2>1, <2>2, <2>3 DEF OutputIs
<1>7. PICK old, new : old = crcCounter /\ new = crcCounter'
  OBVIOUS
<1>8. /\ old \in Seq(PayloadPieces) /\ Len(old) = n
      /\ \A k \in 1 .. n : old[k] = Segment(k) /\ old[k].size # 0
  BY <1>1, <1>7 DEF InPayload, ArePayload
<1>9. /\ new \in Seq(PayloadPieces) /\ Len(new) = n + 1 /\ new[n + 1] = piece
      /\ \A k \in 1 .. n : new[k] = old[k]
  <2>1. PICK s : s = <<piece>> /\ Len(s) = 1 /\ s[1] = piece
    OBVIOUS
  <2>3. s \in Seq(PayloadPieces)
    BY <1>2, <2>1
  <2>2. new = old \o s
    BY <1>7, <2>1 DEF Counts
  <2> QED
    BY <1>1, <1>8, <2>1, <2>2, <2>3
<1>10. ArePayload(new)'
  <2>1. ASSUME NEW k \in 1 .. n + 1 PROVE new[k] = Segment(k)' /\ new[k].size # 0
    <3>1. CASE k \in 1 .. n
      BY <1>3, <1>8, <1>9, <3>1
    <3>2. CASE k = n + 1
      BY <1>2, <1>3, <1>9, <3>2
    <3> QED
      BY <1>1, <3>1, <3>2
  <2>2. DOMAIN new = 1 .. n + 1
    BY <1>9
  <2> QED
    BY <1>3, <1>9, <2>1, <2>2 DEF ArePayload
<1>11. IsFile(old) /\ IsFile(new)
  <2>1. \A s \in Seq(PayloadPieces) : IsFile(s)
    <3>1. \A p \in PayloadPieces : p.size \in Nat
      BY DEF PayloadPieces
    <3> QED
      BY <3>1 DEF IsFile
  <2> QED
    BY <1>8, <1>9, <2>1
<1>12. Occurs(old, new, 0)
  BY <1>1, <1>8, <1>9, <1>11 DEF Occurs
<1>13. Bytes(new) = Bytes(old) + piece.size
  BY <1>8, <1>9, <1>12, BytesAppended
<1>14. Bytes(old) \in Nat
  <2>1. n \in 0 .. n
    BY <1>1
  <2> QED
    BY <1>8, <1>11, <2>1, EndsGrow DEF Bytes
<1>15. /\ fileByteCount = Bytes(old) /\ totalByteCount = 67 + fileByteCount
       /\ fileByteCount' = fileByteCount + piece.size
       /\ totalByteCount' = totalByteCount + piece.size
  <2>1. Bytes(<<piece>>) = piece.size
    BY <1>2, BytesOfFew
  <2>2. Header(1).size = 67
    BY PiecesAre
  <2> QED
    BY <1>7, <2>1, <2>2 DEF InPayload, Counts
<1>16. fileByteCount' = Bytes(new) /\ totalByteCount' = Header(1).size + fileByteCount'
  <2>1. Header(1).size = 67
    BY PiecesAre
  <2> QED
    <3>1. PICK b, size : b = Bytes(old) /\ size = piece.size /\ b \in Nat /\ size \in Nat
      BY <1>2, <1>14
    <3>2. fileByteCount' = b + size /\ totalByteCount' = 67 + b + size
      BY <1>15, <3>1
    <3> QED
      BY <1>13, <2>1, <3>1, <3>2
<1>17. entryInfos' = [e \in EntryNumbers |-> NoInfo]
  BY DEF InPayload
<1> QED
  BY <1>6, <1>7, <1>10, <1>16, <1>17 DEF InPayload

(* Where pull goes at the end of the content.                                *)
LEMMA WhereOver ==
  ASSUME NEW bytes \in Nat, NEW done \in BOOLEAN, NEW waiting \in Nat
  PROVE  LET next == AfterReading(bytes, done, waiting)
         IN /\ next = "finish" => done /\ bytes = 0
            /\ next = "lastSegment" => bytes > 0
<1> DEFINE next == AfterReading(bytes, done, waiting)
<1>1. CASE SegmentGoesOut(bytes, waiting)
  <2>1. segmentSizeDefault \in Nat \ {0}
    BY WriterAssumption
  <2>2. ~ContentOver(bytes, done)
    BY <1>1, <2>1 DEF ContentOver, SegmentGoesOut
  <2>3. next = "segment"
    BY <1>1, <2>2 DEF AfterReading
  <2> QED
    BY <2>3
<1>2. CASE ~SegmentGoesOut(bytes, waiting) /\ done /\ bytes > 0
  <2>1. next = "lastSegment"
    BY <1>2 DEF AfterReading, ContentOver
  <2> QED
    BY <1>2, <2>1
<1>3. CASE ~SegmentGoesOut(bytes, waiting) /\ ~(done /\ bytes > 0) /\ ContentOver(bytes, done)
  <2>1. next = "finish"
    BY <1>3 DEF AfterReading
  <2> QED
    BY <1>3, <2>1 DEF ContentOver
<1>4. CASE ~SegmentGoesOut(bytes, waiting) /\ ~(done /\ bytes > 0) /\ ~ContentOver(bytes, done)
  <2>1. next = "none"
    BY <1>4 DEF AfterReading
  <2> QED
    BY <2>1
<1> QED
  BY <1>1, <1>2, <1>3, <1>4

SuspendedOver(bytes, done) ==
  /\ pull' \in {"read", "segment", "lastSegment", "finish", "none"}
  /\ pull' = "finish" => done /\ bytes = 0
  /\ pull' = "lastSegment" => bytes > 0

LEMMA SuspendIsOver ==
  ASSUME NEW bytes \in Nat, NEW done \in BOOLEAN, NEW waiting \in Nat,
         Suspend(bytes, done, waiting)
  PROVE  SuspendedOver(bytes, done)
<1>1. pull' \in {"read", "segment", "lastSegment", "finish", "none"}
  BY SuspendWaits DEF Suspended
<1>2. CASE ReadsMore(bytes, done)
  BY <1>1, <1>2 DEF Suspend, ReadsMore, SuspendedOver
<1>3. CASE ~ReadsMore(bytes, done)
  <2>1. pull' = AfterReading(bytes, done, waiting)
    BY <1>3 DEF Suspend
  <2> QED
    BY <1>1, <2>1, WhereOver DEF SuspendedOver
<1> QED
  BY <1>2, <1>3

(* What is written stays.                                                    *)
LEMMA WrittenStays ==
  ASSUME UNCHANGED <<segmentInfos, countVars, entryInfos>>, Output' = Output
  PROVE  /\ InPayload => InPayload'
         /\ InManifest => InManifest'
         /\ IsClosed => IsClosed'
         /\ Plain' = Plain
<1>1. UNCHANGED <<segmentInfos, totalByteCount, crcCounter, fileByteCount, entryInfos>>
  BY DEF countVars
<1>2. \A rest : OutputIs(rest) => OutputIs(rest)'
  BY <1>1 DEF OutputIs, Segment
<1>3. \A pieces : ArePayload(pieces) => ArePayload(pieces)'
  BY <1>1 DEF ArePayload, Segment
<1>4. PICK crc : crc = crcCounter
  OBVIOUS
<1>5. PICK kept : kept = entryInfos[1].crc
  OBVIOUS
<1>6. InPayload => InPayload'
  BY <1>1, <1>2, <1>3, <1>4 DEF InPayload
<1>7. /\ PayloadBytes' = PayloadBytes /\ ManifestOffset' = ManifestOffset
      /\ PayloadRecord' = PayloadRecord /\ ManifestRecord' = ManifestRecord
      /\ EndRecord' = EndRecord
  BY <1>1 DEF PayloadBytes, ManifestOffset, PayloadRecord, ManifestRecord, EndRecord
<1>8. PayloadKept => PayloadKept'
  BY <1>1, <1>3, <1>5, <1>7 DEF PayloadKept
<1>9. InManifest => InManifest'
  BY <1>1, <1>2, <1>7, <1>8 DEF InManifest
<1>10. PICK end : end = <<Descriptor(1), Header(2), Manifest, Descriptor(2),
                          PayloadRecord, ManifestRecord, EndRecord>>
  OBVIOUS
<1>11. end = <<Descriptor(1), Header(2), Manifest, Descriptor(2),
               PayloadRecord, ManifestRecord, EndRecord>>'
  BY <1>7, <1>10
<1>12. IsClosed => IsClosed'
  BY <1>1, <1>2, <1>7, <1>8, <1>10, <1>11, Zenon DEF IsClosed
<1> QED
  BY <1>1, <1>6, <1>9, <1>12 DEF Plain

(* A stream that errs or is cancelled promises nothing.                      *)
LEMMA PromisesNothing ==
  ASSUME FileInv, OutputTypes', UNCHANGED <<bytesRead, buffered>>,
         stream' \in {"errored", "cancelled"}, pull' \in {pull, "threw"}
  PROVE  FileInv'
  BY DEF FileInv

LEMMA ErrsTypes ==
  ASSUME OutputTypes, NEW pieces, Errs(pieces)
  PROVE  OutputTypes' /\ stream' = "errored"
<1>1. PICK P : received \in Seq(P) /\ queue \in Seq(P)
  BY DEF OutputTypes
<1>2. PICK R : R = P \cup {Head(pieces)}
  OBVIOUS
<1>3. received \in Seq(R) /\ Head(pieces) \in R
  BY <1>1, <1>2
<1>4. Append(received, Head(pieces)) \in Seq(R)
  BY <1>3
<1>5. received' \in {received, Append(received, Head(pieces))}
      /\ queue' = <<>> /\ stream' = "errored"
  BY DEF Errs
<1>6. received' \in Seq(R) /\ queue' \in Seq(R)
  BY <1>3, <1>4, <1>5
<1> QED
  BY <1>5, <1>6 DEF OutputTypes

(* FileInv holds from the beginning, and every step keeps it.                *)
LEMMA InitFile == Init => FileInv
<1> SUFFICES ASSUME Init PROVE FileInv
  OBVIOUS
<1>1. NotStartedYet
  BY DEF Init, NotStartedYet
<1>2. OutputTypes
  BY DEF Init, OutputTypes
<1>3. stream = "new" /\ pull = "none" /\ bytesRead = 0
  BY DEF Init
<1> QED
  BY <1>1, <1>2, <1>3 DEF FileInv

LEMMA NoBytes == \A s : DOMAIN s = {} => Bytes(s) = 0
<1>1. SUFFICES ASSUME NEW s, DOMAIN s = {} PROVE Bytes(s) = 0
  OBVIOUS
<1>2. Len(s) = 0
  <2>1. DOMAIN s = 1 .. 0
    BY <1>1
  <2> QED
    BY <2>1
<1> QED
  BY <1>2, EndsRecur DEF Bytes

LEMMA StartFiles == WriterInv /\ FileInv /\ Start => FileInv'
<1> SUFFICES ASSUME WriterInv, FileInv, Start PROVE FileInv'
  OBVIOUS
<1>1. /\ NotStartedYet /\ OutputTypes /\ pull = "none" /\ stream = "new"
      /\ UNCHANGED <<bytesRead, buffered, isDone, pull, segmentInfos, crcCounter, fileByteCount,
                     entryInfos, received>>
  BY DEF FileInv, WriterInv, NotStarted, Start, sourceVars
<1>2. totalByteCount' = Header(1).size
  BY DEF Start, Header
<1>3. CASE stream' = "errored" /\ queue' = <<>>
  <2>1. OutputTypes'
    BY <1>1, <1>3 DEF OutputTypes
  <2> QED
    BY <1>1, <1>3, <2>1, PromisesNothing
<1>4. CASE stream' = "readable" /\ queue' = <<Header(1)>>
  <2>1. received' = <<>> /\ segmentInfos' = <<>> /\ crcCounter' = <<>> /\ fileByteCount' = 0
        /\ buffered' = 0 /\ bytesRead' = 0 /\ ~isDone' /\ pull' = "none"
        /\ entryInfos' = [e \in EntryNumbers |-> NoInfo]
    BY <1>1 DEF NotStartedYet
  <2>2. PICK h : h = Header(1)
    OBVIOUS
  <2>3. Output' = <<>> \o <<h>>
    BY <1>4, <2>1, <2>2 DEF Output
  <2>4. Len(Output') = 1 /\ Output'[1] = h
    BY <2>3
  <2>5. OutputTypes'
    <3>1. received' \in Seq({h}) /\ queue' \in Seq({h})
      BY <1>4, <2>1, <2>2
    <3> QED
      BY <3>1 DEF OutputTypes
  <2>6. OutputIs(<<>>)'
    BY <2>1, <2>2, <2>4 DEF OutputIs
  <2>7. ArePayload(<<>>)'
    BY <2>1 DEF ArePayload
  <2>8. Bytes(<<>>) = 0 /\ Header(1).size = 67
    BY BytesOfFew, PiecesAre
  <2>9. InPayload'
    BY <1>2, <2>1, <2>6, <2>7, <2>8 DEF InPayload
  <2>10. Bytes(Plain)' = 0
    <3>1. DOMAIN Plain' = {}
      BY <2>1 DEF Plain
    <3> QED
      BY <3>1, NoBytes
  <2>11. NothingIsLost'
    BY <2>1, <2>10 DEF NothingIsLost
  <2> QED
    BY <1>4, <2>1, <2>5, <2>9, <2>11 DEF FileInv
<1> QED
  BY <1>3, <1>4 DEF Start, Header

(* Pull reads, or goes on.                                                   *)
LEMMA ReadingFiles ==
  ASSUME FileInv, stream # "new", stream # "closed", pull # "manifest",
         pull' \in {"read", "segment", "lastSegment", "finish", "none"},
         pull' = "lastSegment" => buffered' > 0, bytesRead' \in Nat,
         stream = "readable" => NothingIsLost',
         UNCHANGED <<segmentInfos, countVars, entryInfos, streamVars>>
  PROVE  FileInv'
<1>1. Output' = Output /\ OutputTypes' /\ stream' = stream
  BY DEF streamVars, Output, OutputTypes, FileInv
<1>2. InPayload => InPayload'
  BY <1>1, WrittenStays
<1>3. stream = "readable" => InPayload
  BY DEF FileInv
<1> QED
  BY <1>1, <1>2, <1>3 DEF FileInv

LEMMA PullFiles == WriterInv /\ FileInv /\ Pull => FileInv'
<1> SUFFICES ASSUME WriterInv, FileInv, Pull PROVE FileInv'
  OBVIOUS
<1>1. /\ stream = "readable" /\ pull = "none" /\ isDone' = FALSE
      /\ Suspend(buffered, FALSE, Len(queue))
      /\ UNCHANGED <<source, bytesRead, buffered, segmentInfos, countVars, entryInfos,
                     streamVars>>
  BY DEF Pull, sourceVars
<1>2. buffered \in Nat /\ Len(queue) \in Nat
  <2>1. PICK P : queue \in Seq(P)
    BY DEF WriterInv, WriterTypes
  <2> QED
    BY <2>1 DEF WriterInv, WriterTypes
<1>3. SuspendedOver(buffered, FALSE)
  <2>1. FALSE \in BOOLEAN
    OBVIOUS
  <2> QED
    BY <1>1, <1>2, <2>1, SuspendIsOver, Zenon
<1>4. NothingIsLost'
  <2>1. Plain' = Plain /\ Bytes(Plain) + buffered = bytesRead
    BY <1>1 DEF Plain, FileInv, NothingIsLost
  <2>2. pull' \notin {"finish", "manifest"}
    BY <1>3 DEF SuspendedOver
  <2> QED
    BY <1>1, <2>1, <2>2 DEF NothingIsLost
<1>5. bytesRead' \in Nat
  BY <1>1 DEF FileInv
<1> QED
  BY <1>1, <1>3, <1>4, <1>5, ReadingFiles DEF SuspendedOver

(* The plaintext in the segments, as a number.                               *)
LEMMA PlainCounts == WriterInv => Bytes(Plain) \in Nat
<1>1. SUFFICES ASSUME WriterInv PROVE Bytes(Plain) \in Nat
  OBVIOUS
<1>2. segmentInfos \in Seq(Infos)
  BY <1>1 DEF WriterInv, WriterTypes
<1>3. PICK n : n = Len(segmentInfos) /\ n \in Nat /\ DOMAIN segmentInfos = 1 .. n
  BY <1>2
<1>4. DOMAIN Plain = 1 .. n
      /\ \A k \in 1 .. n :
           Plain[k].size = SizeOf(segmentInfos[k].segmentSize, segmentSizeDefault)
  BY <1>3 DEF Plain, Data
<1>5. \A k \in 1 .. n : segmentInfos[k].segmentSize \in Nat
  <2>1. \A info \in Infos : info.segmentSize \in Nat
    BY DEF Infos
  <2>2. \A k \in 1 .. n : segmentInfos[k] \in Infos
    BY <1>2, <1>3
  <2> QED
    BY <2>1, <2>2
<1>6. segmentSizeDefault \in Nat
  BY WriterAssumption
<1>7. \A k \in 1 .. n : Plain[k].size \in Nat
  BY <1>4, <1>5, <1>6 DEF SizeOf
<1>8. Len(Plain) = n /\ n \in 0 .. n
  BY <1>3, <1>4
<1> QED
  BY <1>3, <1>4, <1>7, <1>8, EndsGrow DEF Bytes, IsFile

LEMMA ReadSourceFiles == WriterInv /\ FileInv /\ ReadSource => FileInv'
<1> SUFFICES ASSUME WriterInv, FileInv, ReadSource PROVE FileInv'
  OBVIOUS
<1> DEFINE chunk == IF source = <<>> THEN 0 ELSE Head(source)
<1>1. /\ pull = "read" /\ buffered' = buffered + chunk /\ bytesRead' = bytesRead + chunk
      /\ isDone' = (source = <<>>)
      /\ source' = IF source = <<>> THEN <<>> ELSE Tail(source)
      /\ Suspend(buffered + chunk, source = <<>>, Len(queue))
      /\ UNCHANGED <<segmentInfos, countVars, entryInfos, streamVars>>
  BY DEF ReadSource
<1>2. chunk \in Nat /\ buffered \in Nat /\ bytesRead \in Nat /\ Len(queue) \in Nat
  <2>1. source \in Seq(Nat) /\ buffered \in Nat
    BY DEF WriterInv, WriterTypes
  <2>2. bytesRead \in Nat
    BY DEF FileInv
  <2>3. queue = <<>>
    BY <1>1 DEF WriterInv, QueueIsFree
  <2> QED
    BY <2>1, <2>2, <2>3
<1> HIDE DEF chunk
<1>3. stream # "new" /\ stream # "closed"
  BY <1>1 DEF WriterInv, NotStarted, FileInv
<1>4. SuspendedOver(buffered + chunk, source = <<>>)
  <2>1. buffered + chunk \in Nat /\ (source = <<>>) \in BOOLEAN
    BY <1>2
  <2> QED
    BY <1>1, <1>2, <2>1, SuspendIsOver
<1>5. stream = "readable" => NothingIsLost'
  <2>1. SUFFICES ASSUME stream = "readable" PROVE NothingIsLost'
    OBVIOUS
  <2>2. Plain' = Plain /\ Bytes(Plain) + buffered = bytesRead
    BY <1>1, <2>1 DEF Plain, FileInv, NothingIsLost
  <2>3. Bytes(Plain) \in Nat
    BY PlainCounts
  <2>4. PICK b : b = Bytes(Plain) /\ b \in Nat /\ Bytes(Plain') = b
    BY <2>2, <2>3
  <2>5. b + buffered' = bytesRead'
    BY <1>1, <1>2, <2>2, <2>4
  <2>6. isDone' => source' = <<>>
    BY <1>1
  <2>7. pull' \in {"finish", "manifest"} => source' = <<>> /\ buffered' = 0
    BY <1>1, <1>4, <2>6 DEF SuspendedOver
  <2> QED
    BY <2>4, <2>5, <2>6, <2>7 DEF NothingIsLost
<1>6. bytesRead' \in Nat
  BY <1>1, <1>2
<1>7. pull' \in {"read", "segment", "lastSegment", "finish", "none"}
      /\ (pull' = "lastSegment" => buffered' > 0)
  BY <1>1, <1>4 DEF SuspendedOver
<1> QED
  BY <1>1, <1>3, <1>5, <1>6, <1>7, ReadingFiles

LEMMA PullThrowsFiles == WriterInv /\ FileInv /\ PullThrows => FileInv'
<1> SUFFICES ASSUME WriterInv, FileInv, PullThrows PROVE FileInv'
  OBVIOUS
<1>1. /\ pull' = "threw" /\ stream \in {"readable", "errored", "cancelled"}
      /\ UNCHANGED <<bytesRead, buffered>> /\ OutputTypes
  BY DEF PullThrows, WriterInv, WriterTypes, NotStarted, FileInv, sourceVars
<1>2. CASE stream = "readable"
  <2>1. Errs(<<>>)
    BY <1>2 DEF PullThrows
  <2>2. OutputTypes' /\ stream' = "errored"
    BY <1>1, <2>1, ErrsTypes
  <2> QED
    BY <1>1, <2>2, PromisesNothing
<1>3. CASE stream # "readable"
  <2>1. UNCHANGED <<stream, queue, received>>
    BY <1>3 DEF PullThrows, streamVars
  <2>2. OutputTypes'
    BY <1>1, <2>1 DEF OutputTypes
  <2> QED
    BY <1>1, <1>3, <2>1, <2>2, PromisesNothing
<1> QED
  BY <1>2, <1>3

LEMMA SegmentFiles == WriterInv /\ FileInv /\ SegmentEncrypted => FileInv'
<1> SUFFICES ASSUME WriterInv, FileInv, SegmentEncrypted PROVE FileInv'
  OBVIOUS
<1> DEFINE size == IF pull = "segment" THEN segmentSizeDefault ELSE buffered
<1>1. PICK length : length = size
  OBVIOUS
<1>2. PICK piece : piece = Data(1, encryptedSize(length))
  OBVIOUS
<1>3. PICK waiting : waiting = IF pendingRead THEN 0 ELSE Len(queue) + 1
  OBVIOUS
<1>4. /\ pull \in {"segment", "lastSegment"}
      /\ segmentInfos' = Append(segmentInfos, Info(length))
      /\ UNCHANGED <<source, bytesRead, isDone, entryInfos>>
  BY <1>1 DEF SegmentEncrypted, Info, Data, sourceVars
<1>5. \/ /\ stream = "readable" /\ Enqueues(<<piece>>) /\ stream' = stream
         /\ Counts(<<piece>>)
         /\ buffered' = buffered - length
         /\ pull' = AfterReading(buffered - length, isDone, waiting)
      \/ /\ pull' = "threw" /\ buffered' = buffered
         /\ IF stream = "readable" THEN Errs(<<>>) ELSE UNCHANGED streamVars
  BY <1>1, <1>2, <1>3 DEF SegmentEncrypted
<1>6. /\ stream \in {"readable", "errored", "cancelled"} /\ OutputTypes
      /\ pull = "lastSegment" => buffered > 0 /\ isDone
      /\ pull = "segment" => buffered >= segmentSizeDefault
      /\ queue = <<>> /\ buffered \in Nat /\ isDone \in BOOLEAN
      /\ pendingRead \in BOOLEAN /\ segmentInfos \in Seq(Infos)
  BY <1>4 DEF FileInv, WriterInv, WriterTypes, NotStarted, SegmentIsFull, LastIsShort, QueueIsFree
<1>7. segmentSizeDefault \in Nat \ {0}
  BY WriterAssumption
<1>8. length \in Nat \ {0} /\ length <= buffered
  <2>1. CASE pull = "segment"
    BY <1>1, <1>6, <1>7, <2>1
  <2>2. CASE pull = "lastSegment"
    BY <1>1, <1>6, <2>2
  <2> QED
    BY <1>4, <2>1, <2>2
<1>9. CASE /\ pull' = "threw" /\ buffered' = buffered
           /\ IF stream = "readable" THEN Errs(<<>>) ELSE UNCHANGED streamVars
  <2>1. CASE stream = "readable"
    <3>1. OutputTypes' /\ stream' = "errored"
      BY <1>6, <1>9, <2>1, ErrsTypes
    <3> QED
      BY <1>4, <1>9, <3>1, PromisesNothing
  <2>2. CASE stream # "readable"
    <3>1. UNCHANGED <<stream, queue, received>>
      BY <1>9, <2>2 DEF streamVars
    <3>2. OutputTypes'
      BY <1>6, <3>1 DEF OutputTypes
    <3> QED
      BY <1>4, <1>6, <1>9, <2>2, <3>1, <3>2, PromisesNothing
  <2> QED
    BY <2>1, <2>2
<1>10. CASE /\ stream = "readable" /\ Enqueues(<<piece>>) /\ stream' = stream
            /\ Counts(<<piece>>)
            /\ buffered' = buffered - length
            /\ pull' = AfterReading(buffered - length, isDone, waiting)
  <2>1. Longer(<<piece>>)
    <3>1. <<piece>> \in Seq({piece})
      OBVIOUS
    <3>2. <<piece>> # <<>>
      OBVIOUS
    <3> QED
      BY <1>6, <1>10, <3>1, <3>2, EnqueuesAppends
  <2>2. InPayload /\ NothingIsLost
    BY <1>4, <1>10 DEF FileInv
  <2>3. InPayload'
    BY <1>2, <1>4, <1>6, <1>8, <1>10, <2>1, <2>2, SegmentCounted
  <2>4. Bytes(Plain) \in Nat /\ Bytes(Plain') = Bytes(Plain) + length
    <3>1. PICK n : n = Len(segmentInfos)
      OBVIOUS
    <3> QED
      BY <1>4, <1>6, <1>8, <3>1, SegmentRecorded
  <2>5. waiting \in Nat /\ buffered - length \in Nat
    BY <1>3, <1>6, <1>8
  <2>6. /\ pull' \in {"segment", "lastSegment", "finish", "none"}
        /\ pull' = "finish" => isDone /\ buffered' = 0
        /\ pull' = "lastSegment" => buffered' > 0
    <3>1. PICK rest : rest = buffered - length /\ rest \in Nat
      BY <2>5
    <3>2. pull' = AfterReading(rest, isDone, waiting) /\ buffered' = rest
      BY <1>10, <3>1
    <3>3. LET next == AfterReading(rest, isDone, waiting)
          IN next \in {"segment", "lastSegment", "finish", "none"}
      BY <1>6, <2>5, <3>1, WhereNext
    <3>4. LET next == AfterReading(rest, isDone, waiting)
          IN /\ next = "finish" => isDone /\ rest = 0
             /\ next = "lastSegment" => rest > 0
      BY <1>6, <2>5, <3>1, WhereOver
    <3> QED
      BY <3>2, <3>3, <3>4
  <2>7. NothingIsLost'
    <3>1. PICK b : b = Bytes(Plain) /\ b \in Nat /\ Bytes(Plain') = b + length
      BY <2>4
    <3>2. b + buffered = bytesRead /\ (isDone => source = <<>>)
      BY <2>2, <3>1 DEF NothingIsLost
    <3>3. b + length + buffered' = bytesRead'
      BY <1>4, <1>6, <1>8, <1>10, <3>1, <3>2
    <3>4. isDone' => source' = <<>>
      BY <1>4, <3>2
    <3>5. pull' \in {"finish", "manifest"} => source' = <<>> /\ buffered' = 0
      BY <1>4, <2>6, <3>2
    <3> QED
      BY <3>1, <3>3, <3>4, <3>5 DEF NothingIsLost
  <2>8. OutputTypes'
    BY <2>1 DEF Longer
  <2>9. bytesRead' \in Nat
    BY <1>4 DEF FileInv
  <2> QED
    BY <1>10, <2>3, <2>6, <2>7, <2>8, <2>9 DEF FileInv
<1> QED
  BY <1>5, <1>9, <1>10

(* What an entry is said to be.                                              *)
LEMMA FinishPayloadFiles == WriterInv /\ FileInv /\ FinishPayload => FileInv'
<1> SUFFICES ASSUME WriterInv, FileInv, FinishPayload PROVE FileInv'
  OBVIOUS
<1>1. PICK pieces : pieces = <<Descriptor(1), Header(2)>>
  OBVIOUS
<1>2. /\ pull = "finish"
      /\ UNCHANGED <<source, bytesRead, buffered, isDone, segmentInfos>>
  BY DEF FinishPayload, sourceVars
<1>3. \/ /\ stream = "readable" /\ Enqueues(pieces) /\ stream' = stream
         /\ totalByteCount' = totalByteCount + Bytes(pieces)
         /\ crcCounter' = <<>> /\ fileByteCount' = 0
         /\ entryInfos' =
              [entryInfos EXCEPT
                 ![1] = [offset |-> 0, size |-> fileByteCount, crc |-> crcCounter],
                 ![2].offset = totalByteCount + Descriptor(1).size]
         /\ pull' = "manifest"
      \/ /\ pull' = "threw"
         /\ IF stream = "readable" THEN Errs(UpToLimit(pieces)) ELSE UNCHANGED streamVars
  BY <1>1 DEF FinishPayload, Descriptor, Header, Reset, OffsetBefore
<1>4. /\ stream \in {"readable", "errored", "cancelled"} /\ OutputTypes
      /\ pendingRead => queue = <<>>
      /\ segmentInfos \in Seq(Infos)
  BY <1>2 DEF FileInv, WriterInv, WriterTypes, NotStarted, QueueIsFree
<1>5. CASE /\ pull' = "threw"
           /\ IF stream = "readable" THEN Errs(UpToLimit(pieces)) ELSE UNCHANGED streamVars
  <2>1. CASE stream = "readable"
    <3>1. OutputTypes' /\ stream' = "errored"
      BY <1>4, <1>5, <2>1, ErrsTypes
    <3> QED
      BY <1>2, <1>5, <3>1, PromisesNothing
  <2>2. CASE stream # "readable"
    <3>1. UNCHANGED <<stream, queue, received>>
      BY <1>5, <2>2 DEF streamVars
    <3>2. OutputTypes'
      BY <1>4, <3>1 DEF OutputTypes
    <3> QED
      BY <1>2, <1>4, <1>5, <2>2, <3>1, <3>2, PromisesNothing
  <2> QED
    BY <2>1, <2>2
<1>6. CASE /\ stream = "readable" /\ Enqueues(pieces) /\ stream' = stream
           /\ totalByteCount' = totalByteCount + Bytes(pieces)
           /\ crcCounter' = <<>> /\ fileByteCount' = 0
           /\ entryInfos' =
                [entryInfos EXCEPT
                   ![1] = [offset |-> 0, size |-> fileByteCount, crc |-> crcCounter],
                   ![2].offset = totalByteCount + Descriptor(1).size]
           /\ pull' = "manifest"
  <2>1. InPayload /\ NothingIsLost
    BY <1>2, <1>6 DEF FileInv
  <2>2. PICK Q : Q = {Descriptor(1), Header(2)}
    OBVIOUS
  <2>3. pieces \in Seq(Q) /\ pieces # <<>> /\ <<>> \in Seq(Q) /\ <<>> \o pieces = pieces
    <3>1. PICK d, h : d = Descriptor(1) /\ h = Header(2)
      OBVIOUS
    <3>2. <<d, h>> \in Seq({d, h}) /\ <<d, h>> # <<>> /\ <<>> \in Seq({d, h})
          /\ <<>> \o <<d, h>> = <<d, h>>
      OBVIOUS
    <3> QED
      BY <1>1, <2>2, <3>1, <3>2, Zenon
  <2>4. Longer(pieces)
    BY <1>4, <1>6, <2>3, EnqueuesAppends
  <2>5. OutputIs(pieces)'
    <3>1. OutputIs(<<>>)
      BY <2>1 DEF InPayload
    <3>2. UNCHANGED segmentInfos
      BY <1>2
    <3>3. pieces = <<>> \o pieces
      BY <2>3, Zenon
    <3> QED
      BY <1>4, <2>3, <2>4, <3>1, <3>2, <3>3, OutputGrows, Zenon
  <2>6. OutputIs(<<Descriptor(1), Header(2)>>)'
    BY <1>1, <2>5
  <2>7. PICK crc : crc = crcCounter
    OBVIOUS
  <2>8. PICK total, count : total = totalByteCount /\ count = fileByteCount
    OBVIOUS
  <2>9. ArePayload(crc) /\ count = Bytes(crc) /\ total = Header(1).size + Bytes(crc)
        /\ entryInfos = [e \in EntryNumbers |-> NoInfo]
    BY <2>1, <2>7, <2>8 DEF InPayload
  <2>10. PICK offset, first :
           /\ offset = total + Descriptor(1).size
           /\ first = [offset |-> 0, size |-> count, crc |-> crc]
           /\ entryInfos' = [entryInfos EXCEPT ![1] = first, ![2].offset = offset]
    BY <1>6, <2>7, <2>8
  <2>11. /\ DOMAIN entryInfos' = EntryNumbers
         /\ entryInfos'[1] = [offset |-> 0, size |-> count, crc |-> crc]
         /\ entryInfos'[2] = [offset |-> total + Descriptor(1).size, size |-> 0, crc |-> <<>>]
    <3>1. 1 \in EntryNumbers /\ 2 \in EntryNumbers
      BY DEF EntryNumbers
    <3>2. DOMAIN entryInfos = EntryNumbers /\ entryInfos[2] = NoInfo
      BY <2>9, <3>1
    <3>3. /\ DOMAIN entryInfos' = EntryNumbers /\ entryInfos'[1] = first
          /\ entryInfos'[2] = [NoInfo EXCEPT !.offset = offset]
      BY <2>10, <3>1, <3>2
    <3>4. [NoInfo EXCEPT !.offset = offset] = [offset |-> offset, size |-> 0, crc |-> <<>>]
      BY DEF NoInfo
    <3> QED
      BY <2>10, <3>3, <3>4, Zenon
  <2>12. PayloadBytes' = Bytes(crc) /\ ManifestOffset' = total + Descriptor(1).size
    BY <2>9, <2>11 DEF PayloadBytes, ManifestOffset
  <2>13. ArePayload(crc)'
    BY <1>2, <2>9 DEF ArePayload, Segment
  <2>14. PayloadKept'
    BY <2>9, <2>11, <2>12, <2>13 DEF PayloadKept
  <2>15. totalByteCount' = ManifestOffset' + Header(2).size
    <3>1. Descriptor(1).size = 24 /\ Header(2).size = 73
      BY PiecesAre
    <3>2. Bytes(pieces) = 24 + 73
      BY <1>1, <3>1, BytesOfFew
    <3>3. total \in Nat
      <4>1. crc \in Seq(PayloadPieces)
        BY <2>9 DEF ArePayload
      <4>2. PICK n : n = Len(crc) /\ n \in Nat /\ n \in 0 .. n /\ DOMAIN crc = 1 .. n
        BY <4>1
      <4>3. \A p \in PayloadPieces : p.size \in Nat
        BY DEF PayloadPieces
      <4>4. \A k \in 1 .. n : crc[k] \in PayloadPieces
        BY <4>1, <4>2
      <4>5. IsFile(crc)
        BY <4>2, <4>3, <4>4 DEF IsFile
      <4>6. Bytes(crc) \in Nat
        BY <4>2, <4>5, EndsGrow DEF Bytes
      <4>7. Header(1).size = 67
        BY PiecesAre
      <4> QED
        BY <2>9, <4>6, <4>7
    <3> QED
      BY <1>6, <2>8, <2>12, <3>1, <3>2, <3>3
  <2>16. InManifest'
    BY <1>6, <2>6, <2>11, <2>12, <2>14, <2>15 DEF InManifest
  <2>17. NothingIsLost'
    <3>1. Plain' = Plain
      BY <1>2 DEF Plain
    <3> QED
      BY <1>2, <2>1, <3>1 DEF NothingIsLost
  <2>18. OutputTypes' /\ bytesRead' \in Nat
    BY <1>2, <2>4 DEF Longer, FileInv
  <2> QED
    BY <1>6, <2>16, <2>17, <2>18 DEF FileInv
<1> QED
  BY <1>3, <1>5, <1>6

(* What a concatenation is.                                                  *)
LEMMA JoinedIs ==
  \A P, s, t : s \in Seq(P) /\ t \in Seq(P) =>
    /\ s \o t \in Seq(P) /\ Len(s \o t) = Len(s) + Len(t)
    /\ \A k \in 1 .. Len(s) : (s \o t)[k] = s[k]
    /\ \A k \in 1 .. Len(t) : (s \o t)[Len(s) + k] = t[k]
  OBVIOUS

(* The end of a file, joined.                                                *)
LEMMA EndJoined ==
  \A a, b, c, d, r, s, e :
    /\ <<a, b>> \o (<<c, d>> \o <<r, s>> \o <<e>>) = <<a, b, c, d, r, s, e>>
    /\ <<c, d>> \o <<r, s>> \o <<e>> # <<>>
    /\ <<a, b>> \in Seq({a, b, c, d, r, s, e})
    /\ <<c, d>> \o <<r, s>> \o <<e>> \in Seq({a, b, c, d, r, s, e})
<1>1. SUFFICES ASSUME NEW a, NEW b, NEW c, NEW d, NEW r, NEW s, NEW e
      PROVE  /\ <<a, b>> \o (<<c, d>> \o <<r, s>> \o <<e>>) = <<a, b, c, d, r, s, e>>
             /\ <<c, d>> \o <<r, s>> \o <<e>> # <<>>
             /\ <<a, b>> \in Seq({a, b, c, d, r, s, e})
             /\ <<c, d>> \o <<r, s>> \o <<e>> \in Seq({a, b, c, d, r, s, e})
  OBVIOUS
<1>2. PICK P : P = {a, b, c, d, r, s, e}
  OBVIOUS
<1>3. PICK ab, cd, rs, es : ab = <<a, b>> /\ cd = <<c, d>> /\ rs = <<r, s>> /\ es = <<e>>
  OBVIOUS
<1>4. /\ ab \in Seq(P) /\ Len(ab) = 2 /\ ab[1] = a /\ ab[2] = b
      /\ cd \in Seq(P) /\ Len(cd) = 2 /\ cd[1] = c /\ cd[2] = d
      /\ rs \in Seq(P) /\ Len(rs) = 2 /\ rs[1] = r /\ rs[2] = s
      /\ es \in Seq(P) /\ Len(es) = 1 /\ es[1] = e
  BY <1>2, <1>3
<1>5. PICK four : four = cd \o rs
  OBVIOUS
<1>6. /\ four \in Seq(P) /\ Len(four) = 4
      /\ four[1] = c /\ four[2] = d /\ four[3] = r /\ four[4] = s
  <2>0. cd \in Seq(P) /\ rs \in Seq(P)
    BY <1>4
  <2>1. /\ four \in Seq(P) /\ Len(four) = Len(cd) + Len(rs)
        /\ \A k \in 1 .. Len(cd) : four[k] = cd[k]
        /\ \A k \in 1 .. Len(rs) : four[Len(cd) + k] = rs[k]
    BY <2>0, <1>5, JoinedIs
  <2>2. Len(cd) = 2 /\ Len(rs) = 2
    BY <1>4
  <2>3. Len(four) = 4 /\ (\A k \in 1 .. 2 : four[k] = cd[k])
        /\ \A k \in 1 .. 2 : four[2 + k] = rs[k]
    BY <2>1, <2>2
  <2>4. four[1] = cd[1] /\ four[2] = cd[2] /\ four[2 + 1] = rs[1] /\ four[2 + 2] = rs[2]
    BY <2>3
  <2> QED
    BY <1>4, <2>1, <2>3, <2>4
<1>7. PICK five : five = four \o es
  OBVIOUS
<1>8. /\ five \in Seq(P) /\ Len(five) = 5
      /\ five[1] = c /\ five[2] = d /\ five[3] = r /\ five[4] = s /\ five[5] = e
  <2>0. four \in Seq(P) /\ es \in Seq(P)
    BY <1>4, <1>6
  <2>1. /\ five \in Seq(P) /\ Len(five) = Len(four) + Len(es)
        /\ \A k \in 1 .. Len(four) : five[k] = four[k]
        /\ \A k \in 1 .. Len(es) : five[Len(four) + k] = es[k]
    BY <2>0, <1>7, JoinedIs
  <2>2. Len(four) = 4 /\ Len(es) = 1
    BY <1>4, <1>6
  <2>3. Len(five) = 5 /\ (\A k \in 1 .. 4 : five[k] = four[k])
        /\ \A k \in 1 .. 1 : five[4 + k] = es[k]
    BY <2>1, <2>2
  <2>4. /\ five[1] = four[1] /\ five[2] = four[2] /\ five[3] = four[3]
        /\ five[4] = four[4] /\ five[4 + 1] = es[1]
    BY <2>3
  <2> QED
    BY <1>4, <1>6, <2>1, <2>3, <2>4
<1>9. PICK seven : seven = ab \o five
  OBVIOUS
<1>10. /\ seven \in Seq(P) /\ Len(seven) = 7
       /\ seven[1] = a /\ seven[2] = b /\ seven[3] = c /\ seven[4] = d /\ seven[5] = r
       /\ seven[6] = s /\ seven[7] = e
  <2>0. ab \in Seq(P) /\ five \in Seq(P)
    BY <1>4, <1>8
  <2>1. /\ seven \in Seq(P) /\ Len(seven) = Len(ab) + Len(five)
        /\ \A k \in 1 .. Len(ab) : seven[k] = ab[k]
        /\ \A k \in 1 .. Len(five) : seven[Len(ab) + k] = five[k]
    BY <2>0, <1>9, JoinedIs
  <2>2. Len(ab) = 2 /\ Len(five) = 5
    BY <1>4, <1>8
  <2>3. Len(seven) = 7 /\ (\A k \in 1 .. 2 : seven[k] = ab[k])
        /\ \A k \in 1 .. 5 : seven[2 + k] = five[k]
    BY <2>1, <2>2
  <2>4. /\ seven[1] = ab[1] /\ seven[2] = ab[2] /\ seven[2 + 1] = five[1]
        /\ seven[2 + 2] = five[2] /\ seven[2 + 3] = five[3]
        /\ seven[2 + 4] = five[4] /\ seven[2 + 5] = five[5]
    BY <2>3
  <2> QED
    BY <1>4, <1>8, <2>1, <2>3, <2>4
<1>11. PICK all : all = <<a, b, c, d, r, s, e>>
  OBVIOUS
<1>12. /\ all \in Seq(P) /\ Len(all) = 7
       /\ all[1] = a /\ all[2] = b /\ all[3] = c /\ all[4] = d /\ all[5] = r
       /\ all[6] = s /\ all[7] = e
  BY <1>2, <1>11
<1>13. \A k \in 1 .. Len(seven) : seven[k] = all[k]
  <2>1. ASSUME NEW k \in 1 .. 7 PROVE seven[k] = all[k]
    <3>1. k = 1 \/ k = 2 \/ k = 3 \/ k = 4 \/ k = 5 \/ k = 6 \/ k = 7
      OBVIOUS
    <3> QED
      BY <1>10, <1>12, <3>1, Zenon
  <2> QED
    BY <1>10, <2>1
<1>14. seven = all
  BY <1>10, <1>12, <1>13, SameSequence
<1>15. five # <<>>
  BY <1>8
<1> QED
  BY <1>2, <1>3, <1>4, <1>5, <1>7, <1>8, <1>9, <1>11, <1>14, <1>15, Zenon

(* A function on 1 and 2 is a pair.                                          *)
LEMMA PairIs == \A f : DOMAIN f = {1, 2} /\ f = [k \in {1, 2} |-> f[k]] => f = <<f[1], f[2]>>
<1>1. SUFFICES ASSUME NEW f, DOMAIN f = {1, 2}, f = [k \in {1, 2} |-> f[k]]
      PROVE  f = <<f[1], f[2]>>
  OBVIOUS
<1>2. PICK P : P = {f[1], f[2]}
  OBVIOUS
<1>3. PICK pair : pair = <<f[1], f[2]>>
  OBVIOUS
<1>4. pair \in Seq(P) /\ Len(pair) = 2 /\ pair[1] = f[1] /\ pair[2] = f[2]
  BY <1>2, <1>3
<1>5. {1, 2} = 1 .. 2
  OBVIOUS
<1>6. f \in Seq(P) /\ Len(f) = 2
  <2>1. DOMAIN f = 1 .. 2 /\ f = [k \in 1 .. 2 |-> f[k]]
    BY <1>1, <1>5, Zenon
  <2>2. \A k \in 1 .. 2 : f[k] \in P
    <3>1. \A k \in {1, 2} : f[k] \in P
      BY <1>2
    <3> QED
      BY <1>5, <3>1
  <2>3. f \in [1 .. 2 -> P]
    BY <2>1, <2>2, Zenon
  <2>4. \A n \in Nat : \A g \in [1 .. n -> P] : g \in Seq(P)
    OBVIOUS
  <2>5. f \in Seq(P)
    <3>1. 2 \in Nat
      OBVIOUS
    <3> QED
      BY <2>3, <2>4, <3>1, Zenon
  <2> QED
    BY <2>1, <2>5
<1>7. \A k \in 1 .. Len(f) : f[k] = pair[k]
  BY <1>4, <1>6
<1> QED
  BY <1>3, <1>4, <1>6, <1>7, SameSequence

LEMMA FinishManifestFiles == WriterInv /\ FileInv /\ FinishManifest => FileInv'
<1> SUFFICES ASSUME WriterInv, FileInv, FinishManifest PROVE FileInv'
  OBVIOUS
<1> DEFINE written == [entryInfos EXCEPT ![2].size = fileByteCount + ManifestSize,
                                         ![2].crc = Append(crcCounter, Manifest)]
           records == [e \in EntryNumbers |-> RecordOf(e, written[e].size, written[e].offset)]
           end == writeEndOfCentralDirectoryRecord(Len(records), Bytes(records),
                    totalByteCount + Bytes(<<Manifest, Descriptor(2)>>))
           all == <<Manifest, Descriptor(2)>> \o records \o <<end>>
<1>1. PICK pieces : pieces = all
  OBVIOUS
<1>2. /\ pull = "manifest"
      /\ UNCHANGED <<source, bytesRead, buffered, isDone, segmentInfos>>
  BY DEF FinishManifest, sourceVars
<1>3. \/ /\ stream = "readable" /\ Enqueues(pieces) /\ entryInfos' = written
         /\ pull' = "none" /\ stream' = "closed"
      \/ /\ pull' = "threw"
         /\ IF stream = "readable" THEN Errs(UpToLimit(pieces)) ELSE UNCHANGED streamVars
  BY <1>1 DEF FinishManifest, Manifest, Descriptor, RecordOf
<1>4. /\ stream \in {"readable", "errored", "cancelled"} /\ OutputTypes
      /\ pendingRead => queue = <<>>
      /\ segmentInfos \in Seq(Infos)
  BY <1>2 DEF FileInv, WriterInv, WriterTypes, NotStarted, QueueIsFree
<1>5. CASE /\ pull' = "threw"
           /\ IF stream = "readable" THEN Errs(UpToLimit(pieces)) ELSE UNCHANGED streamVars
  <2>1. CASE stream = "readable"
    <3>1. OutputTypes' /\ stream' = "errored"
      BY <1>4, <1>5, <2>1, ErrsTypes
    <3> QED
      BY <1>2, <1>5, <3>1, PromisesNothing
  <2>2. CASE stream # "readable"
    <3>1. UNCHANGED <<stream, queue, received>>
      BY <1>5, <2>2 DEF streamVars
    <3>2. OutputTypes'
      BY <1>4, <3>1 DEF OutputTypes
    <3> QED
      BY <1>2, <1>4, <1>5, <2>2, <3>1, <3>2, PromisesNothing
  <2> QED
    BY <2>1, <2>2
<1>6. CASE /\ stream = "readable" /\ Enqueues(pieces) /\ entryInfos' = written
           /\ pull' = "none" /\ stream' = "closed"
  <2>1. InManifest /\ NothingIsLost
    BY <1>2, <1>6 DEF FileInv
  <2>2. PICK crc, offset :
          /\ crc = entryInfos[1].crc /\ offset = ManifestOffset
          /\ entryInfos[1] = [offset |-> 0, size |-> Bytes(crc), crc |-> crc]
          /\ entryInfos[2] = [offset |-> offset, size |-> 0, crc |-> <<>>]
          /\ DOMAIN entryInfos = EntryNumbers
    BY <2>1 DEF InManifest, PayloadKept, PayloadBytes
  <2>3. fileByteCount = 0 /\ crcCounter = <<>> /\ totalByteCount = offset + Header(2).size
    BY <2>1, <2>2 DEF InManifest
  <2>4. ManifestSize \in Nat /\ 0 + ManifestSize = ManifestSize
    BY WriterAssumption
  <2>5. Append(<<>>, Manifest) = <<Manifest>>
    OBVIOUS
  <2>6. /\ DOMAIN written = EntryNumbers
        /\ written[1] = [offset |-> 0, size |-> Bytes(crc), crc |-> crc]
        /\ written[2] = [offset |-> offset, size |-> ManifestSize, crc |-> <<Manifest>>]
    <3>1. PICK size, sum : size = fileByteCount + ManifestSize
                           /\ sum = Append(crcCounter, Manifest)
      OBVIOUS
    <3>2. size = ManifestSize /\ sum = <<Manifest>>
      BY <2>3, <2>4, <2>5, <3>1
    <3>3. written = [entryInfos EXCEPT ![2].size = size, ![2].crc = sum]
      BY <3>1
    <3>4. 1 \in EntryNumbers /\ 2 \in EntryNumbers
      BY DEF EntryNumbers
    <3> HIDE DEF written
    <3>5. PICK info, infos : info = [offset |-> offset, size |-> 0, crc |-> <<>>]
                             /\ infos = entryInfos
      OBVIOUS
    <3>6. DOMAIN infos = EntryNumbers /\ infos[2] = info /\ infos[1] = entryInfos[1]
      BY <2>2, <3>5
    <3>7. PICK sized : sized = [infos EXCEPT ![2] = [infos[2] EXCEPT !.size = size]]
      OBVIOUS
    <3>8. PICK info1 : info1 = [offset |-> offset, size |-> size, crc |-> <<>>]
      OBVIOUS
    <3>9. [info EXCEPT !.size = size] = info1
      BY <3>5, <3>8
    <3>10. DOMAIN sized = EntryNumbers /\ sized[2] = info1 /\ sized[1] = entryInfos[1]
      BY <3>4, <3>6, <3>7, <3>9
    <3>11. [info1 EXCEPT !.crc = sum] = [offset |-> offset, size |-> size, crc |-> sum]
      BY <3>8
    <3>12. written = [sized EXCEPT ![2] = [sized[2] EXCEPT !.crc = sum]]
      BY <3>3, <3>5, <3>7
    <3>13. /\ DOMAIN written = EntryNumbers /\ written[1] = entryInfos[1]
           /\ written[2] = [sized[2] EXCEPT !.crc = sum]
      BY <3>4, <3>10, <3>12
    <3>14. written[2] = [offset |-> offset, size |-> size, crc |-> sum]
      BY <3>10, <3>11, <3>13
    <3> QED
      BY <2>2, <3>2, <3>13, <3>14
  <2> HIDE DEF written
  <2>7. PICK first, second :
          /\ first = RecordOf(1, Bytes(crc), 0)
          /\ second = RecordOf(2, ManifestSize, offset)
    OBVIOUS
  <2>8. records = <<first, second>>
    <3>1. DOMAIN records = {1, 2} /\ records = [k \in {1, 2} |-> records[k]]
      BY DEF EntryNumbers
    <3>2. records[1] = first /\ records[2] = second
      BY <2>6, <2>7 DEF EntryNumbers
    <3> HIDE DEF records
    <3> QED
      BY <3>1, <3>2, PairIs
  <2>9. PICK d, h : d = Descriptor(1) /\ h = Header(2)
    OBVIOUS
  <2>10. PICK m, c : m = Manifest /\ c = Descriptor(2)
    OBVIOUS
  <2>11. /\ m.size = ManifestSize /\ c.size = 24 /\ d.size = 24 /\ h.size = 73
         /\ first.size = 83 /\ second.size = 89
    BY <2>7, <2>9, <2>10, PiecesAre
  <2>12. Bytes(records) = first.size + second.size /\ Len(records) = 2
    <3>1. Bytes(<<first, second>>) = first.size + second.size /\ Len(<<first, second>>) = 2
      BY <2>11, BytesOfFew
    <3> QED
      BY <2>8, <3>1, Zenon
  <2>13. Bytes(<<m, c>>) = m.size + c.size
    BY <2>4, <2>11, BytesOfFew
  <2>14. offset \in Nat
    <3>1. ArePayload(crc)
      BY <2>1, <2>2 DEF InManifest, PayloadKept
    <3>2. crc \in Seq(PayloadPieces)
      BY <3>1 DEF ArePayload
    <3>3. Bytes(crc) \in Nat
      <4>1. PICK n : n = Len(crc) /\ n \in Nat /\ n \in 0 .. n /\ DOMAIN crc = 1 .. n
        BY <3>2
      <4>2. \A p \in PayloadPieces : p.size \in Nat
        BY DEF PayloadPieces
      <4>3. \A k \in 1 .. n : crc[k] \in PayloadPieces
        BY <3>2, <4>1
      <4>4. IsFile(crc)
        BY <4>1, <4>2, <4>3 DEF IsFile
      <4> QED
        BY <4>1, <4>4, EndsGrow DEF Bytes
    <3>4. offset = 67 + Bytes(crc) + 24
      BY <2>2, PiecesAre DEF ManifestOffset, PayloadBytes
    <3> QED
      BY <3>3, <3>4
  <2>15. totalByteCount + (m.size + c.size) = offset + h.size + ManifestSize + c.size
    BY <2>3, <2>4, <2>9, <2>11, <2>14
  <2>16. PICK e : e = writeEndOfCentralDirectoryRecord(2, first.size + second.size,
                        offset + h.size + ManifestSize + c.size)
    OBVIOUS
  <2>17. end = e
    BY <2>10, <2>12, <2>13, <2>15, <2>16, Zenon
  <2>18. pieces = <<m, c>> \o <<first, second>> \o <<e>>
    BY <1>1, <2>8, <2>10, <2>17, Zenon
  <2> HIDE DEF records, end
  <2>19. PICK Q : Q = {d, h, m, c, first, second, e}
    OBVIOUS
  <2>20. /\ <<d, h>> \o pieces = <<d, h, m, c, first, second, e>>
         /\ pieces # <<>> /\ <<d, h>> \in Seq(Q) /\ pieces \in Seq(Q)
    <3>1. PICK tail : tail = <<m, c>> \o <<first, second>> \o <<e>>
      OBVIOUS
    <3>2. /\ <<d, h>> \o tail = <<d, h, m, c, first, second, e>> /\ tail # <<>>
          /\ <<d, h>> \in Seq({d, h, m, c, first, second, e})
          /\ tail \in Seq({d, h, m, c, first, second, e})
      BY <3>1, EndJoined
    <3>3. pieces = tail
      BY <2>18, <3>1
    <3> QED
      BY <2>19, <3>2, <3>3
  <2>21. Longer(pieces)
    BY <1>4, <1>6, <2>20, EnqueuesAppends
  <2>22. OutputIs(<<d, h, m, c, first, second, e>>)'
    <3>1. OutputIs(<<d, h>>)
      BY <2>1, <2>9 DEF InManifest
    <3>2. UNCHANGED segmentInfos
      BY <1>2
    <3>3. PICK next : next = <<d, h>> \o pieces
      OBVIOUS
    <3>4. OutputIs(next)'
      BY <1>4, <2>20, <2>21, <3>1, <3>2, <3>3, OutputGrows, Zenon
    <3>5. next = <<d, h, m, c, first, second, e>>
      BY <2>20, <3>3, Zenon
    <3> QED
      BY <3>4, <3>5
  <2>23. /\ DOMAIN entryInfos' = EntryNumbers
         /\ entryInfos'[1] = [offset |-> 0, size |-> Bytes(crc), crc |-> crc]
         /\ entryInfos'[2] = [offset |-> offset, size |-> ManifestSize, crc |-> <<Manifest>>]
    BY <1>6, <2>6
  <2>24. PayloadBytes' = Bytes(crc) /\ ManifestOffset' = offset
    <3>1. PayloadBytes = Bytes(crc) /\ PayloadBytes' = Bytes(crc)
      BY <2>2, <2>23 DEF PayloadBytes
    <3> QED
      BY <2>2, <3>1 DEF ManifestOffset
  <2>25. PayloadRecord' = first /\ ManifestRecord' = second /\ EndRecord' = e
    BY <2>7, <2>9, <2>10, <2>16, <2>24 DEF PayloadRecord, ManifestRecord, EndRecord
  <2>26. ArePayload(crc)'
    <3>1. ArePayload(crc)
      BY <2>1, <2>2 DEF InManifest, PayloadKept
    <3> QED
      BY <1>2, <3>1 DEF ArePayload, Segment
  <2>27. PayloadKept'
    BY <2>23, <2>24, <2>26 DEF PayloadKept
  <2>28. OutputIs(<<Descriptor(1), Header(2), Manifest, Descriptor(2),
                    PayloadRecord, ManifestRecord, EndRecord>>)'
    <3>1. <<d, h, m, c, first, second, e>> =
            <<Descriptor(1), Header(2), Manifest, Descriptor(2),
              PayloadRecord, ManifestRecord, EndRecord>>'
      BY <2>9, <2>10, <2>25
    <3>2. PICK next : next = <<d, h, m, c, first, second, e>>
      OBVIOUS
    <3>3. OutputIs(next)'
      BY <2>22, <3>2
    <3>4. next = <<Descriptor(1), Header(2), Manifest, Descriptor(2),
                   PayloadRecord, ManifestRecord, EndRecord>>'
      BY <3>1, <3>2
    <3> QED
      BY <3>3, <3>4
  <2>29. IsClosed'
    BY <2>23, <2>24, <2>27, <2>28 DEF IsClosed
  <2>30. source' = <<>> /\ Bytes(Plain)' = bytesRead'
    <3>1. Bytes(Plain) + buffered = bytesRead /\ source = <<>> /\ buffered = 0
      BY <1>2, <2>1 DEF NothingIsLost
    <3>2. Bytes(Plain) \in Nat /\ Plain' = Plain
      BY <1>2, PlainCounts DEF Plain
    <3>3. Bytes(Plain) = bytesRead
      BY <3>1, <3>2
    <3> QED
      BY <1>2, <3>1, <3>2, <3>3
  <2>31. OutputTypes' /\ bytesRead' \in Nat
    BY <1>2, <2>21 DEF Longer, FileInv
  <2> QED
    BY <1>6, <2>29, <2>30, <2>31 DEF FileInv
<1> QED
  BY <1>3, <1>5, <1>6

LEMMA ReadFiles == WriterInv /\ FileInv /\ Read => FileInv'
<1> SUFFICES ASSUME WriterInv, FileInv, Read PROVE FileInv'
  OBVIOUS
<1>1. /\ UNCHANGED <<source, bytesRead, buffered, isDone, pull, segmentInfos, countVars,
                     entryInfos, stream>>
      /\ stream \in {"readable", "closed"} /\ OutputTypes
  BY DEF Read, sourceVars, FileInv
<1>2. OutputTypes' /\ Output' = Output
  <2>1. CASE queue = <<>>
    <3>1. UNCHANGED <<queue, received>>
      BY <2>1 DEF Read
    <3> QED
      BY <1>1, <3>1 DEF OutputTypes, Output
  <2>2. CASE queue # <<>>
    <3>1. received' = Append(received, Head(queue)) /\ queue' = Tail(queue)
      BY <2>2 DEF Read
    <3> QED
      BY <1>1, <2>2, <3>1, ReadsOutput
  <2> QED
    BY <2>1, <2>2
<1>3. (InPayload => InPayload') /\ (InManifest => InManifest') /\ (IsClosed => IsClosed')
      /\ Plain' = Plain
  BY <1>1, <1>2, WrittenStays
<1>4. NothingIsLost => NothingIsLost'
  BY <1>1, <1>3 DEF NothingIsLost
<1> QED
  BY <1>1, <1>2, <1>3, <1>4 DEF FileInv

LEMMA CancelFiles == WriterInv /\ FileInv /\ Cancel => FileInv'
<1> SUFFICES ASSUME WriterInv, FileInv, Cancel PROVE FileInv'
  OBVIOUS
<1>1. /\ UNCHANGED <<bytesRead, buffered, pull, received>>
      /\ stream' = "cancelled" /\ queue' = <<>> /\ OutputTypes
  BY DEF Cancel, sourceVars, FileInv
<1>2. OutputTypes'
  BY <1>1 DEF OutputTypes
<1> QED
  BY <1>1, <1>2, PromisesNothing

LEMMA NextFiles == WriterInv /\ FileInv /\ [Next]_vars => FileInv'
<1> SUFFICES ASSUME WriterInv, FileInv, [Next]_vars PROVE FileInv'
  OBVIOUS
<1>1. CASE WriterStep
  BY <1>1, StartFiles, PullFiles, ReadSourceFiles, SegmentFiles, FinishPayloadFiles,
     FinishManifestFiles DEF WriterStep
<1>2. CASE PullThrows \/ Read \/ Cancel
  BY <1>2, PullThrowsFiles, ReadFiles, CancelFiles
<1>3. CASE UNCHANGED vars
  <2>1. UNCHANGED <<source, bytesRead, buffered, isDone, pull, segmentInfos, countVars,
                    entryInfos, stream, queue, received>>
    BY <1>3 DEF vars, sourceVars, streamVars
  <2>2. Output' = Output /\ OutputTypes'
    BY <2>1 DEF Output, OutputTypes, FileInv
  <2>3. (InPayload => InPayload') /\ (InManifest => InManifest') /\ (IsClosed => IsClosed')
        /\ Plain' = Plain
    BY <2>1, <2>2, WrittenStays
  <2>4. NothingIsLost => NothingIsLost'
    BY <2>1, <2>3 DEF NothingIsLost
  <2>5. NotStartedYet => NotStartedYet'
    BY <2>1 DEF NotStartedYet, countVars
  <2> QED
    BY <2>1, <2>2, <2>3, <2>4, <2>5 DEF FileInv
<1> QED
  BY <1>1, <1>2, <1>3 DEF Next

-----------------------------------------------------------------------------
(* A whole file, whose payload is in the pieces of crc.                      *)
FileOf(file, crc) ==
  /\ crc \in Seq(PayloadPieces) /\ \A k \in DOMAIN crc : crc[k].size # 0
  /\ file \in Seq(ToSet(file)) /\ Len(file) = Len(crc) + 8
  /\ file[1] = Header(1)
  /\ \A k \in 1 .. Len(crc) : file[1 + k] = crc[k]
  /\ file[Len(crc) + 2] = Descriptor(1) /\ file[Len(crc) + 3] = Header(2)
  /\ file[Len(crc) + 4] = Manifest /\ file[Len(crc) + 5] = Descriptor(2)
  /\ file[Len(crc) + 6] = RecordOf(1, Bytes(crc), 0)
  /\ file[Len(crc) + 7] = RecordOf(2, ManifestSize, 91 + Bytes(crc))
  /\ file[Len(crc) + 8] =
       writeEndOfCentralDirectoryRecord(2, 172, 188 + Bytes(crc) + ManifestSize)

(* The bytes of a payload, counted.                                          *)
LEMMA BytesCount == \A crc : crc \in Seq(PayloadPieces) => Bytes(crc) \in Nat /\ IsFile(crc)
<1>1. SUFFICES ASSUME NEW crc, crc \in Seq(PayloadPieces)
      PROVE  Bytes(crc) \in Nat /\ IsFile(crc)
  OBVIOUS
<1>2. PICK n : n = Len(crc) /\ n \in Nat /\ n \in 0 .. n /\ DOMAIN crc = 1 .. n
  BY <1>1
<1>3. \A p \in PayloadPieces : p.size \in Nat
  BY DEF PayloadPieces
<1>4. \A k \in 1 .. n : crc[k] \in PayloadPieces
  BY <1>1, <1>2
<1>5. IsFile(crc)
  BY <1>2, <1>3, <1>4 DEF IsFile
<1> QED
  BY <1>2, <1>5, EndsGrow DEF Bytes

(* The fields of the pieces of a file.                                       *)
Shape(file, crc, n) ==
  /\ n \in Nat /\ DOMAIN file = 1 .. n + 8 /\ Len(file) = n + 8
  /\ file[1].kind = "local" /\ file[1].name = "0.payload" /\ file[1].size = 67
  /\ \A k \in 2 .. n + 1 :
       file[k].kind = "data" /\ file[k].size \in Nat \ {0} /\ file[k] = crc[k - 1]
  /\ file[n + 2].kind = "descriptor" /\ file[n + 2].name = "0.payload"
  /\ file[n + 2].size = 24
  /\ file[n + 3].kind = "local" /\ file[n + 3].name = "0.manifest.json"
  /\ file[n + 3].size = 73
  /\ file[n + 4].kind = "data" /\ file[n + 4].size = ManifestSize
  /\ file[n + 5].kind = "descriptor" /\ file[n + 5].name = "0.manifest.json"
  /\ file[n + 5].size = 24
  /\ file[n + 6].kind = "record" /\ file[n + 6].name = "0.payload"
  /\ file[n + 6].size = 83
  /\ file[n + 7].kind = "record" /\ file[n + 7].name = "0.manifest.json"
  /\ file[n + 7].size = 89
  /\ file[n + 8].kind = "end" /\ file[n + 8].size = 98

LEMMA FileShape ==
  \A file, crc, n : FileOf(file, crc) /\ n = Len(crc) => Shape(file, crc, n)
<1>1. SUFFICES ASSUME NEW file, NEW crc, NEW n, FileOf(file, crc), n = Len(crc)
      PROVE  Shape(file, crc, n)
  OBVIOUS
<1>2. crc \in Seq(PayloadPieces) /\ (\A k \in DOMAIN crc : crc[k].size # 0)
      /\ file \in Seq(ToSet(file)) /\ Len(file) = n + 8
  BY <1>1 DEF FileOf
<1>3. n \in Nat /\ DOMAIN file = 1 .. n + 8 /\ DOMAIN crc = 1 .. n
  BY <1>1, <1>2
<1>4. \A p \in PayloadPieces : p.size \in Nat /\ p.kind = "data"
  BY DEF PayloadPieces
<1>5. ASSUME NEW k \in 2 .. n + 1
      PROVE  file[k].kind = "data" /\ file[k].size \in Nat \ {0} /\ file[k] = crc[k - 1]
  <2>1. k - 1 \in 1 .. n /\ 1 + (k - 1) = k
    BY <1>3
  <2>2. crc[k - 1] \in PayloadPieces /\ crc[k - 1].size # 0
    BY <1>2, <1>3, <2>1
  <2>3. \A j \in 1 .. n : file[1 + j] = crc[j]
    BY <1>1 DEF FileOf
  <2>4. file[k] = crc[k - 1]
    BY <2>1, <2>3
  <2> QED
    BY <1>4, <2>2, <2>4
<1>6. /\ file[1] = Header(1) /\ file[n + 2] = Descriptor(1) /\ file[n + 3] = Header(2)
      /\ file[n + 4] = Manifest /\ file[n + 5] = Descriptor(2)
  BY <1>1 DEF FileOf
<1>7. PICK size, offset : file[n + 6] = RecordOf(1, size, 0)
                          /\ file[n + 7] = RecordOf(2, ManifestSize, offset)
  BY <1>1 DEF FileOf
<1>8. file[n + 8].kind = "end" /\ file[n + 8].size = 98
  BY <1>1 DEF FileOf, writeEndOfCentralDirectoryRecord, END_OF_CENTRAL_DIRECTORY_RECORD_SIZE
<1>9. /\ file[n + 6].kind = "record" /\ file[n + 6].name = "0.payload"
      /\ file[n + 6].size = 83
      /\ file[n + 7].kind = "record" /\ file[n + 7].name = "0.manifest.json"
      /\ file[n + 7].size = 89
  <2>1. \A s, o : /\ RecordOf(1, s, o).kind = "record" /\ RecordOf(1, s, o).name = "0.payload"
                  /\ RecordOf(1, s, o).size = 83
                  /\ RecordOf(2, s, o).kind = "record"
                  /\ RecordOf(2, s, o).name = "0.manifest.json"
                  /\ RecordOf(2, s, o).size = 89
    BY PiecesAre
  <2> QED
    BY <1>7, <2>1
<1>10. /\ file[1].kind = "local" /\ file[1].name = "0.payload" /\ file[1].size = 67
       /\ file[n + 2].kind = "descriptor" /\ file[n + 2].name = "0.payload"
       /\ file[n + 2].size = 24
       /\ file[n + 3].kind = "local" /\ file[n + 3].name = "0.manifest.json"
       /\ file[n + 3].size = 73
       /\ file[n + 4].kind = "data" /\ file[n + 4].size = ManifestSize
       /\ file[n + 5].kind = "descriptor" /\ file[n + 5].name = "0.manifest.json"
       /\ file[n + 5].size = 24
  BY <1>6, PiecesAre
<1> QED
  BY <1>2, <1>3, <1>5, <1>8, <1>9, <1>10 DEF Shape

(* A piece of the file is one of those.                                      *)
Somewhere(k, n) ==
  \/ k = 1 \/ k \in 2 .. n + 1 \/ k = n + 2 \/ k = n + 3 \/ k = n + 4 \/ k = n + 5
  \/ k = n + 6 \/ k = n + 7 \/ k = n + 8

LEMMA PlacesAre == \A n \in Nat : \A k \in 1 .. n + 8 : Somewhere(k, n)
  BY DEF Somewhere

LEMMA FileSizes ==
  \A file, crc : FileOf(file, crc) =>
    IsFile(file) /\ \A k \in DOMAIN file : file[k].size \in Nat \ {0}
<1>1. SUFFICES ASSUME NEW file, NEW crc, FileOf(file, crc)
      PROVE  IsFile(file) /\ \A k \in DOMAIN file : file[k].size \in Nat \ {0}
  OBVIOUS
<1>2. PICK n : n = Len(crc)
  OBVIOUS
<1>3. /\ n \in Nat /\ DOMAIN file = 1 .. n + 8 /\ Len(file) = n + 8
      /\ file[1].size = 67 /\ (\A k \in 2 .. n + 1 : file[k].size \in Nat \ {0})
      /\ file[n + 2].size = 24 /\ file[n + 3].size = 73 /\ file[n + 4].size = ManifestSize
      /\ file[n + 5].size = 24 /\ file[n + 6].size = 83 /\ file[n + 7].size = 89
      /\ file[n + 8].size = 98
  <2>1. Shape(file, crc, n)
    BY <1>1, <1>2, FileShape
  <2> QED
    BY <2>1 DEF Shape
<1>4. ManifestSize \in Nat \ {0}
  BY WriterAssumption
<1>5. ASSUME NEW k \in 1 .. n + 8 PROVE file[k].size \in Nat \ {0}
  <2>1. Somewhere(k, n)
    BY <1>3, PlacesAre
  <2>2. PICK Sizes : Sizes = Nat \ {0}
    OBVIOUS
  <2>3. /\ file[1].size \in Sizes /\ file[n + 2].size \in Sizes
        /\ file[n + 3].size \in Sizes /\ file[n + 4].size \in Sizes
        /\ file[n + 5].size \in Sizes /\ file[n + 6].size \in Sizes
        /\ file[n + 7].size \in Sizes /\ file[n + 8].size \in Sizes
    BY <1>3, <1>4, <2>2
  <2>4. \A j \in 2 .. n + 1 : file[j].size \in Sizes
    BY <1>3, <2>2
  <2>5. file[k].size \in Sizes
    BY <2>1, <2>3, <2>4, Zenon DEF Somewhere
  <2> QED
    BY <2>2, <2>5
<1>6. n + 8 \in Nat /\ DOMAIN file = 1 .. Len(file)
  BY <1>3
<1> QED
  BY <1>3, <1>5, <1>6 DEF IsFile

(* Where the pieces of a file end.                                           *)
EndsAt(file, n, b) ==
  /\ b \in Nat
  /\ Ends(file)[0] = 0 /\ Ends(file)[1] = 67 /\ Ends(file)[n + 1] = 67 + b
  /\ Ends(file)[n + 2] = 91 + b /\ Ends(file)[n + 3] = 164 + b
  /\ Ends(file)[n + 4] = 164 + b + ManifestSize
  /\ Ends(file)[n + 5] = 188 + b + ManifestSize
  /\ Ends(file)[n + 6] = 271 + b + ManifestSize
  /\ Ends(file)[n + 7] = 360 + b + ManifestSize
  /\ Ends(file)[n + 8] = 458 + b + ManifestSize

LEMMA FileEnds ==
  \A file, crc, n, b : FileOf(file, crc) /\ n = Len(crc) /\ b = Bytes(crc) =>
    EndsAt(file, n, b)
<1>1. SUFFICES ASSUME NEW file, NEW crc, NEW n, NEW b,
                      FileOf(file, crc), n = Len(crc), b = Bytes(crc)
      PROVE  EndsAt(file, n, b)
  OBVIOUS
<1>2. PICK end : end = Ends(file)
  OBVIOUS
<1>3. /\ n \in Nat /\ Len(file) = n + 8
      /\ file[1].size = 67 /\ (\A k \in 2 .. n + 1 : file[k] = crc[k - 1])
      /\ file[n + 2].size = 24 /\ file[n + 3].size = 73 /\ file[n + 4].size = ManifestSize
      /\ file[n + 5].size = 24 /\ file[n + 6].size = 83 /\ file[n + 7].size = 89
      /\ file[n + 8].size = 98
  <2>1. Shape(file, crc, n)
    BY <1>1, FileShape
  <2> QED
    BY <2>1 DEF Shape
<1>4. b \in Nat /\ IsFile(crc)
  BY <1>1, BytesCount DEF FileOf
<1>5. n + 8 \in Nat
  BY <1>3
<1>6. end[0] = 0 /\ \A k \in 1 .. n + 8 : end[k] = end[k - 1] + file[k].size
  <2>1. Len(file) \in Nat
    BY <1>3, <1>5
  <2>2. Ends(file)[0] = 0
        /\ \A k \in 1 .. Len(file) : Ends(file)[k] = Ends(file)[k - 1] + file[k].size
    BY <2>1, EndsRecur, Zenon
  <2> QED
    BY <1>2, <1>3, <2>2
<1>7. end[1] = 67
  <2>1. 1 \in 1 .. n + 8 /\ 1 - 1 = 0
    BY <1>3
  <2> QED
    BY <1>3, <1>6, <2>1
<1>8. end[n + 1] = 67 + b
  <2>1. Occurs(crc, file, 1)
    <3>1. IsFile(file)
      BY <1>1, FileSizes
    <3>2. ASSUME NEW k \in 1 .. Len(crc) PROVE file[1 + k].size = crc[k].size
      <4>1. 1 + k \in 2 .. n + 1 /\ (1 + k) - 1 = k
        BY <1>1, <1>3
      <4> QED
        BY <1>3, <4>1
    <3>3. 1 \in Nat /\ 1 + Len(crc) <= Len(file)
      BY <1>1, <1>3
    <3> QED
      BY <1>4, <3>1, <3>2, <3>3 DEF Occurs
  <2>2. n \in 0 .. Len(crc)
    BY <1>1, <1>3
  <2>3. Ends(file)[1 + n] = Ends(file)[1] + Ends(crc)[n]
    BY <2>1, <2>2, EndsShift
  <2>4. Ends(crc)[n] = b
    BY <1>1 DEF Bytes
  <2>5. n + 1 = 1 + n
    BY <1>3
  <2> QED
    BY <1>2, <1>7, <2>3, <2>4, <2>5
<1>9. ManifestSize \in Nat
  BY WriterAssumption
<1>10. /\ n + 2 \in 1 .. n + 8 /\ n + 3 \in 1 .. n + 8 /\ n + 4 \in 1 .. n + 8
       /\ n + 5 \in 1 .. n + 8 /\ n + 6 \in 1 .. n + 8 /\ n + 7 \in 1 .. n + 8
       /\ n + 8 \in 1 .. n + 8
       /\ (n + 2) - 1 = n + 1 /\ (n + 3) - 1 = n + 2 /\ (n + 4) - 1 = n + 3
       /\ (n + 5) - 1 = n + 4 /\ (n + 6) - 1 = n + 5 /\ (n + 7) - 1 = n + 6
       /\ (n + 8) - 1 = n + 7
  BY <1>3
<1>11. /\ end[n + 2] = end[n + 1] + 24 /\ end[n + 3] = end[n + 2] + 73
       /\ end[n + 4] = end[n + 3] + ManifestSize /\ end[n + 5] = end[n + 4] + 24
       /\ end[n + 6] = end[n + 5] + 83 /\ end[n + 7] = end[n + 6] + 89
       /\ end[n + 8] = end[n + 7] + 98
  BY <1>3, <1>6, <1>10
<1>12. /\ end[n + 2] = 91 + b /\ end[n + 3] = 164 + b
       /\ end[n + 4] = 164 + b + ManifestSize /\ end[n + 5] = 188 + b + ManifestSize
       /\ end[n + 6] = 271 + b + ManifestSize /\ end[n + 7] = 360 + b + ManifestSize
       /\ end[n + 8] = 458 + b + ManifestSize
  BY <1>4, <1>8, <1>9, <1>11
<1> QED
  BY <1>2, <1>4, <1>6, <1>7, <1>8, <1>12 DEF EndsAt

(* The records leave everything to the zip64 information.                    *)
Saturates(record, size, offset) ==
  /\ record.versionNeededToExtract = 45
  /\ record.uncompressedSize = Saturated /\ record.compressedSize = Saturated
  /\ record.relativeOffsetOfLocalHeader = Saturated
  /\ record.extraFields = <<Zip64Field(<<size, size, offset>>)>>

LEMMA RecordSaturates ==
  \A e, size, offset : Saturates(RecordOf(e, size, offset), size, offset)
  BY DEF Saturates, RecordOf, writeCentralDirectoryRecord, VERSION_NEEDED_TO_EXTRACT_ZIP64

(* They have one extra field.                                                *)
OneField(record, size, offset, field) ==
  /\ record.extraFields = <<field>> /\ record.extraFields[1] = field
  /\ Len(record.extraFields) = 1 /\ DOMAIN record.extraFields = {1}
  /\ record.extraFields \in Seq(ToSet(record.extraFields))
  /\ field.id = Zip64 /\ field.size = 24
  /\ field.values = <<size, size, offset>>
  /\ LooksAtExtraFields(record) /\ ~Conflicting(record) /\ HasZip64(record)
  /\ Zip64Values(record) = <<size, size, offset>>

LEMMA ExtraFieldIs ==
  \A record, size, offset : Saturates(record, size, offset) =>
    \E field : OneField(record, size, offset, field)
<1>1. SUFFICES ASSUME NEW record, NEW size, NEW offset, Saturates(record, size, offset)
      PROVE  \E field : OneField(record, size, offset, field)
  OBVIOUS
<1>2. PICK values : values = <<size, size, offset>>
  OBVIOUS
<1>0. Len(values) = 3
  BY <1>2
<1>3. PICK field : field = Zip64Field(values)
  OBVIOUS
<1>4. field.id = Zip64 /\ field.size = 24 /\ field.values = values
  BY <1>0, <1>3 DEF Zip64Field
<1>5. PICK extra : extra = record.extraFields
  OBVIOUS
<1>6. extra = <<field>>
  BY <1>1, <1>2, <1>3, <1>5 DEF Saturates
<1>7. Len(extra) = 1 /\ DOMAIN extra = 1 .. 1 /\ extra[1] = field
  BY <1>6
<1>8. DOMAIN extra = {1}
  BY <1>7
<1>9. extra \in Seq(ToSet(extra))
  <2>1. field \in ToSet(extra)
    BY <1>7, <1>8 DEF ToSet
  <2> QED
    BY <1>6, <2>1
<1>10. LooksAtExtraFields(record)
  <2>1. Bytes(extra) = 24
    BY <1>4, <1>6, BytesOfFew
  <2>2. ExtraFieldLength(record) = 28
    BY <1>5, <1>7, <2>1 DEF ExtraFieldLength
  <2> QED
    BY <1>1, <2>2 DEF LooksAtExtraFields, Saturates, VERSION_NEEDED_TO_EXTRACT_ZIP64
<1>11. ~Conflicting(record) /\ HasZip64(record)
  BY <1>4, <1>5, <1>7, <1>8 DEF Conflicting, HasZip64
<1>12. Zip64Values(record) = values
  <2>1. 1 = CHOOSE i \in DOMAIN extra : extra[i].id = Zip64
    BY <1>4, <1>7, <1>8
  <2> QED
    BY <1>4, <1>5, <1>7, <2>1 DEF Zip64Values
<1> QED
  BY <1>2, <1>4, <1>5, <1>6, <1>7, <1>8, <1>9, <1>10, <1>11, <1>12, Zenon
  DEF OneField

(* All three fields are replaced, in order.                                  *)
LEMMA ReplacedIs ==
  \A record, size, offset : Saturates(record, size, offset) =>
    /\ Replaced(record) = 1 .. 3 /\ Cardinality(Replaced(record)) = 3
    /\ PlaceInOrder(record, 1) = 1 /\ PlaceInOrder(record, 3) = 3
<1>1. SUFFICES ASSUME NEW record, NEW size, NEW offset, Saturates(record, size, offset)
      PROVE  /\ Replaced(record) = 1 .. 3 /\ Cardinality(Replaced(record)) = 3
             /\ PlaceInOrder(record, 1) = 1 /\ PlaceInOrder(record, 3) = 3
  OBVIOUS
<1>2. ASSUME NEW n \in 1 .. 3 PROVE record[Fields[n]] = Saturated
  <2>1. n = 1 \/ n = 2 \/ n = 3
    OBVIOUS
  <2>2. /\ Fields[1] = "uncompressedSize" /\ Fields[2] = "compressedSize"
        /\ Fields[3] = "relativeOffsetOfLocalHeader"
    BY DEF Fields
  <2> QED
    BY <1>1, <2>1, <2>2, Zenon DEF Saturates
<1>3. Replaced(record) = 1 .. 3
  BY <1>2, Zenon DEF Replaced
<1>4. Cardinality(1 .. 3) = 3
  <2>1. 1 \in Int /\ 3 \in Int /\ 1 <= 3 /\ 3 - 1 + 1 = 3
    OBVIOUS
  <2>2. Cardinality(1 .. 3) = IF 1 > 3 THEN 0 ELSE 3 - 1 + 1
    BY <2>1, FS_Interval
  <2> QED
    BY <2>1, <2>2
<1>5. Cardinality({1}) = 1
  BY FS_Singleton
<1>6. {m \in 1 .. 3 : m <= 1} = {1} /\ {m \in 1 .. 3 : m <= 3} = 1 .. 3
  OBVIOUS
<1>7. /\ PlaceInOrder(record, 1) = Cardinality({m \in 1 .. 3 : m <= 1})
      /\ PlaceInOrder(record, 3) = Cardinality({m \in 1 .. 3 : m <= 3})
  BY <1>3 DEF PlaceInOrder
<1> QED
  BY <1>3, <1>4, <1>5, <1>6, <1>7

(* Such a record is read for what was written in it.                         *)
LEMMA RecordIsRead ==
  \A record, size, offset :
    Saturates(record, size, offset) /\ size \in Nat /\ offset \in Nat =>
      /\ ~Conflicting(record) /\ ~Unparsable(record)
      /\ Len(Zip64Values(record)) >= Cardinality(Replaced(record))
      /\ UncompressedSize(record) = size /\ OffsetOfHeader(record) = offset
      /\ IsRecordOf(record, size, offset)
<1>1. SUFFICES ASSUME NEW record, NEW size, NEW offset, Saturates(record, size, offset),
                      size \in Nat, offset \in Nat
      PROVE  /\ ~Conflicting(record) /\ ~Unparsable(record)
             /\ Len(Zip64Values(record)) >= Cardinality(Replaced(record))
             /\ UncompressedSize(record) = size /\ OffsetOfHeader(record) = offset
             /\ IsRecordOf(record, size, offset)
  OBVIOUS
<1>2. PICK field :
        /\ record.extraFields[1] = field
        /\ DOMAIN record.extraFields = {1}
        /\ record.extraFields \in Seq(ToSet(record.extraFields))
        /\ field.size = 24 /\ field.values = <<size, size, offset>>
        /\ LooksAtExtraFields(record) /\ ~Conflicting(record) /\ HasZip64(record)
        /\ Zip64Values(record) = <<size, size, offset>>
  <2>1. PICK field : OneField(record, size, offset, field)
    BY <1>1, ExtraFieldIs
  <2> QED
    BY <2>1, Zenon DEF OneField
<1>3. /\ Replaced(record) = 1 .. 3 /\ Cardinality(Replaced(record)) = 3
      /\ PlaceInOrder(record, 1) = 1 /\ PlaceInOrder(record, 3) = 3
  BY <1>1, ReplacedIs, Zenon
<1>4. PICK values : values = <<size, size, offset>>
  OBVIOUS
<1>5. /\ Len(values) = 3 /\ values \in Seq(Nat) /\ DOMAIN values = 1 .. 3
      /\ values[1] = size /\ values[3] = offset
  BY <1>1, <1>4
<1>6. ~Unparsable(record) /\ Len(Zip64Values(record)) >= Cardinality(Replaced(record))
  <2>1. Len(Zip64Values(record)) = 3
    BY <1>2, <1>4, <1>5
  <2> QED
    BY <1>2, <1>3, <2>1 DEF Unparsable
<1>7. UncompressedSize(record) = size /\ OffsetOfHeader(record) = offset
  <2>1. 1 \in Replaced(record) /\ 3 \in Replaced(record)
    BY <1>3
  <2>2. /\ Value(record, 1) = Zip64Values(record)[1]
        /\ Value(record, 3) = Zip64Values(record)[3]
    BY <1>2, <1>3, <2>1, Zenon DEF Value
  <2>3. Zip64Values(record) = values
    BY <1>2, <1>4
  <2> QED
    BY <1>5, <2>2, <2>3, Zenon DEF UncompressedSize, OffsetOfHeader
<1>8. LeftToZip64(record, size, offset) = values
  <2>1. LeftToZip64(record, size, offset) = <<size>> \o <<size>> \o <<offset>>
    BY <1>1, Zenon DEF LeftToZip64, When, Saturates
  <2>2. PICK P, one, other : P = {size, offset} /\ one = <<size>> /\ other = <<offset>>
    OBVIOUS
  <2>3. /\ one \in Seq(P) /\ Len(one) = 1 /\ one[1] = size
        /\ other \in Seq(P) /\ Len(other) = 1 /\ other[1] = offset
    BY <2>2
  <2>4. PICK two : two = one \o one
    OBVIOUS
  <2>5. two \in Seq(P) /\ Len(two) = 2 /\ two[1] = size /\ two[2] = size
    <3>1. /\ two \in Seq(P) /\ Len(two) = Len(one) + Len(one)
          /\ \A k \in 1 .. Len(one) : two[k] = one[k]
          /\ \A k \in 1 .. Len(one) : two[Len(one) + k] = one[k]
      BY <2>3, <2>4, JoinedIs
    <3>2. two[1] = one[1] /\ two[1 + 1] = one[1] /\ Len(two) = 1 + 1
      BY <2>3, <3>1
    <3> QED
      BY <2>3, <3>1, <3>2
  <2>6. PICK three : three = two \o other
    OBVIOUS
  <2>7. /\ three \in Seq(P) /\ Len(three) = 3
        /\ three[1] = size /\ three[2] = size /\ three[3] = offset
    <3>0. two \in Seq(P) /\ other \in Seq(P)
      BY <2>3, <2>5
    <3>1. /\ three \in Seq(P) /\ Len(three) = Len(two) + Len(other)
          /\ \A k \in 1 .. Len(two) : three[k] = two[k]
          /\ \A k \in 1 .. Len(other) : three[Len(two) + k] = other[k]
      BY <3>0, <2>6, JoinedIs
    <3>2. three[1] = two[1] /\ three[2] = two[2] /\ three[2 + 1] = other[1]
          /\ Len(three) = 2 + 1
      BY <2>3, <2>5, <3>1
    <3> QED
      BY <2>3, <2>5, <3>1, <3>2
  <2>8. values \in Seq(P) /\ values[2] = size
    BY <1>4, <2>2
  <2>9. ASSUME NEW k \in 1 .. Len(three) PROVE three[k] = values[k]
    <3>1. k = 1 \/ k = 2 \/ k = 3
      BY <2>7
    <3> QED
      BY <1>5, <2>7, <2>8, <3>1, Zenon
  <2>10. Len(three) = Len(values)
    BY <1>5, <2>7
  <2>11. three = values
    BY <2>7, <2>8, <2>9, <2>10, SameSequence
  <2> QED
    BY <2>1, <2>2, <2>4, <2>6, <2>11
<1>9. IsRecordOf(record, size, offset)
  <2>1. PICK extra : extra = record.extraFields
    OBVIOUS
  <2>2. ASSUME NEW i \in DOMAIN extra
        PROVE  /\ extra[i].size \in Nat
               /\ extra[i].values \in Seq(Nat)
               /\ \A n \in DOMAIN extra[i].values \cap DOMAIN values :
                    extra[i].values[n] = values[n]
    <3>1. i = 1 /\ extra[i] = field
      BY <1>2, <2>1
    <3>2. field.size \in Nat
      BY <1>2
    <3> QED
      BY <1>2, <1>4, <1>5, <3>1, <3>2
  <2>3. record.versionNeededToExtract >= VERSION_NEEDED_TO_EXTRACT_ZIP64
    BY <1>1 DEF Saturates, VERSION_NEEDED_TO_EXTRACT_ZIP64
  <2>4. extra \in Seq(ToSet(extra))
    BY <1>2, <2>1
  <2>5. record.uncompressedSize = Saturated /\ record.compressedSize = Saturated
        /\ record.relativeOffsetOfLocalHeader = Saturated
    BY <1>1 DEF Saturates
  <2>6. /\ record.uncompressedSize \in {size, Saturated}
        /\ record.compressedSize \in {size, Saturated}
        /\ record.relativeOffsetOfLocalHeader \in {offset, Saturated}
    BY <2>5
  <2> QED
    BY <1>2, <1>8, <2>1, <2>2, <2>3, <2>4, <2>6, Zenon DEF IsRecordOf
<1> QED
  BY <1>2, <1>6, <1>7, <1>9

(* Which pieces are of which kind.                                           *)
KindAt(file, n, k) ==
  /\ file[k].kind = "local" <=> k \in {1, n + 3}
  /\ file[k].kind = "descriptor" <=> k \in {n + 2, n + 5}
  /\ file[k].kind = "record" <=> k \in {n + 6, n + 7}
  /\ file[k].kind = "data" <=> k \in 2 .. n + 1 \/ k = n + 4

LEMMA KindsAre ==
  \A file, crc, n : FileOf(file, crc) /\ n = Len(crc) =>
    \A k \in DOMAIN file : KindAt(file, n, k)
<1>1. SUFFICES ASSUME NEW file, NEW crc, NEW n, FileOf(file, crc), n = Len(crc),
                      NEW k \in DOMAIN file
      PROVE  KindAt(file, n, k)
  OBVIOUS
<1>2. Shape(file, crc, n)
  BY <1>1, FileShape
<1>3. /\ n \in Nat /\ k \in 1 .. n + 8
      /\ file[1].kind = "local" /\ file[n + 3].kind = "local"
      /\ file[n + 2].kind = "descriptor" /\ file[n + 5].kind = "descriptor"
      /\ file[n + 6].kind = "record" /\ file[n + 7].kind = "record"
      /\ file[n + 4].kind = "data" /\ file[n + 8].kind = "end"
      /\ \A j \in 2 .. n + 1 : file[j].kind = "data"
  BY <1>1, <1>2 DEF Shape
<1>4. Somewhere(k, n)
  BY <1>3, PlacesAre
<1>5. CASE k = 1 \/ k = n + 3
  BY <1>3, <1>5 DEF KindAt
<1>6. CASE k \in 2 .. n + 1 \/ k = n + 4
  BY <1>3, <1>6 DEF KindAt
<1>7. CASE k = n + 2 \/ k = n + 5
  BY <1>3, <1>7 DEF KindAt
<1>8. CASE k = n + 6 \/ k = n + 7
  BY <1>3, <1>8 DEF KindAt
<1>9. CASE k = n + 8
  BY <1>3, <1>9 DEF KindAt
<1> QED
  BY <1>4, <1>5, <1>6, <1>7, <1>8, <1>9 DEF Somewhere

(* What lies between a local header and its data descriptor.                 *)
LEMMA EntriesOf ==
  \A file, crc, n, b : FileOf(file, crc) /\ n = Len(crc) /\ b = Bytes(crc) =>
    /\ EntryAt(file, 1) = [name |-> "0.payload", start |-> 67, size |-> b]
    /\ EntryAt(file, n + 3) =
         [name |-> "0.manifest.json", start |-> 164 + b, size |-> ManifestSize]
<1>1. SUFFICES ASSUME NEW file, NEW crc, NEW n, NEW b,
                      FileOf(file, crc), n = Len(crc), b = Bytes(crc)
      PROVE  /\ EntryAt(file, 1) = [name |-> "0.payload", start |-> 67, size |-> b]
             /\ EntryAt(file, n + 3) =
                  [name |-> "0.manifest.json", start |-> 164 + b, size |-> ManifestSize]
  OBVIOUS
<1>2. Shape(file, crc, n) /\ EndsAt(file, n, b)
  BY <1>1, FileShape, FileEnds
<1>3. n \in Nat /\ DOMAIN file = 1 .. n + 8 /\ file[1].name = "0.payload"
      /\ file[n + 3].name = "0.manifest.json"
  BY <1>2 DEF Shape
<1>4. \A k \in 1 .. n + 8 : file[k].kind = "data" <=> k \in 2 .. n + 1 \/ k = n + 4
  <2>1. \A k \in DOMAIN file : KindAt(file, n, k)
    BY <1>1, KindsAre
  <2> QED
    BY <1>3, <2>1 DEF KindAt
<1> DEFINE IsNext(k, h) == /\ h < k /\ file[k].kind # "data"
                           /\ \A j \in h + 1 .. k - 1 : file[j].kind = "data"
<1>5. AfterData(file, 1) = n + 2
  <2>1. n + 2 \in DOMAIN file /\ IsNext(n + 2, 1)
    BY <1>3, <1>4
  <2>2. ASSUME NEW k \in DOMAIN file, IsNext(k, 1) PROVE k = n + 2
    <3>1. k \in 1 .. n + 8 /\ ~(k \in 2 .. n + 1) /\ 1 < k
      BY <1>3, <1>4, <2>2
    <3>2. ~(n + 2 < k)
      <4>1. n + 2 \in 1 .. n + 8 /\ file[n + 2].kind # "data"
        BY <1>3, <1>4
      <4>2. n + 2 < k => n + 2 \in 1 + 1 .. k - 1
        BY <1>3, <3>1
      <4> QED
        BY <2>2, <4>1, <4>2
    <3> QED
      BY <1>3, <3>1, <3>2
  <2>3. AfterData(file, 1) = CHOOSE k \in DOMAIN file : IsNext(k, 1)
    BY DEF AfterData
  <2> HIDE DEF IsNext
  <2> QED
    BY <2>1, <2>2, <2>3
<1>6. AfterData(file, n + 3) = n + 5
  <2>1. n + 5 \in DOMAIN file /\ IsNext(n + 5, n + 3)
    <3>1. n + 5 \in DOMAIN file /\ n + 3 < n + 5 /\ file[n + 5].kind # "data"
      BY <1>3, <1>4
    <3>2. ASSUME NEW j \in (n + 3) + 1 .. (n + 5) - 1 PROVE file[j].kind = "data"
      <4>1. j = n + 4 /\ j \in 1 .. n + 8
        BY <1>3
      <4> QED
        BY <1>4, <4>1
    <3> QED
      BY <3>1, <3>2
  <2>2. ASSUME NEW k \in DOMAIN file, IsNext(k, n + 3) PROVE k = n + 5
    <3>1. k \in 1 .. n + 8 /\ k # n + 4 /\ n + 3 < k
      BY <1>3, <1>4, <2>2
    <3>2. ~(n + 5 < k)
      <4>1. n + 5 \in 1 .. n + 8 /\ file[n + 5].kind # "data"
        BY <1>3, <1>4
      <4>2. n + 5 < k => n + 5 \in (n + 3) + 1 .. k - 1
        BY <1>3, <3>1
      <4> QED
        BY <2>2, <4>1, <4>2
    <3> QED
      BY <1>3, <3>1, <3>2
  <2>3. AfterData(file, n + 3) = CHOOSE k \in DOMAIN file : IsNext(k, n + 3)
    BY DEF AfterData
  <2> HIDE DEF IsNext
  <2> QED
    BY <2>1, <2>2, <2>3
<1>7. PICK end : end = Ends(file)
  OBVIOUS
<1>8. /\ b \in Nat /\ end[1] = 67 /\ end[n + 1] = 67 + b /\ end[n + 3] = 164 + b
      /\ end[n + 4] = 164 + b + ManifestSize
  BY <1>2, <1>7 DEF EndsAt
<1>9. (n + 2) - 1 = n + 1 /\ (n + 5) - 1 = n + 4
  BY <1>3
<1>10. EntryAt(file, 1) = [name |-> "0.payload", start |-> 67, size |-> (67 + b) - 67]
  <2>1. Offset(file, n + 2) = 67 + b
    BY <1>7, <1>8, <1>9 DEF Offset
  <2> QED
    BY <1>3, <1>5, <1>7, <1>8, <2>1, Zenon DEF EntryAt
<1>11. EntryAt(file, n + 3) =
         [name |-> "0.manifest.json", start |-> 164 + b,
          size |-> (164 + b + ManifestSize) - (164 + b)]
  <2>1. Offset(file, n + 5) = 164 + b + ManifestSize
    BY <1>7, <1>8, <1>9 DEF Offset
  <2> QED
    BY <1>3, <1>6, <1>7, <1>8, <2>1, Zenon DEF EntryAt
<1>12. (67 + b) - 67 = b
  BY <1>8
<1>13. ManifestSize \in Nat
  BY WriterAssumption
<1>14. (164 + b + ManifestSize) - (164 + b) = ManifestSize
  BY <1>8, <1>13
<1> QED
  BY <1>10, <1>11, <1>12, <1>14

(* The places where an entry of a name begins and ends.                      *)
Places(file, n) ==
  /\ \A k \in DOMAIN file : IsHeader(file, k, "0.payload") <=> k = 1
  /\ \A k \in DOMAIN file : IsHeader(file, k, "0.manifest.json") <=> k = n + 3
  /\ \A k \in DOMAIN file :
       file[k].kind = "descriptor" /\ file[k].name = "0.payload" <=> k = n + 2
  /\ \A k \in DOMAIN file :
       file[k].kind = "descriptor" /\ file[k].name = "0.manifest.json" <=> k = n + 5
  /\ {1, n + 2, n + 3, n + 5, n + 6, n + 7} \subseteq DOMAIN file

LEMMA PlacesOf ==
  \A file, crc, n : FileOf(file, crc) /\ n = Len(crc) => Places(file, n)
<1>1. SUFFICES ASSUME NEW file, NEW crc, NEW n, FileOf(file, crc), n = Len(crc)
      PROVE  Places(file, n)
  OBVIOUS
<1>2. Shape(file, crc, n)
  BY <1>1, FileShape
<1>3. /\ n \in Nat /\ DOMAIN file = 1 .. n + 8
      /\ file[1].name = "0.payload" /\ file[n + 2].name = "0.payload"
      /\ file[n + 3].name = "0.manifest.json" /\ file[n + 5].name = "0.manifest.json"
  BY <1>2 DEF Shape
<1>4. {1, n + 2, n + 3, n + 5, n + 6, n + 7} \subseteq DOMAIN file
  BY <1>3
<1>5. ASSUME NEW k \in DOMAIN file
      PROVE  /\ file[k].kind = "local" <=> k = 1 \/ k = n + 3
             /\ file[k].kind = "descriptor" <=> k = n + 2 \/ k = n + 5
  <2>1. KindAt(file, n, k)
    BY <1>1, KindsAre
  <2> QED
    BY <2>1 DEF KindAt
<1>6. ASSUME NEW k \in DOMAIN file
      PROVE  /\ file[k].kind = "local" /\ file[k].name = "0.payload" <=> k = 1
             /\ file[k].kind = "local" /\ file[k].name = "0.manifest.json" <=> k = n + 3
             /\ file[k].kind = "descriptor" /\ file[k].name = "0.payload" <=> k = n + 2
             /\ file[k].kind = "descriptor" /\ file[k].name = "0.manifest.json" <=> k = n + 5
  BY <1>3, <1>5
<1> QED
  BY <1>4, <1>6 DEF IsHeader, Places

(* What the reader makes of the file.                                        *)
Directory(file, n, b) ==
  /\ {k \in DOMAIN file : file[k].kind = "record"} = {n + 6, n + 7}
  /\ getCDBuffers(file) = {n + 6, n + 7}
  /\ Offset(file, 1) = 0 /\ Offset(file, n + 3) = 91 + b
  /\ Offset(file, n + 6) = 188 + b + ManifestSize
  /\ Offset(file, n + 7) = 271 + b + ManifestSize
  /\ Offset(file, n + 8) = 360 + b + ManifestSize
  /\ Bytes(file) = 458 + b + ManifestSize
  /\ Saturates(file[n + 6], b, 0) /\ Saturates(file[n + 7], ManifestSize, 91 + b)
  /\ TrueEntry(file, "0.payload") = EntryAt(file, 1)
  /\ TrueEntry(file, "0.manifest.json") = EntryAt(file, n + 3)

LEMMA DirectoryOf ==
  \A file, crc, n, b : FileOf(file, crc) /\ n = Len(crc) /\ b = Bytes(crc) =>
    Directory(file, n, b)
<1>1. SUFFICES ASSUME NEW file, NEW crc, NEW n, NEW b,
                      FileOf(file, crc), n = Len(crc), b = Bytes(crc)
      PROVE  Directory(file, n, b)
  OBVIOUS
<1>2. Shape(file, crc, n) /\ EndsAt(file, n, b)
  BY <1>1, FileShape, FileEnds
<1>3. n \in Nat /\ DOMAIN file = 1 .. n + 8 /\ Len(file) = n + 8
  BY <1>2 DEF Shape
<1>4. PICK end : end = Ends(file)
  OBVIOUS
<1>5. ManifestSize \in Nat
  BY WriterAssumption
<1>6. /\ b \in Nat
      /\ end[0] = 0 /\ end[n + 2] = 91 + b
      /\ end[n + 5] = 188 + b + ManifestSize /\ end[n + 6] = 271 + b + ManifestSize
      /\ end[n + 7] = 360 + b + ManifestSize /\ end[n + 8] = 458 + b + ManifestSize
  BY <1>2, <1>4 DEF EndsAt
<1>7. /\ 1 - 1 = 0 /\ (n + 3) - 1 = n + 2 /\ (n + 6) - 1 = n + 5 /\ (n + 7) - 1 = n + 6
      /\ (n + 8) - 1 = n + 7
  BY <1>3
<1>8. /\ Offset(file, 1) = 0 /\ Offset(file, n + 3) = 91 + b
      /\ Offset(file, n + 6) = 188 + b + ManifestSize
      /\ Offset(file, n + 7) = 271 + b + ManifestSize
      /\ Offset(file, n + 8) = 360 + b + ManifestSize
  BY <1>4, <1>6, <1>7 DEF Offset
<1>9. Bytes(file) = 458 + b + ManifestSize
  BY <1>3, <1>4, <1>6 DEF Bytes
<1>10. {k \in DOMAIN file : file[k].kind = "record"} = {n + 6, n + 7}
  <2>1. \A k \in DOMAIN file : file[k].kind = "record" <=> k \in {n + 6, n + 7}
    <3>1. \A k \in DOMAIN file : KindAt(file, n, k)
      BY <1>1, KindsAre
    <3> QED
      BY <3>1 DEF KindAt
  <2>2. n + 6 \in DOMAIN file /\ n + 7 \in DOMAIN file
    BY <1>3
  <2> QED
    BY <2>1, <2>2
<1>11. getCDBuffers(file) = {n + 6, n + 7}
  <2>1. ASSUME NEW k \in {n + 6, n + 7}
        PROVE  /\ Bytes(file) - TailSize <= Offset(file, k)
               /\ Offset(file, k) <= Bytes(file) - END_OF_CENTRAL_DIRECTORY_RECORD_SIZE
    <3>1. Offset(file, k) = 188 + b + ManifestSize \/ Offset(file, k) = 271 + b + ManifestSize
      BY <1>8
    <3> QED
      BY <1>5, <1>6, <1>9, <3>1 DEF TailSize, END_OF_CENTRAL_DIRECTORY_RECORD_SIZE
  <2>2. \A k \in DOMAIN file : file[k].kind = "record" <=> k \in {n + 6, n + 7}
    <3>1. \A k \in DOMAIN file : KindAt(file, n, k)
      BY <1>1, KindsAre
    <3> QED
      BY <3>1 DEF KindAt
  <2>3. {n + 6, n + 7} \subseteq DOMAIN file
    BY <1>3
  <2> QED
    BY <2>1, <2>2, <2>3, Zenon DEF getCDBuffers
<1>12. Saturates(file[n + 6], b, 0) /\ Saturates(file[n + 7], ManifestSize, 91 + b)
  <2>1. file[n + 6] = RecordOf(1, b, 0) /\ file[n + 7] = RecordOf(2, ManifestSize, 91 + b)
    BY <1>1 DEF FileOf
  <2> QED
    BY <2>1, RecordSaturates
<1>13. /\ TrueEntry(file, "0.payload") = EntryAt(file, 1)
       /\ TrueEntry(file, "0.manifest.json") = EntryAt(file, n + 3)
  <2>1. /\ \A k \in DOMAIN file : IsHeader(file, k, "0.payload") <=> k = 1
        /\ \A k \in DOMAIN file : IsHeader(file, k, "0.manifest.json") <=> k = n + 3
        /\ 1 \in DOMAIN file /\ n + 3 \in DOMAIN file
    <3>1. Places(file, n)
      BY <1>1, PlacesOf
    <3> QED
      BY <3>1 DEF Places
  <2>2. /\ 1 = CHOOSE k \in DOMAIN file : IsHeader(file, k, "0.payload")
        /\ n + 3 = CHOOSE k \in DOMAIN file : IsHeader(file, k, "0.manifest.json")
    BY <2>1
  <2> QED
    BY <2>2, Zenon DEF TrueEntry
<1> QED
  BY <1>8, <1>9, <1>10, <1>11, <1>12, <1>13, Zenon DEF Directory

(* The records lead to the entries.                                          *)
LEMMA EntriesAreFound ==
  \A file, crc : FileOf(file, crc) =>
    /\ DirectoryParses(file)
    /\ TrueEntry(file, "0.payload") \in Entries(file)
    /\ TrueEntry(file, "0.manifest.json") \in Entries(file)
    /\ ManifestFits(file)
<1>1. SUFFICES ASSUME NEW file, NEW crc, FileOf(file, crc)
      PROVE  /\ DirectoryParses(file)
             /\ TrueEntry(file, "0.payload") \in Entries(file)
             /\ TrueEntry(file, "0.manifest.json") \in Entries(file)
             /\ ManifestFits(file)
  OBVIOUS
<1>2. PICK n, b : n = Len(crc) /\ b = Bytes(crc)
  OBVIOUS
<1>3. Shape(file, crc, n) /\ Directory(file, n, b)
  BY <1>1, <1>2, FileShape, DirectoryOf
<1>4. n \in Nat /\ b \in Nat /\ 91 + b \in Nat /\ ManifestSize \in Nat /\ 0 \in Nat
      /\ DOMAIN file = 1 .. n + 8
  <2>1. b \in Nat /\ ManifestSize \in Nat
    BY <1>1, <1>2, BytesCount, WriterAssumption DEF FileOf
  <2> QED
    BY <1>3, <2>1 DEF Shape
<1>5. /\ ~Unparsable(file[n + 6]) /\ UncompressedSize(file[n + 6]) = b
      /\ OffsetOfHeader(file[n + 6]) = 0
      /\ ~Unparsable(file[n + 7]) /\ UncompressedSize(file[n + 7]) = ManifestSize
      /\ OffsetOfHeader(file[n + 7]) = 91 + b
  <2>1. Saturates(file[n + 6], b, 0) /\ Saturates(file[n + 7], ManifestSize, 91 + b)
    BY <1>3, Zenon DEF Directory
  <2> QED
    BY <1>4, <2>1, RecordIsRead, Zenon
<1>6. getCDBuffers(file) = {n + 6, n + 7}
  BY <1>3, Zenon DEF Directory
<1>7. file[n + 6].name = "0.payload" /\ file[n + 7].name = "0.manifest.json"
      /\ file[1].size = 67 /\ file[n + 3].size = 73
  BY <1>3 DEF Shape
<1>8. FirstNamed(file, "0.payload") = file[n + 6]
  <2>1. {k \in getCDBuffers(file) : file[k].name = "0.payload"} = {n + 6}
    BY <1>6, <1>7
  <2>2. n + 6 = CHOOSE k \in {n + 6} : \A j \in {n + 6} : k <= j
    BY <1>4
  <2> QED
    BY <2>1, <2>2 DEF FirstNamed
<1>9. FirstNamed(file, "0.manifest.json") = file[n + 7]
  <2>1. {k \in getCDBuffers(file) : file[k].name = "0.manifest.json"} = {n + 7}
    BY <1>6, <1>7
  <2>2. n + 7 = CHOOSE k \in {n + 7} : \A j \in {n + 7} : k <= j
    BY <1>4
  <2> QED
    BY <2>1, <2>2 DEF FirstNamed
<1>10. HeaderLength(file, file[n + 6]) = 67 /\ HeaderLength(file, file[n + 7]) = 73
  <2>1. IsFile(file) /\ \A k \in DOMAIN file : file[k].size # 0
    <3>1. IsFile(file) /\ \A k \in DOMAIN file : file[k].size \in Nat \ {0}
      BY <1>1, FileSizes
    <3> QED
      BY <3>1
  <2>2. 1 \in DOMAIN file /\ n + 3 \in DOMAIN file
    BY <1>4
  <2>3. /\ PieceAt(file, Offset(file, 1)) = file[1]
        /\ PieceAt(file, Offset(file, n + 3)) = file[n + 3]
    BY <2>1, <2>2, PieceIsFound, Zenon
  <2>4. Offset(file, 1) = 0 /\ Offset(file, n + 3) = 91 + b
    BY <1>3, Zenon DEF Directory
  <2> QED
    BY <1>5, <1>7, <2>3, <2>4 DEF HeaderLength
<1>11. /\ TrueEntry(file, "0.payload") = [name |-> "0.payload", start |-> 67, size |-> b]
       /\ TrueEntry(file, "0.manifest.json") =
            [name |-> "0.manifest.json", start |-> 164 + b, size |-> ManifestSize]
  <2>1. /\ EntryAt(file, 1) = [name |-> "0.payload", start |-> 67, size |-> b]
        /\ EntryAt(file, n + 3) =
             [name |-> "0.manifest.json", start |-> 164 + b, size |-> ManifestSize]
    BY <1>1, <1>2, EntriesOf
  <2>2. /\ TrueEntry(file, "0.payload") = EntryAt(file, 1)
        /\ TrueEntry(file, "0.manifest.json") = EntryAt(file, n + 3)
    BY <1>3, Zenon DEF Directory
  <2> QED
    BY <2>1, <2>2
<1>12. 0 + 67 = 67 /\ (91 + b) + 73 = 164 + b
  BY <1>4
<1>13. /\ Located(file, file[n + 6]) = TrueEntry(file, "0.payload")
       /\ Located(file, file[n + 7]) = TrueEntry(file, "0.manifest.json")
  BY <1>5, <1>7, <1>10, <1>11, <1>12, Zenon DEF Located
<1>14. DirectoryParses(file)
  BY <1>5, <1>6, Zenon DEF DirectoryParses
<1>15. /\ TrueEntry(file, "0.payload") \in Entries(file)
       /\ TrueEntry(file, "0.manifest.json") \in Entries(file)
  <2>1. n + 6 \in getCDBuffers(file) /\ n + 7 \in getCDBuffers(file)
    BY <1>6
  <2>2. /\ TrueEntry(file, "0.payload") = Located(file, FirstNamed(file, file[n + 6].name))
        /\ TrueEntry(file, "0.manifest.json") = Located(file, FirstNamed(file, file[n + 7].name))
    BY <1>7, <1>8, <1>9, <1>13, Zenon
  <2> QED
    BY <2>1, <2>2, Zenon DEF Entries
<1>16. ManifestFits(file)
  <2>1. PICK entry : entry = TrueEntry(file, "0.manifest.json")
    OBVIOUS
  <2>2. entry.name = "0.manifest.json" /\ entry.size = ManifestSize
    BY <1>11, <2>1
  <2>3. entry.size <= manifestMaxSize
    BY <2>2, WriterAssumption
  <2> QED
    BY <1>15, <2>1, <2>2, <2>3, Zenon DEF ManifestFits
<1> QED
  BY <1>14, <1>15, <1>16

(* The file is one that the reader promises to open.                         *)
LEMMA FileIsArchive ==
  \A file, crc : FileOf(file, crc) => IsArchive(file) /\ Readable(file)
<1>1. SUFFICES ASSUME NEW file, NEW crc, FileOf(file, crc)
      PROVE  IsArchive(file) /\ Readable(file)
  OBVIOUS
<1>2. PICK n, b : n = Len(crc) /\ b = Bytes(crc)
  OBVIOUS
<1>3. Shape(file, crc, n) /\ Directory(file, n, b)
  BY <1>1, <1>2, FileShape, DirectoryOf
<1>4. n \in Nat /\ b \in Nat /\ 91 + b \in Nat /\ ManifestSize \in Nat /\ 0 \in Nat
      /\ DOMAIN file = 1 .. n + 8 /\ Len(file) = n + 8
  <2>1. b \in Nat /\ ManifestSize \in Nat
    BY <1>1, <1>2, BytesCount, WriterAssumption DEF FileOf
  <2> QED
    BY <1>3, <2>1 DEF Shape
<1>5. /\ EntryAt(file, 1) = [name |-> "0.payload", start |-> 67, size |-> b]
      /\ EntryAt(file, n + 3) =
           [name |-> "0.manifest.json", start |-> 164 + b, size |-> ManifestSize]
  BY <1>1, <1>2, EntriesOf
<1>6. /\ Saturates(file[n + 6], b, 0) /\ Saturates(file[n + 7], ManifestSize, 91 + b)
      /\ Offset(file, 1) = 0 /\ Offset(file, n + 3) = 91 + b
      /\ {k \in DOMAIN file : file[k].kind = "record"} = {n + 6, n + 7}
  BY <1>3, Zenon DEF Directory
<1>7. /\ IsRecordOf(file[n + 6], b, 0) /\ IsRecordOf(file[n + 7], ManifestSize, 91 + b)
      /\ ~Conflicting(file[n + 6]) /\ ~Conflicting(file[n + 7])
      /\ Len(Zip64Values(file[n + 6])) >= Cardinality(Replaced(file[n + 6]))
      /\ Len(Zip64Values(file[n + 7])) >= Cardinality(Replaced(file[n + 7]))
  BY <1>4, <1>6, RecordIsRead, Zenon
<1>8. /\ \A k \in DOMAIN file : IsHeader(file, k, "0.payload") <=> k = 1
      /\ \A k \in DOMAIN file : IsHeader(file, k, "0.manifest.json") <=> k = n + 3
      /\ {1, n + 2, n + 3, n + 5, n + 6, n + 7} \subseteq DOMAIN file
  <2>1. Places(file, n)
    BY <1>1, <1>2, PlacesOf
  <2> QED
    BY <2>1 DEF Places
<1>9. /\ file[1].name = "0.payload" /\ file[n + 3].name = "0.manifest.json"
      /\ file[n + 6].name = "0.payload" /\ file[n + 7].name = "0.manifest.json"
      /\ file[n + 8].kind = "end" /\ file[n + 8].size = 98
  BY <1>3 DEF Shape
<1>10. \A k \in DOMAIN file : file[k].kind = "local" => k = 1 \/ k = n + 3
  <2>1. \A k \in DOMAIN file : KindAt(file, n, k)
    BY <1>1, <1>2, KindsAre
  <2> QED
    BY <2>1 DEF KindAt
<1>11. IsArchive(file)
  <2>1. file \in Seq(ToSet(file)) /\ file # <<>>
    <3>1. file \in Seq(ToSet(file))
      BY <1>1 DEF FileOf
    <3> QED
      BY <1>4, <3>1
  <2>2. \A k \in DOMAIN file : file[k].size \in Nat \ {0}
    BY <1>1, FileSizes
  <2>3. /\ file[Len(file)].kind = "end"
        /\ file[Len(file)].size >= END_OF_CENTRAL_DIRECTORY_RECORD_SIZE
    BY <1>4, <1>9 DEF END_OF_CENTRAL_DIRECTORY_RECORD_SIZE
  <2>4. ASSUME NEW j \in DOMAIN file, NEW k \in DOMAIN file,
               file[j].kind = "local", IsHeader(file, k, file[j].name)
        PROVE  j = k
    <3>1. CASE j = 1
      BY <1>8, <1>9, <2>4, <3>1, Zenon
    <3>2. CASE j = n + 3
      BY <1>8, <1>9, <2>4, <3>2, Zenon
    <3> QED
      BY <1>10, <2>4, <3>1, <3>2
  <2>5. ASSUME NEW k \in DOMAIN file, file[k].kind = "record"
        PROVE  \E h \in DOMAIN file :
                 /\ IsHeader(file, h, file[k].name)
                 /\ IsRecordOf(file[k], EntryAt(file, h).size, Offset(file, h))
    <3>1. EntryAt(file, 1).size = b /\ EntryAt(file, n + 3).size = ManifestSize
      BY <1>5
    <3>2. 1 \in DOMAIN file /\ n + 3 \in DOMAIN file
      BY <1>8
    <3>3. k = n + 6 \/ k = n + 7
      BY <1>6, <2>5
    <3>4. CASE k = n + 6
      <4>1. IsHeader(file, 1, file[k].name)
        BY <1>8, <1>9, <3>2, <3>4, Zenon
      <4>2. IsRecordOf(file[k], EntryAt(file, 1).size, Offset(file, 1))
        BY <1>6, <1>7, <3>1, <3>4, Zenon
      <4> QED
        BY <3>2, <4>1, <4>2, Zenon
    <3>5. CASE k = n + 7
      <4>1. IsHeader(file, n + 3, file[k].name)
        BY <1>8, <1>9, <3>2, <3>5, Zenon
      <4>2. IsRecordOf(file[k], EntryAt(file, n + 3).size, Offset(file, n + 3))
        BY <1>6, <1>7, <3>1, <3>5, Zenon
      <4> QED
        BY <3>2, <4>1, <4>2, Zenon
    <3> QED
      BY <3>3, <3>4, <3>5
  <2> QED
    BY <2>1, <2>2, <2>3, <2>4, <2>5, Zenon DEF IsArchive
<1>12. Readable(file)
  <2>1. ASSUME NEW k \in {n + 6, n + 7}
        PROVE  /\ Bytes(file) - Offset(file, k) <= TailSize
               /\ ~Conflicting(file[k])
               /\ Len(Zip64Values(file[k])) >= Cardinality(Replaced(file[k]))
    <3>1. k = n + 6 \/ k = n + 7
      BY <2>1
    <3>2. /\ Bytes(file) = 458 + b + ManifestSize
          /\ Offset(file, n + 6) = 188 + b + ManifestSize
          /\ Offset(file, n + 7) = 271 + b + ManifestSize
      BY <1>3, Zenon DEF Directory
    <3>3. Bytes(file) - Offset(file, k) <= TailSize
      BY <1>4, <3>1, <3>2 DEF TailSize
    <3> QED
      BY <1>7, <3>1, <3>3, Zenon
  <2>2. n + 7 \in {n + 6, n + 7} /\ file[n + 7].name = "0.manifest.json"
    BY <1>9
  <2>3. TrueEntry(file, "0.manifest.json").size <= manifestMaxSize
    <3>1. TrueEntry(file, "0.manifest.json") = EntryAt(file, n + 3)
      BY <1>3, Zenon DEF Directory
    <3>2. EntryAt(file, n + 3).size = ManifestSize
      BY <1>5
    <3> QED
      BY <3>1, <3>2, WriterAssumption
  <2> QED
    BY <1>6, <2>1, <2>2, <2>3, Zenon DEF Readable
<1> QED
  BY <1>11, <1>12

(* What is cut out of the file again.                                        *)
IsCut(P, s, m, n, cut) ==
  /\ cut \in Seq(P) /\ Len(cut) = (n - m) + 1
  /\ \A k \in 1 .. (n - m) + 1 : cut[k] = s[(m + k) - 1]

LEMMA CutIs ==
  ASSUME NEW P, NEW s \in Seq(P), NEW m \in 1 .. Len(s) + 1, NEW n \in m - 1 .. Len(s)
  PROVE  IsCut(P, s, m, n, SubSeq(s, m, n))
  BY DEF IsCut

(* Between a local header and its data descriptor lies what is counted.      *)
LEMMA ContentsOf ==
  \A file, crc, n : FileOf(file, crc) /\ n = Len(crc) =>
    SubSeq(file, 2, n + 1) = crc /\ SubSeq(file, n + 4, n + 4) = <<Manifest>>
<1>1. SUFFICES ASSUME NEW file, NEW crc, NEW n, FileOf(file, crc), n = Len(crc)
      PROVE  SubSeq(file, 2, n + 1) = crc /\ SubSeq(file, n + 4, n + 4) = <<Manifest>>
  OBVIOUS
<1>2. Shape(file, crc, n)
  BY <1>1, FileShape
<1>3. /\ n \in Nat /\ Len(file) = n + 8
      /\ \A k \in 2 .. n + 1 : file[k] = crc[k - 1]
  BY <1>2 DEF Shape
<1>4. PICK P : P = ToSet(file) \cup PayloadPieces \cup {Manifest}
  OBVIOUS
<1>5. file \in Seq(P)
  <2>1. file \in Seq(ToSet(file))
    BY <1>1 DEF FileOf
  <2> QED
    BY <1>4, <2>1
<1>6. crc \in Seq(P)
  <2>1. crc \in Seq(PayloadPieces)
    BY <1>1 DEF FileOf
  <2> QED
    BY <1>4, <2>1
<1>7. SubSeq(file, 2, n + 1) = crc
  <2>1. PICK cut : cut = SubSeq(file, 2, n + 1)
    OBVIOUS
  <2>2. PICK last : last = n + 1
    OBVIOUS
  <2>3. /\ 2 \in 1 .. Len(file) + 1 /\ last \in 2 - 1 .. Len(file)
        /\ (last - 2) + 1 = n
    BY <1>3, <2>2
  <2>4. /\ cut \in Seq(P) /\ Len(cut) = n
        /\ \A k \in 1 .. n : cut[k] = file[(2 + k) - 1]
    <3>1. IsCut(P, file, 2, last, cut)
      BY <1>5, <2>1, <2>2, <2>3, CutIs
    <3> QED
      BY <2>3, <3>1 DEF IsCut
  <2>5. ASSUME NEW k \in 1 .. Len(cut) PROVE cut[k] = crc[k]
    <3>1. k \in 1 .. n
      BY <2>4
    <3>2. (2 + k) - 1 \in 2 .. n + 1 /\ ((2 + k) - 1) - 1 = k
      BY <1>3, <3>1
    <3> QED
      BY <1>3, <2>4, <3>1, <3>2
  <2>6. Len(cut) = Len(crc)
    BY <1>1, <2>4
  <2> QED
    BY <1>6, <2>1, <2>4, <2>5, <2>6, SameSequence
<1>8. SubSeq(file, n + 4, n + 4) = <<Manifest>>
  <2>1. PICK cut, one : cut = SubSeq(file, n + 4, n + 4) /\ one = <<Manifest>>
    OBVIOUS
  <2>2. PICK at : at = n + 4
    OBVIOUS
  <2>3. /\ at \in 1 .. Len(file) + 1 /\ at \in at - 1 .. Len(file)
        /\ (at - at) + 1 = 1 /\ (at + 1) - 1 = at
    BY <1>3, <2>2
  <2>4. /\ cut \in Seq(P) /\ Len(cut) = 1 /\ cut[1] = file[at]
    <3>1. IsCut(P, file, at, at, cut)
      BY <1>5, <2>1, <2>2, <2>3, CutIs
    <3> QED
      BY <2>3, <3>1 DEF IsCut
  <2>5. one \in Seq(P) /\ Len(one) = 1 /\ one[1] = Manifest
    BY <1>4, <2>1
  <2>6. file[at] = Manifest
    BY <1>1, <2>2 DEF FileOf
  <2>7. \A k \in 1 .. Len(cut) : cut[k] = one[k]
    BY <2>4, <2>5, <2>6
  <2> QED
    BY <2>1, <2>4, <2>5, <2>7, SameSequence
<1> QED
  BY <1>7, <1>8

(* The end record says where the directory is.                               *)
LEMMA EndIsTrue ==
  \A file, crc : FileOf(file, crc) =>
    LET end == file[Len(file)]
        Records == {k \in DOMAIN file : file[k].kind = "record"}
    IN /\ end.kind = "end"
       /\ {Offset(file, k) : k \in Records}
            \subseteq end.offsetOfDirectory .. end.offsetOfDirectory + end.sizeOfDirectory - 1
       /\ end.offsetOfDirectory + end.sizeOfDirectory = Offset(file, Len(file))
       /\ PieceAt(file, end.offsetOfDirectory).kind = "record"
<1>1. SUFFICES ASSUME NEW file, NEW crc, FileOf(file, crc)
      PROVE  LET end == file[Len(file)]
                 Records == {k \in DOMAIN file : file[k].kind = "record"}
             IN /\ end.kind = "end"
                /\ {Offset(file, k) : k \in Records}
                     \subseteq end.offsetOfDirectory
                                 .. end.offsetOfDirectory + end.sizeOfDirectory - 1
                /\ end.offsetOfDirectory + end.sizeOfDirectory = Offset(file, Len(file))
                /\ PieceAt(file, end.offsetOfDirectory).kind = "record"
  OBVIOUS
<1>2. PICK n, b : n = Len(crc) /\ b = Bytes(crc)
  OBVIOUS
<1>3. Shape(file, crc, n) /\ Directory(file, n, b)
  BY <1>1, <1>2, FileShape, DirectoryOf
<1>4. PICK end : end = file[n + 8]
  OBVIOUS
<1>5. /\ n \in Nat /\ DOMAIN file = 1 .. n + 8 /\ Len(file) = n + 8
      /\ end.kind = "end" /\ file[n + 6].kind = "record"
  BY <1>3, <1>4 DEF Shape
<1>6. b \in Nat /\ ManifestSize \in Nat
  BY <1>1, <1>2, BytesCount, WriterAssumption DEF FileOf
<1>7. PICK start : start = 188 + b + ManifestSize /\ start \in Nat
  BY <1>6
<1>8. end.offsetOfDirectory = start /\ end.sizeOfDirectory = 172
  <2>1. end = writeEndOfCentralDirectoryRecord(2, 172, start)
    BY <1>1, <1>2, <1>4, <1>7 DEF FileOf
  <2> QED
    BY <2>1 DEF writeEndOfCentralDirectoryRecord
<1>9. /\ Offset(file, n + 6) = start /\ Offset(file, n + 7) = start + 83
      /\ Offset(file, n + 8) = start + 172
  <2>1. /\ Offset(file, n + 6) = 188 + b + ManifestSize
        /\ Offset(file, n + 7) = 271 + b + ManifestSize
        /\ Offset(file, n + 8) = 360 + b + ManifestSize
    BY <1>3, Zenon DEF Directory
  <2> QED
    BY <1>6, <1>7, <2>1
<1>10. {k \in DOMAIN file : file[k].kind = "record"} = {n + 6, n + 7}
  BY <1>3, Zenon DEF Directory
<1>11. {Offset(file, k) : k \in {n + 6, n + 7}} \subseteq start .. start + 172 - 1
  <2>1. start \in start .. start + 172 - 1 /\ start + 83 \in start .. start + 172 - 1
    BY <1>7
  <2> QED
    BY <1>9, <2>1
<1>12. PieceAt(file, start).kind = "record"
  <2>1. IsFile(file) /\ \A k \in DOMAIN file : file[k].size # 0
    <3>1. IsFile(file) /\ \A k \in DOMAIN file : file[k].size \in Nat \ {0}
      BY <1>1, FileSizes
    <3> QED
      BY <3>1
  <2>2. n + 6 \in DOMAIN file
    BY <1>5
  <2>3. PieceAt(file, Offset(file, n + 6)) = file[n + 6]
    BY <2>1, <2>2, PieceIsFound, Zenon
  <2> QED
    BY <1>5, <1>9, <2>3
<1>13. file[Len(file)] = end /\ Offset(file, Len(file)) = start + 172
  BY <1>4, <1>5, <1>9
<1> QED
  BY <1>5, <1>8, <1>10, <1>11, <1>12, <1>13

(* The output of a stream that is closed is a whole file.                    *)
LEMMA ClosedIsFile ==
  ASSUME WriterInv, FileInv, stream = "closed"
  PROVE  /\ FileOf(Output, entryInfos[1].crc)
         /\ Len(entryInfos[1].crc) = Len(segmentInfos) /\ Len(segmentInfos) \in Nat
         /\ \A k \in 1 .. Len(segmentInfos) : entryInfos[1].crc[k] = Segment(k)
<1>1. IsClosed /\ OutputTypes /\ segmentInfos \in Seq(Infos)
  BY DEF FileInv, WriterInv, WriterTypes
<1>2. PICK crc, n, b : crc = entryInfos[1].crc /\ n = Len(segmentInfos) /\ b = Bytes(crc)
  OBVIOUS
<1>3. n \in Nat /\ DOMAIN segmentInfos = 1 .. n
  BY <1>1, <1>2
<1>4. ArePayload(crc)
  BY <1>1, <1>2 DEF IsClosed, PayloadKept
<1>5. /\ crc \in Seq(PayloadPieces) /\ Len(crc) = n /\ DOMAIN crc = 1 .. n
      /\ \A k \in DOMAIN crc : crc[k] = Segment(k) /\ crc[k].size # 0
  BY <1>2, <1>4 DEF ArePayload
<1>6. b \in Nat /\ ManifestSize \in Nat
  BY <1>2, <1>5, BytesCount, WriterAssumption
<1>7. PayloadBytes = b
  BY <1>2 DEF PayloadBytes
<1>8. ManifestOffset = 91 + b
  <2>1. Header(1).size = 67 /\ Descriptor(1).size = 24
    BY PiecesAre
  <2>2. ManifestOffset = 67 + b + 24
    BY <1>7, <2>1 DEF ManifestOffset
  <2> QED
    BY <1>6, <2>2
<1>9. PayloadRecord = RecordOf(1, b, 0) /\ ManifestRecord = RecordOf(2, ManifestSize, 91 + b)
  BY <1>7, <1>8 DEF PayloadRecord, ManifestRecord
<1>10. EndRecord = writeEndOfCentralDirectoryRecord(2, 172, 188 + b + ManifestSize)
  <2>1. PayloadRecord.size = 83 /\ ManifestRecord.size = 89
        /\ Header(2).size = 73 /\ Descriptor(2).size = 24
    BY <1>9, PiecesAre
  <2>2. EndRecord = writeEndOfCentralDirectoryRecord(2, 83 + 89, 91 + b + 73 + ManifestSize + 24)
    BY <1>8, <2>1 DEF EndRecord
  <2>3. 83 + 89 = 172 /\ 91 + b + 73 + ManifestSize + 24 = 188 + b + ManifestSize
    BY <1>6
  <2> QED
    BY <2>2, <2>3
<1>11. PICK rest : rest = <<Descriptor(1), Header(2), Manifest, Descriptor(2),
                           PayloadRecord, ManifestRecord, EndRecord>>
  OBVIOUS
<1>12. OutputIs(rest)
  BY <1>1, <1>11 DEF IsClosed
<1>13. /\ Len(rest) = 7 /\ DOMAIN rest = 1 .. 7
       /\ rest[1] = Descriptor(1) /\ rest[2] = Header(2) /\ rest[3] = Manifest
       /\ rest[4] = Descriptor(2) /\ rest[5] = PayloadRecord
       /\ rest[6] = ManifestRecord /\ rest[7] = EndRecord
  BY <1>11
<1>14. PICK O : O = Output
  OBVIOUS
<1>15. /\ Len(O) = 1 + n + 7 /\ O[1] = Header(1)
       /\ \A k \in 1 .. n : O[1 + k] = Segment(k)
       /\ \A k \in 1 .. 7 : O[1 + n + k] = rest[k]
  BY <1>2, <1>3, <1>12, <1>13, <1>14 DEF OutputIs
<1>16. /\ O[1 + n + 1] = rest[1] /\ O[1 + n + 2] = rest[2] /\ O[1 + n + 3] = rest[3]
       /\ O[1 + n + 4] = rest[4] /\ O[1 + n + 5] = rest[5] /\ O[1 + n + 6] = rest[6]
       /\ O[1 + n + 7] = rest[7]
  BY <1>15
<1>17. /\ 1 + n + 1 = n + 2 /\ 1 + n + 2 = n + 3 /\ 1 + n + 3 = n + 4 /\ 1 + n + 4 = n + 5
       /\ 1 + n + 5 = n + 6 /\ 1 + n + 6 = n + 7 /\ 1 + n + 7 = n + 8
  BY <1>3
<1>18. O \in Seq(ToSet(O))
  <2>1. PICK P : received \in Seq(P) /\ queue \in Seq(P)
    BY <1>1 DEF OutputTypes
  <2>2. O \in Seq(P)
    BY <1>14, <2>1, JoinedIs DEF Output
  <2>3. \A k \in DOMAIN O : O[k] \in ToSet(O)
    BY DEF ToSet
  <2> QED
    BY <2>2, <2>3
<1>19. \A k \in 1 .. n : O[1 + k] = crc[k]
  BY <1>5, <1>15
<1>20. FileOf(O, crc)
  <2>1. /\ O[n + 2] = Descriptor(1) /\ O[n + 3] = Header(2) /\ O[n + 4] = Manifest
        /\ O[n + 5] = Descriptor(2) /\ O[n + 6] = RecordOf(1, b, 0)
        /\ O[n + 7] = RecordOf(2, ManifestSize, 91 + b)
        /\ O[n + 8] = writeEndOfCentralDirectoryRecord(2, 172, 188 + b + ManifestSize)
    BY <1>9, <1>10, <1>13, <1>16, <1>17, Zenon
  <2>2. Len(O) = n + 8
    BY <1>15, <1>17
  <2> QED
    BY <1>2, <1>5, <1>15, <1>18, <1>19, <2>1, <2>2, Zenon DEF FileOf
<1> QED
  BY <1>2, <1>3, <1>5, <1>14, <1>20

(* What FileInv says of a closed stream is what the file promises.           *)
LEMMA FilesAreTrue == WriterInv /\ FileInv => FileDescribesItself
<1>1. SUFFICES ASSUME WriterInv, FileInv, stream = "closed" PROVE FileDescribesItself
  BY DEF FileDescribesItself, DirectoryMatchesBytes, SegmentsMatchPayload
<1>2. PICK O, crc, n, b : /\ O = Output /\ crc = entryInfos[1].crc
                          /\ n = Len(crc) /\ b = Bytes(crc)
  OBVIOUS
<1>3. /\ FileOf(O, crc) /\ n = Len(segmentInfos) /\ n \in Nat
      /\ \A k \in 1 .. n : crc[k] = Segment(k)
  BY <1>1, <1>2, ClosedIsFile
<1>4. Places(O, n) /\ Directory(O, n, b) /\ b \in Nat
  BY <1>2, <1>3, PlacesOf, DirectoryOf, BytesCount DEF FileOf
<1>5. Filename[1] = "0.payload" /\ Filename[2] = "0.manifest.json"
  BY DEF Filename
<1>6. /\ Place("local", 1) = 1 /\ Place("descriptor", 1) = n + 2
      /\ Place("local", 2) = n + 3 /\ Place("descriptor", 2) = n + 5
  <2>1. /\ 1 \in DOMAIN O /\ n + 2 \in DOMAIN O /\ n + 3 \in DOMAIN O /\ n + 5 \in DOMAIN O
    BY <1>4 DEF Places
  <2>2. \A k \in DOMAIN O :
          /\ O[k].kind = "local" /\ O[k].name = Filename[1] <=> k = 1
          /\ O[k].kind = "descriptor" /\ O[k].name = Filename[1] <=> k = n + 2
          /\ O[k].kind = "local" /\ O[k].name = Filename[2] <=> k = n + 3
          /\ O[k].kind = "descriptor" /\ O[k].name = Filename[2] <=> k = n + 5
    BY <1>4, <1>5 DEF Places, IsHeader
  <2>3. Place("local", 1) = 1
    BY <1>2, <2>1, <2>2, Zenon DEF Place
  <2>4. Place("descriptor", 1) = n + 2
    BY <1>2, <2>1, <2>2, Zenon DEF Place
  <2>5. Place("local", 2) = n + 3
    BY <1>2, <2>1, <2>2, Zenon DEF Place
  <2>6. Place("descriptor", 2) = n + 5
    BY <1>2, <2>1, <2>2, Zenon DEF Place
  <2> QED
    BY <2>3, <2>4, <2>5, <2>6
<1>7. /\ 1 + 1 = 2 /\ (n + 2) - 1 = n + 1 /\ (n + 3) + 1 = n + 4 /\ (n + 5) - 1 = n + 4
  BY <1>3
<1>8. /\ SubSeq(O, Place("local", 1) + 1, Place("descriptor", 1) - 1) = crc
      /\ SubSeq(O, Place("local", 2) + 1, Place("descriptor", 2) - 1) = <<Manifest>>
  <2>1. SubSeq(O, 2, n + 1) = crc /\ SubSeq(O, n + 4, n + 4) = <<Manifest>>
    BY <1>2, <1>3, ContentsOf
  <2> QED
    BY <1>6, <1>7, <2>1
<1>9. /\ entryInfos[1] = [offset |-> 0, size |-> b, crc |-> crc]
      /\ entryInfos[2] = [offset |-> 91 + b, size |-> ManifestSize, crc |-> <<Manifest>>]
  <2>1. IsClosed
    BY <1>1 DEF FileInv
  <2>2. PayloadBytes = b
    BY <1>2 DEF PayloadBytes
  <2>3. Header(1).size = 67 /\ Descriptor(1).size = 24
    BY PiecesAre
  <2>4. ManifestOffset = 67 + b + 24
    BY <2>2, <2>3 DEF ManifestOffset
  <2>5. ManifestOffset = 91 + b
    BY <1>4, <2>4
  <2> QED
    BY <1>2, <2>1, <2>2, <2>5 DEF IsClosed, PayloadKept
<1>10. Offset(O, 1) = 0 /\ Offset(O, n + 3) = 91 + b
  BY <1>4, Zenon DEF Directory
<1>11. Bytes(<<Manifest>>) = ManifestSize
  <2>1. Manifest.size = ManifestSize /\ ManifestSize \in Nat
    BY PiecesAre, WriterAssumption
  <2> QED
    BY <2>1, BytesOfFew
<1>12. /\ DirectoryParses(O) /\ ManifestFits(O)
       /\ TrueEntry(O, Filename[1]) \in Entries(O)
       /\ TrueEntry(O, Filename[2]) \in Entries(O)
  BY <1>3, <1>5, EntriesAreFound
<1>13. IsArchive(O) /\ Readable(O)
  BY <1>3, FileIsArchive
<1>14. ASSUME NEW e \in EntryNumbers
       PROVE  LET content == SubSeq(O, Place("local", e) + 1, Place("descriptor", e) - 1)
              IN /\ entryInfos[e] = [offset |-> Offset(O, Place("local", e)),
                                     size |-> Bytes(content), crc |-> content]
                 /\ TrueEntry(O, Filename[e]) \in Entries(O)
  <2>1. e = 1 \/ e = 2
    BY DEF EntryNumbers
  <2>2. CASE e = 1
    BY <1>2, <1>6, <1>8, <1>9, <1>10, <1>12, <2>2, Zenon
  <2>3. CASE e = 2
    BY <1>6, <1>8, <1>9, <1>10, <1>11, <1>12, <2>3, Zenon
  <2> QED
    BY <2>1, <2>2, <2>3
<1>15. DirectoryMatchesBytes
  <2>1. LET end == O[Len(O)]
            Records == {k \in DOMAIN O : O[k].kind = "record"}
        IN /\ end.kind = "end"
           /\ {Offset(O, k) : k \in Records}
                \subseteq end.offsetOfDirectory
                            .. end.offsetOfDirectory + end.sizeOfDirectory - 1
           /\ end.offsetOfDirectory + end.sizeOfDirectory = Offset(O, Len(O))
           /\ PieceAt(O, end.offsetOfDirectory).kind = "record"
    BY <1>3, EndIsTrue
  <2> QED
    BY <1>2, <1>12, <1>13, <1>14, <2>1, Zenon DEF DirectoryMatchesBytes
<1>16. SegmentsMatchPayload
  <2>1. source = <<>> /\ Bytes(Plain) = bytesRead
    BY <1>1 DEF FileInv
  <2>2. DOMAIN segmentInfos = DOMAIN crc /\ DOMAIN crc = 1 .. n
    <3>1. segmentInfos \in Seq(Infos) /\ crc \in Seq(PayloadPieces)
      BY <1>1, <1>3 DEF WriterInv, WriterTypes, FileOf
    <3>2. DOMAIN segmentInfos = 1 .. Len(segmentInfos) /\ DOMAIN crc = 1 .. Len(crc)
      BY <3>1
    <3> QED
      BY <1>2, <1>3, <3>2
  <2>3. \A k \in DOMAIN crc :
          crc[k].size = SizeOf(segmentInfos[k].encryptedSegmentSize,
                               encryptedSize(segmentSizeDefault))
    BY <1>3, <2>2 DEF Segment, Data
  <2> QED
    BY <1>2, <1>8, <2>1, <2>2, <2>3 DEF SegmentsMatchPayload, Plain
<1> QED
  BY <1>15, <1>16 DEF FileDescribesItself

(* However the content is cut into chunks, whenever the consumer reads, and  *)
(* wherever writing is given up or fails: a file that is written to its end  *)
(* has all the plaintext that was read in the segments that its manifest     *)
(* lists, and a directory that leads ZipReader to both entries.              *)
THEOREM FilesDescribeThemselves == Spec => []FileDescribesItself
<1>1. Init => WriterInv /\ FileInv
  BY InitWrites, InitFile
<1>2. WriterInv /\ FileInv /\ [Next]_vars => (WriterInv /\ FileInv)'
  BY NextWrites, NextFiles
<1> QED
  BY <1>1, <1>2, FilesAreTrue, PTL DEF Spec
=============================================================================
