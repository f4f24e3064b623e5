--------------------------- MODULE ContentSource ---------------------------
(***************************************************************************)
(* sourceToStream of lib/src/seekable.ts: the content streams that the       *)
(* sources of OpenTDF.createTDF become, each as the lengths of its chunks.   *)
(* A chunk may be empty; a stream ends, or fails at any of them.             *)
(***************************************************************************)
EXTENDS Naturals, Sequences

CONSTANT chunkSize        (* how much is asked of a chunker at once            *)

(* pull of the stream over a chunker, until it is called at the end: a read  *)
(* from the offset on, which yields what there is, an empty chunk closes.    *)
Chunked(length) ==
  LET pulled[offset \in 0 .. length] ==
        LET rest == length - offset
            chunk == IF rest < chunkSize THEN rest ELSE chunkSize
        IN IF chunk = 0 THEN <<>> ELSE <<chunk>> \o pulled[offset + chunk]
  IN pulled[0]

(* A stream, also that of a Blob, is taken as it comes; a buffer, and the    *)
(* body of a URL, is one chunk, whatever its length.                         *)
sourceToStream(source) ==
  CASE source.type \in {"stream", "file-browser"} -> source.chunks
    [] source.type = "chunker" -> Chunked(source.length)
    [] OTHER -> <<source.length>>
=============================================================================
