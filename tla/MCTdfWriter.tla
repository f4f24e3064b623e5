---------------------------- MODULE MCTdfWriter ----------------------------
(* Segments of three bytes; content of up to eight bytes in up to three      *)
(* chunks of up to seven: empty, shorter than a segment, an exact multiple,  *)
(* several segments in one chunk; streams with an empty chunk; chunkers that *)
(* are asked for four bytes at a time, and buffers.  The byte limits are     *)
(* reached by the first header, a segment, the end of the payload, the end   *)
(* of the file, or never.                                                    *)
EXTENDS TdfWriter

Total(s) == FoldLeft(LAMBDA sum, n : sum + n, 0, s)
Streams ==
  {s \in UNION {[1 .. n -> {0, 1, 2, 3, 4, 7}] : n \in 0 .. 3} : Total(s) <= 8}
MCSources ==
  [type : {"stream"}, chunks : Streams]
    \cup [type : {"chunker", "buffer"}, length : 0 .. 9]
=============================================================================
