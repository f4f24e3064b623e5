-------------------------- MODULE MCDecryptStream --------------------------
(* Five segments of two bytes (the last has one) in batches of two, two at a *)
(* time: a window of four, a batch that must wait for the reader, and a      *)
(* short last batch.  For the legacy schedule a full group and one of a      *)
(* single short batch.                                                       *)
EXTENDS PayloadStream

MCTotalSegments == 5
MCSegmentBatchSize == 2
MCMaxConcurrentSegmentBatches == 2
MCEncryptedSegmentSize == [i \in 0 .. 4 |-> IF i = 4 THEN 1 ELSE 2]

(* A manifest may give every segment a size of its own: here two short       *)
(* segments before two long ones.                                            *)
UnevenTotalSegments == 4
UnevenEncryptedSegmentSize == [i \in 0 .. 3 |-> IF i < 2 THEN 1 ELSE 5]
=============================================================================
