------------------------- MODULE MCSegmentScheduler -------------------------
(* Seven segments in batches of two, two at a time: three whole batches, a   *)
(* short last one, and a window (4) smaller than the file.                   *)
EXTENDS SegmentScheduler

MCTotalSegments == 7
MCSegmentBatchSize == 2
MCMaxConcurrentSegmentBatches == 2
=============================================================================
