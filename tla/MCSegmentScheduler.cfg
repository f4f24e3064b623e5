CONSTANTS
  totalSegments <- MCTotalSegments
  segmentBatchSize <- MCSegmentBatchSize
  maxConcurrentSegmentBatches <- MCMaxConcurrentSegmentBatches
SPECIFICATION SchedulerSpec
INVARIANTS
  WindowBound
  InFlightExact
  BatchesTile
PROPERTY
  NothingScheduledAfterFailure
