CONSTANTS
  totalSegments <- MCTotalSegments
  segmentBatchSize <- MCSegmentBatchSize
  maxConcurrentSegmentBatches <- MCMaxConcurrentSegmentBatches
  encryptedSegmentSize <- MCEncryptedSegmentSize
SPECIFICATION FairStreamSpec
INVARIANTS
  ErrorIsAttributed
  OnlyVerifiedPlaintext
  WorkIsBounded
  FailureReachesEveryWaiter
PROPERTIES
  DeliversInOrder
  UsesScheduler
  StreamEnds
