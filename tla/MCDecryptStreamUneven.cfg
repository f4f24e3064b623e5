CONSTANTS
  totalSegments <- UnevenTotalSegments
  segmentBatchSize <- MCSegmentBatchSize
  maxConcurrentSegmentBatches <- MCMaxConcurrentSegmentBatches
  encryptedSegmentSize <- UnevenEncryptedSegmentSize
SPECIFICATION StreamSpec
INVARIANT
  ErrorIsAttributed
