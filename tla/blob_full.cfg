\* New blobs of two keys where only one fits at a time.
SPECIFICATION FairSpec
CONSTANTS
  k1 = k1
  k2 = k2
  EMPTY = EMPTY
  ERASED = ERASED
  BODY = BODY
  NoValue = NoValue
  PageCount = 3
  ENTRY_COUNT = 6
  Key = {k1, k2}
  Blob <- MCOneValue
  OldBlobs <- MCNoOldBlob
  TailroomMin = 2
  MaxCrashes = 1
INVARIANTS
  NoChunkLeft
  RefusedForSpace
  CleanupFinds
PROPERTIES
  BlobRequestEnds
  BlobsImplemented
