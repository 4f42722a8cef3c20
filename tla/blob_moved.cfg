\* A blob is refused after its first chunk was moved to make room for the second.
SPECIFICATION Spec
CONSTANTS
  k1 = k1
  k2 = k2
  EMPTY = EMPTY
  ERASED = ERASED
  BODY = BODY
  NoValue = NoValue
  PageCount = 3
  ENTRY_COUNT = 6
  Key = {k1, k2}
  Blob <- MCTwoValues
  OldBlobs <- MCNoOldBlob
  TailroomMin = 1
  MaxCrashes = 0
INVARIANTS
  ChunksWhereWritten
