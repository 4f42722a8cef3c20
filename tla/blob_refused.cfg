\* A blob that takes all pages but one, over another.
SPECIFICATION Spec
CONSTANTS
  k1 = k1
  k2 = k2
  EMPTY = EMPTY
  ERASED = ERASED
  BODY = BODY
  NoValue = NoValue
  PageCount = 4
  ENTRY_COUNT = 5
  Key = {k1}
  Blob <- MCSmallLarge
  OldBlobs <- MCNoOldBlob
  TailroomMin = 2
  MaxCrashes = 0
PROPERTIES
  RefusedKeepsValue
