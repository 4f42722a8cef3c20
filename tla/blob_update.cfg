\* Blobs over several pages, power failures, and room for two versions.
SPECIFICATION Spec
CONSTANTS
  k1 = k1
  k2 = k2
  EMPTY = EMPTY
  ERASED = ERASED
  BODY = BODY
  NoValue = NoValue
  PageCount = 4
  ENTRY_COUNT = 5
  Key = {k1}
  Blob <- MCTwoValues
  OldBlobs <- MCOldBlob
  TailroomMin = 2
  MaxCrashes = 2
INVARIANTS
  BlobTypeOK
  OneIndex
  NeverAborts
PROPERTIES
  BlobsImplemented
