\* Two keys with the same hash.
SPECIFICATION Spec
CONSTANTS
  k1 = k1
  k2 = k2
  k3 = k3
  u8 = u8
  u16 = u16
  ANY = ANY
  NoValue = NoValue
  Blank = Blank
  Garbage = Garbage
  PageCount = 3
  ENTRY_COUNT = 2
  Key = {k1, k2}
  Type = {u8}
  Value = {1, 2}
  NsOf <- MCOneNamespace
  Hash <- MCCollidingHash
  AppItem <- MCOneType
  MaxSeq = 4
  MaxCrashes = 1
  MaxFaults = 0
  FaultsWhileLoading = FALSE
  ContinueAfterFailure = FALSE
PROPERTIES
  LoadKeepsItems
