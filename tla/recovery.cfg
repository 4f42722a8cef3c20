\* The power fails up to twice and a flash operation once, at any point of any operation.
SPECIFICATION FairSpec
CONSTANTS
  k1 = k1
  k2 = k2
  k3 = k3
  u8 = u8
  u16 = u16
  ANY = ANY
  NoValue = NoValue
  Blank = Blank
  Garbage = Garbage
  PageCount = 3
  ENTRY_COUNT = 2
  Key = {k1, k2}
  Type = {u8}
  Value = {1, 2}
  NsOf <- MCOneNamespace
  Hash <- MCInjectiveHash
  AppItem <- MCOneType
  MaxSeq = 3
  MaxCrashes = 2
  MaxFaults = 1
  FaultsWhileLoading = FALSE
  ContinueAfterFailure = FALSE
INVARIANTS
  OrderInv
  LoadSucceeds
  Consistent
PROPERTIES
  StoreImplemented
  EveryCallEnds
  FreeingEnds
