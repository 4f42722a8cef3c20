\* More keys than the partition can hold.
SPECIFICATION Spec
CONSTANTS
  k1 = k1
  k2 = k2
  k3 = k3
  u8 = u8
  u16 = u16
  ANY = ANY
  NoValue = NoValue
  Blank = Blank
  Garbage = Garbage
  PageCount = 2
  ENTRY_COUNT = 3
  Key = {k1, k2, k3}
  Type = {u8}
  Value = {1, 2}
  NsOf <- MCTwoNamespaces
  Hash <- MCInjectiveHash
  AppItem <- MCOneType
  MaxSeq = 4
  MaxCrashes = 1
  MaxFaults = 1
  FaultsWhileLoading = FALSE
  ContinueAfterFailure = FALSE
INVARIANTS
  TypeOK
  FirstUsedExact
  CopyComplete
  OnlyCopiesWhileFreeing
  FreePageKept
  RefusedOnlyWhenFull
PROPERTIES
  StoreImplemented
  EraseDiscardsNothing
