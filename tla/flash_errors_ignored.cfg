\* A flash operation fails, and the application goes on, with iterators open before that.
SPECIFICATION IteratorSpec
CONSTANTS
  k1 = k1
  k2 = k2
  k3 = k3
  u8 = u8
  u16 = u16
  ANY = ANY
  NoValue = NoValue
  Blank = Blank
  Garbage = Garbage
  PageCount = 3
  ENTRY_COUNT = 3
  Key = {k1, k2}
  Type = {u8}
  Value = {1, 2}
  NsOf <- MCOneNamespace
  Hash <- MCInjectiveHash
  AppItem <- MCOneType
  MaxSeq = 3
  MaxCrashes = 1
  MaxFaults = 1
  FaultsWhileLoading = FALSE
  ContinueAfterFailure = TRUE
  NS_ANY = NS_ANY
  Criteria <- MCCriteria
  MaxFailures = 0
INVARIANTS
  ControlInv
  PagesListed
  OneActivePage
PROPERTIES
  IterationComplete
  WritesOnlyBlank
