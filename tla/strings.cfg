\* Strings of two to four entries, power failures and errors at every word of flash.
SPECIFICATION Spec
CONSTANTS
  k1 = k1
  k2 = k2
  x = x
  f = f
  NoValue = NoValue
  Blank = Blank
  Part = Part
  PartBlank = PartBlank
  ENTRY_COUNT = 9
  WORD_ENTRIES = 3
  Key = {k1, k2}
  String <- MCString
  Ragged <- MCRagged
  BlankFirst = {f}
  MaxCrashes = 2
  MaxFaults = 1
  ContinueAfterFailure = FALSE
INVARIANTS
  PageExact
PROPERTIES
  StringsImplemented
