\* The application goes on after an error while a string was written.
SPECIFICATION Spec
CONSTANTS
  k1 = k1
  k2 = k2
  x = x
  f = f
  NoValue = NoValue
  Blank = Blank
  Part = Part
  PartBlank = PartBlank
  ENTRY_COUNT = 9
  WORD_ENTRIES = 3
  Key = {k1, k2}
  String <- MCString
  Ragged <- MCRagged
  BlankFirst = {f}
  MaxCrashes = 0
  MaxFaults = 1
  ContinueAfterFailure = TRUE
INVARIANTS
  EmptyIsBlank
