\* The erasure of a partition is cut off, and a namespace is created afterwards.
SPECIFICATION ErasureSpec
CONSTANTS
  p1 = p1
  p2 = p2
  n1 = n1
  n2 = n2
  n3 = n3
  h1 = h1
  h2 = h2
  k1 = k1
  NoValue = NoValue
  Partition = {p1, p2}
  Name = {n1, n2, n3}
  Opened <- MCOpened
  Key = {k1}
  Value = {1}
  MaxNs = 2
  Handle = {h1}
  MaxOpens = 1
  AllocMayFail = FALSE
INVARIANTS
  NoForeignValues
