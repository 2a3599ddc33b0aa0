\* A cached instance that is searched and one that writes; nothing is lost.
SPECIFICATION Spec
CONSTANTS
  p1 = p1
  p2 = p2
  p3 = p3
  n1 = n1
  n2 = n2
  n3 = n3
  a = a
  b = b
  b2 = b2
  spaces = spaces
  Proc = {p1, p2, p3}
  Node = {n1, n2, n3}
  At <- MCAt
  Raw = {a, b, b2, spaces}
  Keyword = {a, b}
  Norm <- MCNorm
  Blank = Blank
  Root = Root
  Existing = {}
  Requests <- MCSearchers
  NoRequest = NoRequest
  Free = Free
  MaxRetries = 2
  MaxCalls = 4
  MaxFaults = 0
  Orderly = TRUE
  Slow = FALSE
\* Calls are finitely many.
CHECK_DEADLOCK FALSE
INVARIANT
  CacheTold
