\* A V1 collection and three instances, six calls, two faults.
SPECIFICATION Spec
CONSTANTS
  p1 = p1
  p2 = p2
  p3 = p3
  n1 = n1
  n2 = n2
  n3 = n3
  a = a
  b = b
  b2 = b2
  spaces = spaces
  Proc = {p1, p2, p3}
  Node = {n1, n2, n3}
  At <- MCAt
  Raw = {a, b, b2, spaces}
  Keyword = {a, b}
  Norm <- MCNorm
  Blank = Blank
  Root = Root
  Existing = {a}
  Requests <- MCRequests
  NoRequest = NoRequest
  Free = Free
  MaxRetries = 2
  MaxCalls = 6
  MaxFaults = 2
  Orderly = TRUE
  Slow = FALSE
\* Calls are finitely many.
CHECK_DEADLOCK FALSE
INVARIANTS
  KeywordsKept
  SearchAgrees
  BatchAccounted
