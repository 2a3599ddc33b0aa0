\* Two writers and a pruner: the commit protocol against both.
SPECIFICATION Spec
CONSTANTS
  a = a
  b = b
  Op = {o1, o2}
  Keyword = {a, b}
  Genesis = genesis
  InitialWords = {a}
  NoRequest = NoRequest
  Requests <- MCClash
  Snap = {}
  Pruner = {p1}
  PruneBatch = 1
  MaxPrunes = 1
SYMMETRY MCSymmetry
\* Calls are finitely many: the system stops when all have returned.
CHECK_DEADLOCK FALSE
INVARIANTS
  StoreInv
  ReachableIntact
  WriterIntact
  MaintenanceExcludesWriters
  CommitNeverMissing
  CommitLine
  OutcomeFinal
PROPERTY
  ImplementsDictionary
