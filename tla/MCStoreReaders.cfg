\* A writer, a snapshot and a process that prunes twice.
SPECIFICATION Spec
CONSTANTS
  a = a
  b = b
  Op = {o1}
  Keyword = {a, b}
  Genesis = genesis
  InitialWords = {a}
  NoRequest = NoRequest
  Requests <- MCDrop
  Snap = {s1}
  Pruner = {p1}
  PruneBatch = 1
  MaxPrunes = 2

\* Calls are finitely many: the system stops when all have returned.
CHECK_DEADLOCK FALSE
INVARIANTS
  SnapshotIntact
  PruneNeverStuck
