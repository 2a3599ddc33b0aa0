\* The legacy layout and two shards, three calls, a snapshot and a sweep.
SPECIFICATION Spec
CONSTANTS
  x = x
  Keyword = {x}
  Bucket <- MCBucket
  MaxShards = 2
  Counts = {1, 2}
  Requests <- MCRequests
  MaxOps = 3
  MaxLive = 1
  MaxPrunes = 1
  MaxEvents = 2
  Reader = {r1}
\* Calls are finitely many: the system stops when all have returned.
CHECK_DEADLOCK FALSE
INVARIANTS
  PinnedReads
  GenerationsLoad
  LateMirrorRefused
