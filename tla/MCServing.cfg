\* One generation at the start and one more, a caller, a waiter, one fault; fairness.
SPECIFICATION FairSpec
CONSTANTS
  Keyword = {a}
  Caller = {c1}
  Waiter = {w1}
  Refresher = refresher
  MaxCommits = 2
  MaxFaults = 1
\* A collection that is closed stops.
CHECK_DEADLOCK FALSE
INVARIANTS
  ServingInv
  ServingExact
  WaitKept
  StatusOrdered
  StatusHonest
  LeaseAccounted
  NothingAfterClose
PROPERTIES
  CatchesUp
  WaitEnds
  CloseReturns
