\* Two nodes that poll, two calls made one at a time on a node, one fault.
SPECIFICATION FairSpec
CONSTANTS
  n1 = n1
  n2 = n2
  a = a
  b = b
  Node = {n1, n2}
  Call = {c1, c2}
  Keyword = {a, b}
  Existing = {a}
  Requests <- MixedRequests
  NoRequest = NoRequest
  Serial = TRUE
  MaxRetries = 2
  MaxFaults = 2
  Presets = {n1}
  Reloader = reloader
  Pollers = {n1}
\* Once every call has returned and every engine is current nothing has to happen.
CHECK_DEADLOCK FALSE
INVARIANTS
  PresetInv
  ReadYourWrites
PROPERTIES
  WritesWhole
  PollerRepairs
  ReloadEnds
