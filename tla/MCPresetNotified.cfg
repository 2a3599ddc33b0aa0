\* Two nodes without a poller, one call on each, nothing is lost.
SPECIFICATION Spec
CONSTANTS
  n1 = n1
  n2 = n2
  a = a
  b = b
  Node = {n1, n2}
  Call = {c1, c2}
  Keyword = {a, b}
  Existing = {}
  Requests <- AddRequests
  NoRequest = NoRequest
  Serial = TRUE
  MaxRetries = 3
  MaxFaults = 0
  Presets = {n1}
  Reloader = reloader
  Pollers = {}
CHECK_DEADLOCK FALSE
INVARIANT
  Notified
