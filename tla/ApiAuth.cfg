CONSTANTS
  NoIp = NoIp
  Clients = {a}
  Requests = {r1, r2}
  Modes = {"open", "one_key", "two_keys"}
  MaxFailures = 3
  WindowSeconds = 2
  BlockSeconds = 2
  MaxTime = 4
  MaxArrivals = 5
  MaxWriteErrors = 1
SPECIFICATION Spec
SYMMETRY Symmetry
INVARIANTS
  BlocksAreEarned
  LateTriesBounded
  AuditComplete
CHECK_DEADLOCK FALSE
