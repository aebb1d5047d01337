SPECIFICATION FairSpec
CONSTANTS
  Slot = {s1, s2, s3}
  Request = {r1, r2}
  Operations = {"cluster", "database", "clone", "creds"}
  MaxOpen = 2
  MaxIdle = 5
  Lifetime = TRUE
  Free = Free
  Idle = Idle
INVARIANTS
  ConnectionsAccountedFor
PROPERTIES
  LeftConnectionsClose
