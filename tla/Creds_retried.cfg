SPECIFICATION FairSpec
CONSTANTS
  Cluster = {c1}
  Database = {d1}
  Owner = {o1}
  User = {u1}
  ManagementRole = {m1, m2}
  Role = {n1}
  Creation = {"default"}
  Revocation = {"default", "drop"}
  Operations = {"update", "delete", "deleteRole"}
  Request = {r1, r2}
  MaxRenewals = 1
  MaxFaults = 1
  Absent = Absent
  Idle = Idle
CHECK_DEADLOCK FALSE
INVARIANTS
  TypeOK
  DroppedWhenRevoked
  FaultsBoundUntrackedLogins
  CredsOnlyFromConfigured
PROPERTIES
  RepeatableRevocationEnds
