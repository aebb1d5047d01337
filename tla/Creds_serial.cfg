SPECIFICATION FairSpec
CONSTANTS
  Cluster = {c1}
  Database = {d1}
  Owner = {o1, o2}
  User = {u1}
  ManagementRole = {m1, m2}
  Role = {n1}
  Creation = {"default", "plain"}
  Revocation = {"default", "drop", "fail"}
  Operations = {"update", "delete", "purge", "late", "updateRole", "deleteRole"}
  Request = {r1}
  MaxRenewals = 1
  MaxFaults = 1
  Absent = Absent
  Idle = Idle
CHECK_DEADLOCK FALSE
PROPERTIES
  ImplementsLease
  UndisturbedLeaseEnds
