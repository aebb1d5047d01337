SPECIFICATION Spec
CONSTANTS
  Cluster = {c1}
  Database = {d1}
  Owner = {o1}
  User = {u1}
  ManagementRole = {m1}
  Role = {n1}
  Creation = {"default"}
  Revocation = {"default"}
  Operations = {"delete"}
  Request = {r1}
  MaxRenewals = 0
  MaxFaults = 0
  Absent = Absent
  Idle = Idle
CHECK_DEADLOCK FALSE
PROPERTIES
  NoCredsInDeletedCluster
