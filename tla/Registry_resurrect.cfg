SPECIFICATION Spec
CONSTANTS
  Primary = primary
  Clone = clone
  PrimaryHost = h1
  CloneHost = h2
  Cluster <- MCCluster
  Host <- MCHost
  HostOf <- MCHostOf
  CloneTarget = {clone}
  Provisioned = {h1}
  Existing = {d1}
  Database = {d1}
  GivenOwner = {app}
  Initialize = {FALSE}
  CreateDb = {FALSE}
  InheritDeleted = {FALSE}
  Request = {r1, r2}
  Faults = FALSE
  MaxUuid = 2
  Absent = Absent
  Idle = Idle
CHECK_DEADLOCK FALSE
PROPERTIES
  DeletedClusterStaysDeleted
