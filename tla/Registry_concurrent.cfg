SPECIFICATION Spec
CONSTANTS
  Primary = primary
  Clone = clone
  PrimaryHost = h1
  CloneHost = h2
  Cluster <- MCCluster
  Host <- MCHost
  HostOf <- MCHostOf
  CloneTarget = {clone}
  Provisioned = {h1}
  Existing = {}
  Database = {d1}
  GivenOwner = {}
  Initialize = {TRUE}
  CreateDb = {TRUE}
  InheritDeleted = {TRUE}
  Request = {r1, r2}
  Faults = TRUE
  MaxUuid = 3
  Absent = Absent
  Idle = Idle
CHECK_DEADLOCK FALSE
INVARIANTS
  ClusterMatchesPath
  ServersExist
  PrimaryManagementCredentialsWork
  RegisteredDatabaseInitialized
