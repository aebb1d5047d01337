SPECIFICATION FairSpec
CONSTANTS
  Primary = primary
  Clone = clone
  PrimaryHost = h1
  CloneHost = h2
  Cluster <- MCCluster
  Host <- MCHost
  HostOf <- MCHostOf
  CloneTarget = {clone}
  Provisioned = {h1}
  Existing = {d2}
  Database = {d1, d2}
  GivenOwner = {app}
  Initialize = {TRUE}
  CreateDb = {TRUE, FALSE}
  InheritDeleted = {TRUE, FALSE}
  Request = {r1}
  Faults = FALSE
  MaxUuid = 3
  Absent = Absent
  Idle = Idle
CHECK_DEADLOCK FALSE
INVARIANTS
  RootCredentialsWork
PROPERTIES
  CloneIsComplete
  DeletionCompletes
  PurgeCompletes
