SPECIFICATION Spec
CONSTANTS
  Primary = primary
  Clone = clone
  PrimaryHost = h1
  CloneHost = h2
  Cluster <- MCCluster
  Host <- MCHost
  HostOf <- MCHostOf
  CloneTarget = {clone}
  Provisioned = {h1}
  Existing = {}
  Database = {d1, d2}
  GivenOwner = {app}
  Initialize = {FALSE}
  CreateDb = {FALSE}
  InheritDeleted = {TRUE, FALSE}
  Request = {r1}
  Faults = TRUE
  MaxUuid = 3
  Absent = Absent
  Idle = Idle
CHECK_DEADLOCK FALSE
INVARIANTS
  TypeOK
  NoActiveDatabaseInDeletedCluster
  NoOrphanDatabase
  ReadHandlersAgree
  ManagementCredentialsWork
  SerialInv
PROPERTIES
  ImplementsLifecycle
