--------------------------- MODULE RegistryProofs ---------------------------
(***************************************************************************)
(* Theorems about Registry for every value of its constants: any number of *)
(* clusters, databases, servers, identifiers and requests in flight.       *)
(***************************************************************************)
EXTENDS Registry, TLAPS

(***************************************************************************)
(* Where a handler is determines what it has read: the shape of its job.   *)
(***************************************************************************)
LEMMA JobByPc ==
  ASSUME NEW j \in Job
  PROVE  /\ j.pc \in {"createManagementRole", "updatePassword", "storeCluster"}
              => j \in UpdateJob
         /\ j.pc \in {"listToDelete", "loadToDelete"} => j \in DeleteJob
         /\ j.pc = "storeDisabled" => j \in DisableJob
         /\ j.pc \in {"listToPurge", "loadToPurge"} => j \in PurgeJob
         /\ j.pc = "deletePurged" => j \in PurgeNextJob
         /\ j.pc \in RegisterPcs => j \in RegisterJob
         /\ j.pc = "loadToDrop" => j \in DropJob
         /\ j.pc = "storeDropped" => j \in DropStoreJob
         /\ j.pc = "purgeDatabase" => j \in PurgeDbJob
         /\ j.pc \in {"checkTarget", "connectClone", "rotateManagement",
                      "rotateRoot", "storeTarget"} => j \in CloneJob
         /\ j.pc \in {"listSource", "loadSource"} => j \in CopyJob
         /\ j.pc = "storeCopy" => j \in CopyStoreJob
  BY DEF Job, UpdateJob, DeleteJob, DisableJob, PurgeJob, PurgeNextJob,
         RegisterJob, DropJob, DropStoreJob, PurgeDbJob, CloneJob, CopyJob,
         CopyStoreJob, RegisterPcs

\* Every shape of job is one of the jobs a slot may hold.
LEMMA JobsAreJobs ==
  /\ UpdateJob \subseteq Job /\ DeleteJob \subseteq Job
  /\ DisableJob \subseteq Job /\ PurgeJob \subseteq Job
  /\ PurgeNextJob \subseteq Job /\ RegisterJob \subseteq Job
  /\ DropJob \subseteq Job /\ DropStoreJob \subseteq Job
  /\ PurgeDbJob \subseteq Job /\ CloneJob \subseteq Job
  /\ CopyJob \subseteq Job /\ CopyStoreJob \subseteq Job
  BY DEF Job

(***************************************************************************)
(* The type invariant is not inductive alone: a step that changes a        *)
(* password keeps the type of pg only if the server is there.              *)
(***************************************************************************)
TypeInv == TypeOK /\ ServersExist

ServersStay == \A h \in Host : pg[h] # Absent => pg'[h] # Absent

\* Setting the password of a role on a server that is there (createManagementRole)
\* keeps the type of pg and removes no server.
LEMMA SetRoleType ==
  ASSUME NoClash, TypeOK, NEW h \in Host, pg[h] # Absent,
         NEW m \in Uuid, NEW p \in Uuid, SetRole(h, m, p)
  PROVE  pg' \in [Host -> Server \cup {Absent}] /\ ServersStay
<1>1. pg[h] \in Server
  BY DEF TypeOK
<1> DEFINE s == [pg[h] EXCEPT !.mgmt[m] = p]
<1>2. s \in Server
  BY <1>1 DEF Server
<1>3. pg' = [pg EXCEPT ![h] = s]
  BY DEF SetRole
<1> QED
  BY <1>2, <1>3 DEF TypeOK, ServersStay, NoClash

\* The same for the root password (UpdatePassword).
LEMMA SetPasswordType ==
  ASSUME NoClash, TypeOK, NEW h \in Host, pg[h] # Absent,
         NEW p \in Uuid, SetPassword(h, p)
  PROVE  pg' \in [Host -> Server \cup {Absent}] /\ ServersStay
<1>1. pg[h] \in Server
  BY DEF TypeOK
<1> DEFINE s == [pg[h] EXCEPT !.root = p]
<1>2. s \in Server
  BY <1>1 DEF Server, Uuid, Password
<1>3. pg' = [pg EXCEPT ![h] = s]
  BY DEF SetPassword
<1> QED
  BY <1>2, <1>3 DEF TypeOK, ServersStay, NoClash

(***************************************************************************)
(* A handler's step replaces its own job; ServersExist then asks only that *)
(* the new job, and the entry it stores, name a server that is there.      *)
(***************************************************************************)
HostKnown(job) ==
  job # Idle /\ job.pc \in ConnectedPcs =>
    job.entry.host \in Host /\ pg[job.entry.host] # Absent

\* A call that leaves the clusters alone and removes no server keeps the
\* invariant, if the job it goes on with knows a server that is there.
LEMMA StepType ==
  ASSUME TypeInv, NEW r \in Request, NEW job \in Job \cup {Idle},
         Continue(r, job), HostKnown(job), ServersStay,
         pg' \in [Host -> Server \cup {Absent}],
         cfg' = cfg, dbcfg' \in [Cluster -> [Database -> DbEntry \cup {Absent}]],
         issued' \in 0 .. MaxUuid
  PROVE  TypeInv'
<1>1. TypeOK'
  BY DEF TypeInv, TypeOK, Continue
<1>2. \A j \in Job : j.pc \in ConnectedPcs => j.entry.host \in Host
  BY JobByPc DEF ConnectedPcs, UpdateJob, DeleteJob, DisableJob, RegisterJob,
     CloneJob, Enabled, ClusterEntry
<1>3. ASSUME NEW c \in Cluster, cfg'[c] # Absent PROVE pg'[cfg'[c].host] # Absent
  BY <1>3 DEF TypeInv, TypeOK, ServersExist, ServersStay, ClusterEntry
<1>4. ASSUME NEW q \in Request, In(q, ConnectedPcs)'
      PROVE  pg'[req'[q].entry.host] # Absent
  BY <1>2, <1>4 DEF TypeInv, TypeOK, ServersExist, ServersStay, Continue, In, HostKnown
<1> QED
  BY <1>1, <1>3, <1>4 DEF TypeInv, ServersExist

\* So does one that stores or removes a cluster whose server is there.
LEMMA StoreType ==
  ASSUME TypeInv, NEW r \in Request, NEW job \in Job \cup {Idle},
         Continue(r, job), HostKnown(job), pg' = pg, dbcfg' = dbcfg,
         issued' = issued, NEW c \in Cluster, NEW e \in ClusterEntry \cup {Absent},
         cfg' = [cfg EXCEPT ![c] = e], e # Absent => pg[e.host] # Absent
  PROVE  TypeInv'
<1>1. TypeOK'
  BY DEF TypeInv, TypeOK, Continue
<1>2. ASSUME NEW k \in Cluster, cfg'[k] # Absent PROVE pg'[cfg'[k].host] # Absent
  BY <1>2 DEF TypeInv, TypeOK, ServersExist
<1>3. ASSUME NEW q \in Request, In(q, ConnectedPcs)'
      PROVE  pg'[req'[q].entry.host] # Absent
  BY <1>3 DEF TypeInv, TypeOK, ServersExist, Continue, In, HostKnown
<1> QED
  BY <1>1, <1>2, <1>3 DEF TypeInv, ServersExist

\* A step that only reads, and one that stores or deletes a database.
LEMMA ReadType ==
  ASSUME TypeInv, NEW r \in Request, NEW job \in Job \cup {Idle},
         Continue(r, job), HostKnown(job), UNCHANGED <<cfg, dbcfg, pg, issued>>
  PROVE  TypeInv'
  BY StepType DEF TypeInv, TypeOK, ServersStay

\* A call that stores or deletes a database keeps the invariant.
LEMMA StoreDbType ==
  ASSUME TypeInv, NEW r \in Request, NEW job \in Job \cup {Idle},
         Continue(r, job), HostKnown(job), UNCHANGED <<cfg, pg, issued>>,
         NEW c \in Cluster, NEW d \in Database, NEW e \in DbEntry \cup {Absent},
         dbcfg' = [dbcfg EXCEPT ![c][d] = e]
  PROVE  TypeInv'
<1>1. dbcfg' \in [Cluster -> [Database -> DbEntry \cup {Absent}]]
  BY DEF TypeInv, TypeOK
<1> QED
  BY <1>1, StepType DEF TypeInv, TypeOK, ServersStay

(***************************************************************************)
(* One lemma per handler, one step per action.                             *)
(***************************************************************************)
LEMMA UpdateType ==
  ASSUME ConstantsOK, NoClash, TypeInv, NEW r \in Request
  PROVE  /\ \A c \in Cluster, h \in Host : PathClusterUpdate(r, c, h) => TypeInv'
         /\ CreateManagementRole(r) => TypeInv'
         /\ UpdatePassword(r) => TypeInv'
         /\ StoreCluster(r) => TypeInv'
<1> USE JobByPc, JobsAreJobs
<1>1. ASSUME NEW c \in Cluster, NEW h \in Host, PathClusterUpdate(r, c, h)
      PROVE  TypeInv'
  <2> DEFINE e == [host |-> h, pass |-> Fresh, mgmt |-> Fresh,
                   mgmtPass |-> Fresh, disabled |-> FALSE]
             job == [pc |-> "createManagementRole", c |-> c, entry |-> e]
  <2>1. Fresh \in Uuid /\ issued' = Fresh
    BY <1>1 DEF PathClusterUpdate, Draw, Fresh, Uuid, TypeInv, TypeOK, ConstantsOK
  <2>2. job \in UpdateJob
    BY <2>1 DEF UpdateJob, Enabled, ClusterEntry
  <2>3. Continue(r, job) /\ HostKnown(job)
    BY <1>1 DEF PathClusterUpdate, Begin, HostKnown
  <2> HIDE DEF job
  <2> QED
    BY <1>1, <2>1, <2>2, <2>3, StepType
       DEF PathClusterUpdate, TypeInv, TypeOK, ServersStay, Uuid
<1>2. ASSUME CreateManagementRole(r) PROVE TypeInv'
  <2> DEFINE job == [req[r] EXCEPT !.pc = "updatePassword"]
  <2>1. req[r] \in UpdateJob /\ pg[req[r].entry.host] # Absent
    BY <1>2 DEF CreateManagementRole, At, In, TypeInv, TypeOK, ServersExist, ConnectedPcs
  <2>2. job \in UpdateJob /\ Continue(r, job) /\ HostKnown(job)
    BY <1>2, <2>1 DEF CreateManagementRole, Goto, UpdateJob, HostKnown, Enabled, ClusterEntry
  <2>3. pg' \in [Host -> Server \cup {Absent}] /\ ServersStay
    BY <1>2, <2>1, SetRoleType DEF CreateManagementRole, UpdateJob, Enabled, ClusterEntry, TypeInv
  <2> HIDE DEF job
  <2> QED
    BY <1>2, <2>2, <2>3, StepType DEF CreateManagementRole, TypeInv, TypeOK
<1>3. ASSUME UpdatePassword(r) PROVE TypeInv'
  <2> DEFINE job == [req[r] EXCEPT !.pc = "storeCluster"]
  <2>1. req[r] \in UpdateJob /\ pg[req[r].entry.host] # Absent
    BY <1>3 DEF UpdatePassword, At, In, TypeInv, TypeOK, ServersExist, ConnectedPcs
  <2>2. job \in UpdateJob /\ Continue(r, job) /\ HostKnown(job)
    BY <1>3, <2>1 DEF UpdatePassword, Goto, UpdateJob, HostKnown, Enabled, ClusterEntry
  <2>3. pg' \in [Host -> Server \cup {Absent}] /\ ServersStay
    BY <1>3, <2>1, SetPasswordType DEF UpdatePassword, UpdateJob, Enabled, ClusterEntry, TypeInv
  <2> HIDE DEF job
  <2> QED
    BY <1>3, <2>2, <2>3, StepType DEF UpdatePassword, TypeInv, TypeOK
<1>4. ASSUME StoreCluster(r) PROVE TypeInv'
  <2>1. req[r] \in UpdateJob /\ pg[req[r].entry.host] # Absent
    BY <1>4 DEF StoreCluster, At, In, TypeInv, TypeOK, ServersExist, ConnectedPcs
  <2> QED
    BY <1>4, <2>1, StoreType DEF StoreCluster, Return, UpdateJob, HostKnown, Enabled
<1> QED
  BY <1>1, <1>2, <1>3, <1>4

\* pathClusterDelete, with its loop over the databases.
LEMMA DeleteType ==
  ASSUME ConstantsOK, NoClash, TypeInv, NEW r \in Request
  PROVE  /\ \A c \in Cluster : PathClusterDelete(r, c) => TypeInv'
         /\ ListToDelete(r) => TypeInv'
         /\ \A d \in Database : LoadToDelete(r, d) => TypeInv'
         /\ StoreDisabled(r) => TypeInv'
         /\ StoreClusterDisabled(r) => TypeInv'
<1> USE JobByPc, JobsAreJobs
<1>1. ASSUME NEW c \in Cluster, PathClusterDelete(r, c) PROVE TypeInv'
  <2> DEFINE job == [pc |-> "listToDelete", c |-> c, entry |-> cfg[c], todo |-> {}]
  <2>1. cfg[c] \in Enabled(ClusterEntry) /\ pg[cfg[c].host] # Absent
    BY <1>1 DEF PathClusterDelete, Active, TypeInv, TypeOK, ServersExist, Enabled
  <2>2. job \in DeleteJob /\ HostKnown(job)
    BY <2>1 DEF DeleteJob, HostKnown, Enabled, ClusterEntry
  <2> HIDE DEF job
  <2> QED
    BY <1>1, <2>2, ReadType DEF PathClusterDelete, Begin, job
<1>2. ASSUME In(r, {"listToDelete", "loadToDelete"})
      PROVE  req[r] \in DeleteJob /\ pg[req[r].entry.host] # Absent
  BY <1>2 DEF In, TypeInv, TypeOK, ServersExist, ConnectedPcs
<1>3. ASSUME ListToDelete(r) PROVE TypeInv'
  <2> DEFINE job == [req[r] EXCEPT !.pc = "loadToDelete", !.todo = Listed(req[r].c)]
  <2>1. req[r] \in DeleteJob /\ pg[req[r].entry.host] # Absent
    BY <1>2, <1>3 DEF ListToDelete, At, In
  <2>2. job \in DeleteJob /\ HostKnown(job)
    BY <2>1 DEF DeleteJob, HostKnown, Enabled, ClusterEntry, Listed
  <2> HIDE DEF job
  <2> QED
    BY <1>3, <2>2, ReadType DEF ListToDelete, job
<1>4. ASSUME NEW d \in Database, LoadToDelete(r, d) PROVE TypeInv'
  <2> DEFINE c == req[r].c
             rest == req[r].todo \ {d}
             job1 == [req[r] EXCEPT !.todo = rest]
             job2 == [pc |-> "storeDisabled", c |-> c, entry |-> req[r].entry,
                      todo |-> rest, d |-> d, db |-> Disable(dbcfg[c][d])]
  <2>1. req[r] \in DeleteJob /\ pg[req[r].entry.host] # Absent
    BY <1>2, <1>4 DEF LoadToDelete, At, In
  <2>2. CASE Return(r)
    BY <1>4, <2>2, ReadType DEF LoadToDelete, Return, HostKnown
  <2>3. CASE Continue(r, job1)
    <3>1. job1 \in DeleteJob /\ HostKnown(job1)
      BY <2>1 DEF DeleteJob, HostKnown, Enabled, ClusterEntry
    <3> HIDE DEF job1
    <3> QED
      BY <1>4, <2>3, <3>1, ReadType DEF LoadToDelete
  <2>4. CASE Continue(r, job2) /\ ActiveDb(c, d)
    <3>1. dbcfg[c][d] \in DbEntry
      BY <2>1, <2>4 DEF ActiveDb, TypeInv, TypeOK, DeleteJob
    <3>2. Disable(dbcfg[c][d]) \in Disabled(DbEntry)
      BY <3>1 DEF Disable, Disabled, DbEntry
    <3>3. job2 \in DisableJob /\ HostKnown(job2)
      BY <2>1, <3>2 DEF DeleteJob, DisableJob, HostKnown, Enabled, ClusterEntry
    <3> HIDE DEF job2
    <3> QED
      BY <1>4, <2>4, <3>3, ReadType DEF LoadToDelete
  <2> QED
    BY <1>4, <2>2, <2>3, <2>4 DEF LoadToDelete
<1>5. ASSUME StoreDisabled(r) PROVE TypeInv'
  <2> DEFINE job == [pc |-> "loadToDelete", c |-> req[r].c,
                     entry |-> req[r].entry, todo |-> req[r].todo]
  <2>1. req[r] \in DisableJob /\ pg[req[r].entry.host] # Absent
    BY <1>5 DEF StoreDisabled, At, In, TypeInv, TypeOK, ServersExist, ConnectedPcs
  <2>2. job \in DeleteJob /\ HostKnown(job)
    BY <2>1 DEF DisableJob, DeleteJob, HostKnown, Enabled, ClusterEntry
  <2>3. req[r].c \in Cluster /\ req[r].d \in Database /\ req[r].db \in DbEntry
    BY <2>1 DEF DisableJob, Disabled
  <2> HIDE DEF job
  <2> QED
    BY <1>5, <2>2, <2>3, StoreDbType DEF StoreDisabled, job
<1>6. ASSUME StoreClusterDisabled(r) PROVE TypeInv'
  <2> DEFINE e == Disable(req[r].entry)
  <2>1. req[r] \in DeleteJob /\ pg[req[r].entry.host] # Absent
    BY <1>2, <1>6 DEF StoreClusterDisabled, At, In
  <2>2. e \in ClusterEntry /\ e.host = req[r].entry.host /\ req[r].c \in Cluster
    BY <2>1 DEF DeleteJob, Disable, Enabled, ClusterEntry
  <2> HIDE DEF e
  <2> QED
    BY <1>6, <2>1, <2>2, StoreType DEF StoreClusterDisabled, Return, HostKnown, e
<1> QED
  BY <1>1, <1>3, <1>4, <1>5, <1>6

\* gcPurgeCluster, with its loop over the databases, and gcPurgeDatabase.
LEMMA PurgeType ==
  ASSUME ConstantsOK, NoClash, TypeInv, NEW r \in Request
  PROVE  /\ \A c \in Cluster : GcPurgeCluster(r, c) => TypeInv'
         /\ ListToPurge(r) => TypeInv'
         /\ \A d \in Database : LoadToPurge(r, d) => TypeInv'
         /\ DeletePurged(r) => TypeInv'
         /\ DeleteClusterEntry(r) => TypeInv'
         /\ \A c \in Cluster, d \in Database : GcPurgeDatabase(r, c, d) => TypeInv'
         /\ DeleteDatabaseEntry(r) => TypeInv'
<1> USE JobByPc, JobsAreJobs DEF HostKnown, ConnectedPcs, RegisterPcs
<1>1. ASSUME NEW c \in Cluster, GcPurgeCluster(r, c) PROVE TypeInv'
  BY <1>1, ReadType DEF GcPurgeCluster, Begin, PurgeJob
<1>2. ASSUME In(r, {"listToPurge", "loadToPurge"}) PROVE req[r] \in PurgeJob
  BY <1>2 DEF In, TypeInv, TypeOK
<1>3. ASSUME ListToPurge(r) PROVE TypeInv'
  <2> DEFINE job == [req[r] EXCEPT !.pc = "loadToPurge", !.todo = Listed(req[r].c)]
  <2>1. job \in PurgeJob /\ HostKnown(job)
    BY <1>2, <1>3 DEF ListToPurge, At, In, PurgeJob, Listed
  <2> HIDE DEF job
  <2> QED
    BY <1>3, <2>1, ReadType DEF ListToPurge, job
<1>4. ASSUME NEW d \in Database, LoadToPurge(r, d) PROVE TypeInv'
  <2> DEFINE job == [pc |-> "deletePurged", c |-> req[r].c,
                     todo |-> req[r].todo \ {d}, d |-> d]
  <2>1. job \in PurgeNextJob /\ HostKnown(job)
    BY <1>2, <1>4 DEF LoadToPurge, At, In, PurgeJob, PurgeNextJob
  <2>2. Continue(r, job) \/ Continue(r, Idle)
    BY <1>4 DEF LoadToPurge, Return
  <2> HIDE DEF job
  <2> QED
    BY <1>4, <2>1, <2>2, ReadType DEF LoadToPurge
<1>5. ASSUME DeletePurged(r) PROVE TypeInv'
  <2> DEFINE job == [pc |-> "loadToPurge", c |-> req[r].c, todo |-> req[r].todo]
  <2>1. req[r] \in PurgeNextJob
    BY <1>5 DEF DeletePurged, At, TypeInv, TypeOK
  <2>2. job \in PurgeJob /\ HostKnown(job) /\ req[r].c \in Cluster /\ req[r].d \in Database
    BY <2>1 DEF PurgeJob, PurgeNextJob
  <2> HIDE DEF job
  <2> QED
    BY <1>5, <2>2, StoreDbType DEF DeletePurged, job
<1>6. ASSUME DeleteClusterEntry(r) PROVE TypeInv'
  <2>1. req[r].c \in Cluster
    BY <1>2, <1>6 DEF DeleteClusterEntry, At, In, PurgeJob
  <2> QED
    BY <1>6, <2>1, StoreType DEF DeleteClusterEntry, Return
<1>7. ASSUME NEW c \in Cluster, NEW d \in Database, GcPurgeDatabase(r, c, d)
      PROVE  TypeInv'
  BY <1>7, ReadType DEF GcPurgeDatabase, Begin, PurgeDbJob
<1>8. ASSUME DeleteDatabaseEntry(r) PROVE TypeInv'
  <2>1. req[r].c \in Cluster /\ req[r].d \in Database
    BY <1>8 DEF DeleteDatabaseEntry, At, TypeInv, TypeOK, PurgeDbJob
  <2> QED
    BY <1>8, <2>1, StoreDbType DEF DeleteDatabaseEntry, Return
<1> QED
  BY <1>1, <1>3, <1>4, <1>5, <1>6, <1>7, <1>8

\* pathDatabaseUpdate and initializeDb.
LEMMA RegisterType ==
  ASSUME ConstantsOK, NoClash, TypeInv, NEW r \in Request
  PROVE  /\ \A c \in Cluster, d \in Database : PathDatabaseUpdate(r, c, d) => TypeInv'
         /\ CheckDatabase(r) => TypeInv'
         /\ LoadForRoot(r) => TypeInv'
         /\ ConnectRoot(r) => TypeInv'
         /\ CreateDatabase(r) => TypeInv'
         /\ LoadForManagement(r) => TypeInv'
         /\ ConnectManagement(r) => TypeInv'
         /\ CreateOwner(r) => TypeInv'
         /\ StoreDatabase(r) => TypeInv'
<1> USE JobByPc, JobsAreJobs
<1>1. ASSUME NEW c \in Cluster, NEW d \in Database, PathDatabaseUpdate(r, c, d)
      PROVE  TypeInv'
  <2>1. PICK owner \in GivenOwner \cup {Fresh}, i \in Initialize, n \in CreateDb :
          /\ IF owner \in GivenOwner THEN UNCHANGED issued ELSE Draw
          /\ Begin(r, [pc |-> "checkDatabase", c |-> c, d |-> d,
                       mgmt |-> cfg[c].mgmt, entry |-> cfg[c], owner |-> owner,
                       initialize |-> i, create |-> n])
    BY <1>1 DEF PathDatabaseUpdate
  <2> DEFINE job == [pc |-> "checkDatabase", c |-> c, d |-> d,
                     mgmt |-> cfg[c].mgmt, entry |-> cfg[c], owner |-> owner,
                     initialize |-> i, create |-> n]
  <2>2. issued' \in 0 .. MaxUuid /\ owner \in Owner
    BY <2>1 DEF Draw, Fresh, Owner, Uuid, TypeInv, TypeOK, ConstantsOK
  <2>3. cfg[c] \in ClusterEntry /\ pg[cfg[c].host] # Absent
    BY <1>1 DEF PathDatabaseUpdate, Active, TypeInv, TypeOK, ServersExist
  <2>4. i \in BOOLEAN /\ n \in BOOLEAN
    BY DEF ConstantsOK
  <2>5. job \in RegisterJob /\ HostKnown(job)
    BY <2>2, <2>3, <2>4 DEF RegisterJob, RegisterPcs, HostKnown, ClusterEntry
  <2>6. Continue(r, job)
    BY <2>1 DEF Begin
  <2> HIDE DEF job
  <2> QED
    BY <1>1, <2>2, <2>5, <2>6, StepType DEF PathDatabaseUpdate, TypeInv, TypeOK, ServersStay
<1>2. ASSUME In(r, RegisterPcs)
      PROVE  req[r] \in RegisterJob /\ pg[req[r].entry.host] # Absent
  BY <1>2 DEF In, TypeInv, TypeOK, ServersExist, ConnectedPcs
<1>3. ASSUME In(r, RegisterPcs), NEW pc \in RegisterPcs
      PROVE  LET job == [req[r] EXCEPT !.pc = pc] IN job \in RegisterJob /\ HostKnown(job)
  BY <1>2, <1>3 DEF RegisterJob, HostKnown, ClusterEntry
<1>4. ASSUME NEW pc \in RegisterPcs, In(r, RegisterPcs),
             Goto(r, pc) \/ Return(r), UNCHANGED <<cfg, dbcfg, pg, issued>>
      PROVE  TypeInv'
  <2>1. CASE Goto(r, pc)
    <3> DEFINE job == [req[r] EXCEPT !.pc = pc]
    <3>1. job \in RegisterJob /\ HostKnown(job) /\ Continue(r, job)
      BY <1>3, <1>4, <2>1 DEF Goto
    <3> HIDE DEF job
    <3> QED
      BY <1>4, <3>1, ReadType
  <2>2. CASE Return(r)
    BY <1>4, <2>2, ReadType DEF Return, HostKnown
  <2> QED
    BY <1>4, <2>1, <2>2
<1>5. ASSUME CheckDatabase(r) PROVE TypeInv'
  <2>1. CASE Goto(r, "loadForRoot") \/ Return(r)
    BY <1>4, <1>5, <2>1 DEF CheckDatabase, At, In, RegisterPcs
  <2>2. CASE Goto(r, "storeDatabase")
    BY <1>4, <1>5, <2>2 DEF CheckDatabase, At, In, RegisterPcs
  <2> QED
    BY <1>5, <2>1, <2>2 DEF CheckDatabase
<1>6. ASSUME NEW from \in RegisterPcs, NEW to \in RegisterPcs, LoadForConn(r, from, to)
      PROVE  TypeInv'
  <2> DEFINE job == [req[r] EXCEPT !.pc = to, !.entry = cfg[req[r].c]]
  <2>1. req[r] \in RegisterJob
    BY <1>2, <1>6 DEF LoadForConn, At, In
  <2>2. CASE cfg[req[r].c] = Absent
    BY <1>6, <2>2, ReadType DEF LoadForConn, Return, HostKnown
  <2>3. CASE cfg[req[r].c] # Absent
    <3>1. cfg[req[r].c] \in ClusterEntry /\ pg[cfg[req[r].c].host] # Absent
      BY <2>1, <2>3 DEF RegisterJob, TypeInv, TypeOK, ServersExist
    <3>2. job \in RegisterJob /\ HostKnown(job)
      BY <2>1, <3>1 DEF RegisterJob, HostKnown, ClusterEntry
    <3> HIDE DEF job
    <3> QED
      BY <1>6, <2>3, <3>2, ReadType DEF LoadForConn, job
  <2> QED
    BY <2>2, <2>3
<1>7. LoadForRoot(r) \/ LoadForManagement(r) => TypeInv'
  BY <1>6 DEF LoadForRoot, LoadForManagement, RegisterPcs
<1>8. ASSUME ConnectRoot(r) PROVE TypeInv'
  <2>1. CASE Goto(r, "createDb") \/ Return(r)
    BY <1>4, <1>8, <2>1 DEF ConnectRoot, At, In, RegisterPcs
  <2>2. CASE Goto(r, "loadForManagement")
    BY <1>4, <1>8, <2>2 DEF ConnectRoot, At, In, RegisterPcs
  <2> QED
    BY <1>8, <2>1, <2>2 DEF ConnectRoot
<1>9. ASSUME ConnectManagement(r) PROVE TypeInv'
  BY <1>4, <1>9 DEF ConnectManagement, At, In, RegisterPcs
<1>10. ASSUME NEW h \in Host, NEW pc \in RegisterPcs, In(r, RegisterPcs),
              Goto(r, pc), UNCHANGED <<cfg, dbcfg, issued>>,
              pg[h] # Absent, NEW s \in Server, pg' = [pg EXCEPT ![h] = s]
       PROVE  TypeInv'
  <2> DEFINE job == [req[r] EXCEPT !.pc = pc]
  <2>1. job \in RegisterJob /\ HostKnown(job) /\ Continue(r, job)
    BY <1>3, <1>10 DEF Goto
  <2>2. pg' \in [Host -> Server \cup {Absent}] /\ ServersStay
    BY <1>10 DEF TypeInv, TypeOK, ServersStay, NoClash
  <2> HIDE DEF job
  <2> QED
    BY <1>10, <2>1, <2>2, StepType DEF TypeInv, TypeOK
<1>11. ASSUME CreateDatabase(r) PROVE TypeInv'
  <2> DEFINE h == req[r].entry.host
             d == req[r].d
             s == [pg[h] EXCEPT !.dbs = @ \cup {d}]
  <2>1. h \in Host /\ d \in Database /\ pg[h] \in Server /\ pg[h] # Absent
    BY <1>2, <1>11
       DEF CreateDatabase, At, In, RegisterPcs, RegisterJob, ClusterEntry, TypeInv, TypeOK
  <2>2. CASE Return(r) /\ UNCHANGED pg
    BY <1>11, <2>2, ReadType DEF CreateDatabase, Return, HostKnown
  <2>3. CASE Goto(r, "loadForManagement") /\ pg' = [pg EXCEPT ![h].dbs = @ \cup {d}]
    <3>1. s \in Server /\ pg' = [pg EXCEPT ![h] = s]
      BY <2>1, <2>3 DEF Server
    <3> QED
      BY <1>10, <1>11, <2>1, <2>3, <3>1 DEF CreateDatabase, At, In, RegisterPcs
  <2> QED
    BY <1>11, <2>2, <2>3 DEF CreateDatabase
<1>12. ASSUME CreateOwner(r) PROVE TypeInv'
  <2> DEFINE h == req[r].entry.host
             o == req[r].owner
             s == [pg[h] EXCEPT !.owners = @ \cup {o}]
  <2>1. h \in Host /\ o \in Owner /\ pg[h] \in Server /\ pg[h] # Absent
    BY <1>2, <1>12
       DEF CreateOwner, At, In, RegisterPcs, RegisterJob, ClusterEntry, TypeInv, TypeOK
  <2>2. CASE Return(r) /\ UNCHANGED pg
    BY <1>12, <2>2, ReadType DEF CreateOwner, Return, HostKnown
  <2>3. CASE Goto(r, "storeDatabase") /\ pg' = [pg EXCEPT ![h].owners = @ \cup {o}]
    <3>1. s \in Server /\ pg' = [pg EXCEPT ![h] = s]
      BY <2>1, <2>3 DEF Server
    <3> QED
      BY <1>10, <1>12, <2>1, <2>3, <3>1 DEF CreateOwner, At, In, RegisterPcs
  <2> QED
    BY <1>12, <2>2, <2>3 DEF CreateOwner
<1>13. ASSUME StoreDatabase(r) PROVE TypeInv'
  <2> DEFINE e == [cluster |-> req[r].c, owner |-> req[r].owner, disabled |-> FALSE]
  <2>1. req[r] \in RegisterJob
    BY <1>2, <1>13 DEF StoreDatabase, At, In, RegisterPcs
  <2>2. e \in DbEntry /\ req[r].c \in Cluster /\ req[r].d \in Database
    BY <2>1 DEF RegisterJob, DbEntry
  <2> HIDE DEF e
  <2> QED
    BY <1>13, <2>2, StoreDbType DEF StoreDatabase, Return, HostKnown, e
<1> QED
  BY <1>1, <1>5, <1>7, <1>8, <1>9, <1>11, <1>12, <1>13

\* pathDatabaseDelete.
LEMMA DropType ==
  ASSUME ConstantsOK, NoClash, TypeInv, NEW r \in Request
  PROVE  /\ \A c \in Cluster, d \in Database : PathDatabaseDelete(r, c, d) => TypeInv'
         /\ LoadToDrop(r) => TypeInv'
         /\ StoreDropped(r) => TypeInv'
<1> USE JobByPc, JobsAreJobs DEF HostKnown, ConnectedPcs, RegisterPcs
<1>1. ASSUME NEW c \in Cluster, NEW d \in Database, PathDatabaseDelete(r, c, d)
      PROVE  TypeInv'
  BY <1>1, ReadType DEF PathDatabaseDelete, Begin, DropJob
<1>2. ASSUME LoadToDrop(r) PROVE TypeInv'
  <2> DEFINE c == req[r].c
             d == req[r].d
             job == [pc |-> "storeDropped", c |-> c, d |-> d,
                     db |-> Disable(dbcfg[c][d])]
  <2>1. c \in Cluster /\ d \in Database
    BY <1>2 DEF LoadToDrop, At, TypeInv, TypeOK, DropJob
  <2>2. CASE ActiveDb(c, d)
    <3> HIDE DEF c, d
    <3>0. dbcfg[c][d] \in DbEntry
      BY <2>1, <2>2 DEF ActiveDb, TypeInv, TypeOK
    <3>1. Disable(dbcfg[c][d]) \in Disabled(DbEntry)
      BY <3>0 DEF Disable, Disabled, DbEntry
    <3>2. job \in DropStoreJob /\ HostKnown(job) /\ Continue(r, job)
      BY <1>2, <2>1, <2>2, <3>1 DEF LoadToDrop, DropStoreJob, c, d
    <3> HIDE DEF job
    <3> QED
      BY <1>2, <3>2, ReadType DEF LoadToDrop
  <2>3. CASE ~ActiveDb(c, d)
    BY <1>2, <2>3, ReadType DEF LoadToDrop, Return
  <2> QED
    BY <2>2, <2>3
<1>3. ASSUME StoreDropped(r) PROVE TypeInv'
  <2>1. req[r].c \in Cluster /\ req[r].d \in Database /\ req[r].db \in DbEntry
    BY <1>3 DEF StoreDropped, At, TypeInv, TypeOK, DropStoreJob, Disabled
  <2> QED
    BY <1>3, <2>1, StoreDbType DEF StoreDropped, Return
<1> QED
  BY <1>1, <1>2, <1>3

\* pathCloneUpdate up to the store of the clone.
LEMMA CloneType ==
  ASSUME ConstantsOK, NoClash, TypeInv, NEW r \in Request
  PROVE  /\ \A source, c \in Cluster, h \in Host :
              PathCloneUpdate(r, source, c, h) => TypeInv'
         /\ CheckTarget(r) => TypeInv'
         /\ ConnectClone(r) => TypeInv'
         /\ RotateManagement(r) => TypeInv'
         /\ RotateRoot(r) => TypeInv'
         /\ StoreTarget(r) => TypeInv'
<1> USE JobByPc, JobsAreJobs
<1>1. ASSUME NEW source \in Cluster, NEW c \in Cluster, NEW h \in Host,
             PathCloneUpdate(r, source, c, h)
      PROVE  TypeInv'
  <2>1. PICK i \in InheritDeleted :
          Begin(r, [pc |-> "checkTarget", source |-> source, c |-> c,
                    entry |-> AtHost(cfg[source], h), id |-> Fresh,
                    inherit |-> i])
    BY <1>1 DEF PathCloneUpdate
  <2> DEFINE job == [pc |-> "checkTarget", source |-> source, c |-> c,
                     entry |-> AtHost(cfg[source], h), id |-> Fresh,
                     inherit |-> i]
  <2>2. Fresh \in Uuid /\ issued' = Fresh
    BY <1>1 DEF PathCloneUpdate, Draw, Fresh, Uuid, TypeInv, TypeOK, ConstantsOK
  <2>3. cfg[source] \in Enabled(ClusterEntry)
    BY <1>1 DEF PathCloneUpdate, Active, TypeInv, TypeOK, Enabled
  <2>4. AtHost(cfg[source], h) \in Enabled(ClusterEntry)
    BY <2>3 DEF AtHost, Enabled, ClusterEntry
  <2>5. i \in BOOLEAN
    BY DEF ConstantsOK
  <2>6. job \in CloneJob /\ HostKnown(job) /\ Continue(r, job)
    BY <2>1, <2>2, <2>4, <2>5
       DEF CloneJob, HostKnown, ConnectedPcs, RegisterPcs, Begin
  <2> HIDE DEF job
  <2> QED
    BY <1>1, <2>2, <2>6, StepType DEF PathCloneUpdate, TypeInv, TypeOK, ServersStay, Uuid
<1>2. ASSUME In(r, {"checkTarget", "connectClone", "rotateManagement",
                    "rotateRoot", "storeTarget"})
      PROVE  /\ req[r] \in CloneJob
             /\ In(r, {"rotateManagement", "rotateRoot", "storeTarget"})
                  => pg[req[r].entry.host] # Absent
  BY <1>2 DEF In, TypeInv, TypeOK, ServersExist, ConnectedPcs
<1>3. ASSUME CheckTarget(r) PROVE TypeInv'
  <2> DEFINE job == [req[r] EXCEPT !.pc = "connectClone"]
  <2>1. job \in CloneJob /\ HostKnown(job)
    BY <1>2, <1>3 DEF CheckTarget, At, In, CloneJob, HostKnown, ConnectedPcs, RegisterPcs
  <2>2. Continue(r, job) \/ Continue(r, Idle)
    BY <1>3 DEF CheckTarget, Goto, Return
  <2>3. HostKnown(Idle)
    BY DEF HostKnown
  <2> HIDE DEF job
  <2> QED
    BY <1>3, <2>1, <2>2, <2>3, ReadType DEF CheckTarget
<1>4. ASSUME ConnectClone(r) PROVE TypeInv'
  <2> DEFINE job == [req[r] EXCEPT !.pc = "rotateManagement"]
  <2>1. req[r] \in CloneJob
    BY <1>2, <1>4 DEF ConnectClone, At, In
  <2>2. CASE RootLogin(req[r].entry) /\ Goto(r, "rotateManagement")
    <3>1. job \in CloneJob /\ HostKnown(job) /\ Continue(r, job)
      BY <2>1, <2>2 DEF Goto, CloneJob, HostKnown, RootLogin, Enabled, ClusterEntry
    <3> HIDE DEF job
    <3> QED
      BY <1>4, <3>1, ReadType DEF ConnectClone
  <2>3. CASE Return(r)
    BY <1>4, <2>3, ReadType DEF ConnectClone, Return, HostKnown
  <2> QED
    BY <1>4, <2>2, <2>3 DEF ConnectClone
<1>5. ASSUME RotateManagement(r) PROVE TypeInv'
  <2> DEFINE e == [req[r].entry EXCEPT !.mgmtPass = req[r].id]
             job == [req[r] EXCEPT !.pc = "rotateRoot", !.entry = e]
  <2>1. req[r] \in CloneJob /\ pg[req[r].entry.host] # Absent
    BY <1>2, <1>5 DEF RotateManagement, At, In
  <2>2. e \in Enabled(ClusterEntry) /\ e.host = req[r].entry.host
    BY <2>1 DEF CloneJob, Enabled, ClusterEntry
  <2>3. Continue(r, job)
    BY <1>5, <2>1 DEF RotateManagement, CloneJob
  <2>4. req[r].entry.host \in Host /\ req[r].entry.mgmt \in Uuid /\ req[r].id \in Uuid
    BY <2>1 DEF CloneJob, Enabled, ClusterEntry
  <2> HIDE DEF e
  <2>5. job \in CloneJob /\ HostKnown(job)
    BY <2>1, <2>2, <2>4 DEF CloneJob, HostKnown
  <2>6. pg' \in [Host -> Server \cup {Absent}] /\ ServersStay
    BY <1>5, <2>1, <2>4, SetRoleType DEF RotateManagement, TypeInv
  <2> HIDE DEF job
  <2> QED
    BY <1>5, <2>3, <2>5, <2>6, StepType DEF RotateManagement, TypeInv, TypeOK
<1>6. ASSUME RotateRoot(r) PROVE TypeInv'
  <2> DEFINE e == [req[r].entry EXCEPT !.pass = req[r].id]
             job == [req[r] EXCEPT !.pc = "storeTarget", !.entry = e]
  <2>1. req[r] \in CloneJob /\ pg[req[r].entry.host] # Absent
    BY <1>2, <1>6 DEF RotateRoot, At, In
  <2>2. e \in Enabled(ClusterEntry) /\ e.host = req[r].entry.host
    BY <2>1 DEF CloneJob, Enabled, ClusterEntry
  <2>3. Continue(r, job)
    BY <1>6, <2>1 DEF RotateRoot, CloneJob
  <2>4. req[r].entry.host \in Host /\ req[r].id \in Uuid
    BY <2>1 DEF CloneJob, Enabled, ClusterEntry
  <2> HIDE DEF e
  <2>5. job \in CloneJob /\ HostKnown(job)
    BY <2>1, <2>2, <2>4 DEF CloneJob, HostKnown
  <2>6. pg' \in [Host -> Server \cup {Absent}] /\ ServersStay
    BY <1>6, <2>1, <2>4, SetPasswordType DEF RotateRoot, TypeInv
  <2> HIDE DEF job
  <2> QED
    BY <1>6, <2>3, <2>5, <2>6, StepType DEF RotateRoot, TypeInv, TypeOK
<1>7. ASSUME StoreTarget(r) PROVE TypeInv'
  <2> DEFINE job == [pc |-> "listSource", source |-> req[r].source,
                     c |-> req[r].c, inherit |-> req[r].inherit, todo |-> {}]
  <2>1. req[r] \in CloneJob /\ pg[req[r].entry.host] # Absent
    BY <1>2, <1>7 DEF StoreTarget, At, In
  <2>2. job \in CopyJob /\ HostKnown(job)
    BY <2>1 DEF CloneJob, CopyJob, HostKnown, ConnectedPcs, RegisterPcs
  <2>3. req[r].c \in Cluster /\ req[r].entry \in ClusterEntry
    BY <2>1 DEF CloneJob, Enabled
  <2> HIDE DEF job
  <2> QED
    BY <1>7, <2>1, <2>2, <2>3, StoreType DEF StoreTarget, job
<1> QED
  BY <1>1, <1>3, <1>4, <1>5, <1>6, <1>7

\* cloneDbConfig: the loop that copies the databases.
LEMMA CopyType ==
  ASSUME ConstantsOK, NoClash, TypeInv, NEW r \in Request
  PROVE  /\ ListSource(r) => TypeInv'
         /\ \A d \in Database : LoadSource(r, d) => TypeInv'
         /\ StoreCopy(r) => TypeInv'
         /\ CloneReturns(r) => TypeInv'
<1> USE JobByPc, JobsAreJobs DEF HostKnown, ConnectedPcs, RegisterPcs
<1>1. ASSUME In(r, {"listSource", "loadSource"}) PROVE req[r] \in CopyJob
  BY <1>1 DEF In, TypeInv, TypeOK
<1>2. ASSUME ListSource(r) PROVE TypeInv'
  <2> DEFINE job == [req[r] EXCEPT !.pc = "loadSource", !.todo = Listed(req[r].source)]
  <2>1. job \in CopyJob /\ HostKnown(job)
    BY <1>1, <1>2 DEF ListSource, At, In, CopyJob, Listed
  <2> HIDE DEF job
  <2> QED
    BY <1>2, <2>1, ReadType DEF ListSource, job
<1>3. ASSUME NEW d \in Database, LoadSource(r, d) PROVE TypeInv'
  <2> DEFINE s == req[r].source
             rest == req[r].todo \ {d}
             job1 == [req[r] EXCEPT !.todo = rest]
             job2 == [pc |-> "storeCopy", source |-> s, c |-> req[r].c,
                      inherit |-> req[r].inherit, todo |-> rest, d |-> d,
                      db |-> CopyTo(dbcfg[s][d], req[r].c)]
  <2>1. req[r] \in CopyJob /\ req[r].pc = "loadSource"
    BY <1>1, <1>3 DEF LoadSource, At, In
  <2>2. CASE Continue(r, job1)
    <3>1. job1 \in CopyJob /\ HostKnown(job1)
      BY <2>1 DEF CopyJob
    <3> HIDE DEF job1
    <3> QED
      BY <1>3, <2>2, <3>1, ReadType DEF LoadSource
  <2>3. CASE Continue(r, job2) /\ (ActiveDb(s, d) \/ DeletedDb(s, d))
    <3>1. s \in Cluster /\ req[r].c \in Cluster
      BY <2>1 DEF CopyJob
    <3>2. dbcfg[s][d] \in DbEntry
      BY <2>3, <3>1 DEF ActiveDb, DeletedDb, TypeInv, TypeOK
    <3>3. CopyTo(dbcfg[s][d], req[r].c) \in DbEntry
      BY <3>1, <3>2 DEF CopyTo, DbEntry
    <3>4. job2 \in CopyStoreJob /\ HostKnown(job2)
      BY <2>1, <3>1, <3>3 DEF CopyJob, CopyStoreJob
    <3> HIDE DEF job2
    <3> QED
      BY <1>3, <2>3, <3>4, ReadType DEF LoadSource
  <2> QED
    BY <1>3, <2>2, <2>3 DEF LoadSource
<1>4. ASSUME StoreCopy(r) PROVE TypeInv'
  <2> DEFINE job == [pc |-> "loadSource", source |-> req[r].source,
                     c |-> req[r].c, inherit |-> req[r].inherit,
                     todo |-> req[r].todo]
  <2>1. req[r] \in CopyStoreJob
    BY <1>4 DEF StoreCopy, At, TypeInv, TypeOK
  <2>2. job \in CopyJob /\ HostKnown(job)
    BY <2>1 DEF CopyJob, CopyStoreJob
  <2>3. req[r].c \in Cluster /\ req[r].d \in Database /\ req[r].db \in DbEntry
    BY <2>1 DEF CopyStoreJob
  <2> HIDE DEF job
  <2>4. CASE dbcfg' = dbcfg
    BY <1>4, <2>2, <2>4, ReadType DEF StoreCopy, job
  <2>5. CASE dbcfg' = [dbcfg EXCEPT ![req[r].c][req[r].d] = req[r].db]
    BY <1>4, <2>2, <2>3, <2>5, StoreDbType DEF StoreCopy, job
  <2> QED
    BY <1>4, <2>4, <2>5 DEF StoreCopy
<1>5. ASSUME CloneReturns(r) PROVE TypeInv'
  BY <1>5, ReadType DEF CloneReturns, Return
<1> QED
  BY <1>2, <1>3, <1>4, <1>5

(***************************************************************************)
(* The steps around the handlers, and the theorem.                         *)
(***************************************************************************)
LEMMA AroundType ==
  ASSUME ConstantsOK, NoClash, TypeInv
  PROVE  /\ \A r \in Request : Fail(r) => TypeInv'
         /\ \A h, copy \in Host : RestoreSnapshot(h, copy) => TypeInv'
         /\ UNCHANGED vars => TypeInv'
<1>1. ASSUME NEW r \in Request, Fail(r) PROVE TypeInv'
  BY <1>1, ReadType DEF Fail, Return, HostKnown
<1>2. ASSUME NEW h \in Host, NEW copy \in Host, RestoreSnapshot(h, copy)
      PROVE  TypeInv'
  <2>1. TypeOK'
    BY <1>2 DEF RestoreSnapshot, TypeInv, TypeOK
  <2>2. ServersStay
    BY <1>2 DEF RestoreSnapshot, TypeInv, TypeOK, ServersStay
  <2>3. \A j \in Job : j.pc \in ConnectedPcs => j.entry.host \in Host
    BY JobByPc DEF ConnectedPcs, UpdateJob, DeleteJob, DisableJob, RegisterJob,
       CloneJob, Enabled, ClusterEntry
  <2>4. ServersExist'
    BY <1>2, <2>2, <2>3
       DEF RestoreSnapshot, TypeInv, TypeOK, ServersExist, ServersStay, In, ClusterEntry
  <2> QED
    BY <2>1, <2>4 DEF TypeInv
<1>3. ASSUME UNCHANGED vars PROVE TypeInv'
  BY <1>3 DEF vars, TypeInv, TypeOK, ServersExist, In
<1> QED
  BY <1>1, <1>2, <1>3

\* The invariant holds of an empty storage.
LEMMA InitType == ConstantsOK /\ Init => TypeInv
<1> SUFFICES ASSUME ConstantsOK, Init PROVE TypeInv
  OBVIOUS
<1>1. NewServer \in Server
  BY DEF ConstantsOK, NewServer, Server, Password
<1>2. TypeOK
  BY <1>1 DEF ConstantsOK, Init, TypeOK
<1>3. ServersExist
  BY DEF Init, ServersExist, In
<1> QED
  BY <1>2, <1>3 DEF TypeInv

\* Every variable keeps its type, every handler the shape of what it has read,
\* and every entry names a server that is there, whatever the number of
\* requests in flight and wherever they are cut short.
THEOREM Typing == Spec => [](TypeOK /\ ServersExist)
<1>1. ASSUME TypeInv, [Next]_vars PROVE TypeInv'
  <2>1. CASE UNCHANGED vars
    BY <1>1, ConstantsOK, NoClash, <2>1, AroundType
  <2>2. CASE \E h, copy \in Host : RestoreSnapshot(h, copy)
    BY <1>1, ConstantsOK, NoClash, <2>2, AroundType
  <2>3. ASSUME NEW r \in Request, Start(r) PROVE TypeInv'
    BY <1>1, ConstantsOK, NoClash, <2>3, UpdateType, DeleteType, PurgeType, RegisterType, DropType,
       CloneType DEF Start
  <2>4. ASSUME NEW r \in Request, Step(r) PROVE TypeInv'
    BY <1>1, ConstantsOK, NoClash, <2>4, UpdateType, DeleteType, PurgeType, RegisterType, DropType,
       CloneType, CopyType DEF Step
  <2>5. ASSUME NEW r \in Request, Fail(r) PROVE TypeInv'
    BY <1>1, ConstantsOK, NoClash, <2>5, AroundType
  <2> QED
    BY <1>1, <2>1, <2>2, <2>3, <2>4, <2>5 DEF Next
<1>2. TypeInv => TypeOK /\ ServersExist
  BY DEF TypeInv
<1>3. Init => TypeInv
  BY InitType, ConstantsOK
<1> QED
  BY <1>3, <1>1, <1>2, PTL DEF Spec

(***************************************************************************)
(* What survives concurrent requests and failures.  An entry, stored or in *)
(* the hands of a handler, is judged by the servers alone; the servers are *)
(* a parameter, so that it can be judged by those before and after a step. *)
(***************************************************************************)

\* A clone is a server of its own, not that of a cluster that is registered.
SeparateServers ==
  \A c \in CloneTarget, k \in Cluster \ CloneTarget : HostOf[c] \cap HostOf[k] = {}

\* Every registration of a database asks for its initialization.
AlwaysInitialize == Initialize \subseteq {TRUE}

UpdatePcs == {"createManagementRole", "updatePassword", "storeCluster"}
DeletePcs == {"listToDelete", "loadToDelete", "storeDisabled"}
ClonePcs == {"checkTarget", "connectClone", "rotateManagement", "rotateRoot",
             "storeTarget"}
CopyPcs == {"listSource", "loadSource", "storeCopy"}

\* An update sets the password of a new management role to what it names the
\* role after; only a clone changes it.
ClusterKnown(c, e, servers) ==
  /\ e.host \in HostOf[c]
  /\ SeparateServers /\ c \notin CloneTarget =>
       /\ e.mgmtPass = e.mgmt
       /\ servers[e.host] # Absent
       /\ servers[e.host].mgmt[e.mgmt] = e.mgmt

DbKnown(c, d, owner, servers) ==
  AlwaysInitialize /\ c \notin CloneTarget =>
    \E h \in HostOf[c] : /\ servers[h] # Absent
                         /\ d \in servers[h].dbs
                         /\ owner \in servers[h].owners

JobKnown(j, servers) ==
  /\ j.pc \in UpdatePcs =>
       j.entry.host \in HostOf[j.c] /\ j.entry.mgmtPass = j.entry.mgmt
  /\ j.pc \in (UpdatePcs \ {"createManagementRole"}) \cup DeletePcs =>
       ClusterKnown(j.c, j.entry, servers)
  /\ j.pc \in RegisterPcs =>
       j.entry.host \in HostOf[j.c] /\ (AlwaysInitialize => j.initialize)
  /\ j.pc = "createOwner" =>
       servers[j.entry.host] # Absent /\ j.d \in servers[j.entry.host].dbs
  /\ j.pc = "storeDatabase" => DbKnown(j.c, j.d, j.owner, servers)
  /\ j.pc \in {"storeDisabled", "storeDropped", "storeCopy"} =>
       j.db.cluster = j.c /\ DbKnown(j.c, j.d, j.db.owner, servers)
  /\ j.pc \in ClonePcs => j.c \in CloneTarget /\ j.entry.host \in HostOf[j.c]
  /\ j.pc \in CopyPcs => j.c \in CloneTarget

ClustersKnown ==
  \A c \in Cluster : cfg[c] # Absent => ClusterKnown(c, cfg[c], pg)

DbsKnown ==
  \A c \in Cluster, d \in Database : dbcfg[c][d] # Absent =>
    dbcfg[c][d].cluster = c /\ DbKnown(c, d, dbcfg[c][d].owner, pg)

ConcurrentInv ==
  /\ ClustersKnown
  /\ DbsKnown
  /\ \A r \in Request : req[r] # Idle => JobKnown(req[r], pg)

\* What a step may do to the servers: databases and owners stay, and so does
\* the password of a role named after it, except on the server of a clone.
Keeps(before, after) ==
  \A h \in Host : before[h] # Absent =>
    /\ after[h] # Absent
    /\ before[h].dbs \subseteq after[h].dbs
    /\ before[h].owners \subseteq after[h].owners
    /\ \A m \in Uuid : before[h].mgmt[m] = m =>
         \/ after[h].mgmt[m] = m
         \/ \E c \in CloneTarget : h \in HostOf[c]

\* What is known of an entry is known after such a step.
LEMMA KnownLater ==
  ASSUME NEW s, NEW t, Keeps(s, t), ConstantsOK
  PROVE  /\ \A c \in Cluster, e \in ClusterEntry : ClusterKnown(c, e, s) => ClusterKnown(c, e, t)
         /\ \A c \in Cluster, d \in Database, o \in Owner : DbKnown(c, d, o, s) => DbKnown(c, d, o, t)
<1>1. ASSUME NEW c \in Cluster, NEW e \in ClusterEntry, ClusterKnown(c, e, s)
      PROVE  ClusterKnown(c, e, t)
  <2>1. e.host \in Host /\ e.mgmt \in Uuid
    BY DEF ClusterEntry
  <2>2. CASE SeparateServers /\ c \notin CloneTarget
    <3>1. \A k \in CloneTarget : e.host \notin HostOf[k]
      BY <1>1, <2>2 DEF ClusterKnown, SeparateServers
    <3>2. s[e.host] # Absent /\ s[e.host].mgmt[e.mgmt] = e.mgmt
      BY <1>1, <2>2 DEF ClusterKnown
    <3>3. t[e.host] # Absent /\ t[e.host].mgmt[e.mgmt] = e.mgmt
      BY <2>1, <3>1, <3>2 DEF Keeps
    <3> QED
      BY <1>1, <3>3 DEF ClusterKnown
  <2> QED
    BY <1>1, <2>2 DEF ClusterKnown
<1>2. ASSUME NEW c \in Cluster, NEW d \in Database, NEW o \in Owner, DbKnown(c, d, o, s)
      PROVE  DbKnown(c, d, o, t)
  <2>1. HostOf[c] \subseteq Host
    BY DEF ConstantsOK
  <2> QED
    BY <1>2, <2>1 DEF DbKnown, Keeps
<1> QED
  BY <1>1, <1>2

\* So is what a handler knows.
LEMMA JobKnownLater ==
  ASSUME NEW s, NEW t, Keeps(s, t), ConstantsOK, NEW j \in Job, JobKnown(j, s)
  PROVE  JobKnown(j, t)
<1> USE JobByPc
<1>1. ASSUME j.pc \in (UpdatePcs \ {"createManagementRole"}) \cup DeletePcs
      PROVE  ClusterKnown(j.c, j.entry, t)
  <2>1. j.c \in Cluster /\ j.entry \in ClusterEntry
    BY <1>1 DEF UpdatePcs, DeletePcs, UpdateJob, DeleteJob, DisableJob, Enabled
  <2>2. ClusterKnown(j.c, j.entry, s)
    BY <1>1 DEF JobKnown
  <2> QED
    BY <2>1, <2>2, KnownLater
<1>2. ASSUME j.pc = "createOwner"
      PROVE  t[j.entry.host] # Absent /\ j.d \in t[j.entry.host].dbs
  <2>1. j.entry.host \in Host
    BY <1>2 DEF RegisterPcs, RegisterJob, ClusterEntry
  <2> QED
    BY <1>2, <2>1 DEF JobKnown, Keeps
<1>3. ASSUME j.pc = "storeDatabase" PROVE DbKnown(j.c, j.d, j.owner, t)
  <2>1. j.c \in Cluster /\ j.d \in Database /\ j.owner \in Owner
    BY <1>3 DEF RegisterPcs, RegisterJob
  <2>2. DbKnown(j.c, j.d, j.owner, s)
    BY <1>3 DEF JobKnown
  <2> QED
    BY <2>1, <2>2, KnownLater
<1>4. ASSUME j.pc \in {"storeDisabled", "storeDropped", "storeCopy"}
      PROVE  DbKnown(j.c, j.d, j.db.owner, t)
  <2>1. j.c \in Cluster /\ j.d \in Database /\ j.db.owner \in Owner
    BY <1>4 DEF DisableJob, DropStoreJob, CopyStoreJob, Disabled, DbEntry
  <2>2. DbKnown(j.c, j.d, j.db.owner, s)
    BY <1>4 DEF JobKnown
  <2> QED
    BY <2>1, <2>2, KnownLater
<1> QED
  BY <1>1, <1>2, <1>3, <1>4 DEF JobKnown

(***************************************************************************)
(* A step owes what its new job knows, and what it stores.                 *)
(***************************************************************************)
LEMMA KnownStep ==
  ASSUME ConstantsOK, TypeInv, ConcurrentInv, Keeps(pg, pg'),
         NEW r \in Request, NEW job, Continue(r, job),
         job # Idle => JobKnown(job, pg'),
         \A c \in Cluster : cfg'[c] = cfg[c] \/ cfg'[c] = Absent \/ ClusterKnown(c, cfg'[c], pg'),
         \A c \in Cluster, d \in Database :
           \/ dbcfg'[c][d] = dbcfg[c][d] \/ dbcfg'[c][d] = Absent
           \/ dbcfg'[c][d].cluster = c /\ DbKnown(c, d, dbcfg'[c][d].owner, pg')
  PROVE  ConcurrentInv'
<1>1. ASSUME NEW c \in Cluster, cfg'[c] # Absent PROVE ClusterKnown(c, cfg'[c], pg')
  <2>1. CASE cfg'[c] = cfg[c]
    <3>1. cfg[c] \in ClusterEntry /\ ClusterKnown(c, cfg[c], pg)
      BY <1>1, <2>1 DEF TypeInv, TypeOK, ConcurrentInv, ClustersKnown
    <3> QED
      BY <2>1, <3>1, KnownLater
  <2> QED
    BY <1>1, <2>1
<1>2. ASSUME NEW c \in Cluster, NEW d \in Database, dbcfg'[c][d] # Absent
      PROVE  dbcfg'[c][d].cluster = c /\ DbKnown(c, d, dbcfg'[c][d].owner, pg')
  <2>1. CASE dbcfg'[c][d] = dbcfg[c][d]
    <3>1. /\ dbcfg[c][d] \in DbEntry /\ dbcfg[c][d].cluster = c
          /\ DbKnown(c, d, dbcfg[c][d].owner, pg)
      BY <1>2, <2>1 DEF TypeInv, TypeOK, ConcurrentInv, DbsKnown
    <3>2. dbcfg[c][d].owner \in Owner
      BY <3>1 DEF DbEntry
    <3> QED
      BY <2>1, <3>1, <3>2, KnownLater
  <2> QED
    BY <1>2, <2>1
<1>3. ASSUME NEW q \in Request, req'[q] # Idle PROVE JobKnown(req'[q], pg')
  <2>1. CASE q = r
    BY <1>3, <2>1 DEF Continue, TypeInv, TypeOK
  <2>2. CASE q # r
    <3>1. req'[q] = req[q] /\ req[q] \in Job /\ JobKnown(req[q], pg)
      BY <1>3, <2>2 DEF Continue, TypeInv, TypeOK, ConcurrentInv
    <3> QED
      BY <3>1, JobKnownLater
  <2> QED
    BY <2>1, <2>2
<1> QED
  BY <1>1, <1>2, <1>3 DEF ConcurrentInv, ClustersKnown, DbsKnown

\* A step that changes nothing but its own job.
LEMMA KnownRead ==
  ASSUME ConstantsOK, TypeInv, ConcurrentInv, NEW r \in Request, NEW job, Continue(r, job),
         job # Idle => JobKnown(job, pg), UNCHANGED <<cfg, dbcfg, pg>>
  PROVE  ConcurrentInv'
<1>1. Keeps(pg, pg')
  BY DEF Keeps
<1> QED
  BY <1>1, KnownStep

\* A step that stores or removes one cluster, or one database.
LEMMA KnownCluster ==
  ASSUME ConstantsOK, TypeInv, ConcurrentInv, NEW r \in Request, NEW job, Continue(r, job),
         job # Idle => JobKnown(job, pg), UNCHANGED <<dbcfg, pg>>,
         NEW c \in Cluster, NEW e, cfg' = [cfg EXCEPT ![c] = e],
         e = Absent \/ ClusterKnown(c, e, pg)
  PROVE  ConcurrentInv'
<1>1. Keeps(pg, pg')
  BY DEF Keeps
<1>2. \A k \in Cluster : cfg'[k] = cfg[k] \/ cfg'[k] = Absent \/ ClusterKnown(k, cfg'[k], pg')
  BY DEF TypeInv, TypeOK
<1> QED
  BY <1>1, <1>2, KnownStep

\* The same for a database.
LEMMA KnownDb ==
  ASSUME ConstantsOK, TypeInv, ConcurrentInv, NEW r \in Request, NEW job, Continue(r, job),
         job # Idle => JobKnown(job, pg), UNCHANGED <<cfg, pg>>,
         NEW c \in Cluster, NEW d \in Database, NEW e, dbcfg' = [dbcfg EXCEPT ![c][d] = e],
         e = Absent \/ (e.cluster = c /\ DbKnown(c, d, e.owner, pg))
  PROVE  ConcurrentInv'
<1>1. Keeps(pg, pg')
  BY DEF Keeps
<1>2. \A k \in Cluster, x \in Database :
        dbcfg'[k][x] = IF k = c /\ x = d THEN e ELSE dbcfg[k][x]
  BY DEF TypeInv, TypeOK
<1>3. \A k \in Cluster, x \in Database :
        \/ dbcfg'[k][x] = dbcfg[k][x] \/ dbcfg'[k][x] = Absent
        \/ dbcfg'[k][x].cluster = k /\ DbKnown(k, x, dbcfg'[k][x].owner, pg')
  BY <1>2
<1> QED
  BY <1>1, <1>3, KnownStep

\* A database that is read from storage is known, and so is its disabled copy.
DbStoredKnown(c, d, e) ==
  e \in DbEntry /\ e.cluster = c /\ DbKnown(c, d, e.owner, pg)

LEMMA LoadedDb ==
  ASSUME TypeInv, ConcurrentInv, NEW c \in Cluster, NEW d \in Database, dbcfg[c][d] # Absent
  PROVE  DbStoredKnown(c, d, dbcfg[c][d])
  BY DEF TypeInv, TypeOK, ConcurrentInv, DbsKnown, DbStoredKnown

LEMMA DisabledDb ==
  ASSUME NEW c, NEW d, NEW e, DbStoredKnown(c, d, e)
  PROVE  DbStoredKnown(c, d, Disable(e))
<1>1. Disable(e) \in DbEntry /\ Disable(e).cluster = e.cluster /\ Disable(e).owner = e.owner
  BY DEF Disable, DbStoredKnown, DbEntry
<1> QED
  BY <1>1 DEF DbStoredKnown

\* The root password is nothing a handler relies on here.
LEMMA RootChangeKeeps ==
  ASSUME NoClash, TypeInv, NEW h \in Host, pg[h] # Absent, NEW p \in Uuid, SetPassword(h, p)
  PROVE  Keeps(pg, pg')
<1> DEFINE s == [pg[h] EXCEPT !.root = p]
<1>1. pg[h] \in Server
  BY DEF TypeInv, TypeOK
<1>2. s.dbs = pg[h].dbs /\ s.owners = pg[h].owners /\ s.mgmt = pg[h].mgmt
  BY <1>1 DEF Server
<1>3. pg' = [pg EXCEPT ![h] = s]
  BY DEF SetPassword
<1>4. ServersStay
  BY SetPasswordType DEF TypeInv
<1> HIDE DEF s
<1> QED
  BY <1>2, <1>3, <1>4 DEF Keeps, ServersStay, TypeInv, TypeOK

\* pathClusterUpdate: the password is set before the entry is stored.
LEMMA UpdateKnown ==
  ASSUME ConstantsOK, NoClash, TypeInv, ConcurrentInv, NEW r \in Request
  PROVE  /\ \A c \in Cluster, h \in Host : PathClusterUpdate(r, c, h) => ConcurrentInv'
         /\ CreateManagementRole(r) => ConcurrentInv'
         /\ UpdatePassword(r) => ConcurrentInv'
         /\ StoreCluster(r) => ConcurrentInv'
<1> USE JobByPc DEF UpdatePcs, DeletePcs, ClonePcs, CopyPcs, RegisterPcs
<1>1. ASSUME NEW c \in Cluster, NEW h \in Host, PathClusterUpdate(r, c, h)
      PROVE  ConcurrentInv'
  <2> DEFINE e == [host |-> h, pass |-> Fresh, mgmt |-> Fresh,
                   mgmtPass |-> Fresh, disabled |-> FALSE]
             job == [pc |-> "createManagementRole", c |-> c, entry |-> e]
  <2>1. Continue(r, job) /\ JobKnown(job, pg)
    BY <1>1 DEF PathClusterUpdate, Begin, JobKnown
  <2> HIDE DEF job
  <2> QED
    BY <1>1, <2>1, KnownRead DEF PathClusterUpdate
<1>2. ASSUME req[r] # Idle, req[r].pc \in UpdatePcs
      PROVE  /\ req[r] \in UpdateJob /\ JobKnown(req[r], pg)
             /\ req[r].entry.host \in Host /\ req[r].entry.host \in HostOf[req[r].c]
             /\ req[r].entry.mgmt \in Uuid /\ req[r].entry.mgmtPass = req[r].entry.mgmt
             /\ pg[req[r].entry.host] \in Server /\ pg[req[r].entry.host] # Absent
  <2>1. req[r] \in UpdateJob /\ JobKnown(req[r], pg)
    BY <1>2 DEF TypeInv, TypeOK, ConcurrentInv
  <2>2. req[r].entry.host \in Host /\ req[r].entry.mgmt \in Uuid
    BY <2>1 DEF UpdateJob, Enabled, ClusterEntry
  <2>3. pg[req[r].entry.host] # Absent
    BY <1>2 DEF TypeInv, ServersExist, In, ConnectedPcs
  <2> QED
    BY <1>2, <2>1, <2>2, <2>3 DEF JobKnown, TypeInv, TypeOK
<1>3. ASSUME CreateManagementRole(r) PROVE ConcurrentInv'
  <2> DEFINE e == req[r].entry
             job == [req[r] EXCEPT !.pc = "updatePassword"]
  <2>1. /\ req[r] \in UpdateJob /\ e.host \in Host /\ e.host \in HostOf[req[r].c]
        /\ e.mgmt \in Uuid /\ e.mgmtPass = e.mgmt
        /\ pg[e.host] \in Server /\ pg[e.host] # Absent
    BY <1>2, <1>3 DEF CreateManagementRole, At
  <2>2. Continue(r, job) /\ job.pc = "updatePassword" /\ job.c = req[r].c /\ job.entry = e
    BY <1>3, <2>1 DEF CreateManagementRole, Goto, UpdateJob
  <2>3. SetRole(e.host, e.mgmt, e.mgmt)
    BY <1>3, <2>1 DEF CreateManagementRole
  <2> HIDE DEF e, job
  <2> DEFINE s == [pg[e.host] EXCEPT !.mgmt[e.mgmt] = e.mgmt]
  <2>4. /\ s \in Server /\ s # Absent /\ s.dbs = pg[e.host].dbs
        /\ s.owners = pg[e.host].owners
        /\ \A m \in Uuid : s.mgmt[m] = IF m = e.mgmt THEN e.mgmt ELSE pg[e.host].mgmt[m]
    BY <2>1 DEF Server, NoClash
  <2>5. pg' = [pg EXCEPT ![e.host] = s]
    BY <2>3 DEF SetRole
  <2> HIDE DEF s
  <2>6. Keeps(pg, pg')
    BY <2>1, <2>4, <2>5 DEF Keeps, TypeInv, TypeOK
  <2>7. ClusterKnown(req[r].c, e, pg')
    BY <2>1, <2>4, <2>5 DEF ClusterKnown, TypeInv, TypeOK
  <2>8. JobKnown(job, pg')
    BY <2>1, <2>2, <2>7 DEF JobKnown
  <2> QED
    BY <1>3, <2>2, <2>6, <2>8, KnownStep DEF CreateManagementRole
<1>4. ASSUME UpdatePassword(r) PROVE ConcurrentInv'
  <2> DEFINE job == [req[r] EXCEPT !.pc = "storeCluster"]
  <2>1. /\ req[r] \in UpdateJob /\ JobKnown(req[r], pg) /\ req[r].entry.host \in Host
        /\ pg[req[r].entry.host] \in Server /\ pg[req[r].entry.host] # Absent
        /\ req[r].pc = "updatePassword"
    BY <1>2, <1>4 DEF UpdatePassword, At
  <2>2. /\ Continue(r, job) /\ job.pc = "storeCluster" /\ job.c = req[r].c
        /\ job.entry = req[r].entry
    BY <1>4, <2>1 DEF UpdatePassword, Goto, UpdateJob
  <2>3. Keeps(pg, pg')
    BY <1>4, <2>1, RootChangeKeeps DEF UpdatePassword, UpdateJob, Enabled, ClusterEntry
  <2> HIDE DEF job
  <2>4. JobKnown(job, pg')
    <3>1. JobKnown(req[r], pg')
      BY <2>1, <2>3, JobKnownLater DEF Job
    <3> QED
      BY <2>1, <2>2, <3>1 DEF JobKnown
  <2> QED
    BY <1>4, <2>2, <2>3, <2>4, KnownStep DEF UpdatePassword
<1>5. ASSUME StoreCluster(r) PROVE ConcurrentInv'
  <2>1. /\ req[r] \in UpdateJob /\ JobKnown(req[r], pg) /\ req[r].pc = "storeCluster"
    BY <1>2, <1>5 DEF StoreCluster, At
  <2>2. req[r].c \in Cluster /\ ClusterKnown(req[r].c, req[r].entry, pg)
    BY <2>1 DEF UpdateJob, JobKnown
  <2> QED
    BY <1>5, <2>2, KnownCluster DEF StoreCluster, Return
<1> QED
  BY <1>1, <1>3, <1>4, <1>5

\* pathClusterDelete stores again what it has read, disabled.
LEMMA DeleteKnown ==
  ASSUME ConstantsOK, NoClash, TypeInv, ConcurrentInv, NEW r \in Request
  PROVE  /\ \A c \in Cluster : PathClusterDelete(r, c) => ConcurrentInv'
         /\ ListToDelete(r) => ConcurrentInv'
         /\ \A d \in Database : LoadToDelete(r, d) => ConcurrentInv'
         /\ StoreDisabled(r) => ConcurrentInv'
         /\ StoreClusterDisabled(r) => ConcurrentInv'
<1> USE JobByPc DEF UpdatePcs, DeletePcs, ClonePcs, CopyPcs, RegisterPcs
<1>1. ASSUME NEW c \in Cluster, PathClusterDelete(r, c) PROVE ConcurrentInv'
  <2> DEFINE job == [pc |-> "listToDelete", c |-> c, entry |-> cfg[c], todo |-> {}]
  <2>1. ClusterKnown(c, cfg[c], pg)
    BY <1>1 DEF PathClusterDelete, Active, ConcurrentInv, ClustersKnown
  <2>2. Continue(r, job) /\ JobKnown(job, pg)
    BY <1>1, <2>1 DEF PathClusterDelete, Begin, JobKnown
  <2> HIDE DEF job
  <2> QED
    BY <1>1, <2>2, KnownRead DEF PathClusterDelete
<1>2. ASSUME req[r] # Idle, req[r].pc \in {"listToDelete", "loadToDelete"}
      PROVE  /\ req[r] \in DeleteJob /\ ClusterKnown(req[r].c, req[r].entry, pg)
             /\ req[r].c \in Cluster
  <2>1. req[r] \in DeleteJob /\ JobKnown(req[r], pg)
    BY <1>2 DEF TypeInv, TypeOK, ConcurrentInv
  <2> QED
    BY <1>2, <2>1 DEF JobKnown, DeleteJob
<1>3. ASSUME ListToDelete(r) PROVE ConcurrentInv'
  <2> DEFINE job == [req[r] EXCEPT !.pc = "loadToDelete", !.todo = Listed(req[r].c)]
  <2>1. req[r] \in DeleteJob /\ ClusterKnown(req[r].c, req[r].entry, pg)
    BY <1>2, <1>3 DEF ListToDelete, At
  <2>2. /\ Continue(r, job) /\ job.pc = "loadToDelete" /\ job.c = req[r].c
        /\ job.entry = req[r].entry
    BY <1>3, <2>1 DEF ListToDelete, DeleteJob
  <2> HIDE DEF job
  <2>3. JobKnown(job, pg)
    BY <2>1, <2>2 DEF JobKnown
  <2> QED
    BY <1>3, <2>2, <2>3, KnownRead DEF ListToDelete
<1>4. ASSUME NEW d \in Database, LoadToDelete(r, d) PROVE ConcurrentInv'
  <2> DEFINE c == req[r].c
             rest == req[r].todo \ {d}
             job1 == [req[r] EXCEPT !.todo = rest]
             job2 == [pc |-> "storeDisabled", c |-> c, entry |-> req[r].entry,
                      todo |-> rest, d |-> d, db |-> Disable(dbcfg[c][d])]
  <2>1. /\ req[r] \in DeleteJob /\ ClusterKnown(c, req[r].entry, pg)
        /\ c \in Cluster /\ req[r].pc = "loadToDelete"
    BY <1>2, <1>4 DEF LoadToDelete, At
  <2>2. CASE Return(r)
    BY <1>4, <2>2, KnownRead DEF LoadToDelete, Return
  <2>3. CASE Continue(r, job1)
    <3>1. job1.pc = "loadToDelete" /\ job1.c = c /\ job1.entry = req[r].entry
      BY <2>1 DEF DeleteJob
    <3> HIDE DEF job1
    <3>2. JobKnown(job1, pg)
      BY <2>1, <3>1 DEF JobKnown
    <3> QED
      BY <1>4, <2>3, <3>2, KnownRead DEF LoadToDelete
  <2>4. CASE Continue(r, job2) /\ ActiveDb(c, d)
    <3>1. DbStoredKnown(c, d, dbcfg[c][d])
      BY <2>1, <2>4, LoadedDb DEF ActiveDb
    <3>2. JobKnown(job2, pg)
      BY <2>1, <3>1, DisabledDb DEF JobKnown, DbStoredKnown
    <3> HIDE DEF job2
    <3> QED
      BY <1>4, <2>4, <3>2, KnownRead DEF LoadToDelete
  <2> QED
    BY <1>4, <2>2, <2>3, <2>4 DEF LoadToDelete
<1>5. ASSUME StoreDisabled(r) PROVE ConcurrentInv'
  <2> DEFINE job == [pc |-> "loadToDelete", c |-> req[r].c,
                     entry |-> req[r].entry, todo |-> req[r].todo]
  <2>1. /\ req[r] \in DisableJob /\ JobKnown(req[r], pg) /\ req[r].pc = "storeDisabled"
        /\ Continue(r, job)
    BY <1>5 DEF StoreDisabled, At, TypeInv, TypeOK, ConcurrentInv
  <2>2. req[r].c \in Cluster /\ req[r].d \in Database
    BY <2>1 DEF DisableJob
  <2>3. /\ ClusterKnown(req[r].c, req[r].entry, pg)
        /\ req[r].db.cluster = req[r].c /\ DbKnown(req[r].c, req[r].d, req[r].db.owner, pg)
    BY <2>1 DEF JobKnown
  <2>4. JobKnown(job, pg)
    BY <2>3 DEF JobKnown
  <2> HIDE DEF job
  <2> QED
    BY <1>5, <2>1, <2>2, <2>3, <2>4, KnownDb DEF StoreDisabled
<1>6. ASSUME StoreClusterDisabled(r) PROVE ConcurrentInv'
  <2>1. /\ req[r] \in DeleteJob /\ ClusterKnown(req[r].c, req[r].entry, pg)
        /\ req[r].c \in Cluster
    BY <1>2, <1>6 DEF StoreClusterDisabled, At
  <2>2. ClusterKnown(req[r].c, Disable(req[r].entry), pg)
    BY <2>1 DEF ClusterKnown, Disable, DeleteJob, Enabled, ClusterEntry
  <2> QED
    BY <1>6, <2>1, <2>2, KnownCluster DEF StoreClusterDisabled, Return
<1> QED
  BY <1>1, <1>3, <1>4, <1>5, <1>6

\* gcPurgeCluster and gcPurgeDatabase only remove.
LEMMA PurgeKnown ==
  ASSUME ConstantsOK, NoClash, TypeInv, ConcurrentInv, NEW r \in Request
  PROVE  /\ \A c \in Cluster : GcPurgeCluster(r, c) => ConcurrentInv'
         /\ ListToPurge(r) => ConcurrentInv'
         /\ \A d \in Database : LoadToPurge(r, d) => ConcurrentInv'
         /\ DeletePurged(r) => ConcurrentInv'
         /\ DeleteClusterEntry(r) => ConcurrentInv'
         /\ \A c \in Cluster, d \in Database : GcPurgeDatabase(r, c, d) => ConcurrentInv'
         /\ DeleteDatabaseEntry(r) => ConcurrentInv'
<1> DEFINE Pcs == {"listToPurge", "loadToPurge", "deletePurged", "purgeDatabase"}
<1>1. \A job : job.pc \in Pcs => JobKnown(job, pg)
  BY DEF JobKnown, UpdatePcs, DeletePcs, ClonePcs, CopyPcs, RegisterPcs
<1>2. ASSUME NEW pc \in Pcs, At(r, pc)
      PROVE  /\ req[r].c \in Cluster
             /\ pc \in {"deletePurged", "purgeDatabase"} => req[r].d \in Database
             /\ pc \in {"listToPurge", "loadToPurge"} => req[r] \in PurgeJob
  BY <1>2, JobByPc DEF At, TypeInv, TypeOK, PurgeJob, PurgeNextJob, PurgeDbJob
<1>3. ASSUME NEW c \in Cluster, GcPurgeCluster(r, c) PROVE ConcurrentInv'
  BY <1>1, <1>3, KnownRead DEF GcPurgeCluster, Begin
<1>4. ASSUME ListToPurge(r) PROVE ConcurrentInv'
  <2> DEFINE job == [req[r] EXCEPT !.pc = "loadToPurge", !.todo = Listed(req[r].c)]
  <2>1. Continue(r, job) /\ job.pc = "loadToPurge"
    BY <1>2, <1>4 DEF ListToPurge, PurgeJob
  <2> HIDE DEF job
  <2> QED
    BY <1>1, <1>4, <2>1, KnownRead DEF ListToPurge
<1>5. ASSUME NEW d \in Database, LoadToPurge(r, d) PROVE ConcurrentInv'
  <2> DEFINE job == [pc |-> "deletePurged", c |-> req[r].c, todo |-> req[r].todo \ {d}, d |-> d]
  <2>1. Return(r) \/ Continue(r, job)
    BY <1>5 DEF LoadToPurge
  <2>2. job.pc = "deletePurged"
    OBVIOUS
  <2> HIDE DEF job
  <2> QED
    BY <1>1, <1>5, <2>1, <2>2, KnownRead DEF LoadToPurge, Return
<1>6. ASSUME DeletePurged(r) PROVE ConcurrentInv'
  <2> DEFINE job == [pc |-> "loadToPurge", c |-> req[r].c, todo |-> req[r].todo]
  <2>1. Continue(r, job) /\ job.pc = "loadToPurge"
    BY <1>6 DEF DeletePurged
  <2>2. req[r].c \in Cluster /\ req[r].d \in Database
    BY <1>2, <1>6 DEF DeletePurged
  <2>3. JobKnown(job, pg)
    BY <1>1, <2>1
  <2>4. /\ UNCHANGED <<cfg, pg>>
        /\ dbcfg' = [dbcfg EXCEPT ![req[r].c][req[r].d] = Absent]
    BY <1>6 DEF DeletePurged
  <2> HIDE DEF job
  <2> QED
    BY <2>1, <2>2, <2>3, <2>4, KnownDb
<1>7. ASSUME DeleteClusterEntry(r) PROVE ConcurrentInv'
  BY <1>2, <1>7, KnownCluster DEF DeleteClusterEntry, Return
<1>8. ASSUME NEW c \in Cluster, NEW d \in Database, GcPurgeDatabase(r, c, d) PROVE ConcurrentInv'
  BY <1>1, <1>8, KnownRead DEF GcPurgeDatabase, Begin
<1>9. ASSUME DeleteDatabaseEntry(r) PROVE ConcurrentInv'
  BY <1>2, <1>9, KnownDb DEF DeleteDatabaseEntry, Return
<1> QED
  BY <1>3, <1>4, <1>5, <1>6, <1>7, <1>8, <1>9

\* pathDatabaseUpdate: what the handler is about to store has been created on
\* a server the operator may name for the cluster.
LEMMA RegisterKnown ==
  ASSUME ConstantsOK, NoClash, TypeInv, ConcurrentInv, NEW r \in Request
  PROVE  /\ \A c \in Cluster, d \in Database : PathDatabaseUpdate(r, c, d) => ConcurrentInv'
         /\ CheckDatabase(r) => ConcurrentInv'
         /\ LoadForRoot(r) => ConcurrentInv'
         /\ LoadForManagement(r) => ConcurrentInv'
         /\ ConnectRoot(r) => ConcurrentInv'
         /\ ConnectManagement(r) => ConcurrentInv'
         /\ CreateDatabase(r) => ConcurrentInv'
         /\ CreateOwner(r) => ConcurrentInv'
         /\ StoreDatabase(r) => ConcurrentInv'
<1>1. ASSUME NEW j \in RegisterJob, NEW s,
             j.entry.host \in HostOf[j.c], AlwaysInitialize => j.initialize,
             j.pc \notin {"createOwner", "storeDatabase"}
      PROVE  JobKnown(j, s)
  BY <1>1 DEF RegisterJob, JobKnown, RegisterPcs, UpdatePcs, DeletePcs, ClonePcs, CopyPcs
<1>2. ASSUME req[r] # Idle, req[r].pc \in RegisterPcs
      PROVE  /\ req[r] \in RegisterJob /\ JobKnown(req[r], pg)
             /\ req[r].entry.host \in HostOf[req[r].c]
             /\ AlwaysInitialize => req[r].initialize
             /\ req[r].entry.host \in Host
             /\ pg[req[r].entry.host] \in Server /\ pg[req[r].entry.host] # Absent
  <2>1. req[r] \in RegisterJob /\ JobKnown(req[r], pg)
    BY <1>2, JobByPc DEF TypeInv, TypeOK, ConcurrentInv
  <2>2. req[r].entry.host \in Host
    BY <2>1 DEF RegisterJob, ClusterEntry
  <2>3. pg[req[r].entry.host] # Absent
    BY <1>2 DEF TypeInv, ServersExist, In, ConnectedPcs
  <2> QED
    BY <1>2, <2>1, <2>2, <2>3 DEF JobKnown, TypeInv, TypeOK
<1>3. ASSUME NEW pc \in RegisterPcs \ {"createOwner", "storeDatabase"}, Goto(r, pc),
             req[r] # Idle, req[r].pc \in RegisterPcs,
             Keeps(pg, pg'), UNCHANGED <<cfg, dbcfg>>
      PROVE  ConcurrentInv'
  <2> DEFINE job == [req[r] EXCEPT !.pc = pc]
  <2>1. /\ req[r] \in RegisterJob /\ req[r].entry.host \in HostOf[req[r].c]
        /\ AlwaysInitialize => req[r].initialize
    BY <1>2, <1>3
  <2>2. /\ job \in RegisterJob /\ Continue(r, job) /\ job.pc = pc
        /\ job.c = req[r].c /\ job.entry = req[r].entry /\ job.initialize = req[r].initialize
    BY <1>3, <2>1 DEF Goto, RegisterJob
  <2> HIDE DEF job
  <2>3. JobKnown(job, pg')
    BY <1>1, <1>3, <2>1, <2>2
  <2> QED
    BY <1>3, <2>2, <2>3, KnownStep
<1>4. ASSUME Return(r), UNCHANGED <<cfg, dbcfg, pg>> PROVE ConcurrentInv'
  BY <1>4, KnownRead DEF Return
<1>5. UNCHANGED pg => Keeps(pg, pg')
  BY DEF Keeps
<1>6. ASSUME NEW c \in Cluster, NEW d \in Database, PathDatabaseUpdate(r, c, d)
      PROVE  ConcurrentInv'
  <2>1. PICK o \in GivenOwner \cup {Fresh}, i \in Initialize, n \in CreateDb :
          Begin(r, [pc |-> "checkDatabase", c |-> c, d |-> d,
                    mgmt |-> cfg[c].mgmt, entry |-> cfg[c], owner |-> o,
                    initialize |-> i, create |-> n])
    BY <1>6 DEF PathDatabaseUpdate
  <2> DEFINE job == [pc |-> "checkDatabase", c |-> c, d |-> d,
                     mgmt |-> cfg[c].mgmt, entry |-> cfg[c], owner |-> o,
                     initialize |-> i, create |-> n]
  <2>2. cfg[c].host \in HostOf[c]
    BY <1>6 DEF PathDatabaseUpdate, Active, ConcurrentInv, ClustersKnown, ClusterKnown
  <2>3. AlwaysInitialize => i
    BY DEF AlwaysInitialize
  <2>4. Continue(r, job) /\ JobKnown(job, pg)
    BY <2>1, <2>2, <2>3
       DEF Begin, JobKnown, RegisterPcs, UpdatePcs, DeletePcs, ClonePcs, CopyPcs
  <2> HIDE DEF job
  <2> QED
    BY <1>6, <2>4, KnownRead DEF PathDatabaseUpdate
<1>7. ASSUME CheckDatabase(r) PROVE ConcurrentInv'
  <2>1. /\ req[r] # Idle /\ req[r].pc \in RegisterPcs /\ req[r] \in RegisterJob
        /\ req[r].entry.host \in HostOf[req[r].c]
        /\ AlwaysInitialize => req[r].initialize
    BY <1>2, <1>7 DEF CheckDatabase, At, RegisterPcs
  <2>2. CASE Return(r)
    BY <1>4, <1>7, <2>2 DEF CheckDatabase
  <2>3. CASE Goto(r, "loadForRoot")
    BY <1>3, <1>5, <1>7, <2>1, <2>3 DEF CheckDatabase, RegisterPcs
  <2>4. CASE ~ req[r].initialize /\ Goto(r, "storeDatabase")
    <3> DEFINE job == [req[r] EXCEPT !.pc = "storeDatabase"]
    <3>1. /\ job \in RegisterJob /\ Continue(r, job) /\ job.pc = "storeDatabase"
          /\ job.c = req[r].c /\ job.entry = req[r].entry
      BY <2>1, <2>4 DEF Goto, RegisterJob, RegisterPcs
    <3> HIDE DEF job
    <3>2. JobKnown(job, pg)
      BY <2>1, <2>4, <3>1
         DEF JobKnown, DbKnown, RegisterPcs, UpdatePcs, DeletePcs, ClonePcs, CopyPcs
    <3> QED
      BY <1>7, <3>1, <3>2, KnownRead DEF CheckDatabase
  <2> QED
    BY <1>7, <2>2, <2>3, <2>4 DEF CheckDatabase
<1>8. ASSUME NEW from \in {"loadForRoot", "loadForManagement"},
             NEW to \in {"connectRoot", "connectManagement"}, LoadForConn(r, from, to)
      PROVE  ConcurrentInv'
  <2>1. /\ req[r] \in RegisterJob /\ req[r].c \in Cluster
        /\ AlwaysInitialize => req[r].initialize
    BY <1>2, <1>8 DEF LoadForConn, At, RegisterPcs, RegisterJob
  <2>2. CASE Return(r)
    BY <1>4, <1>8, <2>2 DEF LoadForConn
  <2>3. CASE cfg[req[r].c] # Absent
             /\ Continue(r, [req[r] EXCEPT !.pc = to, !.entry = cfg[req[r].c]])
    <3>1. PICK e \in ClusterEntry : e = cfg[req[r].c] /\ e.host \in HostOf[req[r].c]
      BY <2>1, <2>3 DEF ConcurrentInv, ClustersKnown, ClusterKnown, TypeInv, TypeOK
    <3> DEFINE job == [req[r] EXCEPT !.pc = to, !.entry = e]
    <3>2. Continue(r, job)
      BY <2>3, <3>1
    <3>3. /\ job \in RegisterJob /\ job.pc = to /\ job.c = req[r].c
          /\ job.entry = e /\ job.initialize = req[r].initialize
      BY <2>1 DEF RegisterJob, RegisterPcs
    <3> HIDE DEF job
    <3>4. JobKnown(job, pg)
      BY <1>1, <2>1, <3>1, <3>3
    <3> QED
      BY <1>8, <3>2, <3>4, KnownRead DEF LoadForConn
  <2> QED
    BY <1>8, <2>2, <2>3 DEF LoadForConn
<1>9. ASSUME ConnectRoot(r) PROVE ConcurrentInv'
  <2>1. \/ Return(r) \/ Goto(r, "createDb") \/ Goto(r, "loadForManagement")
    BY <1>9 DEF ConnectRoot
  <2> QED
    BY <1>3, <1>4, <1>5, <1>9, <2>1 DEF ConnectRoot, At, RegisterPcs
<1>10. ASSUME ConnectManagement(r) PROVE ConcurrentInv'
  <2>1. CASE Return(r)
    BY <1>4, <1>10, <2>1 DEF ConnectManagement
  <2>2. CASE /\ ManagementLogin(req[r].entry) /\ req[r].d \in pg[req[r].entry.host].dbs
             /\ Goto(r, "createOwner")
    <3> DEFINE job == [req[r] EXCEPT !.pc = "createOwner"]
    <3>1. /\ req[r] \in RegisterJob /\ req[r].entry.host \in HostOf[req[r].c]
          /\ AlwaysInitialize => req[r].initialize
          /\ pg[req[r].entry.host] # Absent
      BY <1>2, <1>10 DEF ConnectManagement, At, RegisterPcs
    <3>2. /\ Continue(r, job) /\ job.pc = "createOwner" /\ job.c = req[r].c /\ job.d = req[r].d
          /\ job.entry = req[r].entry /\ job.initialize = req[r].initialize
      BY <2>2, <3>1 DEF Goto, RegisterJob
    <3> HIDE DEF job
    <3>3. JobKnown(job, pg)
      BY <2>2, <3>1, <3>2 DEF JobKnown, RegisterPcs, UpdatePcs, DeletePcs, ClonePcs, CopyPcs
    <3> QED
      BY <1>10, <3>2, <3>3, KnownRead DEF ConnectManagement
  <2> QED
    BY <1>10, <2>1, <2>2 DEF ConnectManagement
<1>11. ASSUME CreateDatabase(r) PROVE ConcurrentInv'
  <2> DEFINE h == req[r].entry.host
             s == [pg[h] EXCEPT !.dbs = @ \cup {req[r].d}]
  <2>1. h \in Host /\ pg[h] \in Server /\ pg[h] # Absent
        /\ req[r] \in RegisterJob /\ req[r] # Idle /\ req[r].pc \in RegisterPcs
    BY <1>2, <1>11 DEF CreateDatabase, At, RegisterPcs
  <2>2. CASE Return(r) /\ UNCHANGED pg
    BY <1>4, <1>11, <2>2 DEF CreateDatabase
  <2>3. CASE Goto(r, "loadForManagement") /\ pg' = [pg EXCEPT ![h] = s]
    <3>1. s \in Server /\ s # Absent
      <4>1. req[r].d \in Database
        BY <2>1 DEF RegisterJob
      <4>2. s \in Server
        BY <2>1, <4>1 DEF Server
      <4> HIDE DEF s
      <4> QED
        BY <4>2 DEF NoClash
    <3>2. pg[h].dbs \subseteq s.dbs /\ s.owners = pg[h].owners /\ s.mgmt = pg[h].mgmt
      BY <2>1 DEF Server
    <3> HIDE DEF s
    <3>3. Keeps(pg, pg')
      BY <2>1, <2>3, <3>1, <3>2 DEF Keeps, TypeInv, TypeOK
    <3> QED
      BY <1>3, <1>11, <2>1, <2>3, <3>3 DEF CreateDatabase, RegisterPcs
  <2> QED
    BY <1>11, <2>2, <2>3 DEF CreateDatabase
<1>12. ASSUME CreateOwner(r) PROVE ConcurrentInv'
  <2> DEFINE h == req[r].entry.host
             s == [pg[h] EXCEPT !.owners = @ \cup {req[r].owner}]
             job == [req[r] EXCEPT !.pc = "storeDatabase"]
  <2>1. /\ h \in Host /\ h \in HostOf[req[r].c] /\ pg[h] \in Server /\ pg[h] # Absent
        /\ req[r] \in RegisterJob /\ JobKnown(req[r], pg) /\ req[r].pc = "createOwner"
        /\ AlwaysInitialize => req[r].initialize
    BY <1>2, <1>12 DEF CreateOwner, At, RegisterPcs
  <2>2. CASE Return(r) /\ UNCHANGED pg
    BY <1>4, <1>12, <2>2 DEF CreateOwner
  <2>3. CASE Goto(r, "storeDatabase") /\ pg' = [pg EXCEPT ![h] = s]
    <3>1. /\ s # Absent /\ s.dbs = pg[h].dbs
          /\ s.owners = pg[h].owners \cup {req[r].owner} /\ s.mgmt = pg[h].mgmt
      <4>1. req[r].owner \in Owner
        BY <2>1 DEF RegisterJob
      <4>2. s \in Server
        BY <2>1, <4>1 DEF Server
      <4>3. s.owners = pg[h].owners \cup {req[r].owner}
        BY <2>1 DEF Server
      <4>4. s.dbs = pg[h].dbs /\ s.mgmt = pg[h].mgmt
        BY <2>1 DEF Server
      <4> HIDE DEF s
      <4> QED
        BY <4>2, <4>3, <4>4 DEF NoClash
    <3>2. /\ Continue(r, job) /\ job.pc = "storeDatabase" /\ job.c = req[r].c /\ job.d = req[r].d
          /\ job.owner = req[r].owner /\ job.entry = req[r].entry
          /\ job.initialize = req[r].initialize
      BY <2>1, <2>3 DEF Goto, RegisterJob
    <3> HIDE DEF s, job
    <3>3. Keeps(pg, pg')
      BY <2>1, <2>3, <3>1 DEF Keeps, TypeInv, TypeOK
    <3>4. pg'[h] = s /\ req[r].d \in s.dbs
      BY <2>1, <2>3, <3>1 DEF JobKnown, TypeInv, TypeOK
    <3>5. DbKnown(req[r].c, req[r].d, req[r].owner, pg')
      BY <2>1, <3>1, <3>4 DEF DbKnown
    <3>6. JobKnown(job, pg')
      BY <2>1, <3>2, <3>5 DEF JobKnown, RegisterPcs, UpdatePcs, DeletePcs, ClonePcs, CopyPcs
    <3> QED
      BY <1>12, <3>2, <3>3, <3>6, KnownStep DEF CreateOwner
  <2> QED
    BY <1>12, <2>2, <2>3 DEF CreateOwner
<1>13. ASSUME StoreDatabase(r) PROVE ConcurrentInv'
  <2> DEFINE e == [cluster |-> req[r].c, owner |-> req[r].owner, disabled |-> FALSE]
  <2>1. /\ req[r] \in RegisterJob /\ JobKnown(req[r], pg) /\ req[r].pc = "storeDatabase"
    BY <1>2, <1>13 DEF StoreDatabase, At, RegisterPcs
  <2>2. /\ req[r].c \in Cluster /\ req[r].d \in Database
        /\ e.cluster = req[r].c /\ DbKnown(req[r].c, req[r].d, e.owner, pg)
    BY <2>1 DEF RegisterJob, JobKnown
  <2> HIDE DEF e
  <2> QED
    BY <1>13, <2>2, KnownDb DEF StoreDatabase, Return, e
<1> QED
  BY <1>6, <1>7, <1>8, <1>9, <1>10, <1>11, <1>12, <1>13 DEF LoadForRoot, LoadForManagement

\* pathDatabaseDelete stores again what it has read, disabled.
LEMMA DropKnown ==
  ASSUME ConstantsOK, NoClash, TypeInv, ConcurrentInv, NEW r \in Request
  PROVE  /\ \A c \in Cluster, d \in Database : PathDatabaseDelete(r, c, d) => ConcurrentInv'
         /\ LoadToDrop(r) => ConcurrentInv'
         /\ StoreDropped(r) => ConcurrentInv'
<1> USE JobByPc DEF UpdatePcs, DeletePcs, ClonePcs, CopyPcs, RegisterPcs
<1>1. ASSUME NEW c \in Cluster, NEW d \in Database, PathDatabaseDelete(r, c, d)
      PROVE  ConcurrentInv'
  <2> DEFINE job == [pc |-> "loadToDrop", c |-> c, d |-> d]
  <2>1. Continue(r, job) /\ JobKnown(job, pg)
    BY <1>1 DEF PathDatabaseDelete, Begin, JobKnown
  <2> HIDE DEF job
  <2> QED
    BY <1>1, <2>1, KnownRead DEF PathDatabaseDelete
<1>2. ASSUME LoadToDrop(r) PROVE ConcurrentInv'
  <2> DEFINE c == req[r].c
             d == req[r].d
             job == [pc |-> "storeDropped", c |-> c, d |-> d,
                     db |-> Disable(dbcfg[c][d])]
  <2>1. c \in Cluster /\ d \in Database
    BY <1>2 DEF LoadToDrop, At, TypeInv, TypeOK, DropJob
  <2>2. CASE Return(r)
    BY <1>2, <2>2, KnownRead DEF LoadToDrop, Return
  <2>3. CASE ActiveDb(c, d) /\ Continue(r, job)
    <3>1. DbStoredKnown(c, d, Disable(dbcfg[c][d]))
      BY <2>1, <2>3, LoadedDb, DisabledDb DEF ActiveDb
    <3>2. JobKnown(job, pg)
      BY <3>1 DEF JobKnown, DbStoredKnown
    <3> HIDE DEF job
    <3> QED
      BY <1>2, <2>3, <3>2, KnownRead DEF LoadToDrop
  <2> QED
    BY <1>2, <2>2, <2>3 DEF LoadToDrop
<1>3. ASSUME StoreDropped(r) PROVE ConcurrentInv'
  <2>1. req[r] \in DropStoreJob /\ JobKnown(req[r], pg) /\ req[r].pc = "storeDropped"
    BY <1>3 DEF StoreDropped, At, TypeInv, TypeOK, ConcurrentInv
  <2>2. /\ req[r].c \in Cluster /\ req[r].d \in Database
        /\ req[r].db.cluster = req[r].c /\ DbKnown(req[r].c, req[r].d, req[r].db.owner, pg)
    BY <2>1 DEF DropStoreJob, JobKnown
  <2> QED
    BY <1>3, <2>2, KnownDb DEF StoreDropped, Return
<1> QED
  BY <1>1, <1>2, <1>3

\* pathCloneUpdate stores clusters under names for clones only, and changes
\* passwords only on servers for clones.
LEMMA CloneKnown ==
  ASSUME ConstantsOK, NoClash, TypeInv, ConcurrentInv, NEW r \in Request
  PROVE  /\ \A source, c \in Cluster, h \in Host :
              PathCloneUpdate(r, source, c, h) => ConcurrentInv'
         /\ CheckTarget(r) => ConcurrentInv'
         /\ ConnectClone(r) => ConcurrentInv'
         /\ RotateManagement(r) => ConcurrentInv'
         /\ RotateRoot(r) => ConcurrentInv'
         /\ StoreTarget(r) => ConcurrentInv'
<1>1. ASSUME NEW j, NEW s, j.pc \in ClonePcs, j.c \in CloneTarget, j.entry.host \in HostOf[j.c]
      PROVE  JobKnown(j, s)
  BY <1>1 DEF JobKnown, RegisterPcs, UpdatePcs, DeletePcs, ClonePcs, CopyPcs
<1>2. ASSUME req[r] # Idle, req[r].pc \in ClonePcs
      PROVE  /\ req[r] \in CloneJob /\ req[r].c \in CloneTarget
             /\ req[r].entry.host \in HostOf[req[r].c] /\ req[r].entry.host \in Host
             /\ req[r].entry.mgmt \in Uuid /\ req[r].id \in Uuid
  <2>1. req[r] \in CloneJob /\ JobKnown(req[r], pg)
    BY <1>2, JobByPc DEF TypeInv, TypeOK, ConcurrentInv, ClonePcs
  <2> QED
    BY <1>2, <2>1 DEF JobKnown, CloneJob, Enabled, ClusterEntry
<1>3. ASSUME NEW pc \in ClonePcs, Goto(r, pc), req[r] # Idle, req[r].pc \in ClonePcs,
             UNCHANGED <<cfg, dbcfg, pg>>
      PROVE  ConcurrentInv'
  <2> DEFINE job == [req[r] EXCEPT !.pc = pc]
  <2>1. /\ Continue(r, job) /\ job.pc = pc /\ job.c = req[r].c /\ job.entry = req[r].entry
    BY <1>2, <1>3 DEF Goto, CloneJob
  <2> HIDE DEF job
  <2>2. JobKnown(job, pg)
    BY <1>1, <1>2, <1>3, <2>1
  <2> QED
    BY <1>3, <2>1, <2>2, KnownRead
<1>4. ASSUME Return(r), UNCHANGED <<cfg, dbcfg, pg>> PROVE ConcurrentInv'
  BY <1>4, KnownRead DEF Return
<1>5. ASSUME NEW source \in Cluster, NEW c \in Cluster, NEW h \in Host,
             PathCloneUpdate(r, source, c, h)
      PROVE  ConcurrentInv'
  <2>1. PICK i \in InheritDeleted :
          Begin(r, [pc |-> "checkTarget", source |-> source, c |-> c,
                    entry |-> AtHost(cfg[source], h), id |-> Fresh,
                    inherit |-> i])
    BY <1>5 DEF PathCloneUpdate
  <2> DEFINE job == [pc |-> "checkTarget", source |-> source, c |-> c,
                     entry |-> AtHost(cfg[source], h), id |-> Fresh,
                     inherit |-> i]
  <2>2. AtHost(cfg[source], h).host = h
    <3>1. cfg[source] \in ClusterEntry
      BY <1>5 DEF PathCloneUpdate, Active, TypeInv, TypeOK
    <3> QED
      BY <3>1 DEF AtHost, ClusterEntry
  <2>3. c \in CloneTarget /\ h \in HostOf[c]
    BY <1>5 DEF PathCloneUpdate
  <2>4. Continue(r, job) /\ job.pc \in ClonePcs /\ job.c = c /\ job.entry.host = h
    BY <2>1, <2>2 DEF Begin, ClonePcs
  <2> HIDE DEF job
  <2>5. JobKnown(job, pg)
    BY <1>1, <2>3, <2>4
  <2> QED
    BY <1>5, <2>4, <2>5, KnownRead DEF PathCloneUpdate
<1>6. ASSUME CheckTarget(r) PROVE ConcurrentInv'
  BY <1>3, <1>4, <1>6 DEF CheckTarget, At, ClonePcs
<1>7. ASSUME ConnectClone(r) PROVE ConcurrentInv'
  BY <1>3, <1>4, <1>7 DEF ConnectClone, At, ClonePcs
<1>8. ASSUME NEW e, NEW pc \in ClonePcs, req[r] # Idle, req[r].pc \in ClonePcs,
             e.host = req[r].entry.host, Keeps(pg, pg'), UNCHANGED <<cfg, dbcfg>>,
             Continue(r, [req[r] EXCEPT !.pc = pc, !.entry = e])
      PROVE  ConcurrentInv'
  <2> DEFINE job == [req[r] EXCEPT !.pc = pc, !.entry = e]
  <2>1. job.pc = pc /\ job.c = req[r].c /\ job.entry = e
    BY <1>2, <1>8 DEF CloneJob
  <2> HIDE DEF job
  <2>2. JobKnown(job, pg')
    BY <1>1, <1>2, <1>8, <2>1
  <2> QED
    BY <1>8, <2>2, KnownStep DEF job
<1>9. ASSUME req[r] # Idle, req[r].pc \in {"rotateManagement", "rotateRoot", "storeTarget"}
      PROVE  pg[req[r].entry.host] # Absent
  BY <1>9 DEF TypeInv, ServersExist, In, ConnectedPcs
<1>10. ASSUME RotateManagement(r) PROVE ConcurrentInv'
  <2> DEFINE h == req[r].entry.host
             m == req[r].entry.mgmt
             p == req[r].id
             e == [req[r].entry EXCEPT !.mgmtPass = p]
             s == [pg[h] EXCEPT !.mgmt[m] = p]
  <2>1. /\ req[r] # Idle /\ req[r].pc \in ClonePcs /\ req[r] \in CloneJob
        /\ h \in Host /\ m \in Uuid /\ p \in Uuid
        /\ \E c \in CloneTarget : h \in HostOf[c]
        /\ pg[h] \in Server /\ pg[h] # Absent
    BY <1>2, <1>9, <1>10 DEF RotateManagement, At, ClonePcs, TypeInv, TypeOK
  <2>2. s # Absent /\ s.dbs = pg[h].dbs /\ s.owners = pg[h].owners
    <3>1. s \in Server
      BY <2>1 DEF Server
    <3>2. s.dbs = pg[h].dbs /\ s.owners = pg[h].owners
      BY <2>1 DEF Server
    <3> HIDE DEF s
    <3> QED
      BY <3>1, <3>2 DEF NoClash
  <2>3. pg' = [pg EXCEPT ![h] = s]
    BY <1>10 DEF RotateManagement, SetRole
  <2>4. e.host = h
    BY <2>1 DEF CloneJob, Enabled, ClusterEntry
  <2>5. Continue(r, [req[r] EXCEPT !.pc = "rotateRoot", !.entry = e])
    BY <1>10, <2>1 DEF RotateManagement, CloneJob
  <2> HIDE DEF s, e, m, p
  <2>6. Keeps(pg, pg')
    BY <2>1, <2>2, <2>3 DEF Keeps, TypeInv, TypeOK
  <2> QED
    BY <1>8, <1>10, <2>1, <2>4, <2>5, <2>6 DEF RotateManagement, ClonePcs
<1>11. ASSUME RotateRoot(r) PROVE ConcurrentInv'
  <2> DEFINE e == [req[r].entry EXCEPT !.pass = req[r].id]
  <2>1. /\ req[r] # Idle /\ req[r].pc \in ClonePcs /\ req[r] \in CloneJob
        /\ req[r].entry.host \in Host /\ req[r].id \in Uuid
        /\ pg[req[r].entry.host] # Absent
    BY <1>2, <1>9, <1>11 DEF RotateRoot, At, ClonePcs
  <2>2. Keeps(pg, pg')
    BY <1>11, <2>1, RootChangeKeeps DEF RotateRoot
  <2>3. e.host = req[r].entry.host
    BY <2>1 DEF CloneJob, Enabled, ClusterEntry
  <2>4. Continue(r, [req[r] EXCEPT !.pc = "storeTarget", !.entry = e])
    BY <1>11, <2>1 DEF RotateRoot, CloneJob
  <2> HIDE DEF e
  <2> QED
    BY <1>8, <1>11, <2>1, <2>2, <2>3, <2>4 DEF RotateRoot, ClonePcs
<1>12. ASSUME StoreTarget(r) PROVE ConcurrentInv'
  <2> DEFINE job == [pc |-> "listSource", source |-> req[r].source,
                     c |-> req[r].c, inherit |-> req[r].inherit, todo |-> {}]
  <2>1. /\ req[r].c \in CloneTarget /\ req[r].entry.host \in HostOf[req[r].c]
        /\ req[r].c \in Cluster
    BY <1>2, <1>12 DEF StoreTarget, At, ClonePcs, CloneJob
  <2>2. ClusterKnown(req[r].c, req[r].entry, pg)
    BY <2>1 DEF ClusterKnown
  <2>3. Continue(r, job) /\ JobKnown(job, pg)
    BY <1>12, <2>1
       DEF StoreTarget, JobKnown, RegisterPcs, UpdatePcs, DeletePcs, ClonePcs, CopyPcs
  <2> HIDE DEF job
  <2> QED
    BY <1>12, <2>1, <2>2, <2>3, KnownCluster DEF StoreTarget
<1> QED
  BY <1>5, <1>6, <1>7, <1>10, <1>11, <1>12

\* cloneDbConfig stores copies that name the clone.
LEMMA CopyKnown ==
  ASSUME ConstantsOK, NoClash, TypeInv, ConcurrentInv, NEW r \in Request
  PROVE  /\ ListSource(r) => ConcurrentInv'
         /\ \A d \in Database : LoadSource(r, d) => ConcurrentInv'
         /\ StoreCopy(r) => ConcurrentInv'
         /\ CloneReturns(r) => ConcurrentInv'
<1> USE JobByPc DEF RegisterPcs, UpdatePcs, DeletePcs, ClonePcs, CopyPcs
<1>1. ASSUME req[r] # Idle, req[r].pc \in {"listSource", "loadSource"}
      PROVE  req[r] \in CopyJob /\ req[r].c \in CloneTarget
  BY <1>1 DEF TypeInv, TypeOK, ConcurrentInv, JobKnown
<1>2. ASSUME ListSource(r) PROVE ConcurrentInv'
  <2> DEFINE job == [req[r] EXCEPT !.pc = "loadSource", !.todo = Listed(req[r].source)]
  <2>1. req[r].c \in CloneTarget /\ Continue(r, job) /\ job.pc = "loadSource" /\ job.c = req[r].c
    BY <1>1, <1>2 DEF ListSource, At, CopyJob
  <2> HIDE DEF job
  <2>2. JobKnown(job, pg)
    BY <2>1 DEF JobKnown
  <2> QED
    BY <1>2, <2>1, <2>2, KnownRead DEF ListSource
<1>3. ASSUME NEW d \in Database, LoadSource(r, d) PROVE ConcurrentInv'
  <2> DEFINE s == req[r].source
             rest == req[r].todo \ {d}
             job1 == [req[r] EXCEPT !.todo = rest]
             job2 == [pc |-> "storeCopy", source |-> s, c |-> req[r].c,
                      inherit |-> req[r].inherit, todo |-> rest, d |-> d,
                      db |-> CopyTo(dbcfg[s][d], req[r].c)]
  <2>1. req[r] \in CopyJob /\ req[r].pc = "loadSource" /\ req[r].c \in CloneTarget
    BY <1>1, <1>3 DEF LoadSource, At
  <2>2. CASE Continue(r, job1)
    <3>1. job1.pc = "loadSource" /\ job1.c = req[r].c
      BY <2>1 DEF CopyJob
    <3> HIDE DEF job1
    <3>2. JobKnown(job1, pg)
      BY <2>1, <3>1 DEF JobKnown
    <3> QED
      BY <1>3, <2>2, <3>2, KnownRead DEF LoadSource
  <2>3. CASE Continue(r, job2) /\ (ActiveDb(s, d) \/ DeletedDb(s, d))
    <3>1. dbcfg[s][d] \in DbEntry
      BY <2>1, <2>3 DEF ActiveDb, DeletedDb, TypeInv, TypeOK, CopyJob
    <3>2. CopyTo(dbcfg[s][d], req[r].c).cluster = req[r].c
      BY <3>1 DEF CopyTo, DbEntry
    <3>3. JobKnown(job2, pg)
      BY <2>1, <3>2 DEF JobKnown, DbKnown
    <3> HIDE DEF job2
    <3> QED
      BY <1>3, <2>3, <3>3, KnownRead DEF LoadSource
  <2> QED
    BY <1>3, <2>2, <2>3 DEF LoadSource
<1>4. ASSUME StoreCopy(r) PROVE ConcurrentInv'
  <2> DEFINE job == [pc |-> "loadSource", source |-> req[r].source,
                     c |-> req[r].c, inherit |-> req[r].inherit,
                     todo |-> req[r].todo]
  <2>1. req[r] \in CopyStoreJob /\ JobKnown(req[r], pg) /\ req[r].pc = "storeCopy"
    BY <1>4 DEF StoreCopy, At, TypeInv, TypeOK, ConcurrentInv
  <2>2. /\ req[r].c \in Cluster /\ req[r].d \in Database /\ req[r].c \in CloneTarget
        /\ req[r].db.cluster = req[r].c /\ DbKnown(req[r].c, req[r].d, req[r].db.owner, pg)
    BY <2>1 DEF CopyStoreJob, JobKnown
  <2>3. Continue(r, job) /\ JobKnown(job, pg)
    BY <1>4, <2>2 DEF StoreCopy, JobKnown
  <2> HIDE DEF job
  <2>4. CASE dbcfg' = dbcfg
    BY <1>4, <2>3, <2>4, KnownRead DEF StoreCopy
  <2>5. CASE dbcfg' = [dbcfg EXCEPT ![req[r].c][req[r].d] = req[r].db]
    BY <1>4, <2>2, <2>3, <2>5, KnownDb DEF StoreCopy
  <2> QED
    BY <1>4, <2>4, <2>5 DEF StoreCopy
<1>5. ASSUME CloneReturns(r) PROVE ConcurrentInv'
  BY <1>5, KnownRead DEF CloneReturns, Return
<1> QED
  BY <1>2, <1>3, <1>4, <1>5

\* A handler cut short leaves what it has stored; a restored server comes with
\* what the snapshot holds.
LEMMA AroundKnown ==
  ASSUME ConstantsOK, NoClash, TypeInv, ConcurrentInv
  PROVE  /\ \A r \in Request : Fail(r) => ConcurrentInv'
         /\ \A h, copy \in Host : RestoreSnapshot(h, copy) => ConcurrentInv'
         /\ UNCHANGED vars => ConcurrentInv'
<1>1. ASSUME NEW r \in Request, Fail(r) PROVE ConcurrentInv'
  BY <1>1, KnownRead DEF Fail, Return
<1>2. ASSUME Keeps(pg, pg'), UNCHANGED <<cfg, dbcfg, req>> PROVE ConcurrentInv'
  <2>1. ASSUME NEW c \in Cluster, cfg[c] # Absent PROVE ClusterKnown(c, cfg[c], pg')
    <3>1. cfg[c] \in ClusterEntry /\ ClusterKnown(c, cfg[c], pg)
      BY <2>1 DEF TypeInv, TypeOK, ConcurrentInv, ClustersKnown
    <3> QED
      BY <1>2, <3>1, KnownLater
  <2>2. ASSUME NEW c \in Cluster, NEW d \in Database, dbcfg[c][d] # Absent
        PROVE  dbcfg[c][d].cluster = c /\ DbKnown(c, d, dbcfg[c][d].owner, pg')
    <3>1. DbStoredKnown(c, d, dbcfg[c][d])
      BY <2>2, LoadedDb
    <3>2. dbcfg[c][d].owner \in Owner
      BY <3>1 DEF DbStoredKnown, DbEntry
    <3> QED
      BY <1>2, <3>1, <3>2, KnownLater DEF DbStoredKnown
  <2>3. ASSUME NEW r \in Request, req[r] # Idle PROVE JobKnown(req[r], pg')
    <3>1. req[r] \in Job /\ JobKnown(req[r], pg)
      BY <2>3 DEF TypeInv, TypeOK, ConcurrentInv
    <3> QED
      BY <1>2, <3>1, JobKnownLater
  <2> QED
    BY <1>2, <2>1, <2>2, <2>3 DEF ConcurrentInv, ClustersKnown, DbsKnown
<1>3. ASSUME NEW h \in Host, NEW copy \in Host, RestoreSnapshot(h, copy)
      PROVE  ConcurrentInv'
  <2>1. \A k \in Host : pg[k] # Absent => pg'[k] = pg[k]
    BY <1>3 DEF RestoreSnapshot, TypeInv, TypeOK
  <2>2. Keeps(pg, pg')
    BY <2>1 DEF Keeps
  <2> QED
    BY <1>2, <1>3, <2>2 DEF RestoreSnapshot
<1>4. ASSUME UNCHANGED vars PROVE ConcurrentInv'
  <2>1. Keeps(pg, pg')
    BY <1>4 DEF vars, Keeps
  <2> QED
    BY <1>2, <1>4, <2>1 DEF vars
<1> QED
  BY <1>1, <1>3, <1>4

\* The invariant holds of an empty storage.
LEMMA InitKnown == Init => ConcurrentInv
  BY DEF Init, ConcurrentInv, ClustersKnown, DbsKnown

\* Whatever the number of concurrent requests, and wherever they are cut short.
LEMMA ConcurrentInvariance == Spec => []ConcurrentInv
<1>1. ASSUME TypeInv, ConcurrentInv, [Next]_vars PROVE ConcurrentInv'
  <2>1. CASE UNCHANGED vars
    BY <1>1, ConstantsOK, NoClash, <2>1, AroundKnown
  <2>2. CASE \E h, copy \in Host : RestoreSnapshot(h, copy)
    BY <1>1, ConstantsOK, NoClash, <2>2, AroundKnown
  <2>3. ASSUME NEW r \in Request, Start(r) PROVE ConcurrentInv'
    BY <1>1, ConstantsOK, NoClash, <2>3, UpdateKnown, DeleteKnown, PurgeKnown,
       RegisterKnown, DropKnown, CloneKnown DEF Start
  <2>4. ASSUME NEW r \in Request, Step(r) PROVE ConcurrentInv'
    BY <1>1, ConstantsOK, NoClash, <2>4, UpdateKnown, DeleteKnown, PurgeKnown,
       RegisterKnown, DropKnown, CloneKnown, CopyKnown DEF Step
  <2>5. ASSUME NEW r \in Request, Fail(r) PROVE ConcurrentInv'
    BY <1>1, ConstantsOK, NoClash, <2>5, AroundKnown
  <2> QED
    BY <1>1, <2>1, <2>2, <2>3, <2>4, <2>5 DEF Next
<1>2. TypeInv <=> TypeOK /\ ServersExist
  BY DEF TypeInv
<1> QED
  BY <1>1, <1>2, InitKnown, Typing, PTL DEF Spec

\* No handler gets past makeConn with the address of a server that is not
\* there, and none stores such an address.
THEOREM ServersStayKnown == Spec => []ServersExist
  BY Typing, PTL

\* Registration, deletion and clone store an entry under the names it holds.
THEOREM EntriesNamed == Spec => []ClusterMatchesPath
<1>1. ConcurrentInv => ClusterMatchesPath
  BY DEF ConcurrentInv, DbsKnown, ClusterMatchesPath, Listed
<1> QED
  BY <1>1, ConcurrentInvariance, PTL

\* A management role keeps its password on any server but a clone's, so the
\* entry of a cluster logs in, whichever of several updates stored it.
THEOREM PrimaryLogins ==
  ASSUME SeparateServers
  PROVE  Spec => []PrimaryManagementCredentialsWork
<1>1. ConcurrentInv => PrimaryManagementCredentialsWork
  BY SeparateServers DEF ConcurrentInv, ClustersKnown, ClusterKnown,
     PrimaryManagementCredentialsWork, ManagementLogin
<1> QED
  BY <1>1, ConcurrentInvariance, PTL

\* Of the three reads of the cluster's entry between a registration and its
\* store, each names a server of the cluster, and what was made there stays.
THEOREM DatabasesInitialized ==
  ASSUME AlwaysInitialize
  PROVE  Spec => []RegisteredDatabaseInitialized
<1>1. ConcurrentInv => RegisteredDatabaseInitialized
  BY AlwaysInitialize DEF ConcurrentInv, DbsKnown, DbKnown, Listed,
     RegisteredDatabaseInitialized
<1> QED
  BY <1>1, ConcurrentInvariance, PTL
=============================================================================
