---------------------- MODULE RegistryRefinementProofs ----------------------
(***************************************************************************)
(* The handlers, call by call, implement Lifecycle when requests are made  *)
(* one at a time, whatever they are cut short at: every step of Registry   *)
(* is one of Lifecycle's or leaves its statuses alone.                     *)
(***************************************************************************)
EXTENDS RegistrySerialProofs

ClusterStatus == [c \in Cluster |-> StatusOf(cfg[c])]
DbStatus == [c \in Cluster |-> [d \in Database |-> StatusOf(dbcfg[c][d])]]

(***************************************************************************)
(* Which status an entry stands for.                                       *)
(***************************************************************************)
LEMMA StatusCases ==
  ASSUME NoClash
  PROVE  /\ StatusOf(Absent) = "absent"
         /\ \A e \in ClusterEntry \cup DbEntry :
              StatusOf(e) = IF e.disabled THEN "deleted" ELSE "active"
  BY DEF NoClash, StatusOf

\* What the handlers ask of an entry is what Lifecycle asks of its status.
LEMMA StatusNow ==
  ASSUME NEW c \in Cluster, NEW d \in Database
  PROVE  /\ Active(c) <=> ClusterStatus[c] = "active"
         /\ Deleted(c) <=> ClusterStatus[c] = "deleted"
         /\ cfg[c] = Absent <=> ClusterStatus[c] = "absent"
         /\ ActiveDb(c, d) <=> DbStatus[c][d] = "active"
         /\ DeletedDb(c, d) <=> DbStatus[c][d] = "deleted"
         /\ dbcfg[c][d] = Absent <=> DbStatus[c][d] = "absent"
  BY DEF Active, Deleted, ActiveDb, DeletedDb, ClusterStatus, DbStatus, StatusOf

(***************************************************************************)
(* A store of one entry is a transition of one status.                     *)
(***************************************************************************)
LEMMA StoredCluster ==
  ASSUME TypeInv, NEW c \in Cluster, NEW e, cfg' = [cfg EXCEPT ![c] = e],
         UNCHANGED dbcfg
  PROVE  /\ L!SetCluster(c, StatusOf(e))
         /\ DbStatus' = DbStatus
  BY DEF TypeInv, TypeOK, ClusterStatus, DbStatus, L!SetCluster

\* The same for a database.
LEMMA StoredDatabase ==
  ASSUME TypeInv, NEW c \in Cluster, NEW d \in Database, NEW e,
         dbcfg' = [dbcfg EXCEPT ![c][d] = e], UNCHANGED cfg
  PROVE  /\ L!SetDatabase(c, d, StatusOf(e))
         /\ ClusterStatus' = ClusterStatus
  BY DEF TypeInv, TypeOK, ClusterStatus, DbStatus, L!SetDatabase

\* Each transition of Lifecycle is a step of it.
LEMMA LStep ==
  ASSUME NEW c \in Cluster,
         \/ L!RegisterCluster(c) \/ L!DeleteCluster(c) \/ L!PurgeCluster(c)
         \/ \E d \in Database :
              L!AddDatabase(c, d) \/ L!DeleteDatabase(c, d) \/ L!PurgeDatabase(c, d)
  PROVE  [L!Next]_(L!vars)
  BY DEF L!Next

\* A step that changes no status is a stutter of Lifecycle.
LEMMA LStutter ==
  ASSUME ClusterStatus' = ClusterStatus, DbStatus' = DbStatus
  PROVE  [L!Next]_(L!vars)
  BY DEF L!vars, ClusterStatus, DbStatus

\* A step that stores nothing changes no status.
LEMMA Unchanged ==
  ASSUME UNCHANGED <<cfg, dbcfg>>
  PROVE  ClusterStatus' = ClusterStatus /\ DbStatus' = DbStatus
  BY DEF ClusterStatus, DbStatus

(***************************************************************************)
(* The ten steps that store or remove an entry.                            *)
(***************************************************************************)
LEMMA RefineCreation ==
  ASSUME NoClash, TypeInv, SerialInv, NEW r \in Request
  PROVE  /\ StoreCluster(r) => [L!Next]_(L!vars)
         /\ StoreTarget(r) => [L!Next]_(L!vars)
         /\ StoreDatabase(r) => [L!Next]_(L!vars)
         /\ StoreCopy(r) => [L!Next]_(L!vars)
<1> USE JobByPc DEF JobInv, CreationInv, RegisterPcs
<1>1. ASSUME StoreCluster(r) PROVE [L!Next]_(L!vars)
  <2>1. req[r] \in UpdateJob /\ ~Deleted(req[r].c)
    BY <1>1 DEF StoreCluster, At, TypeInv, TypeOK, SerialInv
  <2>2. /\ req[r].c \in Cluster /\ req[r].entry \in ClusterEntry
        /\ ~req[r].entry.disabled
    BY <2>1 DEF UpdateJob, Enabled
  <2>3. /\ L!SetCluster(req[r].c, "active")
        /\ DbStatus' = DbStatus
    BY <1>1, <2>2, StoredCluster, StatusCases DEF StoreCluster
  <2>4. ClusterStatus[req[r].c] \in {"absent", "active"}
    BY <2>1, <2>2 DEF Deleted, ClusterStatus, StatusOf
  <2>5. CASE ClusterStatus[req[r].c] = "absent"
    BY <2>2, <2>3, <2>5, LStep DEF L!RegisterCluster, ClusterStatus, DbStatus
  <2>6. CASE ClusterStatus[req[r].c] = "active"
    BY <2>2, <2>3, <2>6, LStutter DEF ClusterStatus, L!SetCluster
  <2> QED
    BY <2>4, <2>5, <2>6
<1>2. ASSUME StoreTarget(r) PROVE [L!Next]_(L!vars)
  <2>1. req[r] \in CloneJob /\ cfg[req[r].c] = Absent
    BY <1>2 DEF StoreTarget, At, TypeInv, TypeOK, SerialInv
  <2>2. /\ req[r].c \in Cluster /\ req[r].entry \in ClusterEntry
        /\ ~req[r].entry.disabled
    BY <2>1 DEF CloneJob, Enabled
  <2>3. /\ L!SetCluster(req[r].c, "active")
        /\ DbStatus' = DbStatus
    BY <1>2, <2>2, StoredCluster, StatusCases DEF StoreTarget
  <2>4. ClusterStatus[req[r].c] = "absent"
    BY <2>1, <2>2 DEF ClusterStatus, StatusOf
  <2> QED
    BY <2>2, <2>3, <2>4, LStep DEF L!RegisterCluster, ClusterStatus, DbStatus
<1>3. ASSUME NEW c \in Cluster, NEW d \in Database, NEW e \in DbEntry,
             Active(c), dbcfg[c][d] = Absent,
             dbcfg' = [dbcfg EXCEPT ![c][d] = e], UNCHANGED cfg
      PROVE  [L!Next]_(L!vars)
  <2>1. ClusterStatus[c] = "active" /\ DbStatus[c][d] = "absent"
    BY <1>3, StatusNow
  <2>2. StatusOf(e) \in {"active", "deleted"}
    BY StatusCases
  <2>3. L!SetDatabase(c, d, StatusOf(e)) /\ ClusterStatus' = ClusterStatus
    BY <1>3, StoredDatabase
  <2> HIDE DEF StatusOf
  <2> QED
    BY <2>1, <2>2, <2>3, LStep DEF L!AddDatabase, ClusterStatus, DbStatus
<1>4. ASSUME StoreDatabase(r) PROVE [L!Next]_(L!vars)
  <2>1. req[r] \in RegisterJob /\ Active(req[r].c) /\ dbcfg[req[r].c][req[r].d] = Absent
    BY <1>4 DEF StoreDatabase, At, TypeInv, TypeOK, SerialInv
  <2>2. /\ req[r].c \in Cluster /\ req[r].d \in Database
        /\ [cluster |-> req[r].c, owner |-> req[r].owner, disabled |-> FALSE] \in DbEntry
    BY <2>1 DEF RegisterJob, DbEntry
  <2> QED
    BY <1>3, <1>4, <2>1, <2>2 DEF StoreDatabase
<1>5. ASSUME StoreCopy(r) PROVE [L!Next]_(L!vars)
  <2>1. /\ req[r] \in CopyStoreJob /\ Active(req[r].c)
        /\ req[r].d \notin Listed(req[r].c)
    BY <1>5 DEF StoreCopy, At, TypeInv, TypeOK, SerialInv
  <2>2. /\ req[r].c \in Cluster /\ req[r].d \in Database /\ req[r].db \in DbEntry
        /\ dbcfg[req[r].c][req[r].d] = Absent
    BY <2>1 DEF CopyStoreJob, Listed
  <2> QED
    BY <1>3, <1>5, <2>1, <2>2, LStutter, Unchanged DEF StoreCopy
<1> QED
  BY <1>1, <1>2, <1>4, <1>5

\* What pathClusterDelete and pathDatabaseDelete store is a deletion.
LEMMA RefineDeletion ==
  ASSUME NoClash, TypeInv, SerialInv, NEW r \in Request
  PROVE  /\ StoreDisabled(r) => [L!Next]_(L!vars)
         /\ StoreDropped(r) => [L!Next]_(L!vars)
         /\ StoreClusterDisabled(r) => [L!Next]_(L!vars)
<1> USE JobByPc DEF JobInv, DeletionInv
<1>1. ASSUME NEW c \in Cluster, NEW d \in Database, NEW e \in Disabled(DbEntry),
             Active(c), ActiveDb(c, d),
             dbcfg' = [dbcfg EXCEPT ![c][d] = e], UNCHANGED cfg
      PROVE  [L!Next]_(L!vars)
  <2>1. ClusterStatus[c] = "active" /\ DbStatus[c][d] = "active"
    BY <1>1, StatusNow
  <2>2. StatusOf(e) = "deleted"
    BY StatusCases DEF Disabled
  <2>3. L!SetDatabase(c, d, "deleted") /\ ClusterStatus' = ClusterStatus
    BY <1>1, <2>2, StoredDatabase
  <2> QED
    BY <2>1, <2>3, LStep DEF L!DeleteDatabase, ClusterStatus, DbStatus
<1>2. ASSUME StoreDisabled(r) PROVE [L!Next]_(L!vars)
  <2>1. /\ req[r] \in DisableJob /\ ActiveDb(req[r].c, req[r].d)
        /\ cfg[req[r].c] = req[r].entry
    BY <1>2 DEF StoreDisabled, At, TypeInv, TypeOK, SerialInv
  <2>2. /\ req[r].c \in Cluster /\ req[r].d \in Database
        /\ req[r].db \in Disabled(DbEntry) /\ Active(req[r].c)
    BY <2>1 DEF DisableJob, Enabled, Active, NoClash
  <2> QED
    BY <1>1, <1>2, <2>1, <2>2 DEF StoreDisabled
<1>3. ASSUME StoreDropped(r) PROVE [L!Next]_(L!vars)
  <2>1. /\ req[r] \in DropStoreJob /\ ActiveDb(req[r].c, req[r].d)
        /\ Active(req[r].c)
    BY <1>3 DEF StoreDropped, At, TypeInv, TypeOK, SerialInv
  <2>2. /\ req[r].c \in Cluster /\ req[r].d \in Database
        /\ req[r].db \in Disabled(DbEntry)
    BY <2>1 DEF DropStoreJob
  <2> QED
    BY <1>1, <1>3, <2>1, <2>2 DEF StoreDropped
<1>4. ASSUME StoreClusterDisabled(r) PROVE [L!Next]_(L!vars)
  <2>1. /\ req[r] \in DeleteJob /\ cfg[req[r].c] = req[r].entry
        /\ PathDatabasesList(req[r].c) = {}
    BY <1>4 DEF StoreClusterDisabled, At, TypeInv, TypeOK, SerialInv
  <2>2. /\ req[r].c \in Cluster /\ Active(req[r].c)
        /\ Disable(req[r].entry) \in ClusterEntry /\ Disable(req[r].entry).disabled
    BY <2>1 DEF DeleteJob, Enabled, Active, NoClash, Disable, ClusterEntry
  <2>3. /\ L!SetCluster(req[r].c, "deleted")
        /\ DbStatus' = DbStatus
    BY <1>4, <2>2, StoredCluster, StatusCases DEF StoreClusterDisabled
  <2>4. ClusterStatus[req[r].c] = "active"
    BY <2>2 DEF ClusterStatus, StatusOf, Active
  <2>5. \A d \in Database : DbStatus[req[r].c][d] # "active"
    BY <2>1, <2>2, StatusNow DEF PathDatabasesList
  <2> QED
    BY <2>2, <2>3, <2>4, <2>5, LStep DEF L!DeleteCluster, ClusterStatus, DbStatus
<1> QED
  BY <1>2, <1>3, <1>4

\* What gcPurgeCluster and gcPurgeDatabase remove was deleted, databases first.
LEMMA RefinePurge ==
  ASSUME NoClash, TypeInv, SerialInv, NEW r \in Request
  PROVE  /\ DeletePurged(r) => [L!Next]_(L!vars)
         /\ DeleteDatabaseEntry(r) => [L!Next]_(L!vars)
         /\ DeleteClusterEntry(r) => [L!Next]_(L!vars)
<1> USE JobByPc DEF JobInv, PurgeInv
<1>1. ASSUME NEW c \in Cluster, NEW d \in Database, DeletedDb(c, d),
             dbcfg' = [dbcfg EXCEPT ![c][d] = Absent], UNCHANGED cfg
      PROVE  [L!Next]_(L!vars)
  <2>1. DbStatus[c][d] = "deleted"
    BY <1>1, StatusNow
  <2>2. L!SetDatabase(c, d, "absent") /\ ClusterStatus' = ClusterStatus
    BY <1>1, StoredDatabase, StatusCases
  <2> QED
    BY <2>1, <2>2, LStep DEF L!PurgeDatabase, ClusterStatus, DbStatus
<1>2. ASSUME DeletePurged(r) PROVE [L!Next]_(L!vars)
  <2>1. req[r] \in PurgeNextJob /\ DeletedDb(req[r].c, req[r].d)
    BY <1>2 DEF DeletePurged, At, TypeInv, TypeOK, SerialInv
  <2> QED
    BY <1>1, <1>2, <2>1 DEF DeletePurged, PurgeNextJob
<1>3. ASSUME DeleteDatabaseEntry(r) PROVE [L!Next]_(L!vars)
  <2>1. req[r] \in PurgeDbJob /\ DeletedDb(req[r].c, req[r].d)
    BY <1>3 DEF DeleteDatabaseEntry, At, TypeInv, TypeOK, SerialInv
  <2> QED
    BY <1>1, <1>3, <2>1 DEF DeleteDatabaseEntry, PurgeDbJob
<1>4. ASSUME DeleteClusterEntry(r) PROVE [L!Next]_(L!vars)
  <2>1. /\ req[r] \in PurgeJob /\ Deleted(req[r].c) /\ Listed(req[r].c) = {}
    BY <1>4 DEF DeleteClusterEntry, At, TypeInv, TypeOK, SerialInv
  <2>2. req[r].c \in Cluster
    BY <2>1 DEF PurgeJob
  <2>3. /\ L!SetCluster(req[r].c, "absent")
        /\ DbStatus' = DbStatus
    BY <1>4, <2>2, StoredCluster, StatusCases DEF DeleteClusterEntry
  <2>4. ClusterStatus[req[r].c] = "deleted"
    BY <2>1, <2>2 DEF ClusterStatus, StatusOf, Deleted
  <2>5. \A d \in Database : DbStatus[req[r].c][d] = "absent"
    BY <2>1, <2>2, StatusNow DEF Listed
  <2> QED
    BY <2>2, <2>3, <2>4, <2>5, LStep DEF L!PurgeCluster, ClusterStatus, DbStatus
<1> QED
  BY <1>2, <1>3, <1>4

\* Every other step leaves the storage alone.
LEMMA RefineRest ==
  ASSUME NEW r \in Request, Start(r) \/ Step(r) \/ Fail(r)
  PROVE  \/ UNCHANGED <<cfg, dbcfg>>
         \/ StoreCluster(r) \/ StoreTarget(r) \/ StoreDatabase(r) \/ StoreCopy(r)
         \/ StoreDisabled(r) \/ StoreDropped(r) \/ StoreClusterDisabled(r)
         \/ DeletePurged(r) \/ DeleteDatabaseEntry(r) \/ DeleteClusterEntry(r)
<1>1. CASE Start(r)
  BY <1>1 DEF Start, PathClusterUpdate, PathClusterDelete, GcPurgeCluster,
     PathDatabaseUpdate, PathDatabaseDelete, GcPurgeDatabase, PathCloneUpdate
<1>2. CASE Fail(r)
  BY <1>2 DEF Fail
<1>3. CASE Step(r)
  BY <1>3 DEF Step, CreateManagementRole, UpdatePassword, ListToDelete,
     LoadToDelete, ListToPurge, LoadToPurge, CheckDatabase, LoadForRoot,
     LoadForManagement, LoadForConn, ConnectRoot, CreateDatabase,
     ConnectManagement, CreateOwner, LoadToDrop, CheckTarget, ConnectClone,
     RotateManagement, RotateRoot, ListSource, LoadSource, CloneReturns
<1> QED
  BY <1>1, <1>2, <1>3

\* An empty storage is Lifecycle's initial state.
LEMMA RefineInit == ASSUME NoClash, Init PROVE L!Init
  BY StatusCases DEF Init, L!Init

\* Requests made one at a time implement the lifecycle of Lifecycle.tla, with
\* a crash possible between any two calls of any handler.
THEOREM SerialRefinement ==
  ASSUME OneAtATime
  PROVE  Spec => ImplementsLifecycle
<1>1. ASSUME TypeInv, SerialInv, [Next]_vars PROVE [L!Next]_(L!vars)
  <2>1. CASE UNCHANGED <<cfg, dbcfg>>
    BY <2>1, LStutter, Unchanged
  <2>2. ASSUME NEW r \in Request, Start(r) \/ Step(r) \/ Fail(r)
        PROVE  [L!Next]_(L!vars)
    BY <1>1, <2>1, <2>2, NoClash, RefineRest, RefineCreation, RefineDeletion, RefinePurge
  <2> QED
    BY <1>1, <2>1, <2>2 DEF Next, RestoreSnapshot, vars
<1>2. TypeInv <=> TypeOK /\ ServersExist
  BY DEF TypeInv
<1>3. Init => L!Init
  BY RefineInit, NoClash
<1>4. Spec => []SerialInv
  BY OneAtATime, SerialSafety
<1> QED
  BY <1>1, <1>2, <1>3, <1>4, Typing, PTL DEF Spec, ImplementsLifecycle, L!Spec
=============================================================================
