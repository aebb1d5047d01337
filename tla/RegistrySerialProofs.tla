------------------------ MODULE RegistrySerialProofs ------------------------
(***************************************************************************)
(* Theorems about requests made one at a time (one slot), any of which may *)
(* be cut short between two calls, for every number of clusters, databases *)
(* and servers: what a crash in the middle of a handler can leave behind.  *)
(***************************************************************************)
EXTENDS RegistryProofs

OneAtATime == \A q, r \in Request : q = r

Consistent == NoActiveDatabaseInDeletedCluster /\ NoOrphanDatabase

(***************************************************************************)
(* With one slot, the job of the slot that moved is the only one there is. *)
(***************************************************************************)
LEMMA NewJob ==
  ASSUME TypeInv, NEW r \in Request, NEW job, Continue(r, job)
  PROVE  req'[r] = job
  BY DEF TypeInv, TypeOK, Continue

\* The invariant, from what storage holds and what the slot's job relies on.
LEMMA SerialStep ==
  ASSUME OneAtATime, NEW r \in Request, Consistent', JobInv(req[r])'
  PROVE  SerialInv'
  BY DEF OneAtATime, Consistent, SerialInv

\* A step that leaves storage alone owes only what its next job relies on.
LEMMA SerialRead ==
  ASSUME OneAtATime, SerialInv, UNCHANGED <<cfg, dbcfg>>,
         NEW r \in Request, JobInv(req'[r])
  PROVE  SerialInv'
<1>1. Consistent'
  BY DEF SerialInv, Consistent, NoActiveDatabaseInDeletedCluster,
     NoOrphanDatabase, ActiveDb, Active
<1>2. JobInv(req[r])'
  BY DEF JobInv, DeletionInv, PurgeInv, CreationInv, Active, ActiveDb, Deleted,
     DeletedDb, Listed, PathDatabasesList
<1> QED
  BY <1>1, <1>2, SerialStep

\* A database that is stored under a registered cluster, and is disabled if the
\* cluster is, keeps storage consistent; so does one that is removed.
LEMMA StoreKeeps ==
  ASSUME TypeInv, Consistent, NEW c \in Cluster, NEW d \in Database, NEW e,
         dbcfg' = [dbcfg EXCEPT ![c][d] = e], cfg' = cfg,
         e # Absent => cfg[c] # Absent /\ (e.disabled \/ Active(c))
  PROVE  Consistent'
<1>1. \A k \in Cluster, x \in Database :
        dbcfg'[k][x] = IF k = c /\ x = d THEN e ELSE dbcfg[k][x]
  BY DEF TypeInv, TypeOK
<1>2. NoOrphanDatabase'
  BY <1>1 DEF Consistent, NoOrphanDatabase
<1>3. NoActiveDatabaseInDeletedCluster'
  BY <1>1 DEF Consistent, NoActiveDatabaseInDeletedCluster, ActiveDb, Active
<1> QED
  BY <1>2, <1>3 DEF Consistent

\* pathClusterUpdate: only an absent or active cluster is stored as active.
LEMMA UpdateSerial ==
  ASSUME OneAtATime, NoClash, TypeInv, SerialInv, NEW r \in Request
  PROVE  /\ \A c \in Cluster, h \in Host : PathClusterUpdate(r, c, h) => SerialInv'
         /\ CreateManagementRole(r) => SerialInv'
         /\ UpdatePassword(r) => SerialInv'
         /\ StoreCluster(r) => SerialInv'
<1> USE NewJob, JobByPc DEF JobInv, DeletionInv, PurgeInv, CreationInv, RegisterPcs
<1>1. ASSUME NEW c \in Cluster, NEW h \in Host, PathClusterUpdate(r, c, h)
      PROVE  SerialInv'
  <2>1. JobInv(req'[r])
    BY <1>1 DEF PathClusterUpdate, Begin
  <2> QED
    BY <1>1, <2>1, SerialRead DEF PathClusterUpdate
<1>2. ASSUME At(r, "createManagementRole") \/ At(r, "updatePassword")
                                           \/ At(r, "storeCluster")
      PROVE  req[r] \in UpdateJob /\ ~Deleted(req[r].c)
  BY <1>2 DEF At, TypeInv, TypeOK, SerialInv
<1>3. ASSUME CreateManagementRole(r) PROVE SerialInv'
  <2>1. JobInv(req'[r])
    BY <1>2, <1>3 DEF CreateManagementRole, Goto, UpdateJob
  <2> QED
    BY <1>3, <2>1, SerialRead DEF CreateManagementRole
<1>4. ASSUME UpdatePassword(r) PROVE SerialInv'
  <2>1. JobInv(req'[r])
    BY <1>2, <1>4 DEF UpdatePassword, Goto, UpdateJob
  <2> QED
    BY <1>4, <2>1, SerialRead DEF UpdatePassword
<1>5. ASSUME StoreCluster(r) PROVE SerialInv'
  <2>1. Consistent'
    BY <1>2, <1>5 DEF StoreCluster, UpdateJob, Enabled, SerialInv, Consistent,
       TypeInv, TypeOK, NoActiveDatabaseInDeletedCluster, NoOrphanDatabase,
       ActiveDb, Active, NoClash
  <2>2. JobInv(req[r])'
    BY <1>5 DEF StoreCluster, Return
  <2> QED
    BY <2>1, <2>2, SerialStep
<1> QED
  BY <1>1, <1>3, <1>4, <1>5

\* pathClusterDelete: the cluster is disabled when no database is active.
LEMMA DeleteSerial ==
  ASSUME OneAtATime, NoClash, TypeInv, SerialInv, NEW r \in Request
  PROVE  /\ \A c \in Cluster : PathClusterDelete(r, c) => SerialInv'
         /\ ListToDelete(r) => SerialInv'
         /\ \A d \in Database : LoadToDelete(r, d) => SerialInv'
         /\ StoreDisabled(r) => SerialInv'
         /\ StoreClusterDisabled(r) => SerialInv'
<1> USE NewJob, JobByPc DEF JobInv, DeletionInv, PurgeInv, CreationInv, RegisterPcs
<1>1. ASSUME NEW c \in Cluster, PathClusterDelete(r, c) PROVE SerialInv'
  <2>1. JobInv(req'[r])
    BY <1>1 DEF PathClusterDelete, Begin
  <2> QED
    BY <1>1, <2>1, SerialRead DEF PathClusterDelete
<1>2. ASSUME At(r, "listToDelete") \/ At(r, "loadToDelete")
      PROVE  /\ req[r] \in DeleteJob /\ cfg[req[r].c] = req[r].entry
             /\ At(r, "loadToDelete") =>
                  PathDatabasesList(req[r].c) \subseteq req[r].todo
  BY <1>2 DEF At, TypeInv, TypeOK, SerialInv
<1>3. ASSUME ListToDelete(r) PROVE SerialInv'
  <2> DEFINE job == [req[r] EXCEPT !.pc = "loadToDelete", !.todo = Listed(req[r].c)]
  <2>1. /\ job.pc = "loadToDelete" /\ job.c = req[r].c
        /\ job.entry = req[r].entry /\ job.todo = Listed(req[r].c)
    BY <1>2, <1>3 DEF ListToDelete, DeleteJob
  <2>2. PathDatabasesList(req[r].c) \subseteq Listed(req[r].c)
    BY DEF PathDatabasesList, ActiveDb, Listed
  <2>3. Continue(r, job)
    BY <1>3 DEF ListToDelete
  <2> HIDE DEF job
  <2>4. JobInv(req'[r])
    BY <1>2, <1>3, <2>1, <2>2, <2>3 DEF ListToDelete
  <2> QED
    BY <1>3, <2>4, SerialRead DEF ListToDelete
<1>4. ASSUME NEW d \in Database, LoadToDelete(r, d) PROVE SerialInv'
  <2> DEFINE c == req[r].c
             rest == req[r].todo \ {d}
             job1 == [req[r] EXCEPT !.todo = rest]
             job2 == [pc |-> "storeDisabled", c |-> c, entry |-> req[r].entry,
                      todo |-> rest, d |-> d, db |-> Disable(dbcfg[c][d])]
  <2>1. /\ req[r] \in DeleteJob /\ cfg[c] = req[r].entry
        /\ PathDatabasesList(c) \subseteq req[r].todo
    BY <1>2, <1>4 DEF LoadToDelete
  <2>2. Return(r) => JobInv(req'[r])
    BY DEF Return
  <2>3. ASSUME Continue(r, job1), DeletedDb(c, d) PROVE JobInv(req'[r])
    <3>1. job1.pc = req[r].pc /\ job1.c = c /\ job1.entry = req[r].entry /\ job1.todo = rest
      BY <2>1 DEF DeleteJob
    <3>2. req[r].pc = "loadToDelete" /\ PathDatabasesList(c) \subseteq rest
      BY <1>4, <2>1, <2>3 DEF LoadToDelete, At, PathDatabasesList, ActiveDb, DeletedDb
    <3> HIDE DEF job1
    <3> QED
      BY <2>1, <2>3, <3>1, <3>2
  <2>4. ASSUME Continue(r, job2), ActiveDb(c, d) PROVE JobInv(req'[r])
    <3>1. PathDatabasesList(c) \subseteq rest \cup {d}
      BY <2>1
    <3> QED
      BY <2>1, <2>4, <3>1
  <2>5. JobInv(req'[r])
    BY <1>4, <2>2, <2>3, <2>4 DEF LoadToDelete
  <2> QED
    BY <1>4, <2>5, SerialRead DEF LoadToDelete
<1>5. ASSUME StoreDisabled(r) PROVE SerialInv'
  <2>1. /\ req[r] \in DisableJob /\ cfg[req[r].c] = req[r].entry
        /\ PathDatabasesList(req[r].c) \subseteq req[r].todo \cup {req[r].d}
    BY <1>5 DEF StoreDisabled, At, TypeInv, TypeOK, SerialInv
  <2>2. /\ req[r].c \in Cluster /\ req[r].d \in Database
        /\ req[r].db \in DbEntry /\ req[r].db.disabled
    BY <2>1 DEF DisableJob, Disabled
  <2>3. Consistent'
    <3>1. cfg[req[r].c] # Absent
      BY <2>1 DEF DisableJob, Enabled, NoClash
    <3> QED
      BY <1>5, <2>2, <3>1, StoreKeeps DEF StoreDisabled, SerialInv, Consistent
  <2>4. JobInv(req[r])'
    <3>1. /\ req'[r].pc = "loadToDelete" /\ req'[r].c = req[r].c
          /\ req'[r].entry = req[r].entry /\ req'[r].todo = req[r].todo
      BY <1>5 DEF StoreDisabled
    <3>2. PathDatabasesList(req[r].c)' \subseteq req[r].todo
      BY <1>5, <2>1, <2>2 DEF StoreDisabled, PathDatabasesList, ActiveDb, TypeInv, TypeOK
    <3> QED
      BY <1>5, <2>1, <3>1, <3>2 DEF StoreDisabled, PathDatabasesList, ActiveDb
  <2> QED
    BY <2>3, <2>4, SerialStep
<1>6. ASSUME StoreClusterDisabled(r) PROVE SerialInv'
  <2>1. req[r].c \in Cluster /\ PathDatabasesList(req[r].c) = {}
    BY <1>2, <1>6 DEF StoreClusterDisabled, At, DeleteJob
  <2>2. Disable(req[r].entry) # Absent
    BY <1>2, <1>6 DEF StoreClusterDisabled, Disable, DeleteJob, Enabled, ClusterEntry, NoClash
  <2>3. Consistent'
    BY <1>6, <2>1, <2>2 DEF StoreClusterDisabled, SerialInv, Consistent, TypeInv,
       TypeOK, NoActiveDatabaseInDeletedCluster, NoOrphanDatabase, ActiveDb,
       Active, PathDatabasesList
  <2>4. JobInv(req[r])'
    BY <1>6 DEF StoreClusterDisabled, Return
  <2> QED
    BY <2>3, <2>4, SerialStep
<1> QED
  BY <1>1, <1>3, <1>4, <1>5, <1>6

\* gcPurgeCluster: the cluster goes when no database is left; gcPurgeDatabase.
LEMMA PurgeSerial ==
  ASSUME OneAtATime, NoClash, TypeInv, SerialInv, NEW r \in Request
  PROVE  /\ \A c \in Cluster : GcPurgeCluster(r, c) => SerialInv'
         /\ ListToPurge(r) => SerialInv'
         /\ \A d \in Database : LoadToPurge(r, d) => SerialInv'
         /\ DeletePurged(r) => SerialInv'
         /\ DeleteClusterEntry(r) => SerialInv'
         /\ \A c \in Cluster, d \in Database : GcPurgeDatabase(r, c, d) => SerialInv'
         /\ DeleteDatabaseEntry(r) => SerialInv'
<1> USE NewJob, JobByPc DEF JobInv, DeletionInv, PurgeInv, CreationInv, RegisterPcs
<1>1. ASSUME NEW c \in Cluster, GcPurgeCluster(r, c) PROVE SerialInv'
  <2>1. JobInv(req'[r])
    BY <1>1 DEF GcPurgeCluster, Begin
  <2> QED
    BY <1>1, <2>1, SerialRead DEF GcPurgeCluster
<1>2. ASSUME At(r, "listToPurge") \/ At(r, "loadToPurge")
      PROVE  /\ req[r] \in PurgeJob /\ Deleted(req[r].c)
             /\ At(r, "loadToPurge") => Listed(req[r].c) \subseteq req[r].todo
  BY <1>2 DEF At, TypeInv, TypeOK, SerialInv
<1>3. ASSUME ListToPurge(r) PROVE SerialInv'
  <2> DEFINE job == [req[r] EXCEPT !.pc = "loadToPurge", !.todo = Listed(req[r].c)]
  <2>1. job.pc = "loadToPurge" /\ job.c = req[r].c /\ job.todo = Listed(req[r].c)
    BY <1>2, <1>3 DEF ListToPurge, PurgeJob
  <2>2. Continue(r, job)
    BY <1>3 DEF ListToPurge
  <2> HIDE DEF job
  <2>3. JobInv(req'[r])
    BY <1>2, <1>3, <2>1, <2>2 DEF ListToPurge
  <2> QED
    BY <1>3, <2>3, SerialRead DEF ListToPurge
<1>4. ASSUME NEW d \in Database, LoadToPurge(r, d) PROVE SerialInv'
  <2> DEFINE c == req[r].c
  <2>1. Deleted(c) /\ Listed(c) \subseteq (req[r].todo \ {d}) \cup {d}
    BY <1>2, <1>4 DEF LoadToPurge
  <2>2. JobInv(req'[r])
    BY <1>4, <2>1 DEF LoadToPurge, Return
  <2> QED
    BY <1>4, <2>2, SerialRead DEF LoadToPurge
<1>5. ASSUME DeletePurged(r) PROVE SerialInv'
  <2>1. /\ req[r] \in PurgeNextJob /\ Deleted(req[r].c)
        /\ Listed(req[r].c) \subseteq req[r].todo \cup {req[r].d}
    BY <1>5 DEF DeletePurged, At, TypeInv, TypeOK, SerialInv
  <2>2. req[r].c \in Cluster /\ req[r].d \in Database
    BY <2>1 DEF PurgeNextJob
  <2>3. Consistent'
    BY <1>5, <2>2, StoreKeeps DEF DeletePurged, SerialInv, Consistent
  <2>4. JobInv(req[r])'
    <3>1. /\ req'[r].pc = "loadToPurge" /\ req'[r].c = req[r].c
          /\ req'[r].todo = req[r].todo
      BY <1>5 DEF DeletePurged
    <3>2. Listed(req[r].c)' \subseteq req[r].todo
      BY <1>5, <2>1, <2>2 DEF DeletePurged, Listed, TypeInv, TypeOK
    <3> QED
      BY <1>5, <2>1, <3>1, <3>2 DEF DeletePurged, Deleted, Listed
  <2> QED
    BY <2>3, <2>4, SerialStep
<1>6. ASSUME DeleteClusterEntry(r) PROVE SerialInv'
  <2>1. req[r].c \in Cluster /\ Listed(req[r].c) = {}
    BY <1>2, <1>6 DEF DeleteClusterEntry, At, PurgeJob
  <2>2. Consistent'
    BY <1>6, <2>1 DEF DeleteClusterEntry, SerialInv, Consistent, TypeInv, TypeOK,
       NoActiveDatabaseInDeletedCluster, NoOrphanDatabase, ActiveDb, Active, Listed
  <2>3. JobInv(req[r])'
    BY <1>6 DEF DeleteClusterEntry, Return
  <2> QED
    BY <2>2, <2>3, SerialStep
<1>7. ASSUME NEW c \in Cluster, NEW d \in Database, GcPurgeDatabase(r, c, d)
      PROVE  SerialInv'
  <2>1. JobInv(req'[r])
    BY <1>7 DEF GcPurgeDatabase, Begin
  <2> QED
    BY <1>7, <2>1, SerialRead DEF GcPurgeDatabase
<1>8. ASSUME DeleteDatabaseEntry(r) PROVE SerialInv'
  <2>1. req[r].c \in Cluster /\ req[r].d \in Database
    BY <1>8 DEF DeleteDatabaseEntry, At, TypeInv, TypeOK, PurgeDbJob
  <2>2. Consistent'
    BY <1>8, <2>1 DEF DeleteDatabaseEntry, SerialInv, Consistent, TypeInv, TypeOK,
       NoActiveDatabaseInDeletedCluster, NoOrphanDatabase, ActiveDb, Active
  <2>3. JobInv(req[r])'
    BY <1>8 DEF DeleteDatabaseEntry, Return
  <2> QED
    BY <2>2, <2>3, SerialStep
<1> QED
  BY <1>1, <1>3, <1>4, <1>5, <1>6, <1>7, <1>8

\* pathDatabaseUpdate: a database is stored in a cluster that is active.
LEMMA RegisterSerial ==
  ASSUME OneAtATime, NoClash, TypeInv, SerialInv, NEW r \in Request
  PROVE  /\ \A c \in Cluster, d \in Database : PathDatabaseUpdate(r, c, d) => SerialInv'
         /\ CheckDatabase(r) => SerialInv'
         /\ LoadForRoot(r) => SerialInv'
         /\ ConnectRoot(r) => SerialInv'
         /\ CreateDatabase(r) => SerialInv'
         /\ LoadForManagement(r) => SerialInv'
         /\ ConnectManagement(r) => SerialInv'
         /\ CreateOwner(r) => SerialInv'
         /\ StoreDatabase(r) => SerialInv'
<1> USE NewJob, JobByPc DEF JobInv, DeletionInv, PurgeInv, CreationInv
<1>1. ASSUME NEW c \in Cluster, NEW d \in Database, PathDatabaseUpdate(r, c, d)
      PROVE  SerialInv'
  <2>1. JobInv(req'[r])
    BY <1>1 DEF PathDatabaseUpdate, Begin, RegisterPcs
  <2> QED
    BY <1>1, <2>1, SerialRead DEF PathDatabaseUpdate
<1>2. ASSUME In(r, RegisterPcs)
      PROVE  /\ req[r] \in RegisterJob /\ Active(req[r].c)
             /\ req[r].pc # "checkDatabase" => dbcfg[req[r].c][req[r].d] = Absent
  BY <1>2 DEF In, TypeInv, TypeOK, SerialInv
<1>3. ASSUME In(r, RegisterPcs), NEW job, Continue(r, job), UNCHANGED <<cfg, dbcfg>>,
             job = Idle \/ (/\ job.pc \in RegisterPcs
                            /\ job.c = req[r].c /\ job.d = req[r].d),
             job # Idle => dbcfg[req[r].c][req[r].d] = Absent
      PROVE  SerialInv'
  <2>1. JobInv(req'[r])
    BY <1>2, <1>3 DEF RegisterPcs
  <2> QED
    BY <1>3, <2>1, SerialRead
<1>4. ASSUME In(r, RegisterPcs), NEW pc \in RegisterPcs, Goto(r, pc) \/ Return(r),
             UNCHANGED <<cfg, dbcfg>>,
             Return(r) \/ dbcfg[req[r].c][req[r].d] = Absent
      PROVE  SerialInv'
  <2> DEFINE job == [req[r] EXCEPT !.pc = pc]
  <2>1. job.pc = pc /\ job.c = req[r].c /\ job.d = req[r].d
    BY <1>2, <1>4 DEF RegisterJob
  <2>2. Continue(r, job) \/ Continue(r, Idle)
    BY <1>4 DEF Goto, Return
  <2> HIDE DEF job
  <2> QED
    BY <1>3, <1>4, <2>1, <2>2 DEF Return
<1>5. ASSUME CheckDatabase(r) PROVE SerialInv'
  <2>1. In(r, RegisterPcs)
    BY <1>5 DEF CheckDatabase, At, In, RegisterPcs
  <2>2. Return(r) \/ /\ dbcfg[req[r].c][req[r].d] = Absent
                     /\ Goto(r, "loadForRoot") \/ Goto(r, "storeDatabase")
    BY <1>5 DEF CheckDatabase
  <2> QED
    BY <1>4, <1>5, <2>1, <2>2 DEF CheckDatabase, RegisterPcs
<1>6. ASSUME NEW from \in RegisterPcs \ {"checkDatabase"}, NEW to \in RegisterPcs,
             LoadForConn(r, from, to)
      PROVE  SerialInv'
  <2> DEFINE job == [req[r] EXCEPT !.pc = to, !.entry = cfg[req[r].c]]
  <2>1. In(r, RegisterPcs) /\ req[r].pc # "checkDatabase"
    BY <1>6 DEF LoadForConn, At, In
  <2>2. job.pc = to /\ job.c = req[r].c /\ job.d = req[r].d
    BY <1>2, <2>1 DEF RegisterJob
  <2>3. Continue(r, job) \/ Continue(r, Idle)
    BY <1>6 DEF LoadForConn, Return
  <2> HIDE DEF job
  <2> QED
    BY <1>2, <1>3, <1>6, <2>1, <2>2, <2>3 DEF LoadForConn
<1>7. LoadForRoot(r) \/ LoadForManagement(r) => SerialInv'
  BY <1>6 DEF LoadForRoot, LoadForManagement, RegisterPcs
<1>8. ASSUME ConnectRoot(r) \/ CreateDatabase(r) \/ ConnectManagement(r) \/ CreateOwner(r)
      PROVE  SerialInv'
  <2>1. In(r, RegisterPcs) /\ req[r].pc # "checkDatabase" /\ UNCHANGED <<cfg, dbcfg>>
    BY <1>8 DEF ConnectRoot, CreateDatabase, ConnectManagement, CreateOwner, At, In, RegisterPcs
  <2>2. \/ Return(r) \/ Goto(r, "createDb") \/ Goto(r, "loadForManagement")
        \/ Goto(r, "createOwner") \/ Goto(r, "storeDatabase")
    BY <1>8 DEF ConnectRoot, CreateDatabase, ConnectManagement, CreateOwner
  <2> QED
    BY <1>2, <1>4, <2>1, <2>2 DEF RegisterPcs
<1>9. ASSUME StoreDatabase(r) PROVE SerialInv'
  <2>1. req[r] \in RegisterJob /\ Active(req[r].c)
    BY <1>2, <1>9 DEF StoreDatabase, At, In, RegisterPcs
  <2>2. req[r].c \in Cluster /\ req[r].d \in Database
    BY <2>1 DEF RegisterJob
  <2>3. Consistent'
    BY <1>9, <2>1, <2>2 DEF StoreDatabase, SerialInv, Consistent, TypeInv, TypeOK,
       NoActiveDatabaseInDeletedCluster, NoOrphanDatabase, ActiveDb, Active
  <2>4. JobInv(req[r])'
    BY <1>9 DEF StoreDatabase, Return
  <2> QED
    BY <2>3, <2>4, SerialStep
<1> QED
  BY <1>1, <1>5, <1>7, <1>8, <1>9

\* pathDatabaseDelete: one entry, in a cluster that is active when it is read.
LEMMA DropSerial ==
  ASSUME OneAtATime, NoClash, TypeInv, SerialInv, NEW r \in Request
  PROVE  /\ \A c \in Cluster, d \in Database : PathDatabaseDelete(r, c, d) => SerialInv'
         /\ LoadToDrop(r) => SerialInv'
         /\ StoreDropped(r) => SerialInv'
<1> USE NewJob, JobByPc DEF JobInv, DeletionInv, PurgeInv, CreationInv, RegisterPcs
<1>1. ASSUME NEW c \in Cluster, NEW d \in Database, PathDatabaseDelete(r, c, d)
      PROVE  SerialInv'
  <2>1. JobInv(req'[r])
    BY <1>1 DEF PathDatabaseDelete, Begin
  <2> QED
    BY <1>1, <2>1, SerialRead DEF PathDatabaseDelete
<1>2. ASSUME LoadToDrop(r) PROVE SerialInv'
  <2>1. Active(req[r].c)
    BY <1>2 DEF LoadToDrop, At, SerialInv
  <2>2. JobInv(req'[r])
    BY <1>2, <2>1 DEF LoadToDrop, Return
  <2> QED
    BY <1>2, <2>2, SerialRead DEF LoadToDrop
<1>3. ASSUME StoreDropped(r) PROVE SerialInv'
  <2>1. req[r] \in DropStoreJob /\ Active(req[r].c)
    BY <1>3 DEF StoreDropped, At, TypeInv, TypeOK, SerialInv
  <2>2. /\ req[r].c \in Cluster /\ req[r].d \in Database
        /\ req[r].db \in DbEntry /\ req[r].db.disabled
    BY <2>1 DEF DropStoreJob, Disabled
  <2>3. Consistent'
    BY <1>3, <2>1, <2>2 DEF StoreDropped, SerialInv, Consistent, TypeInv, TypeOK,
       NoActiveDatabaseInDeletedCluster, NoOrphanDatabase, ActiveDb, Active, NoClash
  <2>4. JobInv(req[r])'
    BY <1>3 DEF StoreDropped, Return
  <2> QED
    BY <2>3, <2>4, SerialStep
<1> QED
  BY <1>1, <1>2, <1>3

\* pathCloneUpdate: the clone is stored under a name that was free.
LEMMA CloneSerial ==
  ASSUME OneAtATime, NoClash, TypeInv, SerialInv, NEW r \in Request
  PROVE  /\ \A s, c \in Cluster, h \in Host : PathCloneUpdate(r, s, c, h) => SerialInv'
         /\ CheckTarget(r) => SerialInv'
         /\ ConnectClone(r) => SerialInv'
         /\ RotateManagement(r) => SerialInv'
         /\ RotateRoot(r) => SerialInv'
         /\ StoreTarget(r) => SerialInv'
<1> DEFINE Late == {"connectClone", "rotateManagement", "rotateRoot", "storeTarget"}
<1> USE NewJob, JobByPc DEF JobInv, DeletionInv, PurgeInv, CreationInv, RegisterPcs
<1>1. ASSUME NEW s \in Cluster, NEW c \in Cluster, NEW h \in Host, PathCloneUpdate(r, s, c, h)
      PROVE  SerialInv'
  <2>1. JobInv(req'[r])
    BY <1>1 DEF PathCloneUpdate, Begin
  <2> QED
    BY <1>1, <2>1, SerialRead DEF PathCloneUpdate
<1>2. ASSUME In(r, Late \cup {"checkTarget"})
      PROVE  req[r] \in CloneJob /\ (req[r].pc # "checkTarget" => cfg[req[r].c] = Absent)
  BY <1>2 DEF In, TypeInv, TypeOK, SerialInv
<1>3. ASSUME NEW job, Continue(r, job), UNCHANGED <<cfg, dbcfg>>,
             job = Idle \/ (job.pc \in Late /\ cfg[job.c] = Absent)
      PROVE  SerialInv'
  <2>1. JobInv(req'[r])
    BY <1>3
  <2> QED
    BY <1>3, <2>1, SerialRead
<1>4. ASSUME In(r, Late \cup {"checkTarget"}), cfg[req[r].c] = Absent,
             NEW pc \in Late, Goto(r, pc), UNCHANGED <<cfg, dbcfg>>
      PROVE  SerialInv'
  <2> DEFINE job == [req[r] EXCEPT !.pc = pc]
  <2>1. job.pc = pc /\ job.c = req[r].c
    BY <1>2, <1>4 DEF CloneJob
  <2>2. Continue(r, job)
    BY <1>4 DEF Goto
  <2> HIDE DEF job
  <2> QED
    BY <1>3, <1>4, <2>1, <2>2
<1>5. ASSUME CheckTarget(r) PROVE SerialInv'
  BY <1>3, <1>4, <1>5 DEF CheckTarget, At, In, Return
<1>6. ASSUME ConnectClone(r) PROVE SerialInv'
  BY <1>2, <1>3, <1>4, <1>6 DEF ConnectClone, At, In, Return
<1>7. ASSUME RotateManagement(r) PROVE SerialInv'
  <2> DEFINE job == [req[r] EXCEPT !.pc = "rotateRoot", !.entry.mgmtPass = req[r].id]
  <2>1. req[r] \in CloneJob /\ cfg[req[r].c] = Absent
    BY <1>2, <1>7 DEF RotateManagement, At, In
  <2>2. job.pc = "rotateRoot" /\ job.c = req[r].c
    BY <2>1 DEF CloneJob
  <2>3. Continue(r, job)
    BY <1>7 DEF RotateManagement
  <2> HIDE DEF job
  <2> QED
    BY <1>3, <1>7, <2>1, <2>2, <2>3 DEF RotateManagement
<1>8. ASSUME RotateRoot(r) PROVE SerialInv'
  <2> DEFINE job == [req[r] EXCEPT !.pc = "storeTarget", !.entry.pass = req[r].id]
  <2>1. req[r] \in CloneJob /\ cfg[req[r].c] = Absent
    BY <1>2, <1>8 DEF RotateRoot, At, In
  <2>2. job.pc = "storeTarget" /\ job.c = req[r].c
    BY <2>1 DEF CloneJob
  <2>3. Continue(r, job)
    BY <1>8 DEF RotateRoot
  <2> HIDE DEF job
  <2> QED
    BY <1>3, <1>8, <2>1, <2>2, <2>3 DEF RotateRoot
<1>9. ASSUME StoreTarget(r) PROVE SerialInv'
  <2>1. req[r] \in CloneJob /\ cfg[req[r].c] = Absent
    BY <1>2, <1>9 DEF StoreTarget, At, In
  <2>2. /\ req[r].c \in Cluster /\ req[r].entry \in ClusterEntry
        /\ ~req[r].entry.disabled
    BY <2>1 DEF CloneJob, Enabled
  <2>3. Listed(req[r].c) = {}
    BY <2>1, <2>2 DEF SerialInv, NoOrphanDatabase, Listed
  <2>4. Consistent'
    BY <1>9, <2>2 DEF StoreTarget, SerialInv, Consistent, TypeInv, TypeOK,
       NoActiveDatabaseInDeletedCluster, NoOrphanDatabase, ActiveDb, Active, NoClash
  <2>5. JobInv(req[r])'
    BY <1>9, <2>2, <2>3 DEF StoreTarget, Active, Listed, TypeInv, TypeOK, NoClash
  <2> QED
    BY <2>4, <2>5, SerialStep
<1> QED
  BY <1>1, <1>5, <1>6, <1>7, <1>8, <1>9

\* cloneDbConfig: databases are copied into a clone that is active.
LEMMA CopySerial ==
  ASSUME OneAtATime, NoClash, TypeInv, SerialInv, NEW r \in Request
  PROVE  /\ ListSource(r) => SerialInv'
         /\ \A d \in Database : LoadSource(r, d) => SerialInv'
         /\ StoreCopy(r) => SerialInv'
         /\ CloneReturns(r) => SerialInv'
<1> USE NewJob, JobByPc DEF JobInv, DeletionInv, PurgeInv, CreationInv, RegisterPcs
<1>1. ASSUME ListSource(r) PROVE SerialInv'
  <2> DEFINE job == [req[r] EXCEPT !.pc = "loadSource", !.todo = Listed(req[r].source)]
  <2>1. req[r] \in CopyJob /\ Active(req[r].c) /\ Listed(req[r].c) = {}
    BY <1>1 DEF ListSource, At, TypeInv, TypeOK, SerialInv
  <2>2. job.pc = "loadSource" /\ job.c = req[r].c
    BY <2>1 DEF CopyJob
  <2>3. Continue(r, job)
    BY <1>1 DEF ListSource
  <2> HIDE DEF job
  <2>4. JobInv(req'[r])
    BY <2>1, <2>2, <2>3
  <2> QED
    BY <1>1, <2>4, SerialRead DEF ListSource
<1>2. ASSUME NEW d \in Database, LoadSource(r, d) PROVE SerialInv'
  <2> DEFINE job == [req[r] EXCEPT !.todo = req[r].todo \ {d}]
  <2>1. /\ req[r] \in CopyJob /\ req[r].pc = "loadSource" /\ d \in req[r].todo
        /\ Active(req[r].c) /\ Listed(req[r].c) \cap req[r].todo = {}
    BY <1>2 DEF LoadSource, At, TypeInv, TypeOK, SerialInv
  <2>2. job.pc = "loadSource" /\ job.c = req[r].c /\ job.todo = req[r].todo \ {d}
    BY <2>1 DEF CopyJob
  <2>3. \/ Continue(r, job)
        \/ Continue(r, [pc |-> "storeCopy", source |-> req[r].source, c |-> req[r].c,
                        inherit |-> req[r].inherit, todo |-> req[r].todo \ {d}, d |-> d,
                        db |-> CopyTo(dbcfg[req[r].source][d], req[r].c)])
    BY <1>2 DEF LoadSource
  <2>4. (req[r].todo \ {d}) \cup {d} = req[r].todo /\ d \notin req[r].todo \ {d}
    BY <2>1
  <2> HIDE DEF job
  <2>5. JobInv(req'[r])
    BY <2>1, <2>2, <2>3, <2>4
  <2> QED
    BY <1>2, <2>5, SerialRead DEF LoadSource
<1>3. ASSUME StoreCopy(r) PROVE SerialInv'
  <2>1. /\ req[r] \in CopyStoreJob /\ Active(req[r].c)
        /\ Listed(req[r].c) \cap (req[r].todo \cup {req[r].d}) = {}
        /\ req[r].d \notin req[r].todo
    BY <1>3 DEF StoreCopy, At, TypeInv, TypeOK, SerialInv
  <2>2. /\ req[r].c \in Cluster /\ req[r].d \in Database
        /\ req[r].todo \subseteq Database
    BY <2>1 DEF CopyStoreJob
  <2> DEFINE job == [pc |-> "loadSource", source |-> req[r].source, c |-> req[r].c,
                     inherit |-> req[r].inherit, todo |-> req[r].todo]
  <2>3. Continue(r, job) /\ UNCHANGED cfg
    BY <1>3 DEF StoreCopy
  <2>4. CASE UNCHANGED dbcfg
    <3>1. JobInv(req'[r])
      BY <2>1, <2>3
    <3> QED
      BY <2>3, <2>4, <3>1, SerialRead
  <2>5. CASE dbcfg' = [dbcfg EXCEPT ![req[r].c][req[r].d] = req[r].db]
    <3>1. Consistent'
      BY <2>1, <2>2, <2>3, <2>5, StoreKeeps DEF SerialInv, Consistent, Active
    <3>2. \A d \in Database : dbcfg'[req[r].c][d] # Absent
                                => d \in Listed(req[r].c) \/ d = req[r].d
      BY <2>2, <2>5 DEF Listed, TypeInv, TypeOK
    <3>3. req'[r].pc = "loadSource" /\ req'[r].c = req[r].c /\ req'[r].todo = req[r].todo
      BY <2>3
    <3>4. \A d \in req[r].todo : dbcfg'[req[r].c][d] = Absent
      BY <2>1, <2>2, <3>2
    <3>5. JobInv(req[r])'
      BY <2>1, <2>3, <3>3, <3>4 DEF Active, Listed
    <3> QED
      BY <3>1, <3>5, SerialStep
  <2> QED
    BY <1>3, <2>4, <2>5 DEF StoreCopy
<1>4. ASSUME CloneReturns(r) PROVE SerialInv'
  BY <1>4, SerialRead DEF CloneReturns, Return
<1> QED
  BY <1>1, <1>2, <1>3, <1>4

\* A handler may be cut short anywhere, and a snapshot restored at any time.
LEMMA AroundSerial ==
  ASSUME OneAtATime, NoClash, TypeInv, SerialInv
  PROVE  /\ \A r \in Request : Fail(r) => SerialInv'
         /\ \A h, copy \in Host : RestoreSnapshot(h, copy) => SerialInv'
         /\ UNCHANGED vars => SerialInv'
<1>1. ASSUME NEW r \in Request, Fail(r) PROVE SerialInv'
  BY <1>1, NewJob, SerialRead DEF Fail, Return, JobInv
<1>2. ASSUME UNCHANGED <<cfg, dbcfg, req>> PROVE SerialInv'
  <2>1. Consistent'
    BY <1>2 DEF SerialInv, Consistent, NoActiveDatabaseInDeletedCluster,
       NoOrphanDatabase, ActiveDb, Active
  <2>2. ASSUME NEW r \in Request, req[r] # Idle PROVE JobInv(req[r])'
    <3>1. DeletionInv(req[r])'
      BY <1>2, <2>2 DEF SerialInv, JobInv, DeletionInv, PathDatabasesList, Active, ActiveDb
    <3>2. PurgeInv(req[r])'
      BY <1>2, <2>2 DEF SerialInv, JobInv, PurgeInv, Listed, Deleted, DeletedDb
    <3>3. CreationInv(req[r])'
      BY <1>2, <2>2 DEF SerialInv, JobInv, CreationInv, Listed, Deleted, Active
    <3> QED
      BY <3>1, <3>2, <3>3 DEF JobInv
  <2> QED
    BY <1>2, <2>1, <2>2 DEF SerialInv, Consistent, JobInv
<1> QED
  BY <1>1, <1>2 DEF RestoreSnapshot, vars

\* The invariant holds of an empty storage.
LEMMA InitSerial == Init => SerialInv
  BY DEF Init, SerialInv, NoActiveDatabaseInDeletedCluster, NoOrphanDatabase,
     ActiveDb, JobInv

\* Requests made one at a time keep SerialInv, however many clusters and
\* databases there are and wherever a handler is cut short.
THEOREM SerialSafety ==
  ASSUME OneAtATime
  PROVE  Spec => []SerialInv
<1>1. ASSUME TypeInv, SerialInv, [Next]_vars PROVE SerialInv'
  <2>1. CASE UNCHANGED vars
    BY <1>1, OneAtATime, NoClash, <2>1, AroundSerial
  <2>2. CASE \E h, copy \in Host : RestoreSnapshot(h, copy)
    BY <1>1, OneAtATime, NoClash, <2>2, AroundSerial
  <2>3. ASSUME NEW r \in Request, Start(r) PROVE SerialInv'
    BY <1>1, OneAtATime, NoClash, <2>3, UpdateSerial, DeleteSerial, PurgeSerial,
       RegisterSerial, DropSerial, CloneSerial DEF Start
  <2>4. ASSUME NEW r \in Request, Step(r) PROVE SerialInv'
    BY <1>1, OneAtATime, NoClash, <2>4, UpdateSerial, DeleteSerial, PurgeSerial,
       RegisterSerial, DropSerial, CloneSerial, CopySerial DEF Step
  <2>5. ASSUME NEW r \in Request, Fail(r) PROVE SerialInv'
    BY <1>1, OneAtATime, NoClash, <2>5, AroundSerial
  <2> QED
    BY <1>1, <2>1, <2>2, <2>3, <2>4, <2>5 DEF Next
<1>2. TypeInv <=> TypeOK /\ ServersExist
  BY DEF TypeInv
<1> QED
  BY <1>1, <1>2, InitSerial, Typing, PTL DEF Spec

\* No cut-short deletion, registration or clone leaves an active database in
\* a deleted or purged cluster.
THEOREM NoActiveLeftBehind ==
  ASSUME OneAtATime
  PROVE  Spec => []NoActiveDatabaseInDeletedCluster
<1>1. SerialInv => NoActiveDatabaseInDeletedCluster
  BY DEF SerialInv
<1> QED
  BY <1>1, SerialSafety, OneAtATime, PTL

\* No cut-short purge or clone leaves a database without its cluster.
THEOREM NoOrphanLeftBehind ==
  ASSUME OneAtATime
  PROVE  Spec => []NoOrphanDatabase
<1>1. SerialInv => NoOrphanDatabase
  BY DEF SerialInv
<1> QED
  BY <1>1, SerialSafety, OneAtATime, PTL

\* The handlers that list and read agree on what there is, though each looks
\* at other keys.
THEOREM ReadersAgree ==
  ASSUME OneAtATime
  PROVE  Spec => []ReadHandlersAgree
<1>1. SerialInv => ReadHandlersAgree
  BY DEF SerialInv, NoActiveDatabaseInDeletedCluster, NoOrphanDatabase,
     ReadHandlersAgree, Listed, PathClustersList, GcListClusters,
     PathDatabaseRead, GcGetDatabase, PathDatabasesList, Active, Deleted,
     ActiveDb, DeletedDb
<1> QED
  BY <1>1, SerialSafety, OneAtATime, PTL

(***************************************************************************)
(* Stored credentials.  Few calls store, remove or change a login; what    *)
(* the others have in common is Quiet.                                     *)
(***************************************************************************)
LoginPcs == UpdatePcs \cup ClonePcs

LoginsKeep ==
  \A h \in Host : pg[h] # Absent =>
    /\ pg'[h] # Absent /\ pg'[h].root = pg[h].root /\ pg'[h].mgmt = pg[h].mgmt

\* A call that neither works on a login nor goes on to one that does, nor to
\* one that copies databases.
Quiet(r) ==
  /\ cfg' = cfg /\ LoginsKeep
  /\ issued <= issued'
  /\ ~In(r, LoginPcs) /\ ~In(r, LoginPcs)'
  /\ ~In(r, {"loadSource", "storeCopy"})'

\* The server of a clone is that of no other cluster.
CloneServersApart ==
  \A c \in CloneTarget : \A k \in Cluster \ {c} : HostOf[c] \cap HostOf[k] = {}

\* No two clusters share a server.
OwnServers ==
  \A c \in Cluster : \A k \in Cluster \ {c} : HostOf[c] \cap HostOf[k] = {}

\* Management: the name of a role that is to be created is in no entry, and the
\* entry that is to be stored logs in.
ManagementGood(j) ==
  /\ j.pc \in LoginPcs => j.entry.mgmt <= issued
  /\ j.pc = "createManagementRole" =>
       \A c \in Cluster : cfg[c] # Absent => cfg[c].mgmt # j.entry.mgmt
  /\ j.pc \in {"updatePassword", "storeCluster", "rotateManagement", "rotateRoot",
               "storeTarget"} => ManagementLogin(j.entry)

ManagementInv ==
  /\ \A c \in Cluster : cfg[c] # Absent => ManagementLogin(cfg[c]) /\ cfg[c].mgmt <= issued
  /\ \A r \in Request : req[r] # Idle => ManagementGood(req[r])

\* Root: the entry that is to be stored logs in, and while an update has it in
\* its hands, only the entry of its cluster is out of date.
RootInv ==
  /\ \A c \in Cluster : cfg[c] # Absent =>
       RootLogin(cfg[c]) \/ \E r \in Request : At(r, "storeCluster") /\ req[r].c = c
  /\ \A r \in Request : In(r, {"storeCluster", "storeTarget"}) => RootLogin(req[r].entry)

\* Clones: an active database of the source is copied, or still to be visited.
CopyGood(j) ==
  /\ j.pc = "loadSource" => PathDatabasesList(j.source) \subseteq Listed(j.c) \cup j.todo
  /\ j.pc = "storeCopy" =>
       PathDatabasesList(j.source) \subseteq Listed(j.c) \cup j.todo \cup {j.d}

CopyInv == \A r \in Request : req[r] # Idle => CopyGood(req[r])

\* What makes a call quiet that sets no password and goes on with job.
LEMMA QuietStep ==
  ASSUME TypeInv, NEW r \in Request, NEW job, Continue(r, job),
         job = Idle \/ job.pc \notin LoginPcs \cup {"loadSource", "storeCopy"},
         cfg' = cfg, LoginsKeep, issued <= issued', ~In(r, LoginPcs)
  PROVE  Quiet(r)
<1>1. req'[r] = job
  BY NewJob
<1> QED
  BY <1>1 DEF Quiet, In

\* A call that reads, or writes to storage only.
LEMMA QuietRead ==
  ASSUME TypeInv, NEW r \in Request, NEW job, Continue(r, job),
         job = Idle \/ job.pc \notin LoginPcs \cup {"loadSource", "storeCopy"},
         UNCHANGED <<cfg, pg, issued>>, ~In(r, LoginPcs)
  PROVE  Quiet(r)
<1>1. LoginsKeep /\ issued <= issued'
  BY DEF LoginsKeep, TypeInv, TypeOK
<1> QED
  BY <1>1, QuietStep

\* Creating a database or an owner on a server changes no password.
LEMMA MadeKeeps ==
  ASSUME TypeInv, NEW h \in Host, pg[h] # Absent, NEW s,
         pg' = [pg EXCEPT ![h] = s], s # Absent, s.root = pg[h].root, s.mgmt = pg[h].mgmt
  PROVE  LoginsKeep
  BY DEF LoginsKeep, TypeInv, TypeOK

\* pathClusterDelete, gcPurgeCluster and the calls for single databases.
LEMMA QuietRemovals ==
  ASSUME TypeInv, NEW r \in Request
  PROVE  /\ \A c \in Cluster : PathClusterDelete(r, c) => Quiet(r)
         /\ ListToDelete(r) => Quiet(r)
         /\ \A d \in Database : LoadToDelete(r, d) => Quiet(r)
         /\ StoreDisabled(r) => Quiet(r)
         /\ \A c \in Cluster : GcPurgeCluster(r, c) => Quiet(r)
         /\ ListToPurge(r) => Quiet(r)
         /\ \A d \in Database : LoadToPurge(r, d) => Quiet(r)
         /\ DeletePurged(r) => Quiet(r)
         /\ \A c \in Cluster, d \in Database : PathDatabaseDelete(r, c, d) => Quiet(r)
         /\ LoadToDrop(r) => Quiet(r)
         /\ StoreDropped(r) => Quiet(r)
         /\ \A c \in Cluster, d \in Database : GcPurgeDatabase(r, c, d) => Quiet(r)
         /\ DeleteDatabaseEntry(r) => Quiet(r)
         /\ CloneReturns(r) => Quiet(r)
<1> USE JobByPc DEF LoginPcs, UpdatePcs, ClonePcs
<1>1. ASSUME NEW c \in Cluster, PathClusterDelete(r, c) PROVE Quiet(r)
  BY <1>1, QuietRead DEF PathClusterDelete, Begin, In
<1>2. ASSUME ListToDelete(r) PROVE Quiet(r)
  <2> DEFINE job == [req[r] EXCEPT !.pc = "loadToDelete", !.todo = Listed(req[r].c)]
  <2>1. job.pc = "loadToDelete" /\ Continue(r, job) /\ ~In(r, LoginPcs)
    BY <1>2 DEF ListToDelete, At, In, TypeInv, TypeOK, DeleteJob
  <2> HIDE DEF job
  <2> QED
    BY <1>2, <2>1, QuietRead DEF ListToDelete
<1>3. ASSUME NEW d \in Database, LoadToDelete(r, d) PROVE Quiet(r)
  <2> DEFINE c == req[r].c
             job1 == [req[r] EXCEPT !.todo = req[r].todo \ {d}]
             job2 == [pc |-> "storeDisabled", c |-> c, entry |-> req[r].entry,
                      todo |-> req[r].todo \ {d}, d |-> d, db |-> Disable(dbcfg[c][d])]
  <2>1. job1.pc = "loadToDelete" /\ ~In(r, LoginPcs)
    BY <1>3 DEF LoadToDelete, At, In, TypeInv, TypeOK, DeleteJob
  <2>2. Continue(r, Idle) \/ Continue(r, job1) \/ Continue(r, job2)
    BY <1>3 DEF LoadToDelete, Return
  <2>3. job2.pc = "storeDisabled"
    OBVIOUS
  <2> HIDE DEF job1, job2
  <2> QED
    BY <1>3, <2>1, <2>2, <2>3, QuietRead DEF LoadToDelete
<1>4. ASSUME StoreDisabled(r) PROVE Quiet(r)
  BY <1>4, QuietRead DEF StoreDisabled, At, In
<1>5. ASSUME NEW c \in Cluster, GcPurgeCluster(r, c) PROVE Quiet(r)
  BY <1>5, QuietRead DEF GcPurgeCluster, Begin, In
<1>6. ASSUME ListToPurge(r) PROVE Quiet(r)
  <2> DEFINE job == [req[r] EXCEPT !.pc = "loadToPurge", !.todo = Listed(req[r].c)]
  <2>1. job.pc = "loadToPurge" /\ Continue(r, job) /\ ~In(r, LoginPcs)
    BY <1>6 DEF ListToPurge, At, In, TypeInv, TypeOK, PurgeJob
  <2> HIDE DEF job
  <2> QED
    BY <1>6, <2>1, QuietRead DEF ListToPurge
<1>7. ASSUME NEW d \in Database, LoadToPurge(r, d) PROVE Quiet(r)
  <2>1. UNCHANGED <<cfg, pg, issued>> /\ ~In(r, LoginPcs)
    BY <1>7 DEF LoadToPurge, At, In
  <2> QED
    BY <1>7, <2>1, QuietRead DEF LoadToPurge, Return
<1>8. ASSUME DeletePurged(r) PROVE Quiet(r)
  BY <1>8, QuietRead DEF DeletePurged, At, In
<1>9. ASSUME NEW c \in Cluster, NEW d \in Database, PathDatabaseDelete(r, c, d)
      PROVE  Quiet(r)
  BY <1>9, QuietRead DEF PathDatabaseDelete, Begin, In
<1>10. ASSUME LoadToDrop(r) PROVE Quiet(r)
  <2>1. UNCHANGED <<cfg, pg, issued>> /\ ~In(r, LoginPcs)
    BY <1>10 DEF LoadToDrop, At, In
  <2> QED
    BY <1>10, <2>1, QuietRead DEF LoadToDrop, Return
<1>11. ASSUME StoreDropped(r) \/ DeleteDatabaseEntry(r) \/ CloneReturns(r) PROVE Quiet(r)
  BY <1>11, QuietRead DEF StoreDropped, DeleteDatabaseEntry, CloneReturns, Return, At, In
<1>12. ASSUME NEW c \in Cluster, NEW d \in Database, GcPurgeDatabase(r, c, d)
       PROVE  Quiet(r)
  BY <1>12, QuietRead DEF GcPurgeDatabase, Begin, In
<1> QED
  BY <1>1, <1>2, <1>3, <1>4, <1>5, <1>6, <1>7, <1>8, <1>9, <1>10, <1>11, <1>12

\* pathDatabaseUpdate: it connects, and makes a database and an owner.
LEMMA QuietRegistration ==
  ASSUME ConstantsOK, NoClash, TypeInv, NEW r \in Request
  PROVE  /\ \A c \in Cluster, d \in Database : PathDatabaseUpdate(r, c, d) => Quiet(r)
         /\ CheckDatabase(r) => Quiet(r)
         /\ LoadForRoot(r) => Quiet(r)
         /\ ConnectRoot(r) => Quiet(r)
         /\ CreateDatabase(r) => Quiet(r)
         /\ LoadForManagement(r) => Quiet(r)
         /\ ConnectManagement(r) => Quiet(r)
         /\ CreateOwner(r) => Quiet(r)
         /\ StoreDatabase(r) => Quiet(r)
<1> USE JobByPc
<1>1. \A pc \in RegisterPcs : pc \notin LoginPcs \cup {"loadSource", "storeCopy"}
  BY DEF RegisterPcs, LoginPcs, UpdatePcs, ClonePcs
<1>2. ASSUME NEW c \in Cluster, NEW d \in Database, PathDatabaseUpdate(r, c, d)
      PROVE  Quiet(r)
  <2>1. PICK job : Continue(r, job) /\ job.pc = "checkDatabase"
    BY <1>2 DEF PathDatabaseUpdate, Begin
  <2>2. issued <= issued'
    BY <1>2 DEF PathDatabaseUpdate, Draw, Fresh, TypeInv, TypeOK
  <2>3. LoginsKeep /\ cfg' = cfg /\ ~In(r, LoginPcs)
    BY <1>2 DEF PathDatabaseUpdate, Begin, In, LoginsKeep
  <2> QED
    BY <1>1, <2>1, <2>2, <2>3, QuietStep DEF RegisterPcs
<1>3. ASSUME In(r, RegisterPcs) PROVE req[r] \in RegisterJob /\ ~In(r, LoginPcs)
  BY <1>1, <1>3 DEF In, TypeInv, TypeOK
<1>4. ASSUME In(r, RegisterPcs), NEW pc \in RegisterPcs, Return(r) \/ Goto(r, pc),
             cfg' = cfg, LoginsKeep, issued' = issued
      PROVE  Quiet(r)
  <2>1. [req[r] EXCEPT !.pc = pc].pc = pc
    BY <1>3, <1>4 DEF RegisterJob
  <2>2. issued <= issued'
    BY <1>4 DEF TypeInv, TypeOK
  <2> QED
    BY <1>1, <1>3, <1>4, <2>1, <2>2, QuietStep DEF Return, Goto
<1>5. ASSUME UNCHANGED pg PROVE LoginsKeep
  BY <1>5 DEF LoginsKeep
<1>6. ASSUME CheckDatabase(r) PROVE Quiet(r)
  <2>1. In(r, RegisterPcs)
    BY <1>6 DEF CheckDatabase, At, In, RegisterPcs
  <2>2. Return(r) \/ \E pc \in RegisterPcs : Goto(r, pc)
    BY <1>6 DEF CheckDatabase, RegisterPcs
  <2>3. "storeDatabase" \in RegisterPcs
    BY DEF RegisterPcs
  <2> QED
    BY <1>4, <1>5, <1>6, <2>1, <2>2, <2>3 DEF CheckDatabase
<1>7. ASSUME NEW from \in RegisterPcs, NEW to \in RegisterPcs, LoadForConn(r, from, to)
      PROVE  Quiet(r)
  <2> DEFINE job == [req[r] EXCEPT !.pc = to, !.entry = cfg[req[r].c]]
  <2>1. In(r, RegisterPcs)
    BY <1>7 DEF LoadForConn, At, In
  <2>2. job.pc = to
    BY <1>3, <2>1 DEF RegisterJob
  <2>3. Continue(r, Idle) \/ Continue(r, job)
    BY <1>7 DEF LoadForConn, Return
  <2> HIDE DEF job
  <2> QED
    BY <1>1, <1>3, <1>7, <2>1, <2>2, <2>3, QuietRead DEF LoadForConn
<1>8. ASSUME LoadForRoot(r) \/ LoadForManagement(r) PROVE Quiet(r)
  BY <1>7, <1>8 DEF LoadForRoot, LoadForManagement, RegisterPcs
<1>9. ASSUME ConnectRoot(r) \/ ConnectManagement(r) PROVE Quiet(r)
  <2>1. In(r, RegisterPcs) /\ UNCHANGED <<cfg, pg, issued>>
    BY <1>9 DEF ConnectRoot, ConnectManagement, At, In, RegisterPcs
  <2>2. Return(r) \/ \E pc \in RegisterPcs : Goto(r, pc)
    BY <1>9 DEF ConnectRoot, ConnectManagement, RegisterPcs
  <2>3. "storeDatabase" \in RegisterPcs
    BY DEF RegisterPcs
  <2> QED
    BY <1>4, <1>5, <2>1, <2>2, <2>3
<1>10. ASSUME CreateDatabase(r) \/ CreateOwner(r) PROVE Quiet(r)
  <2>1. In(r, RegisterPcs) /\ UNCHANGED <<cfg, issued>>
    BY <1>10 DEF CreateDatabase, CreateOwner, At, In, RegisterPcs
  <2>2. Return(r) \/ \E pc \in RegisterPcs : Goto(r, pc)
    BY <1>10 DEF CreateDatabase, CreateOwner, RegisterPcs
  <2>3. "storeDatabase" \in RegisterPcs
    BY DEF RegisterPcs
  <2>4. LoginsKeep
    <3> DEFINE h == req[r].entry.host
    <3>1. h \in Host /\ pg[h] # Absent /\ pg[h] \in Server
      BY <1>3, <2>1 DEF RegisterJob, ClusterEntry, TypeInv, TypeOK, ServersExist, In, ConnectedPcs
    <3>2. req[r].d \in Database /\ req[r].owner \in Owner
      BY <1>3, <2>1 DEF RegisterJob
    <3> DEFINE s == [pg[h] EXCEPT !.dbs = @ \cup {req[r].d}]
               t == [pg[h] EXCEPT !.owners = @ \cup {req[r].owner}]
    <3>3. UNCHANGED pg \/ pg' = [pg EXCEPT ![h] = s] \/ pg' = [pg EXCEPT ![h] = t]
      BY <1>10 DEF CreateDatabase, CreateOwner
    <3>4. s \in Server /\ s.root = pg[h].root /\ s.mgmt = pg[h].mgmt
      BY <3>1, <3>2 DEF Server
    <3>5. t \in Server /\ t.root = pg[h].root /\ t.mgmt = pg[h].mgmt
      BY <3>1, <3>2 DEF Server
    <3> HIDE DEF s, t, h
    <3>6. s # Absent /\ t # Absent
      BY <3>4, <3>5 DEF NoClash
    <3> QED
      BY <1>5, <3>1, <3>3, <3>4, <3>5, <3>6, MadeKeeps
  <2> QED
    BY <1>4, <2>1, <2>2, <2>3, <2>4
<1>11. ASSUME StoreDatabase(r) PROVE Quiet(r)
  <2>1. In(r, RegisterPcs)
    BY <1>11 DEF StoreDatabase, At, In, RegisterPcs
  <2> QED
    BY <1>3, <1>11, <2>1, QuietRead DEF StoreDatabase, Return
<1> QED
  BY <1>2, <1>6, <1>8, <1>9, <1>10, <1>11

\* Which calls are not quiet.
LEMMA QuietRest ==
  ASSUME ConstantsOK, NoClash, TypeInv, NEW r \in Request, Start(r) \/ Step(r)
  PROVE  \/ Quiet(r)
         \/ \E c \in Cluster, h \in Host : PathClusterUpdate(r, c, h)
         \/ CreateManagementRole(r) \/ UpdatePassword(r) \/ StoreCluster(r)
         \/ StoreClusterDisabled(r) \/ DeleteClusterEntry(r)
         \/ \E source, c \in Cluster, h \in Host : PathCloneUpdate(r, source, c, h)
         \/ CheckTarget(r) \/ ConnectClone(r) \/ RotateManagement(r) \/ RotateRoot(r)
         \/ StoreTarget(r) \/ ListSource(r) \/ (\E d \in Database : LoadSource(r, d))
         \/ StoreCopy(r)
<1>1. CASE Start(r)
  BY <1>1, QuietRemovals, QuietRegistration DEF Start
<1>2. CASE Step(r)
  BY <1>2, QuietRemovals, QuietRegistration DEF Step
<1> QED
  BY <1>1, <1>2

\* A call that works on a login does not go on to load a database of the source.
LEMMA LoginsNotCopied ==
  ASSUME TypeInv, NEW r \in Request,
         \/ \E c \in Cluster, h \in Host : PathClusterUpdate(r, c, h)
         \/ CreateManagementRole(r) \/ UpdatePassword(r) \/ StoreCluster(r)
         \/ StoreClusterDisabled(r) \/ DeleteClusterEntry(r)
         \/ \E source, c \in Cluster, h \in Host : PathCloneUpdate(r, source, c, h)
         \/ CheckTarget(r) \/ ConnectClone(r) \/ RotateManagement(r) \/ RotateRoot(r)
         \/ StoreTarget(r)
  PROVE  ~In(r, {"loadSource", "storeCopy"})'
<1> USE NewJob, JobByPc DEF In
<1>1. ASSUME NEW job, Continue(r, job), job = Idle \/ job.pc \notin {"loadSource", "storeCopy"}
      PROVE  ~In(r, {"loadSource", "storeCopy"})'
  BY <1>1
<1>2. ASSUME NEW pc, Goto(r, pc), pc \notin {"loadSource", "storeCopy"},
             req[r] \in UpdateJob \cup CloneJob
      PROVE  ~In(r, {"loadSource", "storeCopy"})'
  BY <1>1, <1>2 DEF Goto, UpdateJob, CloneJob
<1>3. ASSUME NEW c \in Cluster, NEW h \in Host, PathClusterUpdate(r, c, h)
      PROVE  ~In(r, {"loadSource", "storeCopy"})'
  BY <1>1, <1>3 DEF PathClusterUpdate, Begin
<1>4. ASSUME CreateManagementRole(r) \/ UpdatePassword(r)
      PROVE  ~In(r, {"loadSource", "storeCopy"})'
  <2>1. req[r] \in UpdateJob
    BY <1>4 DEF CreateManagementRole, UpdatePassword, At, TypeInv, TypeOK
  <2> QED
    BY <1>2, <1>4, <2>1 DEF CreateManagementRole, UpdatePassword
<1>5. ASSUME StoreCluster(r) \/ StoreClusterDisabled(r) \/ DeleteClusterEntry(r)
      PROVE  ~In(r, {"loadSource", "storeCopy"})'
  BY <1>1, <1>5 DEF StoreCluster, StoreClusterDisabled, DeleteClusterEntry, Return
<1>6. ASSUME NEW source \in Cluster, NEW c \in Cluster, NEW h \in Host,
             PathCloneUpdate(r, source, c, h)
      PROVE  ~In(r, {"loadSource", "storeCopy"})'
  BY <1>1, <1>6 DEF PathCloneUpdate, Begin
<1>7. ASSUME In(r, ClonePcs) PROVE req[r] \in CloneJob
  BY <1>7 DEF ClonePcs, TypeInv, TypeOK
<1>8. ASSUME CheckTarget(r) \/ ConnectClone(r) PROVE ~In(r, {"loadSource", "storeCopy"})'
  <2>1. req[r] \in CloneJob
    BY <1>7, <1>8 DEF CheckTarget, ConnectClone, At, ClonePcs
  <2> QED
    BY <1>1, <1>2, <1>8, <2>1 DEF CheckTarget, ConnectClone, Return
<1>9. ASSUME RotateManagement(r) PROVE ~In(r, {"loadSource", "storeCopy"})'
  <2>1. req[r] \in CloneJob
    BY <1>7, <1>9 DEF RotateManagement, At, ClonePcs
  <2>2. [req[r] EXCEPT !.pc = "rotateRoot", !.entry.mgmtPass = req[r].id].pc = "rotateRoot"
    BY <2>1 DEF CloneJob
  <2> QED
    BY <1>1, <1>9, <2>2 DEF RotateManagement
<1>10. ASSUME RotateRoot(r) PROVE ~In(r, {"loadSource", "storeCopy"})'
  <2>1. req[r] \in CloneJob
    BY <1>7, <1>10 DEF RotateRoot, At, ClonePcs
  <2>2. [req[r] EXCEPT !.pc = "storeTarget", !.entry.pass = req[r].id].pc = "storeTarget"
    BY <2>1 DEF CloneJob
  <2> QED
    BY <1>1, <1>10, <2>2 DEF RotateRoot
<1>11. ASSUME StoreTarget(r) PROVE ~In(r, {"loadSource", "storeCopy"})'
  BY <1>1, <1>11 DEF StoreTarget
<1> QED
  BY <1>3, <1>4, <1>5, <1>6, <1>8, <1>9, <1>10, <1>11

\* cloneDbConfig: without faults, an active database of the source is never
\* skipped, and its copy is stored before the next one is looked at.
LEMMA CopySteps ==
  ASSUME OneAtATime, NoClash, ~Faults, TypeInv, CopyInv, NEW r \in Request
  PROVE  /\ ListSource(r) => CopyInv'
         /\ \A d \in Database : LoadSource(r, d) => CopyInv'
         /\ StoreCopy(r) => CopyInv'
<1> USE NewJob, JobByPc
<1>1. ASSUME CopyGood(req[r])' PROVE CopyInv'
  BY <1>1 DEF OneAtATime, CopyInv
<1>2. ASSUME ListSource(r) PROVE CopyInv'
  <2> DEFINE job == [req[r] EXCEPT !.pc = "loadSource", !.todo = Listed(req[r].source)]
  <2>1. /\ job.pc = "loadSource" /\ job.source = req[r].source /\ job.c = req[r].c
        /\ job.todo = Listed(req[r].source) /\ Continue(r, job) /\ UNCHANGED dbcfg
    BY <1>2 DEF ListSource, At, TypeInv, TypeOK, CopyJob
  <2> HIDE DEF job
  <2>2. PathDatabasesList(req[r].source) \subseteq Listed(req[r].source)
    BY DEF PathDatabasesList, ActiveDb, Listed
  <2>3. CopyGood(req[r])'
    BY <2>1, <2>2 DEF CopyGood, PathDatabasesList, ActiveDb, Listed
  <2> QED
    BY <1>1, <2>3
<1>3. ASSUME NEW d \in Database, LoadSource(r, d) PROVE CopyInv'
  <2> DEFINE s == req[r].source
             c == req[r].c
             job1 == [req[r] EXCEPT !.todo = req[r].todo \ {d}]
             job2 == [pc |-> "storeCopy", source |-> s, c |-> c,
                      inherit |-> req[r].inherit, todo |-> req[r].todo \ {d}, d |-> d,
                      db |-> CopyTo(dbcfg[s][d], c)]
  <2>1. /\ req[r] \in CopyJob /\ req[r].pc = "loadSource" /\ d \in req[r].todo
        /\ PathDatabasesList(s) \subseteq Listed(c) \cup req[r].todo
    BY <1>3 DEF LoadSource, At, TypeInv, TypeOK, CopyInv, CopyGood
  <2>2. UNCHANGED dbcfg
    BY <1>3 DEF LoadSource
  <2>3. CASE Continue(r, job1) /\ ~ActiveDb(s, d)
    <3>1. /\ job1.pc = "loadSource" /\ job1.source = s /\ job1.c = c
          /\ job1.todo = req[r].todo \ {d}
      BY <2>1 DEF CopyJob
    <3>2. PathDatabasesList(s) \subseteq Listed(c) \cup (req[r].todo \ {d})
      BY <2>1, <2>3 DEF PathDatabasesList
    <3> HIDE DEF job1
    <3>3. CopyGood(req[r])'
      BY <2>2, <2>3, <3>1, <3>2 DEF CopyGood, PathDatabasesList, ActiveDb, Listed
    <3> QED
      BY <1>1, <3>3
  <2>4. CASE Continue(r, job2)
    <3>1. /\ job2.pc = "storeCopy" /\ job2.source = s /\ job2.c = c
          /\ job2.todo = req[r].todo \ {d} /\ job2.d = d
      OBVIOUS
    <3>2. PathDatabasesList(s) \subseteq Listed(c) \cup (req[r].todo \ {d}) \cup {d}
      BY <2>1
    <3> HIDE DEF job2
    <3>3. CopyGood(req[r])'
      BY <2>2, <2>4, <3>1, <3>2 DEF CopyGood, PathDatabasesList, ActiveDb, Listed
    <3> QED
      BY <1>1, <3>3
  <2> QED
    BY <1>3, <2>3, <2>4, ~Faults DEF LoadSource
<1>4. ASSUME StoreCopy(r) PROVE CopyInv'
  <2> DEFINE s == req[r].source
             c == req[r].c
             d == req[r].d
             job == [pc |-> "loadSource", source |-> s, c |-> c,
                     inherit |-> req[r].inherit, todo |-> req[r].todo]
  <2>1. /\ req[r] \in CopyStoreJob
        /\ PathDatabasesList(s) \subseteq Listed(c) \cup req[r].todo \cup {d}
    BY <1>4 DEF StoreCopy, At, TypeInv, TypeOK, CopyInv, CopyGood
  <2>2. s \in Cluster /\ c \in Cluster /\ d \in Database /\ req[r].db # Absent
    BY <2>1 DEF CopyStoreJob, NoClash
  <2>3. dbcfg' = [dbcfg EXCEPT ![c][d] = req[r].db] /\ Continue(r, job)
    BY <1>4, ~Faults DEF StoreCopy
  <2>4. /\ req'[r].pc = "loadSource" /\ req'[r].source = s /\ req'[r].c = c
        /\ req'[r].todo = req[r].todo
    BY <2>3
  <2>5. \A k \in Cluster, x \in Database :
          dbcfg'[k][x] = IF k = c /\ x = d THEN req[r].db ELSE dbcfg[k][x]
    BY <2>2, <2>3 DEF TypeInv, TypeOK
  <2> HIDE DEF job, s, c, d
  <2>6. \A x \in Database :
          dbcfg'[s][x] # Absent /\ ~dbcfg'[s][x].disabled => ActiveDb(s, x) \/ x = d
    BY <2>2, <2>5 DEF ActiveDb
  <2>7. \A x \in Database : x \in Listed(c) \/ x = d => dbcfg'[c][x] # Absent
    BY <2>2, <2>5 DEF Listed
  <2>8. \A x \in Database :
          dbcfg'[s][x] # Absent /\ ~dbcfg'[s][x].disabled =>
            dbcfg'[c][x] # Absent \/ x \in req[r].todo
    BY <2>1, <2>6, <2>7 DEF PathDatabasesList
  <2>9. CopyGood(req[r])'
    BY <2>4, <2>8 DEF CopyGood, PathDatabasesList, ActiveDb, Listed
  <2> QED
    BY <1>1, <2>9
<1> QED
  BY <1>2, <1>3, <1>4

\* Requests made one at a time, none of which is cut short, keep CopyInv.
LEMMA CopyInvariance ==
  ASSUME OneAtATime, ~Faults
  PROVE  Spec => []CopyInv
<1>1. Init => CopyInv
  BY DEF Init, CopyInv
<1>2. ASSUME TypeInv, CopyInv, [Next]_vars PROVE CopyInv'
  <2>1. ASSUME NEW r \in Request, ~In(r, {"loadSource", "storeCopy"})' PROVE CopyInv'
    BY <2>1, OneAtATime DEF OneAtATime, CopyInv, CopyGood, In
  <2>2. ASSUME UNCHANGED <<dbcfg, req>> PROVE CopyInv'
    BY <1>2, <2>2 DEF CopyInv, CopyGood, PathDatabasesList, ActiveDb, Listed
  <2>3. CASE UNCHANGED vars
    BY <2>2, <2>3 DEF vars
  <2>4. CASE \E h, copy \in Host : RestoreSnapshot(h, copy)
    BY <2>2, <2>4 DEF RestoreSnapshot
  <2>5. ASSUME NEW r \in Request, Fail(r) PROVE CopyInv'
    BY <2>5, ~Faults DEF Fail
  <2>6. ASSUME NEW r \in Request, Start(r) \/ Step(r) PROVE CopyInv'
    <3>1. CASE Quiet(r)
      BY <2>1, <3>1 DEF Quiet
    <3>2. CASE ListSource(r) \/ (\E d \in Database : LoadSource(r, d)) \/ StoreCopy(r)
      BY <1>2, <3>2, OneAtATime, ~Faults, NoClash, CopySteps
    <3> QED
      BY <1>2, <2>1, <2>6, <3>1, <3>2, ConstantsOK, NoClash, QuietRest, LoginsNotCopied
  <2> QED
    BY <1>2, <2>3, <2>4, <2>5, <2>6 DEF Next
<1>3. TypeInv <=> TypeOK /\ ServersExist
  BY DEF TypeInv
<1> QED
  BY <1>1, <1>2, <1>3, Typing, PTL DEF Spec

\* A clone returns with every active database of its source, though it reads
\* the source again for each and skips what it cannot load.
THEOREM ClonesComplete ==
  ASSUME OneAtATime, ~Faults
  PROVE  Spec => CloneIsComplete
<1> DEFINE Complete == \A r \in Request : CloneReturns(r) =>
                         PathDatabasesList(req[r].source) \subseteq Listed(req[r].c)
<1>1. CopyInv => Complete
  BY DEF CopyInv, CopyGood, CloneReturns, At
<1>2. Spec => [][Complete]_vars
  BY <1>1, CopyInvariance, OneAtATime, ~Faults, PTL
<1> QED
  BY <1>2 DEF CloneIsComplete

(***************************************************************************)
(* What the calls that work on a login do, to the server and to the entry  *)
(* they hold.                                                              *)
(***************************************************************************)
RoleSet(h, m, p) ==
  \A k \in Host : pg[k] # Absent =>
    /\ pg'[k] # Absent /\ pg'[k].root = pg[k].root
    /\ \A n \in Uuid : pg'[k].mgmt[n] = IF k = h /\ n = m THEN p ELSE pg[k].mgmt[n]

PasswordSet(h, p) ==
  \A k \in Host : pg[k] # Absent =>
    /\ pg'[k] # Absent /\ pg'[k].mgmt = pg[k].mgmt
    /\ pg'[k].root = IF k = h THEN p ELSE pg[k].root

Onwards(r, pc) ==
  req'[r].pc = pc /\ req'[r].c = req[r].c /\ req'[r].entry = req[r].entry

LEMMA SetRoleDoes ==
  ASSUME NoClash, TypeInv, NEW h \in Host, pg[h] # Absent,
         NEW m \in Uuid, NEW p \in Uuid, SetRole(h, m, p)
  PROVE  RoleSet(h, m, p)
<1> DEFINE s == [pg[h] EXCEPT !.mgmt[m] = p]
<1>1. pg[h] \in Server
  BY DEF TypeInv, TypeOK
<1>2. s.root = pg[h].root /\ s.mgmt = [pg[h].mgmt EXCEPT ![m] = p] /\ s \in Server
  BY <1>1 DEF Server
<1>3. \A n \in Uuid : s.mgmt[n] = IF n = m THEN p ELSE pg[h].mgmt[n]
  BY <1>1, <1>2 DEF Server
<1>4. pg' = [pg EXCEPT ![h] = s]
  BY DEF SetRole
<1> HIDE DEF s
<1> QED
  BY <1>2, <1>3, <1>4 DEF RoleSet, TypeInv, TypeOK, NoClash

LEMMA SetPasswordDoes ==
  ASSUME NoClash, TypeInv, NEW h \in Host, pg[h] # Absent, NEW p \in Uuid, SetPassword(h, p)
  PROVE  PasswordSet(h, p)
<1> DEFINE s == [pg[h] EXCEPT !.root = p]
<1>1. pg[h] \in Server
  BY DEF TypeInv, TypeOK
<1>2. s.root = p /\ s.mgmt = pg[h].mgmt
  BY <1>1 DEF Server
<1>3. pg' = [pg EXCEPT ![h] = s]
  BY DEF SetPassword
<1>4. ServersStay
  BY SetPasswordType DEF TypeInv
<1> HIDE DEF s
<1> QED
  BY <1>2, <1>3, <1>4 DEF PasswordSet, ServersStay, TypeInv, TypeOK

\* What a handler that works on a login has in its hands.
LEMMA LoginJob ==
  ASSUME TypeInv, NEW r \in Request, In(r, LoginPcs)
  PROVE  /\ req[r].c \in Cluster /\ req[r].entry \in Enabled(ClusterEntry)
         /\ req[r].entry.host \in Host /\ req[r].entry.pass \in Uuid
         /\ req[r].entry.mgmt \in Uuid /\ req[r].entry.mgmtPass \in Uuid
         /\ In(r, UpdatePcs) => req[r] \in UpdateJob
         /\ In(r, ClonePcs) => req[r] \in CloneJob
         /\ In(r, ConnectedPcs) => pg[req[r].entry.host] # Absent
<1>1. req[r] \in UpdateJob \/ req[r] \in CloneJob
  BY JobByPc DEF TypeInv, TypeOK, In, LoginPcs, UpdatePcs, ClonePcs
<1>2. req[r].c \in Cluster /\ req[r].entry \in Enabled(ClusterEntry)
  BY <1>1 DEF UpdateJob, CloneJob
<1>3. /\ In(r, UpdatePcs) => req[r] \in UpdateJob
      /\ In(r, ClonePcs) => req[r] \in CloneJob
  BY JobByPc DEF TypeInv, TypeOK, In, UpdatePcs, ClonePcs
<1>4. /\ req[r].entry.host \in Host /\ req[r].entry.pass \in Uuid
      /\ req[r].entry.mgmt \in Uuid /\ req[r].entry.mgmtPass \in Uuid
  BY <1>2 DEF Enabled, ClusterEntry
<1> QED
  BY <1>2, <1>3, <1>4 DEF TypeInv, ServersExist

\* pathClusterUpdate
LEMMA UpdateDoes ==
  ASSUME NoClash, TypeInv, NEW r \in Request
  PROVE  /\ CreateManagementRole(r) =>
              /\ Onwards(r, "updatePassword")
              /\ RoleSet(req[r].entry.host, req[r].entry.mgmt, req[r].entry.mgmtPass)
         /\ UpdatePassword(r) =>
              /\ Onwards(r, "storeCluster")
              /\ PasswordSet(req[r].entry.host, req[r].entry.pass)
<1>1. ASSUME At(r, "createManagementRole") \/ At(r, "updatePassword")
      PROVE  In(r, LoginPcs) /\ In(r, UpdatePcs) /\ In(r, ConnectedPcs)
  BY <1>1 DEF At, In, LoginPcs, UpdatePcs, ConnectedPcs
<1>2. ASSUME NEW pc, Goto(r, pc), req[r] \in UpdateJob PROVE Onwards(r, pc)
  BY <1>2, NewJob DEF Goto, UpdateJob, Onwards
<1>3. ASSUME CreateManagementRole(r)
      PROVE  /\ Onwards(r, "updatePassword")
             /\ RoleSet(req[r].entry.host, req[r].entry.mgmt, req[r].entry.mgmtPass)
  BY <1>1, <1>2, <1>3, NoClash, LoginJob, SetRoleDoes DEF CreateManagementRole
<1>4. ASSUME UpdatePassword(r)
      PROVE  /\ Onwards(r, "storeCluster")
             /\ PasswordSet(req[r].entry.host, req[r].entry.pass)
  BY <1>1, <1>2, <1>4, NoClash, LoginJob, SetPasswordDoes DEF UpdatePassword
<1> QED
  BY <1>3, <1>4

\* pathCloneUpdate: the server it works on is that of no other cluster.
LEMMA CloneDoes ==
  ASSUME NoClash, TypeInv, NEW r \in Request
  PROVE  /\ CheckTarget(r) => Return(r) \/ Onwards(r, "connectClone")
         /\ ConnectClone(r) => \/ Return(r)
                               \/ /\ Onwards(r, "rotateManagement")
                                  /\ ManagementLogin(req[r].entry) /\ RootLogin(req[r].entry)
         /\ RotateManagement(r) =>
              /\ req'[r].pc = "rotateRoot" /\ req'[r].c = req[r].c
              /\ req'[r].entry = [req[r].entry EXCEPT !.mgmtPass = req[r].id]
              /\ RoleSet(req[r].entry.host, req[r].entry.mgmt, req[r].id)
         /\ RotateRoot(r) =>
              /\ req'[r].pc = "storeTarget" /\ req'[r].c = req[r].c
              /\ req'[r].entry = [req[r].entry EXCEPT !.pass = req[r].id]
              /\ PasswordSet(req[r].entry.host, req[r].id)
<1>1. ASSUME In(r, ClonePcs) PROVE In(r, LoginPcs) /\ req[r] \in CloneJob /\ req[r].id \in Uuid
  <2>1. In(r, LoginPcs)
    BY <1>1 DEF In, LoginPcs
  <2> QED
    BY <1>1, <2>1, LoginJob DEF CloneJob
<1>2. ASSUME NEW pc, Goto(r, pc), In(r, ClonePcs) PROVE Onwards(r, pc)
  BY <1>1, <1>2, NewJob DEF Goto, CloneJob, Onwards
<1>3. CheckTarget(r) => Return(r) \/ Onwards(r, "connectClone")
  BY <1>2 DEF CheckTarget, At, In, ClonePcs
<1>4. ConnectClone(r) => \/ Return(r)
                         \/ /\ Onwards(r, "rotateManagement")
                            /\ ManagementLogin(req[r].entry) /\ RootLogin(req[r].entry)
  BY <1>2 DEF ConnectClone, At, In, ClonePcs
<1>5. ASSUME RotateManagement(r)
      PROVE  /\ req'[r].pc = "rotateRoot" /\ req'[r].c = req[r].c
             /\ req'[r].entry = [req[r].entry EXCEPT !.mgmtPass = req[r].id]
             /\ RoleSet(req[r].entry.host, req[r].entry.mgmt, req[r].id)
  <2>1. In(r, ClonePcs) /\ In(r, ConnectedPcs)
    BY <1>5 DEF RotateManagement, At, In, ClonePcs, ConnectedPcs
  <2>2. RoleSet(req[r].entry.host, req[r].entry.mgmt, req[r].id)
    BY <1>1, <1>5, <2>1, NoClash, LoginJob, SetRoleDoes DEF RotateManagement
  <2>3. req'[r] = [req[r] EXCEPT !.pc = "rotateRoot", !.entry.mgmtPass = req[r].id]
    BY <1>5, NewJob DEF RotateManagement
  <2> QED
    BY <1>1, <2>1, <2>2, <2>3 DEF CloneJob
<1>6. ASSUME RotateRoot(r)
      PROVE  /\ req'[r].pc = "storeTarget" /\ req'[r].c = req[r].c
             /\ req'[r].entry = [req[r].entry EXCEPT !.pass = req[r].id]
             /\ PasswordSet(req[r].entry.host, req[r].id)
  <2>1. In(r, ClonePcs) /\ In(r, ConnectedPcs)
    BY <1>6 DEF RotateRoot, At, In, ClonePcs, ConnectedPcs
  <2>2. PasswordSet(req[r].entry.host, req[r].id)
    BY <1>1, <1>6, <2>1, NoClash, LoginJob, SetPasswordDoes DEF RotateRoot
  <2>3. req'[r] = [req[r] EXCEPT !.pc = "storeTarget", !.entry.pass = req[r].id]
    BY <1>6, NewJob DEF RotateRoot
  <2> QED
    BY <1>1, <2>1, <2>2, <2>3 DEF CloneJob
<1> QED
  BY <1>3, <1>4, <1>5, <1>6

\* The servers an operator names for two clusters are told apart by the entries.
LEMMA Apart ==
  ASSUME ConcurrentInv, NEW r \in Request, In(r, LoginPcs), NEW k \in Cluster, cfg[k] # Absent,
         HostOf[req[r].c] \cap HostOf[k] = {}
  PROVE  cfg[k].host # req[r].entry.host
<1>1. cfg[k].host \in HostOf[k]
  BY DEF ConcurrentInv, ClustersKnown, ClusterKnown
<1>2. req[r].entry.host \in HostOf[req[r].c]
  BY DEF ConcurrentInv, JobKnown, In, LoginPcs
<1> QED
  BY <1>1, <1>2

(***************************************************************************)
(* Management logins, wherever the handler that set one is cut short.      *)
(***************************************************************************)
LEMMA ManagementStep ==
  ASSUME OneAtATime, NEW r \in Request,
         \A c \in Cluster : cfg'[c] # Absent =>
           /\ pg'[cfg'[c].host] # Absent
           /\ pg'[cfg'[c].host].mgmt[cfg'[c].mgmt] = cfg'[c].mgmtPass
           /\ cfg'[c].mgmt <= issued',
         req'[r] # Idle => ManagementGood(req[r])'
  PROVE  ManagementInv'
  BY DEF OneAtATime, ManagementInv, ManagementLogin

\* A call that leaves the clusters and the management roles alone.
LEMMA ManagementKept ==
  ASSUME OneAtATime, TypeInv, ManagementInv, NEW r \in Request, cfg' = cfg, issued <= issued',
         \A h \in Host : pg[h] # Absent => pg'[h] # Absent /\ pg'[h].mgmt = pg[h].mgmt,
         issued' \in Nat, req'[r] # Idle => ManagementGood(req[r])'
  PROVE  ManagementInv'
<1>1. ASSUME NEW c \in Cluster, cfg'[c] # Absent
      PROVE  /\ pg'[cfg'[c].host] # Absent
             /\ pg'[cfg'[c].host].mgmt[cfg'[c].mgmt] = cfg'[c].mgmtPass
             /\ cfg'[c].mgmt <= issued'
  <2>1. /\ cfg[c].host \in Host /\ cfg[c].mgmt \in Nat
        /\ ManagementLogin(cfg[c]) /\ cfg[c].mgmt <= issued /\ issued \in Nat
    BY <1>1 DEF TypeInv, TypeOK, ManagementInv, ClusterEntry, Uuid
  <2> QED
    BY <1>1, <2>1 DEF ManagementLogin
<1> QED
  BY <1>1, ManagementStep

\* pathClusterUpdate: no entry names the role that is to be created.
LEMMA ManagementUpdate ==
  ASSUME OneAtATime, ConstantsOK, NoClash, TypeInv, TypeInv', ManagementInv, NEW r \in Request
  PROVE  /\ \A c \in Cluster, h \in Host : PathClusterUpdate(r, c, h) => ManagementInv'
         /\ CreateManagementRole(r) => ManagementInv'
         /\ UpdatePassword(r) => ManagementInv'
         /\ StoreCluster(r) => ManagementInv'
<1>1. issued \in Nat /\ issued' \in Nat
  BY DEF TypeInv, TypeOK
<1>2. ASSUME NEW c \in Cluster, NEW h \in Host, PathClusterUpdate(r, c, h)
      PROVE  ManagementInv'
  <2>1. /\ req'[r].pc = "createManagementRole" /\ req'[r].entry.mgmt = issued + 1
        /\ issued' = issued + 1 /\ UNCHANGED <<cfg, pg>>
    BY <1>2, NewJob DEF PathClusterUpdate, Begin, Draw, Fresh
  <2>2. ASSUME NEW k \in Cluster, cfg[k] # Absent PROVE cfg[k].mgmt # issued + 1
    BY <1>1, <2>2 DEF ManagementInv, TypeInv, TypeOK, ClusterEntry, Uuid
  <2>3. ManagementGood(req[r])'
    BY <1>1, <2>1, <2>2 DEF ManagementGood
  <2> QED
    BY <1>1, <2>1, <2>3, ManagementKept
<1>3. ASSUME In(r, UpdatePcs)
      PROVE  In(r, LoginPcs) /\ ManagementGood(req[r]) /\ req[r].entry.mgmt <= issued
  BY <1>3 DEF In, LoginPcs, ManagementInv, ManagementGood
<1>4. ASSUME CreateManagementRole(r) PROVE ManagementInv'
  <2> DEFINE e == req[r].entry
  <2>1. In(r, UpdatePcs) /\ In(r, LoginPcs) /\ In(r, ConnectedPcs)
    BY <1>4 DEF CreateManagementRole, At, In, UpdatePcs, LoginPcs, ConnectedPcs
  <2>2. /\ e.host \in Host /\ e.mgmt \in Uuid /\ pg[e.host] # Absent /\ e.mgmt <= issued
        /\ \A k \in Cluster : cfg[k] # Absent => cfg[k].mgmt # e.mgmt
    BY <1>3, <1>4, <2>1, LoginJob DEF CreateManagementRole, At, ManagementGood
  <2>3. /\ req'[r].pc = "updatePassword" /\ req'[r].entry = e
        /\ RoleSet(e.host, e.mgmt, e.mgmtPass) /\ UNCHANGED <<cfg, issued>>
    BY <1>4, NoClash, UpdateDoes DEF Onwards, CreateManagementRole
  <2> HIDE DEF e
  <2>4. ASSUME NEW k \in Cluster, cfg[k] # Absent
        PROVE  /\ pg'[cfg[k].host] # Absent
               /\ pg'[cfg[k].host].mgmt[cfg[k].mgmt] = cfg[k].mgmtPass
               /\ cfg[k].mgmt <= issued
    <3>1. cfg[k].host \in Host /\ cfg[k].mgmt \in Uuid /\ cfg[k].mgmt # e.mgmt
      BY <2>2, <2>4 DEF TypeInv, TypeOK, ClusterEntry
    <3>2. ManagementLogin(cfg[k]) /\ cfg[k].mgmt <= issued
      BY <2>4 DEF ManagementInv
    <3> QED
      BY <2>3, <3>1, <3>2 DEF RoleSet, ManagementLogin
  <2>5. pg'[e.host] # Absent /\ pg'[e.host].mgmt[e.mgmt] = e.mgmtPass
    BY <2>2, <2>3 DEF RoleSet
  <2>6. ManagementGood(req[r])'
    BY <2>2, <2>3, <2>5 DEF ManagementGood, ManagementLogin
  <2> QED
    BY <2>3, <2>4, <2>6, ManagementStep
<1>5. ASSUME UpdatePassword(r) PROVE ManagementInv'
  <2> DEFINE e == req[r].entry
  <2>1. In(r, UpdatePcs) /\ In(r, LoginPcs)
    BY <1>5 DEF UpdatePassword, At, In, UpdatePcs, LoginPcs
  <2>2. /\ e.host \in Host /\ e.mgmt <= issued /\ ManagementLogin(e)
    BY <1>3, <1>5, <2>1, LoginJob DEF UpdatePassword, At, ManagementGood
  <2>3. /\ req'[r].pc = "storeCluster" /\ req'[r].entry = e
        /\ PasswordSet(e.host, e.pass) /\ UNCHANGED <<cfg, issued>>
    BY <1>5, NoClash, UpdateDoes DEF Onwards, UpdatePassword
  <2> HIDE DEF e
  <2>4. pg'[e.host] # Absent /\ pg'[e.host].mgmt[e.mgmt] = e.mgmtPass
    BY <2>2, <2>3 DEF PasswordSet, ManagementLogin
  <2>5. ManagementGood(req[r])'
    BY <2>2, <2>3, <2>4 DEF ManagementGood, ManagementLogin
  <2>6. \A h \in Host : pg[h] # Absent => pg'[h] # Absent /\ pg'[h].mgmt = pg[h].mgmt
    BY <2>3 DEF PasswordSet
  <2> QED
    BY <1>1, <2>3, <2>5, <2>6, ManagementKept
<1>6. ASSUME StoreCluster(r) PROVE ManagementInv'
  <2>1. In(r, UpdatePcs)
    BY <1>6 DEF StoreCluster, At, In, UpdatePcs
  <2>2. ManagementLogin(req[r].entry) /\ req[r].entry.mgmt <= issued
    BY <1>3, <1>6, <2>1 DEF StoreCluster, At, ManagementGood
  <2>3. /\ cfg' = [cfg EXCEPT ![req[r].c] = req[r].entry]
        /\ req'[r] = Idle /\ UNCHANGED <<pg, issued>>
    BY <1>6, NewJob DEF StoreCluster, Return
  <2> QED
    BY <2>2, <2>3, ManagementStep DEF ManagementInv, ManagementLogin, TypeInv, TypeOK
<1> QED
  BY <1>2, <1>4, <1>5, <1>6

\* pathCloneUpdate: the rotated login is that of no stored entry.
LEMMA ManagementClone ==
  ASSUME OneAtATime, CloneServersApart, ConstantsOK, NoClash, TypeInv, TypeInv', SerialInv,
         ConcurrentInv, ManagementInv, NEW r \in Request
  PROVE  /\ \A source, c \in Cluster, h \in Host :
              PathCloneUpdate(r, source, c, h) => ManagementInv'
         /\ CheckTarget(r) => ManagementInv'
         /\ ConnectClone(r) => ManagementInv'
         /\ RotateManagement(r) => ManagementInv'
         /\ RotateRoot(r) => ManagementInv'
         /\ StoreTarget(r) => ManagementInv'
<1>1. issued \in Nat /\ issued' \in Nat
  BY DEF TypeInv, TypeOK
<1>2. ASSUME UNCHANGED <<cfg, pg, issued>>, req'[r] # Idle => ManagementGood(req[r])'
      PROVE  ManagementInv'
  BY <1>1, <1>2, ManagementKept
<1>3. ASSUME In(r, ClonePcs)
      PROVE  /\ In(r, LoginPcs) /\ req[r] \in CloneJob /\ req[r].c \in CloneTarget
             /\ ManagementGood(req[r]) /\ req[r].entry.mgmt <= issued
  <2>1. In(r, LoginPcs) /\ req[r].c \in CloneTarget
    BY <1>3 DEF In, LoginPcs, ConcurrentInv, JobKnown
  <2> QED
    BY <1>3, <2>1, LoginJob DEF In, ManagementInv, ManagementGood
<1>4. ASSUME NEW source \in Cluster, NEW c \in Cluster, NEW h \in Host,
             PathCloneUpdate(r, source, c, h)
      PROVE  ManagementInv'
  <2>1. /\ req'[r].pc = "checkTarget" /\ req'[r].entry = AtHost(cfg[source], h)
        /\ issued' = issued + 1 /\ UNCHANGED <<cfg, pg>>
    BY <1>4, NewJob DEF PathCloneUpdate, Begin, Draw, Fresh
  <2>2. cfg[source] \in ClusterEntry /\ cfg[source].mgmt <= issued
    BY <1>4 DEF PathCloneUpdate, Active, TypeInv, TypeOK, ManagementInv
  <2>3. req'[r].entry.mgmt <= issued'
    BY <1>1, <2>1, <2>2 DEF AtHost, ClusterEntry, Uuid
  <2>4. ManagementGood(req[r])'
    BY <2>1, <2>3 DEF ManagementGood
  <2> QED
    BY <1>1, <2>1, <2>4, ManagementKept
<1>5. ASSUME CheckTarget(r) PROVE ManagementInv'
  <2>1. req[r].entry.mgmt <= issued /\ UNCHANGED <<cfg, pg, issued>>
    BY <1>3, <1>5 DEF CheckTarget, At, In, ClonePcs
  <2>2. req'[r] = Idle \/ Onwards(r, "connectClone")
    BY <1>5, NoClash, NewJob, CloneDoes DEF Return
  <2> QED
    BY <1>2, <2>1, <2>2 DEF ManagementGood, Onwards
<1>6. ASSUME ConnectClone(r) PROVE ManagementInv'
  <2>1. req[r].entry.mgmt <= issued /\ UNCHANGED <<cfg, pg, issued>>
    BY <1>3, <1>6 DEF ConnectClone, At, In, ClonePcs
  <2>2. \/ req'[r] = Idle
        \/ Onwards(r, "rotateManagement") /\ ManagementLogin(req[r].entry)
    BY <1>6, NoClash, NewJob, CloneDoes DEF Return
  <2> QED
    BY <1>2, <2>1, <2>2 DEF ManagementGood, ManagementLogin, Onwards
<1>7. ASSUME RotateManagement(r) PROVE ManagementInv'
  <2> DEFINE e == req[r].entry
             p == req[r].id
  <2>1. In(r, ClonePcs) /\ In(r, ConnectedPcs)
    BY <1>7 DEF RotateManagement, At, In, ClonePcs, ConnectedPcs
  <2>2. /\ e \in ClusterEntry /\ e.host \in Host /\ e.mgmt \in Uuid /\ pg[e.host] # Absent
        /\ e.mgmt <= issued
    BY <1>3, <2>1, LoginJob DEF Enabled
  <2>3. /\ req'[r].pc = "rotateRoot" /\ req'[r].entry = [e EXCEPT !.mgmtPass = p]
        /\ RoleSet(e.host, e.mgmt, p) /\ UNCHANGED <<cfg, issued>>
    BY <1>7, NoClash, CloneDoes DEF RotateManagement
  <2>4. ASSUME NEW k \in Cluster, cfg[k] # Absent PROVE cfg[k].host # e.host
    <3>1. cfg[req[r].c] = Absent
      BY <1>7 DEF RotateManagement, At, SerialInv, JobInv, CreationInv
    <3>2. HostOf[req[r].c] \cap HostOf[k] = {}
      BY <1>3, <2>1, <2>4, <3>1 DEF CloneServersApart
    <3> QED
      BY <1>3, <2>1, <2>4, <3>2, Apart
  <2>5. req'[r].entry.host = e.host /\ req'[r].entry.mgmt = e.mgmt /\ req'[r].entry.mgmtPass = p
    BY <2>2, <2>3 DEF ClusterEntry
  <2> HIDE DEF e, p
  <2>6. ASSUME NEW k \in Cluster, cfg[k] # Absent
        PROVE  /\ pg'[cfg[k].host] # Absent
               /\ pg'[cfg[k].host].mgmt[cfg[k].mgmt] = cfg[k].mgmtPass
               /\ cfg[k].mgmt <= issued
    <3>1. cfg[k].host \in Host /\ cfg[k].mgmt \in Uuid /\ cfg[k].host # e.host
      BY <2>4, <2>6 DEF TypeInv, TypeOK, ClusterEntry
    <3>2. ManagementLogin(cfg[k]) /\ cfg[k].mgmt <= issued
      BY <2>6 DEF ManagementInv
    <3> QED
      BY <2>3, <3>1, <3>2 DEF RoleSet, ManagementLogin
  <2>7. pg'[e.host] # Absent /\ pg'[e.host].mgmt[e.mgmt] = p
    BY <2>2, <2>3 DEF RoleSet
  <2>8. ManagementGood(req[r])'
    BY <2>2, <2>3, <2>5, <2>7 DEF ManagementGood, ManagementLogin
  <2> QED
    BY <2>3, <2>6, <2>8, ManagementStep
<1>8. ASSUME RotateRoot(r) PROVE ManagementInv'
  <2> DEFINE e == req[r].entry
  <2>1. In(r, ClonePcs)
    BY <1>8 DEF RotateRoot, At, In, ClonePcs
  <2>2. /\ e \in ClusterEntry /\ e.host \in Host /\ e.mgmt <= issued /\ ManagementLogin(e)
    BY <1>3, <1>8, <2>1, LoginJob DEF RotateRoot, At, ManagementGood, Enabled
  <2>3. /\ req'[r].pc = "storeTarget" /\ req'[r].entry = [e EXCEPT !.pass = req[r].id]
        /\ PasswordSet(e.host, req[r].id) /\ UNCHANGED <<cfg, issued>>
    BY <1>8, NoClash, CloneDoes DEF RotateRoot
  <2>4. /\ req'[r].entry.host = e.host /\ req'[r].entry.mgmt = e.mgmt
        /\ req'[r].entry.mgmtPass = e.mgmtPass
    BY <2>2, <2>3 DEF ClusterEntry
  <2> HIDE DEF e
  <2>5. pg'[e.host] # Absent /\ pg'[e.host].mgmt[e.mgmt] = e.mgmtPass
    BY <2>2, <2>3 DEF PasswordSet, ManagementLogin
  <2>6. ManagementGood(req[r])'
    BY <2>2, <2>3, <2>4, <2>5 DEF ManagementGood, ManagementLogin
  <2>7. \A h \in Host : pg[h] # Absent => pg'[h] # Absent /\ pg'[h].mgmt = pg[h].mgmt
    BY <2>3 DEF PasswordSet
  <2> QED
    BY <1>1, <2>3, <2>6, <2>7, ManagementKept
<1>9. ASSUME StoreTarget(r) PROVE ManagementInv'
  <2>1. In(r, ClonePcs)
    BY <1>9 DEF StoreTarget, At, In, ClonePcs
  <2>2. ManagementLogin(req[r].entry) /\ req[r].entry.mgmt <= issued
    BY <1>3, <1>9, <2>1 DEF StoreTarget, At, ManagementGood
  <2>3. /\ cfg' = [cfg EXCEPT ![req[r].c] = req[r].entry]
        /\ req'[r].pc = "listSource" /\ UNCHANGED <<pg, issued>>
    BY <1>9, NewJob DEF StoreTarget
  <2>4. ManagementGood(req[r])'
    BY <2>3 DEF ManagementGood, LoginPcs, UpdatePcs, ClonePcs
  <2> QED
    BY <2>2, <2>3, <2>4, ManagementStep DEF ManagementInv, ManagementLogin, TypeInv, TypeOK
<1> QED
  BY <1>4, <1>5, <1>6, <1>7, <1>8, <1>9

\* cloneDbConfig reads and stores databases only.
LEMMA CopiesKeepLogins ==
  ASSUME TypeInv, NEW r \in Request,
         ListSource(r) \/ (\E d \in Database : LoadSource(r, d)) \/ StoreCopy(r)
  PROVE  UNCHANGED <<cfg, pg, issued>> /\ ~In(r, LoginPcs) /\ ~In(r, LoginPcs)'
<1> USE NewJob, JobByPc DEF LoginPcs, UpdatePcs, ClonePcs, In
<1>1. ASSUME ListSource(r) PROVE ~In(r, LoginPcs)'
  <2>1. [req[r] EXCEPT !.pc = "loadSource", !.todo = Listed(req[r].source)].pc = "loadSource"
    BY <1>1 DEF ListSource, At, TypeInv, TypeOK, CopyJob
  <2> QED
    BY <1>1, <2>1 DEF ListSource
<1>2. ASSUME NEW d \in Database, LoadSource(r, d) PROVE ~In(r, LoginPcs)'
  <2> DEFINE job == [req[r] EXCEPT !.todo = req[r].todo \ {d}]
  <2>1. job.pc = "loadSource"
    BY <1>2 DEF LoadSource, At, TypeInv, TypeOK, CopyJob
  <2>2. \/ Continue(r, job)
        \/ Continue(r, [pc |-> "storeCopy", source |-> req[r].source, c |-> req[r].c,
                        inherit |-> req[r].inherit, todo |-> req[r].todo \ {d}, d |-> d,
                        db |-> CopyTo(dbcfg[req[r].source][d], req[r].c)])
    BY <1>2 DEF LoadSource
  <2> HIDE DEF job
  <2> QED
    BY <2>1, <2>2
<1>3. ASSUME StoreCopy(r) PROVE ~In(r, LoginPcs)'
  BY <1>3 DEF StoreCopy
<1>4. UNCHANGED <<cfg, pg, issued>> /\ ~In(r, LoginPcs)
  BY DEF ListSource, LoadSource, StoreCopy, At
<1> QED
  BY <1>1, <1>2, <1>3, <1>4

\* The other calls: a deletion stores the login it has read, and a snapshot is
\* restored where no server was.
LEMMA ManagementRest ==
  ASSUME OneAtATime, NoClash, TypeInv, TypeInv', SerialInv, ManagementInv
  PROVE  /\ \A r \in Request :
              /\ Quiet(r) \/ Fail(r) => ManagementInv'
              /\ StoreClusterDisabled(r) \/ DeleteClusterEntry(r) => ManagementInv'
              /\ ListSource(r) \/ (\E d \in Database : LoadSource(r, d)) \/ StoreCopy(r)
                   => ManagementInv'
         /\ \A h, copy \in Host : RestoreSnapshot(h, copy) => ManagementInv'
         /\ UNCHANGED vars => ManagementInv'
<1>1. issued \in Nat /\ issued' \in Nat
  BY DEF TypeInv, TypeOK
<1>2. ASSUME NEW r \in Request, cfg' = cfg, issued <= issued', LoginsKeep, ~In(r, LoginPcs)'
      PROVE  ManagementInv'
  <2>1. req'[r] # Idle => ManagementGood(req[r])'
    BY <1>2 DEF In, ManagementGood, LoginPcs, UpdatePcs, ClonePcs
  <2> QED
    BY <1>1, <1>2, <2>1, ManagementKept DEF LoginsKeep
<1>3. UNCHANGED pg => LoginsKeep
  BY DEF LoginsKeep
<1>4. ASSUME NEW r \in Request, Quiet(r) PROVE ManagementInv'
  BY <1>2, <1>4 DEF Quiet
<1>5. ASSUME NEW r \in Request,
             ListSource(r) \/ (\E d \in Database : LoadSource(r, d)) \/ StoreCopy(r)
      PROVE  ManagementInv'
  <2>1. UNCHANGED <<cfg, pg, issued>> /\ ~In(r, LoginPcs)'
    BY <1>5, CopiesKeepLogins
  <2> QED
    BY <1>1, <1>2, <1>3, <2>1
<1>6. ASSUME NEW r \in Request, Fail(r) PROVE ManagementInv'
  <2>1. UNCHANGED <<cfg, pg, issued>> /\ ~In(r, LoginPcs)'
    BY <1>6, NewJob DEF Fail, Return, In
  <2> QED
    BY <1>1, <1>2, <1>3, <2>1
<1>7. ASSUME NEW r \in Request, StoreClusterDisabled(r) PROVE ManagementInv'
  <2> DEFINE e == Disable(req[r].entry)
  <2>1. req[r].entry = cfg[req[r].c] /\ req[r] \in DeleteJob
    BY <1>7, JobByPc DEF StoreClusterDisabled, At, SerialInv, JobInv, DeletionInv, TypeInv, TypeOK
  <2>2. req[r].c \in Cluster /\ req[r].entry \in ClusterEntry /\ cfg[req[r].c] # Absent
    BY <2>1 DEF DeleteJob, Enabled, NoClash
  <2>3. e.host = req[r].entry.host /\ e.mgmt = req[r].entry.mgmt /\ e.mgmtPass = req[r].entry.mgmtPass
    BY <2>2 DEF Disable, ClusterEntry
  <2>4. ManagementLogin(req[r].entry) /\ req[r].entry.mgmt <= issued
    BY <2>1, <2>2 DEF ManagementInv
  <2>5. cfg' = [cfg EXCEPT ![req[r].c] = e] /\ req'[r] = Idle /\ UNCHANGED <<pg, issued>>
    BY <1>7, NewJob DEF StoreClusterDisabled, Return
  <2> HIDE DEF e
  <2> QED
    BY <2>2, <2>3, <2>4, <2>5, ManagementStep DEF ManagementInv, ManagementLogin, TypeInv, TypeOK
<1>8. ASSUME NEW r \in Request, DeleteClusterEntry(r) PROVE ManagementInv'
  <2>1. /\ cfg' = [cfg EXCEPT ![req[r].c] = Absent]
        /\ req'[r] = Idle /\ UNCHANGED <<pg, issued>>
    BY <1>8, NewJob DEF DeleteClusterEntry, Return
  <2> QED
    BY <2>1, ManagementStep DEF ManagementInv, ManagementLogin, TypeInv, TypeOK
<1>9. ASSUME LoginsKeep, UNCHANGED <<cfg, issued, req>> PROVE ManagementInv'
  <2>1. ASSUME NEW e \in ClusterEntry, ManagementLogin(e)
        PROVE  pg'[e.host] # Absent /\ pg'[e.host].mgmt[e.mgmt] = e.mgmtPass
    <3>1. e.host \in Host
      BY DEF ClusterEntry
    <3> QED
      BY <1>9, <2>1, <3>1 DEF LoginsKeep, ManagementLogin
  <2>2. ASSUME NEW c \in Cluster, cfg'[c] # Absent
        PROVE  ManagementLogin(cfg[c])' /\ cfg'[c].mgmt <= issued'
    <3>1. cfg[c] \in ClusterEntry /\ ManagementLogin(cfg[c]) /\ cfg[c].mgmt <= issued
      BY <1>9, <2>2 DEF ManagementInv, TypeInv, TypeOK
    <3> QED
      BY <1>9, <2>1, <3>1 DEF ManagementLogin
  <2>3. ASSUME NEW r \in Request, req'[r] # Idle PROVE ManagementGood(req[r])'
    <3>1. ManagementGood(req[r]) /\ req'[r] = req[r]
      BY <1>9, <2>3 DEF ManagementInv
    <3>2. ASSUME In(r, LoginPcs), ManagementLogin(req[r].entry)
          PROVE  ManagementLogin(req[r].entry)'
      <4>1. req[r].entry \in ClusterEntry
        BY <3>2, LoginJob DEF Enabled
      <4> QED
        BY <2>1, <3>1, <3>2, <4>1 DEF ManagementLogin
    <3>3. req[r].pc \in {"updatePassword", "storeCluster", "rotateManagement", "rotateRoot",
                         "storeTarget"} => In(r, LoginPcs)
      BY <1>9, <2>3 DEF In, LoginPcs, UpdatePcs, ClonePcs
    <3> QED
      BY <1>9, <3>1, <3>2, <3>3 DEF ManagementGood
  <2> QED
    BY <2>2, <2>3 DEF ManagementInv
<1>10. ASSUME NEW h \in Host, NEW copy \in Host, RestoreSnapshot(h, copy) PROVE ManagementInv'
  <2>1. LoginsKeep
    BY <1>10 DEF RestoreSnapshot, LoginsKeep, TypeInv, TypeOK
  <2> QED
    BY <1>9, <1>10, <2>1 DEF RestoreSnapshot
<1>11. UNCHANGED vars => ManagementInv'
  BY <1>3, <1>9 DEF vars
<1> QED
  BY <1>4, <1>5, <1>6, <1>7, <1>8, <1>10, <1>11

\* The entry of every cluster logs in as its management role, whatever the
\* handler that stored it, and the one that was cut short after it, have done.
THEOREM ManagementLogins ==
  ASSUME OneAtATime, CloneServersApart
  PROVE  Spec => []ManagementCredentialsWork
<1>1. Init => ManagementInv
  BY DEF Init, ManagementInv
<1>2. ASSUME TypeInv, TypeInv', SerialInv, ConcurrentInv, ManagementInv, [Next]_vars
      PROVE  ManagementInv'
  <2>1. ASSUME NEW r \in Request, Start(r) \/ Step(r) PROVE ManagementInv'
    BY <1>2, <2>1, OneAtATime, CloneServersApart, ConstantsOK, NoClash, QuietRest,
       ManagementUpdate, ManagementClone, ManagementRest
  <2> QED
    BY <1>2, <2>1, OneAtATime, NoClash, ManagementRest DEF Next
<1>3. TypeInv <=> TypeOK /\ ServersExist
  BY DEF TypeInv
<1>4. ManagementInv => ManagementCredentialsWork
  BY DEF ManagementInv, ManagementCredentialsWork
<1> QED
  BY <1>1, <1>2, <1>3, <1>4, Typing, SerialSafety, ConcurrentInvariance, OneAtATime, PTL DEF Spec

(***************************************************************************)
(* Root logins, when no call fails: an update's new password is known to   *)
(* the update alone until it has stored the entry.                         *)
(***************************************************************************)
LEMMA RootStep ==
  ASSUME OneAtATime, NEW r \in Request,
         \A c \in Cluster : cfg'[c] # Absent =>
           \/ pg'[cfg'[c].host] # Absent /\ pg'[cfg'[c].host].root = cfg'[c].pass
           \/ At(r, "storeCluster")' /\ req'[r].c = c,
         In(r, {"storeCluster", "storeTarget"})' => RootLogin(req[r].entry)'
  PROVE  RootInv'
  BY DEF OneAtATime, RootInv, RootLogin

\* No update has a new password in its hands.
LEMMA RootsLogIn ==
  ASSUME OneAtATime, TypeInv, RootInv, NEW r \in Request, ~At(r, "storeCluster"),
         NEW c \in Cluster, cfg[c] # Absent
  PROVE  cfg[c].host \in Host /\ pg[cfg[c].host] # Absent /\ pg[cfg[c].host].root = cfg[c].pass
<1>1. RootLogin(cfg[c])
  BY DEF OneAtATime, RootInv
<1> QED
  BY <1>1 DEF RootLogin, TypeInv, TypeOK, ClusterEntry

\* A call that leaves the clusters and the root passwords alone.
LEMMA RootKept ==
  ASSUME OneAtATime, TypeInv, RootInv, NEW r \in Request, ~At(r, "storeCluster"), cfg' = cfg,
         \A h \in Host : pg[h] # Absent => pg'[h] # Absent /\ pg'[h].root = pg[h].root,
         ~In(r, {"storeCluster", "storeTarget"})'
  PROVE  RootInv'
  BY RootsLogIn, RootStep

\* pathClusterUpdate: the entries of the other clusters name other servers.
LEMMA RootUpdate ==
  ASSUME OneAtATime, OwnServers, NoClash, TypeInv, ConcurrentInv, RootInv, NEW r \in Request
  PROVE  /\ \A c \in Cluster, h \in Host : PathClusterUpdate(r, c, h) => RootInv'
         /\ CreateManagementRole(r) => RootInv'
         /\ UpdatePassword(r) => RootInv'
         /\ StoreCluster(r) => RootInv'
<1>1. ASSUME NEW c \in Cluster, NEW h \in Host, PathClusterUpdate(r, c, h)
      PROVE  RootInv'
  <2>1. /\ ~At(r, "storeCluster") /\ ~In(r, {"storeCluster", "storeTarget"})'
        /\ UNCHANGED <<cfg, pg>>
    BY <1>1, NewJob DEF PathClusterUpdate, Begin, At, In
  <2> QED
    BY <2>1, RootKept
<1>2. ASSUME CreateManagementRole(r) PROVE RootInv'
  <2>1. Onwards(r, "updatePassword")
    BY <1>2, NoClash, UpdateDoes
  <2>2. /\ ~At(r, "storeCluster") /\ ~In(r, {"storeCluster", "storeTarget"})' /\ cfg' = cfg
    BY <1>2, <2>1 DEF CreateManagementRole, At, In, Onwards
  <2>3. \A h \in Host : pg[h] # Absent => pg'[h] # Absent /\ pg'[h].root = pg[h].root
    BY <1>2, NoClash, UpdateDoes DEF RoleSet
  <2> QED
    BY <2>2, <2>3, RootKept
<1>3. ASSUME UpdatePassword(r) PROVE RootInv'
  <2> DEFINE e == req[r].entry
             c == req[r].c
  <2>1. /\ In(r, LoginPcs) /\ ~At(r, "storeCluster") /\ In(r, ConnectedPcs) /\ cfg' = cfg
    BY <1>3 DEF UpdatePassword, At, In, UpdatePcs, LoginPcs, ConnectedPcs
  <2>2. c \in Cluster /\ e.host \in Host /\ pg[e.host] # Absent
    BY <2>1, LoginJob
  <2>3. /\ req'[r].pc = "storeCluster" /\ req'[r].c = c /\ req'[r].entry = e
        /\ PasswordSet(e.host, e.pass)
    BY <1>3, NoClash, UpdateDoes DEF Onwards
  <2>4. At(r, "storeCluster")'
    <3>1. req'[r] = [req[r] EXCEPT !.pc = "storeCluster"] /\ req'[r] # Idle
      <4>1. req[r] \in UpdateJob
        BY <1>3, JobByPc DEF UpdatePassword, At, TypeInv, TypeOK
      <4>2. [req[r] EXCEPT !.pc = "storeCluster"] \in UpdateJob
        BY <4>1 DEF UpdateJob
      <4> QED
        BY <1>3, <4>2, NewJob, JobsAreJobs, NoClash DEF UpdatePassword, Goto
    <3> QED
      BY <2>3, <3>1 DEF At
  <2>5. ASSUME NEW k \in Cluster \ {c}, cfg[k] # Absent
        PROVE  pg'[cfg[k].host] # Absent /\ pg'[cfg[k].host].root = cfg[k].pass
    <3>1. cfg[k].host # e.host
      BY <2>1, <2>2, <2>5, Apart DEF OwnServers
    <3>2. cfg[k].host \in Host /\ pg[cfg[k].host] # Absent /\ pg[cfg[k].host].root = cfg[k].pass
      BY <2>1, <2>5, RootsLogIn
    <3> QED
      BY <2>3, <3>1, <3>2 DEF PasswordSet
  <2>6. RootLogin(req[r].entry)'
    BY <2>2, <2>3 DEF RootLogin, PasswordSet
  <2> HIDE DEF e
  <2> QED
    BY <2>1, <2>3, <2>4, <2>5, <2>6, RootStep
<1>4. ASSUME StoreCluster(r) PROVE RootInv'
  <2>1. RootLogin(req[r].entry) /\ In(r, LoginPcs)
    BY <1>4 DEF StoreCluster, At, In, LoginPcs, UpdatePcs, RootInv
  <2>2. /\ cfg' = [cfg EXCEPT ![req[r].c] = req[r].entry] /\ req'[r] = Idle /\ pg' = pg
    BY <1>4, NewJob DEF StoreCluster, Return
  <2>3. ASSUME NEW k \in Cluster, cfg[k] # Absent, k # req[r].c PROVE RootLogin(cfg[k])
    BY <2>3 DEF RootInv, OneAtATime
  <2> QED
    BY <2>1, <2>2, <2>3, RootStep DEF RootLogin, In, TypeInv, TypeOK
<1> QED
  BY <1>1, <1>2, <1>3, <1>4

\* pathCloneUpdate: the target is no cluster yet, and its server no cluster's.
LEMMA RootClone ==
  ASSUME OneAtATime, OwnServers, NoClash, TypeInv, SerialInv, ConcurrentInv, RootInv,
         NEW r \in Request
  PROVE  /\ \A source, c \in Cluster, h \in Host : PathCloneUpdate(r, source, c, h) => RootInv'
         /\ CheckTarget(r) => RootInv'
         /\ ConnectClone(r) => RootInv'
         /\ RotateManagement(r) => RootInv'
         /\ RotateRoot(r) => RootInv'
         /\ StoreTarget(r) => RootInv'
<1>1. ASSUME UNCHANGED <<cfg, pg>>, ~At(r, "storeCluster"),
             ~In(r, {"storeCluster", "storeTarget"})'
      PROVE  RootInv'
  BY <1>1, RootKept
<1>2. ASSUME NEW source \in Cluster, NEW c \in Cluster, NEW h \in Host,
             PathCloneUpdate(r, source, c, h)
      PROVE  RootInv'
  BY <1>1, <1>2, NewJob DEF PathCloneUpdate, Begin, At, In
<1>3. ASSUME CheckTarget(r) \/ ConnectClone(r) PROVE RootInv'
  <2>1. req'[r] = Idle \/ Onwards(r, "connectClone") \/ Onwards(r, "rotateManagement")
    BY <1>3, NoClash, NewJob, CloneDoes DEF Return
  <2> QED
    BY <1>1, <1>3, <2>1 DEF CheckTarget, ConnectClone, At, In, Onwards
<1>4. ASSUME RotateManagement(r) PROVE RootInv'
  <2>1. /\ req'[r].pc = "rotateRoot" /\ cfg' = cfg /\ ~At(r, "storeCluster")
        /\ RoleSet(req[r].entry.host, req[r].entry.mgmt, req[r].id)
    BY <1>4, NoClash, CloneDoes DEF RotateManagement, At
  <2>2. \A h \in Host : pg[h] # Absent => pg'[h] # Absent /\ pg'[h].root = pg[h].root
    BY <2>1 DEF RoleSet
  <2> QED
    BY <2>1, <2>2, RootKept DEF In
<1>5. ASSUME RotateRoot(r) PROVE RootInv'
  <2> DEFINE e == req[r].entry
             p == req[r].id
  <2>1. /\ In(r, LoginPcs) /\ ~At(r, "storeCluster") /\ In(r, ConnectedPcs) /\ cfg' = cfg
        /\ cfg[req[r].c] = Absent
    BY <1>5 DEF RotateRoot, At, In, ClonePcs, LoginPcs, ConnectedPcs, SerialInv, JobInv,
       CreationInv
  <2>2. /\ req[r].c \in Cluster /\ e \in ClusterEntry /\ e.host \in Host /\ pg[e.host] # Absent
    BY <2>1, LoginJob DEF Enabled
  <2>3. /\ req'[r].pc = "storeTarget" /\ req'[r].entry = [e EXCEPT !.pass = p]
        /\ PasswordSet(e.host, p)
    BY <1>5, NoClash, CloneDoes
  <2>4. req'[r].entry.host = e.host /\ req'[r].entry.pass = p
    BY <2>2, <2>3 DEF ClusterEntry
  <2>5. ASSUME NEW k \in Cluster, cfg[k] # Absent
        PROVE  pg'[cfg[k].host] # Absent /\ pg'[cfg[k].host].root = cfg[k].pass
    <3>1. cfg[k].host # e.host
      BY <2>1, <2>2, <2>5, Apart DEF OwnServers
    <3>2. cfg[k].host \in Host /\ pg[cfg[k].host] # Absent /\ pg[cfg[k].host].root = cfg[k].pass
      BY <2>1, <2>5, RootsLogIn
    <3> QED
      BY <2>3, <3>1, <3>2 DEF PasswordSet
  <2>6. RootLogin(req[r].entry)'
    BY <2>2, <2>3, <2>4 DEF RootLogin, PasswordSet
  <2> HIDE DEF e, p
  <2> QED
    BY <2>1, <2>5, <2>6, RootStep
<1>6. ASSUME StoreTarget(r) PROVE RootInv'
  <2>1. RootLogin(req[r].entry) /\ ~At(r, "storeCluster")
    BY <1>6 DEF StoreTarget, At, In, RootInv
  <2>2. /\ cfg' = [cfg EXCEPT ![req[r].c] = req[r].entry] /\ pg' = pg
        /\ req'[r].pc = "listSource"
    BY <1>6, NewJob DEF StoreTarget
  <2> QED
    BY <2>1, <2>2, RootsLogIn, RootStep DEF RootLogin, In, TypeInv, TypeOK
<1> QED
  BY <1>2, <1>3, <1>4, <1>5, <1>6

\* The other calls.
LEMMA RootRest ==
  ASSUME OneAtATime, NoClash, TypeInv, SerialInv, RootInv
  PROVE  /\ \A r \in Request :
              /\ Quiet(r) => RootInv'
              /\ StoreClusterDisabled(r) \/ DeleteClusterEntry(r) => RootInv'
              /\ ListSource(r) \/ (\E d \in Database : LoadSource(r, d)) \/ StoreCopy(r)
                   => RootInv'
         /\ \A h, copy \in Host : RestoreSnapshot(h, copy) => RootInv'
         /\ UNCHANGED vars => RootInv'
<1>1. ASSUME NEW r \in Request, cfg' = cfg, LoginsKeep, ~In(r, LoginPcs), ~In(r, LoginPcs)'
      PROVE  RootInv'
  <2>1. ~At(r, "storeCluster") /\ ~In(r, {"storeCluster", "storeTarget"})'
    BY <1>1 DEF At, In, LoginPcs, UpdatePcs, ClonePcs
  <2> QED
    BY <1>1, <2>1, RootKept DEF LoginsKeep
<1>2. ASSUME NEW r \in Request, Quiet(r) PROVE RootInv'
  BY <1>1, <1>2 DEF Quiet
<1>3. ASSUME NEW r \in Request,
             ListSource(r) \/ (\E d \in Database : LoadSource(r, d)) \/ StoreCopy(r)
      PROVE  RootInv'
  <2>1. UNCHANGED <<cfg, pg>> /\ ~In(r, LoginPcs) /\ ~In(r, LoginPcs)'
    BY <1>3, CopiesKeepLogins
  <2> QED
    BY <1>1, <2>1 DEF LoginsKeep
<1>4. ASSUME NEW r \in Request, StoreClusterDisabled(r) PROVE RootInv'
  <2> DEFINE e == Disable(req[r].entry)
  <2>1. req[r].entry = cfg[req[r].c] /\ req[r] \in DeleteJob /\ ~At(r, "storeCluster")
    BY <1>4, JobByPc DEF StoreClusterDisabled, At, SerialInv, JobInv, DeletionInv, TypeInv, TypeOK
  <2>2. req[r].c \in Cluster /\ req[r].entry \in ClusterEntry /\ cfg[req[r].c] # Absent
    BY <2>1 DEF DeleteJob, Enabled, NoClash
  <2>3. e.host = req[r].entry.host /\ e.pass = req[r].entry.pass
    BY <2>2 DEF Disable, ClusterEntry
  <2>4. cfg' = [cfg EXCEPT ![req[r].c] = e] /\ req'[r] = Idle /\ pg' = pg
    BY <1>4, NewJob DEF StoreClusterDisabled, Return
  <2> HIDE DEF e
  <2> QED
    BY <2>1, <2>2, <2>3, <2>4, RootsLogIn, RootStep DEF In, TypeInv, TypeOK
<1>5. ASSUME NEW r \in Request, DeleteClusterEntry(r) PROVE RootInv'
  <2>1. /\ cfg' = [cfg EXCEPT ![req[r].c] = Absent] /\ req'[r] = Idle /\ pg' = pg
        /\ ~At(r, "storeCluster")
    BY <1>5, NewJob DEF DeleteClusterEntry, Return, At
  <2> QED
    BY <2>1, RootsLogIn, RootStep DEF In, TypeInv, TypeOK
<1>6. ASSUME LoginsKeep, UNCHANGED <<cfg, req>> PROVE RootInv'
  <2>1. ASSUME NEW e \in ClusterEntry, RootLogin(e)
        PROVE  pg'[e.host] # Absent /\ pg'[e.host].root = e.pass
    <3>1. e.host \in Host
      BY DEF ClusterEntry
    <3> QED
      BY <1>6, <2>1, <3>1 DEF LoginsKeep, RootLogin
  <2>2. ASSUME NEW c \in Cluster, cfg'[c] # Absent
        PROVE  RootLogin(cfg[c])' \/ \E r \in Request : At(r, "storeCluster")' /\ req'[r].c = c
    <3>1. cfg[c] \in ClusterEntry
      BY <1>6, <2>2 DEF TypeInv, TypeOK
    <3>2. RootLogin(cfg[c]) \/ \E r \in Request : At(r, "storeCluster") /\ req[r].c = c
      BY <1>6, <2>2 DEF RootInv
    <3> QED
      BY <1>6, <2>1, <3>1, <3>2 DEF RootLogin, At
  <2>3. ASSUME NEW r \in Request, In(r, {"storeCluster", "storeTarget"})'
        PROVE  RootLogin(req[r].entry)'
    <3>1. In(r, {"storeCluster", "storeTarget"}) /\ In(r, LoginPcs)
      BY <1>6, <2>3 DEF In, LoginPcs, UpdatePcs, ClonePcs
    <3>2. RootLogin(req[r].entry) /\ req[r].entry \in ClusterEntry
      BY <3>1, LoginJob DEF RootInv, Enabled
    <3> QED
      BY <1>6, <2>1, <3>2 DEF RootLogin
  <2> QED
    BY <2>2, <2>3 DEF RootInv
<1>7. ASSUME NEW h \in Host, NEW copy \in Host, RestoreSnapshot(h, copy) PROVE RootInv'
  <2>1. LoginsKeep
    BY <1>7 DEF RestoreSnapshot, LoginsKeep, TypeInv, TypeOK
  <2> QED
    BY <1>6, <1>7, <2>1 DEF RestoreSnapshot
<1>8. UNCHANGED vars => RootInv'
  BY <1>6 DEF vars, LoginsKeep
<1> QED
  BY <1>2, <1>3, <1>4, <1>5, <1>7, <1>8

\* Between requests the entry of every cluster logs in as root: no rotation of
\* the root password is lost as long as no call fails.
THEOREM RootLogins ==
  ASSUME OneAtATime, OwnServers, ~Faults
  PROVE  Spec => []RootCredentialsWork
<1>1. Init => RootInv
  BY DEF Init, RootInv, In
<1>2. ASSUME TypeInv, SerialInv, ConcurrentInv, RootInv, [Next]_vars PROVE RootInv'
  <2>1. ASSUME NEW r \in Request, Start(r) \/ Step(r) PROVE RootInv'
    BY <1>2, <2>1, OneAtATime, OwnServers, ConstantsOK, NoClash, QuietRest,
       RootUpdate, RootClone, RootRest
  <2>2. ASSUME NEW r \in Request, Fail(r) PROVE RootInv'
    BY <2>2, ~Faults DEF Fail
  <2> QED
    BY <1>2, <2>1, <2>2, OneAtATime, NoClash, RootRest DEF Next
<1>3. TypeInv <=> TypeOK /\ ServersExist
  BY DEF TypeInv
<1>4. RootInv => RootCredentialsWork
  BY DEF RootInv, RootCredentialsWork, At
<1> QED
  BY <1>1, <1>2, <1>3, <1>4, Typing, SerialSafety, ConcurrentInvariance, OneAtATime, PTL DEF Spec
=============================================================================
