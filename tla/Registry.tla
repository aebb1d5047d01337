------------------------------ MODULE Registry ------------------------------
(***************************************************************************)
(* The configuration side of the plugin: registering, deleting, purging    *)
(* and cloning clusters and their databases.  The plugin process keeps no  *)
(* state of its own; the handlers share Vault's storage (cfg, dbcfg) and   *)
(* the Postgres servers (pg), take no lock, and run concurrently, each     *)
(* request in a slot of req.  A step is one call of a handler to storage   *)
(* or to a server together with the local code up to the next call.        *)
(*                                                                         *)
(* A request draws its random identifiers when it starts and one number    *)
(* stands for all of them: the role name and the passwords it creates.     *)
(***************************************************************************)
EXTENDS Naturals

CONSTANTS
  Cluster,          \* cluster names
  Database,         \* database names
  Host,             \* Postgres servers
  Provisioned,      \* the servers that exist at the start
  Existing,         \* the databases they have then
  HostOf,           \* the servers an operator may name for each cluster
  CloneTarget,      \* the cluster names used as the target of a clone
  GivenOwner,       \* values of objects_owner_role
  Initialize,       \* values of the flags initialize, create_db and
  CreateDb,         \*   inherit_deleted_db that requests carry
  InheritDeleted,
  Request,          \* request slots: how many handlers run at once
  Faults,           \* may a call fail, a request be cancelled, the plugin die
  MaxUuid,          \* bound on the random identifiers drawn
  Absent, Idle      \* no entry under a key; no request in a slot

ASSUME ConstantsOK ==
  /\ Provisioned \subseteq Host /\ Existing \subseteq Database
  /\ HostOf \in [Cluster -> SUBSET Host]
  /\ CloneTarget \subseteq Cluster
  /\ {Initialize, CreateDb, InheritDeleted} \subseteq SUBSET BOOLEAN
  /\ Faults \in BOOLEAN
  /\ MaxUuid \in Nat

Uuid == 1 .. MaxUuid
Password == 0 .. MaxUuid    \* 0 is the password the operator set up
Owner == GivenOwner \cup Uuid

ClusterEntry == [host : Host, pass : Uuid, mgmt : Uuid, mgmtPass : Uuid,
                 disabled : BOOLEAN]
DbEntry == [cluster : Cluster, owner : Owner, disabled : BOOLEAN]

\* mgmt is the password of every management role, dbs and owners what exists.
Server == [root : Password, mgmt : [Uuid -> Uuid \cup {Absent}],
           dbs : SUBSET Database, owners : SUBSET Owner]

Enabled(Entry) == {e \in Entry : ~e.disabled}
Disabled(Entry) == {e \in Entry : e.disabled}

(***************************************************************************)
(* The local state of a handler: where it is, and what it has read.        *)
(***************************************************************************)
UpdateJob == [pc : {"createManagementRole", "updatePassword", "storeCluster"},
              c : Cluster, entry : Enabled(ClusterEntry)]
DeleteJob == [pc : {"listToDelete", "loadToDelete"},
              c : Cluster, entry : Enabled(ClusterEntry),
              todo : SUBSET Database]
DisableJob == [pc : {"storeDisabled"}, c : Cluster,
               entry : Enabled(ClusterEntry), todo : SUBSET Database,
               d : Database, db : Disabled(DbEntry)]
PurgeJob == [pc : {"listToPurge", "loadToPurge"},
             c : Cluster, todo : SUBSET Database]
PurgeNextJob == [pc : {"deletePurged"},
                 c : Cluster, todo : SUBSET Database, d : Database]
RegisterPcs == {"checkDatabase", "loadForRoot", "connectRoot", "createDb",
                "loadForManagement", "connectManagement", "createOwner",
                "storeDatabase"}
RegisterJob == [pc : RegisterPcs,
                c : Cluster, d : Database, mgmt : Uuid, entry : ClusterEntry,
                owner : Owner, initialize : BOOLEAN, create : BOOLEAN]
DropJob == [pc : {"loadToDrop"}, c : Cluster, d : Database]
DropStoreJob == [pc : {"storeDropped"}, c : Cluster, d : Database,
                 db : Disabled(DbEntry)]
PurgeDbJob == [pc : {"purgeDatabase"}, c : Cluster, d : Database]
CloneJob == [pc : {"checkTarget", "connectClone", "rotateManagement",
                   "rotateRoot", "storeTarget"},
             source : Cluster, c : Cluster, entry : Enabled(ClusterEntry),
             id : Uuid, inherit : BOOLEAN]
CopyJob == [pc : {"listSource", "loadSource"}, source : Cluster, c : Cluster,
            inherit : BOOLEAN, todo : SUBSET Database]
CopyStoreJob == [pc : {"storeCopy"}, source : Cluster, c : Cluster,
                 inherit : BOOLEAN, todo : SUBSET Database, d : Database,
                 db : DbEntry]

Job == UpdateJob \cup DeleteJob \cup DisableJob \cup PurgeJob
       \cup PurgeNextJob \cup RegisterJob \cup DropJob \cup DropStoreJob
       \cup PurgeDbJob \cup CloneJob \cup CopyJob \cup CopyStoreJob

ASSUME NoClash ==
  /\ Absent \notin ClusterEntry /\ Absent \notin DbEntry
  /\ Absent \notin Server /\ Absent \notin Uuid
  /\ Idle \notin Job

VARIABLES
  cfg,       \* storage: config/cluster/<c>
  dbcfg,     \* storage: config/cluster/<c>/database/<d>
  pg,        \* the Postgres servers
  issued,    \* identifiers 1 .. issued have been drawn
  req        \* the requests in flight

vars == <<cfg, dbcfg, pg, issued, req>>

TypeOK ==
  /\ cfg \in [Cluster -> ClusterEntry \cup {Absent}]
  /\ dbcfg \in [Cluster -> [Database -> DbEntry \cup {Absent}]]
  /\ pg \in [Host -> Server \cup {Absent}]
  /\ issued \in 0 .. MaxUuid
  /\ req \in [Request -> Job \cup {Idle}]

NewServer == [root |-> 0, mgmt |-> [i \in Uuid |-> Absent],
              dbs |-> Existing, owners |-> {}]

Init ==
  /\ cfg = [c \in Cluster |-> Absent]
  /\ dbcfg = [c \in Cluster |-> [d \in Database |-> Absent]]
  /\ pg = [h \in Host |-> IF h \in Provisioned THEN NewServer ELSE Absent]
  /\ issued = 0
  /\ req = [r \in Request |-> Idle]

(***************************************************************************)
(* What the handlers are built from.                                       *)
(***************************************************************************)
Active(c) == cfg[c] # Absent /\ ~cfg[c].disabled
Deleted(c) == cfg[c] # Absent /\ cfg[c].disabled
ActiveDb(c, d) == dbcfg[c][d] # Absent /\ ~dbcfg[c][d].disabled
DeletedDb(c, d) == dbcfg[c][d] # Absent /\ dbcfg[c][d].disabled

\* storage.List under the prefix of a cluster's databases
Listed(c) == {d \in Database : dbcfg[c][d] # Absent}

DisableNothing(e) == e   \* mutant: the flag is not set
Disable(e) == [e EXCEPT !.disabled = TRUE]

\* Do the credentials an entry holds open a connection to its server?
RootLogin(e) == pg[e.host] # Absent /\ pg[e.host].root = e.pass
ManagementLogin(e) == pg[e.host] # Absent /\ pg[e.host].mgmt[e.mgmt] = e.mgmtPass

\* What a clone changes in what it has read: an entry it is to store, and the
\* cluster's entry before it connects.
CopyAsIs(db, c) == db       \* mutant: the copy still names the source
CopyTo(db, c) == [db EXCEPT !.cluster = c]
KeepHost(e, h) == e         \* mutant: the clone works on the source's server
AtHost(e, h) == [e EXCEPT !.host = h]

At(r, pc) == req[r] # Idle /\ req[r].pc = pc
Continue(r, job) == req' = [req EXCEPT ![r] = job]
Goto(r, pc) == Continue(r, [req[r] EXCEPT !.pc = pc])
Return(r) == Continue(r, Idle)

Fresh == issued + 1
Begin(r, job) == req[r] = Idle /\ Continue(r, job)
Draw == issued < MaxUuid /\ issued' = Fresh

SetPassword(h, p) == pg' = [pg EXCEPT ![h].root = p]
SetRole(h, m, p) == pg' = [pg EXCEPT ![h].mgmt[m] = p]

(***************************************************************************)
(* cluster/<c>, update: pathClusterUpdate.  The request carries the root   *)
(* password, so that the ping succeeds on any server that is there.        *)
(***************************************************************************)
PathClusterUpdate(r, c, h) ==
  /\ ~Deleted(c)
  /\ h \in HostOf[c] /\ pg[h] # Absent
  /\ Draw
  /\ Begin(r, [pc |-> "createManagementRole", c |-> c,
               entry |-> [host |-> h, pass |-> Fresh, mgmt |-> Fresh,
                          mgmtPass |-> Fresh, disabled |-> FALSE]])
  /\ UNCHANGED <<cfg, dbcfg, pg>>

CreateManagementRole(r) ==
  /\ At(r, "createManagementRole")
  /\ LET e == req[r].entry IN SetRole(e.host, e.mgmt, e.mgmtPass)
  /\ Goto(r, "updatePassword")
  /\ UNCHANGED <<cfg, dbcfg, issued>>

UpdatePassword(r) ==
  /\ At(r, "updatePassword")
  /\ SetPassword(req[r].entry.host, req[r].entry.pass)
  /\ Goto(r, "storeCluster")
  /\ UNCHANGED <<cfg, dbcfg, issued>>

StoreCluster(r) ==
  /\ At(r, "storeCluster")
  /\ cfg' = [cfg EXCEPT ![req[r].c] = req[r].entry]
  /\ Return(r)
  /\ UNCHANGED <<dbcfg, pg, issued>>

(***************************************************************************)
(* cluster/<c>, delete: pathClusterDelete.                                 *)
(***************************************************************************)
PathClusterDelete(r, c) ==
  /\ Active(c)
  /\ Begin(r, [pc |-> "listToDelete", c |-> c, entry |-> cfg[c], todo |-> {}])
  /\ UNCHANGED <<cfg, dbcfg, pg, issued>>

ListToDelete(r) ==
  /\ At(r, "listToDelete")
  /\ Continue(r, [req[r] EXCEPT !.pc = "loadToDelete", !.todo = Listed(req[r].c)])
  /\ UNCHANGED <<cfg, dbcfg, pg, issued>>

\* mutant: a disabled database ends the request
LoadToDeleteOnce(r, d) ==
  /\ At(r, "loadToDelete") /\ d \in req[r].todo
  /\ IF ActiveDb(req[r].c, d)
     THEN Continue(r, [pc |-> "storeDisabled", c |-> req[r].c,
                       entry |-> req[r].entry, todo |-> req[r].todo \ {d},
                       d |-> d, db |-> Disable(dbcfg[req[r].c][d])])
     ELSE Return(r)
  /\ UNCHANGED <<cfg, dbcfg, pg, issued>>

\* ErrNotFound ends the request; a disabled database is skipped.
LoadToDelete(r, d) ==
  /\ At(r, "loadToDelete") /\ d \in req[r].todo
  /\ LET c == req[r].c
         rest == req[r].todo \ {d}
     IN  \/ dbcfg[c][d] = Absent /\ Return(r)
         \/ /\ DeletedDb(c, d)
            /\ Continue(r, [req[r] EXCEPT !.todo = rest])
         \/ /\ ActiveDb(c, d)
            /\ Continue(r, [pc |-> "storeDisabled", c |-> c,
                            entry |-> req[r].entry, todo |-> rest, d |-> d,
                            db |-> Disable(dbcfg[c][d])])
  /\ UNCHANGED <<cfg, dbcfg, pg, issued>>

StoreDisabled(r) ==
  /\ At(r, "storeDisabled")
  /\ dbcfg' = [dbcfg EXCEPT ![req[r].c][req[r].d] = req[r].db]
  /\ Continue(r, [pc |-> "loadToDelete", c |-> req[r].c,
                  entry |-> req[r].entry, todo |-> req[r].todo])
  /\ UNCHANGED <<cfg, pg, issued>>

\* mutant: the cluster is disabled before its databases
StoreClusterDisabledFirst(r) ==
  /\ At(r, "loadToDelete")
  /\ cfg' = [cfg EXCEPT ![req[r].c] = Disable(req[r].entry)]
  /\ Return(r)
  /\ UNCHANGED <<dbcfg, pg, issued>>

StoreClusterDisabled(r) ==
  /\ At(r, "loadToDelete") /\ req[r].todo = {}
  /\ cfg' = [cfg EXCEPT ![req[r].c] = Disable(req[r].entry)]
  /\ Return(r)
  /\ UNCHANGED <<dbcfg, pg, issued>>

(***************************************************************************)
(* gc/cluster/<c>, delete: gcPurgeCluster.                                 *)
(***************************************************************************)
GcPurgeCluster(r, c) ==
  /\ Deleted(c)
  /\ Begin(r, [pc |-> "listToPurge", c |-> c, todo |-> {}])
  /\ UNCHANGED <<cfg, dbcfg, pg, issued>>

ListToPurge(r) ==
  /\ At(r, "listToPurge")
  /\ Continue(r, [req[r] EXCEPT !.pc = "loadToPurge", !.todo = Listed(req[r].c)])
  /\ UNCHANGED <<cfg, dbcfg, pg, issued>>

\* A database that is gone, or not deleted, ends the request.
LoadToPurge(r, d) ==
  /\ At(r, "loadToPurge") /\ d \in req[r].todo
  /\ LET c == req[r].c IN
       \/ (dbcfg[c][d] = Absent \/ ActiveDb(c, d)) /\ Return(r)
       \/ /\ DeletedDb(c, d)
          /\ Continue(r, [pc |-> "deletePurged", c |-> c,
                          todo |-> req[r].todo \ {d}, d |-> d])
  /\ UNCHANGED <<cfg, dbcfg, pg, issued>>

\* mutant: the request returns from inside the loop
DeleteFirstPurged(r) ==
  /\ At(r, "deletePurged")
  /\ dbcfg' = [dbcfg EXCEPT ![req[r].c][req[r].d] = Absent]
  /\ Return(r)
  /\ UNCHANGED <<cfg, pg, issued>>

DeletePurged(r) ==
  /\ At(r, "deletePurged")
  /\ dbcfg' = [dbcfg EXCEPT ![req[r].c][req[r].d] = Absent]
  /\ Continue(r, [pc |-> "loadToPurge", c |-> req[r].c, todo |-> req[r].todo])
  /\ UNCHANGED <<cfg, pg, issued>>

\* mutant: the cluster is purged before its databases
DeleteClusterEntryFirst(r) ==
  /\ At(r, "loadToPurge")
  /\ cfg' = [cfg EXCEPT ![req[r].c] = Absent]
  /\ Return(r)
  /\ UNCHANGED <<dbcfg, pg, issued>>

DeleteClusterEntry(r) ==
  /\ At(r, "loadToPurge") /\ req[r].todo = {}
  /\ cfg' = [cfg EXCEPT ![req[r].c] = Absent]
  /\ Return(r)
  /\ UNCHANGED <<dbcfg, pg, issued>>

(***************************************************************************)
(* cluster/<c>/<d>, update: pathDatabaseUpdate, initializeDb and the two   *)
(* calls of getConn, each of which reads the cluster's entry again.        *)
(***************************************************************************)
PathDatabaseUpdate(r, c, d) ==
  /\ Active(c)
  /\ \E owner \in GivenOwner \cup {Fresh}, i \in Initialize, n \in CreateDb :
       /\ IF owner \in GivenOwner THEN UNCHANGED issued ELSE Draw
       /\ Begin(r, [pc |-> "checkDatabase", c |-> c, d |-> d,
                    mgmt |-> cfg[c].mgmt, entry |-> cfg[c], owner |-> owner,
                    initialize |-> i, create |-> n])
  /\ UNCHANGED <<cfg, dbcfg, pg>>

CheckDatabase(r) ==
  /\ At(r, "checkDatabase")
  /\ IF dbcfg[req[r].c][req[r].d] # Absent
     THEN Return(r)
     ELSE Goto(r, IF req[r].initialize THEN "loadForRoot" ELSE "storeDatabase")
  /\ UNCHANGED <<cfg, dbcfg, pg, issued>>

\* The first half of getConn; whether the cluster is disabled is not asked.
LoadForConn(r, from, to) ==
  /\ At(r, from)
  /\ IF cfg[req[r].c] = Absent
     THEN Return(r)
     ELSE Continue(r, [req[r] EXCEPT !.pc = to, !.entry = cfg[req[r].c]])
  /\ UNCHANGED <<cfg, dbcfg, pg, issued>>

LoadForRoot(r) == LoadForConn(r, "loadForRoot", "connectRoot")
LoadForManagement(r) == LoadForConn(r, "loadForManagement", "connectManagement")

\* The second half, makeConn: a ping with the credentials that were read.
ConnectRoot(r) ==
  /\ At(r, "connectRoot")
  /\ IF RootLogin(req[r].entry)
     THEN Goto(r, IF req[r].create THEN "createDb" ELSE "loadForManagement")
     ELSE Return(r)
  /\ UNCHANGED <<cfg, dbcfg, pg, issued>>

CreateDatabase(r) ==
  /\ At(r, "createDb")
  /\ LET h == req[r].entry.host
         d == req[r].d
     IN  IF d \in pg[h].dbs
         THEN Return(r) /\ UNCHANGED pg
         ELSE /\ pg' = [pg EXCEPT ![h].dbs = @ \cup {d}]
              /\ Goto(r, "loadForManagement")
  /\ UNCHANGED <<cfg, dbcfg, issued>>

ConnectManagement(r) ==
  /\ At(r, "connectManagement")
  /\ LET e == req[r].entry IN
       IF ManagementLogin(e) /\ req[r].d \in pg[e.host].dbs
       THEN Goto(r, "createOwner")
       ELSE Return(r)
  /\ UNCHANGED <<cfg, dbcfg, pg, issued>>

CreateOwnerUncommitted(r) ==     \* mutant: the transaction is rolled back
  /\ At(r, "createOwner")
  /\ Goto(r, "storeDatabase")
  /\ UNCHANGED <<cfg, dbcfg, pg, issued>>

\* One transaction.  It names the management role of the handler's first read.
CreateOwner(r) ==
  /\ At(r, "createOwner")
  /\ LET h == req[r].entry.host
         o == req[r].owner
     IN  IF o \in pg[h].owners \/ pg[h].mgmt[req[r].mgmt] = Absent
         THEN Return(r) /\ UNCHANGED pg
         ELSE /\ pg' = [pg EXCEPT ![h].owners = @ \cup {o}]
              /\ Goto(r, "storeDatabase")
  /\ UNCHANGED <<cfg, dbcfg, issued>>

StoreDatabase(r) ==
  /\ At(r, "storeDatabase")
  /\ dbcfg' = [dbcfg EXCEPT ![req[r].c][req[r].d] =
                 [cluster |-> req[r].c, owner |-> req[r].owner,
                  disabled |-> FALSE]]
  /\ Return(r)
  /\ UNCHANGED <<cfg, pg, issued>>

(***************************************************************************)
(* cluster/<c>/<d>, delete: pathDatabaseDelete.                            *)
(***************************************************************************)
PathDatabaseDelete(r, c, d) ==
  /\ Active(c)
  /\ Begin(r, [pc |-> "loadToDrop", c |-> c, d |-> d])
  /\ UNCHANGED <<cfg, dbcfg, pg, issued>>

LoadToDrop(r) ==
  /\ At(r, "loadToDrop")
  /\ LET c == req[r].c
         d == req[r].d
     IN  IF ActiveDb(c, d)
         THEN Continue(r, [pc |-> "storeDropped", c |-> c, d |-> d,
                           db |-> Disable(dbcfg[c][d])])
         ELSE Return(r)
  /\ UNCHANGED <<cfg, dbcfg, pg, issued>>

StoreDropped(r) ==
  /\ At(r, "storeDropped")
  /\ dbcfg' = [dbcfg EXCEPT ![req[r].c][req[r].d] = req[r].db]
  /\ Return(r)
  /\ UNCHANGED <<cfg, pg, issued>>

(***************************************************************************)
(* gc/cluster/<c>/<d>, delete: gcPurgeDatabase.                            *)
(***************************************************************************)
GcPurgeAnyDatabase(r, c, d) ==   \* mutant: the flag is not looked at
  /\ dbcfg[c][d] # Absent
  /\ Begin(r, [pc |-> "purgeDatabase", c |-> c, d |-> d])
  /\ UNCHANGED <<cfg, dbcfg, pg, issued>>

GcPurgeDatabase(r, c, d) ==
  /\ DeletedDb(c, d)
  /\ Begin(r, [pc |-> "purgeDatabase", c |-> c, d |-> d])
  /\ UNCHANGED <<cfg, dbcfg, pg, issued>>

DeleteDatabaseEntry(r) ==
  /\ At(r, "purgeDatabase")
  /\ dbcfg' = [dbcfg EXCEPT ![req[r].c][req[r].d] = Absent]
  /\ Return(r)
  /\ UNCHANGED <<cfg, pg, issued>>

(***************************************************************************)
(* clone/<source>, update: pathCloneUpdate and cloneDbConfig.              *)
(***************************************************************************)
PathCloneUpdate(r, source, c, h) ==
  /\ Active(source)
  /\ c \in CloneTarget /\ h \in HostOf[c]
  /\ Draw
  /\ \E i \in InheritDeleted :
       Begin(r, [pc |-> "checkTarget", source |-> source, c |-> c,
                 entry |-> AtHost(cfg[source], h), id |-> Fresh,
                 inherit |-> i])
  /\ UNCHANGED <<cfg, dbcfg, pg>>

CheckNoTarget(r) ==              \* mutant: a registered target is overwritten
  /\ At(r, "checkTarget")
  /\ Goto(r, "connectClone")
  /\ UNCHANGED <<cfg, dbcfg, pg, issued>>

CheckTarget(r) ==
  /\ At(r, "checkTarget")
  /\ IF cfg[req[r].c] # Absent THEN Return(r) ELSE Goto(r, "connectClone")
  /\ UNCHANGED <<cfg, dbcfg, pg, issued>>

ConnectCloneLazily(r) ==         \* mutant: sql.Open without the ping
  /\ At(r, "connectClone")
  /\ Goto(r, "rotateManagement")
  /\ UNCHANGED <<cfg, dbcfg, pg, issued>>

ConnectClone(r) ==
  /\ At(r, "connectClone")
  /\ IF ManagementLogin(req[r].entry) /\ RootLogin(req[r].entry)
     THEN Goto(r, "rotateManagement")
     ELSE Return(r)
  /\ UNCHANGED <<cfg, dbcfg, pg, issued>>

RotateManagementUnrecorded(r) == \* mutant: the new password is forgotten
  /\ At(r, "rotateManagement")
  /\ SetRole(req[r].entry.host, req[r].entry.mgmt, req[r].id)
  /\ Goto(r, "rotateRoot")
  /\ UNCHANGED <<cfg, dbcfg, issued>>

RotateManagement(r) ==
  /\ At(r, "rotateManagement")
  /\ SetRole(req[r].entry.host, req[r].entry.mgmt, req[r].id)
  /\ Continue(r, [req[r] EXCEPT !.pc = "rotateRoot", !.entry.mgmtPass = req[r].id])
  /\ UNCHANGED <<cfg, dbcfg, issued>>

RotateRootUnrecorded(r) ==       \* mutant: the new password is forgotten
  /\ At(r, "rotateRoot")
  /\ SetPassword(req[r].entry.host, req[r].id)
  /\ Goto(r, "storeTarget")
  /\ UNCHANGED <<cfg, dbcfg, issued>>

RotateRoot(r) ==
  /\ At(r, "rotateRoot")
  /\ SetPassword(req[r].entry.host, req[r].id)
  /\ Continue(r, [req[r] EXCEPT !.pc = "storeTarget", !.entry.pass = req[r].id])
  /\ UNCHANGED <<cfg, dbcfg, issued>>

StoreTarget(r) ==
  /\ At(r, "storeTarget")
  /\ cfg' = [cfg EXCEPT ![req[r].c] = req[r].entry]
  /\ Continue(r, [pc |-> "listSource", source |-> req[r].source, c |-> req[r].c,
                  inherit |-> req[r].inherit, todo |-> {}])
  /\ UNCHANGED <<dbcfg, pg, issued>>

ListSource(r) ==
  /\ At(r, "listSource")
  /\ Continue(r, [req[r] EXCEPT !.pc = "loadSource", !.todo = Listed(req[r].source)])
  /\ UNCHANGED <<cfg, dbcfg, pg, issued>>

\* A database that cannot be loaded, or is not to be inherited, is skipped.
LoadSource(r, d) ==
  /\ At(r, "loadSource") /\ d \in req[r].todo
  /\ LET s == req[r].source
         rest == req[r].todo \ {d}
         inherited == ActiveDb(s, d) \/ (DeletedDb(s, d) /\ req[r].inherit)
     IN  \/ /\ ~inherited \/ Faults
            /\ Continue(r, [req[r] EXCEPT !.todo = rest])
         \/ /\ inherited
            /\ Continue(r, [pc |-> "storeCopy", source |-> s, c |-> req[r].c,
                            inherit |-> req[r].inherit, todo |-> rest, d |-> d,
                            db |-> CopyTo(dbcfg[s][d], req[r].c)])
  /\ UNCHANGED <<cfg, dbcfg, pg, issued>>

StoreOneCopy(r) ==               \* mutant: the loop ends after the first copy
  /\ At(r, "storeCopy")
  /\ dbcfg' = [dbcfg EXCEPT ![req[r].c][req[r].d] = req[r].db]
  /\ Continue(r, [pc |-> "loadSource", source |-> req[r].source, c |-> req[r].c,
                  inherit |-> req[r].inherit, todo |-> {}])
  /\ UNCHANGED <<cfg, pg, issued>>

StoreCopy(r) ==
  /\ At(r, "storeCopy")
  /\ \/ dbcfg' = [dbcfg EXCEPT ![req[r].c][req[r].d] = req[r].db]
     \/ Faults /\ UNCHANGED dbcfg
  /\ Continue(r, [pc |-> "loadSource", source |-> req[r].source, c |-> req[r].c,
                  inherit |-> req[r].inherit, todo |-> req[r].todo])
  /\ UNCHANGED <<cfg, pg, issued>>

CloneReturns(r) ==
  /\ At(r, "loadSource") /\ req[r].todo = {}
  /\ Return(r)
  /\ UNCHANGED <<cfg, dbcfg, pg, issued>>

(***************************************************************************)
(* Around the handlers: a request ends early (a call fails, its context is *)
(* cancelled, the plugin dies: one such step for every request), and a     *)
(* server is restored from a snapshot of another.                          *)
(***************************************************************************)
Fail(r) ==
  /\ Faults /\ req[r] # Idle
  /\ Return(r)
  /\ UNCHANGED <<cfg, dbcfg, pg, issued>>

RestoreSnapshot(h, copy) ==
  /\ pg[h] # Absent /\ pg[copy] = Absent
  /\ pg' = [pg EXCEPT ![copy] = pg[h]]
  /\ UNCHANGED <<cfg, dbcfg, issued, req>>

Start(r) ==
  \E c \in Cluster :
    \/ \E h \in Host : PathClusterUpdate(r, c, h)
    \/ PathClusterDelete(r, c)
    \/ GcPurgeCluster(r, c)
    \/ \E d \in Database : PathDatabaseUpdate(r, c, d)
    \/ \E d \in Database : PathDatabaseDelete(r, c, d)
    \/ \E d \in Database : GcPurgeDatabase(r, c, d)
    \/ \E source \in Cluster, h \in Host : PathCloneUpdate(r, source, c, h)

Step(r) ==
  \/ CreateManagementRole(r) \/ UpdatePassword(r) \/ StoreCluster(r)
  \/ ListToDelete(r) \/ (\E d \in Database : LoadToDelete(r, d))
  \/ StoreDisabled(r) \/ StoreClusterDisabled(r)
  \/ ListToPurge(r) \/ (\E d \in Database : LoadToPurge(r, d))
  \/ DeletePurged(r) \/ DeleteClusterEntry(r)
  \/ CheckDatabase(r) \/ LoadForRoot(r) \/ ConnectRoot(r) \/ CreateDatabase(r)
  \/ LoadForManagement(r) \/ ConnectManagement(r) \/ CreateOwner(r)
  \/ StoreDatabase(r)
  \/ LoadToDrop(r) \/ StoreDropped(r) \/ DeleteDatabaseEntry(r)
  \/ CheckTarget(r) \/ ConnectClone(r) \/ RotateManagement(r) \/ RotateRoot(r)
  \/ StoreTarget(r) \/ ListSource(r) \/ (\E d \in Database : LoadSource(r, d))
  \/ StoreCopy(r) \/ CloneReturns(r)

Next ==
  \/ \E r \in Request : Start(r) \/ Step(r) \/ Fail(r)
  \/ \E h, copy \in Host : RestoreSnapshot(h, copy)

Spec == Init /\ [][Next]_vars

\* A handler that has started runs on; nobody has to make a request.
FairSpec == Spec /\ \A r \in Request : WF_vars(Step(r))

(***************************************************************************)
(* The handlers that only read, as what they answer.                       *)
(***************************************************************************)
PathClustersList == {c \in Cluster : Active(c)}
PathAllDatabasesList(c) == Listed(c)   \* mutant: deleted ones are not skipped
PathDatabasesList(c) == {d \in Database : ActiveDb(c, d)}
PathDatabaseRead(c, d) == Active(c) /\ ActiveDb(c, d)
GcListClusters == {c \in Cluster : Deleted(c)}
GcGetDatabase(c, d) == DeletedDb(c, d)

(***************************************************************************)
(* Properties of requests made one at a time, any of which may be cut      *)
(* short between two calls.                                                *)
(***************************************************************************)

\* Deleting a cluster disables its databases first, so that not even a
\* deletion that was cut short leaves an active database in a deleted
\* cluster; registration and clone refuse a deleted one.
NoActiveDatabaseInDeletedCluster ==
  \A c \in Cluster, d \in Database : ActiveDb(c, d) => Active(c)

\* gcPurgeCluster removes the databases before the cluster, pathCloneUpdate
\* stores the cluster before the databases: no database outlives its cluster.
NoOrphanDatabase ==
  \A c \in Cluster, d \in Database : dbcfg[c][d] # Absent => cfg[c] # Absent

\* The read handlers look at different keys (the list of databases never at
\* the cluster's entry, the gc handlers never either) and yet agree: every
\* database is under a listed cluster and answered by exactly one of
\* pathDatabaseRead and gcGetDatabase, the active ones being those listed.
ReadHandlersAgree ==
  \A c \in Cluster : \A d \in Listed(c) :
    /\ c \in PathClustersList \cup GcListClusters
    /\ PathDatabaseRead(c, d) <=> ~GcGetDatabase(c, d)
    /\ PathDatabaseRead(c, d) <=> d \in PathDatabasesList(c)

\* Registration, re-registration and clone leave every stored entry with a
\* management role and password that log in, however requests are cut short.
ManagementCredentialsWork ==
  \A c \in Cluster : cfg[c] # Absent => ManagementLogin(cfg[c])

\* The handlers, call by call, implement the lifecycle of Lifecycle.tla.
StatusOf(entry) == IF entry = Absent THEN "absent"
                   ELSE IF entry.disabled THEN "deleted" ELSE "active"

L == INSTANCE Lifecycle WITH
       clusterStatus <- [c \in Cluster |-> StatusOf(cfg[c])],
       dbStatus <- [c \in Cluster |->
                      [d \in Database |-> StatusOf(dbcfg[c][d])]]

ImplementsLifecycle == L!Spec

(***************************************************************************)
(* The invariant behind them: what a handler has read still holds while it *)
(* is the only one, and what its loop has still to visit is in todo.       *)
(***************************************************************************)
DeletionInv(j) ==
  /\ j.pc \in {"listToDelete", "loadToDelete", "storeDisabled"} =>
       cfg[j.c] = j.entry
  /\ j.pc = "loadToDelete" => PathDatabasesList(j.c) \subseteq j.todo
  /\ j.pc = "storeDisabled" => PathDatabasesList(j.c) \subseteq j.todo \cup {j.d}
  /\ j.pc \in {"loadToDrop", "storeDropped"} => Active(j.c)
  /\ j.pc \in {"storeDisabled", "storeDropped"} => ActiveDb(j.c, j.d)

PurgeInv(j) ==
  /\ j.pc \in {"listToPurge", "loadToPurge", "deletePurged"} => Deleted(j.c)
  /\ j.pc = "loadToPurge" => Listed(j.c) \subseteq j.todo
  /\ j.pc = "deletePurged" => Listed(j.c) \subseteq j.todo \cup {j.d}
  /\ j.pc \in {"deletePurged", "purgeDatabase"} => DeletedDb(j.c, j.d)

CreationInv(j) ==
  /\ j.pc \in {"createManagementRole", "updatePassword", "storeCluster"} =>
       ~Deleted(j.c)
  /\ j.pc \in RegisterPcs => Active(j.c)
  /\ j.pc \in RegisterPcs \ {"checkDatabase"} => dbcfg[j.c][j.d] = Absent
  /\ j.pc \in {"connectClone", "rotateManagement", "rotateRoot", "storeTarget"} =>
       cfg[j.c] = Absent
  /\ j.pc \in {"listSource", "loadSource", "storeCopy"} => Active(j.c)
  /\ j.pc = "listSource" => Listed(j.c) = {}
  /\ j.pc = "loadSource" => Listed(j.c) \cap j.todo = {}
  /\ j.pc = "storeCopy" => /\ Listed(j.c) \cap (j.todo \cup {j.d}) = {}
                           /\ j.d \notin j.todo

JobInv(j) == j # Idle => DeletionInv(j) /\ PurgeInv(j) /\ CreationInv(j)

SerialInv ==
  /\ NoActiveDatabaseInDeletedCluster
  /\ NoOrphanDatabase
  /\ \A r \in Request : JobInv(req[r])

(***************************************************************************)
(* Properties of requests made one at a time that all run to their end.    *)
(***************************************************************************)

\* Every rotation of a root password ends up in the entry: between requests
\* the stored root credentials of every cluster log in.
RootCredentialsWork ==
  (\A r \in Request : req[r] = Idle) =>
    \A c \in Cluster : cfg[c] # Absent => RootLogin(cfg[c])

\* A clone returns with every active database of its source inherited.
CloneIsComplete ==
  [][\A r \in Request : CloneReturns(r) =>
       PathDatabasesList(req[r].source) \subseteq Listed(req[r].c)]_vars

\* A deletion or a purge that was accepted is carried out: no database met
\* on the way can stop it.
DeletionCompletes ==
  \A c \in Cluster :
    (\E r \in Request : At(r, "listToDelete") /\ req[r].c = c)
      ~> c \in GcListClusters
PurgeCompletes ==
  \A c \in Cluster :
    (\E r \in Request : At(r, "listToPurge") /\ req[r].c = c)
      ~> cfg[c] = Absent

(***************************************************************************)
(* Properties of requests that run concurrently and may be cut short.      *)
(***************************************************************************)

\* An entry is stored under the names it holds, copies included.
ClusterMatchesPath ==
  \A c \in Cluster : \A d \in Listed(c) : dbcfg[c][d].cluster = c

\* No role is dropped and only a clone changes its password, on the target:
\* a cluster that is not a clone never loses its management login, whichever
\* of several concurrent registrations stored the entry.
PrimaryManagementCredentialsWork ==
  \A c \in Cluster \ CloneTarget : cfg[c] # Absent => ManagementLogin(cfg[c])

ConnectedPcs == {"createManagementRole", "updatePassword", "storeCluster",
                 "listToDelete", "loadToDelete", "storeDisabled",
                 "rotateManagement", "rotateRoot", "storeTarget"}
                \cup RegisterPcs

In(r, pcs) == req[r] # Idle /\ req[r].pc \in pcs

\* A server that an entry, or a handler that has connected to it, names is
\* there: no handler gets past makeConn with an address nobody answers at, so
\* none changes a password where there is no server.
ServersExist ==
  /\ \A c \in Cluster : cfg[c] # Absent => pg[cfg[c].host] # Absent
  /\ \A r \in Request : In(r, ConnectedPcs) => pg[req[r].entry.host] # Absent

\* When requests initialize, a stored database has its owner role and itself
\* exists on the server of its cluster, though three reads of the cluster's
\* entry lie between the request and the entry (clones inherit entries of
\* databases their snapshot may not have).
RegisteredDatabaseInitialized ==
  \A c \in Cluster \ CloneTarget : \A d \in Listed(c) :
    \E h \in HostOf[c] : /\ pg[h] # Absent
                         /\ d \in pg[h].dbs
                         /\ dbcfg[c][d].owner \in pg[h].owners

(***************************************************************************)
(* What the documentation says and concurrent requests do not keep.        *)
(***************************************************************************)

\* What the purge of a database removes is deleted when it goes.  docs/gc.md:
\* "A database can only be deleted using this endpoint if it is marked as
\* deleted."
OnlyDeletedDatabasePurged ==
  [][\A c \in Cluster, d \in Database :
       ActiveDb(c, d) => dbcfg'[c][d] # Absent]_vars

\* A deleted cluster is deleted until it is purged.  path-cluster_test.go, of
\* a write to one: "Operating on a deleted cluster is an error".
DeletedClusterStaysDeleted ==
  [][\A c \in GcListClusters : cfg'[c] = Absent \/ cfg'[c].disabled]_vars
=============================================================================
