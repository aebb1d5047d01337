------------------------------- MODULE Creds -------------------------------
(***************************************************************************)
(* Credentials and the roles they are made from: the handlers of creds/,   *)
(* one step per storage, Postgres or Vault call, with the part of Vault's  *)
(* expiration manager that keeps the leases and calls the handlers.  The   *)
(* registry is seen through Lifecycle, whose steps come between the calls. *)
(*                                                                         *)
(* A cluster name stands for one server.  Times are left to LeaseTtl: here *)
(* a lease falls due at some moment, can be renewed so many times, and may *)
(* find its maximum TTL used up before.                                    *)
(***************************************************************************)
EXTENDS Naturals, FiniteSets

CONSTANTS
  Cluster, Database,
  Owner,             \* objects owners of databases
  User,              \* login names, each with a fresh UUID
  ManagementRole,    \* management roles, each with a fresh UUID
  Role,              \* names under roles/
  Creation,          \* creation statements, a subset of CreationKinds
  Revocation,        \* revocation statements, a subset of RevocationKinds
  Operations,        \* what operators do in the instance, see OperationKinds
  Request,           \* request slots
  MaxRenewals,       \* renewals until the maximum TTL is used up
  MaxFaults,         \* calls that fail, processes that die
  Absent, Idle

\* The default creation statements make the login a member of the database's
\* owner, with the management role as its member; plain ones do not.
CreationKinds == {"default", "plain"}

\* The default statements begin with "set role"; statements of an operator may
\* just drop the login if it is there, contain one that fails, or leave the
\* login alone without an error, like an empty list.
RevocationKinds == {"default", "drop", "fail", "keep"}

OperationKinds == {"update", "delete", "purge", "late", "updateRole", "deleteRole"}

ASSUME KindsOK ==
  /\ Creation \subseteq CreationKinds
  /\ Revocation \subseteq RevocationKinds
  /\ Operations \subseteq OperationKinds
ASSUME BoundsOK == MaxRenewals \in Nat /\ MaxFaults \in Nat
ASSUME AbsentOK ==
  Absent \notin ManagementRole \cup Owner \cup User \cup CreationKinds \cup RevocationKinds
ASSUME NamesOK == User \cap ManagementRole = {}

VARIABLES
  clusterStatus, dbStatus,   \* the registry, see Lifecycle
  mgmt,                      \* storage: the management role of a cluster
  owner,                     \* storage: the objects owner of a database
  roles,                     \* storage: roles
  pg,                        \* the servers: the logins made for leases
  lease,                     \* Vault: the lease entries
  req,                       \* the requests in flight
  issued,                    \* history: every UUID drawn
  faults,                    \* history: how many calls have failed
  seen                       \* history: what a request has found usable

Life == INSTANCE Lifecycle

registry == <<clusterStatus, dbStatus, mgmt, owner>>
vars == <<registry, roles, pg, lease, req, issued, faults, seen>>

RoleEntry == [creation : Creation, revocation : Revocation]

\* group: the management role that may act as the login
\* owner: the objects owner it is a member of
Login == [group : ManagementRole \cup {Absent}, owner : Owner \cup {Absent}]

\* timer: "none" in an entry without an expiry, for which there is no timer
LeaseEntry == [cluster : Cluster, database : Database, role : Role,
               timer : {"set", "fired", "none"}, left : 0..MaxRenewals]

\* What a handler remembers: the role statements it runs, the management role
\* and owner it read, the management role it connected with.
Job == [op : {"create", "renew", "revoke"},
        pc : {"loadRole", "loadCluster", "loadDatabase", "loadForConn", "createUser",
              "registerLease", "alterExpiry", "persistRenewal", "dropUser", "endLease"},
        cluster : Cluster, database : Database, role : Role,
        user : User \cup {Absent}, left : 0..MaxRenewals,
        statements : CreationKinds \cup RevocationKinds \cup {Absent},
        group : ManagementRole \cup {Absent}, owner : Owner \cup {Absent},
        conn : ManagementRole \cup {Absent}]

ASSUME NoClash == Idle \notin Job /\ Absent \notin LeaseEntry \cup Login

Parts == {"cluster", "database", "role"}

TypeOK ==
  /\ Life!TypeOK
  /\ mgmt \in [Cluster -> ManagementRole \cup {Absent}]
  /\ \A c \in Cluster : mgmt[c] = Absent <=> clusterStatus[c] = "absent"
  /\ owner \in [Cluster -> [Database -> Owner \cup {Absent}]]
  /\ \A c \in Cluster, d \in Database : owner[c][d] = Absent <=> dbStatus[c][d] = "absent"
  /\ roles \in [Role -> RoleEntry \cup {Absent}]
  /\ pg \in [User -> Login \cup {Absent}]
  /\ lease \in [User -> LeaseEntry \cup {Absent}]
  /\ req \in [Request -> Job \cup {Idle}]
  /\ issued \subseteq User \cup ManagementRole
  /\ faults \in 0..MaxFaults
  /\ seen \in [Request -> SUBSET Parts]

Init ==
  /\ Life!Init
  /\ mgmt = [c \in Cluster |-> Absent]
  /\ owner = [c \in Cluster |-> [d \in Database |-> Absent]]
  /\ roles = [n \in Role |-> Absent]
  /\ pg = [u \in User |-> Absent]
  /\ lease = [u \in User |-> Absent]
  /\ req = [r \in Request |-> Idle]
  /\ issued = {}
  /\ faults = 0
  /\ seen = [r \in Request |-> {}]

At(r, op, pc) == req[r] # Idle /\ req[r].op = op /\ req[r].pc = pc
Continue(r, job) == req' = [req EXCEPT ![r] = job]
Goto(r, pc) == Continue(r, [req[r] EXCEPT !.pc = pc])
Return(r) == Continue(r, Idle)

(***************************************************************************)
(* The registry: the steps of Lifecycle, and the one concurrent requests   *)
(* add to them, with the data stored along.                                *)
(* Registering a cluster again replaces its management role, and creates   *)
(* the new one without any membership.                                     *)
(***************************************************************************)
StoreCluster(c) ==
  \E m \in ManagementRole \ issued :
    /\ mgmt' = [mgmt EXCEPT ![c] = m]
    /\ issued' = issued \cup {m}

RegisterCluster(c) ==
  /\ Life!RegisterCluster(c)
  /\ StoreCluster(c)
  /\ UNCHANGED owner

UpdateCluster(c) ==
  /\ "update" \in Operations
  /\ clusterStatus[c] = "active"
  /\ StoreCluster(c)
  /\ UNCHANGED <<clusterStatus, dbStatus, owner>>

AddDatabase(c, d) ==
  /\ Life!AddDatabase(c, d)
  /\ \E o \in Owner : owner' = [owner EXCEPT ![c][d] = o]
  /\ UNCHANGED <<mgmt, issued>>

\* A registration that had passed its check before the cluster was deleted or
\* purged, see NoActiveDatabaseInDeletedCluster and NoOrphanDatabase of Registry.
AddDatabaseLate(c, d) ==
  /\ "late" \in Operations
  /\ clusterStatus[c] # "active" /\ dbStatus[c][d] = "absent"
  /\ dbStatus' = [dbStatus EXCEPT ![c][d] = "active"]
  /\ \E o \in Owner : owner' = [owner EXCEPT ![c][d] = o]
  /\ UNCHANGED <<clusterStatus, mgmt, issued>>

Delete(c) ==
  /\ "delete" \in Operations
  /\ Life!DeleteCluster(c) \/ \E d \in Database : Life!DeleteDatabase(c, d)
  /\ UNCHANGED <<mgmt, owner, issued>>

PurgeDatabase(c, d) ==
  /\ "purge" \in Operations
  /\ Life!PurgeDatabase(c, d)
  /\ owner' = [owner EXCEPT ![c][d] = Absent]
  /\ UNCHANGED <<mgmt, issued>>

PurgeCluster(c) ==
  /\ "purge" \in Operations
  /\ Life!PurgeCluster(c)
  /\ mgmt' = [mgmt EXCEPT ![c] = Absent]
  /\ UNCHANGED <<owner, issued>>

RegistryStep ==
  /\ \E c \in Cluster :
       \/ RegisterCluster(c) \/ UpdateCluster(c) \/ Delete(c) \/ PurgeCluster(c)
       \/ \E d \in Database :
            AddDatabase(c, d) \/ AddDatabaseLate(c, d) \/ PurgeDatabase(c, d)
  /\ UNCHANGED <<roles, pg, lease, req, faults>>

(***************************************************************************)
(* roles/<r>: a write replaces every field, a deletion is a single call.   *)
(***************************************************************************)
PathRoleUpdate(n) ==
  /\ roles[n] = Absent \/ "updateRole" \in Operations
  /\ \E entry \in RoleEntry : roles' = [roles EXCEPT ![n] = entry]

PathRoleDelete(n) ==
  /\ "deleteRole" \in Operations
  /\ roles' = [roles EXCEPT ![n] = Absent]

RoleStep ==
  /\ \E n \in Role : PathRoleUpdate(n) \/ PathRoleDelete(n)
  /\ UNCHANGED <<registry, pg, lease, req, issued, faults>>

(***************************************************************************)
(* creds/<c>/<d>/<r>, read: secretCredsCreate, and the registration of the *)
(* lease by Vault, the first time anything knows of the login but the      *)
(* server.                                                                 *)
(***************************************************************************)
NewJob(op, c, d, n) ==
  [op |-> op, pc |-> "loadRole", cluster |-> c, database |-> d, role |-> n,
   user |-> Absent, left |-> 0, statements |-> Absent, group |-> Absent,
   owner |-> Absent, conn |-> Absent]

\* Bound: there is a name left for every request in flight.
NameLeft ==
  Cardinality({r \in Request : req[r] # Idle /\ req[r].op = "create" /\ req[r].user = Absent})
    < Cardinality(User \ issued)

SecretCredsCreate(r, c, d, n) ==
  /\ req[r] = Idle /\ NameLeft
  /\ clusterStatus[c] = "active"
  /\ Continue(r, [NewJob("create", c, d, n) EXCEPT !.pc = "loadDatabase", !.group = mgmt[c]])
  /\ UNCHANGED <<registry, roles, pg, lease, issued, faults>>

LoadDatabaseAnyway(r) ==   \* mutant: a deleted database is not refused
  /\ At(r, "create", "loadDatabase")
  /\ LET job == req[r] IN
       IF dbStatus[job.cluster][job.database] = "absent"
       THEN Return(r)
       ELSE Continue(r, [job EXCEPT !.pc = "loadRole", !.owner = owner[job.cluster][job.database]])
  /\ UNCHANGED <<registry, roles, pg, lease, issued, faults>>

LoadDatabase(r) ==
  /\ At(r, "create", "loadDatabase")
  /\ LET job == req[r] IN
       IF dbStatus[job.cluster][job.database] # "active"
       THEN Return(r)
       ELSE Continue(r, [job EXCEPT !.pc = "loadRole", !.owner = owner[job.cluster][job.database]])
  /\ UNCHANGED <<registry, roles, pg, lease, issued, faults>>

LoadRole(r) ==
  /\ At(r, "create", "loadRole")
  /\ LET entry == roles[req[r].role] IN
       IF entry = Absent
       THEN Return(r)
       ELSE Continue(r, [req[r] EXCEPT !.pc = "loadForConn", !.statements = entry.creation])
  /\ UNCHANGED <<registry, roles, pg, lease, issued, faults>>

\* The connection is made from the entry as it is now, deleted or not.
LoadForConn(r) ==
  /\ req[r] # Idle /\ req[r].pc = "loadForConn"
  /\ LET job == req[r] IN
       IF clusterStatus[job.cluster] = "absent"
       THEN Return(r)
       ELSE Continue(r, [job EXCEPT !.conn = mgmt[job.cluster],
                           !.pc = CASE job.op = "create" -> "createUser"
                                    [] job.op = "renew"  -> "alterExpiry"
                                    [] job.op = "revoke" -> "dropUser"])
  /\ UNCHANGED <<registry, roles, pg, lease, issued, faults>>

\* The default statements alter the default privileges of the login, which
\* takes a member of it: the role of the entry read first.
CreationSucceeds(job) == job.statements = "plain" \/ job.conn = job.group

NewLogin(job) ==
  [group |-> IF job.statements = "plain" THEN Absent ELSE job.group, owner |-> job.owner]

CreateUserPiecemeal(r) ==   \* mutant: the statements are not a transaction
  /\ At(r, "create", "createUser")
  /\ \E u \in User \ issued :
       /\ pg' = [pg EXCEPT ![u] = NewLogin(req[r])]
       /\ issued' = issued \cup {u}
       /\ IF CreationSucceeds(req[r])
          THEN Continue(r, [req[r] EXCEPT !.pc = "registerLease", !.user = u])
          ELSE Return(r)
  /\ UNCHANGED <<registry, roles, lease, faults>>

CreateUser(r) ==
  /\ At(r, "create", "createUser")
  /\ IF CreationSucceeds(req[r])
     THEN \E u \in User \ issued :
            /\ pg' = [pg EXCEPT ![u] = NewLogin(req[r])]
            /\ issued' = issued \cup {u}
            /\ Continue(r, [req[r] EXCEPT !.pc = "registerLease", !.user = u])
     ELSE Return(r) /\ UNCHANGED <<pg, issued>>
  /\ UNCHANGED <<registry, roles, lease, faults>>

RegisterLease(r) ==
  /\ At(r, "create", "registerLease")
  /\ LET job == req[r] IN
       lease' = [lease EXCEPT ![job.user] =
                   [cluster |-> job.cluster, database |-> job.database, role |-> job.role,
                    timer |-> "set", left |-> MaxRenewals]]
  /\ Return(r)
  /\ UNCHANGED <<registry, roles, pg, issued, faults>>

Fault == faults < MaxFaults /\ faults' = faults + 1

\* Vault cannot keep the lease: it revokes the secret, once, and does not look
\* at the outcome.
RegistrationFails(r) ==
  /\ At(r, "create", "registerLease")
  /\ Fault
  /\ LET job == req[r] IN
       Continue(r, [NewJob("revoke", job.cluster, job.database, job.role) EXCEPT !.user = job.user])
  /\ UNCHANGED <<registry, roles, pg, lease, issued>>

(***************************************************************************)
(* Renewal: Vault loads the lease, secretCredsRenew moves the expiry of    *)
(* the login, Vault persists what it loaded.  A lease that has fallen due, *)
(* or has no expiry, is not renewable.                                     *)
(***************************************************************************)
LeaseJob(op, u) ==
  [NewJob(op, lease[u].cluster, lease[u].database, lease[u].role)
     EXCEPT !.user = u, !.left = lease[u].left]

Renew(r, u) ==
  /\ req[r] = Idle
  /\ lease[u] # Absent /\ lease[u].timer = "set"
  /\ Continue(r, LeaseJob("renew", u))
  /\ UNCHANGED <<registry, roles, pg, lease, issued, faults>>

SecretCredsRenew(r) ==
  /\ At(r, "renew", "loadRole")
  /\ IF roles[req[r].role] = Absent THEN Return(r) ELSE Goto(r, "loadCluster")
  /\ UNCHANGED <<registry, roles, pg, lease, issued, faults>>

LoadClusterToRenew(r) ==
  /\ At(r, "renew", "loadCluster")
  /\ IF clusterStatus[req[r].cluster] = "active" THEN Goto(r, "loadDatabase") ELSE Return(r)
  /\ UNCHANGED <<registry, roles, pg, lease, issued, faults>>

\* When nothing is left of the maximum TTL, the handler leaves the login alone
\* and answers a TTL of 0, which is a success.
LoadDatabaseToRenew(r) ==
  /\ At(r, "renew", "loadDatabase")
  /\ LET job == req[r]
         active == dbStatus[job.cluster][job.database] = "active"
     IN  \/ ~ active /\ Return(r)
         \/ active /\ job.left > 0 /\ Goto(r, "loadForConn")
         \/ active /\ Continue(r, [job EXCEPT !.pc = "persistRenewal", !.left = 0])
  /\ UNCHANGED <<registry, roles, pg, lease, issued, faults>>

\* Which expiry is written is the subject of LeaseTtl.
AlterExpiry(r) ==
  /\ At(r, "renew", "alterExpiry")
  /\ IF pg[req[r].user] = Absent THEN Return(r) ELSE Goto(r, "persistRenewal")
  /\ UNCHANGED <<registry, roles, pg, lease, issued, faults>>

\* What a renewal makes of the lease entry.
Renewed(job, timer, left) ==
  [cluster |-> job.cluster, database |-> job.database, role |-> job.role,
   timer |-> timer, left |-> left]

PersistAnyway(r) ==   \* mutant: a renewal that found nothing left gets a timer
  /\ At(r, "renew", "persistRenewal")
  /\ lease' = [lease EXCEPT ![req[r].user] = Renewed(req[r], "set", req[r].left - 1)]
  /\ Return(r)
  /\ UNCHANGED <<registry, roles, pg, issued, faults>>

\* Vault computes the TTL again, from the answer.  With a TTL of 0 it stores an
\* entry without an expiry and stops the timer; past the maximum it gives up.
\* Whether the lease is still there is not asked.
PersistRenewal(r) ==
  /\ At(r, "renew", "persistRenewal")
  /\ LET job == req[r] IN
       \/ job.left > 0 /\ lease' = [lease EXCEPT ![job.user] = Renewed(job, "set", job.left - 1)]
       \/ lease' = [lease EXCEPT ![job.user] = Renewed(job, "none", 0)]
       \/ UNCHANGED lease
  /\ Return(r)
  /\ UNCHANGED <<registry, roles, pg, issued, faults>>

(***************************************************************************)
(* Revocation, when the lease falls due or on request: Vault loads the     *)
(* lease, secretCredsRevoke drops the login, Vault deletes the lease.  An  *)
(* error keeps the lease, and Vault comes back to it.                      *)
(***************************************************************************)
Expire(u) ==
  /\ lease[u] # Absent /\ lease[u].timer = "set"
  /\ lease' = [lease EXCEPT ![u].timer = "fired"]
  /\ UNCHANGED <<registry, roles, pg, req, issued, faults>>

Revoke(r, u) ==
  /\ req[r] = Idle
  /\ lease[u] # Absent
  /\ Continue(r, LeaseJob("revoke", u))
  /\ UNCHANGED <<registry, roles, pg, lease, issued, faults>>

SecretCredsRevokeStrictly(r) ==   \* mutant: a role that is gone is an error
  /\ At(r, "revoke", "loadRole")
  /\ LET entry == roles[req[r].role] IN
       IF entry = Absent
       THEN Return(r)
       ELSE Continue(r, [req[r] EXCEPT !.pc = "loadCluster", !.statements = entry.revocation])
  /\ UNCHANGED <<registry, roles, pg, lease, issued, faults>>

\* The statements the role has now, the default ones when it is gone.
SecretCredsRevoke(r) ==
  /\ At(r, "revoke", "loadRole")
  /\ LET entry == roles[req[r].role] IN
       Continue(r, [req[r] EXCEPT !.pc = "loadCluster",
                      !.statements = IF entry = Absent THEN "default" ELSE entry.revocation])
  /\ UNCHANGED <<registry, roles, pg, lease, issued, faults>>

LoadActiveToRevoke(r) ==   \* mutant: a deleted cluster is refused
  /\ At(r, "revoke", "loadCluster")
  /\ IF clusterStatus[req[r].cluster] # "active" THEN Return(r) ELSE Goto(r, "loadDatabase")
  /\ UNCHANGED <<registry, roles, pg, lease, issued, faults>>

LoadClusterToRevoke(r) ==
  /\ At(r, "revoke", "loadCluster")
  /\ IF clusterStatus[req[r].cluster] = "absent" THEN Return(r) ELSE Goto(r, "loadDatabase")
  /\ UNCHANGED <<registry, roles, pg, lease, issued, faults>>

LoadOrForget(r) ==   \* mutant: a database that is gone counts as revoked
  /\ At(r, "revoke", "loadDatabase")
  /\ LET job == req[r] IN
       IF dbStatus[job.cluster][job.database] = "absent"
       THEN Goto(r, "endLease")
       ELSE Continue(r, [job EXCEPT !.pc = "loadForConn",
                                    !.owner = owner[job.cluster][job.database]])
  /\ UNCHANGED <<registry, roles, pg, lease, issued, faults>>

LoadDatabaseToRevoke(r) ==
  /\ At(r, "revoke", "loadDatabase")
  /\ LET job == req[r] IN
       IF dbStatus[job.cluster][job.database] = "absent"
       THEN Return(r)
       ELSE Continue(r, [job EXCEPT !.pc = "loadForConn",
                                    !.owner = owner[job.cluster][job.database]])
  /\ UNCHANGED <<registry, roles, pg, lease, issued, faults>>

\* "set role" takes a member of the login, which must still exist, and
\* "reassign owned" that the login is a member of the owner.
RevocationSucceeds(job) ==
  LET u == pg[job.user] IN
    \/ job.statements \in {"drop", "keep"}
    \/ job.statements = "default" /\ u # Absent /\ u.group = job.conn /\ u.owner = job.owner

DropUserOrWarn(r) ==   \* mutant: a failed statement is no more than a warning
  /\ At(r, "revoke", "dropUser")
  /\ pg' = IF RevocationSucceeds(req[r]) THEN [pg EXCEPT ![req[r].user] = Absent] ELSE pg
  /\ Goto(r, "endLease")
  /\ UNCHANGED <<registry, roles, lease, issued, faults>>

\* A failed statement is a warning, but the commit then reports an error.
DropUser(r) ==
  /\ At(r, "revoke", "dropUser")
  /\ LET job == req[r] IN
       IF RevocationSucceeds(job)
       THEN /\ pg' = IF job.statements = "keep" THEN pg ELSE [pg EXCEPT ![job.user] = Absent]
            /\ Goto(r, "endLease")
       ELSE Return(r) /\ UNCHANGED pg
  /\ UNCHANGED <<registry, roles, lease, issued, faults>>

\* The request is cancelled between two statements, and is an error to Vault.
\* The rest is skipped, but the commit, which is not cancelled, keeps what has
\* run: the default statements have made the login leave the owner, or those
\* before the one that would have failed have dropped it.
DropUserCutShort(r) ==
  /\ At(r, "revoke", "dropUser")
  /\ Fault
  /\ LET job == req[r] IN
       \/ /\ job.statements = "default" /\ RevocationSucceeds(job)
          /\ pg' = [pg EXCEPT ![job.user].owner = Absent]
       \/ /\ job.statements = "fail"
          /\ pg' = [pg EXCEPT ![job.user] = Absent]
  /\ Return(r)
  /\ UNCHANGED <<registry, roles, lease, issued>>

EndLease(r) ==
  /\ At(r, "revoke", "endLease")
  /\ lease' = [lease EXCEPT ![req[r].user] = Absent]
  /\ Return(r)
  /\ UNCHANGED <<registry, roles, pg, issued, faults>>

\* A call fails, its answer is lost, the request is cancelled, or a process
\* dies: the request goes no further.
Fail(r) ==
  /\ req[r] # Idle
  /\ Fault
  /\ Return(r)
  /\ UNCHANGED <<registry, roles, pg, lease, issued>>

(***************************************************************************)
(* The history of a request that creates or renews: what it names and has  *)
(* been usable at some time since it began.                                *)
(***************************************************************************)
Usable(job) ==
  (IF clusterStatus[job.cluster] = "active" THEN {"cluster"} ELSE {}) \cup
  (IF dbStatus[job.cluster][job.database] = "active" THEN {"database"} ELSE {}) \cup
  (IF roles[job.role] # Absent THEN {"role"} ELSE {})

Remember ==
  seen' = [r \in Request |->
    LET job == req'[r] IN
      IF job = Idle THEN {} ELSE IF job.op = "revoke" THEN {} ELSE seen[r] \cup Usable(job)]

Step(r) ==
  \/ LoadDatabase(r) \/ LoadRole(r) \/ LoadForConn(r) \/ CreateUser(r) \/ RegisterLease(r)
  \/ SecretCredsRenew(r) \/ LoadClusterToRenew(r) \/ LoadDatabaseToRenew(r)
  \/ AlterExpiry(r) \/ PersistRenewal(r)
  \/ SecretCredsRevoke(r) \/ LoadClusterToRevoke(r) \/ LoadDatabaseToRevoke(r)
  \/ DropUser(r) \/ EndLease(r)

Handler(r) ==
  \/ \E c \in Cluster, d \in Database, n \in Role : SecretCredsCreate(r, c, d, n)
  \/ (\E u \in User : Renew(r, u) \/ Revoke(r, u))
  \/ Step(r) \/ RegistrationFails(r) \/ DropUserCutShort(r) \/ Fail(r)

Next ==
  /\ \/ RegistryStep \/ RoleStep
     \/ \E r \in Request : Handler(r)
     \/ \E u \in User : Expire(u)
  /\ Remember

Spec == Init /\ [][Next]_vars

RevokeDue(u) ==
  lease[u] # Absent /\ lease[u].timer = "fired" /\ \E r \in Request : Revoke(r, u)

\* A handler that runs goes on, a timer that is set fires, and an expired lease
\* is taken up for revocation again and again (expireLeaseStrategyRevoke, and at every
\* start of Vault), however often the slots are busy.
Fairness ==
  /\ \A r \in Request : WF_vars(Step(r) /\ Remember)
  /\ \A u \in User :
       /\ WF_vars(Expire(u) /\ Remember)
       /\ SF_vars(RevokeDue(u) /\ Remember)

FairSpec == Spec /\ Fairness

(***************************************************************************)
(* Properties.                                                             *)
(***************************************************************************)

\* The promises of a revocation rest on its statements: an operator's that
\* succeed without dropping the login (path-creds.go:316-320 runs an empty list
\* and commits) end the lease and leave the login.
RevocationsDrop == "keep" \notin Revocation

\* Vault deletes the lease on the strength of the handler's answer: when it
\* does, the login is gone, although the statements that failed on the way
\* were only warnings (path-creds.go:322), others revoke the same lease and
\* the role, cluster and database have changed meanwhile.  To be expected of
\* RevocationsDrop only.
DroppedWhenRevoked ==
  \A r \in Request : At(r, "revoke", "endLease") => pg[req[r].user] = Absent

\* Logins that neither a lease nor a request about to register one knows of.
Untracked ==
  {u \in User :
     /\ pg[u] # Absent /\ lease[u] = Absent
     /\ \A r \in Request : At(r, "create", "registerLease") => req[r].user # u}

\* A login is committed before its lease exists (path-creds.go:128) and
\* dropped before the lease is deleted: each failure loses track of at most
\* one, and nothing else does, given RevocationsDrop.
FaultsBoundUntrackedLogins == Cardinality(Untracked) <= faults

\* The connection is made several calls after the cluster, the database and
\* the role were asked for (path-creds.go:37, :50 and :63; :171, :180 and :193
\* of a renewal): each of them was there, and not deleted, at some time since
\* the request began.
CredsOnlyFromConfigured ==
  \A r \in Request :
    At(r, "create", "createUser") \/ At(r, "renew", "alterExpiry") => seen[r] = Parts

\* docs/cluster.md:63: "Disabling a cluster prevents creation of new databases
\* or credentials in it": no login is created in a deleted cluster.
NoCredsInDeletedCluster ==
  [][\A r \in Request : CreateUser(r) /\ pg' # pg =>
       clusterStatus[req[r].cluster] # "deleted"]_vars

\* A renewal that reached Vault in the last second of the maximum TTL was
\* answered with a TTL of 0: the lease has no expiry, no timer will end it, and
\* it ends when an operator revokes it (EveryLeaseExpires of LeaseTtl).
Endless(u) == lease[u] # Absent /\ lease[u].timer = "none"

\* docs/creds.md:28: "In any case the lease will be revoked by vault", and
\* docs/roles.md:31: "All active lease on a role will be revoked on expiry".
\* Even of the leases that have an expiry this is not so.
HeldLeaseEnds == \A u \in User : lease[u] # Absent ~> lease[u] = Absent \/ Endless(u)

\* What the lease was made in is no longer registered.
Purged(u) ==
  /\ lease[u] # Absent
  /\ \/ clusterStatus[lease[u].cluster] = "absent"
     \/ dbStatus[lease[u].cluster][lease[u].database] = "absent"

\* Its revocation runs an operator's statements, good for a login that is gone.
Repeatable(u) ==
  /\ lease[u] # Absent /\ roles[lease[u].role] # Absent
  /\ roles[lease[u].role].revocation = "drop"

\* With statements that can be run twice every lease ends that a renewal has
\* not left without an expiry, whatever fails or is requested meanwhile, updates
\* and deletions of its cluster and overlapping renewals included: the timer and
\* Vault's retries are enough, as long as nothing is purged (path-creds.go:206-235
\* and :275-287).
RepeatableRevocationEnds ==
  \A u \in User :
    lease[u] # Absent ~> lease[u] = Absent \/ Endless(u) \/ Purged(u) \/ ~ Repeatable(u)

\* The default statements cannot drop the login, since the registry does not
\* name the roles of its creation any more, or those of an operator fail.
Unrevocable(u) ==
  /\ lease[u] # Absent /\ pg[u] # Absent
  /\ LET l == lease[u] IN
       \/ pg[u].group # mgmt[l.cluster] \/ pg[u].owner # owner[l.cluster][l.database]
       \/ roles[l.role] # Absent /\ roles[l.role].revocation = "fail"

\* Requests one at a time, without a failure: deleting the role, the database or
\* the cluster of a lease does not keep it from ending (path-creds.go:268, and
\* no check for the disabled flag).  What may is a renewal in the last second of
\* the maximum TTL, purging them, and registering the cluster again, which
\* replaces the management role.
UndisturbedLeaseEnds ==
  \A u \in User :
    lease[u] # Absent ~>
      lease[u] = Absent \/ faults > 0 \/ Endless(u) \/ Purged(u) \/ Unrevocable(u)

\* A request at a time, failures included, is an implementation of what a
\* lease promises: the login lives from its creation to its revocation, and
\* the lease ends only after that.
LoginStatus ==
  [u \in User |-> IF u \notin issued THEN "none" ELSE IF pg[u] # Absent THEN "live" ELSE "dropped"]
Held == {u \in User : lease[u] # Absent}

Promise == INSTANCE Lease WITH login <- LoginStatus, held <- Held

ImplementsLease == Promise!Spec
=============================================================================
