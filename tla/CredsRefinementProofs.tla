----------------------- MODULE CredsRefinementProofs -----------------------
(***************************************************************************)
(* Requests made one at a time, with failures anywhere, implement what a   *)
(* lease promises (Lease.tla), for every value of the constants.           *)
(***************************************************************************)
EXTENDS CredsProofs

OneAtATime == \A r, s \in Request : r = s

\* What a handler knows of its lease still holds when it acts on it.
SerialJob(r) ==
  /\ At(r, "create", "registerLease") => pg[req[r].user] # Absent /\ lease[req[r].user] = Absent
  /\ req[r] # Idle /\ req[r].op = "renew" => lease[req[r].user] # Absent

SerialInv == \A r \in Request : SerialJob(r)

(***************************************************************************)
(* What the steps do to the logins and the leases.                         *)
(***************************************************************************)

\* Steps that change neither.
LEMMA Rest ==
  ASSUME Next
  PROVE  \/ UNCHANGED <<pg, lease, issued>>
         \/ RegistryStep \/ \E u \in User : Expire(u)
         \/ \E r \in Request : \/ CreateUser(r) \/ RegisterLease(r) \/ PersistRenewal(r)
                               \/ DropUser(r) \/ DropUserCutShort(r) \/ EndLease(r)
<1>1. ASSUME NEW r \in Request, Handler(r)
      PROVE  \/ UNCHANGED <<pg, lease, issued>>
             \/ CreateUser(r) \/ RegisterLease(r) \/ PersistRenewal(r)
             \/ DropUser(r) \/ DropUserCutShort(r) \/ EndLease(r)
  BY <1>1 DEF Handler, Step, SecretCredsCreate, LoadDatabase, LoadRole, LoadForConn, Renew, Revoke,
     SecretCredsRenew, LoadClusterToRenew, LoadDatabaseToRenew, AlterExpiry, SecretCredsRevoke,
     LoadClusterToRevoke, LoadDatabaseToRevoke, RegistrationFails, Fail
<1>2. RoleStep => UNCHANGED <<pg, lease, issued>>
  BY DEF RoleStep
<1> QED
  BY <1>1, <1>2 DEF Next

\* The registry draws names of its own.
LEMMA RegistryNames ==
  ASSUME RegistryStep
  PROVE  UNCHANGED <<pg, lease, req>> /\ \A u \in User : u \in issued' <=> u \in issued
<1>1. issued' = issued \/ \E m \in ManagementRole : issued' = issued \cup {m}
  BY DEF RegistryStep, RegisterCluster, UpdateCluster, StoreCluster, AddDatabase, AddDatabaseLate,
     Delete, PurgeDatabase, PurgeCluster
<1> QED
  BY <1>1, NamesOK DEF RegistryStep

\* A timer or a renewal leaves the lease in place.
LEMMA ExpireKeeps ==
  ASSUME Assumptions, IInv, NEW u \in User, Expire(u)
  PROVE  UNCHANGED <<pg, issued, req>> /\ \A v \in User : lease'[v] = Absent <=> lease[v] = Absent
<1> DEFINE e == [lease[u] EXCEPT !.timer = "fired"]
<1>1. lease[u] \in LeaseEntry
  BY DEF Expire, IInv, TypeOK
<1>2. e \in LeaseEntry
  BY <1>1 DEF LeaseEntry
<1>3. e # Absent
  BY <1>2 DEF Assumptions
<1>4. lease' = [lease EXCEPT ![u] = e]
  BY DEF Expire
<1> HIDE DEF e
<1> QED
  BY <1>3, <1>4 DEF Expire, IInv, TypeOK

\* A registered or persisted lease entry is there; a renewal that Vault gave up
\* leaves it as it was.
LEMMA StoredLease ==
  ASSUME Assumptions, IInv, NEW r \in Request, RegisterLease(r) \/ PersistRenewal(r)
  PROVE  /\ req[r].user \in User \cap issued
         /\ lease'[req[r].user] # Absent \/ (PersistRenewal(r) /\ lease' = lease)
         /\ \A v \in User \ {req[r].user} : lease'[v] = lease[v]
<1>1. req[r] # Idle
  BY DEF RegisterLease, PersistRenewal, At
<1>2. req[r] \in Job /\ JobGood(r)
  BY <1>1, JobOf DEF IInv
<1>3. req[r].user \in User \cap issued
  BY <1>2 DEF RegisterLease, PersistRenewal, At, JobGood, CreateGood, RenewGood, Job, IInv, TypeOK,
     Assumptions, AbsentOK
<1>4. RegisterLease(r) => \E e \in LeaseEntry : lease' = [lease EXCEPT ![req[r].user] = e]
  <2> DEFINE e == [cluster |-> req[r].cluster, database |-> req[r].database,
                   role |-> req[r].role, timer |-> "set", left |-> MaxRenewals]
  <2>1. e \in LeaseEntry
    BY <1>2 DEF LeaseEntry, Job, Assumptions, BoundsOK
  <2>2. RegisterLease(r) => lease' = [lease EXCEPT ![req[r].user] = e]
    BY DEF RegisterLease
  <2> HIDE DEF e
  <2> QED
    BY <2>1, <2>2
<1>5. ASSUME NEW e \in LeaseEntry, lease' = [lease EXCEPT ![req[r].user] = e]
      PROVE  lease'[req[r].user] # Absent /\ \A v \in User \ {req[r].user} : lease'[v] = lease[v]
  <2>1. e # Absent
    BY DEF Assumptions
  <2> QED
    BY <1>3, <1>5, <2>1 DEF IInv, TypeOK
<1>6. PersistRenewal(r) => lease' = lease \/ \E e \in LeaseEntry : lease' = [lease EXCEPT ![req[r].user] = e]
  BY <1>2, RenewedType DEF PersistRenewal
<1> QED
  BY <1>3, <1>4, <1>5, <1>6

(***************************************************************************)
(* With no other request in flight, nothing else changes the lease.        *)
(***************************************************************************)
LEMMA SerialStep ==
  ASSUME Assumptions, OneAtATime, IInv, SerialInv, Next
  PROVE  SerialInv'
<1>1. ASSUME req' = req, pg' = pg, \A u \in User : lease'[u] = Absent <=> lease[u] = Absent,
             NEW r \in Request
      PROVE  SerialJob(r)'
  <2>1. req[r] # Idle => req[r] \in Job /\ JobGood(r)
    BY JobOf DEF IInv
  <2>2. At(r, "create", "registerLease") \/ (req[r] # Idle /\ req[r].op = "renew")
          => req[r].user \in User
    BY <2>1 DEF At, JobGood, CreateGood, RenewGood, Job, IInv, TypeOK, Assumptions, AbsentOK
  <2> QED
    BY <1>1, <2>2 DEF SerialInv, SerialJob, At
<1>2. CASE RegistryStep \/ RoleStep \/ \E u \in User : Expire(u)
  <2>1. req' = req /\ pg' = pg /\ \A u \in User : lease'[u] = Absent <=> lease[u] = Absent
    BY <1>2, ExpireKeeps DEF RegistryStep, RoleStep
  <2> QED
    BY <1>1, <2>1 DEF SerialInv
<1>3. ASSUME NEW r \in Request, SerialJob(r)' PROVE SerialInv'
  BY <1>3 DEF OneAtATime, SerialInv
<1>4. ASSUME NEW r \in Request, req'[r] = Idle PROVE SerialInv'
  BY <1>3, <1>4 DEF SerialJob, At
<1>5. ASSUME NEW r \in Request, Return(r) PROVE SerialInv'
  BY <1>4, <1>5 DEF Return, Continue, IInv, TypeOK
<1>7. ASSUME NEW r \in Request, NEW p \in Pc \ {"registerLease"}, Goto(r, p), req[r] # Idle, lease' = lease
      PROVE  SerialInv'
  <2>1. req'[r] = [req[r] EXCEPT !.pc = p] /\ req[r] \in Job
    BY <1>7, JobOf DEF Goto, Continue, IInv, TypeOK
  <2>2. req'[r].op = req[r].op /\ req'[r].pc = p /\ req'[r].user = req[r].user
    BY <2>1 DEF Job
  <2> QED
    BY <1>3, <1>7, <2>2 DEF SerialInv, SerialJob, At
<1>8. ASSUME NEW r \in Request, CreateUser(r) PROVE SerialInv'
  <2>1. CASE ~ CreationSucceeds(req[r])
    BY <1>5, <1>8, <2>1 DEF CreateUser
  <2>2. CASE CreationSucceeds(req[r])
    <3>1. req[r] \in Job /\ req[r].op = "create" /\ JobGood(r) /\ req[r].pc = "createUser"
      BY <1>8, JobOf DEF CreateUser, At, IInv
    <3>2. PICK u \in User \ issued :
            /\ pg' = [pg EXCEPT ![u] = NewLogin(req[r])]
            /\ Continue(r, [req[r] EXCEPT !.pc = "registerLease", !.user = u])
      BY <1>8, <2>2 DEF CreateUser
    <3>3. NewLogin(req[r]) \in Login
      BY <3>1 DEF NewLogin, Login, Job, JobGood, CreateGood
    <3>4. pg'[u] # Absent /\ lease'[u] = Absent
      BY <1>8, <3>2, <3>3 DEF CreateUser, IInv, TypeOK, NamesIssued, Assumptions
    <3>5. req'[r].user = u /\ req'[r].op = "create"
      BY <3>1, <3>2 DEF Continue, IInv, TypeOK, Job
    <3> QED
      BY <1>3, <3>4, <3>5 DEF SerialJob, At
  <2> QED
    BY <2>1, <2>2
<1>9. ASSUME NEW r \in Request, NEW u \in User, Renew(r, u) PROVE SerialInv'
  <2>1. req'[r] = LeaseJob("renew", u) /\ lease'[u] # Absent
    BY <1>9 DEF Renew, Continue, IInv, TypeOK
  <2>2. req'[r].user = u /\ req'[r].op = "renew"
    BY <2>1 DEF LeaseJob, NewJob
  <2> QED
    BY <1>3, <2>1, <2>2 DEF SerialJob, At
<1>10. ASSUME NEW r \in Request, NEW c \in Cluster, NEW d \in Database, NEW n \in Role,
              SecretCredsCreate(r, c, d, n)
       PROVE  SerialInv'
  <2>1. req'[r] = [NewJob("create", c, d, n) EXCEPT !.pc = "loadDatabase", !.group = mgmt[c]]
    BY <1>10 DEF SecretCredsCreate, Continue, IInv, TypeOK
  <2>2. req'[r].op = "create" /\ req'[r].pc = "loadDatabase"
    BY <2>1 DEF NewJob
  <2> QED
    BY <1>3, <2>2 DEF SerialJob, At
<1>11. ASSUME NEW r \in Request, NEW job, Continue(r, job), req[r] # Idle, lease' = lease,
              job.op = req[r].op, job.user = req[r].user, job.pc # "registerLease"
       PROVE  SerialInv'
  <2>1. req'[r] = job
    BY <1>11 DEF Continue, IInv, TypeOK
  <2> QED
    BY <1>3, <1>11, <2>1 DEF SerialInv, SerialJob, At
<1>12. ASSUME NEW r \in Request, LoadDatabase(r) \/ LoadRole(r) \/ LoadForConn(r) PROVE SerialInv'
  <2>1. req[r] # Idle /\ lease' = lease
    BY <1>12 DEF LoadDatabase, LoadRole, LoadForConn, At
  <2>2. req[r] \in Job
    BY <2>1, JobOf DEF IInv
  <2>3. CASE LoadDatabase(r)
    BY <1>5, <1>11, <2>1, <2>2, <2>3 DEF LoadDatabase, Job
  <2>4. CASE LoadRole(r)
    BY <1>5, <1>11, <2>1, <2>2, <2>4 DEF LoadRole, Job
  <2>5. CASE LoadForConn(r)
    <3> DEFINE p == CASE req[r].op = "create" -> "createUser"
                      [] req[r].op = "renew"  -> "alterExpiry"
                      [] req[r].op = "revoke" -> "dropUser"
               job == [req[r] EXCEPT !.conn = mgmt[req[r].cluster], !.pc = p]
    <3>1. p # "registerLease"
      BY <2>2 DEF Job
    <3>2. job.op = req[r].op /\ job.user = req[r].user /\ job.pc # "registerLease"
      BY <2>2, <3>1 DEF Job
    <3>3. Return(r) \/ Continue(r, job)
      BY <2>5 DEF LoadForConn
    <3> QED
      BY <1>5, <1>11, <2>1, <3>2, <3>3
  <2> QED
    BY <1>12, <2>3, <2>4, <2>5
<1>13. ASSUME NEW r \in Request,
              SecretCredsRenew(r) \/ LoadClusterToRenew(r) \/ LoadDatabaseToRenew(r) \/ AlterExpiry(r)
       PROVE  SerialInv'
  <2>1. req[r] # Idle /\ lease' = lease
    BY <1>13 DEF SecretCredsRenew, LoadClusterToRenew, LoadDatabaseToRenew, AlterExpiry, At
  <2>2. req[r] \in Job
    BY <2>1, JobOf DEF IInv
  <2>3. CASE LoadDatabaseToRenew(r)
    BY <1>5, <1>7, <1>11, <2>1, <2>2, <2>3 DEF LoadDatabaseToRenew, Job, Pc
  <2> QED
    BY <1>5, <1>7, <1>13, <2>1, <2>3 DEF SecretCredsRenew, LoadClusterToRenew, AlterExpiry, Pc
<1>14. ASSUME NEW r \in Request,
              \/ SecretCredsRevoke(r) \/ LoadClusterToRevoke(r) \/ LoadDatabaseToRevoke(r)
              \/ DropUser(r)
       PROVE  SerialInv'
  <2>1. req[r] # Idle /\ lease' = lease
    BY <1>14 DEF SecretCredsRevoke, LoadClusterToRevoke, LoadDatabaseToRevoke, DropUser, At
  <2>2. req[r] \in Job
    BY <2>1, JobOf DEF IInv
  <2>3. CASE SecretCredsRevoke(r)
    BY <1>11, <2>1, <2>2, <2>3 DEF SecretCredsRevoke, Job
  <2>4. CASE LoadDatabaseToRevoke(r)
    BY <1>5, <1>11, <2>1, <2>2, <2>4 DEF LoadDatabaseToRevoke, Job
  <2>5. CASE LoadClusterToRevoke(r) \/ DropUser(r)
    BY <1>5, <1>7, <2>1, <2>5 DEF LoadClusterToRevoke, DropUser, Pc
  <2> QED
    BY <1>14, <2>3, <2>4, <2>5
<1>15. ASSUME NEW r \in Request, RegistrationFails(r) \/ \E u \in User : Revoke(r, u) PROVE SerialInv'
  <2>1. CASE RegistrationFails(r)
    <3>1. req'[r] = [NewJob("revoke", req[r].cluster, req[r].database, req[r].role)
                       EXCEPT !.user = req[r].user]
      BY <2>1 DEF RegistrationFails, Continue, IInv, TypeOK
    <3>2. req'[r].op = "revoke"
      BY <3>1 DEF NewJob
    <3> QED
      BY <1>3, <3>2 DEF SerialJob, At
  <2>2. ASSUME NEW u \in User, Revoke(r, u) PROVE SerialInv'
    <3>1. req'[r] = LeaseJob("revoke", u)
      BY <2>2 DEF Revoke, Continue, IInv, TypeOK
    <3>2. req'[r].op = "revoke"
      BY <3>1 DEF LeaseJob, NewJob
    <3> QED
      BY <1>3, <3>2 DEF SerialJob, At
  <2> QED
    BY <1>15, <2>1, <2>2
<1>16. ASSUME NEW r \in Request, Handler(r) PROVE SerialInv'
  <2>1. CASE \/ Fail(r) \/ RegisterLease(r) \/ PersistRenewal(r) \/ EndLease(r)
             \/ DropUserCutShort(r)
    BY <1>5, <2>1 DEF Fail, RegisterLease, PersistRenewal, EndLease, DropUserCutShort
  <2> QED
    BY <1>8, <1>9, <1>10, <1>12, <1>13, <1>14, <1>15, <1>16, <2>1 DEF Handler, Step
<1> QED
  BY <1>2, <1>16 DEF Next

(***************************************************************************)
(* The refinement, step by step.                                           *)
(***************************************************************************)
LEMMA PStutter ==
  ASSUME Assumptions, IInv, pg' = pg, \A u \in User : u \in issued' <=> u \in issued,
         \A u \in User : lease'[u] = Absent <=> lease[u] = Absent
  PROVE  UNCHANGED Promise!vars
  BY DEF Promise!vars, LoginStatus, Held

LEMMA RefineCreate ==
  ASSUME Assumptions, IInv, NEW r \in Request, CreateUser(r)
  PROVE  [Promise!Next]_(Promise!vars)
<1>1. CASE ~ CreationSucceeds(req[r])
  BY <1>1, PStutter DEF CreateUser
<1>2. CASE CreationSucceeds(req[r])
  <2>1. PICK u \in User \ issued :
          pg' = [pg EXCEPT ![u] = NewLogin(req[r])] /\ issued' = issued \cup {u}
    BY <1>2 DEF CreateUser
  <2>2. NewLogin(req[r]) # Absent
    <3>1. req[r] \in Job /\ JobGood(r) /\ req[r].op = "create" /\ req[r].pc = "createUser"
      BY JobOf DEF CreateUser, At, IInv
    <3>2. NewLogin(req[r]) \in Login
      BY <3>1 DEF NewLogin, Login, Job, JobGood, CreateGood
    <3> QED
      BY <3>2 DEF Assumptions
  <2>3. LoginStatus[u] = "none" /\ LoginStatus' = [LoginStatus EXCEPT ![u] = "live"]
    BY <2>1, <2>2 DEF LoginStatus, IInv, TypeOK
  <2>4. Held' = Held
    BY DEF CreateUser, Held
  <2> QED
    BY <2>1, <2>3, <2>4 DEF Promise!Next, Promise!Issue
<1> QED
  BY <1>1, <1>2

LEMMA RefineLease ==
  ASSUME Assumptions, IInv, SerialInv, NEW r \in Request, RegisterLease(r) \/ PersistRenewal(r)
  PROVE  [Promise!Next]_(Promise!vars)
<1> DEFINE u == req[r].user
<1>1. /\ u \in User \cap issued
      /\ lease'[u] # Absent \/ (PersistRenewal(r) /\ lease' = lease)
      /\ \A v \in User \ {u} : lease'[v] = lease[v]
  BY StoredLease
<1>2. pg' = pg /\ issued' = issued
  BY DEF RegisterLease, PersistRenewal
<1>3. CASE RegisterLease(r)
  <2>1. pg[u] # Absent /\ lease[u] = Absent
    BY <1>3 DEF RegisterLease, SerialInv, SerialJob
  <2>2. LoginStatus[u] = "live" /\ LoginStatus' = LoginStatus
    BY <1>1, <1>2, <2>1 DEF LoginStatus
  <2>3. u \notin Held /\ Held' = Held \cup {u}
    <3>1. lease'[u] # Absent
      BY <1>1, <1>3 DEF RegisterLease, PersistRenewal, At
    <3> QED
      BY <1>1, <2>1, <3>1 DEF Held
  <2> QED
    BY <1>1, <2>2, <2>3 DEF Promise!Next, Promise!Hold
<1>4. CASE PersistRenewal(r)
  <2>1. lease[u] # Absent
    BY <1>4 DEF PersistRenewal, At, SerialInv, SerialJob
  <2> QED
    BY <1>1, <1>2, <2>1, PStutter
<1> QED
  BY <1>3, <1>4

LEMMA RefineRevoke ==
  ASSUME Assumptions, RevocationsDrop, IInv, NEW r \in Request,
         DropUser(r) \/ DropUserCutShort(r) \/ EndLease(r)
  PROVE  [Promise!Next]_(Promise!vars)
<1> DEFINE u == req[r].user
<1>1. req[r] \in Job /\ JobGood(r) /\ req[r].op = "revoke"
  BY JobOf DEF DropUser, DropUserCutShort, EndLease, At, IInv
<1>2. u \in User \cap issued
  BY <1>1 DEF JobGood, RevokeGood, Job, IInv, TypeOK, Assumptions, AbsentOK
<1>3. CASE DropUser(r) \/ DropUserCutShort(r)
  <2>1. /\ issued' = issued /\ Held' = Held
        /\ \A v \in User \ {u} : pg'[v] = pg[v]
        /\ pg'[u] # Absent => pg[u] # Absent
    <3>1. CASE DropUser(r)
      BY <1>2, <3>1 DEF DropUser, Held, IInv, TypeOK
    <3>2. CASE DropUserCutShort(r)
      BY <1>2, <3>2, CutShortLogins DEF DropUserCutShort, Held
    <3> QED
      BY <1>3, <3>1, <3>2
  <2>2. CASE pg'[u] # Absent \/ pg[u] = Absent
    BY <2>1, <2>2 DEF LoginStatus, Promise!vars
  <2>3. CASE pg'[u] = Absent /\ pg[u] # Absent
    <3>1. LoginStatus[u] = "live" /\ LoginStatus' = [LoginStatus EXCEPT ![u] = "dropped"]
      BY <1>2, <2>1, <2>3 DEF LoginStatus
    <3> QED
      BY <1>2, <2>1, <3>1 DEF Promise!Next, Promise!Drop
  <2> QED
    BY <2>2, <2>3
<1>4. CASE EndLease(r)
  <2>1. pg[u] = Absent /\ lease' = [lease EXCEPT ![u] = Absent] /\ UNCHANGED <<pg, issued>>
    BY <1>1, <1>4, RevocationsDrop DEF EndLease, At, JobGood, RevokeGood
  <2>2. LoginStatus[u] = "dropped" /\ LoginStatus' = LoginStatus
    BY <1>2, <2>1 DEF LoginStatus
  <2>3. Held' = Held \ {u}
    BY <1>2, <2>1 DEF Held, IInv, TypeOK
  <2>4. CASE u \in Held
    BY <1>2, <2>2, <2>3, <2>4 DEF Promise!Next, Promise!End
  <2>5. CASE u \notin Held
    BY <2>2, <2>3, <2>5 DEF Promise!vars
  <2> QED
    BY <2>4, <2>5
<1> QED
  BY <1>3, <1>4

\* Requests made one at a time, each of which may fail between any two calls,
\* implement Lease.tla: the login lives from its creation to its revocation,
\* and Vault forgets the lease only after that, if no role has revocation
\* statements that succeed without dropping it.
THEOREM LeaseRefinement == ASSUME OneAtATime, RevocationsDrop PROVE Spec => ImplementsLease
<1> Assumptions
  BY KindsOK, BoundsOK, AbsentOK, NoClash DEF Assumptions, NoClash
<1>1. Init => SerialInv /\ Promise!Init
  BY DEF Init, SerialInv, SerialJob, At, Promise!Init, LoginStatus, Held
<1>2. ASSUME IInv, SerialInv, [Next]_vars PROVE SerialInv' /\ [Promise!Next]_(Promise!vars)
  <2>1. CASE UNCHANGED vars
    <3>1. SerialInv'
      BY <1>2, <2>1 DEF vars, SerialInv, SerialJob, At
    <3> QED
      BY <1>2, <2>1, <3>1, PStutter DEF vars
  <2>2. CASE Next
    <3>1. CASE UNCHANGED <<pg, lease, issued>> \/ RegistryStep \/ \E u \in User : Expire(u)
      <4>1. /\ pg' = pg /\ \A u \in User : u \in issued' <=> u \in issued
            /\ \A u \in User : lease'[u] = Absent <=> lease[u] = Absent
        BY <1>2, <3>1, RegistryNames, ExpireKeeps
      <4> QED
        BY <1>2, <2>2, <4>1, SerialStep, OneAtATime, PStutter
    <3> QED
      BY <1>2, <2>2, <3>1, SerialStep, OneAtATime, RevocationsDrop, Rest, RefineCreate, RefineLease,
         RefineRevoke
  <2> QED
    BY <1>2, <2>1, <2>2
<1> QED
  BY <1>1, <1>2, Invariance, PTL DEF Spec, ImplementsLease, Promise!Spec
=============================================================================
