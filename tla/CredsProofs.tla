---------------------------- MODULE CredsProofs ----------------------------
(***************************************************************************)
(* Theorems about Creds for every value of its constants: any number of    *)
(* clusters, databases, roles, logins, requests in flight and failures.    *)
(***************************************************************************)
EXTENDS Creds, FiniteSetTheorems, TLAPS

(***************************************************************************)
(* What a handler has read and asked for by the time it is where it is.    *)
(***************************************************************************)
CreateGood(r) ==
  req[r].op = "create" =>
    /\ req[r].pc \in {"loadDatabase", "loadRole", "loadForConn", "createUser", "registerLease"}
    /\ req[r].group # Absent
    /\ req[r].pc # "loadDatabase" => req[r].owner # Absent
    /\ req[r].pc = "registerLease" => req[r].user \in issued
    /\ "cluster" \in seen[r]
    /\ req[r].pc # "loadDatabase" => "database" \in seen[r]
    /\ req[r].pc \in {"loadForConn", "createUser", "registerLease"} => "role" \in seen[r]

RenewGood(r) ==
  req[r].op = "renew" =>
    /\ req[r].pc \in {"loadRole", "loadCluster", "loadDatabase", "loadForConn",
                      "alterExpiry", "persistRenewal"}
    /\ req[r].user \in issued
    /\ req[r].pc # "loadRole" => "role" \in seen[r]
    /\ req[r].pc \notin {"loadRole", "loadCluster"} => "cluster" \in seen[r]
    /\ req[r].pc \in {"loadForConn", "alterExpiry", "persistRenewal"} => "database" \in seen[r]

RevokeGood(r) ==
  req[r].op = "revoke" =>
    /\ req[r].pc \in {"loadRole", "loadCluster", "loadDatabase", "loadForConn",
                      "dropUser", "endLease"}
    /\ req[r].user \in issued
    /\ req[r].statements = "keep" => ~ RevocationsDrop
    /\ req[r].pc = "endLease" => pg[req[r].user] = Absent \/ ~ RevocationsDrop

JobGood(r) == CreateGood(r) /\ RenewGood(r) /\ RevokeGood(r)

\* Whatever has a name drew it.
NamesIssued ==
  \A u \in User : pg[u] # Absent \/ lease[u] # Absent => u \in issued

IInv ==
  /\ TypeOK
  /\ NamesIssued
  /\ \A r \in Request : req[r] # Idle => JobGood(r)

\* What every instance assumes of its constants.
Assumptions ==
  /\ KindsOK /\ BoundsOK /\ AbsentOK
  /\ Idle \notin Job /\ Absent \notin LeaseEntry /\ Absent \notin Login

\* Names are never given back, and a login that is gone stays so.
Grow ==
  /\ issued \subseteq issued'
  /\ \A u \in issued \cap User : pg[u] = Absent => pg'[u] = Absent

\* The history has its type after any step.
LEMMA RememberType ==
  ASSUME Remember, TypeOK PROVE seen' \in [Request -> SUBSET Parts]
<1>1. \A job : Usable(job) \subseteq Parts
  BY DEF Usable, Parts
<1> QED
  BY <1>1 DEF Remember, TypeOK

\* The history of a request that goes on only grows, by what is usable.
LEMMA RememberMore ==
  ASSUME Remember, NEW r \in Request, NEW job, req'[r] = job, job # Idle, job.op # "revoke"
  PROVE  /\ seen[r] \subseteq seen'[r]
         /\ clusterStatus[job.cluster] = "active" => "cluster" \in seen'[r]
         /\ dbStatus[job.cluster][job.database] = "active" => "database" \in seen'[r]
         /\ roles[job.role] # Absent => "role" \in seen'[r]
<1>1. seen'[r] = seen[r] \cup Usable(job)
  BY DEF Remember
<1> QED
  BY <1>1 DEF Usable

\* A request stays where it is while others act.
LEMMA KeepJob ==
  ASSUME AbsentOK, TypeOK, Grow, Remember,
         NEW r \in Request, req'[r] = req[r], req[r] # Idle, JobGood(r)
  PROVE  JobGood(r)'
<1>0. req[r] \in Job
  BY DEF TypeOK
<1>1. req[r].op # "revoke" => seen[r] \subseteq seen'[r]
  BY RememberMore
<1>2. CreateGood(r)'
  BY <1>0, <1>1 DEF JobGood, CreateGood, Grow
<1>3. RenewGood(r)'
  BY <1>0, <1>1 DEF JobGood, RenewGood, Grow
<1>4. RevokeGood(r)'
  <2>1. req[r].user \in issued => req[r].user \in User
    BY <1>0 DEF TypeOK, Job, AbsentOK
  <2> QED
    BY <1>0, <2>1 DEF JobGood, RevokeGood, Grow
<1> QED
  BY <1>2, <1>3, <1>4 DEF JobGood

\* A step of the operators or of a timer.
LEMMA Environment ==
  ASSUME AbsentOK, IInv, Grow, Remember, req' = req, TypeOK', NamesIssued'
  PROVE  IInv'
  BY KeepJob DEF IInv

\* A step of a handler, which goes on with a job or returns.
LEMMA Handling ==
  ASSUME AbsentOK, IInv, Grow, Remember, TypeOK', NamesIssued',
         NEW r \in Request, NEW job, Continue(r, job),
         job # Idle => JobGood(r)'
  PROVE  IInv'
<1>1. ASSUME NEW q \in Request, req'[q] # Idle PROVE JobGood(q)'
  <2>1. CASE q = r
    BY <2>1, <1>1 DEF Continue, IInv, TypeOK
  <2>2. CASE q # r
    BY <2>2, <1>1, KeepJob DEF Continue, IInv, TypeOK
  <2> QED
    BY <2>1, <2>2
<1> QED
  BY <1>1 DEF IInv

\* A step of a handler that changes nothing but its own job.
LEMMA Reading ==
  ASSUME AbsentOK, IInv, Remember, NEW r \in Request, NEW job \in Job \cup {Idle},
         Continue(r, job), job # Idle => JobGood(r)',
         UNCHANGED <<registry, roles, pg, lease, issued>>, faults' \in 0..MaxFaults
  PROVE  IInv'
<1>1. TypeOK'
  BY RememberType DEF IInv, TypeOK, Life!TypeOK, registry, Continue
<1>2. NamesIssued' /\ Grow
  BY DEF IInv, NamesIssued, Grow
<1> QED
  BY <1>1, <1>2, Handling

\* What a handler reads from its own job.
LEMMA JobOf ==
  ASSUME TypeOK, NEW r \in Request, req[r] # Idle
  PROVE  req[r] \in Job /\ \A job : Continue(r, job) => req'[r] = job
  BY DEF TypeOK, Continue

(***************************************************************************)
(* The changes handlers make to their job keep its type.                   *)
(***************************************************************************)
Pc == {"loadRole", "loadCluster", "loadDatabase", "loadForConn", "createUser",
       "registerLease", "alterExpiry", "persistRenewal", "dropUser", "endLease"}

LEMMA JobChanges ==
  ASSUME NEW j \in Job, NEW p \in Pc
  PROVE  /\ [j EXCEPT !.pc = p] \in Job
         /\ \A m \in ManagementRole \cup {Absent} : [j EXCEPT !.pc = p, !.group = m] \in Job
         /\ \A m \in ManagementRole \cup {Absent} : [j EXCEPT !.conn = m, !.pc = p] \in Job
         /\ \A o \in Owner \cup {Absent} : [j EXCEPT !.pc = p, !.owner = o] \in Job
         /\ \A s \in CreationKinds \cup RevocationKinds :
              [j EXCEPT !.pc = p, !.statements = s] \in Job
         /\ \A u \in User : [j EXCEPT !.pc = p, !.user = u] \in Job
         /\ \A u \in User : [j EXCEPT !.user = u] \in Job
         /\ \A k \in 0..MaxRenewals : [j EXCEPT !.pc = p, !.left = k] \in Job
         /\ \A u \in User, k \in 0..MaxRenewals : [j EXCEPT !.user = u, !.left = k] \in Job
<1>1. [j EXCEPT !.pc = p] \in Job
  BY DEF Job, Pc
<1>2. ASSUME NEW m \in ManagementRole \cup {Absent} PROVE [j EXCEPT !.pc = p, !.group = m] \in Job
  BY DEF Job, Pc
<1>3. ASSUME NEW m \in ManagementRole \cup {Absent} PROVE [j EXCEPT !.conn = m, !.pc = p] \in Job
  BY DEF Job, Pc
<1>4. ASSUME NEW o \in Owner \cup {Absent} PROVE [j EXCEPT !.pc = p, !.owner = o] \in Job
  BY DEF Job, Pc
<1>5. ASSUME NEW s \in CreationKinds \cup RevocationKinds
      PROVE  [j EXCEPT !.pc = p, !.statements = s] \in Job
  BY DEF Job, Pc
<1>6. ASSUME NEW u \in User PROVE [j EXCEPT !.pc = p, !.user = u] \in Job
  BY DEF Job, Pc
<1>7. ASSUME NEW u \in User PROVE [j EXCEPT !.user = u] \in Job
  BY DEF Job
<1>8. ASSUME NEW u \in User, NEW k \in 0..MaxRenewals
      PROVE  [j EXCEPT !.user = u, !.left = k] \in Job
  BY DEF Job
<1>9. ASSUME NEW k \in 0..MaxRenewals PROVE [j EXCEPT !.pc = p, !.left = k] \in Job
  BY DEF Job, Pc
<1> QED
  BY <1>1, <1>2, <1>3, <1>4, <1>5, <1>6, <1>7, <1>8, <1>9

LEMMA NewJobType ==
  ASSUME BoundsOK, NEW op \in {"create", "renew", "revoke"},
         NEW c \in Cluster, NEW d \in Database, NEW n \in Role
  PROVE  NewJob(op, c, d, n) \in Job
  BY DEF NewJob, Job, BoundsOK

LEMMA Creating ==
  ASSUME Assumptions, IInv, Remember, NEW r \in Request,
         \/ \E c \in Cluster, d \in Database, n \in Role : SecretCredsCreate(r, c, d, n)
         \/ LoadDatabase(r) \/ LoadRole(r)
  PROVE  IInv'
<1>1. ASSUME NEW c \in Cluster, NEW d \in Database, NEW n \in Role, SecretCredsCreate(r, c, d, n)
      PROVE  IInv'
  <2> DEFINE job == [NewJob("create", c, d, n) EXCEPT !.pc = "loadDatabase", !.group = mgmt[c]]
  <2>1. job \in Job /\ mgmt[c] # Absent
    <3>1. mgmt[c] # Absent /\ mgmt[c] \in ManagementRole \cup {Absent}
      BY <1>1 DEF SecretCredsCreate, IInv, TypeOK
    <3> QED
      BY <3>1, NewJobType, JobChanges DEF Pc, Assumptions
  <2>2. Continue(r, job) /\ req'[r] = job /\ job # Idle
    BY <1>1, <2>1 DEF SecretCredsCreate, Continue, IInv, TypeOK, Assumptions
  <2>3. "cluster" \in seen'[r]
    <3>1. job.op = "create" /\ job.cluster = c
      BY DEF NewJob
    <3> QED
      BY <1>1, <2>2, <3>1, RememberMore DEF SecretCredsCreate
  <2>4. JobGood(r)'
    BY <2>1, <2>2, <2>3 DEF JobGood, CreateGood, RenewGood, RevokeGood, NewJob
  <2> QED
    BY <1>1, <2>1, <2>2, <2>4, Reading DEF SecretCredsCreate, IInv, TypeOK, Assumptions
<1>2. CASE LoadDatabase(r)
  <2>1. req[r] \in Job /\ JobGood(r) /\ At(r, "create", "loadDatabase")
    BY <1>2, JobOf DEF IInv, LoadDatabase, At
  <2> DEFINE c == req[r].cluster
             d == req[r].database
             job == [req[r] EXCEPT !.pc = "loadRole", !.owner = owner[c][d]]
  <2>2. CASE dbStatus[c][d] # "active"
    BY <1>2, <2>2, Reading DEF LoadDatabase, Return, IInv, TypeOK, Assumptions
  <2>3. CASE dbStatus[c][d] = "active"
    <3>1. job \in Job /\ owner[c][d] # Absent
      <4>1. owner[c][d] # Absent /\ owner[c][d] \in Owner \cup {Absent}
        BY <2>1, <2>3 DEF Job, IInv, TypeOK
      <4> QED
        BY <2>1, <4>1, JobChanges DEF Pc
    <3>2. Continue(r, job) /\ req'[r] = job /\ job # Idle
      BY <1>2, <2>1, <2>3, <3>1, JobOf DEF LoadDatabase, IInv, Assumptions, At
    <3>3. seen[r] \subseteq seen'[r] /\ "database" \in seen'[r]
      <4>1. job.op = "create" /\ job.cluster = c /\ job.database = d
        BY <2>1 DEF At, Job
      <4> HIDE DEF job, c, d
      <4> QED
        BY <2>3, <3>2, <4>1, RememberMore
    <3>4. JobGood(r)'
      BY <2>1, <3>1, <3>2, <3>3 DEF JobGood, CreateGood, RenewGood, RevokeGood, At, Job
    <3> QED
      BY <1>2, <3>1, <3>2, <3>4, Reading DEF LoadDatabase, IInv, TypeOK, Assumptions
  <2> QED
    BY <2>2, <2>3
<1>3. CASE LoadRole(r)
  <2>1. req[r] \in Job /\ JobGood(r) /\ At(r, "create", "loadRole")
    BY <1>3, JobOf DEF IInv, LoadRole, At
  <2> DEFINE entry == roles[req[r].role]
             job == [req[r] EXCEPT !.pc = "loadForConn", !.statements = entry.creation]
  <2>2. CASE entry = Absent
    BY <1>3, <2>2, Reading DEF LoadRole, Return, IInv, TypeOK, Assumptions
  <2>3. CASE entry # Absent
    <3>1. job \in Job
      <4>1. entry.creation \in CreationKinds
        BY <2>1, <2>3 DEF Job, IInv, TypeOK, RoleEntry, Assumptions, KindsOK
      <4> QED
        BY <2>1, <4>1, JobChanges DEF Pc
    <3>2. Continue(r, job) /\ req'[r] = job /\ job # Idle
      BY <1>3, <2>1, <2>3, <3>1, JobOf DEF LoadRole, IInv, Assumptions, At
    <3>3. seen[r] \subseteq seen'[r] /\ "role" \in seen'[r]
      <4>1. job.op = "create" /\ entry = roles[job.role]
        BY <2>1 DEF At, Job
      <4> HIDE DEF job, entry
      <4> QED
        BY <2>3, <3>2, <4>1, RememberMore
    <3>4. JobGood(r)'
      BY <2>1, <3>1, <3>2, <3>3 DEF JobGood, CreateGood, RenewGood, RevokeGood, At, Job
    <3> QED
      BY <1>3, <3>1, <3>2, <3>4, Reading DEF LoadRole, IInv, TypeOK, Assumptions
  <2> QED
    BY <2>2, <2>3
<1> QED
  BY <1>1, <1>2, <1>3

\* The connection, for each of the three handlers.
LEMMA Connecting ==
  ASSUME Assumptions, IInv, Remember, NEW r \in Request, LoadForConn(r)
  PROVE  IInv'
<1>1. req[r] \in Job /\ JobGood(r) /\ req[r] # Idle /\ req[r].pc = "loadForConn"
  BY JobOf DEF IInv, LoadForConn
<1> DEFINE c == req[r].cluster
           p == CASE req[r].op = "create" -> "createUser"
                  [] req[r].op = "renew"  -> "alterExpiry"
                  [] req[r].op = "revoke" -> "dropUser"
           job == [req[r] EXCEPT !.conn = mgmt[c], !.pc = p]
<1>2. CASE clusterStatus[c] = "absent"
  BY <1>2, Reading DEF LoadForConn, Return, IInv, TypeOK, Assumptions
<1>3. CASE clusterStatus[c] # "absent"
  <2>1. req[r].op \in {"create", "renew", "revoke"}
    BY <1>1 DEF Job
  <2>2. /\ p \in {"createUser", "alterExpiry", "dropUser"}
        /\ req[r].op = "create" => p = "createUser"
        /\ req[r].op = "renew" => p = "alterExpiry"
        /\ req[r].op = "revoke" => p = "dropUser"
    BY <2>1
  <2>3. job \in Job
    <3>1. mgmt[c] \in ManagementRole \cup {Absent} /\ p \in Pc
      BY <1>1, <2>1, <2>2 DEF Pc, IInv, TypeOK, Job
    <3> QED
      BY <1>1, <3>1, JobChanges
  <2>4. Continue(r, job) /\ req'[r] = job /\ job # Idle
    BY <1>1, <1>3, <2>3, JobOf DEF LoadForConn, IInv, Assumptions
  <2>5. job.op # "revoke" => seen[r] \subseteq seen'[r]
    BY <2>4, RememberMore
  <2>6. JobGood(r)'
    BY <1>1, <1>3, <2>2, <2>4, <2>5 DEF LoadForConn, JobGood, CreateGood, RenewGood, RevokeGood, Job
  <2> QED
    BY <1>3, <2>3, <2>4, <2>6, Reading DEF LoadForConn, IInv, TypeOK, Assumptions
<1> QED
  BY <1>2, <1>3

\* The transaction that creates the login, under a name nothing has had.
LEMMA CreatingUser ==
  ASSUME Assumptions, IInv, Remember, NEW r \in Request, CreateUser(r)
  PROVE  IInv'
<1>1. req[r] \in Job /\ JobGood(r) /\ At(r, "create", "createUser") /\ req[r] # Idle
  BY JobOf DEF IInv, CreateUser, At
<1>2. CASE ~ CreationSucceeds(req[r])
  BY <1>2, Reading DEF CreateUser, Return, IInv, TypeOK, Assumptions
<1>3. CASE CreationSucceeds(req[r])
  <2>1. PICK u \in User \ issued :
          /\ pg' = [pg EXCEPT ![u] = NewLogin(req[r])]
          /\ issued' = issued \cup {u}
          /\ Continue(r, [req[r] EXCEPT !.pc = "registerLease", !.user = u])
    BY <1>3 DEF CreateUser
  <2> DEFINE job == [req[r] EXCEPT !.pc = "registerLease", !.user = u]
  <2>2. UNCHANGED <<registry, roles, lease, faults>>
    BY DEF CreateUser
  <2>3. job \in Job /\ req'[r] = job /\ job # Idle /\ Continue(r, job)
    <3>1. job \in Job
      BY <1>1, <2>1, JobChanges DEF Pc
    <3> QED
      BY <1>1, <2>1, <3>1, JobOf DEF IInv, Assumptions
  <2>4. NewLogin(req[r]) \in Login
    BY <1>1 DEF NewLogin, Login, Job, JobGood, CreateGood, At
  <2>5. TypeOK'
    BY <2>1, <2>2, <2>3, <2>4, RememberType DEF IInv, TypeOK, Life!TypeOK, registry, Continue
  <2>6. NamesIssued' /\ Grow
    BY <2>1, <2>2 DEF IInv, TypeOK, NamesIssued, Grow
  <2>7. JobGood(r)'
    <3>1. job.op = "create" /\ seen[r] \subseteq seen'[r]
      BY <1>1, <2>3, RememberMore DEF At, Job
    <3> QED
      BY <1>1, <2>1, <2>3, <3>1 DEF JobGood, CreateGood, RenewGood, RevokeGood, At, Job
  <2> QED
    BY <2>3, <2>5, <2>6, <2>7, Handling DEF Assumptions
<1> QED
  BY <1>2, <1>3

\* A step of Vault that stores or deletes a lease entry of a name that is in
\* use, and ends the request.
LEMMA StoringLease ==
  ASSUME Assumptions, IInv, Remember, NEW r \in Request, Return(r),
         NEW u \in User \cap issued, NEW e \in LeaseEntry \cup {Absent},
         lease' = [lease EXCEPT ![u] = e],
         UNCHANGED <<registry, roles, pg, issued, faults>>
  PROVE  IInv'
<1>1. TypeOK'
  BY RememberType DEF IInv, TypeOK, Life!TypeOK, registry, Continue, Return
<1>2. NamesIssued' /\ Grow
  BY DEF IInv, TypeOK, NamesIssued, Grow
<1> QED
  BY <1>1, <1>2, Handling DEF Return, Assumptions

LEMMA Returning ==
  ASSUME Assumptions, IInv, Remember, NEW r \in Request, Return(r), faults' \in 0..MaxFaults,
         UNCHANGED <<registry, roles, pg, lease, issued>>
  PROVE  IInv'
<1>1. Continue(r, Idle) /\ Idle \in Job \cup {Idle} /\ AbsentOK
  BY DEF Return, Assumptions
<1>2. Idle # Idle => JobGood(r)'
  OBVIOUS
<1> QED
  BY ONLY <1>1, <1>2, Reading, IInv, Remember, r \in Request, faults' \in 0..MaxFaults,
     UNCHANGED <<registry, roles, pg, lease, issued>>

\* What a renewal stores is a lease entry.
LEMMA RenewedType ==
  ASSUME Assumptions, NEW job \in Job
  PROVE  /\ Renewed(job, "none", 0) \in LeaseEntry
         /\ job.left > 0 => Renewed(job, "set", job.left - 1) \in LeaseEntry
  BY DEF Renewed, LeaseEntry, Job, Assumptions, BoundsOK

LEMMA Leasing ==
  ASSUME Assumptions, IInv, Remember, NEW r \in Request,
         RegisterLease(r) \/ PersistRenewal(r) \/ EndLease(r)
  PROVE  IInv'
<1>1. req[r] \in Job /\ JobGood(r) /\ req[r].user \in issued
  <2>1. req[r] # Idle
    BY DEF RegisterLease, PersistRenewal, EndLease, At
  <2>2. req[r] \in Job /\ JobGood(r)
    BY <2>1, JobOf DEF IInv
  <2> QED
    BY <2>2 DEF RegisterLease, PersistRenewal, EndLease, At, JobGood, CreateGood,
       RenewGood, RevokeGood
<1>2. req[r].user \in User \cap issued
  BY <1>1 DEF Job, IInv, TypeOK, Assumptions, AbsentOK
<1>3. CASE RegisterLease(r)
  <2> DEFINE e == [cluster |-> req[r].cluster, database |-> req[r].database,
                   role |-> req[r].role, timer |-> "set", left |-> MaxRenewals]
  <2>1. e \in LeaseEntry
    BY <1>1 DEF LeaseEntry, Job, Assumptions, BoundsOK
  <2> QED
    BY <1>2, <1>3, <2>1, StoringLease DEF RegisterLease
<1>4. CASE PersistRenewal(r)
  <2>1. CASE lease' = lease
    BY <1>4, <2>1, Returning DEF PersistRenewal, IInv, TypeOK
  <2>2. ASSUME NEW e \in LeaseEntry, lease' = [lease EXCEPT ![req[r].user] = e] PROVE IInv'
    BY <1>2, <1>4, <2>2, StoringLease DEF PersistRenewal
  <2> QED
    BY <1>1, <1>4, <2>1, <2>2, RenewedType DEF PersistRenewal
<1>5. CASE EndLease(r)
  BY <1>2, <1>5, StoringLease DEF EndLease
<1> QED
  BY <1>3, <1>4, <1>5

\* A job made for a lease: of its renewal, its revocation, or the revocation
\* that makes up for a registration that failed.
LEMMA StartingOnLease ==
  ASSUME Assumptions, IInv, Remember, NEW r \in Request,
         RegistrationFails(r) \/ \E u \in User : Renew(r, u) \/ Revoke(r, u)
  PROVE  IInv'
<1>1. CASE RegistrationFails(r)
  <2>1. req[r] \in Job /\ JobGood(r) /\ At(r, "create", "registerLease")
    BY <1>1, JobOf DEF IInv, RegistrationFails, At
  <2>2. req[r].user \in issued /\ req[r].user \in User
    BY <2>1 DEF JobGood, CreateGood, At, Job, IInv, TypeOK, Assumptions, AbsentOK
  <2> DEFINE new == NewJob("revoke", req[r].cluster, req[r].database, req[r].role)
             job == [new EXCEPT !.user = req[r].user]
  <2>3. job \in Job
    <3>1. new \in Job
      BY <2>1, NewJobType DEF Job, Assumptions
    <3> QED
      BY <2>2, <3>1, JobChanges DEF Pc
  <2>4. Continue(r, job) /\ req'[r] = job /\ job # Idle
    BY <1>1, <2>1, <2>3, JobOf DEF RegistrationFails, At, IInv, Assumptions
  <2>5. /\ faults' \in 0..MaxFaults
        /\ UNCHANGED <<registry, roles, pg, lease, issued>>
    BY <1>1 DEF RegistrationFails, Fault, IInv, TypeOK, Assumptions, BoundsOK
  <2>6. JobGood(r)'
    <3>1. job.op = "revoke" /\ job.pc = "loadRole" /\ job.user = req[r].user
      BY DEF NewJob
    <3>2. job.statements # "keep"
      BY DEF NewJob, Assumptions, AbsentOK, RevocationKinds
    <3> QED
      BY <2>2, <2>4, <2>5, <3>1, <3>2 DEF JobGood, CreateGood, RenewGood, RevokeGood
  <2> QED
    BY <2>3, <2>4, <2>5, <2>6, Reading DEF Assumptions
<1>2. ASSUME NEW u \in User, NEW op \in {"renew", "revoke"}, lease[u] # Absent,
             Continue(r, LeaseJob(op, u)),
             UNCHANGED <<registry, roles, pg, lease, issued, faults>>
      PROVE  IInv'
  <2> DEFINE new == NewJob(op, lease[u].cluster, lease[u].database, lease[u].role)
             job == [new EXCEPT !.user = u, !.left = lease[u].left]
  <2>1. lease[u] \in LeaseEntry /\ u \in issued
    BY <1>2 DEF IInv, TypeOK, NamesIssued
  <2>2. new \in Job
    BY <2>1, NewJobType DEF LeaseEntry, Assumptions
  <2>3. job \in Job
    BY <2>1, <2>2, JobChanges DEF LeaseEntry, Pc
  <2>4. Continue(r, job) /\ req'[r] = job
    BY <1>2 DEF LeaseJob, Continue, IInv, TypeOK
  <2>5. JobGood(r)'
    <3>1. job.op = op /\ job.pc = "loadRole" /\ job.user = u
      BY DEF NewJob
    <3>2. job.statements # "keep"
      BY DEF NewJob, Assumptions, AbsentOK, RevocationKinds
    <3> QED
      BY <1>2, <2>1, <2>4, <3>1, <3>2 DEF JobGood, CreateGood, RenewGood, RevokeGood
  <2> QED
    BY <1>2, <2>3, <2>4, <2>5, Reading DEF IInv, TypeOK, Assumptions
<1> QED
  BY <1>1, <1>2 DEF Renew, Revoke

\* A step of a handler that moves on in the same job, or returns.
LEMMA Moving ==
  ASSUME Assumptions, IInv, Remember, NEW r \in Request, req[r] # Idle,
         NEW p \in Pc, Goto(r, p), JobGood(r)',
         UNCHANGED <<registry, roles, pg, lease, issued, faults>>
  PROVE  IInv'
<1>1. req[r] \in Job /\ faults' \in 0..MaxFaults
  BY JobOf DEF IInv, TypeOK
<1>2. [req[r] EXCEPT !.pc = p] \in Job
  BY <1>1, JobChanges
<1> QED
  BY <1>1, <1>2, Reading DEF Goto, Assumptions

LEMMA Renewing ==
  ASSUME Assumptions, IInv, Remember, NEW r \in Request,
         SecretCredsRenew(r) \/ LoadClusterToRenew(r) \/ LoadDatabaseToRenew(r) \/ AlterExpiry(r)
  PROVE  IInv'
<1>1. /\ req[r] \in Job /\ JobGood(r) /\ req[r] # Idle /\ req[r].op = "renew"
      /\ faults \in 0..MaxFaults
      /\ UNCHANGED <<registry, roles, pg, lease, issued, faults>>
  BY JobOf DEF IInv, TypeOK, SecretCredsRenew, LoadClusterToRenew, LoadDatabaseToRenew,
     AlterExpiry, At
<1>2. CASE Return(r)
  BY <1>1, <1>2, Returning
<1>3. ASSUME NEW p \in Pc, Goto(r, p)
      PROVE  req'[r] = [req[r] EXCEPT !.pc = p] /\ req'[r].op = "renew" /\ req'[r] # Idle
  <2>1. req'[r] = [req[r] EXCEPT !.pc = p]
    BY <1>3 DEF Goto, Continue, IInv, TypeOK
  <2>2. [req[r] EXCEPT !.pc = p] \in Job
    BY <1>1, JobChanges
  <2> QED
    BY <1>1, <2>1, <2>2 DEF Assumptions, Job
<1>4. ASSUME NEW p \in Pc, Goto(r, p)
      PROVE  /\ seen[r] \subseteq seen'[r]
             /\ clusterStatus[req[r].cluster] = "active" => "cluster" \in seen'[r]
             /\ dbStatus[req[r].cluster][req[r].database] = "active" => "database" \in seen'[r]
             /\ roles[req[r].role] # Absent => "role" \in seen'[r]
  <2> DEFINE job == [req[r] EXCEPT !.pc = p]
  <2>1. req'[r] = job /\ job # Idle /\ job.op # "revoke"
    BY <1>3, <1>4
  <2>2. /\ job.cluster = req[r].cluster
        /\ job.database = req[r].database
        /\ job.role = req[r].role
    BY <1>1 DEF Job
  <2> HIDE DEF job
  <2> QED
    BY <2>1, <2>2, RememberMore
<1>5. CASE SecretCredsRenew(r) /\ Goto(r, "loadCluster") /\ roles[req[r].role] # Absent
  <2>1. JobGood(r)'
    BY <1>1, <1>3, <1>4, <1>5 DEF SecretCredsRenew, At, Pc, JobGood, CreateGood, RenewGood,
       RevokeGood, Job
  <2> QED
    BY <1>1, <1>5, <2>1, Moving DEF Pc
<1>6. CASE LoadClusterToRenew(r) /\ Goto(r, "loadDatabase") /\ clusterStatus[req[r].cluster] = "active"
  <2>1. JobGood(r)'
    BY <1>1, <1>3, <1>4, <1>6 DEF LoadClusterToRenew, At, Pc, JobGood, CreateGood, RenewGood,
       RevokeGood, Job
  <2> QED
    BY <1>1, <1>6, <2>1, Moving DEF Pc
<1>7. CASE /\ LoadDatabaseToRenew(r) /\ Goto(r, "loadForConn")
           /\ dbStatus[req[r].cluster][req[r].database] = "active"
  <2>1. JobGood(r)'
    BY <1>1, <1>3, <1>4, <1>7 DEF LoadDatabaseToRenew, At, Pc, JobGood, CreateGood, RenewGood,
       RevokeGood, Job
  <2> QED
    BY <1>1, <1>7, <2>1, Moving DEF Pc
<1>8. CASE AlterExpiry(r) /\ Goto(r, "persistRenewal")
  <2>1. JobGood(r)'
    BY <1>1, <1>3, <1>4, <1>8 DEF AlterExpiry, At, Pc, JobGood, CreateGood, RenewGood,
       RevokeGood, Job
  <2> QED
    BY <1>1, <1>8, <2>1, Moving DEF Pc
<1> DEFINE answer == [req[r] EXCEPT !.pc = "persistRenewal", !.left = 0]
<1>9. CASE /\ LoadDatabaseToRenew(r) /\ Continue(r, answer)
           /\ dbStatus[req[r].cluster][req[r].database] = "active"
  <2>1. answer \in Job /\ answer # Idle
    <3>1. 0 \in 0..MaxRenewals
      BY DEF Assumptions, BoundsOK
    <3>2. answer \in Job
      BY <1>1, <3>1, JobChanges DEF Pc
    <3> HIDE DEF answer
    <3> QED
      BY <3>2 DEF Assumptions
  <2>2. /\ answer.op = "renew" /\ answer.pc = "persistRenewal" /\ answer.user = req[r].user
        /\ answer.cluster = req[r].cluster /\ answer.database = req[r].database
    BY <1>1 DEF Job
  <2>3. req'[r] = answer
    BY <1>9 DEF Continue, IInv, TypeOK
  <2> HIDE DEF answer
  <2>4. seen[r] \subseteq seen'[r] /\ "database" \in seen'[r]
    BY <1>9, <2>1, <2>2, <2>3, RememberMore
  <2>5. JobGood(r)'
    BY <1>1, <1>9, <2>2, <2>3, <2>4 DEF LoadDatabaseToRenew, At, JobGood, CreateGood, RenewGood,
       RevokeGood
  <2> QED
    BY <1>1, <1>9, <2>1, <2>5, Reading DEF Assumptions
<1> QED
  BY <1>2, <1>5, <1>6, <1>7, <1>8, <1>9 DEF SecretCredsRenew, LoadClusterToRenew,
     LoadDatabaseToRenew, AlterExpiry

LEMMA Revoking ==
  ASSUME Assumptions, IInv, Remember, NEW r \in Request,
         \/ SecretCredsRevoke(r) \/ LoadClusterToRevoke(r) \/ LoadDatabaseToRevoke(r)
         \/ DropUser(r)
  PROVE  IInv'
<1>1. /\ req[r] \in Job /\ JobGood(r) /\ req[r] # Idle /\ req[r].op = "revoke"
      /\ faults \in 0..MaxFaults
      /\ UNCHANGED <<registry, roles, lease, issued, faults>>
  BY JobOf DEF IInv, TypeOK, SecretCredsRevoke, LoadClusterToRevoke, LoadDatabaseToRevoke,
     DropUser, At
<1>2. req[r].user \in issued /\ req[r].user \in User
  BY <1>1 DEF JobGood, RevokeGood, Job, IInv, TypeOK, Assumptions, AbsentOK
<1>3. ASSUME Return(r), pg' = pg PROVE IInv'
  BY <1>1, <1>3, Returning
<1>4. ASSUME NEW job \in Job, Continue(r, job), job.op = "revoke", job.user = req[r].user,
             job.pc \in {"loadCluster", "loadDatabase", "loadForConn"}, pg' = pg,
             job.statements = "keep" => ~ RevocationsDrop
      PROVE  IInv'
  <2>1. JobGood(r)'
    BY <1>1, <1>2, <1>4, JobOf DEF IInv, JobGood, CreateGood, RenewGood, RevokeGood
  <2> QED
    BY <1>1, <1>4, <2>1, Reading DEF Assumptions
<1>5. CASE SecretCredsRevoke(r)
  <2> DEFINE entry == roles[req[r].role]
             s == IF entry = Absent THEN "default" ELSE entry.revocation
             job == [req[r] EXCEPT !.pc = "loadCluster", !.statements = s]
  <2>1. s \in CreationKinds \cup RevocationKinds
    <3>1. entry # Absent => entry.revocation \in RevocationKinds
      BY <1>1 DEF IInv, TypeOK, RoleEntry, Job, Assumptions, KindsOK
    <3>2. "default" \in RevocationKinds
      BY DEF RevocationKinds
    <3> QED
      BY <3>1, <3>2
  <2>2. job \in Job
    BY <1>1, <2>1, JobChanges DEF Pc
  <2>3. s = "keep" => ~ RevocationsDrop
    BY <1>1 DEF IInv, TypeOK, RoleEntry, Job, RevocationsDrop
  <2> QED
    BY <1>1, <1>4, <1>5, <2>2, <2>3 DEF SecretCredsRevoke, Job
<1>6. CASE LoadClusterToRevoke(r)
  <2>1. [req[r] EXCEPT !.pc = "loadDatabase"] \in Job
    BY <1>1, JobChanges DEF Pc
  <2> QED
    BY <1>1, <1>3, <1>4, <1>6, <2>1 DEF LoadClusterToRevoke, Goto, Job, JobGood, RevokeGood
<1>7. CASE LoadDatabaseToRevoke(r)
  <2> DEFINE o == owner[req[r].cluster][req[r].database]
             job == [req[r] EXCEPT !.pc = "loadForConn", !.owner = o]
  <2>1. o \in Owner \cup {Absent}
    BY <1>1 DEF IInv, TypeOK, Job
  <2>2. job \in Job
    BY <1>1, <2>1, JobChanges DEF Pc
  <2> QED
    BY <1>1, <1>3, <1>4, <1>7, <2>2 DEF LoadDatabaseToRevoke, Job, JobGood, RevokeGood
<1>8. CASE DropUser(r)
  <2>1. CASE ~ RevocationSucceeds(req[r])
    BY <1>3, <1>8, <2>1 DEF DropUser
  <2>2. CASE RevocationSucceeds(req[r])
    <3> DEFINE u == req[r].user
               job == [req[r] EXCEPT !.pc = "endLease"]
               kept == req[r].statements = "keep"
    <3>1. pg' = (IF kept THEN pg ELSE [pg EXCEPT ![u] = Absent]) /\ Continue(r, job)
      BY <1>8, <2>2 DEF DropUser, Goto
    <3>2. job \in Job
      BY <1>1, JobChanges DEF Pc
    <3>3. TypeOK'
      BY <1>1, <3>1, <3>2, RememberType DEF IInv, TypeOK, Life!TypeOK, registry, Continue
    <3>4. NamesIssued' /\ Grow
      BY <1>1, <3>1 DEF IInv, TypeOK, NamesIssued, Grow
    <3>5. JobGood(r)'
      <4>1. /\ req'[r] = job /\ job.op = "revoke" /\ job.pc = "endLease" /\ job.user = u
            /\ job.statements = req[r].statements
        BY <1>1, <3>1, JobOf DEF IInv, Job
      <4>2. pg'[u] = Absent \/ ~ RevocationsDrop
        BY <1>1, <1>2, <3>1 DEF IInv, TypeOK, JobGood, RevokeGood
      <4> HIDE DEF job, u
      <4> QED
        BY <1>1, <1>2, <4>1, <4>2 DEF JobGood, CreateGood, RenewGood, RevokeGood, u
    <3> QED
      BY <3>1, <3>3, <3>4, <3>5, Handling DEF Assumptions
  <2> QED
    BY <2>1, <2>2
<1> QED
  BY <1>5, <1>6, <1>7, <1>8

\* What a cancelled revocation leaves of the login is a login, or nothing.
LEMMA CutShortLogins ==
  ASSUME Assumptions, IInv, NEW r \in Request, DropUserCutShort(r)
  PROVE  /\ pg' \in [User -> Login \cup {Absent}]
         /\ \A u \in User : pg'[u] # Absent => pg[u] # Absent
         /\ \A u \in User : u # req[r].user => pg'[u] = pg[u]
<1> DEFINE u == req[r].user
           left == [pg[u] EXCEPT !.owner = Absent]
<1>1. CASE pg' = [pg EXCEPT ![u] = Absent]
  BY <1>1 DEF IInv, TypeOK
<1>2. CASE RevocationSucceeds(req[r]) /\ req[r].statements = "default" /\ pg' = [pg EXCEPT ![u] = left]
  <2>1. u \in User => pg[u] \in Login /\ pg[u] # Absent
    BY <1>2 DEF RevocationSucceeds, IInv, TypeOK
  <2>2. u \in User => left \in Login
    BY <2>1 DEF Login
  <2> HIDE DEF left, u
  <2>3. pg' \in [User -> Login \cup {Absent}]
    BY <1>2, <2>2 DEF IInv, TypeOK
  <2>4. \A v \in User : v # u => pg'[v] = pg[v]
    BY <1>2 DEF IInv, TypeOK
  <2> QED
    BY <2>1, <2>3, <2>4 DEF u
<1> QED
  BY <1>1, <1>2 DEF DropUserCutShort

LEMMA CuttingShort ==
  ASSUME Assumptions, IInv, Remember, NEW r \in Request, DropUserCutShort(r)
  PROVE  IInv'
<1>1. /\ Continue(r, Idle)
      /\ UNCHANGED <<registry, roles, lease, issued>>
      /\ faults' \in 0..MaxFaults
  BY DEF DropUserCutShort, Return, Fault, IInv, TypeOK, Assumptions, BoundsOK
<1>2. TypeOK'
  BY <1>1, CutShortLogins, RememberType DEF IInv, TypeOK, Life!TypeOK, registry, Continue
<1>3. NamesIssued' /\ Grow
  BY <1>1, CutShortLogins DEF IInv, NamesIssued, Grow
<1> QED
  BY <1>1, <1>2, <1>3, Handling DEF Assumptions

\* The registry keeps its type, and cluster and database entries come with
\* their data.
RegistryOK ==
  /\ Life!TypeOK
  /\ mgmt \in [Cluster -> ManagementRole \cup {Absent}]
  /\ \A c \in Cluster : mgmt[c] = Absent <=> clusterStatus[c] = "absent"
  /\ owner \in [Cluster -> [Database -> Owner \cup {Absent}]]
  /\ \A c \in Cluster, d \in Database : owner[c][d] = Absent <=> dbStatus[c][d] = "absent"
  /\ issued \subseteq User \cup ManagementRole

LEMMA RegistryType ==
  ASSUME AbsentOK, RegistryOK, RegistryStep
  PROVE  RegistryOK' /\ issued \subseteq issued'
<1> USE DEF RegistryOK, Life!TypeOK, Life!Status
<1>1. ASSUME NEW c \in Cluster, StoreCluster(c)
      PROVE  /\ mgmt' \in [Cluster -> ManagementRole \cup {Absent}] /\ mgmt'[c] # Absent
             /\ \A k \in Cluster : k # c => mgmt'[k] = mgmt[k]
             /\ issued \subseteq issued' /\ issued' \subseteq User \cup ManagementRole
  BY <1>1 DEF StoreCluster, AbsentOK
<1>2. ASSUME NEW c \in Cluster, RegisterCluster(c) PROVE RegistryOK' /\ issued \subseteq issued'
  BY <1>1, <1>2 DEF RegisterCluster, Life!RegisterCluster, Life!SetCluster
<1>3. ASSUME NEW c \in Cluster, UpdateCluster(c) PROVE RegistryOK' /\ issued \subseteq issued'
  BY <1>1, <1>3 DEF UpdateCluster
<1>4. ASSUME NEW c \in Cluster, Delete(c) PROVE RegistryOK' /\ issued \subseteq issued'
  <2>1. CASE Life!DeleteCluster(c)
    BY <1>4, <2>1 DEF Delete, Life!DeleteCluster, Life!SetCluster
  <2>2. CASE \E d \in Database : Life!DeleteDatabase(c, d)
    BY <1>4, <2>2 DEF Delete, Life!DeleteDatabase, Life!SetDatabase
  <2> QED
    BY <1>4, <2>1, <2>2 DEF Delete
<1>5. ASSUME NEW c \in Cluster, PurgeCluster(c) PROVE RegistryOK' /\ issued \subseteq issued'
  BY <1>5 DEF PurgeCluster, Life!PurgeCluster, Life!SetCluster
<1>6. ASSUME NEW c \in Cluster, NEW d \in Database, NEW o \in Owner, NEW s \in Life!Status \ {"absent"},
             dbStatus' = [dbStatus EXCEPT ![c][d] = s], owner' = [owner EXCEPT ![c][d] = o],
             UNCHANGED <<clusterStatus, mgmt, issued>>
      PROVE  RegistryOK' /\ issued \subseteq issued'
  BY <1>6 DEF AbsentOK
<1>7. ASSUME NEW c \in Cluster, NEW d \in Database, AddDatabase(c, d) \/ AddDatabaseLate(c, d)
      PROVE  RegistryOK' /\ issued \subseteq issued'
  <2>1. \E s \in Life!Status \ {"absent"}, o \in Owner :
          /\ dbStatus' = [dbStatus EXCEPT ![c][d] = s]
          /\ owner' = [owner EXCEPT ![c][d] = o]
          /\ UNCHANGED <<clusterStatus, mgmt, issued>>
    BY <1>7 DEF AddDatabase, AddDatabaseLate, Life!AddDatabase, Life!SetDatabase
  <2> QED
    BY <1>6, <2>1
<1>8. ASSUME NEW c \in Cluster, NEW d \in Database, PurgeDatabase(c, d)
      PROVE  RegistryOK' /\ issued \subseteq issued'
  BY <1>8 DEF PurgeDatabase, Life!PurgeDatabase, Life!SetDatabase
<1> QED
  BY <1>2, <1>3, <1>4, <1>5, <1>7, <1>8 DEF RegistryStep

\* The operators' steps, and the timers'.
LEMMA Operating ==
  ASSUME Assumptions, IInv, Remember, RegistryStep \/ RoleStep \/ \E u \in User : Expire(u)
  PROVE  IInv'
<1>1. ASSUME NEW u \in User, Expire(u) PROVE IInv'
  <2>1. lease[u] \in LeaseEntry
    BY <1>1 DEF Expire, IInv, TypeOK
  <2>2. [lease[u] EXCEPT !.timer = "fired"] \in LeaseEntry
    BY <2>1 DEF LeaseEntry
  <2>3. TypeOK'
    BY <1>1, <2>2, RememberType DEF Expire, IInv, TypeOK, Life!TypeOK, registry
  <2>4. NamesIssued' /\ Grow
    BY <1>1 DEF Expire, IInv, TypeOK, NamesIssued, Grow
  <2> QED
    BY <1>1, <2>3, <2>4, Environment DEF Expire, Assumptions
<1>2. CASE RoleStep
  <2>1. TypeOK'
    BY <1>2, RememberType DEF RoleStep, PathRoleUpdate, PathRoleDelete, IInv, TypeOK,
       Life!TypeOK, registry
  <2>2. NamesIssued' /\ Grow
    BY <1>2 DEF RoleStep, IInv, NamesIssued, Grow
  <2> QED
    BY <1>2, <2>1, <2>2, Environment DEF RoleStep, Assumptions
<1>3. CASE RegistryStep
  <2>1. RegistryOK' /\ issued \subseteq issued'
    BY <1>3, RegistryType DEF IInv, TypeOK, RegistryOK, Assumptions
  <2>2. UNCHANGED <<roles, pg, lease, req, faults>>
    BY <1>3 DEF RegistryStep
  <2>3. TypeOK'
    BY <2>1, <2>2, RememberType DEF IInv, TypeOK, RegistryOK
  <2>4. NamesIssued' /\ Grow
    BY <2>1, <2>2 DEF IInv, NamesIssued, Grow
  <2> QED
    BY <2>2, <2>3, <2>4, Environment DEF Assumptions
<1> QED
  BY <1>1, <1>2, <1>3

\* The initial state, and a step that changes nothing.
LEMMA Starting == ASSUME Assumptions, Init PROVE IInv
<1>1. TypeOK
  BY DEF Init, Life!Init, TypeOK, Life!TypeOK, Life!Status, Assumptions, BoundsOK
<1> QED
  BY <1>1 DEF Init, IInv, NamesIssued

LEMMA Stuttering == ASSUME IInv, UNCHANGED vars PROVE IInv'
  BY DEF IInv, TypeOK, Life!TypeOK, NamesIssued, JobGood, CreateGood, RenewGood, RevokeGood,
     vars, registry

(***************************************************************************)
(* Every step of the specification keeps the invariant.                    *)
(***************************************************************************)
LEMMA Invariance == Spec => []IInv
<1> Assumptions
  BY KindsOK, BoundsOK, AbsentOK, NoClash DEF Assumptions, NoClash
<1>1. Init => IInv
  BY Starting
<1>2. IInv /\ [Next]_vars => IInv'
  <2> SUFFICES ASSUME IInv, Next PROVE IInv'
    BY Stuttering
  <2>1. Remember
    BY DEF Next
  <2>2. ASSUME NEW r \in Request, Fail(r) PROVE IInv'
    BY <2>1, <2>2, Returning DEF Fail, Fault, IInv, TypeOK, Assumptions, BoundsOK
  <2>3. ASSUME NEW r \in Request, Handler(r) PROVE IInv'
    BY <2>1, <2>2, <2>3, Creating, Connecting, CreatingUser, Leasing, StartingOnLease, Renewing,
       Revoking, CuttingShort DEF Handler, Step
  <2> QED
    BY <2>1, <2>3, Operating DEF Next
<1> QED
  BY <1>1, <1>2, PTL DEF Spec

(***************************************************************************)
(* Theorems.                                                               *)
(***************************************************************************)

\* Every variable and every handler keeps its type, with any number of them
\* interleaved and failing: in particular a lease with a timer has been renewed
\* no more often than its maximum TTL allows, and a registered cluster has a
\* management role.
THEOREM Typing == Spec => []TypeOK
<1>1. IInv => TypeOK
  BY DEF IInv
<1> QED
  BY <1>1, Invariance, PTL

\* Whenever Vault deletes a lease on the word of secretCredsRevoke, the login
\* is gone, whoever else acts on the lease, the role or the cluster, if no role
\* has statements that succeed without dropping it.
THEOREM RevocationDrops == ASSUME RevocationsDrop PROVE Spec => []DroppedWhenRevoked
<1>1. IInv => DroppedWhenRevoked
  BY RevocationsDrop DEF IInv, JobGood, RevokeGood, DroppedWhenRevoked, At
<1> QED
  BY <1>1, Invariance, PTL

\* Credentials are created and renewed only for a cluster, a database and a
\* role that were each there and not deleted while the request ran.
THEOREM ConfiguredOnly == Spec => []CredsOnlyFromConfigured
<1>1. ASSUME IInv PROVE CredsOnlyFromConfigured
  <2> SUFFICES ASSUME NEW r \in Request,
                      At(r, "create", "createUser") \/ At(r, "renew", "alterExpiry")
               PROVE  seen[r] = Parts
    BY DEF CredsOnlyFromConfigured
  <2>1. req[r] # Idle /\ JobGood(r) /\ seen[r] \subseteq Parts
    BY <1>1 DEF IInv, TypeOK, At
  <2>2. "cluster" \in seen[r] /\ "database" \in seen[r] /\ "role" \in seen[r]
    BY <2>1 DEF JobGood, CreateGood, RenewGood, At
  <2> QED
    BY <2>1, <2>2 DEF Parts
<1> QED
  BY <1>1, Invariance, PTL

(***************************************************************************)
(* Logins nobody knows of.  A step that drops no lease and creates no      *)
(* login, made by a handler that was not about to register one, leaves no  *)
(* login behind.                                                           *)
(***************************************************************************)
LEMMA NothingLost ==
  ASSUME NEW r \in Request, NEW job, Continue(r, job), req \in [Request -> Job \cup {Idle}],
         ~ At(r, "create", "registerLease"),
         \A u \in User : pg'[u] # Absent => pg[u] # Absent,
         \A u \in User : lease'[u] = Absent => lease[u] = Absent \/ pg'[u] = Absent
  PROVE  Untracked' \subseteq Untracked
<1>1. ASSUME NEW q \in Request, At(q, "create", "registerLease")
      PROVE  At(q, "create", "registerLease")' /\ req'[q] = req[q]
  BY <1>1 DEF Continue, At
<1> QED
  BY <1>1 DEF Untracked

\* Only a failure loses track of a login, and of one at most.
LEMMA StepLoses ==
  ASSUME Assumptions, RevocationsDrop, IInv, Next
  PROVE  \/ Untracked' \subseteq Untracked /\ faults' \in {faults, faults + 1}
         \/ \E u \in User : Untracked' \subseteq Untracked \cup {u} /\ faults' = faults + 1
<1> DEFINE Goal == \/ Untracked' \subseteq Untracked /\ faults' \in {faults, faults + 1}
                   \/ \E u \in User : Untracked' \subseteq Untracked \cup {u} /\ faults' = faults + 1
<1>1. req \in [Request -> Job \cup {Idle}]
  BY DEF IInv, TypeOK
<1>2. CASE RegistryStep \/ RoleStep
  BY <1>2 DEF RegistryStep, RoleStep, Untracked, At
<1>3. ASSUME NEW u \in User, Expire(u) PROVE Goal
  <2>1. lease[u] \in LeaseEntry
    BY <1>3 DEF Expire, IInv, TypeOK
  <2>2. [lease[u] EXCEPT !.timer = "fired"] \in LeaseEntry
    BY <2>1 DEF LeaseEntry
  <2>3. \A v \in User : lease'[v] = Absent => lease[v] = Absent
    BY <1>3, <2>2 DEF Expire, IInv, TypeOK, Assumptions
  <2> QED
    BY <1>3, <2>3 DEF Expire, Untracked, At
<1>4. ASSUME NEW r \in Request, UNCHANGED <<pg, lease, faults>>, NEW job, Continue(r, job),
             ~ At(r, "create", "registerLease")
      PROVE  Goal
  BY <1>1, <1>4, NothingLost
<1>5. ASSUME NEW r \in Request, Fail(r) \/ RegistrationFails(r) PROVE Goal
  <2>1. faults' = faults + 1 /\ UNCHANGED <<pg, lease>> /\ \E job : Continue(r, job)
    BY <1>5 DEF Fail, RegistrationFails, Fault, Return
  <2>2. CASE ~ At(r, "create", "registerLease")
    BY <1>1, <2>1, <2>2, NothingLost
  <2>3. CASE At(r, "create", "registerLease")
    <3>1. req[r].user \in User
      BY <2>3 DEF IInv, TypeOK, JobGood, CreateGood, At, Job, Assumptions, AbsentOK
    <3>2. \A q \in Request \ {r} : req'[q] = req[q]
      BY <2>1 DEF Continue, IInv, TypeOK
    <3>3. Untracked' \subseteq Untracked \cup {req[r].user}
      BY <2>1, <3>2 DEF Untracked, At
    <3> QED
      BY <2>1, <3>1, <3>3
  <2> QED
    BY <2>2, <2>3
<1>6. ASSUME NEW r \in Request, CreateUser(r) PROVE Goal
  <2>1. req[r] \in Job /\ ~ At(r, "create", "registerLease") /\ UNCHANGED <<lease, faults>>
    BY <1>6, JobOf DEF IInv, CreateUser, At
  <2>2. CASE ~ CreationSucceeds(req[r])
    BY <1>4, <1>6, <2>1, <2>2 DEF CreateUser, Return
  <2>3. CASE CreationSucceeds(req[r])
    <3>1. PICK u \in User \ issued :
            /\ pg' = [pg EXCEPT ![u] = NewLogin(req[r])]
            /\ Continue(r, [req[r] EXCEPT !.pc = "registerLease", !.user = u])
      BY <1>6, <2>3 DEF CreateUser
    <3>2. [req[r] EXCEPT !.pc = "registerLease", !.user = u] \in Job
      BY <2>1, JobChanges DEF Pc
    <3>3. At(r, "create", "registerLease")' /\ req'[r].user = u
      BY <1>1, <1>6, <2>1, <3>1, <3>2 DEF CreateUser, Continue, At, Job, Assumptions
    <3>4. \A q \in Request \ {r} : req'[q] = req[q]
      BY <1>1, <3>1 DEF Continue
    <3>5. \A v \in User \ {u} : pg'[v] = pg[v]
      BY <3>1 DEF IInv, TypeOK
    <3>6. Untracked' \subseteq Untracked
      BY <2>1, <3>3, <3>4, <3>5 DEF Untracked, At
    <3> QED
      BY <2>1, <3>6
  <2> QED
    BY <2>2, <2>3
<1>7. ASSUME NEW r \in Request, NEW u \in User, NEW e \in LeaseEntry,
             UNCHANGED <<pg, faults>>, lease' = [lease EXCEPT ![u] = e], Return(r),
             req[r].user = u
      PROVE  Goal
  <2>1. lease'[u] # Absent /\ \A v \in User \ {u} : lease'[v] = lease[v]
    BY <1>7 DEF IInv, TypeOK, Assumptions
  <2>2. \A q \in Request \ {r} : req'[q] = req[q]
    BY <1>1, <1>7 DEF Return, Continue
  <2> QED
    BY <1>7, <2>1, <2>2 DEF Untracked, At
<1>8. ASSUME NEW r \in Request, RegisterLease(r) PROVE Goal
  <2>1. req[r] \in Job /\ JobGood(r) /\ At(r, "create", "registerLease")
    BY <1>8, JobOf DEF RegisterLease, IInv, At
  <2>2. req[r].user \in User
    BY <2>1 DEF IInv, TypeOK, JobGood, CreateGood, At, Job, Assumptions, AbsentOK
  <2> DEFINE e == [cluster |-> req[r].cluster, database |-> req[r].database,
                   role |-> req[r].role, timer |-> "set", left |-> MaxRenewals]
  <2>3. e \in LeaseEntry
    BY <2>1 DEF LeaseEntry, Job, Assumptions, BoundsOK
  <2> QED
    BY <1>7, <1>8, <2>2, <2>3 DEF RegisterLease
<1>9. ASSUME NEW r \in Request, PersistRenewal(r) PROVE Goal
  <2>1. req[r] \in Job /\ JobGood(r) /\ At(r, "renew", "persistRenewal")
    BY <1>9, JobOf DEF PersistRenewal, IInv, At
  <2>2. req[r].user \in User
    BY <2>1 DEF IInv, TypeOK, JobGood, RenewGood, At, Job, Assumptions, AbsentOK
  <2>3. CASE lease' = lease
    BY <1>4, <1>9, <2>1, <2>3 DEF PersistRenewal, Return, At
  <2>4. ASSUME NEW e \in LeaseEntry, lease' = [lease EXCEPT ![req[r].user] = e] PROVE Goal
    BY <1>7, <1>9, <2>2, <2>4 DEF PersistRenewal
  <2> QED
    BY <1>9, <2>1, <2>3, <2>4, RenewedType DEF PersistRenewal
<1>10. ASSUME NEW r \in Request, EndLease(r) PROVE Goal
  <2>1. pg[req[r].user] = Absent /\ ~ At(r, "create", "registerLease")
    BY <1>10 DEF EndLease, At, IInv, JobGood, RevokeGood
  <2>2. \A u \in User : lease'[u] = Absent => lease[u] = Absent \/ pg'[u] = Absent
    BY <1>10, <2>1 DEF EndLease, IInv, TypeOK
  <2> QED
    BY <1>1, <1>10, <2>1, <2>2, NothingLost DEF EndLease, Return
<1>11. ASSUME NEW r \in Request, DropUser(r) \/ DropUserCutShort(r) PROVE Goal
  <2>1. \A u \in User : pg'[u] # Absent => pg[u] # Absent
    BY <1>11, CutShortLogins DEF DropUser, IInv, TypeOK
  <2>2. \E job : Continue(r, job)
    BY <1>11 DEF DropUser, DropUserCutShort, Goto, Return
  <2>3. lease' = lease /\ faults' \in {faults, faults + 1} /\ ~ At(r, "create", "registerLease")
    BY <1>11 DEF DropUser, DropUserCutShort, Fault, At
  <2> QED
    BY <1>1, <2>1, <2>2, <2>3, NothingLost
<1>12. ASSUME NEW r \in Request, Handler(r) PROVE Goal
  <2>1. CASE \/ \E c \in Cluster, d \in Database, n \in Role : SecretCredsCreate(r, c, d, n)
             \/ \E u \in User : Renew(r, u) \/ Revoke(r, u)
    BY <1>4, <2>1 DEF SecretCredsCreate, Renew, Revoke, At
  <2>2. CASE LoadDatabase(r) \/ LoadRole(r) \/ LoadForConn(r)
    BY <1>4, <2>2 DEF LoadDatabase, LoadRole, LoadForConn, Return, At
  <2>3. CASE SecretCredsRenew(r) \/ LoadClusterToRenew(r) \/ LoadDatabaseToRenew(r) \/ AlterExpiry(r)
    BY <1>4, <2>3 DEF SecretCredsRenew, LoadClusterToRenew, LoadDatabaseToRenew, AlterExpiry,
       Goto, Return, At
  <2>4. CASE SecretCredsRevoke(r) \/ LoadClusterToRevoke(r) \/ LoadDatabaseToRevoke(r)
    BY <1>4, <2>4 DEF SecretCredsRevoke, LoadClusterToRevoke, LoadDatabaseToRevoke,
       Goto, Return, At
  <2> QED
    BY <1>5, <1>6, <1>8, <1>9, <1>10, <1>11, <1>12, <2>1, <2>2, <2>3, <2>4 DEF Handler, Step
<1> QED
  BY <1>2, <1>3, <1>12 DEF Next

\* A crash, a lost answer or a refused registration leaves at most one login
\* behind that no lease leads to, and nothing else leaves any, if no role has
\* revocation statements that succeed without dropping the login.
THEOREM FaultsBound == ASSUME RevocationsDrop PROVE Spec => []FaultsBoundUntrackedLogins
<1> Assumptions
  BY KindsOK, BoundsOK, AbsentOK, NoClash DEF Assumptions, NoClash
<1> DEFINE Bounded == IsFiniteSet(Untracked) /\ Cardinality(Untracked) <= faults
<1>1. ASSUME Init PROVE Bounded
  <2>1. Untracked = {} /\ faults = 0
    BY <1>1 DEF Init, Untracked
  <2> QED
    BY <2>1, FS_EmptySet
<1>2. ASSUME IInv, Bounded, [Next]_vars PROVE Bounded'
  <2>1. faults \in Nat
    BY <1>2 DEF IInv, TypeOK, Assumptions, BoundsOK
  <2>2. CASE UNCHANGED vars
    <3>1. Untracked' = Untracked /\ faults' = faults
      BY <2>2 DEF vars, Untracked, At
    <3> QED
      BY <1>2, <3>1
  <2>3. CASE Untracked' \subseteq Untracked /\ faults' \in {faults, faults + 1}
    BY <1>2, <2>1, <2>3, FS_Subset, FS_CardinalityType
  <2>4. ASSUME NEW u \in User, Untracked' \subseteq Untracked \cup {u}, faults' = faults + 1
        PROVE  Bounded'
    <3>1. /\ IsFiniteSet(Untracked \cup {u})
          /\ Cardinality(Untracked \cup {u}) <= Cardinality(Untracked) + 1
          /\ Cardinality(Untracked) \in Nat
      <4>1. Cardinality(Untracked) \in Nat
        BY <1>2, FS_CardinalityType
      <4>2. /\ IsFiniteSet(Untracked \cup {u})
            /\ \/ Cardinality(Untracked \cup {u}) = Cardinality(Untracked)
               \/ Cardinality(Untracked \cup {u}) = Cardinality(Untracked) + 1
        BY <1>2, FS_AddElement
      <4> QED
        BY <4>1, <4>2
    <3>2. IsFiniteSet(Untracked') /\ Cardinality(Untracked') <= Cardinality(Untracked \cup {u})
      BY <2>4, <3>1, FS_Subset
    <3>3. Cardinality(Untracked') \in Nat /\ Cardinality(Untracked \cup {u}) \in Nat
      BY <3>1, <3>2, FS_CardinalityType
    <3> QED
      BY <1>2, <2>1, <2>4, <3>1, <3>2, <3>3
  <2> QED
    BY <1>2, <2>2, <2>3, <2>4, StepLoses, RevocationsDrop
<1>3. Bounded => FaultsBoundUntrackedLogins
  BY DEF FaultsBoundUntrackedLogins
<1> QED
  BY <1>1, <1>2, <1>3, Invariance, PTL DEF Spec
=============================================================================
