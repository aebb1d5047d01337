--------------------------- MODULE LeaseTtlProofs ---------------------------
(***************************************************************************)
(* The times of a lease, for every mount, every role, every clock and any  *)
(* number of concurrent requests.                                          *)
(***************************************************************************)
EXTENDS LeaseTtl, TLAPS

\* A TTL is never more than the mount's maximum, and the maximum a role sets
\* counts once, whether given to one argument of CalculateTTL or to both.
LEMMA Maximum ==
  ASSUME NEW b \in Nat
  PROVE  /\ MaxTTL(b, 0) \in 1..SysMax
         /\ MaxTTL(b, b) = MaxTTL(b, 0)
BY TtlsOK DEF MaxTTL, Capped, Least

LEMMA Proposal ==
  ASSUME NEW i \in Nat, NEW b \in Nat
  PROVE  /\ Proposed(i, b) \in Nat \ {0}
         /\ i > 0 => Proposed(i, b) = i
         /\ i = 0 /\ b > 0 => Proposed(i, b) = b
BY TtlsOK DEF Proposed

(***************************************************************************)
(* What a request has in hand.  A creation is alone and its login is the   *)
(* one there is.  Renewals all serve the lease there is, or one that is    *)
(* gone with its login; what they answer is what is left of the maximum,   *)
(* the increment, or the role's default.                                   *)
(***************************************************************************)
Creating(j) == j.pc \in {"createUser", "registerLease"}

CreationOf(j) == Least(Proposed(0, j.ttl), MaxTTL(j.ttl, 0))

CreationGood(r) ==
  LET j == req[r] IN
    /\ lease = Absent
    /\ \A q \in Request : q # r => req[q] = Idle
    /\ j.ttl = j.made.default /\ j.max = j.made.max
    /\ j.until = j.at + CreationOf(j)
    /\ j.pc = "registerLease" => login = j.until

End(j) == j.issue + MaxTTL(j.max, 0)

Answer(j) ==
  \/ j.pc = "persistRenewal" /\ j.ttl = 0 /\ End(j) <= j.at
  \/ /\ j.ttl \in Nat \ {0}
     /\ j.at + j.ttl <= End(j)
     /\ j.at + j.ttl = End(j) \/ j.increment \in {0, j.ttl}

RenewalGood(r) ==
  LET j == req[r] IN
    /\ j.issue <= j.at
    /\ j.until = j.at + j.ttl + Grace
    /\ Answer(j)
    /\ IF lease = Absent THEN login = Absent ELSE lease.issue = j.issue
    /\ \A q \in Request : req[q] # Idle => req[q].issue = j.issue

JobGood(r) ==
  req[r] # Idle =>
    /\ req[r].at <= now /\ now <= req[r].at + MaxDelay
    /\ IF Creating(req[r]) THEN CreationGood(r) ELSE RenewalGood(r)

IInv ==
  /\ TypeOK
  /\ \A r \in Request : JobGood(r)
  /\ lease # Absent => lease.issue <= now
  /\ LifetimesBounded
  /\ CreatedLoginTracksLease

LEMMA Initially == Init => IInv
<1> SUFFICES ASSUME Init PROVE IInv
  OBVIOUS
<1>1. TypeOK
  BY BoundsOK DEF Init, TypeOK
<1>2. QED
  BY <1>1 DEF Init, IInv, JobGood, LifetimesBounded, MaxEnd, CreatedLoginTracksLease, Expires, Live

(***************************************************************************)
(* The steps that change no request.                                       *)
(***************************************************************************)
LEMMA TickStep == IInv /\ Tick => IInv'
<1> SUFFICES ASSUME IInv, Tick PROVE IInv'
  OBVIOUS
<1>1. now \in Nat /\ now' = now + 1 /\ now' \in 0..MaxTime
  BY BoundsOK DEF IInv, TypeOK, Tick
<1>2. TypeOK'
  BY <1>1 DEF IInv, TypeOK, Tick, RoleEntry, LeaseEntry, Job
<1>3. ASSUME NEW r \in Request PROVE JobGood(r)'
  <2> SUFFICES ASSUME req[r] # Idle PROVE JobGood(r)'
    BY DEF Tick, JobGood
  <2>1. req[r] \in Job /\ JobGood(r) /\ now < req[r].at + MaxDelay
    BY DEF IInv, TypeOK, Tick
  <2>2. req[r].at \in Nat /\ MaxDelay \in Nat
    BY <2>1, BoundsOK DEF Job
  <2>3. req[r].at <= now' /\ now' <= req[r].at + MaxDelay
    BY <1>1, <2>1, <2>2 DEF JobGood
  <2>4. CreationGood(r)' = CreationGood(r) /\ RenewalGood(r)' = RenewalGood(r)
    BY DEF Tick, CreationGood, RenewalGood, Answer, End, CreationOf, MaxTTL, Capped, Proposed
  <2>5. QED
    BY <2>1, <2>3, <2>4 DEF JobGood, Creating, Tick
<1>4. (lease # Absent => lease.issue <= now)'
  BY <1>1 DEF IInv, Tick, TypeOK, LeaseEntry
<1>5. QED
  BY <1>2, <1>3, <1>4
  DEF IInv, Tick, LifetimesBounded, MaxEnd, CreatedLoginTracksLease, Expires, Live, Ordered, MaxTTL, Capped, Proposed

LEMMA RoleStep == IInv /\ PathRoleUpdate => IInv'
<1> SUFFICES ASSUME IInv, PathRoleUpdate PROVE IInv'
  OBVIOUS
<1>1. TypeOK'
  BY DEF IInv, TypeOK, PathRoleUpdate
<1>2. \A r \in Request : JobGood(r)' = JobGood(r)
  BY DEF PathRoleUpdate, JobGood, Creating, CreationGood, RenewalGood, Answer, End,
         CreationOf, MaxTTL, Capped, Proposed
<1>3. QED
  BY <1>1, <1>2
  DEF IInv, PathRoleUpdate, LifetimesBounded, MaxEnd, CreatedLoginTracksLease, Expires, Live, Ordered,
      MaxTTL, Capped, Proposed

LEMMA RevokeStep == IInv /\ Revoke => IInv'
<1> SUFFICES ASSUME IInv, Revoke PROVE IInv'
  OBVIOUS
<1>1. TypeOK'
  BY DEF IInv, TypeOK, Revoke
<1>2. ASSUME NEW r \in Request PROVE JobGood(r)'
  BY DEF IInv, Revoke, JobGood, Creating, CreationGood, RenewalGood, Answer, End,
         MaxTTL, Capped
<1>3. QED
  BY <1>1, <1>2 DEF IInv, Revoke, LifetimesBounded, MaxEnd, CreatedLoginTracksLease, Expires, Live

(***************************************************************************)
(* The steps of a creation.                                                *)
(***************************************************************************)
LEMMA Types ==
  ASSUME TypeOK
  PROVE  /\ now \in Nat /\ role.default \in Nat /\ role.max \in Nat
         /\ role.default \in Ttl /\ role.max \in Ttl
<1>1. role.default \in Ttl /\ role.max \in Ttl
  BY DEF TypeOK, RoleEntry
<1>2. now \in Nat
  BY BoundsOK DEF TypeOK
<1>3. QED
  BY <1>1, <1>2, TtlsOK

\* The login of a creation is valid for what it proposes, capped by the mount.
LEMMA CreationValue ==
  ASSUME NEW d \in Nat
  PROVE  LET ttl == Least(Proposed(0, d), MaxTTL(d, 0))
         IN  ttl \in Nat /\ ttl = Least(Proposed(0, d), SysMax)
BY TtlsOK DEF Proposed, MaxTTL, Capped, Least

LEMMA CreateStep ==
  ASSUME IInv, NEW r \in Request, SecretCredsCreate(r)
  PROVE  IInv'
<1> DEFINE j == [pc |-> "createUser", at |-> now, increment |-> 0,
                 ttl |-> role.default, until |-> now + CreationTTL,
                 max |-> role.max, made |-> role, issue |-> now]
<1>1. /\ lease = Absent /\ login = Absent
      /\ \A q \in Request : req[q] = Idle
      /\ req' = [req EXCEPT ![r] = j]
      /\ UNCHANGED <<now, role, login, lease, faults, last>>
  BY DEF SecretCredsCreate, Continue
<1>2. /\ now \in Nat /\ role.default \in Nat /\ role.max \in Nat
      /\ role.default \in Ttl /\ role.max \in Ttl
      /\ role \in RoleEntry /\ MaxDelay \in Nat
  BY Types, BoundsOK DEF IInv, TypeOK
<1>3. CreationTTL = Least(Proposed(0, role.default), MaxTTL(role.default, 0))
  <2>1. LeftOf(MaxTTL(role.default, 0), now) = MaxTTL(role.default, 0)
    BY <1>2, Maximum DEF LeftOf
  <2>2. QED
    BY <2>1 DEF CreationTTL, CalculateTTL
<1>4. CreationTTL \in Nat
  BY <1>2, <1>3, CreationValue
<1>5. j \in Job
  BY <1>2, <1>4 DEF Job
<1>6. req'[r] = j /\ \A q \in Request : q # r => req'[q] = Idle
  BY <1>1 DEF IInv, TypeOK
<1>7. TypeOK'
  BY <1>1, <1>5 DEF IInv, TypeOK
<1>8. ASSUME NEW q \in Request PROVE JobGood(q)'
  <2>1. CASE q # r
    BY <2>1, <1>6 DEF JobGood
  <2>2. CASE q = r
    <3>1. Creating(j) /\ j.at = now /\ CreationOf(j) = CreationTTL
      BY <1>3 DEF Creating, CreationOf
    <3>2. CreationGood(r)'
      BY <1>1, <1>3, <1>6 DEF CreationGood, CreationOf, MaxTTL, Capped, Proposed
    <3>3. QED
      BY <1>1, <1>2, <1>6, <2>2, <3>1, <3>2 DEF JobGood, Creating
  <2>3. QED
    BY <2>1, <2>2
<1>9. QED
  BY <1>1, <1>7, <1>8 DEF IInv, LifetimesBounded, MaxEnd, CreatedLoginTracksLease, Expires, Live

LEMMA CreateUserStep ==
  ASSUME IInv, NEW r \in Request, CreateUser(r)
  PROVE  IInv'
<1> DEFINE j == req[r]
<1>1. j \in Job /\ j.pc = "createUser" /\ Creating(j) /\ JobGood(r)
  BY DEF IInv, TypeOK, CreateUser, At, Creating
<1>2. /\ req' = [req EXCEPT ![r] = [j EXCEPT !.pc = "registerLease"]]
      /\ login' = j.until
      /\ UNCHANGED <<now, role, lease, faults, last>>
  BY DEF CreateUser, Goto, Continue
<1>3. CreationGood(r) /\ j.at <= now /\ now <= j.at + MaxDelay /\ req[r] # Idle
  BY <1>1 DEF JobGood, CreateUser, At
<1>4. [j EXCEPT !.pc = "registerLease"] \in Job
  BY <1>1 DEF Job
<1>5. req'[r] = [j EXCEPT !.pc = "registerLease"] /\ \A q \in Request : q # r => req'[q] = Idle
  BY <1>2, <1>3 DEF IInv, TypeOK, CreationGood
<1>6. /\ req'[r].pc = "registerLease"
      /\ req'[r].at = j.at /\ req'[r].ttl = j.ttl /\ req'[r].max = j.max
      /\ req'[r].made = j.made /\ req'[r].until = j.until
  BY <1>1, <1>5 DEF Job
<1>7. TypeOK'
  BY <1>1, <1>2, <1>4 DEF IInv, TypeOK, Job
<1>8. ASSUME NEW q \in Request PROVE JobGood(q)'
  <2>1. CASE q # r
    BY <2>1, <1>5 DEF JobGood
  <2>2. CASE q = r
    <3>1. CreationOf(req[r])' = CreationOf(j)
      BY <1>6 DEF CreationOf, MaxTTL, Capped, Proposed
    <3>2. CreationGood(r)'
      BY <1>2, <1>3, <1>5, <1>6, <3>1 DEF CreationGood
    <3>3. QED
      BY <1>2, <1>3, <1>6, <2>2, <3>2 DEF JobGood, Creating
  <2>3. QED
    BY <2>1, <2>2
<1>9. lease = Absent
  BY <1>3 DEF CreationGood
<1>10. QED
  BY <1>2, <1>7, <1>8, <1>9 DEF IInv, LifetimesBounded, MaxEnd, CreatedLoginTracksLease, Expires, Live

\* Vault, given the default and the maximum the role had, computes the same TTL
\* the handler did, if the default is within the maximum.
LEMMA SameTTL ==
  ASSUME NEW d \in Nat, NEW m \in Nat,
         Least(Proposed(0, d), SysMax) <= MaxTTL(m, 0)
  PROVE  Least(Proposed(0, d), MaxTTL(m, 0)) = Least(Proposed(0, d), MaxTTL(d, 0))
<1>1. Proposed(0, d) \in Nat /\ MaxTTL(m, 0) \in 1..SysMax /\ SysMax \in Nat
  BY Proposal, Maximum, TtlsOK
<1>2. Least(Proposed(0, d), MaxTTL(d, 0)) = Least(Proposed(0, d), SysMax)
  BY CreationValue
<1>3. QED
  BY <1>1, <1>2 DEF Least

LEMMA RegisterLeaseStep ==
  ASSUME IInv, NEW r \in Request, RegisterLease(r)
  PROVE  IInv'
<1> DEFINE j == req[r]
           ttl == CalculateTTL(0, j.ttl, j.max, 0, now)
<1>1. j \in Job /\ j.pc = "registerLease" /\ Creating(j) /\ JobGood(r) /\ j # Idle
  BY DEF IInv, TypeOK, RegisterLease, At, Creating
<1>2. /\ lease' = [issue |-> now, renewed |-> now, made |-> j.made, max |-> j.max,
                  expire |-> now + ttl]
      /\ last' = "creation"
      /\ req' = [req EXCEPT ![r] = Idle]
      /\ UNCHANGED <<now, role, login, faults>>
  BY DEF RegisterLease, Return, Continue
<1>3. CreationGood(r) /\ j.at <= now /\ now <= j.at + MaxDelay
  BY <1>1 DEF JobGood
<1>4. /\ j.made \in RoleEntry /\ j.ttl \in Nat /\ j.max \in Nat \cap Ttl /\ j.at \in Nat
      /\ now \in Nat /\ MaxDelay \in Nat /\ SysMax \in Nat /\ Grace \in Nat
  <2>1. j.max \in Ttl /\ j.made \in RoleEntry /\ j.ttl \in Nat /\ j.at \in Nat
    BY <1>1 DEF Job
  <2>2. QED
    BY <2>1, Types, TtlsOK, BoundsOK DEF IInv
<1>5. ttl = Least(Proposed(0, j.ttl), MaxTTL(j.max, 0))
  BY <1>4, Maximum DEF CalculateTTL, LeftOf
<1>6. ttl \in Nat /\ ttl <= MaxTTL(j.max, 0)
  <2>1. Proposed(0, j.ttl) \in Nat /\ MaxTTL(j.max, 0) \in 1..SysMax
    BY <1>4, Proposal, Maximum
  <2>2. QED
    BY <1>4, <1>5, <2>1 DEF Least
<1> HIDE DEF ttl
<1>7. lease' \in LeaseEntry
  BY <1>2, <1>4, <1>6 DEF LeaseEntry
<1>8. /\ lease'.issue = now /\ lease'.expire = now + ttl /\ lease'.made = j.made
      /\ lease'.max = j.max /\ lease' # Absent
  BY <1>2, <1>7, NoClash
<1>9. TypeOK'
  BY <1>2, <1>7 DEF IInv, TypeOK
<1>10. \A q \in Request : req'[q] = Idle
  BY <1>2, <1>3 DEF IInv, TypeOK, CreationGood
<1>11. login = j.at + CreationOf(j)
  BY <1>1, <1>3 DEF CreationGood
<1>12. CreationOf(j) \in Nat /\ CreationOf(j) <= SysMax
  <2>1. CreationOf(j) \in Nat /\ CreationOf(j) = Least(Proposed(0, j.ttl), SysMax)
    BY <1>4, CreationValue DEF CreationOf
  <2>2. Proposed(0, j.ttl) \in Nat
    BY <1>4, Proposal
  <2>3. QED
    BY <1>4, <2>1, <2>2 DEF Least
<1>13. LifetimesBounded'
  <2>1. MaxEnd(lease)' = now + MaxTTL(j.max, 0)
    BY <1>8 DEF MaxEnd, MaxTTL, Capped
  <2>2. MaxTTL(j.max, 0) \in Nat
    BY <1>4, Maximum
  <2>3. lease'.expire # Never /\ lease'.expire <= MaxEnd(lease)'
    BY <1>4, <1>6, <1>8, <2>1, <2>2, NoTime
  <2>4. login' <= lease'.issue + SysMax + Grace
    BY <1>2, <1>3, <1>4, <1>8, <1>11, <1>12
  <2>5. QED
    BY <2>3, <2>4 DEF LifetimesBounded
<1>14. CreatedLoginTracksLease'
  <2> SUFFICES ASSUME Ordered(lease.made)'
               PROVE  (lease.expire - MaxDelay <= login /\ login <= lease.expire)'
    BY DEF CreatedLoginTracksLease
  <2>1. Ordered(j.made)
    BY <1>8 DEF Ordered, MaxTTL, Capped, Proposed
  <2>2. j.made.default = j.ttl /\ j.made.max = j.max
    BY <1>3 DEF CreationGood
  <2>3. Least(Proposed(0, j.ttl), SysMax) <= MaxTTL(j.max, 0)
    BY <2>1, <2>2 DEF Ordered
  <2>4. ttl = CreationOf(j)
    BY <1>4, <1>5, <2>3, SameTTL DEF CreationOf
  <2>5. QED
    BY <1>2, <1>3, <1>4, <1>8, <1>11, <1>12, <2>4
<1>15. QED
  BY <1>2, <1>4, <1>8, <1>9, <1>10, <1>13, <1>14 DEF IInv, JobGood

(***************************************************************************)
(* The steps of a renewal.                                                 *)
(***************************************************************************)
LEMMA RenewalAnswer ==
  ASSUME TypeOK, lease # Absent, NEW i \in Increment
  PROVE  LET ttl == RenewalTTL(i)
             end == lease.issue + MaxTTL(role.max, 0)
         IN  /\ ttl \in Nat
             /\ \/ ttl = 0 /\ end <= now
                \/ /\ ttl > 0 /\ now + ttl <= end
                   /\ now + ttl = end \/ i \in {0, ttl}
<1> DEFINE ttl == RenewalTTL(i)
           end == lease.issue + MaxTTL(role.max, 0)
           left == LeftOf(MaxTTL(role.max, role.max), lease.issue)
           proposed == Proposed(i, role.default)
<1>1. now \in Nat /\ role.default \in Nat /\ role.max \in Nat /\ i \in Nat
  BY Types, TtlsOK
<1>2. lease.issue \in Nat
  BY DEF TypeOK, LeaseEntry
<1>3. end \in Nat /\ left = end - now
  BY <1>1, <1>2, Maximum DEF LeftOf
<1>4. proposed \in Nat \ {0} /\ (i > 0 => proposed = i)
  BY <1>1, Proposal
<1>5. ttl = IF left < 0 THEN 0 ELSE Least(proposed, left)
  BY DEF RenewalTTL, PastMax, CalculateTTL
<1> HIDE DEF ttl, end, left, proposed
<1>6. /\ ttl \in Nat
      /\ \/ ttl = 0 /\ end <= now
         \/ /\ ttl > 0 /\ now + ttl <= end
            /\ now + ttl = end \/ i \in {0, ttl}
  BY <1>1, <1>3, <1>4, <1>5 DEF Least
<1>7. QED
  BY <1>6 DEF ttl, end

LEMMA RenewStep ==
  ASSUME IInv, NEW r \in Request, SecretCredsRenew(r)
  PROVE  IInv'
<1>1. PICK i \in Increment :
        req' = [req EXCEPT ![r] =
                  [pc |-> IF RenewalTTL(i) > 0 THEN "alterExpiry" ELSE "persistRenewal",
                   at |-> now, increment |-> i, ttl |-> RenewalTTL(i),
                   until |-> ValidUntil(RenewalTTL(i)), max |-> role.max,
                   made |-> lease.made, issue |-> lease.issue]]
  BY DEF SecretCredsRenew, Continue
<1> DEFINE ttl == RenewalTTL(i)
           j == [pc |-> IF ttl > 0 THEN "alterExpiry" ELSE "persistRenewal",
                 at |-> now, increment |-> i, ttl |-> ttl,
                 until |-> ValidUntil(ttl), max |-> role.max,
                 made |-> lease.made, issue |-> lease.issue]
<1>2. req' = [req EXCEPT ![r] = j] /\ UNCHANGED <<now, role, login, lease, faults, last>>
  BY <1>1 DEF SecretCredsRenew
<1>3. req[r] = Idle /\ lease # Absent /\ TypeOK /\ lease.issue <= now
  BY DEF SecretCredsRenew, IInv
<1>4. /\ now \in Nat /\ role.max \in Nat /\ role.max \in Ttl
      /\ Grace \in Nat /\ MaxDelay \in Nat
  BY <1>3, Types, TtlsOK, BoundsOK
<1>5. lease.issue \in Nat /\ lease.made \in RoleEntry
  BY <1>3 DEF TypeOK, LeaseEntry
<1>6. /\ ttl \in Nat
      /\ \/ ttl = 0 /\ lease.issue + MaxTTL(role.max, 0) <= now
         \/ /\ ttl > 0 /\ now + ttl <= lease.issue + MaxTTL(role.max, 0)
            /\ now + ttl = lease.issue + MaxTTL(role.max, 0) \/ i \in {0, ttl}
  BY <1>3, RenewalAnswer
<1> HIDE DEF ttl
<1>7. ValidUntil(ttl) = now + ttl + Grace /\ ValidUntil(ttl) \in Nat
  BY <1>4, <1>6 DEF ValidUntil
<1>8. j \in Job
  BY <1>4, <1>5, <1>6, <1>7 DEF Job
<1>9. req'[r] = j /\ \A q \in Request : q # r => req'[q] = req[q]
  BY <1>2, <1>3 DEF TypeOK
<1>10. TypeOK'
  BY <1>2, <1>3, <1>8 DEF TypeOK
<1>11. ASSUME NEW q \in Request, req[q] # Idle
       PROVE  ~Creating(req[q]) /\ RenewalGood(q) /\ req[q].issue = lease.issue
  BY <1>3, <1>11 DEF IInv, JobGood, CreationGood, RenewalGood
<1>12. \A q \in Request : req'[q] # Idle => req'[q].issue = lease.issue
  BY <1>9, <1>11
<1>13. ASSUME NEW q \in Request PROVE JobGood(q)'
  <2>1. CASE q # r
    <3> SUFFICES ASSUME req[q] # Idle PROVE JobGood(q)'
      BY <1>9, <2>1 DEF JobGood
    <3>1. JobGood(q) /\ ~Creating(req[q]) /\ RenewalGood(q) /\ req[q].issue = lease.issue
      BY <1>11 DEF IInv
    <3>2. Answer(req[q])' = Answer(req[q])
      BY <1>9, <2>1 DEF Answer, End, MaxTTL, Capped
    <3>3. RenewalGood(q)'
      BY <1>2, <1>3, <1>9, <1>12, <2>1, <3>1, <3>2 DEF RenewalGood
    <3>4. QED
      BY <1>2, <1>9, <2>1, <3>1, <3>3 DEF JobGood, Creating
  <2>2. CASE q = r
    <3>1. Answer(j)
      BY <1>4, <1>6 DEF Answer, End
    <3>2. Answer(req[r])'
      BY <1>9, <3>1 DEF Answer, End, MaxTTL, Capped
    <3>3. RenewalGood(r)'
      BY <1>2, <1>3, <1>7, <1>9, <1>12, <3>2 DEF RenewalGood
    <3>4. ~Creating(j)
      BY DEF Creating
    <3>5. QED
      BY <1>2, <1>4, <1>9, <2>2, <3>3, <3>4 DEF JobGood, Creating
  <2>3. QED
    BY <2>1, <2>2
<1>14. QED
  BY <1>2, <1>10, <1>13
  DEF IInv, LifetimesBounded, MaxEnd, CreatedLoginTracksLease, Expires, Live, Ordered, MaxTTL,
      Capped, Proposed

\* A request that returns leaves the others what they have in hand.
LEMMA ReturnKeepsJobs ==
  ASSUME IInv, NEW r \in Request, Return(r), UNCHANGED <<now, login, lease>>
  PROVE  \A q \in Request : JobGood(q)'
<1>1. req'[r] = Idle /\ \A q \in Request : q # r => req'[q] = req[q]
  BY DEF IInv, TypeOK, Return, Continue
<1> SUFFICES ASSUME NEW q \in Request, q # r, req[q] # Idle PROVE JobGood(q)'
  BY <1>1 DEF JobGood
<1>2. JobGood(q) /\ req'[q] = req[q]
  BY <1>1 DEF IInv
<1>3. Answer(req[q])' = Answer(req[q]) /\ CreationOf(req[q])' = CreationOf(req[q])
  BY <1>2 DEF Answer, End, CreationOf, MaxTTL, Capped, Proposed
<1>4. RenewalGood(q) => RenewalGood(q)'
  BY <1>1, <1>2, <1>3 DEF RenewalGood
<1>5. CreationGood(q) => CreationGood(q)'
  BY <1>1, <1>2, <1>3 DEF CreationGood
<1>6. QED
  BY <1>2, <1>4, <1>5 DEF JobGood, Creating

LEMMA FailStep ==
  ASSUME IInv, NEW r \in Request, Fail(r)
  PROVE  IInv'
<1>1. TypeOK'
  BY BoundsOK DEF IInv, TypeOK, Fail, Return, Continue
<1>2. \A q \in Request : JobGood(q)'
  BY ReturnKeepsJobs DEF Fail
<1>3. QED
  BY <1>1, <1>2
  DEF IInv, Fail, LifetimesBounded, MaxEnd, CreatedLoginTracksLease, Expires, Live, Ordered, MaxTTL,
      Capped, Proposed

LEMMA RenewalEnd ==
  ASSUME NEW j \in Job
  PROVE  End(j) \in Nat /\ End(j) <= j.issue + SysMax
<1>1. j.issue \in Nat /\ j.max \in Nat
  BY TtlsOK DEF Job
<1>2. QED
  BY <1>1, Maximum, TtlsOK DEF End

LEMMA AlterExpiryStep ==
  ASSUME IInv, NEW r \in Request, AlterExpiry(r)
  PROVE  IInv'
<1> DEFINE j == req[r]
<1>1. j \in Job /\ j.pc = "alterExpiry" /\ j # Idle /\ UNCHANGED <<now, role, lease, faults>>
  BY DEF IInv, TypeOK, AlterExpiry, At
<1>2. ~Creating(j) /\ RenewalGood(r) /\ j.at <= now /\ now <= j.at + MaxDelay
  BY <1>1 DEF IInv, JobGood, Creating
<1>3. CASE login = Absent
  <2>1. Return(r) /\ UNCHANGED <<login, last>>
    BY <1>3 DEF AlterExpiry
  <2>2. TypeOK'
    BY <1>1, <2>1 DEF IInv, TypeOK, Return, Continue
  <2>3. \A q \in Request : JobGood(q)'
    BY <1>1, <2>1, ReturnKeepsJobs
  <2>4. QED
    BY <1>1, <2>1, <2>2, <2>3
    DEF IInv, LifetimesBounded, MaxEnd, CreatedLoginTracksLease, Expires, Live, Ordered, MaxTTL,
        Capped, Proposed
<1>4. CASE login # Absent
  <2>1. /\ login' = j.until /\ last' = "alterExpiry"
        /\ req' = [req EXCEPT ![r] = [j EXCEPT !.pc = "persistRenewal"]]
    BY <1>4 DEF AlterExpiry, Goto, Continue
  <2>2. [j EXCEPT !.pc = "persistRenewal"] \in Job
    BY <1>1 DEF Job
  <2>3. /\ req'[r] = [j EXCEPT !.pc = "persistRenewal"]
        /\ \A q \in Request : q # r => req'[q] = req[q]
    BY <2>1 DEF IInv, TypeOK
  <2>4. /\ req'[r] # Idle /\ req'[r].pc = "persistRenewal"
        /\ req'[r].at = j.at /\ req'[r].ttl = j.ttl /\ req'[r].until = j.until
        /\ req'[r].max = j.max /\ req'[r].increment = j.increment
        /\ req'[r].issue = j.issue
    BY <1>1, <2>2, <2>3, NoClash DEF Job
  <2>5. TypeOK'
    <3>1. j.until \in Nat
      BY <1>1 DEF Job
    <3>2. QED
      BY <1>1, <2>1, <2>2, <3>1 DEF IInv, TypeOK
  <2>6. lease # Absent /\ lease.issue = j.issue
    BY <1>2, <1>4 DEF RenewalGood
  <2>7. \A q \in Request : req'[q] # Idle => req'[q].issue = j.issue
    BY <1>2, <2>3, <2>4 DEF RenewalGood
  <2>8. Answer(req[r])'
    BY <1>1, <1>2, <2>4 DEF RenewalGood, Answer, End, MaxTTL, Capped
  <2>9. ASSUME NEW q \in Request PROVE JobGood(q)'
    <3>1. CASE q # r
      <4> SUFFICES ASSUME req[q] # Idle PROVE JobGood(q)'
        BY <2>3, <3>1 DEF JobGood
      <4>1. JobGood(q) /\ req'[q] = req[q] /\ ~Creating(req[q]) /\ RenewalGood(q)
        BY <1>1, <2>3, <3>1 DEF IInv, JobGood, CreationGood
      <4>2. Answer(req[q])' = Answer(req[q])
        BY <4>1 DEF Answer, End, MaxTTL, Capped
      <4>3. RenewalGood(q)'
        BY <1>1, <2>6, <2>7, <4>1, <4>2 DEF RenewalGood
      <4>4. QED
        BY <1>1, <4>1, <4>3 DEF JobGood, Creating
    <3>2. CASE q = r
      <4>1. RenewalGood(r)'
        BY <1>1, <1>2, <2>4, <2>6, <2>7, <2>8 DEF RenewalGood
      <4>2. QED
        BY <1>1, <1>2, <2>4, <3>2, <4>1 DEF JobGood, Creating
    <3>3. QED
      BY <3>1, <3>2
  <2>10. LifetimesBounded'
    <3>1. j.until <= j.issue + SysMax + Grace
      <4>1. j.until = j.at + j.ttl + Grace /\ j.at + j.ttl <= End(j)
        BY <1>1, <1>2 DEF RenewalGood, Answer
      <4>2. /\ j.at \in Nat /\ j.ttl \in Nat /\ j.issue \in Nat
            /\ Grace \in Nat /\ SysMax \in Nat
        BY <1>1, TtlsOK DEF Job
      <4>3. QED
        BY <1>1, <4>1, <4>2, RenewalEnd
    <3>2. IF lease.expire = Never THEN lease.renewed = MaxEnd(lease)
                                  ELSE lease.expire <= MaxEnd(lease)
      BY <2>6 DEF IInv, LifetimesBounded
    <3>3. MaxEnd(lease)' = MaxEnd(lease)
      BY <1>1 DEF MaxEnd, MaxTTL, Capped
    <3>4. QED
      BY <1>1, <2>1, <2>6, <3>1, <3>2, <3>3 DEF LifetimesBounded
  <2>11. QED
    BY <1>1, <2>1, <2>5, <2>9, <2>10 DEF IInv, CreatedLoginTracksLease
<1>5. QED
  BY <1>3, <1>4

LEMMA PersistValue ==
  ASSUME NEW j \in Job, TypeOK
  PROVE  /\ PastMax(j.max, 0, j.issue) <=> End(j) < now
         /\ RenewedTTL(j) = Least(Proposed(j.increment, j.ttl), End(j) - now)
<1>1. j.issue \in Nat /\ j.max \in Nat /\ now \in Nat
  BY TtlsOK, Types DEF Job
<1>2. MaxTTL(j.max, 0) \in Nat
  BY <1>1, Maximum
<1>3. LeftOf(MaxTTL(j.max, 0), j.issue) = End(j) - now /\ End(j) \in Nat
  BY <1>1, <1>2 DEF LeftOf, End
<1>4. QED
  BY <1>1, <1>3 DEF PastMax, RenewedTTL, CalculateTTL

LEMMA PersistRenewalStep ==
  ASSUME IInv, NEW r \in Request, PersistRenewal(r)
  PROVE  IInv'
<1> DEFINE j == req[r]
           ttl == RenewedTTL(j)
<1>1. /\ j \in Job /\ j.pc = "persistRenewal" /\ j # Idle
      /\ Return(r) /\ UNCHANGED <<now, role, login, faults>>
  BY DEF IInv, TypeOK, PersistRenewal, At
<1>2. ~Creating(j) /\ RenewalGood(r) /\ j.at <= now
  BY <1>1 DEF IInv, JobGood, Creating
<1>3. CASE PastMax(j.max, 0, j.issue)
  <2>1. UNCHANGED <<lease, last>>
    BY <1>3 DEF PersistRenewal
  <2>2. TypeOK'
    BY <1>1, <2>1 DEF IInv, TypeOK, Return, Continue
  <2>3. \A q \in Request : JobGood(q)'
    BY <1>1, <2>1, ReturnKeepsJobs
  <2>4. QED
    BY <1>1, <2>1, <2>2, <2>3
    DEF IInv, LifetimesBounded, MaxEnd, CreatedLoginTracksLease, Expires, Live, Ordered, MaxTTL,
        Capped, Proposed
<1>4. CASE ~PastMax(j.max, 0, j.issue)
  <2> DEFINE e == [issue |-> j.issue, renewed |-> now, made |-> j.made, max |-> j.max,
                   expire |-> IF ttl > 0 THEN now + ttl ELSE Never]
  <2>1. lease' = e /\ last' = "renewal"
    BY <1>4 DEF PersistRenewal
  <2>2. /\ now \in Nat /\ j.issue \in Nat /\ j.made \in RoleEntry /\ j.at \in Nat
        /\ j.increment \in Nat /\ j.ttl \in Nat /\ SysMax \in Nat /\ j.max \in Ttl
    <3>1. /\ j.issue \in Nat /\ j.made \in RoleEntry /\ j.at \in Nat /\ j.ttl \in Nat
          /\ j.max \in Ttl
          /\ j.increment \in Increment \cup {0}
      BY <1>1 DEF Job
    <3>2. now \in Nat /\ SysMax \in Nat
      BY Types, TtlsOK DEF IInv
    <3>3. \A i \in Increment \cup {0} : i \in Nat
      BY TtlsOK
    <3>4. QED
      BY <3>1, <3>2, <3>3
  <2>3. End(j) \in Nat /\ End(j) <= j.issue + SysMax
    BY <1>1, RenewalEnd
  <2>4. ttl \in Nat /\ now + ttl <= End(j) /\ (ttl = 0 => End(j) = now)
    <3>1. ttl = Least(Proposed(j.increment, j.ttl), End(j) - now) /\ ~(End(j) < now)
      BY <1>1, <1>4, PersistValue DEF IInv
    <3>2. Proposed(j.increment, j.ttl) \in Nat \ {0}
      BY <2>2, Proposal
    <3>3. QED
      BY <2>2, <2>3, <3>1, <3>2 DEF Least
  <2> HIDE DEF ttl
  <2>5. e \in LeaseEntry
    BY <2>2, <2>4 DEF LeaseEntry
  <2>6. /\ lease' # Absent /\ lease'.issue = j.issue
        /\ lease'.renewed = now /\ lease'.max = j.max
        /\ lease'.expire = IF ttl > 0 THEN now + ttl ELSE Never
    BY <2>1, <2>5, NoClash
  <2>7. req'[r] = Idle /\ \A q \in Request : q # r => req'[q] = req[q]
    BY <1>1 DEF IInv, TypeOK, Return, Continue
  <2>8. TypeOK'
    BY <1>1, <2>1, <2>5 DEF IInv, TypeOK, Return, Continue
  <2>9. ASSUME NEW q \in Request PROVE JobGood(q)'
    <3> SUFFICES ASSUME q # r, req[q] # Idle PROVE JobGood(q)'
      BY <2>7 DEF JobGood
    <3>1. JobGood(q) /\ req'[q] = req[q] /\ ~Creating(req[q]) /\ RenewalGood(q)
      BY <1>1, <2>7 DEF IInv, JobGood, CreationGood
    <3>2. req[q].issue = j.issue
      BY <1>1, <3>1 DEF RenewalGood
    <3>3. Answer(req[q])' = Answer(req[q])
      BY <3>1 DEF Answer, End, MaxTTL, Capped
    <3>4. RenewalGood(q)'
      BY <1>1, <2>6, <2>7, <3>1, <3>2, <3>3 DEF RenewalGood
    <3>5. QED
      BY <1>1, <3>1, <3>4 DEF JobGood, Creating
  <2>10. lease'.issue <= now'
    BY <1>1, <1>2, <2>2, <2>6 DEF RenewalGood
  <2>11. LifetimesBounded'
    <3>1. login # Absent => lease # Absent /\ lease.issue = j.issue
      BY <1>2 DEF RenewalGood
    <3>2. login' # Absent => login' <= lease'.issue + SysMax + Grace
      BY <1>1, <2>6, <3>1 DEF IInv, LifetimesBounded
    <3>3. MaxEnd(lease)' = End(j)
      BY <2>6 DEF MaxEnd, End, MaxTTL, Capped
    <3>4. IF lease'.expire = Never THEN lease'.renewed = End(j)
                                   ELSE lease'.expire <= End(j)
      BY <2>2, <2>3, <2>4, <2>6, NoTime
    <3>5. QED
      BY <3>2, <3>3, <3>4 DEF LifetimesBounded
  <2>12. QED
    BY <2>1, <2>8, <2>9, <2>10, <2>11 DEF IInv, CreatedLoginTracksLease
<1>5. QED
  BY <1>3, <1>4

LEMMA Invariance == Spec => []IInv
<1>1. Init => IInv
  BY Initially
<1>2. IInv /\ [Next]_vars => IInv'
  <2> SUFFICES ASSUME IInv, [Next]_vars PROVE IInv'
    OBVIOUS
  <2>1. CASE Tick
    BY <2>1, TickStep
  <2>2. CASE PathRoleUpdate
    BY <2>2, RoleStep
  <2>3. CASE Revoke
    BY <2>3, RevokeStep
  <2>4. ASSUME NEW r \in Request, Handler(r) PROVE IInv'
    BY <2>4, CreateStep, CreateUserStep, RegisterLeaseStep, RenewStep, AlterExpiryStep,
       PersistRenewalStep, FailStep DEF Handler
  <2>5. CASE UNCHANGED vars
    BY <2>5
    DEF vars, IInv, TypeOK, JobGood, Creating, CreationGood, RenewalGood, Answer, End,
        CreationOf, LifetimesBounded, MaxEnd, CreatedLoginTracksLease, Expires, Live, Ordered,
        MaxTTL, Capped, Proposed
  <2>6. QED
    BY <2>1, <2>2, <2>3, <2>4, <2>5 DEF Next
<1>3. QED
  BY <1>1, <1>2, PTL DEF Spec

(***************************************************************************)
(* The theorems.                                                           *)
(***************************************************************************)

\* Every time a handler or Vault computes is a natural number: TypeOK, of
\* secretCredsCreate, secretCredsRenew and what Vault does with their answers.
THEOREM Typing == Spec => []TypeOK
<1>1. IInv => TypeOK
  BY DEF IInv
<1>2. QED
  BY <1>1, Invariance, PTL

\* No chain of renewals, concurrent, interrupted, whatever they ask for, keeps
\* a login beyond the maximum of the mount and the grace, and none keeps a lease
\* beyond the maximum it was renewed with, but one made in the very second this
\* maximum ends, which leaves a lease without an expiry: LifetimesBounded, of
\* the TTLs secretCredsRenew computes from the issue time.
THEOREM Bounded == Spec => []LifetimesBounded
<1>1. IInv => LifetimesBounded
  BY DEF IInv
<1>2. QED
  BY <1>1, Invariance, PTL

\* The login secretCredsCreate makes dies with its lease, or at most as long
\* before it as the request takes, if the role's default TTL is within its
\* maximum: CreatedLoginTracksLease.
THEOREM CreatedTracks == Spec => []CreatedLoginTracksLease
<1>1. IInv => CreatedLoginTracksLease
  BY DEF IInv
<1>2. QED
  BY <1>1, Invariance, PTL

(***************************************************************************)
(* Renewals made one at a time, each within the grace.                     *)
(***************************************************************************)
OneAtATime == \A q, r \in Request : q = r
Prompt == MaxDelay <= Grace

\* The login has the validity the renewal computed, unless it is gone.
Altered ==
  \A r \in Request :
    At(r, "persistRenewal") /\ req[r].ttl > 0 => login \in {req[r].until, Absent}

\* Vault gives a lease no more than the handler gave the login.
LEMMA WithinGrace ==
  ASSUME NEW t \in Nat, NEW at \in Nat, NEW inc \in Nat, NEW ttl \in Nat \ {0},
         NEW end \in Nat, at <= t, t <= at + MaxDelay, Prompt,
         at + ttl <= end, at + ttl = end \/ inc \in {0, ttl}
  PROVE  t + Least(Proposed(inc, ttl), end - t) <= at + ttl + Grace
BY TtlsOK, BoundsOK DEF Prompt, Least, Proposed

LEMMA PersistKeeps ==
  ASSUME Prompt, IInv, Altered, RenewedLoginOutlivesLease,
         NEW r \in Request, PersistRenewal(r)
  PROVE  RenewedLoginOutlivesLease'
<1> DEFINE j == req[r]
           ttl == RenewedTTL(j)
<1>1. j \in Job /\ At(r, "persistRenewal") /\ j # Idle /\ UNCHANGED <<now, login>>
  BY DEF IInv, TypeOK, PersistRenewal, At
<1>2. RenewalGood(r) /\ j.at <= now /\ now <= j.at + MaxDelay
  BY <1>1 DEF IInv, JobGood, Creating, At
<1>3. CASE PastMax(j.max, 0, j.issue)
  BY <1>1, <1>3 DEF PersistRenewal, RenewedLoginOutlivesLease, Expires, Live
<1>4. CASE ~PastMax(j.max, 0, j.issue)
  <2>1. lease' = [issue |-> j.issue, renewed |-> now, made |-> j.made, max |-> j.max,
                  expire |-> IF ttl > 0 THEN now + ttl ELSE Never]
    BY <1>4 DEF PersistRenewal
  <2> SUFFICES ASSUME ttl > 0, login # Absent PROVE now + ttl <= login
    BY <1>1, <2>1 DEF RenewedLoginOutlivesLease, Expires, Live
  <2>2. /\ now \in Nat /\ j.at \in Nat /\ j.ttl \in Nat /\ End(j) \in Nat
        /\ j.increment \in Increment \cup {0}
    <3>1. j.at \in Nat /\ j.ttl \in Nat /\ j.increment \in Increment \cup {0}
      BY <1>1 DEF Job
    <3>2. now \in Nat /\ End(j) \in Nat
      BY <1>1, RenewalEnd, Types DEF IInv
    <3>3. QED
      BY <3>1, <3>2
  <2>3. j.increment \in Nat
    <3>1. \A i \in Increment \cup {0} : i \in Nat
      BY TtlsOK
    <3>2. QED
      BY <2>2, <3>1
  <2>4. ttl = Least(Proposed(j.increment, j.ttl), End(j) - now)
    BY <1>1, PersistValue DEF IInv
  <2>5. j.ttl > 0
    <3>1. Proposed(j.increment, j.ttl) \in Nat
      BY <2>2, <2>3, Proposal
    <3>2. End(j) > now
      BY <2>2, <2>4, <3>1 DEF Least
    <3>3. QED
      BY <1>2, <2>2, <3>2 DEF RenewalGood, Answer
  <2>6. login = j.at + j.ttl + Grace
    BY <1>1, <1>2, <2>5 DEF Altered, RenewalGood
  <2>7. j.at + j.ttl <= End(j) /\ (j.at + j.ttl = End(j) \/ j.increment \in {0, j.ttl})
    BY <1>2, <2>5 DEF RenewalGood, Answer
  <2>8. now + ttl <= j.at + j.ttl + Grace
    <3> HIDE DEF ttl
    <3>1. j.ttl \in Nat \ {0} /\ Prompt
      BY <2>2, <2>5
    <3>2. now + Least(Proposed(j.increment, j.ttl), End(j) - now) <= j.at + j.ttl + Grace
      BY <1>2, <2>2, <2>3, <2>7, <3>1, WithinGrace
    <3>3. QED
      BY <2>4, <3>2
  <2>9. QED
    BY <2>6, <2>8
<1>5. QED
  BY <1>3, <1>4

\* What a request does when it is the only one.
LEMMA SerialStep ==
  ASSUME OneAtATime, Prompt, IInv, Altered, RenewedLoginOutlivesLease, [Next]_vars
  PROVE  Altered' /\ RenewedLoginOutlivesLease'
<1> USE DEF Altered, RenewedLoginOutlivesLease, Expires, Live
<1>1. CASE Tick \/ PathRoleUpdate \/ UNCHANGED vars
  BY <1>1 DEF Tick, PathRoleUpdate, vars, At
<1>2. CASE Revoke
  BY <1>2 DEF Revoke, At
<1>3. ASSUME NEW r \in Request, Handler(r) PROVE Altered' /\ RenewedLoginOutlivesLease'
  <2>1. \A q \in Request : q = r
    BY DEF OneAtATime
  <2>2. CASE SecretCredsCreate(r)
    BY <2>1, <2>2 DEF SecretCredsCreate, Continue, At, IInv, TypeOK
  <2>3. CASE CreateUser(r)
    <3>1. lease = Absent /\ lease' = Absent
      BY <2>3 DEF CreateUser, At, IInv, JobGood, Creating, CreationGood
    <3>2. At(r, "persistRenewal")' = FALSE
      BY <2>3 DEF CreateUser, Goto, Continue, At, IInv, TypeOK, Job
    <3>3. QED
      BY <2>1, <3>1, <3>2
  <2>4. CASE RegisterLease(r) \/ Fail(r)
    BY <2>1, <2>4 DEF RegisterLease, Fail, Return, Continue, At, IInv, TypeOK
  <2>5. CASE SecretCredsRenew(r)
    BY <2>1, <2>5 DEF SecretCredsRenew, Continue, At, IInv, TypeOK
  <2>6. CASE AlterExpiry(r)
    <3>1. CASE login = Absent
      BY <2>1, <2>6, <3>1 DEF AlterExpiry, Return, Continue, At, IInv, TypeOK
    <3>2. CASE login # Absent
      <4>1. /\ login' = req[r].until /\ last' = "alterExpiry"
            /\ req' = [req EXCEPT ![r] = [req[r] EXCEPT !.pc = "persistRenewal"]]
        BY <2>6, <3>2 DEF AlterExpiry, Goto, Continue
      <4>2. req[r] \in Job /\ r \in DOMAIN req
        BY <2>6 DEF AlterExpiry, At, IInv, TypeOK
      <4>3. req'[r].until = req[r].until
        BY <4>1, <4>2 DEF Job
      <4>4. QED
        BY <2>1, <4>1, <4>3
    <3>3. QED
      BY <3>1, <3>2
  <2>7. CASE PersistRenewal(r)
    <3>1. Altered'
      BY <2>1, <2>7 DEF PersistRenewal, Return, Continue, At, IInv, TypeOK
    <3>2. QED
      BY <2>7, <3>1, PersistKeeps
  <2>8. QED
    BY <1>3, <2>2, <2>3, <2>4, <2>5, <2>6, <2>7 DEF Handler
<1>4. QED
  BY <1>1, <1>2, <1>3 DEF Next

\* A renewal that went through leaves the login valid until the lease ends, if
\* renewals come one at a time and take no more than the five seconds that
\* secretCredsRenew adds: RenewedLoginOutlivesLease.
THEOREM RenewedOutlives ==
  ASSUME OneAtATime, Prompt PROVE Spec => []RenewedLoginOutlivesLease
<1>1. Init => Altered /\ RenewedLoginOutlivesLease
  BY DEF Init, Altered, At, RenewedLoginOutlivesLease, Expires, Live
<1>2. IInv /\ (Altered /\ RenewedLoginOutlivesLease) /\ [Next]_vars
        => (Altered /\ RenewedLoginOutlivesLease)'
  BY SerialStep
<1>3. QED
  BY <1>1, <1>2, Invariance, PTL DEF Spec
=============================================================================
