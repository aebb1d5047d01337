------------------------------ MODULE LeaseTtl ------------------------------
(***************************************************************************)
(* The times of one lease: until when Vault keeps it, and until when       *)
(* Postgres lets the login in (VALID UNTIL).  The handlers and Vault       *)
(* compute the two separately, moments apart, with the same library        *)
(* function and different arguments.                                       *)
(*                                                                         *)
(* The clock counts seconds, to which the library cuts every time and both *)
(* handlers format theirs.  What else can happen to a lease is in Creds:   *)
(* revocation is one step here.                                            *)
(***************************************************************************)
EXTENDS Integers

CONSTANTS
  SysDefault, SysMax,   \* the TTLs of the mount
  Ttl,                  \* TTLs a role may have, 0 when there is none
  Increment,            \* TTLs a renewal may ask for, 0 when it asks for none
  Grace,                \* what a renewal adds to the login's validity: 5 seconds
  MaxDelay,             \* how long a handler and what follows it in Vault take
  MaxTime,              \* bound on the clock
  Request,              \* request slots
  MaxFaults,            \* requests that end half way
  Absent, Never, Idle

ASSUME TtlsOK == /\ SysDefault \in Nat \ {0} /\ SysMax \in Nat \ {0}
                 /\ Ttl \subseteq Nat /\ Increment \subseteq Nat
                 /\ Grace \in Nat
ASSUME BoundsOK == MaxDelay \in Nat /\ MaxTime \in Nat /\ MaxFaults \in Nat
ASSUME NoTime == Absent \notin Nat /\ Never \notin Nat /\ Absent # Never

VARIABLES
  now,      \* the clock
  role,     \* storage: the role's TTLs
  login,    \* Postgres: until when the login is valid
  lease,    \* Vault: the lease entry
  req,      \* the requests in flight
  faults,   \* history: requests that have ended half way
  last      \* history: what has set the times of login and lease last

vars == <<now, role, login, lease, req, faults, last>>

RoleEntry == [default : Ttl, max : Ttl]

\* expire is Never in an entry without an expiry, which gets no timer; renewed
\* is the time of the last renewal, the issue before the first; max is what the
\* handler answered then.  made: the role as it was at creation (history).
LeaseEntry == [issue : Nat, renewed : Nat, expire : Nat \cup {Never},
               max : Ttl, made : RoleEntry]

\* at: when the handler took the time; ttl, max: what it answers; until: the
\* validity it computed for the login.
Job == [pc : {"createUser", "registerLease", "alterExpiry", "persistRenewal"},
        at : Nat, increment : Increment \cup {0}, ttl : Nat, until : Nat,
        max : Ttl, made : RoleEntry, issue : Nat]

ASSUME NoClash == Absent \notin LeaseEntry /\ Idle \notin Job

TypeOK ==
  /\ now \in 0..MaxTime
  /\ role \in RoleEntry
  /\ login \in Nat \cup {Absent}
  /\ lease \in LeaseEntry \cup {Absent}
  /\ req \in [Request -> Job \cup {Idle}]
  /\ faults \in 0..MaxFaults
  /\ last \in {"creation", "alterExpiry", "renewal"}

Init ==
  /\ now = 0
  /\ role \in RoleEntry
  /\ login = Absent
  /\ lease = Absent
  /\ req = [r \in Request |-> Idle]
  /\ faults = 0
  /\ last = "creation"

(***************************************************************************)
(* framework.CalculateTTL without a period, at the time now.               *)
(***************************************************************************)
Least(a, b) == IF a <= b THEN a ELSE b
Capped(ttl, cap) == IF cap > 0 THEN Least(ttl, cap) ELSE ttl

MaxTTL(backendMax, explicitMax) == Capped(Capped(SysMax, backendMax), explicitMax)

Proposed(increment, backendTTL) ==
  IF increment > 0 THEN increment
  ELSE IF backendTTL > 0 THEN backendTTL ELSE SysDefault

\* What is left of the maximum; the function fails when it is negative.
LeftOf(max, start) == start + max - now

CalculateTTL(increment, backendTTL, backendMax, explicitMax, start) ==
  Least(Proposed(increment, backendTTL), LeftOf(MaxTTL(backendMax, explicitMax), start))

NeverPastMax(backendMax, explicitMax, start) == FALSE     \* mutant: no check

PastMax(backendMax, explicitMax, start) ==
  LeftOf(MaxTTL(backendMax, explicitMax), start) < 0

At(r, pc) == req[r] # Idle /\ req[r].pc = pc
Continue(r, job) == req' = [req EXCEPT ![r] = job]
Goto(r, pc) == Continue(r, [req[r] EXCEPT !.pc = pc])
Return(r) == Continue(r, Idle)

\* Time passes, but no request takes more than MaxDelay.
Tick ==
  /\ now < MaxTime
  /\ \A r \in Request : req[r] # Idle => now < req[r].at + MaxDelay
  /\ now' = now + 1
  /\ UNCHANGED <<role, login, lease, req, faults, last>>

PathRoleUpdate ==
  /\ role' \in RoleEntry
  /\ UNCHANGED <<now, login, lease, req, faults, last>>

(***************************************************************************)
(* Creation: secretCredsCreate takes the role's default as the maximum,    *)
(* too, while Vault, registering the lease, goes by what it answers.       *)
(***************************************************************************)
\* mutant: the other TTL of the role
CreationTTLOfMax == CalculateTTL(0, role.max, role.max, 0, now)

CreationTTL == CalculateTTL(0, role.default, role.default, 0, now)

SecretCredsCreate(r) ==
  /\ lease = Absent /\ login = Absent
  /\ \A q \in Request : req[q] = Idle
  /\ Continue(r, [pc |-> "createUser", at |-> now, increment |-> 0,
                  ttl |-> role.default, until |-> now + CreationTTL,
                  max |-> role.max, made |-> role, issue |-> now])
  /\ UNCHANGED <<now, role, login, lease, faults, last>>

CreateUser(r) ==
  /\ At(r, "createUser")
  /\ login' = req[r].until
  /\ Goto(r, "registerLease")
  /\ UNCHANGED <<now, role, lease, faults, last>>

RegisterLease(r) ==
  /\ At(r, "registerLease")
  /\ lease' = [issue |-> now, renewed |-> now, made |-> req[r].made, max |-> req[r].max,
               expire |-> now + CalculateTTL(0, req[r].ttl, req[r].max, 0, now)]
  /\ last' = "creation"
  /\ Return(r)
  /\ UNCHANGED <<now, role, login, faults>>

(***************************************************************************)
(* Renewal: secretCredsRenew answers 0 and leaves the login alone when     *)
(* nothing is left of the maximum; Vault then computes the TTL again, from *)
(* the same increment and what the handler answered.                       *)
(***************************************************************************)
\* mutant: without the issue time, the maximum begins again
RenewalTTLAnew(increment) ==
  CalculateTTL(increment, role.default, role.max, role.max, now)

RenewalTTL(increment) ==
  IF PastMax(role.max, role.max, lease.issue)
  THEN 0
  ELSE CalculateTTL(increment, role.default, role.max, role.max, lease.issue)

NoGrace(ttl) == now + ttl        \* mutant: no grace
ValidUntil(ttl) == now + ttl + Grace

SecretCredsRenew(r) ==
  /\ req[r] = Idle
  /\ lease # Absent /\ lease.expire # Never /\ now <= lease.expire
  /\ \E i \in Increment :
       LET ttl == RenewalTTL(i) IN
         Continue(r, [pc |-> IF ttl > 0 THEN "alterExpiry" ELSE "persistRenewal",
                      at |-> now, increment |-> i, ttl |-> ttl,
                      until |-> ValidUntil(ttl), max |-> role.max,
                      made |-> lease.made, issue |-> lease.issue])
  /\ UNCHANGED <<now, role, login, lease, faults, last>>

\* alter role fails when the login is gone
AlterExpiry(r) ==
  /\ At(r, "alterExpiry")
  /\ \/ login = Absent /\ Return(r) /\ UNCHANGED <<login, last>>
     \/ /\ login # Absent
        /\ login' = req[r].until
        /\ last' = "alterExpiry"
        /\ Goto(r, "persistRenewal")
  /\ UNCHANGED <<now, role, lease, faults>>

RenewedTTL(j) == CalculateTTL(j.increment, j.ttl, j.max, 0, j.issue)

\* An entry with a TTL of 0 is stored without an expiry.
PersistRenewal(r) ==
  /\ At(r, "persistRenewal")
  /\ LET j == req[r]
         ttl == RenewedTTL(j)
     IN  IF PastMax(j.max, 0, j.issue)
         THEN UNCHANGED <<lease, last>>
         ELSE /\ lease' = [issue |-> j.issue, renewed |-> now, made |-> j.made, max |-> j.max,
                           expire |-> IF ttl > 0 THEN now + ttl ELSE Never]
              /\ last' = "renewal"
  /\ Return(r)
  /\ UNCHANGED <<now, role, login, faults>>

\* The lease expires, or an operator revokes it.
Revoke ==
  /\ lease # Absent
  /\ lease' = Absent
  /\ login' = Absent
  /\ UNCHANGED <<now, role, req, faults, last>>

Fail(r) ==
  /\ req[r] # Idle
  /\ faults < MaxFaults
  /\ faults' = faults + 1
  /\ Return(r)
  /\ UNCHANGED <<now, role, login, lease, last>>

Handler(r) ==
  \/ SecretCredsCreate(r) \/ CreateUser(r) \/ RegisterLease(r)
  \/ SecretCredsRenew(r) \/ AlterExpiry(r) \/ PersistRenewal(r)
  \/ Fail(r)

Next == Tick \/ PathRoleUpdate \/ Revoke \/ \E r \in Request : Handler(r)

Spec == Init /\ [][Next]_vars

(***************************************************************************)
(* Properties.                                                             *)
(***************************************************************************)
Live == lease # Absent /\ login # Absent
Expires == Live /\ lease.expire # Never

\* When the maximum of a lease ends, by what the role allowed at its last renewal.
MaxEnd(l) == l.issue + MaxTTL(l.max, 0)

\* However often a lease is renewed, with whatever increments and role TTLs,
\* by concurrent requests some of which fail half way: its login dies within
\* the mount's maximum of the issue, up to the grace of secretCredsRenew.  The
\* lease expires within the maximum it was last renewed with, never more than
\* the mount's, or it was renewed in the very second this maximum ended: then
\* secretCredsRenew answered a TTL of 0 and Vault keeps the lease without an
\* expiry, and nothing bounds its life (EveryLeaseExpires).
LifetimesBounded ==
  lease # Absent =>
    /\ login # Absent => login <= lease.issue + SysMax + Grace
    /\ IF lease.expire = Never THEN lease.renewed = MaxEnd(lease)
                               ELSE lease.expire <= MaxEnd(lease)

\* Once a renewal has gone through, the login can log in until the lease ends,
\* although secretCredsRenew computes its validity before it connects to
\* Postgres and Vault the expiry of the lease after that: this is what the
\* five seconds are for, and renewals must take no longer.  A lease renewed in
\* the last second has no expiry (EveryLeaseExpires) and is left out: it does
\* outlive its login.
RenewedLoginOutlivesLease ==
  Expires /\ last = "renewal" => lease.expire <= login

\* A role whose default TTL is within its maximum.
Ordered(e) ==
  Least(Proposed(0, e.default), SysMax) <= MaxTTL(e.max, 0)

\* The login secretCredsCreate makes from such a role is valid until the lease
\* expires, to within the time the request takes, by which it may die earlier.
CreatedLoginTracksLease ==
  Expires /\ last = "creation" /\ Ordered(lease.made) =>
    lease.expire - MaxDelay <= login /\ login <= lease.expire

(***************************************************************************)
(* What tests and documentation say and the code does not keep.            *)
(***************************************************************************)

\* path-creds_test.go, of new credentials: the validity in Postgres is the
\* expiry of the lease, or "valid_until on response does not match with db".
ExpiryMatchesLease ==
  Expires /\ last = "creation" => login = lease.expire

\* docs/creds.md: "In any case the lease will be revoked by vault."
EveryLeaseExpires == lease # Absent => lease.expire # Never
=============================================================================
