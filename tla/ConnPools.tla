----------------------------- MODULE ConnPools -----------------------------
(***************************************************************************)
(* The connections to one Postgres server.  Every handler that needs the   *)
(* server opens a pool (sql.DB) of its own and has one connection in it;   *)
(* limits hold per pool, and not every pool is closed: one that is not     *)
(* keeps its idle connection until the lifetime set for it passes.         *)
(*                                                                         *)
(* What handlers do with their connection is in Registry and Creds.  The   *)
(* server accepts as many connections as there are slots.                  *)
(***************************************************************************)
EXTENDS Naturals, FiniteSets

CONSTANTS
  Slot,              \* the connections the server accepts
  Request,           \* request slots
  Operations,        \* the handlers in the instance, a subset of Handlers
  MaxOpen,           \* max_open_connections of the cluster, 0: no limit
  MaxIdle,           \* max_idle_connections of the cluster
  Lifetime,          \* is max_connection_lifetime set?
  Free, Idle         \* no connection in a slot; no request

Handlers == {"cluster", "database", "clone", "creds"}

ASSUME ConstantsOK ==
  /\ Operations \subseteq Handlers
  /\ MaxOpen \in Nat /\ MaxIdle \in Nat /\ Lifetime \in BOOLEAN

\* user: the request at work with the connection, Idle when there is none;
\* keeps: does its pool keep it when it is idle; expires: is there a lifetime?
Connection == [by : Handlers, user : Request \cup {Idle},
               keeps : BOOLEAN, expires : BOOLEAN]

Job == [op : Handlers, pc : {"connectRoot", "createDb", "connectManagement", "createOwner", "work"}]

ASSUME NoClash == Free \notin Connection /\ Idle \notin Job \cup Request

VARIABLES
  slot,    \* the server's connections
  req      \* the requests in flight

vars == <<slot, req>>

TypeOK ==
  /\ slot \in [Slot -> Connection \cup {Free}]
  /\ req \in [Request -> Job \cup {Idle}]

Init ==
  /\ slot = [s \in Slot |-> Free]
  /\ req = [r \in Request |-> Idle]

At(r, op, pc) == req[r] = [op |-> op, pc |-> pc]
Goto(r, op, pc) == req' = [req EXCEPT ![r] = [op |-> op, pc |-> pc]]
Return(r) == req' = [req EXCEPT ![r] = Idle]

Using(r, s) == slot[s] # Free /\ slot[s].user = r

(***************************************************************************)
(* makeConn opens a pool and pings; getConn also sets the limits and the   *)
(* lifetime of the cluster.                                                *)
(***************************************************************************)
Connect(r, op, keeps, expires) ==
  \E s \in Slot :
    /\ slot[s] = Free
    /\ slot' = [slot EXCEPT ![s] = [by |-> op, user |-> r,
                                    keeps |-> keeps, expires |-> expires]]

MakeConn(r, op) == Connect(r, op, TRUE, FALSE)   \* database/sql keeps 2 idle ones

GetConnForever(r, op) == Connect(r, op, MaxIdle > 0, FALSE)   \* mutant: no lifetime
GetConn(r, op) == Connect(r, op, MaxIdle > 0, Lifetime)

\* The connections of r once it has closed its pool, or merely done its work.
Closed(r) == [s \in Slot |-> IF Using(r, s) THEN Free ELSE slot[s]]
Left(r) ==
  [s \in Slot |-> IF Using(r, s)
                  THEN IF slot[s].keeps THEN [slot[s] EXCEPT !.user = Idle] ELSE Free
                  ELSE slot[s]]

\* The server is full, or does not answer.
Refused(r, op, pc) ==
  /\ At(r, op, pc)
  /\ Return(r)
  /\ UNCHANGED slot

(***************************************************************************)
(* The handlers.                                                           *)
(***************************************************************************)
Start(r) ==
  /\ req[r] = Idle
  /\ \E op \in Operations :
       Goto(r, op, IF op \in {"cluster", "database"} THEN "connectRoot"
                   ELSE "connectManagement")
  /\ UNCHANGED slot

\* pathClusterUpdate: the pool is closed on return.
ClusterConnects(r) ==
  /\ At(r, "cluster", "connectRoot")
  /\ MakeConn(r, "cluster")
  /\ Goto(r, "cluster", "work")

\* secretCredsCreate, secretCredsRenew, secretCredsRevoke: likewise.
CredsConnects(r) ==
  /\ At(r, "creds", "connectManagement")
  /\ GetConn(r, "creds")
  /\ Goto(r, "creds", "work")

\* The work is done, or fails: either way the deferred Close runs.
CloseNothing(r) ==     \* mutant: no deferred Close
  /\ At(r, "cluster", "work") \/ At(r, "creds", "work")
  /\ slot' = Left(r)
  /\ Return(r)

Close(r) ==
  /\ At(r, "cluster", "work") \/ At(r, "creds", "work")
  /\ slot' = Closed(r)
  /\ Return(r)

\* initializeDb: a root connection, then a management connection; neither pool
\* is closed, however the work ends.
DatabaseConnectsRoot(r) ==
  /\ At(r, "database", "connectRoot")
  /\ GetConn(r, "database")
  /\ Goto(r, "database", "createDb")

CreateDatabase(r) ==
  /\ At(r, "database", "createDb")
  /\ slot' = Left(r)
  /\ Goto(r, "database", "connectManagement") \/ Return(r)

DatabaseConnectsManagement(r) ==
  /\ At(r, "database", "connectManagement")
  /\ GetConn(r, "database")
  /\ Goto(r, "database", "createOwner")

CreateOwner(r) ==
  /\ At(r, "database", "createOwner")
  /\ slot' = Left(r)
  /\ Return(r)

\* pathCloneUpdate: the connection as the management user is closed at once,
\* the pool of the one as root is not.
CloneConnectsManagement(r) ==
  /\ At(r, "clone", "connectManagement")
  /\ \E s \in Slot : slot[s] = Free
  /\ Goto(r, "clone", "connectRoot")
  /\ UNCHANGED slot

CloneConnectsRoot(r) ==
  /\ At(r, "clone", "connectRoot")
  /\ MakeConn(r, "clone")
  /\ Goto(r, "clone", "work")

CloneReturns(r) ==
  /\ At(r, "clone", "work")
  /\ slot' = Left(r)
  /\ Return(r)

(***************************************************************************)
(* Around the handlers.                                                    *)
(***************************************************************************)

\* The lifetime of an idle connection passes.
Expire(s) ==
  /\ slot[s] # Free /\ slot[s].user = Idle /\ slot[s].expires
  /\ slot' = [slot EXCEPT ![s] = Free]
  /\ UNCHANGED req

\* The plugin process ends, and Vault starts another.
Restart ==
  /\ slot' = [s \in Slot |-> Free]
  /\ req' = [r \in Request |-> Idle]

Step(r) ==
  \/ ClusterConnects(r) \/ CredsConnects(r) \/ Close(r)
  \/ DatabaseConnectsRoot(r) \/ CreateDatabase(r) \/ DatabaseConnectsManagement(r)
  \/ CreateOwner(r) \/ CloneConnectsManagement(r) \/ CloneConnectsRoot(r) \/ CloneReturns(r)
  \/ \E op \in Handlers, pc \in {"connectRoot", "connectManagement"} : Refused(r, op, pc)

Next ==
  \/ \E r \in Request : Start(r) \/ Step(r)
  \/ \E s \in Slot : Expire(s)
  \/ Restart

Spec == Init /\ [][Next]_vars

\* Handlers run on, and database/sql closes connections whose time has come.
FairSpec ==
  /\ Spec
  /\ \A r \in Request : WF_vars(Step(r))
  /\ \A s \in Slot : WF_vars(Expire(s))

(***************************************************************************)
(* Properties.                                                             *)
(***************************************************************************)

\* Whichever way handlers end, refused by a full server and cut short
\* included: a connection belongs to the one request that works with it, or
\* is left by initializeDb or a clone.  No credential ever costs a connection.
ConnectionsAccountedFor ==
  \A s \in Slot : slot[s] # Free =>
    IF slot[s].user = Idle
    THEN slot[s].by \in {"database", "clone"}
    ELSE /\ req[slot[s].user] # Idle
         /\ req[slot[s].user].op = slot[s].by
         /\ \A t \in Slot : Using(slot[s].user, t) => t = s

\* What initializeDb leaves is closed by the lifetime that getConn has set.
LeftConnectionsClose ==
  \A s \in Slot :
    slot[s] # Free /\ slot[s].by = "database" /\ slot[s].user = Idle ~> slot[s] = Free

\* docs/cluster.md, max_connection_lifetime: "Maximum time duration to keep an
\* idle connection alive".  It holds for those of getConn, not for those that
\* pathCloneUpdate opens with makeConn alone.
IdleConnectionsClose ==
  \A s \in Slot : (slot[s] # Free /\ slot[s].user = Idle) ~> slot[s] = Free

\* docs/cluster.md, max_open_connections: "Maximum number of connections to
\* create with the database".
WithinMaxOpen ==
  MaxOpen > 0 => Cardinality({s \in Slot : slot[s] # Free}) <= MaxOpen
=============================================================================
