-------------------------- MODULE ConnPoolsProofs --------------------------
(***************************************************************************)
(* Whose the connections are, for any number of requests and any server.   *)
(***************************************************************************)
EXTENDS ConnPools, TLAPS

Connecting == {"connectRoot", "connectManagement"}

\* A request that has yet to connect has no connection.
IInv ==
  /\ TypeOK
  /\ ConnectionsAccountedFor
  /\ \A s \in Slot, r \in Request :
       Using(r, s) /\ req[r] # Idle => req[r].pc \notin Connecting

LEMMA Kept ==
  ASSUME IInv, NEW r \in Request, slot' = Left(r), NEW s \in Slot
  PROVE  /\ slot'[s] \in Connection \cup {Free}
         /\ ~Using(r, s) => slot'[s] = slot[s]
         /\ Using(r, s) /\ slot'[s] # Free => slot'[s].user = Idle /\ slot'[s].by = slot[s].by
<1>1. slot'[s] = IF Using(r, s)
                 THEN IF slot[s].keeps THEN [slot[s] EXCEPT !.user = Idle] ELSE Free
                 ELSE slot[s]
  BY DEF Left
<1>2. slot[s] \in Connection \cup {Free}
  BY DEF IInv, TypeOK
<1>3. QED
  BY <1>1, <1>2 DEF Connection, Using

\* A request connects: it had no connection, and now has one.
LEMMA ConnectStep ==
  ASSUME IInv, NEW r \in Request, NEW op \in Handlers, NEW pc \in Connecting,
         NEW pc2 \in {"createDb", "createOwner", "work"},
         NEW keeps \in BOOLEAN, NEW expires \in BOOLEAN,
         At(r, op, pc), Connect(r, op, keeps, expires), Goto(r, op, pc2)
  PROVE  IInv'
<1>1. PICK s \in Slot :
        /\ slot[s] = Free
        /\ slot' = [slot EXCEPT ![s] = [by |-> op, user |-> r,
                                        keeps |-> keeps, expires |-> expires]]
  BY DEF Connect
<1>2. [by |-> op, user |-> r, keeps |-> keeps, expires |-> expires] \in Connection
  BY DEF Connection
<1>3. [op |-> op, pc |-> pc2] \in Job /\ [op |-> op, pc |-> pc2] # Idle
  BY NoClash DEF Job
<1>4. TypeOK'
  BY <1>1, <1>2, <1>3 DEF IInv, TypeOK, Goto
<1>5. req'[r] = [op |-> op, pc |-> pc2] /\ \A q \in Request : q # r => req'[q] = req[q]
  BY DEF IInv, TypeOK, Goto
<1>6. /\ slot'[s] # Free /\ slot'[s].user = r /\ slot'[s].by = op
      /\ \A t \in Slot : t # s => slot'[t] = slot[t]
  BY <1>1, <1>2, NoClash DEF IInv, TypeOK
<1>7. req[r] # Idle /\ req[r].pc = pc
  BY NoClash DEF At, Connecting, Job
<1>8. \A t \in Slot : ~Using(r, t)
  BY <1>7 DEF IInv
<1>9. r # Idle
  BY NoClash
<1>10. \A q \in Request, t \in Slot : Using(q, t)' <=> (Using(q, t) \/ (q = r /\ t = s))
  BY <1>1, <1>6, <1>8 DEF Using
<1>11. ConnectionsAccountedFor'
  <2> SUFFICES ASSUME NEW t \in Slot, slot'[t] # Free
               PROVE  IF slot'[t].user = Idle
                      THEN slot'[t].by \in {"database", "clone"}
                      ELSE /\ req'[slot'[t].user] # Idle
                           /\ req'[slot'[t].user].op = slot'[t].by
                           /\ \A v \in Slot : Using(slot[t].user, v)' => v = t
    BY DEF ConnectionsAccountedFor
  <2>1. CASE t = s
    BY <1>3, <1>5, <1>6, <1>8, <1>9, <1>10, <2>1 DEF Using
  <2>2. CASE t # s
    <3>1. slot'[t] = slot[t] /\ slot[t] \in Connection
      BY <1>6, <2>2 DEF IInv, TypeOK
    <3>2. CASE slot[t].user = Idle
      BY <3>1, <3>2 DEF IInv, ConnectionsAccountedFor
    <3>3. CASE slot[t].user # Idle
      <4>1. slot[t].user \in Request /\ Using(slot[t].user, t)
        BY <3>1, <3>3, NoClash DEF Connection, Using
      <4>2. slot[t].user # r
        BY <1>8, <4>1
      <4>3. QED
        BY <1>5, <1>10, <3>1, <3>3, <4>1, <4>2 DEF IInv, ConnectionsAccountedFor, Using
    <3>4. QED
      BY <3>2, <3>3
  <2>3. QED
    BY <2>1, <2>2
<1>12. QED
  BY <1>4, <1>5, <1>10, <1>11 DEF IInv, Connecting

\* A request is done with its connection: the connection is closed, or left
\* idle if a registration or a clone has opened it.
Released(r, op) ==
  /\ slot' \in [Slot -> Connection \cup {Free}]
  /\ \A s \in Slot :
       IF Using(r, s)
       THEN \/ slot'[s] = Free
            \/ /\ slot'[s].user = Idle /\ slot'[s].by = op
               /\ op \in {"database", "clone"}
       ELSE slot'[s] = slot[s]

LEMMA ReleaseStep ==
  ASSUME IInv, NEW r \in Request, NEW op \in Handlers, req[r] # Idle, req[r].op = op,
         Released(r, op), Return(r) \/ Goto(r, op, "connectManagement")
  PROVE  IInv'
<1>1. [op |-> op, pc |-> "connectManagement"] \in Job
  BY DEF Job
<1>2. TypeOK'
  BY <1>1 DEF IInv, TypeOK, Released, Return, Goto
<1>3. \A q \in Request : q # r => req'[q] = req[q]
  BY DEF IInv, TypeOK, Return, Goto
<1>4. ASSUME NEW t \in Slot, slot'[t] # Free, slot'[t].user # Idle
      PROVE  /\ slot'[t] = slot[t] /\ slot[t].user \in Request
             /\ slot[t].user # r
  <2>1. slot'[t] = slot[t] /\ ~Using(r, t)
    BY <1>4 DEF Released
  <2>2. slot[t] \in Connection
    BY <1>4, <2>1 DEF IInv, TypeOK
  <2>3. QED
    BY <1>4, <2>1, <2>2 DEF Connection, Using
<1>5. ConnectionsAccountedFor'
  <2> SUFFICES ASSUME NEW t \in Slot, slot'[t] # Free
               PROVE  IF slot'[t].user = Idle
                      THEN slot'[t].by \in {"database", "clone"}
                      ELSE /\ req'[slot'[t].user] # Idle
                           /\ req'[slot'[t].user].op = slot'[t].by
                           /\ \A v \in Slot : slot'[v] # Free /\ slot'[v].user = slot'[t].user => v = t
    BY DEF ConnectionsAccountedFor, Using
  <2>1. CASE slot'[t].user = Idle
    BY <2>1 DEF Released, IInv, ConnectionsAccountedFor
  <2>2. CASE slot'[t].user # Idle
    <3>1. /\ slot'[t] = slot[t] /\ slot[t].user \in Request /\ slot[t].user # r
      BY <1>4, <2>2
    <3>2. /\ req[slot[t].user] # Idle /\ req[slot[t].user].op = slot[t].by
          /\ \A v \in Slot : Using(slot[t].user, v) => v = t
      BY <2>2, <3>1 DEF IInv, ConnectionsAccountedFor
    <3>3. ASSUME NEW v \in Slot, slot'[v] # Free, slot'[v].user = slot[t].user
          PROVE  v = t
      <4>1. slot'[v] = slot[v]
        BY <1>4, <2>2, <3>1, <3>3
      <4>2. QED
        BY <3>2, <3>3, <4>1 DEF Using
    <3>4. QED
      BY <1>3, <2>2, <3>1, <3>2, <3>3 DEF Using
  <2>3. QED
    BY <2>1, <2>2
<1>6. ASSUME NEW s \in Slot, NEW q \in Request, slot'[s] # Free, slot'[s].user = q, req'[q] # Idle
      PROVE  req'[q].pc \notin Connecting
  <2>1. q # Idle
    BY NoClash
  <2>2. slot'[s] = slot[s] /\ q # r
    BY <1>4, <1>6, <2>1
  <2>3. QED
    BY <1>3, <1>6, <2>2 DEF IInv, Using
<1>7. QED
  BY <1>2, <1>5, <1>6 DEF IInv, Using

LEMMA LeftReleases ==
  ASSUME IInv, NEW r \in Request, NEW op \in {"database", "clone"},
         req[r] # Idle, req[r].op = op, slot' = Left(r)
  PROVE  Released(r, op)
<1>1. ASSUME NEW s \in Slot
      PROVE  IF Using(r, s) THEN slot[s] \in Connection /\ slot[s].by = op
             ELSE slot[s] \in Connection \cup {Free}
  <2>1. r # Idle
    BY NoClash
  <2>2. QED
    BY <2>1 DEF IInv, TypeOK, ConnectionsAccountedFor, Using
<1>2. \A s \in Slot : slot'[s] \in Connection \cup {Free}
  BY Kept
<1>3. slot' \in [Slot -> Connection \cup {Free}]
  BY <1>2 DEF Left
<1>4. ASSUME NEW s \in Slot
      PROVE  IF Using(r, s)
             THEN slot'[s] = Free \/ (slot'[s].user = Idle /\ slot'[s].by = op)
             ELSE slot'[s] = slot[s]
  BY <1>1, Kept
<1>5. QED
  BY <1>3, <1>4 DEF Released

LEMMA ClosedReleases ==
  ASSUME IInv, NEW r \in Request, NEW op \in Handlers, slot' = Closed(r)
  PROVE  Released(r, op)
BY DEF IInv, TypeOK, Closed, Released

LEMMA Invariance == Spec => []IInv
<1>1. Init => IInv
  BY DEF Init, IInv, TypeOK, ConnectionsAccountedFor, Using
<1>2. IInv /\ [Next]_vars => IInv'
  <2> SUFFICES ASSUME IInv, [Next]_vars PROVE IInv'
    OBVIOUS
  <2>1. ASSUME NEW r \in Request, Start(r) PROVE IInv'
    <3>1. PICK op \in Operations :
            Goto(r, op, IF op \in {"cluster", "database"} THEN "connectRoot"
                        ELSE "connectManagement")
      BY <2>1 DEF Start
    <3>2. op \in Handlers
      BY ConstantsOK
    <3>3. req[r] = Idle /\ UNCHANGED slot
      BY <2>1 DEF Start
    <3>4. TypeOK'
      BY <3>1, <3>2, <3>3 DEF IInv, TypeOK, Goto, Job
    <3>5. \A q \in Request : q # r => req'[q] = req[q]
      BY <3>1 DEF IInv, TypeOK, Goto
    <3>6. \A s \in Slot : ~Using(r, s)
      BY <3>3, NoClash DEF IInv, ConnectionsAccountedFor, Using
    <3>7. ConnectionsAccountedFor'
      <4>1. \A s \in Slot : slot[s] # Free /\ slot[s].user # Idle =>
               slot[s].user \in Request /\ slot[s].user # r
        BY <3>6 DEF IInv, TypeOK, Connection, Using
      <4>2. QED
        BY <3>3, <3>5, <4>1 DEF IInv, ConnectionsAccountedFor, Using
    <3>8. QED
      BY <3>3, <3>4, <3>5, <3>6, <3>7 DEF IInv, Using
  <2>2. ASSUME NEW r \in Request, Step(r) PROVE IInv'
    <3> USE DEF Handlers, Connecting
    <3>1. CASE ClusterConnects(r)
      BY <3>1, ConnectStep DEF ClusterConnects, MakeConn
    <3>2. CASE CredsConnects(r)
      <4>1. /\ At(r, "creds", "connectManagement") /\ Goto(r, "creds", "work")
            /\ Connect(r, "creds", MaxIdle > 0, Lifetime)
        BY <3>2 DEF CredsConnects, GetConn
      <4>2. (MaxIdle > 0) \in BOOLEAN /\ Lifetime \in BOOLEAN
        BY ConstantsOK
      <4>3. QED
        BY <4>1, <4>2, ConnectStep
    <3>3. CASE DatabaseConnectsRoot(r)
      <4>1. /\ At(r, "database", "connectRoot") /\ Goto(r, "database", "createDb")
            /\ Connect(r, "database", MaxIdle > 0, Lifetime)
        BY <3>3 DEF DatabaseConnectsRoot, GetConn
      <4>2. (MaxIdle > 0) \in BOOLEAN /\ Lifetime \in BOOLEAN
        BY ConstantsOK
      <4>3. QED
        BY <4>1, <4>2, ConnectStep
    <3>4. CASE DatabaseConnectsManagement(r)
      <4>1. /\ At(r, "database", "connectManagement") /\ Goto(r, "database", "createOwner")
            /\ Connect(r, "database", MaxIdle > 0, Lifetime)
        BY <3>4 DEF DatabaseConnectsManagement, GetConn
      <4>2. (MaxIdle > 0) \in BOOLEAN /\ Lifetime \in BOOLEAN
        BY ConstantsOK
      <4>3. QED
        BY <4>1, <4>2, ConnectStep
    <3>5. CASE CloneConnectsRoot(r)
      BY <3>5, ConnectStep DEF CloneConnectsRoot, MakeConn
    <3>6. CASE Close(r)
      <4>1. PICK op \in {"cluster", "creds"} : At(r, op, "work")
        BY <3>6 DEF Close
      <4>2. req[r] # Idle /\ req[r].op = op
        BY <4>1, NoClash DEF At, Job
      <4>3. QED
        BY <3>6, <4>2, ClosedReleases, ReleaseStep DEF Close
    <3>7. CASE CreateDatabase(r) \/ CreateOwner(r)
      <4>1. req[r] # Idle /\ req[r].op = "database" /\ slot' = Left(r)
        BY <3>7, NoClash DEF CreateDatabase, CreateOwner, At, Job
      <4>2. Return(r) \/ Goto(r, "database", "connectManagement")
        BY <3>7 DEF CreateDatabase, CreateOwner
      <4>3. QED
        BY <4>1, <4>2, LeftReleases, ReleaseStep
    <3>8. CASE CloneReturns(r)
      <4>1. req[r] # Idle /\ req[r].op = "clone" /\ slot' = Left(r)
        BY <3>8, NoClash DEF CloneReturns, At, Job
      <4>2. QED
        BY <3>8, <4>1, LeftReleases, ReleaseStep DEF CloneReturns
    <3>9. ASSUME UNCHANGED slot, NEW op \in Handlers, NEW pc \in Connecting, At(r, op, pc),
                 Return(r) \/ Goto(r, op, "connectRoot")
          PROVE  IInv'
      <4>1. TypeOK' /\ \A q \in Request : q # r => req'[q] = req[q]
        BY <3>9 DEF IInv, TypeOK, Return, Goto, Job
      <4>2. req[r] # Idle /\ req[r].pc \in Connecting
        BY <3>9, NoClash DEF At, Job
      <4>3. \A s \in Slot : ~Using(r, s)
        BY <4>2 DEF IInv
      <4>4. \A s \in Slot : slot[s] # Free /\ slot[s].user # Idle =>
               slot[s].user \in Request /\ slot[s].user # r
        BY <4>3 DEF IInv, TypeOK, Connection, Using
      <4>5. ConnectionsAccountedFor'
        BY <3>9, <4>1, <4>4 DEF IInv, ConnectionsAccountedFor, Using
      <4>6. QED
        BY <3>9, <4>1, <4>3, <4>5 DEF IInv, Using
    <3>10. CASE CloneConnectsManagement(r)
      BY <3>9, <3>10 DEF CloneConnectsManagement
    <3>11. CASE \E op \in Handlers, pc \in {"connectRoot", "connectManagement"} : Refused(r, op, pc)
      BY <3>9, <3>11 DEF Refused
    <3>12. QED
      BY <2>2, <3>1, <3>2, <3>3, <3>4, <3>5, <3>6, <3>7, <3>8, <3>10, <3>11 DEF Step
  <2>3. ASSUME NEW s \in Slot, Expire(s) PROVE IInv'
    <3>1. /\ slot' = [slot EXCEPT ![s] = Free] /\ UNCHANGED req
      BY <2>3 DEF Expire
    <3>2. TypeOK' /\ \A t \in Slot : slot'[t] # Free => slot'[t] = slot[t] /\ slot[t] # Free
      BY <3>1 DEF IInv, TypeOK
    <3>3. QED
      BY <3>1, <3>2 DEF IInv, ConnectionsAccountedFor, Using
  <2>4. CASE Restart
    BY <2>4 DEF Restart, IInv, TypeOK, ConnectionsAccountedFor, Using
  <2>5. CASE UNCHANGED vars
    BY <2>5 DEF vars, IInv, TypeOK, ConnectionsAccountedFor, Using
  <2>6. QED
    BY <2>1, <2>2, <2>3, <2>4, <2>5 DEF Next
<1>3. QED
  BY <1>1, <1>2, PTL DEF Spec

\* For any number of slots and requests, with refused connections, failures and
\* restarts: what is connected and not at work was left by initializeDb or
\* pathCloneUpdate, never by a handler that closes its pool.
THEOREM AccountedFor == Spec => []ConnectionsAccountedFor
<1>1. IInv => ConnectionsAccountedFor
  BY DEF IInv
<1>2. QED
  BY <1>1, Invariance, PTL
=============================================================================
