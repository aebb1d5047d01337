----------------------------- MODULE Lifecycle -----------------------------
(***************************************************************************)
(* What the configuration API promises about clusters and their databases, *)
(* with every request taken as one step: the statuses a name goes through  *)
(* and which transition is allowed when.  Registry.tla is the detailed     *)
(* specification, one step per storage or Postgres call; it implements     *)
(* this one as long as requests are not concurrent.                        *)
(***************************************************************************)
CONSTANTS
  Cluster,      \* cluster names
  Database      \* database names, each used inside every cluster

VARIABLES
  clusterStatus,   \* Cluster -> Status
  dbStatus         \* Cluster -> Database -> Status

vars == <<clusterStatus, dbStatus>>

Status == {"absent", "active", "deleted"}

TypeOK ==
  /\ clusterStatus \in [Cluster -> Status]
  /\ dbStatus \in [Cluster -> [Database -> Status]]

Init ==
  /\ clusterStatus = [c \in Cluster |-> "absent"]
  /\ dbStatus = [c \in Cluster |-> [d \in Database |-> "absent"]]

SetCluster(c, s) == clusterStatus' = [clusterStatus EXCEPT ![c] = s]
SetDatabase(c, d, s) == dbStatus' = [dbStatus EXCEPT ![c][d] = s]

\* A new name, registered or cloned.
RegisterCluster(c) ==
  /\ clusterStatus[c] = "absent"
  /\ SetCluster(c, "active")
  /\ UNCHANGED dbStatus

\* A database enters an active cluster, active (registered, or copied by a
\* clone) or already deleted (copied by a clone that inherits those too).
AddDatabase(c, d) ==
  /\ clusterStatus[c] = "active"
  /\ dbStatus[c][d] = "absent"
  /\ \E s \in {"active", "deleted"} : SetDatabase(c, d, s)
  /\ UNCHANGED clusterStatus

\* A database is deleted, by itself or on behalf of its cluster.
DeleteDatabase(c, d) ==
  /\ clusterStatus[c] = "active"
  /\ dbStatus[c][d] = "active"
  /\ SetDatabase(c, d, "deleted")
  /\ UNCHANGED clusterStatus

\* The deletion of a cluster takes effect once no database in it is active.
DeleteCluster(c) ==
  /\ clusterStatus[c] = "active"
  /\ \A d \in Database : dbStatus[c][d] # "active"
  /\ SetCluster(c, "deleted")
  /\ UNCHANGED dbStatus

\* Only what is marked as deleted is purged.
PurgeDatabase(c, d) ==
  /\ dbStatus[c][d] = "deleted"
  /\ SetDatabase(c, d, "absent")
  /\ UNCHANGED clusterStatus

\* The name of a cluster is released after the names of its databases.
PurgeCluster(c) ==
  /\ clusterStatus[c] = "deleted"
  /\ \A d \in Database : dbStatus[c][d] = "absent"
  /\ SetCluster(c, "absent")
  /\ UNCHANGED dbStatus

Next ==
  \E c \in Cluster :
    \/ RegisterCluster(c) \/ DeleteCluster(c) \/ PurgeCluster(c)
    \/ \E d \in Database :
         AddDatabase(c, d) \/ DeleteDatabase(c, d) \/ PurgeDatabase(c, d)

Spec == Init /\ [][Next]_vars
=============================================================================
