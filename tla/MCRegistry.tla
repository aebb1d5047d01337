----------------------------- MODULE MCRegistry -----------------------------
(***************************************************************************)
(* Small instances of Registry: a primary cluster on the server that       *)
(* exists, and a name for its clone on a server restored from a snapshot.  *)
(***************************************************************************)
EXTENDS Registry, TLC

CONSTANTS Primary, Clone, PrimaryHost, CloneHost

MCCluster == {Primary, Clone}
MCHost == {PrimaryHost, CloneHost}
MCHostOf == Primary :> {PrimaryHost} @@ Clone :> {CloneHost}
=============================================================================
