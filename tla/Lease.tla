------------------------------- MODULE Lease -------------------------------
(***************************************************************************)
(* What a lease promises about the login behind it, each event one step:   *)
(* a login is leased only while it exists, the lease lasts until the login *)
(* has been dropped, and a dropped login never returns.  Creds.tla is the  *)
(* detailed specification; it implements this one as long as requests are  *)
(* not concurrent.                                                         *)
(***************************************************************************)
CONSTANT User

VARIABLES
  login,   \* User -> {"none", "live", "dropped"}: on the server
  held     \* the users Vault keeps a lease of

vars == <<login, held>>

Init ==
  /\ login = [u \in User |-> "none"]
  /\ held = {}

Issue(u) ==
  /\ login[u] = "none"
  /\ login' = [login EXCEPT ![u] = "live"]
  /\ UNCHANGED held

Hold(u) ==
  /\ login[u] = "live" /\ u \notin held
  /\ held' = held \cup {u}
  /\ UNCHANGED login

Drop(u) ==
  /\ login[u] = "live"
  /\ login' = [login EXCEPT ![u] = "dropped"]
  /\ UNCHANGED held

End(u) ==
  /\ login[u] = "dropped" /\ u \in held
  /\ held' = held \ {u}
  /\ UNCHANGED login

Next == \E u \in User : Issue(u) \/ Hold(u) \/ Drop(u) \/ End(u)

Spec == Init /\ [][Next]_vars
=============================================================================
