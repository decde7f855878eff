-------------------------------- MODULE Server --------------------------------
(***************************************************************************)
(* Two parts of the server that keep different tables of one project: who  *)
(* may do what (Access) and what the project contains (ProjectVersions).   *)
(* No handler of one reads what a handler of the other writes, except that *)
(* merging the creation of an environment makes the author its first admin *)
(* and deleting an environment or the project deletes its admins: Access   *)
(* starts after the one and ends with the other. So a behaviour of the two *)
(* is followed one part at a time; the other has one state.                *)
(***************************************************************************)
EXTENDS Access, ProjectVersions

VARIABLE followed

vars == <<followed, accessVars, versionVars>>

Init ==
  /\ followed \in {"access", "content"}
  /\ AccessInit
  /\ followed = "content" =>
       members = User /\ \A kind \in Admins : holders[kind] = User
  /\ VersionsInit

AccessRequests ==
  /\ followed = "access" /\ AccessNext
  /\ UNCHANGED <<followed, versionVars>>

ContentRequests ==
  /\ followed = "content" /\ VersionsNext
  /\ UNCHANGED <<followed, accessVars>>

Next == AccessRequests \/ ContentRequests

Spec == Init /\ [][Next]_vars
=============================================================================
