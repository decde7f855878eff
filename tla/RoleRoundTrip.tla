----------------------------- MODULE RoleRoundTrip -----------------------------
(***************************************************************************)
(* A role that is opened in the editor and saved again, any number of      *)
(* times, without a change: what the atoms, taken apart into capabilities  *)
(* and put together again, still grant.                                    *)
(***************************************************************************)
EXTENDS RolePermissions

CONSTANT SampleAtoms  \* the atoms the role may be made of
ASSUME SamplesAreAtoms == SampleAtoms \subseteq Atom

VARIABLES
  original, \* the atoms before the first save
  atoms     \* the atoms the server has now

roundTripVars == <<original, atoms>>

RoundTripInit ==
  /\ original \in SUBSET SampleAtoms
  /\ atoms = original

SavedOn(t) ==
  IF t.kind = "project" THEN SavedOnProject(atoms, t.key) ELSE SavedOnGroup(atoms, t.key)

(* Without a target there is nothing to take apart.                        *)
ReopenAndSave ==
  /\ \E t \in InferredTargets(atoms) \ {NoTarget} : atoms' = SavedOn(t)
  /\ UNCHANGED original

RoundTripNext == ReopenAndSave

RoundTripSpec == RoundTripInit /\ [][RoundTripNext]_roundTripVars

-----------------------------------------------------------------------------
(* No request the role allowed is refused because the role was looked at   *)
(* and saved: capabilities and extra atoms together stand for all atoms    *)
(* (role-permissions.ts, "preserved verbatim on save").                    *)
SavingKeepsGrants ==
  \A r \in Requirement : Grants(original, r) => Grants(atoms, r)

(* A save may widen a role - a delete on all environments comes back with  *)
(* the create the switch also stands for - but only on the project the     *)
(* dialog shows.                                                           *)
SavingWidensItsProjectOnly ==
  [][\E t \in InferredTargets(atoms) :
       \A r \in Requirement :
         (Grants(atoms', r) /\ ~Grants(atoms, r)) =>
           (t.kind = "project" /\ t.key \in {r.project, Wildcard})]_roundTripVars
=============================================================================
