--------------------------- MODULE MemberPermissions ---------------------------
(***************************************************************************)
(* A project admin sets what one member may do: the form is seeded from    *)
(* the permissions on the server, again whenever a refetch brings others,  *)
(* shows one level per environment of another query's list, and on save    *)
(* replaces everything the member has been granted.                        *)
(***************************************************************************)
EXTENDS RolePermissions, Naturals

CONSTANT MaxEdits  \* bound: changes in the form, and by another admin
ASSUME MaxEdits \in Nat

VARIABLES
  granted,    \* the server: template capabilities and the level per environment
  envRows,    \* the environments the page knows; the form waits for both queries
  permsForm,  \* what the form was seeded from, what it holds, what was touched
  permsPut,   \* the request in flight
  permsEdits

permsVars == <<granted, envRows, permsForm, permsPut, permsEdits>>

NoAccess == [templates |-> {}, levels |-> [e \in Environments |-> "none"]]
NoPut == [sent |-> FALSE, access |-> NoAccess, seed |-> NoAccess, touched |-> {}]

PermsInit ==
  /\ granted = NoAccess
  /\ envRows \in SUBSET Environments
  /\ permsForm = [loaded |-> FALSE, seed |-> NoAccess, access |-> NoAccess, touched |-> {}]
  /\ permsPut = NoPut
  /\ permsEdits = 0

PermsEdit == permsEdits < MaxEdits /\ permsEdits' = permsEdits + 1

AnotherAdmin ==
  /\ PermsEdit
  /\ \E e \in Environments, level \in Levels :
       granted' = [granted EXCEPT !.levels[e] = level]
  /\ UNCHANGED <<envRows, permsForm, permsPut>>

LoadEnvironments ==
  /\ \E envs \in SUBSET Environments :
       envRows \subseteq envs /\ envs # envRows /\ envRows' = envs
  /\ UNCHANGED <<granted, permsForm, permsPut, permsEdits>>

Seeding(access) == [loaded |-> TRUE, seed |-> access, access |-> access, touched |-> {}]

(* Mutant: the form is seeded once, later answers only replace the query.  *)
SeedOnce(access) == IF permsForm.loaded THEN [permsForm EXCEPT !.seed = access]
                    ELSE Seeding(access)

(* The effect on the query's data, which is the same object while the      *)
(* answers are equal.                                                      *)
SeedForm(access) ==
  IF permsForm.loaded /\ access = permsForm.seed THEN permsForm ELSE Seeding(access)

LoadPermissions ==
  /\ ~permsForm.loaded \/ permsForm.seed # granted
  /\ permsForm' = SeedForm(granted)
  /\ UNCHANGED <<granted, envRows, permsPut, permsEdits>>

FormShown == permsForm.loaded

SetTemplate ==
  /\ FormShown /\ PermsEdit
  /\ \E t \in TemplateActions :
       /\ Toggleable(permsForm.access.templates, t)
       /\ permsForm' = [permsForm EXCEPT !.access.templates = Toggle(@, t)]
  /\ UNCHANGED <<granted, envRows, permsPut>>

SetLevel ==
  /\ FormShown /\ PermsEdit
  /\ \E e \in envRows, level \in Levels :
       permsForm' = [permsForm EXCEPT !.access.levels[e] = level, !.touched = @ \cup {e}]
  /\ UNCHANGED <<granted, envRows, permsPut>>

(* Environments the page does not know are not in the request.             *)
Payload ==
  [permsForm.access EXCEPT
     !.levels = [e \in Environments |-> IF e \in envRows THEN @[e] ELSE "none"]]

SavePermissions ==
  /\ FormShown /\ ~permsPut.sent
  /\ permsPut' = [sent |-> TRUE, access |-> Payload, seed |-> permsForm.seed,
                  touched |-> permsForm.touched \cup (Environments \ envRows)]
  /\ UNCHANGED <<granted, envRows, permsForm, permsEdits>>

(* Success leaves the page; it is opened again from the member list, and   *)
(* seeded at once from the permissions the cache still has.                *)
SavePermissionsSucceeds ==
  /\ permsPut.sent
  /\ granted' = permsPut.access
  /\ permsForm' = Seeding(permsForm.seed)
  /\ permsPut' = NoPut
  /\ UNCHANGED <<envRows, permsEdits>>

SavePermissionsFails ==
  /\ permsPut.sent
  /\ granted' \in {granted, permsPut.access}
  /\ permsPut' = NoPut
  /\ UNCHANGED <<envRows, permsForm, permsEdits>>

CancelPermissions ==
  /\ permsForm.touched # {} /\ ~permsPut.sent
  /\ permsForm' = Seeding(permsForm.seed)
  /\ UNCHANGED <<granted, envRows, permsPut, permsEdits>>

PermsNext ==
  \/ AnotherAdmin \/ LoadEnvironments \/ LoadPermissions \/ SetTemplate \/ SetLevel
  \/ SavePermissions \/ SavePermissionsSucceeds \/ SavePermissionsFails \/ CancelPermissions

PermsSpec == PermsInit /\ [][PermsNext]_permsVars

-----------------------------------------------------------------------------
(* Saving replaces every grant, so it also writes the levels nobody        *)
(* touched: those are the ones of the last answer the page received, not   *)
(* of an earlier one. (An environment missing from the page's list loses   *)
(* its level.)                                                             *)
UntouchedLevelsAreLatestKnown ==
  permsPut.sent =>
    \A e \in Environments \ permsPut.touched :
      permsPut.access.levels[e] = permsPut.seed.levels[e]
=============================================================================
