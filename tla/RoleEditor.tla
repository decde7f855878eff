------------------------------ MODULE RoleEditor ------------------------------
(***************************************************************************)
(* The roles page for one role: the cached list, the editor dialog seeded  *)
(* from the list entry that was on screen when the pencil was clicked, the *)
(* request that replaces all atoms of the role, and another superuser who  *)
(* edits the same role meanwhile.                                          *)
(***************************************************************************)
EXTENDS RolePermissions, Naturals

CONSTANTS
  StoredRoles,   \* the atom sets the role may have been stored with
  Listed,        \* the environments the editor's grid lists
  MaxActs        \* bound: changes made in the dialog and requests sent

ASSUME EditorConstants ==
  StoredRoles \subseteq SUBSET Atom /\ Listed \subseteq Environments /\ MaxActs \in Nat

VARIABLES
  role,      \* the role on the server: exists, atoms
  list,      \* useRoles' entry: loaded, fresh, exists, atoms
  editor,    \* the dialog: open, creates, seed, first, target, caps, gvCaps, extra
  puts,      \* the requests in flight: kind, atoms, and what the dialog showed
  otherDone, \* the other superuser has acted
  acts       \* changes made in the dialog and requests sent

roleVars == <<role, list, editor, puts, otherDone, acts>>

Absent == [exists |-> FALSE, atoms |-> {}]
Role == [exists : BOOLEAN, atoms : SUBSET Atom]

Closed == [open |-> FALSE, creates |-> FALSE, seed |-> {}, first |-> NoTarget,
           target |-> NoTarget, caps |-> EmptyProjectCapabilities, gvCaps |-> {},
           extra |-> {}]
Deletion == [kind |-> "delete", atoms |-> {}, shown |-> Closed, attached |-> FALSE]
SomeRole == {Absent} \cup {[exists |-> TRUE, atoms |-> s] : s \in StoredRoles}

RoleInit ==
  /\ role \in SomeRole
  /\ list = [loaded |-> FALSE, fresh |-> FALSE, of |-> Absent]
  /\ editor = Closed
  /\ puts = {}
  /\ otherDone = FALSE
  /\ acts = 0

(* Another superuser, once: creates, edits or deletes the role.           *)
OtherSuperuser ==
  /\ ~otherDone
  /\ otherDone' = TRUE
  /\ role' \in SomeRole
  /\ UNCHANGED <<list, editor, puts, acts>>

(* The list is fetched on mount, after an invalidation and when it has     *)
(* become stale.                                                           *)
LoadRoles ==
  /\ ~(list.fresh /\ list.of = role)
  /\ list' = [loaded |-> TRUE, fresh |-> TRUE, of |-> role]
  /\ UNCHANGED <<role, editor, puts, otherDone, acts>>

(* The effect that seeds the draft.                                        *)
SetAside(atoms, t) ==
  IF t.kind = "project" THEN ExtraAtoms(atoms, t.key)
  ELSE IF t.kind = "global-values" THEN GvExtraAtoms(atoms, t.key) ELSE atoms

Seeded(atoms, t, creates) ==
  [Closed EXCEPT
     !.open = TRUE, !.creates = creates, !.seed = atoms, !.first = t, !.target = t,
     !.caps = IF t.kind = "project" THEN ProjectCapabilities(atoms, t.key)
              ELSE EmptyProjectCapabilities,
     !.gvCaps = IF t.kind = "global-values" THEN GvCapabilities(atoms, t.key) ELSE {},
     !.extra = SetAside(atoms, t)]

OpenEditor ==
  /\ ~editor.open /\ list.loaded /\ list.of.exists
  /\ \E t \in InferredTargets(list.of.atoms) : editor' = Seeded(list.of.atoms, t, FALSE)
  /\ UNCHANGED <<role, list, puts, otherDone, acts>>

OpenCreate ==
  /\ ~editor.open /\ list.loaded
  /\ editor' = Seeded({}, NoTarget, TRUE)
  /\ UNCHANGED <<role, list, puts, otherDone, acts>>

Act == acts < MaxActs /\ acts' = acts + 1

Edit(next) ==
  /\ editor.open /\ next # editor
  /\ editor' = next
  /\ Act
  /\ UNCHANGED <<role, list, puts, otherDone>>

(* Changing "Applies to" keeps the capabilities and the extra atoms.       *)
SelectTarget ==
  \E t \in [kind : {"project"}, key : Projects]
           \cup [kind : {"global-values"}, key : Groups] :
    Edit([editor EXCEPT !.target = t])

EditProjectCaps(caps) ==
  /\ editor.target.kind = "project"
  /\ Edit([editor EXCEPT !.caps = caps])

ToggleReadProject ==
  EditProjectCaps(IF editor.caps.read_project THEN EmptyProjectCapabilities
                  ELSE [editor.caps EXCEPT !.read_project = TRUE])

ToggleTemplate ==
  \E t \in TemplateActions :
    /\ editor.caps.read_project /\ Toggleable(editor.caps.templates, t)
    /\ EditProjectCaps([editor.caps EXCEPT !.templates = Toggle(@, t)])

SelectEnvLevel ==
  \E e \in Listed, level \in Levels :
    /\ editor.caps.read_project
    /\ EditProjectCaps([editor.caps EXCEPT !.envLevels[e] = level])

ToggleProjectCap ==
  /\ editor.caps.read_project
  /\ \E cap \in {"manage_environments", "manage_members_roles", "delete_project"} :
       EditProjectCaps([editor.caps EXCEPT ![cap] = ~@])

ToggleGvCap ==
  /\ editor.target.kind = "global-values"
  /\ \E c \in GvActions : /\ Toggleable(editor.gvCaps, c)
                          /\ Edit([editor EXCEPT !.gvCaps = Toggle(@, c)])

(* Mutant: the atoms the dialog cannot show are dropped.                   *)
BuildShownPermissions ==
  CASE editor.target.kind = "project" -> ProjectAtoms(editor.caps, editor.target.key)
    [] editor.target.kind = "global-values" -> GvAtoms(editor.gvCaps, editor.target.key)
    [] OTHER -> {}

BuildPermissions ==
  (CASE editor.target.kind = "project" -> ProjectAtoms(editor.caps, editor.target.key)
     [] editor.target.kind = "global-values" -> GvAtoms(editor.gvCaps, editor.target.key)
     [] OTHER -> {})
  \cup editor.extra

(* A request keeps the Save button of the dialog that sent it disabled.    *)
Saving(creates) == \E q \in puts : q.attached /\ q.kind = IF creates THEN "create" ELSE "edit"

Save ==
  /\ editor.open /\ ~Saving(editor.creates)
  /\ puts' = puts \cup {[kind |-> IF editor.creates THEN "create" ELSE "edit",
                         atoms |-> BuildPermissions, shown |-> editor, attached |-> TRUE]}
  /\ Act
  /\ UNCHANGED <<role, list, editor, otherDone>>

(* Escape and the overlay close the dialog, a request in flight or not.    *)
(* The dialog of an edit is unmounted with its pending state and its       *)
(* callbacks, so that the next one can save at once; that of a creation    *)
(* stays mounted.                                                          *)
Dismiss ==
  /\ editor.open
  /\ editor' = Closed
  /\ puts' = {[q EXCEPT !.attached = @ /\ q.kind = "create"] : q \in puts}
  /\ UNCHANGED <<role, list, otherDone, acts>>

DeleteRole ==
  /\ ~editor.open /\ list.loaded /\ list.of.exists /\ Deletion \notin puts
  /\ puts' = puts \cup {Deletion}
  /\ Act
  /\ UNCHANGED <<role, list, editor, otherDone>>

(* The server replaces every atom; a created name must be free, an edited  *)
(* or deleted role must still be there.                                    *)
Accepts(q) == IF q.kind = "create" THEN ~role.exists ELSE role.exists
Stored(q) == IF q.kind = "delete" THEN Absent ELSE [exists |-> TRUE, atoms |-> q.atoms]

(* Requests are answered in any order. Success invalidates the list and    *)
(* closes the dialog that sent the request if it is still open.            *)
RequestSucceeds ==
  \E q \in puts :
    /\ Accepts(q)
    /\ role' = Stored(q)
    /\ list' = [list EXCEPT !.fresh = FALSE]
    /\ editor' = IF q.attached /\ editor.creates = (q.kind = "create")
                 THEN Closed ELSE editor
    /\ puts' = puts \ {q}
    /\ UNCHANGED <<otherDone, acts>>

(* The request is refused or lost, or its answer is.                       *)
RequestFails ==
  \E q \in puts :
    /\ role' \in {role} \cup (IF Accepts(q) THEN {Stored(q)} ELSE {})
    /\ puts' = puts \ {q}
    /\ UNCHANGED <<list, editor, otherDone, acts>>

RoleNext ==
  \/ OtherSuperuser \/ LoadRoles \/ OpenEditor \/ OpenCreate
  \/ SelectTarget \/ ToggleReadProject \/ ToggleTemplate \/ SelectEnvLevel
  \/ ToggleProjectCap \/ ToggleGvCap
  \/ Save \/ Dismiss \/ DeleteRole \/ RequestSucceeds \/ RequestFails

RoleSpec == RoleInit /\ [][RoleNext]_roleVars

-----------------------------------------------------------------------------
(* A request that replaces the role's atoms carries every atom of other    *)
(* scopes the dialog was seeded with, however its target and capabilities  *)
(* were changed: "any atoms targeting other scopes are preserved           *)
(* untouched" (role-editor-dialog.tsx).                                    *)
OnScope(a, t) ==
  IF t.kind = "project" THEN a.project = t.key
  ELSE t.kind = "global-values" /\ a.resource = "global_values" /\ a.name = t.key

OtherScopesSurvive ==
  \A q \in puts : q.kind = "edit" =>
    {a \in q.shown.seed : ~OnScope(a, q.shown.first)} \subseteq q.atoms

(* Reopened after the save, the editor shows what it showed when Save was  *)
(* pressed: what goes out as atoms comes back as the same capabilities.    *)
SavedRoleReopensAsShown ==
  \A q \in puts :
    (q.kind \in {"create", "edit"} /\ q.shown.first \in {NoTarget, q.shown.target}) =>
      LET t == q.shown.target
      IN /\ t.kind = "project" => ProjectCapabilities(q.atoms, t.key) = q.shown.caps
         /\ t.kind = "global-values" => GvCapabilities(q.atoms, t.key) = q.shown.gvCaps
=============================================================================
