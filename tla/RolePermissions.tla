--------------------------- MODULE RolePermissions ---------------------------
(***************************************************************************)
(* A role is a set of permission atoms. The role editor never shows atoms: *)
(* it shows the capabilities of one target (a project or a Global Values   *)
(* entry), and on save writes the atoms of those capabilities together     *)
(* with the atoms it could not show (lib/role-permissions.ts). The server  *)
(* replaces all of the role's atoms, and decides a request with the rules  *)
(* of middleware/permissions.go.                                           *)
(***************************************************************************)
CONSTANTS Projects, Environments, Groups

NoKey == ""
NoResource == ""  \* of a grant, which is of the project as a whole
Wildcard == "*"

(* The keys are names: neither missing nor the wildcard.                   *)
ASSUME KeysAreNames ==
  {NoKey, Wildcard} \cap (Projects \cup Environments \cup Groups) = {}

Actions == {"read", "write", "create", "delete", "grant"}
ProjectResources == {NoResource, "project", "project_templates", "project_values", "env_values"}
Levels == {"none", "read", "write"}
TemplateActions == {"read", "write", "delete"}

(* Atoms about projects carry key_project, atoms about groups key_name.    *)
Atom ==
  [action : Actions, resource : ProjectResources, project : Projects \cup {Wildcard},
   env : Environments \cup {Wildcard, NoKey}, name : {NoKey}]
  \cup
  [action : Actions, resource : {"global_values"}, project : {NoKey},
   env : {NoKey}, name : Groups \cup {Wildcard}]

MkAtom(action, resource, p, e) ==
  [action |-> action, resource |-> resource, project |-> p, env |-> e, name |-> NoKey]
MkGroupAtom(action, g) ==
  [action |-> action, resource |-> "global_values", project |-> NoKey, env |-> NoKey,
   name |-> g]

-----------------------------------------------------------------------------
(* The server: which requirements a set of atoms meets.                    *)

Requirement ==
  [action : Actions \ {"grant"}, resource : {"project", "project_templates"},
   project : Projects, env : {NoKey}, name : {NoKey}]
  \cup
  [action : Actions \ {"grant"}, resource : {"project_values", "env_values"},
   project : Projects, env : Environments \cup {Wildcard, NoKey}, name : {NoKey}]
  \cup
  [action : {"grant"}, resource : {NoResource}, project : Projects, env : {NoKey}, name : {NoKey}]
  \cup
  [action : Actions, resource : {"global_values"}, project : {NoKey}, env : {NoKey},
   name : Groups]

MatchesKey(granted, required) ==
  required = NoKey \/ (granted # NoKey /\ granted \in {Wildcard, required})

Satisfies(a, r) ==
  /\ MatchesKey(a.project, r.project)
  /\ MatchesKey(a.env, r.env)
  /\ \/ /\ a.resource = r.resource
        /\ a.action = r.action \/ (a.action = "write" /\ r.action = "read")
        /\ MatchesKey(a.name, r.name)
     \/ /\ a.action = "create" /\ a.resource = "env_values"
        /\ r.action \in {"read", "write"} /\ r.resource = "project_values"

Grants(atoms, r) == \E a \in atoms : Satisfies(a, r)

-----------------------------------------------------------------------------
(* Project roles.                                                          *)

Holds(atoms, action, resource, p, e) ==
  \E a \in atoms : /\ a.action = action /\ a.resource = resource
                   /\ a.project = p /\ a.env = e

TemplateCaps(atoms, p) ==
  {t \in TemplateActions :
     \E a \in atoms : a.project = p /\ a.resource = "project_templates" /\ a.action = t}

EnvLevel(atoms, p, e) ==
  IF Holds(atoms, "write", "project_values", p, e) THEN "write"
  ELSE IF Holds(atoms, "read", "project_values", p, e) THEN "read" ELSE "none"

ManagesEnvironments(atoms, p) ==
  \/ Holds(atoms, "delete", "project_values", p, Wildcard)
  \/ Holds(atoms, "create", "env_values", p, Wildcard)

ScopedResource(a) == a.resource \notin {"project_templates", "project_values", "env_values"}

ManagesMembers(atoms, p) ==
  \E a \in atoms : a.project = p /\ a.action = "grant" /\ ScopedResource(a)

ReadsProject(atoms, p) ==
  \E a \in atoms : a.action = "read" /\ a.resource = "project" /\ a.project = p

EmptyProjectCapabilities ==
  [read_project |-> FALSE, templates |-> {}, envLevels |-> [e \in Environments |-> "none"],
   manage_members_roles |-> FALSE, delete_project |-> FALSE, manage_environments |-> FALSE]

ProjectCapabilities(atoms, p) ==
  [read_project |-> ReadsProject(atoms, p),
   templates |-> TemplateCaps(atoms, p),
   envLevels |-> [e \in Environments |-> EnvLevel(atoms, p, e)],
   manage_members_roles |-> ManagesMembers(atoms, p),
   delete_project |->
     \E a \in atoms : a.project = p /\ a.action = "delete" /\ a.resource = "project",
   manage_environments |-> ManagesEnvironments(atoms, p)]

(* Mutant: every atom of the project passes for shown.                     *)
ShownByProject(atoms, p, a) == a.project = p

(* An atom the capabilities of p stand for. A create on one environment is *)
(* implied by the write level of that environment and by nothing else.     *)
Shown(atoms, p, a) ==
  /\ a.project = p
  /\ \/ a.resource = "project_templates" /\ a.action \in TemplateActions
     \/ /\ a.resource = "project_values"
        /\ \/ a.env = Wildcard /\ a.action = "delete"
           \/ a.env \in Environments /\ a.action \in {"read", "write"}
     \/ /\ a.resource = "env_values" /\ a.action = "create"
        /\ \/ a.env = Wildcard
           \/ a.env \in Environments /\ EnvLevel(atoms, p, a.env) = "write"
     \/ a.resource = "project" /\ a.action \in {"read", "delete"}
     \/ ScopedResource(a) /\ a.action = "grant"

ExtraAtoms(atoms, p) == {a \in atoms : ~Shown(atoms, p, a)}

If(condition, atoms) == IF condition THEN atoms ELSE {}

(* Mutant: writing is granted as creating only.                            *)
EnvAtomsOfCreate(level, p, e) ==
  If(level = "write", {MkAtom("create", "env_values", p, e)})
  \cup If(level = "read", {MkAtom("read", "project_values", p, e)})

EnvAtoms(level, p, e) ==
  IF level = "write"
  THEN {MkAtom("write", "project_values", p, e), MkAtom("create", "env_values", p, e)}
  ELSE If(level = "read", {MkAtom("read", "project_values", p, e)})

ProjectAtoms(caps, p) ==
  If(caps.read_project, {MkAtom("read", "project", p, NoKey)})
  \cup {MkAtom(t, "project_templates", p, NoKey) : t \in caps.templates}
  \cup (UNION {EnvAtoms(caps.envLevels[e], p, e) : e \in Environments})
  \cup If(caps.manage_members_roles, {MkAtom("grant", NoResource, p, NoKey)})
  \cup If(caps.delete_project, {MkAtom("delete", "project", p, NoKey)})
  \cup If(caps.manage_environments, {MkAtom("create", "env_values", p, Wildcard),
                                     MkAtom("delete", "project_values", p, Wildcard)})

(* What opening a role on project p and saving it unchanged stores.        *)
SavedOnProject(atoms, p) ==
  ProjectAtoms(ProjectCapabilities(atoms, p), p) \cup ExtraAtoms(atoms, p)

-----------------------------------------------------------------------------
(* Global Values roles.                                                    *)

GvActions == {"read", "write", "delete", "grant"}

(* Mutant: the capabilities are those of all groups.                       *)
GvCapabilitiesOfAny(atoms, g) ==
  {c \in GvActions : \E a \in atoms : a.resource = "global_values" /\ a.action = c}

GvCapabilities(atoms, g) ==
  {c \in GvActions :
     \E a \in atoms : a.resource = "global_values" /\ a.name = g /\ a.action = c}

GvExtraAtoms(atoms, g) ==
  {a \in atoms :
     ~(a.resource = "global_values" /\ a.name = g /\ a.action \in GvActions)}

GvAtoms(caps, g) == {MkGroupAtom(c, g) : c \in caps}

SavedOnGroup(atoms, g) == GvAtoms(GvCapabilities(atoms, g), g) \cup GvExtraAtoms(atoms, g)

-----------------------------------------------------------------------------
NoTarget == [kind |-> "none", key |-> NoKey]
Target ==
  [kind : {"project"}, key : Projects \cup {Wildcard}]
  \cup [kind : {"global-values"}, key : Groups \cup {Wildcard}]

(* The target is inferred from the first atom that names one. A role's     *)
(* atoms come in no particular order here, so any such atom may be first.  *)
InferredTargets(atoms) ==
  LET named == {[kind |-> "project", key |-> a.project] :
                  a \in {b \in atoms : b.project # NoKey}}
               \cup {[kind |-> "global-values", key |-> a.name] :
                  a \in {b \in atoms : b.project = NoKey /\ b.resource = "global_values"
                                                        /\ b.name # NoKey}}
  IN IF named = {} THEN {NoTarget} ELSE named

(* The toggles: write implies read, and read stays on while write is.      *)
Toggle(caps, c) ==
  IF c \in caps THEN caps \ {c}
  ELSE caps \cup {c} \cup (IF c = "write" THEN {"read"} ELSE {})
Toggleable(caps, c) == c = "read" => "write" \notin caps
=============================================================================
