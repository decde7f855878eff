------------------------------ MODULE RoleProofs ------------------------------
(***************************************************************************)
(* The roles of the frontend, for any number of projects, environments and *)
(* groups. First what taking a role apart into capabilities and putting it *)
(* together again does to every role; then what that makes of a role that  *)
(* is reopened and saved any number of times; last what the role editor    *)
(* sends, for every sequence of changes in the dialog, answers and edits   *)
(* of other superusers.                                                    *)
(***************************************************************************)
EXTENDS RoleEditor, RoleRoundTrip, TLAPS

-----------------------------------------------------------------------------
(* The fields of atoms and requirements.                                   *)

ProjectKey == Projects \cup {Wildcard}
GroupKey == Groups \cup {Wildcard}

LEMMA NoResourceIsNone ==
  NoResource \notin {"project", "project_templates", "project_values", "env_values",
                    "global_values"}
  BY Zenon DEF NoResource

(* An atom is about a project or about a group, and says so by its         *)
(* resource and by which key is missing.                                   *)
LEMMA AtomFields ==
  ASSUME NEW a \in Atom
  PROVE  /\ a.action \in Actions
         /\ \/ /\ a.resource \in ProjectResources /\ a.resource # "global_values"
               /\ a.project \in ProjectKey /\ a.project # NoKey
               /\ a.env \in Environments \cup {Wildcard, NoKey}
               /\ a.name = NoKey
               /\ a = MkAtom(a.action, a.resource, a.project, a.env)
            \/ /\ a.resource = "global_values" /\ a.project = NoKey /\ a.env = NoKey
               /\ a.name \in GroupKey /\ a.name # NoKey
               /\ a = MkGroupAtom(a.action, a.name)
  BY KeysAreNames, NoResourceIsNone
     DEF Atom, Actions, ProjectResources, ProjectKey, GroupKey, MkAtom, MkGroupAtom, NoKey,
         Wildcard

(* Only requirements about values and environments name an environment,    *)
(* and only granting requires a grant.                                     *)
LEMMA RequirementFields ==
  ASSUME NEW r \in Requirement
  PROVE  \/ /\ r.resource = "global_values" /\ r.project = NoKey /\ r.env = NoKey
            /\ r.name \in Groups
         \/ /\ r.resource \in {NoResource, "project", "project_templates", "project_values",
                               "env_values"}
            /\ r.project \in Projects /\ r.name = NoKey
            /\ r.resource \in {NoResource, "project", "project_templates"} => r.env = NoKey
            /\ r.action = "grant" <=> r.resource = NoResource
  BY NoResourceIsNone DEF Requirement, Actions, NoKey

LEMMA MkAtomFields ==
  ASSUME NEW action, NEW resource, NEW p, NEW e
  PROVE  /\ MkAtom(action, resource, p, e).action = action
         /\ MkAtom(action, resource, p, e).resource = resource
         /\ MkAtom(action, resource, p, e).project = p
         /\ MkAtom(action, resource, p, e).env = e
         /\ MkAtom(action, resource, p, e).name = NoKey
  BY DEF MkAtom

LEMMA MkAtomType ==
  ASSUME NEW action \in Actions, NEW resource \in ProjectResources, NEW p \in ProjectKey,
         NEW e \in Environments \cup {Wildcard, NoKey}
  PROVE  MkAtom(action, resource, p, e) \in Atom
  BY DEF Atom, MkAtom, ProjectKey

-----------------------------------------------------------------------------
(* The atoms of a project's capabilities, one kind at a time.              *)

DeletesProject(S, p) ==
  \E a \in S : a.project = p /\ a.action = "delete" /\ a.resource = "project"

Capabilities ==
  [read_project : BOOLEAN, templates : SUBSET TemplateActions,
   envLevels : [Environments -> Levels], manage_members_roles : BOOLEAN,
   delete_project : BOOLEAN, manage_environments : BOOLEAN]

LEMMA CapabilitiesType ==
  ASSUME NEW S, NEW p
  PROVE  ProjectCapabilities(S, p) \in Capabilities
<1>1. TemplateCaps(S, p) \in SUBSET TemplateActions
  BY DEF TemplateCaps
<1>2. [e \in Environments |-> EnvLevel(S, p, e)] \in [Environments -> Levels]
  BY DEF EnvLevel, Levels
<1>3. QED
  BY <1>1, <1>2 DEF ProjectCapabilities, Capabilities, ReadsProject, ManagesMembers,
     ManagesEnvironments, Holds

(* The atoms capabilities stand for.                                       *)
LEMMA AtomsOf ==
  ASSUME NEW caps \in Capabilities, NEW p, NEW b
  PROVE  b \in ProjectAtoms(caps, p) <=>
           \/ b = MkAtom("read", "project", p, NoKey) /\ caps.read_project
           \/ \E t \in caps.templates : b = MkAtom(t, "project_templates", p, NoKey)
           \/ \E e \in Environments : b \in EnvAtoms(caps.envLevels[e], p, e)
           \/ b = MkAtom("grant", NoResource, p, NoKey) /\ caps.manage_members_roles
           \/ b = MkAtom("delete", "project", p, NoKey) /\ caps.delete_project
           \/ b = MkAtom("create", "env_values", p, Wildcard) /\ caps.manage_environments
           \/ b = MkAtom("delete", "project_values", p, Wildcard) /\ caps.manage_environments
<1> DEFINE Reads == If(caps.read_project, {MkAtom("read", "project", p, NoKey)})
           Templates == {MkAtom(t, "project_templates", p, NoKey) : t \in caps.templates}
           Envs == UNION {EnvAtoms(caps.envLevels[e], p, e) : e \in Environments}
           Members == If(caps.manage_members_roles, {MkAtom("grant", NoResource, p, NoKey)})
           Deletes == If(caps.delete_project, {MkAtom("delete", "project", p, NoKey)})
           Manages == If(caps.manage_environments,
                         {MkAtom("create", "env_values", p, Wildcard),
                          MkAtom("delete", "project_values", p, Wildcard)})
<1>1. ProjectAtoms(caps, p) =
        Reads \cup Templates \cup Envs \cup Members \cup Deletes \cup Manages
  BY Zenon DEF ProjectAtoms
<1>2. /\ caps.read_project \in BOOLEAN /\ caps.manage_members_roles \in BOOLEAN
      /\ caps.delete_project \in BOOLEAN /\ caps.manage_environments \in BOOLEAN
  BY DEF Capabilities
<1>3. b \in Reads <=> b = MkAtom("read", "project", p, NoKey) /\ caps.read_project
  BY <1>2 DEF If
<1>4. b \in Members <=> b = MkAtom("grant", NoResource, p, NoKey) /\ caps.manage_members_roles
  BY <1>2 DEF If
<1>5. b \in Deletes <=> b = MkAtom("delete", "project", p, NoKey) /\ caps.delete_project
  BY <1>2 DEF If
<1>6. b \in Manages <=>
        \/ b = MkAtom("create", "env_values", p, Wildcard) /\ caps.manage_environments
        \/ b = MkAtom("delete", "project_values", p, Wildcard) /\ caps.manage_environments
  BY <1>2 DEF If
<1>7. b \in Envs <=> \E e \in Environments : b \in EnvAtoms(caps.envLevels[e], p, e)
  OBVIOUS
<1>8. b \in Templates <=>
        \E t \in caps.templates : b = MkAtom(t, "project_templates", p, NoKey)
  OBVIOUS
<1> HIDE DEF Reads, Templates, Envs, Members, Deletes, Manages
<1>9. b \in ProjectAtoms(caps, p) <=>
        \/ b \in Reads \/ b \in Templates \/ b \in Envs
        \/ b \in Members \/ b \in Deletes \/ b \in Manages
  BY <1>1
<1>10. QED
  BY <1>3, <1>4, <1>5, <1>6, <1>7, <1>8, <1>9, Zenon

LEMMA AtomsOfCapabilities ==
  ASSUME NEW S, NEW p, NEW b
  PROVE  b \in ProjectAtoms(ProjectCapabilities(S, p), p) <=>
           \/ b = MkAtom("read", "project", p, NoKey) /\ ReadsProject(S, p)
           \/ \E t \in TemplateCaps(S, p) : b = MkAtom(t, "project_templates", p, NoKey)
           \/ \E e \in Environments : b \in EnvAtoms(EnvLevel(S, p, e), p, e)
           \/ b = MkAtom("grant", NoResource, p, NoKey) /\ ManagesMembers(S, p)
           \/ b = MkAtom("delete", "project", p, NoKey) /\ DeletesProject(S, p)
           \/ b = MkAtom("create", "env_values", p, Wildcard) /\ ManagesEnvironments(S, p)
           \/ b = MkAtom("delete", "project_values", p, Wildcard) /\ ManagesEnvironments(S, p)
<1> DEFINE caps == ProjectCapabilities(S, p)
<1>1. caps \in Capabilities
  BY CapabilitiesType
<1>2. /\ caps.read_project <=> ReadsProject(S, p)
      /\ caps.templates = TemplateCaps(S, p)
      /\ \A e \in Environments : caps.envLevels[e] = EnvLevel(S, p, e)
      /\ caps.manage_members_roles <=> ManagesMembers(S, p)
      /\ caps.delete_project <=> DeletesProject(S, p)
      /\ caps.manage_environments <=> ManagesEnvironments(S, p)
  BY Zenon DEF ProjectCapabilities, DeletesProject
<1> HIDE DEF caps
<1>3. QED
  BY <1>1, <1>2, AtomsOf, Zenon DEF caps

(* A role that is saved unchanged has these atoms.                         *)
LEMMA SavedAtoms ==
  ASSUME NEW S, NEW p, NEW b
  PROVE  b \in SavedOnProject(S, p) <=>
           \/ b \in ProjectAtoms(ProjectCapabilities(S, p), p)
           \/ b \in S /\ ~Shown(S, p, b)
  BY DEF SavedOnProject, ExtraAtoms

(* Writing an environment's values is shown as its level; whatever reading *)
(* or writing of them a shown atom allows, an atom of the level allows.    *)
LEMMA LevelAtoms ==
  ASSUME NEW S, NEW p, NEW e \in Environments
  PROVE  /\ Holds(S, "write", "project_values", p, e) =>
              /\ EnvLevel(S, p, e) = "write"
              /\ MkAtom("write", "project_values", p, e) \in EnvAtoms(EnvLevel(S, p, e), p, e)
              /\ MkAtom("create", "env_values", p, e) \in EnvAtoms(EnvLevel(S, p, e), p, e)
         /\ Holds(S, "read", "project_values", p, e) =>
              \/ MkAtom("write", "project_values", p, e) \in EnvAtoms(EnvLevel(S, p, e), p, e)
              \/ MkAtom("read", "project_values", p, e) \in EnvAtoms(EnvLevel(S, p, e), p, e)
         /\ EnvLevel(S, p, e) = "write" =>
              MkAtom("create", "env_values", p, e) \in EnvAtoms(EnvLevel(S, p, e), p, e)
  BY DEF EnvLevel, EnvAtoms, If

(* What an atom of the same action, resource and keys satisfies.           *)
LEMMA SameAtomSatisfies ==
  ASSUME NEW a, NEW r, NEW action, NEW resource, NEW p, NEW e, Satisfies(a, r),
         a.action = action, a.resource = resource, a.project = p, a.name = NoKey,
         a.env = e \/ r.env = NoKey
  PROVE  Satisfies(MkAtom(action, resource, p, e), r)
  BY MkAtomFields DEF Satisfies, MatchesKey

LEMMA WriteSatisfiesRead ==
  ASSUME NEW r, NEW resource, NEW p, NEW e, Satisfies(MkAtom("read", resource, p, e), r),
         resource # "env_values"
  PROVE  Satisfies(MkAtom("write", resource, p, e), r)
  BY MkAtomFields DEF Satisfies

(* Opening a role on a project and saving it keeps every grant.            *)
THEOREM ProjectSaveKeepsGrants ==
  ASSUME NEW S \in SUBSET Atom, NEW p \in ProjectKey, NEW r \in Requirement, Grants(S, r)
  PROVE  Grants(SavedOnProject(S, p), r)
<1>1. PICK a \in S : Satisfies(a, r)
  BY DEF Grants
<1>2. SUFFICES \E b : b \in SavedOnProject(S, p) /\ Satisfies(b, r)
  BY DEF Grants
<1>3. CASE ~Shown(S, p, a)
  BY <1>1, <1>3, SavedAtoms
<1>4. CASE Shown(S, p, a)
  <2>1. /\ a \in Atom /\ a.project = p /\ p # NoKey
    BY <1>4, KeysAreNames DEF Shown, ProjectKey, NoKey, Wildcard
  <2>2. /\ a.name = NoKey /\ a.resource \in ProjectResources
        /\ a.action \in Actions
        /\ a.env \in Environments \cup {Wildcard, NoKey}
    BY <2>1, AtomFields
  <2>3. CASE a.resource = "project_templates" /\ a.action \in TemplateActions
    <3> DEFINE b == MkAtom(a.action, "project_templates", p, NoKey)
    <3>1. a.action \in TemplateCaps(S, p)
      BY <2>1, <2>3 DEF TemplateCaps
    <3>2. b \in SavedOnProject(S, p)
      BY <3>1, AtomsOfCapabilities, SavedAtoms, Zenon
    <3>3. r.env = NoKey
      BY <1>1, <2>3, RequirementFields DEF Satisfies
    <3>4. Satisfies(b, r)
      BY <1>1, <2>1, <2>2, <2>3, <3>3, SameAtomSatisfies
    <3>5. QED
      BY <3>2, <3>4
  <2>4. CASE a.resource = "project_values" /\ a.env = Wildcard /\ a.action = "delete"
    <3> DEFINE b == MkAtom("delete", "project_values", p, Wildcard)
    <3>1. ManagesEnvironments(S, p)
      BY <2>1, <2>4 DEF ManagesEnvironments, Holds
    <3>2. b \in SavedOnProject(S, p)
      BY <3>1, AtomsOfCapabilities, SavedAtoms, Zenon
    <3>3. Satisfies(b, r)
      BY <1>1, <2>1, <2>2, <2>4, SameAtomSatisfies
    <3>4. QED
      BY <3>2, <3>3
  <2>5. CASE a.resource = "project_values" /\ a.env \in Environments /\ a.action = "write"
    <3> DEFINE b == MkAtom("write", "project_values", p, a.env)
    <3>1. b \in EnvAtoms(EnvLevel(S, p, a.env), p, a.env)
      BY <2>1, <2>5, LevelAtoms DEF Holds
    <3>2. b \in SavedOnProject(S, p)
      BY <2>5, <3>1, AtomsOfCapabilities, SavedAtoms, Zenon
    <3>3. Satisfies(b, r)
      BY <1>1, <2>1, <2>2, <2>5, SameAtomSatisfies
    <3>4. QED
      BY <3>2, <3>3
  <2>6. CASE a.resource = "project_values" /\ a.env \in Environments /\ a.action = "read"
    <3> DEFINE b == MkAtom("read", "project_values", p, a.env)
               c == MkAtom("write", "project_values", p, a.env)
    <3>1. \/ b \in EnvAtoms(EnvLevel(S, p, a.env), p, a.env)
          \/ c \in EnvAtoms(EnvLevel(S, p, a.env), p, a.env)
      BY <2>1, <2>6, LevelAtoms DEF Holds
    <3>2. b \in SavedOnProject(S, p) \/ c \in SavedOnProject(S, p)
      BY <2>6, <3>1, AtomsOfCapabilities, SavedAtoms, Zenon
    <3>3. Satisfies(b, r)
      BY <1>1, <2>1, <2>2, <2>6, SameAtomSatisfies
    <3>4. Satisfies(c, r)
      BY <3>3, WriteSatisfiesRead
    <3>5. QED
      BY <3>2, <3>3, <3>4
  <2>7. CASE a.resource = "env_values" /\ a.action = "create" /\ a.env = Wildcard
    <3> DEFINE b == MkAtom("create", "env_values", p, Wildcard)
    <3>1. ManagesEnvironments(S, p)
      BY <2>1, <2>7 DEF ManagesEnvironments, Holds
    <3>2. b \in SavedOnProject(S, p)
      BY <3>1, AtomsOfCapabilities, SavedAtoms, Zenon
    <3>3. Satisfies(b, r)
      BY <1>1, <2>1, <2>2, <2>7, SameAtomSatisfies
    <3>4. QED
      BY <3>2, <3>3
  <2>8. CASE /\ a.resource = "env_values" /\ a.action = "create"
             /\ a.env \in Environments /\ EnvLevel(S, p, a.env) = "write"
    <3> DEFINE b == MkAtom("create", "env_values", p, a.env)
    <3>1. b \in EnvAtoms(EnvLevel(S, p, a.env), p, a.env)
      BY <2>8, LevelAtoms
    <3>2. b \in SavedOnProject(S, p)
      BY <2>8, <3>1, AtomsOfCapabilities, SavedAtoms, Zenon
    <3>3. Satisfies(b, r)
      BY <1>1, <2>1, <2>2, <2>8, SameAtomSatisfies
    <3>4. QED
      BY <3>2, <3>3
  <2>9. CASE a.resource = "project" /\ a.action \in {"read", "delete"}
    <3> DEFINE b == MkAtom(a.action, "project", p, NoKey)
    <3>1. b \in SavedOnProject(S, p)
      BY <2>1, <2>9, AtomsOfCapabilities, SavedAtoms DEF ReadsProject, DeletesProject
    <3>2. r.env = NoKey
      BY <1>1, <2>9, RequirementFields DEF Satisfies
    <3>3. Satisfies(b, r)
      BY <1>1, <2>1, <2>2, <2>9, <3>2, SameAtomSatisfies
    <3>4. QED
      BY <3>1, <3>3
  <2>10. CASE ScopedResource(a) /\ a.action = "grant"
    <3> DEFINE b == MkAtom("grant", NoResource, p, NoKey)
    <3>1. ManagesMembers(S, p)
      BY <2>1, <2>10 DEF ManagesMembers
    <3>2. b \in SavedOnProject(S, p)
      BY <3>1, AtomsOfCapabilities, SavedAtoms, Zenon
    <3>3. r.action = "grant" /\ r.resource = a.resource
      BY <1>1, <2>10 DEF Satisfies
    <3>4. r.resource = NoResource /\ r.env = NoKey
      BY <2>2, <3>3, RequirementFields DEF ProjectResources
    <3>5. Satisfies(b, r)
      BY <1>1, <2>1, <2>2, <2>10, <3>3, <3>4, SameAtomSatisfies
    <3>6. QED
      BY <3>2, <3>5
  <2>11. QED
    BY <1>4, <2>3, <2>4, <2>5, <2>6, <2>7, <2>8, <2>9, <2>10, Zenon DEF Shown
<1>5. QED
  BY <1>3, <1>4

(* A group's capabilities stand for the very atoms they were read from.    *)
LEMMA GroupSaveIsExact ==
  ASSUME NEW S \in SUBSET Atom, NEW g \in GroupKey
  PROVE  SavedOnGroup(S, g) = S
<1>1. \A a \in S : a.resource = "global_values" /\ a.name = g => a = MkGroupAtom(a.action, g)
  BY AtomFields DEF ProjectResources
<1>2. GvAtoms(GvCapabilities(S, g), g) \subseteq S
  BY <1>1 DEF GvAtoms, GvCapabilities
<1>3. ASSUME NEW a \in S PROVE a \in SavedOnGroup(S, g)
  <2>1. CASE a.resource = "global_values" /\ a.name = g /\ a.action \in GvActions
    BY <1>1, <2>1 DEF SavedOnGroup, GvAtoms, GvCapabilities
  <2>2. CASE ~(a.resource = "global_values" /\ a.name = g /\ a.action \in GvActions)
    BY <2>2 DEF SavedOnGroup, GvExtraAtoms
  <2>3. QED
    BY <2>1, <2>2
<1>4. QED
  BY <1>2, <1>3 DEF SavedOnGroup, GvExtraAtoms

(* Whatever the capabilities of p are, their atoms are about p.            *)
LEMMA CapabilityAtomsType ==
  ASSUME NEW caps \in Capabilities, NEW p \in ProjectKey, NEW b \in ProjectAtoms(caps, p)
  PROVE  b \in Atom /\ b.project = p /\ b.resource # "global_values"
<1> DEFINE Made(action, resource, e) == b = MkAtom(action, resource, p, e)
<1>1. \E action \in Actions, resource \in ProjectResources,
         e \in Environments \cup {Wildcard, NoKey} : Made(action, resource, e)
  <2>1. CASE \E t \in caps.templates : b = MkAtom(t, "project_templates", p, NoKey)
    BY <2>1 DEF Capabilities, TemplateActions, Actions, ProjectResources
  <2>2. CASE \E e \in Environments : b \in EnvAtoms(caps.envLevels[e], p, e)
    <3>1. PICK e \in Environments : b \in EnvAtoms(caps.envLevels[e], p, e)
      BY <2>2
    <3>2. \/ Made("write", "project_values", e) \/ Made("create", "env_values", e)
          \/ Made("read", "project_values", e)
      BY <3>1 DEF EnvAtoms, If
    <3>3. QED
      BY <3>2 DEF Actions, ProjectResources
  <2>3. CASE \/ Made("read", "project", NoKey) \/ Made("grant", NoResource, NoKey)
             \/ Made("delete", "project", NoKey) \/ Made("create", "env_values", Wildcard)
             \/ Made("delete", "project_values", Wildcard)
    BY <2>3 DEF Actions, ProjectResources
  <2>4. QED
    BY <2>1, <2>2, <2>3, AtomsOf, Zenon
<1>2. PICK action \in Actions, resource \in ProjectResources,
           e \in Environments \cup {Wildcard, NoKey} : Made(action, resource, e)
  BY <1>1
<1>3. b = MkAtom(action, resource, p, e) /\ resource # "global_values"
  BY <1>2, NoResourceIsNone DEF ProjectResources
<1>4. b \in Atom
  BY <1>2, <1>3, MkAtomType
<1>5. b.project = p /\ b.resource = resource
  BY <1>3, MkAtomFields
<1>6. QED
  BY <1>3, <1>4, <1>5

LEMMA ProjectSaveType ==
  ASSUME NEW S \in SUBSET Atom, NEW p \in ProjectKey
  PROVE  SavedOnProject(S, p) \subseteq Atom
  BY CapabilitiesType, CapabilityAtomsType, SavedAtoms

(* Opening a role on a project and saving it may grant more, but nothing   *)
(* about another project and nothing about a group.                        *)
THEOREM ProjectSaveWidensProjectOnly ==
  ASSUME NEW S \in SUBSET Atom, NEW p \in ProjectKey, NEW r \in Requirement,
         Grants(SavedOnProject(S, p), r), ~Grants(S, r)
  PROVE  p \in {r.project, Wildcard}
<1>1. PICK b \in SavedOnProject(S, p) : Satisfies(b, r)
  BY DEF Grants
<1>2. b \in ProjectAtoms(ProjectCapabilities(S, p), p)
  BY <1>1, SavedAtoms DEF Grants
<1>3. b.project = p /\ b.resource # "global_values"
  BY <1>2, CapabilitiesType, CapabilityAtomsType
<1>4. r.project # NoKey
  <2>1. SUFFICES ASSUME r.project = NoKey PROVE FALSE
    OBVIOUS
  <2>2. r.resource = "global_values"
    BY <2>1, RequirementFields, KeysAreNames
  <2>3. QED
    BY <1>1, <1>3, <2>2 DEF Satisfies
<1>5. QED
  BY <1>1, <1>3, <1>4 DEF Satisfies, MatchesKey

(* The dialog opens on a project or a group some atom names.               *)
LEMMA InferredTargetType ==
  ASSUME NEW S \in SUBSET Atom, NEW t \in InferredTargets(S) \ {NoTarget}
  PROVE  \/ t.kind = "project" /\ t.key \in ProjectKey
         \/ t.kind = "global-values" /\ t.key \in GroupKey
<1> DEFINE ofProjects == {[kind |-> "project", key |-> a.project] :
                             a \in {b \in S : b.project # NoKey}}
           ofGroups == {[kind |-> "global-values", key |-> a.name] :
                          a \in {b \in S : b.project = NoKey /\ b.resource = "global_values"
                                                         /\ b.name # NoKey}}
<1>1. t \in ofProjects \cup ofGroups
  BY DEF InferredTargets
<1>2. CASE t \in ofProjects
  BY <1>2, AtomFields
<1>3. CASE t \in ofGroups
  BY <1>3, AtomFields
<1>4. QED
  BY <1>1, <1>2, <1>3

(* Every atom names a target, so only the empty role opens on none.        *)
LEMMA AtomsNameTargets ==
  ASSUME NEW S \in SUBSET Atom, NoTarget \in InferredTargets(S)
  PROVE  S = {}
<1> DEFINE ofProjects == {[kind |-> "project", key |-> a.project] :
                             a \in {b \in S : b.project # NoKey}}
           ofGroups == {[kind |-> "global-values", key |-> a.name] :
                          a \in {b \in S : b.project = NoKey /\ b.resource = "global_values"
                                                         /\ b.name # NoKey}}
<1>1. NoTarget.kind = "none"
  BY DEF NoTarget
<1>2. NoTarget \notin ofProjects \cup ofGroups
  BY <1>1
<1>3. ofProjects \cup ofGroups = {}
  BY <1>2 DEF InferredTargets
<1>4. ASSUME NEW a \in S PROVE FALSE
  <2>1. a.project # NoKey => [kind |-> "project", key |-> a.project] \in ofProjects
    OBVIOUS
  <2>2. (a.project = NoKey /\ a.resource = "global_values" /\ a.name # NoKey) =>
          [kind |-> "global-values", key |-> a.name] \in ofGroups
    OBVIOUS
  <2>3. QED
    BY <1>3, <2>1, <2>2, AtomFields
<1>5. QED
  BY <1>4

-----------------------------------------------------------------------------
(* Capabilities read back from their own atoms.                            *)

(* Atoms that stand for no capability of p.                                *)
Unshown(X, p) == \A a \in X : ~Shown(X, p, a)

LEMMA UnshownHasNoCapability ==
  ASSUME NEW X, NEW p, Unshown(X, p)
  PROVE  /\ ~ReadsProject(X, p) /\ TemplateCaps(X, p) = {}
         /\ \A e \in Environments :
              ~Holds(X, "write", "project_values", p, e) /\ ~Holds(X, "read", "project_values", p, e)
         /\ ~ManagesMembers(X, p) /\ ~DeletesProject(X, p) /\ ~ManagesEnvironments(X, p)
  BY DEF Unshown, Shown, ReadsProject, TemplateCaps, Holds, ManagesMembers, DeletesProject,
         ManagesEnvironments

(* What was left over when a role was taken apart stays unshown.           *)
LEMMA ExtraIsUnshown ==
  ASSUME NEW S, NEW p
  PROVE  Unshown(ExtraAtoms(S, p), p)
<1>1. \A e : EnvLevel(ExtraAtoms(S, p), p, e) = "write" => EnvLevel(S, p, e) = "write"
  BY DEF EnvLevel, Holds, ExtraAtoms
<1>2. QED
  BY <1>1 DEF Unshown, Shown, ExtraAtoms

LEMMA FieldsOfAtomsOf ==
  ASSUME NEW caps \in Capabilities, NEW p, NEW b \in ProjectAtoms(caps, p)
  PROVE  /\ b.project = p
         /\ \/ b.resource = "project" /\ b.action = "read" /\ caps.read_project = TRUE
            \/ b.resource = "project_templates" /\ b.action \in caps.templates
            \/ \E e \in Environments :
                 /\ b.env = e
                 /\ \/ /\ b.resource = "project_values" /\ b.action = "write"
                       /\ caps.envLevels[e] = "write"
                    \/ /\ b.resource = "env_values" /\ b.action = "create"
                       /\ caps.envLevels[e] = "write"
                    \/ /\ b.resource = "project_values" /\ b.action = "read"
                       /\ caps.envLevels[e] = "read"
            \/ b.resource = NoResource /\ b.action = "grant" /\ caps.manage_members_roles = TRUE
            \/ b.resource = "project" /\ b.action = "delete" /\ caps.delete_project = TRUE
            \/ /\ b.resource = "env_values" /\ b.action = "create" /\ b.env = Wildcard
               /\ caps.manage_environments = TRUE
            \/ /\ b.resource = "project_values" /\ b.action = "delete" /\ b.env = Wildcard
               /\ caps.manage_environments = TRUE
<1>1. CASE \E t \in caps.templates : b = MkAtom(t, "project_templates", p, NoKey)
  BY <1>1, MkAtomFields
<1>2. CASE \E e \in Environments : b \in EnvAtoms(caps.envLevels[e], p, e)
  <2>1. PICK e \in Environments : b \in EnvAtoms(caps.envLevels[e], p, e)
    BY <1>2
  <2>2. \/ /\ caps.envLevels[e] = "write"
           /\ \/ b = MkAtom("write", "project_values", p, e)
              \/ b = MkAtom("create", "env_values", p, e)
        \/ caps.envLevels[e] = "read" /\ b = MkAtom("read", "project_values", p, e)
    BY <2>1 DEF EnvAtoms, If
  <2>3. QED
    BY <2>2, MkAtomFields
<1>3. CASE b = MkAtom("read", "project", p, NoKey) /\ caps.read_project = TRUE
  BY <1>3, MkAtomFields
<1>4. CASE b = MkAtom("grant", NoResource, p, NoKey) /\ caps.manage_members_roles = TRUE
  BY <1>4, MkAtomFields
<1>5. CASE b = MkAtom("delete", "project", p, NoKey) /\ caps.delete_project = TRUE
  BY <1>5, MkAtomFields
<1>6. CASE b = MkAtom("create", "env_values", p, Wildcard) /\ caps.manage_environments = TRUE
  BY <1>6, MkAtomFields
<1>7. CASE b = MkAtom("delete", "project_values", p, Wildcard) /\ caps.manage_environments = TRUE
  BY <1>7, MkAtomFields
<1>8. QED
  BY <1>1, <1>2, <1>3, <1>4, <1>5, <1>6, <1>7, AtomsOf, Zenon

LEMMA ValuesOfAtomsOf ==
  ASSUME NEW caps \in Capabilities, NEW p, NEW b \in ProjectAtoms(caps, p),
         b.resource = "project_values"
  PROVE  \/ \E f \in Environments :
              /\ b.env = f
              /\ \/ b.action = "write" /\ caps.envLevels[f] = "write"
                 \/ b.action = "read" /\ caps.envLevels[f] = "read"
         \/ b.env = Wildcard
<1>1. NoResource # "project_values"
  BY NoResourceIsNone
<1>2. CASE \E t \in caps.templates : b = MkAtom(t, "project_templates", p, NoKey)
  BY <1>2, MkAtomFields
<1>3. CASE \E e \in Environments : b \in EnvAtoms(caps.envLevels[e], p, e)
  <2>1. PICK e \in Environments : b \in EnvAtoms(caps.envLevels[e], p, e)
    BY <1>3
  <2>2. \/ /\ caps.envLevels[e] = "write"
           /\ \/ b = MkAtom("write", "project_values", p, e)
              \/ b = MkAtom("create", "env_values", p, e)
        \/ caps.envLevels[e] = "read" /\ b = MkAtom("read", "project_values", p, e)
    BY <2>1 DEF EnvAtoms, If
  <2>3. QED
    BY <2>2, MkAtomFields
<1>4. CASE b.env = Wildcard
  BY <1>4
<1>5. CASE b.resource \in {"project", NoResource}
  BY <1>1, <1>5
<1>6. QED
  <2>1. \A x, y : /\ MkAtom(x, "project", y, NoKey).resource = "project"
                  /\ MkAtom(x, NoResource, y, NoKey).resource = NoResource
                  /\ MkAtom(x, "env_values", y, Wildcard).env = Wildcard
                  /\ MkAtom(x, "project_values", y, Wildcard).env = Wildcard
    BY MkAtomFields
  <2>2. b.resource \in {"project", NoResource} <=>
          b.resource = "project" \/ b.resource = NoResource
    OBVIOUS
  <2>3. QED
    BY <1>2, <1>3, <1>4, <1>5, <2>1, <2>2, AtomsOf, Zenon

(* A role put together from capabilities and atoms that show none is taken *)
(* apart into the same capabilities.                                       *)
THEOREM CapabilitiesReadBack ==
  ASSUME NEW caps \in Capabilities, NEW p \in ProjectKey, NEW X, Unshown(X, p)
  PROVE  ProjectCapabilities(ProjectAtoms(caps, p) \cup X, p) = caps
<1> DEFINE made == ProjectAtoms(caps, p)
           S == made \cup X
<1>1. /\ ~ReadsProject(X, p) /\ TemplateCaps(X, p) = {}
      /\ \A e \in Environments :
           ~Holds(X, "write", "project_values", p, e) /\ ~Holds(X, "read", "project_values", p, e)
      /\ ~ManagesMembers(X, p) /\ ~DeletesProject(X, p) /\ ~ManagesEnvironments(X, p)
  BY UnshownHasNoCapability
<1>2. Wildcard \notin Environments
  BY KeysAreNames
<1>3. ReadsProject(S, p) <=> caps.read_project = TRUE
  <2>1. ReadsProject(S, p) <=> ReadsProject(made, p)
    BY <1>1 DEF ReadsProject
  <2>2. ReadsProject(made, p) => caps.read_project = TRUE
    BY FieldsOfAtomsOf, NoResourceIsNone DEF ReadsProject, Capabilities, TemplateActions
  <2>3. caps.read_project => MkAtom("read", "project", p, NoKey) \in made
    BY AtomsOf, Zenon
  <2>4. QED
    BY <2>1, <2>2, <2>3, MkAtomFields DEF ReadsProject
<1>4. TemplateCaps(S, p) = caps.templates
  <2>1. TemplateCaps(S, p) = TemplateCaps(made, p)
    BY <1>1 DEF TemplateCaps
  <2>2. TemplateCaps(made, p) \subseteq caps.templates
    BY FieldsOfAtomsOf, NoResourceIsNone DEF TemplateCaps
  <2>3. \A t \in caps.templates : MkAtom(t, "project_templates", p, NoKey) \in made
    BY AtomsOf, Zenon
  <2>4. caps.templates \subseteq TemplateCaps(made, p)
    BY <2>3, MkAtomFields DEF TemplateCaps, Capabilities
  <2>5. QED
    BY <2>1, <2>2, <2>4
<1>5. ASSUME NEW e \in Environments PROVE EnvLevel(S, p, e) = caps.envLevels[e]
  <2>1. /\ Holds(S, "write", "project_values", p, e) <=>
             Holds(made, "write", "project_values", p, e)
        /\ Holds(S, "read", "project_values", p, e) <=>
             Holds(made, "read", "project_values", p, e)
    BY <1>1 DEF Holds
  <2>2. /\ Holds(made, "write", "project_values", p, e) => caps.envLevels[e] = "write"
        /\ Holds(made, "read", "project_values", p, e) => caps.envLevels[e] = "read"
    <3>1. ASSUME NEW b \in made, b.resource = "project_values", b.env = e
          PROVE  /\ b.action = "write" => caps.envLevels[e] = "write"
                 /\ b.action = "read" => caps.envLevels[e] = "read"
      <4>2. \/ \E f \in Environments :
                 /\ b.env = f
                 /\ \/ b.action = "write" /\ caps.envLevels[f] = "write"
                    \/ b.action = "read" /\ caps.envLevels[f] = "read"
            \/ b.env = Wildcard
        BY <3>1, ValuesOfAtomsOf
      <4>3. QED
        BY <1>2, <3>1, <4>2
    <3>2. QED
      BY <3>1 DEF Holds
  <2>3. EnvAtoms(caps.envLevels[e], p, e) \subseteq made
    BY AtomsOf, Zenon
  <2>4. caps.envLevels[e] = "write" => Holds(made, "write", "project_values", p, e)
    BY <2>3, MkAtomFields DEF EnvAtoms, Holds
  <2>5. caps.envLevels[e] = "read" => Holds(made, "read", "project_values", p, e)
    BY <2>3, MkAtomFields DEF EnvAtoms, If, Holds
  <2>6. caps.envLevels[e] \in Levels
    BY DEF Capabilities
  <2>7. QED
    BY <2>1, <2>2, <2>4, <2>5, <2>6 DEF EnvLevel, Levels
<1>6. ManagesMembers(S, p) <=> caps.manage_members_roles = TRUE
  <2>1. ManagesMembers(S, p) <=> ManagesMembers(made, p)
    BY <1>1 DEF ManagesMembers
  <2>2. ManagesMembers(made, p) => caps.manage_members_roles = TRUE
    BY FieldsOfAtomsOf, NoResourceIsNone DEF ManagesMembers, ScopedResource
  <2>3. caps.manage_members_roles => MkAtom("grant", NoResource, p, NoKey) \in made
    BY AtomsOf, Zenon
  <2>4. QED
    <3>1. ASSUME NEW b \in made, b = MkAtom("grant", NoResource, p, NoKey)
          PROVE  ManagesMembers(made, p)
      BY <3>1, MkAtomFields, NoResourceIsNone DEF ManagesMembers, ScopedResource
    <3>2. QED
      BY <2>1, <2>2, <2>3, <3>1, Zenon
<1>7. DeletesProject(S, p) <=> caps.delete_project = TRUE
  <2>1. DeletesProject(S, p) <=> DeletesProject(made, p)
    BY <1>1 DEF DeletesProject
  <2>2. DeletesProject(made, p) => caps.delete_project = TRUE
    <3>1. ASSUME NEW b \in made, b.resource = "project", b.action = "delete"
          PROVE  caps.delete_project = TRUE
      BY <3>1, FieldsOfAtomsOf, NoResourceIsNone
    <3>2. QED
      BY <3>1 DEF DeletesProject
  <2>3. caps.delete_project => MkAtom("delete", "project", p, NoKey) \in made
    BY AtomsOf, Zenon
  <2>4. QED
    BY <2>1, <2>2, <2>3, MkAtomFields DEF DeletesProject
<1>8. ManagesEnvironments(S, p) <=> caps.manage_environments = TRUE
  <2>1. ManagesEnvironments(S, p) <=> ManagesEnvironments(made, p)
    BY <1>1 DEF ManagesEnvironments, Holds
  <2>2. ManagesEnvironments(made, p) => caps.manage_environments = TRUE
    <3>1. ASSUME NEW b \in made, b.env = Wildcard,
                 \/ b.resource = "project_values" /\ b.action = "delete"
                 \/ b.resource = "env_values" /\ b.action = "create"
          PROVE  caps.manage_environments = TRUE
      BY <1>2, <3>1, FieldsOfAtomsOf, NoResourceIsNone
    <3>2. QED
      BY <3>1 DEF ManagesEnvironments, Holds
  <2>3. caps.manage_environments => MkAtom("create", "env_values", p, Wildcard) \in made
    BY AtomsOf, Zenon
  <2>4. QED
    BY <2>1, <2>2, <2>3, MkAtomFields DEF ManagesEnvironments, Holds
<1> DEFINE back == ProjectCapabilities(S, p)
<1>9. /\ back \in Capabilities
      /\ back.templates = caps.templates
      /\ \A e \in Environments : back.envLevels[e] = caps.envLevels[e]
  BY <1>4, <1>5, CapabilitiesType DEF ProjectCapabilities
<1>10. /\ back.read_project = TRUE <=> caps.read_project = TRUE
       /\ back.manage_members_roles = TRUE <=> caps.manage_members_roles = TRUE
       /\ back.delete_project = TRUE <=> caps.delete_project = TRUE
       /\ back.manage_environments = TRUE <=> caps.manage_environments = TRUE
  BY <1>3, <1>6, <1>7, <1>8, Zenon DEF ProjectCapabilities, DeletesProject
<1> HIDE DEF back
<1>11. back.envLevels = caps.envLevels
  BY <1>9 DEF Capabilities
<1>12. /\ back.read_project = caps.read_project
       /\ back.manage_members_roles = caps.manage_members_roles
       /\ back.delete_project = caps.delete_project
       /\ back.manage_environments = caps.manage_environments
  <2>1. ASSUME NEW x \in Capabilities
        PROVE  /\ x.read_project \in BOOLEAN /\ x.manage_members_roles \in BOOLEAN
               /\ x.delete_project \in BOOLEAN /\ x.manage_environments \in BOOLEAN
    BY DEF Capabilities
  <2>2. \A x, y \in BOOLEAN : (x = TRUE <=> y = TRUE) => x = y
    OBVIOUS
  <2>3. QED
    BY <1>9, <1>10, <2>1, <2>2, Zenon
<1>13. back = caps
  BY <1>9, <1>11, <1>12 DEF Capabilities
<1>14. QED
  BY <1>13 DEF back

(* The same for a group.                                                   *)
THEOREM GvCapabilitiesReadBack ==
  ASSUME NEW caps \in SUBSET GvActions, NEW g, NEW S
  PROVE  GvCapabilities(GvAtoms(caps, g) \cup GvExtraAtoms(S, g), g) = caps
<1> DEFINE made == GvAtoms(caps, g) \cup GvExtraAtoms(S, g)
<1>1. ASSUME NEW a \in GvExtraAtoms(S, g), a.resource = "global_values", a.name = g
      PROVE  a.action \notin GvActions
  BY <1>1 DEF GvExtraAtoms
<1>2. \A c : /\ MkGroupAtom(c, g).resource = "global_values"
             /\ MkGroupAtom(c, g).name = g /\ MkGroupAtom(c, g).action = c
  BY DEF MkGroupAtom
<1>3. GvCapabilities(made, g) \subseteq caps
  <2>1. ASSUME NEW c \in GvActions, NEW a \in made,
               a.resource = "global_values", a.name = g, a.action = c
        PROVE  c \in caps
    <3>1. PICK d \in caps : a = MkGroupAtom(d, g)
      BY <1>1, <2>1 DEF GvAtoms
    <3>2. QED
      BY <1>2, <2>1, <3>1
  <2>2. QED
    BY <2>1 DEF GvCapabilities
<1>4. caps \subseteq GvCapabilities(made, g)
  <2>1. ASSUME NEW c \in caps PROVE c \in GvCapabilities(made, g)
    <3>1. MkGroupAtom(c, g) \in made
      BY DEF GvAtoms
    <3>2. QED
      BY <1>2, <3>1 DEF GvCapabilities
  <2>2. QED
    BY <2>1
<1>5. QED
  BY <1>3, <1>4

-----------------------------------------------------------------------------
(* A role reopened and saved (RoleRoundTrip).                              *)

RoundTripInv ==
  /\ original \subseteq Atom /\ atoms \subseteq Atom
  /\ SavingKeepsGrants

LEMMA ReopenAndSaveStep ==
  ASSUME RoundTripInv, ReopenAndSave
  PROVE  /\ RoundTripInv'
         /\ \E t \in InferredTargets(atoms) :
              \A r \in Requirement :
                (Grants(atoms', r) /\ ~Grants(atoms, r)) =>
                  (t.kind = "project" /\ t.key \in {r.project, Wildcard})
<1>1. PICK t \in InferredTargets(atoms) \ {NoTarget} : atoms' = SavedOn(t)
  BY DEF ReopenAndSave
<1>2. original' = original /\ original \subseteq Atom /\ atoms \subseteq Atom
  BY DEF ReopenAndSave, RoundTripInv
<1>3. CASE t.kind = "project" /\ t.key \in ProjectKey
  <2>1. atoms' = SavedOnProject(atoms, t.key)
    BY <1>1, <1>3 DEF SavedOn
  <2>2. atoms' \subseteq Atom
    BY <1>2, <1>3, <2>1, ProjectSaveType
  <2>3. \A r \in Requirement : Grants(atoms, r) => Grants(atoms', r)
    BY <1>2, <1>3, <2>1, ProjectSaveKeepsGrants
  <2>4. \A r \in Requirement :
          (Grants(atoms', r) /\ ~Grants(atoms, r)) => t.key \in {r.project, Wildcard}
    BY <1>2, <1>3, <2>1, ProjectSaveWidensProjectOnly
  <2>5. SavingKeepsGrants'
    BY <1>2, <2>3 DEF RoundTripInv, SavingKeepsGrants
  <2>6. QED
    BY <1>1, <1>2, <1>3, <2>2, <2>4, <2>5 DEF RoundTripInv
<1>4. CASE t.kind = "global-values" /\ t.key \in GroupKey
  <2>1. atoms' = atoms
    BY <1>1, <1>2, <1>4, GroupSaveIsExact DEF SavedOn
  <2>2. QED
    BY <1>1, <1>2, <2>1 DEF RoundTripInv, SavingKeepsGrants
<1>5. QED
  BY <1>1, <1>2, <1>3, <1>4, InferredTargetType

THEOREM RoundTripInvariance == RoundTripSpec => []RoundTripInv
<1>1. RoundTripInit => RoundTripInv
  BY SamplesAreAtoms DEF RoundTripInit, RoundTripInv, SavingKeepsGrants
<1>2. RoundTripInv /\ [RoundTripNext]_roundTripVars => RoundTripInv'
  <2>1. ASSUME RoundTripInv, ReopenAndSave PROVE RoundTripInv'
    BY <2>1, ReopenAndSaveStep
  <2>2. ASSUME RoundTripInv, UNCHANGED roundTripVars PROVE RoundTripInv'
    BY <2>2 DEF RoundTripInv, SavingKeepsGrants, Grants, roundTripVars
  <2>3. QED
    BY <2>1, <2>2 DEF RoundTripNext
<1>3. QED
  BY <1>1, <1>2, PTL DEF RoundTripSpec

(* No request a role allowed is refused because the role was opened and    *)
(* saved, however often and on whichever target it opened.                 *)
THEOREM GrantsSurviveSaving == RoundTripSpec => []SavingKeepsGrants
<1>1. RoundTripInv => SavingKeepsGrants
  BY DEF RoundTripInv
<1>2. QED
  BY <1>1, RoundTripInvariance, PTL

(* What a save adds belongs to the project the dialog opened on.           *)
THEOREM WideningStaysInProject == RoundTripSpec => SavingWidensItsProjectOnly
<1> DEFINE Widens == \E t \in InferredTargets(atoms) :
                       \A r \in Requirement :
                         (Grants(atoms', r) /\ ~Grants(atoms, r)) =>
                           (t.kind = "project" /\ t.key \in {r.project, Wildcard})
<1>1. RoundTripInv /\ [RoundTripNext]_roundTripVars => [Widens]_roundTripVars
  BY ReopenAndSaveStep DEF RoundTripNext
<1>2. QED
  BY <1>1, RoundTripInvariance, PTL DEF RoundTripSpec, SavingWidensItsProjectOnly

-----------------------------------------------------------------------------
(* The role editor (RoleEditor).                                           *)

AnyTarget == Target \cup {NoTarget}
Editor ==
  [open : BOOLEAN, creates : BOOLEAN, seed : SUBSET Atom, first : AnyTarget,
   target : AnyTarget, caps : Capabilities, gvCaps : SUBSET GvActions,
   extra : SUBSET Atom]
Request ==
  [kind : {"create", "edit", "delete"}, atoms : SUBSET Atom, shown : Editor,
   attached : BOOLEAN]

RoleTypeOK ==
  /\ role \in Role
  /\ list \in [loaded : BOOLEAN, fresh : BOOLEAN, of : Role]
  /\ editor \in Editor
  /\ puts \subseteq Request

(* What the dialog x cannot show was set aside when it was seeded.         *)
Keeps(x) ==
  /\ x.extra = SetAside(x.seed, x.first)
  /\ x.first = NoTarget => x.seed = {}

(* The atoms the dialog x sends.                                           *)
Sent(x) ==
  (CASE x.target.kind = "project" -> ProjectAtoms(x.caps, x.target.key)
     [] x.target.kind = "global-values" -> GvAtoms(x.gvCaps, x.target.key)
     [] OTHER -> {})
  \cup x.extra

(* A request that stores atoms carries those of the dialog it was sent by.  *)
Faithful(q) ==
  q.kind \in {"create", "edit"} => Keeps(q.shown) /\ q.atoms = Sent(q.shown)

RoleInv ==
  /\ RoleTypeOK
  /\ Keeps(editor)
  /\ \A q \in puts : Faithful(q)

-----------------------------------------------------------------------------
LEMMA TargetFields ==
  ASSUME NEW t \in AnyTarget
  PROVE  \/ t.kind = "project" /\ t.key \in ProjectKey
         \/ t.kind = "global-values" /\ t.key \in GroupKey
         \/ t.kind = "none" /\ t = NoTarget
  BY DEF AnyTarget, Target, NoTarget, ProjectKey, GroupKey

LEMMA NoTargetKind == NoTarget.kind = "none"
  BY DEF NoTarget

LEMMA GvAtomsType ==
  ASSUME NEW caps \in SUBSET GvActions, NEW g \in GroupKey
  PROVE  GvAtoms(caps, g) \subseteq Atom
  BY DEF GvAtoms, MkGroupAtom, Atom, Actions, GvActions, GroupKey

LEMMA SentType ==
  ASSUME NEW x \in Editor
  PROVE  Sent(x) \subseteq Atom
<1>1. /\ x.extra \subseteq Atom /\ x.caps \in Capabilities /\ x.gvCaps \in SUBSET GvActions
      /\ x.target \in AnyTarget
  BY DEF Editor
<1>2. CASE x.target.kind = "project" /\ x.target.key \in ProjectKey
  BY <1>1, <1>2, CapabilityAtomsType DEF Sent
<1>3. CASE x.target.kind = "global-values" /\ x.target.key \in GroupKey
  BY <1>1, <1>3, GvAtomsType DEF Sent
<1>4. CASE x.target.kind = "none"
  BY <1>1, <1>4 DEF Sent
<1>5. QED
  BY <1>1, <1>2, <1>3, <1>4, TargetFields

LEMMA EmptyCapabilities == EmptyProjectCapabilities \in Capabilities
  BY DEF EmptyProjectCapabilities, Capabilities, Levels

LEMMA ClosedType == Closed \in Editor /\ Keeps(Closed)
  BY EmptyCapabilities, NoTargetKind DEF Closed, Editor, AnyTarget, SetAside, Keeps

(* Every target a role may open on is one, and a role without any has no   *)
(* atoms at all.                                                           *)
LEMMA OpensOnTarget ==
  ASSUME NEW S \in SUBSET Atom, NEW t \in InferredTargets(S)
  PROVE  t \in AnyTarget /\ (t = NoTarget => S = {})
<1>1. CASE t = NoTarget
  BY <1>1, AtomsNameTargets DEF AnyTarget
<1>2. CASE t # NoTarget
  <2>1. \/ t.kind = "project" /\ t.key \in ProjectKey
        \/ t.kind = "global-values" /\ t.key \in GroupKey
    BY <1>2, InferredTargetType
  <2>2. t = [kind |-> t.kind, key |-> t.key]
    BY <1>2 DEF InferredTargets
  <2>3. t \in Target
    BY <2>1, <2>2 DEF Target, ProjectKey, GroupKey
  <2>4. QED
    BY <1>2, <2>3 DEF AnyTarget
<1>3. QED
  BY <1>1, <1>2

LEMMA SeededType ==
  ASSUME NEW S \in SUBSET Atom, NEW t \in AnyTarget, t = NoTarget => S = {},
         NEW creates \in BOOLEAN
  PROVE  Seeded(S, t, creates) \in Editor /\ Keeps(Seeded(S, t, creates))
<1> DEFINE x == Seeded(S, t, creates)
           c == IF t.kind = "project" THEN ProjectCapabilities(S, t.key)
                ELSE EmptyProjectCapabilities
           g == IF t.kind = "global-values" THEN GvCapabilities(S, t.key) ELSE {}
           e == SetAside(S, t)
<1>1. /\ c \in Capabilities /\ g \in SUBSET GvActions /\ e \in SUBSET Atom
  BY EmptyCapabilities, CapabilitiesType DEF GvCapabilities, SetAside, ExtraAtoms, GvExtraAtoms
<1>2. x = [Closed EXCEPT !.open = TRUE, !.creates = creates, !.seed = S, !.first = t,
                         !.target = t, !.caps = c, !.gvCaps = g, !.extra = e]
  BY DEF Seeded
<1> HIDE DEF c, g, e, x
<1>3. x = [open |-> TRUE, creates |-> creates, seed |-> S, first |-> t, target |-> t,
           caps |-> c, gvCaps |-> g, extra |-> e]
  BY <1>2 DEF Closed
<1>4. x \in Editor
  BY <1>1, <1>3 DEF Editor
<1>5. Keeps(x)
  BY <1>3 DEF Keeps, e
<1>6. QED
  BY <1>4, <1>5 DEF x

-----------------------------------------------------------------------------
(* The dialog's changes.                                                   *)

LEMMA EditStep ==
  ASSUME RoleInv, NEW next \in Editor, Keeps(next), Edit(next)
  PROVE  RoleInv'
  BY DEF RoleInv, RoleTypeOK, Edit

LEMMA RetargetType ==
  ASSUME NEW x \in Editor, Keeps(x), NEW t \in Target
  PROVE  /\ [x EXCEPT !.target = t] \in Editor
         /\ Keeps([x EXCEPT !.target = t])
  BY DEF Editor, Keeps, AnyTarget

LEMMA RecapType ==
  ASSUME NEW x \in Editor, Keeps(x), NEW caps \in Capabilities
  PROVE  /\ [x EXCEPT !.caps = caps] \in Editor
         /\ Keeps([x EXCEPT !.caps = caps])
  BY DEF Editor, Keeps

LEMMA RegvType ==
  ASSUME NEW x \in Editor, Keeps(x), NEW gv \in SUBSET GvActions
  PROVE  /\ [x EXCEPT !.gvCaps = gv] \in Editor
         /\ Keeps([x EXCEPT !.gvCaps = gv])
  BY DEF Editor, Keeps

(* Every change of the project part of the dialog yields capabilities.     *)
LEMMA CapsStep ==
  ASSUME RoleInv, NEW caps \in Capabilities, EditProjectCaps(caps)
  PROVE  RoleInv'
<1>1. editor \in Editor /\ Keeps(editor)
  BY DEF RoleInv, RoleTypeOK
<1>2. QED
  BY <1>1, EditStep, RecapType DEF EditProjectCaps

LEMMA ProjectChanges ==
  ASSUME RoleInv, ToggleReadProject \/ ToggleTemplate \/ SelectEnvLevel \/ ToggleProjectCap
  PROVE  RoleInv'
<1> DEFINE c == editor.caps
<1>1. c \in Capabilities
  BY DEF RoleInv, RoleTypeOK, Editor
<1> HIDE DEF c
<1>2. CASE ToggleReadProject
  <2>1. [c EXCEPT !.read_project = TRUE] \in Capabilities
    BY <1>1 DEF Capabilities
  <2>2. PICK d \in {EmptyProjectCapabilities, [c EXCEPT !.read_project = TRUE]} :
          EditProjectCaps(d)
    BY <1>2 DEF ToggleReadProject, c
  <2>3. QED
    BY <2>1, <2>2, EmptyCapabilities, CapsStep
<1>3. CASE ToggleTemplate
  <2>1. PICK t \in TemplateActions :
          EditProjectCaps([c EXCEPT !.templates = Toggle(c.templates, t)])
    BY <1>3 DEF ToggleTemplate, c
  <2>2. c.templates \in SUBSET TemplateActions
    BY <1>1 DEF Capabilities
  <2>3. Toggle(c.templates, t) \in SUBSET TemplateActions
    BY <2>2 DEF Toggle, TemplateActions
  <2>4. [c EXCEPT !.templates = Toggle(c.templates, t)] \in Capabilities
    BY <1>1, <2>3 DEF Capabilities
  <2>5. QED
    BY <2>1, <2>4, CapsStep
<1>4. CASE SelectEnvLevel
  <2>1. PICK e \in Listed, level \in Levels :
          EditProjectCaps([c EXCEPT !.envLevels[e] = level])
    BY <1>4 DEF SelectEnvLevel, c
  <2>2. [c EXCEPT !.envLevels[e] = level] \in Capabilities
    BY <1>1, <2>1, EditorConstants DEF Capabilities
  <2>3. QED
    BY <2>1, <2>2, CapsStep
<1>5. CASE ToggleProjectCap
  <2>1. PICK cap \in {"manage_environments", "manage_members_roles", "delete_project"} :
          EditProjectCaps([c EXCEPT ![cap] = ~c[cap]])
    BY <1>5 DEF ToggleProjectCap, c
  <2>2. [c EXCEPT ![cap] = ~c[cap]] \in Capabilities
    <3>1. CASE cap = "manage_environments"
      BY <1>1, <3>1 DEF Capabilities
    <3>2. CASE cap = "manage_members_roles"
      BY <1>1, <3>2 DEF Capabilities
    <3>3. CASE cap = "delete_project"
      BY <1>1, <3>3 DEF Capabilities
    <3>4. QED
      BY <3>1, <3>2, <3>3
  <2>3. QED
    BY <2>1, <2>2, CapsStep
<1>6. QED
  BY <1>2, <1>3, <1>4, <1>5

LEMMA OtherChanges ==
  ASSUME RoleInv, SelectTarget \/ ToggleGvCap
  PROVE  RoleInv'
<1>1. editor \in Editor /\ Keeps(editor) /\ editor.gvCaps \in SUBSET GvActions
  BY DEF RoleInv, RoleTypeOK, Editor
<1>2. CASE SelectTarget
  <2>1. PICK t \in [kind : {"project"}, key : Projects]
                   \cup [kind : {"global-values"}, key : Groups] :
          Edit([editor EXCEPT !.target = t])
    BY <1>2 DEF SelectTarget
  <2>2. t \in Target
    BY DEF Target
  <2>3. QED
    BY <1>1, <2>1, <2>2, RetargetType, EditStep
<1>3. CASE ToggleGvCap
  <2>1. PICK c \in GvActions : Edit([editor EXCEPT !.gvCaps = Toggle(editor.gvCaps, c)])
    BY <1>3 DEF ToggleGvCap
  <2>2. Toggle(editor.gvCaps, c) \in SUBSET GvActions
    BY <1>1 DEF Toggle, GvActions
  <2>3. QED
    BY <1>1, <2>1, <2>2, RegvType, EditStep
<1>4. QED
  BY <1>2, <1>3

-----------------------------------------------------------------------------
(* The dialog opens and closes, its requests are sent and answered.        *)

LEMMA SomeRoleType == SomeRole \subseteq Role
<1>1. Absent \in Role
  BY DEF Absent, Role
<1>2. ASSUME NEW s \in StoredRoles PROVE [exists |-> TRUE, atoms |-> s] \in Role
  <2>1. s \in SUBSET Atom
    BY EditorConstants
  <2>2. QED
    BY <2>1 DEF Role
<1>3. QED
  BY <1>1, <1>2 DEF SomeRole

LEMMA EditorSaveStep ==
  ASSUME RoleInv, Save
  PROVE  RoleInv'
<1>1. editor \in Editor /\ Keeps(editor) /\ editor.creates \in BOOLEAN
  BY DEF RoleInv, RoleTypeOK, Editor
<1>2. BuildPermissions = Sent(editor) /\ Sent(editor) \in SUBSET Atom
  BY <1>1, SentType DEF BuildPermissions, Sent
<1> DEFINE kind == IF editor.creates THEN "create" ELSE "edit"
           sent == Sent(editor)
           q == [kind |-> kind, atoms |-> sent, shown |-> editor, attached |-> TRUE]
<1>3. puts' = puts \cup {q}
  BY <1>2 DEF Save
<1>4. kind \in {"create", "edit"} /\ sent \in SUBSET Atom
  BY <1>2
<1> HIDE DEF kind, sent
<1>5. q \in Request /\ q.shown = editor /\ q.atoms = sent
  BY <1>1, <1>4 DEF Request
<1>6. Faithful(q)
  BY <1>1, <1>5 DEF Faithful, sent
<1> HIDE DEF q
<1>7. role' = role /\ list' = list /\ editor' = editor
  BY DEF Save
<1>8. puts' \subseteq Request /\ \A x \in puts' : Faithful(x)
  BY <1>3, <1>5, <1>6 DEF RoleInv, RoleTypeOK
<1>9. QED
  BY <1>7, <1>8 DEF RoleInv, RoleTypeOK

(* A request without its dialog is the request it was.                     *)
Detached(q) == [q EXCEPT !.attached = @ /\ q.kind = "create"]

LEMMA DetachedRequest ==
  ASSUME NEW q \in Request, Faithful(q)
  PROVE  Detached(q) \in Request /\ Faithful(Detached(q))
<1> DEFINE b == q.attached /\ q.kind = "create"
<1>1. b \in BOOLEAN /\ Detached(q) = [q EXCEPT !.attached = b]
  BY DEF Detached
<1> HIDE DEF b
<1>2. /\ Detached(q) \in Request /\ Detached(q).kind = q.kind
      /\ Detached(q).shown = q.shown /\ Detached(q).atoms = q.atoms
  BY <1>1 DEF Request
<1>3. QED
  BY <1>2 DEF Faithful

LEMMA DialogStep ==
  ASSUME RoleInv, OpenEditor \/ OpenCreate \/ Dismiss
  PROVE  RoleInv'
<1>1. CASE OpenEditor
  <2>1. PICK t \in InferredTargets(list.of.atoms) : editor' = Seeded(list.of.atoms, t, FALSE)
    BY <1>1 DEF OpenEditor
  <2>2. list.of.atoms \in SUBSET Atom
    BY DEF RoleInv, RoleTypeOK, Role
  <2>3. editor' \in Editor /\ Keeps(editor')
    BY <2>1, <2>2, OpensOnTarget, SeededType
  <2>4. UNCHANGED <<role, list, puts>>
    BY <1>1 DEF OpenEditor
  <2>5. QED
    BY <2>3, <2>4 DEF RoleInv, RoleTypeOK
<1>2. CASE OpenCreate
  <2>1. editor' = Seeded({}, NoTarget, TRUE) /\ UNCHANGED <<role, list, puts>>
    BY <1>2 DEF OpenCreate
  <2>2. editor' \in Editor /\ Keeps(editor')
    BY <2>1, SeededType DEF AnyTarget
  <2>3. QED
    BY <2>1, <2>2 DEF RoleInv, RoleTypeOK
<1>3. CASE Dismiss
  <2>1. /\ editor' = Closed /\ UNCHANGED <<role, list>>
        /\ puts' = {Detached(q) : q \in puts}
    BY <1>3 DEF Dismiss, Detached
  <2>2. puts' \subseteq Request /\ \A q \in puts' : Faithful(q)
    BY <2>1, DetachedRequest DEF RoleInv, RoleTypeOK
  <2>3. QED
    BY <2>1, <2>2, ClosedType DEF RoleInv, RoleTypeOK
<1>4. QED
  BY <1>1, <1>2, <1>3

LEMMA DeletionRequest == Deletion \in Request /\ Faithful(Deletion)
  BY ClosedType DEF Deletion, Request, Faithful

LEMMA DeleteStep ==
  ASSUME RoleInv, DeleteRole
  PROVE  RoleInv'
<1>1. puts' = puts \cup {Deletion} /\ UNCHANGED <<role, list, editor>>
  BY DEF DeleteRole
<1>2. puts' \subseteq Request /\ \A q \in puts' : Faithful(q)
  BY <1>1, DeletionRequest DEF RoleInv, RoleTypeOK
<1>3. QED
  BY <1>1, <1>2 DEF RoleInv, RoleTypeOK

LEMMA AnswerStep ==
  ASSUME RoleInv, RequestSucceeds \/ RequestFails
  PROVE  RoleInv'
<1>1. ASSUME NEW q \in puts PROVE Stored(q) \in Role
  BY DEF Stored, Absent, Role, RoleInv, RoleTypeOK, Request
<1>2. role' \in Role /\ puts' \subseteq puts
  BY <1>1 DEF RequestSucceeds, RequestFails, RoleInv, RoleTypeOK
<1>3. list' \in [loaded : BOOLEAN, fresh : BOOLEAN, of : Role]
  BY DEF RequestSucceeds, RequestFails, RoleInv, RoleTypeOK
<1>4. editor' \in {Closed, editor}
  BY DEF RequestSucceeds, RequestFails
<1>5. QED
  BY <1>2, <1>3, <1>4, ClosedType DEF RoleInv, RoleTypeOK

LEMMA ServerStep ==
  ASSUME RoleInv, OtherSuperuser \/ LoadRoles
  PROVE  RoleInv'
<1>1. UNCHANGED <<editor, puts>>
  BY DEF OtherSuperuser, LoadRoles
<1>2. role' \in Role
  BY SomeRoleType DEF OtherSuperuser, LoadRoles, RoleInv, RoleTypeOK
<1>3. list' \in [loaded : BOOLEAN, fresh : BOOLEAN, of : Role]
  <2>1. list' = list \/ list' = [loaded |-> TRUE, fresh |-> TRUE, of |-> role]
    BY DEF OtherSuperuser, LoadRoles
  <2>2. list \in [loaded : BOOLEAN, fresh : BOOLEAN, of : Role] /\ role \in Role
    BY DEF RoleInv, RoleTypeOK
  <2>3. [loaded |-> TRUE, fresh |-> TRUE, of |-> role]
          \in [loaded : BOOLEAN, fresh : BOOLEAN, of : Role]
    BY <2>2
  <2>4. QED
    BY <2>1, <2>2, <2>3, Zenon
<1>4. QED
  BY <1>1, <1>2, <1>3 DEF RoleInv, RoleTypeOK

THEOREM RoleInvariance == RoleSpec => []RoleInv
<1>1. RoleInit => RoleInv
  <2>1. Absent \in Role
    BY DEF Absent, Role
  <2>2. QED
    BY <2>1, SomeRoleType, ClosedType DEF RoleInit, RoleInv, RoleTypeOK
<1>2. RoleInv /\ [RoleNext]_roleVars => RoleInv'
  <2>1. ASSUME RoleInv, UNCHANGED roleVars PROVE RoleInv'
    BY <2>1 DEF RoleInv, RoleTypeOK, roleVars
  <2>2. ASSUME RoleInv, RoleNext PROVE RoleInv'
    BY <2>2, ServerStep, DialogStep, ProjectChanges, OtherChanges, EditorSaveStep, DeleteStep,
       AnswerStep, Zenon DEF RoleNext
  <2>3. QED
    BY <2>1, <2>2
<1>3. QED
  BY <1>1, <1>2, PTL DEF RoleSpec

-----------------------------------------------------------------------------
(* Atoms of other scopes were set aside, and what was set aside is sent.   *)
THEOREM OtherScopesAlwaysSurvive == RoleSpec => []OtherScopesSurvive
<1>1. ASSUME NEW x \in Editor, Keeps(x), NEW a \in x.seed, ~OnScope(a, x.first)
      PROVE  a \in Sent(x)
  <2>1. a \in x.extra
    BY <1>1 DEF Keeps, SetAside, OnScope, ExtraAtoms, Shown, GvExtraAtoms
  <2>2. QED
    BY <2>1 DEF Sent
<1>2. RoleInv => OtherScopesSurvive
  <2>1. ASSUME RoleInv, NEW q \in puts, q.kind = "edit"
        PROVE  q.shown \in Editor /\ Keeps(q.shown) /\ q.atoms = Sent(q.shown)
    BY <2>1 DEF RoleInv, RoleTypeOK, Request, Faithful
  <2>2. QED
    BY <1>1, <2>1 DEF OtherScopesSurvive
<1>3. QED
  BY <1>2, RoleInvariance, PTL

(* The capabilities of the dialog that sent a role are read back from it.  *)
THEOREM SavedRolesReopenAsShown == RoleSpec => []SavedRoleReopensAsShown
<1>1. ASSUME NEW x \in Editor, Keeps(x), x.first \in {NoTarget, x.target}
      PROVE  /\ x.target.kind = "project" =>
                  ProjectCapabilities(Sent(x), x.target.key) = x.caps
             /\ x.target.kind = "global-values" =>
                  GvCapabilities(Sent(x), x.target.key) = x.gvCaps
  <2>1. x.caps \in Capabilities /\ x.gvCaps \in SUBSET GvActions /\ x.target \in AnyTarget
    BY DEF Editor
  <2>2. CASE x.target.kind = "project"
    <3>1. Sent(x) = ProjectAtoms(x.caps, x.target.key) \cup x.extra
      BY <2>2 DEF Sent
    <3>2. Unshown(x.extra, x.target.key)
      <4>1. CASE x.first = NoTarget
        BY <1>1, <4>1, NoTargetKind DEF Keeps, SetAside, Unshown
      <4>2. CASE x.first = x.target
        BY <1>1, <2>2, <4>2, ExtraIsUnshown DEF Keeps, SetAside
      <4>3. QED
        BY <1>1, <4>1, <4>2
    <3>3. x.target.key \in ProjectKey
      BY <2>1, <2>2, TargetFields
    <3>4. QED
      BY <2>1, <2>2, <3>1, <3>2, <3>3, CapabilitiesReadBack
  <2>3. CASE x.target.kind = "global-values"
    <3>1. Sent(x) = GvAtoms(x.gvCaps, x.target.key) \cup x.extra
      BY <2>3 DEF Sent
    <3>2. \E S : x.extra = GvExtraAtoms(S, x.target.key)
      <4>1. CASE x.first = NoTarget
        <5>1. x.extra = {} /\ GvExtraAtoms({}, x.target.key) = {}
          BY <1>1, <4>1, NoTargetKind DEF Keeps, SetAside, GvExtraAtoms
        <5>2. QED
          BY <5>1
      <4>2. CASE x.first = x.target
        BY <1>1, <2>3, <4>2 DEF Keeps, SetAside
      <4>3. QED
        BY <1>1, <4>1, <4>2
    <3>3. QED
      BY <2>1, <2>3, <3>1, <3>2, GvCapabilitiesReadBack
  <2>4. QED
    BY <2>2, <2>3
<1>2. RoleInv => SavedRoleReopensAsShown
  BY <1>1 DEF RoleInv, RoleTypeOK, Request, Faithful, SavedRoleReopensAsShown
<1>3. QED
  BY <1>2, RoleInvariance, PTL
=============================================================================
