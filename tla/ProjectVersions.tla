--------------------------- MODULE ProjectVersions ---------------------------
(***************************************************************************)
(* The content of one project: its environments, its versions, what each   *)
(* author has staged on top of the latest one, what the workspace pages    *)
(* show of that, and the deployments that pin a version. How a pull        *)
(* request becomes approved is the matter of PullRequests, and that a      *)
(* merge may be one step that of MergeLocks; here, what merging writes.    *)
(***************************************************************************)
EXTENDS Naturals, Sequences, FiniteSets

CONSTANTS
  Author, TemplateName, EnvName,
  Body, Payload,       \* of templates, of an environment's values
  Required, Complete,  \* bodies with variables, payloads that supply them
  Deployment,          \* deployment requests
  MaxVersions, MaxEnvs \* bounds: versions, environments ever created

Missing == "missing"
Unchanged == "unchanged"
Deleted == "deleted"
Created == "created"

ASSUME VersionConstants ==
  /\ {Missing, Unchanged, Deleted} \cap (Body \cup Payload) = {}
  /\ Required \subseteq Body /\ Complete \subseteq Payload
  /\ IsFiniteSet(EnvName)
  /\ MaxVersions \in Nat /\ MaxEnvs \in Nat

(* An environment is a row with an id; a deleted and recreated one is      *)
(* another row of the same name.                                           *)
EnvId == 1..MaxEnvs
NoEnv == 0

VARIABLES
  exists,       \* the project has not been deleted
  versions,     \* per version: a body per template, a payload per environment id
  environments, \* the id of each environment, or NoEnv
  lastEnv,      \* the last id given out
  workspace,    \* of each author: what is staged, and whether it is submitted
  deploying,    \* each deployment request: its step and what it has read
  deployments   \* the deployments recorded

versionVars ==
  <<exists, versions, environments, lastEnv, workspace, deploying, deployments>>

Snapshot == [templates : [TemplateName -> Body \cup {Missing}],
             values : [EnvId -> Payload \cup {Missing}]]
EmptySnapshot == [templates |-> [t \in TemplateName |-> Missing],
                  values |-> [i \in EnvId |-> Missing]]

Workspace == [templates : [TemplateName -> Body \cup {Unchanged, Deleted}],
              values : [EnvName -> Payload \cup {Unchanged, Deleted}],
              environments : [EnvName -> {Unchanged, Created, Deleted}],
              submitted : BOOLEAN]
NothingStaged == [templates |-> [t \in TemplateName |-> Unchanged],
                  values |-> [e \in EnvName |-> Unchanged],
                  environments |-> [e \in EnvName |-> Unchanged],
                  submitted |-> FALSE]

Pinned == [env : EnvId, version : 1..MaxVersions,
           templates : [TemplateName -> Body \cup {Missing}], values : Payload]
NotDeploying == [step |-> "idle"]

VersionsInit ==
  /\ exists = TRUE
  /\ versions = <<>>
  /\ environments = [e \in EnvName |-> NoEnv]
  /\ lastEnv = 0
  /\ workspace = [a \in Author |-> NothingStaged]
  /\ deploying = [r \in Deployment |-> NotDeploying]
  /\ deployments = {}

Latest == IF versions = <<>> THEN EmptySnapshot ELSE versions[Len(versions)]

-----------------------------------------------------------------------------
(* Reads: what is live, and what the workspace shows of it.                *)

Items(bodies) ==
  {[name |-> t, body |-> bodies[t]] : t \in {u \in TemplateName : bodies[u] # Missing}}

LiveTemplates == Items(Latest.templates)
LiveEnvironments == {e \in EnvName : environments[e] # NoEnv}

(* GetLatest, of the values: the latest version's, or none.                *)
LiveValues(e) == IF e \in LiveEnvironments THEN Latest.values[environments[e]] ELSE Missing

(* Live templates with staged bodies, staged deletes hidden; then the      *)
(* staged templates that are not live.                                     *)
EffectiveTemplates(a) ==
  LET live == Latest.templates
      staged == workspace[a].templates
      kept == {t \in TemplateName : live[t] # Missing /\ staged[t] # Deleted}
      new == {t \in TemplateName : live[t] = Missing /\ staged[t] \notin {Unchanged, Deleted}}
  IN {[name |-> t, body |-> IF staged[t] = Unchanged THEN live[t] ELSE staged[t]] : t \in kept}
     \cup {[name |-> t, body |-> staged[t]] : t \in new}

(* Mutant: environments staged for deletion still show.                    *)
EnvironmentsWithDeleted(a) ==
  LiveEnvironments \cup {e \in EnvName : workspace[a].environments[e] = Created}

EffectiveEnvironments(a) ==
  LET staged == workspace[a].environments
  IN {e \in LiveEnvironments : staged[e] # Deleted}
     \cup {e \in EnvName \ LiveEnvironments : staged[e] = Created}

(* The latest version that has values for the environment, which need not  *)
(* be the latest version.                                                  *)
WithValues(e) ==
  {v \in DOMAIN versions : e \in LiveEnvironments /\ versions[v].values[environments[e]] # Missing}
LastValues(e) ==
  IF WithValues(e) = {} THEN Missing
  ELSE LET last == CHOOSE v \in WithValues(e) : \A w \in WithValues(e) : w <= v
       IN versions[last].values[environments[e]]

EffectiveValues(a, e) ==
  LET staged == workspace[a].values[e]
  IN IF staged = Deleted THEN Missing
     ELSE IF staged # Unchanged THEN staged ELSE LastValues(e)

(* The values supply the variables that a template requires. (Rendering    *)
(* itself does not fail without them: it writes "<no value>".)             *)
Supplied(body, payload) == body \in Required => payload \in Complete

(* validateWorkspace finds no problem.                                     *)
Valid(a) ==
  LET bodies == {t.body : t \in EffectiveTemplates(a)}
  IN IF EffectiveEnvironments(a) = {} THEN bodies \cap Required = {}
     ELSE \A e \in EffectiveEnvironments(a), b \in bodies : Supplied(b, EffectiveValues(a, e))

-----------------------------------------------------------------------------
(* The workspace. Nothing is checked against what is live when a change is *)
(* staged, and a submitted workspace may be edited further.                *)

Stage(a, next) ==
  /\ exists /\ next # workspace[a]
  /\ workspace' = [workspace EXCEPT ![a] = next]
  /\ UNCHANGED <<exists, versions, environments, lastEnv, deploying, deployments>>

StageTemplate(a) ==
  \E t \in TemplateName, change \in Body \cup {Deleted} :
    Stage(a, [workspace[a] EXCEPT !.templates[t] = change])

StageEnvironment(a) ==
  \E e \in EnvName, change \in {Created, Deleted} :
    Stage(a, [workspace[a] EXCEPT !.environments[e] = change])

StageValues(a) ==
  \E e \in EnvName, change \in Payload \cup {Deleted} :
    Stage(a, [workspace[a] EXCEPT !.values[e] = change])

UnstageChange(a) ==
  \/ \E t \in TemplateName : Stage(a, [workspace[a] EXCEPT !.templates[t] = Unchanged])
  \/ \E e \in EnvName : \/ Stage(a, [workspace[a] EXCEPT !.values[e] = Unchanged])
                        \/ Stage(a, [workspace[a] EXCEPT !.environments[e] = Unchanged])

(* A draft is discarded, or a submitted pull request closed.               *)
Discard(a) == Stage(a, NothingStaged)

SubmitDraft(a) ==
  /\ ~workspace[a].submitted /\ Valid(a)
  /\ Stage(a, [workspace[a] EXCEPT !.submitted = TRUE])

-----------------------------------------------------------------------------
(* Merging: environments are created first, then the latest version is     *)
(* copied with the staged changes laid over it, then environments are      *)
(* deleted with their values in every version.                             *)

ToCreate(a) == {e \in EnvName \ LiveEnvironments : workspace[a].environments[e] = Created}

(* The environments after the creates: each new one has an id of its own.  *)
AfterCreates(a) ==
  {envs \in [EnvName -> EnvId \cup {NoEnv}] :
     /\ \A e \in EnvName \ ToCreate(a) : envs[e] = environments[e]
     /\ \A e \in ToCreate(a) : envs[e] \in (lastEnv + 1)..(lastEnv + Cardinality(ToCreate(a)))
     /\ \A e, f \in ToCreate(a) : envs[e] = envs[f] => e = f}

(* Values are staged for environments that are there, or the merge fails.  *)
ValuesHaveEnvironments(a, envs) ==
  \A e \in EnvName : workspace[a].values[e] \in Payload => envs[e] # NoEnv

(* Mutant: the copy is made of the first version.                          *)
SnapshotOfFirst(a, envs) ==
  LET staged == workspace[a]
      base == IF versions = <<>> THEN EmptySnapshot ELSE versions[1]
  IN [templates |-> [t \in TemplateName |->
        CASE staged.templates[t] = Unchanged -> base.templates[t]
          [] staged.templates[t] = Deleted -> Missing
          [] OTHER -> staged.templates[t]],
      values |-> base.values]

ApplySnapshot(a, envs) ==
  LET staged == workspace[a]
      changed == {e \in EnvName : envs[e] # NoEnv /\ staged.values[e] # Unchanged}
  IN [templates |-> [t \in TemplateName |->
        CASE staged.templates[t] = Unchanged -> Latest.templates[t]
          [] staged.templates[t] = Deleted -> Missing
          [] OTHER -> staged.templates[t]],
      values |-> [i \in EnvId |->
        IF \E e \in changed : envs[e] = i
        THEN LET change == staged.values[CHOOSE e \in changed : envs[e] = i]
             IN IF change = Deleted THEN Missing ELSE change
        ELSE Latest.values[i]]]

ToDelete(a, envs) ==
  {e \in EnvName : envs[e] # NoEnv /\ workspace[a].environments[e] = Deleted}
Ids(envs, names) == {envs[e] : e \in names}

WithoutValuesOf(snapshot, ids) ==
  [snapshot EXCEPT !.values = [i \in EnvId |-> IF i \in ids THEN Missing ELSE @[i]]]

(* Mutant: deployments of a deleted environment are no obstacle.           *)
DeletableAlways(ids) == TRUE

(* A deployment refers to its environment: the row cannot be deleted.      *)
Deletable(ids) == \A d \in deployments : d.env \notin ids

Merge(a) ==
  /\ exists /\ workspace[a].submitted /\ Len(versions) < MaxVersions
  /\ \E envs \in AfterCreates(a) :
       LET gone == Ids(envs, ToDelete(a, envs))
           all == Append(versions, ApplySnapshot(a, envs))
       IN /\ ValuesHaveEnvironments(a, envs)
          /\ Deletable(gone)
          /\ versions' = [v \in DOMAIN all |-> WithoutValuesOf(all[v], gone)]
          /\ environments' =
               [e \in EnvName |-> IF e \in ToDelete(a, envs) THEN NoEnv ELSE envs[e]]
  /\ lastEnv' = lastEnv + Cardinality(ToCreate(a))
  /\ workspace' = [b \in Author |-> NothingStaged]
  /\ UNCHANGED <<exists, deploying, deployments>>

-----------------------------------------------------------------------------
(* Deploying: the environment is looked up, the pinned content read and    *)
(* rendered, and the deployment inserted, each in a statement of its own.  *)
(* The templates and the values are two reads, but a version's templates   *)
(* change no more, so the first may be taken together with the second.     *)

ResolveProjectEnv(r) ==
  /\ exists /\ deploying[r] = NotDeploying
  /\ \E e \in LiveEnvironments :
       deploying' = [deploying EXCEPT ![r] = [step |-> "resolved", env |-> environments[e]]]
  /\ UNCHANGED <<exists, versions, environments, lastEnv, workspace, deployments>>

FetchPinned(r) ==
  /\ deploying[r].step = "resolved"
  /\ \E v \in DOMAIN versions :
       LET env == deploying[r].env
           s == versions[v]
       IN /\ s.values[env] # Missing
           /\ deploying' = [deploying EXCEPT ![r] =
               [step |-> "rendered",
                pins |-> [env |-> env, version |-> v, templates |-> s.templates,
                          values |-> s.values[env]]]]
  /\ UNCHANGED <<exists, versions, environments, lastEnv, workspace, deployments>>

(* The row refers to its environment and its version.                      *)
InsertDeployment(r) ==
  /\ deploying[r].step = "rendered"
  /\ deploying[r].pins.env \in Ids(environments, LiveEnvironments)
  /\ deploying[r].pins.version \in DOMAIN versions
  /\ deployments' = deployments \cup {deploying[r].pins}
  /\ deploying' = [deploying EXCEPT ![r] = NotDeploying]
  /\ UNCHANGED <<exists, versions, environments, lastEnv, workspace>>

(* Refused, failed, or only a preview.                                     *)
EndDeployment(r) ==
  /\ deploying[r] # NotDeploying
  /\ deploying' = [deploying EXCEPT ![r] = NotDeploying]
  /\ UNCHANGED <<exists, versions, environments, lastEnv, workspace, deployments>>

DeleteProject ==
  /\ exists
  /\ exists' = FALSE
  /\ versions' = <<>>
  /\ environments' = [e \in EnvName |-> NoEnv]
  /\ workspace' = [a \in Author |-> NothingStaged]
  /\ deployments' = {}
  /\ UNCHANGED <<lastEnv, deploying>>

-----------------------------------------------------------------------------
VersionsNext ==
  \/ \E a \in Author :
       \/ StageTemplate(a) \/ StageEnvironment(a) \/ StageValues(a) \/ UnstageChange(a)
       \/ Discard(a) \/ SubmitDraft(a) \/ Merge(a)
  \/ \E r \in Deployment :
       ResolveProjectEnv(r) \/ FetchPinned(r) \/ InsertDeployment(r) \/ EndDeployment(r)
  \/ DeleteProject

VersionsSpec == VersionsInit /\ [][VersionsNext]_versionVars

-----------------------------------------------------------------------------
(* "Fully reproducible and auditable" (docs/version-control.md): whatever  *)
(* is merged while a deployment is made or afterwards, its environment is  *)
(* still there and the version it pins still has the content it rendered.  *)
DeploymentsAreReproducible ==
  \A d \in deployments :
    /\ d.env \in Ids(environments, LiveEnvironments)
    /\ d.version \in DOMAIN versions
    /\ versions[d.version].templates = d.templates
    /\ versions[d.version].values[d.env] = d.values

(* What an author sees in the workspace before a merge - templates,        *)
(* environments, values - is what everybody sees after it, except where    *)
(* the values of an environment were deleted by an earlier merge: the      *)
(* workspace shows those still.                                            *)
Resurrected(a, e) ==
  workspace[a].values[e] = Unchanged /\ LastValues(e) # LiveValues(e)

MergeMakesWhatWorkspaceShows ==
  [][\A a \in Author :
       Merge(a) =>
         /\ LiveTemplates' = EffectiveTemplates(a)
         /\ LiveEnvironments' = EffectiveEnvironments(a)
         /\ \A e \in EffectiveEnvironments(a) :
              ~Resurrected(a, e) => LiveValues(e)' = EffectiveValues(a, e)]_versionVars

(* "A workspace with no problems is safe to submit" (workspace_validate):  *)
(* once it is merged as it is, every environment has values for every      *)
(* template.                                                               *)
ValidWorkspaceIsSafe ==
  [][\A a \in Author :
       (Merge(a) /\ Valid(a)) =>
         \A t \in LiveTemplates', e \in LiveEnvironments' :
           Supplied(t.body, LiveValues(e)')]_versionVars
=============================================================================
