------------------------------ MODULE ServerProofs ------------------------------
(***************************************************************************)
(* The server, for any number of users, authors, templates, environments,  *)
(* deployments and requests. First the contents of a project               *)
(* (ProjectVersions): a deployment stays reproducible, and a merge makes   *)
(* what the workspace shows. Then both parts of the server together, with  *)
(* what AccessProofs has of the other one.                                 *)
(*                                                                         *)
(* The invariant is about the deployments under way. What one has read may *)
(* be outdated when it is inserted; but if its environment and its version *)
(* are still there, so is what it read, because an environment's id is     *)
(* never given out twice, versions only grow, and what is taken out of a   *)
(* version belongs to an environment that is gone.                         *)
(***************************************************************************)
EXTENDS Server, AccessProofs, FiniteSetTheorems, TLAPS

LiveIds == Ids(environments, LiveEnvironments)

(* What is pinned is what the version contains.                            *)
IsContent(p) ==
  /\ versions[p.version].templates = p.templates
  /\ versions[p.version].values[p.env] = p.values

VersionsTypeOK ==
  /\ exists \in BOOLEAN
  /\ versions \in Seq(Snapshot)
  /\ lastEnv \in Nat
  /\ environments \in [EnvName -> EnvId \cup {NoEnv}]
  /\ deploying \in [Deployment -> {NotDeploying}
                      \cup [step : {"resolved"}, env : EnvId]
                      \cup [step : {"rendered"},
                            pins : [env : EnvId, version : Nat,
                                    templates : [TemplateName -> Body \cup {Missing}],
                                    values : Payload \cup {Missing}]]]
  /\ workspace \in [Author -> Workspace]

IdsAreOld ==
  /\ \A e \in EnvName : environments[e] <= lastEnv
  /\ \A e, f \in EnvName : (environments[e] = environments[f] /\ environments[e] # NoEnv) => e = f
  /\ \A v \in DOMAIN versions, i \in EnvId : i > lastEnv => versions[v].values[i] = Missing

DeletedIsEmpty == ~exists => \A e \in EnvName : environments[e] = NoEnv

ResolvedIsOld ==
  \A r \in Deployment : deploying[r].step = "resolved" => deploying[r].env <= lastEnv

RenderedIsContent ==
  \A r \in Deployment : deploying[r].step = "rendered" =>
    LET p == deploying[r].pins
    IN /\ p.env <= lastEnv
       /\ exists => p.version \in DOMAIN versions
       /\ p.env \in LiveIds /\ p.version \in DOMAIN versions => IsContent(p)

DeployedIsContent ==
  \A d \in deployments :
    /\ d.env \in EnvId
    /\ d.env \in LiveIds
    /\ d.version \in DOMAIN versions
    /\ IsContent(d)

VersionsInv ==
  /\ VersionsTypeOK /\ IdsAreOld /\ DeletedIsEmpty
  /\ ResolvedIsOld /\ RenderedIsContent /\ DeployedIsContent

-----------------------------------------------------------------------------
LEMMA InitInv == VersionsInit => VersionsInv
<1> SUFFICES ASSUME VersionsInit PROVE VersionsInv
  OBVIOUS
<1>1. VersionsTypeOK
  <2>1. [a \in Author |-> NothingStaged] \in [Author -> Workspace]
    BY DEF NothingStaged, Workspace
  <2>2. versions \in Seq(Snapshot)
    BY DEF VersionsInit
  <2>. QED
    BY <2>1, <2>2 DEF VersionsInit, VersionsTypeOK
<1>2. IdsAreOld
  BY DEF VersionsInit, IdsAreOld, NoEnv
<1>3. ResolvedIsOld /\ RenderedIsContent
  BY DEF VersionsInit, ResolvedIsOld, RenderedIsContent, NotDeploying
<1>. QED
  BY <1>1, <1>2, <1>3 DEF VersionsInit, VersionsInv, DeletedIsEmpty, DeployedIsContent

-----------------------------------------------------------------------------
(* Staging changes a workspace and nothing else.                           *)
LEMMA StageKeepsInv ==
  ASSUME VersionsInv, NEW a \in Author, NEW next \in Workspace, Stage(a, next)
  PROVE  VersionsInv'
<1>. USE DEF Stage, VersionsInv
<1>1. VersionsTypeOK'
  BY DEF VersionsTypeOK
<1>2. IdsAreOld' /\ DeletedIsEmpty' /\ ResolvedIsOld'
  BY DEF IdsAreOld, DeletedIsEmpty, ResolvedIsOld
<1>3. LiveIds' = LiveIds /\ \A p : IsContent(p)' = IsContent(p)
  BY DEF LiveIds, Ids, LiveEnvironments, IsContent
<1>4. RenderedIsContent' /\ DeployedIsContent'
  BY <1>3 DEF RenderedIsContent, DeployedIsContent, IsContent, LiveIds, Ids, LiveEnvironments
<1>. QED
  BY <1>1, <1>2, <1>4

(* What is staged is a workspace again.                                    *)
LEMMA StagedIsWorkspace ==
  ASSUME VersionsTypeOK, NEW a \in Author
  PROVE  /\ NothingStaged \in Workspace
         /\ [workspace[a] EXCEPT !.submitted = TRUE] \in Workspace
         /\ \A t \in TemplateName, change \in Body \cup {Unchanged, Deleted} :
              [workspace[a] EXCEPT !.templates[t] = change] \in Workspace
         /\ \A e \in EnvName, change \in {Unchanged, Created, Deleted} :
              [workspace[a] EXCEPT !.environments[e] = change] \in Workspace
         /\ \A e \in EnvName, change \in Payload \cup {Unchanged, Deleted} :
              [workspace[a] EXCEPT !.values[e] = change] \in Workspace
<1>1. workspace[a] \in Workspace
  BY DEF VersionsTypeOK
<1>2. NothingStaged \in Workspace
  BY DEF NothingStaged, Workspace
<1>. QED
  BY <1>1, <1>2 DEF Workspace

-----------------------------------------------------------------------------
(* What a merge has to do with environments: their ids.                    *)
AfterMerge(a, envs, gone) ==
  /\ envs \in AfterCreates(a)
  /\ gone = Ids(envs, ToDelete(a, envs))
  /\ ValuesHaveEnvironments(a, envs)
  /\ Deletable(gone)
  /\ versions' = [v \in DOMAIN Append(versions, ApplySnapshot(a, envs)) |->
                    WithoutValuesOf(Append(versions, ApplySnapshot(a, envs))[v], gone)]
  /\ environments' = [e \in EnvName |-> IF e \in ToDelete(a, envs) THEN NoEnv ELSE envs[e]]

LEMMA MergePicks ==
  ASSUME NEW a, Merge(a)
  PROVE  \E envs, gone : AfterMerge(a, envs, gone)
BY DEF Merge, AfterMerge

(* Ids given out are new, and never two environments have the same.        *)
LEMMA MergedIds ==
  ASSUME VersionsInv, NEW a \in Author, Merge(a),
         NEW envs, NEW gone, AfterMerge(a, envs, gone)
  PROVE  /\ lastEnv' \in Nat /\ lastEnv' >= lastEnv
         /\ envs \in [EnvName -> EnvId \cup {NoEnv}]
         /\ \A e \in EnvName : envs[e] <= lastEnv'
         /\ \A e \in EnvName \ ToCreate(a) : envs[e] = environments[e]
         /\ \A e \in ToCreate(a) : environments[e] = NoEnv /\ envs[e] > lastEnv
         /\ \A e, f \in EnvName : (envs[e] = envs[f] /\ envs[e] # NoEnv) => e = f
<1>1. ToCreate(a) \subseteq EnvName /\ \A e \in ToCreate(a) : environments[e] = NoEnv
  BY DEF ToCreate, LiveEnvironments
<1>2. IsFiniteSet(ToCreate(a)) /\ Cardinality(ToCreate(a)) \in Nat
  BY <1>1, FS_Subset, FS_CardinalityType, VersionConstants DEF VersionConstants
<1>3. lastEnv \in Nat /\ lastEnv' = lastEnv + Cardinality(ToCreate(a))
  BY DEF Merge, VersionsInv, VersionsTypeOK
<1>4. /\ envs \in [EnvName -> EnvId \cup {NoEnv}]
      /\ \A e \in EnvName \ ToCreate(a) : envs[e] = environments[e]
      /\ \A e \in ToCreate(a) : envs[e] \in (lastEnv + 1)..(lastEnv + Cardinality(ToCreate(a)))
      /\ \A e, f \in ToCreate(a) : envs[e] = envs[f] => e = f
  BY DEF AfterMerge, AfterCreates
<1>5. \A e \in ToCreate(a) : envs[e] > lastEnv /\ envs[e] <= lastEnv'
  BY <1>2, <1>3, <1>4
<1>6. \A e \in EnvName : environments[e] \in Nat /\ environments[e] <= lastEnv
  BY VersionConstants DEF VersionsInv, VersionsTypeOK, IdsAreOld, EnvId, NoEnv
<1>7. \A e \in EnvName : envs[e] <= lastEnv'
  BY <1>2, <1>3, <1>4, <1>5, <1>6
<1>8. \A e, f \in EnvName : (envs[e] = envs[f] /\ envs[e] # NoEnv) => e = f
  BY <1>3, <1>4, <1>5, <1>6 DEF VersionsInv, IdsAreOld
<1>. QED
  BY <1>1, <1>2, <1>3, <1>4, <1>5, <1>7, <1>8

(* The new version, before the deletes.                                    *)
LEMMA SnapshotType ==
  ASSUME VersionsInv, NEW a \in Author, Merge(a),
         NEW envs, NEW gone, AfterMerge(a, envs, gone)
  PROVE  /\ Latest \in Snapshot
         /\ ApplySnapshot(a, envs) \in Snapshot
         /\ \A i \in EnvId : i > lastEnv' => ApplySnapshot(a, envs).values[i] = Missing
<1>1. Latest \in Snapshot
  <2>1. EmptySnapshot \in Snapshot
    BY DEF EmptySnapshot, Snapshot
  <2>. QED
    BY <2>1 DEF Latest, VersionsInv, VersionsTypeOK
<1>2. workspace[a] \in Workspace
  BY DEF VersionsInv, VersionsTypeOK
<1>. DEFINE staged == workspace[a]
            changed == {e \in EnvName : envs[e] # NoEnv /\ staged.values[e] # Unchanged}
            body(t) == CASE staged.templates[t] = Unchanged -> Latest.templates[t]
                         [] staged.templates[t] = Deleted -> Missing
                         [] OTHER -> staged.templates[t]
            change(i) == staged.values[CHOOSE e \in changed : envs[e] = i]
            payload(i) == IF \E e \in changed : envs[e] = i
                          THEN IF change(i) = Deleted THEN Missing ELSE change(i)
                          ELSE Latest.values[i]
<1>3. ApplySnapshot(a, envs) = [templates |-> [t \in TemplateName |-> body(t)],
                                values |-> [i \in EnvId |-> payload(i)]]
  BY DEF ApplySnapshot
<1>4. \A t \in TemplateName : body(t) \in Body \cup {Missing}
  BY <1>1, <1>2 DEF Workspace, Snapshot
<1>5. ASSUME NEW i \in EnvId PROVE payload(i) \in Payload \cup {Missing}
  <2>1. CASE \E e \in changed : envs[e] = i
    <3>1. (CHOOSE e \in changed : envs[e] = i) \in changed
      BY <2>1
    <3>2. change(i) \in Payload \cup {Deleted}
      BY <1>2, <3>1 DEF Workspace
    <3>. QED
      BY <2>1, <3>2
  <2>2. CASE ~\E e \in changed : envs[e] = i
    BY <1>1, <2>2 DEF Snapshot
  <2>. QED
    BY <2>1, <2>2
<1>6. ASSUME NEW i \in EnvId, i > lastEnv' PROVE payload(i) = Missing
  <2>1. lastEnv' \in Nat /\ lastEnv \in Nat /\ lastEnv' >= lastEnv /\ i \in Nat
        /\ envs \in [EnvName -> EnvId \cup {NoEnv}]
        /\ \A e \in EnvName : envs[e] <= lastEnv'
    BY MergedIds, VersionConstants DEF VersionsInv, VersionsTypeOK, EnvId
  <2>2. ~\E e \in changed : envs[e] = i
    BY <1>6, <2>1
  <2>3. Latest.values[i] = Missing
    <3>1. CASE versions = <<>>
      BY <3>1 DEF Latest, EmptySnapshot
    <3>2. CASE versions # <<>>
      <4>1. Len(versions) \in DOMAIN versions /\ Latest = versions[Len(versions)]
        BY <3>2 DEF Latest, VersionsInv, VersionsTypeOK
      <4>2. i > lastEnv
        BY <1>6, <2>1
      <4>. QED
        BY <4>1, <4>2 DEF VersionsInv, IdsAreOld
    <3>. QED
      BY <3>1, <3>2
  <2>. QED
    BY <2>2, <2>3
<1>7. ApplySnapshot(a, envs) \in Snapshot
  BY <1>3, <1>4, <1>5 DEF Snapshot
<1>. HIDE DEF payload, body
<1>8. \A i \in EnvId : ApplySnapshot(a, envs).values[i] = payload(i)
  BY <1>3
<1>. QED
  BY <1>1, <1>6, <1>7, <1>8

(* The versions after the merge: what was there stays, but for the values  *)
(* of environments that are gone.                                          *)
LEMMA MergedVersions ==
  ASSUME VersionsInv, NEW a \in Author, Merge(a),
         NEW envs, NEW gone, AfterMerge(a, envs, gone)
  PROVE  /\ versions' \in Seq(Snapshot)
         /\ Len(versions') = Len(versions) + 1
         /\ DOMAIN versions \subseteq DOMAIN versions'
         /\ \A v \in DOMAIN versions :
              /\ versions'[v].templates = versions[v].templates
              /\ \A i \in EnvId : versions'[v].values[i] =
                   IF i \in gone THEN Missing ELSE versions[v].values[i]
         /\ versions'[Len(versions) + 1].templates = ApplySnapshot(a, envs).templates
         /\ \A i \in EnvId : versions'[Len(versions) + 1].values[i] =
              IF i \in gone THEN Missing ELSE ApplySnapshot(a, envs).values[i]
<1>. DEFINE new == ApplySnapshot(a, envs)
            all == Append(versions, new)
<1>1. new \in Snapshot /\ versions \in Seq(Snapshot)
  BY SnapshotType DEF VersionsInv, VersionsTypeOK
<1>. HIDE DEF new
<1>2. /\ all \in Seq(Snapshot) /\ Len(all) = Len(versions) + 1
      /\ all[Len(versions) + 1] = new
      /\ \A v \in DOMAIN versions : all[v] = versions[v]
  BY <1>1
<1>3. versions' = [v \in DOMAIN all |-> WithoutValuesOf(all[v], gone)]
  BY DEF AfterMerge, new
<1>4. ASSUME NEW s \in Snapshot
      PROVE  /\ WithoutValuesOf(s, gone) \in Snapshot
             /\ WithoutValuesOf(s, gone).templates = s.templates
             /\ \A i \in EnvId : WithoutValuesOf(s, gone).values[i] =
                  IF i \in gone THEN Missing ELSE s.values[i]
  BY DEF WithoutValuesOf, Snapshot
<1>. HIDE DEF all
<1>5. /\ DOMAIN all = 1..Len(all) /\ Len(all) \in Nat
      /\ DOMAIN versions = 1..Len(versions) /\ Len(versions) \in Nat
      /\ \A v \in DOMAIN all : all[v] \in Snapshot
  BY <1>1, <1>2
<1>6. DOMAIN versions' = 1..(Len(versions) + 1)
      /\ \A v \in 1..(Len(versions) + 1) : versions'[v] = WithoutValuesOf(all[v], gone)
  BY <1>2, <1>3, <1>5
<1>7. versions' \in Seq(Snapshot) /\ Len(versions') = Len(versions) + 1
  <2>1. \A v \in 1..(Len(versions) + 1) : versions'[v] \in Snapshot
    BY <1>2, <1>4, <1>5, <1>6
  <2>2. versions' \in [1..(Len(versions) + 1) -> Snapshot]
    BY <1>2, <1>3, <1>5, <1>6, <2>1
  <2>. QED
    BY <1>5, <2>2
<1>8. \A v \in DOMAIN versions : versions[v] \in Snapshot
  BY <1>1
<1>9. Len(versions) + 1 \in 1..(Len(versions) + 1) /\ DOMAIN versions \subseteq 1..(Len(versions) + 1)
  BY <1>5
<1>10. \A v \in DOMAIN versions :
         /\ versions'[v].templates = versions[v].templates
         /\ \A i \in EnvId : versions'[v].values[i] =
              IF i \in gone THEN Missing ELSE versions[v].values[i]
  BY <1>2, <1>4, <1>6, <1>8, <1>9
<1>11. /\ versions'[Len(versions) + 1].templates = new.templates
       /\ \A i \in EnvId : versions'[Len(versions) + 1].values[i] =
            IF i \in gone THEN Missing ELSE new.values[i]
  BY <1>1, <1>2, <1>4, <1>6, <1>9
<1>. QED
  BY <1>6, <1>7, <1>9, <1>10, <1>11 DEF new

(* Which ids are live after the merge.                                     *)
LEMMA MergedLiveIds ==
  ASSUME VersionsInv, NEW a \in Author, Merge(a),
         NEW envs, NEW gone, AfterMerge(a, envs, gone)
  PROVE  /\ environments' \in [EnvName -> EnvId \cup {NoEnv}]
         /\ \A i \in EnvId : (i <= lastEnv /\ i \in LiveIds') => i \in LiveIds /\ i \notin gone
         /\ \A i \in EnvId : (i \in LiveIds /\ i \notin gone) => i \in LiveIds'
<1>1. /\ envs \in [EnvName -> EnvId \cup {NoEnv}]
      /\ \A e \in EnvName \ ToCreate(a) : envs[e] = environments[e]
      /\ \A e \in ToCreate(a) : environments[e] = NoEnv /\ envs[e] > lastEnv
      /\ \A e, f \in EnvName : (envs[e] = envs[f] /\ envs[e] # NoEnv) => e = f
  BY MergedIds
<1>2. /\ gone = {envs[e] : e \in ToDelete(a, envs)}
      /\ ToDelete(a, envs) \subseteq EnvName
      /\ environments' = [e \in EnvName |-> IF e \in ToDelete(a, envs) THEN NoEnv ELSE envs[e]]
  BY DEF AfterMerge, Ids, ToDelete
<1>3. environments' \in [EnvName -> EnvId \cup {NoEnv}]
  BY <1>1, <1>2
<1>4. /\ LiveIds = {environments[e] : e \in {f \in EnvName : environments[f] # NoEnv}}
      /\ LiveIds' = {environments'[e] : e \in {f \in EnvName : environments'[f] # NoEnv}}
  BY DEF LiveIds, Ids, LiveEnvironments
<1>5. lastEnv \in Nat /\ \A i \in EnvId : i \in Nat
  BY VersionConstants DEF VersionsInv, VersionsTypeOK, EnvId
<1>6. ASSUME NEW i \in EnvId, i <= lastEnv, i \in LiveIds'
      PROVE  i \in LiveIds /\ i \notin gone
  <2>1. PICK e \in EnvName : environments'[e] # NoEnv /\ environments'[e] = i
    BY <1>4, <1>6
  <2>2. e \notin ToDelete(a, envs) /\ envs[e] = i /\ i # NoEnv
    BY <1>2, <2>1
  <2>3. e \notin ToCreate(a)
    BY <1>1, <1>5, <1>6, <2>2
  <2>4. i \in LiveIds
    BY <1>1, <1>4, <2>2, <2>3
  <2>5. i \notin gone
    BY <1>1, <1>2, <2>2
  <2>. QED
    BY <2>4, <2>5
<1>7. ASSUME NEW i \in EnvId, i \in LiveIds, i \notin gone
      PROVE  i \in LiveIds'
  <2>1. PICK e \in EnvName : environments[e] # NoEnv /\ environments[e] = i
    BY <1>4, <1>7
  <2>2. envs[e] = i /\ e \notin ToDelete(a, envs)
    BY <1>1, <1>2, <1>7, <2>1
  <2>3. environments'[e] = i
    BY <1>2, <2>2
  <2>. QED
    BY <1>4, <2>1, <2>3
<1>. QED
  BY <1>3, <1>6, <1>7

LEMMA MergeKeepsInv ==
  ASSUME VersionsInv, NEW a \in Author, Merge(a)
  PROVE  VersionsInv'
<1>1. PICK envs, gone : AfterMerge(a, envs, gone)
  BY MergePicks
<1>2. /\ lastEnv' \in Nat /\ lastEnv \in Nat /\ lastEnv' >= lastEnv
      /\ envs \in [EnvName -> EnvId \cup {NoEnv}]
      /\ \A e \in EnvName : envs[e] <= lastEnv'
      /\ \A e, f \in EnvName : (envs[e] = envs[f] /\ envs[e] # NoEnv) => e = f
  BY <1>1, MergedIds DEF VersionsInv, VersionsTypeOK
<1>3. exists /\ UNCHANGED <<exists, deploying, deployments>>
      /\ workspace' = [b \in Author |-> NothingStaged]
  BY DEF Merge
<1>4. /\ versions' \in Seq(Snapshot) /\ Len(versions') = Len(versions) + 1
      /\ DOMAIN versions \subseteq DOMAIN versions'
      /\ \A v \in DOMAIN versions :
           /\ versions'[v].templates = versions[v].templates
           /\ \A i \in EnvId : versions'[v].values[i] =
                IF i \in gone THEN Missing ELSE versions[v].values[i]
  BY <1>1, MergedVersions
<1>5. /\ environments' \in [EnvName -> EnvId \cup {NoEnv}]
      /\ \A i \in EnvId : (i <= lastEnv /\ i \in LiveIds') => i \in LiveIds /\ i \notin gone
      /\ \A i \in EnvId : (i \in LiveIds /\ i \notin gone) => i \in LiveIds'
  BY <1>1, MergedLiveIds
<1>6. VersionsTypeOK'
  <2>1. workspace' \in [Author -> Workspace]
    BY <1>3, StagedIsWorkspace DEF VersionsInv
  <2>. QED
    BY <1>2, <1>3, <1>4, <1>5, <2>1 DEF VersionsInv, VersionsTypeOK
<1>7. IdsAreOld'
  <2>1. environments' = [e \in EnvName |-> IF e \in ToDelete(a, envs) THEN NoEnv ELSE envs[e]]
    BY <1>1 DEF AfterMerge
  <2>2. \A e \in EnvName : environments'[e] <= lastEnv'
    BY <1>2, <2>1 DEF NoEnv
  <2>3. \A e, f \in EnvName :
          (environments'[e] = environments'[f] /\ environments'[e] # NoEnv) => e = f
    BY <1>2, <2>1
  <2>4. ASSUME NEW v \in DOMAIN versions', NEW i \in EnvId, i > lastEnv'
        PROVE  versions'[v].values[i] = Missing
    <3>1. i > lastEnv
      BY <1>2, <2>4, VersionConstants DEF EnvId
    <3>2. CASE v \in DOMAIN versions
      BY <1>4, <3>1, <3>2 DEF VersionsInv, IdsAreOld
    <3>3. CASE v \notin DOMAIN versions
      <4>1. versions \in Seq(Snapshot)
        BY DEF VersionsInv, VersionsTypeOK
      <4>2. v = Len(versions) + 1
        BY <1>4, <3>3, <4>1
      <4>. QED
        BY <1>1, <2>4, <4>2, MergedVersions, SnapshotType
    <3>. QED
      BY <3>2, <3>3
  <2>. QED
    BY <2>2, <2>3, <2>4 DEF IdsAreOld
<1>8. DeletedIsEmpty' /\ ResolvedIsOld'
  <2>1. \A r \in Deployment : deploying[r].step = "resolved" =>
          deploying[r].env \in Nat /\ deploying[r].env <= lastEnv
    BY VersionConstants DEF VersionsInv, VersionsTypeOK, ResolvedIsOld, EnvId, NotDeploying
  <2>. QED
    BY <1>2, <1>3, <2>1 DEF DeletedIsEmpty, ResolvedIsOld
<1>9. ASSUME NEW p, p.env \in EnvId, p.env \notin gone, p.version \in DOMAIN versions, IsContent(p)
      PROVE  IsContent(p)'
  BY <1>4, <1>9 DEF IsContent
<1>10. RenderedIsContent'
  <2>1. SUFFICES ASSUME NEW r \in Deployment, NEW p,
                        deploying[r].step = "rendered", p = deploying[r].pins
                 PROVE  /\ p.env <= lastEnv'
                        /\ p.version \in DOMAIN versions'
                        /\ p.env \in LiveIds' => IsContent(p)'
    BY <1>3 DEF RenderedIsContent, IsContent, LiveIds, Ids, LiveEnvironments
  <2>2. p.env \in EnvId /\ p.env \in Nat
    BY <2>1, VersionConstants DEF VersionsInv, VersionsTypeOK, EnvId, NotDeploying
  <2>3. p.env <= lastEnv /\ p.version \in DOMAIN versions /\ (p.env \in LiveIds => IsContent(p))
    BY <1>3, <2>1 DEF VersionsInv, RenderedIsContent
  <2>4. p.env \in LiveIds' => IsContent(p)'
    BY <1>5, <1>9, <2>2, <2>3
  <2>5. p.env <= lastEnv' /\ p.version \in DOMAIN versions'
    BY <1>2, <1>4, <2>2, <2>3
  <2>. QED
    BY <2>4, <2>5
<1>11. DeployedIsContent'
  <2>1. SUFFICES ASSUME NEW d \in deployments
                 PROVE  d.env \in EnvId /\ d.env \in LiveIds' /\ d.version \in DOMAIN versions'
                        /\ IsContent(d)'
    BY <1>3 DEF DeployedIsContent, IsContent, LiveIds, Ids, LiveEnvironments
  <2>2. d.env \in EnvId /\ d.env \in LiveIds /\ d.version \in DOMAIN versions /\ IsContent(d)
    BY DEF VersionsInv, DeployedIsContent
  <2>3. d.env \notin gone
    BY <1>1 DEF AfterMerge, Deletable
  <2>. QED
    BY <1>4, <1>5, <1>9, <2>2, <2>3
<1>. QED
  BY <1>6, <1>7, <1>8, <1>10, <1>11 DEF VersionsInv

-----------------------------------------------------------------------------
(* A deployment reads what is there, and is recorded only if its           *)
(* environment and its version still are.                                  *)
LEMMA DeploymentKeepsInv ==
  ASSUME VersionsInv, NEW r \in Deployment,
         ResolveProjectEnv(r) \/ FetchPinned(r) \/ InsertDeployment(r) \/ EndDeployment(r)
  PROVE  VersionsInv'
<1>. DEFINE State == {NotDeploying}
                      \cup [step : {"resolved"}, env : EnvId]
                      \cup [step : {"rendered"},
                            pins : [env : EnvId, version : Nat,
                                    templates : [TemplateName -> Body \cup {Missing}],
                                    values : Payload \cup {Missing}]]
<1>1. UNCHANGED <<exists, versions, environments, lastEnv, workspace>>
  BY DEF ResolveProjectEnv, FetchPinned, InsertDeployment, EndDeployment
<1>2. LiveIds' = LiveIds /\ \A p : IsContent(p)' = IsContent(p)
  BY <1>1 DEF LiveIds, Ids, LiveEnvironments, IsContent
<1>3. IdsAreOld' /\ DeletedIsEmpty'
  BY <1>1 DEF VersionsInv, IdsAreOld, DeletedIsEmpty
<1>4. deploying \in [Deployment -> State]
  BY DEF VersionsInv, VersionsTypeOK
<1>5. ASSUME NEW next \in State, deploying' = [deploying EXCEPT ![r] = next],
             next.step = "resolved" => next.env <= lastEnv,
             next.step = "rendered" => /\ next.pins.env <= lastEnv
                                       /\ next.pins.version \in DOMAIN versions
                                       /\ IsContent(next.pins)
      PROVE  VersionsTypeOK' /\ ResolvedIsOld' /\ RenderedIsContent'
  <2>1. VersionsTypeOK'
    BY <1>1, <1>4, <1>5 DEF VersionsInv, VersionsTypeOK
  <2>2. ResolvedIsOld'
    BY <1>1, <1>4, <1>5 DEF VersionsInv, ResolvedIsOld
  <2>3. SUFFICES ASSUME NEW q \in Deployment, NEW p,
                        deploying'[q].step = "rendered", p = deploying'[q].pins
                 PROVE  /\ p.env <= lastEnv
                        /\ exists => p.version \in DOMAIN versions
                        /\ p.env \in LiveIds /\ p.version \in DOMAIN versions => IsContent(p)
    BY <1>1, <2>1, <2>2 DEF RenderedIsContent, IsContent, LiveIds, Ids, LiveEnvironments
  <2>4. CASE q = r
    BY <1>4, <1>5, <2>3, <2>4 DEF IsContent
  <2>5. CASE q # r
    <3>1. deploying[q].step = "rendered" /\ p = deploying[q].pins
      BY <1>4, <1>5, <2>3, <2>5
    <3>. QED
      BY <3>1 DEF VersionsInv, RenderedIsContent
  <2>. QED
    BY <2>4, <2>5
<1>6. NotDeploying \in State /\ NotDeploying.step \notin {"resolved", "rendered"}
  BY DEF NotDeploying
<1>7. deployments' = deployments => DeployedIsContent'
  BY <1>1, <1>2 DEF VersionsInv, DeployedIsContent, LiveIds, Ids, LiveEnvironments, IsContent
<1>8. CASE ResolveProjectEnv(r)
  <2>1. PICK e \in LiveEnvironments :
          deploying' = [deploying EXCEPT ![r] = [step |-> "resolved", env |-> environments[e]]]
    BY <1>8 DEF ResolveProjectEnv
  <2>2. environments[e] \in EnvId /\ environments[e] <= lastEnv
    BY <2>1 DEF LiveEnvironments, VersionsInv, VersionsTypeOK, IdsAreOld
  <2>. DEFINE next == [step |-> "resolved", env |-> environments[e]]
  <2>3. next \in State /\ next.step = "resolved" /\ next.env = environments[e]
    BY <2>2
  <2>4. deployments' = deployments
    BY <1>8 DEF ResolveProjectEnv
  <2>. HIDE DEF State, next
  <2>5. deploying' = [deploying EXCEPT ![r] = next]
    BY <2>1 DEF next
  <2>6. VersionsTypeOK' /\ ResolvedIsOld' /\ RenderedIsContent'
    BY <1>5, <2>2, <2>3, <2>5
  <2>. QED
    BY <1>3, <1>7, <2>4, <2>6 DEF VersionsInv
<1>9. CASE FetchPinned(r)
  <2>1. PICK v \in DOMAIN versions :
          deploying' = [deploying EXCEPT ![r] =
             [step |-> "rendered",
              pins |-> [env |-> deploying[r].env, version |-> v,
                        templates |-> versions[v].templates,
                        values |-> versions[v].values[deploying[r].env]]]]
    BY <1>9 DEF FetchPinned
  <2>2. deploying[r].step = "resolved" /\ deployments' = deployments
    BY <1>9 DEF FetchPinned
  <2>3. deploying[r].env \in EnvId /\ deploying[r].env <= lastEnv
    BY <1>4, <2>2 DEF NotDeploying, VersionsInv, ResolvedIsOld
  <2>4. versions[v] \in Snapshot /\ v \in Nat
    BY <2>1 DEF VersionsInv, VersionsTypeOK
  <2>5. versions[v].templates \in [TemplateName -> Body \cup {Missing}]
        /\ versions[v].values[deploying[r].env] \in Payload \cup {Missing}
    BY <2>3, <2>4 DEF Snapshot
  <2>. DEFINE pinned == [env |-> deploying[r].env, version |-> v,
                         templates |-> versions[v].templates,
                         values |-> versions[v].values[deploying[r].env]]
              next == [step |-> "rendered", pins |-> pinned]
  <2>6. next \in State /\ next.step = "rendered" /\ next.pins = pinned
    BY <2>3, <2>4, <2>5
  <2>7. pinned.env <= lastEnv /\ pinned.version \in DOMAIN versions /\ IsContent(pinned)
    BY <2>1, <2>3 DEF IsContent
  <2>. HIDE DEF State, next
  <2>8. deploying' = [deploying EXCEPT ![r] = next]
    BY <2>1 DEF next
  <2>9. VersionsTypeOK' /\ ResolvedIsOld' /\ RenderedIsContent'
    BY <1>5, <2>6, <2>7, <2>8
  <2>. QED
    BY <1>3, <1>7, <2>2, <2>9 DEF VersionsInv
<1>10. CASE InsertDeployment(r)
  <2>1. deploying[r].step = "rendered" /\ deploying' = [deploying EXCEPT ![r] = NotDeploying]
        /\ deployments' = deployments \cup {deploying[r].pins}
        /\ deploying[r].pins.env \in LiveIds /\ deploying[r].pins.version \in DOMAIN versions
    BY <1>10 DEF InsertDeployment, LiveIds
  <2>2. deploying[r].pins.env \in EnvId
    BY <1>4, <2>1 DEF NotDeploying
  <2>3. IsContent(deploying[r].pins)
    BY <2>1 DEF VersionsInv, RenderedIsContent
  <2>4. SUFFICES DeployedIsContent'
    BY <1>3, <1>5, <1>6, <2>1 DEF VersionsInv
  <2>5. SUFFICES ASSUME NEW d \in deployments'
                 PROVE  d.env \in EnvId /\ d.env \in LiveIds /\ d.version \in DOMAIN versions
                        /\ IsContent(d)
    BY <1>1 DEF DeployedIsContent, LiveIds, Ids, LiveEnvironments, IsContent
  <2>6. CASE d \in deployments
    BY <2>6 DEF VersionsInv, DeployedIsContent
  <2>7. CASE d = deploying[r].pins
    BY <2>1, <2>2, <2>3, <2>7 DEF IsContent
  <2>. QED
    BY <2>1, <2>5, <2>6, <2>7
<1>11. CASE EndDeployment(r)
  <2>1. deploying' = [deploying EXCEPT ![r] = NotDeploying] /\ deployments' = deployments
    BY <1>11 DEF EndDeployment
  <2>2. VersionsTypeOK' /\ ResolvedIsOld' /\ RenderedIsContent'
    BY <1>5, <1>6, <2>1
  <2>. QED
    BY <1>3, <1>7, <2>1, <2>2 DEF VersionsInv
<1>. QED
  BY <1>8, <1>9, <1>10, <1>11

LEMMA DeleteKeepsInv ==
  ASSUME VersionsInv, DeleteProject
  PROVE  VersionsInv'
<1>. USE DEF DeleteProject
<1>1. VersionsTypeOK'
  <2>1. NothingStaged \in Workspace
    BY DEF NothingStaged, Workspace
  <2>2. workspace' \in [Author -> Workspace]
    BY <2>1
  <2>3. versions' \in Seq(Snapshot)
    OBVIOUS
  <2>4. environments' \in [EnvName -> EnvId \cup {NoEnv}] /\ exists' \in BOOLEAN
    OBVIOUS
  <2>5. lastEnv' = lastEnv /\ deploying' = deploying
    OBVIOUS
  <2>. QED
    BY <2>2, <2>3, <2>4, <2>5 DEF VersionsInv, VersionsTypeOK
<1>2. IdsAreOld' /\ DeletedIsEmpty' /\ ResolvedIsOld' /\ DeployedIsContent'
  BY DEF VersionsInv, VersionsTypeOK, IdsAreOld, DeletedIsEmpty, ResolvedIsOld,
         DeployedIsContent, NoEnv
<1>3. RenderedIsContent'
  BY DEF VersionsInv, RenderedIsContent, IsContent, LiveIds, Ids, LiveEnvironments
<1>. QED
  BY <1>1, <1>2, <1>3 DEF VersionsInv

-----------------------------------------------------------------------------
LEMMA StepKeepsInv == VersionsInv /\ [VersionsNext]_versionVars => VersionsInv'
<1> SUFFICES ASSUME VersionsInv, [VersionsNext]_versionVars PROVE VersionsInv'
  OBVIOUS
<1>1. ASSUME NEW a \in Author, StageTemplate(a) PROVE VersionsInv'
  BY <1>1, StagedIsWorkspace, StageKeepsInv DEF StageTemplate, VersionsInv
<1>2. ASSUME NEW a \in Author, StageEnvironment(a) PROVE VersionsInv'
  BY <1>2, StagedIsWorkspace, StageKeepsInv DEF StageEnvironment, VersionsInv
<1>3. ASSUME NEW a \in Author, StageValues(a) PROVE VersionsInv'
  BY <1>3, StagedIsWorkspace, StageKeepsInv DEF StageValues, VersionsInv
<1>4. ASSUME NEW a \in Author, UnstageChange(a) PROVE VersionsInv'
  BY <1>4, StagedIsWorkspace, StageKeepsInv DEF UnstageChange, VersionsInv
<1>5. ASSUME NEW a \in Author, Discard(a) \/ SubmitDraft(a) PROVE VersionsInv'
  BY <1>5, StagedIsWorkspace, StageKeepsInv DEF Discard, SubmitDraft, VersionsInv
<1>6. ASSUME NEW a \in Author, Merge(a) PROVE VersionsInv'
  BY <1>6, MergeKeepsInv
<1>7. ASSUME NEW r \in Deployment,
             ResolveProjectEnv(r) \/ FetchPinned(r) \/ InsertDeployment(r) \/ EndDeployment(r)
      PROVE  VersionsInv'
  BY <1>7, DeploymentKeepsInv
<1>8. CASE DeleteProject
  BY <1>8, DeleteKeepsInv
<1>9. CASE UNCHANGED versionVars
  <2>. USE <1>9 DEF versionVars, VersionsInv
  <2>1. VersionsTypeOK' /\ IdsAreOld' /\ DeletedIsEmpty' /\ ResolvedIsOld'
    BY DEF VersionsTypeOK, IdsAreOld, DeletedIsEmpty, ResolvedIsOld
  <2>2. RenderedIsContent' /\ DeployedIsContent'
    BY DEF RenderedIsContent, DeployedIsContent, IsContent, LiveIds, Ids, LiveEnvironments
  <2>. QED
    BY <2>1, <2>2
<1>. QED
  BY <1>1, <1>2, <1>3, <1>4, <1>5, <1>6, <1>7, <1>8, <1>9 DEF VersionsNext

THEOREM VersionsInvariance == VersionsSpec => []VersionsInv
BY InitInv, StepKeepsInv, PTL DEF VersionsSpec

(* Whatever is merged or deleted while a deployment is made or after it,   *)
(* its environment is there and the version it pins has the content that   *)
(* was rendered.                                                           *)
THEOREM DeploymentsStayReproducible == VersionsSpec => []DeploymentsAreReproducible
<1>1. VersionsInv => DeploymentsAreReproducible
  BY DEF VersionsInv, DeployedIsContent, IsContent, LiveIds, DeploymentsAreReproducible
<1>. QED
  BY <1>1, VersionsInvariance, PTL

-----------------------------------------------------------------------------
(* A merge turns what the workspace shows of templates, environments and   *)
(* values into what is live.                                               *)
LEMMA MergeShows ==
  ASSUME VersionsInv, NEW a \in Author, Merge(a)
  PROVE  /\ LiveTemplates' = EffectiveTemplates(a)
         /\ LiveEnvironments' = EffectiveEnvironments(a)
         /\ \A e \in EffectiveEnvironments(a) :
              ~Resurrected(a, e) => LiveValues(e)' = EffectiveValues(a, e)
<1>1. PICK envs, gone : AfterMerge(a, envs, gone)
  BY MergePicks
<1>. DEFINE staged == workspace[a]
            changed == {e \in EnvName : envs[e] # NoEnv /\ staged.values[e] # Unchanged}
<1>2. /\ envs \in [EnvName -> EnvId \cup {NoEnv}]
      /\ \A e \in EnvName \ ToCreate(a) : envs[e] = environments[e]
      /\ \A e \in ToCreate(a) : environments[e] = NoEnv /\ envs[e] > lastEnv
      /\ \A e, f \in EnvName : (envs[e] = envs[f] /\ envs[e] # NoEnv) => e = f
  BY <1>1, MergedIds
<1>3. environments' = [e \in EnvName |-> IF e \in ToDelete(a, envs) THEN NoEnv ELSE envs[e]]
      /\ gone = {envs[e] : e \in ToDelete(a, envs)}
  BY <1>1 DEF AfterMerge, Ids
<1>4. staged \in Workspace /\ versions \in Seq(Snapshot) /\ lastEnv \in Nat
  BY DEF VersionsInv, VersionsTypeOK
<1>5. Latest' = versions'[Len(versions) + 1] /\ ApplySnapshot(a, envs) \in Snapshot
  <2>1. Len(versions') = Len(versions) + 1 /\ versions' \in Seq(Snapshot)
    BY <1>1, MergedVersions
  <2>. QED
    BY <1>1, <1>4, <2>1, SnapshotType DEF Latest
<1>6. /\ Latest'.templates = ApplySnapshot(a, envs).templates
      /\ \A i \in EnvId : Latest'.values[i] =
           IF i \in gone THEN Missing ELSE ApplySnapshot(a, envs).values[i]
  BY <1>1, <1>5, MergedVersions
<1>7. LiveTemplates' = EffectiveTemplates(a)
  <2>1. \A t \in TemplateName : Latest'.templates[t] =
          CASE staged.templates[t] = Unchanged -> Latest.templates[t]
            [] staged.templates[t] = Deleted -> Missing
            [] OTHER -> staged.templates[t]
    BY <1>6 DEF ApplySnapshot
  <2>2. \A t \in TemplateName :
          /\ staged.templates[t] = Unchanged => Latest'.templates[t] = Latest.templates[t]
          /\ staged.templates[t] = Deleted => Latest'.templates[t] = Missing
          /\ staged.templates[t] \notin {Unchanged, Deleted} =>
               Latest'.templates[t] = staged.templates[t] /\ staged.templates[t] # Missing
    BY <1>4, <2>1, VersionConstants DEF Workspace, Unchanged, Deleted
  <2>. QED
    BY <2>2 DEF LiveTemplates, Items, EffectiveTemplates, Unchanged, Deleted
<1>8. LiveEnvironments' = EffectiveEnvironments(a)
  <2>1. \A e \in EnvName : staged.environments[e] \in {Unchanged, Created, Deleted}
    BY <1>4 DEF Workspace
  <2>2. \A e \in EnvName : envs[e] # NoEnv <=> (environments[e] # NoEnv \/ e \in ToCreate(a))
    BY <1>2, <1>4 DEF NoEnv
  <2>. QED
    BY <1>3, <2>1, <2>2 DEF LiveEnvironments, EffectiveEnvironments, ToDelete, ToCreate,
                            Unchanged, Created, Deleted
<1>9. ASSUME NEW e \in EffectiveEnvironments(a), ~Resurrected(a, e)
      PROVE  LiveValues(e)' = EffectiveValues(a, e)
  <2>1. e \in EnvName /\ environments'[e] # NoEnv /\ e \in LiveEnvironments'
    BY <1>8 DEF LiveEnvironments, EffectiveEnvironments
  <2>2. e \notin ToDelete(a, envs) /\ environments'[e] = envs[e] /\ envs[e] \in EnvId
        /\ envs[e] # NoEnv
    BY <1>2, <1>3, <2>1
  <2>3. envs[e] \notin gone
    BY <1>2, <1>3, <2>1, <2>2 DEF ToDelete
  <2>4. LiveValues(e)' = ApplySnapshot(a, envs).values[envs[e]]
    BY <1>6, <2>1, <2>2, <2>3 DEF LiveValues
  <2>5. \A f \in changed : envs[f] = envs[e] => f = e
    BY <1>2, <2>1, <2>2
  <2>6. CASE staged.values[e] # Unchanged
    <3>1. e \in changed /\ (CHOOSE f \in changed : envs[f] = envs[e]) = e
      BY <2>1, <2>2, <2>5, <2>6
    <3>2. ApplySnapshot(a, envs).values[envs[e]] =
            IF staged.values[e] = Deleted THEN Missing ELSE staged.values[e]
      BY <2>2, <3>1 DEF ApplySnapshot
    <3>. QED
      BY <2>4, <2>6, <3>2 DEF EffectiveValues
  <2>7. CASE staged.values[e] = Unchanged
    <3>1. ApplySnapshot(a, envs).values[envs[e]] = Latest.values[envs[e]]
      <4>1. ~\E f \in changed : envs[f] = envs[e]
        BY <2>5, <2>7
      <4>. QED
        BY <2>2, <4>1 DEF ApplySnapshot
    <3>2. EffectiveValues(a, e) = LastValues(e)
      BY <2>7 DEF EffectiveValues, Unchanged, Deleted
    <3>3. LastValues(e) = LiveValues(e)
      BY <1>9, <2>7 DEF Resurrected
    <3>4. CASE e \in LiveEnvironments
      <4>1. envs[e] = environments[e]
        BY <1>2, <2>1, <3>4 DEF ToCreate
      <4>. QED
        BY <2>4, <3>1, <3>2, <3>3, <3>4, <4>1 DEF LiveValues
    <3>5. CASE e \notin LiveEnvironments
      <4>1. envs[e] > lastEnv
        BY <1>2, <2>1, <2>2, <3>5 DEF LiveEnvironments
      <4>2. Latest.values[envs[e]] = Missing
        <5>1. CASE versions = <<>>
          BY <2>2, <5>1 DEF Latest, EmptySnapshot
        <5>2. CASE versions # <<>>
          <6>1. Len(versions) \in DOMAIN versions /\ Latest = versions[Len(versions)]
            BY <1>4, <5>2 DEF Latest
          <6>. QED
            BY <2>2, <4>1, <6>1 DEF VersionsInv, IdsAreOld
        <5>. QED
          BY <5>1, <5>2
      <4>. QED
        BY <2>4, <3>1, <3>2, <3>3, <3>5, <4>2 DEF LiveValues
    <3>. QED
      BY <3>4, <3>5
  <2>. QED
    BY <2>6, <2>7
<1>. QED
  BY <1>7, <1>8, <1>9

(* What an author sees before a merge is what everybody sees after it.     *)
THEOREM MergeAlwaysMakesWhatWorkspaceShows == VersionsSpec => MergeMakesWhatWorkspaceShows
<1>1. VersionsInv /\ [VersionsNext]_versionVars =>
        [\A a \in Author :
           Merge(a) =>
             /\ LiveTemplates' = EffectiveTemplates(a)
             /\ LiveEnvironments' = EffectiveEnvironments(a)
             /\ \A e \in EffectiveEnvironments(a) :
                  ~Resurrected(a, e) => LiveValues(e)' = EffectiveValues(a, e)]_versionVars
  BY MergeShows
<1>. QED
  BY <1>1, VersionsInvariance, PTL DEF VersionsSpec, MergeMakesWhatWorkspaceShows

-----------------------------------------------------------------------------
(***************************************************************************)
(* Server                                                                  *)
(***************************************************************************)
\* A step of the server is a step of one part; the other stays as it is.
THEOREM ServerHasItsParts == Spec => AccessSpec /\ VersionsSpec
<1>1. Init => AccessInit /\ VersionsInit
  BY DEF Init
<1>2. [Next]_vars => [AccessNext]_accessVars /\ [VersionsNext]_versionVars
  BY DEF Next, AccessRequests, ContentRequests, vars
<1> QED
  BY <1>1, <1>2, PTL DEF Spec, AccessSpec, VersionsSpec

\* What no two overlapping requests were about keeps its guarantees, whatever else
\* races: an environment and a project keep an admin, managed roles are of members
\* only and hold what was asked for. Every deployment can be rendered again as it
\* was, and a merge makes what its author's workspace showed.
THEOREM ServerIsSafe ==
  Spec => /\ [](LastAdminStays /\ ManagedRoleNeedsMembership /\ StoredPermissionsWereAskedFor)
          /\ []DeploymentsAreReproducible
          /\ MergeMakesWhatWorkspaceShows
<1>1. AccessSpec =>
        [](LastAdminStays /\ ManagedRoleNeedsMembership /\ StoredPermissionsWereAskedFor)
  BY LastAdminAlwaysStays, ManagedRolesNeedMembership, StoredPermissionsAreWhole, PTL
<1>2. VersionsSpec => []DeploymentsAreReproducible /\ MergeMakesWhatWorkspaceShows
  BY DeploymentsStayReproducible, MergeAlwaysMakesWhatWorkspaceShows
<1> QED
  BY ServerHasItsParts, <1>1, <1>2
=============================================================================
