------------------------------ MODULE DeployPage ------------------------------
(***************************************************************************)
(* The deploy page: choose a project and an environment, pin a project     *)
(* version and one version per Global Values group, look at the rendered   *)
(* preview, deploy. Pins are filled in by an effect when queries arrive,   *)
(* previews are asked for by another effect when pins change, and both run *)
(* after every render, so a step here is an event together with the        *)
(* renders and effects it sets off.                                        *)
(***************************************************************************)
EXTENDS Naturals

CONSTANTS
  DeployProjects, DeployEnvs,
  Refs,         \* the groups the values of a project refer to
  VersionCount, \* bound: versions of a project, and of a group
  MaxSteps      \* bound: choices made on the page

Unchosen == ""

ASSUME DeployConstants ==
  /\ Unchosen \notin DeployProjects \cup DeployEnvs
  /\ VersionCount \in Nat \ {0}
  /\ MaxSteps \in Nat

NoSelection == <<Unchosen, Unchosen>>
Selections == DeployProjects \X DeployEnvs

VARIABLES
  page,     \* the component's state, its preview and its deploy mutation
  queries,  \* what has been loaded for each selection
  deployed, \* the pins of the last deployment of each selection
  steps

deployVars == <<page, queries, deployed, steps>>

(* A project version knows its project: it is the global id.               *)
NoVersion == [of |-> Unchosen, n |-> 0]
VersionOf(p, n) == [of |-> p, n |-> n]
NoPins == [version |-> NoVersion, groups |-> [g \in {} |-> 0]]
NoPreview == [phase |-> "none", key |-> NoSelection, pins |-> NoPins, errors |-> FALSE]
NoDeploy == [key |-> NoSelection, pins |-> NoPins]

DeployInit ==
  /\ page = [project |-> Unchosen, env |-> Unchosen, initialized |-> NoSelection, pins |-> NoPins,
             preview |-> NoPreview, confirming |-> FALSE, expanded |-> FALSE, asked |-> {},
             deploying |-> NoDeploy]
  /\ queries = [s \in Selections |->
                  [ready |-> "loading", versions |-> FALSE, latest |-> "loading",
                   pins |-> NoPins]]
  /\ deployed = [s \in Selections |-> NoPins]
  /\ steps = 0

(* Mutant: whether the pins are initialized is a flag.                     *)
InitializedOnce(s) == s.initialized # NoSelection

Key(s) == IF Unchosen \in {s.project, s.env} THEN NoSelection ELSE <<s.project, s.env>>
VersionsInitialized(s) == Key(s) # NoSelection /\ s.initialized = Key(s)

Resolved(pins) ==
  pins.version # NoVersion /\ \A g \in DOMAIN pins.groups : pins.groups[g] > 0
CanPreview(s) == VersionsInitialized(s) /\ Resolved(s.pins)

(* The default pins: those of the last deployment when it is known, else   *)
(* the latest version known so far and unresolved groups.                  *)
DefaultPins(s, q) ==
  LET latest == IF q.versions THEN VersionOf(s.project, VersionCount) ELSE NoVersion
  IN IF q.latest = "loaded" THEN q.pins
     ELSE IF q.ready = "loaded" THEN [version |-> latest, groups |-> [g \in Refs |-> 0]]
     ELSE [s.pins EXCEPT !.version = latest]

Initialize(s, all) ==
  IF Key(s) = NoSelection \/ VersionsInitialized(s) \/ all[Key(s)].ready = "loading" THEN s
  ELSE [s EXCEPT !.pins = DefaultPins(s, all[Key(s)]), !.initialized = Key(s)]

AskPreview(s) ==
  [s EXCEPT !.preview = [phase |-> "pending", key |-> Key(s), pins |-> s.pins,
                         errors |-> FALSE]]

(* Mutant: the pins are missing from the dependencies.                     *)
InputsButPins(s) == <<Key(s), CanPreview(s)>>

(* triggerPreview changes its identity, and so runs, when one of these     *)
(* changes.                                                                *)
Inputs(s) == <<Key(s), CanPreview(s), s.pins>>
AutoTrigger(old, s) == IF CanPreview(s) /\ Inputs(old) # Inputs(s) THEN AskPreview(s) ELSE s

Settled(s, all) ==
  LET first  == AutoTrigger(page, s)
      second == Initialize(first, all)
  IN AutoTrigger(first, second)

Choose(s) ==
  /\ steps < MaxSteps /\ ~page.confirming
  /\ steps' = steps + 1
  /\ page' = Settled(s, queries)
  /\ UNCHANGED <<queries, deployed>>

(* The pinning panel and its selectors are new whenever it is opened, and  *)
(* it is closed when what it shows is not initialized.                     *)
Unpinned(s) == [s EXCEPT !.expanded = FALSE, !.asked = {}]

(* The first render after a project change still has the old environment.  *)
SelectProject ==
  \E p \in DeployProjects \ {page.project} :
    LET switched == [Unpinned(page) EXCEPT !.project = p, !.preview = NoPreview]
    IN Choose([Initialize(switched, queries) EXCEPT !.env = Unchosen])

SelectEnv ==
  /\ page.project # Unchosen
  /\ \E e \in DeployEnvs \ {page.env} :
       Choose([Unpinned(page) EXCEPT !.env = e, !.initialized = NoSelection,
                                     !.preview = NoPreview])

RefreshPreview ==
  /\ CanPreview(page) /\ page.preview.phase # "pending"
  /\ Choose(AskPreview(page))

SelectProjectVersion ==
  /\ VersionsInitialized(page) /\ page.expanded /\ queries[Key(page)].versions
  /\ \E n \in 1..VersionCount :
       Choose([page EXCEPT !.pins.version = VersionOf(page.project, n)])

SelectGroupVersion ==
  /\ VersionsInitialized(page) /\ page.expanded
  /\ \E g \in DOMAIN page.pins.groups, n \in 1..VersionCount :
       Choose([page EXCEPT !.pins.groups[g] = n])

TogglePinning ==
  /\ VersionsInitialized(page)
  /\ Choose([Unpinned(page) EXCEPT !.expanded = ~page.expanded])

(* A group's selector sets the latest version once its versions are        *)
(* loaded, which it starts only when the panel is open, and it does so     *)
(* once. Selectors that do so in one commit each copy the map of that      *)
(* render, so the last one's version stays and the others' are lost.       *)
ResolveGroup ==
  /\ VersionsInitialized(page) /\ page.expanded
  /\ \E together \in SUBSET {g \in DOMAIN page.pins.groups \ page.asked :
                                page.pins.groups[g] = 0} :
       \E last \in together :
         page' = Settled([page EXCEPT !.pins.groups[last] = VersionCount,
                                      !.asked = @ \cup together], queries)
  /\ UNCHANGED <<queries, deployed, steps>>

Load(loaded(_)) ==
  /\ Key(page) # NoSelection /\ loaded(queries[Key(page)]) # queries[Key(page)]
  /\ queries' = [queries EXCEPT ![Key(page)] = loaded(@)]
  /\ page' = Settled(page, queries')
  /\ UNCHANGED <<deployed, steps>>

LoadTemplatesAndValues ==
  \E r \in {"loaded", "missing"} :
    Load(LAMBDA q : IF q.ready = "loading" THEN [q EXCEPT !.ready = r] ELSE q)

LoadVersions == Load(LAMBDA q : [q EXCEPT !.versions = TRUE])

(* Not found, before the first deployment, is an error of this query.      *)
LoadLatestDeployment ==
  Load(LAMBDA q : [q EXCEPT
         !.latest = IF deployed[Key(page)] = NoPins THEN "missing" ELSE "loaded",
         !.pins = deployed[Key(page)]])

PreviewReceived ==
  /\ page.preview.phase = "pending"
  /\ page' \in {[page EXCEPT !.preview.phase = "shown", !.preview.errors = e] :
                  e \in BOOLEAN}
               \cup {[page EXCEPT !.preview = NoPreview]}
  /\ UNCHANGED <<queries, deployed, steps>>

(* Deploy is offered under a preview without errors.                       *)
OpenConfirm ==
  /\ VersionsInitialized(page) /\ page.preview.phase = "shown" /\ ~page.preview.errors
  /\ page.deploying = NoDeploy
  /\ Choose([page EXCEPT !.confirming = TRUE])

CloseConfirm ==
  /\ page.confirming
  /\ page' = [page EXCEPT !.confirming = FALSE]
  /\ UNCHANGED <<queries, deployed, steps>>

HandleDeploy ==
  /\ page.confirming /\ page.deploying = NoDeploy
  /\ page' = [page EXCEPT !.deploying = [key |-> Key(page), pins |-> page.pins]]
  /\ UNCHANGED <<queries, deployed, steps>>

(* The server knows no version 0. Success forgets that the pins were       *)
(* initialized, so they are filled in again from what is loaded by then.   *)
DeploySucceeds ==
  /\ page.deploying # NoDeploy /\ Resolved(page.deploying.pins)
  /\ deployed' = [deployed EXCEPT ![page.deploying.key] = page.deploying.pins]
  /\ page' = Settled([Unpinned(page) EXCEPT !.confirming = FALSE, !.initialized = NoSelection,
                                            !.deploying = NoDeploy], queries)
  /\ UNCHANGED <<queries, steps>>

DeployFails ==
  /\ page.deploying # NoDeploy
  /\ page' = [page EXCEPT !.deploying = NoDeploy]
  /\ UNCHANGED <<queries, deployed, steps>>

DeployNext ==
  \/ SelectProject \/ SelectEnv \/ RefreshPreview \/ SelectProjectVersion \/ SelectGroupVersion
  \/ TogglePinning \/ ResolveGroup
  \/ LoadTemplatesAndValues \/ LoadVersions \/ LoadLatestDeployment
  \/ PreviewReceived \/ OpenConfirm \/ CloseConfirm \/ HandleDeploy
  \/ DeploySucceeds \/ DeployFails

DeploySpec == DeployInit /\ [][DeployNext]_deployVars

-----------------------------------------------------------------------------
(* Switching the project or the environment never leaves a preview of the  *)
(* other one, and no preview is asked for with a version of another        *)
(* project: initialization is tracked per selection and compared in the    *)
(* render, "before the auto-trigger effect can fire a preview with stale,  *)
(* mismatched pins" (deploy-page.tsx).                                     *)
PreviewIsOfSelection ==
  page.preview.phase # "none" =>
    /\ page.preview.key = Key(page)
    /\ page.preview.pins.version.of = page.project

(* Whenever the pins are resolved, the preview on screen is the preview of *)
(* exactly these pins, however choices, arriving queries, a deployment and *)
(* the two effects were interleaved.                                       *)
ResolvedPinsAreReviewed ==
  (CanPreview(page) /\ page.preview.phase = "shown") => page.preview.pins = page.pins
=============================================================================
