--------------------------- MODULE DeployPageProofs ---------------------------
(***************************************************************************)
(* What the deploy page previews, for any projects, environments, groups   *)
(* and versions, and every order of choices, answers, renders and effects. *)
(***************************************************************************)
EXTENDS DeployPage, TLAPS

Version == [of : DeployProjects \cup {Unchosen}, n : 0..VersionCount]
GroupPins == UNION {[S -> 0..VersionCount] : S \in SUBSET Refs}
Pins == [version : Version, groups : GroupPins]
AnySelection == Selections \cup {NoSelection}
Preview ==
  [phase : {"none", "pending", "shown"}, key : AnySelection, pins : Pins, errors : BOOLEAN]
PageState ==
  [project : DeployProjects \cup {Unchosen}, env : DeployEnvs \cup {Unchosen},
   initialized : AnySelection, pins : Pins, preview : Preview,
   confirming : BOOLEAN, expanded : BOOLEAN, asked : SUBSET Refs,
   deploying : [key : AnySelection, pins : Pins]]
Loaded ==
  [ready : {"loading", "loaded", "missing"}, versions : BOOLEAN,
   latest : {"loading", "loaded", "missing"}, pins : Pins]

DeployTypeOK ==
  /\ page \in PageState
  /\ queries \in [Selections -> Loaded]
  /\ deployed \in [Selections -> Pins]

OfProject(pins, p) == pins.version = NoVersion \/ pins.version.of = p

(* Pins that pass for initialized are of the project on screen,            *)
PinsMatch(s) == VersionsInitialized(s) => OfProject(s.pins, s.project)

(* and while an environment is chosen those of no other selection do.      *)
KeyMatches(s) == s.env # Unchosen => s.initialized \in {NoSelection, Key(s)}

(* A preview, answered or not, is of the selection on screen,              *)
PreviewFits(s) ==
  s.preview.phase # "none" =>
    s.preview.key = Key(s) /\ s.preview.pins.version.of = s.project

(* and of the pins, when there is one to be asked for.                     *)
PreviewIsCurrent(s) ==
  (CanPreview(s) /\ s.preview.phase # "none") => s.preview.pins = s.pins

(* What does not change before the effects have run: the confirmation is   *)
(* open under initialized pins, the deployment sent is of one project.     *)
DeploymentMatches(s) ==
  /\ s.confirming = TRUE => VersionsInitialized(s)
  /\ OfProject(s.deploying.pins, s.deploying.key[1])

StoredPinsMatch(all, done) ==
  \A k \in Selections : OfProject(all[k].pins, k[1]) /\ OfProject(done[k], k[1])

DeployInv ==
  /\ DeployTypeOK
  /\ PinsMatch(page) /\ KeyMatches(page)
  /\ PreviewFits(page)
  /\ PreviewIsCurrent(page)
  /\ DeploymentMatches(page)
  /\ StoredPinsMatch(queries, deployed)

-----------------------------------------------------------------------------
(* Records and functions the page is made of.                              *)
LEMMA NoPinsType == NoPins \in Pins /\ NoVersion \in Version
<1>1. [g \in {} |-> 0] \in [{} -> 0..VersionCount]
  OBVIOUS
<1>2. {} \in SUBSET Refs
  OBVIOUS
<1>3. [g \in {} |-> 0] \in GroupPins
  BY <1>1, <1>2 DEF GroupPins
<1>4. NoVersion \in Version
  BY DeployConstants DEF NoVersion, Version
<1> QED BY <1>3, <1>4 DEF NoPins, Pins

LEMMA UnresolvedType == [g \in Refs |-> 0] \in GroupPins
<1>1. [g \in Refs |-> 0] \in [Refs -> 0..VersionCount]
  BY DeployConstants
<1>2. Refs \in SUBSET Refs
  OBVIOUS
<1> QED BY <1>1, <1>2 DEF GroupPins

LEMMA GroupPinType ==
  ASSUME NEW groups \in GroupPins, NEW g \in DOMAIN groups, NEW n \in 0..VersionCount
  PROVE  [groups EXCEPT ![g] = n] \in GroupPins
<1>1. PICK S \in SUBSET Refs : groups \in [S -> 0..VersionCount]
  BY DEF GroupPins
<1>2. [groups EXCEPT ![g] = n] \in [S -> 0..VersionCount]
  BY <1>1
<1> QED BY <1>1, <1>2 DEF GroupPins

LEMMA KeyType ==
  ASSUME NEW s \in PageState
  PROVE  /\ Key(s) \in AnySelection
         /\ Key(s) # NoSelection =>
              /\ Key(s) \in Selections
              /\ Key(s) = <<s.project, s.env>>
              /\ Key(s)[1] = s.project
  BY DEF PageState, Key, AnySelection, Selections

(* The effect that asks for a preview: the page is as it was but for the   *)
(* preview, which fits and is current.                                     *)
LEMMA AutoTriggerFits ==
  ASSUME NEW old \in PageState, NEW s \in PageState,
         PinsMatch(s), PreviewFits(s),
         Inputs(old) = Inputs(s) => PreviewIsCurrent(s),
         NEW t, t = AutoTrigger(old, s)
  PROVE  /\ t \in PageState
         /\ PreviewFits(t) /\ PreviewIsCurrent(t)
         /\ t = [s EXCEPT !.preview = t.preview]
         /\ Key(t) = Key(s) /\ Inputs(t) = Inputs(s)
         /\ VersionsInitialized(t) = VersionsInitialized(s)
<1>1. CASE CanPreview(s) /\ Inputs(old) # Inputs(s)
  <2> DEFINE asked == [phase |-> "pending", key |-> Key(s), pins |-> s.pins, errors |-> FALSE]
  <2>1. t = [s EXCEPT !.preview = asked]
    BY <1>1 DEF AutoTrigger, AskPreview
  <2>2. asked \in Preview
    BY KeyType DEF Preview, PageState
  <2>3. t \in PageState /\ t.preview = asked
    BY <2>1, <2>2 DEF PageState
  <2>4. /\ t.project = s.project /\ t.env = s.env /\ t.pins = s.pins
        /\ t.initialized = s.initialized
    BY <2>1 DEF PageState
  <2>5. Key(t) = Key(s)
    BY <2>4 DEF Key
  <2>6. VersionsInitialized(t) = VersionsInitialized(s) /\ CanPreview(t) = CanPreview(s)
    BY <2>4, <2>5, Zenon DEF VersionsInitialized, CanPreview
  <2>7. s.pins.version.of = s.project
    BY <1>1 DEF CanPreview, PinsMatch, OfProject, Resolved
  <2>8. t = [s EXCEPT !.preview = t.preview]
    BY <2>1, <2>3
  <2>9. Inputs(t) = Inputs(s)
    BY <2>4, <2>5, <2>6, Zenon DEF Inputs
  <2>10. PreviewFits(t) /\ PreviewIsCurrent(t)
    BY <2>3, <2>4, <2>5, <2>7 DEF PreviewFits, PreviewIsCurrent
  <2> QED BY <2>3, <2>5, <2>6, <2>8, <2>9, <2>10
<1>2. CASE ~(CanPreview(s) /\ Inputs(old) # Inputs(s))
  <2>1. t = s
    BY <1>2, Zenon DEF AutoTrigger
  <2>2. PreviewIsCurrent(s)
    BY <1>2 DEF PreviewIsCurrent
  <2>3. s = [s EXCEPT !.preview = s.preview]
    BY DEF PageState
  <2> QED BY <2>1, <2>2, <2>3
<1> QED BY <1>1, <1>2

(* The effect that fills in the pins: it does nothing, or the pins were    *)
(* not initialized and now are, with pins of the project on screen.        *)
LEMMA DefaultPinsMatch ==
  ASSUME NEW s \in PageState, NEW all \in [Selections -> Loaded],
         \A k \in Selections : OfProject(all[k].pins, k[1]),
         Key(s) # NoSelection
  PROVE  /\ DefaultPins(s, all[Key(s)]) \in Pins
         /\ OfProject(DefaultPins(s, all[Key(s)]), s.project)
<1> DEFINE q == all[Key(s)]
           latest == IF q.versions THEN VersionOf(s.project, VersionCount) ELSE NoVersion
<1>1. Key(s) \in Selections /\ Key(s)[1] = s.project
  BY KeyType
<1>2. q \in Loaded /\ OfProject(q.pins, s.project)
  BY <1>1
<1>3. latest \in Version /\ (latest = NoVersion \/ latest.of = s.project)
  BY NoPinsType, DeployConstants DEF VersionOf, Version, PageState
<1>4. CASE q.latest = "loaded"
  <2>1. DefaultPins(s, q) = q.pins
    BY <1>4, Zenon DEF DefaultPins
  <2>2. q.pins \in Pins
    BY <1>2 DEF Loaded
  <2> QED BY <2>1, <2>2, <1>2
<1>5. CASE q.latest # "loaded" /\ q.ready = "loaded"
  <2>1. DefaultPins(s, q) = [version |-> latest, groups |-> [g \in Refs |-> 0]]
    BY <1>5 DEF DefaultPins
  <2> QED BY <2>1, <1>3, UnresolvedType DEF Pins, OfProject
<1>6. CASE q.latest # "loaded" /\ q.ready # "loaded"
  <2>1. DefaultPins(s, q) = [s.pins EXCEPT !.version = latest]
    BY <1>6 DEF DefaultPins
  <2>2. s.pins \in Pins
    BY DEF PageState
  <2> QED BY <2>1, <2>2, <1>3 DEF Pins, OfProject
<1> QED BY <1>4, <1>5, <1>6

LEMMA InitializeMatches ==
  ASSUME NEW s \in PageState, NEW all \in [Selections -> Loaded],
         \A k \in Selections : OfProject(all[k].pins, k[1]),
         PinsMatch(s),
         NEW t, t = Initialize(s, all)
  PROVE  /\ t \in PageState
         /\ PinsMatch(t)
         /\ t = [s EXCEPT !.pins = t.pins, !.initialized = t.initialized]
         /\ Key(t) = Key(s)
         /\ t.initialized \in {s.initialized, Key(s)}
         /\ t = s \/ (~VersionsInitialized(s) /\ VersionsInitialized(t))
<1>1. CASE Key(s) = NoSelection \/ VersionsInitialized(s) \/ all[Key(s)].ready = "loading"
  <2>1. t = s
    BY <1>1 DEF Initialize
  <2>2. s = [s EXCEPT !.pins = s.pins, !.initialized = s.initialized]
    BY DEF PageState
  <2> QED BY <2>1, <2>2
<1>2. CASE ~(Key(s) = NoSelection \/ VersionsInitialized(s) \/ all[Key(s)].ready = "loading")
  <2> DEFINE pins == DefaultPins(s, all[Key(s)])
  <2>1. t = [s EXCEPT !.pins = pins, !.initialized = Key(s)]
    BY <1>2 DEF Initialize
  <2>2. pins \in Pins /\ OfProject(pins, s.project) /\ Key(s) \in AnySelection
    BY <1>2, DefaultPinsMatch, KeyType
  <2> HIDE DEF pins
  <2>3. t \in PageState /\ t.pins = pins /\ t.initialized = Key(s)
    BY <2>1, <2>2 DEF PageState
  <2>4. t.project = s.project /\ t.env = s.env /\ t.preview = s.preview
    BY <2>1 DEF PageState
  <2>5. Key(t) = Key(s)
    BY <2>4 DEF Key
  <2>6. VersionsInitialized(t)
    BY <1>2, <2>3, <2>5 DEF VersionsInitialized
  <2>7. t = [s EXCEPT !.pins = t.pins, !.initialized = t.initialized]
    BY <2>1, <2>3
  <2> QED BY <1>2, <2>2, <2>3, <2>4, <2>5, <2>6, <2>7 DEF PinsMatch
<1> QED BY <1>1, <1>2

(* A render and its effects: whatever the event did to the page, the       *)
(* preview is of the selection and of the pins in the end, and the rest of *)
(* the page is as the event left it but for pins that were not initialized.*)
LEMMA SettledMatches ==
  ASSUME page \in PageState,
         NEW s \in PageState, NEW all \in [Selections -> Loaded],
         \A k \in Selections : OfProject(all[k].pins, k[1]),
         PinsMatch(s), KeyMatches(s), PreviewFits(s), DeploymentMatches(s),
         Inputs(page) = Inputs(s) => PreviewIsCurrent(s),
         NEW t, t = Settled(s, all)
  PROVE  /\ t \in PageState
         /\ PinsMatch(t) /\ KeyMatches(t) /\ PreviewFits(t) /\ PreviewIsCurrent(t)
         /\ DeploymentMatches(t)
<1> DEFINE first  == AutoTrigger(page, s)
           second == Initialize(first, all)
           third  == AutoTrigger(first, second)
<1>1. t = third
  BY DEF Settled
<1>2. /\ first \in PageState /\ PreviewFits(first) /\ PreviewIsCurrent(first)
      /\ first = [s EXCEPT !.preview = first.preview]
      /\ Key(first) = Key(s) /\ VersionsInitialized(first) = VersionsInitialized(s)
  BY AutoTriggerFits
<1> HIDE DEF first
<1>3. /\ first.project = s.project /\ first.pins = s.pins /\ first.env = s.env
      /\ first.initialized = s.initialized
      /\ first.confirming = s.confirming /\ first.deploying = s.deploying
  BY <1>2 DEF PageState
<1>4. PinsMatch(first) /\ KeyMatches(first) /\ DeploymentMatches(first)
  BY <1>2, <1>3 DEF PinsMatch, KeyMatches, DeploymentMatches
<1>5. /\ second \in PageState /\ PinsMatch(second) /\ Key(second) = Key(first)
      /\ second = [first EXCEPT !.pins = second.pins, !.initialized = second.initialized]
      /\ second.initialized \in {first.initialized, Key(first)}
      /\ second = first \/ (~VersionsInitialized(first) /\ VersionsInitialized(second))
  BY <1>2, <1>4, InitializeMatches
<1> HIDE DEF second
<1>6. /\ second.project = first.project /\ second.preview = first.preview
      /\ second.env = first.env
      /\ second.confirming = first.confirming /\ second.deploying = first.deploying
  BY <1>5 DEF PageState
<1>7. KeyMatches(second) /\ PreviewFits(second) /\ DeploymentMatches(second)
  BY <1>2, <1>4, <1>5, <1>6 DEF KeyMatches, PreviewFits, DeploymentMatches
<1>8. Inputs(first) = Inputs(second) => PreviewIsCurrent(second)
  <2>1. CASE second = first
    BY <1>2, <2>1
  <2>2. CASE ~VersionsInitialized(first) /\ VersionsInitialized(second)
    <3>1. SUFFICES ASSUME Inputs(first) = Inputs(second) PROVE ~CanPreview(second)
      BY <3>1 DEF PreviewIsCurrent
    <3>2. CanPreview(first) = CanPreview(second)
      BY <3>1 DEF Inputs
    <3> QED BY <2>2, <3>2 DEF CanPreview
  <2> QED BY <1>5, <2>1, <2>2
<1>9. /\ third \in PageState /\ PreviewFits(third) /\ PreviewIsCurrent(third)
      /\ third = [second EXCEPT !.preview = third.preview]
      /\ Key(third) = Key(second)
      /\ VersionsInitialized(third) = VersionsInitialized(second)
  BY <1>2, <1>5, <1>7, <1>8, AutoTriggerFits
<1> HIDE DEF third
<1>10. /\ third.project = second.project /\ third.pins = second.pins
       /\ third.env = second.env /\ third.initialized = second.initialized
       /\ third.confirming = second.confirming /\ third.deploying = second.deploying
  BY <1>9 DEF PageState
<1>11. PinsMatch(third) /\ KeyMatches(third) /\ DeploymentMatches(third)
  BY <1>5, <1>7, <1>9, <1>10 DEF PinsMatch, KeyMatches, DeploymentMatches
<1> QED BY <1>1, <1>9, <1>11

-----------------------------------------------------------------------------
LEMMA DeployInitInv == DeployInit => DeployInv
<1> SUFFICES ASSUME DeployInit PROVE DeployInv
  OBVIOUS
<1>1. NoSelection \in AnySelection /\ NoPreview \in Preview
  BY NoPinsType DEF AnySelection, NoPreview, Preview
<1>2. NoDeploy \in [key : AnySelection, pins : Pins] /\ NoDeploy.pins.version = NoVersion
  BY <1>1, NoPinsType DEF NoDeploy, NoPins
<1>3. /\ page \in PageState /\ page.confirming = FALSE /\ page.deploying = NoDeploy
      /\ page.preview.phase = "none"
  BY <1>1, <1>2, NoPinsType DEF DeployInit, PageState, NoPreview
<1>4. queries \in [Selections -> Loaded] /\ deployed \in [Selections -> Pins]
  BY NoPinsType DEF DeployInit, Loaded
<1>5. StoredPinsMatch(queries, deployed)
  BY DEF DeployInit, StoredPinsMatch, OfProject, NoPins
<1>6. Key(page) = NoSelection
  BY DEF DeployInit, Key
<1>7. /\ PinsMatch(page) /\ KeyMatches(page)
      /\ PreviewFits(page) /\ PreviewIsCurrent(page)
  BY <1>3, <1>6
     DEF DeployInit, PinsMatch, KeyMatches, VersionsInitialized, PreviewFits, PreviewIsCurrent
<1>8. DeploymentMatches(page)
  BY <1>2, <1>3 DEF DeploymentMatches, OfProject
<1> QED BY <1>3, <1>4, <1>5, <1>7, <1>8 DEF DeployInv, DeployTypeOK

(* A step whose event leaves the page as s.                                *)
LEMMA SettlesInv ==
  ASSUME DeployInv, NEW s \in PageState,
         PinsMatch(s), KeyMatches(s), PreviewFits(s), DeploymentMatches(s),
         Inputs(page) = Inputs(s) => PreviewIsCurrent(s),
         queries' \in [Selections -> Loaded], deployed' \in [Selections -> Pins],
         StoredPinsMatch(queries', deployed'),
         page' = Settled(s, queries')
  PROVE  DeployInv'
<1>1. page \in PageState
  BY DEF DeployInv, DeployTypeOK
<1>2. \A k \in Selections : OfProject(queries'[k].pins, k[1])
  BY DEF StoredPinsMatch
<1> DEFINE t == Settled(s, queries')
<1>3. /\ t \in PageState
      /\ PinsMatch(t) /\ KeyMatches(t) /\ PreviewFits(t) /\ PreviewIsCurrent(t)
      /\ DeploymentMatches(t)
  BY <1>1, <1>2, SettledMatches
<1> HIDE DEF t
<1>4. page' = t
  BY DEF t
<1> QED
  BY <1>3, <1>4
     DEF DeployInv, DeployTypeOK, StoredPinsMatch, PinsMatch, KeyMatches, PreviewFits,
         PreviewIsCurrent, DeploymentMatches, VersionsInitialized, CanPreview, Key, OfProject, Resolved

(* A choice on the page.                                                   *)
LEMMA ChooseInv ==
  ASSUME DeployInv, NEW s \in PageState,
         PinsMatch(s), KeyMatches(s), PreviewFits(s), DeploymentMatches(s),
         Inputs(page) = Inputs(s) => PreviewIsCurrent(s),
         Choose(s)
  PROVE  DeployInv'
  BY SettlesInv DEF Choose, DeployInv, DeployTypeOK

(* An event that leaves the selection, the preview and the deployment.     *)
LEMMA SameSelection ==
  ASSUME DeployInv, NEW s \in PageState,
         s.project = page.project, s.env = page.env, s.initialized = page.initialized,
         s.preview = page.preview, s.confirming = page.confirming,
         s.deploying = page.deploying
  PROVE  /\ Key(s) = Key(page) /\ VersionsInitialized(s) = VersionsInitialized(page)
         /\ KeyMatches(s) /\ PreviewFits(s) /\ DeploymentMatches(s)
         /\ Inputs(page) = Inputs(s) => PreviewIsCurrent(s)
<1>1. Key(s) = Key(page)
  BY DEF Key
<1>2. VersionsInitialized(s) = VersionsInitialized(page)
  BY <1>1, Zenon DEF VersionsInitialized
<1>3. KeyMatches(s) /\ PreviewFits(s) /\ DeploymentMatches(s)
  BY <1>1, <1>2 DEF DeployInv, KeyMatches, PreviewFits, DeploymentMatches
<1>4. Inputs(page) = Inputs(s) => PreviewIsCurrent(s)
  BY DEF DeployInv, PreviewIsCurrent, Inputs
<1> QED BY <1>1, <1>2, <1>3, <1>4

LEMMA UnpinnedPage ==
  ASSUME page \in PageState
  PROVE  /\ Unpinned(page) \in PageState
         /\ Unpinned(page).project = page.project /\ Unpinned(page).env = page.env
         /\ Unpinned(page).initialized = page.initialized
         /\ Unpinned(page).preview = page.preview /\ Unpinned(page).pins = page.pins
         /\ Unpinned(page).confirming = page.confirming
         /\ Unpinned(page).deploying = page.deploying
BY DEF Unpinned, PageState

LEMMA SelectProjectInv == ASSUME DeployInv, SelectProject PROVE DeployInv'
<1>1. PICK p \in DeployProjects \ {page.project} :
        LET switched == [Unpinned(page) EXCEPT !.project = p, !.preview = NoPreview]
        IN Choose([Initialize(switched, queries) EXCEPT !.env = Unchosen])
  BY DEF SelectProject
<1> DEFINE switched == [Unpinned(page) EXCEPT !.project = p, !.preview = NoPreview]
           filled   == Initialize(switched, queries)
           s        == [filled EXCEPT !.env = Unchosen]
<1>2. page \in PageState /\ queries \in [Selections -> Loaded]
  BY DEF DeployInv, DeployTypeOK
<1>3. switched \in PageState /\ switched.project = p /\ switched.env = page.env
      /\ switched.initialized = page.initialized
      /\ switched.deploying = page.deploying /\ switched.confirming = page.confirming
      /\ switched.preview = NoPreview
  BY <1>2, UnpinnedPage, NoPinsType DEF PageState, NoPreview, Preview, AnySelection
<1>4. ~VersionsInitialized(switched) /\ PinsMatch(switched)
  <2>1. page.env # Unchosen => page.initialized \in {NoSelection, Key(page)}
    BY DEF DeployInv, KeyMatches
  <2>2. Key(switched) # NoSelection => page.initialized # Key(switched)
    BY <1>2, <1>3, <2>1, DeployConstants DEF Key, NoSelection
  <2>3. ~VersionsInitialized(switched)
    BY <1>3, <2>2 DEF VersionsInitialized
  <2> QED BY <2>3 DEF PinsMatch
<1> HIDE DEF switched
<1>5. /\ filled \in PageState
      /\ filled = [switched EXCEPT !.pins = filled.pins, !.initialized = filled.initialized]
  <2>1. \A k \in Selections : OfProject(queries[k].pins, k[1])
    BY DEF DeployInv, StoredPinsMatch
  <2> QED BY <1>2, <1>3, <1>4, <2>1, InitializeMatches
<1> HIDE DEF filled
<1>6. /\ filled.preview = NoPreview /\ filled.confirming = page.confirming
      /\ filled.deploying = page.deploying
  BY <1>3, <1>5 DEF PageState
<1>7. /\ s \in PageState /\ s.env = Unchosen /\ s.preview = NoPreview
      /\ s.confirming = page.confirming /\ s.deploying = page.deploying
  BY <1>5, <1>6 DEF PageState
<1>8. Choose(s)
  BY <1>1 DEF switched, filled
<1> HIDE DEF s
<1>9. Key(s) = NoSelection
  BY <1>7 DEF Key
<1>10. /\ PinsMatch(s) /\ KeyMatches(s) /\ PreviewFits(s) /\ PreviewIsCurrent(s)
  BY <1>7, <1>9
     DEF PinsMatch, KeyMatches, PreviewFits, PreviewIsCurrent, VersionsInitialized, NoPreview
<1>11. DeploymentMatches(s)
  <2>1. page.confirming = FALSE
    BY <1>2, <1>8 DEF Choose, PageState
  <2> QED BY <1>7, <2>1 DEF DeployInv, DeploymentMatches
<1> QED BY <1>7, <1>8, <1>10, <1>11, ChooseInv

LEMMA SelectEnvInv == ASSUME DeployInv, SelectEnv PROVE DeployInv'
<1>1. PICK e \in DeployEnvs \ {page.env} :
        Choose([Unpinned(page) EXCEPT !.env = e, !.initialized = NoSelection,
                                      !.preview = NoPreview])
  BY DEF SelectEnv
<1> DEFINE s == [Unpinned(page) EXCEPT !.env = e, !.initialized = NoSelection,
                                       !.preview = NoPreview]
<1>2. page \in PageState
  BY DEF DeployInv, DeployTypeOK
<1>3. /\ s \in PageState /\ s.initialized = NoSelection /\ s.preview = NoPreview
      /\ s.confirming = page.confirming /\ s.deploying = page.deploying
  BY <1>2, UnpinnedPage, NoPinsType DEF PageState, NoPreview, Preview, AnySelection
<1>4. Choose(s)
  BY <1>1
<1> HIDE DEF s
<1>5. /\ PinsMatch(s) /\ KeyMatches(s) /\ PreviewFits(s) /\ PreviewIsCurrent(s)
  BY <1>3
     DEF PinsMatch, KeyMatches, PreviewFits, PreviewIsCurrent, VersionsInitialized, NoPreview
<1>6. DeploymentMatches(s)
  <2>1. page.confirming = FALSE
    BY <1>2, <1>4 DEF Choose, PageState
  <2> QED BY <1>3, <2>1 DEF DeployInv, DeploymentMatches
<1> QED BY <1>3, <1>4, <1>5, <1>6, ChooseInv

LEMMA RefreshPreviewInv == ASSUME DeployInv, RefreshPreview PROVE DeployInv'
<1> DEFINE asked == [phase |-> "pending", key |-> Key(page), pins |-> page.pins,
                     errors |-> FALSE]
           s == [page EXCEPT !.preview = asked]
<1>1. Choose(s) /\ CanPreview(page)
  BY DEF RefreshPreview, AskPreview
<1>2. page \in PageState
  BY DEF DeployInv, DeployTypeOK
<1>3. asked \in Preview
  BY <1>2, KeyType DEF PageState, Preview
<1>4. /\ s \in PageState /\ s.preview = asked
      /\ s.project = page.project /\ s.env = page.env /\ s.pins = page.pins
      /\ s.initialized = page.initialized
      /\ s.confirming = page.confirming /\ s.deploying = page.deploying
  BY <1>2, <1>3 DEF PageState
<1> HIDE DEF s
<1>5. Key(s) = Key(page)
  BY <1>4 DEF Key
<1>6. VersionsInitialized(s) = VersionsInitialized(page)
  BY <1>4, <1>5, Zenon DEF VersionsInitialized
<1>7. page.pins.version.of = page.project
  BY <1>1 DEF DeployInv, PinsMatch, OfProject, CanPreview, Resolved
<1>8. PinsMatch(s) /\ KeyMatches(s) /\ DeploymentMatches(s)
  BY <1>4, <1>5, <1>6 DEF DeployInv, PinsMatch, KeyMatches, DeploymentMatches
<1>9. PreviewFits(s) /\ PreviewIsCurrent(s)
  BY <1>4, <1>5, <1>7 DEF PreviewFits, PreviewIsCurrent
<1> QED BY <1>1, <1>4, <1>8, <1>9, ChooseInv

(* Pins are chosen, or resolved, of the project on screen.                 *)
LEMMA NewPinsInv ==
  ASSUME DeployInv, NEW pins \in Pins,
         VersionsInitialized(page), OfProject(pins, page.project),
         NEW s \in PageState, s.pins = pins,
         s.project = page.project, s.env = page.env, s.initialized = page.initialized,
         s.preview = page.preview, s.confirming = page.confirming,
         s.deploying = page.deploying,
         page' = Settled(s, queries), UNCHANGED <<queries, deployed>>
  PROVE  DeployInv'
<1>1. page \in PageState /\ queries \in [Selections -> Loaded]
      /\ deployed \in [Selections -> Pins] /\ StoredPinsMatch(queries, deployed)
  BY DEF DeployInv, DeployTypeOK
<1>2. PinsMatch(s)
  BY DEF PinsMatch
<1> QED BY <1>1, <1>2, SameSelection, SettlesInv

LEMMA SelectProjectVersionInv == ASSUME DeployInv, SelectProjectVersion PROVE DeployInv'
<1>1. PICK n \in 1..VersionCount :
        Choose([page EXCEPT !.pins.version = VersionOf(page.project, n)])
  BY DEF SelectProjectVersion
<1> DEFINE pins == [page.pins EXCEPT !.version = VersionOf(page.project, n)]
<1>2. page \in PageState
  BY DEF DeployInv, DeployTypeOK
<1>3. pins \in Pins /\ pins.version = VersionOf(page.project, n)
  BY <1>2, DeployConstants DEF PageState, Pins, Version, VersionOf
<1>4. OfProject(pins, page.project)
  BY <1>3 DEF OfProject, VersionOf
<1> DEFINE s == [page EXCEPT !.pins.version = VersionOf(page.project, n)]
<1>5. /\ s \in PageState /\ s.pins = pins
      /\ s.project = page.project /\ s.env = page.env /\ s.initialized = page.initialized
      /\ s.preview = page.preview
      /\ s.confirming = page.confirming /\ s.deploying = page.deploying
  BY <1>2, <1>3 DEF PageState
<1>6. Choose(s)
  BY <1>1
<1> HIDE DEF s
<1> QED BY <1>3, <1>4, <1>5, <1>6, NewPinsInv DEF SelectProjectVersion, Choose

LEMMA GroupPinsInv ==
  ASSUME DeployInv, VersionsInitialized(page),
         NEW g \in DOMAIN page.pins.groups, NEW n \in 1..VersionCount,
         NEW groups \in SUBSET Refs,
         page' = Settled([page EXCEPT !.pins.groups[g] = n, !.asked = groups], queries),
         UNCHANGED <<queries, deployed>>
  PROVE  DeployInv'
<1> DEFINE pins == [page.pins EXCEPT !.groups[g] = n]
<1>1. page \in PageState
  BY DEF DeployInv, DeployTypeOK
<1>2. page.pins \in Pins /\ page.pins.groups \in GroupPins
  BY <1>1 DEF PageState, Pins
<1>3. [page.pins.groups EXCEPT ![g] = n] \in GroupPins
  BY <1>2, GroupPinType, DeployConstants
<1>4. pins \in Pins /\ pins.version = page.pins.version
  BY <1>2, <1>3 DEF Pins
<1>5. OfProject(pins, page.project)
  BY <1>4 DEF DeployInv, PinsMatch, OfProject
<1> DEFINE s == [page EXCEPT !.pins.groups[g] = n, !.asked = groups]
<1>6. /\ s \in PageState /\ s.pins = pins
      /\ s.project = page.project /\ s.env = page.env /\ s.initialized = page.initialized
      /\ s.preview = page.preview
      /\ s.confirming = page.confirming /\ s.deploying = page.deploying
  BY <1>1, <1>4 DEF PageState
<1> HIDE DEF s, pins
<1> QED BY <1>4, <1>5, <1>6, NewPinsInv DEF s

LEMMA SelectGroupVersionInv == ASSUME DeployInv, SelectGroupVersion PROVE DeployInv'
<1>1. PICK g \in DOMAIN page.pins.groups, n \in 1..VersionCount :
        Choose([page EXCEPT !.pins.groups[g] = n])
  BY DEF SelectGroupVersion
<1>2. page \in PageState
  BY DEF DeployInv, DeployTypeOK
<1>3. [page EXCEPT !.pins.groups[g] = n]
        = [page EXCEPT !.pins.groups[g] = n, !.asked = page.asked]
  BY <1>2 DEF PageState
<1>4. page.asked \in SUBSET Refs
  BY <1>2 DEF PageState
<1> QED BY <1>1, <1>3, <1>4, GroupPinsInv DEF SelectGroupVersion, Choose

LEMMA ResolveGroupInv == ASSUME DeployInv, ResolveGroup PROVE DeployInv'
<1>1. PICK together \in SUBSET {g \in DOMAIN page.pins.groups \ page.asked :
                                  page.pins.groups[g] = 0} :
        \E last \in together :
          page' = Settled([page EXCEPT !.pins.groups[last] = VersionCount,
                                       !.asked = page.asked \cup together], queries)
  BY DEF ResolveGroup
<1>2. PICK last \in together :
        page' = Settled([page EXCEPT !.pins.groups[last] = VersionCount,
                                     !.asked = page.asked \cup together], queries)
  BY <1>1
<1>3. page.asked \in SUBSET Refs /\ DOMAIN page.pins.groups \subseteq Refs
  BY DEF DeployInv, DeployTypeOK, PageState, Pins, GroupPins
<1>4. VersionCount \in 1..VersionCount
  BY DeployConstants
<1> DEFINE groups == page.asked \cup together
<1>5. groups \in SUBSET Refs /\ last \in DOMAIN page.pins.groups
  BY <1>3
<1>6. page' = Settled([page EXCEPT !.pins.groups[last] = VersionCount, !.asked = groups], queries)
  BY <1>2
<1>7. VersionsInitialized(page) /\ UNCHANGED <<queries, deployed>>
  BY DEF ResolveGroup
<1> HIDE DEF groups
<1> QED BY <1>4, <1>5, <1>6, <1>7, GroupPinsInv, Zenon

(* Events that only open or close something, or end a deployment.          *)
LEMMA SamePins ==
  ASSUME DeployInv, NEW s \in PageState,
         s.project = page.project, s.env = page.env, s.initialized = page.initialized,
         s.preview = page.preview, s.pins = page.pins
  PROVE  /\ Key(s) = Key(page) /\ VersionsInitialized(s) = VersionsInitialized(page)
         /\ PinsMatch(s) /\ KeyMatches(s) /\ PreviewFits(s) /\ PreviewIsCurrent(s)
<1>1. Key(s) = Key(page)
  BY DEF Key
<1>2. VersionsInitialized(s) = VersionsInitialized(page)
  BY <1>1, Zenon DEF VersionsInitialized
<1>3. CanPreview(s) = CanPreview(page)
  BY <1>2, Zenon DEF CanPreview
<1> QED
  BY <1>1, <1>2, <1>3 DEF DeployInv, PinsMatch, KeyMatches, PreviewFits, PreviewIsCurrent

LEMMA TogglePinningInv == ASSUME DeployInv, TogglePinning PROVE DeployInv'
<1> DEFINE s == [Unpinned(page) EXCEPT !.expanded = ~page.expanded]
<1>1. page \in PageState
  BY DEF DeployInv, DeployTypeOK
<1>2. /\ s \in PageState /\ s.project = page.project /\ s.env = page.env
      /\ s.initialized = page.initialized /\ s.preview = page.preview /\ s.pins = page.pins
      /\ s.confirming = page.confirming /\ s.deploying = page.deploying
  BY <1>1, UnpinnedPage DEF PageState
<1>3. Choose(s)
  BY DEF TogglePinning
<1> HIDE DEF s
<1>4. DeploymentMatches(s)
  BY <1>2, SamePins DEF DeployInv, DeploymentMatches
<1> QED BY <1>2, <1>3, <1>4, SamePins, ChooseInv

LEMMA OpenConfirmInv == ASSUME DeployInv, OpenConfirm PROVE DeployInv'
<1> DEFINE s == [page EXCEPT !.confirming = TRUE]
<1>1. page \in PageState
  BY DEF DeployInv, DeployTypeOK
<1>2. /\ s \in PageState /\ s.project = page.project /\ s.env = page.env
      /\ s.initialized = page.initialized /\ s.preview = page.preview /\ s.pins = page.pins
      /\ s.deploying = page.deploying
  BY <1>1 DEF PageState
<1>3. Choose(s) /\ VersionsInitialized(page)
  BY DEF OpenConfirm
<1> HIDE DEF s
<1>4. DeploymentMatches(s)
  BY <1>2, <1>3, SamePins DEF DeployInv, DeploymentMatches
<1> QED BY <1>2, <1>3, <1>4, SamePins, ChooseInv

(* The page becomes s without an effect that does anything.                *)
LEMMA UnchangedQueriesInv ==
  ASSUME DeployInv, NEW s \in PageState,
         PinsMatch(s), KeyMatches(s), PreviewFits(s), PreviewIsCurrent(s),
         DeploymentMatches(s),
         page' = s, UNCHANGED <<queries, deployed>>
  PROVE  DeployInv'
  BY DEF DeployInv, DeployTypeOK, StoredPinsMatch, PinsMatch, KeyMatches, PreviewFits,
         PreviewIsCurrent, DeploymentMatches, VersionsInitialized, CanPreview, Key,
         OfProject, Resolved

LEMMA CloseConfirmInv == ASSUME DeployInv, CloseConfirm PROVE DeployInv'
<1> DEFINE s == [page EXCEPT !.confirming = FALSE]
<1>1. page \in PageState
  BY DEF DeployInv, DeployTypeOK
<1>2. /\ s \in PageState /\ s.project = page.project /\ s.env = page.env
      /\ s.initialized = page.initialized /\ s.preview = page.preview /\ s.pins = page.pins
      /\ s.confirming = FALSE /\ s.deploying = page.deploying
  BY <1>1 DEF PageState
<1>3. page' = s /\ UNCHANGED <<queries, deployed>>
  BY DEF CloseConfirm
<1> HIDE DEF s
<1>4. DeploymentMatches(s)
  BY <1>2 DEF DeployInv, DeploymentMatches
<1> QED BY <1>2, <1>3, <1>4, SamePins, UnchangedQueriesInv

LEMMA HandleDeployInv == ASSUME DeployInv, HandleDeploy PROVE DeployInv'
<1> DEFINE sent == [key |-> Key(page), pins |-> page.pins]
           s == [page EXCEPT !.deploying = sent]
<1>1. page \in PageState
  BY DEF DeployInv, DeployTypeOK
<1>2. sent \in [key : AnySelection, pins : Pins]
  BY <1>1, KeyType DEF PageState
<1>3. /\ s \in PageState /\ s.project = page.project /\ s.env = page.env
      /\ s.initialized = page.initialized /\ s.preview = page.preview /\ s.pins = page.pins
      /\ s.confirming = page.confirming /\ s.deploying = sent
  BY <1>1, <1>2 DEF PageState
<1>4. page' = s /\ UNCHANGED <<queries, deployed>> /\ page.confirming = TRUE
  BY DEF HandleDeploy
<1> HIDE DEF s
<1>5. VersionsInitialized(page)
  BY <1>4 DEF DeployInv, DeploymentMatches
<1>6. OfProject(page.pins, page.project) /\ Key(page)[1] = page.project
  BY <1>1, <1>5, KeyType DEF DeployInv, PinsMatch, VersionsInitialized
<1>7. OfProject(sent.pins, sent.key[1])
  BY <1>6
<1>8. DeploymentMatches(s)
  BY <1>3, <1>5, <1>7, SamePins DEF DeploymentMatches
<1> QED BY <1>3, <1>4, <1>8, SamePins, UnchangedQueriesInv

LEMMA DeployFailsInv == ASSUME DeployInv, DeployFails PROVE DeployInv'
<1> DEFINE s == [page EXCEPT !.deploying = NoDeploy]
<1>1. page \in PageState
  BY DEF DeployInv, DeployTypeOK
<1>2. NoDeploy \in [key : AnySelection, pins : Pins] /\ NoDeploy.pins.version = NoVersion
  BY NoPinsType DEF NoDeploy, NoPins, AnySelection
<1>3. /\ s \in PageState /\ s.project = page.project /\ s.env = page.env
      /\ s.initialized = page.initialized /\ s.preview = page.preview /\ s.pins = page.pins
      /\ s.confirming = page.confirming /\ s.deploying = NoDeploy
  BY <1>1, <1>2 DEF PageState
<1>4. page' = s /\ UNCHANGED <<queries, deployed>>
  BY DEF DeployFails
<1> HIDE DEF s
<1>5. DeploymentMatches(s)
  BY <1>2, <1>3, SamePins DEF DeployInv, DeploymentMatches, OfProject
<1> QED BY <1>3, <1>4, <1>5, SamePins, UnchangedQueriesInv

LEMMA PreviewReceivedInv == ASSUME DeployInv, PreviewReceived PROVE DeployInv'
<1>1. page \in PageState /\ page.preview.phase = "pending"
      /\ UNCHANGED <<queries, deployed>>
  BY DEF DeployInv, DeployTypeOK, PreviewReceived
<1>2. CASE \E e \in BOOLEAN :
             page' = [page EXCEPT !.preview.phase = "shown", !.preview.errors = e]
  <2>1. PICK e \in BOOLEAN :
          page' = [page EXCEPT !.preview.phase = "shown", !.preview.errors = e]
    BY <1>2
  <2> DEFINE answer == [page.preview EXCEPT !.phase = "shown", !.errors = e]
             s == [page EXCEPT !.preview = answer]
  <2>2. answer \in Preview /\ answer.key = page.preview.key /\ answer.pins = page.preview.pins
    BY <1>1 DEF PageState, Preview
  <2>3. /\ s \in PageState /\ s.preview = answer
        /\ s.project = page.project /\ s.env = page.env /\ s.pins = page.pins
        /\ s.initialized = page.initialized
        /\ s.confirming = page.confirming /\ s.deploying = page.deploying
    BY <1>1, <2>2 DEF PageState
  <2>4. page' = s
    BY <1>1, <2>1 DEF PageState
  <2> HIDE DEF s, answer
  <2>5. Key(s) = Key(page)
    BY <2>3 DEF Key
  <2>6. VersionsInitialized(s) = VersionsInitialized(page)
    BY <2>3, <2>5, Zenon DEF VersionsInitialized
  <2>7. CanPreview(s) = CanPreview(page)
    BY <2>3, <2>6, Zenon DEF CanPreview
  <2>8. PreviewFits(s) /\ PreviewIsCurrent(s)
    BY <1>1, <2>2, <2>3, <2>5, <2>7 DEF DeployInv, PreviewFits, PreviewIsCurrent
  <2>9. PinsMatch(s) /\ KeyMatches(s) /\ DeploymentMatches(s)
    BY <2>3, <2>5, <2>6 DEF DeployInv, PinsMatch, KeyMatches, DeploymentMatches
  <2> QED BY <1>1, <2>3, <2>4, <2>8, <2>9, UnchangedQueriesInv
<1>3. CASE page' = [page EXCEPT !.preview = NoPreview]
  <2> DEFINE s == [page EXCEPT !.preview = NoPreview]
  <2>1. /\ s \in PageState /\ s.preview.phase = "none"
        /\ s.project = page.project /\ s.env = page.env /\ s.pins = page.pins
        /\ s.initialized = page.initialized
        /\ s.confirming = page.confirming /\ s.deploying = page.deploying
    BY <1>1, NoPinsType DEF PageState, NoPreview, Preview, AnySelection
  <2>2. page' = s
    BY <1>3
  <2> HIDE DEF s
  <2>3. Key(s) = Key(page)
    BY <2>1 DEF Key
  <2>4. VersionsInitialized(s) = VersionsInitialized(page)
    BY <2>1, <2>3, Zenon DEF VersionsInitialized
  <2>5. PreviewFits(s) /\ PreviewIsCurrent(s)
    BY <2>1 DEF PreviewFits, PreviewIsCurrent
  <2>6. PinsMatch(s) /\ KeyMatches(s) /\ DeploymentMatches(s)
    BY <2>1, <2>3, <2>4 DEF DeployInv, PinsMatch, KeyMatches, DeploymentMatches
  <2> QED BY <1>1, <2>1, <2>2, <2>5, <2>6, UnchangedQueriesInv
<1> QED BY <1>2, <1>3 DEF PreviewReceived

(* A query of the selection on screen arrives.                             *)
LEMMA ArrivalInv ==
  ASSUME DeployInv, NEW q \in Loaded, Key(page) # NoSelection,
         OfProject(q.pins, Key(page)[1]),
         queries' = [queries EXCEPT ![Key(page)] = q],
         page' = Settled(page, queries'), UNCHANGED deployed
  PROVE  DeployInv'
<1>1. page \in PageState /\ queries \in [Selections -> Loaded]
      /\ deployed \in [Selections -> Pins] /\ StoredPinsMatch(queries, deployed)
  BY DEF DeployInv, DeployTypeOK
<1>2. Key(page) \in Selections
  BY <1>1, KeyType
<1>3. queries' \in [Selections -> Loaded]
  BY <1>1, <1>2
<1>4. StoredPinsMatch(queries', deployed')
  BY <1>1, <1>2 DEF StoredPinsMatch
<1> QED BY <1>1, <1>3, <1>4, SettlesInv DEF DeployInv

LEMMA LoadTemplatesAndValuesInv ==
  ASSUME DeployInv, LoadTemplatesAndValues PROVE DeployInv'
<1>1. PICK r \in {"loaded", "missing"} :
        Load(LAMBDA q : IF q.ready = "loading" THEN [q EXCEPT !.ready = r] ELSE q)
  BY DEF LoadTemplatesAndValues
<1> DEFINE old == queries[Key(page)]
           q == IF old.ready = "loading" THEN [old EXCEPT !.ready = r] ELSE old
<1>2. page \in PageState /\ queries \in [Selections -> Loaded]
      /\ StoredPinsMatch(queries, deployed)
  BY DEF DeployInv, DeployTypeOK
<1>3. Key(page) # NoSelection /\ Key(page) \in Selections
  BY <1>1, <1>2, KeyType DEF Load
<1>4. q \in Loaded /\ q.pins = old.pins
  BY <1>2, <1>3 DEF Loaded
<1>5. OfProject(q.pins, Key(page)[1])
  BY <1>2, <1>3, <1>4 DEF StoredPinsMatch
<1>6. queries' = [queries EXCEPT ![Key(page)] = q]
  BY <1>1, <1>2, <1>3 DEF Load
<1>7. page' = Settled(page, queries') /\ UNCHANGED deployed
  BY <1>1 DEF Load
<1> QED BY <1>3, <1>4, <1>5, <1>6, <1>7, ArrivalInv

LEMMA LoadVersionsInv == ASSUME DeployInv, LoadVersions PROVE DeployInv'
<1> DEFINE old == queries[Key(page)]
           q == [old EXCEPT !.versions = TRUE]
<1>1. Load(LAMBDA x : [x EXCEPT !.versions = TRUE])
  BY DEF LoadVersions
<1>2. page \in PageState /\ queries \in [Selections -> Loaded]
      /\ StoredPinsMatch(queries, deployed)
  BY DEF DeployInv, DeployTypeOK
<1>3. Key(page) # NoSelection /\ Key(page) \in Selections
  BY <1>1, <1>2, KeyType DEF Load
<1>4. q \in Loaded /\ q.pins = old.pins
  BY <1>2, <1>3 DEF Loaded
<1>5. OfProject(q.pins, Key(page)[1])
  BY <1>2, <1>3, <1>4 DEF StoredPinsMatch
<1>6. queries' = [queries EXCEPT ![Key(page)] = q]
  BY <1>1, <1>2, <1>3 DEF Load
<1>7. page' = Settled(page, queries') /\ UNCHANGED deployed
  BY <1>1 DEF Load
<1> QED BY <1>3, <1>4, <1>5, <1>6, <1>7, ArrivalInv

LEMMA LoadLatestDeploymentInv == ASSUME DeployInv, LoadLatestDeployment PROVE DeployInv'
<1> DEFINE old == queries[Key(page)]
           known == IF deployed[Key(page)] = NoPins THEN "missing" ELSE "loaded"
           q == [old EXCEPT !.latest = known, !.pins = deployed[Key(page)]]
<1>1. /\ Key(page) # NoSelection
      /\ queries' = [queries EXCEPT ![Key(page)] = q]
      /\ page' = Settled(page, queries') /\ UNCHANGED deployed
  BY DEF LoadLatestDeployment, Load
<1>2. page \in PageState /\ queries \in [Selections -> Loaded]
      /\ deployed \in [Selections -> Pins] /\ StoredPinsMatch(queries, deployed)
  BY DEF DeployInv, DeployTypeOK
<1>3. Key(page) \in Selections
  BY <1>1, <1>2, KeyType
<1>4. q \in Loaded /\ q.pins = deployed[Key(page)]
  BY <1>2, <1>3 DEF Loaded
<1>5. OfProject(q.pins, Key(page)[1])
  BY <1>2, <1>3, <1>4 DEF StoredPinsMatch
<1> QED BY <1>1, <1>4, <1>5, ArrivalInv

LEMMA DeploySucceedsInv == ASSUME DeployInv, DeploySucceeds PROVE DeployInv'
<1> DEFINE s == [Unpinned(page) EXCEPT !.confirming = FALSE, !.initialized = NoSelection,
                                       !.deploying = NoDeploy]
<1>1. page \in PageState /\ queries \in [Selections -> Loaded]
      /\ deployed \in [Selections -> Pins] /\ StoredPinsMatch(queries, deployed)
  BY DEF DeployInv, DeployTypeOK
<1>2. NoDeploy \in [key : AnySelection, pins : Pins] /\ NoDeploy.pins.version = NoVersion
      /\ NoSelection \in AnySelection
  BY NoPinsType DEF NoDeploy, NoPins, AnySelection
<1>3. /\ s \in PageState /\ s.initialized = NoSelection /\ s.confirming = FALSE
      /\ s.deploying = NoDeploy /\ s.preview = page.preview
      /\ s.project = page.project /\ s.env = page.env
  BY <1>1, <1>2, UnpinnedPage DEF PageState
<1>4. /\ page' = Settled(s, queries) /\ UNCHANGED queries
      /\ deployed' = [deployed EXCEPT ![page.deploying.key] = page.deploying.pins]
  BY DEF DeploySucceeds
<1> HIDE DEF s
<1>5. Key(s) = Key(page)
  BY <1>3 DEF Key
<1>6. ~VersionsInitialized(s)
  BY <1>3 DEF VersionsInitialized
<1>7. PinsMatch(s) /\ KeyMatches(s) /\ PreviewIsCurrent(s) /\ DeploymentMatches(s)
  BY <1>2, <1>3, <1>6
     DEF PinsMatch, KeyMatches, PreviewIsCurrent, CanPreview, DeploymentMatches, OfProject
<1>8. PreviewFits(s)
  BY <1>3, <1>5 DEF DeployInv, PreviewFits
<1>9. page.deploying.pins \in Pins
  BY <1>1 DEF PageState
<1>10. deployed' \in [Selections -> Pins]
  BY <1>1, <1>4, <1>9
<1>11. OfProject(page.deploying.pins, page.deploying.key[1])
  BY DEF DeployInv, DeploymentMatches
<1>12. StoredPinsMatch(queries', deployed')
  BY <1>1, <1>4, <1>11 DEF StoredPinsMatch
<1> QED BY <1>1, <1>3, <1>4, <1>7, <1>8, <1>10, <1>12, SettlesInv

-----------------------------------------------------------------------------
(* The inductive invariant: what the page shows belongs to the selection,  *)
(* and what it fills pins from is stored under the project it is of.       *)
THEOREM DeployInvariance == DeploySpec => []DeployInv
<1>1. DeployInv /\ [DeployNext]_deployVars => DeployInv'
  <2> SUFFICES ASSUME DeployInv, [DeployNext]_deployVars PROVE DeployInv'
    OBVIOUS
  <2>1. CASE DeployNext
    BY <2>1, SelectProjectInv, SelectEnvInv, RefreshPreviewInv, SelectProjectVersionInv,
       SelectGroupVersionInv, TogglePinningInv, ResolveGroupInv, LoadTemplatesAndValuesInv,
       LoadVersionsInv, LoadLatestDeploymentInv, PreviewReceivedInv, OpenConfirmInv,
       CloseConfirmInv, HandleDeployInv, DeploySucceedsInv, DeployFailsInv, Zenon
       DEF DeployNext
  <2>2. CASE UNCHANGED deployVars
    <3>1. page' = page /\ UNCHANGED <<queries, deployed>>
      BY <2>2 DEF deployVars
    <3> QED BY <3>1, UnchangedQueriesInv DEF DeployInv, DeployTypeOK
  <2> QED BY <2>1, <2>2
<1> QED BY <1>1, DeployInitInv, PTL DEF DeploySpec

(* However choices, arriving queries, effects and deployments interleave,  *)
(* the deploy page never shows or asks for a preview of another project or *)
(* environment than the ones chosen.                                       *)
THEOREM PreviewsAreOfSelection == DeploySpec => []PreviewIsOfSelection
<1>1. DeployInv => PreviewIsOfSelection
  BY DEF DeployInv, PreviewFits, PreviewIsOfSelection
<1> QED BY <1>1, DeployInvariance, PTL

(* And a preview on screen is the preview of the pins that Deploy sends.   *)
THEOREM PinsAreAlwaysReviewed == DeploySpec => []ResolvedPinsAreReviewed
<1>1. DeployInv => ResolvedPinsAreReviewed
  BY DEF DeployInv, PreviewIsCurrent, ResolvedPinsAreReviewed
<1> QED BY <1>1, DeployInvariance, PTL
=============================================================================
