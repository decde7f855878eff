----------------------------- MODULE BrowserProofs -----------------------------
(***************************************************************************)
(* The frontend as a whole: whichever page is opened, every page behaves   *)
(* as its own specification says, so that what is proved of a page holds   *)
(* in the browser.                                                         *)
(***************************************************************************)
EXTENDS Browser, RoleProofs, DeployPageProofs, PageProofs

LEMMA PagesStart ==
  ASSUME Init
  PROVE  /\ RoleInit /\ RoundTripInit /\ PermsInit /\ RosterInit /\ PolicyInit
         /\ WorkspaceInit /\ ValuesInit /\ GroupInit /\ DeployInit /\ ReviewInit
         /\ DiffInit /\ SessionInit /\ FormInit /\ CacheInit
BY DEF Init

\* A step of the browser is a step of the page that is opened, and of no other.
LEMMA PagesStep ==
  ASSUME [Next]_vars
  PROVE  /\ [RoleNext]_roleVars
         /\ [RoundTripNext]_roundTripVars
         /\ [PermsNext]_permsVars
         /\ [RosterNext]_rosterVars
         /\ [PolicyNext]_policyVars
         /\ [WorkspaceNext]_workspaceVars
         /\ [ValuesNext]_valuesVars
         /\ [GroupNext]_groupVars
         /\ [DeployNext]_deployVars
         /\ [ReviewNext]_reviewVars
         /\ [DiffNext]_diffVars
         /\ [SessionNext]_sessionVars
         /\ [FormNext]_formVars
         /\ [CacheNext]_cacheVars
<1>1. CASE RolesPage
  BY <1>1 DEF RolesPage
<1>2. CASE RoleData
  BY <1>2 DEF RoleData
<1>3. CASE MemberPermissionsPage
  BY <1>3 DEF MemberPermissionsPage
<1>4. CASE ListsOfUsers
  BY <1>4 DEF ListsOfUsers
<1>5. CASE PolicyForms
  BY <1>5 DEF PolicyForms
<1>6. CASE WorkspaceProjectPage
  BY <1>6 DEF WorkspaceProjectPage
<1>7. CASE WorkspaceEnvPage
  BY <1>7 DEF WorkspaceEnvPage
<1>8. CASE GlobalValuesPage
  BY <1>8 DEF GlobalValuesPage
<1>9. CASE DeploymentPage
  BY <1>9 DEF DeploymentPage
<1>10. CASE PullRequestPage
  BY <1>10 DEF PullRequestPage
<1>11. CASE ChangeCard
  BY <1>11 DEF ChangeCard
<1>12. CASE AuthProvider
  BY <1>12 DEF AuthProvider
<1>13. CASE LoginPage
  BY <1>13 DEF LoginPage
<1>14. CASE QueryClient
  BY <1>14 DEF QueryClient
<1>15. CASE UNCHANGED vars
  BY <1>15 DEF vars
<1> QED
  BY <1>1, <1>2, <1>3, <1>4, <1>5, <1>6, <1>7,
     <1>8, <1>9, <1>10, <1>11, <1>12, <1>13, <1>14, <1>15 DEF Next

\* The browser implements the specification of every page.
THEOREM BrowserHasItsPages ==
  Spec => /\ RoleSpec /\ RoundTripSpec /\ PermsSpec /\ RosterSpec /\ PolicySpec
          /\ WorkspaceSpec /\ ValuesSpec /\ GroupSpec /\ DeploySpec /\ ReviewSpec
          /\ DiffSpec /\ SessionSpec /\ FormSpec /\ CacheSpec
BY PagesStart, PagesStep, PTL
   DEF Spec, RoleSpec, RoundTripSpec, PermsSpec, RosterSpec, PolicySpec, WorkspaceSpec,
       ValuesSpec, GroupSpec, DeploySpec, ReviewSpec, DiffSpec, SessionSpec, FormSpec, CacheSpec

\* Whatever pages are opened, and whatever is done on them, a role keeps the grants
\* that a dialog did not show, is shown again as it was saved, and is not widened
\* outside its project; a member's levels, a removal, a policy, a staged version, a
\* value, a proposal, a deployment, a review, a log-in and a refetch are those that
\* the user saw and asked for.
THEOREM BrowserIsSafe ==
  Spec => /\ [](OtherScopesSurvive /\ SavedRoleReopensAsShown /\ SavingKeepsGrants)
          /\ SavingWidensItsProjectOnly
          /\ [](UntouchedLevelsAreLatestKnown /\ RemovesTheOneConfirmed)
          /\ []SavedPolicyIsEnforced
          /\ [](OldVersionsAreNotSaved /\ UntouchedEditorShowsCurrent)
          /\ [](SelectorsShowWhatIsSaved /\ ListVariablesAreStagedAsLists)
          /\ []ProposalStartsFromCurrent
          /\ [](PreviewIsOfSelection /\ ResolvedPinsAreReviewed)
          /\ [](LastReviewClickDecides /\ DiffsReadBack)
          /\ MergesDoWhatWasShown
          /\ [](LastSwitchWins /\ OwnWritesAreSeen)
<1>1. RoleSpec => [](OtherScopesSurvive /\ SavedRoleReopensAsShown)
  BY OtherScopesAlwaysSurvive, SavedRolesReopenAsShown, PTL
<1>2. RoundTripSpec => []SavingKeepsGrants /\ SavingWidensItsProjectOnly
  BY GrantsSurviveSaving, WideningStaysInProject
<1>3. PermsSpec /\ RosterSpec => [](UntouchedLevelsAreLatestKnown /\ RemovesTheOneConfirmed)
  BY UntouchedLevelsAreSentAsKnown, RemovalIsAsConfirmed, PTL
<1>4. PolicySpec => []SavedPolicyIsEnforced
  BY SavedPoliciesAreEnforced
<1>5. WorkspaceSpec => [](OldVersionsAreNotSaved /\ UntouchedEditorShowsCurrent)
  BY StagedVersionsAreCurrent, EditorIsSeededFromCurrent, PTL
<1>6. ValuesSpec => [](SelectorsShowWhatIsSaved /\ ListVariablesAreStagedAsLists)
  BY SavedReferenceIsShown, ListsAreNeverStagedAsTexts, PTL
<1>7. GroupSpec => []ProposalStartsFromCurrent
  BY ProposalsStartFromCurrent
<1>8. DeploySpec => [](PreviewIsOfSelection /\ ResolvedPinsAreReviewed)
  BY PreviewsAreOfSelection, PinsAreAlwaysReviewed, PTL
<1>9. ReviewSpec /\ DiffSpec
        => [](LastReviewClickDecides /\ DiffsReadBack) /\ MergesDoWhatWasShown
  BY LastClickDecides, DiffsAlwaysReadBack, ShownIsMerged, PTL
<1>10. FormSpec /\ CacheSpec => [](LastSwitchWins /\ OwnWritesAreSeen)
  BY LastSwitchAlwaysWins, PagesReadTheirWrites, PTL
<1> QED
  BY BrowserHasItsPages, <1>1, <1>2, <1>3, <1>4, <1>5, <1>6, <1>7, <1>8, <1>9, <1>10
=============================================================================
