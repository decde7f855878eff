\* Every page and form of the frontend, one opened at a time. Bounds stop them.
SPECIFICATION FairSpec
INVARIANTS
  OtherScopesSurvive SavedRoleReopensAsShown SavingKeepsGrants
  UntouchedLevelsAreLatestKnown RemovesTheOneConfirmed SavedPolicyIsEnforced
  OldVersionsAreNotSaved UntouchedEditorShowsCurrent
  SelectorsShowWhatIsSaved ListVariablesAreStagedAsLists ProposalStartsFromCurrent
  PreviewIsOfSelection ResolvedPinsAreReviewed
  LastReviewClickDecides DiffsReadBack
  LastSwitchWins OwnWritesAreSeen
PROPERTIES
  SavingWidensItsProjectOnly  SignedOutIsNoticed MutationsAreShown
CONSTANTS
  Projects = {"p", "q"}
  Environments = {"dev"}
  Groups = {"g", "h"}
  Listed = {"dev"}
  StoredRoles <- MCStoredRoles
  SampleAtoms <- MCSampleAtoms
  MaxActs = 2
  MaxEdits = 2
  Candidates <- MCCandidates
  MaxRequests = 2
  Parts <- MCParts
  MaxParts = 2
  MaxSaves = 1
  MaxLive = 2
  MaxChanges = 1
  MaxItems = 1
  KeyKinds <- MCKeyKinds
  MaxGroupVersions = 2
  MaxRows = 2
  DeployProjects = {"p", "q"}
  DeployEnvs = {"dev", "prod"}
  Refs = {"g", "h"}
  VersionCount = 2
  MaxSteps = 5
  MaxClicks = 3
  Lines = {"", "k"}
  MaxLines = 2
  ValueKeys = {"k"}
  Others = 1
  Users = {u}
  Nobody = nobody
  MaxEvents = 3
  MaxSwitches = 3
  MaxVersion = 2
CHECK_DEADLOCK FALSE
