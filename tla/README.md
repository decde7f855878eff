# config-generation in TLA+

The repository is a service for managing the configuration of projects: templates and per-environment
values of a project, and *Global Values* groups shared between projects, are changed only through
reviewed pull requests, kept as immutable versions, rendered and deployed. The backend is a set of Go HTTP
handlers over PostgreSQL (`src/backend`); the frontend (`src/frontend`) is a React application over its API.

The two are hard for different reasons. A handler runs in a goroutine of its own and keeps no state between
requests: all shared state is in the database, at PostgreSQL's default isolation level (READ COMMITTED), and
what is hard to get right is what happens *between the statements* of a handler. A page is a single thread,
but its state is a copy: forms are seeded by effects from a query cache, answers arrive late and out of
order, and a save often replaces more than the page shows. The modules model these two things.

## Inventory

### Server

| Component | Source (`src/backend/...`) | State | Operations | Hard behaviour | What makes it correct |
|---|---|---|---|---|---|
| Pull request lifecycle | `handlers/pull_requests.go`, `workspace.go` | `pull_requests`, `pr_changes`, `pr_approvals` | create, auto-create draft, stage, unstage, discard, submit, approve, withdraw, close, merge | most handlers read a status, decide, and write it back without a lock; clients may vanish in between | one active PR per user and project; terminal means terminal; approved means the condition is met by reviewers of this content |
| Approval conditions | `pull_requests.go` 170-274, `approval_condition.go` | `approval_condition` of a project or group, `user_roles` | evaluate, validate, update | roles and conditions change under open reviews; what validates may be read as less | what is enforced is what was written |
| Merge transaction | `pull_requests.go` 532-1019 | version tables, `environments` | lock, apply snapshot, mark merged, close siblings | row locks, unique index, deadlock between siblings, rows inserted while it runs | all or nothing; no update lost; every merge request ends |
| Versions and overlay | `pull_requests.go` 594-846, `workspace.go` 503-856 | `project_versions` and its links | snapshot copy-forward, overlay reads | environment create and delete around a snapshot; history is edited by deletes | what an author previews is what the merge makes |
| Global Values | `global_values.go` | groups, group versions, entries | create, append, merge | two ways to write a version | every version made on top of the one its author saw |
| Workspace validation | `workspace_validate.go` | none (reads) | validate before submit | it reads the overlay, the merge writes a snapshot | what validates can be rendered once merged |
| Deployments | `deployments.go`, `services/render.go` | `deployments`, entries, group refs | preview, execute, latest | reads over several statements against concurrent merges | a deployment pins what it rendered, for good |
| Access | `roles.go`, `project_members.go`, `member_permissions.go`, `env_admins.go` | roles, members, environment admins | add, remove, set permissions | count-then-delete guards, check-then-transaction | never left without an administrator; what the member page granted ends with the membership |
| Permission check | `middleware/permissions.go` | none (reads) | `satisfies` | wildcards, implied reads | a pure function of the atoms |
| Projects | `projects.go` | `projects` | create, delete, update the condition | deletion removes everything that refers to the project | - |
| Authentication | `auth.go`, `middleware/auth.go` | `users`, `user_identities` | login, logout, me | sessions end at any time | - |

### Frontend

| Component | Source (`src/frontend/src/...`) | State | Hard behaviour | What makes it correct |
|---|---|---|---|---|
| Role editor | `components/roles/role-editor-dialog.tsx`, `lib/role-permissions.ts` | target, capabilities, atoms it cannot show | atoms become capabilities and atoms again; another superuser edits the same role | saving loses nothing it did not show |
| Lists of users | `member-list.tsx`, `env-admin-list.tsx`, `role-list.tsx` and their dialogs | open question, requests | the list is fetched anew under the question | the user removed is the one named |
| Member permissions | `pages/member-permissions-page.tsx` | levels per environment | seeded by an effect, replaced as a whole | what nobody touched is saved as last received |
| Policy and create dialogs | `approval-policy-card.tsx`, `create-project-dialog.tsx`, `create-gv-dialog.tsx`, `lib/approval-condition.ts` | the condition typed | two validators and a parser | every requirement accepted is enforced |
| Workspace templates | `pages/workspace-project-page.tsx`, `components/templates/*` | editor document, version shown, read-only flag | three queries and a version request that come late | an old version is never staged |
| Workspace values | `pages/workspace-env-page.tsx`, `components/values/*` | payload, mode, reference of a variable | four queries seed three states | what is staged is what is shown |
| Global Values editor | `pages/global-values-detail.tsx`, `kv-editor.tsx`, `pages/create-pr.tsx` | rows, historical version | the version shown changes under the rows | a proposal starts from the current version |
| Deploy page | `pages/deploy-page.tsx` | selection, pins, preview | two effects after each render | deployed pins were previewed |
| Review page | `pages/pr-detail-page.tsx`, `pull-requests-page.tsx`, `diff-viewer.tsx` | cached pull request, requests | buttons are offered by an old copy | the last click decides; a merge does what was shown |
| Session and login | `lib/auth.tsx`, `api/client.ts`, `pages/login.tsx` | user, path, requests | the cookie is invisible to the script; logins overlap | a user without a session does not stay |
| Query cache | `lib/query-client.ts`, `hooks/*` | entries, fetches, mutations | fetches under way when a mutation is answered | a page sees what it wrote |

Server components interact only through rows. A merge reads what staging wrote and writes versions that
overlays and deployments read; role changes and condition updates alter the outcome of every later
evaluation; a merge closes the other pull requests of its scope. Pages share the query cache and the session
and nothing else; the frontend meets the server through requests whose answers may be refused, lost or late.

## Modules

| Module | Models |
|---|---|
| `ApprovalCondition` | evaluation of a parsed approval condition, as pure operators |
| `PullRequests`, `PullRequestsProofs` | the lifecycle: every handler that changes a pull request, with requests in flight |
| `AtomicMerge` | what merging promises within one project or group: one step per merge (abstract) |
| `MergeLocks`, `MergeLocksProofs` | the transactions of `Merge` and `AppendVersion` statement by statement, with row locks; implements `AtomicMerge` |
| `ProjectVersions` | what versions contain: staging, overlay, validation, merge, deployments, project deletion |
| `Access`, `AccessProofs` | admins, members, their managed roles and the roles they are assigned to, with overlapping requests |
| `Server`, `ServerProofs` | `Access` and `ProjectVersions` together |
| `RolePermissions` | atoms, what they grant, capabilities, and the way from one to the other and back |
| `RoleEditor` | the roles page: list, dialog, requests, another superuser |
| `RoleRoundTrip` | a role opened and saved unchanged, any number of times; `RoleProofs` is about these three |
| `MemberPermissions`, `UserLists`, `PolicyEditor` | the page of one member, the lists of people, the approval policy forms |
| `TemplateWorkspace`, `EnvValues`, `GroupEditor` | the three editors of content; `ListItems` is what two of them share |
| `DeployPage`, `DeployPageProofs` | the deploy page |
| `ReviewPage`, `ReviewDiffs` | the buttons and the cards of a pull request; `Selection` picks the members of a sequence at a set of positions |
| `Session`, `LoginForm`, `QueryCache` | who is signed in, the animated login forms, what the pages show of the server |
| `Browser`, `BrowserProofs` | the frontend: its pages, one on screen at a time |
| `PageProofs` | the proofs about the other pages, one section each |
| `MCPullRequests`, `MCMergeLocks`, `MCServer`, `MCBrowser` | the small instances TLC checks |

### PullRequests

*State.* `status`, `author`, `scope`, `base`, `changes` are columns of `pull_requests` and the rows of
`pr_changes`, per id; ids are handed out in order (`lastPR`), which is also the order of `created_at`.
`approvals` holds the rows of `pr_approvals` that are not withdrawn, with the content they were given for
(a ghost: the table does not record it). `condition`, `roles`, `history` are the approval condition of each
scope (a project or a group), the global roles of each user and the versions of each scope, each version
named by the pull request it was merged from (0 for a direct append). `base` of a project pull request is a
ghost too: the column stays NULL, the model remembers the head at insertion to be able to say "stale".

*Requests in flight.* `req[r]` is what a Go handler holds in local variables between two statements. A
handler that does everything in one transaction under the row's lock (`stage` into an existing row,
`UnstageChange`, `DiscardWorkspace`, `Merge`) is one action. The others are split at each statement:

| Handler | Actions |
|---|---|
| `GetActiveDraft`, `stage` without a row, `Create` | `GetActiveDraft` / `StageIntoNew` / `CreatePR`, then `InsertPR` |
| `SubmitDraft`, `Close` | `SubmitDraft` / `Close` (read and check), then `WriteStatus` |
| `Approve` | `Approve`, `RecordApproval`, `LoadApprovalCondition`, `LoadApprovals`, `CheckApprovalConditionMet`, `UpdateStatus` |
| `WithdrawApproval` | `WithdrawApproval`, `RereadPR`, then as `Approve` |
| `Merge`, `AppendVersion`, `UpdateApprovalCondition`, `AssignUser`, `RemoveUser` | one action each |
| a client that goes away (the request's context is cancelled) | `Disconnect` |

*Merge as one step.* That its transaction may be one action is what `MergeLocks` shows (below). A row inserted
after the statement that closes the siblings has taken its snapshot, and before the commit, counts as
inserted after the merge here.

*Abstractions.* A change is an object and a payload; titles, messages and timestamps are left out, and so is
`is_conflicted`: it is set only in a transaction that is then rolled back, so no other request sees it. Validation
before submission reads only; `SubmitDraft` stands for a draft that passes. The deletion of a project, which removes
its pull requests in one transaction, is in `ProjectVersions`. Permission checks of the routes are left out:
`Approve`, `Close` and `Merge` have none but the checks in the handler. An auto-created role's last-member check is
left out of `RemoveUser` (it is in `Access`), since a concurrent removal can outrun it.

### MergeLocks and AtomicMerge

`MergeLocks` looks at one project or one group (`kind`). `status`, `base` and `history` are the committed rows;
`tx[t]` is a transaction slot: its next statement (`step`), its pull request (`pr`, 0 for an append), the
latest version it has read (`head`), the siblings its closing UPDATE has still to visit (`todo`) and those it
has closed, which the others see at its commit only (`closing`). Locks are not a variable: which rows a
transaction has locked follows from how far it is (`RowLocks`, `HoldsGroup`, `HoldsVersion`, `HasInserted`), and
`WaitsFor` says whose end its next statement awaits.

| Code | Actions, in order |
|---|---|
| `Merge` of a project | `BeginMerge`, `LockRow` (`loadAndLockPRForMerge`), `SeeHead` and `TakeHead` (one statement: the row is chosen, then waited for), `InsertVersion`, `SeeSiblings` and `CloseSibling` (one UPDATE: its snapshot, then row by row), `Commit` |
| `Merge` of a group | `BeginMerge`, `LockRow`, `LockGroup`, `ReadHead` (the base is compared here), `InsertVersion`, `SeeSiblings`, `CloseSibling`, `Commit` |
| `AppendVersion` | `BeginAppend`, `LockGroup`, `ReadHead`, `InsertVersion`, `Commit` |
| `stage`, `UnstageChange`, `DiscardWorkspace` | `BeginEdit`, `LockForEdit`, `CommitEdit` |
| `Close`, `SubmitDraft`, `Approve`, `WithdrawApproval` | `BeginWrite` (an unlocked read), `Write` (one UPDATE by id) |
| creation of a pull request | `Insert` |
| the client goes away; the database breaks a deadlock | `Disconnect`; `DeadlockAbort` |

A waiting statement sees the row it waited for as it is when the lock is granted, but no row inserted
meanwhile (READ COMMITTED). Two merges of sibling pull requests always meet in a deadlock: each holds its own
row, the one that gets the head needs the other's to close it, the other waits for the head. PostgreSQL
aborts one, and its user gets a 500; `EveryMergeEnds` shows that nobody stays stuck.

`AtomicMerge` has the same variables but `tx`: a merge appends a version, marks its approved pull request merged
and closes active siblings, all at once, and in a group only on top of the base. Any other step touches
one row or appends a version. It leaves open *which* siblings are closed: a row inserted while the closing
UPDATE runs is missed by it.

### ProjectVersions

One project. A version has a body for each template (`Missing` if it has none) and a payload for each
environment *id*; `environments` gives the id of each name, and ids are never used again, so that an
environment deleted and created anew under its name is another one. `workspace[a]` is the draft of author
`a`: what is staged, and whether it is submitted. `deploying` is what a deployment request has read.

| Code | Definitions |
|---|---|
| `stage`, `UnstageChange`, `DiscardWorkspace`, `SubmitDraft` | the actions of these names; validation is `Valid` |
| `OverlayTemplates`, `effectiveTemplates`, `OverlayEnvironments`, `effectiveValues` | `EffectiveTemplates`, `EffectiveEnvironments`, `EffectiveValues`: the staged change, else what is live, where "live" is read as each query reads it |
| `applyProjectSnapshot` | `Merge`: environments are created (`AfterCreates`), the snapshot is the newest version with the changes applied (`ApplySnapshot`), then environments are deleted with their values in *every* version (`WithoutValuesOf`) |
| `Execute` | `ResolveProjectEnv`, `FetchPinned`, `InsertDeployment`; `EndDeployment` when it is refused |
| `ProjectHandler.Delete` | `DeleteProject` |

A body is the variables it requires, a payload those it supplies, as far as validation tells them apart
(`Supplied`). Rendering writes `<no value>` for a missing variable and does not fail, so a deployment does not
depend on it. That a merge is one step is what `MergeLocks` shows.

### Access

`holders` are the admins of one environment, the holders of the project's auto-created admin role and those of one
role that a superuser made with permissions on the project (`named_role`); `members` the rows of `project_members`,
`managed` and `rows` the hidden role of each member and its atoms. A request goes statement by statement, with the
locks these take, and may be given up (`Abandon`):

| Code | Actions, in order |
|---|---|
| `Remove` of an environment admin | `CheckRemoval`, `Remove` |
| `RemoveUser` of an auto-created role | `CheckRemoveUser`, `Remove` |
| `RemoveMember` | `EnsureNotLastProjectAdmin`, `RemoveMember` (one transaction) |
| setting a member's permissions | `CheckMember`, `UpsertManagedMemberRole`, `RewriteMemberRoleAtoms`, `Commit` |
| `RemoveUser` of a named role, `Delete` of a role | `RemoveUser`, `DeleteRole` |
| `Add`, `AssignUser`, `AddMember` | one action each |

`overlapped` remembers about whom, or about which kind of admin, two requests ever were under way at once: the
guards promise nothing then, and the properties leave exactly those out.

### Server

No handler of `Access` reads what a handler of `ProjectVersions` writes, except that merging the creation of an
environment makes its author the first admin, and deleting it deletes its admins: `Access` starts after the one
and ends with the other. So a behaviour of the two follows one of them (`followed`), and the other has one state.

### The pages

Each page module has the server's part of the data, the page's copies of it, the component's state and the
requests in flight. React's order is kept: an event, the render, then the effects whose dependencies changed,
which may set state and cause another render; a step of a page module is an event with all of that
(`Settled` in `DeployPage`, `Rendered` in `TemplateWorkspace`, `SeedForm` in `MemberPermissions`). An answer
may come at any time, be refused, or not come; other users change the server's part at any time.

- `RolePermissions` translates `lib/role-permissions.ts` (what an atom becomes, what is set aside, what is
  written) and `satisfies` of `middleware/permissions.go` (`Grants`), so that "keeps what it grants" means what
  the server means. Atoms are those that the editors and the server write, and wildcards of them.
- `RoleEditor` is the dialog around it with the cached list it is seeded from; its requests replace all atoms. `puts` is
  the set of requests in flight: only the dialog that sent a request is disabled by it, so a dismissed edit may be
  followed by a second save, and the two are answered in any order. Two requests that are alike in everything count
  as one. The dialog of a creation stays mounted, so its request goes on disabling it (`attached`).
- `UserLists` models the three lists by one module: they share their structure, and `roster.which` keeps what
  differs (whether a question is asked, who may be added).
- `PolicyEditor` follows a condition through the browser's validation, the server's, the row and the parser of the
  merge gate. A condition is a sequence of parts with a count, a mark ("x" or "X") and a role. Roles other than the
  built-in one are created and deleted by others at any time; deleting one looks at no condition, on the server as in
  the model.
- `TemplateWorkspace` keeps the document apart from the component's state, as the code does: only the effect and
  the version handler replace it. Texts are a live version, a staged change, or typed.
- `EnvValues` follows one variable; the others are rows like it. `GroupEditor` follows the rows of a group and
  the page that proposes them.
- `ReviewPage` has one request for each click (`pressed`); a button is disabled by requests of its own that the mounted
  page has sent, and leaving the page forgets them while they go on. `wish` remembers what the reviewer last asked for.
  Who the author is is left out: the browser does not look at it, and a refused merge changes nothing.
- `ReviewDiffs` has the kinds of cards, what the cache holds of the content they compare with, what others make of that
  content meanwhile, and the merge that replaces it. A card of environment values fetches nothing, in the code as in the
  model, and shows every key as added.
- `DeployPage` lets the groups whose selectors load together resolve in one commit: each copies the pins of that render,
  so one resolution stays and the others are lost.
- `Session` has a cookie only the server sees, `AuthProvider`'s user, and every request of both that may be under
  way, with the redirect that a 401 on any of them causes.
- `QueryCache` follows one query, any of them, through every page that reads it and every mutation a page
  offers, with the prefixes each hook invalidates. What the query library does is modelled from its use.

`Browser` puts them together: `opened` is the page that is mounted, a page's state begins with its mounting, and
the others keep their one initial state. What pages share, the cache and the session, is followed by the
two modules of their own.

## Runs

| Run | Instance | Shows |
|---|---|---|
| `pr_serial` | 3 users (two admins, one dev), condition `2 x admin OR 1 x dev`, 1 project, 2 payloads, 2 pull requests, 2 versions, one request at a time | the promises of `docs/pr-flow.md`: one active PR per project (`OneActivePRPerProject`), approved means met (`ApprovedIsMet`) and reviewed by somebody with this very content (`ApprovedWasReviewed`), no stale workspace survives a merge (`NoStaleProjectPR`), one change per object (`OneChangePerObject`), terminal is final (`TerminalIsFinal`) |
| `pr_overlap` | 1 user, a project or a group, 2 overlapping requests, role and condition changes, disconnects, 2 pull requests, 3 versions | what no interleaving breaks: `TypeOK`, `DraftIsUnreviewed`, `VersionsKeepTheirPR`, `GroupNoLostUpdate` |
| `pr_late_close` | 2 overlapping requests | violated: a merged pull request is closed by a late write (`pr-flow.md:60`) |
| `pr_two_drafts` | 2 overlapping requests | violated: two active drafts (`pr-flow.md:88`) |
| `pr_late_approval` | 2 overlapping requests | violated: approved on approvals withdrawn meanwhile (`pr-flow.md:59`) |
| `pr_condition_change` | one request at a time | violated: a changed condition is not re-evaluated (`pr-flow.md:164`) |
| `merge_atomic` | 2 transactions that may begin again, 2 pull requests, 4 versions, a project or a group, fair scheduling | `Implements` (refinement of `AtomicMerge`), `OneWriterOfHistory`, `GroupHeadIsFresh`, `EveryMergeEnds` |
| `merge_first_version` | 2 transactions, 2 versions | violated: the statement commented "Lock the project's version sequence" (`backend/handlers/pull_requests.go:693`) locks nothing while there is no version |
| `server` | 2 interchangeable users, 3 requests, 1 named role; 1 author, 1 template, 1 environment name, 2 bodies, 2 payloads, 1 deployment request, 3 versions | `LastAdminStays`, `ManagedRoleNeedsMembership`, `StoredPermissionsWereAskedFor`; `DeploymentsAreReproducible`, `MergeMakesWhatWorkspaceShows` |
| `removed_member_keeps_roles` | 2 users, 1 request | violated: a removed member stays assigned to roles of the project (`docs/permission-roles.md:137`) |
| `version_validation` | the content part of `server` | violated: a valid workspace makes a version that lacks required values (`workspace_validate.go:139`) |
| `client` | every page of `Browser` | the 21 properties of the pages, below |

The properties of `client`, page by page:

| Page | Properties |
|---|---|
| roles | `OtherScopesSurvive`: a save sends every atom the dialog could not show. `SavedRoleReopensAsShown`: a saved role opens with the capabilities that were on screen. `SavingKeepsGrants`: opening and saving a role loses no grant. `SavingWidensItsProjectOnly`: if it adds grants, they are in the project on screen |
| member permissions | `UntouchedLevelsAreLatestKnown`: levels nobody touched are those of the last answer |
| lists | `RemovesTheOneConfirmed`: the user removed is the one the question named |
| policy | `SavedPolicyIsEnforced`: the merge gate asks for exactly the parts of a stored condition that have a small x, in their order, for at least one, and each for at least one approval |
| templates | `OldVersionsAreNotSaved`: no old version is staged as an edit. `UntouchedEditorShowsCurrent`: an untouched editor shows the staged or live body that the page knows |
| values | `SelectorsShowWhatIsSaved`: in reference mode, what is saved is what the selectors show. `ListVariablesAreStagedAsLists`: a list variable is staged as a list or a reference |
| group | `ProposalStartsFromCurrent`: rows that may be proposed were copied from the latest version known (of the page before proposing; what the proposal page compares with may move on) |
| deploy | `PreviewIsOfSelection`: no preview of another project or environment. `ResolvedPinsAreReviewed`: the preview shown is of the pins that Deploy sends |
| review | `LastReviewClickDecides`: after approve and withdraw in any overlap, the last click holds, but for four named exceptions. `DiffsReadBack`: both sides of a diff are the two texts. `MergesDoWhatWasShown`: the merge of a template or group change replaces the content that a card fetched since the pull request was made compared with, and changes the keys that it marked |
| session | `SignedOutIsNoticed`: a user shown without a session does not stay (liveness) |
| login | `LastSwitchWins`: the form asked for last is shown in the end, centred |
| cache | `OwnWritesAreSeen`: an entry that passes for fresh is not older than the page's own last write. `MutationsAreShown`: and it is shown in the end (liveness) |

*Bounds of the pull request and merge runs.* `MaxPR` bounds the rows ever inserted and `MaxVersions` the
versions of a scope; a request slot bounds how many handlers overlap. Two rows are enough for a sibling, a
second draft and a stale base; two versions for a merge over a merge; two requests for every race between two
handlers (a third can only add a further write of the same kinds). One user suffices in the concurrent runs
because nothing in the handlers separates two requests of one user from those of two, except authorship, which
one user has. The constraint `OneKind` of `pr_overlap` keeps a behaviour to the project or to the group: what is
done to one plays no part for the other. `pr_serial` has a second payload so that an edit changes content, and
treats payloads as symmetric; the concurrent runs treat requests as symmetric. In `MergeLocks`, two
transaction slots are two merges, or a merge and a party that edits, closes or appends, and either may begin anew when it
has ended, beside insertions that need no slot; the theorems are about any number. `MaxVersions` counts
the versions running transactions may still add, so that the bound never stops a transaction half-way; a
project's first merge, without a head row, and later ones both occur.

*Bounds of `server`.* Two users and three requests: two that overlap about one user or one kind of admin, and one
before, between or after them. Users differ in nothing but what is done to them, hence the symmetry. Three versions
are one before, one that deletes and one made after the deletion; two environments ever created are one deleted and
one of the same name. One deployment request runs beside the merges and may be made again.

*Bounds of `client`.* Two projects, one environment each and two groups give the role editor something shown,
something of another scope and something it cannot show; its sample atoms include implied, redundant and wildcard
ones. Every condition of up to two parts is typed; lists have one or two users; groups have two versions and a
proposal two rows. The deploy page has two projects, two environments, two groups and five choices: two
selections, and three more. Three clicks on the review page are an approval, a withdrawal and the
second approval of a page that was left and opened anew. Others change the server's part of a page once or twice, and
the content that a card compares with once (`Others`). With `MaxLive = 2` the template
has a live version from the beginning; a row that is only staged is covered by the proofs, for `MaxLive = 1`.
`SavingKeepsGrants` is checked for every subset of the sample atoms.

Deadlock checking is off in every run because the bounds end every behaviour.

*Fairness.* Two runs assume any. In `merge_atomic`, a transaction that has begun goes on (strong
fairness of `Progress`): the handler runs its statements one after the other, and PostgreSQL queues the waiters of
a lock, so one whose lock becomes free again and again is granted it. A deadlock is broken (weak fairness of
`DeadlockAbort`). No request has to be made and no client has to leave. In `client`, `SessionFairness` says that every
request of the session is answered or fails and its answer is handled, that redirects happen, and that a page on
screen keeps making requests (the cache fetches stale queries when the window is focused); nobody has to log in,
log out or reload. `CacheFairness` says that a stale query on screen is fetched, and that of infinitely many attempts
some are answered and received (strong fairness: fetches may be dropped and fail).

## Proofs

Eight modules hold theorems; TLC checked every property and every inductive invariant on the small instances first.

`PullRequestsProofs` proves, for any number of users, scopes, requests, pull requests and versions and any
conditions and roles, from the assumptions named in `PullRequests` (the scopes are disjoint and not empty,
the bounds are natural numbers, the initial condition and roles are among the given ones):

- `TypeCorrect`: `Spec => []TypeOK`, with one step per action;
- `Invariance`: `Spec => []IInv`, and from it `DraftsAreUnreviewed`, `VersionsKeepTheirPRs`,
  `NoGroupUpdateIsLost`, `OneVersionPerGroupPR` and `WorkspaceHasOneChangePerObject`.

None of these is inductive by itself. `DraftIsUnreviewed` needs to know that a request in review refers to
a row that was submitted, which needs to know that rows never become drafts again (`RowStep`) and that ids
are handed out in order, so that a new draft starts without approvals. `GroupNoLostUpdate` needs that the
row of a version is never inserted anew, hence `VersionsKeepTheirPR`, which needs that only drafts are
deleted. `IInv` is the conjunction of these facts. The proof goes by what one step may do to a row
(`RowStep`), to a request (`RequestStep`), to approvals (`ApprovalStep`), to versions (`VersionStep`) and to
changes (`ChangeStep`).

What `docs/pr-flow.md` promises of drafts, approvals and merging does not survive overlapping requests: three of the
violated runs show it. The second half of the module proves the promises for requests that take turns (`OneAtATime`:
there is at most one request slot, so every request runs to its end, in its several statements, before the next
begins), as the run `pr_serial` has it:

- `SerialInvariance`, and from it `OneActiveInTurn`, `NoneStaleInTurn`, `TerminalInTurn` and
  `VersionsAreMergedInTurn`. `SerialInv` says what the only request may rely on: a request about to insert found
  no active pull request (`InsertsWhereNoneIsActive`), one about to write a status found an active row
  (`WritesOverActive`), one that evaluates found a submitted row (`EvaluatesActive`).
- `ReviewInvariance`, and from it `ApprovedIsMetInTurn`, `OpenIsNotMetInTurn` and `ApprovedWasReviewedInTurn`,
  with `FixedRules` on top: the condition and the roles stay as they are (changing them re-evaluates nothing, as
  `pr_condition_change` shows), nobody disconnects between the statements of a request, users are finitely many,
  and nobody's approval is not enough (validation refuses a requirement of zero). `ReviewInv` says that an approved
  row meets its condition and an open one does not, unless a request under way is about to look (`Reconsiders`); that
  what the request has read is still so; and that the approvals of older content alone are never enough, because an edit
  of an approved row throws its approvals away and an edit of an open row leaves too few.

Every constant in these hypotheses is given by `MCPullRequestsSerial.cfg`, so TLC checks the same statements there.

`MergeLocksProofs` proves, for any number of pull requests, transactions and versions, assuming only that ids are
positive numbers:

- `Invariance`: `Spec => []IInv`, and from it `OneWriter` and `GroupHeadStaysFresh`;
- `MergeIsAtomic`: `Spec => Implements`, by mapping the initial state (`InitMaps`) and every step (`NextMaps`): a
  `Commit` is a merge or an append, a `Write` or `CommitEdit` touches one row or nothing, an `Insert` opens a
  row, all else stutters.

`IInv` says that row locks are exclusive, that a group is held once, and what each transaction may rely on
because of its locks (`Knows`): its pull request is still approved, the siblings it has closed are still
active, what it read as the latest version of a group still is, and whoever has inserted a version has
numbered it next after the committed ones. From the last fact and the unique version number follows
`OneWriterOfHistory` even for projects, where the lock may miss (`NoOtherVersion`). `LocalPreserves`, `EndPreserves`
and `CommitRows` say once what a step must respect, and each action has a lemma that shows it does.

`AccessProofs` proves, for any finite set of users and any requests and permissions (`AccessConstants`: the
names of users, requests and kinds of admin are different), `AccessInvariance` and from it `LastAdminAlwaysStays`,
`ManagedRolesNeedMembership` and `StoredPermissionsAreWhole`. None is inductive: that somebody stays needs
to know, of a removal under way that nothing overlapped, that what it counted is still there (`SeesAll`,
`SomeoneStays`); that managed roles need membership, that a request that has checked it is alone with its member
(`Alone`, `SetForMembers`); and each that a request is about what it writes (`AboutIsIt`).

`ServerProofs` proves, for any authors, templates, environment names, bodies, payloads, deployment requests and bounds
(`VersionConstants`), `VersionsInvariance`, `DeploymentsStayReproducible` and `MergeAlwaysMakesWhatWorkspaceShows`.
Versions are not immutable: deleting an environment edits all of them. So the invariant says what is never edited: ids
in use were given out and differ (`IdsAreOld`), names that have none have no values (`DeletedIsEmpty`), what a request
under way has resolved was once given out (`ResolvedIsOld`), what it rendered is still the content, provided its
environment and its version are still there (`RenderedIsContent`), and for what was deployed they are
(`DeployedIsContent`): the row refers to them, so that the deletion fails. Its last section proves that every step of
`Server` is a step of one part while the other stays as it is (`ServerHasItsParts`), so that all of these properties
and those of `AccessProofs` hold of the server (`ServerIsSafe`).

`RoleProofs` begins with facts about the translation for every set of atoms the program writes, over any projects,
environments and groups (`KeysAreNames`: none is missing or the wildcard): `ProjectSaveKeepsGrants`,
`ProjectSaveWidensProjectOnly`, and that capabilities written are read back (`CapabilitiesReadBack`,
`GvCapabilitiesReadBack`). Its second section lifts the first two to roles saved any number of times
(`GrantsSurviveSaving`, `WideningStaysInProject`); the third adds the dialog: its invariant (`RoleInv`) is that what
an open dialog set aside is what its seed cannot show (`Keeps`), and that every request under way, also those of
dialogs that are gone, carries what its dialog then showed; `OtherScopesAlwaysSurvive` and `SavedRolesReopenAsShown`
follow, the second from `CapabilitiesReadBack`. They assume `EditorConstants` and `SamplesAreAtoms`.

`DeployPageProofs` proves, for any projects, environments, groups and versions (`DeployConstants`: names are not
empty), `PreviewsAreOfSelection` and `PinsAreAlwaysReviewed`. The invariant says that pins which pass for initialized
are of the project on screen (`PinsMatch`), which needs the same of what is loaded, deployed and being deployed
(`StoredPinsMatch`, `DeploymentMatches`), and that no key of another selection passes for the current one while an
environment is chosen (`KeyMatches`). `SettledMatches` says once, for every event, that the two effects keep this.

`PageProofs` proves what the run `client` checks of the other pages, for any bounds, candidates, parts, lines and
keys. The invariants say, page by page, what is needed of the states in between:

- `PermsInv`: of the form and of the request, what was not touched is as it was seeded (`UntouchedIsSeed`).
- `RosterInv`, `FormInv`: the name in the question is the name in the request, whatever the list is by now; the timers
  and frames that have not run, and nothing else, still stand between the form shown and the one asked for.
- `PolicyInv`: what is stored is enforced but for the parts with a capital X (`Enforced`), which rests on a fact about
  every condition of any length: what the server accepts has whole parts only, so that the parts read are those with a
  small x and there is one (`AcceptedIsEnforced`). Roles may come and go. It assumes `PartsAreRead`: a part has a
  count, one of the two marks and a role.
- `WorkspaceInv`: a document is one that the effect or the version handler has made, for the dependencies that the
  component last saw; an old version is read-only and belongs to an editor that knows it. `RenderedMatches` says once
  that the effect keeps this, for every change of its dependencies.
- `ValuesInv`: payload, mode and reference agree (`FormOfAgrees`, `SeedAgrees`, `ReplacedForm`). It assumes
  `KeysAreNamed`: no key of a group has the empty name, because the form takes the empty key for "none chosen" and
  a reference to it could not be parsed (`reference-selector.tsx:77`).
- `GroupInv`: rows that may be proposed were copied from the version that the page takes for the latest.
- `ReviewInv`: the last click agrees with what is under way, of this visit and earlier ones, and with the copy it was
  made on (`WishHolds`), for any number of clicks.
- `DiffInv`: versions count up, so a copy of the version a merge replaces is a copy of its content (`CopyOfVersion`);
  `ShownIsMerged` follows. `DiffsAlwaysReadBack` needs lemmas for texts of any length: the sides of a template's card
  are the two texts (`TemplateDiffReadsBack`), and a line of an output has the number it has in its text
  (`LinesAreNumbered`), both from what `Selection` says of ranks (`RankNumbers`, `SelectAtRank`, `SelectFirst`).
- `CacheInv`: what passes for fresh, and any answer that is under way, is at least as new as the last mutation of the
  page. It needs that what a hook invalidates covers every query of the pages that offer its mutation which reads
  something the mutation writes: `HooksReachWhatTheyChange`, proved page by page from the tables of queries, hooks and
  pages.

`BrowserProofs` proves that a step of `Browser` is a step of the page that is opened while the others stay as they are
(`PagesStep`), so that `Browser` implements the specification of each page (`BrowserHasItsPages`) and has all of
their safety properties (`BrowserIsSafe`), the ones that the run `client` checks.

Only model-checked: the three liveness properties (`EveryMergeEnds`, `SignedOutIsNoticed`, `MutationsAreShown`), which
are out of the prover's reach. Of the evaluation of conditions the proofs use that more approvers meet what fewer do
(`MeetsMonotone`); the library's diff is used as the model defines it, any list of parts that reads back to both texts.

## What the models brought up

Beside the seven violated runs, modelling met the following. None contradicts a property above, which says
exactly what does hold.

- Two removals that overlap each count two admins and both delete: an environment, or the admin role, is left with
  nobody. The guards hold when removals take turns (`LastAdminStays`). In the same way, permissions set while the
  member is removed stay (`ManagedRoleNeedsMembership`), and overlapping sets of an existing managed role leave the
  union of both (`StoredPermissionsWereAskedFor`).
- Removing a member takes back the managed role only (run `removed_member_keeps_roles`); environment admin rows stay too.
- Deleting a role looks at no approval condition that names it (`roles.go:148`); `role-list.tsx:275` warns that such
  conditions can then not be met.
- The fallback username of an OIDC login is inserted in the transaction that the unique violation has aborted
  (`auth.go:469`), so it can only fail.
- Project deletion finds member roles by a LIKE pattern made of the project's name, in which `_` and `%` match other
  names (`projects.go:308`).
- `OverlayTemplate` (`workspace.go:663`) and `effectiveValues` read the newest version that *has* the object, so what a
  merge deleted comes back there; `OverlayTemplates` and the merge read the newest version. `Resurrected` names the
  case that `MergeMakesWhatWorkspaceShows` leaves out.
- Versions are not immutable (`docs/version-control.md:39`): deleting an environment removes its values from all of them.
  An environment that was ever deployed can never be deleted: such a merge fails every time, as does one with values
  staged for an environment that does not exist.
- Staging into an already submitted pull request is not validated again.
- The policy card of a group sends its condition to `/global-values/...` (`api/roles.ts:45`), the router serves
  `/global-values-groups/...` (`router.go:196`).
- The role editor keeps capabilities and atoms when its target changes; a save may widen what a role grants within its
  project; a level "No access" does not take away the write that "manage environments" implies.
- An environment missing from a stale list loses its grant when member permissions are saved.
- A refetch discards text typed into the template editor; a late version answer overwrites a later choice
  (`template-editor.tsx:116`, `global-values-detail.tsx:58`); a template saved before its detail is loaded is sent as
  new.
- The cards of values changes show every key as added and none as removed, because they fetch groups only
  (`pr-detail-page.tsx:110-131`), where `docs/ui/pr-detail-page.md:77-84` promises a diff against the current values;
  a list equals a text that spells its JSON. The card of a group compares with one entry: in a group that holds only
  an entry of another name it marks differences from that, while the merge adds the group's own entry beside it.
- A cached copy from before the pull request was made is what a card compares with until the refetch is answered.
- Approve, leave the page, open it anew, withdraw, approve again: the requests of the two visits are not aware of each
  other, and an old one may land last (`pr-detail-page.tsx:295-298`).
- A save of the role editor overwrites what another superuser stored since the dialog was opened; a dismissed edit does
  not stop its request, which may be answered after that of the next edit.
- Two groups of the deploy page that resolve in one commit lose one pin (`deploy-page.tsx:687, 713-717`), which stays
  unresolved until the panel is opened anew.
- Approving counts for what the server has by then, not for the copy on screen.
- A condition with a capital X is accepted by the browser and ignored by the parser (`approval-condition.ts:20`).
- A late answer of the first `me` replaces the user that logged in meanwhile; the query cache is not cleared on logout.
- After the first deployment of an environment, the deploy page fills its pins in again from what is loaded by then.

## Not modelled

- Password hashing, JWT, OIDC redirects, CSRF, metrics, wiring, migrations of data: library calls and I/O without a
  state of their own. Reads that are single SELECTs.
- The walk over template syntax trees that finds variables, and rendered text: the models start from the variables it
  yields and compare contents, not letters. Names are opaque, so what hangs on their spelling (the LIKE pattern, the
  prefix `__member__`) is not covered.
- Group versions that a deployment pins: nothing deletes them, so they stay what they were.
- Widgets, theme, layout, type declarations, the account page and pages that only show one query; components and hooks
  that no page uses.
- Two tabs of one browser: they share the cookie, of which `Session` has the expiry and the replacement, and nothing
  else.
