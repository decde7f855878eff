---------------------------- MODULE PullRequests ----------------------------
(***************************************************************************)
(* The life of a pull request: drafts, review, approval, merge and close,  *)
(* as the HTTP handlers of backend/handlers/pull_requests.go and           *)
(* workspace.go carry it out over PostgreSQL at READ COMMITTED.            *)
(*                                                                         *)
(* A handler that runs in one transaction and locks the row it decides on  *)
(* is one action here.  A handler made of separate statements is split at  *)
(* every point where another request can commit in between: a read whose   *)
(* result is used later is kept in the request's local state (req), just   *)
(* as the Go code keeps it in a variable.  MergeLocks shows why Merge, a   *)
(* transaction of many statements, may be the one step it is here.         *)
(*                                                                         *)
(* Content is abstract: a pull request carries a set of changes, at most   *)
(* one per object, and a version is known by the pull request it merged.   *)
(***************************************************************************)
EXTENDS Integers, Sequences, FiniteSets, ApprovalCondition

CONSTANTS
  User,            \* the users
  Role,            \* the global role names
  Project,         \* the projects, each reviewed under its own condition
  Group,           \* the Global Values groups, likewise
  Object,          \* what a change can be about (a template, an env's values...)
  Payload,         \* what a change can propose for it (a deletion included)
  Condition,       \* the approval conditions a scope may be given
  InitCondition,   \* the condition every scope starts with
  InitRoles,       \* the roles every user starts with
  Assignable,      \* <<user, role>> pairs that may be assigned and removed
  Request,         \* slots for requests in flight: how many may overlap
  MayDisconnect,   \* whether a client may vanish in the middle of a request
  MaxPR,           \* bound on the pull requests ever created
  MaxVersions      \* bound on the versions of a scope

Scope == Project \cup Group
Change == [object : Object, payload : Payload]

ASSUME ScopesOK == User # {} /\ Scope # {} /\ Project \cap Group = {}
ASSUME BoundsAreNat == MaxPR \in Nat /\ MaxVersions \in Nat
ASSUME ConditionsOK ==
  /\ Condition \subseteq ApprovalConditions(Role)
  /\ InitCondition \in Condition
ASSUME RolesOK ==
  /\ InitRoles \in [User -> SUBSET Role]
  /\ Assignable \subseteq User \X Role
ASSUME DisconnectOK == MayDisconnect \in BOOLEAN

VARIABLES
  lastPR,      \* pull_requests: the last id handed out; ids are in order of created_at
  status,      \* status of each row, "none" before it is inserted, "deleted" after
  author,      \* author_id
  scope,       \* project_id or global_values_name, whichever is set
  base,        \* the head of the scope's history when the row was prepared
  changes,     \* pr_changes: the staged changes
  approvals,   \* pr_approvals with withdrawn_at NULL: who approved which content
  condition,   \* approval_condition of each project and group
  roles,       \* user_roles
  history,     \* the versions of each scope, each named by the PR it merged (0: none)
  req          \* the local state of every request in flight

prVars == <<lastPR, status, author, scope, base, changes>>
vars == <<prVars, approvals, condition, roles, history, req>>

PR == 1 .. MaxPR
ActiveStatus == {"draft", "open", "approved"}
Status == ActiveStatus \cup {"merged", "closed"}
Exists(p) == status[p] \in Status

\* Mutant: the status list forgets the drafts.
ActivePRsWithoutDrafts(u, s) ==
  {p \in PR : status[p] \in {"open", "approved"} /\ author[p] = u /\ scope[p] = s}

\* The rows "status IN ('draft','open','approved')" of an author in a scope.
ActivePRs(u, s) ==
  {p \in PR : status[p] \in ActiveStatus /\ author[p] = u /\ scope[p] = s}

\* "ORDER BY created_at DESC LIMIT 1".
IsLatestActive(p, u, s) ==
  p \in ActivePRs(u, s) /\ \A q \in ActivePRs(u, s) : q <= p

Approvers(p) == {a.user : a \in approvals[p]}

\* Mutant: versions are counted from zero.
LatestVersionFromZero(s) == Len(history[s]) - 1

\* version_id counts from 1 within a scope; 0 when it has no version yet.
LatestVersion(s) == Len(history[s])

-----------------------------------------------------------------------------
(***************************************************************************)
(* The local state of a request between two of its statements: exactly the *)
(* values the rest of the handler will use.                                *)
(***************************************************************************)
Idle == [step |-> "idle"]
Inserting ==   \* looked for a row, or read the base; about to INSERT
  [step : {"insert"}, user : User, scope : Scope, base : Nat, staged : SUBSET Change]
Writing ==     \* saw an acceptable status; about to UPDATE ... WHERE id = $1
  [step : {"write"}, pr : PR, to : {"open", "closed"}]
Recording ==   \* Approve, before the upsert of the approval
  [step : {"record"}, user : User, pr : PR, seen : {"open", "approved"}]
Rereading ==   \* WithdrawApproval, before it reads the row back
  [step : {"reread"}, pr : PR]
Evaluating ==  \* Approve of an open row, WithdrawApproval of an approved one
  [step : {"loadCondition"}, pr : PR, seen : {"open", "approved"}]
    \cup [step : {"loadApprovals"}, pr : PR, seen : {"open", "approved"},
          cond : Condition]
    \cup [step : {"check"}, pr : PR, seen : {"open", "approved"},
          cond : Condition, approvers : SUBSET User]
    \cup [step : {"update"}, pr : PR, to : {"open", "approved"}]

LocalState ==
  {Idle} \cup Inserting \cup Writing \cup Recording \cup Rereading \cup Evaluating

TypeOK ==
  /\ lastPR \in 0 .. MaxPR
  /\ status \in [PR -> Status \cup {"none", "deleted"}]
  /\ author \in [PR -> User]
  /\ scope \in [PR -> Scope]
  /\ base \in [PR -> Nat]
  /\ changes \in [PR -> SUBSET Change]
  /\ approvals \in [PR -> SUBSET [user : User, content : SUBSET Change]]
  /\ condition \in [Scope -> Condition]
  /\ roles \in [User -> SUBSET Role]
  /\ history \in [Scope -> Seq(0 .. MaxPR)]
  /\ req \in [Request -> LocalState]

\* A group is created together with its first version, a project with none.
Init ==
  /\ lastPR = 0
  /\ status = [p \in PR |-> "none"]
  /\ author = [p \in PR |-> CHOOSE u \in User : TRUE]
  /\ scope = [p \in PR |-> CHOOSE s \in Scope : TRUE]
  /\ base = [p \in PR |-> 0]
  /\ changes = [p \in PR |-> {}]
  /\ approvals = [p \in PR |-> {}]
  /\ condition = [s \in Scope |-> InitCondition]
  /\ roles = InitRoles
  /\ history = [s \in Scope |-> IF s \in Group THEN <<0>> ELSE <<>>]
  /\ req = [r \in Request |-> Idle]

-----------------------------------------------------------------------------
(***************************************************************************)
(* Building blocks                                                         *)
(***************************************************************************)
\* Request r arrives, decides, and keeps what its next statement needs.
Begin(r, local) ==
  /\ req[r] = Idle
  /\ req' = [req EXCEPT ![r] = local]

Continue(r, local) == req' = [req EXCEPT ![r] = local]
Finish(r) == Continue(r, Idle)

\* A request that is one transaction still occupies a slot while it runs.
OneShot == (\E r \in Request : req[r] = Idle) /\ UNCHANGED req

\* UPDATE pull_requests SET status = ... WHERE id = p: no row, no effect.
SetStatus(p, st) ==
  status' = IF Exists(p) THEN [status EXCEPT ![p] = st] ELSE status

RoomForPR ==
  lastPR + Cardinality({r \in Request : req[r].step = "insert"}) < MaxPR

\* INSERT INTO pull_requests, with the changes staged in the same transaction.
InsertRow(st, u, s, b, staged) ==
  LET p == lastPR + 1
  IN  /\ p \in PR
      /\ lastPR' = p
      /\ status' = [status EXCEPT ![p] = st]
      /\ author' = [author EXCEPT ![p] = u]
      /\ scope' = [scope EXCEPT ![p] = s]
      /\ base' = [base EXCEPT ![p] = b]
      /\ changes' = [changes EXCEPT ![p] = staged]

\* Mutant: the row is reopened and its approvals stay.
ReopenKeepingApprovals(p) ==
  /\ status' = [status EXCEPT ![p] = IF @ = "approved" THEN "open" ELSE @]
  /\ UNCHANGED approvals

\* Mutant: the approvals are withdrawn and the row stays approved.
ResetWithoutReopening(p) ==
  /\ approvals' = [approvals EXCEPT ![p] = IF status[p] = "approved" THEN {} ELSE @]
  /\ UNCHANGED status

\* An approved pull request that is edited goes back to review and loses every
\* approval; any other status is left alone, approvals included.
ReopenIfApproved(p) ==
  IF status[p] = "approved"
  THEN /\ approvals' = [approvals EXCEPT ![p] = {}]
       /\ status' = [status EXCEPT ![p] = "open"]
  ELSE UNCHANGED <<approvals, status>>

-----------------------------------------------------------------------------
(***************************************************************************)
(* Opening a pull request                                                  *)
(***************************************************************************)
\* GetActiveDraft finds no active row of the caller; it will insert a draft.
\* (When it finds one it only reads.)
GetActiveDraft(r, u, s) ==
  /\ RoomForPR
  /\ ActivePRs(u, s) = {}
  /\ Begin(r, [step |-> "insert", user |-> u, scope |-> s, base |-> 0,
               staged |-> {}])
  /\ UNCHANGED <<prVars, approvals, condition, roles, history>>

\* stage finds no active row to lock: nothing stops another request from
\* finding none either before this one inserts its draft and the change.
StageIntoNew(r, u, s, c) ==
  /\ RoomForPR
  /\ ActivePRs(u, s) = {}
  /\ Begin(r, [step |-> "insert", user |-> u, scope |-> s, base |-> 0,
               staged |-> {c}])
  /\ UNCHANGED <<prVars, approvals, condition, roles, history>>

\* Create reads the group's latest version as the base of the new row.
CreatePR(r, u, g, c) ==
  /\ RoomForPR
  /\ Begin(r, [step |-> "insert", user |-> u, scope |-> g, base |-> LatestVersion(g),
               staged |-> {c}])
  /\ UNCHANGED <<prVars, approvals, condition, roles, history>>

\* The INSERT of the three handlers above.  A Global Values PR is born open.  A
\* project PR is born a draft, and its base_project_version_id stays NULL: base
\* only remembers here the head its author started from.
InsertPR(r) ==
  /\ req[r].step = "insert"
  /\ IF req[r].scope \in Group
     THEN InsertRow("open", req[r].user, req[r].scope, req[r].base, req[r].staged)
     ELSE InsertRow("draft", req[r].user, req[r].scope, LatestVersion(req[r].scope),
                    req[r].staged)
  /\ Finish(r)
  /\ UNCHANGED <<approvals, condition, roles, history>>

-----------------------------------------------------------------------------
(***************************************************************************)
(* Editing the workspace: transactions that hold the row's lock            *)
(***************************************************************************)
\* Mutant: the change is inserted without deleting the one it replaces.
StageBeside(u, s, c) ==
  /\ OneShot
  /\ \E p \in PR :
       /\ IsLatestActive(p, u, s)
       /\ ReopenIfApproved(p)
       /\ changes' = [changes EXCEPT ![p] = @ \cup {c}]
  /\ UNCHANGED <<lastPR, author, scope, base, condition, roles, history>>

\* stage into the caller's latest active row: the last write for an object wins.
Stage(u, s, c) ==
  /\ OneShot
  /\ \E p \in PR :
       /\ IsLatestActive(p, u, s)
       /\ ReopenIfApproved(p)
       /\ changes' = [changes EXCEPT ![p] =
                        {d \in @ : d.object # c.object} \cup {c}]
  /\ UNCHANGED <<lastPR, author, scope, base, condition, roles, history>>

UnstageChange(u, s, c) ==
  /\ OneShot
  /\ \E p \in PR :
       /\ IsLatestActive(p, u, s)
       /\ c \in changes[p]
       /\ ReopenIfApproved(p)
       /\ changes' = [changes EXCEPT ![p] = @ \ {c}]
  /\ UNCHANGED <<lastPR, author, scope, base, condition, roles, history>>

\* Mutant: a workspace that was already submitted is discarded too.
DiscardSubmitted(u, s) ==
  /\ OneShot
  /\ \E p \in PR :
       /\ IsLatestActive(p, u, s)
       /\ status' = [status EXCEPT ![p] = "deleted"]
       /\ changes' = [changes EXCEPT ![p] = {}]
       /\ approvals' = [approvals EXCEPT ![p] = {}]
  /\ UNCHANGED <<lastPR, author, scope, base, condition, roles, history>>

\* The only place a row is removed, and only from a draft.
DiscardWorkspace(u, s) ==
  /\ OneShot
  /\ \E p \in PR :
       /\ IsLatestActive(p, u, s)
       /\ status[p] = "draft"
       /\ status' = [status EXCEPT ![p] = "deleted"]
       /\ changes' = [changes EXCEPT ![p] = {}]
       /\ approvals' = [approvals EXCEPT ![p] = {}]
  /\ UNCHANGED <<lastPR, author, scope, base, condition, roles, history>>

-----------------------------------------------------------------------------
(***************************************************************************)
(* Submitting and closing: a read of the status, then an unguarded UPDATE  *)
(***************************************************************************)
\* The author submits a draft that passes validation; validation only reads.
SubmitDraft(r, u, p) ==
  /\ author[p] = u
  /\ status[p] = "draft"
  /\ Begin(r, [step |-> "write", pr |-> p, to |-> "open"])
  /\ UNCHANGED <<prVars, approvals, condition, roles, history>>

\* Mutant: the status is not looked at before closing.
CloseAny(r, p) ==
  /\ Exists(p)
  /\ Begin(r, [step |-> "write", pr |-> p, to |-> "closed"])
  /\ UNCHANGED <<prVars, approvals, condition, roles, history>>

\* Any signed-in user may close any active pull request.
Close(r, p) ==
  /\ status[p] \in ActiveStatus
  /\ Begin(r, [step |-> "write", pr |-> p, to |-> "closed"])
  /\ UNCHANGED <<prVars, approvals, condition, roles, history>>

\* The UPDATE of SubmitDraft and of Close.
WriteStatus(r) ==
  /\ req[r].step = "write"
  /\ SetStatus(req[r].pr, req[r].to)
  /\ Finish(r)
  /\ UNCHANGED <<lastPR, author, scope, base, changes, approvals, condition,
                 roles, history>>

-----------------------------------------------------------------------------
(***************************************************************************)
(* Review                                                                  *)
(***************************************************************************)
\* Mutant: a draft may be approved as well.
ApproveActive(r, u, p) ==
  /\ status[p] \in ActiveStatus
  /\ Begin(r, [step |-> "record", user |-> u, pr |-> p,
               seen |-> IF status[p] = "approved" THEN "approved" ELSE "open"])
  /\ UNCHANGED <<prVars, approvals, condition, roles, history>>

Approve(r, u, p) ==
  /\ status[p] \in {"open", "approved"}
  /\ Begin(r, [step |-> "record", user |-> u, pr |-> p, seen |-> status[p]])
  /\ UNCHANGED <<prVars, approvals, condition, roles, history>>

\* The upsert: one row per user, made active again if it had been withdrawn.
\* Only an approval of a row read as open can change the status afterwards.
RecordApproval(r) ==
  LET p == req[r].pr
  IN  /\ req[r].step = "record"
      /\ approvals' = IF Exists(p)
                      THEN [approvals EXCEPT ![p] =
                              {a \in @ : a.user # req[r].user}
                                \cup {[user |-> req[r].user, content |-> changes[p]]}]
                      ELSE approvals
      /\ IF Exists(p) /\ req[r].seen = "open"
         THEN Continue(r, [step |-> "loadCondition", pr |-> p, seen |-> "open"])
         ELSE Finish(r)
      /\ UNCHANGED <<prVars, condition, roles, history>>

\* An approval is withdrawn whatever the status of the pull request.
WithdrawApproval(r, u, p) ==
  /\ u \in Approvers(p)
  /\ Begin(r, [step |-> "reread", pr |-> p])
  /\ approvals' = [approvals EXCEPT ![p] = {a \in @ : a.user # u}]
  /\ UNCHANGED <<prVars, condition, roles, history>>

\* Only a row read back as approved is re-evaluated.
RereadPR(r) ==
  LET p == req[r].pr
  IN  /\ req[r].step = "reread"
      /\ IF status[p] = "approved"
         THEN Continue(r, [step |-> "loadCondition", pr |-> p, seen |-> "approved"])
         ELSE Finish(r)
      /\ UNCHANGED <<prVars, approvals, condition, roles, history>>

LoadApprovalCondition(r) ==
  /\ req[r].step = "loadCondition"
  /\ Continue(r, [step |-> "loadApprovals", pr |-> req[r].pr, seen |-> req[r].seen,
                  cond |-> condition[scope[req[r].pr]]])
  /\ UNCHANGED <<prVars, approvals, condition, roles, history>>

LoadApprovals(r) ==
  /\ req[r].step = "loadApprovals"
  /\ Continue(r, [step |-> "check", pr |-> req[r].pr, seen |-> req[r].seen,
                  cond |-> req[r].cond, approvers |-> Approvers(req[r].pr)])
  /\ UNCHANGED <<prVars, approvals, condition, roles, history>>

\* The roles are those the approvers hold now, not when they approved.
CheckApprovalConditionMet(r) ==
  LET met == ConditionMet(req[r].cond, req[r].approvers, roles)
      to  == IF met THEN "approved" ELSE "open"
  IN  /\ req[r].step = "check"
      /\ IF to # req[r].seen
         THEN Continue(r, [step |-> "update", pr |-> req[r].pr, to |-> to])
         ELSE Finish(r)
      /\ UNCHANGED <<prVars, approvals, condition, roles, history>>

\* UPDATE pull_requests SET status = ... WHERE id = $1, whatever it is by now.
UpdateStatus(r) ==
  /\ req[r].step = "update"
  /\ SetStatus(req[r].pr, req[r].to)
  /\ Finish(r)
  /\ UNCHANGED <<lastPR, author, scope, base, changes, approvals, condition,
                 roles, history>>

-----------------------------------------------------------------------------
(***************************************************************************)
(* Merge, and the writes that do not go through a pull request             *)
(***************************************************************************)
\* Mutant: the base of a Global Values PR is not compared with the head.
MergeableOverStaleBase(u, p) ==
  /\ author[p] = u
  /\ status[p] = "approved"

\* What loadAndLockPRForMerge and the snapshot's conflict check demand.  The
\* check compares the base of a Global Values PR with the group's head; for a
\* project PR the stored base is NULL and nothing is compared.
Mergeable(u, p) ==
  /\ author[p] = u
  /\ status[p] = "approved"
  /\ scope[p] \in Group => base[p] = LatestVersion(scope[p])

\* Mutant: drafts of the same scope survive the merge.
AutoClosedSubmitted(p) ==
  {q \in PR \ {p} : scope[q] = scope[p] /\ status[q] \in {"open", "approved"}}

\* autoCloseSiblingPRs: every other active row of the same scope.
AutoClosed(p) ==
  {q \in PR \ {p} : scope[q] = scope[p] /\ status[q] \in ActiveStatus}

\* One new version, the row merged and its siblings closed, in one commit.
Merge(u, p) ==
  /\ OneShot
  /\ Mergeable(u, p)
  /\ LatestVersion(scope[p]) < MaxVersions
  /\ history' = [history EXCEPT ![scope[p]] = Append(@, p)]
  /\ status' = [q \in PR |-> IF q = p THEN "merged"
                             ELSE IF q \in AutoClosed(p) THEN "closed"
                             ELSE status[q]]
  /\ UNCHANGED <<lastPR, author, scope, base, changes, approvals, condition, roles>>

\* GlobalValuesHandler.AppendVersion: a version that no pull request carries.
AppendVersion(g) ==
  /\ OneShot
  /\ LatestVersion(g) < MaxVersions
  /\ history' = [history EXCEPT ![g] = Append(@, 0)]
  /\ UNCHANGED <<prVars, approvals, condition, roles>>

\* The condition changes; no pull request is looked at.
UpdateApprovalCondition(s, c) ==
  /\ OneShot
  /\ c # condition[s]
  /\ condition' = [condition EXCEPT ![s] = c]
  /\ UNCHANGED <<prVars, approvals, roles, history>>

AssignUser(u, ro) ==
  /\ OneShot
  /\ <<u, ro>> \in Assignable
  /\ ro \notin roles[u]
  /\ roles' = [roles EXCEPT ![u] = @ \cup {ro}]
  /\ UNCHANGED <<prVars, approvals, condition, history>>

\* The check that keeps the last member of an auto-created role is a COUNT of its
\* own that another removal can outrun, so it is not a guard of this step.
RemoveUser(u, ro) ==
  /\ OneShot
  /\ <<u, ro>> \in Assignable
  /\ ro \in roles[u]
  /\ roles' = [roles EXCEPT ![u] = @ \ {ro}]
  /\ UNCHANGED <<prVars, approvals, condition, history>>

\* The client goes away: the request's context is cancelled, its next statement
\* fails, and what it committed so far stays.
Disconnect(r) ==
  /\ MayDisconnect
  /\ req[r] # Idle
  /\ Finish(r)
  /\ UNCHANGED <<prVars, approvals, condition, roles, history>>

-----------------------------------------------------------------------------
Next ==
  \/ \E r \in Request, u \in User, s \in Project : GetActiveDraft(r, u, s)
  \/ \E r \in Request, u \in User, s \in Project, c \in Change :
       StageIntoNew(r, u, s, c)
  \/ \E r \in Request, u \in User, g \in Group, c \in Change : CreatePR(r, u, g, c)
  \/ \E r \in Request : InsertPR(r)
  \/ \E u \in User, s \in Project, c \in Change : Stage(u, s, c)
  \/ \E u \in User, s \in Project, c \in Change : UnstageChange(u, s, c)
  \/ \E u \in User, s \in Project : DiscardWorkspace(u, s)
  \/ \E r \in Request, u \in User, p \in PR : SubmitDraft(r, u, p)
  \/ \E r \in Request, p \in PR : Close(r, p)
  \/ \E r \in Request : WriteStatus(r)
  \/ \E r \in Request, u \in User, p \in PR : Approve(r, u, p)
  \/ \E r \in Request : RecordApproval(r)
  \/ \E r \in Request, u \in User, p \in PR : WithdrawApproval(r, u, p)
  \/ \E r \in Request : RereadPR(r)
  \/ \E r \in Request : LoadApprovalCondition(r)
  \/ \E r \in Request : LoadApprovals(r)
  \/ \E r \in Request : CheckApprovalConditionMet(r)
  \/ \E r \in Request : UpdateStatus(r)
  \/ \E u \in User, p \in PR : Merge(u, p)
  \/ \E g \in Group : AppendVersion(g)
  \/ \E s \in Scope, c \in Condition : UpdateApprovalCondition(s, c)
  \/ \E u \in User, ro \in Role : AssignUser(u, ro)
  \/ \E u \in User, ro \in Role : RemoveUser(u, ro)
  \/ \E r \in Request : Disconnect(r)

Spec == Init /\ [][Next]_vars

-----------------------------------------------------------------------------
(***************************************************************************)
(* What holds however the requests interleave                              *)
(***************************************************************************)
\* A draft is invisible to review: it has no approvals, and no request in flight
\* is about to record one for it or to move it between open and approved.  This
\* rests on Approve's status check and on nothing ever becoming a draft again.
DraftIsUnreviewed ==
  \A p \in PR : status[p] = "draft" =>
    /\ approvals[p] = {}
    /\ \A r \in Request :
         req[r].step \in {"record", "loadCondition", "loadApprovals", "check", "update"}
           => req[r].pr # p

\* Every version that names a pull request still has its row: "Merged from PR
\* #42" can be followed.  DiscardWorkspace deletes rows, and a merged row may be
\* resurrected by a late write, but never into a draft.
VersionsKeepTheirPR ==
  \A s \in Scope : \A i \in DOMAIN history[s] :
    history[s][i] # 0 => Exists(history[s][i]) /\ status[history[s][i]] # "draft"

\* No Global Values version is lost under another: a pull request that made
\* version n of a group was based on version n - 1.  It follows that a pull
\* request makes at most one version of a group, whatever happens to its status.
GroupNoLostUpdate ==
  \A g \in Group : \A i \in DOMAIN history[g] :
    history[g][i] # 0 => base[history[g][i]] = i - 1

\* A workspace holds at most one change per object ("last write wins"), which
\* the schema does not enforce: it rests on stage's delete under the row lock.
OneChangePerObject ==
  \A p \in PR : \A c, d \in changes[p] : c.object = d.object => c = d

-----------------------------------------------------------------------------
(***************************************************************************)
(* What the documentation promises.  These hold when requests do not       *)
(* overlap, and not otherwise.                                             *)
(***************************************************************************)
Quiescent == \A r \in Request : req[r] = Idle

\* A user has at most one draft, open or approved pull request per project.
OneActivePRPerProject ==
  \A p, q \in PR :
    (/\ status[p] \in ActiveStatus /\ status[q] \in ActiveStatus
     /\ scope[p] \in Project /\ scope[p] = scope[q]
     /\ author[p] = author[q]) => p = q

\* A merged pull request stays merged: every version's row still says so.
VersionsAreMerged ==
  \A s \in Scope : \A i \in DOMAIN history[s] :
    history[s][i] # 0 => status[history[s][i]] = "merged"

\* A merged or closed pull request stays that way.
TerminalIsFinal ==
  [][\A p \in PR : status[p] \in {"merged", "closed"} => status'[p] = status[p]]_vars

\* Between requests, what is approved satisfies its approval condition.
ApprovedIsMet ==
  Quiescent => \A p \in PR : status[p] = "approved" =>
                 ConditionMet(condition[scope[p]], Approvers(p), roles)

\* Between requests, what is approved was approved by someone with exactly the
\* content it has now.  An approval given before the last edit may still count
\* (staging into an open pull request keeps it), but never alone.
ApprovedWasReviewed ==
  Quiescent => \A p \in PR : status[p] = "approved" =>
                 \E a \in approvals[p] : a.content = changes[p]

\* No active project pull request was started before the project's latest
\* version: closing the siblings at merge replaces the conflict check that a
\* project PR's NULL base disables.
NoStaleProjectPR ==
  \A p \in PR : status[p] \in ActiveStatus /\ scope[p] \in Project
                  => base[p] = LatestVersion(scope[p])

\* Between requests, no open pull request already satisfies its condition.
OpenIsNotMet ==
  Quiescent => \A p \in PR : status[p] = "open" =>
                 ~ ConditionMet(condition[scope[p]], Approvers(p), roles)
=============================================================================
