------------------------ MODULE PullRequestsProofs ------------------------
(***************************************************************************)
(* Proofs about PullRequests that hold for every number of users, scopes,  *)
(* overlapping requests and pull requests, and for every approval          *)
(* condition and assignment of roles.                                      *)
(***************************************************************************)
EXTENDS PullRequests, FiniteSetTheorems, TLAPS

-----------------------------------------------------------------------------
(***************************************************************************)
(* Typing                                                                  *)
(***************************************************************************)
\* The step of a request's local state tells which values it carries.
LEMMA LocalStateByStep ==
  ASSUME NEW q \in LocalState
  PROVE  /\ q.step = "insert" =>
              /\ q.user \in User /\ q.scope \in Scope /\ q.base \in Nat
              /\ q.staged \in SUBSET Change
         /\ q.step = "write" => q.pr \in PR /\ q.to \in {"open", "closed"}
         /\ q.step = "record" =>
              q.user \in User /\ q.pr \in PR /\ q.seen \in {"open", "approved"}
         /\ q.step = "reread" => q.pr \in PR
         /\ q.step = "loadCondition" => q.pr \in PR /\ q.seen \in {"open", "approved"}
         /\ q.step = "loadApprovals" =>
              q.pr \in PR /\ q.seen \in {"open", "approved"} /\ q.cond \in Condition
         /\ q.step = "check" =>
              /\ q.pr \in PR /\ q.seen \in {"open", "approved"}
              /\ q.cond \in Condition /\ q.approvers \in SUBSET User
         /\ q.step = "update" => q.pr \in PR /\ q.to \in {"open", "approved"}
BY DEF LocalState, Idle, Inserting, Writing, Recording, Rereading, Evaluating

LEMMA InitTypeOK == Init => TypeOK
<1> SUFFICES ASSUME Init PROVE TypeOK
  OBVIOUS
<1>1. (CHOOSE u \in User : TRUE) \in User /\ (CHOOSE s \in Scope : TRUE) \in Scope
  BY ScopesOK
<1>2. history \in [Scope -> Seq(0 .. MaxPR)]
  <2>1. 0 \in 0 .. MaxPR
    BY BoundsAreNat
  <2>2. <<0>> \in Seq(0 .. MaxPR) /\ <<>> \in Seq(0 .. MaxPR)
    BY <2>1
  <2> QED
    BY <2>2 DEF Init
<1>3. lastPR \in 0 .. MaxPR
  BY BoundsAreNat DEF Init
<1>4. req \in [Request -> LocalState]
  BY DEF Init, LocalState
<1> QED
  BY <1>1, <1>2, <1>3, <1>4, ConditionsOK, RolesOK DEF Init, TypeOK

\* Every action keeps the types.
LEMMA NextTypeOK == TypeOK /\ [Next]_vars => TypeOK'
<1> SUFFICES ASSUME TypeOK, [Next]_vars PROVE TypeOK'
  OBVIOUS
<1> USE DEF prVars
<1>1. ASSUME NEW r \in Request, NEW u \in User, NEW s \in Project, GetActiveDraft(r, u, s)
      PROVE  TypeOK'
  <2>1. [step |-> "insert", user |-> u, scope |-> s, base |-> 0, staged |-> {}]
          \in LocalState
    BY DEF LocalState, Inserting, Scope
  <2> QED
    BY <1>1, <2>1 DEF GetActiveDraft, Begin, TypeOK
<1>2. ASSUME NEW r \in Request, NEW u \in User, NEW s \in Project, NEW c \in Change,
             StageIntoNew(r, u, s, c)
      PROVE  TypeOK'
  <2>1. [step |-> "insert", user |-> u, scope |-> s, base |-> 0, staged |-> {c}]
          \in LocalState
    BY DEF LocalState, Inserting, Scope
  <2> QED
    BY <1>2, <2>1 DEF StageIntoNew, Begin, TypeOK
<1>3. ASSUME NEW r \in Request, NEW u \in User, NEW g \in Group, NEW c \in Change,
             CreatePR(r, u, g, c)
      PROVE  TypeOK'
  <2>1. LatestVersion(g) \in Nat
    BY DEF TypeOK, LatestVersion, Scope
  <2>2. [step |-> "insert", user |-> u, scope |-> g, base |-> LatestVersion(g),
         staged |-> {c}] \in LocalState
    BY <2>1 DEF LocalState, Inserting, Scope
  <2> QED
    BY <1>3, <2>2 DEF CreatePR, Begin, TypeOK
<1>4. ASSUME NEW r \in Request, InsertPR(r)
      PROVE  TypeOK'
  <2>1. req[r] \in LocalState /\ req[r].step = "insert"
    BY <1>4 DEF TypeOK, InsertPR
  <2>2. /\ req[r].user \in User /\ req[r].scope \in Scope /\ req[r].base \in Nat
        /\ req[r].staged \in SUBSET Change
    BY <2>1, LocalStateByStep
  <2>3. LatestVersion(req[r].scope) \in Nat
    BY <2>2 DEF TypeOK, LatestVersion
  <2>4. PICK st \in {"open", "draft"}, b \in Nat :
          InsertRow(st, req[r].user, req[r].scope, b, req[r].staged)
    BY <1>4, <2>2, <2>3 DEF InsertPR
  <2>5. lastPR + 1 \in 0 .. MaxPR
    BY <2>4, BoundsAreNat DEF InsertRow, PR
  <2>6. /\ lastPR' \in 0 .. MaxPR
        /\ status' \in [PR -> Status \cup {"none", "deleted"}]
        /\ author' \in [PR -> User]
        /\ scope' \in [PR -> Scope]
        /\ base' \in [PR -> Nat]
        /\ changes' \in [PR -> SUBSET Change]
    BY <2>2, <2>4, <2>5 DEF InsertRow, TypeOK, Status, ActiveStatus
  <2>7. req' \in [Request -> LocalState]
    BY <1>4 DEF InsertPR, Finish, Continue, TypeOK, LocalState
  <2> QED
    BY <1>4, <2>6, <2>7 DEF InsertPR, TypeOK
<1>5. ASSUME NEW p \in PR, ReopenIfApproved(p)
      PROVE  /\ approvals' \in [PR -> SUBSET [user : User, content : SUBSET Change]]
             /\ status' \in [PR -> Status \cup {"none", "deleted"}]
  BY <1>5 DEF ReopenIfApproved, TypeOK, Status, ActiveStatus
<1>6. ASSUME NEW u \in User, NEW s \in Project, NEW c \in Change, Stage(u, s, c)
      PROVE  TypeOK'
  BY <1>5, <1>6 DEF Stage, OneShot, TypeOK
<1>7. ASSUME NEW u \in User, NEW s \in Project, NEW c \in Change, UnstageChange(u, s, c)
      PROVE  TypeOK'
  BY <1>5, <1>7 DEF UnstageChange, OneShot, TypeOK
<1>8. ASSUME NEW u \in User, NEW s \in Project, DiscardWorkspace(u, s)
      PROVE  TypeOK'
  BY <1>8 DEF DiscardWorkspace, OneShot, TypeOK
<1>9. ASSUME NEW r \in Request, NEW u \in User, NEW p \in PR, SubmitDraft(r, u, p)
      PROVE  TypeOK'
  <2>1. [step |-> "write", pr |-> p, to |-> "open"] \in LocalState
    BY DEF LocalState, Writing
  <2> QED
    BY <1>9, <2>1 DEF SubmitDraft, Begin, TypeOK
<1>10. ASSUME NEW r \in Request, NEW p \in PR, Close(r, p)
       PROVE  TypeOK'
  <2>1. [step |-> "write", pr |-> p, to |-> "closed"] \in LocalState
    BY DEF LocalState, Writing
  <2> QED
    BY <1>10, <2>1 DEF Close, Begin, TypeOK
<1>11. ASSUME NEW r \in Request, WriteStatus(r)
       PROVE  TypeOK'
  <2>1. req[r].pr \in PR /\ req[r].to \in {"open", "closed"}
    BY <1>11, LocalStateByStep DEF WriteStatus, TypeOK
  <2>2. status' \in [PR -> Status \cup {"none", "deleted"}]
    BY <1>11, <2>1 DEF WriteStatus, SetStatus, TypeOK, Status, ActiveStatus
  <2> QED
    BY <1>11, <2>2 DEF WriteStatus, Finish, Continue, TypeOK, LocalState
<1>12. ASSUME NEW r \in Request, NEW u \in User, NEW p \in PR, Approve(r, u, p)
       PROVE  TypeOK'
  <2>1. [step |-> "record", user |-> u, pr |-> p, seen |-> status[p]] \in LocalState
    BY <1>12 DEF Approve, LocalState, Recording
  <2> QED
    BY <1>12, <2>1 DEF Approve, Begin, TypeOK
<1>13. ASSUME NEW r \in Request, RecordApproval(r)
       PROVE  TypeOK'
  <2>1. req[r].pr \in PR /\ req[r].user \in User
    BY <1>13, LocalStateByStep DEF RecordApproval, TypeOK
  <2>2. [step |-> "loadCondition", pr |-> req[r].pr, seen |-> "open"] \in LocalState
    BY <2>1 DEF LocalState, Evaluating
  <2>3. req' \in [Request -> LocalState]
    BY <1>13, <2>2 DEF RecordApproval, Finish, Continue, TypeOK, LocalState
  <2>4. approvals' \in [PR -> SUBSET [user : User, content : SUBSET Change]]
    BY <1>13, <2>1 DEF RecordApproval, TypeOK
  <2> QED
    BY <1>13, <2>3, <2>4 DEF RecordApproval, TypeOK
<1>14. ASSUME NEW r \in Request, NEW u \in User, NEW p \in PR, WithdrawApproval(r, u, p)
       PROVE  TypeOK'
  <2>1. [step |-> "reread", pr |-> p] \in LocalState
    BY DEF LocalState, Rereading
  <2> QED
    BY <1>14, <2>1 DEF WithdrawApproval, Begin, TypeOK
<1>15. ASSUME NEW r \in Request, RereadPR(r)
       PROVE  TypeOK'
  <2>1. req[r].pr \in PR
    BY <1>15, LocalStateByStep DEF RereadPR, TypeOK
  <2>2. [step |-> "loadCondition", pr |-> req[r].pr, seen |-> "approved"] \in LocalState
    BY <2>1 DEF LocalState, Evaluating
  <2> QED
    BY <1>15, <2>2 DEF RereadPR, Finish, Continue, TypeOK, LocalState
<1>16. ASSUME NEW r \in Request, LoadApprovalCondition(r)
       PROVE  TypeOK'
  <2>1. req[r].pr \in PR /\ req[r].seen \in {"open", "approved"}
    BY <1>16, LocalStateByStep DEF LoadApprovalCondition, TypeOK
  <2>2. condition[scope[req[r].pr]] \in Condition
    BY <2>1 DEF TypeOK
  <2>3. [step |-> "loadApprovals", pr |-> req[r].pr, seen |-> req[r].seen,
         cond |-> condition[scope[req[r].pr]]] \in LocalState
    BY <2>1, <2>2 DEF LocalState, Evaluating
  <2> QED
    BY <1>16, <2>3 DEF LoadApprovalCondition, Continue, TypeOK
<1>17. ASSUME NEW r \in Request, LoadApprovals(r)
       PROVE  TypeOK'
  <2>1. /\ req[r].pr \in PR /\ req[r].seen \in {"open", "approved"}
        /\ req[r].cond \in Condition
    BY <1>17, LocalStateByStep DEF LoadApprovals, TypeOK
  <2>2. Approvers(req[r].pr) \in SUBSET User
    BY <2>1 DEF TypeOK, Approvers
  <2>3. [step |-> "check", pr |-> req[r].pr, seen |-> req[r].seen,
         cond |-> req[r].cond, approvers |-> Approvers(req[r].pr)] \in LocalState
    BY <2>1, <2>2 DEF LocalState, Evaluating
  <2> QED
    BY <1>17, <2>3 DEF LoadApprovals, Continue, TypeOK
<1>18. ASSUME NEW r \in Request, CheckApprovalConditionMet(r)
       PROVE  TypeOK'
  <2> DEFINE to == IF ConditionMet(req[r].cond, req[r].approvers, roles)
                   THEN "approved" ELSE "open"
  <2>1. req[r].pr \in PR
    BY <1>18, LocalStateByStep DEF CheckApprovalConditionMet, TypeOK
  <2>2. [step |-> "update", pr |-> req[r].pr, to |-> to] \in LocalState
    BY <2>1 DEF LocalState, Evaluating
  <2> QED
    BY <1>18, <2>2 DEF CheckApprovalConditionMet, Finish, Continue, TypeOK, LocalState
<1>19. ASSUME NEW r \in Request, UpdateStatus(r)
       PROVE  TypeOK'
  <2>1. req[r].pr \in PR /\ req[r].to \in {"open", "approved"}
    BY <1>19, LocalStateByStep DEF UpdateStatus, TypeOK
  <2>2. status' \in [PR -> Status \cup {"none", "deleted"}]
    BY <1>19, <2>1 DEF UpdateStatus, SetStatus, TypeOK, Status, ActiveStatus
  <2> QED
    BY <1>19, <2>2 DEF UpdateStatus, Finish, Continue, TypeOK, LocalState
<1>20. ASSUME NEW u \in User, NEW p \in PR, Merge(u, p)
       PROVE  TypeOK'
  <2>1. p \in 0 .. MaxPR /\ scope[p] \in Scope
    BY BoundsAreNat DEF PR, TypeOK
  <2>2. history' \in [Scope -> Seq(0 .. MaxPR)]
    BY <1>20, <2>1 DEF Merge, TypeOK
  <2>3. status' \in [PR -> Status \cup {"none", "deleted"}]
    BY <1>20 DEF Merge, TypeOK, Status, ActiveStatus
  <2> QED
    BY <1>20, <2>2, <2>3 DEF Merge, OneShot, TypeOK
<1>21. ASSUME NEW g \in Group, AppendVersion(g)
       PROVE  TypeOK'
  <2>1. 0 \in 0 .. MaxPR /\ g \in Scope
    BY BoundsAreNat DEF Scope
  <2>2. history' \in [Scope -> Seq(0 .. MaxPR)]
    BY <1>21, <2>1 DEF AppendVersion, TypeOK
  <2> QED
    BY <1>21, <2>2 DEF AppendVersion, OneShot, TypeOK
<1>22. ASSUME NEW s \in Scope, NEW c \in Condition, UpdateApprovalCondition(s, c)
       PROVE  TypeOK'
  BY <1>22 DEF UpdateApprovalCondition, OneShot, TypeOK
<1>23. ASSUME NEW u \in User, NEW ro \in Role, AssignUser(u, ro) \/ RemoveUser(u, ro)
       PROVE  TypeOK'
  <2>1. PICK held \in SUBSET Role : roles' = [roles EXCEPT ![u] = held]
    <3>1. roles[u] \cup {ro} \in SUBSET Role /\ roles[u] \ {ro} \in SUBSET Role
      BY DEF TypeOK
    <3> QED
      BY <1>23, <3>1 DEF AssignUser, RemoveUser
  <2>2. roles' \in [User -> SUBSET Role]
    BY <2>1 DEF TypeOK
  <2> QED
    BY <1>23, <2>2 DEF AssignUser, RemoveUser, OneShot, TypeOK
<1>24. ASSUME NEW r \in Request, Disconnect(r)
       PROVE  TypeOK'
  BY <1>24 DEF Disconnect, Finish, Continue, TypeOK, LocalState
<1>25. CASE UNCHANGED vars
  BY <1>25 DEF vars, TypeOK
<1> QED
  BY <1>1, <1>2, <1>3, <1>4, <1>6, <1>7, <1>8, <1>9, <1>10, <1>11, <1>12, <1>13, <1>14,
     <1>15, <1>16, <1>17, <1>18, <1>19, <1>20, <1>21, <1>22, <1>23, <1>24, <1>25
  DEF Next

\* Every state of every behaviour is well typed.
THEOREM TypeCorrect == Spec => []TypeOK
<1>1. Init => TypeOK
  BY InitTypeOK
<1>2. TypeOK /\ [Next]_vars => TypeOK'
  BY NextTypeOK
<1> QED
  BY <1>1, <1>2, PTL DEF Spec

-----------------------------------------------------------------------------
(***************************************************************************)
(* The inductive invariant.  DraftIsUnreviewed is not inductive by itself: *)
(* it needs that a request in review never points at a row that was not    *)
(* submitted, that rows not yet inserted carry nothing, and that ids are   *)
(* handed out in order.                                                    *)
(***************************************************************************)
Unsubmitted == {"none", "draft"}
Reviewed == Status \ {"draft"}
ReviewStep == {"record", "reread", "loadCondition", "loadApprovals", "check", "update"}

IdsInOrder == \A p \in PR : p > lastPR => status[p] = "none"
UnsubmittedIsUnapproved == \A p \in PR : status[p] \in Unsubmitted => approvals[p] = {}
ReviewsAreOfSubmitted ==
  \A r \in Request : req[r].step \in ReviewStep => status[req[r].pr] \notin Unsubmitted
InsertsAtMostOneChange ==
  \A r \in Request : req[r].step = "insert" =>
    \A c, d \in req[r].staged : c = d

IInv ==
  /\ TypeOK
  /\ IdsInOrder
  /\ UnsubmittedIsUnapproved
  /\ ReviewsAreOfSubmitted
  /\ VersionsKeepTheirPR
  /\ GroupNoLostUpdate
  /\ InsertsAtMostOneChange
  /\ OneChangePerObject

\* What one step may do to a row: a row is inserted only as the next id, a
\* submitted row is never a draft again nor is a reviewed one deleted, and the
\* base of a row is written once.
LEMMA RowStep ==
  ASSUME TypeOK, IdsInOrder, [Next]_vars, NEW p \in PR
  PROVE  /\ lastPR' >= lastPR
         /\ status[p] = "none" => status'[p] = "none" \/ (p = lastPR + 1 /\ lastPR' = p)
         /\ status[p] \notin Unsubmitted => status'[p] \notin Unsubmitted
         /\ status[p] \in Reviewed => status'[p] \in Reviewed
         /\ status[p] # "none" => base'[p] = base[p]
<1> USE DEF prVars, Unsubmitted, Reviewed, Status, ActiveStatus
<1>0. lastPR \in Nat
  BY BoundsAreNat DEF TypeOK
<1>1. ASSUME NEW r \in Request, InsertPR(r)
      PROVE  /\ lastPR' = lastPR + 1 /\ lastPR + 1 \in PR
             /\ \E st \in {"open", "draft"} : status' = [status EXCEPT ![lastPR + 1] = st]
             /\ \E b : base' = [base EXCEPT ![lastPR + 1] = b]
  BY <1>1 DEF InsertPR, InsertRow
<1>2. ASSUME NEW r \in Request, InsertPR(r)
      PROVE  status[lastPR + 1] = "none"
  BY <1>0, <1>1, <1>2 DEF IdsInOrder
<1>3. ASSUME NEW r \in Request, WriteStatus(r) \/ UpdateStatus(r)
      PROVE  /\ lastPR' = lastPR /\ base' = base
             /\ status'[p] = status[p]
                  \/ (Exists(p) /\ status'[p] \in {"open", "approved", "closed"})
  <2>1. req[r].pr \in PR /\ req[r].to \in {"open", "approved", "closed"}
    BY <1>3, LocalStateByStep DEF WriteStatus, UpdateStatus, TypeOK
  <2>2. /\ SetStatus(req[r].pr, req[r].to)
        /\ lastPR' = lastPR /\ base' = base
    BY <1>3 DEF WriteStatus, UpdateStatus
  <2>3. CASE Exists(req[r].pr)
    BY <2>1, <2>2, <2>3 DEF SetStatus, Exists, TypeOK
  <2>4. CASE ~ Exists(req[r].pr)
    BY <2>2, <2>4 DEF SetStatus
  <2> QED
    BY <2>3, <2>4
<1>4. ASSUME NEW u \in User, NEW s \in Project, NEW c \in Change,
             Stage(u, s, c) \/ UnstageChange(u, s, c)
      PROVE  /\ lastPR' = lastPR /\ base' = base
             /\ status'[p] = status[p] \/ (status[p] = "approved" /\ status'[p] = "open")
  BY <1>4 DEF Stage, UnstageChange, ReopenIfApproved, TypeOK
<1>5. ASSUME NEW u \in User, NEW s \in Project, DiscardWorkspace(u, s)
      PROVE  /\ lastPR' = lastPR /\ base' = base
             /\ status'[p] = status[p] \/ (status[p] = "draft" /\ status'[p] = "deleted")
  BY <1>5 DEF DiscardWorkspace, TypeOK
<1>6. ASSUME NEW u \in User, NEW q \in PR, Merge(u, q)
      PROVE  /\ lastPR' = lastPR /\ base' = base
             /\ status'[p] = status[p]
                  \/ (status[p] \in ActiveStatus /\ status'[p] \in {"merged", "closed"})
  <2>1. /\ lastPR' = lastPR /\ base' = base
        /\ status'[p] = IF p = q THEN "merged"
                        ELSE IF p \in AutoClosed(q) THEN "closed" ELSE status[p]
    BY <1>6 DEF Merge
  <2>2. status[q] = "approved"
    BY <1>6 DEF Merge, Mergeable
  <2>3. p \in AutoClosed(q) => status[p] \in ActiveStatus
    BY DEF AutoClosed
  <2> QED
    BY <2>1, <2>2, <2>3
<1>7. CASE UNCHANGED <<lastPR, status, base>>
  BY <1>0, <1>7
<1>8. CASE /\ lastPR' = lastPR /\ base' = base
           /\ \/ status'[p] = status[p]
              \/ Exists(p) /\ status'[p] \in {"open", "approved", "closed"}
              \/ status[p] = "approved" /\ status'[p] = "open"
              \/ status[p] = "draft" /\ status'[p] = "deleted"
              \/ status[p] \in ActiveStatus /\ status'[p] \in {"merged", "closed"}
  BY <1>0, <1>8 DEF Exists
<1>9. ASSUME NEW r \in Request, InsertPR(r)
      PROVE  /\ lastPR' >= lastPR
             /\ status[p] = "none" =>
                  status'[p] = "none" \/ (p = lastPR + 1 /\ lastPR' = p)
             /\ status[p] \notin Unsubmitted => status'[p] \notin Unsubmitted
             /\ status[p] \in Reviewed => status'[p] \in Reviewed
             /\ status[p] # "none" => base'[p] = base[p]
  <2>1. PICK st \in {"open", "draft"} : status' = [status EXCEPT ![lastPR + 1] = st]
    BY <1>1, <1>9
  <2>2. PICK b : base' = [base EXCEPT ![lastPR + 1] = b]
    BY <1>1, <1>9
  <2>3. lastPR' = lastPR + 1 /\ lastPR + 1 \in PR /\ status[lastPR + 1] = "none"
    BY <1>1, <1>2, <1>9
  <2>4. CASE p = lastPR + 1
    BY <1>0, <2>1, <2>3, <2>4 DEF TypeOK
  <2>5. CASE p # lastPR + 1
    BY <1>0, <2>1, <2>2, <2>3, <2>5 DEF TypeOK
  <2> QED
    BY <2>4, <2>5
<1> QED
  BY <1>3, <1>4, <1>5, <1>6, <1>7, <1>8, <1>9
  DEF Next, vars, GetActiveDraft, StageIntoNew, CreatePR, SubmitDraft, Close, Approve,
      RecordApproval, WithdrawApproval, RereadPR, LoadApprovalCondition, LoadApprovals,
      CheckApprovalConditionMet, AppendVersion, UpdateApprovalCondition, AssignUser,
      RemoveUser, Disconnect

\* What one step may do to a request: it enters review on a submitted row only,
\* and then keeps to that row; it prepares the insertion of at most one change.
LEMMA RequestStep ==
  ASSUME TypeOK, UnsubmittedIsUnapproved, [Next]_vars, NEW r \in Request
  PROVE  /\ req'[r].step \in ReviewStep =>
              \/ req[r].step \in ReviewStep /\ req[r].pr = req'[r].pr
              \/ req'[r].pr \in PR /\ status[req'[r].pr] \notin Unsubmitted
         /\ req'[r].step = "insert" =>
              req'[r] = req[r] \/ \A c, d \in req'[r].staged : c = d
<1> DEFINE Goal ==
      /\ req'[r].step \in ReviewStep =>
           \/ req[r].step \in ReviewStep /\ req[r].pr = req'[r].pr
           \/ req'[r].pr \in PR /\ status[req'[r].pr] \notin Unsubmitted
      /\ req'[r].step = "insert" =>
           req'[r] = req[r] \/ \A c, d \in req'[r].staged : c = d
<1> SUFFICES Goal
  OBVIOUS
<1> USE DEF ReviewStep, Unsubmitted
<1>0. req \in [Request -> LocalState]
  BY DEF TypeOK
<1>1. ASSUME req'[r] = req[r] \/ req'[r] = Idle
      PROVE  Goal
  BY <1>1 DEF Idle
<1>2. ASSUME NEW q \in Request, Finish(q)
      PROVE  req'[r] = req[r] \/ req'[r] = Idle
  BY <1>0, <1>2 DEF Finish, Continue
<1>3. ASSUME NEW q \in Request, NEW u \in User, NEW s \in Scope,
             \/ GetActiveDraft(q, u, s)
             \/ \E c \in Change : StageIntoNew(q, u, s, c) \/ CreatePR(q, u, s, c)
      PROVE  Goal
  <2>1. req'[q].step = "insert" /\ \A e, d \in req'[q].staged : e = d
    BY <1>0, <1>3 DEF GetActiveDraft, StageIntoNew, CreatePR, Begin
  <2>2. r # q => req'[r] = req[r]
    BY <1>0, <1>3 DEF GetActiveDraft, StageIntoNew, CreatePR, Begin
  <2> QED
    BY <1>1, <2>1, <2>2
<1>4. ASSUME NEW q \in Request, NEW p \in PR,
             Close(q, p) \/ \E u \in User : SubmitDraft(q, u, p)
      PROVE  Goal
  <2>1. req'[q].step = "write"
    BY <1>0, <1>4 DEF SubmitDraft, Close, Begin
  <2>2. r # q => req'[r] = req[r]
    BY <1>0, <1>4 DEF SubmitDraft, Close, Begin
  <2> QED
    BY <1>1, <2>1, <2>2
<1>5. ASSUME NEW q \in Request, NEW u \in User, NEW p \in PR,
             Approve(q, u, p) \/ WithdrawApproval(q, u, p)
      PROVE  Goal
  <2>1. /\ req'[q].step \in {"record", "reread"} /\ req'[q].pr = p
        /\ r # q => req'[r] = req[r]
    BY <1>0, <1>5 DEF Approve, WithdrawApproval, Begin
  <2>2. status[p] \notin Unsubmitted
    BY <1>5 DEF Approve, WithdrawApproval, Approvers, UnsubmittedIsUnapproved
  <2> QED
    BY <1>1, <2>1, <2>2
<1>6. ASSUME NEW q \in Request,
             \/ RecordApproval(q) \/ RereadPR(q) \/ LoadApprovalCondition(q)
             \/ LoadApprovals(q) \/ CheckApprovalConditionMet(q)
      PROVE  Goal
  <2>1. req[q].step \in ReviewStep
    BY <1>6 DEF RecordApproval, RereadPR, LoadApprovalCondition, LoadApprovals,
                CheckApprovalConditionMet
  <2>2. /\ r # q => req'[r] = req[r]
        /\ req'[q] = Idle \/ (req'[q].step \in ReviewStep /\ req'[q].pr = req[q].pr)
    BY <1>0, <1>6
    DEF RecordApproval, RereadPR, LoadApprovalCondition, LoadApprovals,
        CheckApprovalConditionMet, Continue, Finish
  <2> QED
    BY <1>1, <2>1, <2>2
<1>7. ASSUME NEW q \in Request,
             InsertPR(q) \/ WriteStatus(q) \/ UpdateStatus(q) \/ Disconnect(q)
      PROVE  Goal
  BY <1>1, <1>2, <1>7 DEF InsertPR, WriteStatus, UpdateStatus, Disconnect
<1>8. CASE UNCHANGED req
  BY <1>1, <1>8
<1> QED
  BY <1>3, <1>4, <1>5, <1>6, <1>7, <1>8
  DEF Scope, Next, vars, Stage, UnstageChange, DiscardWorkspace, Merge, AppendVersion,
      UpdateApprovalCondition, AssignUser, RemoveUser, OneShot

\* Approvals reach a row only through a request in review, so they stay away from
\* the rows that were not submitted.
LEMMA ApprovalStep ==
  ASSUME TypeOK, ReviewsAreOfSubmitted, [Next]_vars, NEW p \in PR,
         status[p] \in Unsubmitted, approvals[p] = {}
  PROVE  approvals'[p] = {}
<1>1. ASSUME NEW r \in Request, RecordApproval(r)
      PROVE  approvals'[p] = approvals[p]
  <2>1. req[r].pr \in PR /\ status[req[r].pr] \notin Unsubmitted
    BY <1>1, LocalStateByStep DEF RecordApproval, ReviewsAreOfSubmitted, ReviewStep, TypeOK
  <2>2. p # req[r].pr
    BY <2>1
  <2> QED
    BY <1>1, <2>1, <2>2 DEF RecordApproval, TypeOK
<1>2. ASSUME NEW r \in Request, NEW u \in User, NEW q \in PR, WithdrawApproval(r, u, q)
      PROVE  approvals'[p] \subseteq approvals[p]
  BY <1>2 DEF WithdrawApproval, TypeOK
<1>3. ASSUME NEW u \in User, NEW s \in Project, NEW c \in Change,
             Stage(u, s, c) \/ UnstageChange(u, s, c) \/ DiscardWorkspace(u, s)
      PROVE  approvals'[p] = approvals[p] \/ approvals'[p] = {}
  BY <1>3 DEF Stage, UnstageChange, DiscardWorkspace, ReopenIfApproved, TypeOK
<1>4. CASE UNCHANGED approvals
  BY <1>4
<1> QED
  <2>1. ASSUME NEW u \in User, NEW s \in Project, DiscardWorkspace(u, s)
        PROVE  approvals'[p] = {}
    BY <2>1 DEF DiscardWorkspace, TypeOK
  <2> QED
    BY <1>1, <1>2, <1>3, <1>4, <2>1
    DEF Next, vars, GetActiveDraft, StageIntoNew, CreatePR, InsertPR, SubmitDraft, Close,
        WriteStatus, Approve, RereadPR, LoadApprovalCondition, LoadApprovals,
        CheckApprovalConditionMet, UpdateStatus, Merge, AppendVersion,
        UpdateApprovalCondition, AssignUser, RemoveUser, Disconnect

\* What one step may do to the versions: append one, of no pull request or of an
\* approved one that becomes merged and, in a group, was based on the head.
LEMMA VersionStep ==
  ASSUME TypeOK, [Next]_vars, NEW s \in Scope
  PROVE  \/ history'[s] = history[s]
         \/ history'[s] = Append(history[s], 0)
         \/ \E p \in PR :
              /\ history'[s] = Append(history[s], p)
              /\ status[p] = "approved" /\ status'[p] = "merged" /\ base' = base
              /\ s \in Group => base[p] = Len(history[s])
<1>1. ASSUME NEW u \in User, NEW p \in PR, Merge(u, p)
      PROVE  \/ history'[s] = history[s]
             \/ /\ history'[s] = Append(history[s], p)
                /\ status[p] = "approved" /\ status'[p] = "merged" /\ base' = base
                /\ s \in Group => base[p] = Len(history[s])
  BY <1>1 DEF Merge, Mergeable, LatestVersion, TypeOK
<1>2. ASSUME NEW g \in Group, AppendVersion(g)
      PROVE  history'[s] = history[s] \/ history'[s] = Append(history[s], 0)
  BY <1>2 DEF AppendVersion, TypeOK
<1>3. CASE UNCHANGED history
  BY <1>3
<1> QED
  BY <1>1, <1>2, <1>3
  DEF Next, vars, GetActiveDraft, StageIntoNew, CreatePR, InsertPR, Stage, UnstageChange,
      DiscardWorkspace, SubmitDraft, Close, WriteStatus, Approve, RecordApproval,
      WithdrawApproval, RereadPR, LoadApprovalCondition, LoadApprovals,
      CheckApprovalConditionMet, UpdateStatus, UpdateApprovalCondition, AssignUser,
      RemoveUser, Disconnect

\* What one step may do to the staged changes of a row: it keeps one per object.
LEMMA ChangeStep ==
  ASSUME TypeOK, InsertsAtMostOneChange, [Next]_vars, NEW p \in PR,
         \A c, d \in changes[p] : c.object = d.object => c = d
  PROVE  \A c, d \in changes'[p] : c.object = d.object => c = d
<1>1. ASSUME NEW r \in Request, InsertPR(r)
      PROVE  changes'[p] = changes[p] \/ \A c, d \in changes'[p] : c = d
  <2>1. \A c, d \in req[r].staged : c = d
    BY <1>1 DEF InsertPR, InsertsAtMostOneChange
  <2>2. changes' = [changes EXCEPT ![lastPR + 1] = req[r].staged]
    BY <1>1 DEF InsertPR, InsertRow
  <2> QED
    BY <2>1, <2>2 DEF TypeOK
<1>2. ASSUME NEW u \in User, NEW s \in Project, NEW c \in Change, Stage(u, s, c)
      PROVE  \/ changes'[p] = changes[p]
             \/ changes'[p] = {d \in changes[p] : d.object # c.object} \cup {c}
  BY <1>2 DEF Stage, TypeOK
<1>3. ASSUME NEW u \in User, NEW s \in Project,
             DiscardWorkspace(u, s) \/ \E c \in Change : UnstageChange(u, s, c)
      PROVE  changes'[p] \subseteq changes[p]
  BY <1>3 DEF DiscardWorkspace, UnstageChange, TypeOK
<1>4. CASE UNCHANGED changes
  BY <1>4
<1> QED
  BY <1>1, <1>2, <1>3, <1>4
  DEF Next, vars, prVars, GetActiveDraft, StageIntoNew, CreatePR, SubmitDraft, Close,
      WriteStatus, Approve, RecordApproval, WithdrawApproval, RereadPR,
      LoadApprovalCondition, LoadApprovals, CheckApprovalConditionMet, UpdateStatus,
      Merge, AppendVersion, UpdateApprovalCondition, AssignUser, RemoveUser, Disconnect

LEMMA InitIInv == Init => IInv
<1> SUFFICES ASSUME Init PROVE IInv
  OBVIOUS
<1>1. TypeOK
  BY InitTypeOK
<1>2. IdsInOrder /\ UnsubmittedIsUnapproved
  BY DEF Init, IdsInOrder, UnsubmittedIsUnapproved
<1>3. \A r \in Request : req[r].step = "idle"
  BY DEF Init, Idle
<1>4. ReviewsAreOfSubmitted /\ InsertsAtMostOneChange
  BY <1>3 DEF ReviewsAreOfSubmitted, ReviewStep, InsertsAtMostOneChange
<1>5. \A s \in Scope : \A i \in DOMAIN history[s] : history[s][i] = 0
  BY DEF Init
<1>6. VersionsKeepTheirPR /\ GroupNoLostUpdate
  BY <1>5 DEF VersionsKeepTheirPR, GroupNoLostUpdate, Scope
<1>7. OneChangePerObject
  BY DEF Init, OneChangePerObject
<1> QED
  BY <1>1, <1>2, <1>4, <1>6, <1>7 DEF IInv

LEMMA NextIInv == IInv /\ [Next]_vars => IInv'
<1> SUFFICES ASSUME IInv, [Next]_vars PROVE IInv'
  OBVIOUS
<1> USE DEF IInv
<1>1. TypeOK'
  BY NextTypeOK
<1>2. IdsInOrder'
  <2> SUFFICES ASSUME NEW p \in PR, p > lastPR' PROVE status'[p] = "none"
    BY DEF IdsInOrder
  <2>1. lastPR \in Nat /\ lastPR' \in Nat /\ p \in Nat
    BY <1>1, BoundsAreNat DEF TypeOK, PR
  <2>2. p > lastPR
    BY <2>1, RowStep
  <2> QED
    BY <2>1, <2>2, RowStep DEF IdsInOrder
<1>3. UnsubmittedIsUnapproved'
  <2> SUFFICES ASSUME NEW p \in PR, status'[p] \in Unsubmitted PROVE approvals'[p] = {}
    BY DEF UnsubmittedIsUnapproved
  <2>1. status[p] \in Unsubmitted
    BY RowStep
  <2> QED
    BY <2>1, ApprovalStep DEF UnsubmittedIsUnapproved
<1>4. ReviewsAreOfSubmitted'
  <2> SUFFICES ASSUME NEW r \in Request, req'[r].step \in ReviewStep
               PROVE  status'[req'[r].pr] \notin Unsubmitted
    BY DEF ReviewsAreOfSubmitted
  <2>1. req[r].step \in ReviewStep => req[r].pr \in PR
    BY LocalStateByStep DEF TypeOK, ReviewStep
  <2>2. req'[r].pr \in PR /\ status[req'[r].pr] \notin Unsubmitted
    BY <2>1, RequestStep DEF ReviewsAreOfSubmitted
  <2> QED
    BY <2>2, RowStep
<1>5. InsertsAtMostOneChange'
  BY RequestStep DEF InsertsAtMostOneChange
<1>6. ASSUME NEW s \in Scope, NEW i \in DOMAIN history'[s], history'[s][i] # 0
      PROVE  /\ history'[s][i] \in PR
             /\ status'[history'[s][i]] \in Reviewed
             /\ s \in Group => base'[history'[s][i]] = i - 1
  <2>1. ASSUME i \in DOMAIN history[s], history'[s][i] = history[s][i]
        PROVE  /\ history'[s][i] \in PR
               /\ status'[history'[s][i]] \in Reviewed
               /\ s \in Group => base'[history'[s][i]] = i - 1
    <3> DEFINE p == history[s][i]
    <3>1. p \in PR
      BY <1>6, <2>1, BoundsAreNat DEF TypeOK, PR
    <3>2. status[p] \in Reviewed /\ (s \in Group => base[p] = i - 1)
      BY <1>6, <2>1 DEF VersionsKeepTheirPR, GroupNoLostUpdate, Exists, Reviewed
    <3>3. status[p] # "none"
      BY <3>2 DEF Reviewed, Status, ActiveStatus
    <3> QED
      BY <2>1, <3>1, <3>2, <3>3, RowStep
  <2>2. history[s] \in Seq(0 .. MaxPR)
    BY DEF TypeOK
  <2>3. CASE history'[s] = history[s]
    BY <1>6, <2>1, <2>3
  <2>4. CASE history'[s] = Append(history[s], 0)
    BY <1>6, <2>1, <2>2, <2>4
  <2>5. ASSUME NEW p \in PR, history'[s] = Append(history[s], p),
               status[p] = "approved", base' = base,
               s \in Group => base[p] = Len(history[s])
        PROVE  /\ history'[s][i] \in PR
               /\ status'[history'[s][i]] \in Reviewed
               /\ s \in Group => base'[history'[s][i]] = i - 1
    <3>1. CASE i \in DOMAIN history[s]
      BY <2>1, <2>2, <2>5, <3>1
    <3>2. CASE i \notin DOMAIN history[s]
      <4>1. i = Len(history[s]) + 1 /\ history'[s][i] = p
        BY <1>6, <2>2, <2>5, <3>2
      <4>2. status'[p] \in Reviewed
        BY <2>5, RowStep DEF Reviewed, Status, ActiveStatus
      <4> QED
        BY <2>2, <2>5, <4>1, <4>2
    <3> QED
      BY <3>1, <3>2
  <2> QED
    BY <2>3, <2>4, <2>5, VersionStep
<1>7. VersionsKeepTheirPR' /\ GroupNoLostUpdate'
  BY <1>6 DEF VersionsKeepTheirPR, GroupNoLostUpdate, Exists, Reviewed, Scope
<1>8. OneChangePerObject'
  BY ChangeStep DEF OneChangePerObject
<1> QED
  BY <1>1, <1>2, <1>3, <1>4, <1>5, <1>7, <1>8

\* The inductive invariant holds in every reachable state.
THEOREM Invariance == Spec => []IInv
<1>1. Init => IInv
  BY InitIInv
<1>2. IInv /\ [Next]_vars => IInv'
  BY NextIInv
<1> QED
  BY <1>1, <1>2, PTL DEF Spec

-----------------------------------------------------------------------------
(***************************************************************************)
(* What follows for reviewers and for the history                          *)
(***************************************************************************)
\* A draft has no approvals and no request in flight is about to give it one or to
\* move it between open and approved, however requests overlap.
THEOREM DraftsAreUnreviewed == Spec => []DraftIsUnreviewed
<1>1. IInv => DraftIsUnreviewed
  BY DEF IInv, UnsubmittedIsUnapproved, ReviewsAreOfSubmitted, DraftIsUnreviewed,
         Unsubmitted, ReviewStep
<1> QED
  BY <1>1, Invariance, PTL

\* The row of the pull request a version was merged from is never deleted.
THEOREM VersionsKeepTheirPRs == Spec => []VersionsKeepTheirPR
<1>1. IInv => VersionsKeepTheirPR
  BY DEF IInv
<1> QED
  BY <1>1, Invariance, PTL

\* No version of a Global Values group overwrites one its author had not seen.
THEOREM NoGroupUpdateIsLost == Spec => []GroupNoLostUpdate
<1>1. IInv => GroupNoLostUpdate
  BY DEF IInv
<1> QED
  BY <1>1, Invariance, PTL

\* A pull request makes at most one version of a group, even if a late write of
\* UpdateStatus brings its merged row back to approved and it is merged again.
THEOREM OneVersionPerGroupPR ==
  Spec => [](\A g \in Group : \A i, j \in DOMAIN history[g] :
               history[g][i] = history[g][j] /\ history[g][i] # 0 => i = j)
<1>1. IInv => \A g \in Group : \A i, j \in DOMAIN history[g] :
                history[g][i] = history[g][j] /\ history[g][i] # 0 => i = j
  <2> SUFFICES ASSUME IInv, NEW g \in Group,
                      NEW i \in DOMAIN history[g], NEW j \in DOMAIN history[g],
                      history[g][i] = history[g][j], history[g][i] # 0
               PROVE  i = j
    OBVIOUS
  <2>1. base[history[g][i]] = i - 1 /\ base[history[g][j]] = j - 1
    BY DEF IInv, GroupNoLostUpdate
  <2>2. i \in Nat /\ j \in Nat
    BY DEF IInv, TypeOK, Scope
  <2> QED
    BY <2>1, <2>2
<1> QED
  BY <1>1, Invariance, PTL

\* A workspace never stages two changes for the same object.
THEOREM WorkspaceHasOneChangePerObject == Spec => []OneChangePerObject
<1>1. IInv => OneChangePerObject
  BY DEF IInv
<1> QED
  BY <1>1, Invariance, PTL

-----------------------------------------------------------------------------
(***************************************************************************)
(* Requests that take turns                                                *)
(*                                                                         *)
(* What the documentation promises holds as long as no two requests        *)
(* overlap, and the runs show that it does not hold otherwise.  A request  *)
(* that is one statement after another then finds what it has read.        *)
(***************************************************************************)
OneAtATime == \A r, q \in Request : r = q

InsertsWhereNoneIsActive ==
  \A r \in Request : req[r].step = "insert" /\ req[r].scope \in Project =>
    ActivePRs(req[r].user, req[r].scope) = {}

WritesOverActive ==
  \A r \in Request : req[r].step = "write" =>
    /\ status[req[r].pr] \in ActiveStatus
    /\ req[r].to = "open" => status[req[r].pr] = "draft"

EvaluatesActive ==
  \A r \in Request :
    req[r].step \in {"record", "loadCondition", "loadApprovals", "check", "update"} =>
      status[req[r].pr] \in {"open", "approved"}

SerialInv ==
  /\ OneActivePRPerProject
  /\ NoStaleProjectPR
  /\ InsertsWhereNoneIsActive
  /\ WritesOverActive
  /\ EvaluatesActive

\* Rows that stay where they are keep both promises if none becomes active and no
\* project gets a version.
LEMMA RowsStay ==
  ASSUME OneActivePRPerProject, NoStaleProjectPR,
         UNCHANGED <<author, scope, base>>,
         \A s \in Project : history'[s] = history[s],
         \A p \in PR : status'[p] \in ActiveStatus => status[p] \in ActiveStatus
  PROVE  OneActivePRPerProject' /\ NoStaleProjectPR'
BY DEF OneActivePRPerProject, NoStaleProjectPR, LatestVersion

\* When a request finds a free slot, and there is only one, no request is in flight.
LEMMA NobodyElse ==
  ASSUME OneAtATime, NEW r \in Request, req[r] = Idle
  PROVE  \A q \in Request : req[q] = Idle
BY DEF OneAtATime

\* A step that leaves no request in flight keeps what is said of requests.
LEMMA IdleKeepsRequests ==
  ASSUME \A r \in Request : req'[r] = Idle
  PROVE  InsertsWhereNoneIsActive' /\ WritesOverActive' /\ EvaluatesActive'
BY DEF InsertsWhereNoneIsActive, WritesOverActive, EvaluatesActive, Idle

\* At first there are no rows and no requests.
LEMMA SerialInitInv == Init => SerialInv
BY DEF Init, SerialInv, OneActivePRPerProject, NoStaleProjectPR, InsertsWhereNoneIsActive,
       WritesOverActive, EvaluatesActive, Idle, ActiveStatus

\* Requests that arrive, and those between two of their reads.
LEMMA LocalKeepsSerial ==
  ASSUME OneAtATime, IInv, SerialInv, NEW r \in Request,
         \/ \E u \in User, s \in Project : GetActiveDraft(r, u, s)
         \/ \E u \in User, s \in Project, c \in Change : StageIntoNew(r, u, s, c)
         \/ \E u \in User, g \in Group, c \in Change : CreatePR(r, u, g, c)
         \/ \E u \in User, p \in PR : SubmitDraft(r, u, p)
         \/ \E p \in PR : Close(r, p)
         \/ \E u \in User, p \in PR : Approve(r, u, p)
         \/ RecordApproval(r)
         \/ \E u \in User, p \in PR : WithdrawApproval(r, u, p)
         \/ RereadPR(r) \/ LoadApprovalCondition(r) \/ LoadApprovals(r)
         \/ CheckApprovalConditionMet(r) \/ Disconnect(r)
  PROVE  SerialInv'
<1>1. /\ UNCHANGED <<lastPR, status, author, scope, base, history>>
      /\ req \in [Request -> LocalState]
  BY DEF GetActiveDraft, StageIntoNew, CreatePR, SubmitDraft, Close, Approve, RecordApproval,
         WithdrawApproval, RereadPR, LoadApprovalCondition, LoadApprovals,
         CheckApprovalConditionMet, Disconnect, prVars, IInv, TypeOK
<1>2. OneActivePRPerProject' /\ NoStaleProjectPR'
  BY <1>1, RowsStay DEF SerialInv
<1>3. \A q \in Request : q = r
  BY DEF OneAtATime
<1> DEFINE Goal ==
      /\ req'[r].step = "insert" /\ req'[r].scope \in Project =>
           ActivePRs(req'[r].user, req'[r].scope) = {}
      /\ req'[r].step = "write" =>
           /\ status[req'[r].pr] \in ActiveStatus
           /\ req'[r].to = "open" => status[req'[r].pr] = "draft"
      /\ req'[r].step \in {"record", "loadCondition", "loadApprovals", "check", "update"} =>
           status[req'[r].pr] \in {"open", "approved"}
<1>4. Goal
  <2>1. ASSUME NEW u \in User, NEW s \in Project, GetActiveDraft(r, u, s)
        PROVE  Goal
    BY <1>1, <2>1 DEF GetActiveDraft, Begin
  <2>2. ASSUME NEW u \in User, NEW s \in Project, NEW c \in Change, StageIntoNew(r, u, s, c)
        PROVE  Goal
    BY <1>1, <2>2 DEF StageIntoNew, Begin
  <2>3. ASSUME NEW u \in User, NEW g \in Group, NEW c \in Change, CreatePR(r, u, g, c)
        PROVE  Goal
    BY <1>1, <2>3, ScopesOK DEF CreatePR, Begin
  <2>4. ASSUME NEW u \in User, NEW p \in PR, SubmitDraft(r, u, p)
        PROVE  Goal
    BY <1>1, <2>4 DEF SubmitDraft, Begin, ActiveStatus
  <2>5. ASSUME NEW p \in PR, Close(r, p)
        PROVE  Goal
    BY <1>1, <2>5 DEF Close, Begin
  <2>6. ASSUME NEW u \in User, NEW p \in PR, Approve(r, u, p) \/ WithdrawApproval(r, u, p)
        PROVE  Goal
    BY <1>1, <2>6 DEF Approve, WithdrawApproval, Begin
  <2>7. CASE RecordApproval(r)
    BY <1>1, <2>7 DEF RecordApproval, Continue, Finish, Idle, SerialInv, EvaluatesActive
  <2>8. CASE RereadPR(r)
    BY <1>1, <2>8 DEF RereadPR, Continue, Finish, Idle
  <2>9. CASE LoadApprovalCondition(r) \/ LoadApprovals(r) \/ CheckApprovalConditionMet(r)
    BY <1>1, <2>9 DEF LoadApprovalCondition, LoadApprovals, CheckApprovalConditionMet,
                      Continue, Finish, Idle, SerialInv, EvaluatesActive
  <2>10. CASE Disconnect(r)
    BY <1>1, <2>10 DEF Disconnect, Continue, Finish, Idle
  <2> QED
    BY <2>1, <2>2, <2>3, <2>4, <2>5, <2>6, <2>7, <2>8, <2>9, <2>10
<1>5. \A u, s : ActivePRs(u, s)' = ActivePRs(u, s)
  BY <1>1 DEF ActivePRs
<1>6. InsertsWhereNoneIsActive' /\ WritesOverActive' /\ EvaluatesActive'
  BY <1>1, <1>3, <1>4, <1>5 DEF InsertsWhereNoneIsActive, WritesOverActive, EvaluatesActive
<1> QED
  BY <1>2, <1>6 DEF SerialInv

\* The new row of a project is the only active one of its author, and of today.
LEMMA InsertKeepsSerial ==
  ASSUME OneAtATime, IInv, SerialInv, NEW r \in Request, InsertPR(r)
  PROVE  SerialInv' /\ \A p \in PR : status[p] \in {"merged", "closed"} => status'[p] = status[p]
<1> DEFINE n == lastPR + 1
           u == req[r].user
           s == req[r].scope
<1>1. /\ req \in [Request -> LocalState] /\ req[r].step = "insert"
      /\ s \in Scope /\ u \in User
  BY LocalStateByStep DEF InsertPR, IInv, TypeOK
<1>2. /\ n \in PR /\ n > lastPR /\ status[n] = "none"
  BY BoundsAreNat DEF InsertPR, InsertRow, IInv, IdsInOrder, TypeOK, PR
<1>3. /\ history' = history
      /\ \E st \in {"open", "draft"} : status' = [status EXCEPT ![n] = st]
      /\ author' = [author EXCEPT ![n] = u]
      /\ scope' = [scope EXCEPT ![n] = s]
      /\ \E b : base' = [base EXCEPT ![n] = b] /\ (s \in Project => b = LatestVersion(s))
  BY ScopesOK DEF InsertPR, InsertRow
<1>4. \A p \in PR \ {n} : /\ status'[p] = status[p] /\ author'[p] = author[p]
                          /\ scope'[p] = scope[p] /\ base'[p] = base[p]
  BY <1>3 DEF IInv, TypeOK
<1>5. /\ author'[n] = u /\ scope'[n] = s
      /\ s \in Project => base'[n] = LatestVersion(s)
  BY <1>2, <1>3 DEF IInv, TypeOK
<1>6. s \in Project => \A p \in PR : status[p] \in ActiveStatus => ~(author[p] = u /\ scope[p] = s)
  BY <1>1 DEF SerialInv, InsertsWhereNoneIsActive, ActivePRs
<1>7. OneActivePRPerProject'
  BY <1>4, <1>5, <1>6 DEF SerialInv, OneActivePRPerProject
<1>8. NoStaleProjectPR'
  BY <1>3, <1>4, <1>5 DEF SerialInv, NoStaleProjectPR, LatestVersion
<1>9. \A q \in Request : req'[q] = Idle
  BY <1>1 DEF OneAtATime, InsertPR, Finish, Continue
<1>10. InsertsWhereNoneIsActive' /\ WritesOverActive' /\ EvaluatesActive'
  BY <1>9, IdleKeepsRequests
<1>11. ASSUME NEW p \in PR, status[p] \in {"merged", "closed"} PROVE status'[p] = status[p]
  BY <1>2, <1>4, <1>11
<1> QED
  BY <1>7, <1>8, <1>10, <1>11 DEF SerialInv

\* The last statement of a request writes the status of a row that still is active.
LEMMA WriteKeepsSerial ==
  ASSUME OneAtATime, IInv, SerialInv, NEW r \in Request, WriteStatus(r) \/ UpdateStatus(r)
  PROVE  SerialInv' /\ \A p \in PR : status[p] \in {"merged", "closed"} => status'[p] = status[p]
<1>1. /\ req \in [Request -> LocalState]
      /\ UNCHANGED <<author, scope, base, history>>
  BY DEF WriteStatus, UpdateStatus, IInv, TypeOK
<1>2. /\ req[r].pr \in PR /\ status[req[r].pr] \in ActiveStatus
      /\ status' = [status EXCEPT ![req[r].pr] = req[r].to]
  BY <1>1, LocalStateByStep
     DEF WriteStatus, UpdateStatus, SetStatus, SerialInv, WritesOverActive, EvaluatesActive,
         Exists, Status, ActiveStatus
<1>3. \A p \in PR : status'[p] # status[p] => status[p] \in ActiveStatus
  BY <1>2 DEF IInv, TypeOK
<1>4. OneActivePRPerProject' /\ NoStaleProjectPR'
  BY <1>1, <1>3, RowsStay DEF SerialInv
<1>5. \A q \in Request : req'[q] = Idle
  BY <1>1 DEF OneAtATime, WriteStatus, UpdateStatus, Finish, Continue
<1>6. ASSUME NEW p \in PR, status[p] \in {"merged", "closed"} PROVE status'[p] = status[p]
  BY <1>3, <1>6 DEF ActiveStatus
<1> QED
  BY <1>4, <1>5, <1>6, IdleKeepsRequests DEF SerialInv

\* What is one transaction finds no request in flight.
LEMMA OneShotKeepsRequests ==
  ASSUME OneAtATime, OneShot
  PROVE  /\ \A r \in Request : req[r] = Idle /\ req'[r] = Idle
         /\ InsertsWhereNoneIsActive' /\ WritesOverActive' /\ EvaluatesActive'
BY NobodyElse, IdleKeepsRequests DEF OneShot

\* Editing keeps a row active, or deletes it.
LEMMA EditKeepsSerial ==
  ASSUME OneAtATime, IInv, SerialInv, NEW u \in User, NEW s \in Project,
         \/ \E c \in Change : Stage(u, s, c) \/ UnstageChange(u, s, c)
         \/ DiscardWorkspace(u, s)
  PROVE  SerialInv' /\ \A p \in PR : status[p] \in {"merged", "closed"} => status'[p] = status[p]
<1>1. OneShot /\ UNCHANGED <<author, scope, base, history>>
  BY DEF Stage, UnstageChange, DiscardWorkspace
<1>2. \A p \in PR : status'[p] # status[p] => status[p] \in ActiveStatus
  BY DEF Stage, UnstageChange, DiscardWorkspace, ReopenIfApproved, ActiveStatus, IInv, TypeOK
<1>3. OneActivePRPerProject' /\ NoStaleProjectPR'
  BY <1>1, <1>2, RowsStay DEF SerialInv
<1>4. ASSUME NEW p \in PR, status[p] \in {"merged", "closed"} PROVE status'[p] = status[p]
  BY <1>2, <1>4 DEF ActiveStatus
<1> QED
  BY <1>1, <1>3, <1>4, OneShotKeepsRequests DEF SerialInv

\* A merge leaves no other active row in its scope.
LEMMA MergeKeepsSerial ==
  ASSUME OneAtATime, IInv, SerialInv, NEW u \in User, NEW m \in PR, Merge(u, m)
  PROVE  SerialInv' /\ \A p \in PR : status[p] \in {"merged", "closed"} => status'[p] = status[p]
<1>1. /\ OneShot /\ UNCHANGED <<author, scope, base>> /\ status[m] = "approved"
      /\ \A p \in PR : status'[p] = IF p = m THEN "merged"
                                    ELSE IF p \in AutoClosed(m) THEN "closed" ELSE status[p]
      /\ \A t \in Scope \ {scope[m]} : history'[t] = history[t]
  BY DEF Merge, Mergeable, IInv, TypeOK
<1>2. \A p \in PR : status'[p] \in ActiveStatus =>
                      status[p] \in ActiveStatus /\ scope[p] # scope[m]
  BY <1>1 DEF AutoClosed, ActiveStatus
<1>3. OneActivePRPerProject'
  BY <1>1, <1>2 DEF SerialInv, OneActivePRPerProject
<1>4. NoStaleProjectPR'
  BY <1>1, <1>2 DEF SerialInv, NoStaleProjectPR, LatestVersion, Scope
<1>5. ASSUME NEW p \in PR, status[p] \in {"merged", "closed"} PROVE status'[p] = status[p]
  BY <1>1, <1>5 DEF AutoClosed, ActiveStatus
<1> QED
  BY <1>1, <1>3, <1>4, <1>5, OneShotKeepsRequests DEF SerialInv

\* What leaves every pull request alone.
LEMMA RulesKeepSerial ==
  ASSUME OneAtATime, IInv, SerialInv,
         \/ \E g \in Group : AppendVersion(g)
         \/ \E s \in Scope, c \in Condition : UpdateApprovalCondition(s, c)
         \/ \E u \in User, ro \in Role : AssignUser(u, ro) \/ RemoveUser(u, ro)
  PROVE  SerialInv'
<1>1. OneShot /\ UNCHANGED <<status, author, scope, base>>
  BY DEF AppendVersion, UpdateApprovalCondition, AssignUser, RemoveUser, prVars
<1>2. \A s \in Project : history'[s] = history[s]
  BY ScopesOK DEF AppendVersion, UpdateApprovalCondition, AssignUser, RemoveUser, IInv,
                  TypeOK, Scope
<1>3. OneActivePRPerProject' /\ NoStaleProjectPR'
  BY <1>1, <1>2, RowsStay DEF SerialInv
<1> QED
  BY <1>1, <1>3, OneShotKeepsRequests DEF SerialInv

\* One step of the only request, and what it leaves as it is.
LEMMA NextSerialInv ==
  ASSUME OneAtATime, IInv, SerialInv, [Next]_vars
  PROVE  SerialInv' /\ \A p \in PR : status[p] \in {"merged", "closed"} => status'[p] = status[p]
<1> DEFINE Goal == SerialInv' /\ \A p \in PR : status[p] \in {"merged", "closed"} => status'[p] = status[p]
<1>1. ASSUME NEW r \in Request,
             \/ \E u \in User, s \in Project : GetActiveDraft(r, u, s)
             \/ \E u \in User, s \in Project, c \in Change : StageIntoNew(r, u, s, c)
             \/ \E u \in User, g \in Group, c \in Change : CreatePR(r, u, g, c)
             \/ \E u \in User, p \in PR : SubmitDraft(r, u, p)
             \/ \E p \in PR : Close(r, p)
             \/ \E u \in User, p \in PR : Approve(r, u, p)
             \/ RecordApproval(r)
             \/ \E u \in User, p \in PR : WithdrawApproval(r, u, p)
             \/ RereadPR(r) \/ LoadApprovalCondition(r) \/ LoadApprovals(r)
             \/ CheckApprovalConditionMet(r) \/ Disconnect(r)
      PROVE  Goal
  <2>1. status' = status
    BY <1>1 DEF GetActiveDraft, StageIntoNew, CreatePR, SubmitDraft, Close, Approve,
                RecordApproval, WithdrawApproval, RereadPR, LoadApprovalCondition,
                LoadApprovals, CheckApprovalConditionMet, Disconnect, prVars
  <2> QED
    BY <1>1, <2>1, LocalKeepsSerial
<1>2. ASSUME \/ \E g \in Group : AppendVersion(g)
             \/ \E s \in Scope, c \in Condition : UpdateApprovalCondition(s, c)
             \/ \E u \in User, ro \in Role : AssignUser(u, ro) \/ RemoveUser(u, ro)
      PROVE  Goal
  <2>1. status' = status
    BY <1>2 DEF AppendVersion, UpdateApprovalCondition, AssignUser, RemoveUser, prVars
  <2> QED
    BY <1>2, <2>1, RulesKeepSerial
<1>3. CASE UNCHANGED vars
  <2>1. /\ UNCHANGED <<status, author, scope, base, history, req>>
        /\ \A u, s : ActivePRs(u, s)' = ActivePRs(u, s)
    BY <1>3 DEF vars, prVars, ActivePRs
  <2> QED
    BY <2>1, RowsStay
       DEF SerialInv, InsertsWhereNoneIsActive, WritesOverActive, EvaluatesActive
<1> QED
  BY <1>1, <1>2, <1>3, InsertKeepsSerial, WriteKeepsSerial, EditKeepsSerial, MergeKeepsSerial
     DEF Next

\* As long as requests take turns, whatever they are and whenever clients go away,
\* what a request acts on is as it has read it: ...
THEOREM SerialInvariance == OneAtATime => (Spec => [](IInv /\ SerialInv))
<1> SUFFICES ASSUME OneAtATime PROVE Spec => [](IInv /\ SerialInv)
  OBVIOUS
<1>1. Init => SerialInv
  BY SerialInitInv
<1>2. IInv /\ SerialInv /\ [Next]_vars => SerialInv'
  BY NextSerialInv
<1> QED
  BY <1>1, <1>2, Invariance, PTL DEF Spec

\* ... a user has one active pull request per project, ...
THEOREM OneActiveInTurn == OneAtATime => (Spec => []OneActivePRPerProject)
<1>1. SerialInv => OneActivePRPerProject
  BY DEF SerialInv
<1> QED
  BY <1>1, SerialInvariance, PTL

\* ... none of a project's is of an older version, ...
THEOREM NoneStaleInTurn == OneAtATime => (Spec => []NoStaleProjectPR)
<1>1. SerialInv => NoStaleProjectPR
  BY DEF SerialInv
<1> QED
  BY <1>1, SerialInvariance, PTL

\* ... and what was merged or closed stays that way.
THEOREM TerminalInTurn == OneAtATime => (Spec => TerminalIsFinal)
<1> DEFINE Final == \A p \in PR : status[p] \in {"merged", "closed"} => status'[p] = status[p]
<1> SUFFICES ASSUME OneAtATime PROVE Spec => TerminalIsFinal
  OBVIOUS
<1>1. IInv /\ SerialInv /\ [Next]_vars => [Final]_vars
  BY NextSerialInv
<1> QED
  BY <1>1, SerialInvariance, PTL DEF Spec, TerminalIsFinal

\* Every version's pull request still says that it is merged.
THEOREM VersionsAreMergedInTurn == OneAtATime => (Spec => []VersionsAreMerged)
<1> SUFFICES ASSUME OneAtATime PROVE Spec => []VersionsAreMerged
  OBVIOUS
<1>1. Init => VersionsAreMerged
  BY DEF Init, VersionsAreMerged
<1>2. IInv /\ SerialInv /\ VersionsAreMerged /\ [Next]_vars => VersionsAreMerged'
  <2> SUFFICES ASSUME IInv, SerialInv, VersionsAreMerged, [Next]_vars, NEW s \in Scope,
                      NEW i \in DOMAIN history'[s], history'[s][i] # 0
               PROVE  status'[history'[s][i]] = "merged"
    BY DEF VersionsAreMerged
  <2>1. TypeOK /\ history[s] \in Seq(0 .. MaxPR)
    BY DEF IInv, TypeOK
  <2>2. \A p \in PR : status[p] = "merged" => status'[p] = "merged"
    BY NextSerialInv
  <2>3. ASSUME i \in DOMAIN history[s], history'[s][i] = history[s][i]
        PROVE  status'[history'[s][i]] = "merged"
    <3>1. history[s][i] \in PR
      BY <2>1, <2>3, BoundsAreNat DEF PR
    <3> QED
      BY <2>2, <2>3, <3>1 DEF VersionsAreMerged
  <2>4. CASE history'[s] = history[s]
    BY <2>3, <2>4
  <2>5. CASE history'[s] = Append(history[s], 0)
    BY <2>1, <2>3, <2>5
  <2>6. ASSUME NEW p \in PR, history'[s] = Append(history[s], p), status'[p] = "merged"
        PROVE  status'[history'[s][i]] = "merged"
    BY <2>1, <2>3, <2>6
  <2> QED
    BY <2>1, <2>4, <2>5, <2>6, VersionStep
<1> QED
  BY <1>1, <1>2, SerialInvariance, PTL DEF Spec

-----------------------------------------------------------------------------
(***************************************************************************)
(* Reviews, when the rules stay                                            *)
(*                                                                         *)
(* If, besides, conditions and roles are what they were and no client goes *)
(* away in the middle, what is approved meets its condition, and not by    *)
(* approvals of older content alone.  Everybody's approval counts at most  *)
(* once and nobody's approval is not enough, as validation demands of a    *)
(* condition (validateApprovalCondition).                                  *)
(***************************************************************************)
Meets(users) == ConditionMet(InitCondition, users, InitRoles)

FixedRules ==
  /\ Condition = {InitCondition}
  /\ Assignable = {}
  /\ ~MayDisconnect
  /\ IsFiniteSet(User)
  /\ ~Meets({})

RulesAreFixed ==
  /\ \A s \in Scope : condition[s] = InitCondition
  /\ roles = InitRoles

\* Whose approval is not of the content as it is.
StaleApprovers(p) == {a.user : a \in {b \in approvals[p] : b.content # changes[p]}}

EvaluationSteps == {"loadCondition", "loadApprovals", "check", "update"}

\* A request is about to look at the approvals of p.
Reconsiders(p) ==
  \E r \in Request : req[r].step \in EvaluationSteps \cup {"reread"} /\ req[r].pr = p

\* What a request has read of the pull request is still so.
ReadIsCurrent ==
  \A r \in Request :
    LET q == req[r]
    IN  /\ q.step \in {"record", "loadCondition", "loadApprovals", "check"} =>
             q.seen = status[q.pr]
        /\ q.step \in {"loadApprovals", "check"} => q.cond = InitCondition
        /\ q.step = "check" => q.approvers = Approvers(q.pr)
        /\ q.step = "update" =>
             q.to = IF Meets(Approvers(q.pr)) THEN "approved" ELSE "open"
        /\ q.step = "reread" => status[q.pr] # "open" \/ ~Meets(Approvers(q.pr))

StaleDoesNotMeet ==
  \A p \in PR : status[p] \in {"open", "approved"} => ~Meets(StaleApprovers(p))

OpenDoesNotMeet ==
  \A p \in PR : status[p] = "open" => ~Meets(Approvers(p)) \/ Reconsiders(p)

ApprovedMeets ==
  \A p \in PR : status[p] = "approved" => Meets(Approvers(p)) \/ Reconsiders(p)

ReviewInv ==
  /\ RulesAreFixed
  /\ ReadIsCurrent
  /\ StaleDoesNotMeet
  /\ OpenDoesNotMeet
  /\ ApprovedMeets

\* More approvers meet what fewer do.
LEMMA MeetsMonotone ==
  ASSUME IsFiniteSet(User), NEW more \in SUBSET User, NEW less \in SUBSET more, Meets(less)
  PROVE  Meets(more)
<1>1. ASSUME NEW ro PROVE CountApproversWithRole(less, InitRoles, ro)
                            <= CountApproversWithRole(more, InitRoles, ro)
  <2>1. /\ IsFiniteSet({u \in more : ro \in InitRoles[u]})
        /\ {u \in less : ro \in InitRoles[u]} \subseteq {u \in more : ro \in InitRoles[u]}
    BY FS_Subset
  <2> QED
    BY <2>1, FS_Subset DEF CountApproversWithRole
<1>2. ASSUME NEW ro, NEW users \in SUBSET User
      PROVE  CountApproversWithRole(users, InitRoles, ro) \in Nat
  BY <1>2, FS_Subset, FS_CardinalityType DEF CountApproversWithRole
<1>3. /\ InitCondition.reqs \in Seq(RoleRequirement(Role))
      /\ \A i \in DOMAIN InitCondition.reqs : InitCondition.reqs[i].count \in Nat
  <2>1. InitCondition \in [reqs : Seq(RoleRequirement(Role)), hasAND : BOOLEAN]
    BY ConditionsOK DEF ApprovalConditions
  <2>2. ASSUME NEW i \in DOMAIN InitCondition.reqs
        PROVE  InitCondition.reqs[i] \in RoleRequirement(Role)
    BY <2>1
  <2> QED
    BY <2>1, <2>2 DEF RoleRequirement
<1>4. \A i \in DOMAIN InitCondition.reqs :
        Satisfied(InitCondition.reqs[i], less, InitRoles)
          => Satisfied(InitCondition.reqs[i], more, InitRoles)
  BY <1>1, <1>2, <1>3 DEF Satisfied
<1> QED
  BY <1>4 DEF Meets, ConditionMet, RequirementsMet

LEMMA ApproversAreUsers ==
  ASSUME TypeOK, NEW p \in PR
  PROVE  Approvers(p) \in SUBSET User /\ StaleApprovers(p) \in SUBSET Approvers(p)
BY DEF TypeOK, Approvers, StaleApprovers

\* With nobody about to look, every status is as its approvals make it.
LEMMA SettledRows ==
  ASSUME OneAtATime, ReviewInv, NEW r \in Request,
         req[r].step \notin EvaluationSteps \cup {"reread"}
  PROVE  \A p \in PR : /\ status[p] = "open" => ~Meets(Approvers(p))
                       /\ status[p] = "approved" => Meets(Approvers(p))
BY DEF OneAtATime, ReviewInv, OpenDoesNotMeet, ApprovedMeets, Reconsiders

\* What a step may do to a row so that its status stays right.
Right(p) ==
  /\ status[p] = "open" => ~Meets(Approvers(p))
  /\ status[p] = "approved" => Meets(Approvers(p))
  /\ status[p] \in {"open", "approved"} => ~Meets(StaleApprovers(p))

\* A step after which no request is in flight and every status is right.
LEMMA RightAndIdle ==
  ASSUME RulesAreFixed', \A r \in Request : req'[r] = Idle, \A p \in PR : Right(p)'
  PROVE  ReviewInv'
<1>1. ReadIsCurrent'
  BY DEF ReadIsCurrent, Idle
<1> QED
  BY <1>1 DEF ReviewInv, StaleDoesNotMeet, OpenDoesNotMeet, ApprovedMeets, Right

\* A row whose approvals and changes stay is right if its status stays as well.
LEMMA RightStays ==
  ASSUME NEW p \in PR, Right(p), approvals'[p] = approvals[p], changes'[p] = changes[p],
         status'[p] = status[p] \/ status'[p] \notin {"open", "approved"}
  PROVE  Right(p)'
BY DEF Right, Approvers, StaleApprovers

LEMMA InitReviewInv == FixedRules /\ Init => ReviewInv
<1> SUFFICES ASSUME FixedRules, Init PROVE ReviewInv
  OBVIOUS
<1>1. RulesAreFixed /\ ReadIsCurrent
  BY DEF Init, RulesAreFixed, ReadIsCurrent, Idle
<1>2. \A p \in PR : status[p] \notin {"open", "approved"}
  BY DEF Init
<1> QED
  BY <1>1, <1>2 DEF ReviewInv, StaleDoesNotMeet, OpenDoesNotMeet, ApprovedMeets

\* Requests that arrive without writing anything.
LEMMA ArrivalKeepsReviews ==
  ASSUME OneAtATime, FixedRules, IInv, SerialInv, ReviewInv, NEW r \in Request,
         \/ \E u \in User, s \in Project : GetActiveDraft(r, u, s)
         \/ \E u \in User, s \in Project, c \in Change : StageIntoNew(r, u, s, c)
         \/ \E u \in User, g \in Group, c \in Change : CreatePR(r, u, g, c)
         \/ \E u \in User, p \in PR : SubmitDraft(r, u, p)
         \/ \E p \in PR : Close(r, p)
         \/ \E u \in User, p \in PR : Approve(r, u, p)
  PROVE  ReviewInv'
<1>1. /\ UNCHANGED <<status, changes, approvals, condition, roles>>
      /\ req[r] = Idle /\ req' = [req EXCEPT ![r] = req'[r]]
      /\ req'[r].step \in {"insert", "write", "record"}
      /\ req'[r].step = "record" => req'[r].seen = status[req'[r].pr]
  BY DEF GetActiveDraft, StageIntoNew, CreatePR, SubmitDraft, Close, Approve, Begin, prVars,
         IInv, TypeOK
<1>2. \A q \in Request : q = r
  BY DEF OneAtATime
<1>3. \A p \in PR : /\ status[p] = "open" => ~Meets(Approvers(p))
                    /\ status[p] = "approved" => Meets(Approvers(p))
  BY <1>1, SettledRows DEF Idle, EvaluationSteps
<1>4. ReadIsCurrent'
  BY <1>1, <1>2 DEF ReadIsCurrent
<1> QED
  BY <1>1, <1>3, <1>4
     DEF ReviewInv, RulesAreFixed, StaleDoesNotMeet, StaleApprovers, OpenDoesNotMeet,
         ApprovedMeets, Approvers

\* An approval is of the content as it is. It can only add to the approvers.
LEMMA RecordKeepsReviews ==
  ASSUME OneAtATime, FixedRules, IInv, SerialInv, ReviewInv, NEW r \in Request,
         RecordApproval(r)
  PROVE  ReviewInv'
<1>0. PICK p : p = req[r].pr
  OBVIOUS
<1> DEFINE u == req[r].user
<1>1. /\ req[r].step = "record" /\ p \in PR /\ u \in User /\ req[r].seen = status[p]
      /\ status[p] \in {"open", "approved"} /\ Exists(p)
  BY <1>0, LocalStateByStep
     DEF RecordApproval, ReviewInv, ReadIsCurrent, SerialInv, EvaluatesActive, IInv, TypeOK,
         Exists, Status, ActiveStatus
<1>2. /\ UNCHANGED <<status, changes, condition, roles>>
      /\ \A q \in PR \ {p} : approvals'[q] = approvals[q]
      /\ approvals'[p] = {a \in approvals[p] : a.user # u}
                           \cup {[user |-> u, content |-> changes[p]]}
  BY <1>0, <1>1 DEF RecordApproval, prVars, IInv, TypeOK
<1>3. Approvers(p)' = Approvers(p) \cup {u} /\ StaleApprovers(p)' \subseteq StaleApprovers(p)
  <2> DEFINE new == [user |-> u, content |-> changes[p]]
  <2>1. /\ new.user = u /\ new.content = changes[p] /\ changes'[p] = changes[p]
        /\ \A a : a \in approvals'[p] <=> (a \in approvals[p] /\ a.user # u) \/ a = new
    BY <1>2
  <2> HIDE DEF new, u
  <2>2. \A v : v \in Approvers(p)' <=> v \in Approvers(p) \/ v = u
    BY <2>1 DEF Approvers
  <2>3. \A v : v \in StaleApprovers(p)' => v \in StaleApprovers(p)
    BY <2>1 DEF StaleApprovers
  <2> QED
    BY <2>2, <2>3
<1>4. \A q \in Request : q = r
  BY DEF OneAtATime
<1>5. \A q \in PR : /\ status[q] = "open" => ~Meets(Approvers(q))
                    /\ status[q] = "approved" => Meets(Approvers(q))
  BY <1>1, SettledRows DEF EvaluationSteps
<1>6. Meets(Approvers(p)) => Meets(Approvers(p)')
  BY <1>1, <1>3, MeetsMonotone, ApproversAreUsers DEF FixedRules, IInv
<1>7. Meets(StaleApprovers(p)') => Meets(StaleApprovers(p))
  BY <1>1, <1>3, MeetsMonotone, ApproversAreUsers DEF FixedRules, IInv
<1>8. \A q \in PR \ {p} : /\ Approvers(q)' = Approvers(q)
                          /\ StaleApprovers(q)' = StaleApprovers(q)
  BY <1>2 DEF Approvers, StaleApprovers
<1>9. /\ status[p] = "open" => req'[r] = [step |-> "loadCondition", pr |-> p, seen |-> "open"]
      /\ status[p] = "approved" => req'[r] = Idle
  BY <1>0, <1>1 DEF RecordApproval, Continue, Finish, IInv, TypeOK
<1>10. ReadIsCurrent'
  BY <1>1, <1>2, <1>4, <1>9 DEF ReadIsCurrent, Idle
<1>11. status[p] = "open" => Reconsiders(p)'
  BY <1>1, <1>9 DEF Reconsiders, EvaluationSteps
<1>12. StaleDoesNotMeet'
  BY <1>1, <1>2, <1>7, <1>8 DEF ReviewInv, StaleDoesNotMeet
<1>13. OpenDoesNotMeet' /\ ApprovedMeets'
  BY <1>1, <1>2, <1>5, <1>6, <1>8, <1>11 DEF OpenDoesNotMeet, ApprovedMeets
<1> QED
  BY <1>2, <1>10, <1>12, <1>13 DEF ReviewInv, RulesAreFixed

\* A withdrawn approval takes one user from the approvers.
LEMMA WithdrawKeepsReviews ==
  ASSUME OneAtATime, FixedRules, IInv, SerialInv, ReviewInv, NEW r \in Request,
         NEW u \in User, NEW p \in PR, WithdrawApproval(r, u, p)
  PROVE  ReviewInv'
<1>1. /\ UNCHANGED <<status, changes, condition, roles>>
      /\ req[r] = Idle /\ req'[r] = [step |-> "reread", pr |-> p]
      /\ \A q \in PR \ {p} : approvals'[q] = approvals[q]
      /\ approvals'[p] = {a \in approvals[p] : a.user # u}
  BY DEF WithdrawApproval, Begin, prVars, IInv, TypeOK
<1>2. /\ Approvers(p)' \subseteq Approvers(p)
      /\ StaleApprovers(p)' \subseteq StaleApprovers(p)
      /\ \A q \in PR \ {p} : /\ Approvers(q)' = Approvers(q)
                             /\ StaleApprovers(q)' = StaleApprovers(q)
  BY <1>1 DEF Approvers, StaleApprovers
<1>3. \A q \in Request : q = r
  BY DEF OneAtATime
<1>4. \A q \in PR : /\ status[q] = "open" => ~Meets(Approvers(q))
                    /\ status[q] = "approved" => Meets(Approvers(q))
  BY <1>1, SettledRows DEF Idle, EvaluationSteps
<1>5. /\ Meets(Approvers(p)') => Meets(Approvers(p))
      /\ Meets(StaleApprovers(p)') => Meets(StaleApprovers(p))
  BY <1>2, MeetsMonotone, ApproversAreUsers DEF FixedRules, IInv
<1>6. Reconsiders(p)'
  BY <1>1 DEF Reconsiders, EvaluationSteps
<1>7. ReadIsCurrent'
  BY <1>1, <1>3, <1>4, <1>5 DEF ReadIsCurrent
<1>8. StaleDoesNotMeet'
  BY <1>1, <1>2, <1>5 DEF ReviewInv, StaleDoesNotMeet
<1>9. OpenDoesNotMeet' /\ ApprovedMeets'
  BY <1>1, <1>2, <1>4, <1>6 DEF OpenDoesNotMeet, ApprovedMeets
<1> QED
  BY <1>1, <1>7, <1>8, <1>9 DEF ReviewInv, RulesAreFixed

\* A request that reads on, and comes to the conclusion the approvals allow.
LEMMA EvaluationKeepsReviews ==
  ASSUME OneAtATime, FixedRules, IInv, SerialInv, ReviewInv, NEW r \in Request,
         \/ RereadPR(r) \/ LoadApprovalCondition(r) \/ LoadApprovals(r)
         \/ CheckApprovalConditionMet(r)
  PROVE  ReviewInv'
<1>0. PICK p : p = req[r].pr
  OBVIOUS
<1>1. /\ UNCHANGED <<status, scope, changes, approvals, condition, roles>>
      /\ p \in PR /\ req \in [Request -> LocalState] /\ scope[p] \in Scope
  BY <1>0, LocalStateByStep
     DEF RereadPR, LoadApprovalCondition, LoadApprovals, CheckApprovalConditionMet, prVars,
         IInv, TypeOK
<1>2. \A q \in Request : q = r
  BY DEF OneAtATime
<1>3. /\ condition[scope[p]] = InitCondition /\ roles = InitRoles
      /\ \A q : Approvers(q)' = Approvers(q) /\ StaleApprovers(q)' = StaleApprovers(q)
  BY <1>1 DEF ReviewInv, RulesAreFixed, Approvers, StaleApprovers
<1> DEFINE Goes ==
      \/ /\ req'[r].step \in EvaluationSteps /\ req'[r].pr = p
         /\ req'[r].step # "update" => req'[r].seen = status[p]
         /\ req'[r].step \in {"loadApprovals", "check"} => req'[r].cond = InitCondition
         /\ req'[r].step = "check" => req'[r].approvers = Approvers(p)
         /\ req'[r].step = "update" =>
              req'[r].to = IF Meets(Approvers(p)) THEN "approved" ELSE "open"
      \/ /\ req'[r] = Idle
         /\ status[p] = "open" => ~Meets(Approvers(p))
         /\ status[p] = "approved" => Meets(Approvers(p))
<1>4. Goes
  <2>1. CASE RereadPR(r)
    BY <1>0, <1>1, <2>1 DEF RereadPR, Continue, Finish, ReviewInv, ReadIsCurrent, EvaluationSteps
  <2>2. CASE LoadApprovalCondition(r)
    BY <1>0, <1>1, <1>3, <2>2 DEF LoadApprovalCondition, Continue, ReviewInv, ReadIsCurrent,
                            EvaluationSteps
  <2>3. CASE LoadApprovals(r)
    BY <1>0, <1>1, <2>3 DEF LoadApprovals, Continue, ReviewInv, ReadIsCurrent, EvaluationSteps
  <2>4. CASE CheckApprovalConditionMet(r)
    <3>1. /\ req[r].step = "check" /\ req[r].seen = status[p]
          /\ req[r].cond = InitCondition /\ req[r].approvers = Approvers(p)
      BY <1>0, <2>4 DEF CheckApprovalConditionMet, ReviewInv, ReadIsCurrent
    <3>2. ConditionMet(req[r].cond, req[r].approvers, roles) = Meets(Approvers(p))
      BY <1>3, <3>1 DEF Meets
    <3>3. status[p] \in {"open", "approved"}
      BY <1>0, <3>1 DEF SerialInv, EvaluatesActive
    <3> QED
      BY <1>0, <1>1, <2>4, <3>1, <3>2, <3>3
         DEF CheckApprovalConditionMet, Continue, Finish, EvaluationSteps
  <2> QED
    BY <2>1, <2>2, <2>3, <2>4
<1>5. \/ Reconsiders(p)'
      \/ /\ status[p] = "open" => ~Meets(Approvers(p))
         /\ status[p] = "approved" => Meets(Approvers(p))
  BY <1>4 DEF Reconsiders
<1>6. \A q \in PR \ {p} : ~Reconsiders(q)
  BY <1>0, <1>2 DEF Reconsiders
<1>7. ReadIsCurrent'
  BY <1>0, <1>1, <1>2, <1>3, <1>4 DEF ReadIsCurrent, Idle, EvaluationSteps
<1>8. StaleDoesNotMeet'
  BY <1>1, <1>3 DEF ReviewInv, StaleDoesNotMeet
<1>9. OpenDoesNotMeet' /\ ApprovedMeets'
  BY <1>1, <1>3, <1>5, <1>6 DEF ReviewInv, OpenDoesNotMeet, ApprovedMeets
<1> QED
  BY <1>1, <1>7, <1>8, <1>9 DEF ReviewInv, RulesAreFixed

\* Without a request about to look, every status is right.
LEMMA SettledIsRight ==
  ASSUME OneAtATime, ReviewInv, NEW r \in Request,
         req[r].step \notin EvaluationSteps \cup {"reread"}
  PROVE  \A p \in PR : Right(p)
BY SettledRows DEF ReviewInv, StaleDoesNotMeet, Right

\* A row without an approval is right unless it is approved.
LEMMA UnreviewedIsRight ==
  ASSUME FixedRules, NEW p \in PR, approvals'[p] = {}, status'[p] # "approved"
  PROVE  Right(p)'
<1>1. Approvers(p)' = {} /\ StaleApprovers(p)' = {}
  BY DEF Approvers, StaleApprovers
<1> QED
  BY <1>1 DEF Right, FixedRules

LEMMA InsertKeepsReviews ==
  ASSUME OneAtATime, FixedRules, IInv, SerialInv, ReviewInv, NEW r \in Request, InsertPR(r)
  PROVE  ReviewInv'
<1>0. PICK p : p = lastPR + 1
  OBVIOUS
<1>1. /\ p \in PR /\ UNCHANGED <<approvals, condition, roles>>
      /\ status'[p] \in {"open", "draft"}
      /\ \A q \in PR \ {p} : status'[q] = status[q] /\ changes'[q] = changes[q]
      /\ req[r].step = "insert" /\ req'[r] = Idle
  BY <1>0 DEF InsertPR, InsertRow, Finish, Continue, IInv, TypeOK
<1>2. approvals[p] = {}
  BY <1>0, <1>1 DEF IInv, IdsInOrder, UnsubmittedIsUnapproved, Unsubmitted, TypeOK, PR
<1>3. \A q \in PR : Right(q)
  BY <1>1, SettledIsRight DEF EvaluationSteps
<1>4. ASSUME NEW q \in PR PROVE Right(q)'
  <2>1. CASE q = p
    BY <1>1, <1>2, <2>1, UnreviewedIsRight
  <2>2. CASE q # p
    BY <1>1, <1>3, <2>2, RightStays
  <2> QED
    BY <2>1, <2>2
<1> QED
  BY <1>1, <1>4, RightAndIdle DEF OneAtATime, ReviewInv, RulesAreFixed

\* What is submitted has no approvals yet, and what is closed needs none.
LEMMA WriteKeepsReviews ==
  ASSUME OneAtATime, FixedRules, IInv, SerialInv, ReviewInv, NEW r \in Request, WriteStatus(r)
  PROVE  ReviewInv'
<1>0. PICK p : p = req[r].pr
  OBVIOUS
<1>1. /\ UNCHANGED <<approvals, changes, condition, roles>>
      /\ req[r].step = "write" /\ p \in PR /\ req[r].to \in {"open", "closed"}
      /\ status[p] \in ActiveStatus /\ (req[r].to = "open" => status[p] = "draft")
  BY <1>0, LocalStateByStep DEF WriteStatus, SerialInv, WritesOverActive, IInv, TypeOK
<1>2. status' = [status EXCEPT ![p] = req[r].to] /\ req'[r] = Idle
  BY <1>0, <1>1 DEF WriteStatus, SetStatus, Exists, Status, Finish, Continue, IInv, TypeOK
<1>3. \A q \in PR : Right(q)
  BY <1>1, SettledIsRight DEF EvaluationSteps
<1>4. ASSUME NEW q \in PR PROVE Right(q)'
  <2>1. CASE q = p /\ req[r].to = "open"
    <3>1. approvals'[p] = {} /\ status'[p] = "open"
      BY <1>1, <1>2, <2>1 DEF IInv, TypeOK, UnsubmittedIsUnapproved, Unsubmitted
    <3> QED
      BY <2>1, <3>1, UnreviewedIsRight
  <2>2. CASE q = p /\ req[r].to = "closed"
    BY <1>1, <1>2, <1>3, <2>2, RightStays DEF IInv, TypeOK
  <2>3. CASE q # p
    BY <1>1, <1>2, <1>3, <2>3, RightStays DEF IInv, TypeOK
  <2> QED
    BY <1>1, <2>1, <2>2, <2>3
<1> QED
  BY <1>1, <1>2, <1>4, RightAndIdle DEF OneAtATime, ReviewInv, RulesAreFixed

\* The status a request writes is the one its row's approvals make.
LEMMA UpdateKeepsReviews ==
  ASSUME OneAtATime, FixedRules, IInv, SerialInv, ReviewInv, NEW r \in Request, UpdateStatus(r)
  PROVE  ReviewInv'
<1>0. PICK p : p = req[r].pr
  OBVIOUS
<1>1. /\ UNCHANGED <<approvals, changes, condition, roles>>
      /\ req[r].step = "update" /\ p \in PR /\ status[p] \in {"open", "approved"}
      /\ req[r].to = IF Meets(Approvers(p)) THEN "approved" ELSE "open"
  BY <1>0, LocalStateByStep
     DEF UpdateStatus, SerialInv, EvaluatesActive, ReviewInv, ReadIsCurrent, IInv, TypeOK
<1>2. status' = [status EXCEPT ![p] = req[r].to] /\ req'[r] = Idle
  BY <1>0, <1>1
     DEF UpdateStatus, SetStatus, Exists, Status, ActiveStatus, Finish, Continue, IInv, TypeOK
<1>3. \A q \in PR : Approvers(q)' = Approvers(q) /\ StaleApprovers(q)' = StaleApprovers(q)
  BY <1>1 DEF Approvers, StaleApprovers
<1>4. \A q \in PR \ {p} : ~Reconsiders(q)
  BY <1>0 DEF OneAtATime, Reconsiders
<1>5. ASSUME NEW q \in PR PROVE Right(q)'
  <2>1. CASE q = p
    BY <1>1, <1>2, <1>3, <2>1 DEF Right, ReviewInv, StaleDoesNotMeet, IInv, TypeOK
  <2>2. CASE q # p
    <3>1. Right(q)
      BY <1>4, <2>2 DEF Right, ReviewInv, StaleDoesNotMeet, OpenDoesNotMeet, ApprovedMeets
    <3> QED
      BY <1>1, <1>2, <2>2, <3>1, RightStays DEF IInv, TypeOK
  <2> QED
    BY <2>1, <2>2
<1> QED
  BY <1>1, <1>2, <1>5, RightAndIdle DEF OneAtATime, ReviewInv, RulesAreFixed

\* An approved row that is edited loses its approvals; what an open row has did not
\* suffice before, and no more of it counts after.
LEMMA EditKeepsReviews ==
  ASSUME OneAtATime, FixedRules, IInv, SerialInv, ReviewInv, NEW u \in User, NEW s \in Project,
         \/ \E c \in Change : Stage(u, s, c) \/ UnstageChange(u, s, c)
         \/ DiscardWorkspace(u, s)
  PROVE  ReviewInv'
<1>1. OneShot /\ UNCHANGED <<condition, roles>>
  BY DEF Stage, UnstageChange, DiscardWorkspace
<1>2. PICK p \in PR :
        /\ \/ ReopenIfApproved(p)
           \/ status'[p] = "deleted" /\ \A q \in PR \ {p} : UNCHANGED <<status[q], approvals[q]>>
        /\ \A q \in PR \ {p} : changes'[q] = changes[q]
  BY DEF Stage, UnstageChange, DiscardWorkspace, IInv, TypeOK
<1>3. \A r \in Request : req[r] = Idle /\ req'[r] = Idle
  BY <1>1, OneShotKeepsRequests
<1>4. \A q \in PR : Right(q)
  BY <1>1, <1>3, SettledIsRight DEF OneShot, Idle, EvaluationSteps
<1>5. ASSUME NEW q \in PR, q # p PROVE Right(q)'
  <2>1. status'[q] = status[q] /\ approvals'[q] = approvals[q]
    BY <1>2, <1>5 DEF ReopenIfApproved, IInv, TypeOK
  <2> QED
    BY <1>2, <1>4, <1>5, <2>1, RightStays
<1>6. Right(p)'
  <2>1. CASE status'[p] = "deleted"
    BY <2>1 DEF Right
  <2>2. CASE ReopenIfApproved(p) /\ status[p] = "approved"
    <3>1. approvals'[p] = {} /\ status'[p] = "open"
      BY <2>2 DEF ReopenIfApproved, IInv, TypeOK
    <3> QED
      BY <3>1, UnreviewedIsRight
  <2>3. CASE ReopenIfApproved(p) /\ status[p] # "approved"
    <3>1. UNCHANGED <<approvals, status>>
      BY <2>3 DEF ReopenIfApproved
    <3>2. Approvers(p)' = Approvers(p) /\ StaleApprovers(p)' \subseteq Approvers(p)
      BY <3>1 DEF Approvers, StaleApprovers
    <3>3. status[p] = "open" => ~Meets(Approvers(p))
      BY <1>4 DEF Right
    <3>4. status[p] = "open" => ~Meets(StaleApprovers(p)')
      BY <3>2, <3>3, MeetsMonotone, ApproversAreUsers DEF FixedRules, IInv
    <3> QED
      BY <2>3, <3>1, <3>2, <3>3, <3>4 DEF Right
  <2> QED
    BY <1>2, <2>1, <2>2, <2>3
<1> QED
  BY <1>1, <1>3, <1>5, <1>6, RightAndIdle DEF ReviewInv, RulesAreFixed

\* A merge approves nothing and opens nothing.
LEMMA MergeKeepsReviews ==
  ASSUME OneAtATime, FixedRules, IInv, SerialInv, ReviewInv, NEW u \in User, NEW m \in PR,
         Merge(u, m)
  PROVE  ReviewInv'
<1>1. /\ OneShot /\ UNCHANGED <<approvals, changes, condition, roles>>
      /\ \A p \in PR : status'[p] = status[p] \/ status'[p] \in {"merged", "closed"}
  BY DEF Merge
<1>2. \A r \in Request : req[r] = Idle /\ req'[r] = Idle
  BY <1>1, OneShotKeepsRequests
<1>3. \A q \in PR : Right(q)
  BY <1>1, <1>2, SettledIsRight DEF OneShot, Idle, EvaluationSteps
<1>4. \A q \in PR : Right(q)'
  BY <1>1, <1>3, RightStays
<1> QED
  BY <1>1, <1>2, <1>4, RightAndIdle DEF ReviewInv, RulesAreFixed

\* Nothing the reviews depend on changes.
LEMMA SameReviews ==
  ASSUME ReviewInv, UNCHANGED <<status, changes, approvals, condition, roles, req>>
  PROVE  ReviewInv'
<1>1. /\ \A p : /\ Approvers(p)' = Approvers(p) /\ StaleApprovers(p)' = StaleApprovers(p)
                /\ Reconsiders(p)' = Reconsiders(p)
      /\ RulesAreFixed'
  BY DEF Approvers, StaleApprovers, Reconsiders, ReviewInv, RulesAreFixed
<1>2. ReadIsCurrent'
  BY <1>1 DEF ReviewInv, ReadIsCurrent
<1> QED
  BY <1>1, <1>2 DEF ReviewInv, StaleDoesNotMeet, OpenDoesNotMeet, ApprovedMeets

\* With fixed rules, neither the rules nor a client that goes away interferes.
LEMMA RulesStayFixed ==
  ASSUME FixedRules, ReviewInv
  PROVE  /\ ~ \E s \in Scope, c \in Condition : UpdateApprovalCondition(s, c)
         /\ ~ \E u \in User, ro \in Role : AssignUser(u, ro) \/ RemoveUser(u, ro)
         /\ ~ \E r \in Request : Disconnect(r)
BY DEF FixedRules, ReviewInv, RulesAreFixed, UpdateApprovalCondition, AssignUser, RemoveUser,
       Disconnect

LEMMA NextReviewInv ==
  ASSUME OneAtATime, FixedRules, IInv, SerialInv, ReviewInv, [Next]_vars
  PROVE  ReviewInv'
<1>1. ASSUME NEW r \in Request,
             \/ \E u \in User, s \in Project : GetActiveDraft(r, u, s)
             \/ \E u \in User, s \in Project, c \in Change : StageIntoNew(r, u, s, c)
             \/ \E u \in User, g \in Group, c \in Change : CreatePR(r, u, g, c)
             \/ \E u \in User, p \in PR : SubmitDraft(r, u, p)
             \/ \E p \in PR : Close(r, p)
             \/ \E u \in User, p \in PR : Approve(r, u, p)
      PROVE  ReviewInv'
  BY <1>1, ArrivalKeepsReviews
<1>2. ASSUME NEW r \in Request,
             \/ RereadPR(r) \/ LoadApprovalCondition(r) \/ LoadApprovals(r)
             \/ CheckApprovalConditionMet(r)
      PROVE  ReviewInv'
  BY <1>2, EvaluationKeepsReviews
<1>3. ASSUME NEW u \in User, NEW s \in Project,
             \/ \E c \in Change : Stage(u, s, c) \/ UnstageChange(u, s, c)
             \/ DiscardWorkspace(u, s)
      PROVE  ReviewInv'
  BY <1>3, EditKeepsReviews
<1>4. ASSUME NEW g \in Group, AppendVersion(g) PROVE ReviewInv'
  BY <1>4, SameReviews DEF AppendVersion, OneShot, prVars
<1>5. CASE UNCHANGED vars
  BY <1>5, SameReviews DEF vars, prVars
<1> QED
  BY <1>1, <1>2, <1>3, <1>4, <1>5, InsertKeepsReviews, WriteKeepsReviews, RecordKeepsReviews,
     WithdrawKeepsReviews, UpdateKeepsReviews, MergeKeepsReviews, RulesStayFixed
     DEF Next

\* The invariant of reviews: statuses are as the approvals make them, except where a
\* request is about to see to it.
THEOREM ReviewInvariance ==
  OneAtATime /\ FixedRules => (Spec => [](IInv /\ SerialInv /\ ReviewInv))
<1> SUFFICES ASSUME OneAtATime, FixedRules PROVE Spec => [](IInv /\ SerialInv /\ ReviewInv)
  OBVIOUS
<1>1. Init => ReviewInv
  BY InitReviewInv
<1>2. IInv /\ SerialInv /\ ReviewInv /\ [Next]_vars => ReviewInv'
  BY NextReviewInv
<1> QED
  BY <1>1, <1>2, SerialInvariance, PTL DEF Spec

\* Between two requests, what is approved satisfies its approval condition.
THEOREM ApprovedIsMetInTurn == OneAtATime /\ FixedRules => (Spec => []ApprovedIsMet)
<1> SUFFICES ASSUME OneAtATime, FixedRules PROVE Spec => []ApprovedIsMet
  OBVIOUS
<1>1. IInv /\ ReviewInv => ApprovedIsMet
  <2> SUFFICES ASSUME IInv, ReviewInv, Quiescent, NEW p \in PR, status[p] = "approved"
               PROVE  ConditionMet(condition[scope[p]], Approvers(p), roles)
    BY DEF ApprovedIsMet
  <2>1. ~Reconsiders(p)
    BY DEF Reconsiders, Quiescent, Idle, EvaluationSteps
  <2>2. condition[scope[p]] = InitCondition /\ roles = InitRoles
    BY DEF ReviewInv, RulesAreFixed, IInv, TypeOK
  <2> QED
    BY <2>1, <2>2 DEF ReviewInv, ApprovedMeets, Meets
<1> QED
  BY <1>1, ReviewInvariance, PTL

\* Between two requests, what is still open does not satisfy its approval condition.
THEOREM OpenIsNotMetInTurn == OneAtATime /\ FixedRules => (Spec => []OpenIsNotMet)
<1> SUFFICES ASSUME OneAtATime, FixedRules PROVE Spec => []OpenIsNotMet
  OBVIOUS
<1>1. IInv /\ ReviewInv => OpenIsNotMet
  <2> SUFFICES ASSUME IInv, ReviewInv, Quiescent, NEW p \in PR, status[p] = "open"
               PROVE  ~ConditionMet(condition[scope[p]], Approvers(p), roles)
    BY DEF OpenIsNotMet
  <2>1. ~Reconsiders(p)
    BY DEF Reconsiders, Quiescent, Idle, EvaluationSteps
  <2>2. condition[scope[p]] = InitCondition /\ roles = InitRoles
    BY DEF ReviewInv, RulesAreFixed, IInv, TypeOK
  <2> QED
    BY <2>1, <2>2 DEF ReviewInv, OpenDoesNotMeet, Meets
<1> QED
  BY <1>1, ReviewInvariance, PTL

\* Between two requests, what is approved was approved by somebody as it is now.
THEOREM ApprovedWasReviewedInTurn ==
  OneAtATime /\ FixedRules => (Spec => []ApprovedWasReviewed)
<1> SUFFICES ASSUME OneAtATime, FixedRules PROVE Spec => []ApprovedWasReviewed
  OBVIOUS
<1>1. ReviewInv => ApprovedWasReviewed
  <2> SUFFICES ASSUME ReviewInv, Quiescent, NEW p \in PR, status[p] = "approved",
                      \A a \in approvals[p] : a.content # changes[p]
               PROVE  FALSE
    BY DEF ApprovedWasReviewed
  <2>1. ~Reconsiders(p)
    BY DEF Reconsiders, Quiescent, Idle, EvaluationSteps
  <2>2. StaleApprovers(p) = Approvers(p)
    <3>1. {b \in approvals[p] : b.content # changes[p]} = approvals[p]
      OBVIOUS
    <3> QED
      BY <3>1 DEF StaleApprovers, Approvers
  <2> QED
    BY <2>1, <2>2 DEF ReviewInv, ApprovedMeets, StaleDoesNotMeet
<1> QED
  BY <1>1, ReviewInvariance, PTL
=============================================================================
