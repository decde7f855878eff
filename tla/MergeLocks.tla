----------------------------- MODULE MergeLocks -----------------------------
(***************************************************************************)
(* The transaction of PullRequestHandler.Merge, statement by statement,    *)
(* within one project or Global Values group, next to the transactions     *)
(* that edit a pull request, the single UPDATEs that change a status, and  *)
(* GlobalValuesHandler.AppendVersion.                                      *)
(*                                                                         *)
(* PostgreSQL at READ COMMITTED gives each statement a fresh snapshot.  A  *)
(* statement that needs a locked row waits for the transaction that holds  *)
(* it and then looks again at that row only: at its new status, but not at *)
(* rows inserted meanwhile.  Locks are held until the transaction ends.    *)
(* A cycle of waiting transactions is broken by aborting one of them.      *)
(***************************************************************************)
EXTENDS Naturals, Sequences, FiniteSets

CONSTANTS
  PR,            \* ids of the pull requests of this scope
  Tx,            \* slots for transactions that run at the same time
  MaxVersions    \* bound on the versions ever made

ASSUME PRsAreIds == PR \subseteq Nat \ {0}
ASSUME MaxVersionsIsNat == MaxVersions \in Nat

VARIABLES
  kind,      \* whether the scope is a "project" or a "group"
  status,    \* pull_requests.status, as committed
  base,      \* base_group_version_id, as the number of that version
  history,   \* the committed versions, each named by the PR it merged (0: none)
  tx         \* the transactions: their next statement and what they hold

committed == <<kind, status, base, history>>
vars == <<committed, tx>>

ActiveStatus == {"draft", "open", "approved"}
RowStatus == ActiveStatus \cup {"merged", "closed", "none", "deleted"}

(***************************************************************************)
(* A transaction.  pr is the pull request it is about (0: an append), to   *)
(* the status it will write, head the version it found to be the latest,   *)
(* todo the siblings its closing UPDATE has still to visit, and closing    *)
(* those it has locked and closed, invisibly to the others until commit.   *)
(***************************************************************************)
MergeStep == {"row", "head", "take", "read", "insert", "seal", "close"}
Step == {"idle", "write", "edit", "editing"} \cup MergeStep
Transaction ==
  [step : Step, pr : PR \cup {0}, to : {"open", "approved", "closed"}, head : Nat,
   todo : SUBSET PR, closing : SUBSET PR]
Idle == [step |-> "idle", pr |-> 0, to |-> "open", head |-> 0,
         todo |-> {}, closing |-> {}]

TypeOK ==
  /\ kind \in {"project", "group"}
  /\ status \in [PR -> RowStatus]
  /\ base \in [PR -> Nat]
  /\ history \in Seq(PR \cup {0})
  /\ tx \in [Tx -> Transaction]

Init ==
  /\ kind \in {"project", "group"}
  /\ status = [p \in PR |-> "none"]
  /\ base = [p \in PR |-> 0]
  /\ history = IF kind = "group" THEN <<0>> ELSE <<>>
  /\ tx = [t \in Tx |-> Idle]

-----------------------------------------------------------------------------
(***************************************************************************)
(* Locks                                                                   *)
(***************************************************************************)
\* The rows of pull_requests a transaction has locked (an append has none).
RowLocks(t) ==
  tx[t].closing \cup
    IF tx[t].step \in {"head", "take", "read", "insert", "seal", "close", "editing"}
    THEN {tx[t].pr} \ {0} ELSE {}

\* Whether it has locked the group's row, and which version row of a project.
HoldsGroup(t) ==
  kind = "group" /\ tx[t].step \in {"read", "insert", "seal", "close"}
HoldsVersion(t, v) ==
  kind = "project" /\ tx[t].step \in {"insert", "seal", "close"} /\ tx[t].head = v

\* The version number it has inserted and not yet committed.
HasInserted(t, v) == tx[t].step \in {"seal", "close"} /\ tx[t].head + 1 = v

Others(t) == Tx \ {t}

\* The transactions whose end t's next statement has to wait for.
WaitsFor(t) ==
  {o \in Others(t) :
    \/ tx[t].step \in {"write", "edit", "row"} /\ tx[t].pr \in RowLocks(o)
    \/ tx[t].step = "head" /\ kind = "group" /\ HoldsGroup(o)
    \/ tx[t].step = "take" /\ tx[t].head > 0 /\ HoldsVersion(o, tx[t].head)
    \/ tx[t].step = "insert" /\ HasInserted(o, tx[t].head + 1)
    \/ tx[t].step = "close" /\ tx[t].todo \cap RowLocks(o) # {}}

\* t waits, directly or through others, for itself.
Deadlocked(t) ==
  \E n \in 1 .. Cardinality(Tx) : \E c \in [1 .. n -> Tx] :
    c[1] = t /\ \A i \in 1 .. n : c[(i % n) + 1] \in WaitsFor(c[i])

Becomes(t, local) == tx' = [tx EXCEPT ![t] = local]
Moves(t, step) == Becomes(t, [tx[t] EXCEPT !.step = step])
Ends(t) == Becomes(t, Idle)

\* Nobody holds what t's next statement needs.
Free(t) == WaitsFor(t) = {}

-----------------------------------------------------------------------------
(***************************************************************************)
(* Creating and changing pull requests                                     *)
(***************************************************************************)
\* Create, GetActiveDraft and a staging into a new draft insert one row.  The
\* base of a group's pull request was read by an earlier statement, so it may
\* be an old version by now.
Insert(p) ==
  /\ status[p] = "none"
  /\ status' = [status EXCEPT ![p] = IF kind = "group" THEN "open" ELSE "draft"]
  /\ \E b \in IF kind = "group" THEN 1 .. Len(history) ELSE {0} :
       base' = [base EXCEPT ![p] = b]
  /\ UNCHANGED <<kind, history, tx>>

\* Close, SubmitDraft, Approve and WithdrawApproval decide on a status read
\* without a lock, and then write another with one UPDATE by id.
WrittenAfter(st) == IF st = "open" THEN {"approved", "closed"} ELSE {"open", "closed"}
BeginWrite(t, p) ==
  /\ tx[t] = Idle
  /\ status[p] \in ActiveStatus
  /\ \E to \in WrittenAfter(status[p]) :
       Becomes(t, [Idle EXCEPT !.step = "write", !.pr = p, !.to = to])
  /\ UNCHANGED committed

Write(t) ==
  /\ tx[t].step = "write"
  /\ Free(t)
  /\ status' = IF status[tx[t].pr] = "deleted" THEN status
               ELSE [status EXCEPT ![tx[t].pr] = tx[t].to]
  /\ Ends(t)
  /\ UNCHANGED <<kind, base, history>>

\* stage, UnstageChange and DiscardWorkspace lock the active row of a project.
BeginEdit(t, p) ==
  /\ kind = "project"
  /\ tx[t] = Idle
  /\ status[p] \in ActiveStatus
  /\ Becomes(t, [Idle EXCEPT !.step = "edit", !.pr = p])
  /\ UNCHANGED committed

\* If the row is no longer active, none is found: stage then inserts a new draft
\* (an Insert), the others answer 404.
LockForEdit(t) ==
  /\ tx[t].step = "edit"
  /\ Free(t)
  /\ IF status[tx[t].pr] \in ActiveStatus THEN Moves(t, "editing") ELSE Ends(t)
  /\ UNCHANGED committed

\* A change to an approved pull request reopens it; a draft may be deleted.
CommitEdit(t) ==
  /\ tx[t].step = "editing"
  /\ LET p == tx[t].pr IN
       \/ status' = [status EXCEPT ![p] = IF @ = "approved" THEN "open" ELSE @]
       \/ status[p] = "draft" /\ status' = [status EXCEPT ![p] = "deleted"]
  /\ Ends(t)
  /\ UNCHANGED <<kind, base, history>>

-----------------------------------------------------------------------------
(***************************************************************************)
(* Merge and AppendVersion                                                 *)
(***************************************************************************)
\* Room is kept for the versions that running transactions may still add.
RoomForAVersion ==
  Len(history) + Cardinality({t \in Tx : tx[t].step \in MergeStep}) < MaxVersions

BeginMerge(t, p) ==
  /\ tx[t] = Idle
  /\ status[p] # "none"
  /\ RoomForAVersion
  /\ Becomes(t, [Idle EXCEPT !.step = "row", !.pr = p])
  /\ UNCHANGED committed

BeginAppend(t) ==
  /\ kind = "group"
  /\ tx[t] = Idle
  /\ RoomForAVersion
  /\ Becomes(t, [Idle EXCEPT !.step = "head"])
  /\ UNCHANGED committed

\* Mutant: the row is read without FOR UPDATE.
LockRowWithoutWaiting(t) ==
  /\ tx[t].step = "row"
  /\ IF status[tx[t].pr] = "approved" THEN Moves(t, "head") ELSE Ends(t)
  /\ UNCHANGED committed

\* loadAndLockPRForMerge.
LockRow(t) ==
  /\ tx[t].step = "row"
  /\ Free(t)
  /\ IF status[tx[t].pr] = "approved" THEN Moves(t, "head") ELSE Ends(t)
  /\ UNCHANGED committed

\* A project's latest version row is chosen from the statement's snapshot and
\* then waited for: when the lock is granted it need not be the latest any more.
SeeHead(t) ==
  /\ tx[t].step = "head"
  /\ kind = "project"
  /\ Becomes(t, [tx[t] EXCEPT !.step = "take", !.head = Len(history)])
  /\ UNCHANGED committed

TakeHead(t) ==
  /\ tx[t].step = "take"
  /\ Free(t)
  /\ Moves(t, "insert")
  /\ UNCHANGED committed

\* Mutant: the group is read without FOR UPDATE.
LockGroupWithoutWaiting(t) ==
  /\ tx[t].step = "head"
  /\ kind = "group"
  /\ Moves(t, "read")
  /\ UNCHANGED committed

\* A group's own row is locked first and its latest version read afterwards.
LockGroup(t) ==
  /\ tx[t].step = "head"
  /\ kind = "group"
  /\ Free(t)
  /\ Moves(t, "read")
  /\ UNCHANGED committed

\* The base of a pull request has to be the latest version; an append has none.
ReadHead(t) ==
  /\ tx[t].step = "read"
  /\ LET p == tx[t].pr IN
       IF p # 0 /\ base[p] # Len(history) THEN Ends(t)
       ELSE Becomes(t, [tx[t] EXCEPT !.step = "insert", !.head = Len(history)])
  /\ UNCHANGED committed

\* Mutant: the new version's number is not checked against uncommitted ones.
InsertVersionUnchecked(t) ==
  /\ tx[t].step = "insert"
  /\ IF Len(history) > tx[t].head THEN Ends(t)
     ELSE Moves(t, IF tx[t].pr = 0 THEN "close" ELSE "seal")
  /\ UNCHANGED committed

\* version_id is unique: the INSERT waits for another that inserted the same
\* number, and fails if the number has been committed.
InsertVersion(t) ==
  /\ tx[t].step = "insert"
  /\ Free(t)
  /\ IF Len(history) > tx[t].head THEN Ends(t)
     ELSE Moves(t, IF tx[t].pr = 0 THEN "close" ELSE "seal")
  /\ UNCHANGED committed

\* autoCloseSiblingPRs: one UPDATE, whose snapshot fixes the rows it visits.
SeeSiblings(t) ==
  /\ tx[t].step = "seal"
  /\ Becomes(t, [tx[t] EXCEPT !.step = "close",
                  !.todo = {q \in PR \ {tx[t].pr} : status[q] \in ActiveStatus}])
  /\ UNCHANGED committed

\* The rows another transaction has locked.
LockedByOthers(t) == UNION {RowLocks(o) : o \in Others(t)}

\* Mutant: a row that no longer qualifies is tried again.
CloseSiblingAgain(t, q) ==
  /\ q \in tx[t].todo
  /\ q \notin LockedByOthers(t)
  /\ status[q] \in ActiveStatus
  /\ Becomes(t, [tx[t] EXCEPT !.todo = @ \ {q}, !.closing = @ \cup {q}])
  /\ UNCHANGED committed

\* Each is locked, looked at again, and closed only if it is still active.
CloseSibling(t, q) ==
  /\ q \in tx[t].todo
  /\ q \notin LockedByOthers(t)
  /\ LET closes == status[q] \in ActiveStatus IN
       Becomes(t, [tx[t] EXCEPT !.todo = @ \ {q},
                               !.closing = IF closes THEN @ \cup {q} ELSE @])
  /\ UNCHANGED committed

Commit(t) ==
  /\ tx[t].step = "close"
  /\ tx[t].todo = {}
  /\ history' = Append(history, tx[t].pr)
  /\ status' = [q \in PR |-> IF q = tx[t].pr THEN "merged"
                             ELSE IF q \in tx[t].closing THEN "closed" ELSE status[q]]
  /\ Ends(t)
  /\ UNCHANGED <<kind, base>>

-----------------------------------------------------------------------------
\* The client goes away: the request's context is cancelled, the transaction
\* rolled back.
Disconnect(t) ==
  /\ tx[t] # Idle
  /\ Ends(t)
  /\ UNCHANGED committed

\* PostgreSQL breaks a cycle by aborting one of its transactions.
DeadlockAbort(t) ==
  /\ Deadlocked(t)
  /\ Ends(t)
  /\ UNCHANGED committed

\* What a transaction that has begun does next.
Progress(t) ==
  \/ Write(t) \/ LockForEdit(t) \/ CommitEdit(t)
  \/ LockRow(t) \/ SeeHead(t) \/ TakeHead(t) \/ LockGroup(t) \/ ReadHead(t)
  \/ InsertVersion(t) \/ SeeSiblings(t)
  \/ \E q \in PR : CloseSibling(t, q)
  \/ Commit(t)

Next ==
  \/ \E p \in PR : Insert(p)
  \/ \E t \in Tx :
       \/ \E p \in PR : BeginWrite(t, p) \/ BeginEdit(t, p) \/ BeginMerge(t, p)
       \/ BeginAppend(t)
       \/ Progress(t)
       \/ Disconnect(t)
       \/ DeadlockAbort(t)

Spec == Init /\ [][Next]_vars

(***************************************************************************)
(* A transaction goes on when it can; PostgreSQL queues the waiters of a   *)
(* lock, so one that can go on again and again goes on in the end (strong  *)
(* fairness), and it finds every deadlock.  No request has to be made.     *)
(***************************************************************************)
Fairness ==
  /\ \A t \in Tx : SF_vars(Progress(t))
  /\ WF_vars(\E t \in Tx : DeadlockAbort(t))
FairSpec == Spec /\ Fairness

-----------------------------------------------------------------------------
(***************************************************************************)
(* What the locks achieve                                                  *)
(***************************************************************************)
\* The transaction of Merge, with all that runs in between its statements, is
\* one atomic step: the pull request is still approved, based on the latest
\* version of a group, and exactly the siblings it closes are still active, at
\* the moment it commits.  A version is never lost or numbered twice.
Atomic == INSTANCE AtomicMerge WITH
            PR <- PR, kind <- kind, status <- status, base <- base, history <- history
Implements == Atomic!Spec

\* Two transactions never both hold an uncommitted version of the scope: the
\* unique version_id keeps them apart even where no lock does.
OneWriterOfHistory ==
  \A t, u \in Tx :
    tx[t].step \in {"seal", "close"} /\ tx[u].step \in {"seal", "close"} => t = u

\* Once it has locked a group's row, a merge or an append works on the latest
\* version until it ends, so that it copies forward what is really current.
GroupHeadIsFresh ==
  \A t \in Tx :
    kind = "group" /\ tx[t].step \in {"insert", "seal", "close"} =>
      tx[t].head = Len(history)

\* "Lock the project's version sequence": past that statement, a merge has the
\* project's sequence of versions to itself.
VersionSequenceIsLocked ==
  \A t, u \in Tx :
    /\ kind = "project"
    /\ tx[t].step \in {"insert", "seal", "close"}
    /\ tx[u].step \in {"insert", "seal", "close"}
    => t = u

\* No merge or append stays stuck behind the locks of others, deadlocks included.
EveryMergeEnds ==
  \A t \in Tx : tx[t].step \in MergeStep ~> tx[t].step = "idle"
=============================================================================
