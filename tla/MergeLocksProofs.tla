-------------------------- MODULE MergeLocksProofs --------------------------
(***************************************************************************)
(* Proofs about MergeLocks, for any number of pull requests, transactions  *)
(* and versions: what the locks exclude, and that the transaction of Merge *)
(* takes effect in one step of AtomicMerge.                                *)
(***************************************************************************)
EXTENDS MergeLocks, TLAPS

\* Others than t have nothing of t's rows.
LocksExclusive ==
  \A t, u \in Tx : t # u => RowLocks(t) \cap RowLocks(u) = {}

GroupIsHeldOnce ==
  \A t, u \in Tx : HoldsGroup(t) /\ HoldsGroup(u) => t = u

\* What t knows about the committed state, thanks to the locks it holds.
KnowsRows(t) ==
  /\ tx[t].step = "write" => status[tx[t].pr] # "none"
  /\ tx[t].step = "editing" => status[tx[t].pr] \in ActiveStatus
  /\ tx[t].step \in MergeStep \ {"row"} /\ tx[t].pr # 0 => status[tx[t].pr] = "approved"
  /\ \A q \in tx[t].closing : status[q] \in ActiveStatus

KnowsHead(t) ==
  /\ tx[t].step \in {"take", "insert"} => tx[t].head <= Len(history)
  /\ tx[t].step \in {"seal", "close"} => tx[t].head = Len(history)
  /\ kind = "group" /\ tx[t].step \in {"insert", "seal", "close"} =>
       /\ tx[t].head = Len(history)
       /\ tx[t].pr # 0 => base[tx[t].pr] = Len(history)

\* How t's own fields hang together.
WellFormed(t) ==
  /\ tx[t].step \in {"write", "edit", "editing", "row", "take", "seal"} => tx[t].pr # 0
  /\ tx[t].step # "close" => tx[t].todo = {} /\ tx[t].closing = {}
  /\ tx[t].pr = 0 => tx[t].todo = {} /\ tx[t].closing = {}
  /\ tx[t].pr = 0 /\ tx[t].step # "idle" => kind = "group"
  /\ tx[t].step = "take" => kind = "project"
  /\ tx[t].pr \notin tx[t].todo \cup tx[t].closing

Knows(t) == WellFormed(t) /\ KnowsRows(t) /\ KnowsHead(t)

IInv ==
  /\ TypeOK
  /\ \A t \in Tx : Knows(t)
  /\ LocksExclusive
  /\ GroupIsHeldOnce
  /\ OneWriterOfHistory

-----------------------------------------------------------------------------
(***************************************************************************)
(* How a transaction's local state changes                                 *)
(***************************************************************************)
\* What Moves does to one transaction, and to no other.
LEMMA MovesFacts ==
  ASSUME TypeOK, NEW t \in Tx, NEW s \in Step, Moves(t, s)
  PROVE  /\ tx' \in [Tx -> Transaction]
         /\ \A o \in Others(t) : tx'[o] = tx[o]
         /\ tx'[t].step = s
         /\ tx'[t].pr = tx[t].pr
         /\ tx'[t].to = tx[t].to
         /\ tx'[t].head = tx[t].head
         /\ tx'[t].todo = tx[t].todo
         /\ tx'[t].closing = tx[t].closing
  BY DEF TypeOK, Moves, Becomes, Transaction, Others

\* What the end of a transaction does.
LEMMA EndsFacts ==
  ASSUME TypeOK, NEW t \in Tx, Ends(t)
  PROVE  /\ tx' \in [Tx -> Transaction]
         /\ \A o \in Others(t) : tx'[o] = tx[o]
         /\ tx'[t] = Idle
  BY DEF TypeOK, Ends, Becomes, Idle, Transaction, Step, Others

\* A step of one transaction keeps the invariant if everyone still knows what it
\* knew, and what the transaction gains is free.
LEMMA Preserves ==
  ASSUME IInv, NEW t \in Tx, TypeOK', kind' = kind,
         \A o \in Others(t) : tx'[o] = tx[o],
         \A o \in Tx : Knows(o)',
         \A o \in Others(t) : RowLocks(t)' \cap RowLocks(o) = {},
         HoldsGroup(t)' => \A o \in Others(t) : ~HoldsGroup(o),
         tx'[t].step \in {"seal", "close"} =>
           \A o \in Others(t) : tx[o].step \notin {"seal", "close"}
  PROVE  IInv'
<1>1. LocksExclusive'
  <2> SUFFICES ASSUME NEW u \in Tx, NEW v \in Tx, u # v
               PROVE  RowLocks(u)' \cap RowLocks(v)' = {}
    BY DEF LocksExclusive
  <2>1. \A o \in Others(t) : RowLocks(o)' = RowLocks(o)
    BY DEF RowLocks
  <2>2. RowLocks(u) \cap RowLocks(v) = {}
    BY DEF IInv, LocksExclusive
  <2>3. CASE u = t
    BY <2>1, <2>3 DEF Others
  <2>4. CASE v = t
    BY <2>1, <2>4 DEF Others
  <2>5. CASE u # t /\ v # t
    BY <2>1, <2>2, <2>5 DEF Others
  <2> QED BY <2>3, <2>4, <2>5
<1>2. GroupIsHeldOnce'
  BY DEF IInv, GroupIsHeldOnce, HoldsGroup, Others
<1>3. OneWriterOfHistory'
  BY DEF IInv, OneWriterOfHistory, Others
<1> QED BY <1>1, <1>2, <1>3 DEF IInv

\* The same for a step that commits nothing: the others know what they knew.
LEMMA LocalPreserves ==
  ASSUME IInv, NEW t \in Tx, UNCHANGED committed,
         tx' \in [Tx -> Transaction],
         \A o \in Others(t) : tx'[o] = tx[o],
         Knows(t)',
         \A o \in Others(t) : RowLocks(t)' \cap RowLocks(o) = {},
         HoldsGroup(t)' => \A o \in Others(t) : ~HoldsGroup(o),
         tx'[t].step \in {"seal", "close"} =>
           \A o \in Others(t) : tx[o].step \notin {"seal", "close"}
  PROVE  IInv'
<1>1. TypeOK'
  BY DEF IInv, TypeOK, committed
<1>2. \A o \in Others(t) : Knows(o)'
  BY DEF IInv, Knows, WellFormed, KnowsRows, KnowsHead, committed, Others
<1>3. \A o \in Tx : Knows(o)'
  BY <1>2 DEF Others
<1>4. kind' = kind
  BY DEF committed
<1> QED BY <1>1, <1>3, <1>4, Preserves

\* And for the end of a transaction, which gives up its locks.
LEMMA EndPreserves ==
  ASSUME IInv, NEW t \in Tx, Ends(t), TypeOK', kind' = kind,
         \A o \in Others(t) : Knows(o)'
  PROVE  IInv'
<1>1. /\ \A o \in Others(t) : tx'[o] = tx[o]
      /\ tx'[t] = Idle
  BY EndsFacts DEF IInv
<1>2. Knows(t)'
  BY <1>1 DEF Knows, WellFormed, KnowsRows, KnowsHead, Idle, MergeStep
<1>3. \A o \in Tx : Knows(o)'
  BY <1>2 DEF Others
<1>4. /\ RowLocks(t)' = {}
      /\ ~HoldsGroup(t)'
      /\ tx'[t].step \notin {"seal", "close"}
  BY <1>1 DEF RowLocks, HoldsGroup, Idle
<1> QED BY <1>1, <1>3, <1>4, Preserves

\* A rollback leaves nothing behind.
LEMMA RollbackPreserves ==
  ASSUME IInv, NEW t \in Tx, Ends(t), UNCHANGED committed
  PROVE  IInv'
<1>1. /\ tx' \in [Tx -> Transaction]
      /\ \A o \in Others(t) : tx'[o] = tx[o]
  BY EndsFacts DEF IInv
<1>2. TypeOK' /\ kind' = kind
  BY <1>1 DEF IInv, TypeOK, committed
<1>3. \A o \in Others(t) : Knows(o)'
  BY <1>1 DEF IInv, Knows, WellFormed, KnowsRows, KnowsHead, committed, Others
<1> QED BY <1>2, <1>3, EndPreserves

-----------------------------------------------------------------------------
(***************************************************************************)
(* The initial state                                                       *)
(***************************************************************************)
THEOREM InitIInv == Init => IInv
<1> SUFFICES ASSUME Init PROVE IInv
  OBVIOUS
<1>1. TypeOK
  <2>1. <<0>> \in Seq(PR \cup {0}) /\ << >> \in Seq(PR \cup {0})
    OBVIOUS
  <2>2. Idle \in Transaction
    BY DEF Idle, Transaction, Step
  <2> QED BY <2>1, <2>2 DEF Init, TypeOK, RowStatus
<1>2. \A t \in Tx : Knows(t)
  BY DEF Init, Knows, WellFormed, KnowsRows, KnowsHead, Idle, MergeStep
<1>3. \A t \in Tx : RowLocks(t) = {} /\ ~HoldsGroup(t) /\ tx[t].step = "idle"
  BY DEF Init, RowLocks, HoldsGroup, Idle
<1>4. LocksExclusive /\ GroupIsHeldOnce /\ OneWriterOfHistory
  BY <1>3 DEF LocksExclusive, GroupIsHeldOnce, OneWriterOfHistory
<1> QED BY <1>1, <1>2, <1>4 DEF IInv

-----------------------------------------------------------------------------
(***************************************************************************)
(* Steps that begin a transaction, or lock and read for it                 *)
(***************************************************************************)
\* A transaction that begins has no locks yet, and knows what it has read.
LEMMA BeginPreserves ==
  ASSUME IInv, NEW t \in Tx, UNCHANGED committed,
         tx' \in [Tx -> Transaction],
         \A o \in Others(t) : tx'[o] = tx[o],
         tx'[t].todo = {}, tx'[t].closing = {},
         \/ tx'[t].step \in {"edit", "row"} /\ tx'[t].pr \in PR
         \/ tx'[t].step = "write" /\ tx'[t].pr \in PR /\ status[tx'[t].pr] # "none"
         \/ tx'[t].step = "head" /\ tx'[t].pr = 0 /\ kind = "group"
  PROVE  IInv'
<1>1. Knows(t)'
  BY PRsAreIds DEF Knows, WellFormed, KnowsRows, KnowsHead, MergeStep, committed
<1>2. \A o \in Others(t) : RowLocks(t)' \cap RowLocks(o) = {}
  BY DEF RowLocks
<1> QED BY <1>1, <1>2, LocalPreserves DEF HoldsGroup

LEMMA BeginStep ==
  ASSUME IInv, NEW t \in Tx,
         \/ \E p \in PR : BeginWrite(t, p) \/ BeginEdit(t, p) \/ BeginMerge(t, p)
         \/ BeginAppend(t)
  PROVE  IInv'
<1>1. ASSUME NEW p \in PR, BeginWrite(t, p) PROVE IInv'
  <2>1. PICK to \in WrittenAfter(status[p]) :
          Becomes(t, [Idle EXCEPT !.step = "write", !.pr = p, !.to = to])
    BY <1>1 DEF BeginWrite
  <2>2. UNCHANGED committed /\ status[p] # "none"
    BY <1>1 DEF BeginWrite, ActiveStatus
  <2>3. to \in {"open", "approved", "closed"}
    BY DEF WrittenAfter
  <2>4. /\ tx' \in [Tx -> Transaction]
        /\ \A o \in Others(t) : tx'[o] = tx[o]
        /\ tx'[t].step = "write" /\ tx'[t].pr = p
        /\ tx'[t].todo = {} /\ tx'[t].closing = {}
    BY <2>1, <2>3 DEF IInv, TypeOK, Becomes, Idle, Transaction, Step, Others
  <2> QED BY <2>2, <2>4, BeginPreserves
<1>2. ASSUME NEW p \in PR, BeginEdit(t, p) PROVE IInv'
  <2>1. /\ tx' \in [Tx -> Transaction]
        /\ \A o \in Others(t) : tx'[o] = tx[o]
        /\ tx'[t].step = "edit" /\ tx'[t].pr = p
        /\ tx'[t].todo = {} /\ tx'[t].closing = {}
    BY <1>2 DEF BeginEdit, IInv, TypeOK, Becomes, Idle, Transaction, Step, Others
  <2> QED BY <1>2, <2>1, BeginPreserves DEF BeginEdit
<1>3. ASSUME NEW p \in PR, BeginMerge(t, p) PROVE IInv'
  <2>1. /\ tx' \in [Tx -> Transaction]
        /\ \A o \in Others(t) : tx'[o] = tx[o]
        /\ tx'[t].step = "row" /\ tx'[t].pr = p
        /\ tx'[t].todo = {} /\ tx'[t].closing = {}
    BY <1>3 DEF BeginMerge, IInv, TypeOK, Becomes, Idle, Transaction, Step, MergeStep,
                Others
  <2> QED BY <1>3, <2>1, BeginPreserves DEF BeginMerge
<1>4. ASSUME BeginAppend(t) PROVE IInv'
  <2>1. /\ tx' \in [Tx -> Transaction]
        /\ \A o \in Others(t) : tx'[o] = tx[o]
        /\ tx'[t].step = "head" /\ tx'[t].pr = 0
        /\ tx'[t].todo = {} /\ tx'[t].closing = {}
    BY <1>4 DEF BeginAppend, IInv, TypeOK, Becomes, Idle, Transaction, Step, MergeStep,
                Others
  <2> QED BY <1>4, <2>1, BeginPreserves DEF BeginAppend
<1> QED BY <1>1, <1>2, <1>3, <1>4

-----------------------------------------------------------------------------
\* The rows a free statement is about are locked by nobody else.
LEMMA FreeRow ==
  ASSUME NEW t \in Tx, Free(t), tx[t].step \in {"write", "edit", "row"}
  PROVE  \A o \in Others(t) : tx[t].pr \notin RowLocks(o)
  BY DEF Free, WaitsFor

LEMMA LockForEditStep ==
  ASSUME IInv, NEW t \in Tx, LockForEdit(t)
  PROVE  IInv'
<1>1. CASE status[tx[t].pr] \in ActiveStatus
  <2>1. Moves(t, "editing") /\ UNCHANGED committed /\ tx[t].step = "edit"
    BY <1>1 DEF LockForEdit
  <2>2. /\ tx' \in [Tx -> Transaction]
        /\ \A o \in Others(t) : tx'[o] = tx[o]
        /\ tx'[t].step = "editing" /\ tx'[t].pr = tx[t].pr
        /\ tx'[t].todo = tx[t].todo /\ tx'[t].closing = tx[t].closing
    BY <2>1, MovesFacts DEF IInv, Step
  <2>3. Knows(t)'
    BY <1>1, <2>1, <2>2 DEF IInv, Knows, WellFormed, KnowsRows, KnowsHead, MergeStep,
                            committed
  <2>4. RowLocks(t)' \subseteq {tx[t].pr}
    BY <2>1, <2>2 DEF RowLocks, IInv, Knows, WellFormed
  <2>5. \A o \in Others(t) : tx[t].pr \notin RowLocks(o)
    BY FreeRow DEF LockForEdit
  <2> QED BY <2>1, <2>2, <2>3, <2>4, <2>5, LocalPreserves DEF HoldsGroup
<1>2. CASE status[tx[t].pr] \notin ActiveStatus
  BY <1>2, RollbackPreserves DEF LockForEdit
<1> QED BY <1>1, <1>2

LEMMA LockRowStep ==
  ASSUME IInv, NEW t \in Tx, LockRow(t)
  PROVE  IInv'
<1>1. CASE status[tx[t].pr] = "approved"
  <2>1. Moves(t, "head") /\ UNCHANGED committed /\ tx[t].step = "row"
    BY <1>1 DEF LockRow
  <2>2. /\ tx' \in [Tx -> Transaction]
        /\ \A o \in Others(t) : tx'[o] = tx[o]
        /\ tx'[t].step = "head" /\ tx'[t].pr = tx[t].pr
        /\ tx'[t].todo = tx[t].todo /\ tx'[t].closing = tx[t].closing
    BY <2>1, MovesFacts DEF IInv, Step, MergeStep
  <2>3. Knows(t)'
    BY <1>1, <2>1, <2>2 DEF IInv, Knows, WellFormed, KnowsRows, KnowsHead, MergeStep,
                            committed
  <2>4. RowLocks(t)' \subseteq {tx[t].pr}
    BY <2>1, <2>2 DEF RowLocks, IInv, Knows, WellFormed
  <2>5. \A o \in Others(t) : tx[t].pr \notin RowLocks(o)
    BY FreeRow DEF LockRow
  <2> QED BY <2>1, <2>2, <2>3, <2>4, <2>5, LocalPreserves DEF HoldsGroup
<1>2. CASE status[tx[t].pr] # "approved"
  BY <1>2, RollbackPreserves DEF LockRow
<1> QED BY <1>1, <1>2

\* The steps that keep exactly the row locks t has.
LEMMA SameRowLocks ==
  ASSUME IInv, NEW t \in Tx, RowLocks(t)' = RowLocks(t)
  PROVE  \A o \in Others(t) : RowLocks(t)' \cap RowLocks(o) = {}
  BY DEF IInv, LocksExclusive, Others

LEMMA HeadStep ==
  ASSUME IInv, NEW t \in Tx, SeeHead(t) \/ TakeHead(t) \/ LockGroup(t) \/ ReadHead(t)
  PROVE  IInv'
<1>1. Knows(t) /\ TypeOK /\ Len(history) \in Nat
  BY DEF IInv, TypeOK
<1>2. ASSUME SeeHead(t) PROVE IInv'
  <2>1. /\ tx' \in [Tx -> Transaction]
        /\ \A o \in Others(t) : tx'[o] = tx[o]
        /\ tx'[t].step = "take" /\ tx'[t].pr = tx[t].pr
        /\ tx'[t].head = Len(history)
        /\ tx'[t].todo = tx[t].todo /\ tx'[t].closing = tx[t].closing
    BY <1>1, <1>2 DEF SeeHead, TypeOK, Becomes, Transaction, Step, MergeStep, Others
  <2>2. Knows(t)'
    BY <1>1, <1>2, <2>1 DEF SeeHead, Knows, WellFormed, KnowsRows, KnowsHead, MergeStep,
                            committed
  <2>3. RowLocks(t)' = RowLocks(t)
    BY <1>2, <2>1 DEF SeeHead, RowLocks
  <2> QED BY <1>2, <2>1, <2>2, <2>3, SameRowLocks, LocalPreserves DEF SeeHead, HoldsGroup
<1>3. ASSUME TakeHead(t) PROVE IInv'
  <2>1. /\ tx' \in [Tx -> Transaction]
        /\ \A o \in Others(t) : tx'[o] = tx[o]
        /\ tx'[t].step = "insert" /\ tx'[t].pr = tx[t].pr
        /\ tx'[t].head = tx[t].head
        /\ tx'[t].todo = tx[t].todo /\ tx'[t].closing = tx[t].closing
    BY <1>1, <1>3, MovesFacts DEF TakeHead, Step, MergeStep
  <2>2. kind = "project" /\ kind' = kind
    BY <1>1, <1>3 DEF TakeHead, Knows, WellFormed, committed
  <2>3. Knows(t)'
    BY <1>1, <1>3, <2>1, <2>2 DEF TakeHead, Knows, WellFormed, KnowsRows, KnowsHead,
                                  MergeStep, committed
  <2>4. RowLocks(t)' = RowLocks(t)
    BY <1>3, <2>1 DEF TakeHead, RowLocks
  <2> QED BY <1>3, <2>1, <2>2, <2>3, <2>4, SameRowLocks, LocalPreserves
          DEF TakeHead, HoldsGroup
<1>4. ASSUME LockGroup(t) PROVE IInv'
  <2>1. /\ tx' \in [Tx -> Transaction]
        /\ \A o \in Others(t) : tx'[o] = tx[o]
        /\ tx'[t].step = "read" /\ tx'[t].pr = tx[t].pr
        /\ tx'[t].todo = tx[t].todo /\ tx'[t].closing = tx[t].closing
    BY <1>1, <1>4, MovesFacts DEF LockGroup, Step, MergeStep
  <2>2. Knows(t)'
    BY <1>1, <1>4, <2>1 DEF LockGroup, Knows, WellFormed, KnowsRows, KnowsHead,
                            MergeStep, committed
  <2>3. RowLocks(t)' = RowLocks(t)
    BY <1>4, <2>1 DEF LockGroup, RowLocks
  <2>4. \A o \in Others(t) : ~HoldsGroup(o)
    BY <1>4 DEF LockGroup, Free, WaitsFor
  <2> QED BY <1>4, <2>1, <2>2, <2>3, <2>4, SameRowLocks, LocalPreserves DEF LockGroup
<1>5. ASSUME ReadHead(t) PROVE IInv'
  <2>1. CASE tx[t].pr # 0 /\ base[tx[t].pr] # Len(history)
    BY <1>5, <2>1, RollbackPreserves DEF ReadHead
  <2>2. CASE ~(tx[t].pr # 0 /\ base[tx[t].pr] # Len(history))
    <3>1. Becomes(t, [tx[t] EXCEPT !.step = "insert", !.head = Len(history)])
      BY <1>5, <2>2 DEF ReadHead
    <3>2. /\ tx' \in [Tx -> Transaction]
          /\ \A o \in Others(t) : tx'[o] = tx[o]
          /\ tx'[t].step = "insert" /\ tx'[t].pr = tx[t].pr
          /\ tx'[t].head = Len(history)
          /\ tx'[t].todo = tx[t].todo /\ tx'[t].closing = tx[t].closing
      BY <1>1, <3>1 DEF TypeOK, Becomes, Transaction, Step, MergeStep, Others
    <3>3. Knows(t)'
      BY <1>1, <1>5, <2>2, <3>2 DEF ReadHead, Knows, WellFormed, KnowsRows, KnowsHead,
                                    MergeStep, committed
    <3>4. RowLocks(t)' = RowLocks(t)
      BY <1>5, <3>2 DEF ReadHead, RowLocks
    <3>5. HoldsGroup(t)' => HoldsGroup(t)
      BY <1>5, <3>2 DEF ReadHead, HoldsGroup, committed
    <3>6. HoldsGroup(t)' => \A o \in Others(t) : ~HoldsGroup(o)
      BY <3>5 DEF IInv, GroupIsHeldOnce, Others
    <3> QED BY <1>5, <3>2, <3>3, <3>4, <3>6, SameRowLocks, LocalPreserves DEF ReadHead
  <2> QED BY <2>1, <2>2
<1> QED BY <1>2, <1>3, <1>4, <1>5

-----------------------------------------------------------------------------
(***************************************************************************)
(* Inserting the version and closing the siblings                          *)
(***************************************************************************)
\* Whoever has an uncommitted version has numbered it next after the committed
\* ones, so t, which would number its own the same, has to wait.
LEMMA NoOtherVersion ==
  ASSUME IInv, NEW t \in Tx, tx[t].step = "insert", Free(t), ~(Len(history) > tx[t].head)
  PROVE  /\ tx[t].head = Len(history)
         /\ \A o \in Others(t) : tx[o].step \notin {"seal", "close"}
<1>1. /\ Len(history) \in Nat
      /\ \A u \in Tx : tx[u].head \in Nat
  BY DEF IInv, TypeOK, Transaction
<1>2. tx[t].head = Len(history)
  BY <1>1 DEF IInv, Knows, KnowsHead
<1>3. ASSUME NEW o \in Others(t), tx[o].step \in {"seal", "close"} PROVE FALSE
  <2>1. tx[o].head = Len(history)
    BY <1>3 DEF IInv, Knows, KnowsHead, Others
  <2>2. HasInserted(o, tx[t].head + 1)
    BY <1>2, <1>3, <2>1 DEF HasInserted
  <2> QED BY <2>2 DEF Free, WaitsFor
<1> QED BY <1>2, <1>3

LEMMA InsertVersionStep ==
  ASSUME IInv, NEW t \in Tx, InsertVersion(t)
  PROVE  IInv'
<1>1. CASE Len(history) > tx[t].head
  BY <1>1, RollbackPreserves DEF InsertVersion
<1>2. CASE ~(Len(history) > tx[t].head)
  <2> DEFINE next == IF tx[t].pr = 0 THEN "close" ELSE "seal"
  <2>1. Knows(t) /\ tx[t].step = "insert" /\ UNCHANGED committed
    BY DEF IInv, InsertVersion
  <2>2. /\ tx[t].head = Len(history)
        /\ \A o \in Others(t) : tx[o].step \notin {"seal", "close"}
    BY <1>2, <2>1, NoOtherVersion DEF InsertVersion
  <2>3. /\ tx' \in [Tx -> Transaction]
        /\ \A o \in Others(t) : tx'[o] = tx[o]
        /\ tx'[t].step = next /\ tx'[t].pr = tx[t].pr
        /\ tx'[t].head = tx[t].head
        /\ tx'[t].todo = tx[t].todo /\ tx'[t].closing = tx[t].closing
    <3>1. next \in Step /\ Moves(t, next)
      BY <1>2 DEF InsertVersion, Step, MergeStep
    <3> HIDE DEF next
    <3> QED BY <3>1, MovesFacts DEF IInv
  <2>4. Knows(t)'
    BY <2>1, <2>2, <2>3 DEF Knows, WellFormed, KnowsRows, KnowsHead, MergeStep, committed
  <2>5. RowLocks(t)' = RowLocks(t)
    BY <2>1, <2>3 DEF RowLocks
  <2>6. HoldsGroup(t)' => \A o \in Others(t) : ~HoldsGroup(o)
    BY <2>1, <2>3 DEF IInv, GroupIsHeldOnce, HoldsGroup, Others, committed
  <2> QED BY <2>1, <2>2, <2>3, <2>4, <2>5, <2>6, SameRowLocks, LocalPreserves
<1> QED BY <1>1, <1>2

\* t is past the INSERT, so no other transaction is.
LEMMA OnlyWriter ==
  ASSUME IInv, NEW t \in Tx, tx[t].step \in {"seal", "close"}
  PROVE  \A o \in Others(t) : tx[o].step \notin {"seal", "close"}
  BY DEF IInv, OneWriterOfHistory, Others

LEMMA SeeSiblingsStep ==
  ASSUME IInv, NEW t \in Tx, SeeSiblings(t)
  PROVE  IInv'
<1>1. Knows(t) /\ tx[t].step = "seal" /\ UNCHANGED committed
  BY DEF IInv, SeeSiblings
<1>2. /\ tx' \in [Tx -> Transaction]
      /\ \A o \in Others(t) : tx'[o] = tx[o]
      /\ tx'[t].step = "close" /\ tx'[t].pr = tx[t].pr
      /\ tx'[t].head = tx[t].head
      /\ tx'[t].todo \subseteq PR \ {tx[t].pr} /\ tx'[t].closing = tx[t].closing
  BY DEF SeeSiblings, IInv, TypeOK, Becomes, Transaction, Step, MergeStep, Others
<1>3. Knows(t)'
  BY <1>1, <1>2 DEF Knows, WellFormed, KnowsRows, KnowsHead, MergeStep, committed
<1>4. RowLocks(t)' = RowLocks(t)
  BY <1>1, <1>2 DEF RowLocks
<1>5. HoldsGroup(t)' => \A o \in Others(t) : ~HoldsGroup(o)
  BY <1>1, <1>2 DEF IInv, GroupIsHeldOnce, HoldsGroup, Others, committed
<1> QED BY <1>1, <1>2, <1>3, <1>4, <1>5, OnlyWriter, SameRowLocks, LocalPreserves

LEMMA CloseSiblingStep ==
  ASSUME IInv, NEW t \in Tx, NEW q \in PR, CloseSibling(t, q)
  PROVE  IInv'
<1>1. /\ Knows(t) /\ q \in tx[t].todo /\ UNCHANGED committed
      /\ tx[t] \in Transaction
  BY DEF IInv, TypeOK, CloseSibling
<1>2. tx[t].step = "close" /\ q # tx[t].pr /\ tx[t].pr # 0
  BY <1>1 DEF Knows, WellFormed
<1>3. \A o \in Others(t) : q \notin RowLocks(o)
  BY DEF CloseSibling, LockedByOthers
<1>4. /\ tx' \in [Tx -> Transaction]
      /\ \A o \in Others(t) : tx'[o] = tx[o]
      /\ tx'[t].step = tx[t].step /\ tx'[t].pr = tx[t].pr
      /\ tx'[t].head = tx[t].head
      /\ tx'[t].todo = tx[t].todo \ {q}
      /\ \/ tx'[t].closing = tx[t].closing
         \/ tx'[t].closing = tx[t].closing \cup {q} /\ status[q] \in ActiveStatus
  BY <1>1 DEF CloseSibling, IInv, TypeOK, Becomes, Transaction, Others
<1>5. Knows(t)'
  BY <1>1, <1>2, <1>4 DEF Knows, WellFormed, KnowsRows, KnowsHead, MergeStep, committed
<1>6. \A o \in Others(t) : RowLocks(t)' \cap RowLocks(o) = {}
  <2>1. RowLocks(t)' \subseteq RowLocks(t) \cup {q}
    BY <1>2, <1>4 DEF RowLocks
  <2> QED BY <1>3, <2>1 DEF IInv, LocksExclusive, Others
<1>7. HoldsGroup(t)' => \A o \in Others(t) : ~HoldsGroup(o)
  BY <1>1, <1>4 DEF IInv, GroupIsHeldOnce, HoldsGroup, Others, committed
<1> QED BY <1>1, <1>2, <1>4, <1>5, <1>6, <1>7, OnlyWriter, LocalPreserves

-----------------------------------------------------------------------------
(***************************************************************************)
(* Steps that commit                                                       *)
(***************************************************************************)
\* A new row: no transaction knows anything of it yet.
LEMMA InsertStep ==
  ASSUME IInv, NEW p \in PR, Insert(p)
  PROVE  IInv'
<1>1. /\ TypeOK /\ status[p] = "none" /\ UNCHANGED <<kind, history, tx>>
      /\ Len(history) \in Nat
  BY DEF IInv, TypeOK, Insert
<1>2. PICK b \in (IF kind = "group" THEN 1 .. Len(history) ELSE {0}) :
        base' = [base EXCEPT ![p] = b]
  BY DEF Insert
<1>3. b \in Nat
  BY <1>1
<1>4. TypeOK'
  BY <1>1, <1>2, <1>3 DEF Insert, TypeOK, RowStatus, ActiveStatus
<1>5. \A q \in PR \ {p} : status'[q] = status[q] /\ base'[q] = base[q]
  BY <1>1, <1>2 DEF Insert, TypeOK
<1>6. ASSUME NEW t \in Tx PROVE Knows(t)'
  <2>1. Knows(t) /\ tx[t] \in Transaction
    BY DEF IInv, TypeOK
  <2>2. WellFormed(t)'
    BY <1>1, <2>1 DEF Knows, WellFormed
  <2>3. KnowsRows(t)'
    BY <1>1, <1>5, <2>1 DEF Knows, WellFormed, KnowsRows, ActiveStatus, Transaction
  <2>4. tx[t].pr # 0 /\ tx[t].step \in {"insert", "seal", "close"} => tx[t].pr \in PR \ {p}
    BY <1>1, <2>1 DEF Knows, KnowsRows, MergeStep, Transaction
  <2>5. KnowsHead(t)'
    BY <1>1, <1>5, <2>1, <2>4 DEF Knows, KnowsHead
  <2> QED BY <2>2, <2>3, <2>5 DEF Knows
<1>7. LocksExclusive' /\ GroupIsHeldOnce' /\ OneWriterOfHistory'
  BY <1>1 DEF IInv, LocksExclusive, RowLocks, GroupIsHeldOnce, HoldsGroup,
              OneWriterOfHistory
<1> QED BY <1>4, <1>6, <1>7 DEF IInv

\* A transaction that commits a new status of rows nobody else has locked, and
\* that stay in the table, disturbs no other.
LEMMA CommitRows ==
  ASSUME IInv, NEW t \in Tx, Ends(t), UNCHANGED <<kind, base, history>>,
         NEW p \in PR, \A o \in Others(t) : p \notin RowLocks(o),
         status' \in [PR -> RowStatus], status'[p] # "none",
         \A q \in PR \ {p} : status'[q] = status[q]
  PROVE  IInv'
<1>1. /\ tx' \in [Tx -> Transaction]
      /\ \A o \in Others(t) : tx'[o] = tx[o]
  BY EndsFacts DEF IInv
<1>2. TypeOK'
  BY <1>1 DEF IInv, TypeOK
<1>3. ASSUME NEW o \in Others(t) PROVE Knows(o)'
  <2>1. Knows(o) /\ tx[o] \in Transaction /\ tx'[o] = tx[o] /\ p \notin RowLocks(o)
    BY <1>1 DEF IInv, TypeOK, Others
  <2>2. WellFormed(o)' /\ KnowsHead(o)'
    BY <2>1 DEF Knows, WellFormed, KnowsHead
  <2>3. KnowsRows(o)'
    <3>1. tx[o].step = "write" => status'[tx[o].pr] # "none"
      BY <2>1 DEF Knows, WellFormed, KnowsRows, Transaction
    <3>2. tx[o].step = "editing" => status'[tx[o].pr] \in ActiveStatus
      BY <2>1 DEF Knows, WellFormed, KnowsRows, Transaction, RowLocks
    <3>3. tx[o].step \in MergeStep \ {"row"} /\ tx[o].pr # 0
            => status'[tx[o].pr] = "approved"
      BY <2>1 DEF Knows, WellFormed, KnowsRows, Transaction, RowLocks, MergeStep
    <3>4. \A q \in tx[o].closing : status'[q] \in ActiveStatus
      BY <2>1 DEF Knows, KnowsRows, Transaction, RowLocks
    <3> QED BY <2>1, <3>1, <3>2, <3>3, <3>4 DEF KnowsRows
  <2> QED BY <2>2, <2>3 DEF Knows
<1> QED BY <1>2, <1>3, EndPreserves

LEMMA WriteStep ==
  ASSUME IInv, NEW t \in Tx, Write(t)
  PROVE  IInv'
<1>1. /\ Knows(t) /\ tx[t] \in Transaction /\ tx[t].step = "write" /\ TypeOK
      /\ \A o \in Others(t) : tx[t].pr \notin RowLocks(o)
  BY FreeRow DEF IInv, TypeOK, Write
<1>2. tx[t].pr \in PR /\ status[tx[t].pr] # "none"
  BY <1>1 DEF Knows, WellFormed, KnowsRows, Transaction
<1>3. /\ status' \in [PR -> RowStatus] /\ status'[tx[t].pr] # "none"
      /\ \A q \in PR \ {tx[t].pr} : status'[q] = status[q]
  BY <1>1, <1>2 DEF Write, TypeOK, RowStatus, ActiveStatus, Transaction
<1> QED BY <1>1, <1>2, <1>3, CommitRows DEF Write

LEMMA CommitEditStep ==
  ASSUME IInv, NEW t \in Tx, CommitEdit(t)
  PROVE  IInv'
<1>1. Knows(t) /\ tx[t] \in Transaction /\ tx[t].step = "editing" /\ TypeOK
  BY DEF IInv, TypeOK, CommitEdit
<1>2. tx[t].pr \in PR /\ status[tx[t].pr] \in ActiveStatus
  BY <1>1 DEF Knows, WellFormed, KnowsRows, Transaction
<1>3. \A o \in Others(t) : tx[t].pr \notin RowLocks(o)
  <2>1. tx[t].pr \in RowLocks(t)
    BY <1>1, <1>2, PRsAreIds DEF RowLocks
  <2> QED BY <2>1 DEF IInv, LocksExclusive, Others
<1>4. /\ status' \in [PR -> RowStatus] /\ status'[tx[t].pr] # "none"
      /\ \A q \in PR \ {tx[t].pr} : status'[q] = status[q]
  BY <1>1, <1>2 DEF CommitEdit, TypeOK, RowStatus, ActiveStatus
<1> QED BY <1>2, <1>3, <1>4, CommitRows DEF CommitEdit

\* What a commit changes: one more version, and the rows the merge has locked.
LEMMA CommitFacts ==
  ASSUME IInv, NEW t \in Tx, Commit(t)
  PROVE  /\ tx[t] \in Transaction /\ tx[t].step = "close"
         /\ tx[t].head = Len(history)
         /\ history' = Append(history, tx[t].pr)
         /\ history' \in Seq(PR \cup {0}) /\ Len(history') = Len(history) + 1
         /\ status' \in [PR -> RowStatus]
         /\ \A q \in PR \ RowLocks(t) : status'[q] = status[q]
         /\ \A q \in PR \cap RowLocks(t) : status'[q] # "none"
         /\ UNCHANGED <<kind, base>>
         /\ Ends(t)
<1>1. /\ TypeOK /\ Knows(t) /\ tx[t] \in Transaction /\ tx[t].step = "close"
      /\ tx[t].pr \in PR \cup {0} /\ tx[t].closing \subseteq PR
  BY DEF IInv, TypeOK, Commit, Transaction
<1>2. tx[t].head = Len(history)
  BY <1>1 DEF Knows, KnowsHead
<1>3. /\ history' = Append(history, tx[t].pr)
      /\ history' \in Seq(PR \cup {0}) /\ Len(history') = Len(history) + 1
  BY <1>1 DEF TypeOK, Commit
<1>4. status' = [q \in PR |-> IF q = tx[t].pr THEN "merged"
                             ELSE IF q \in tx[t].closing THEN "closed" ELSE status[q]]
  BY DEF Commit
<1>5. status' \in [PR -> RowStatus]
  BY <1>1, <1>4 DEF TypeOK, RowStatus
<1>6. RowLocks(t) = tx[t].closing \cup ({tx[t].pr} \ {0})
  BY <1>1 DEF RowLocks
<1>7. /\ \A q \in PR \ RowLocks(t) : status'[q] = status[q]
      /\ \A q \in PR \cap RowLocks(t) : status'[q] # "none"
  BY <1>4, <1>6, PRsAreIds
<1> QED BY <1>1, <1>2, <1>3, <1>5, <1>7 DEF Commit

LEMMA CommitStep ==
  ASSUME IInv, NEW t \in Tx, Commit(t)
  PROVE  IInv'
<1>1. /\ tx' \in [Tx -> Transaction]
      /\ \A o \in Others(t) : tx'[o] = tx[o]
  BY CommitFacts, EndsFacts DEF IInv
<1>2. TypeOK'
  BY <1>1, CommitFacts DEF IInv, TypeOK
<1>3. ASSUME NEW o \in Others(t) PROVE Knows(o)'
  <2>1. /\ Knows(o) /\ tx[o] \in Transaction /\ tx'[o] = tx[o]
        /\ RowLocks(o) \cap RowLocks(t) = {}
        /\ Len(history) \in Nat
    BY <1>1 DEF IInv, TypeOK, LocksExclusive, Others
  <2>2. WellFormed(o)'
    BY <2>1, CommitFacts DEF Knows, WellFormed
  <2>3. KnowsHead(o)'
    <3>1. tx[o].step \notin {"seal", "close"}
      BY CommitFacts, OnlyWriter
    <3>2. kind = "group" => tx[o].step # "insert"
      <4>1. kind = "group" => HoldsGroup(t)
        BY CommitFacts DEF HoldsGroup
      <4> QED BY <4>1 DEF IInv, GroupIsHeldOnce, HoldsGroup, Others
    <3>3. tx[o].step \in {"take", "insert"} => tx[o].head <= Len(history')
      BY <2>1, CommitFacts DEF Knows, KnowsHead, Transaction
    <3>4. kind' = kind
      BY CommitFacts
    <3> QED BY <2>1, <3>1, <3>2, <3>3, <3>4 DEF KnowsHead
  <2>4. KnowsRows(o)'
    <3>1. tx[o].step = "write" => status'[tx[o].pr] # "none"
      BY <2>1, CommitFacts DEF Knows, WellFormed, KnowsRows, Transaction
    <3>2. tx[o].step = "editing" => status'[tx[o].pr] \in ActiveStatus
      BY <2>1, CommitFacts DEF Knows, WellFormed, KnowsRows, Transaction, RowLocks
    <3>3. tx[o].step \in MergeStep \ {"row"} /\ tx[o].pr # 0
            => status'[tx[o].pr] = "approved"
      <4>1. tx[o].step \in MergeStep \ {"row"} /\ tx[o].pr # 0
              => tx[o].pr \in PR \ RowLocks(t)
        BY <2>1 DEF Transaction, RowLocks, MergeStep
      <4> QED BY <2>1, <4>1, CommitFacts DEF Knows, KnowsRows
    <3>4. \A q \in tx[o].closing : status'[q] \in ActiveStatus
      <4>1. \A q \in tx[o].closing : q \in PR \ RowLocks(t)
        BY <2>1 DEF Transaction, RowLocks
      <4> QED BY <2>1, <4>1, CommitFacts DEF Knows, KnowsRows
    <3> QED BY <2>1, <3>1, <3>2, <3>3, <3>4 DEF KnowsRows
  <2> QED BY <2>2, <2>3, <2>4 DEF Knows
<1> QED BY <1>2, <1>3, CommitFacts, EndPreserves

-----------------------------------------------------------------------------
(***************************************************************************)
(* The invariant, and what it gives                                        *)
(***************************************************************************)
LEMMA ProgressStep ==
  ASSUME IInv, NEW t \in Tx, Progress(t)
  PROVE  IInv'
<1>1. ASSUME NEW q \in PR, CloseSibling(t, q) PROVE IInv'
  BY <1>1, CloseSiblingStep
<1> QED BY <1>1, WriteStep, LockForEditStep, CommitEditStep, LockRowStep, HeadStep,
           InsertVersionStep, SeeSiblingsStep, CommitStep DEF Progress

THEOREM NextIInv == IInv /\ [Next]_vars => IInv'
<1> SUFFICES ASSUME IInv, [Next]_vars PROVE IInv'
  OBVIOUS
<1>1. ASSUME NEW p \in PR, Insert(p) PROVE IInv'
  BY <1>1, InsertStep
<1>2. ASSUME NEW t \in Tx,
             \/ \E p \in PR : BeginWrite(t, p) \/ BeginEdit(t, p) \/ BeginMerge(t, p)
             \/ BeginAppend(t)
      PROVE  IInv'
  BY <1>2, BeginStep
<1>3. ASSUME NEW t \in Tx, Progress(t) PROVE IInv'
  BY <1>3, ProgressStep
<1>4. ASSUME NEW t \in Tx, Disconnect(t) \/ DeadlockAbort(t) PROVE IInv'
  BY <1>4, RollbackPreserves DEF Disconnect, DeadlockAbort
<1>5. CASE UNCHANGED vars
  BY <1>5 DEF vars, committed, IInv, TypeOK, Knows, WellFormed, KnowsRows, KnowsHead,
              LocksExclusive, RowLocks, GroupIsHeldOnce, HoldsGroup, OneWriterOfHistory
<1> QED BY <1>1, <1>2, <1>3, <1>4, <1>5 DEF Next

\* The invariant holds in every reachable state.
THEOREM Invariance == Spec => []IInv
BY InitIInv, NextIInv, PTL DEF Spec

\* Two transactions never both hold an uncommitted version of the scope
\* (applyProjectSnapshot, applyGroupSnapshot, AppendVersion).
THEOREM OneWriter == Spec => []OneWriterOfHistory
<1>1. IInv => OneWriterOfHistory
  BY DEF IInv
<1> QED BY <1>1, Invariance, PTL

\* What a merge or an append has read as a group's latest version is the latest
\* until it ends, because it holds the group's row (applyGroupSnapshot).
THEOREM GroupHeadStaysFresh == Spec => []GroupHeadIsFresh
<1>1. IInv => GroupHeadIsFresh
  BY DEF IInv, Knows, KnowsHead, GroupHeadIsFresh
<1> QED BY <1>1, Invariance, PTL

-----------------------------------------------------------------------------
(***************************************************************************)
(* The transaction of Merge is atomic                                      *)
(***************************************************************************)
LEMMA InitMaps == Init => Atomic!Init
BY DEF Init, Atomic!Init

\* A commit is a step of the abstract specification.
LEMMA CommitMaps ==
  ASSUME IInv, NEW t \in Tx, Commit(t)
  PROVE  Atomic!Next
<1>1. /\ TypeOK /\ Knows(t) /\ tx[t] \in Transaction /\ tx[t].step = "close"
      /\ tx[t].pr \in PR \cup {0} /\ tx[t].closing \subseteq PR
  BY DEF IInv, TypeOK, Commit, Transaction
<1>2. CASE tx[t].pr = 0
  <2>1. kind = "group" /\ tx[t].closing = {}
    BY <1>1, <1>2 DEF Knows, WellFormed
  <2>2. status' = status
    BY <1>1, <1>2, <2>1, PRsAreIds DEF Commit, TypeOK
  <2>3. Atomic!AppendVersion
    BY <1>2, <2>1, <2>2 DEF Commit, Atomic!AppendVersion
  <2> QED BY <2>3 DEF Atomic!Next
<1>3. CASE tx[t].pr # 0
  <2>1. tx[t].pr \in PR /\ status[tx[t].pr] = "approved"
    BY <1>1, <1>3 DEF Knows, KnowsRows, MergeStep
  <2>2. kind = "group" => base[tx[t].pr] = Len(history)
    BY <1>1, <1>3 DEF Knows, KnowsHead
  <2>3. tx[t].closing \subseteq {q \in PR \ {tx[t].pr} : status[q] \in Atomic!ActiveStatus}
    BY <1>1 DEF Knows, WellFormed, KnowsRows, ActiveStatus, Atomic!ActiveStatus
  <2>4. Atomic!Merge(tx[t].pr, tx[t].closing)
    BY <2>1, <2>2, <2>3 DEF Commit, Atomic!Merge
  <2> QED BY <1>1, <2>1, <2>4 DEF Atomic!Next
<1> QED BY <1>2, <1>3

\* So are the changes of one row.
LEMMA RowStepMaps ==
  ASSUME IInv, NEW t \in Tx, Write(t) \/ CommitEdit(t)
  PROVE  [Atomic!Next]_(Atomic!vars)
<1>1. /\ TypeOK /\ Knows(t) /\ tx[t] \in Transaction
      /\ tx[t].step \in {"write", "editing"}
      /\ UNCHANGED <<kind, base, history>>
  BY DEF IInv, TypeOK, Write, CommitEdit
<1>2. tx[t].pr \in PR /\ status[tx[t].pr] # "none"
  BY <1>1 DEF Knows, WellFormed, KnowsRows, Transaction, ActiveStatus
<1>3. CASE status' = status
  BY <1>1, <1>3 DEF Atomic!vars
<1>4. CASE Write(t) /\ status' # status
  <2>1. /\ status[tx[t].pr] # "deleted"
        /\ status' = [status EXCEPT ![tx[t].pr] = tx[t].to]
        /\ tx[t].to \in {"open", "approved", "closed"}
    BY <1>1, <1>4 DEF Write, Transaction
  <2>2. Atomic!Touch(tx[t].pr)
    BY <1>1, <1>2, <2>1 DEF Atomic!Touch
  <2> QED BY <1>2, <2>2 DEF Atomic!Next
<1>5. CASE CommitEdit(t) /\ status' # status
  <2>1. status[tx[t].pr] \in ActiveStatus
    BY <1>1, <1>5 DEF CommitEdit, Knows, KnowsRows
  <2>2. \/ status' = [status EXCEPT ![tx[t].pr] = "open"]
        \/ status[tx[t].pr] = "draft" /\ status' = [status EXCEPT ![tx[t].pr] = "deleted"]
    BY <1>1, <1>2, <1>5 DEF CommitEdit, TypeOK
  <2>3. Atomic!Touch(tx[t].pr)
    BY <1>1, <1>2, <2>1, <2>2 DEF Atomic!Touch, ActiveStatus
  <2> QED BY <1>2, <2>3 DEF Atomic!Next
<1> QED BY <1>3, <1>4, <1>5

\* A row is inserted with a base that exists, if not with the latest.
LEMMA InsertMaps ==
  ASSUME IInv, NEW p \in PR, Insert(p)
  PROVE  Atomic!Next
<1>1. Len(history) \in Nat
  BY DEF IInv, TypeOK
<1>2. PICK b \in (IF kind = "group" THEN 1 .. Len(history) ELSE {0}) :
        base' = [base EXCEPT ![p] = b]
  BY DEF Insert
<1>3. b \in 0 .. Len(history)
  BY <1>1, <1>2
<1>4. \E st \in {"draft", "open"} : status' = [status EXCEPT ![p] = st]
  <2> DEFINE st == IF kind = "group" THEN "open" ELSE "draft"
  <2>1. st \in {"draft", "open"} /\ status' = [status EXCEPT ![p] = st]
    BY DEF Insert
  <2> HIDE DEF st
  <2> QED BY <2>1
<1>5. Atomic!Open(p)
  BY <1>2, <1>3, <1>4 DEF Insert, Atomic!Open
<1> QED BY <1>5 DEF Atomic!Next

LEMMA NextMaps == IInv /\ [Next]_vars => [Atomic!Next]_(Atomic!vars)
<1> SUFFICES ASSUME IInv, [Next]_vars PROVE [Atomic!Next]_(Atomic!vars)
  OBVIOUS
<1>1. ASSUME UNCHANGED committed PROVE [Atomic!Next]_(Atomic!vars)
  BY <1>1 DEF committed, Atomic!vars
<1>2. CASE UNCHANGED vars
  BY <1>1, <1>2 DEF vars
<1>3. CASE \E p \in PR : Insert(p)
  BY <1>3, InsertMaps
<1>4. ASSUME NEW t \in Tx,
             \/ \E p \in PR : BeginWrite(t, p) \/ BeginEdit(t, p) \/ BeginMerge(t, p)
             \/ BeginAppend(t) \/ Disconnect(t) \/ DeadlockAbort(t)
      PROVE  [Atomic!Next]_(Atomic!vars)
  BY <1>1, <1>4 DEF BeginWrite, BeginEdit, BeginMerge, BeginAppend, Disconnect,
                    DeadlockAbort
<1>5. ASSUME NEW t \in Tx, Progress(t) PROVE [Atomic!Next]_(Atomic!vars)
  <2>1. CASE Write(t) \/ CommitEdit(t)
    BY <2>1, RowStepMaps
  <2>2. CASE Commit(t)
    BY <2>2, CommitMaps
  <2>3. CASE LockForEdit(t) \/ LockRow(t) \/ SeeHead(t) \/ TakeHead(t) \/ LockGroup(t)
    BY <1>1, <2>3 DEF LockForEdit, LockRow, SeeHead, TakeHead, LockGroup
  <2>4. CASE ReadHead(t) \/ InsertVersion(t) \/ SeeSiblings(t)
    BY <1>1, <2>4 DEF ReadHead, InsertVersion, SeeSiblings
  <2>5. CASE \E q \in PR : CloseSibling(t, q)
    BY <1>1, <2>5 DEF CloseSibling
  <2> QED BY <1>5, <2>1, <2>2, <2>3, <2>4, <2>5 DEF Progress
<1> QED BY <1>2, <1>3, <1>4, <1>5 DEF Next

\* However the statements of merges, appends, edits and status changes
\* interleave, a merge takes effect at its commit and in one step: of a pull
\* request that is approved at that moment, based on the latest version of its
\* group, closing siblings that are still active (PullRequestHandler.Merge).
THEOREM MergeIsAtomic == Spec => Implements
<1>1. Init => Atomic!Init
  BY InitMaps
<1>2. IInv /\ [Next]_vars => [Atomic!Next]_(Atomic!vars)
  BY NextMaps
<1> QED BY <1>1, <1>2, Invariance, PTL DEF Spec, Implements, Atomic!Spec
=============================================================================
