------------------------------ MODULE GroupEditor ------------------------------
(***************************************************************************)
(* Editing a Global Values group: the page shows the latest version it     *)
(* knows or a historical one, a table of rows edits a copy of the shown    *)
(* version's entry, and the create-pr page shows what the rows become next *)
(* to what is current by then, and proposes it.                            *)
(***************************************************************************)
EXTENDS ListItems

CONSTANTS
  MaxGroupVersions, \* bound: versions of the group
  MaxRows           \* bound: rows of the table

ASSUME MaxGroupVersions \in Nat \ {0} /\ MaxRows \in Nat

VARIABLES
  groupLatest, \* the server: the latest version
  knownLatest, \* the page's copy, 0 until it is loaded
  viewing,     \* the historical version shown, or 0; and the versions asked for
  table,       \* KvEditor: the version its rows were copied from, and the rows
  proposal     \* the create-pr page: rows, and the request it sent

groupVars == <<groupLatest, knownLatest, viewing, table, proposal>>

(* Keys by number: the stored one, and new_key_n of an added row.          *)
StoredKey == 0
NewKey(n) == n + 1
KvRow(key, value) == [key |-> key, value |-> value]

(* The entry of a version the editor selects; successive versions differ.  *)
EntryRows(v) ==
  <<KvRow(StoredKey, IF v % 2 = 1 THEN Text("t") ELSE List(<<"t">>))>>

EmptyTable == [from |-> 0, rows |-> <<>>]
NoProposal == [open |-> FALSE, from |-> 0, keys |-> {}, sent |-> FALSE]

GroupInit ==
  /\ groupLatest = 1 /\ knownLatest = 0
  /\ viewing = [version |-> 0, asked |-> {}]
  /\ table = EmptyTable
  /\ proposal = NoProposal

Displayed(known, shown) == IF shown # 0 THEN shown ELSE known

(* Mutant: the rows are copied once.                                       *)
CopiedOnce(v) == IF table.from # 0 THEN table ELSE [from |-> v, rows |-> EntryRows(v)]

(* The effect on the id of the version shown.                              *)
Copied(v) == IF v = table.from THEN table ELSE [from |-> v, rows |-> EntryRows(v)]

Rerender(known, shown) ==
  /\ knownLatest' = known
  /\ viewing' = shown
  /\ table' = Copied(Displayed(known, shown.version))
  /\ UNCHANGED <<groupLatest, proposal>>

SomeoneMerges ==
  /\ groupLatest < MaxGroupVersions
  /\ groupLatest' = groupLatest + 1
  /\ UNCHANGED <<knownLatest, viewing, table, proposal>>

LoadGroup ==
  /\ knownLatest # groupLatest
  /\ IF proposal.open
     THEN knownLatest' = groupLatest /\ UNCHANGED <<groupLatest, viewing, table, proposal>>
     ELSE Rerender(groupLatest, viewing)

OnPage == ~proposal.open /\ knownLatest > 0

(* The history may know a version before the page does.                    *)
SelectGroupHistory ==
  /\ OnPage
  /\ \E v \in 1..groupLatest :
       Rerender(knownLatest,
                IF v = knownLatest THEN [viewing EXCEPT !.version = 0]
                ELSE [viewing EXCEPT !.asked = @ \cup {v}])

ReceiveHistory ==
  /\ OnPage
  /\ \E v \in viewing.asked :
       Rerender(knownLatest, [version |-> v, asked |-> viewing.asked \ {v}])

HistoryFails ==
  /\ OnPage
  /\ \E v \in viewing.asked : Rerender(knownLatest, [viewing EXCEPT !.asked = @ \ {v}])

BackToLatest ==
  /\ OnPage /\ viewing.version # 0
  /\ Rerender(knownLatest, [viewing EXCEPT !.version = 0])

-----------------------------------------------------------------------------
ReadOnly == viewing.version # 0

EditRows(rows) ==
  /\ OnPage /\ ~ReadOnly /\ rows # table.rows
  /\ table' = [table EXCEPT !.rows = rows]
  /\ UNCHANGED <<groupLatest, knownLatest, viewing, proposal>>

HandleKeyChange ==
  \E i \in DOMAIN table.rows : EditRows([table.rows EXCEPT ![i].key = StoredKey])

HandleValueChange ==
  \E i \in DOMAIN table.rows, t \in Texts :
    /\ table.rows[i].value.type = "text"
    /\ EditRows([table.rows EXCEPT ![i].value = Text(t)])

HandleListChange ==
  \E i \in DOMAIN table.rows :
    /\ table.rows[i].value.type = "list"
    /\ \E items \in EditedItems(table.rows[i].value.items) :
         EditRows([table.rows EXCEPT ![i].value = List(items)])

(* To a list: of the text. To a text: the first item.                      *)
Converted(v) ==
  CASE v.type = "text" -> List(<<v.text>>)
    [] v.items = <<>> -> EmptyText
    [] OTHER -> Text(v.items[1])

HandleTypeChange ==
  \E i \in DOMAIN table.rows :
    EditRows([table.rows EXCEPT ![i].value = Converted(@)])

HandleDelete == \E i \in DOMAIN table.rows : EditRows(RemoveAt(table.rows, i))

HandleAdd ==
  /\ Len(table.rows) < MaxRows
  /\ EditRows(Append(table.rows, KvRow(NewKey(Len(table.rows)), EmptyText)))

(* The rows as an object: the last row of a key is what the key maps to.   *)
ToPayload(rows) ==
  {KvRow(rows[i].key, rows[i].value) :
     i \in {j \in DOMAIN rows : \A l \in DOMAIN rows : l > j => rows[l].key # rows[j].key}}

CanCreatePR ==
  /\ ~ReadOnly /\ table.rows # <<>> /\ table.rows # EntryRows(table.from)
  /\ \A i \in DOMAIN table.rows : ~Blank(table.rows[i].value)

HandleCreatePR ==
  /\ OnPage /\ CanCreatePR
  /\ proposal' = [open |-> TRUE, from |-> knownLatest, keys |-> ToPayload(table.rows),
                  sent |-> FALSE]
  /\ table' = EmptyTable
  /\ viewing' = [version |-> 0, asked |-> {}]
  /\ UNCHANGED <<groupLatest, knownLatest>>

SubmitProposal ==
  /\ proposal.open /\ ~proposal.sent
  /\ proposal' = [proposal EXCEPT !.sent = TRUE]
  /\ UNCHANGED <<groupLatest, knownLatest, viewing, table>>

(* Success and Cancel go back to the group's page, which mounts anew.      *)
LeaveProposal ==
  /\ proposal.open
  /\ proposal' = NoProposal
  /\ table' = Copied(knownLatest)
  /\ UNCHANGED <<groupLatest, knownLatest, viewing>>

ProposalFails ==
  /\ proposal.sent
  /\ proposal' = [proposal EXCEPT !.sent = FALSE]
  /\ UNCHANGED <<groupLatest, knownLatest, viewing, table>>

GroupNext ==
  \/ SomeoneMerges \/ LoadGroup \/ SelectGroupHistory \/ ReceiveHistory \/ HistoryFails
  \/ BackToLatest \/ HandleKeyChange \/ HandleValueChange \/ HandleListChange
  \/ HandleTypeChange \/ HandleDelete \/ HandleAdd
  \/ HandleCreatePR \/ SubmitProposal \/ LeaveProposal \/ ProposalFails

GroupSpec == GroupInit /\ [][GroupNext]_groupVars

-----------------------------------------------------------------------------
(* Rows that may be proposed were copied from the latest version the page  *)
(* knows: looking at a historical version, coming back, a late answer and  *)
(* a refetch never leave rows of another version behind an editable table. *)
ProposalStartsFromCurrent ==
  (OnPage /\ CanCreatePR) => table.from = knownLatest
=============================================================================
