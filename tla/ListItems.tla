------------------------------- MODULE ListItems -------------------------------
(***************************************************************************)
(* Values that are a text or a list of texts, and the list editor that the *)
(* Global Values page and the environment page share.                      *)
(***************************************************************************)
EXTENDS Naturals, SequencesExt

CONSTANT MaxItems  \* bound: items of an edited list
ASSUME MaxItems \in Nat

Empty == ""
Texts == {Empty, "t"}
Text(t) == [type |-> "text", text |-> t]
EmptyText == Text(Empty)
List(items) == [type |-> "list", items |-> items]

(* Blocks saving: a blank text, an empty list, a list with a blank item.   *)
Blank(v) ==
  \/ v \in {EmptyText, List(<<>>)}
  \/ v.type = "list" /\ \E i \in DOMAIN v.items : v.items[i] = Empty

(* What one click or keystroke makes of a list.                            *)
EditedItems(items) ==
  {ReplaceAt(items, i, t) : i \in DOMAIN items, t \in Texts}
  \cup {RemoveAt(items, i) : i \in DOMAIN items}
  \cup (IF Len(items) < MaxItems THEN {Append(items, Empty)} ELSE {})
=============================================================================
