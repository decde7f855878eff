----------------------------- MODULE ReviewDiffs -----------------------------
(***************************************************************************)
(* What a reviewer is shown of a change: the cards of the pull request     *)
(* page, of the page that proposes a group's values and of a deployment's  *)
(* rendered output (pr-detail-page.tsx, create-pr.tsx, diff-viewer.tsx).   *)
(*                                                                         *)
(* A text is the sequence of its lines, at least one.  A payload maps some *)
(* of the keys to a value, a text or a list.                               *)
(***************************************************************************)
EXTENDS Naturals, Sequences, FiniteSets, FiniteSetsExt, Selection

CONSTANTS Lines,     \* the lines texts are made of
          MaxLines,  \* bound: lines of a text
          ValueKeys, \* the keys payloads map
          Others     \* bound: versions others add to what a change replaces

ASSUME MaxLines \in Nat
ASSUME OthersAssumption == Others \in Nat

VARIABLES card,      \* the card on the page
          stored,    \* server: what the change replaces, and its version
          fetched    \* the same in the query cache, or not there yet

diffVars == <<card, stored, fetched>>

Bodies == UNION {[1..n -> Lines] : n \in 1..MaxLines}
Values == {[list |-> FALSE, text |-> "a"], [list |-> FALSE, text |-> "[a]"],
           [list |-> TRUE, text |-> "a"]}
Payloads == UNION {[keys -> Values] : keys \in SUBSET ValueKeys}
NoPayload == [k \in {} |-> Values]

\* A group holds its payload under its own name, under another, or under both.
GroupEntries == UNION {[names -> Payloads] : names \in SUBSET {"own", "other"}}

---------------------------------------------------------------------------
\* Mutant: the lines the longer text has more are left out.
TemplateDiffOfShorter(current, proposed) ==
  [i \in 1..Min({Len(current), Len(proposed)}) |->
     IF current[i] = proposed[i] THEN [type |-> "context", old |-> current[i], new |-> current[i]]
     ELSE [type |-> "changed", old |-> current[i], new |-> proposed[i]]]

\* The cards of a pull request: line by line, by position.
TemplateDiff(current, proposed) ==
  [i \in 1..Max({Len(current), Len(proposed)}) |->
     IF i > Len(current) THEN [type |-> "added", new |-> proposed[i]]
     ELSE IF i > Len(proposed) THEN [type |-> "removed", old |-> current[i]]
     ELSE [type |-> IF current[i] = proposed[i] THEN "context" ELSE "changed",
           old |-> current[i], new |-> proposed[i]]]

\* The only entry the page compares with.
CurrentEntry(entries) ==
  IF DOMAIN entries = {} THEN NoPayload
  ELSE IF "own" \in DOMAIN entries THEN entries["own"] ELSE entries["other"]

\* A value as it is printed: a list as JSON, which a text may spell as well.
FormatVal(v) == IF v.list THEN "[a]" ELSE v.text

AllKeys(current, proposed) == DOMAIN current \cup DOMAIN proposed

KvDiff(current, proposed) ==
  [key \in AllKeys(current, proposed) |->
     IF key \notin DOMAIN current THEN "added"
     ELSE IF key \notin DOMAIN proposed THEN "removed"
     ELSE IF FormatVal(current[key]) # FormatVal(proposed[key]) THEN "changed"
     ELSE "unchanged"]

\* The parts of one side, and of both.
SideOf(parts, type) == {i \in DOMAIN parts : parts[i].type \in {"context", type}}

\* The diff library: parts of one kind each, which read back to both texts.
DiffLines(old, new) ==
  {parts \in UNION {[1..n -> [type : {"context", "added", "removed"}, content : Lines]]
                      : n \in 1..(Len(old) + Len(new))} :
     /\ LET side(type) == Select(parts, SideOf(parts, type))
        IN  /\ Len(side("removed")) = Len(old) /\ Len(side("added")) = Len(new)
            /\ \A i \in DOMAIN old : side("removed")[i].content = old[i]
            /\ \A i \in DOMAIN new : side("added")[i].content = new[i]}

\* Each side's lines are numbered by that side's own counter.
LineNo(parts, i, type) ==
  IF i \in SideOf(parts, type) THEN Rank(SideOf(parts, type), i) ELSE 0
Numbered(parts) ==
  [i \in DOMAIN parts |-> [type |-> parts[i].type, content |-> parts[i].content,
                           oldLineNo |-> LineNo(parts, i, "removed"),
                           newLineNo |-> LineNo(parts, i, "added")]]

---------------------------------------------------------------------------
\* Which card a change gets, and what it may hold.
ChangeCards ==
  [type : {"template"}, proposed : Bodies]
    \cup [type : {"global_values", "values"}, proposed : Payloads]
    \cup [type : {"environment"}, proposed : {NoPayload}]
    \cup [type : {"output"}, proposed : Bodies]

Contents(type) ==
  CASE type \in {"template", "output"} -> Bodies
    [] type = "global_values" -> GroupEntries
    [] type = "values" -> Payloads
    [] OTHER -> {NoPayload}

\* The version a pull request was made for: a group's is pinned, and of a project's
\* pull requests the merge of one closes the others.
Base == 1

\* Nothing fetched: no template body is an empty text, no group no payload.
Unfetched == [known |-> FALSE]
Known(what) == [known |-> TRUE, version |-> what.version, content |-> what.content]

\* A change of an environment's values gets the card of a group's, which asks for
\* a group only: what these values are is not fetched.
Fetched == {"template", "global_values", "output"}

\* The cache may hold what another page fetched before the change was proposed.
DiffInit ==
  /\ card \in ChangeCards
  /\ stored \in [version : {Base}, content : Contents(card.type)]
  /\ \/ fetched = Unfetched
     \/ /\ card.type \in Fetched
        /\ \E older \in Contents(card.type) :
             fetched = Known([version |-> Base - 1, content |-> older])

LoadCurrent ==
  /\ card.type \in Fetched
  /\ fetched' = Known(stored)
  /\ UNCHANGED <<card, stored>>

\* Someone appends a version to the group, or merges a pull request of their own.
CurrentChanges ==
  /\ stored.version < Base + Others
  /\ stored' \in [version : {stored.version + 1}, content : Contents(card.type)]
  /\ UNCHANGED <<card, fetched>>

\* What a merge makes of the current content: a snapshot replaces a body, and the
\* group's entry of its own name; the other entries are carried over.
Merged(content) ==
  IF card.type = "global_values"
  THEN [name \in DOMAIN content \cup {"own"} |->
          IF name = "own" THEN card.proposed ELSE content[name]]
  ELSE card.proposed

\* Mutant: the base is not compared with the latest version.
MergeRegardless ==
  /\ card.type \in {"template", "global_values"}
  /\ stored' = [version |-> stored.version + 1, content |-> Merged(stored.content)]
  /\ UNCHANGED <<card, fetched>>

\* The pull request is merged, unless it is conflicted or closed by now.
MergeChange ==
  /\ card.type \in {"template", "global_values"}
  /\ stored.version = Base
  /\ stored' = [version |-> stored.version + 1, content |-> Merged(stored.content)]
  /\ UNCHANGED <<card, fetched>>

DiffNext == LoadCurrent \/ CurrentChanges \/ MergeChange

DiffSpec == DiffInit /\ [][DiffNext]_diffVars

---------------------------------------------------------------------------
\* What the page compares with.
CurrentBody == IF fetched.known THEN fetched.content ELSE <<"">>
CurrentPayload == IF fetched.known THEN CurrentEntry(fetched.content) ELSE NoPayload

OldSide(lines) == Select(lines, {i \in DOMAIN lines : lines[i].type # "added"})
NewSide(lines) == Select(lines, {i \in DOMAIN lines : lines[i].type # "removed"})

\* The lines of a template's card read back to both texts, whichever is longer,
\* and those of a deployment's output carry each side's line numbers without a
\* gap (pr-detail-page.tsx:52-60, diff-viewer.tsx:72-96).
DiffsReadBack ==
  /\ card.type = "template" =>
       LET lines == TemplateDiff(CurrentBody, card.proposed)
       IN  /\ [i \in DOMAIN OldSide(lines) |-> OldSide(lines)[i].old] = CurrentBody
           /\ [i \in DOMAIN NewSide(lines) |-> NewSide(lines)[i].new] = card.proposed
  /\ card.type = "output" /\ fetched.known =>
       \A parts \in DiffLines(fetched.content, card.proposed) :
         \A i \in DOMAIN parts :
           LET line == Numbered(parts)[i]
           IN  /\ line.oldLineNo # 0 => line.content = fetched.content[line.oldLineNo]
               /\ line.newLineNo # 0 => line.content = card.proposed[line.newLineNo]

\* A key of a payload as it is printed, or missing.
Printed(payload, key) ==
  IF key \in DOMAIN payload THEN <<FormatVal(payload[key])>> ELSE <<>>

\* What was on screen for a reviewer is what the merge does, if the card was fetched
\* since the pull request was made and however long before the merge: the body it
\* compares with is the one replaced, and the rows that are not greyed are the keys
\* of the group that come to be printed differently. The page compares one entry of
\* a group, and this is so of groups that have their own entry or none at all, as
\* every group made in the frontend does (pr-detail-page.tsx:121-162 against
\* pull_requests.go:871-917).
MergeDoesWhatWasShown ==
  (MergeChange /\ fetched.known /\ fetched.version >= Base) =>
    /\ card.type = "template" => CurrentBody = stored.content
    /\ card.type = "global_values" /\ DOMAIN stored.content # {"other"} =>
         LET rows == KvDiff(CurrentPayload, card.proposed)
             before == CurrentEntry(stored.content)
             after == CurrentEntry(stored'.content)
             shown(key) == key \in DOMAIN rows /\ rows[key] # "unchanged"
         IN  \A key \in ValueKeys :
               shown(key) <=> Printed(before, key) # Printed(after, key)

MergesDoWhatWasShown == [][MergeDoesWhatWasShown]_diffVars
=============================================================================
