------------------------------- MODULE EnvValues -------------------------------
(***************************************************************************)
(* Setting one template variable for one environment in the workspace. The *)
(* page knows the variable from the saved templates and from the bodies    *)
(* staged in the draft, its value from the staged values or else the live  *)
(* ones, and lets it be a text, a list of texts, or a reference ${g.k} to  *)
(* a key of a Global Values group. Every query that brings something new   *)
(* seeds the form again. (The other variables of the page are rows like    *)
(* this one.)                                                              *)
(***************************************************************************)
EXTENDS ListItems

CONSTANT KeyKinds  \* the keys of the groups: <<group, key, "string" or "list">>

NoName == ""

(* A reference names its key: \w+ in the pattern that recognises one.       *)
ASSUME KeysAreNamed == \A k \in KeyKinds : k[2] # NoName

VARIABLES
  known,   \* the queries' copies: loaded, saved, drafted, staged, live
  form,    \* payload, refMode and refState of the variable
  saving   \* a stage request is in flight

valuesVars == <<known, form, saving>>

Reference(g, k) == [type |-> "reference", group |-> g, key |-> k]
Unset == [type |-> "unset"]       \* there are values, without this variable
NoValues == [type |-> "none"]     \* there are no values at all

IsReference(v) == v.type = "reference"
SomeReference == {Reference(k[1], k[2]) : k \in KeyKinds}
StoredValues == {NoValues, Unset, Text("t"), List(<<"t">>)} \cup SomeReference

(* How templates use the variable: not at all, printed, ranged over, both. *)
Kinds == {"unused", "string", "list", "conflict"}

(* The bodies staged in the draft only count for a variable that no saved  *)
(* template uses.                                                          *)
Kind(k) == IF k.saved # "unused" THEN k.saved ELSE k.drafted

ToListItems(v) ==
  CASE v.type = "list" -> v
    [] v = EmptyText -> List(<<>>)
    [] OTHER -> List(<<v.text>>)

NoKeyChosen == [group |-> NoName, key |-> NoName]
FormOf(payload) == [payload |-> payload, refMode |-> FALSE, ref |-> NoKeyChosen]

(* A variable that is not set starts as its template's default, a text.    *)
Seed(k) ==
  LET source == IF k.staged # NoValues THEN k.staged ELSE k.live
      raw    == IF source \in {NoValues, Unset} THEN EmptyText ELSE source
  IN IF IsReference(raw)
     THEN [payload |-> raw, refMode |-> TRUE, ref |-> [group |-> raw.group, key |-> raw.key]]
     ELSE FormOf(IF Kind(k) = "list" THEN ToListItems(raw) ELSE raw)

ValuesInit ==
  /\ known = [loaded |-> FALSE, saved |-> "unused", drafted |-> "unused",
              staged |-> NoValues, live |-> NoValues]
  /\ form = FormOf(Unset)
  /\ saving = FALSE

(* Mutant: the effect looks at the two sources of values only.             *)
NewValues(old, new) == old.staged # new.staged \/ old.live # new.live

(* The effect's dependencies: the variables, the draft, the live values.   *)
NewInputs(old, new) == old # new

Refetched(k) ==
  /\ k # known
  /\ known' = k
  /\ form' = IF NewInputs(known, k) /\ Kind(k) # "unused" THEN Seed(k) ELSE form
  /\ UNCHANGED saving

LoadVariables ==
  \E kind \in Kinds : Refetched([known EXCEPT !.loaded = TRUE, !.saved = kind])

(* The draft may have been changed in another tab, merged or closed.       *)
LoadDraftValues ==
  \E kind \in Kinds, v \in StoredValues :
    Refetched([known EXCEPT !.drafted = kind, !.staged = v])

LoadLiveValues == \E v \in StoredValues : Refetched([known EXCEPT !.live = v])

-----------------------------------------------------------------------------
VariableKind == Kind(known)
Editable == known.loaded /\ VariableKind \in {"string", "list"}

Fill(next) ==
  /\ Editable /\ next # form
  /\ form' = next
  /\ UNCHANGED <<known, saving>>

(* What is typed into a text may itself look like a reference.             *)
HandleChange ==
  /\ ~form.refMode /\ VariableKind = "string"
  /\ \E v \in {Text(t) : t \in Texts} \cup SomeReference :
       Fill([form EXCEPT !.payload = v])

Items == IF form.payload.type = "list" THEN form.payload.items ELSE <<>>
EditList ==
  /\ ~form.refMode /\ VariableKind = "list"
  /\ \E items \in EditedItems(Items) : Fill([form EXCEPT !.payload = List(items)])

ToggleRef ==
  Fill(IF form.refMode
       THEN FormOf(IF VariableKind = "list" THEN List(<<>>) ELSE EmptyText)
       ELSE [form EXCEPT !.refMode = TRUE, !.payload = EmptyText])

(* Mutant: choosing a group keeps what was built for the old one.          *)
KeepPayload(g) == [form EXCEPT !.ref = [group |-> g, key |-> NoName]]

ChooseGroup(g) ==
  [form EXCEPT !.ref = [group |-> g, key |-> NoName], !.payload = EmptyText]

SelectGroup ==
  /\ form.refMode
  /\ \E g \in {k[1] : k \in KeyKinds} \ {form.ref.group} : Fill(ChooseGroup(g))

(* Only keys of the variable's own kind are offered.                       *)
SelectKey ==
  /\ form.refMode
  /\ \E k \in {p \in KeyKinds : p[1] = form.ref.group /\ p[3] = VariableKind} :
       Fill([form EXCEPT !.ref.key = k[2], !.payload = Reference(k[1], k[2])])

CanSave == Editable /\ form.payload # Unset /\ ~Blank(form.payload)

SaveToDraft ==
  /\ CanSave /\ ~saving
  /\ saving' = TRUE
  /\ UNCHANGED <<known, form>>

(* Success brings a refetch of the draft, failure a toast; what was typed  *)
(* meanwhile is overwritten by that refetch.                               *)
SaveAnswered ==
  /\ saving /\ saving' = FALSE
  /\ UNCHANGED <<known, form>>

ValuesNext ==
  \/ LoadVariables \/ LoadDraftValues \/ LoadLiveValues
  \/ HandleChange \/ EditList \/ ToggleRef \/ SelectGroup \/ SelectKey
  \/ SaveToDraft \/ SaveAnswered

ValuesSpec == ValuesInit /\ [][ValuesNext]_valuesVars

-----------------------------------------------------------------------------
(* The page keeps what it saves (payload) apart from what its selectors    *)
(* show (refState). They agree: in reference mode what is saved is the     *)
(* reference the two selectors show, and nothing while no key is chosen,   *)
(* through every toggle, change of group and refetch.                      *)
SelectorsShowWhatIsSaved ==
  form.refMode =>
    form.payload = IF form.ref.key = NoName THEN EmptyText
                   ELSE Reference(form.ref.group, form.ref.key)

(* A variable that templates range over is staged as a list or as a        *)
(* reference, also when it becomes a list by a refetch while its text is   *)
(* on screen.                                                              *)
ListVariablesAreStagedAsLists ==
  (CanSave /\ VariableKind = "list") => form.payload.type \in {"list", "reference"}
=============================================================================
