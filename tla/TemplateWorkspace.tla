--------------------------- MODULE TemplateWorkspace ---------------------------
(***************************************************************************)
(* Editing one template in the workspace of a project: its row in the      *)
(* list, the editor seeded from the staged change or else the live body,   *)
(* the version history whose bodies arrive late, the dialog that stages a  *)
(* new template, and the dialog that submits the draft. The editor's       *)
(* document lives outside the component's state and is replaced only by    *)
(* the effect and by the version handler.                                  *)
(***************************************************************************)
EXTENDS Naturals

CONSTANTS
  MaxLive,    \* bound: live versions of the template
  MaxChanges  \* bound: changes staged for it

ASSUME WorkspaceBounds == MaxLive \in Nat \ {0} /\ MaxChanges \in Nat

VARIABLES
  workspace,  \* the server: live version, staged change (0 is none), status, last
  cached,     \* the queries' copies: list, detail, draft
  textEditor, \* the editor: editing, at, doc, locked, readOnly, asked
  staging,    \* the request that stages the template: editor, dialog or none
  dialogs     \* the dialogs: create open, submit open, submitting, invalid

workspaceVars == <<workspace, cached, textEditor, staging, dialogs>>

NoDraft == [status |-> "none", change |-> 0]
Live(n) == [of |-> "live", id |-> n]
Change(id) == [of |-> "change", id |-> id]
NoDoc == [body |-> Live(0), history |-> FALSE, typed |-> FALSE]

(* at names what the editor was made for: the row, and the dependencies of *)
(* its effect.                                                             *)
Unmounted ==
  [at |-> <<"none", 0, 0>>, doc |-> NoDoc, locked |-> FALSE, readOnly |-> FALSE,
   asked |-> {}]

WorkspaceInit ==
  /\ workspace = [live |-> MaxLive - 1, draft |-> NoDraft, last |-> 0]
  /\ cached = [list |-> MaxLive - 1, detail |-> 0, draft |-> NoDraft]
  /\ textEditor = [editing |-> FALSE, view |-> Unmounted]
  /\ staging = [by |-> "none", doc |-> NoDoc]
  /\ dialogs = [create |-> FALSE, submit |-> FALSE, submitting |-> FALSE, invalid |-> FALSE]

(* The row of the template: live, staged and not yet live, or absent.      *)
Row(c) ==
  IF c.list > 0 THEN "live" ELSE IF c.draft.change > 0 THEN "staged" ELSE "none"

HasBody(c) == c.draft.change > 0 \/ c.detail > 0
InitialBody(c) == IF c.draft.change > 0 THEN Change(c.draft.change) ELSE Live(c.detail)
FreshDoc(c) == [body |-> InitialBody(c), history |-> FALSE, typed |-> FALSE]

(* Mutant: the effect does not depend on the staged change.                *)
DependenciesOfTemplate(c) == <<Row(c), c.detail, 0>>

(* A row id of the template is the id of its version.                      *)
Dependencies(c) == <<Row(c), c.detail, c.draft.change>>

(* After a render: the editor is unmounted with its row, mounted with it,  *)
(* and its effect makes a new document when a dependency changes. The      *)
(* state isReadOnly is not part of the effect. When there is nothing to    *)
(* show any more the document is off the screen, but stays what is saved.  *)
Rendered(ed, c) ==
  LET mounted == IF ed.view.at[1] = Row(c) THEN ed.view ELSE Unmounted
  IN IF ~ed.editing \/ Row(c) = "none" THEN [ed EXCEPT !.view = Unmounted]
     ELSE IF ed.view.at = Dependencies(c) THEN ed
     ELSE [ed EXCEPT !.view =
            [mounted EXCEPT !.at = Dependencies(c),
               !.doc = IF HasBody(c) THEN FreshDoc(c) ELSE @,
               !.locked = IF HasBody(c) THEN FALSE ELSE @]]

Show(c) == cached' = c /\ textEditor' = Rendered(textEditor, c)

-----------------------------------------------------------------------------
(* Others merge a version; the own draft is closed by that, merged, closed.*)
OthersMerge ==
  /\ workspace.live < MaxLive
  /\ workspace' = [workspace EXCEPT !.live = @ + 1, !.draft = NoDraft]
  /\ UNCHANGED <<cached, textEditor, staging, dialogs>>

DraftCloses ==
  /\ workspace.draft # NoDraft
  /\ workspace' = [workspace EXCEPT !.draft = NoDraft]
  /\ UNCHANGED <<cached, textEditor, staging, dialogs>>

LoadTemplates ==
  /\ cached.list # workspace.live
  /\ Show([cached EXCEPT !.list = workspace.live])
  /\ UNCHANGED <<workspace, staging, dialogs>>

LoadTemplate ==
  /\ textEditor.view # Unmounted /\ cached.detail # workspace.live
  /\ Show([cached EXCEPT !.detail = workspace.live])
  /\ UNCHANGED <<workspace, staging, dialogs>>

LoadDraft ==
  /\ cached.draft # workspace.draft
  /\ Show([cached EXCEPT !.draft = workspace.draft])
  /\ UNCHANGED <<workspace, staging, dialogs>>

(* Validation is asked for only while there is a draft with changes; until *)
(* its answer comes the draft passes for valid.                            *)
IsDraftWithChanges == cached.draft.status = "draft" /\ cached.draft.change > 0

Validate ==
  /\ IsDraftWithChanges
  /\ dialogs' = [dialogs EXCEPT !.invalid = ~@]
  /\ UNCHANGED <<workspace, cached, textEditor, staging>>

ToggleEditing ==
  /\ Row(cached) # "none"
  /\ textEditor' = Rendered([editing |-> ~textEditor.editing, view |-> Unmounted], cached)
  /\ UNCHANGED <<workspace, cached, staging, dialogs>>

View(next) ==
  /\ textEditor' = [textEditor EXCEPT !.view = next]
  /\ UNCHANGED <<workspace, cached, staging, dialogs>>

HasDocument == textEditor.view.doc # NoDoc

Type ==
  /\ HasDocument /\ HasBody(cached) /\ ~textEditor.view.locked
  /\ View([textEditor.view EXCEPT !.doc.typed = TRUE])

-----------------------------------------------------------------------------
(* Mutant: the document is replaced and locked, the flag is not set.       *)
ArrivesUnflagged(v) ==
  View([textEditor.view EXCEPT
          !.asked = @ \ {v}, !.locked = HasDocument,
          !.doc = IF HasDocument THEN [body |-> Live(v), history |-> TRUE, typed |-> FALSE]
                  ELSE @])

Ask(v) == View([textEditor.view EXCEPT !.asked = @ \cup {v}])

(* handleSelectVersion: the latest version is shown at once, any other one *)
(* when its body arrives, in whatever order the answers come. (Which one   *)
(* the history highlights is not modelled.)                                *)
HandleSelectVersion(v) ==
  IF v = cached.detail
  THEN View([textEditor.view EXCEPT
               !.readOnly = FALSE,
               !.doc = IF HasDocument THEN FreshDoc(cached) ELSE @,
               !.locked = IF HasDocument THEN FALSE ELSE @])
  ELSE Ask(v)

PickVersion ==
  /\ Row(cached) = "live" /\ cached.detail > 0 /\ textEditor.view # Unmounted
  /\ \E v \in 1..workspace.live : HandleSelectVersion(v)

ReturnToLatest ==
  /\ textEditor.view.readOnly /\ cached.detail > 0
  /\ HandleSelectVersion(cached.detail)

VersionArrives(v) ==
  View([textEditor.view EXCEPT
          !.asked = @ \ {v}, !.readOnly = TRUE, !.locked = HasDocument,
          !.doc = IF HasDocument THEN [body |-> Live(v), history |-> TRUE, typed |-> FALSE]
                  ELSE @])

ReceiveVersion == \E v \in textEditor.view.asked : VersionArrives(v)

VersionFails ==
  \E v \in textEditor.view.asked : View([textEditor.view EXCEPT !.asked = @ \ {v}])

-----------------------------------------------------------------------------
Stage(by, doc) ==
  /\ staging.by = "none"
  /\ staging' = [by |-> by, doc |-> doc]
  /\ UNCHANGED <<workspace, cached, textEditor, dialogs>>

HandleSave ==
  /\ HasDocument /\ ~textEditor.view.readOnly
  /\ Stage("editor", textEditor.view.doc)

(* New Template, here always with the name of the template followed.       *)
CreateTemplate ==
  /\ dialogs.create
  /\ Stage("dialog", [NoDoc EXCEPT !.typed = TRUE])

Dialogs(next) ==
  /\ next # dialogs /\ dialogs' = next
  /\ UNCHANGED <<workspace, cached, textEditor, staging>>

ToggleCreateDialog == Dialogs([dialogs EXCEPT !.create = ~@])

(* The server replaces the staged change of the template; an approved or   *)
(* open pull request takes it too.                                         *)
Staged ==
  [workspace EXCEPT
     !.last = @ + 1,
     !.draft = [status |-> IF @.status = "none" THEN "draft" ELSE @.status,
                change |-> workspace.last + 1]]

StageSucceeds ==
  /\ staging.by # "none" /\ workspace.last < MaxChanges
  /\ workspace' = Staged
  /\ dialogs' = [dialogs EXCEPT !.create = @ /\ staging.by # "dialog"]
  /\ staging' = [by |-> "none", doc |-> NoDoc]
  /\ UNCHANGED <<cached, textEditor>>

StageFails ==
  /\ staging.by # "none"
  /\ workspace' \in {workspace} \cup (IF workspace.last < MaxChanges THEN {Staged} ELSE {})
  /\ staging' = [by |-> "none", doc |-> NoDoc]
  /\ UNCHANGED <<cached, textEditor, dialogs>>

OpenSubmit ==
  /\ IsDraftWithChanges /\ ~dialogs.invalid
  /\ Dialogs([dialogs EXCEPT !.submit = TRUE])

CancelSubmit == Dialogs([dialogs EXCEPT !.submit = FALSE])

HandleSubmit ==
  /\ dialogs.submit /\ ~dialogs.submitting /\ ~dialogs.invalid
  /\ cached.draft # NoDraft
  /\ Dialogs([dialogs EXCEPT !.submitting = TRUE])

SubmitSucceeds ==
  /\ dialogs.submitting /\ workspace.draft.status = "draft"
  /\ workspace' = [workspace EXCEPT !.draft.status = "open"]
  /\ dialogs' = [dialogs EXCEPT !.submit = FALSE, !.submitting = FALSE]
  /\ UNCHANGED <<cached, textEditor, staging>>

SubmitFails ==
  /\ dialogs.submitting
  /\ Dialogs([dialogs EXCEPT !.submitting = FALSE])

WorkspaceNext ==
  \/ OthersMerge \/ DraftCloses \/ LoadTemplates \/ LoadTemplate \/ LoadDraft \/ Validate
  \/ ToggleEditing \/ Type \/ PickVersion \/ ReturnToLatest \/ ReceiveVersion \/ VersionFails
  \/ HandleSave \/ CreateTemplate \/ ToggleCreateDialog \/ StageSucceeds \/ StageFails
  \/ OpenSubmit \/ CancelSubmit \/ HandleSubmit \/ SubmitSucceeds \/ SubmitFails

WorkspaceSpec == WorkspaceInit /\ [][WorkspaceNext]_workspaceVars

-----------------------------------------------------------------------------
(* An old version shown for reading is never staged as an edit, however    *)
(* choices, late answers and refetches are interleaved.                    *)
OldVersionsAreNotSaved == ~staging.doc.history

(* A document nobody has typed in and that may be saved is the staged body *)
(* or else the live one the page knows: saving it can only restage what is *)
(* there. (Not so when the draft is closed before the live template has    *)
(* been loaded: then there is no body to show.)                            *)
UntouchedEditorShowsCurrent ==
  LET view == textEditor.view
  IN (HasDocument /\ HasBody(cached) /\ ~view.readOnly /\ ~view.doc.typed) =>
       view.doc.body = InitialBody(cached)
=============================================================================
