------------------------------ MODULE ReviewPage ------------------------------
(***************************************************************************)
(* Reviewing one pull request in the browser: the list with its two tabs,  *)
(* and the detail page, whose buttons are offered by the cached copy of    *)
(* the pull request while the author, the other reviewers and this         *)
(* reviewer's own requests under way change it on the server.              *)
(***************************************************************************)
EXTENDS Naturals

CONSTANT MaxClicks  \* bound: buttons clicked
ASSUME ClicksBound == MaxClicks \in Nat

VARIABLES
  pull,    \* the pull request on the server
  seenPull,\* its cached copy: loaded, fresh, of
  listTab, \* the list's tab, or "detail" when the pull request is open
  pressed, \* the request of each click: its button, whether it was sent, done or
           \* refused, and whether the page that sent it is still mounted
  wish,    \* approve or withdraw, whichever was clicked last; unclear, until the
           \* pull request is next fetched with no review under way, once the author
           \* has reset the approvals, the answer to a click is lost, or a button
           \* was clicked that a refetch under way may remove or that is already
           \* at work for the page as it was before it was left
  clicks

reviewVars == <<pull, seenPull, listTab, pressed, wish, clicks>>

Buttons == {"approve", "withdraw", "merge", "close"}
ActiveStatuses == {"draft", "open", "approved"}
TabStatuses(tab) ==
  IF tab = "open" THEN {"open", "approved"} ELSE {"merged", "closed"}

Clicks == 1..MaxClicks
ButtonRequest == [button : Buttons, at : {"sent", "done", "refused"}, mounted : BOOLEAN]
NotSent == [button |-> "none", at |-> "answered", mounted |-> FALSE]

UnderWay(b) == \E k \in Clicks : pressed[k].button = b
Reviewing == UnderWay("approve") \/ UnderWay("withdraw")

ReviewInit ==
  /\ pull \in [status : {"draft", "open"}, mine : {FALSE}, others : {FALSE},
               needed : {1, 2}]
  /\ seenPull = [loaded |-> FALSE, fresh |-> FALSE, of |-> pull]
  /\ listTab = "open"
  /\ pressed = [k \in Clicks |-> NotSent]
  /\ wish = "none" /\ clicks = 0

Met(p) == (p.mine /\ p.others) \/ (p.needed = 1 /\ (p.mine \/ p.others))

(* Approve evaluates the condition of an open pull request, withdrawing    *)
(* that of an approved one.                                                *)
Approved(p) == [p EXCEPT !.status = IF @ = "open" /\ Met(p) THEN "approved" ELSE @]
Withdrawn(p) == [p EXCEPT !.status = IF @ = "approved" /\ ~Met(p) THEN "open" ELSE @]

OnServer(next) ==
  /\ pull' = next
  /\ UNCHANGED <<seenPull, listTab, pressed, clicks>>

(* The author submits the draft, and stages on: an approved pull request   *)
(* goes back to review and loses its approvals.                            *)
AuthorSubmits ==
  /\ pull.status = "draft"
  /\ OnServer([pull EXCEPT !.status = "open"])
  /\ UNCHANGED wish

AuthorStages ==
  /\ pull.status = "approved"
  /\ OnServer([pull EXCEPT !.status = "open", !.mine = FALSE, !.others = FALSE])
  /\ wish' = "unclear"

OthersReview ==
  /\ pull.status \in {"open", "approved"}
  /\ OnServer(IF pull.others THEN Withdrawn([pull EXCEPT !.others = FALSE])
              ELSE Approved([pull EXCEPT !.others = TRUE]))
  /\ UNCHANGED wish

(* A sibling is merged, or someone closes it.                              *)
OthersClose ==
  /\ pull.status \in ActiveStatuses
  /\ OnServer([pull EXCEPT !.status = "closed"])
  /\ UNCHANGED wish

LoadPull ==
  /\ ~(seenPull.fresh /\ seenPull.of = pull)
  /\ seenPull' = [loaded |-> TRUE, fresh |-> TRUE, of |-> pull]
  /\ wish' = IF wish = "unclear" /\ ~Reviewing THEN "none" ELSE wish
  /\ UNCHANGED <<pull, listTab, pressed, clicks>>

SelectTab ==
  /\ listTab # "detail"
  /\ listTab' = IF listTab = "open" THEN "closed" ELSE "open"
  /\ UNCHANGED <<pull, seenPull, pressed, wish, clicks>>

(* Drafts are in neither tab.                                              *)
OpenPull ==
  /\ listTab # "detail" /\ seenPull.loaded
  /\ seenPull.of.status \in TabStatuses(listTab)
  /\ listTab' = "detail"
  /\ UNCHANGED <<pull, seenPull, pressed, wish, clicks>>

(* Requests under way go on, but the page that is opened next knows        *)
(* nothing of them.                                                        *)
BackToList ==
  /\ listTab = "detail"
  /\ listTab' = "open"
  /\ pressed' = [k \in Clicks |-> [pressed[k] EXCEPT !.mounted = FALSE]]
  /\ UNCHANGED <<pull, seenPull, wish, clicks>>

-----------------------------------------------------------------------------
(* Mutant: both review buttons are there whatever the reviewer has done.   *)
OfferedRegardless(b) ==
  CASE b \in {"approve", "withdraw"} -> seenPull.of.status \in {"open", "approved"}
    [] b = "merge" -> seenPull.of.status = "approved"
    [] OTHER -> seenPull.of.status \in ActiveStatuses

(* Who may press what is decided by the copy on screen alone.              *)
Offered(b) ==
  CASE b = "approve" -> seenPull.of.status \in {"open", "approved"} /\ ~seenPull.of.mine
    [] b = "withdraw" -> seenPull.of.status \in {"open", "approved"} /\ seenPull.of.mine
    [] b = "merge" -> seenPull.of.status = "approved"
    [] OTHER -> seenPull.of.status \in ActiveStatuses

(* A button is disabled while its own request is pending, and only in the  *)
(* page that sent it.                                                      *)
IsPending(b) == \E k \in Clicks : pressed[k].button = b /\ pressed[k].mounted

RunPRAction(b) ==
  /\ listTab = "detail" /\ Offered(b) /\ ~IsPending(b) /\ clicks < MaxClicks
  /\ clicks' = clicks + 1
  /\ pressed' = [pressed EXCEPT
                    ![clicks'] = [button |-> b, at |-> "sent", mounted |-> TRUE]]
  /\ wish' = IF b \notin {"approve", "withdraw"} THEN wish
             ELSE IF seenPull.fresh /\ ~UnderWay(b) /\ wish # "unclear" THEN b ELSE "unclear"
  /\ UNCHANGED <<pull, seenPull, listTab>>

(* The server decides for itself, on what the pull request is by then. To  *)
(* merge that of somebody else is refused, which leaves everything as it   *)
(* is, like a request that is lost on its way (ActionFails).               *)
Accepted(b) ==
  CASE b = "approve" -> pull.status \in {"open", "approved"}
    [] b = "withdraw" -> pull.mine
    [] b = "merge" -> pull.status = "approved"
    [] OTHER -> pull.status \in ActiveStatuses

Effect(b) ==
  CASE b = "approve" -> Approved([pull EXCEPT !.mine = TRUE])
    [] b = "withdraw" -> Withdrawn([pull EXCEPT !.mine = FALSE])
    [] b = "merge" -> [pull EXCEPT !.status = "merged"]
    [] OTHER -> [pull EXCEPT !.status = "closed"]

ServerActs(k) ==
  /\ pressed[k].at = "sent"
  /\ LET b == pressed[k].button IN
       /\ pull' = IF Accepted(b) THEN Effect(b) ELSE pull
       /\ pressed' = [pressed EXCEPT ![k].at = IF Accepted(b) THEN "done" ELSE "refused"]
  /\ UNCHANGED <<seenPull, listTab, wish, clicks>>

(* Success makes the copy stale, even if the page has been left; the       *)
(* button is offered as it was until the fresh copy is here.               *)
ActionSucceeds(k) ==
  /\ pressed[k].at = "done"
  /\ pressed' = [pressed EXCEPT ![k] = NotSent]
  /\ seenPull' = [seenPull EXCEPT !.fresh = FALSE]
  /\ UNCHANGED <<pull, listTab, wish, clicks>>

(* Refused, or lost on the way there or back; the copy stays.              *)
ActionFails(k) ==
  /\ pressed[k] # NotSent
  /\ pressed' = [pressed EXCEPT ![k] = NotSent]
  /\ wish' = IF pressed[k].button \in {"approve", "withdraw"} /\ pressed[k].at = "done"
             THEN "unclear"
             ELSE IF wish = pressed[k].button THEN "none" ELSE wish
  /\ UNCHANGED <<pull, seenPull, listTab, clicks>>

ReviewNext ==
  \/ AuthorSubmits \/ AuthorStages \/ OthersReview \/ OthersClose
  \/ LoadPull \/ SelectTab \/ OpenPull \/ BackToList
  \/ \E b \in Buttons : RunPRAction(b)
  \/ \E k \in Clicks : ServerActs(k) \/ ActionSucceeds(k) \/ ActionFails(k)

ReviewSpec == ReviewInit /\ [][ReviewNext]_reviewVars

-----------------------------------------------------------------------------
(* Approve and Withdraw Approval may both be under way, and their requests *)
(* overtake each other. Once they are through, the reviewer's approval is  *)
(* what the button clicked last asked for: each is offered only by a copy  *)
(* that shows what the other one did. Four things undo this, and until the *)
(* next fetch with no review under way nothing is claimed after them: the  *)
(* author resets the approvals; the answer to a click is lost; a click is  *)
(* made before the copy that an earlier one outdated has been replaced;    *)
(* the page is left, opened anew, and a button clicked whose request of    *)
(* before is still under way. That second request may arrive last of all.  *)
LastReviewClickDecides ==
  (wish \in {"approve", "withdraw"} /\ ~Reviewing) => pull.mine = (wish = "approve")
=============================================================================
