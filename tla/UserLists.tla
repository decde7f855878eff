------------------------------- MODULE UserLists -------------------------------
(***************************************************************************)
(* The three lists of people - the members of a project, the admins of an  *)
(* environment, the holders of a role - are edited alike: a dialog         *)
(* searches for users that are not on the list and adds the one clicked,   *)
(* and every row has a button that removes its user, behind a question     *)
(* except for a role. The rows come from a query that changes under the    *)
(* open dialogs.                                                           *)
(***************************************************************************)
EXTENDS Naturals, SequencesExt

CONSTANTS
  Candidates,   \* the users there are, in the order lists show them
  MaxRequests   \* bound: requests sent, by this browser and by others

ASSUME MaxRequests \in Nat

VARIABLES
  roster,   \* which list, who may be on it, who is on the server, who is shown
  adding,   \* the add dialog: open, whether its search has answered, the request
  removing, \* the row dialog: the user asked about, its row, its user now, requests
  requests  \* requests sent

rosterVars == <<roster, adding, removing, requests>>

NoUser == "no user"
Everyone == ToSet(Candidates)
Rows(users) == SelectSeq(Candidates, LAMBDA u : u \in users)

NotAsked == [asked |-> NoUser, row |-> 0]
NotAdding == [open |-> FALSE, found |-> FALSE, sent |-> NoUser]

(* Only of a role's holders membership is required, of a role on a project *)
(* it does not let its holders read, from someone who is no superuser.     *)
RosterInit ==
  /\ \E which \in {"members", "admins", "holders"}, gate, here \in SUBSET Everyone :
       /\ which # "holders" => gate = Everyone
       /\ roster = [which |-> which, gate |-> gate, server |-> here, list |-> <<>>,
                    loaded |-> FALSE]
  /\ adding = NotAdding
  /\ removing = [dialog |-> NotAsked, sent |-> {}]
  /\ requests = 0

(* Mutant: rows are told apart by their position.                          *)
RowUserByPosition(dialog, list) ==
  IF dialog.row \in DOMAIN list THEN list[dialog.row] ELSE NoUser

(* Rows are told apart by their user: a dialog disappears with its row.    *)
RowUser(dialog, list) ==
  IF dialog.asked \in ToSet(list) THEN dialog.asked ELSE NoUser

LoadRoster ==
  /\ ~(roster.loaded /\ roster.list = Rows(roster.server))
  /\ roster' = [roster EXCEPT !.list = Rows(roster.server), !.loaded = TRUE]
  /\ removing' = [removing EXCEPT !.dialog =
                    IF RowUser(@, roster'.list) = NoUser THEN NotAsked ELSE @]
  /\ UNCHANGED <<adding, requests>>

AnyRequest == requests < MaxRequests /\ requests' = requests + 1

OthersEdit ==
  /\ AnyRequest
  /\ \E u \in Everyone :
       roster' = [roster EXCEPT !.server = IF u \in @ THEN @ \ {u} ELSE @ \cup {u}]
  /\ UNCHANGED <<adding, removing>>

-----------------------------------------------------------------------------
OpenAdd ==
  /\ roster.loaded /\ ~adding.open
  /\ adding' = [adding EXCEPT !.open = TRUE]
  /\ UNCHANGED <<roster, removing, requests>>

(* Escape and the overlay close it, a request in flight or not.            *)
CloseAdd ==
  /\ adding.open
  /\ adding' = [adding EXCEPT !.open = FALSE, !.found = FALSE]
  /\ UNCHANGED <<roster, removing, requests>>

(* The search is sent 250 ms after the last keystroke.                     *)
SearchAnswers ==
  /\ adding.open /\ ~adding.found
  /\ adding' = [adding EXCEPT !.found = TRUE]
  /\ UNCHANGED <<roster, removing, requests>>

Offers(u) == adding.open /\ adding.found /\ u \notin ToSet(roster.list) /\ u \in roster.gate

AddUser ==
  /\ adding.sent = NoUser
  /\ \E u \in Everyone : Offers(u) /\ adding' = [adding EXCEPT !.sent = u]
  /\ AnyRequest
  /\ UNCHANGED <<roster, removing>>

AddSucceeds ==
  /\ adding.sent # NoUser
  /\ roster' = [roster EXCEPT !.server = @ \cup {adding.sent}]
  /\ adding' = NotAdding
  /\ UNCHANGED <<removing, requests>>

AddFails ==
  /\ adding.sent # NoUser
  /\ adding' = [adding EXCEPT !.sent = NoUser]
  /\ roster' \in {roster, [roster EXCEPT !.server = @ \cup {adding.sent}]}
  /\ UNCHANGED <<removing, requests>>

-----------------------------------------------------------------------------
AskRemoval ==
  /\ roster.loaded /\ roster.which # "holders" /\ removing.dialog = NotAsked
  /\ \E i \in DOMAIN roster.list :
       removing' = [removing EXCEPT !.dialog = [asked |-> roster.list[i], row |-> i]]
  /\ UNCHANGED <<roster, adding, requests>>

CancelRemoval ==
  /\ removing.dialog # NotAsked
  /\ removing' = [removing EXCEPT !.dialog = NotAsked]
  /\ UNCHANGED <<roster, adding, requests>>

SendRemoval(u, confirmed) ==
  /\ u # NoUser /\ \A s \in removing.sent : s.user # u
  /\ removing' = [removing EXCEPT !.sent = @ \cup {[user |-> u, confirmed |-> confirmed]}]
  /\ AnyRequest
  /\ UNCHANGED <<roster, adding>>

HandleRemove ==
  /\ removing.dialog # NotAsked
  /\ SendRemoval(RowUser(removing.dialog, roster.list), removing.dialog.asked)

(* A role's holder is removed by one click.                                *)
RemoveHolder ==
  /\ roster.loaded /\ roster.which = "holders"
  /\ \E u \in ToSet(roster.list) : SendRemoval(u, u)

RemoveSucceeds ==
  /\ \E s \in removing.sent :
       /\ roster' = [roster EXCEPT !.server = @ \ {s.user}]
       /\ removing' = [dialog |-> IF removing.dialog.asked = s.user THEN NotAsked
                                  ELSE removing.dialog,
                       sent |-> removing.sent \ {s}]
  /\ UNCHANGED <<adding, requests>>

(* Refused, as for the last admin, or lost.                                *)
RemoveFails ==
  /\ \E s \in removing.sent :
       /\ roster' \in {roster, [roster EXCEPT !.server = @ \ {s.user}]}
       /\ removing' = [removing EXCEPT !.sent = @ \ {s}]
  /\ UNCHANGED <<adding, requests>>

RosterNext ==
  \/ LoadRoster \/ OthersEdit \/ OpenAdd \/ CloseAdd \/ SearchAnswers
  \/ AddUser \/ AddSucceeds \/ AddFails \/ AskRemoval \/ CancelRemoval
  \/ HandleRemove \/ RemoveHolder \/ RemoveSucceeds \/ RemoveFails

RosterSpec == RosterInit /\ [][RosterNext]_rosterVars

-----------------------------------------------------------------------------
(* Whoever is removed is the user the question named, although the list    *)
(* under the open dialog is reloaded and its rows move.                    *)
RemovesTheOneConfirmed == \A s \in removing.sent : s.user = s.confirmed
=============================================================================
