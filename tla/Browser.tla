-------------------------------- MODULE Browser --------------------------------
(***************************************************************************)
(* The frontend as a whole: the router shows one page of the application   *)
(* at a time (App.tsx), and a page's state is its own: it is made when the *)
(* page is mounted and gone when another one is shown. What pages share,   *)
(* the query cache and the session, is followed by two modules of its own. *)
(*                                                                         *)
(* So a behaviour of the frontend is a behaviour of the page that is       *)
(* opened; the others are not there and stay as they are.                  *)
(***************************************************************************)
EXTENDS RoleEditor, RoleRoundTrip, MemberPermissions, UserLists, PolicyEditor,
        TemplateWorkspace, EnvValues, GroupEditor, DeployPage,
        ReviewPage, ReviewDiffs, Session, LoginForm, QueryCache

VARIABLE opened  \* the part of the frontend that is followed

PageNames ==
  {"roles", "role data", "permissions", "lists", "policy", "templates", "values",
   "group", "deploy", "review", "diffs", "session", "login", "cache"}

vars == <<opened, roleVars, roundTripVars, permsVars, rosterVars, policyVars,
          workspaceVars, valuesVars, groupVars, deployVars, reviewVars, diffVars,
          sessionVars, formVars, cacheVars>>

(* A page that is not opened has one state.                                *)
Init ==
  /\ opened \in PageNames
  /\ RoleInit
  /\ opened # "roles" => role = Absent
  /\ RoundTripInit
  /\ opened # "role data" => original = {}
  /\ PermsInit
  /\ opened # "permissions" => envRows = {}
  /\ RosterInit
  /\ opened # "lists" => roster.which = "members" /\ roster.server = {}
  /\ PolicyInit
  /\ opened # "policy" => owner.kind = "project" /\ ~owner.exists
  /\ WorkspaceInit /\ ValuesInit /\ GroupInit /\ DeployInit
  /\ ReviewInit
  /\ opened # "review" => pull.status = "draft" /\ pull.needed = 1
  /\ DiffInit
  /\ opened # "diffs" => card.type = "environment"
  /\ SessionInit
  /\ opened # "session" => path = "app" /\ cookie = Nobody /\ token = Nobody
  /\ FormInit
  /\ CacheInit
  /\ opened # "cache" => query = RoleQuery

RolesPage ==
  /\ opened = "roles" /\ RoleNext
  /\ UNCHANGED <<opened, roundTripVars, permsVars, rosterVars, policyVars, workspaceVars,
                 valuesVars, groupVars, deployVars, reviewVars, diffVars, sessionVars,
                 formVars, cacheVars>>

RoleData ==
  /\ opened = "role data" /\ RoundTripNext
  /\ UNCHANGED <<opened, roleVars, permsVars, rosterVars, policyVars, workspaceVars,
                 valuesVars, groupVars, deployVars, reviewVars, diffVars, sessionVars,
                 formVars, cacheVars>>

MemberPermissionsPage ==
  /\ opened = "permissions" /\ PermsNext
  /\ UNCHANGED <<opened, roleVars, roundTripVars, rosterVars, policyVars, workspaceVars,
                 valuesVars, groupVars, deployVars, reviewVars, diffVars, sessionVars,
                 formVars, cacheVars>>

ListsOfUsers ==
  /\ opened = "lists" /\ RosterNext
  /\ UNCHANGED <<opened, roleVars, roundTripVars, permsVars, policyVars, workspaceVars,
                 valuesVars, groupVars, deployVars, reviewVars, diffVars, sessionVars,
                 formVars, cacheVars>>

PolicyForms ==
  /\ opened = "policy" /\ PolicyNext
  /\ UNCHANGED <<opened, roleVars, roundTripVars, permsVars, rosterVars, workspaceVars,
                 valuesVars, groupVars, deployVars, reviewVars, diffVars, sessionVars,
                 formVars, cacheVars>>

WorkspaceProjectPage ==
  /\ opened = "templates" /\ WorkspaceNext
  /\ UNCHANGED <<opened, roleVars, roundTripVars, permsVars, rosterVars, policyVars,
                 valuesVars, groupVars, deployVars, reviewVars, diffVars, sessionVars,
                 formVars, cacheVars>>

WorkspaceEnvPage ==
  /\ opened = "values" /\ ValuesNext
  /\ UNCHANGED <<opened, roleVars, roundTripVars, permsVars, rosterVars, policyVars,
                 workspaceVars, groupVars, deployVars, reviewVars, diffVars, sessionVars,
                 formVars, cacheVars>>

GlobalValuesPage ==
  /\ opened = "group" /\ GroupNext
  /\ UNCHANGED <<opened, roleVars, roundTripVars, permsVars, rosterVars, policyVars,
                 workspaceVars, valuesVars, deployVars, reviewVars, diffVars, sessionVars,
                 formVars, cacheVars>>

DeploymentPage ==
  /\ opened = "deploy" /\ DeployNext
  /\ UNCHANGED <<opened, roleVars, roundTripVars, permsVars, rosterVars, policyVars,
                 workspaceVars, valuesVars, groupVars, reviewVars, diffVars, sessionVars,
                 formVars, cacheVars>>

PullRequestPage ==
  /\ opened = "review" /\ ReviewNext
  /\ UNCHANGED <<opened, roleVars, roundTripVars, permsVars, rosterVars, policyVars,
                 workspaceVars, valuesVars, groupVars, deployVars, diffVars, sessionVars,
                 formVars, cacheVars>>

ChangeCard ==
  /\ opened = "diffs" /\ DiffNext
  /\ UNCHANGED <<opened, roleVars, roundTripVars, permsVars, rosterVars, policyVars,
                 workspaceVars, valuesVars, groupVars, deployVars, reviewVars, sessionVars,
                 formVars, cacheVars>>

AuthProvider ==
  /\ opened = "session" /\ SessionNext
  /\ UNCHANGED <<opened, roleVars, roundTripVars, permsVars, rosterVars, policyVars,
                 workspaceVars, valuesVars, groupVars, deployVars, reviewVars, diffVars,
                 formVars, cacheVars>>

LoginPage ==
  /\ opened = "login" /\ FormNext
  /\ UNCHANGED <<opened, roleVars, roundTripVars, permsVars, rosterVars, policyVars,
                 workspaceVars, valuesVars, groupVars, deployVars, reviewVars, diffVars,
                 sessionVars, cacheVars>>

QueryClient ==
  /\ opened = "cache" /\ CacheNext
  /\ UNCHANGED <<opened, roleVars, roundTripVars, permsVars, rosterVars, policyVars,
                 workspaceVars, valuesVars, groupVars, deployVars, reviewVars, diffVars,
                 sessionVars, formVars>>

Next ==
  \/ RolesPage \/ RoleData \/ MemberPermissionsPage \/ ListsOfUsers \/ PolicyForms
  \/ WorkspaceProjectPage \/ WorkspaceEnvPage \/ GlobalValuesPage \/ DeploymentPage
  \/ PullRequestPage \/ ChangeCard \/ AuthProvider \/ LoginPage \/ QueryClient

Spec == Init /\ [][Next]_vars

(* Every request of the session is answered or fails, every answer is      *)
(* handled, redirects happen, and a page on screen keeps making requests;  *)
(* a visitor need not log in, log out or reload.                           *)
InSession(act) == opened = "session" /\ act

SessionFairness ==
  /\ WF_sessionVars(InSession(LoadAnswered))
  /\ WF_sessionVars(InSession(TryOldToken))
  /\ WF_sessionVars(InSession(AskAgain))
  /\ WF_sessionVars(InSession(LoadFinishes))
  /\ WF_sessionVars(InSession(SubmitAnswered))
  /\ WF_sessionVars(InSession(SubmitReceived))
  /\ WF_sessionVars(InSession(MeAnswered))
  /\ WF_sessionVars(InSession(MeReceived))
  /\ WF_sessionVars(InSession(LeaveLogin))
  /\ WF_sessionVars(InSession(AppShellRedirects))
  /\ WF_sessionVars(InSession(PageRequests))
  /\ WF_sessionVars(InSession(PageReceives))
  /\ WF_sessionVars(InSession(SignOutAnswered))
  /\ WF_sessionVars(InSession(SignOutReceived))

(* A stale query on screen is fetched, and the network answers some of the *)
(* attempts.                                                               *)
InCache(act) == opened = "cache" /\ act

CacheFairness ==
  /\ WF_cacheVars(InCache(SendFetch))
  /\ SF_cacheVars(InCache(AnswerFetch))
  /\ SF_cacheVars(InCache(ReceiveFetch))

FairSpec == Spec /\ SessionFairness /\ CacheFairness

-----------------------------------------------------------------------------
(* The liveness of the two parts whose actions the network drives.         *)
(* See Session: a user shown without a session does not stay.              *)
SignedOutIsNoticed == opened = "session" => GhostUserIsCaught

(* See QueryCache: a page shows what its own mutation wrote.               *)
MutationsAreShown == opened = "cache" => OwnWritesAreShown
=============================================================================
