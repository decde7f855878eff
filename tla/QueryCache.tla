------------------------------ MODULE QueryCache ------------------------------
(***************************************************************************)
(* What the pages show is what the query cache holds. A mutation changes   *)
(* resources on the server and, when its answer arrives, its hook          *)
(* invalidates some key prefixes: entries under them become stale, and     *)
(* those on the page are fetched anew, a fetch already under way being     *)
(* dropped (the library, modelled from how hooks/ uses it). One entry at a *)
(* time is followed: any key, on any page that reads it, through the       *)
(* mutations the page offers.                                              *)
(***************************************************************************)
EXTENDS Naturals, Sequences

CONSTANT MaxVersion  \* bound: changes of the server's data
ASSUME MaxVersion \in Nat \ {0}

Query(key, reads) == [key |-> key, reads |-> reads]

(* The queries: the key of each, and the resources its endpoint reads.     *)
ProjectQueries ==
  [list |-> Query(<<"projects">>, {"projects", "projectCondition"}),
   detail |-> Query(<<"projects", "p">>, {"projectCondition"}),
   members |-> Query(<<"projects", "p", "members">>, {"members"}),
   memberPermissions |-> Query(<<"projects", "p", "members", "u", "permissions">>,
                               {"memberPermissions"}),
   versions |-> Query(<<"projects", "p", "versions">>, {"live"})]

PullRequests == <<"pull-requests">>
PullRequestQueries ==
  [list |-> Query(<<"pull-requests", "list">>, {"pullRequest"}),
   detail |-> Query(<<"pull-requests", "1">>, {"pullRequest", "changes"})]

Workspaces == <<"workspace">>
Workspace == <<"workspace", "p">>
WorkspaceQueries ==
  [draft |-> Query(<<"workspace", "p", "draft">>, {"pullRequest", "changes"}),
   validate |-> Query(<<"workspace", "p", "validate">>, {"changes", "live"})]

GlobalValuesQueries ==
  [list |-> Query(<<"global-values">>, {"groups", "groupCondition"}),
   detail |-> Query(<<"global-values", "g">>, {"groupValues", "groupCondition"}),
   versions |-> Query(<<"global-values", "g", "versions">>, {"groupValues"})]

EnvironmentQueries ==
  [forProject |-> Query(<<"projects", "p", "environments">>, {"live"}),
   admins |-> Query(<<"projects", "p", "environments", "e", "admins">>, {"envAdmins"})]

TemplateQueries ==
  [forProject |-> Query(<<"projects", "p", "templates">>, {"live"}),
   detail |-> Query(<<"projects", "p", "templates", "t">>, {"live"}),
   versions |-> Query(<<"projects", "p", "templates", "t", "versions">>, {"live"}),
   variables |-> Query(<<"projects", "p", "variables">>, {"live"})]

EnvQueries ==
  [values |-> Query(<<"projects", "p", "envs", "e", "values">>, {"live"}),
   deployment |-> Query(<<"projects", "p", "envs", "e", "deployment-latest">>,
                        {"deployments"})]

RoleQuery == Query(<<"roles">>, {"roles"})

Hook(name, writes, invalidates) ==
  [name |-> name, writes |-> writes, invalidates |-> invalidates]

PullRequestHooks ==
  {Hook("createPullRequest", {"pullRequest", "changes"}, {PullRequests}),
   Hook("closePullRequest", {"pullRequest"}, {PullRequests}),
   Hook("mergePullRequest", {"pullRequest", "changes", "live", "groupValues"},
        {PullRequests, GlobalValuesQueries.list.key, ProjectQueries.list.key, Workspaces}),
   Hook("approvePullRequest", {"pullRequest"}, {PullRequests, PullRequestQueries.detail.key})}

(* No page calls the hooks that delete, unstage or discard, nor            *)
(* appendVersion below.                                                    *)
StagingHooks ==
  {Hook(name, {"pullRequest", "changes"}, {Workspace, PullRequests}) :
     name \in {"stageTemplate", "deleteTemplate", "stageEnvironment", "deleteEnvironment",
               "stageValues", "deleteValues", "unstageChange", "discardWorkspace"}}

ReviewHooks ==
  {Hook("submitDraft", {"pullRequest"}, {PullRequests, Workspaces}),
   Hook("withdrawApproval", {"pullRequest"}, {PullRequests, PullRequestQueries.detail.key})}

ProjectHooks ==
  {Hook("createProject", {"projects", "roles"}, {ProjectQueries.list.key}),
   Hook("deleteProject", {"projects"}, {ProjectQueries.list.key}),
   Hook("addMember", {"members"}, {ProjectQueries.members.key}),
   Hook("removeMember", {"members", "memberPermissions", "roles"}, {ProjectQueries.members.key}),
   Hook("setMemberPermissions", {"memberPermissions", "roles"},
        {ProjectQueries.memberPermissions.key})}

EnvironmentHooks ==
  {Hook(name, {"envAdmins"}, {EnvironmentQueries.admins.key}) :
     name \in {"addEnvAdmin", "removeEnvAdmin"}}

RoleHooks ==
  {Hook(name, {"roles"}, {RoleQuery.key}) :
     name \in {"createRole", "editRole", "deleteRole", "assignRole", "removeRoleMember"}}

ConditionHooks ==
  {Hook("updateProjectCondition", {"projectCondition"},
        {ProjectQueries.detail.key, ProjectQueries.list.key}),
   Hook("updateGroupCondition", {"groupCondition"},
        {GlobalValuesQueries.detail.key, GlobalValuesQueries.list.key})}

GlobalValuesHooks ==
  {Hook("createGroup", {"groups", "groupValues", "roles"}, {GlobalValuesQueries.list.key}),
   Hook("appendVersion", {"groupValues"},
        {GlobalValuesQueries.list.key, GlobalValuesQueries.detail.key,
         GlobalValuesQueries.versions.key})}

DeploymentHooks == {Hook("executeDeploy", {"deployments"}, {EnvQueries.deployment.key})}

Hooks ==
  PullRequestHooks \cup StagingHooks \cup ReviewHooks \cup ProjectHooks
    \cup EnvironmentHooks \cup RoleHooks \cup ConditionHooks \cup GlobalValuesHooks
    \cup DeploymentHooks

(* The pages: the queries each mounts and the mutations it offers.         *)
Page(queries, mutations) == [queries |-> queries, mutations |-> mutations]

ReviewPages ==
  {Page({PullRequestQueries.detail, ProjectQueries.list, TemplateQueries.detail,
         GlobalValuesQueries.detail},
        {"approvePullRequest", "withdrawApproval", "closePullRequest", "mergePullRequest"})}

WorkspacePages ==
  {Page({ProjectQueries.detail, WorkspaceQueries.draft, WorkspaceQueries.validate,
         TemplateQueries.forProject, TemplateQueries.detail, TemplateQueries.versions,
         EnvironmentQueries.forProject},
        {"stageTemplate", "stageEnvironment", "submitDraft"}),
   Page({WorkspaceQueries.draft, EnvQueries.values, TemplateQueries.variables,
         GlobalValuesQueries.list, GlobalValuesQueries.detail}, {"stageValues"}),
   Page({PullRequestQueries.list, ProjectQueries.list}, {})}

ProjectPages ==
  {Page({ProjectQueries.list}, {"createProject", "deleteProject"}),
   Page({ProjectQueries.detail, ProjectQueries.members}, {"addMember", "removeMember"}),
   Page({ProjectQueries.detail, ProjectQueries.members, RoleQuery}, {"updateProjectCondition"}),
   Page({ProjectQueries.members, EnvironmentQueries.forProject, ProjectQueries.memberPermissions},
        {"setMemberPermissions"}),
   Page({EnvironmentQueries.admins}, {"addEnvAdmin", "removeEnvAdmin"})}

OtherPages ==
  {Page({RoleQuery, ProjectQueries.list, GlobalValuesQueries.list, EnvironmentQueries.forProject,
         ProjectQueries.members},
        {"createRole", "editRole", "deleteRole", "assignRole", "removeRoleMember"}),
   Page({GlobalValuesQueries.detail, GlobalValuesQueries.versions, RoleQuery},
        {"updateGroupCondition"}),
   Page({GlobalValuesQueries.list}, {"createGroup"}),
   Page({GlobalValuesQueries.detail}, {"createPullRequest"}),
   Page({ProjectQueries.list, ProjectQueries.versions, EnvironmentQueries.forProject,
         TemplateQueries.forProject, EnvQueries.values, EnvQueries.deployment,
         GlobalValuesQueries.versions}, {"executeDeploy"})}

Pages == ReviewPages \cup WorkspacePages \cup ProjectPages \cup OtherPages
Queries == UNION {page.queries : page \in Pages}

-----------------------------------------------------------------------------
VARIABLES
  query,     \* the query whose entry is followed
  mounted,   \* the page on screen
  server,    \* version of what the entry's endpoint reads
  entry,     \* the cache entry: has, seen, stale
  fetch,     \* the fetch under way: none, sent, or answered with a version
  mutation,  \* the mutation in flight: hook and phase
  due        \* the version this client's own last mutation on this page made

cacheVars == <<query, mounted, server, entry, fetch, mutation, due>>

NoFetch == [phase |-> "none", seen |-> 0]
NoMutation == [hook |-> Hook("none", {}, {}), phase |-> "none"]
NoPage == Page({}, {})
Shows(page) == query \in page.queries

CacheInit ==
  /\ query \in Queries
  /\ mounted = NoPage
  /\ server = 0
  /\ entry = [has |-> FALSE, seen |-> 0, stale |-> TRUE]
  /\ fetch = NoFetch
  /\ mutation = NoMutation
  /\ due = 0

(* A query on screen is fetched when it has no fresh data: on mount, when  *)
(* the window is focused again, after an invalidation.                     *)
Open ==
  /\ mutation = NoMutation
  /\ \E page \in Pages \ {mounted} :
       /\ Shows(page)
       /\ mounted' = page
  /\ due' = 0
  /\ UNCHANGED <<query, server, entry, fetch, mutation>>

SendFetch ==
  /\ Shows(mounted) /\ entry.stale /\ fetch = NoFetch
  /\ fetch' = [phase |-> "sent", seen |-> 0]
  /\ UNCHANGED <<query, mounted, server, entry, mutation, due>>

AnswerFetch ==
  /\ fetch.phase = "sent"
  /\ fetch' = [phase |-> "answered", seen |-> server]
  /\ UNCHANGED <<query, mounted, server, entry, mutation, due>>

ReceiveFetch ==
  /\ fetch.phase = "answered"
  /\ entry' = [has |-> TRUE, seen |-> fetch.seen, stale |-> FALSE]
  /\ fetch' = NoFetch
  /\ UNCHANGED <<query, mounted, server, mutation, due>>

(* After one retry the query gives up and keeps what it has.               *)
FailFetch ==
  /\ fetch # NoFetch
  /\ fetch' = NoFetch
  /\ UNCHANGED <<query, mounted, server, entry, mutation, due>>

(* staleTime has passed.                                                   *)
Expire ==
  /\ ~entry.stale
  /\ entry' = [entry EXCEPT !.stale = TRUE]
  /\ UNCHANGED <<query, mounted, server, fetch, mutation, due>>

SomeoneElseWrites ==
  /\ server < MaxVersion
  /\ server' = server + 1
  /\ UNCHANGED <<query, mounted, entry, fetch, mutation, due>>

Mutate ==
  /\ mutation = NoMutation
  /\ \E h \in Hooks : /\ h.name \in mounted.mutations
                      /\ mutation' = [hook |-> h, phase |-> "sent"]
  /\ UNCHANGED <<query, mounted, server, entry, fetch, due>>

Changes(h) == h.writes \cap query.reads # {}

ApplyMutation ==
  /\ mutation.phase = "sent"
  /\ Changes(mutation.hook) => server < MaxVersion
  /\ server' = IF Changes(mutation.hook) THEN server + 1 ELSE server
  /\ mutation' = [mutation EXCEPT !.phase = "applied"]
  /\ UNCHANGED <<query, mounted, entry, fetch, due>>

(* Mutant: only the entry of exactly that key is invalidated.              *)
UnderExactly(prefixes, key) == key \in prefixes

Under(prefixes, key) ==
  \E prefix \in prefixes :
    \A i \in DOMAIN prefix : i \in DOMAIN key /\ key[i] = prefix[i]

Invalidated(h) == Under(h.invalidates, query.key)

(* Mutant: a fetch under way survives the invalidation.                    *)
MutationSucceedsOverFetch ==
  /\ mutation.phase = "applied"
  /\ entry' = [entry EXCEPT !.stale = @ \/ Invalidated(mutation.hook)]
  /\ due' = IF Changes(mutation.hook) THEN server ELSE due
  /\ mutation' = NoMutation
  /\ UNCHANGED <<query, mounted, server, fetch>>

(* onSuccess: invalidated entries become stale, and a fetch of an entry on *)
(* screen is dropped and sent again.                                       *)
MutationSucceeds ==
  /\ mutation.phase = "applied"
  /\ entry' = [entry EXCEPT !.stale = @ \/ Invalidated(mutation.hook)]
  /\ fetch' = IF Invalidated(mutation.hook) /\ fetch # NoFetch
              THEN [phase |-> "sent", seen |-> 0] ELSE fetch
  /\ due' = IF Changes(mutation.hook) THEN server ELSE due
  /\ mutation' = NoMutation
  /\ UNCHANGED <<query, mounted, server>>

(* Refused, or the answer is lost: the hooks have no onError, no onSettled.*)
MutationFails ==
  /\ mutation # NoMutation
  /\ mutation' = NoMutation
  /\ UNCHANGED <<query, mounted, server, entry, fetch, due>>

CacheNext ==
  \/ Open \/ SendFetch \/ AnswerFetch \/ ReceiveFetch \/ FailFetch \/ Expire
  \/ SomeoneElseWrites \/ Mutate \/ ApplyMutation \/ MutationSucceeds \/ MutationFails

CacheSpec == CacheInit /\ [][CacheNext]_cacheVars

-----------------------------------------------------------------------------
(* Read your writes: on the page that made a mutation, an entry that       *)
(* passes for fresh shows at least what the mutation left on the server,   *)
(* whatever fetches were under way when its answer came.                   *)
OwnWritesAreSeen ==
  (~entry.stale /\ fetch = NoFetch) => entry.seen >= due

(* And it is shown in the end: a page that stays open fetches what its own *)
(* mutation invalidated until the answer arrives.                          *)
OwnWritesAreShown ==
  \A v \in 1..MaxVersion : due = v ~> (entry.seen >= v \/ due # v)
=============================================================================
