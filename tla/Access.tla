-------------------------------- MODULE Access --------------------------------
(***************************************************************************)
(* Who may do what in one project: the admins of an environment, the       *)
(* holders of the project's auto-created admin role and of a role that a   *)
(* superuser made with permissions on the project, the members, and the    *)
(* hidden role that keeps the permissions of each member. Most handlers    *)
(* check in one statement and write in another; requests overlap between   *)
(* the two. The caller is one the handlers let through (a superuser).      *)
(***************************************************************************)
EXTENDS Naturals, FiniteSets

CONSTANTS
  User, Request,
  Permission,  \* the atoms of a member's permissions
  None

Admins == {"env_admins", "project_admin"}
Roles == {"project_admin", "named_role"}

ASSUME AccessConstants ==
  IsFiniteSet(User) /\ None \notin Request \cup User \cup Admins /\ Admins \cap User = {}

VARIABLES
  holders,    \* the admins of an environment, the users assigned to each role
  members,    \* project_members
  managed,    \* the managed role of each user, named by the request that made it
  rows,       \* its atoms, each with the request that inserted it
  req,        \* the requests: what each is doing, and what it found
  overlapped  \* the admins and users two requests were about at the same time

accessVars == <<holders, members, managed, rows, req, overlapped>>

Waiting == [op |-> "none", about |-> None, user |-> None, role |-> None, seen |-> {},
            grid |-> {}]

AccessInit ==
  /\ holders \in [Admins \cup Roles -> SUBSET User]
  /\ holders["named_role"] = {} /\ \A kind \in Admins : holders[kind] # {}
  /\ members \in SUBSET User
  /\ managed = [u \in User |-> None]
  /\ rows = [u \in User |-> {}]
  /\ req = [r \in Request |-> Waiting]
  /\ overlapped = {}

(* Request r passes its checks and goes on to write.                       *)
Begin(r, op, about, u, grid) ==
  /\ req[r] = Waiting
  /\ req' = [req EXCEPT ![r] = [Waiting EXCEPT !.op = op, !.about = about, !.user = u,
                                               !.grid = grid]]
  /\ overlapped' = IF \E other \in Request : req[other].about = about
                   THEN overlapped \cup {about} ELSE overlapped

End(r) == req' = [req EXCEPT ![r] = [@ EXCEPT !.op = "done", !.about = None]]

(* A request that is refused late, loses its client or meets an error:     *)
(* its transaction is rolled back.                                         *)
Abandon(r) ==
  /\ req[r].op \notin {"none", "done"}
  /\ End(r)
  /\ UNCHANGED <<holders, members, managed, rows, overlapped>>

-----------------------------------------------------------------------------
(* Admins of the environment and holders of roles. Removing refuses to     *)
(* take the last admin, the two handlers differently.                      *)

Grant(kind, u) ==
  /\ u \notin holders[kind]
  /\ holders' = [holders EXCEPT ![kind] = @ \cup {u}]
  /\ UNCHANGED <<members, managed, rows, req, overlapped>>

Add(u) == Grant("env_admins", u)
AssignUser(role, u) == Grant(role, u)

(* Mutant: the sole admin may go.                                          *)
CheckRemovalOfAnyone(r, u) ==
  /\ Begin(r, "remove_admin", "env_admins", u, {})
  /\ UNCHANGED <<holders, members, managed, rows>>

CheckRemoval(r, u) ==
  /\ u \in holders["env_admins"] => Cardinality(holders["env_admins"]) > 1
  /\ Begin(r, "remove_admin", "env_admins", u, {})
  /\ UNCHANGED <<holders, members, managed, rows>>

CheckRemoveUser(r, u) ==
  /\ Cardinality(holders["project_admin"]) > 1
  /\ Begin(r, "remove_admin", "project_admin", u, {})
  /\ UNCHANGED <<holders, members, managed, rows>>

Remove(r) ==
  /\ req[r].op = "remove_admin" /\ req[r].user \in holders[req[r].about]
  /\ holders' = [holders EXCEPT ![req[r].about] = @ \ {req[r].user}]
  /\ End(r)
  /\ UNCHANGED <<members, managed, rows, overlapped>>

(* Nobody has to hold a role that a superuser made: one DELETE takes a     *)
(* user off it, and deleting the role takes everybody off it.              *)
RemoveUser(u) ==
  /\ u \in holders["named_role"]
  /\ holders' = [holders EXCEPT !["named_role"] = @ \ {u}]
  /\ UNCHANGED <<members, managed, rows, req, overlapped>>

DeleteRole ==
  /\ holders' = [holders EXCEPT !["named_role"] = {}]
  /\ UNCHANGED <<members, managed, rows, req, overlapped>>

-----------------------------------------------------------------------------
(* Members.                                                                *)

AddMember(u) ==
  /\ u \notin members
  /\ members' = members \cup {u}
  /\ UNCHANGED <<holders, managed, rows, req, overlapped>>

EnsureNotLastProjectAdmin(r, u) ==
  /\ u \in holders["project_admin"] => Cardinality(holders["project_admin"]) > 1
  /\ Begin(r, "remove_member", u, u, {})
  /\ UNCHANGED <<holders, members, managed, rows>>

(* Mutant: the managed role outlives the membership.                       *)
RemoveMemberOnly(r) ==
  LET u == req[r].user IN
  /\ req[r].op = "remove_member" /\ u \in members
  /\ members' = members \ {u}
  /\ End(r)
  /\ UNCHANGED <<holders, managed, rows, overlapped>>

(* One transaction; it waits for, and then fails on, a writer of the       *)
(* managed role that has not committed. The roles the user is assigned to, *)
(* the project's admin role included, are not touched.                     *)
RemoveMember(r) ==
  LET u == req[r].user IN
  /\ req[r].op = "remove_member" /\ u \in members
  /\ ~\E other \in Request :
        req[other].op = "rewritten" /\ req[other].user = u /\ req[other].role = managed[u]
  /\ managed' = [managed EXCEPT ![u] = None]
  /\ rows' = [rows EXCEPT ![u] = {}]
  /\ members' = members \ {u}
  /\ End(r)
  /\ UNCHANGED <<holders, overlapped>>

-----------------------------------------------------------------------------
(* The permissions of a member are replaced by a transaction: membership   *)
(* is checked before it begins.                                            *)

CheckMember(r, u) ==
  /\ u \in members
  /\ \E grid \in SUBSET Permission : Begin(r, "set_permissions", u, u, grid)
  /\ UNCHANGED <<holders, members, managed, rows>>

(* Finds the managed role, or makes one unless another transaction is      *)
(* making it: role names are unique.                                       *)
UpsertManagedMemberRole(r) ==
  LET u == req[r].user IN
  /\ req[r].op = "set_permissions"
  /\ managed[u] = None =>
       ~\E other \in Request : req[other].op \in {"upserted", "rewritten"}
                               /\ req[other].user = u /\ req[other].role = other
  /\ req' = [req EXCEPT ![r].op = "upserted",
                        ![r].role = IF managed[u] = None THEN r ELSE managed[u]]
  /\ UNCHANGED <<holders, members, managed, rows, overlapped>>

(* Mutant: the old atoms stay.                                             *)
RewriteWithoutClearing(r) ==
  LET u == req[r].user IN
  /\ req[r].op = "upserted"
  /\ req[r].role \in {r, managed[u]}
  /\ req' = [req EXCEPT ![r].op = "rewritten"]
  /\ UNCHANGED <<holders, members, managed, rows, overlapped>>

(* Deletes the committed atoms it sees and inserts its own, which needs    *)
(* the role still to be there.                                             *)
RewriteMemberRoleAtoms(r) ==
  LET u == req[r].user IN
  /\ req[r].op = "upserted"
  /\ req[r].role \in {r, managed[u]}
  /\ req' = [req EXCEPT ![r].op = "rewritten", ![r].seen = rows[u]]
  /\ UNCHANGED <<holders, members, managed, rows, overlapped>>

Inserted(r) == {[atom |-> a, by |-> r] : a \in req[r].grid}

Commit(r) ==
  LET u == req[r].user IN
  /\ req[r].op = "rewritten"
  /\ managed' = [managed EXCEPT ![u] = req[r].role]
  /\ rows' = [rows EXCEPT ![u] = (@ \ req[r].seen) \cup Inserted(r)]
  /\ End(r)
  /\ UNCHANGED <<holders, members, overlapped>>

-----------------------------------------------------------------------------
AccessNext ==
  \/ \E u \in User :
       \/ Add(u) \/ (\E role \in Roles : AssignUser(role, u)) \/ RemoveUser(u)
       \/ AddMember(u)
  \/ DeleteRole
  \/ \E r \in Request, u \in User :
       \/ CheckRemoval(r, u) \/ CheckRemoveUser(r, u)
       \/ EnsureNotLastProjectAdmin(r, u) \/ CheckMember(r, u)
  \/ \E r \in Request :
       \/ Remove(r) \/ RemoveMember(r) \/ Abandon(r)
       \/ UpsertManagedMemberRole(r) \/ RewriteMemberRoleAtoms(r) \/ Commit(r)

AccessSpec == AccessInit /\ [][AccessNext]_accessVars

-----------------------------------------------------------------------------
(* "An environment is never left adminless" (env_admins.go), nor is the    *)
(* admin role stranded (roles.go), unless removals overlapped.             *)
LastAdminStays == \A kind \in Admins \ overlapped : holders[kind] # {}

(* What was granted on the page of a member's permissions, and so is kept  *)
(* in the managed role, is kept for members only, unless the removal of    *)
(* the member overlapped another request about the member (the membership  *)
(* is checked before the transaction that writes the role). It says        *)
(* nothing of the roles the user is assigned to; see RemovalRevokesRoles.  *)
ManagedRoleNeedsMembership == \A u \in User \ overlapped : managed[u] # None => u \in members

(* Permissions are replaced (member_permissions.go): unless requests about *)
(* the member overlapped, what is stored is what one of them asked for.    *)
StoredPermissionsWereAskedFor ==
  \A u \in User \ overlapped :
    managed[u] # None => \E r \in Request : req[r].op = "done" /\ rows[u] = Inserted(r)

(* "Removing a member also revokes that user's project-scoped role         *)
(* assignments, so no project permissions can outlive membership"          *)
(* (docs/permission-roles.md).                                             *)
RemovalRevokesRoles ==
  [][\A u \in members \ members' :
       managed'[u] = None /\ \A role \in Roles : u \notin holders'[role]]_accessVars
=============================================================================
