----------------------------- MODULE AccessProofs -----------------------------
(***************************************************************************)
(* For any number of users, requests and permissions: what the checks of   *)
(* the access handlers protect as long as no two requests about the same   *)
(* admins or the same member overlap.                                      *)
(***************************************************************************)
EXTENDS Access, FiniteSetTheorems, TLAPS

Ops == {"none", "remove_admin", "remove_member", "set_permissions", "upserted", "rewritten",
        "done"}
About == User \cup Admins
Row == [atom : Permission, by : Request]
RequestState ==
  [op : Ops, about : About \cup {None}, user : User \cup {None}, role : Request \cup {None},
   seen : SUBSET Row, grid : SUBSET Permission]

AccessTypeOK ==
  /\ holders \in [Admins \cup Roles -> SUBSET User]
  /\ members \in SUBSET User
  /\ managed \in [User -> Request \cup {None}]
  /\ rows \in [User -> SUBSET Row]
  /\ req \in [Request -> RequestState]
  /\ overlapped \in SUBSET About

Setting == {"set_permissions", "upserted", "rewritten"}

(* A request is about its admins or its member while it is under way.      *)
AboutIsIt ==
  \A r \in Request :
    /\ req[r].op = "remove_admin" => req[r].about \in Admins /\ req[r].user \in User
    /\ req[r].op \in Setting \cup {"remove_member"} =>
         req[r].user \in User /\ req[r].about = req[r].user
    /\ req[r].op \in {"none", "done"} => req[r].about = None

Alone ==
  \A o \in About \ overlapped : \A r, other \in Request :
    (req[r].about = o /\ req[other].about = o) => r = other

(* The removal that was checked leaves an admin behind.                    *)
SomeoneStays ==
  \A kind \in Admins \ overlapped :
    /\ holders[kind] # {}
    /\ \A r \in Request :
         (req[r].op = "remove_admin" /\ req[r].about = kind) =>
           holders[kind] \ {req[r].user} # {}

(* Whose permissions are set, or being set, is a member.                   *)
SetForMembers ==
  \A u \in User \ overlapped :
    /\ managed[u] # None => u \in members
    /\ \A r \in Request : (req[r].op \in Setting /\ req[r].user = u) => u \in members

(* A transaction that cleared the stored permissions cleared them all.     *)
SeesAll ==
  \A u \in User \ overlapped : \A r \in Request :
    (req[r].op = "rewritten" /\ req[r].user = u) => req[r].seen = rows[u]

AccessInv ==
  /\ AccessTypeOK /\ AboutIsIt /\ Alone /\ SomeoneStays
  /\ SetForMembers /\ SeesAll /\ StoredPermissionsWereAskedFor

-----------------------------------------------------------------------------
LEMMA NoneIsNoObject == None \notin About /\ None \notin Request /\ Admins \cap User = {}
  BY AccessConstants DEF About

LEMMA WaitingFields ==
  /\ Waiting \in RequestState
  /\ Waiting.op = "none" /\ Waiting.about = None
  BY DEF Waiting, RequestState, Ops

LEMMA BeginFacts ==
  ASSUME AccessTypeOK, NEW r \in Request, NEW op \in Ops, NEW about \in About, NEW u \in User,
         NEW grid \in SUBSET Permission, Begin(r, op, about, u, grid)
  PROVE  /\ req' \in [Request -> RequestState]
         /\ req[r].op = "none" /\ req[r].about = None
         /\ req'[r].op = op /\ req'[r].about = about /\ req'[r].user = u
         /\ \A other \in Request \ {r} : req'[other] = req[other]
         /\ overlapped' \in SUBSET About /\ overlapped \subseteq overlapped'
         /\ about \in overlapped' \/ \A other \in Request : req[other].about # about
<1> DEFINE begun == [Waiting EXCEPT !.op = op, !.about = about, !.user = u, !.grid = grid]
<1>1. /\ begun \in RequestState
      /\ begun.op = op /\ begun.about = about /\ begun.user = u
  BY DEF Waiting, RequestState
<1>2. req' = [req EXCEPT ![r] = begun] /\ req[r] = Waiting
  BY DEF Begin
<1> HIDE DEF begun
<1>3. /\ req' \in [Request -> RequestState] /\ req'[r] = begun
      /\ \A other \in Request \ {r} : req'[other] = req[other]
  BY <1>1, <1>2 DEF AccessTypeOK
<1>4. /\ overlapped' \in SUBSET About /\ overlapped \subseteq overlapped'
      /\ about \in overlapped' \/ \A other \in Request : req[other].about # about
  BY DEF Begin, AccessTypeOK
<1>5. QED
  BY <1>1, <1>2, <1>3, <1>4, WaitingFields

LEMMA EndFacts ==
  ASSUME AccessTypeOK, NEW r \in Request, End(r)
  PROVE  /\ req' \in [Request -> RequestState]
         /\ req'[r].op = "done" /\ req'[r].about = None /\ req'[r].user = req[r].user
         /\ req'[r].grid = req[r].grid
         /\ \A other \in Request \ {r} : req'[other] = req[other]
<1> DEFINE ended == [req[r] EXCEPT !.op = "done", !.about = None]
<1>1. req[r] \in RequestState
  BY DEF AccessTypeOK
<1>2. /\ ended \in RequestState
      /\ ended.op = "done" /\ ended.about = None /\ ended.user = req[r].user
      /\ ended.grid = req[r].grid
  BY <1>1 DEF RequestState, Ops
<1>3. req' = [req EXCEPT ![r] = ended]
  BY DEF End
<1> HIDE DEF ended
<1>4. QED
  BY <1>2, <1>3 DEF AccessTypeOK

(* More than one admin are not all one user.                               *)
LEMMA AnotherOne ==
  ASSUME NEW S \in SUBSET User, NEW u, Cardinality(S) > 1
  PROVE  S \ {u} # {}
<1>1. SUFFICES ASSUME S \ {u} = {} PROVE FALSE
  OBVIOUS
<1>2. S = {} \/ S = {u}
  BY <1>1
<1>3. Cardinality({}) = 0 /\ Cardinality({u}) = 1
  BY FS_EmptySet, FS_Singleton
<1>4. QED
  BY <1>2, <1>3

-----------------------------------------------------------------------------
(* A request that passes its checks.                                       *)
LEMMA BeginStep ==
  ASSUME AccessInv, NEW r \in Request,
         NEW op \in {"remove_admin", "remove_member", "set_permissions"},
         NEW about \in About, NEW u \in User, NEW grid \in SUBSET Permission,
         Begin(r, op, about, u, grid), UNCHANGED <<holders, members, managed, rows>>,
         op = "remove_admin" =>
           about \in Admins /\ (about \notin overlapped => holders[about] \ {u} # {}),
         op # "remove_admin" => about = u,
         op = "set_permissions" => u \in members
  PROVE  AccessInv'
<1>1. /\ AccessTypeOK /\ AboutIsIt /\ Alone /\ SomeoneStays
      /\ SetForMembers /\ SeesAll /\ StoredPermissionsWereAskedFor
  BY DEF AccessInv
<1>2. op \in Ops
  BY DEF Ops
<1>3. /\ req' \in [Request -> RequestState]
      /\ req[r].op = "none" /\ req[r].about = None
      /\ req'[r].op = op /\ req'[r].about = about /\ req'[r].user = u
      /\ \A other \in Request \ {r} : req'[other] = req[other]
      /\ overlapped' \in SUBSET About /\ overlapped \subseteq overlapped'
      /\ about \in overlapped' \/ \A other \in Request : req[other].about # about
  BY <1>1, <1>2, BeginFacts
<1>4. holders' = holders /\ members' = members /\ managed' = managed /\ rows' = rows
  OBVIOUS
<1>5. AccessTypeOK'
  BY <1>1, <1>3, <1>4 DEF AccessTypeOK
<1>6. AboutIsIt'
  BY <1>1, <1>3 DEF AboutIsIt, Setting
<1>7. Alone'
  BY <1>1, <1>3 DEF Alone
<1>8. SomeoneStays'
  <2>1. ASSUME NEW kind \in Admins \ overlapped', NEW other \in Request,
               req'[other].op = "remove_admin", req'[other].about = kind
        PROVE  holders[kind] \ {req'[other].user} # {}
    <3>1. CASE other = r
      BY <1>3, <2>1, <3>1
    <3>2. CASE other # r
      BY <1>1, <1>3, <2>1, <3>2 DEF SomeoneStays
    <3>3. QED
      BY <3>1, <3>2
  <2>2. QED
    BY <1>1, <1>3, <1>4, <2>1 DEF SomeoneStays
<1>9. SetForMembers'
  <2>1. ASSUME NEW w \in User \ overlapped', NEW other \in Request,
               req'[other].op \in Setting, req'[other].user = w
        PROVE  w \in members
    <3>1. CASE other = r
      BY <1>3, <2>1, <3>1 DEF Setting
    <3>2. CASE other # r
      BY <1>1, <1>3, <2>1, <3>2 DEF SetForMembers
    <3>3. QED
      BY <3>1, <3>2
  <2>2. QED
    BY <1>1, <1>3, <1>4, <2>1 DEF SetForMembers
<1>10. SeesAll'
  BY <1>1, <1>3, <1>4 DEF SeesAll
<1>11. StoredPermissionsWereAskedFor'
  <2>1. ASSUME NEW w \in User \ overlapped', managed[w] # None
        PROVE  \E other \in Request : req'[other].op = "done" /\ rows[w] = Inserted(other)'
    <3>1. PICK other \in Request : req[other].op = "done" /\ rows[w] = Inserted(other)
      BY <1>1, <1>3, <2>1 DEF StoredPermissionsWereAskedFor
    <3>2. other # r /\ req'[other] = req[other]
      BY <1>3, <3>1
    <3>3. QED
      BY <3>1, <3>2 DEF Inserted
  <2>2. QED
    BY <1>4, <2>1 DEF StoredPermissionsWereAskedFor
<1>12. QED
  BY <1>5, <1>6, <1>7, <1>8, <1>9, <1>10, <1>11 DEF AccessInv

LEMMA CheckStep ==
  ASSUME AccessInv, NEW r \in Request, NEW u \in User,
         \/ CheckRemoval(r, u) \/ CheckRemoveUser(r, u)
         \/ EnsureNotLastProjectAdmin(r, u) \/ CheckMember(r, u)
  PROVE  AccessInv'
<1>1. Admins \subseteq About /\ u \in About /\ {} \in SUBSET Permission
  BY DEF About
<1>2. \A kind \in Admins : holders[kind] \in SUBSET User
  BY DEF AccessInv, AccessTypeOK
<1>3. CASE CheckRemoval(r, u)
  <2>1. "env_admins" \in Admins
    BY DEF Admins
  <2>2. "env_admins" \notin overlapped => holders["env_admins"] \ {u} # {}
    <3>1. CASE u \in holders["env_admins"]
      BY <1>2, <1>3, <2>1, <3>1, AnotherOne DEF CheckRemoval
    <3>2. CASE u \notin holders["env_admins"]
      BY <2>1, <3>2 DEF AccessInv, SomeoneStays
    <3>3. QED
      BY <3>1, <3>2
  <2>3. /\ Begin(r, "remove_admin", "env_admins", u, {})
        /\ UNCHANGED <<holders, members, managed, rows>>
    BY <1>3 DEF CheckRemoval
  <2>4. QED
    BY <1>1, <2>1, <2>2, <2>3, BeginStep
<1>4. CASE CheckRemoveUser(r, u)
  <2>1. "project_admin" \in Admins
    BY DEF Admins
  <2>2. holders["project_admin"] \ {u} # {}
    BY <1>2, <1>4, <2>1, AnotherOne DEF CheckRemoveUser
  <2>3. /\ Begin(r, "remove_admin", "project_admin", u, {})
        /\ UNCHANGED <<holders, members, managed, rows>>
    BY <1>4 DEF CheckRemoveUser
  <2>4. QED
    BY <1>1, <2>1, <2>2, <2>3, BeginStep
<1>5. CASE EnsureNotLastProjectAdmin(r, u)
  <2>1. /\ Begin(r, "remove_member", u, u, {})
        /\ UNCHANGED <<holders, members, managed, rows>>
    BY <1>5 DEF EnsureNotLastProjectAdmin
  <2>2. QED
    BY <1>1, <2>1, BeginStep
<1>6. CASE CheckMember(r, u)
  <2>1. PICK grid \in SUBSET Permission : Begin(r, "set_permissions", u, u, grid)
    BY <1>6 DEF CheckMember
  <2>2. u \in members /\ UNCHANGED <<holders, members, managed, rows>>
    BY <1>6 DEF CheckMember
  <2>3. QED
    BY <1>1, <2>1, <2>2, BeginStep
<1>7. QED
  BY <1>3, <1>4, <1>5, <1>6

-----------------------------------------------------------------------------
(* More admins and members disturb nothing that was checked, nor does      *)
(* anything done to the holders of other roles.                            *)
LEMMA GrowStep ==
  ASSUME AccessInv, UNCHANGED <<managed, rows, req, overlapped>>,
         members' \in SUBSET User, members \subseteq members',
         holders' \in [Admins \cup Roles -> SUBSET User],
         \A kind \in Admins : holders[kind] \subseteq holders'[kind]
  PROVE  AccessInv'
<1>1. AccessTypeOK' /\ AboutIsIt' /\ Alone' /\ SeesAll' /\ StoredPermissionsWereAskedFor'
  BY DEF AccessInv, AccessTypeOK, AboutIsIt, Alone, SeesAll, StoredPermissionsWereAskedFor,
         Inserted
<1>2. SomeoneStays'
  BY DEF AccessInv, SomeoneStays
<1>3. SetForMembers'
  BY DEF AccessInv, SetForMembers
<1>4. QED
  BY <1>1, <1>2, <1>3 DEF AccessInv

LEMMA AddStep ==
  ASSUME AccessInv, NEW u \in User,
         \/ Add(u) \/ (\E role \in Roles : AssignUser(role, u)) \/ AddMember(u)
  PROVE  AccessInv'
<1>1. holders \in [Admins \cup Roles -> SUBSET User] /\ members \in SUBSET User
  BY DEF AccessInv, AccessTypeOK
<1>2. CASE \E kind \in Admins \cup Roles : Grant(kind, u)
  BY <1>1, <1>2, GrowStep DEF Grant
<1>3. CASE AddMember(u)
  BY <1>1, <1>3, GrowStep DEF AddMember
<1>4. QED
  BY <1>2, <1>3 DEF Add, AssignUser, Admins, Roles

LEMMA NamedRoleStep ==
  ASSUME AccessInv, DeleteRole \/ \E u \in User : RemoveUser(u)
  PROVE  AccessInv'
<1>1. holders \in [Admins \cup Roles -> SUBSET User] /\ members \in SUBSET User
  BY DEF AccessInv, AccessTypeOK
<1>2. /\ holders' \in [Admins \cup Roles -> SUBSET User]
      /\ \A kind \in Admins : holders[kind] \subseteq holders'[kind]
  BY <1>1 DEF DeleteRole, RemoveUser, Admins, Roles
<1>3. QED
  BY <1>1, <1>2, GrowStep DEF DeleteRole, RemoveUser

-----------------------------------------------------------------------------
(* A request that ends leaves the others as they are.                      *)
LEMMA EndStep ==
  ASSUME AccessInv, NEW r \in Request, End(r), overlapped' = overlapped,
         req[r].op \notin {"none", "done"}
  PROVE  /\ req' \in [Request -> RequestState]
         /\ AboutIsIt' /\ Alone'
         /\ \A other \in Request :
              req'[other].op # "done" => other # r /\ req'[other] = req[other]
         /\ \A other \in Request :
              req[other].op = "done" => req'[other] = req[other]
         /\ \A other \in Request : Inserted(other)' = Inserted(other)
<1>1. AccessTypeOK /\ AboutIsIt /\ Alone
  BY DEF AccessInv
<1>2. /\ req' \in [Request -> RequestState]
      /\ req'[r].op = "done" /\ req'[r].about = None /\ req'[r].user = req[r].user
      /\ req'[r].grid = req[r].grid
      /\ \A other \in Request \ {r} : req'[other] = req[other]
  BY <1>1, EndFacts
<1>3. AboutIsIt'
  BY <1>1, <1>2 DEF AboutIsIt, Setting
<1>4. Alone'
  BY <1>1, <1>2, NoneIsNoObject DEF Alone
<1>5. \A other \in Request : Inserted(other)' = Inserted(other)
  BY <1>2 DEF Inserted
<1>6. QED
  BY <1>2, <1>3, <1>4, <1>5

LEMMA StoredStays ==
  ASSUME AccessInv, NEW r \in Request, End(r), req[r].op \notin {"none", "done"},
         overlapped' = overlapped, managed' = managed, rows' = rows
  PROVE  StoredPermissionsWereAskedFor'
<1>1. /\ \A other \in Request : req[other].op = "done" => req'[other] = req[other]
      /\ \A other \in Request : Inserted(other)' = Inserted(other)
  BY EndStep
<1>2. QED
  BY <1>1 DEF AccessInv, StoredPermissionsWereAskedFor

LEMMA AbandonStep ==
  ASSUME AccessInv, NEW r \in Request, Abandon(r)
  PROVE  AccessInv'
<1>1. /\ End(r) /\ req[r].op \notin {"none", "done"} /\ overlapped' = overlapped
      /\ holders' = holders /\ members' = members /\ managed' = managed /\ rows' = rows
  BY DEF Abandon
<1>2. /\ req' \in [Request -> RequestState] /\ AboutIsIt' /\ Alone'
      /\ \A other \in Request :
           req'[other].op # "done" => other # r /\ req'[other] = req[other]
  BY <1>1, EndStep
<1>3. AccessTypeOK'
  BY <1>1, <1>2 DEF AccessInv, AccessTypeOK
<1>4. SomeoneStays' /\ SetForMembers' /\ SeesAll'
  BY <1>1, <1>2 DEF AccessInv, SomeoneStays, SetForMembers, SeesAll, Setting
<1>5. QED
  BY <1>1, <1>2, <1>3, <1>4, StoredStays DEF AccessInv

LEMMA RemoveStep ==
  ASSUME AccessInv, NEW r \in Request, Remove(r)
  PROVE  AccessInv'
<1> DEFINE kind == req[r].about
<1>1. /\ req[r].op = "remove_admin" /\ End(r) /\ overlapped' = overlapped
      /\ holders' = [holders EXCEPT ![kind] = holders[kind] \ {req[r].user}]
      /\ members' = members /\ managed' = managed /\ rows' = rows
  BY DEF Remove
<1>2. kind \in Admins
  BY <1>1 DEF AccessInv, AboutIsIt
<1>3. /\ req' \in [Request -> RequestState] /\ AboutIsIt' /\ Alone'
      /\ \A other \in Request :
           req'[other].op # "done" => other # r /\ req'[other] = req[other]
  BY <1>1, EndStep
<1>4. /\ holders' \in [Admins \cup Roles -> SUBSET User]
      /\ holders'[kind] = holders[kind] \ {req[r].user}
      /\ \A other \in Admins \ {kind} : holders'[other] = holders[other]
  BY <1>1, <1>2 DEF AccessInv, AccessTypeOK
<1>5. AccessTypeOK'
  BY <1>1, <1>3, <1>4 DEF AccessInv, AccessTypeOK
<1>6. SomeoneStays'
  <2>1. ASSUME NEW k \in Admins \ overlapped
        PROVE  holders'[k] # {}
    BY <1>1, <1>4, <2>1 DEF AccessInv, SomeoneStays
  <2>2. ASSUME NEW k \in Admins \ overlapped, NEW other \in Request,
               req'[other].op = "remove_admin", req'[other].about = k
        PROVE  holders'[k] \ {req'[other].user} # {}
    <3>1. other # r /\ req'[other] = req[other]
      BY <1>3, <2>2
    <3>2. k # kind
      BY <2>2, <3>1 DEF AccessInv, Alone, About
    <3>3. QED
      BY <1>4, <2>2, <3>1, <3>2 DEF AccessInv, SomeoneStays
  <2>3. QED
    BY <1>1, <2>1, <2>2 DEF SomeoneStays
<1>7. SetForMembers' /\ SeesAll'
  BY <1>1, <1>3 DEF AccessInv, SetForMembers, SeesAll, Setting
<1>8. QED
  BY <1>1, <1>3, <1>5, <1>6, <1>7, StoredStays DEF AccessInv

LEMMA RemoveMemberStep ==
  ASSUME AccessInv, NEW r \in Request, RemoveMember(r)
  PROVE  AccessInv'
<1> DEFINE u == req[r].user
<1>1. /\ req[r].op = "remove_member" /\ End(r) /\ overlapped' = overlapped
      /\ managed' = [managed EXCEPT ![u] = None]
      /\ rows' = [rows EXCEPT ![u] = {}]
      /\ members' = members \ {u} /\ holders' = holders
  BY DEF RemoveMember
<1>2. u \in User /\ req[r].about = u
  BY <1>1 DEF AccessInv, AboutIsIt
<1>3. /\ req' \in [Request -> RequestState] /\ AboutIsIt' /\ Alone'
      /\ \A other \in Request :
           req'[other].op # "done" => other # r /\ req'[other] = req[other]
      /\ \A other \in Request :
           req[other].op = "done" => req'[other] = req[other]
      /\ \A other \in Request : Inserted(other)' = Inserted(other)
  BY <1>1, EndStep
<1>4. /\ managed' \in [User -> Request \cup {None}] /\ rows' \in [User -> SUBSET Row]
      /\ managed'[u] = None
      /\ \A w \in User \ {u} : managed'[w] = managed[w] /\ rows'[w] = rows[w]
  BY <1>1, <1>2 DEF AccessInv, AccessTypeOK
<1>5. AccessTypeOK'
  BY <1>1, <1>3, <1>4 DEF AccessInv, AccessTypeOK
<1>6. SomeoneStays'
  BY <1>1, <1>3 DEF AccessInv, SomeoneStays
<1>7. ASSUME NEW w \in User \ overlapped, NEW other \in Request,
             req'[other].op \in Setting, req'[other].user = w
      PROVE  w # u /\ req'[other] = req[other]
  <2>1. other # r /\ req'[other] = req[other]
    BY <1>3, <1>7 DEF Setting
  <2>2. req[other].about = w
    BY <1>7, <2>1 DEF AccessInv, AboutIsIt
  <2>3. QED
    BY <1>2, <1>7, <2>1, <2>2 DEF AccessInv, Alone, About
<1>8. SetForMembers'
  BY <1>1, <1>4, <1>7 DEF AccessInv, SetForMembers
<1>9. SeesAll'
  BY <1>1, <1>4, <1>7 DEF AccessInv, SeesAll, Setting
<1>10. StoredPermissionsWereAskedFor'
  BY <1>1, <1>3, <1>4 DEF AccessInv, StoredPermissionsWereAskedFor
<1>11. QED
  BY <1>3, <1>5, <1>6, <1>8, <1>9, <1>10 DEF AccessInv

-----------------------------------------------------------------------------
(* The transaction that replaces a member's permissions.                   *)
LEMMA MoveOnStep ==
  ASSUME AccessInv, NEW r \in Request, req[r].op \in Setting,
         NEW next \in RequestState, req' = [req EXCEPT ![r] = next],
         next.op \in Setting, next.about = req[r].about, next.user = req[r].user,
         next.op = "rewritten" => next.seen = rows[next.user],
         UNCHANGED <<holders, members, managed, rows, overlapped>>
  PROVE  AccessInv'
<1>1. /\ req' \in [Request -> RequestState] /\ req'[r] = next
      /\ \A other \in Request \ {r} : req'[other] = req[other]
  BY DEF AccessInv, AccessTypeOK
<1>2. AccessTypeOK'
  BY <1>1 DEF AccessInv, AccessTypeOK
<1>3. AboutIsIt'
  BY <1>1 DEF AccessInv, AboutIsIt, Setting
<1>4. Alone'
  BY <1>1 DEF AccessInv, Alone
<1>5. SomeoneStays'
  BY <1>1 DEF AccessInv, SomeoneStays, Setting
<1>6. SetForMembers'
  BY <1>1 DEF AccessInv, SetForMembers
<1>7. SeesAll'
  BY <1>1 DEF AccessInv, SeesAll
<1>8. StoredPermissionsWereAskedFor'
  <2>1. ASSUME NEW w \in User \ overlapped, managed[w] # None
        PROVE  \E other \in Request : req'[other].op = "done" /\ rows[w] = Inserted(other)'
    <3>1. PICK other \in Request : req[other].op = "done" /\ rows[w] = Inserted(other)
      BY <2>1 DEF AccessInv, StoredPermissionsWereAskedFor
    <3>2. req'[other] = req[other]
      BY <1>1, <3>1 DEF Setting
    <3>3. QED
      BY <3>1, <3>2 DEF Inserted
  <2>2. QED
    BY <2>1 DEF StoredPermissionsWereAskedFor
<1>9. QED
  BY <1>2, <1>3, <1>4, <1>5, <1>6, <1>7, <1>8 DEF AccessInv

LEMMA UpsertStep ==
  ASSUME AccessInv, NEW r \in Request, UpsertManagedMemberRole(r)
  PROVE  AccessInv'
<1> DEFINE role == IF managed[req[r].user] = None THEN r ELSE managed[req[r].user]
           next == [req[r] EXCEPT !.op = "upserted", !.role = role]
<1>1. /\ req[r].op = "set_permissions" /\ req \in [Request -> RequestState]
      /\ UNCHANGED <<holders, members, managed, rows, overlapped>>
  BY DEF UpsertManagedMemberRole, AccessInv, AccessTypeOK
<1>2. req[r] \in RequestState /\ req[r].user \in User
  BY <1>1 DEF AccessInv, AboutIsIt, Setting
<1>3. role \in Request
  BY <1>2 DEF AccessInv, AccessTypeOK
<1>4. req' = [req EXCEPT ![r] = next]
  BY <1>1 DEF UpsertManagedMemberRole
<1> HIDE DEF role
<1>5. /\ next \in RequestState /\ next.op = "upserted"
      /\ next.about = req[r].about /\ next.user = req[r].user
  BY <1>2, <1>3 DEF RequestState, Ops
<1> HIDE DEF next
<1>6. QED
  BY <1>1, <1>4, <1>5, MoveOnStep DEF Setting

LEMMA RewriteStep ==
  ASSUME AccessInv, NEW r \in Request, RewriteMemberRoleAtoms(r)
  PROVE  AccessInv'
<1> DEFINE next == [req[r] EXCEPT !.op = "rewritten", !.seen = rows[req[r].user]]
<1>1. /\ req[r].op = "upserted" /\ req \in [Request -> RequestState]
      /\ UNCHANGED <<holders, members, managed, rows, overlapped>>
  BY DEF RewriteMemberRoleAtoms, AccessInv, AccessTypeOK
<1>2. /\ req[r] \in RequestState /\ req[r].user \in User
      /\ rows[req[r].user] \in SUBSET Row
  BY <1>1 DEF AccessInv, AccessTypeOK, AboutIsIt, Setting
<1>3. req' = [req EXCEPT ![r] = next]
  BY <1>1 DEF RewriteMemberRoleAtoms
<1>4. /\ next \in RequestState /\ next.op = "rewritten"
      /\ next.about = req[r].about /\ next.user = req[r].user
      /\ next.seen = rows[next.user]
  BY <1>2 DEF RequestState, Ops
<1> HIDE DEF next
<1>5. QED
  BY <1>1, <1>3, <1>4, MoveOnStep DEF Setting

LEMMA CommitStep ==
  ASSUME AccessInv, NEW r \in Request, Commit(r)
  PROVE  AccessInv'
<1> DEFINE u == req[r].user
           stored == (rows[u] \ req[r].seen) \cup Inserted(r)
<1>1. /\ req[r].op = "rewritten" /\ End(r) /\ overlapped' = overlapped
      /\ managed' = [managed EXCEPT ![u] = req[r].role]
      /\ rows' = [rows EXCEPT ![u] = stored]
      /\ members' = members /\ holders' = holders
  BY DEF Commit
<1>2. u \in User /\ req[r].about = u
  BY <1>1 DEF AccessInv, AboutIsIt, Setting
<1>3. /\ req' \in [Request -> RequestState] /\ AboutIsIt' /\ Alone'
      /\ \A other \in Request :
           req'[other].op # "done" => other # r /\ req'[other] = req[other]
      /\ \A other \in Request :
           req[other].op = "done" => req'[other] = req[other]
      /\ \A other \in Request : Inserted(other)' = Inserted(other)
  BY <1>1, EndStep
<1>4. Inserted(r) \in SUBSET Row /\ stored \in SUBSET Row /\ req[r].role \in Request \cup {None}
  <2>1. /\ req[r].grid \in SUBSET Permission /\ rows[u] \in SUBSET Row
        /\ req[r].role \in Request \cup {None}
    BY <1>2 DEF AccessInv, AccessTypeOK, RequestState
  <2>2. QED
    BY <2>1 DEF Inserted, Row
<1> HIDE DEF stored
<1>5. /\ managed' \in [User -> Request \cup {None}] /\ rows' \in [User -> SUBSET Row]
      /\ rows'[u] = stored
      /\ \A w \in User \ {u} : managed'[w] = managed[w] /\ rows'[w] = rows[w]
  BY <1>1, <1>2, <1>4 DEF AccessInv, AccessTypeOK
<1>6. AccessTypeOK'
  BY <1>1, <1>3, <1>5 DEF AccessInv, AccessTypeOK
<1>7. SomeoneStays'
  BY <1>1, <1>3 DEF AccessInv, SomeoneStays
<1>8. SetForMembers'
  BY <1>1, <1>2, <1>3, <1>5 DEF AccessInv, SetForMembers, Setting
<1>9. SeesAll'
  <2>1. ASSUME NEW w \in User \ overlapped, NEW other \in Request,
               req'[other].op = "rewritten", req'[other].user = w
        PROVE  req'[other].seen = rows'[w]
    <3>1. other # r /\ req'[other] = req[other]
      BY <1>3, <2>1
    <3>2. req[other].about = w
      BY <2>1, <3>1 DEF AccessInv, AboutIsIt, Setting
    <3>3. w # u
      BY <1>2, <2>1, <3>1, <3>2 DEF AccessInv, Alone, About
    <3>4. QED
      BY <1>5, <2>1, <3>1, <3>3 DEF AccessInv, SeesAll
  <2>2. QED
    BY <1>1, <2>1 DEF SeesAll
<1>10. StoredPermissionsWereAskedFor'
  <2>1. ASSUME NEW w \in User \ overlapped, managed'[w] # None
        PROVE  \E other \in Request : req'[other].op = "done" /\ rows'[w] = Inserted(other)'
    <3>1. CASE w = u
      <4>1. req[r].seen = rows[u]
        BY <1>1, <2>1, <3>1 DEF AccessInv, SeesAll
      <4>2. rows'[w] = Inserted(r)
        BY <1>5, <3>1, <4>1 DEF stored
      <4>3. req'[r].op = "done"
        BY <1>1, EndFacts DEF AccessInv
      <4>4. QED
        BY <1>3, <4>2, <4>3
    <3>2. CASE w # u
      <4>1. PICK other \in Request : req[other].op = "done" /\ rows[w] = Inserted(other)
        BY <1>5, <2>1, <3>2 DEF AccessInv, StoredPermissionsWereAskedFor
      <4>2. QED
        BY <1>3, <1>5, <2>1, <3>2, <4>1
    <3>3. QED
      BY <3>1, <3>2
  <2>2. QED
    BY <1>1, <2>1 DEF StoredPermissionsWereAskedFor
<1>11. QED
  BY <1>3, <1>6, <1>7, <1>8, <1>9, <1>10 DEF AccessInv

-----------------------------------------------------------------------------
THEOREM AccessInvariance == AccessSpec => []AccessInv
<1>1. AccessInit => AccessInv
  <2> SUFFICES ASSUME AccessInit PROVE AccessInv
    OBVIOUS
  <2>1. /\ AccessTypeOK
        /\ \A r \in Request : req[r].op = "none" /\ req[r].about = None
        /\ \A kind \in Admins : holders[kind] # {}
        /\ \A u \in User : managed[u] = None
    BY WaitingFields DEF AccessInit, AccessTypeOK
  <2>2. AboutIsIt /\ Alone /\ SomeoneStays /\ SetForMembers /\ SeesAll
    BY <2>1, NoneIsNoObject DEF AboutIsIt, Alone, SomeoneStays, SetForMembers, SeesAll, Setting
  <2>3. StoredPermissionsWereAskedFor
    BY <2>1 DEF StoredPermissionsWereAskedFor
  <2>4. QED
    BY <2>1, <2>2, <2>3 DEF AccessInv
<1>2. AccessInv /\ [AccessNext]_accessVars => AccessInv'
  <2>1. ASSUME AccessInv, UNCHANGED accessVars PROVE AccessInv'
    <3>1. /\ holders' = holders /\ members' = members /\ managed' = managed
          /\ rows' = rows /\ req' = req /\ overlapped' = overlapped
      BY <2>1 DEF accessVars
    <3>2. AccessTypeOK' /\ AboutIsIt' /\ Alone' /\ SomeoneStays'
      BY <2>1, <3>1 DEF AccessInv, AccessTypeOK, AboutIsIt, Alone, SomeoneStays
    <3>3. SetForMembers' /\ SeesAll'
      BY <2>1, <3>1 DEF AccessInv, SetForMembers, SeesAll
    <3>4. StoredPermissionsWereAskedFor'
      BY <2>1, <3>1 DEF AccessInv, StoredPermissionsWereAskedFor, Inserted
    <3>5. QED
      BY <3>2, <3>3, <3>4 DEF AccessInv
  <2>2. ASSUME AccessInv, AccessNext PROVE AccessInv'
    BY <2>2, AddStep, NamedRoleStep, CheckStep, RemoveStep, RemoveMemberStep, AbandonStep, UpsertStep,
       RewriteStep, CommitStep, Zenon DEF AccessNext
  <2>3. QED
    BY <2>1, <2>2
<1>3. QED
  BY <1>1, <1>2, PTL DEF AccessSpec

(* Removals that do not overlap leave an admin.                            *)
THEOREM LastAdminAlwaysStays == AccessSpec => []LastAdminStays
<1>1. AccessInv => LastAdminStays
  BY DEF AccessInv, SomeoneStays, LastAdminStays
<1>2. QED
  BY <1>1, AccessInvariance, PTL

(* What the page of a member's permissions granted is kept for members     *)
(* only, if the removal overlaps nothing else about the member.            *)
THEOREM ManagedRolesNeedMembership == AccessSpec => []ManagedRoleNeedsMembership
<1>1. AccessInv => ManagedRoleNeedsMembership
  BY DEF AccessInv, SetForMembers, ManagedRoleNeedsMembership
<1>2. QED
  BY <1>1, AccessInvariance, PTL

(* What is stored for a member was asked for as a whole.                   *)
THEOREM StoredPermissionsAreWhole == AccessSpec => []StoredPermissionsWereAskedFor
<1>1. AccessInv => StoredPermissionsWereAskedFor
  BY DEF AccessInv
<1>2. QED
  BY <1>1, AccessInvariance, PTL
=============================================================================
