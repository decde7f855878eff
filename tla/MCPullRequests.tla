--------------------------- MODULE MCPullRequests ---------------------------
(* Small instances of PullRequests for TLC. *)
EXTENDS PullRequests, TLC

CONSTANTS alice, bob, carol, admin, dev, r1, r2

\* One "<n> x admin" requirement.
Admins(n) == [reqs |-> <<[count |-> n, role |-> admin]>>, hasAND |-> FALSE]
\* Two admins or one dev.
TwoAdminsOrDev ==
  [reqs |-> <<[count |-> 2, role |-> admin], [count |-> 1, role |-> dev]>>,
   hasAND |-> FALSE]

MCOneAdmin == Admins(1)
MCTwoAdmins == Admins(2)
MCFixedOne == {Admins(1)}
MCFixedTwo == {Admins(2)}
MCFixedOr == {TwoAdminsOrDev}
MCOneOrTwo == {Admins(1), Admins(2)}

MCEveryoneAdmin == [u \in User |-> {admin}]
MCCarolDev == [u \in User |-> IF u = carol THEN {dev} ELSE {admin}]
MCAliceRole == {<<alice, admin>>}
MCBobsRole == {<<bob, admin>>}

RequestSymmetry == Permutations(Request)
\* Nothing has happened to the scopes in S. A constraint for instances with a
\* project and a group: what is done to one of them plays no part for the other.
Untouched(S) ==
  /\ \A p \in 1 .. lastPR : scope[p] \notin S
  /\ \A r \in Request : req[r].step = "insert" => req[r].scope \notin S
  /\ \A s \in S : /\ condition[s] = InitCondition
                   /\ Len(history[s]) = IF s \in Group THEN 1 ELSE 0
OneKind == Untouched(Project) \/ Untouched(Group)

PayloadSymmetry == Permutations(Payload)
=============================================================================
