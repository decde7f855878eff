------------------------- MODULE ApprovalCondition -------------------------
(***************************************************************************)
(* How the backend decides that the approvals of a pull request satisfy    *)
(* the approval condition of its project or Global Values group            *)
(* (handlers/pull_requests.go, parseApprovalCondition to                   *)
(* checkApprovalConditionMet).                                             *)
(*                                                                         *)
(* A condition is stored as text.  The code never builds an expression     *)
(* tree from it: it extracts the list of "<count> x <role>" requirements,  *)
(* in order, and asks separately whether the text contains "AND".  Those   *)
(* two facts are all the evaluation depends on, so they are what a         *)
(* condition is here.                                                      *)
(***************************************************************************)
EXTENDS Naturals, Sequences, FiniteSets

\* A parsed "<count> x <role>" requirement (type roleRequirement).
RoleRequirement(Role) == [count : Nat, role : Role]

\* What evaluation sees of a stored condition: the requirements and whether the
\* upper-cased text contains "AND" anywhere (a role name may contain it too).
ApprovalConditions(Role) ==
  [reqs : Seq(RoleRequirement(Role)), hasAND : BOOLEAN]

\* How many of the approvers hold the role: roles[u] are the global role names
\* of user u, and one approval counts for every role its author holds.
CountApproversWithRole(approvers, roles, role) ==
  Cardinality({u \in approvers : role \in roles[u]})

\* One requirement is satisfied by enough distinct approvers holding its role.
Satisfied(req, approvers, roles) ==
  CountApproversWithRole(approvers, roles, req.role) >= req.count

\* All requirements when the condition is a conjunction, any one otherwise.
RequirementsMet(reqs, approvers, roles, isAnd) ==
  IF isAnd THEN \A i \in DOMAIN reqs : Satisfied(reqs[i], approvers, roles)
           ELSE \E i \in DOMAIN reqs : Satisfied(reqs[i], approvers, roles)

\* A condition with no parseable requirement is satisfied by anything; a single
\* requirement is read as a conjunction.
ConditionMet(cond, approvers, roles) ==
  \/ cond.reqs = <<>>
  \/ RequirementsMet(cond.reqs, approvers, roles,
                     cond.hasAND \/ Len(cond.reqs) = 1)
=============================================================================
