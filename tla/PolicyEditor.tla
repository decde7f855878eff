---------------------------- MODULE PolicyEditor ----------------------------
(***************************************************************************)
(* Where a user of the frontend writes an approval condition: the Create   *)
(* dialogs of a project and of a Global Values group, and the policy card  *)
(* of an existing one (approval-policy-card.tsx), with the validation      *)
(* they share (lib/approval-condition.ts) and the server's own.            *)
(*                                                                         *)
(* A condition is the sequence of its parts, what stands between two       *)
(* connectors.  A part is a count, the "x" or "X" between count and role,  *)
(* and a role, which is missing in a half-typed part.                      *)
(***************************************************************************)
EXTENDS Naturals, Sequences, Selection

CONSTANTS Parts,      \* the parts a user may type
          MaxParts,   \* bound: parts of a condition
          MaxSaves    \* bound: requests sent

\* A count, either case of the letter, and a role or nothing.
ASSUME PartsAreRead == Parts \subseteq [count : Nat, mark : {"x", "X"}, role : STRING]

VARIABLES owner,      \* server: [kind, exists, condition, roles]
          knownRoles,      \* the role names in the query cache
          current,    \* the condition in the query cache
          draftName,  \* the create dialog's name field is filled
          value,      \* the condition field
          savingPolicy,     \* the request on its way, or Idle
          saves

policyVars == <<owner, knownRoles, current, draftName, value, savingPolicy, saves>>

NoRole == "none"
Builtin == "admin"
Idle == [pending |-> FALSE, condition |-> <<>>]
Conditions == UNION {[1..n -> Parts] : n \in 0..MaxParts}
DefaultCondition == <<[count |-> 1, mark |-> "x", role |-> Builtin]>>

OwnerKinds == {"project", "global-values"}

CustomRoles == {"release", "release:eu"}

\* Names that have the role as a "name:" prefix.
Extends(role) == IF role = "release" THEN {"release:eu"} ELSE {}

(***************************************************************************)
(* Parsing.  The extraction knows the lower-case "x" only, and takes as    *)
(* the role of a half-typed part the connector that follows it.            *)
(***************************************************************************)
RoleRead(cond, i) ==
  IF cond[i].role # NoRole THEN cond[i].role
  ELSE IF i < Len(cond) THEN "AND" ELSE NoRole

ParseApprovalCondition(cond) ==
  LET read == [i \in DOMAIN cond |->
                 [count |-> cond[i].count, mark |-> cond[i].mark, role |-> RoleRead(cond, i)]]
  IN  Select(read, {i \in DOMAIN read : read[i].mark = "x" /\ read[i].role # NoRole})

\* Mutant: one whole requirement is enough.
SomewhatWellFormed(cond) == \E i \in DOMAIN cond : cond[i].role # NoRole

\* Each part is a whole requirement; here either case of the letter will do.
IsWellFormed(cond) == cond # <<>> /\ \A i \in DOMAIN cond : cond[i].role # NoRole

Satisfiable(role, names) == role \in names \/ Extends(role) \cap names # {}

\* The frontend's verdict on a condition, given the role names it knows.
ValidateApprovalCondition(cond, names) ==
  LET reqs == ParseApprovalCondition(cond)
  IN  /\ reqs # <<>> /\ IsWellFormed(cond)
      /\ \A i \in DOMAIN reqs : reqs[i].count >= 1 /\ Satisfiable(reqs[i].role, names)

\* The server's verdict: the same parsing, exact role names.
ServerAccepts(cond, names) ==
  LET reqs == ParseApprovalCondition(cond)
  IN  /\ reqs # <<>> /\ IsWellFormed(cond)
      /\ \A i \in DOMAIN reqs : reqs[i].count >= 1 /\ reqs[i].role \in names

---------------------------------------------------------------------------
\* What the open form validates: the card its field against every role name in the cache, a
\* dialog its field, or the default when blank, against the role the creation
\* will make.
Submitted == IF value = <<>> /\ ~owner.exists THEN DefaultCondition ELSE value
Valid == ValidateApprovalCondition(Submitted, IF owner.exists THEN knownRoles \cup {Builtin}
                                                              ELSE {Builtin})

PolicyInit ==
  /\ owner \in [kind : OwnerKinds, exists : BOOLEAN, condition : {DefaultCondition}, roles : {{Builtin}}]
  /\ knownRoles = {} /\ current = owner.condition
  /\ draftName = FALSE
  /\ value = IF owner.exists THEN current ELSE <<>>
  /\ savingPolicy = Idle /\ saves = 0

TypeCondition(cond) ==
  /\ value' = cond
  /\ UNCHANGED <<owner, knownRoles, current, draftName, savingPolicy, saves>>

\* The dialog's name field; a dialog that is closed and reopened keeps both fields.
TypeName ==
  /\ ~owner.exists /\ draftName' = ~draftName
  /\ UNCHANGED <<owner, knownRoles, current, value, savingPolicy, saves>>

\* Someone creates a role, or deletes one that was not created with the project or
\* group, whichever conditions name it.
CreateRole ==
  /\ \E role \in CustomRoles \ owner.roles :
        owner' = [owner EXCEPT !.roles = @ \cup {role}]
  /\ UNCHANGED <<knownRoles, current, draftName, value, savingPolicy, saves>>

DeleteNamedRole ==
  /\ \E role \in CustomRoles \cap owner.roles :
        owner' = [owner EXCEPT !.roles = @ \ {role}]
  /\ UNCHANGED <<knownRoles, current, draftName, value, savingPolicy, saves>>

\* Someone else puts the default condition back.
DefaultRestored ==
  /\ owner.exists
  /\ owner' = [owner EXCEPT !.condition = DefaultCondition]
  /\ UNCHANGED <<knownRoles, current, draftName, value, savingPolicy, saves>>

\* The roles query is (re)fetched.
LoadRoleNames ==
  /\ knownRoles' = owner.roles
  /\ UNCHANGED <<owner, current, draftName, value, savingPolicy, saves>>

\* The detail query is refetched: the card's field takes the stored condition
\* when that is another one than before, whatever has been typed meanwhile.
ReloadCondition ==
  /\ owner.exists /\ current' = owner.condition
  /\ value' = IF current' # current THEN current' ELSE value
  /\ UNCHANGED <<owner, knownRoles, draftName, savingPolicy, saves>>

\* Save policy, or Create.
SavePolicy ==
  /\ ~savingPolicy.pending /\ saves < MaxSaves
  /\ Valid
  /\ IF owner.exists THEN value # current ELSE draftName
  /\ savingPolicy' = [pending |-> TRUE, condition |-> Submitted]
  /\ saves' = saves + 1
  /\ UNCHANGED <<owner, knownRoles, current, draftName, value>>

\* The server stores what it accepts: a card's request replaces the condition, a
\* dialog's creates the project or group.  The client refetches after a success;
\* the card of the created object opens with what was stored.
PolicySaved ==
  /\ savingPolicy.pending
  /\ owner.exists => owner.kind = "project"
  /\ ServerAccepts(savingPolicy.condition, owner.roles)
  /\ owner' = [owner EXCEPT !.exists = TRUE, !.condition = savingPolicy.condition]
  /\ current' = savingPolicy.condition
  /\ value' = IF current' # current \/ ~owner.exists THEN current' ELSE value
  /\ draftName' = FALSE /\ savingPolicy' = Idle
  /\ UNCHANGED <<knownRoles, saves>>

\* It refuses the rest, and it has no route for the request the card of a Global
\* Values group sends; a toast tells, nothing changes.
PolicyRefused ==
  /\ savingPolicy.pending
  /\ \/ ~ServerAccepts(savingPolicy.condition, owner.roles)
     \/ owner.exists /\ owner.kind = "global-values"
  /\ savingPolicy' = Idle
  /\ UNCHANGED <<owner, knownRoles, current, draftName, value, saves>>

PolicyNext ==
  \/ \E cond \in Conditions : TypeCondition(cond)
  \/ TypeName \/ CreateRole \/ DeleteNamedRole \/ DefaultRestored \/ LoadRoleNames \/ ReloadCondition
  \/ SavePolicy \/ PolicySaved \/ PolicyRefused

PolicySpec == PolicyInit /\ [][PolicyNext]_policyVars

---------------------------------------------------------------------------
\* The merge gate asks for exactly the parts of the stored condition that were
\* written with a lower-case x, in their order and with their counts and roles, for
\* at least one part, and each for at least one approval: a condition is neither
\* shortened nor emptied by how it is parsed (approval-condition.ts:20-44,
\* approval_condition.go:67-100).  A part written with a capital X is accepted and
\* then asks for nothing, and the role that a part names may be deleted later.
SavedPolicyIsEnforced ==
  LET cond == owner.condition
      enforced == ParseApprovalCondition(cond)
  IN  /\ enforced = Select(cond, {i \in DOMAIN cond : cond[i].mark = "x"})
      /\ enforced # <<>> /\ \A i \in DOMAIN enforced : enforced[i].count >= 1
=============================================================================
