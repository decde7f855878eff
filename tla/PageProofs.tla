------------------------------ MODULE PageProofs ------------------------------
(***************************************************************************)
(* Proofs about the pages of the frontend, one page at a time: each        *)
(* section has the invariant of a page, the lemmas that its actions keep   *)
(* it, and the theorems of the page's specification that follow.           *)
(***************************************************************************)
EXTENDS MemberPermissions, UserLists, PolicyEditor, TemplateWorkspace, EnvValues,
        GroupEditor, ReviewPage, ReviewDiffs, LoginForm, QueryCache, FiniteSetTheorems, TLAPS

-----------------------------------------------------------------------------
(***************************************************************************)
(* Selection                                                               *)
(***************************************************************************)
\* Ranks number the positions from one, each differently.
LEMMA RankNumbers ==
  ASSUME NEW n \in Nat, NEW P \in SUBSET (1..n)
  PROVE  /\ Cardinality(P) \in Nat
         /\ \A i \in P : Rank(P, i) \in 1..Cardinality(P)
         /\ \A i, j \in P : Rank(P, i) = Rank(P, j) => i = j
<1>1. IsFiniteSet(P)
  <2>1. IsFiniteSet(1..n)
    BY FS_Interval
  <2> QED
    BY <2>1, FS_Subset
<1>2. Cardinality(P) \in Nat
  BY <1>1, FS_CardinalityType
<1> DEFINE upTo(i) == {j \in P : j <= i}
<1>3. \A i : /\ IsFiniteSet(upTo(i)) /\ Cardinality(upTo(i)) \in Nat
             /\ Cardinality(upTo(i)) <= Cardinality(P)
  <2>1. \A i : upTo(i) \in SUBSET P
    OBVIOUS
  <2> QED
    BY <1>1, <2>1, FS_Subset, FS_CardinalityType
<1>4. ASSUME NEW i \in P PROVE Rank(P, i) \in 1..Cardinality(P)
  <2>1. i \in upTo(i)
    OBVIOUS
  <2> HIDE DEF upTo
  <2>2. Cardinality(upTo(i)) # 0
    BY <1>3, <2>1, FS_EmptySet
  <2>3. Cardinality(upTo(i)) \in 1..Cardinality(P)
    BY <1>2, <1>3, <2>2
  <2> QED
    BY <2>3 DEF Rank, upTo
<1>5. ASSUME NEW i \in P, NEW j \in P, i < j PROVE Rank(P, i) # Rank(P, j)
  <2>1. upTo(i) \in SUBSET upTo(j) /\ j \in upTo(j) /\ j \notin upTo(i)
    <3>1. \A x \in P : x \in Nat /\ i \in Nat /\ j \in Nat
      OBVIOUS
    <3>2. ASSUME NEW x \in upTo(i) PROVE x \in upTo(j)
      BY <1>5, <3>1
    <3>3. j \in upTo(j) /\ j \notin upTo(i)
      BY <1>5, <3>1
    <3> QED
      BY <3>2, <3>3
  <2> HIDE DEF upTo
  <2>2. Cardinality(upTo(i)) # Cardinality(upTo(j))
    BY <1>3, <2>1, FS_Subset
  <2> QED
    BY <2>2 DEF Rank, upTo
<1>6. ASSUME NEW i \in P, NEW j \in P, i # j PROVE Rank(P, i) # Rank(P, j)
  <2>1. i < j \/ j < i
    BY <1>6
  <2> QED
    BY <1>5, <2>1
<1> QED
  BY <1>2, <1>4, <1>6

\* A member is found at the rank of its position.
LEMMA SelectAtRank ==
  ASSUME NEW n \in Nat, NEW P \in SUBSET (1..n), NEW s, NEW i \in P
  PROVE  /\ Rank(P, i) \in 1..Cardinality(P)
         /\ Select(s, P)[Rank(P, i)] = s[i]
<1> DEFINE k == Rank(P, i)
<1>1. k \in 1..Cardinality(P)
  BY RankNumbers
<1>2. (CHOOSE j \in P : Rank(P, j) = k) = i
  <2>1. \A j \in P : Rank(P, j) = k <=> j = i
    BY RankNumbers
  <2> HIDE DEF k
  <2> QED
    BY <2>1
<1>3. Select(s, P)[k] = s[CHOOSE j \in P : Rank(P, j) = k]
  BY <1>1 DEF Select
<1> QED
  BY <1>1, <1>2, <1>3

\* Selecting at the first m positions keeps the first m members.
LEMMA SelectFirst ==
  ASSUME NEW m \in Nat, NEW s
  PROVE  Select(s, 1..m) = [k \in 1..m |-> s[k]]
<1>1. Cardinality(1..m) = m
  BY FS_Interval
<1>2. ASSUME NEW k \in 1..m PROVE Rank(1..m, k) = k
  <2>1. {j \in 1..m : j <= k} = 1..k
    OBVIOUS
  <2>2. Cardinality(1..k) = k
    BY FS_Interval
  <2> QED
    BY <2>1, <2>2 DEF Rank
<1>3. ASSUME NEW k \in 1..m PROVE s[CHOOSE i \in 1..m : Rank(1..m, i) = k] = s[k]
  <2>1. \A i \in 1..m : Rank(1..m, i) = k <=> i = k
    BY <1>2
  <2> QED
    BY <2>1
<1> QED
  BY <1>1, <1>3 DEF Select

-----------------------------------------------------------------------------
(***************************************************************************)
(* MemberPermissions                                                       *)
(***************************************************************************)
AccessOfMember ==
  [templates : SUBSET TemplateActions, levels : [Environments -> Levels]]

PermsTypeOK ==
  /\ granted \in AccessOfMember
  /\ envRows \in SUBSET Environments
  /\ permsForm \in [loaded : BOOLEAN, seed : AccessOfMember, access : AccessOfMember,
                    touched : SUBSET Environments]
  /\ permsPut \in [sent : BOOLEAN, access : AccessOfMember, seed : AccessOfMember,
                   touched : SUBSET Environments]

\* What was not touched is as it was seeded, on screen and on its way.
UntouchedIsSeed(x) ==
  \A e \in Environments \ x.touched : x.access.levels[e] = x.seed.levels[e]

PermsInv ==
  /\ PermsTypeOK
  /\ UntouchedIsSeed(permsForm)
  /\ UntouchedIsSeed(permsPut)

LEMMA NoAccessTyped == NoAccess \in AccessOfMember
BY DEF NoAccess, AccessOfMember, Levels

LEMMA SeedingTyped ==
  ASSUME NEW a \in AccessOfMember
  PROVE  /\ Seeding(a) \in [loaded : BOOLEAN, seed : AccessOfMember,
                            access : AccessOfMember, touched : SUBSET Environments]
         /\ UntouchedIsSeed(Seeding(a))
BY DEF Seeding, UntouchedIsSeed

LEMMA PayloadTyped ==
  ASSUME PermsTypeOK
  PROVE  /\ Payload \in AccessOfMember
         /\ \A e \in envRows : Payload.levels[e] = permsForm.access.levels[e]
<1>1. /\ permsForm.access \in AccessOfMember
      /\ "none" \in Levels
  BY DEF PermsTypeOK, Levels
<1> DEFINE levels == [e \in Environments |-> IF e \in envRows THEN permsForm.access.levels[e]
                                             ELSE "none"]
<1>2. levels \in [Environments -> Levels]
  BY <1>1 DEF AccessOfMember
<1>3. Payload = [permsForm.access EXCEPT !.levels = levels]
  BY <1>1 DEF Payload
<1> HIDE DEF levels
<1>4. Payload \in AccessOfMember /\ Payload.levels = levels
  BY <1>1, <1>2, <1>3 DEF AccessOfMember
<1> QED
  BY <1>4 DEF levels, PermsTypeOK

LEMMA PermsStep ==
  ASSUME PermsInv, [PermsNext]_permsVars
  PROVE  PermsInv'
<1> USE DEF PermsInv, PermsTypeOK
<1>1. CASE AnotherAdmin
  BY <1>1 DEF AnotherAdmin, UntouchedIsSeed, AccessOfMember
<1>2. CASE LoadEnvironments
  BY <1>2 DEF LoadEnvironments, UntouchedIsSeed
<1>3. CASE LoadPermissions
  BY <1>3, SeedingTyped DEF LoadPermissions, SeedForm, UntouchedIsSeed
<1>4. CASE SetTemplate
  <2>1. PICK t \in TemplateActions :
          permsForm' = [permsForm EXCEPT !.access.templates = Toggle(@, t)]
    BY <1>4 DEF SetTemplate
  <2>2. Toggle(permsForm.access.templates, t) \in SUBSET TemplateActions
    BY DEF Toggle, AccessOfMember, TemplateActions
  <2> DEFINE access == [permsForm.access EXCEPT !.templates =
                          Toggle(permsForm.access.templates, t)]
  <2>3. access \in AccessOfMember /\ access.levels = permsForm.access.levels
    BY <2>2 DEF AccessOfMember
  <2>4. permsForm' = [permsForm EXCEPT !.access = access]
    BY <2>1
  <2> HIDE DEF access
  <2> QED
    BY <1>4, <2>3, <2>4 DEF SetTemplate, UntouchedIsSeed
<1>5. CASE SetLevel
  <2>1. PICK e \in envRows, level \in Levels :
          permsForm' = [permsForm EXCEPT !.access.levels[e] = level, !.touched = @ \cup {e}]
    <3>1. \E e \in envRows, level \in Levels :
            permsForm' = [permsForm EXCEPT !.access.levels[e] = level, !.touched = @ \cup {e}]
      BY <1>5, Zenon DEF SetLevel
    <3> QED
      BY <3>1, Zenon
  <2> DEFINE levels == [permsForm.access.levels EXCEPT ![e] = level]
             access == [permsForm.access EXCEPT !.levels = levels]
  <2>2. /\ levels \in [Environments -> Levels]
        /\ \A other \in Environments \ {e} : levels[other] = permsForm.access.levels[other]
    BY DEF AccessOfMember
  <2>3. permsForm' = [permsForm EXCEPT !.access = access, !.touched = @ \cup {e}]
    BY <2>1
  <2> HIDE DEF levels
  <2>4. access \in AccessOfMember /\ access.levels = levels
    BY <2>2 DEF AccessOfMember
  <2> HIDE DEF access
  <2>5. /\ permsForm'.access = access /\ permsForm'.touched = permsForm.touched \cup {e}
        /\ permsForm'.seed = permsForm.seed /\ permsForm'.loaded = permsForm.loaded
        /\ permsForm' \in [loaded : BOOLEAN, seed : AccessOfMember, access : AccessOfMember,
                           touched : SUBSET Environments]
    BY <2>3, <2>4
  <2> QED
    BY <1>5, <2>2, <2>4, <2>5 DEF SetLevel, UntouchedIsSeed
<1>6. CASE SavePermissions
  BY <1>6, PayloadTyped DEF SavePermissions, UntouchedIsSeed
<1>7. CASE SavePermissionsSucceeds
  BY <1>7, SeedingTyped, NoAccessTyped DEF SavePermissionsSucceeds, NoPut, UntouchedIsSeed
<1>8. CASE SavePermissionsFails
  BY <1>8, NoAccessTyped DEF SavePermissionsFails, NoPut, UntouchedIsSeed
<1>9. CASE CancelPermissions
  BY <1>9, SeedingTyped DEF CancelPermissions, UntouchedIsSeed
<1>10. CASE UNCHANGED permsVars
  BY <1>10 DEF permsVars, UntouchedIsSeed
<1> QED
  BY <1>1, <1>2, <1>3, <1>4, <1>5, <1>6, <1>7, <1>8, <1>9, <1>10 DEF PermsNext

THEOREM PermsInvariance == PermsSpec => []PermsInv
<1>1. PermsInit => PermsInv
  BY NoAccessTyped DEF PermsInit, PermsInv, PermsTypeOK, NoPut, UntouchedIsSeed
<1> QED
  BY <1>1, PermsStep, PTL DEF PermsSpec

\* What a save sends for an environment nobody touched is what the last answer said.
THEOREM UntouchedLevelsAreSentAsKnown == PermsSpec => []UntouchedLevelsAreLatestKnown
<1>1. PermsInv => UntouchedLevelsAreLatestKnown
  BY DEF PermsInv, UntouchedIsSeed, UntouchedLevelsAreLatestKnown
<1> QED
  BY <1>1, PermsInvariance, PTL

-----------------------------------------------------------------------------
(***************************************************************************)
(* UserLists                                                               *)
(***************************************************************************)
RosterInv ==
  /\ removing = [dialog |-> removing.dialog, sent |-> removing.sent]
  /\ RemovesTheOneConfirmed

LEMMA RosterStep ==
  ASSUME RosterInv, [RosterNext]_rosterVars
  PROVE  RosterInv'
<1> USE DEF RosterInv, RemovesTheOneConfirmed
<1>1. CASE LoadRoster
  BY <1>1 DEF LoadRoster
<1>2. CASE AskRemoval \/ CancelRemoval
  BY <1>2 DEF AskRemoval, CancelRemoval
<1>3. ASSUME NEW u, NEW confirmed, SendRemoval(u, confirmed), u = confirmed
      PROVE  RosterInv'
  <2> DEFINE new == [user |-> u, confirmed |-> confirmed]
  <2>1. new.user = new.confirmed
    BY <1>3
  <2>2. removing' = [dialog |-> removing.dialog, sent |-> removing.sent \cup {new}]
    BY <1>3 DEF SendRemoval
  <2> HIDE DEF new
  <2> QED
    BY <2>1, <2>2
<1>4. CASE HandleRemove
  <2>1. RowUser(removing.dialog, roster.list) # NoUser
    BY <1>4 DEF HandleRemove, SendRemoval
  <2>2. RowUser(removing.dialog, roster.list) = removing.dialog.asked
    BY <2>1 DEF RowUser
  <2> QED
    BY <1>3, <1>4, <2>2 DEF HandleRemove
<1>5. CASE RemoveHolder
  BY <1>3, <1>5 DEF RemoveHolder
<1>6. CASE RemoveSucceeds \/ RemoveFails
  BY <1>6 DEF RemoveSucceeds, RemoveFails
<1>7. CASE UNCHANGED removing
  BY <1>7
<1> QED
  BY <1>1, <1>2, <1>4, <1>5, <1>6, <1>7
     DEF RosterNext, rosterVars, OthersEdit, OpenAdd, CloseAdd, SearchAnswers, AddUser,
         AddSucceeds, AddFails

\* The user that is removed is the one the question named: a row of the list that is
\* shown when the answer is given, whatever has been loaded in between.
THEOREM RemovalIsAsConfirmed == RosterSpec => []RemovesTheOneConfirmed
<1>1. RosterInit => RosterInv
  BY DEF RosterInit, RosterInv, RemovesTheOneConfirmed
<1>2. RosterInv => RemovesTheOneConfirmed
  BY DEF RosterInv
<1> QED
  BY <1>1, <1>2, RosterStep, PTL DEF RosterSpec

-----------------------------------------------------------------------------
(***************************************************************************)
(* LoginForm                                                               *)
(***************************************************************************)
FormInv ==
  /\ timers \in Seq({"login", "register"})
  /\ frames \in Nat
  /\ requested = IF timers = <<>> THEN view ELSE timers[Len(timers)]
  /\ timers = <<>> /\ frames = 0 => pos = "center"

LEMMA FormStep ==
  ASSUME FormInv, [FormNext]_formVars
  PROVE  FormInv'
<1> USE DEF FormInv
<1>1. ASSUME NEW to \in {"login", "register"}, SwitchTo(to) PROVE FormInv'
  BY <1>1 DEF SwitchTo
<1>2. CASE TimeoutFires
  <2>1. /\ timers # <<>> /\ view' = Head(timers) /\ timers' = Tail(timers)
        /\ frames' = frames + 1 /\ requested' = requested
    BY <1>2 DEF TimeoutFires
  <2>2. CASE Len(timers) = 1
    BY <2>1, <2>2
  <2>3. CASE Len(timers) > 1
    <3>1. /\ Len(timers') = Len(timers) - 1
          /\ \A i \in 1..Len(timers) - 1 : timers'[i] = timers[i + 1]
          /\ timers' \in Seq({"login", "register"})
      BY <2>1
    <3>2. /\ Len(timers) \in Nat /\ Len(timers) - 1 \in 1..Len(timers) - 1
          /\ (Len(timers) - 1) + 1 = Len(timers)
      BY <2>3
    <3>3. timers'[Len(timers')] = timers[Len(timers)]
      BY <3>1, <3>2
    <3>4. timers' # <<>>
      BY <3>1, <3>2
    <3>5. requested' = timers'[Len(timers')] /\ frames' \in Nat
      <4>1. requested' = requested /\ timers # <<>> /\ frames' = frames + 1
        BY <2>1, Zenon
      <4>2. requested = timers[Len(timers)]
        BY <4>1, Zenon
      <4> QED
        BY <4>1, <4>2, <3>3
    <3>6. timers' \in Seq({"login", "register"})
      BY <3>1
    <3>7. requested' = IF timers' = <<>> THEN view' ELSE timers'[Len(timers')]
      BY <3>4, <3>5, Zenon
    <3> QED
      BY <3>4, <3>5, <3>6, <3>7, Zenon
  <2> QED
    BY <2>1, <2>2, <2>3
<1>3. CASE SettleAfterDoubleRAF
  BY <1>3 DEF SettleAfterDoubleRAF
<1>4. CASE ConfigArrives \/ UNCHANGED formVars
  BY <1>4 DEF ConfigArrives, formVars
<1> QED
  BY <1>1, <1>2, <1>3, <1>4 DEF FormNext, RegisterLink, SignInLink

\* However many switches overlap, the form asked for last is the one that stays.
THEOREM LastSwitchAlwaysWins == FormSpec => []LastSwitchWins
<1>1. FormInit => FormInv
  BY DEF FormInit, FormInv
<1>2. FormInv => LastSwitchWins
  BY DEF FormInv, LastSwitchWins
<1> QED
  BY <1>1, <1>2, FormStep, PTL DEF FormSpec

-----------------------------------------------------------------------------
(***************************************************************************)
(* GroupEditor                                                             *)
(***************************************************************************)
\* A proposal is only opened on the latest version; with none open, the rows of
\* the table were copied from the version that is shown.
GroupInv ==
  /\ table = [from |-> table.from, rows |-> table.rows]
  /\ viewing = [version |-> viewing.version, asked |-> viewing.asked]
  /\ proposal = [open |-> proposal.open, from |-> proposal.from, keys |-> proposal.keys,
                 sent |-> proposal.sent]
  /\ proposal.open \in BOOLEAN /\ proposal.sent \in BOOLEAN
  /\ proposal.open => viewing.version = 0
  /\ ~proposal.open => table.from = Displayed(knownLatest, viewing.version)

LEMMA ViewingExcept ==
  ASSUME viewing = [version |-> viewing.version, asked |-> viewing.asked], NEW other
  PROVE  /\ [viewing EXCEPT !.version = other] = [version |-> other, asked |-> viewing.asked]
         /\ [viewing EXCEPT !.asked = other] = [version |-> viewing.version, asked |-> other]
OBVIOUS

LEMMA GroupStep ==
  ASSUME GroupInv, [GroupNext]_groupVars
  PROVE  GroupInv'
<1> USE DEF GroupInv
<1>1. ASSUME NEW v PROVE /\ Copied(v).from = v
                         /\ Copied(v) = [from |-> Copied(v).from, rows |-> Copied(v).rows]
  BY DEF Copied
<1>2. ASSUME NEW latest, NEW version, NEW asked, ~proposal.open,
             Rerender(latest, [version |-> version, asked |-> asked])
      PROVE  GroupInv'
  BY <1>1, <1>2 DEF Rerender
<1>3. ASSUME NEW rows, ~proposal.open, EditRows(rows) PROVE GroupInv'
  BY <1>3 DEF EditRows
<1>4. CASE LoadGroup
  BY <1>2, <1>4 DEF LoadGroup
<1>5. CASE SelectGroupHistory
  BY <1>2, <1>5 DEF SelectGroupHistory, OnPage
<1>6. CASE ReceiveHistory \/ HistoryFails \/ BackToLatest
  <2>1. \E latest, version, asked :
          ~proposal.open /\ Rerender(latest, [version |-> version, asked |-> asked])
    <3>1. CASE ReceiveHistory
      BY <3>1 DEF ReceiveHistory, OnPage
    <3>2. CASE HistoryFails
      <4>1. PICK v \in viewing.asked :
              ~proposal.open /\ Rerender(knownLatest, [viewing EXCEPT !.asked = @ \ {v}])
        BY <3>2 DEF HistoryFails, OnPage
      <4>2. [viewing EXCEPT !.asked = @ \ {v}]
            = [version |-> viewing.version, asked |-> viewing.asked \ {v}]
        BY ViewingExcept
      <4>3. /\ ~proposal.open
            /\ Rerender(knownLatest, [version |-> viewing.version, asked |-> viewing.asked \ {v}])
        BY <4>1, <4>2
      <4> QED
        BY <4>3, Zenon
    <3>3. CASE BackToLatest
      <4>1. [viewing EXCEPT !.version = 0] = [version |-> 0, asked |-> viewing.asked]
        BY ViewingExcept
      <4>2. /\ ~proposal.open
            /\ Rerender(knownLatest, [version |-> 0, asked |-> viewing.asked])
        BY <3>3, <4>1 DEF BackToLatest, OnPage
      <4> QED
        BY <4>2, Zenon
    <3> QED
      BY <1>6, <3>1, <3>2, <3>3
  <2> QED
    BY <1>2, <2>1
<1>7. CASE HandleKeyChange \/ HandleValueChange \/ HandleListChange \/ HandleTypeChange
           \/ HandleDelete \/ HandleAdd
  <2>1. PICK rows : EditRows(rows)
    BY <1>7 DEF HandleKeyChange, HandleValueChange, HandleListChange, HandleTypeChange,
                HandleDelete, HandleAdd
  <2> QED
    BY <1>3, <2>1 DEF EditRows, OnPage
<1>8. CASE HandleCreatePR
  BY <1>8 DEF HandleCreatePR, EmptyTable
<1>9. CASE SubmitProposal \/ ProposalFails
  BY <1>9 DEF SubmitProposal, ProposalFails
<1>10. CASE LeaveProposal
  BY <1>1, <1>10 DEF LeaveProposal, NoProposal, Displayed
<1>11. CASE SomeoneMerges \/ UNCHANGED groupVars
  BY <1>11 DEF SomeoneMerges, groupVars
<1> QED
  BY <1>4, <1>5, <1>6, <1>7, <1>8, <1>9, <1>10, <1>11 DEF GroupNext

\* Rows that may be proposed are a copy of the latest version the page knows.
THEOREM ProposalsStartFromCurrent == GroupSpec => []ProposalStartsFromCurrent
<1>1. GroupInit => GroupInv
  BY DEF GroupInit, GroupInv, EmptyTable, NoProposal, Displayed
<1>2. GroupInv => ProposalStartsFromCurrent
  BY DEF GroupInv, ProposalStartsFromCurrent, OnPage, CanCreatePR, ReadOnly, Displayed
<1> QED
  BY <1>1, <1>2, GroupStep, PTL DEF GroupSpec

-----------------------------------------------------------------------------
(***************************************************************************)
(* PolicyEditor                                                            *)
(***************************************************************************)
WrittenRoles == {part.role : part \in Parts} \cup {Builtin}
WrittenParts == [count : Nat, mark : {"x", "X"}, role : WrittenRoles]
Written == Seq(WrittenParts)
ExistingRoles == {Builtin, "release", "release:eu"}

PolicyTypeOK ==
  /\ owner \in [kind : OwnerKinds, exists : BOOLEAN, condition : Written,
                roles : SUBSET ExistingRoles]
  /\ current \in Written /\ value \in Written
  /\ savingPolicy \in [pending : BOOLEAN, condition : Written]

\* What the merge gate makes of a condition.
Enforced(cond) ==
  /\ ParseApprovalCondition(cond) = Select(cond, {i \in DOMAIN cond : cond[i].mark = "x"})
  /\ ParseApprovalCondition(cond) # <<>>
  /\ \A i \in DOMAIN ParseApprovalCondition(cond) : ParseApprovalCondition(cond)[i].count >= 1

PolicyInv ==
  /\ PolicyTypeOK
  /\ Enforced(owner.condition)

\* Parsing reads back the lower-case parts of a well-formed condition.
LEMMA ParsingReadsBack ==
  ASSUME NEW cond \in Written, IsWellFormed(cond)
  PROVE  ParseApprovalCondition(cond) = Select(cond, {i \in DOMAIN cond : cond[i].mark = "x"})
<1> DEFINE read == [i \in DOMAIN cond |->
                      [count |-> cond[i].count, mark |-> cond[i].mark, role |-> RoleRead(cond, i)]]
           passing == {i \in DOMAIN read : read[i].mark = "x" /\ read[i].role # NoRole}
           lower == {i \in DOMAIN cond : cond[i].mark = "x"}
<1>1. Len(cond) \in Nat /\ DOMAIN cond = 1..Len(cond)
  BY DEF Written
<1>2. ASSUME NEW i \in DOMAIN cond PROVE read[i] = cond[i]
  <2>1. RoleRead(cond, i) = cond[i].role
    BY DEF IsWellFormed, RoleRead
  <2>2. cond[i] \in WrittenParts
    BY <1>1 DEF Written
  <2>3. cond[i] = [count |-> cond[i].count, mark |-> cond[i].mark, role |-> cond[i].role]
    BY <2>2 DEF WrittenParts
  <2> QED
    BY <2>1, <2>3
<1>3. read = cond
  BY <1>1, <1>2 DEF Written
<1>4. \A i \in DOMAIN cond : cond[i].role # NoRole
  BY DEF IsWellFormed
<1>5. ParseApprovalCondition(cond) = Select(read, passing)
  BY DEF ParseApprovalCondition
<1>6. passing = lower
  BY <1>1, <1>3, <1>4
<1> HIDE DEF read, passing, lower
<1>7. Select(read, passing) = Select(cond, lower)
  BY <1>3, <1>6
<1> QED
  BY <1>5, <1>7 DEF lower

LEMMA AcceptedIsEnforced ==
  ASSUME NEW cond \in Written, NEW roles, ServerAccepts(cond, roles)
  PROVE  Enforced(cond)
BY ParsingReadsBack DEF ServerAccepts, Enforced

LEMMA DefaultIsEnforced ==
  /\ DefaultCondition \in Written
  /\ Enforced(DefaultCondition)
<1>1. /\ DefaultCondition \in Written /\ DefaultCondition # <<>>
      /\ DOMAIN DefaultCondition = {1}
      /\ DefaultCondition[1].count = 1 /\ DefaultCondition[1].mark = "x"
      /\ DefaultCondition[1].role = Builtin /\ Builtin # NoRole
  <2> DEFINE part == [count |-> 1, mark |-> "x", role |-> Builtin]
  <2>1. Builtin \in WrittenRoles /\ Builtin # NoRole
    BY DEF WrittenRoles, Builtin, NoRole
  <2>2. part \in WrittenParts /\ part.count = 1 /\ part.mark = "x" /\ part.role = Builtin
    BY <2>1 DEF WrittenParts
  <2>3. DefaultCondition = <<part>>
    BY DEF DefaultCondition
  <2> HIDE DEF part
  <2> QED
    BY <2>1, <2>2, <2>3 DEF Written
<1>2. IsWellFormed(DefaultCondition)
  BY <1>1 DEF IsWellFormed
<1>3. Select(DefaultCondition, 1..1) = [k \in 1..1 |-> DefaultCondition[k]]
  BY <1>1, SelectFirst DEF Written
<1>4. {i \in DOMAIN DefaultCondition : DefaultCondition[i].mark = "x"} = 1..1
  BY <1>1
<1>5. ParseApprovalCondition(DefaultCondition) = [k \in 1..1 |-> DefaultCondition[k]]
  BY <1>1, <1>2, <1>3, <1>4, ParsingReadsBack
<1> QED
  BY <1>1, <1>2, <1>4, <1>5, ParsingReadsBack DEF Enforced

LEMMA ConditionsAreWritten == Conditions \subseteq Written
<1> SUFFICES ASSUME NEW n \in 0..MaxParts, NEW cond \in [1..n -> Parts]
             PROVE  cond \in Written
  BY DEF Conditions
<1>1. ASSUME NEW part \in Parts PROVE part \in WrittenParts
  <2>1. part \in [count : Nat, mark : {"x", "X"}, role : STRING] /\ part.role \in WrittenRoles
    BY PartsAreRead DEF WrittenRoles
  <2> QED
    BY <2>1 DEF WrittenParts
<1>2. cond \in [1..n -> WrittenParts]
  BY <1>1
<1> QED
  BY <1>2 DEF Written

LEMMA PolicyStep ==
  ASSUME PolicyInv, [PolicyNext]_policyVars
  PROVE  PolicyInv'
<1> USE DEF PolicyInv, PolicyTypeOK
<1>1. ASSUME NEW cond \in Conditions, TypeCondition(cond) PROVE PolicyInv'
  BY <1>1, ConditionsAreWritten DEF TypeCondition
<1>2. CASE CreateRole \/ DeleteNamedRole
  <2>1. PICK roles \in SUBSET ExistingRoles : owner' = [owner EXCEPT !.roles = roles]
    <3>1. \A role \in CustomRoles : /\ owner.roles \cup {role} \in SUBSET ExistingRoles
                                   /\ owner.roles \ {role} \in SUBSET ExistingRoles
      BY DEF ExistingRoles, CustomRoles
    <3> QED
      BY <1>2, <3>1 DEF CreateRole, DeleteNamedRole
  <2>2. /\ owner' \in [kind : OwnerKinds, exists : BOOLEAN, condition : Written,
                       roles : SUBSET ExistingRoles]
        /\ owner'.condition = owner.condition
    BY <2>1
  <2> QED
    BY <1>2, <2>2 DEF CreateRole, DeleteNamedRole
<1>3. CASE DefaultRestored
  <2>1. /\ owner' \in [kind : OwnerKinds, exists : BOOLEAN, condition : Written,
                       roles : SUBSET ExistingRoles]
        /\ owner'.condition = DefaultCondition
    BY <1>3, DefaultIsEnforced DEF DefaultRestored
  <2> QED
    BY <1>3, <2>1, DefaultIsEnforced DEF DefaultRestored
<1>4. CASE LoadRoleNames \/ TypeName \/ UNCHANGED policyVars
  BY <1>4 DEF LoadRoleNames, TypeName, policyVars
<1>5. CASE ReloadCondition
  BY <1>5 DEF ReloadCondition
<1>6. CASE SavePolicy
  <2>1. Submitted \in Written
    BY DefaultIsEnforced DEF Submitted
  <2> QED
    BY <1>6, <2>1 DEF SavePolicy
<1>7. <<>> \in Written /\ Idle \in [pending : BOOLEAN, condition : Written]
  BY DEF Idle, Written
<1>8. CASE PolicySaved
  <2>1. /\ owner' \in [kind : OwnerKinds, exists : BOOLEAN, condition : Written,
                       roles : SUBSET ExistingRoles]
        /\ owner'.condition = savingPolicy.condition
    BY <1>8 DEF PolicySaved
  <2>2. Enforced(owner'.condition)
    BY <1>8, <2>1, AcceptedIsEnforced DEF PolicySaved
  <2>3. current' \in Written /\ value' \in Written /\ savingPolicy' = Idle
    BY <1>8 DEF PolicySaved
  <2> QED
    BY <1>7, <2>1, <2>2, <2>3
<1>9. CASE PolicyRefused
  BY <1>7, <1>9 DEF PolicyRefused
<1> QED
  BY <1>1, <1>2, <1>3, <1>4, <1>5, <1>6, <1>8, <1>9 DEF PolicyNext

THEOREM PolicyInvariance == PolicySpec => []PolicyInv
<1>1. PolicyInit => PolicyInv
  <2> SUFFICES ASSUME PolicyInit PROVE PolicyInv
    OBVIOUS
  <2>1. /\ owner \in [kind : OwnerKinds, exists : BOOLEAN, condition : Written,
                      roles : SUBSET ExistingRoles]
        /\ owner.condition = DefaultCondition
    <3>1. DefaultCondition \in Written /\ {Builtin} \in SUBSET ExistingRoles
      BY DefaultIsEnforced DEF ExistingRoles
    <3> QED
      BY <3>1 DEF PolicyInit
  <2>2. <<>> \in Written /\ Idle \in [pending : BOOLEAN, condition : Written]
    BY DEF Idle, Written
  <2> QED
    BY <2>1, <2>2, DefaultIsEnforced DEF PolicyInit, PolicyInv, PolicyTypeOK
<1> QED
  BY <1>1, PolicyStep, PTL DEF PolicySpec

\* Of a stored condition of any length, the merge gate asks for the parts that were
\* written with a lower-case x, and never for nothing.
THEOREM SavedPoliciesAreEnforced == PolicySpec => []SavedPolicyIsEnforced
<1>1. PolicyInv => SavedPolicyIsEnforced
  BY DEF PolicyInv, Enforced, SavedPolicyIsEnforced
<1> QED
  BY <1>1, PolicyInvariance, PTL

-----------------------------------------------------------------------------
(***************************************************************************)
(* TemplateWorkspace                                                       *)
(***************************************************************************)
BodySources == [of : {"live", "change"}, id : Nat]
Documents == [body : BodySources, history : BOOLEAN, typed : BOOLEAN]
StagedDrafts == [status : {"none", "draft", "open"}, change : Nat]
Copies == [list : Nat, detail : Nat, draft : StagedDrafts]
EditorViews ==
  [at : {"none", "live", "staged"} \X Nat \X Nat, doc : Documents, locked : BOOLEAN,
   readOnly : BOOLEAN, asked : SUBSET Nat]
Editors == [editing : BOOLEAN, view : EditorViews]

WorkspaceRows == [live : Nat, draft : StagedDrafts, last : Nat]

WorkspaceTypeOK ==
  /\ workspace \in WorkspaceRows
  /\ cached \in Copies
  /\ textEditor \in Editors
  /\ staging \in [by : {"none", "editor", "dialog"}, doc : Documents]

\* An editor that is mounted was rendered for the copies at hand; an old version in it
\* is flagged as read-only; a document it was seeded with is the one of these copies.
EditorMatches(ed, c) ==
  /\ ed.view # Unmounted => /\ ed.view.at = Dependencies(c)
                            /\ Row(c) # "none"
                            /\ ed.editing = TRUE
  /\ ed.view.doc.history = TRUE => ed.view.readOnly = TRUE
  /\ (ed.view.doc # NoDoc /\ HasBody(c) /\ ed.view.readOnly = FALSE
        /\ ed.view.doc.typed = FALSE) => ed.view.doc.body = InitialBody(c)

WorkspaceInv ==
  /\ WorkspaceTypeOK
  /\ EditorMatches(textEditor, cached)
  /\ staging.doc.history = FALSE

LEMMA DocumentsTyped ==
  /\ NoDraft \in StagedDrafts /\ NoDoc \in Documents /\ NoDoc.history = FALSE
  /\ Unmounted \in EditorViews /\ Unmounted.doc = NoDoc /\ Unmounted.at[1] = "none"
  /\ \A n \in Nat : Live(n) \in BodySources
  /\ \A c \in Copies : /\ FreshDoc(c) \in Documents
                       /\ FreshDoc(c).body = InitialBody(c)
                       /\ FreshDoc(c).history = FALSE
                       /\ Row(c) \in {"none", "live", "staged"}
                       /\ Dependencies(c) \in {"none", "live", "staged"} \X Nat \X Nat
<1>1. NoDoc \in Documents /\ NoDoc.history = FALSE /\ NoDraft \in StagedDrafts
  BY DEF NoDoc, Documents, BodySources, Live, NoDraft, StagedDrafts
<1>2. Unmounted \in EditorViews /\ Unmounted.doc = NoDoc /\ Unmounted.at[1] = "none"
  BY <1>1 DEF Unmounted, EditorViews
<1>3. \A n \in Nat : Live(n) \in BodySources /\ Change(n) \in BodySources
  BY DEF Live, Change, BodySources
<1>4. ASSUME NEW c \in Copies
      PROVE  /\ InitialBody(c) \in BodySources
             /\ Row(c) \in {"none", "live", "staged"}
             /\ Dependencies(c) \in {"none", "live", "staged"} \X Nat \X Nat
  <2>1. c.detail \in Nat /\ c.draft.change \in Nat
    BY DEF Copies, StagedDrafts
  <2> QED
    BY <1>3, <2>1 DEF InitialBody, Row, Dependencies
<1>5. ASSUME NEW c \in Copies
      PROVE  /\ FreshDoc(c) \in Documents /\ FreshDoc(c).body = InitialBody(c)
             /\ FreshDoc(c).history = FALSE
  BY <1>4 DEF FreshDoc, Documents
<1> QED
  BY <1>1, <1>2, <1>3, <1>4, <1>5

\* Rendering for other copies leaves an editor that matches them.
LEMMA RenderedMatches ==
  ASSUME NEW ed \in Editors, NEW old \in Copies, NEW c \in Copies, EditorMatches(ed, old)
  PROVE  Rendered(ed, c) \in Editors /\ EditorMatches(Rendered(ed, c), c)
<1> DEFINE away == [ed EXCEPT !.view = Unmounted]
<1>1. away \in Editors /\ EditorMatches(away, c)
  BY DocumentsTyped DEF Editors, EditorMatches
<1>2. CASE ~ed.editing \/ Row(c) = "none"
  BY <1>1, <1>2 DEF Rendered
<1>3. CASE ed.editing /\ Row(c) # "none" /\ ed.view.at = Dependencies(c)
  <2>1. Rendered(ed, c) = ed
    BY <1>3 DEF Rendered
  <2>2. ASSUME ed.view # Unmounted
        PROVE  c.detail = old.detail /\ c.draft.change = old.draft.change
    <3>1. Dependencies(old) = Dependencies(c)
      BY <1>3, <2>2 DEF EditorMatches
    <3> QED
      BY <3>1 DEF Dependencies
  <2>3. ASSUME ed.view # Unmounted
        PROVE  HasBody(c) = HasBody(old) /\ InitialBody(c) = InitialBody(old)
    BY <2>2, <2>3 DEF HasBody, InitialBody
  <2>4. ed.view.doc # NoDoc => ed.view # Unmounted
    BY DocumentsTyped
  <2> QED
    BY <1>3, <2>1, <2>3, <2>4 DEF EditorMatches, Editors
<1>4. CASE ed.editing /\ Row(c) # "none" /\ ed.view.at # Dependencies(c)
  <2> DEFINE basis == IF ed.view.at[1] = Row(c) THEN ed.view ELSE Unmounted
             shown == [basis EXCEPT !.at = Dependencies(c),
                        !.doc = IF HasBody(c) THEN FreshDoc(c) ELSE @,
                        !.locked = IF HasBody(c) THEN FALSE ELSE @]
  <2>1. /\ basis \in EditorViews
        /\ basis.doc.history = TRUE => basis.readOnly = TRUE
    BY DocumentsTyped DEF Editors, EditorMatches
  <2>2. Rendered(ed, c) = [ed EXCEPT !.view = shown]
    BY <1>4 DEF Rendered
  <2> HIDE DEF basis
  <2>3. /\ shown \in EditorViews
        /\ shown.at = Dependencies(c)
        /\ shown.readOnly = basis.readOnly
        /\ shown.doc = IF HasBody(c) THEN FreshDoc(c) ELSE basis.doc
    BY <2>1, DocumentsTyped DEF EditorViews
  <2> HIDE DEF shown
  <2>4. /\ Rendered(ed, c) \in Editors /\ Rendered(ed, c).view = shown
        /\ Rendered(ed, c).editing = TRUE
    BY <1>4, <2>2, <2>3 DEF Editors
  <2> QED
    BY <1>4, <2>1, <2>3, <2>4, DocumentsTyped DEF EditorMatches
<1> QED
  BY <1>2, <1>3, <1>4

LEMMA WithDraftTyped ==
  ASSUME NEW w \in WorkspaceRows, NEW d \in StagedDrafts
  PROVE  /\ [w EXCEPT !.draft = d] \in WorkspaceRows
         /\ [w EXCEPT !.last = @ + 1, !.draft = d] \in WorkspaceRows
         /\ [w EXCEPT !.live = @ + 1, !.draft = d] \in WorkspaceRows
<1>1. /\ w.last \in Nat /\ w.last + 1 \in Nat
      /\ w.live \in Nat /\ w.live + 1 \in Nat
  BY DEF WorkspaceRows
<1> QED
  BY <1>1 DEF WorkspaceRows

LEMMA WorkspaceStep ==
  ASSUME WorkspaceInv, [WorkspaceNext]_workspaceVars
  PROVE  WorkspaceInv'
<1> USE DEF WorkspaceInv, WorkspaceTypeOK
<1>1. ASSUME NEW c \in Copies, Show(c), UNCHANGED <<workspace, staging, dialogs>>
      PROVE  WorkspaceInv'
  BY <1>1, RenderedMatches DEF Show
<1>2. ASSUME NEW next \in EditorViews, View(next), next.at = textEditor.view.at,
             textEditor.view # Unmounted,
             next.doc.history = TRUE => next.readOnly = TRUE,
             (next.doc # NoDoc /\ HasBody(cached) /\ next.readOnly = FALSE
                /\ next.doc.typed = FALSE) => next.doc.body = InitialBody(cached)
      PROVE  WorkspaceInv'
  <2>1. textEditor' = [textEditor EXCEPT !.view = next] /\ UNCHANGED <<workspace, cached, staging>>
    BY <1>2 DEF View
  <2>2. /\ textEditor' \in Editors
        /\ textEditor'.view = next /\ textEditor'.editing = textEditor.editing
    BY <2>1 DEF Editors
  <2>3. EditorMatches(textEditor', cached)
    BY <1>2, <2>2 DEF EditorMatches
  <2> QED
    BY <2>1, <2>2, <2>3
<1>3. ASSUME workspace' \in WorkspaceRows,
             UNCHANGED <<cached, textEditor>>,
             UNCHANGED staging \/ staging' = [by |-> "none", doc |-> NoDoc]
      PROVE  WorkspaceInv'
  <2>1. /\ staging' \in [by : {"none", "editor", "dialog"}, doc : Documents]
        /\ staging'.doc.history = FALSE
    BY <1>3, DocumentsTyped
  <2> QED
    BY <1>3, <2>1
<1>4. CASE LoadTemplates \/ LoadTemplate \/ LoadDraft
  <2>1. CASE LoadTemplates
    BY <1>1, <2>1 DEF LoadTemplates, Copies, WorkspaceRows
  <2>2. CASE LoadTemplate
    BY <1>1, <2>2 DEF LoadTemplate, Copies, WorkspaceRows
  <2>3. CASE LoadDraft
    BY <1>1, <2>3 DEF LoadDraft, Copies, WorkspaceRows
  <2> QED
    BY <1>4, <2>1, <2>2, <2>3
<1>5. CASE ToggleEditing
  <2> DEFINE ed == [editing |-> ~textEditor.editing, view |-> Unmounted]
  <2>1. ed \in Editors /\ EditorMatches(ed, cached)
    BY DocumentsTyped DEF Editors, EditorMatches
  <2> HIDE DEF ed
  <2>2. textEditor' = Rendered(ed, cached)
    BY <1>5 DEF ToggleEditing, ed
  <2> QED
    BY <1>5, <2>1, <2>2, RenderedMatches DEF ToggleEditing
<1>6. CASE OthersMerge \/ DraftCloses
  <2>1. NoDraft \in StagedDrafts
    BY DocumentsTyped
  <2>2. /\ [workspace EXCEPT !.draft = NoDraft] \in WorkspaceRows
        /\ [workspace EXCEPT !.live = @ + 1, !.draft = NoDraft] \in WorkspaceRows
    BY <2>1, WithDraftTyped, Zenon
  <2>3. workspace' \in WorkspaceRows
    BY <1>6, <2>2, Zenon DEF OthersMerge, DraftCloses
  <2> QED
    BY <1>3, <1>6, <2>3 DEF OthersMerge, DraftCloses
<1>7. CASE Type
  <2>1. /\ View([textEditor.view EXCEPT !.doc.typed = TRUE])
        /\ textEditor.view \in EditorViews
    BY <1>7 DEF Type, Editors
  <2> DEFINE doc == [textEditor.view.doc EXCEPT !.typed = TRUE]
             next == [textEditor.view EXCEPT !.doc = doc]
  <2>2. doc \in Documents /\ doc.typed = TRUE /\ doc.history = textEditor.view.doc.history
    BY <2>1 DEF EditorViews, Documents
  <2>3. View(next)
    BY <2>1
  <2> HIDE DEF doc
  <2>4. /\ next \in EditorViews /\ next.doc = doc /\ next.at = textEditor.view.at
        /\ next.readOnly = textEditor.view.readOnly
    BY <2>1, <2>2 DEF EditorViews
  <2> HIDE DEF next
  <2>5. textEditor.view # Unmounted
    BY <1>7, DocumentsTyped DEF Type, HasDocument
  <2> QED
    BY <1>2, <2>2, <2>3, <2>4, <2>5 DEF EditorMatches
<1>8. ASSUME NEW v, Ask(v), v \in Nat, textEditor.view # Unmounted PROVE WorkspaceInv'
  <2> DEFINE next == [textEditor.view EXCEPT !.asked = @ \cup {v}]
  <2>1. /\ next \in EditorViews /\ next.doc = textEditor.view.doc
        /\ next.at = textEditor.view.at /\ next.readOnly = textEditor.view.readOnly
    BY <1>8 DEF Editors, EditorViews
  <2>2. View(next)
    BY <1>8 DEF Ask
  <2> HIDE DEF next
  <2> QED
    BY <1>2, <1>8, <2>1, <2>2 DEF EditorMatches
<1>9. ASSUME NEW v, HandleSelectVersion(v), v \in Nat, textEditor.view # Unmounted
      PROVE  WorkspaceInv'
  <2>1. CASE v = cached.detail
    <3> DEFINE next == [textEditor.view EXCEPT
               !.readOnly = FALSE,
               !.doc = IF HasDocument THEN FreshDoc(cached) ELSE @,
               !.locked = IF HasDocument THEN FALSE ELSE @]
    <3>1. View(next)
      BY <1>9, <2>1 DEF HandleSelectVersion
    <3>2. /\ next \in EditorViews /\ next.readOnly = FALSE
          /\ next.at = textEditor.view.at
          /\ next.doc = IF HasDocument THEN FreshDoc(cached) ELSE textEditor.view.doc
      BY DocumentsTyped DEF Editors, EditorViews
    <3> HIDE DEF next
    <3> QED
      BY <1>2, <1>9, <3>1, <3>2, DocumentsTyped DEF EditorMatches, HasDocument
  <2>2. CASE v # cached.detail
    BY <1>8, <1>9, <2>2 DEF HandleSelectVersion
  <2> QED
    BY <2>1, <2>2
<1>10. CASE PickVersion
  <2>1. PICK v \in 1..workspace.live : HandleSelectVersion(v)
    BY <1>10, Zenon DEF PickVersion
  <2>2. v \in Nat
    BY DEF WorkspaceRows
  <2> QED
    BY <1>9, <1>10, <2>1, <2>2 DEF PickVersion
<1>11. CASE ReturnToLatest
  <2>1. textEditor.view # Unmounted
    BY <1>11 DEF ReturnToLatest, Unmounted
  <2>2. cached.detail \in Nat
    BY DEF Copies
  <2> QED
    BY <1>9, <1>11, <2>1, <2>2 DEF ReturnToLatest
<1>12. CASE ReceiveVersion
  <2>1. PICK v \in textEditor.view.asked : VersionArrives(v)
    BY <1>12 DEF ReceiveVersion
  <2> DEFINE old == [body |-> Live(v), history |-> TRUE, typed |-> FALSE]
             next == [textEditor.view EXCEPT
                        !.asked = @ \ {v}, !.readOnly = TRUE, !.locked = HasDocument,
                        !.doc = IF HasDocument THEN old ELSE @]
  <2>2. v \in Nat /\ textEditor.view \in EditorViews /\ textEditor.view # Unmounted
    BY <2>1 DEF Editors, EditorViews, Unmounted
  <2>3. old \in Documents
    BY <2>2, DocumentsTyped DEF Documents
  <2>4. View(next)
    BY <2>1 DEF VersionArrives
  <2> HIDE DEF old
  <2>5. HasDocument \in BOOLEAN
    BY DEF HasDocument
  <2>6. /\ next \in EditorViews /\ next.readOnly = TRUE /\ next.at = textEditor.view.at
    BY <2>2, <2>3, <2>5 DEF EditorViews
  <2> HIDE DEF next
  <2> QED
    BY <1>2, <2>2, <2>4, <2>6 DEF EditorMatches
<1>13. CASE VersionFails
  <2>1. PICK v \in textEditor.view.asked : View([textEditor.view EXCEPT !.asked = @ \ {v}])
    BY <1>13 DEF VersionFails
  <2> DEFINE next == [textEditor.view EXCEPT !.asked = @ \ {v}]
  <2>2. /\ next \in EditorViews /\ next.doc = textEditor.view.doc
        /\ next.at = textEditor.view.at /\ next.readOnly = textEditor.view.readOnly
    BY DEF Editors, EditorViews
  <2>3. textEditor.view # Unmounted
    BY <2>1 DEF Unmounted
  <2>4. View(next)
    BY <2>1
  <2> HIDE DEF next
  <2> QED
    BY <1>2, <2>2, <2>3, <2>4 DEF EditorMatches
<1>14. ASSUME NEW by \in {"editor", "dialog"}, NEW doc \in Documents, doc.history = FALSE,
              Stage(by, doc)
       PROVE  WorkspaceInv'
  <2>1. /\ staging' \in [by : {"none", "editor", "dialog"}, doc : Documents]
        /\ staging'.doc = doc
    BY <1>14 DEF Stage
  <2> QED
    BY <1>14, <2>1 DEF Stage
<1>15. CASE HandleSave
  BY <1>14, <1>15 DEF HandleSave, EditorMatches, Editors, EditorViews, Documents
<1>16. CASE CreateTemplate
  <2>1. /\ [NoDoc EXCEPT !.typed = TRUE] \in Documents
        /\ [NoDoc EXCEPT !.typed = TRUE].history = FALSE
    BY DocumentsTyped DEF Documents
  <2> QED
    BY <1>14, <1>16, <2>1 DEF CreateTemplate
<1>17. Staged \in WorkspaceRows
  <2> DEFINE draft == [status |-> IF workspace.draft.status = "none" THEN "draft"
                                  ELSE workspace.draft.status,
                       change |-> workspace.last + 1]
  <2>1. draft \in StagedDrafts
    BY DEF StagedDrafts, WorkspaceRows
  <2>2. Staged = [workspace EXCEPT !.last = @ + 1, !.draft = draft]
    BY DEF Staged
  <2> HIDE DEF draft
  <2> QED
    BY <2>1, <2>2, WithDraftTyped, Zenon
<1>18. CASE StageSucceeds \/ StageFails
  BY <1>3, <1>17, <1>18 DEF StageSucceeds, StageFails
<1>19. CASE SubmitSucceeds
  <2>1. [workspace.draft EXCEPT !.status = "open"] \in StagedDrafts
    BY DEF StagedDrafts, WorkspaceRows
  <2>2. workspace' = [workspace EXCEPT !.draft = [workspace.draft EXCEPT !.status = "open"]]
    BY <1>19 DEF SubmitSucceeds
  <2>3. workspace' \in WorkspaceRows
    BY <2>1, <2>2, WithDraftTyped, Zenon
  <2> QED
    BY <1>3, <1>19, <2>3 DEF SubmitSucceeds
<1>20. CASE UNCHANGED <<workspace, cached, textEditor, staging>>
  BY <1>20
<1>21. \/ OthersMerge \/ DraftCloses \/ LoadTemplates \/ LoadTemplate \/ LoadDraft
       \/ ToggleEditing \/ Type \/ PickVersion \/ ReturnToLatest \/ ReceiveVersion
       \/ VersionFails \/ HandleSave \/ CreateTemplate \/ StageSucceeds \/ StageFails
       \/ SubmitSucceeds \/ UNCHANGED <<workspace, cached, textEditor, staging>>
  BY DEF WorkspaceNext, workspaceVars, Validate, ToggleCreateDialog, OpenSubmit, CancelSubmit,
         HandleSubmit, SubmitFails, Dialogs
<1> QED
  BY <1>4, <1>5, <1>6, <1>7, <1>10, <1>11, <1>12, <1>13, <1>15, <1>16, <1>18, <1>19,
     <1>20, <1>21

THEOREM WorkspaceInvariance == WorkspaceSpec => []WorkspaceInv
<1>1. WorkspaceInit => WorkspaceInv
  <2> SUFFICES ASSUME WorkspaceInit PROVE WorkspaceInv
    OBVIOUS
  <2>1. MaxLive - 1 \in Nat
    BY WorkspaceBounds
  <2>2. textEditor \in Editors /\ textEditor.view = Unmounted
    BY DocumentsTyped DEF WorkspaceInit, Editors
  <2>3. EditorMatches(textEditor, cached)
    BY <2>2, DocumentsTyped DEF EditorMatches
  <2> QED
    BY <2>1, <2>2, <2>3, DocumentsTyped
       DEF WorkspaceInit, WorkspaceInv, WorkspaceTypeOK, Copies, WorkspaceRows
<1> QED
  BY <1>1, WorkspaceStep, PTL DEF WorkspaceSpec

\* What is staged from the editor is never an old version that was shown for reading.
THEOREM StagedVersionsAreCurrent == WorkspaceSpec => []OldVersionsAreNotSaved
<1>1. WorkspaceInv => OldVersionsAreNotSaved
  BY DEF WorkspaceInv, OldVersionsAreNotSaved
<1> QED
  BY <1>1, WorkspaceInvariance, PTL

\* An editor nobody has typed in shows what the page knows to be staged or live.
THEOREM EditorIsSeededFromCurrent == WorkspaceSpec => []UntouchedEditorShowsCurrent
<1>1. WorkspaceInv => UntouchedEditorShowsCurrent
  BY DEF WorkspaceInv, WorkspaceTypeOK, Editors, EditorViews, Documents, EditorMatches,
         HasDocument, UntouchedEditorShowsCurrent
<1> QED
  BY <1>1, WorkspaceInvariance, PTL

-----------------------------------------------------------------------------
(***************************************************************************)
(* EnvValues                                                               *)
(***************************************************************************)
\* A form whose selectors show what it saves; outside reference mode none is set.
FormAgrees(f) ==
  /\ f = [payload |-> f.payload, refMode |-> f.refMode, ref |-> f.ref]
  /\ f.ref = [group |-> f.ref.group, key |-> f.ref.key]
  /\ f.refMode \in BOOLEAN
  /\ ~f.refMode => f.ref = NoKeyChosen
  /\ f.refMode => f.payload = IF f.ref.key = NoName THEN EmptyText
                              ELSE Reference(f.ref.group, f.ref.key)

\* What a form may hold for a variable that templates range over.
HeldForList(v) == v.type \in {"list", "reference"} \/ v = EmptyText \/ v = Unset

\* Copies of the queries whose values are ones that can be stored.
CopiesOfValues(k) ==
  /\ k = [loaded |-> k.loaded, saved |-> k.saved, drafted |-> k.drafted,
          staged |-> k.staged, live |-> k.live]
  /\ k.staged \in StoredValues /\ k.live \in StoredValues

ValuesInv ==
  /\ CopiesOfValues(known)
  /\ FormAgrees(form)
  /\ Kind(known) = "list" => HeldForList(form.payload)

LEMMA ValuesDiffer ==
  /\ \A t : Text(t).type = "text" /\ Text(t).text = t
  /\ \A items : List(items).type = "list" /\ List(items).items = items
  /\ \A g, k : /\ Reference(g, k).type = "reference"
               /\ Reference(g, k).group = g /\ Reference(g, k).key = k
  /\ Unset.type = "unset" /\ NoValues.type = "none" /\ EmptyText.type = "text"
BY DEF Text, List, Reference, Unset, NoValues, EmptyText

LEMMA FormOfAgrees ==
  ASSUME NEW v
  PROVE  FormAgrees(FormOf(v)) /\ FormOf(v).payload = v
BY DEF FormOf, FormAgrees, NoKeyChosen

LEMMA ToListItemsIsList ==
  ASSUME NEW v
  PROVE  ToListItems(v).type = "list"
<1>1. CASE v.type = "list"
  BY <1>1, ValuesDiffer DEF ToListItems
<1>2. CASE v.type # "list" /\ v = EmptyText
  BY <1>2, ValuesDiffer DEF ToListItems
<1>3. CASE v.type # "list" /\ v # EmptyText
  BY <1>3, ValuesDiffer DEF ToListItems
<1> QED
  BY <1>1, <1>2, <1>3

\* What the effect makes of the copies of the queries.
LEMMA SeedAgrees ==
  ASSUME NEW k, CopiesOfValues(k)
  PROVE  /\ FormAgrees(Seed(k))
         /\ Kind(k) = "list" => HeldForList(Seed(k).payload)
<1> DEFINE source == IF k.staged # NoValues THEN k.staged ELSE k.live
           raw == IF source \in {NoValues, Unset} THEN EmptyText ELSE source
<1>1. source \in StoredValues
  BY DEF CopiesOfValues
<1>2. Seed(k) = IF IsReference(raw)
                THEN [payload |-> raw, refMode |-> TRUE,
                      ref |-> [group |-> raw.group, key |-> raw.key]]
                ELSE FormOf(IF Kind(k) = "list" THEN ToListItems(raw) ELSE raw)
  BY DEF Seed
<1> HIDE DEF source
<1>3. IsReference(raw) => raw \in SomeReference
  BY <1>1, ValuesDiffer DEF IsReference, StoredValues
<1> HIDE DEF raw
<1>4. CASE IsReference(raw)
  <2>1. PICK p \in KeyKinds : raw = Reference(p[1], p[2])
    BY <1>3, <1>4 DEF SomeReference
  <2>2. p[2] # NoName
    BY <2>1, KeysAreNamed
  <2>3. raw.group = p[1] /\ raw.key = p[2] /\ raw.type = "reference"
    BY <2>1, ValuesDiffer
  <2> QED
    BY <1>2, <1>4, <2>1, <2>2, <2>3 DEF FormAgrees, HeldForList
<1>5. CASE ~IsReference(raw)
  BY <1>2, <1>5, FormOfAgrees, ToListItemsIsList DEF HeldForList
<1> QED
  BY <1>4, <1>5

LEMMA ReplacedCopy ==
  ASSUME NEW k, CopiesOfValues(k), NEW x, NEW v \in StoredValues
  PROVE  /\ CopiesOfValues([k EXCEPT !.loaded = x]) /\ CopiesOfValues([k EXCEPT !.saved = x])
         /\ CopiesOfValues([k EXCEPT !.drafted = x]) /\ CopiesOfValues([k EXCEPT !.staged = v])
         /\ CopiesOfValues([k EXCEPT !.live = v])
<1>1. ASSUME NEW l, NEW s, NEW d, NEW o, NEW n,
             k = [loaded |-> l, saved |-> s, drafted |-> d, staged |-> o, live |-> n],
             o \in StoredValues, n \in StoredValues
      PROVE  /\ CopiesOfValues([k EXCEPT !.loaded = x])
             /\ CopiesOfValues([k EXCEPT !.saved = x])
             /\ CopiesOfValues([k EXCEPT !.drafted = x])
             /\ CopiesOfValues([k EXCEPT !.staged = v])
             /\ CopiesOfValues([k EXCEPT !.live = v])
  BY <1>1 DEF CopiesOfValues
<1> QED
  BY <1>1, Zenon DEF CopiesOfValues

LEMMA ReplacedCopies ==
  ASSUME CopiesOfValues(known), NEW x, NEW v \in StoredValues
  PROVE  /\ CopiesOfValues([known EXCEPT !.loaded = TRUE, !.saved = x])
         /\ CopiesOfValues([known EXCEPT !.drafted = x, !.staged = v])
         /\ CopiesOfValues([known EXCEPT !.live = v])
<1>1. [known EXCEPT !.loaded = TRUE, !.saved = x]
      = [[known EXCEPT !.loaded = TRUE] EXCEPT !.saved = x]
  OBVIOUS
<1>2. [known EXCEPT !.drafted = x, !.staged = v]
      = [[known EXCEPT !.drafted = x] EXCEPT !.staged = v]
  OBVIOUS
<1>3. /\ CopiesOfValues([[known EXCEPT !.loaded = TRUE] EXCEPT !.saved = x])
      /\ CopiesOfValues([[known EXCEPT !.drafted = x] EXCEPT !.staged = v])
      /\ CopiesOfValues([known EXCEPT !.live = v])
  BY ReplacedCopy, Zenon
<1> QED
  BY <1>1, <1>2, <1>3

LEMMA ReplacedForm ==
  ASSUME FormAgrees(form), NEW x, NEW v
  PROVE  /\ [form EXCEPT !.refMode = x, !.payload = v]
            = [payload |-> v, refMode |-> x, ref |-> form.ref]
         /\ [form EXCEPT !.ref = x, !.payload = v]
            = [payload |-> v, refMode |-> form.refMode, ref |-> x]
         /\ [form EXCEPT !.ref.key = x, !.payload = v]
            = [payload |-> v, refMode |-> form.refMode,
               ref |-> [group |-> form.ref.group, key |-> x]]
<1>1. PICK p, m, r : form = [payload |-> p, refMode |-> m, ref |-> r]
  BY Zenon DEF FormAgrees
<1>2. form.payload = p /\ form.refMode = m /\ form.ref = r
  BY <1>1
<1>3. [r EXCEPT !.key = x] = [group |-> r.group, key |-> x]
  BY <1>2 DEF FormAgrees
<1>4. ASSUME NEW y
      PROVE  [[form EXCEPT !.ref = y] EXCEPT !.payload = v]
             = [payload |-> v, refMode |-> m, ref |-> y]
  <2> DEFINE next == [form EXCEPT !.ref = y]
  <2>1. next = [payload |-> p, refMode |-> m, ref |-> y]
    BY <1>1
  <2> HIDE DEF next
  <2>2. [next EXCEPT !.payload = v] = [payload |-> v, refMode |-> m, ref |-> y]
    BY <2>1
  <2> QED
    BY <2>2, Zenon DEF next
<1>5. [[form EXCEPT !.refMode = x] EXCEPT !.payload = v]
      = [payload |-> v, refMode |-> x, ref |-> r]
  <2> DEFINE next == [form EXCEPT !.refMode = x]
  <2>1. next = [payload |-> p, refMode |-> x, ref |-> r]
    BY <1>1
  <2> HIDE DEF next
  <2>2. [next EXCEPT !.payload = v] = [payload |-> v, refMode |-> x, ref |-> r]
    BY <2>1
  <2> QED
    BY <2>2, Zenon DEF next
<1>6. /\ [form EXCEPT !.ref.key = x, !.payload = v]
         = [[form EXCEPT !.ref = [form.ref EXCEPT !.key = x]] EXCEPT !.payload = v]
      /\ [form EXCEPT !.refMode = x, !.payload = v]
         = [[form EXCEPT !.refMode = x] EXCEPT !.payload = v]
      /\ [form EXCEPT !.ref = x, !.payload = v]
         = [[form EXCEPT !.ref = x] EXCEPT !.payload = v]
  OBVIOUS
<1>7. [form.ref EXCEPT !.key = x] = [group |-> form.ref.group, key |-> x]
  BY <1>2, <1>3
<1>8. [[form EXCEPT !.ref = [form.ref EXCEPT !.key = x]] EXCEPT !.payload = v]
      = [payload |-> v, refMode |-> form.refMode,
         ref |-> [group |-> form.ref.group, key |-> x]]
  BY <1>2, <1>4, <1>7, Zenon
<1>9. /\ [form EXCEPT !.refMode = x, !.payload = v]
         = [payload |-> v, refMode |-> x, ref |-> form.ref]
      /\ [form EXCEPT !.ref = x, !.payload = v]
         = [payload |-> v, refMode |-> form.refMode, ref |-> x]
  BY <1>2, <1>4, <1>5, <1>6, Zenon
<1> QED
  BY <1>6, <1>8, <1>9, Zenon

LEMMA ValuesStep ==
  ASSUME ValuesInv, [ValuesNext]_valuesVars
  PROVE  ValuesInv'
<1> USE DEF ValuesInv
<1>1. ASSUME NEW k, CopiesOfValues(k), Refetched(k) PROVE ValuesInv'
  BY <1>1, SeedAgrees DEF Refetched, NewInputs
<1>2. ASSUME NEW next, Fill(next), FormAgrees(next),
             Kind(known) = "list" => HeldForList(next.payload)
      PROVE  ValuesInv'
  BY <1>2 DEF Fill
<1>3. CASE LoadVariables
  <2>1. PICK kind \in Kinds : Refetched([known EXCEPT !.loaded = TRUE, !.saved = kind])
    BY <1>3, Zenon DEF LoadVariables
  <2>2. CopiesOfValues([known EXCEPT !.loaded = TRUE, !.saved = kind])
    BY ReplacedCopies, Zenon DEF CopiesOfValues
  <2> QED
    BY <1>1, <2>1, <2>2
<1>4. CASE LoadDraftValues
  <2>1. PICK kind \in Kinds, v \in StoredValues :
          Refetched([known EXCEPT !.drafted = kind, !.staged = v])
    BY <1>4, Zenon DEF LoadDraftValues
  <2>2. CopiesOfValues([known EXCEPT !.drafted = kind, !.staged = v])
    BY ReplacedCopies, <2>1, Zenon
  <2> QED
    BY <1>1, <2>1, <2>2
<1>5. CASE LoadLiveValues
  <2>1. PICK v \in StoredValues : Refetched([known EXCEPT !.live = v])
    BY <1>5 DEF LoadLiveValues
  <2>2. CopiesOfValues([known EXCEPT !.live = v])
    BY ReplacedCopies, <2>1, Zenon
  <2> QED
    BY <1>1, <2>1, <2>2
<1>6. CASE HandleChange
  <2>1. PICK v : Fill([form EXCEPT !.payload = v])
    BY <1>6 DEF HandleChange
  <2>2. Kind(known) = "string" /\ ~form.refMode
    BY <1>6 DEF HandleChange, VariableKind
  <2>3. FormAgrees([form EXCEPT !.payload = v])
    BY <2>2 DEF FormAgrees
  <2> QED
    BY <1>2, <2>1, <2>2, <2>3
<1>7. CASE EditList
  <2>1. PICK items : Fill([form EXCEPT !.payload = List(items)])
    BY <1>7 DEF EditList
  <2>2. ~form.refMode
    BY <1>7 DEF EditList
  <2>3. /\ FormAgrees([form EXCEPT !.payload = List(items)])
        /\ [form EXCEPT !.payload = List(items)].payload = List(items)
    BY <2>2 DEF FormAgrees
  <2>4. HeldForList(List(items))
    BY ValuesDiffer DEF HeldForList
  <2> QED
    BY <1>2, <2>1, <2>3, <2>4
<1>8. CASE ToggleRef
  <2>1. CASE form.refMode
    <3>1. Fill(FormOf(IF VariableKind = "list" THEN List(<<>>) ELSE EmptyText))
      BY <1>8, <2>1 DEF ToggleRef
    <3>2. HeldForList(List(<<>>))
      BY ValuesDiffer DEF HeldForList
    <3> QED
      BY <1>2, <3>1, <3>2, FormOfAgrees DEF VariableKind
  <2>2. CASE ~form.refMode
    <3>1. Fill([form EXCEPT !.refMode = TRUE, !.payload = EmptyText])
      BY <1>8, <2>2 DEF ToggleRef
    <3>2. /\ FormAgrees([form EXCEPT !.refMode = TRUE, !.payload = EmptyText])
          /\ [form EXCEPT !.refMode = TRUE, !.payload = EmptyText].payload = EmptyText
      <4> DEFINE next == [payload |-> EmptyText, refMode |-> TRUE, ref |-> form.ref]
      <4>1. [form EXCEPT !.refMode = TRUE, !.payload = EmptyText] = next
        BY ReplacedForm, Zenon
      <4>2. FormAgrees(next) /\ next.payload = EmptyText
        BY <2>2 DEF FormAgrees, NoKeyChosen
      <4> QED
        BY <4>1, <4>2, Zenon
    <3> QED
      BY <1>2, <3>1, <3>2 DEF HeldForList
  <2> QED
    BY <2>1, <2>2
<1>9. CASE SelectGroup
  <2>1. PICK g : Fill(ChooseGroup(g))
    BY <1>9 DEF SelectGroup
  <2>2. form.refMode
    BY <1>9 DEF SelectGroup
  <2>3. FormAgrees(ChooseGroup(g)) /\ ChooseGroup(g).payload = EmptyText
    <3> DEFINE ref == [group |-> g, key |-> NoName]
               next == [payload |-> EmptyText, refMode |-> form.refMode, ref |-> ref]
    <3>1. ChooseGroup(g) = next
      BY ReplacedForm, Zenon DEF ChooseGroup
    <3>2. FormAgrees(next) /\ next.payload = EmptyText
      BY <2>2 DEF FormAgrees
    <3> QED
      BY <3>1, <3>2, Zenon
  <2> QED
    BY <1>2, <2>1, <2>3 DEF HeldForList
<1>10. CASE SelectKey
  <2>1. PICK k \in KeyKinds :
          /\ k[1] = form.ref.group
          /\ Fill([form EXCEPT !.ref.key = k[2], !.payload = Reference(k[1], k[2])])
    <3>1. PICK k \in {p \in KeyKinds : p[1] = form.ref.group /\ p[3] = VariableKind} :
            Fill([form EXCEPT !.ref.key = k[2], !.payload = Reference(k[1], k[2])])
      BY <1>10, Zenon DEF SelectKey
    <3> QED
      BY <3>1, Zenon
  <2> DEFINE ref == [group |-> form.ref.group, key |-> k[2]]
             next == [payload |-> Reference(k[1], k[2]), refMode |-> form.refMode, ref |-> ref]
  <2>2. [form EXCEPT !.ref.key = k[2], !.payload = Reference(k[1], k[2])] = next
    BY ReplacedForm, Zenon
  <2>3. k[2] # NoName /\ form.refMode
    BY <1>10, KeysAreNamed DEF SelectKey
  <2>4. FormAgrees(next)
    BY <2>1, <2>3 DEF FormAgrees
  <2>5. HeldForList(next.payload)
    BY ValuesDiffer DEF HeldForList
  <2> HIDE DEF next
  <2> QED
    BY <1>2, <2>1, <2>2, <2>4, <2>5
<1>11. CASE UNCHANGED <<known, form>>
  BY <1>11
<1> QED
  BY <1>3, <1>4, <1>5, <1>6, <1>7, <1>8, <1>9, <1>10, <1>11
     DEF ValuesNext, valuesVars, SaveToDraft, SaveAnswered

THEOREM ValuesInvariance == ValuesSpec => []ValuesInv
<1>1. ValuesInit => ValuesInv
  <2> SUFFICES ASSUME ValuesInit PROVE ValuesInv
    OBVIOUS
  <2>1. CopiesOfValues(known) /\ Kind(known) # "list"
    BY DEF ValuesInit, CopiesOfValues, StoredValues, Kind
  <2> QED
    BY <2>1, FormOfAgrees DEF ValuesInit, ValuesInv
<1> QED
  BY <1>1, ValuesStep, PTL DEF ValuesSpec

\* What is saved for a variable in reference mode is the reference its selectors show.
THEOREM SavedReferenceIsShown == ValuesSpec => []SelectorsShowWhatIsSaved
<1>1. ValuesInv => SelectorsShowWhatIsSaved
  BY DEF ValuesInv, FormAgrees, SelectorsShowWhatIsSaved
<1> QED
  BY <1>1, ValuesInvariance, PTL

\* A variable that templates range over is never staged as a text.
THEOREM ListsAreNeverStagedAsTexts == ValuesSpec => []ListVariablesAreStagedAsLists
<1>1. ValuesInv => ListVariablesAreStagedAsLists
  BY DEF ValuesInv, HeldForList, ListVariablesAreStagedAsLists, CanSave, Blank, VariableKind
<1> QED
  BY <1>1, ValuesInvariance, PTL

-----------------------------------------------------------------------------
(***************************************************************************)
(* ReviewPage                                                              *)
(***************************************************************************)
PullRows ==
  [status : {"draft", "open", "approved", "merged", "closed"}, mine : BOOLEAN,
   others : BOOLEAN, needed : {1, 2}]

ReviewTypeOK ==
  /\ pull \in PullRows
  /\ seenPull \in [loaded : BOOLEAN, fresh : BOOLEAN, of : PullRows]
  /\ pressed \in [Clicks -> ButtonRequest \cup {NotSent}]
  /\ wish \in {"none", "approve", "withdraw", "unclear"}
  /\ clicks \in Nat
  /\ \A k \in Clicks : k > clicks => pressed[k] = NotSent

Requested(b, at) == \E k \in Clicks : pressed[k].button = b /\ pressed[k].at = at

\* There is one request of each review button, and it is the one the server's
\* approval calls for; a fresh copy is behind the server only by a request whose
\* answer is on its way; and the button clicked last has been obeyed, is on its
\* way, or was refused.
WishHolds ==
  /\ \A j, k \in Clicks :
       pressed[j].button = pressed[k].button /\ pressed[k].button \in {"approve", "withdraw"}
         => j = k
  /\ Requested("withdraw", "sent") => pull.mine = TRUE
  /\ Requested("approve", "sent") => pull.mine = FALSE
  /\ (seenPull.fresh = TRUE /\ seenPull.of.mine = TRUE /\ pull.mine = FALSE) =>
       Requested("withdraw", "done")
  /\ (seenPull.fresh = TRUE /\ seenPull.of.mine = FALSE /\ pull.mine = TRUE) =>
       Requested("approve", "done")
  /\ wish = "approve" =>
       /\ ~Requested("withdraw", "sent")
       /\ Requested("approve", "done") \/ ~UnderWay("approve") => pull.mine = TRUE
  /\ wish = "withdraw" =>
       /\ ~Requested("approve", "sent")
       /\ Requested("withdraw", "done") \/ ~UnderWay("withdraw") => pull.mine = FALSE

ReviewInv == ReviewTypeOK /\ (wish # "unclear" => WishHolds)

LEMMA EvaluatedPull ==
  ASSUME NEW p \in PullRows
  PROVE  /\ Approved(p) \in PullRows /\ Approved(p).mine = p.mine
         /\ Withdrawn(p) \in PullRows /\ Withdrawn(p).mine = p.mine
BY DEF Approved, Withdrawn, PullRows

\* What the requests of the other clicks keep when one of them changes.
LEMMA OneRequest ==
  ASSUME ReviewTypeOK, NEW k \in Clicks, NEW r \in ButtonRequest \cup {NotSent},
         pressed' = [pressed EXCEPT ![k] = r]
  PROVE  /\ pressed' \in [Clicks -> ButtonRequest \cup {NotSent}]
         /\ pressed'[k] = r
         /\ \A j \in Clicks : j # k => pressed'[j] = pressed[j]
BY DEF ReviewTypeOK

LEMMA ReviewStep ==
  ASSUME ReviewInv, [ReviewNext]_reviewVars
  PROVE  ReviewInv'
<1> USE DEF ReviewInv, ReviewTypeOK
<1>0. /\ NotSent.button = "none" /\ NotSent.at = "answered"
      /\ \A r \in ButtonRequest : r.button \in Buttons /\ r.at \in {"sent", "done", "refused"}
  BY DEF NotSent, ButtonRequest
<1>1. ASSUME pull' \in PullRows, pull'.mine = pull.mine,
             UNCHANGED <<seenPull, pressed, wish, clicks>>
      PROVE  ReviewInv'
  BY <1>1 DEF WishHolds, Requested, UnderWay
<1>2. CASE AuthorSubmits \/ OthersClose
  <2>1. pull' \in PullRows /\ pull'.mine = pull.mine
    BY <1>2 DEF AuthorSubmits, OthersClose, OnServer, PullRows
  <2> QED
    BY <1>1, <1>2, <2>1 DEF AuthorSubmits, OthersClose, OnServer
<1>3. CASE AuthorStages
  <2>1. pull' \in PullRows
    BY <1>3 DEF AuthorStages, OnServer, PullRows
  <2> QED
    BY <1>3, <2>1 DEF AuthorStages, OnServer
<1>4. CASE OthersReview
  <2>1. \A b \in BOOLEAN : /\ [pull EXCEPT !.others = b] \in PullRows
                           /\ [pull EXCEPT !.others = b].mine = pull.mine
    BY DEF PullRows
  <2>2. pull' \in PullRows /\ pull'.mine = pull.mine
    BY <1>4, <2>1, EvaluatedPull DEF OthersReview, OnServer
  <2> QED
    BY <1>1, <1>4, <2>2 DEF OthersReview, OnServer
<1>5. CASE LoadPull
  <2>1. /\ seenPull' \in [loaded : BOOLEAN, fresh : BOOLEAN, of : PullRows]
        /\ seenPull'.of = pull
        /\ UNCHANGED <<pull, pressed, clicks>>
    BY <1>5 DEF LoadPull
  <2>2. CASE wish # "unclear"
    BY <1>5, <2>1, <2>2 DEF LoadPull, WishHolds, Requested, UnderWay
  <2>3. CASE wish = "unclear" /\ Reviewing
    BY <1>5, <2>1, <2>3 DEF LoadPull
  <2>4. CASE wish = "unclear" /\ ~Reviewing
    <3>1. wish' = "none"
      BY <1>5, <2>4 DEF LoadPull
    <3>2. \A k \in Clicks : pressed[k].button \notin {"approve", "withdraw"}
      BY <2>4 DEF Reviewing, UnderWay
    <3> QED
      BY <2>1, <3>1, <3>2 DEF WishHolds, Requested
  <2> QED
    BY <2>2, <2>3, <2>4
<1>6. CASE UNCHANGED <<pull, seenPull, pressed, wish, clicks>>
  BY <1>6 DEF WishHolds, Requested, UnderWay
<1>7. CASE BackToList
  <2>1. /\ pressed' \in [Clicks -> ButtonRequest \cup {NotSent}]
        /\ \A k \in Clicks : /\ pressed'[k].button = pressed[k].button
                             /\ pressed'[k].at = pressed[k].at
                             /\ pressed[k] = NotSent => pressed'[k] = NotSent
    <3> SUFFICES ASSUME NEW k \in Clicks
                 PROVE  LET new == [pressed[k] EXCEPT !.mounted = FALSE]
                        IN  /\ new \in ButtonRequest \cup {NotSent}
                            /\ new.button = pressed[k].button
                            /\ new.at = pressed[k].at
                            /\ pressed[k] = NotSent => new = NotSent
      BY <1>7 DEF BackToList
    <3>1. CASE pressed[k] \in ButtonRequest
      <4>1. pressed[k] # NotSent
        BY <1>0, <3>1 DEF Buttons
      <4> QED
        BY <3>1, <4>1 DEF ButtonRequest
    <3>2. CASE pressed[k] = NotSent
      <4>1. \A x, y : [[button |-> "none", at |-> "answered", mounted |-> x] EXCEPT !.mounted = y]
                       = [button |-> "none", at |-> "answered", mounted |-> y]
        OBVIOUS
      <4>2. [NotSent EXCEPT !.mounted = FALSE] = NotSent
        BY <4>1, Zenon DEF NotSent
      <4> QED
        BY <3>2, <4>2
    <3> QED
      BY <3>1, <3>2
  <2>2. UNCHANGED <<pull, seenPull, wish, clicks>>
    BY <1>7 DEF BackToList
  <2> QED
    BY <2>1, <2>2 DEF WishHolds, Requested, UnderWay
<1>8. ASSUME NEW b \in Buttons, RunPRAction(b) PROVE ReviewInv'
  <2> DEFINE k == clicks + 1
             r == [button |-> b, at |-> "sent", mounted |-> TRUE]
  <2>1. k \in Clicks /\ r \in ButtonRequest /\ pressed[k] = NotSent
    BY <1>8, ClicksBound DEF RunPRAction, Clicks, ButtonRequest
  <2>2. pressed' = [pressed EXCEPT ![k] = r] /\ clicks' = k
    BY <1>8 DEF RunPRAction
  <2>3. r.button = b /\ r.at = "sent"
    OBVIOUS
  <2>4. UNCHANGED <<pull, seenPull>>
    BY <1>8 DEF RunPRAction
  <2>5. \A j \in Clicks : j > clicks' => j > clicks /\ j # k
    BY <2>2 DEF Clicks
  <2> HIDE DEF k, r
  <2>6. /\ pressed' \in [Clicks -> ButtonRequest \cup {NotSent}]
        /\ pressed'[k].button = b /\ pressed'[k].at = "sent"
        /\ \A j \in Clicks : j # k => pressed'[j] = pressed[j]
    BY <2>1, <2>2, <2>3, OneRequest
  <2>7. /\ clicks' \in Nat
        /\ \A j \in Clicks : j > clicks' => pressed'[j] = NotSent
    BY <2>1, <2>2, <2>5, <2>6 DEF k
  <2>8. CASE b \in {"approve", "withdraw"}
    <3>1. CASE wish' = "unclear"
      BY <2>4, <2>6, <2>7, <3>1
    <3>2. CASE wish' # "unclear"
      <4>1. /\ seenPull.fresh = TRUE /\ ~UnderWay(b) /\ wish # "unclear" /\ wish' = b
            /\ seenPull.of.mine = (b = "withdraw")
        BY <1>8, <2>8, <3>2 DEF RunPRAction, Offered, PullRows
      <4>2. \A j \in Clicks : pressed[j].button # b
        BY <4>1 DEF UnderWay
      <4>3. pull.mine = (b = "withdraw")
        <5>1. CASE b = "approve"
          BY <4>1, <4>2, <5>1 DEF WishHolds, Requested, PullRows
        <5>2. CASE b = "withdraw"
          BY <4>1, <4>2, <5>2 DEF WishHolds, Requested, PullRows
        <5> QED
          BY <2>8, <5>1, <5>2
      <4>4. /\ \A j \in Clicks : pressed'[j].button = b <=> j = k
            /\ \A j \in Clicks : pressed'[j].button # b => pressed'[j] = pressed[j]
        BY <2>6, <4>2
      <4>5. wish' = b /\ wish # "unclear"
        BY <4>1
      <4>6. CASE b = "approve"
        <5>1. pull.mine = FALSE /\ seenPull.of.mine = FALSE /\ wish' = "approve"
          BY <4>1, <4>3, <4>6
        <5>2. \A at : Requested("withdraw", at)' => Requested("withdraw", at)
          BY <4>4, <4>6 DEF Requested
        <5>3. /\ ~Requested("withdraw", "sent")'
              /\ ~Requested("approve", "done")'
              /\ UnderWay("approve")'
          <6>1. ~Requested("withdraw", "sent")
            BY <4>5, <5>1 DEF WishHolds
          <6> QED
            BY <2>1, <2>6, <4>4, <4>6, <5>2, <6>1 DEF Requested, UnderWay
        <5>4. \A i, j \in Clicks :
                (pressed'[i].button = pressed'[j].button
                 /\ pressed'[j].button \in {"approve", "withdraw"}) => i = j
          BY <4>4, <4>5, <4>6 DEF WishHolds
        <5>5. WishHolds'
          BY <2>4, <5>1, <5>3, <5>4 DEF WishHolds
        <5> QED
          BY <2>4, <2>6, <2>7, <5>1, <5>5
      <4>7. CASE b = "withdraw"
        <5>1. pull.mine = TRUE /\ seenPull.of.mine = TRUE /\ wish' = "withdraw"
          BY <4>1, <4>3, <4>7
        <5>2. \A at : Requested("approve", at)' => Requested("approve", at)
          BY <4>4, <4>7 DEF Requested
        <5>3. /\ ~Requested("approve", "sent")'
              /\ ~Requested("withdraw", "done")'
              /\ UnderWay("withdraw")'
          <6>1. ~Requested("approve", "sent")
            BY <4>5, <5>1 DEF WishHolds
          <6> QED
            BY <2>1, <2>6, <4>4, <4>7, <5>2, <6>1 DEF Requested, UnderWay
        <5>4. \A i, j \in Clicks :
                (pressed'[i].button = pressed'[j].button
                 /\ pressed'[j].button \in {"approve", "withdraw"}) => i = j
          BY <4>4, <4>5, <4>7 DEF WishHolds
        <5>5. WishHolds'
          BY <2>4, <5>1, <5>3, <5>4 DEF WishHolds
        <5> QED
          BY <2>4, <2>6, <2>7, <5>1, <5>5
      <4> QED
        BY <2>8, <4>6, <4>7
    <3> QED
      BY <3>1, <3>2
  <2>9. CASE b \notin {"approve", "withdraw"}
    <3>1. wish' = wish
      BY <1>8, <2>9 DEF RunPRAction
    <3> QED
      BY <2>1, <2>4, <2>6, <2>7, <2>9, <3>1, <1>0 DEF WishHolds, Requested, UnderWay
  <2> QED
    BY <2>8, <2>9
<1>9. ASSUME NEW k \in Clicks, ServerActs(k) PROVE ReviewInv'
  <2> DEFINE b == pressed[k].button
             r == [pressed[k] EXCEPT !.at = IF Accepted(b) THEN "done" ELSE "refused"]
  <2>1. pressed[k] \in ButtonRequest /\ b \in Buttons
    BY <1>0, <1>9 DEF ServerActs
  <2>2. /\ r \in ButtonRequest /\ r.button = b
        /\ r.at = IF Accepted(b) THEN "done" ELSE "refused"
    BY <2>1 DEF ButtonRequest
  <2>3. pressed' = [pressed EXCEPT ![k] = r] /\ pressed[k].at = "sent"
    BY <1>9 DEF ServerActs
  <2>4. UNCHANGED <<seenPull, wish, clicks>>
    BY <1>9 DEF ServerActs
  <2>5. pull' = IF Accepted(b) THEN Effect(b) ELSE pull
    BY <1>9 DEF ServerActs
  <2> HIDE DEF r
  <2>6. /\ pressed' \in [Clicks -> ButtonRequest \cup {NotSent}]
        /\ pressed'[k].button = b
        /\ pressed'[k].at = IF Accepted(b) THEN "done" ELSE "refused"
        /\ \A j \in Clicks : j # k => pressed'[j] = pressed[j]
    BY <2>2, <2>3, OneRequest
  <2>7. \A j \in Clicks : j > clicks' => pressed'[j] = NotSent
    BY <2>3, <2>4, <2>6, <1>0
  <2>8. \A x \in BOOLEAN : /\ [pull EXCEPT !.mine = x] \in PullRows
                           /\ [pull EXCEPT !.mine = x].mine = x
    BY DEF PullRows
  <2>9. CASE b = "approve"
    <3>1. pull' \in PullRows /\ pull'.mine = IF Accepted(b) THEN TRUE ELSE pull.mine
      BY <2>5, <2>8, <2>9, EvaluatedPull DEF Effect
    <3> QED
      BY <2>3, <2>4, <2>6, <2>7, <2>9, <3>1 DEF WishHolds, Requested, UnderWay
  <2>10. CASE b = "withdraw"
    <3>1. pull' \in PullRows /\ pull'.mine = IF Accepted(b) THEN FALSE ELSE pull.mine
      BY <2>5, <2>8, <2>10, EvaluatedPull DEF Effect
    <3> QED
      BY <2>3, <2>4, <2>6, <2>7, <2>10, <3>1 DEF WishHolds, Requested, UnderWay
  <2>11. CASE b \in {"merge", "close"}
    <3>1. pull' \in PullRows /\ pull'.mine = pull.mine
      BY <2>5, <2>11 DEF Effect, PullRows
    <3> QED
      BY <2>3, <2>4, <2>6, <2>7, <2>11, <3>1 DEF WishHolds, Requested, UnderWay
  <2> QED
    BY <2>1, <2>9, <2>10, <2>11 DEF Buttons
<1>10. ASSUME NEW k \in Clicks, ActionSucceeds(k) \/ ActionFails(k) PROVE ReviewInv'
  <2>1. pressed' = [pressed EXCEPT ![k] = NotSent]
    BY <1>10 DEF ActionSucceeds, ActionFails
  <2>2. /\ pressed' \in [Clicks -> ButtonRequest \cup {NotSent}]
        /\ pressed'[k] = NotSent
        /\ \A j \in Clicks : j # k => pressed'[j] = pressed[j]
    BY <2>1, OneRequest
  <2>3. UNCHANGED <<pull, clicks>>
    BY <1>10 DEF ActionSucceeds, ActionFails
  <2>4. \A j \in Clicks : j > clicks' => pressed'[j] = NotSent
    BY <2>2, <2>3
  <2>5. CASE ActionSucceeds(k)
    <3>1. /\ seenPull' \in [loaded : BOOLEAN, fresh : BOOLEAN, of : PullRows]
          /\ seenPull'.fresh = FALSE
          /\ pressed[k].at = "done" /\ wish' = wish
      BY <2>5 DEF ActionSucceeds
    <3> QED
      BY <2>2, <2>3, <2>4, <3>1, <1>0 DEF WishHolds, Requested, UnderWay
  <2>6. CASE ActionFails(k)
    <3>1. seenPull' = seenPull /\ pressed[k] \in ButtonRequest
      BY <2>6 DEF ActionFails
    <3>2. CASE wish' = "unclear"
      BY <2>2, <2>3, <2>4, <3>1, <3>2
    <3>3. CASE wish' # "unclear"
      <4>1. /\ wish # "unclear"
            /\ wish' = IF wish = pressed[k].button THEN "none" ELSE wish
            /\ pressed[k].button \in {"approve", "withdraw"} => pressed[k].at # "done"
        BY <1>0, <2>6, <3>1, <3>3 DEF ActionFails, Buttons
      <4> QED
        BY <2>2, <2>3, <2>4, <3>1, <4>1, <1>0 DEF WishHolds, Requested, UnderWay
    <3> QED
      BY <3>2, <3>3
  <2> QED
    BY <1>10, <2>5, <2>6
<1>11. \/ AuthorSubmits \/ OthersClose \/ AuthorStages \/ OthersReview \/ LoadPull
       \/ UNCHANGED <<pull, seenPull, pressed, wish, clicks>> \/ BackToList
       \/ \E b \in Buttons : RunPRAction(b)
       \/ \E k \in Clicks : ServerActs(k) \/ ActionSucceeds(k) \/ ActionFails(k)
  BY DEF ReviewNext, reviewVars, SelectTab, OpenPull
<1> QED
  BY <1>2, <1>3, <1>4, <1>5, <1>6, <1>7, <1>8, <1>9, <1>10, <1>11

THEOREM ReviewPageInvariance == ReviewSpec => []ReviewInv
<1>1. ReviewInit => ReviewInv
  <2> SUFFICES ASSUME ReviewInit PROVE ReviewInv
    OBVIOUS
  <2>1. pull \in PullRows /\ pull.mine = FALSE
    BY DEF ReviewInit, PullRows
  <2>2. /\ pressed \in [Clicks -> ButtonRequest \cup {NotSent}]
        /\ \A k \in Clicks : pressed[k] = NotSent /\ pressed[k].button = "none"
        /\ wish = "none" /\ clicks \in Nat
        /\ seenPull = [loaded |-> FALSE, fresh |-> FALSE, of |-> pull]
    BY DEF ReviewInit, NotSent
  <2> QED
    BY <2>1, <2>2 DEF ReviewInv, ReviewTypeOK, WishHolds, Requested, UnderWay
<1> QED
  BY <1>1, ReviewStep, PTL DEF ReviewSpec

\* Once its requests are through, the reviewer's approval is as the last click asked,
\* unless one of the four exceptions has come in between since the last fetch.
THEOREM LastClickDecides == ReviewSpec => []LastReviewClickDecides
<1>1. ReviewInv => LastReviewClickDecides
  BY DEF ReviewInv, ReviewTypeOK, WishHolds, Requested, Reviewing, PullRows, LastReviewClickDecides
<1> QED
  BY <1>1, ReviewPageInvariance, PTL

-----------------------------------------------------------------------------
(***************************************************************************)
(* ReviewDiffs                                                             *)
(***************************************************************************)
LEMMA MaxOfTwo ==
  ASSUME NEW a \in Nat, NEW b \in Nat
  PROVE  Max({a, b}) = IF a >= b THEN a ELSE b
<1> DEFINE most == IF a >= b THEN a ELSE b
<1>1. most \in {a, b} /\ \A x \in {a, b} : x \in Nat /\ most >= x
  OBVIOUS
<1>2. \A y \in {a, b} : (\A x \in {a, b} : y >= x) <=> y = most
  BY <1>1
<1>3. Max({a, b}) = CHOOSE y \in {a, b} : \A x \in {a, b} : y >= x
  BY DEF Max
<1> HIDE DEF most
<1>4. Max({a, b}) = most
  BY <1>1, <1>2, <1>3
<1> QED
  BY <1>4 DEF most

LEMMA LinesOfBoth ==
  \A a, b, n \in Nat :
    (a <= n /\ b <= n /\ (n = a \/ n = b)) =>
      /\ \A i \in 1..n : /\ i <= a <=> ~(i > a)
                         /\ i <= b <=> ~(i > b)
                         /\ i <= a \/ i <= b
      /\ \A x : /\ x \in 1..a <=> x \in 1..n /\ x <= a
                /\ x \in 1..b <=> x \in 1..n /\ x <= b
OBVIOUS

\* The lines of a template's card, side by side, are the two texts.
LEMMA TemplateDiffReadsBack ==
  ASSUME NEW S, NEW old \in Seq(S), NEW T, NEW new \in Seq(T)
  PROVE  LET lines == TemplateDiff(old, new)
         IN  /\ [i \in DOMAIN OldSide(lines) |-> OldSide(lines)[i].old] = old
             /\ [i \in DOMAIN NewSide(lines) |-> NewSide(lines)[i].new] = new
<1> DEFINE lines == TemplateDiff(old, new)
           n == Max({Len(old), Len(new)})
<1>1. /\ Len(old) \in Nat /\ DOMAIN old = 1..Len(old)
      /\ Len(new) \in Nat /\ DOMAIN new = 1..Len(new)
  OBVIOUS
<1>2. n \in Nat /\ Len(old) <= n /\ Len(new) <= n /\ (n = Len(old) \/ n = Len(new))
  BY <1>1, MaxOfTwo
<1> HIDE DEF n
<1>0. /\ \A i \in 1..n : /\ i <= Len(old) <=> ~(i > Len(old))
                         /\ i <= Len(new) <=> ~(i > Len(new))
                         /\ i <= Len(old) \/ i <= Len(new)
      /\ \A x : /\ x \in 1..Len(old) <=> x \in 1..n /\ x <= Len(old)
                /\ x \in 1..Len(new) <=> x \in 1..n /\ x <= Len(new)
  <2>1. Len(old) \in Nat /\ Len(new) \in Nat /\ n \in Nat
    BY <1>1, <1>2, Zenon
  <2>2. Len(old) <= n /\ Len(new) <= n /\ (n = Len(old) \/ n = Len(new))
    BY <1>2
  <2> QED
    BY <2>1, <2>2, LinesOfBoth, Zenon
<1>3. DOMAIN lines = 1..n
  BY DEF TemplateDiff, n
<1>4. \A i \in 1..n :
        lines[i] = IF i > Len(old) THEN [type |-> "added", new |-> new[i]]
                   ELSE IF i > Len(new) THEN [type |-> "removed", old |-> old[i]]
                   ELSE [type |-> IF old[i] = new[i] THEN "context" ELSE "changed",
                         old |-> old[i], new |-> new[i]]
  BY DEF TemplateDiff, n
<1> HIDE DEF lines
<1>5. ASSUME NEW i \in 1..n
      PROVE  /\ lines[i].type # "added" <=> i <= Len(old)
             /\ lines[i].type # "removed" <=> i <= Len(new)
             /\ i <= Len(old) => lines[i].old = old[i]
             /\ i <= Len(new) => lines[i].new = new[i]
  <2>1. /\ i <= Len(old) <=> ~(i > Len(old))
        /\ i <= Len(new) <=> ~(i > Len(new))
        /\ i <= Len(old) \/ i <= Len(new)
    BY <1>0, Zenon
  <2>2. CASE i > Len(old)
    <3>1. lines[i] = [type |-> "added", new |-> new[i]]
      BY <1>4, <2>2
    <3> QED
      BY <2>1, <2>2, <3>1
  <2>3. CASE ~(i > Len(old)) /\ i > Len(new)
    <3>1. lines[i] = [type |-> "removed", old |-> old[i]]
      BY <1>4, <2>3
    <3> QED
      BY <2>1, <2>3, <3>1
  <2>4. CASE ~(i > Len(old)) /\ ~(i > Len(new))
    <3>1. lines[i] = [type |-> IF old[i] = new[i] THEN "context" ELSE "changed",
                      old |-> old[i], new |-> new[i]]
      BY <1>4, <2>4, Zenon
    <3> QED
      BY <2>1, <2>4, <3>1
  <2> QED
    BY <2>2, <2>3, <2>4
<1>6. ASSUME NEW x PROVE /\ x \in 1..Len(old) <=> x \in 1..n /\ x <= Len(old)
                         /\ x \in 1..Len(new) <=> x \in 1..n /\ x <= Len(new)
  BY <1>0, Zenon
<1>7. /\ {i \in DOMAIN lines : lines[i].type # "added"} = 1..Len(old)
      /\ {i \in DOMAIN lines : lines[i].type # "removed"} = 1..Len(new)
  BY <1>3, <1>5, <1>6, Zenon
<1>8. /\ OldSide(lines) = [k \in 1..Len(old) |-> lines[k]]
      /\ NewSide(lines) = [k \in 1..Len(new) |-> lines[k]]
  BY <1>1, <1>7, SelectFirst DEF OldSide, NewSide
<1>9. /\ DOMAIN OldSide(lines) = 1..Len(old) /\ DOMAIN NewSide(lines) = 1..Len(new)
      /\ \A i \in 1..Len(old) : OldSide(lines)[i].old = old[i]
      /\ \A i \in 1..Len(new) : NewSide(lines)[i].new = new[i]
  BY <1>5, <1>6, <1>8
<1>10. [i \in 1..Len(old) |-> old[i]] = old /\ [i \in 1..Len(new) |-> new[i]] = new
  BY <1>1
<1> QED
  BY <1>9, <1>10 DEF lines

\* The number of a line is where that side's text has it.
LEMMA LinesAreNumbered ==
  ASSUME NEW n \in Nat, NEW P \in SUBSET (1..n), NEW parts, NEW i \in P,
         NEW text \in Seq(Lines), Len(Select(parts, P)) = Len(text),
         \A l \in DOMAIN text : Select(parts, P)[l].content = text[l]
  PROVE  parts[i].content = text[Rank(P, i)]
<1> DEFINE side == Select(parts, P)
           k == Rank(P, i)
<1>1. k \in 1..Cardinality(P) /\ side[k] = parts[i]
  BY SelectAtRank
<1>2. Cardinality(P) \in Nat
  BY RankNumbers
<1>3. DOMAIN side = 1..Cardinality(P) /\ side = [l \in 1..Cardinality(P) |-> side[l]]
  BY DEF Select
<1>4. Len(side) = Len(text) /\ \A l \in DOMAIN text : side[l].content = text[l]
  OBVIOUS
<1> HIDE DEF k, side
<1>5. Len(side) = Cardinality(P)
  <2>1. side \in [1..Cardinality(P) -> {side[l] : l \in 1..Cardinality(P)}]
    BY <1>3
  <2>2. PICK Q : side \in [1..Cardinality(P) -> Q]
    BY <2>1
  <2>3. side \in Seq(Q)
    BY <1>2, <2>2
  <2> QED
    BY <1>2, <1>3, <2>3
<1>6. k \in DOMAIN text
  <2>1. DOMAIN text = 1..Len(text)
    OBVIOUS
  <2> QED
    BY <1>1, <1>4, <1>5, <2>1
<1>7. parts[i].content = text[k]
  BY <1>1, <1>4, <1>6, Zenon
<1> QED
  BY <1>7 DEF k

\* A copy names its version, and is up to date unless that version was replaced.
CopyOfVersion ==
  fetched.known = TRUE =>
    /\ fetched.version \in Nat /\ fetched.version <= stored.version
    /\ fetched.version = stored.version => fetched.content = stored.content

DiffInv ==
  /\ card \in ChangeCards
  /\ stored.version \in Nat /\ stored.content \in Contents(card.type)
  /\ fetched = Unfetched \/ fetched = Known(fetched)
  /\ fetched # Unfetched => fetched.content \in Contents(card.type)
  /\ CopyOfVersion

LEMMA BodiesAreTexts == Bodies \subseteq Seq(Lines)
BY DEF Bodies

LEMMA TextsOfCard ==
  ASSUME DiffInv, card.type \in {"template", "output"}
  PROVE  /\ card.proposed \in Bodies /\ stored.content \in Bodies
         /\ fetched # Unfetched => fetched.content \in Bodies
BY DEF DiffInv, ChangeCards, Contents

\* A merge makes of a group a group, and of a body a body.
LEMMA MergedIsContent ==
  ASSUME DiffInv, card.type \in {"template", "global_values"}
  PROVE  Merged(stored.content) \in Contents(card.type)
<1>1. CASE card.type = "template"
  BY <1>1, TextsOfCard DEF Merged, Contents
<1>2. CASE card.type = "global_values"
  <2> DEFINE content == stored.content
  <2>1. content \in GroupEntries /\ card.proposed \in Payloads
    BY <1>2 DEF DiffInv, Contents, ChangeCards
  <2>2. Merged(content) = [name \in DOMAIN content \cup {"own"} |->
                             IF name = "own" THEN card.proposed ELSE content[name]]
    BY <1>2 DEF Merged
  <2>3. PICK names \in SUBSET {"own", "other"} : content \in [names -> Payloads]
    BY <2>1 DEF GroupEntries
  <2>4. Merged(content) \in [names \cup {"own"} -> Payloads]
    BY <2>1, <2>2, <2>3
  <2> QED
    BY <1>2, <2>4 DEF GroupEntries, Contents
<1> QED
  BY <1>1, <1>2

LEMMA DiffStep ==
  ASSUME DiffInv, [DiffNext]_diffVars
  PROVE  DiffInv'
<1> USE DEF DiffInv, CopyOfVersion
<1>1. CASE LoadCurrent
  BY <1>1 DEF LoadCurrent, Known, Unfetched
<1>2. CASE CurrentChanges
  BY <1>2 DEF CurrentChanges
<1>3. CASE MergeChange
  <2>1. stored' = [version |-> stored.version + 1, content |-> Merged(stored.content)]
    BY <1>3 DEF MergeChange
  <2>2. stored'.content \in Contents(card.type)
    <3>1. card.type \in {"template", "global_values"}
      BY <1>3 DEF MergeChange
    <3>2. Merged(stored.content) \in Contents(card.type)
      BY <3>1, MergedIsContent
    <3> QED
      BY <2>1, <3>2
  <2>3. UNCHANGED <<card, fetched>> /\ stored'.version = stored.version + 1
    BY <1>3, <2>1 DEF MergeChange
  <2>4. stored'.version \in Nat /\ \A n \in Nat : n <= stored.version => n <= stored'.version
                                                                 /\ n # stored'.version
    BY <2>3
  <2>5. CopyOfVersion'
    BY <2>3, <2>4
  <2> QED
    BY <2>2, <2>3, <2>4, <2>5
<1>4. CASE UNCHANGED diffVars
  BY <1>4 DEF diffVars
<1> QED
  BY <1>1, <1>2, <1>3, <1>4 DEF DiffNext

THEOREM DiffInvariance == DiffSpec => []DiffInv
<1>1. DiffInit => DiffInv
  <2> SUFFICES ASSUME DiffInit PROVE DiffInv
    OBVIOUS
  <2>1. card \in ChangeCards /\ stored.version = Base /\ stored.content \in Contents(card.type)
    BY DEF DiffInit
  <2>2. CASE fetched = Unfetched
    BY <2>1, <2>2 DEF DiffInv, CopyOfVersion, Unfetched, Base
  <2>3. ASSUME NEW older \in Contents(card.type),
               fetched = Known([version |-> Base - 1, content |-> older])
        PROVE  DiffInv
    <3>1. fetched = [known |-> TRUE, version |-> 0, content |-> older]
      BY <2>3 DEF Known, Base
    <3> QED
      BY <2>1, <3>1 DEF DiffInv, CopyOfVersion, Known, Base
  <2> QED
    BY <2>2, <2>3 DEF DiffInit
<1> QED
  BY <1>1, DiffStep, PTL DEF DiffSpec

\* For any number of versions, keys and lines: a merge does what a card fetched since
\* the pull request was made has shown.
THEOREM ShownIsMerged == DiffSpec => MergesDoWhatWasShown
<1>1. DiffInv /\ [DiffNext]_diffVars => [MergeDoesWhatWasShown]_diffVars
  <2> SUFFICES ASSUME DiffInv, MergeChange, fetched.known, fetched.version >= Base
               PROVE  MergeDoesWhatWasShown
    BY DEF MergeDoesWhatWasShown
  <2>1. fetched.content = stored.content
    BY DEF DiffInv, CopyOfVersion, MergeChange, Known, Unfetched
  <2>2. CurrentBody = stored.content
    BY <2>1 DEF CurrentBody
  <2>3. ASSUME card.type = "global_values", DOMAIN stored.content # {"other"},
               NEW key \in ValueKeys
        PROVE  LET rows == KvDiff(CurrentPayload, card.proposed)
                   before == CurrentEntry(stored.content)
                   after == CurrentEntry(stored'.content)
                   shown == key \in DOMAIN rows /\ rows[key] # "unchanged"
               IN  shown <=> Printed(before, key) # Printed(after, key)
    <3> DEFINE before == CurrentEntry(stored.content)
               rows == KvDiff(before, card.proposed)
    <3>1. CurrentPayload = before
      BY <2>1 DEF CurrentPayload
    <3>2. CurrentEntry(stored'.content) = card.proposed
      <4>1. stored'.content = [name \in DOMAIN stored.content \cup {"own"} |->
                                 IF name = "own" THEN card.proposed ELSE stored.content[name]]
        BY <2>3 DEF MergeChange, Merged
      <4>2. /\ DOMAIN stored'.content = DOMAIN stored.content \cup {"own"}
            /\ stored'.content["own"] = card.proposed
        BY <4>1
      <4> QED
        BY <4>2 DEF CurrentEntry
    <3> HIDE DEF before
    <3>3. (key \in DOMAIN rows /\ rows[key] # "unchanged") <=>
             Printed(before, key) # Printed(card.proposed, key)
      <4>1. /\ DOMAIN rows = DOMAIN before \cup DOMAIN card.proposed
            /\ key \in DOMAIN rows =>
                 rows[key] = IF key \notin DOMAIN before THEN "added"
                             ELSE IF key \notin DOMAIN card.proposed THEN "removed"
                             ELSE IF FormatVal(before[key]) # FormatVal(card.proposed[key])
                                  THEN "changed"
                             ELSE "unchanged"
        BY DEF KvDiff, AllKeys
      <4>2. \A x, y : (<<x>> = <<y>> <=> x = y) /\ <<x>> # <<>>
        OBVIOUS
      <4> HIDE DEF rows
      <4> QED
        BY <4>1, <4>2 DEF Printed
    <3> QED
      BY <3>1, <3>2, <3>3 DEF before
  <2> QED
    BY <2>2, <2>3 DEF MergeDoesWhatWasShown
<1> QED
  BY <1>1, DiffInvariance, PTL DEF DiffSpec, MergesDoWhatWasShown

\* What a reviewer reads of a change is both texts, with the numbers of their lines.
THEOREM DiffsAlwaysReadBack == DiffSpec => []DiffsReadBack
<1>1. DiffInv => DiffsReadBack
  <2> SUFFICES ASSUME DiffInv PROVE DiffsReadBack
    OBVIOUS
  <2>1. ASSUME card.type = "template"
        PROVE  LET lines == TemplateDiff(CurrentBody, card.proposed)
               IN  /\ [i \in DOMAIN OldSide(lines) |-> OldSide(lines)[i].old] = CurrentBody
                   /\ [i \in DOMAIN NewSide(lines) |-> NewSide(lines)[i].new] = card.proposed
    <3>1. card.proposed \in Seq(Lines)
      BY <2>1, BodiesAreTexts, TextsOfCard
    <3>2. \E S : CurrentBody \in Seq(S)
      <4>1. CASE fetched.known
        BY <2>1, <4>1, BodiesAreTexts, TextsOfCard DEF CurrentBody, Unfetched
      <4>2. CASE ~fetched.known
        <5>1. \A x : <<x>> \in Seq({x})
          OBVIOUS
        <5> QED
          BY <4>2, <5>1, Zenon DEF CurrentBody
      <4> QED
        BY <4>1, <4>2
    <3> QED
      BY <3>1, <3>2, TemplateDiffReadsBack
  <2>2. ASSUME card.type = "output", fetched.known,
               NEW parts \in DiffLines(fetched.content, card.proposed), NEW i \in DOMAIN parts
        PROVE  LET line == Numbered(parts)[i]
               IN  /\ line.oldLineNo # 0 => line.content = fetched.content[line.oldLineNo]
                   /\ line.newLineNo # 0 => line.content = card.proposed[line.newLineNo]
    <3>1. card.proposed \in Seq(Lines) /\ fetched.content \in Seq(Lines)
      BY <2>2, BodiesAreTexts, TextsOfCard DEF Unfetched
    <3>2. PICK n \in 1..(Len(fetched.content) + Len(card.proposed)) :
            parts \in [1..n -> [type : {"context", "added", "removed"}, content : Lines]]
      BY DEF DiffLines
    <3>3. /\ Len(Select(parts, SideOf(parts, "removed"))) = Len(fetched.content)
          /\ \A l \in DOMAIN fetched.content :
               Select(parts, SideOf(parts, "removed"))[l].content = fetched.content[l]
          /\ Len(Select(parts, SideOf(parts, "added"))) = Len(card.proposed)
          /\ \A l \in DOMAIN card.proposed :
               Select(parts, SideOf(parts, "added"))[l].content = card.proposed[l]
      BY Zenon DEF DiffLines
    <3>4. n \in Nat /\ i \in 1..n
      BY <3>1, <3>2
    <3>5. /\ Numbered(parts)[i].content = parts[i].content
          /\ Numbered(parts)[i].oldLineNo = LineNo(parts, i, "removed")
          /\ Numbered(parts)[i].newLineNo = LineNo(parts, i, "added")
      BY DEF Numbered
    <3>6. \A type : SideOf(parts, type) \in SUBSET (1..n)
      BY <3>2 DEF SideOf
    <3>7. ASSUME NEW type, NEW text \in Seq(Lines),
                 Len(Select(parts, SideOf(parts, type))) = Len(text),
                 \A l \in DOMAIN text : Select(parts, SideOf(parts, type))[l].content = text[l],
                 LineNo(parts, i, type) # 0
          PROVE  parts[i].content = text[LineNo(parts, i, type)]
      <4>1. i \in SideOf(parts, type) /\ LineNo(parts, i, type) = Rank(SideOf(parts, type), i)
        BY <3>7 DEF LineNo
      <4> DEFINE P == SideOf(parts, type)
      <4>2. /\ P \in SUBSET (1..n) /\ Len(Select(parts, P)) = Len(text)
            /\ \A l \in DOMAIN text : Select(parts, P)[l].content = text[l]
            /\ i \in P
        BY <3>6, <3>7, <4>1
      <4> HIDE DEF P
      <4>3. parts[i].content = text[Rank(P, i)]
        BY <3>4, <3>7, <4>2, LinesAreNumbered
      <4> QED
        BY <4>1, <4>3 DEF P
    <3>8. /\ LineNo(parts, i, "removed") # 0 =>
               parts[i].content = fetched.content[LineNo(parts, i, "removed")]
          /\ LineNo(parts, i, "added") # 0 =>
               parts[i].content = card.proposed[LineNo(parts, i, "added")]
      BY <3>1, <3>3, <3>7, Zenon
    <3> QED
      BY <3>5, <3>8
  <2> QED
    BY <2>1, <2>2 DEF DiffsReadBack
<1> QED
  BY <1>1, DiffInvariance, PTL

-----------------------------------------------------------------------------
(***************************************************************************)
(* QueryCache                                                              *)
(***************************************************************************)
\* Queries: the first element of the key, and what is read.
QueryReads(q, root, reads) == q.reads = reads /\ 1 \in DOMAIN q.key /\ q.key[1] = root

LEMMA QueryFields ==
  /\ QueryReads(ProjectQueries.list, "projects", {"projects", "projectCondition"})
  /\ QueryReads(ProjectQueries.detail, "projects", {"projectCondition"})
  /\ QueryReads(ProjectQueries.members, "projects", {"members"})
  /\ QueryReads(ProjectQueries.memberPermissions, "projects", {"memberPermissions"})
  /\ QueryReads(ProjectQueries.versions, "projects", {"live"})
  /\ QueryReads(PullRequestQueries.list, "pull-requests", {"pullRequest"})
  /\ QueryReads(PullRequestQueries.detail, "pull-requests", {"pullRequest", "changes"})
  /\ QueryReads(WorkspaceQueries.draft, "workspace", {"pullRequest", "changes"})
  /\ QueryReads(WorkspaceQueries.validate, "workspace", {"changes", "live"})
  /\ QueryReads(GlobalValuesQueries.list, "global-values", {"groups", "groupCondition"})
  /\ QueryReads(GlobalValuesQueries.detail, "global-values", {"groupValues", "groupCondition"})
  /\ QueryReads(GlobalValuesQueries.versions, "global-values", {"groupValues"})
  /\ QueryReads(EnvironmentQueries.forProject, "projects", {"live"})
  /\ QueryReads(EnvironmentQueries.admins, "projects", {"envAdmins"})
  /\ QueryReads(TemplateQueries.forProject, "projects", {"live"})
  /\ QueryReads(TemplateQueries.detail, "projects", {"live"})
  /\ QueryReads(TemplateQueries.versions, "projects", {"live"})
  /\ QueryReads(TemplateQueries.variables, "projects", {"live"})
  /\ QueryReads(EnvQueries.values, "projects", {"live"})
  /\ QueryReads(EnvQueries.deployment, "projects", {"deployments"})
  /\ QueryReads(RoleQuery, "roles", {"roles"})
BY DEF QueryReads, Query, ProjectQueries, PullRequestQueries, WorkspaceQueries, GlobalValuesQueries,
       EnvironmentQueries, TemplateQueries, EnvQueries, RoleQuery

LEMMA UnderRoot ==
  ASSUME NEW prefixes, NEW key, NEW x, <<x>> \in prefixes, 1 \in DOMAIN key, key[1] = x
  PROVE  Under(prefixes, key)
BY DEF Under

LEMMA UnderItself ==
  ASSUME NEW prefixes, NEW key \in prefixes PROVE Under(prefixes, key)
BY DEF Under

LEMMA UnderWorkspace ==
  ASSUME NEW prefixes, Workspace \in prefixes \/ Workspaces \in prefixes
  PROVE  /\ Under(prefixes, WorkspaceQueries.draft.key)
         /\ Under(prefixes, WorkspaceQueries.validate.key)
BY DEF Under, Workspace, Workspaces, WorkspaceQueries, Query

LEMMA HooksByName ==
  ASSUME NEW h \in Hooks
  PROVE  /\ h.name \in {"createPullRequest", "closePullRequest", "mergePullRequest",
                        "approvePullRequest"} => h \in PullRequestHooks
         /\ h.name \in {"stageTemplate", "stageEnvironment", "stageValues"} => h \in StagingHooks
         /\ h.name \in {"submitDraft", "withdrawApproval"} => h \in ReviewHooks
         /\ h.name \in {"createProject", "deleteProject", "addMember", "removeMember",
                        "setMemberPermissions"} => h \in ProjectHooks
         /\ h.name \in {"addEnvAdmin", "removeEnvAdmin"} => h \in EnvironmentHooks
         /\ h.name \in {"createRole", "editRole", "deleteRole", "assignRole",
                        "removeRoleMember"} => h \in RoleHooks
         /\ h.name \in {"updateProjectCondition", "updateGroupCondition"} => h \in ConditionHooks
         /\ h.name = "createGroup" => h \in GlobalValuesHooks
         /\ h.name = "executeDeploy" => h \in DeploymentHooks
BY DEF Hooks, PullRequestHooks, StagingHooks, ReviewHooks, ProjectHooks, EnvironmentHooks,
       RoleHooks, ConditionHooks, GlobalValuesHooks, DeploymentHooks, Hook

\* What a hook invalidates covers every query of the pages that offer its mutation
\* which reads something the mutation writes.
LEMMA HooksReachWhatTheyChange ==
  ASSUME NEW page \in Pages, NEW q \in page.queries, NEW h \in Hooks,
         h.name \in page.mutations, h.writes \cap q.reads # {}
  PROVE  Under(h.invalidates, q.key)
<1>1. CASE page \in ReviewPages
  <2>1. /\ q \in {PullRequestQueries.detail, ProjectQueries.list, TemplateQueries.detail,
                  GlobalValuesQueries.detail}
        /\ h.name \in {"approvePullRequest", "withdrawApproval", "closePullRequest",
                       "mergePullRequest"}
    BY <1>1 DEF ReviewPages, Page
  <2>2. /\ <<"pull-requests">> \in h.invalidates
        /\ \/ h.writes = {"pullRequest"}
           \/ /\ h.writes = {"pullRequest", "changes", "live", "groupValues"}
              /\ {<<"projects">>, <<"global-values">>} \subseteq h.invalidates
    BY <2>1, HooksByName DEF PullRequestHooks, ReviewHooks, PullRequests, Hook,
       GlobalValuesQueries, ProjectQueries, Query
  <2> QED
    BY <2>1, <2>2, QueryFields, UnderRoot DEF QueryReads
<1>2. CASE page \in WorkspacePages
  <2>1. /\ q \in {ProjectQueries.detail, ProjectQueries.list, WorkspaceQueries.draft,
                  WorkspaceQueries.validate, TemplateQueries.forProject, TemplateQueries.detail,
                  TemplateQueries.versions, TemplateQueries.variables,
                  EnvironmentQueries.forProject, EnvQueries.values, GlobalValuesQueries.list,
                  GlobalValuesQueries.detail, PullRequestQueries.list}
        /\ h.name \in {"stageTemplate", "stageEnvironment", "stageValues", "submitDraft"}
    BY <1>2 DEF WorkspacePages, Page
  <2>2. /\ <<"pull-requests">> \in h.invalidates
        /\ Workspace \in h.invalidates \/ Workspaces \in h.invalidates
        /\ h.writes \subseteq {"pullRequest", "changes"}
    BY <2>1, HooksByName DEF StagingHooks, ReviewHooks, PullRequests, Hook
  <2> QED
    BY <2>1, <2>2, QueryFields, UnderRoot, UnderWorkspace DEF QueryReads
<1>3. CASE page \in ProjectPages
  <2>1. CASE /\ q = ProjectQueries.list
             /\ h.name \in {"createProject", "deleteProject"}
    BY <2>1, HooksByName, UnderItself DEF ProjectHooks, Hook
  <2>2. CASE /\ q \in {ProjectQueries.detail, ProjectQueries.members}
             /\ h.name \in {"addMember", "removeMember"}
    <3>1. /\ ProjectQueries.members.key \in h.invalidates
          /\ h.writes \subseteq {"members", "memberPermissions", "roles"}
      BY <2>2, HooksByName DEF ProjectHooks, Hook
    <3> QED
      BY <2>2, <3>1, QueryFields, UnderItself DEF QueryReads
  <2>3. CASE /\ q \in {ProjectQueries.detail, ProjectQueries.members, RoleQuery}
             /\ h.name = "updateProjectCondition"
    <3>1. ProjectQueries.detail.key \in h.invalidates /\ h.writes = {"projectCondition"}
      BY <2>3, HooksByName DEF ConditionHooks, Hook
    <3> QED
      BY <2>3, <3>1, QueryFields, UnderItself DEF QueryReads
  <2>4. CASE /\ q \in {ProjectQueries.members, EnvironmentQueries.forProject,
                       ProjectQueries.memberPermissions}
             /\ h.name = "setMemberPermissions"
    <3>1. /\ ProjectQueries.memberPermissions.key \in h.invalidates
          /\ h.writes = {"memberPermissions", "roles"}
      BY <2>4, HooksByName DEF ProjectHooks, Hook
    <3> QED
      BY <2>4, <3>1, QueryFields, UnderItself DEF QueryReads
  <2>5. CASE q = EnvironmentQueries.admins /\ h.name \in {"addEnvAdmin", "removeEnvAdmin"}
    BY <2>5, HooksByName, UnderItself DEF EnvironmentHooks, Hook
  <2> QED
    BY <1>3, <2>1, <2>2, <2>3, <2>4, <2>5 DEF ProjectPages, Page
<1>4. CASE page \in OtherPages
  <2>1. CASE /\ q \in {RoleQuery, ProjectQueries.list, GlobalValuesQueries.list,
                       EnvironmentQueries.forProject, ProjectQueries.members}
             /\ h.name \in {"createRole", "editRole", "deleteRole", "assignRole",
                            "removeRoleMember"}
    <3>1. RoleQuery.key \in h.invalidates /\ h.writes = {"roles"}
      BY <2>1, HooksByName DEF RoleHooks, Hook
    <3> QED
      BY <2>1, <3>1, QueryFields, UnderItself DEF QueryReads
  <2>2. CASE /\ q \in {GlobalValuesQueries.detail, GlobalValuesQueries.versions, RoleQuery}
             /\ h.name = "updateGroupCondition"
    <3>1. /\ GlobalValuesQueries.detail.key \in h.invalidates
          /\ h.writes = {"groupCondition"}
      BY <2>2, HooksByName DEF ConditionHooks, Hook
    <3> QED
      BY <2>2, <3>1, QueryFields, UnderItself DEF QueryReads
  <2>3. CASE q = GlobalValuesQueries.list /\ h.name = "createGroup"
    BY <2>3, HooksByName, UnderItself DEF GlobalValuesHooks, Hook
  <2>4. CASE q = GlobalValuesQueries.detail /\ h.name = "createPullRequest"
    <3>1. h.writes = {"pullRequest", "changes"}
      BY <2>4, HooksByName DEF PullRequestHooks, Hook
    <3> QED
      BY <2>4, <3>1, QueryFields DEF QueryReads
  <2>5. CASE /\ q \in {ProjectQueries.list, ProjectQueries.versions,
                       EnvironmentQueries.forProject, TemplateQueries.forProject,
                       EnvQueries.values, EnvQueries.deployment, GlobalValuesQueries.versions}
             /\ h.name = "executeDeploy"
    <3>1. EnvQueries.deployment.key \in h.invalidates /\ h.writes = {"deployments"}
      BY <2>5, HooksByName DEF DeploymentHooks, Hook
    <3> QED
      BY <2>5, <3>1, QueryFields, UnderItself DEF QueryReads
  <2> QED
    BY <1>4, <2>1, <2>2, <2>3, <2>4, <2>5 DEF OtherPages, Page
<1> QED
  BY <1>1, <1>2, <1>3, <1>4 DEF Pages

CacheTypeOK ==
  /\ mounted \in Pages \cup {NoPage}
  /\ server \in Nat
  /\ entry \in [has : BOOLEAN, seen : Nat, stale : BOOLEAN]
  /\ fetch \in [phase : {"none", "sent", "answered"}, seen : Nat]
  /\ mutation \in [hook : Hooks \cup {NoMutation.hook}, phase : {"none", "sent", "applied"}]
  /\ due \in Nat

\* The version due is on the server; an answer under way holds it, and so does an
\* entry that passes for fresh. A mutation in flight is one that the page on screen,
\* which reads the entry, offers.
CacheInv ==
  /\ CacheTypeOK
  /\ due <= server
  /\ entry.stale = FALSE => entry.seen >= due
  /\ fetch.phase = "answered" => fetch.seen >= due
  /\ mounted \in Pages => Shows(mounted)
  /\ mutation # NoMutation => /\ mutation.hook \in Hooks
                              /\ mutation.hook.name \in mounted.mutations
                              /\ mounted \in Pages

\* What a mutation in flight changes of the entry, its hook makes stale.
LEMMA ChangedIsInvalidated ==
  ASSUME CacheInv, mutation # NoMutation, Changes(mutation.hook)
  PROVE  Invalidated(mutation.hook)
<1>1. /\ mounted \in Pages /\ query \in mounted.queries
      /\ mutation.hook \in Hooks /\ mutation.hook.name \in mounted.mutations
      /\ mutation.hook.writes \cap query.reads # {}
  BY DEF CacheInv, Shows, Changes
<1> QED
  BY <1>1, HooksReachWhatTheyChange DEF Invalidated

LEMMA CacheStep ==
  ASSUME CacheInv, [CacheNext]_cacheVars
  PROVE  CacheInv'
<1> USE DEF CacheInv, CacheTypeOK
<1>1. CASE Open
  <2>1. PICK page \in Pages : Shows(page) /\ mounted' = page
    BY <1>1, Zenon DEF Open
  <2>2. due' = 0 /\ UNCHANGED <<query, server, entry, fetch, mutation>> /\ mutation = NoMutation
    BY <1>1 DEF Open
  <2>3. entry.seen >= 0 /\ fetch.seen >= 0 /\ server >= 0
    OBVIOUS
  <2> QED
    BY <2>1, <2>2, <2>3 DEF Shows
<1>2. CASE SendFetch \/ AnswerFetch
  BY <1>2 DEF SendFetch, AnswerFetch, Shows
<1>3. CASE ReceiveFetch \/ FailFetch
  <2>1. NoFetch = [phase |-> "none", seen |-> 0]
    BY DEF NoFetch
  <2>2. CASE ReceiveFetch
    <3>1. /\ entry' \in [has : BOOLEAN, seen : Nat, stale : BOOLEAN]
          /\ entry'.seen >= due
      BY <2>2 DEF ReceiveFetch
    <3>2. fetch' \in [phase : {"none", "sent", "answered"}, seen : Nat] /\ fetch'.phase = "none"
      BY <2>1, <2>2 DEF ReceiveFetch
    <3> QED
      BY <2>2, <3>1, <3>2 DEF ReceiveFetch, Shows
  <2>3. CASE FailFetch
    <3>1. fetch' \in [phase : {"none", "sent", "answered"}, seen : Nat] /\ fetch'.phase = "none"
      BY <2>1, <2>3 DEF FailFetch
    <3> QED
      BY <2>3, <3>1 DEF FailFetch, Shows
  <2> QED
    BY <1>3, <2>2, <2>3
<1>4. CASE Expire \/ SomeoneElseWrites
  <2>1. CASE Expire
    <3>1. /\ entry' \in [has : BOOLEAN, seen : Nat, stale : BOOLEAN]
          /\ entry'.stale = TRUE
      BY <2>1 DEF Expire
    <3> QED
      BY <2>1, <3>1 DEF Expire, Shows
  <2>2. CASE SomeoneElseWrites
    BY <2>2 DEF SomeoneElseWrites, Shows
  <2> QED
    BY <1>4, <2>1, <2>2
<1>5. CASE Mutate
  <2>1. PICK h \in Hooks : /\ h.name \in mounted.mutations
                           /\ mutation' = [hook |-> h, phase |-> "sent"]
    BY <1>5 DEF Mutate
  <2>2. mounted \in Pages /\ Shows(mounted)
    <3>1. NoPage.mutations = {}
      BY DEF NoPage, Page
    <3> QED
      BY <2>1, <3>1
  <2> QED
    BY <1>5, <2>1, <2>2 DEF Mutate, Shows
<1>6. CASE ApplyMutation
  <2>1. mutation # NoMutation
    BY <1>6 DEF ApplyMutation, NoMutation
  <2>2. /\ mutation' \in [hook : Hooks \cup {NoMutation.hook}, phase : {"none", "sent", "applied"}]
        /\ mutation'.hook = mutation.hook
    BY <1>6 DEF ApplyMutation
  <2> QED
    BY <1>6, <2>1, <2>2 DEF ApplyMutation, Shows
<1>7. CASE MutationSucceeds
  <2>1. mutation # NoMutation
    BY <1>7 DEF MutationSucceeds, NoMutation
  <2>2. Changes(mutation.hook) => Invalidated(mutation.hook)
    BY <2>1, ChangedIsInvalidated
  <2>3. /\ NoMutation \in [hook : Hooks \cup {NoMutation.hook}, phase : {"none", "sent", "applied"}]
        /\ NoFetch = [phase |-> "none", seen |-> 0]
    BY DEF NoMutation, NoFetch
  <2>4. /\ entry' \in [has : BOOLEAN, seen : Nat, stale : BOOLEAN]
        /\ entry'.seen = entry.seen
        /\ entry'.stale = FALSE => /\ entry.stale = FALSE
                                  /\ ~Changes(mutation.hook)
    BY <1>7, <2>2, Zenon DEF MutationSucceeds
  <2>5. /\ fetch' \in [phase : {"none", "sent", "answered"}, seen : Nat]
        /\ fetch'.phase = "answered" => fetch' = fetch /\ ~Changes(mutation.hook)
    BY <1>7, <2>2, <2>3 DEF MutationSucceeds
  <2>6. due' = IF Changes(mutation.hook) THEN server ELSE due
    BY <1>7 DEF MutationSucceeds
  <2> QED
    BY <1>7, <2>3, <2>4, <2>5, <2>6 DEF MutationSucceeds, Shows
<1>8. CASE MutationFails
  <2>1. NoMutation \in [hook : Hooks \cup {NoMutation.hook}, phase : {"none", "sent", "applied"}]
    BY DEF NoMutation
  <2> QED
    BY <1>8, <2>1 DEF MutationFails, Shows
<1>9. CASE UNCHANGED cacheVars
  BY <1>9 DEF cacheVars, Shows
<1> QED
  BY <1>1, <1>2, <1>3, <1>4, <1>5, <1>6, <1>7, <1>8, <1>9 DEF CacheNext

THEOREM CacheInvariance == CacheSpec => []CacheInv
<1>1. CacheInit => CacheInv
  <2> SUFFICES ASSUME CacheInit PROVE CacheInv
    OBVIOUS
  <2>1. NoPage \notin Pages
    BY DEF NoPage, Page, Pages, ReviewPages, WorkspacePages, ProjectPages, OtherPages
  <2>2. /\ NoFetch = [phase |-> "none", seen |-> 0]
        /\ NoMutation \in [hook : Hooks \cup {NoMutation.hook}, phase : {"none", "sent", "applied"}]
    BY DEF NoFetch, NoMutation
  <2> QED
    BY <2>1, <2>2 DEF CacheInit, CacheInv, CacheTypeOK
<1> QED
  BY <1>1, CacheStep, PTL DEF CacheSpec

\* A page that made a mutation never takes an older answer for a fresh one.
THEOREM PagesReadTheirWrites == CacheSpec => []OwnWritesAreSeen
<1>1. CacheInv => OwnWritesAreSeen
  BY DEF CacheInv, CacheTypeOK, OwnWritesAreSeen
<1> QED
  BY <1>1, CacheInvariance, PTL
=============================================================================
