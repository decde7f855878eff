---------------------------- MODULE AtomicMerge ----------------------------
(***************************************************************************)
(* What merging promises within one project or Global Values group: an     *)
(* approved pull request becomes the next version of the history, and      *)
(* other pull requests are closed, in one step.  Whatever else happens     *)
(* touches one pull request at a time and leaves the history alone, except *)
(* that a version may be appended directly.                                *)
(***************************************************************************)
EXTENDS Naturals, Sequences

CONSTANT PR

VARIABLES
  kind,      \* whether this is a "project" or a "group"
  status,    \* the status of each pull request, as committed
  base,      \* the version each was based on
  history    \* the committed versions, each named by the PR it merged (0: none)

vars == <<kind, status, base, history>>

ActiveStatus == {"draft", "open", "approved"}
RowStatus == ActiveStatus \cup {"merged", "closed", "none", "deleted"}

\* A group is created with its first version, a project with none.
Init ==
  /\ kind \in {"project", "group"}
  /\ status = [p \in PR |-> "none"]
  /\ base = [p \in PR |-> 0]
  /\ history = IF kind = "group" THEN <<0>> ELSE <<>>

Merge(p, closed) ==
  /\ status[p] = "approved"
  /\ kind = "group" => base[p] = Len(history)
  /\ closed \subseteq {q \in PR \ {p} : status[q] \in ActiveStatus}
  /\ history' = Append(history, p)
  /\ status' = [q \in PR |-> IF q = p THEN "merged"
                             ELSE IF q \in closed THEN "closed" ELSE status[q]]
  /\ UNCHANGED <<kind, base>>

AppendVersion ==
  /\ kind = "group"
  /\ history' = Append(history, 0)
  /\ UNCHANGED <<kind, status, base>>

Open(p) ==
  /\ status[p] = "none"
  /\ \E st \in {"draft", "open"} : status' = [status EXCEPT ![p] = st]
  /\ \E b \in 0 .. Len(history) : base' = [base EXCEPT ![p] = b]
  /\ UNCHANGED <<kind, history>>

\* A row once deleted stays deleted, and only a merge makes a row merged.
Touch(p) ==
  /\ status[p] \notin {"none", "deleted"}
  /\ \E st \in {"open", "approved", "closed", "deleted"} :
       /\ st = "deleted" => status[p] = "draft"
       /\ status' = [status EXCEPT ![p] = st]
  /\ UNCHANGED <<kind, base, history>>

Next ==
  \/ \E p \in PR : \E closed \in SUBSET PR : Merge(p, closed)
  \/ AppendVersion
  \/ \E p \in PR : Open(p) \/ Touch(p)

Spec == Init /\ [][Next]_vars
=============================================================================
