------------------------------- MODULE MCServer -------------------------------
(***************************************************************************)
(* Two users who may both be admins and members, and three requests about  *)
(* them; one template and one environment that may be deleted and created  *)
(* again, with content that does and does not render, and one deployment.  *)
(***************************************************************************)
EXTENDS Server, TLC

\* Users differ only in what is done to them; the properties treat them alike.
UserSymmetry == Permutations(User)
=============================================================================
