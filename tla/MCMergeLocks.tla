---------------------------- MODULE MCMergeLocks ----------------------------
(* Instances of MergeLocks for TLC. *)
EXTENDS MergeLocks, TLC

\* Transactions differ only in what they do; sound for the safety runs.
TxSymmetry == Permutations(Tx)
=============================================================================
