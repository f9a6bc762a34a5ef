----------------------------- MODULE MCJournal -----------------------------
(* Constants of the runs of Journal.                                       *)
EXTENDS Journal, TLC

Symmetry == Permutations(Events)
=============================================================================
