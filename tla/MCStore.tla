------------------------------ MODULE MCStore ------------------------------
(* Constants of the runs of Store.                                         *)
EXTENDS Store, TLC

Everything == AllJobs
Symmetry   == Permutations(Procs)
=============================================================================
