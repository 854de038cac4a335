------------------------------ MODULE MCLockmgr ------------------------------
(* Model values and symmetry for the runs of Lockmgr. *)
EXTENDS Lockmgr, TLC

Symmetry == Permutations(Proc)
=============================================================================
