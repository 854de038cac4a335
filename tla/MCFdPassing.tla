---------------------------- MODULE MCFdPassing ------------------------------
(* Symmetry for the runs of FdPassing. *)
EXTENDS FdPassing

Symmetry == Permutations(Proc) \cup Permutations(Sock)
=============================================================================
