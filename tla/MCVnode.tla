------------------------------- MODULE MCVnode -------------------------------
(* Symmetry for the runs of Vnode. *)
EXTENDS Vnode

Symmetry == Permutations(Proc) \cup Permutations(Vnode) \cup Permutations(Inode)
=============================================================================
