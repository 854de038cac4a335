---------------------------- MODULE MCSleepQueue ----------------------------
(* Symmetry for the runs of SleepQueue.                                    *)
EXTENDS SleepQueue

Symmetry == Permutations(Proc) \cup Permutations(Chan)
=============================================================================
