------------------------------ MODULE MCLockf -------------------------------
(* Instances of Lockf. MCAsks: p1 has locks that overlap in every way, p2  *)
(* and p3 some that meet them, and p3 uses flock() as well. MCSplitAsks:   *)
(* p1 upgrades the middle of a shared lock.                                *)
EXTENDS Lockf

CONSTANTS p1, p2, p3, f

Ask(id, type, start, end) ==
  [id |-> id, type |-> type, start |-> start, end |-> end]

MCAsks ==
  [p \in Proc |->
     CASE p = p1 -> {Ask(p1, "WR", 0, EOF), Ask(p1, "RD", 0, EOF),
                     Ask(p1, "RD", 1, 1), Ask(p1, "WR", 0, 1),
                     Ask(p1, "RD", 1, EOF), Ask(p1, "UN", 1, 1),
                     Ask(p1, "UN", 0, EOF)}
       [] p = p2 -> {Ask(p2, "WR", 1, 1),
                     Ask(p2, "WR", 2, EOF), Ask(p2, "UN", 1, EOF)}
       [] p = p3 -> {Ask(p3, "WR", 0, 0), Ask(p3, "RD", 2, EOF),
                     Ask(p3, "UN", 0, EOF)}
                      \cup {Ask(f, t, 0, EOF) : t \in {"RD", "WR", "UN"}}]

MCSplitAsks ==
  [p \in Proc |-> IF p = p1 THEN {Ask(p1, "RD", 0, EOF), Ask(p1, "WR", 1, 1),
                                  Ask(p1, "UN", 0, EOF)}
                  ELSE {Ask(p, "RD", 1, 1), Ask(p, "UN", 1, 1)}]
=============================================================================
