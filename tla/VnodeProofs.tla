----------------------------- MODULE VnodeProofs ------------------------------
(***************************************************************************)
(* The invariants of the vnode life cycle, for any number of processes,    *)
(* vnodes and inodes.                                                      *)
(*                                                                         *)
(* Inv says of each vnode, and of the processes that do something with it, *)
(* what they rely on across their sleeps. A step is a step at one vnode    *)
(* and disturbs no other (Here); most are steps of one process (AloneHere),*)
(* so that the number of references follows what this process counts       *)
(* (Recount). One lemma per action shows the rest; the end of vclean(),    *)
(* which wakes all who wait for it, is the only step of several processes. *)
(* Names, a second invariant on top of Inv, says what the searches in the  *)
(* directories and the name cache promise of a vnode that was found by its *)
(* name; again one lemma per action. The specification takes no step where *)
(* vclean() has no lock to drain (Wild).                                   *)
(***************************************************************************)
EXTENDS Vnode, ListLemmas, FiniteSetTheorems, TLAPS

-----------------------------------------------------------------------------
(* The inductive invariant. All but the types and the name cache is said   *)
(* of one vnode and of the processes that do something with it.            *)
Ats ==
  {"idle", "malloc", "fill", "new", "read", "lock", "have", "stale", "ref", "relock",
   "rele", "inactive", "clean?", "drain", "clean", "itself"}

Job ==
  [at : Ats, v : Vnode \cup {None}, i : Inode \cup {None}, byname : BOOLEAN,
   fresh : BOOLEAN, dir : BOOLEAN, next : {"idle", "fill", "ref"}, active : BOOLEAN]

(* What the fields of a job have to do with each other. *)
JobOK(do) ==
  /\ do.v = None <=> do.at \in {"idle", "malloc"}
  /\ do.at \in {"malloc", "fill", "new", "read", "lock", "have", "ref", "relock"} => do.i \in Inode
  /\ do.next # "idle" => do.i \in Inode /\ do.at \in {"clean?", "drain", "clean"}
  /\ do.active => do.at \in {"drain", "clean"}
  /\ do.byname => do.at \in {"lock", "have", "stale"}

TypeOK ==
  /\ born \subseteq Vnode
  /\ use \in [Vnode -> Nat]
  /\ xlock \in [Vnode -> BOOLEAN]
  /\ free \in Seq(Vnode) /\ IsInjective(free)
  /\ inode \in [Vnode -> Inode \cup {None}]
  /\ holder \in [Vnode -> Proc \cup {None}]
  /\ cached \in [Inode -> Vnode \cup {None}]
  /\ pc \in [Proc -> Job]
  /\ \A p \in Proc : JobOK(pc[p])

Users(v) == {p \in Proc : pc[p].v = v}

Takes(p) == At(p, "fill") \/ pc[p].next = "fill"

Cleans(p) == pc[p].at \in {"drain", "clean", "itself"}

Waits(p) == pc[p].at \in {"lock", "relock", "rele"}

FreeExact(v) ==
  /\ v \in ToSet(free) <=> v \in born /\ use[v] = 0 /\ \A p \in Users(v) : ~Takes(p)
  /\ Users(v) # {} \/ inode[v] # None => v \in born

TakenOnce(v) ==
  \A p \in Users(v) : Takes(p) =>
    /\ use[v] = 0
    /\ \A q \in Users(v) : Takes(q) => p = q

CleanedOnce(v) ==
  /\ xlock[v] <=> \E p \in Users(v) : Cleans(p)
  /\ \A p, q \in Users(v) : Cleans(p) /\ Cleans(q) => p = q

HolderSound(v) ==
  holder[v] # None =>
    /\ holder[v] \in Users(v)
    /\ pc[holder[v]].at \in {"have", "stale", "read", "inactive", "clean"}
    /\ inode[v] # None

(* What a process relies on, by where it is. *)
Place(p, v) ==
  /\ pc[p].at \in {"inactive", "read", "stale", "clean"} => holder[v] = p
  /\ At(p, "have") => holder[v] = p \/ inode[v] = None
  /\ At(p, "read") => inode[v] = pc[p].i
  /\ Refers(p) => inode[v] \in {pc[p].i, None}
  /\ Waits(p) \/ At(p, "clean") => inode[v] # None
  /\ At(p, "clean") => \A q \in Users(v) : ~Waits(q)
  /\ At(p, "clean?") => xlock[v]
  /\ At(p, "fill") => inode[v] = None /\ ~xlock[v]
  /\ Cleans(p) /\ ~pc[p].active => use[v] = 0
  /\ At(p, "itself") => inode[v] = None

(* A vnode without its inode yet is known to the one who makes it. *)
Unshared(v) ==
  \A p \in Users(v) : At(p, "new") =>
    inode[v] = None /\ \A q \in Users(v) : Refers(q) => q = p

Local(v) ==
  /\ use[v] = References(v)
  /\ FreeExact(v)
  /\ TakenOnce(v)
  /\ CleanedOnce(v)
  /\ HolderSound(v)
  /\ Unshared(v)
  /\ \A p \in Users(v) : Place(p, v)

CachedSound ==
  \A i \in Inode : cached[i] # None => inode[cached[i]] = i

Inv ==
  /\ TypeOK
  /\ CachedSound
  /\ \A v \in Vnode : Local(v)

-----------------------------------------------------------------------------
(* Counting references.                                                    *)

(* Those who hold a reference, and those who hold one more to clean.      *)
Refer(v) == {p \in Proc : pc[p].v = v /\ Refers(p)}

Active(v) == {p \in Proc : pc[p].v = v /\ pc[p].active}

(* What p counts for v. *)
Part(p, v) ==
  (IF p \in Refer(v) THEN 1 ELSE 0) + (IF p \in Active(v) THEN 1 ELSE 0)

(* A set that changes by p only. *)
LEMMA CountOne ==
  ASSUME NEW A \in SUBSET Proc, NEW B \in SUBSET Proc, NEW p \in Proc,
         A \ {p} = B \ {p}
  PROVE  /\ Cardinality(A) \in Nat /\ Cardinality(B) \in Nat
         /\ Cardinality(B) = Cardinality(A) + (IF p \in B THEN 1 ELSE 0)
                                            - (IF p \in A THEN 1 ELSE 0)
<1>1. IsFiniteSet(A) /\ IsFiniteSet(B)
  BY VnodeAssumption, FS_Subset
<1>2. Cardinality(A) \in Nat /\ Cardinality(B) \in Nat
  BY <1>1, FS_CardinalityType
<1>3. Cardinality(A \ {p}) = IF p \in A THEN Cardinality(A) - 1 ELSE Cardinality(A)
  BY <1>1, FS_RemoveElement
<1>4. Cardinality(B \ {p}) = IF p \in B THEN Cardinality(B) - 1 ELSE Cardinality(B)
  BY <1>1, FS_RemoveElement
<1>. QED  BY <1>2, <1>3, <1>4

(* A step in which the others go on referring to v as they did. *)
LEMMA Recount ==
  ASSUME NEW v, NEW p \in Proc,
         \A q \in Proc \ {p} : /\ q \in Refer(v) <=> q \in Refer(v)'
                               /\ q \in Active(v) <=> q \in Active(v)'
  PROVE  /\ References(v) \in Nat /\ References(v)' \in Nat
         /\ References(v)' = References(v) + Part(p, v)' - Part(p, v)
<1>1. /\ Refer(v) \in SUBSET Proc /\ Refer(v)' \in SUBSET Proc
      /\ Active(v) \in SUBSET Proc /\ Active(v)' \in SUBSET Proc
  BY DEF Refer, Active
<1>2. Refer(v) \ {p} = Refer(v)' \ {p} /\ Active(v) \ {p} = Active(v)' \ {p}
  BY <1>1
<1>3. /\ References(v) = Cardinality(Refer(v)) + Cardinality(Active(v))
      /\ References(v)' = Cardinality(Refer(v)') + Cardinality(Active(v)')
  BY DEF References, Refer, Active
<1>. QED  BY <1>1, <1>2, <1>3, CountOne DEF Part

(* Nobody refers to v but p. *)
LEMMA NobodyElse ==
  ASSUME NEW v, NEW p \in Proc, References(v) = Part(p, v)
  PROVE  \A q \in Proc \ {p} : q \notin Refer(v) /\ q \notin Active(v)
<1>1. Refer(v) \in SUBSET Proc /\ Active(v) \in SUBSET Proc
  BY DEF Refer, Active
<1> DEFINE R == Refer(v) \ {p}
           A == Active(v) \ {p}
<1>2. R \in SUBSET Proc /\ A \in SUBSET Proc
  BY <1>1
<1>3. /\ IsFiniteSet(R) /\ IsFiniteSet(A)
      /\ Cardinality(R) \in Nat /\ Cardinality(A) \in Nat
  BY <1>2, VnodeAssumption, FS_Subset, FS_CardinalityType
<1>4. /\ Cardinality(R) = Cardinality(Refer(v)) - (IF p \in Refer(v) THEN 1 ELSE 0)
      /\ Cardinality(A) = Cardinality(Active(v)) - (IF p \in Active(v) THEN 1 ELSE 0)
      /\ Cardinality(Refer(v)) \in Nat /\ Cardinality(Active(v)) \in Nat
  <2>1. p \notin R /\ p \notin A
    OBVIOUS
  <2>2. R \ {p} = Refer(v) \ {p} /\ A \ {p} = Active(v) \ {p}
    OBVIOUS
  <2>. QED  BY <1>1, <1>2, <2>1, <2>2, CountOne
<1>5. References(v) = Cardinality(Refer(v)) + Cardinality(Active(v))
  BY DEF References, Refer, Active
<1>6. Cardinality(R) = 0 /\ Cardinality(A) = 0
  BY <1>3, <1>4, <1>5 DEF Part
<1>7. R = {} /\ A = {}
  BY <1>3, <1>6, FS_EmptySet
<1>. QED  BY <1>7

(* Who refers to v counts. *)
LEMMA Counted ==
  ASSUME NEW v, NEW p \in Proc
  PROVE  References(v) \in Nat /\ Part(p, v) \in Nat /\ References(v) >= Part(p, v)
<1>1. Refer(v) \in SUBSET Proc /\ Active(v) \in SUBSET Proc
  BY DEF Refer, Active
<1>2. /\ Refer(v) \ {p} \in SUBSET Proc /\ Active(v) \ {p} \in SUBSET Proc
      /\ (Refer(v) \ {p}) \ {p} = Refer(v) \ {p}
      /\ (Active(v) \ {p}) \ {p} = Active(v) \ {p}
  BY <1>1
<1>3. /\ Cardinality(Refer(v) \ {p}) \in Nat /\ Cardinality(Active(v) \ {p}) \in Nat
      /\ Cardinality(Refer(v) \ {p}) = Cardinality(Refer(v)) - (IF p \in Refer(v) THEN 1 ELSE 0)
      /\ Cardinality(Active(v) \ {p}) = Cardinality(Active(v)) - (IF p \in Active(v) THEN 1 ELSE 0)
      /\ Cardinality(Refer(v)) \in Nat /\ Cardinality(Active(v)) \in Nat
  BY <1>1, <1>2, CountOne
<1>4. References(v) = Cardinality(Refer(v)) + Cardinality(Active(v))
  BY DEF References, Refer, Active
<1>. QED  BY <1>3, <1>4 DEF Part

(* Nobody at all refers to v. *)
LEMMA NoneCounted ==
  ASSUME NEW v, Refer(v) = {}, Active(v) = {}
  PROVE  References(v) = 0
BY FS_EmptySet DEF References, Refer, Active

-----------------------------------------------------------------------------
(* Steps at one vnode disturb no other.                                    *)

(* q does the same as before; the number it noted may be out of date now.  *)
Same(q) ==
  /\ pc'[q].at = pc[q].at /\ pc'[q].v = pc[q].v /\ pc'[q].i = pc[q].i
  /\ pc'[q].next = pc[q].next /\ pc'[q].active = pc[q].active
  /\ pc'[q].byname = pc[q].byname
  /\ pc'[q].fresh => pc[q].fresh

(* Nothing happens to another vnode, or to those who use one. *)
OnlyAt(v) ==
  /\ \A q \in Proc : IF pc[q].v \in {v, None} THEN pc'[q].v \in {v, None} ELSE Same(q)
  /\ \A w \in Vnode \ {v} :
       /\ use'[w] = use[w] /\ xlock'[w] = xlock[w] /\ inode'[w] = inode[w]
       /\ holder'[w] = holder[w]
       /\ w \in born' <=> w \in born
       /\ w \in ToSet(free') <=> w \in ToSet(free)

(* What is said of another vnode stays true. *)
LEMMA Elsewhere ==
  ASSUME Inv, NEW v, OnlyAt(v), NEW w \in Vnode \ {v}
  PROVE  Local(w)'
<1>1. Local(w) /\ w # None
  BY VnodeAssumption DEF Inv
<1>2. /\ Users(w)' = Users(w)
      /\ \A q \in Users(w) : q \in Proc /\ Same(q)
  BY <1>1 DEF OnlyAt, Users, Same
<1>3. /\ use'[w] = use[w] /\ xlock'[w] = xlock[w] /\ inode'[w] = inode[w]
      /\ holder'[w] = holder[w]
      /\ w \in born' <=> w \in born
      /\ w \in ToSet(free') <=> w \in ToSet(free)
  BY DEF OnlyAt
<1>4. (use[w] = References(w))'
  <2>1. \A q \in Proc : /\ (pc[q].v = w /\ Refers(q)) <=> (pc[q].v = w /\ Refers(q))'
                        /\ (pc[q].v = w /\ pc[q].active) <=> (pc[q].v = w /\ pc[q].active)'
    BY <1>2 DEF Users, Refers, Same
  <2>2. /\ {q \in Proc : pc[q].v = w /\ Refers(q)} = {q \in Proc : pc[q].v = w /\ Refers(q)}'
        /\ {q \in Proc : pc[q].v = w /\ pc[q].active} = {q \in Proc : pc[q].v = w /\ pc[q].active}'
    BY <2>1
  <2>3. References(w)' = References(w)
    BY <2>2 DEF References
  <2>. QED  BY <2>3, <1>1, <1>3 DEF Local
<1>5. FreeExact(w)'
  BY <1>1, <1>2, <1>3 DEF Local, FreeExact, Takes, At, Same
<1>6. TakenOnce(w)'
  BY <1>1, <1>2, <1>3 DEF Local, TakenOnce, Takes, At, Same
<1>7. CleanedOnce(w)'
  BY <1>1, <1>2, <1>3 DEF Local, CleanedOnce, Cleans, Same
<1>8. HolderSound(w)'
  BY <1>1, <1>2, <1>3 DEF Local, HolderSound, Same
<1>9. ASSUME NEW q \in Users(w)'
      PROVE  Place(q, w)'
  BY <1>1, <1>2, <1>3, <1>9 DEF Local, Place, At, Refers, Waits, Cleans, Same
<1>10. Unshared(w)'
  BY <1>1, <1>2, <1>3 DEF Local, Unshared, At, Refers, Same
<1>. QED  BY <1>4, <1>5, <1>6, <1>7, <1>8, <1>9, <1>10 DEF Local

(* What is to be shown of a step at v. *)
LEMMA Here ==
  ASSUME Inv, NEW v, TypeOK', CachedSound', OnlyAt(v),
         v \in Vnode => Local(v)'
  PROVE  Inv'
<1>1. ASSUME NEW w \in Vnode
      PROVE  Local(w)'
  BY <1>1, Elsewhere
<1>. QED  BY <1>1 DEF Inv

(* A step of p at v: the others do what they did. *)
Alone(p, v) ==
  /\ \A q \in Proc \ {p} : Same(q)
  /\ pc[p].v \in {v, None} /\ pc'[p].v \in {v, None}
  /\ \A w \in Vnode \ {v} :
       /\ use'[w] = use[w] /\ xlock'[w] = xlock[w] /\ inode'[w] = inode[w]
       /\ holder'[w] = holder[w]
       /\ w \in born' <=> w \in born
       /\ w \in ToSet(free') <=> w \in ToSet(free)

(* How the count of v must follow the job of p. *)
Share(p, v) ==
  (IF pc[p].v = v /\ Refers(p) THEN 1 ELSE 0)
  + (IF pc[p].v = v /\ pc[p].active THEN 1 ELSE 0)

(* What is to be shown of a step of p alone at v. *)
LEMMA AloneHere ==
  ASSUME Inv, NEW p \in Proc, NEW v \in Vnode, TypeOK', CachedSound', Alone(p, v),
         use'[v] = use[v] + Share(p, v)' - Share(p, v),
         FreeExact(v)', TakenOnce(v)', CleanedOnce(v)', HolderSound(v)', Unshared(v)',
         \A q \in Users(v)' : Place(q, v)'
  PROVE  Inv'
<1>1. \A q \in Proc \ {p} : /\ q \in Refer(v) <=> q \in Refer(v)'
                            /\ q \in Active(v) <=> q \in Active(v)'
  BY DEF Alone, Same, Refer, Active, Refers
<1>2. Part(p, v) = Share(p, v) /\ Part(p, v)' = Share(p, v)'
  BY DEF Part, Share, Refer, Active
<1>3. /\ References(v) \in Nat /\ References(v)' \in Nat
      /\ References(v)' = References(v) + Part(p, v)' - Part(p, v)
  BY <1>1, Recount
<1>4. use[v] = References(v)
  BY DEF Inv, Local
<1>5. (use[v] = References(v))'
  BY <1>2, <1>3, <1>4
<1>6. Local(v)'
  BY <1>5 DEF Local
<1>7. OnlyAt(v)
  BY DEF Alone, OnlyAt, Same
<1>. QED  BY <1>6, <1>7, Here

(* The reference counts say who refers to v. *)
LEMMA Counts ==
  ASSUME Inv, NEW v \in Vnode, NEW p \in Proc
  PROVE  /\ use[v] \in Nat /\ Share(p, v) \in Nat /\ use[v] >= Share(p, v)
         /\ use[v] = Share(p, v) => \A q \in Proc \ {p} : Share(q, v) = 0
<1>1. Part(p, v) = Share(p, v)
  BY DEF Part, Share, Refer, Active
<1>2. \A q \in Proc : q \notin Refer(v) /\ q \notin Active(v) => Share(q, v) = 0
  BY DEF Share, Refer, Active
<1>3. use[v] = References(v)
  BY DEF Inv, Local
<1>. QED  BY <1>1, <1>2, <1>3, Counted, NobodyElse

(* A vnode without its inode stays so when nobody comes to refer to it. *)
LEMMA StillUnshared ==
  ASSUME Inv, NEW p \in Proc, NEW v \in Vnode, \A q \in Proc \ {p} : Same(q),
         inode'[v] = inode[v], pc'[p].at # "new",
         pc'[p].v = v /\ Refers(p)' => inode[v] # None \/ (pc[p].v = v /\ Refers(p))
  PROVE  Unshared(v)'
<1>1. Unshared(v)
  BY DEF Inv, Local
<1>2. ASSUME NEW q \in Users(v)', At(q, "new")'
      PROVE  inode[v] = None /\ \A r \in Users(v)' : Refers(r)' => r = q
  <2>1. q \in Users(v) /\ At(q, "new") /\ q # p
    BY <1>2 DEF Users, At, Same
  <2>2. inode[v] = None /\ \A r \in Users(v) : Refers(r) => r = q
    BY <1>1, <2>1 DEF Unshared
  <2>3. ASSUME NEW r \in Users(v)', Refers(r)'
        PROVE  r = q
    <3>1. r \in Users(v) /\ Refers(r)
      BY <2>2, <2>3 DEF Users, Refers, Same
    <3>. QED  BY <2>2, <3>1
  <2>. QED  BY <2>2, <2>3
<1>. QED  BY <1>2 DEF Unshared

-----------------------------------------------------------------------------
(* Steps of a process with a vnode that neither count nor clean.           *)

(* What Inv says of a process that has to do with a vnode. *)
LEMMA AtVnode ==
  ASSUME Inv, NEW p \in Proc, pc[p].at \notin {"idle", "malloc"}
  PROVE  /\ pc[p].v \in Vnode /\ p \in Users(pc[p].v)
         /\ Local(pc[p].v) /\ Place(p, pc[p].v)
         /\ pc[p] \in Job /\ JobOK(pc[p])
         /\ \A q \in Proc : pc[q] \in Job /\ JobOK(pc[q])
<1>1. pc[p] \in Job /\ JobOK(pc[p])
  BY DEF Inv, TypeOK
<1>2. pc[p].v \in Vnode
  BY <1>1 DEF Job, JobOK
<1>. QED  BY <1>1, <1>2 DEF Inv, Local, Users, TypeOK

(* p goes on with the same vnode in another way. *)
Stays(p) ==
  /\ UNCHANGED <<born, use, xlock, free, inode>>
  /\ pc'[p].v = pc[p].v
  /\ \A q \in Proc \ {p} : Same(q)
  /\ \A w \in Vnode \ {pc[p].v} : holder'[w] = holder[w]
  /\ Refers(p)' <=> Refers(p)
  /\ pc'[p].at # "new"
  /\ pc'[p].active <=> pc[p].active
  /\ Takes(p)' <=> Takes(p)
  /\ Cleans(p)' <=> Cleans(p)

(* What is to be shown then. *)
LEMMA StaysHere ==
  ASSUME Inv, NEW p \in Proc, pc[p].at \notin {"idle", "malloc"}, Stays(p),
         NEW v, v = pc[p].v, TypeOK', CachedSound', HolderSound(v)',
         \A q \in Users(v) : Place(q, v)'
  PROVE  Inv'
<1>1. v \in Vnode /\ Local(v) /\ p \in Users(v)
  BY AtVnode
<1>2. Users(v)' = {q \in Proc : pc'[q].v = v}
  BY DEF Users
<1>3. Users(v)' = Users(v)
  BY <1>2 DEF Users, Stays, Same
<1>4. \A q \in Proc : (Takes(q)' <=> Takes(q)) /\ (Cleans(q)' <=> Cleans(q))
  BY DEF Stays, Same, Takes, Cleans, At
<1>5. /\ FreeExact(v) /\ TakenOnce(v) /\ CleanedOnce(v)
      /\ use' = use /\ xlock' = xlock /\ inode' = inode /\ born' = born /\ free' = free
  BY <1>1 DEF Local, Stays
<1>6. FreeExact(v)'
  BY <1>3, <1>4, <1>5 DEF FreeExact, Users
<1>7. TakenOnce(v)'
  BY <1>3, <1>4, <1>5 DEF TakenOnce, Users
<1>8. CleanedOnce(v)'
  BY <1>3, <1>4, <1>5 DEF CleanedOnce, Users
<1>9. Alone(p, v)
  BY DEF Stays, Alone
<1>10. use'[v] = use[v] + Share(p, v)' - Share(p, v)
  <2>1. Share(p, v)' = Share(p, v)
    BY DEF Share, Stays
  <2>. QED  BY <2>1, <1>1, Counts, <1>5
<1>11. HolderSound(v)' /\ \A q \in Users(v)' : Place(q, v)'
  BY <1>3
<1>12. Unshared(v)'
  BY <1>1, <1>5, StillUnshared DEF Stays
<1>. QED  BY <1>1, <1>6, <1>7, <1>8, <1>9, <1>10, <1>11, <1>12, AloneHere

(* p takes up another job. *)
LEMMA NewJob ==
  ASSUME Inv, NEW p \in Proc, NEW to, pc' = [pc EXCEPT ![p] = to],
         to \in Job, JobOK(to)
  PROVE  /\ pc' \in [Proc -> Job] /\ \A q \in Proc : JobOK(pc'[q])
         /\ pc'[p] = to
         /\ \A q \in Proc \ {p} : pc'[q] = pc[q] /\ Same(q)
BY DEF Inv, TypeOK, Same

(* The lock is free when somebody who waited for it takes it. *)
LEMMA LockedInv ==
  ASSUME Inv, NEW p \in Proc, Locked(p), NEW v, v = pc[p].v
  PROVE  Inv'
<1> DEFINE to == [pc[p] EXCEPT !.at = Granted(pc[p]), !.fresh = FALSE]
<1>1. /\ pc[p].at \in {"lock", "relock", "rele"} /\ holder[v] = None
      /\ holder' = [holder EXCEPT ![v] = p]
      /\ pc' = [pc EXCEPT ![p].at = Granted(pc[p]), ![p].fresh = FALSE]
      /\ UNCHANGED <<born, use, xlock, free, inode, cached>>
  BY DEF Locked, At
<1>2. /\ v \in Vnode /\ p \in Users(v) /\ Local(v) /\ Place(p, v)
      /\ pc[p] \in Job /\ JobOK(pc[p])
  BY <1>1, AtVnode
<1>3. /\ pc'[p] = to /\ to.v = v /\ to.i = pc[p].i /\ to.next = pc[p].next
      /\ to.active = pc[p].active /\ to.byname = pc[p].byname
      /\ to.fresh = FALSE /\ to.at = Granted(pc[p])
      /\ to \in [at : {Granted(pc[p])}, v : {v}, i : {pc[p].i}, byname : {pc[p].byname},
                 fresh : {FALSE}, dir : {pc[p].dir}, next : {pc[p].next},
                 active : {pc[p].active}]
      /\ \A q \in Proc \ {p} : pc'[q] = pc[q]
  BY <1>1, <1>2 DEF Inv, TypeOK, Job
<1>4. /\ to.at \in {"have", "stale", "inactive"}
      /\ to.at = "inactive" <=> pc[p].at = "rele"
      /\ to.at = "stale" <=> pc[p].at = "lock" /\ pc[p].byname /\ ~pc[p].fresh
  BY <1>1, <1>3 DEF Granted
<1>5. to \in Job /\ JobOK(to)
  BY <1>1, <1>2, <1>3, <1>4 DEF Job, JobOK, Ats
<1> HIDE DEF to
<1>6. TypeOK'
  <2>1. pc' \in [Proc -> Job] /\ \A q \in Proc : JobOK(pc'[q])
    BY <1>1, <1>5, NewJob DEF to
  <2>. QED  BY <2>1, <1>1, <1>2 DEF Inv, TypeOK
<1>7. CachedSound'
  BY <1>1 DEF Inv, CachedSound
<1>8. Stays(p)
  BY <1>1, <1>2, <1>3, <1>4 DEF Stays, Same, Refers, Takes, Cleans, At, JobOK, Inv, TypeOK
<1>9. HolderSound(v)'
  BY <1>1, <1>2, <1>3, <1>4 DEF HolderSound, Users, Place, Waits, Inv, TypeOK
<1>10. ASSUME NEW q \in Users(v)
       PROVE  Place(q, v)'
  <2>1. holder'[v] = p /\ inode' = inode /\ xlock' = xlock /\ use' = use
    BY <1>1, <1>2 DEF Inv, TypeOK
  <2>2. q \in Proc /\ Place(q, v)
    BY <1>2 DEF Local, Users
  <2>3. CASE q = p
    BY <2>1, <2>3, <1>1, <1>2, <1>3, <1>4 DEF Place, At, Refers, Waits, Cleans, JobOK
  <2>4. CASE q # p
    <3>1. pc'[q] = pc[q] /\ Users(v)' = Users(v) /\ \A r \in Users(v) : Waits(r)' => Waits(r)
      <4>1. \A r \in Proc \ {p} : pc'[r] = pc[r]
        BY <1>3
      <4>2. pc'[p].v = v /\ pc'[p].at \notin {"lock", "relock", "rele"}
        BY <1>3, <1>4
      <4>. QED  BY <4>1, <4>2, <2>2, <2>4 DEF Users, Waits
    <3>2. pc[q].at \notin {"inactive", "read", "stale", "clean"}
      BY <2>2, <1>1, VnodeAssumption DEF Place
    <3>3. At(q, "have") => inode[v] = None
      BY <2>2, <1>1, VnodeAssumption DEF Place
    <3>4. ~At(q, "have")
      BY <3>3, <1>1, <1>2 DEF Place, Waits
    <3>. QED  BY <3>1, <3>2, <3>4, <2>1, <2>2, <2>4 DEF Place, At, Refers, Waits, Cleans
  <2>. QED  BY <2>3, <2>4
<1>. QED  BY <1>1, <1>6, <1>7, <1>8, <1>9, <1>10, StaysHere

(* The drained lock is the cleaner's, and nobody waits for it. *)
LEMMA DrainInv ==
  ASSUME Inv, NEW p \in Proc, Drain(p), NEW v, v = pc[p].v, inode[v] # None
  PROVE  Inv'
<1> DEFINE to == [pc[p] EXCEPT !.at = "clean"]
<1>1. /\ pc[p].at = "drain" /\ holder[v] = None /\ Waiting(v) = {}
      /\ holder' = [holder EXCEPT ![v] = p]
      /\ pc' = [pc EXCEPT ![p] = to]
      /\ UNCHANGED <<born, use, xlock, free, inode, cached>>
  BY DEF Drain, At, Drained
<1>2. /\ v \in Vnode /\ p \in Users(v) /\ Local(v) /\ Place(p, v)
      /\ pc[p] \in Job /\ JobOK(pc[p])
  BY <1>1, AtVnode
<1>3. /\ to.v = v /\ to.i = pc[p].i /\ to.next = pc[p].next
      /\ to.active = pc[p].active /\ ~to.byname /\ to.at = "clean"
      /\ to \in Job /\ JobOK(to)
  BY <1>1, <1>2 DEF Job, JobOK, Ats
<1> HIDE DEF to
<1>4. /\ pc' \in [Proc -> Job] /\ \A q \in Proc : JobOK(pc'[q])
      /\ pc'[p] = to /\ \A q \in Proc \ {p} : pc'[q] = pc[q] /\ Same(q)
  BY <1>1, <1>3, NewJob
<1>5. TypeOK' /\ CachedSound'
  BY <1>1, <1>2, <1>4 DEF Inv, TypeOK, CachedSound
<1>6. Stays(p)
  BY <1>1, <1>2, <1>3, <1>4 DEF Stays, Refers, Takes, Cleans, At, Inv, TypeOK
<1>7. /\ holder'[v] = p /\ inode[v] # None /\ \A q \in Users(v) : ~Waits(q)
      /\ Users(v)' = Users(v)
  <2>1. holder'[v] = p /\ inode[v] # None
    BY <1>1, <1>2 DEF Inv, TypeOK, Place
  <2>2. \A q \in Proc : pc[q].v = v => ~Waits(q)
    BY <1>1 DEF Waiting, Waits
  <2>. QED  BY <2>1, <2>2, <1>2, <1>3, <1>4 DEF Users
<1>8. HolderSound(v)'
  BY <1>1, <1>2, <1>3, <1>4, <1>7 DEF HolderSound, Users
<1>9. ASSUME NEW q \in Users(v)
      PROVE  Place(q, v)'
  <2>1. q \in Proc /\ Place(q, v)
    BY <1>2 DEF Local, Users
  <2>2. \A r \in Users(v) : ~Waits(r)'
    BY <1>3, <1>4, <1>7 DEF Users, Waits
  <2>3. CASE q = p
    BY <2>2, <2>3, <1>1, <1>2, <1>3, <1>4, <1>7 DEF Place, At, Refers, Waits, Cleans
  <2>4. CASE q # p
    <3>1. pc'[q] = pc[q]
      BY <2>1, <2>4, <1>4
    <3>2. pc[q].at \notin {"inactive", "read", "stale", "clean", "have"}
      BY <2>1, <1>1, <1>7, VnodeAssumption DEF Place, At
    <3>. QED  BY <3>1, <3>2, <2>1, <2>2, <2>4, <1>1, <1>7 DEF Place, At, Refers, Waits, Cleans
  <2>. QED  BY <2>3, <2>4
<1>. QED  BY <1>1, <1>5, <1>6, <1>8, <1>9, StaysHere

(* Whoever reads the inode from the disk has the lock before and after. *)
LEMMA ReadInv ==
  ASSUME Inv, NEW p \in Proc, Read(p) \/ ReadFails(p), NEW v, v = pc[p].v
  PROVE  Inv'
<1> PICK at \in {"have", "stale"} : pc' = [pc EXCEPT ![p].at = at]
  BY DEF Read, ReadFails
<1> DEFINE to == [pc[p] EXCEPT !.at = at]
<1>1. /\ pc[p].at = "read"
      /\ pc' = [pc EXCEPT ![p] = to]
      /\ UNCHANGED <<born, use, xlock, free, inode, holder, cached>>
  BY DEF Read, ReadFails, At
<1>2. /\ v \in Vnode /\ p \in Users(v) /\ Local(v) /\ Place(p, v)
      /\ pc[p] \in Job /\ JobOK(pc[p])
  BY <1>1, AtVnode
<1>3. /\ to.v = v /\ to.i = pc[p].i /\ to.next = "idle"
      /\ to.active = pc[p].active /\ ~to.byname /\ to.at = at
      /\ to \in Job /\ JobOK(to)
  BY <1>1, <1>2 DEF Job, JobOK, Ats
<1> HIDE DEF to
<1>4. /\ pc' \in [Proc -> Job] /\ \A q \in Proc : JobOK(pc'[q])
      /\ pc'[p] = to /\ \A q \in Proc \ {p} : pc'[q] = pc[q] /\ Same(q)
  BY <1>1, <1>3, NewJob
<1>6. TypeOK'
  BY <1>1, <1>4 DEF Inv, TypeOK
<1>7. CachedSound'
  BY <1>1 DEF Inv, TypeOK, CachedSound
<1>8. pc[p].next = "idle"
  BY <1>1, <1>2 DEF JobOK
<1>9. Stays(p)
  BY <1>1, <1>2, <1>3, <1>4, <1>8 DEF Stays, Refers, Takes, Cleans, At
<1>10. HolderSound(v)'
  BY <1>1, <1>2, <1>3, <1>4 DEF Local, HolderSound, Users
<1>11. ASSUME NEW q \in Users(v)
       PROVE  Place(q, v)'
  <2>1. q \in Proc /\ Place(q, v)
    BY <1>2 DEF Local, Users
  <2>2. Users(v)' = Users(v) /\ \A r \in Users(v) : Waits(r)' <=> Waits(r)
    BY <1>1, <1>2, <1>3, <1>4 DEF Users, Waits
  <2>3. CASE q = p
    BY <2>1, <2>2, <2>3, <1>1, <1>2, <1>3, <1>4 DEF Place, At, Refers, Waits, Cleans
  <2>4. CASE q # p
    BY <2>1, <2>2, <2>4, <1>1, <1>2, <1>4 DEF Place, At, Refers, Waits, Cleans
  <2>. QED  BY <2>3, <2>4
<1>. QED  BY <1>1, <1>6, <1>7, <1>9, <1>10, <1>11, StaysHere

(* A name is entered by the holder of the lock. *)
LEMMA CacheEnterInv ==
  ASSUME Inv, NEW p \in Proc, CacheEnter(p), NEW v, v = pc[p].v
  PROVE  Inv'
<1>1. /\ pc[p].at = "have" /\ holder[v] = p
      /\ cached' = [cached EXCEPT ![pc[p].i] = v]
      /\ UNCHANGED <<born, use, xlock, free, inode, holder, pc>>
  BY DEF CacheEnter, HasLocked, At
<1>2. /\ v \in Vnode /\ p \in Users(v) /\ Local(v) /\ Place(p, v) /\ JobOK(pc[p])
  BY <1>1, AtVnode
<1>3. pc[p].i \in Inode
  BY <1>1, <1>2 DEF JobOK
<1>4. inode[v] = pc[p].i
  <2>1. inode[v] # None
    BY <1>1, <1>2, VnodeAssumption DEF Local, HolderSound
  <2>. QED  BY <2>1, <1>1, <1>2 DEF Place, Refers
<1>5. TypeOK'
  BY <1>1, <1>2, <1>3 DEF Inv, TypeOK
<1>6. CachedSound'
  BY <1>1, <1>3, <1>4 DEF Inv, TypeOK, CachedSound
<1>7. OnlyAt(v)
  BY <1>1 DEF OnlyAt, Same
<1>8. UNCHANGED <<born, use, xlock, free, inode, holder, pc>>
  BY <1>1
<1>9. \A q \in Proc : Refers(q)' = Refers(q)
  BY <1>8 DEF Refers
<1>10. References(v)' = References(v) /\ Users(v)' = Users(v)
  BY <1>8, <1>9 DEF References, Users
<1>11. Local(v)'
  <2>1. FreeExact(v)' /\ TakenOnce(v)' /\ CleanedOnce(v)'
    BY <1>2, <1>8, <1>10 DEF Local, FreeExact, TakenOnce, CleanedOnce, Takes, Cleans, At
  <2>2. HolderSound(v)'
    BY <1>2, <1>8, <1>10 DEF Local, HolderSound
  <2>4. \A q \in Users(v) : Refers(q)' = Refers(q)
    BY <1>9 DEF Users
  <2>5. Unshared(v)'
    BY <1>2, <1>8, <1>10, <2>4 DEF Local, Unshared, At
  <2>3. ASSUME NEW q \in Users(v)
        PROVE  Place(q, v)'
    <3>1. /\ Place(q, v) /\ Refers(q)' = Refers(q)
          /\ pc' = pc /\ use' = use /\ xlock' = xlock /\ inode' = inode /\ holder' = holder
      BY <1>2, <1>8, <2>4 DEF Local
    <3>. QED  BY <3>1, <1>10 DEF Place, At, Waits, Cleans
  <2>. QED  BY <1>2, <1>8, <1>10, <2>1, <2>2, <2>3, <2>5 DEF Local
<1>. QED  BY <1>5, <1>6, <1>7, <1>11, Here

(* A name goes with the lock held, and the number that others noted. *)
LEMMA RmdirInv ==
  ASSUME Inv, NEW p \in Proc, Rmdir(p), NEW v, v = pc[p].v
  PROVE  Inv'
<1>1. /\ pc[p].at = "have" /\ holder[v] = p
      /\ cached' = [[i \in Inode |-> IF cached[i] = v THEN None ELSE cached[i]]
                      EXCEPT ![pc[p].i] = None]
      /\ pc' = Outdated(v, [pc EXCEPT ![p].byname = FALSE, ![p].dir = FALSE])
      /\ UNCHANGED <<born, use, xlock, free, inode, holder>>
  BY DEF Rmdir, HasLocked, At, Purged
<1>2. /\ v \in Vnode /\ p \in Users(v) /\ Local(v) /\ Place(p, v)
      /\ pc[p] \in Job /\ JobOK(pc[p])
      /\ \A q \in Proc : pc[q] \in Job /\ JobOK(pc[q])
  BY <1>1, AtVnode
<1>3. \A q \in Proc :
        pc'[q] = [pc[q] EXCEPT !.byname = IF q = p THEN FALSE ELSE @,
                               !.dir = IF q = p THEN FALSE ELSE @,
                               !.fresh = IF pc[q].v = v THEN FALSE ELSE @]
  BY <1>1, <1>2 DEF Outdated, Inv, TypeOK, Job
<1>4. ASSUME NEW q \in Proc
      PROVE  /\ pc'[q].at = pc[q].at /\ pc'[q].v = pc[q].v /\ pc'[q].i = pc[q].i
             /\ pc'[q].next = pc[q].next /\ pc'[q].active = pc[q].active
             /\ pc'[q].byname = (IF q = p THEN FALSE ELSE pc[q].byname)
             /\ pc'[q].fresh = (IF pc[q].v = v THEN FALSE ELSE pc[q].fresh)
             /\ pc'[q] \in Job /\ JobOK(pc'[q])
  <2> DEFINE b == IF q = p THEN FALSE ELSE pc[q].byname
             d == IF q = p THEN FALSE ELSE pc[q].dir
             f == IF pc[q].v = v THEN FALSE ELSE pc[q].fresh
  <2>1. /\ pc[q] \in Job /\ JobOK(pc[q])
        /\ b \in BOOLEAN /\ d \in BOOLEAN /\ f \in BOOLEAN
    BY <1>2 DEF Job
  <2>2. pc'[q] = [pc[q] EXCEPT !.byname = b, !.dir = d, !.fresh = f]
    BY <1>3, <2>1 DEF Job
  <2>3. b => pc[q].byname
    OBVIOUS
  <2> HIDE DEF b, d, f
  <2>4. /\ pc'[q].at = pc[q].at /\ pc'[q].v = pc[q].v /\ pc'[q].i = pc[q].i
        /\ pc'[q].next = pc[q].next /\ pc'[q].active = pc[q].active
        /\ pc'[q].byname = b /\ pc'[q].fresh = f
        /\ pc'[q] \in Job /\ JobOK(pc'[q])
    <3> DEFINE do == pc[q]
               to == pc'[q]
    <3>1. do \in Job /\ JobOK(do) /\ to = [do EXCEPT !.byname = b, !.dir = d, !.fresh = f]
      BY <2>1, <2>2
    <3> HIDE DEF do, to
    <3>2. /\ to.at = do.at /\ to.v = do.v /\ to.i = do.i /\ to.next = do.next
          /\ to.active = do.active /\ to.byname = b /\ to.fresh = f
          /\ to \in Job
      BY <3>1, <2>1 DEF Job
    <3>3. to.byname => do.byname
      BY <3>2, <2>3 DEF do
    <3>4. JobOK(to)
      BY <3>1, <3>2, <3>3 DEF JobOK
    <3>. QED  BY <3>2, <3>4 DEF do, to
  <2>. QED  BY <2>4 DEF b, f
<1>5. TypeOK'
  <2>1. pc' \in [Proc -> Job]
    BY <1>1, <1>4 DEF Outdated
  <2>. QED  BY <2>1, <1>1, <1>2, <1>4 DEF Inv, TypeOK
<1>6. CachedSound'
  BY <1>1, <1>2 DEF Inv, TypeOK, CachedSound
<1>7. Stays(p)
  BY <1>1, <1>2, <1>4 DEF Stays, Same, Refers, Takes, Cleans, At, Inv, TypeOK
<1>8. HolderSound(v)'
  BY <1>1, <1>2, <1>4 DEF Local, HolderSound, Users
<1>9. ASSUME NEW q \in Users(v)
      PROVE  Place(q, v)'
  <2>1. q \in Proc /\ pc[q].v = v /\ Place(q, v)
    BY <1>2 DEF Local, Users
  <2>2. Users(v)' = Users(v) /\ \A r \in Users(v) : Waits(r)' <=> Waits(r)
    <3>1. \A r \in Proc : pc'[r].v = pc[r].v /\ pc'[r].at = pc[r].at
      BY <1>4
    <3>. QED  BY <3>1 DEF Users, Waits
  <2>5. /\ pc'[q].at = pc[q].at /\ pc'[q].i = pc[q].i /\ pc'[q].next = pc[q].next
        /\ pc'[q].active = pc[q].active
        /\ holder' = holder /\ inode' = inode /\ xlock' = xlock /\ use' = use
    BY <2>1, <1>1, <1>4
  <2>. QED  BY <2>1, <2>2, <2>5 DEF Place, At, Refers, Waits, Cleans
<1>. QED  BY <1>1, <1>5, <1>6, <1>7, <1>8, <1>9, StaysHere

(* Who lets go of the lock refers to the vnode still. *)
LEMMA UnlockInv ==
  ASSUME Inv, NEW p \in Proc, Unlock(p), NEW v, v = pc[p].v
  PROVE  Inv'
<1> DEFINE to == Doing("ref", v, pc[p].i)
<1>1. /\ pc[p].at = "have"
      /\ holder' = [holder EXCEPT ![v] = IF @ = p THEN None ELSE @]
      /\ pc' = [pc EXCEPT ![p] = to]
      /\ UNCHANGED <<born, use, xlock, free, inode, cached>>
  BY DEF Unlock, At, Released
<1>2. /\ v \in Vnode /\ p \in Users(v) /\ Local(v) /\ Place(p, v)
      /\ pc[p] \in Job /\ JobOK(pc[p])
  BY <1>1, AtVnode
<1>3. /\ to.v = v /\ to.i = pc[p].i /\ to.next = "idle" /\ to.active = FALSE
      /\ to.byname = FALSE /\ to.at = "ref" /\ to \in Job /\ JobOK(to)
  BY <1>1, <1>2, VnodeAssumption DEF Job, JobOK, Ats, Doing
<1> HIDE DEF to
<1>4. /\ pc' \in [Proc -> Job] /\ \A q \in Proc : JobOK(pc'[q])
      /\ pc'[p] = to /\ \A q \in Proc \ {p} : pc'[q] = pc[q] /\ Same(q)
  BY <1>1, <1>3, NewJob
<1>5. TypeOK' /\ CachedSound'
  BY <1>1, <1>2, <1>4 DEF Inv, TypeOK, CachedSound
<1>6. pc[p].next = "idle" /\ ~pc[p].active
  BY <1>1, <1>2 DEF JobOK
<1>7. Stays(p)
  BY <1>1, <1>2, <1>3, <1>4, <1>6 DEF Stays, Refers, Takes, Cleans, At, Inv, TypeOK
<1>8. holder'[v] = IF holder[v] = p THEN None ELSE holder[v]
  BY <1>1, <1>2 DEF Inv, TypeOK
<1>9. Users(v)' = Users(v) /\ \A r \in Users(v) : Waits(r)' <=> Waits(r)
  BY <1>1, <1>2, <1>3, <1>4 DEF Users, Waits
<1>10. HolderSound(v)'
  BY <1>1, <1>2, <1>4, <1>8, <1>9 DEF Local, HolderSound, Users
<1>11. ASSUME NEW q \in Users(v)
       PROVE  Place(q, v)'
  <2>1. q \in Proc /\ Place(q, v)
    BY <1>2 DEF Local, Users
  <2>2. CASE q = p
    BY <2>1, <2>2, <1>1, <1>2, <1>3, <1>4 DEF Place, At, Refers, Waits, Cleans
  <2>3. CASE q # p
    BY <2>1, <2>3, <1>1, <1>4, <1>8, <1>9 DEF Place, At, Refers, Waits, Cleans
  <2>. QED  BY <2>2, <2>3
<1>. QED  BY <1>1, <1>5, <1>7, <1>10, <1>11, StaysHere

(* vn_lock() with a reference: the three ways it goes. *)
LEMMA RelockInv ==
  ASSUME Inv, NEW p \in Proc, Relock(p), NEW v, v = pc[p].v
  PROVE  Inv'
<1>1. /\ pc[p].at = "ref"
      /\ UNCHANGED <<born, use, xlock, free, inode, cached>>
  BY DEF Relock, At
<1>2. /\ v \in Vnode /\ p \in Users(v) /\ Local(v) /\ Place(p, v)
      /\ pc[p] \in Job /\ JobOK(pc[p])
  BY <1>1, AtVnode
<1>3. PICK to :
        /\ pc' = [pc EXCEPT ![p] = to]
        /\ to.v = v /\ to.i = pc[p].i /\ to \in Job
        /\ \/ /\ xlock[v] /\ to.at = "clean?" /\ to.next = "ref" /\ holder' = holder
           \/ /\ ~xlock[v] /\ inode[v] # None /\ holder[v] # None
              /\ to.at = "relock" /\ to.next = "idle" /\ holder' = holder
           \/ /\ to.at = "have" /\ to.next = "idle" /\ inode[v] = None /\ holder' = holder
           \/ /\ to.at = "have" /\ to.next = "idle" /\ inode[v] # None
              /\ holder[v] = None /\ holder' = [holder EXCEPT ![v] = p]
        /\ to.active = FALSE /\ to.byname = FALSE
  <2> DEFINE a == [Doing("clean?", v, pc[p].i) EXCEPT !.next = "ref"]
             b == [pc[p] EXCEPT !.at = "relock"]
             c == [pc[p] EXCEPT !.at = "have"]
  <2>1. /\ a.v = v /\ a.i = pc[p].i /\ a \in Job /\ a.at = "clean?" /\ a.next = "ref"
        /\ a.active = FALSE /\ a.byname = FALSE
    BY <1>2 DEF Doing, Job, Ats
  <2>2. pc[p].next = "idle" /\ pc[p].active = FALSE /\ pc[p].byname = FALSE
    <3>1. ~pc[p].active /\ ~pc[p].byname /\ pc[p].next = "idle"
      BY <1>1, <1>2 DEF JobOK
    <3>2. pc[p].active \in BOOLEAN /\ pc[p].byname \in BOOLEAN
      BY <1>2 DEF Job
    <3>. QED  BY <3>1, <3>2
  <2>3. /\ b.v = v /\ b.i = pc[p].i /\ b \in Job /\ b.at = "relock" /\ b.next = "idle"
        /\ b.active = FALSE /\ b.byname = FALSE
    BY <1>2, <2>2 DEF Job, Ats
  <2>4. /\ c.v = v /\ c.i = pc[p].i /\ c \in Job /\ c.at = "have" /\ c.next = "idle"
        /\ c.active = FALSE /\ c.byname = FALSE
    BY <1>2, <2>2 DEF Job, Ats
  <2>5. \/ xlock[v] /\ holder' = holder /\ pc' = [pc EXCEPT ![p] = a]
        \/ /\ ~xlock[v] /\ inode[v] # None /\ holder[v] # None
           /\ holder' = holder /\ pc' = [pc EXCEPT ![p] = b]
        \/ /\ inode[v] = None /\ holder' = holder /\ pc' = [pc EXCEPT ![p] = c]
        \/ /\ inode[v] # None /\ holder[v] = None
           /\ holder' = [holder EXCEPT ![v] = p] /\ pc' = [pc EXCEPT ![p] = c]
    BY DEF Relock
  <2> HIDE DEF a, b, c
  <2>. QED  BY <2>1, <2>3, <2>4, <2>5
<1>4. JobOK(to)
  BY <1>1, <1>2, <1>3, VnodeAssumption DEF JobOK
<1>5. /\ pc' \in [Proc -> Job] /\ \A q \in Proc : JobOK(pc'[q])
      /\ pc'[p] = to /\ \A q \in Proc \ {p} : pc'[q] = pc[q] /\ Same(q)
  BY <1>3, <1>4, NewJob
<1>6. TypeOK' /\ CachedSound'
  <2>1. holder' \in [Vnode -> Proc \cup {None}]
    BY <1>1, <1>2, <1>3 DEF Inv, TypeOK
  <2>2. TypeOK'
    BY <1>1, <1>5, <2>1 DEF Inv, TypeOK
  <2>3. CachedSound'
    BY <1>1 DEF Inv, CachedSound
  <2>. QED  BY <2>2, <2>3
<1>7. pc[p].next = "idle" /\ ~pc[p].active
  BY <1>1, <1>2 DEF JobOK
<1>8. Stays(p)
  BY <1>1, <1>2, <1>3, <1>5, <1>7 DEF Stays, Refers, Takes, Cleans, At, Inv, TypeOK
<1>9. Users(v)' = Users(v)
  BY <1>2, <1>3, <1>5 DEF Users
<1>10. HolderSound(v)'
  BY <1>1, <1>2, <1>3, <1>5, <1>9 DEF Local, HolderSound, Users, Inv, TypeOK
<1>11. ASSUME NEW q \in Users(v)
       PROVE  Place(q, v)'
  <2>1. q \in Proc /\ Place(q, v)
    BY <1>2 DEF Local, Users
  <2>2. At(q, "clean")' => q # p /\ xlock[v]
    BY <2>1, <1>2, <1>3, <1>5 DEF Local, CleanedOnce, Cleans, At
  <2>3. At(q, "clean")' => \A r \in Users(v) : ~Waits(r)'
    <3>1. CASE to.at \in {"clean?", "have"}
      BY <3>1, <2>1, <2>2, <1>3, <1>5 DEF Place, At, Waits, Users
    <3>2. CASE ~xlock[v]
      BY <3>2, <2>2
    <3>. QED  BY <3>1, <3>2, <1>3
  <2>4. holder[v] = None \/ holder'[v] = holder[v]
    BY <1>2, <1>3 DEF Inv, TypeOK
  <2>5. CASE q = p
    <3>1. to.at = "have" => holder'[v] = p \/ inode[v] = None
      BY <1>2, <1>3 DEF Inv, TypeOK
    <3>. QED  BY <2>1, <2>3, <2>5, <3>1, <1>1, <1>2, <1>3, <1>5 DEF Place, At, Refers, Waits, Cleans
  <2>6. CASE q # p
    <3>1. /\ pc'[q] = pc[q] /\ use' = use /\ xlock' = xlock /\ inode' = inode
          /\ holder[v] = q => holder'[v] = q
      BY <2>1, <2>4, <2>6, <1>1, <1>5, VnodeAssumption
    <3>. QED  BY <2>1, <2>3, <3>1, <1>9 DEF Place, At, Refers, Waits, Cleans
  <2>. QED  BY <2>5, <2>6
<1>. QED  BY <1>1, <1>6, <1>8, <1>10, <1>11, StaysHere

-----------------------------------------------------------------------------
(* Steps that count.                                                       *)

(* An inode that can be found and is not being cleaned is nobody's to fill.*)
LEMMA NoTaker ==
  ASSUME Inv, NEW v \in Vnode, inode[v] # None, ~xlock[v]
  PROVE  \A q \in Users(v) : ~Takes(q) /\ ~Cleans(q)
<1>1. Local(v)
  BY DEF Inv
<1>2. ASSUME NEW q \in Users(v)
      PROVE  ~Takes(q) /\ ~Cleans(q)
  <2>1. q \in Proc /\ Place(q, v) /\ JobOK(pc[q])
    BY <1>1 DEF Local, Users, Inv, TypeOK
  <2>2. ~Cleans(q)
    BY <1>1 DEF Local, CleanedOnce
  <2>3. pc[q].next # "fill"
    BY <2>1, <2>2 DEF JobOK, Place, At, Cleans
  <2>4. ~At(q, "fill")
    BY <2>1 DEF Place
  <2>. QED  BY <2>2, <2>3, <2>4 DEF Takes
<1>. QED  BY <1>2

(* Somebody looks a vnode up. *)
LEMMA VgetInv ==
  ASSUME Inv, NEW p \in Proc, NEW v \in Vnode, NEW do, Vget(p, v, do),
         pc[p].at = "idle", inode[v] # None, inode[v] = do.i,
         do \in Job, JobOK(do), do.at = "lock", do.v = v,
         do.next = "idle", do.active = FALSE
  PROVE  Inv'
<1>1. Local(v) /\ pc[p] \in Job /\ JobOK(pc[p]) /\ pc[p].v = None /\ v # None
  BY VnodeAssumption DEF Inv, TypeOK, JobOK
<1>2. p \notin Users(v) /\ Share(p, v) = 0
  BY <1>1, VnodeAssumption DEF Users, Share
<1>3. UNCHANGED <<born, xlock, inode, cached>>
  BY DEF Vget
<1>4. CASE xlock[v]
  <2> DEFINE to == Doing("clean?", v, None)
  <2>1. pc' = [pc EXCEPT ![p] = to] /\ UNCHANGED <<use, free, holder>>
    BY <1>4 DEF Vget
  <2>2. /\ to.v = v /\ to.at = "clean?" /\ to.next = "idle" /\ to.active = FALSE
        /\ to \in Job /\ JobOK(to)
    BY VnodeAssumption DEF Job, JobOK, Ats, Doing
  <2> HIDE DEF to
  <2>3. /\ pc' \in [Proc -> Job] /\ \A q \in Proc : JobOK(pc'[q])
        /\ pc'[p] = to /\ \A q \in Proc \ {p} : pc'[q] = pc[q] /\ Same(q)
    BY <2>1, <2>2, NewJob
  <2>4. TypeOK' /\ CachedSound'
    BY <1>3, <2>1, <2>3 DEF Inv, TypeOK, CachedSound
  <2>5. Alone(p, v)
    BY <1>1, <1>3, <2>1, <2>2, <2>3 DEF Alone
  <2>6. use'[v] = use[v] + Share(p, v)' - Share(p, v)
    <3>1. Share(p, v)' = 0
      BY <2>2, <2>3 DEF Share, Refers
    <3>. QED  BY <3>1, <1>2, <2>1, Counts
  <2>7. Users(v)' = Users(v) \cup {p}
    BY <2>2, <2>3 DEF Users
  <2>8. ~Takes(p)' /\ ~Cleans(p)' /\ ~Waits(p)' /\ ~Refers(p)'
    BY <2>2, <2>3 DEF Takes, Cleans, Waits, At, Refers
  <2>9. FreeExact(v)' /\ TakenOnce(v)' /\ CleanedOnce(v)' /\ HolderSound(v)'
    <3>1. \A q \in Users(v) : /\ q # p /\ q \in Proc
                              /\ (Takes(q)' <=> Takes(q)) /\ (Cleans(q)' <=> Cleans(q))
      BY <1>2, <2>3 DEF Takes, Cleans, At, Users
    <3>2. FreeExact(v)'
      BY <1>1, <1>3, <2>1, <2>7, <2>8, <3>1 DEF Local, FreeExact
    <3>3. TakenOnce(v)'
      BY <1>1, <1>3, <2>1, <2>7, <2>8, <3>1 DEF Local, TakenOnce
    <3>4. CleanedOnce(v)'
      BY <1>1, <1>3, <2>1, <2>7, <2>8, <3>1 DEF Local, CleanedOnce
    <3>5. HolderSound(v)'
      BY <1>1, <1>3, <2>1, <2>3, <2>7, <3>1 DEF Local, HolderSound
    <3>. QED  BY <3>2, <3>3, <3>4, <3>5
  <2>10. ASSUME NEW q \in Users(v)'
         PROVE  Place(q, v)'
    <3>1. CASE q = p
      BY <3>1, <1>4, <1>3, <2>2, <2>3, <2>8 DEF Place, At
    <3>2. CASE q # p
      <4>1. q \in Users(v) /\ q \in Proc /\ pc'[q] = pc[q] /\ Place(q, v)
        BY <3>2, <1>1, <2>3, <2>7 DEF Local, Users
      <4>. QED  BY <3>2, <4>1, <1>3, <2>1, <2>7, <2>8, <2>3
                DEF Place, At, Refers, Waits, Cleans, Users
    <3>. QED  BY <3>1, <3>2
  <2>11. Unshared(v)'
    BY <1>3, <2>2, <2>3, <2>8, StillUnshared
  <2>. QED  BY <2>4, <2>5, <2>6, <2>9, <2>10, <2>11, AloneHere
<1>5. CASE ~xlock[v]
  <2>1. \A q \in Users(v) : ~Takes(q) /\ ~Cleans(q)
    BY <1>5, NoTaker
  <2>2. /\ use' = [use EXCEPT ![v] = @ + 1]
        /\ free' = RemoveFirst(free, v)
    BY <1>5 DEF Vget
  <2>3. PICK to :
          /\ pc' = [pc EXCEPT ![p] = to] /\ to \in Job /\ JobOK(to)
          /\ to.v = v /\ to.i = do.i /\ to.next = "idle" /\ to.active = FALSE
          /\ \/ to.at = "have" /\ holder[v] = None /\ holder' = [holder EXCEPT ![v] = p]
             \/ to.at = "lock" /\ holder' = holder
    <3>1. CASE holder[v] = None
      <4> DEFINE to == [do EXCEPT !.at = "have", !.fresh = FALSE]
      <4>1. /\ pc' = [pc EXCEPT ![p] = to]
            /\ holder' = [holder EXCEPT ![v] = p]
        BY <1>5, <3>1 DEF Vget
      <4>2. /\ to \in Job /\ to.at = "have" /\ to.v = v /\ to.i = do.i /\ to.next = "idle"
            /\ to.active = FALSE /\ to.byname = do.byname
        BY DEF Job, Ats
      <4> HIDE DEF to
      <4>3. JobOK(to)
        BY <4>2, <1>1 DEF JobOK
      <4>. QED  BY <3>1, <4>1, <4>2, <4>3
    <3>2. CASE holder[v] # None
      BY <1>5, <3>2 DEF Vget
    <3>. QED  BY <3>1, <3>2
  <2>4. /\ pc' \in [Proc -> Job] /\ \A q \in Proc : JobOK(pc'[q])
        /\ pc'[p] = to /\ \A q \in Proc \ {p} : pc'[q] = pc[q] /\ Same(q)
    BY <2>3, NewJob
  <2>5. /\ free' \in Seq(Vnode) /\ IsInjective(free') /\ ToSet(free') = ToSet(free) \ {v}
    BY <2>2, RemoveOne DEF Inv, TypeOK
  <2>6. /\ use' \in [Vnode -> Nat] /\ use'[v] = use[v] + 1 /\ use[v] \in Nat
        /\ \A w \in Vnode \ {v} : use'[w] = use[w] /\ holder'[w] = holder[w]
        /\ holder' \in [Vnode -> Proc \cup {None}]
    <3>1. use' \in [Vnode -> Nat] /\ use'[v] = use[v] + 1 /\ use[v] \in Nat
      BY <2>2 DEF Inv, TypeOK
    <3>2. \A w \in Vnode \ {v} : use'[w] = use[w]
      BY <2>2 DEF Inv, TypeOK
    <3>3. /\ \A w \in Vnode \ {v} : holder'[w] = holder[w]
          /\ holder' \in [Vnode -> Proc \cup {None}]
      BY <2>3 DEF Inv, TypeOK
    <3>. QED  BY <3>1, <3>2, <3>3
  <2>7. TypeOK' /\ CachedSound'
    BY <1>3, <2>4, <2>5, <2>6 DEF Inv, TypeOK, CachedSound
  <2>8. Alone(p, v)
    BY <1>1, <1>3, <2>3, <2>4, <2>5, <2>6 DEF Alone
  <2>9. use'[v] = use[v] + Share(p, v)' - Share(p, v)
    <3>1. Share(p, v)' = 1
      BY <2>3, <2>4 DEF Share, Refers
    <3>. QED  BY <3>1, <1>2, <2>6
  <2>10. Users(v)' = Users(v) \cup {p}
    BY <2>3, <2>4 DEF Users
  <2>11. \A q \in Users(v)' : ~Takes(q)' /\ ~Cleans(q)'
    BY <2>1, <2>3, <2>4, <2>10 DEF Users, Takes, Cleans, At
  <2>12. FreeExact(v)' /\ TakenOnce(v)' /\ CleanedOnce(v)'
    BY <1>1, <1>3, <1>5, <2>5, <2>6, <2>11, <2>10 DEF Local, FreeExact, TakenOnce, CleanedOnce
  <2>13. HolderSound(v)'
    <3>1. CASE to.at = "have"
      BY <3>1, <2>3, <2>4, <2>10, <1>3 DEF HolderSound, Inv, TypeOK
    <3>2. CASE to.at = "lock"
      BY <3>2, <1>1, <1>2, <1>3, <2>3, <2>4, <2>10 DEF Local, HolderSound, Users
    <3>. QED  BY <3>1, <3>2, <2>3
  <2>14. ASSUME NEW q \in Users(v)'
         PROVE  Place(q, v)'
    <3>1. CASE q = p
      <4>1. to.at = "have" => holder'[v] = p
        BY <2>3 DEF Inv, TypeOK
      <4>. QED  BY <3>1, <4>1, <1>3, <2>3, <2>4, <2>11 DEF Place, At, Refers, Waits, Cleans
    <3>2. CASE q # p
      <4>1. q \in Users(v) /\ q \in Proc /\ pc'[q] = pc[q] /\ Place(q, v)
        BY <3>2, <1>1, <2>4, <2>10 DEF Local, Users
      <4>2. ~Cleans(q)' /\ ~Cleans(q)
        BY <4>1, <2>1, <2>11
      <4>3. holder[v] = q => holder'[v] = q
        BY <4>1, <2>3, VnodeAssumption
      <4>. QED  BY <4>1, <4>2, <4>3, <1>3 DEF Place, At, Refers, Waits, Cleans
    <3>. QED  BY <3>1, <3>2
  <2>15. Unshared(v)'
    BY <1>3, <2>3, <2>4, StillUnshared
  <2>. QED  BY <2>7, <2>8, <2>9, <2>12, <2>13, <2>14, <2>15, AloneHere
<1>. QED  BY <1>4, <1>5

(* By the name cache or by the inode hash. *)
LEMMA LookupInv ==
  ASSUME Inv, NEW p \in Proc, NEW i \in Inode, CacheLookup(p, i) \/ HashLookup(p, i)
  PROVE  Inv'
<1>1. pc[p].at = "idle"
  BY DEF CacheLookup, HashLookup, At
<1>2. CASE CacheLookup(p, i)
  <2> DEFINE v == cached[i]
  <2> PICK dir \in BOOLEAN :
             Vget(p, v, [Doing("lock", v, i) EXCEPT !.byname = TRUE, !.fresh = TRUE,
                                                    !.dir = dir])
    BY <1>2 DEF CacheLookup
  <2> DEFINE do == [Doing("lock", v, i) EXCEPT !.byname = TRUE, !.fresh = TRUE, !.dir = dir]
  <2>1. v # None /\ Vget(p, v, do)
    BY <1>2 DEF CacheLookup
  <2>2. v \in Vnode /\ inode[v] = i /\ i # None
    BY <2>1, VnodeAssumption DEF Inv, TypeOK, CachedSound
  <2>3. /\ do \in Job /\ do.at = "lock" /\ do.v = v /\ do.i = i
        /\ do.next = "idle" /\ do.active = FALSE
    BY <2>2 DEF Doing, Job, Ats
  <2> HIDE DEF v, do
  <2>4. JobOK(do)
    BY <2>1, <2>3 DEF JobOK
  <2>. QED  BY <1>1, <2>1, <2>2, <2>3, <2>4, VgetInv
<1>3. CASE HashLookup(p, i)
  <2>1. PICK dir \in BOOLEAN, v \in Vnode :
          inode[v] = i /\ Vget(p, v, [Doing("lock", v, i) EXCEPT !.dir = dir])
    BY <1>3 DEF HashLookup
  <2> DEFINE do == [Doing("lock", v, i) EXCEPT !.dir = dir]
  <2>2. v # None /\ i # None
    BY VnodeAssumption
  <2>3. /\ do \in Job /\ do.at = "lock" /\ do.v = v /\ do.i = i /\ do.byname = FALSE
        /\ do.next = "idle" /\ do.active = FALSE
    BY DEF Doing, Job, Ats
  <2>4. Vget(p, v, do)
    BY <2>1
  <2> HIDE DEF do
  <2>5. JobOK(do)
    BY <2>2, <2>3 DEF JobOK
  <2>. QED  BY <1>1, <2>1, <2>2, <2>3, <2>4, <2>5, VgetInv
<1>. QED  BY <1>2, <1>3

(* The last reference is p's: nobody cleans the vnode. *)
LEMMA LastReference ==
  ASSUME Inv, NEW p \in Proc, NEW v \in Vnode, use[v] = 1, Share(p, v) = 1,
         ~Cleans(p)
  PROVE  ~xlock[v] /\ \A q \in Users(v) : ~Cleans(q) /\ (q # p => ~Refers(q))
<1>1. \A q \in Proc \ {p} : Share(q, v) = 0
  BY Counts
<1>2. ASSUME NEW q \in Users(v)
      PROVE  ~Cleans(q) /\ (q # p => ~Refers(q))
  <2>1. q \in Proc /\ Place(q, v) /\ JobOK(pc[q]) /\ pc[q].v = v
    BY DEF Inv, Local, Users, TypeOK
  <2>2. CASE q # p
    <3>1. ~pc[q].active /\ ~Refers(q)
      BY <2>1, <2>2, <1>1 DEF Share
    <3>. QED  BY <3>1, <2>1 DEF Place
  <2>3. CASE q = p
    BY <2>3
  <2>. QED  BY <2>2, <2>3
<1>3. ~xlock[v]
  BY <1>2 DEF Inv, Local, CleanedOnce
<1>. QED  BY <1>2, <1>3

(* A reference is given up, by vput() or vrele(). *)
LEMMA GiveUp ==
  ASSUME Inv, NEW p \in Proc, NEW v \in Vnode, pc[p].v = v,
         pc[p].at \in {"have", "stale", "ref"},
         NEW to \in Job, JobOK(to), pc' = [pc EXCEPT ![p] = to],
         use' = [use EXCEPT ![v] = @ - 1],
         free' = IF use[v] = 1 THEN Append(free, v) ELSE free,
         UNCHANGED <<born, xlock, inode, cached>>,
         holder' \in [Vnode -> Proc \cup {None}],
         \A w \in Vnode \ {v} : holder'[w] = holder[w],
         to.next = "idle", to.active = FALSE,
         \/ /\ to.v = None /\ to.at = "idle"
            /\ holder'[v] = IF holder[v] = p THEN None ELSE holder[v]
         \/ /\ use[v] = 1 /\ inode[v] # None /\ to.v = v
            /\ \/ to.at = "inactive" /\ holder[v] \in {p, None} /\ holder'[v] = p
               \/ to.at = "rele" /\ holder'[v] = holder[v] /\ holder[v] # p
  PROVE  Inv'
<1>1. /\ p \in Users(v) /\ Local(v) /\ Place(p, v) /\ JobOK(pc[p]) /\ v # None
      /\ pc[p].next = "idle" /\ ~pc[p].active
  BY AtVnode, VnodeAssumption DEF JobOK
<1>2. Share(p, v) = 1 /\ Share(p, v)' = 0
  <2>1. pc'[p] = to
    BY DEF Inv, TypeOK
  <2>2. Share(p, v) = 1
    BY <1>1 DEF Share, Refers
  <2>3. ~Refers(p)' \/ pc'[p].v # v
    BY <2>1, <1>1 DEF Refers
  <2>. QED  BY <2>1, <2>2, <2>3 DEF Share
<1>3. /\ use[v] \in Nat /\ use[v] >= 1
      /\ \A q \in Users(v) : ~Takes(q)
  <2>1. use[v] \in Nat /\ use[v] >= 1
    BY <1>2, Counts
  <2>. QED  BY <2>1, <1>1 DEF Local, TakenOnce
<1>4. /\ pc' \in [Proc -> Job] /\ \A q \in Proc : JobOK(pc'[q])
      /\ pc'[p] = to /\ \A q \in Proc \ {p} : pc'[q] = pc[q] /\ Same(q)
  BY NewJob
<1>5. use' \in [Vnode -> Nat] /\ use'[v] = use[v] - 1 /\ \A w \in Vnode \ {v} : use'[w] = use[w]
  BY <1>3 DEF Inv, TypeOK
<1>6. /\ free' \in Seq(Vnode) /\ IsInjective(free')
      /\ ToSet(free') = IF use[v] = 1 THEN ToSet(free) \cup {v} ELSE ToSet(free)
  <2>1. v \notin ToSet(free)
    BY <1>1, <1>3 DEF Local, FreeExact
  <2>2. free \in Seq(Vnode) /\ IsInjective(free)
    BY DEF Inv, TypeOK
  <2>3. /\ Append(free, v) \in Seq(Vnode)
        /\ IsInjective(Append(free, v))
        /\ ToSet(Append(free, v)) = ToSet(free) \cup {v}
    BY <2>1, <2>2, AddLast
  <2>4. free' = IF use[v] = 1 THEN Append(free, v) ELSE free
    OBVIOUS
  <2>. QED  BY <2>2, <2>3, <2>4
<1>7. TypeOK' /\ CachedSound'
  BY <1>4, <1>5, <1>6 DEF Inv, TypeOK, CachedSound
<1>8. Alone(p, v)
  BY <1>1, <1>4, <1>5, <1>6 DEF Alone
<1>9. use'[v] = use[v] + Share(p, v)' - Share(p, v)
  BY <1>2, <1>3, <1>5
<1>10. use[v] = 1 => \A q \in Users(v) : ~Cleans(q)
  BY <1>2, LastReference DEF Cleans
<1>11. ~Takes(p)' /\ ~Cleans(p)' /\ ~Cleans(p) /\ ~Refers(p)'
  BY <1>1, <1>4 DEF Takes, Cleans, At, Refers
<1>12. /\ \A q \in Users(v)' : q = p \/ (q \in Users(v) /\ pc'[q] = pc[q] /\ q \in Proc)
       /\ \A q \in Users(v) : q \in Proc /\ (q # p => q \in Users(v)' /\ pc'[q] = pc[q])
       /\ p \in Users(v)' => to.v = v
  BY <1>4 DEF Users
<1>13. /\ \A q \in Users(v)' : ~Takes(q)' /\ (Cleans(q)' => Cleans(q) /\ q \in Users(v))
       /\ \A q \in Users(v) : Cleans(q) => q \in Users(v)' /\ Cleans(q)'
  BY <1>3, <1>11, <1>12 DEF Takes, Cleans, At
<1>14. FreeExact(v)'
  <2>1. v \in born
    BY <1>1 DEF Local, FreeExact
  <2>. QED  BY <2>1, <1>1, <1>3, <1>5, <1>6, <1>13 DEF Local, FreeExact
<1>15. TakenOnce(v)' /\ CleanedOnce(v)'
  BY <1>1, <1>13 DEF Local, TakenOnce, CleanedOnce
<1>16. HolderSound(v)'
  <2>1. ASSUME holder'[v] = p
        PROVE  HolderSound(v)'
    <3>1. to.v = v /\ to.at = "inactive" /\ inode[v] # None
      BY <2>1, <1>1, VnodeAssumption DEF Local, HolderSound
    <3>2. p \in Users(v)'
      BY <3>1, <1>4 DEF Users
    <3>3. pc'[holder'[v]].at = "inactive"
      BY <2>1, <3>1, <1>4
    <3>. QED  BY <2>1, <3>1, <3>2, <3>3 DEF HolderSound
  <2>2. ASSUME holder'[v] # p, holder'[v] # None
        PROVE  HolderSound(v)'
    <3>1. holder'[v] = holder[v]
      BY <2>2
    <3>2. /\ holder[v] \in Users(v) /\ inode[v] # None
          /\ pc[holder[v]].at \in {"have", "stale", "read", "inactive", "clean"}
      BY <2>2, <3>1, <1>1 DEF Local, HolderSound
    <3>3. holder[v] \in Users(v)' /\ pc'[holder[v]] = pc[holder[v]]
      BY <2>2, <3>1, <3>2, <1>12
    <3>. QED  BY <3>1, <3>2, <3>3 DEF HolderSound
  <2>3. ASSUME holder'[v] = None
        PROVE  HolderSound(v)'
    BY <2>3 DEF HolderSound
  <2>. QED  BY <2>1, <2>2, <2>3
<1>17. ASSUME NEW q \in Users(v)'
       PROVE  Place(q, v)'
  <2>1. CASE q = p
    <3>1. to.v = v /\ use[v] = 1 /\ inode[v] # None
      BY <2>1, <1>1, <1>12
    <3>. QED  BY <2>1, <3>1, <1>1, <1>4, <1>11 DEF Place, At, Waits
  <2>2. CASE q # p
    <3>1. q \in Users(v) /\ pc'[q] = pc[q] /\ q \in Proc /\ Place(q, v)
      BY <2>2, <1>1, <1>12 DEF Local
    <3>2. Cleans(q) => use[v] # 1 /\ to.v = None
      BY <3>1, <1>1, <1>10
    <3>3. Cleans(q) => \A r \in Users(v)' : r \in Users(v) /\ (Waits(r)' <=> Waits(r))
      BY <3>2, <1>1, <1>12 DEF Waits
    <3>4. Cleans(q) => use[v] # 0
      BY <1>3
    <3>5. holder[v] = q => holder'[v] = q
      BY <2>2, <3>1, VnodeAssumption
    <3>6. At(q, "clean") => \A r \in Users(v)' : ~Waits(r)'
      BY <3>1, <3>3 DEF Place, Cleans, At
    <3>7. /\ At(q, "clean")' = At(q, "clean") /\ Cleans(q)' = Cleans(q)
          /\ Waits(q)' = Waits(q) /\ Refers(q)' = Refers(q)
      BY <3>1 DEF At, Cleans, Waits, Refers
    <3>. QED  BY <3>1, <3>4, <3>5, <3>6, <3>7 DEF Place, At
  <2>. QED  BY <2>1, <2>2
<1>18. Unshared(v)'
  <2>1. to.at # "new"
    BY <1>4
  <2>. QED  BY <2>1, <1>4, <1>11, StillUnshared
<1>. QED  BY <1>7, <1>8, <1>9, <1>14, <1>15, <1>16, <1>17, <1>18, AloneHere

(* vput(). *)
LEMMA VputInv ==
  ASSUME Inv, NEW p \in Proc, Vput(p), NEW v, v = pc[p].v
  PROVE  Inv'
<1>1. /\ pc[p].at \in {"have", "stale"}
      /\ use' = [use EXCEPT ![v] = @ - 1]
      /\ UNCHANGED <<born, xlock, inode, cached>>
  BY DEF Vput, At
<1>2. v \in Vnode /\ Local(v) /\ Place(p, v)
  BY <1>1, AtVnode
<1>3. Idle \in Job /\ JobOK(Idle) /\ Idle.v = None /\ Idle.at = "idle"
      /\ Idle.next = "idle" /\ Idle.active = FALSE
  BY DEF Idle, Doing, Job, JobOK, Ats
<1>4. CASE use[v] = 1
  <2>1. free' = Append(free, v) /\ holder' = holder
    BY <1>4 DEF Vput
  <2>2. CASE inode[v] = None
    <3>1. pc' = [pc EXCEPT ![p] = Idle]
      BY <1>4, <2>2 DEF Vput
    <3>2. holder[v] = None
      BY <1>2, <2>2 DEF Local, HolderSound
    <3>3. holder'[v] = IF holder[v] = p THEN None ELSE holder[v]
      BY <2>1, <3>2
    <3>. QED  BY <1>1, <1>2, <1>3, <1>4, <2>1, <3>1, <3>3, GiveUp DEF Inv, TypeOK
  <2>3. CASE inode[v] # None
    <3> DEFINE to == Doing("inactive", v, None)
    <3>1. pc' = [pc EXCEPT ![p] = to]
      BY <1>4, <2>3 DEF Vput
    <3>2. /\ to \in Job /\ to.v = v /\ to.at = "inactive" /\ to.next = "idle"
          /\ to.active = FALSE /\ JobOK(to)
      BY <1>2, VnodeAssumption DEF Doing, Job, Ats, JobOK
    <3>3. holder[v] = p
      BY <1>1, <1>2, <2>3 DEF Place, At
    <3> HIDE DEF to
    <3>. QED  BY <1>1, <1>2, <1>4, <2>1, <2>3, <3>1, <3>2, <3>3, GiveUp DEF Inv, TypeOK
  <2>. QED  BY <2>2, <2>3
<1>5. CASE use[v] # 1
  <2>1. /\ free' = free /\ pc' = [pc EXCEPT ![p] = Idle]
        /\ holder' = [holder EXCEPT ![v] = IF @ = p THEN None ELSE @]
    BY <1>5 DEF Vput, Released
  <2>2. /\ holder' \in [Vnode -> Proc \cup {None}]
        /\ \A w \in Vnode \ {v} : holder'[w] = holder[w]
        /\ holder'[v] = IF holder[v] = p THEN None ELSE holder[v]
    BY <1>2, <2>1 DEF Inv, TypeOK
  <2>. QED  BY <1>1, <1>2, <1>3, <1>5, <2>1, <2>2, GiveUp
<1>. QED  BY <1>4, <1>5

(* vrele(). *)
LEMMA VreleInv ==
  ASSUME Inv, NEW p \in Proc, Vrele(p), NEW v, v = pc[p].v
  PROVE  Inv'
<1>1. /\ pc[p].at = "ref"
      /\ use' = [use EXCEPT ![v] = @ - 1]
      /\ free' = IF use[v] = 1 THEN Append(free, v) ELSE free
      /\ UNCHANGED <<born, xlock, inode, cached>>
  BY DEF Vrele, At
<1>2. v \in Vnode /\ Local(v) /\ Place(p, v)
  BY <1>1, AtVnode
<1>3. Idle \in Job /\ JobOK(Idle) /\ Idle.v = None /\ Idle.at = "idle"
      /\ Idle.next = "idle" /\ Idle.active = FALSE
  BY DEF Idle, Doing, Job, JobOK, Ats
<1>4. holder[v] # p
  BY <1>1, <1>2, VnodeAssumption DEF Local, HolderSound
<1>5. CASE use[v] # 1 \/ inode[v] = None
  <2>1. pc' = [pc EXCEPT ![p] = Idle] /\ holder' = holder
    BY <1>5 DEF Vrele
  <2>. QED  BY <1>1, <1>2, <1>3, <1>4, <2>1, GiveUp DEF Inv, TypeOK
<1>6. CASE use[v] = 1 /\ inode[v] # None
  <2> DEFINE a == Doing("inactive", v, None)
             b == Doing("rele", v, None)
  <2>1. /\ a \in Job /\ a.v = v /\ a.at = "inactive" /\ a.next = "idle"
        /\ a.active = FALSE /\ JobOK(a)
    BY <1>2, VnodeAssumption DEF Doing, Job, Ats, JobOK
  <2>2. /\ b \in Job /\ b.v = v /\ b.at = "rele" /\ b.next = "idle"
        /\ b.active = FALSE /\ JobOK(b)
    BY <1>2, VnodeAssumption DEF Doing, Job, Ats, JobOK
  <2>3. CASE holder[v] = None
    <3>1. pc' = [pc EXCEPT ![p] = a] /\ holder' = [holder EXCEPT ![v] = p]
      BY <1>6, <2>3 DEF Vrele
    <3>2. /\ holder' \in [Vnode -> Proc \cup {None}]
          /\ \A w \in Vnode \ {v} : holder'[w] = holder[w]
          /\ holder'[v] = p
      BY <1>2, <3>1 DEF Inv, TypeOK
    <3> HIDE DEF a
    <3>. QED  BY <1>1, <1>2, <1>6, <2>1, <2>3, <3>1, <3>2, GiveUp
  <2>4. CASE holder[v] # None
    <3>1. pc' = [pc EXCEPT ![p] = b] /\ holder' = holder
      BY <1>6, <2>4 DEF Vrele
    <3> HIDE DEF b
    <3>. QED  BY <1>1, <1>2, <1>4, <1>6, <2>2, <3>1, GiveUp DEF Inv, TypeOK
  <2>. QED  BY <2>3, <2>4
<1>. QED  BY <1>5, <1>6


-----------------------------------------------------------------------------
(* Steps that begin to clean a vnode.                                      *)

(* What vgonel() makes of p: its job is `to`. *)
Gonel(p, v, i, next, to) ==
  /\ JobOK(to) /\ pc' = [pc EXCEPT ![p] = to]
  /\ to.v = v /\ to.i = i /\ to.next = next /\ ~to.byname
  /\ to.at = IF xlock[v] THEN "clean?" ELSE "drain"
  /\ to.active <=> ~xlock[v] /\ use[v] > 0
  /\ use' \in [Vnode -> Nat]
  /\ use'[v] = use[v] + (IF to.active THEN 1 ELSE 0)
  /\ \A w \in Vnode \ {v} : use'[w] = use[w] /\ xlock'[w] = xlock[w]
  /\ xlock' \in [Vnode -> BOOLEAN] /\ xlock'[v] = TRUE

(* That is what it does. *)
LEMMA Vgoneling ==
  ASSUME Inv, NEW p \in Proc, NEW v \in Vnode, NEW i \in Inode \cup {None},
         NEW next \in {"idle", "fill", "ref"}, next # "idle" => i \in Inode,
         NEW dir \in BOOLEAN, Vgonel(p, v, i, next, dir)
  PROVE  \E to \in Job : Gonel(p, v, i, next, to)
<1>1. v # None /\ use \in [Vnode -> Nat] /\ xlock \in [Vnode -> BOOLEAN]
  BY VnodeAssumption DEF Inv, TypeOK
<1>2. CASE xlock[v]
  <2> DEFINE to == [Doing("clean?", v, i) EXCEPT !.next = next, !.dir = dir]
  <2>1. pc' = [pc EXCEPT ![p] = to] /\ use' = use /\ xlock' = xlock
    BY <1>2 DEF Vgonel
  <2>2. /\ to \in Job /\ to.at = "clean?" /\ to.v = v /\ to.i = i /\ to.next = next
        /\ to.byname = FALSE /\ to.active = FALSE
    BY DEF Doing, Job, Ats
  <2> HIDE DEF to
  <2>3. JobOK(to)
    BY <1>1, <2>2 DEF JobOK
  <2>4. /\ to.active <=> ~xlock[v] /\ use[v] > 0
        /\ use' \in [Vnode -> Nat]
        /\ use'[v] = use[v] + (IF to.active THEN 1 ELSE 0)
        /\ \A w \in Vnode \ {v} : use'[w] = use[w] /\ xlock'[w] = xlock[w]
        /\ xlock' \in [Vnode -> BOOLEAN] /\ xlock'[v] = TRUE
    BY <1>1, <1>2, <2>1, <2>2
  <2>. QED  BY <1>2, <2>1, <2>2, <2>3, <2>4 DEF Gonel
<1>3. CASE ~xlock[v]
  <2> DEFINE act == use[v] > 0
             to == [Doing("drain", v, i) EXCEPT !.next = next, !.dir = dir, !.active = act]
  <2>1. /\ pc' = [pc EXCEPT ![p] = to] /\ xlock' = [xlock EXCEPT ![v] = TRUE]
        /\ use' = [use EXCEPT ![v] = IF @ > 0 THEN @ + 1 ELSE @]
    BY <1>3 DEF Vgonel
  <2>2. act \in BOOLEAN
    OBVIOUS
  <2>3. use' \in [Vnode -> Nat] /\ use'[v] = use[v] + (IF act THEN 1 ELSE 0)
    BY <1>1, <2>1
  <2>4. xlock' \in [Vnode -> BOOLEAN] /\ xlock'[v] = TRUE
        /\ \A w \in Vnode \ {v} : use'[w] = use[w] /\ xlock'[w] = xlock[w]
    BY <1>1, <2>1
  <2>5. act <=> use[v] > 0
    OBVIOUS
  <2> HIDE DEF act
  <2>6. /\ to \in Job /\ to.at = "drain" /\ to.v = v /\ to.i = i /\ to.next = next
        /\ to.byname = FALSE /\ to.active = act
    BY <2>2 DEF Doing, Job, Ats
  <2> HIDE DEF to
  <2>7. JobOK(to)
    BY <1>1, <2>6 DEF JobOK
  <2>. QED  BY <1>3, <2>1, <2>3, <2>4, <2>5, <2>6, <2>7 DEF Gonel
<1>. QED  BY <1>2, <1>3

(* Whatever vgonel() is called for, Inv is kept. *)
LEMMA VgonelInv ==
  ASSUME Inv, NEW p \in Proc, NEW v \in Vnode, NEW i \in Inode \cup {None},
         NEW next \in {"idle", "fill", "ref"}, next # "idle" => i \in Inode,
         NEW dir \in BOOLEAN, Vgonel(p, v, i, next, dir),
         pc[p].at \in {"idle", "ref", "inactive"},
         pc[p].at = "idle" \/ pc[p].v = v,
         next = "ref" <=> pc[p].at = "ref", next = "ref" => i = pc[p].i,
         inode[v] # None \/ xlock[v] \/ \E q \in Users(v) : At(q, "new"),
         free' \in Seq(Vnode), IsInjective(free'),
         ToSet(free') = IF next = "fill" THEN ToSet(free) \ {v} ELSE ToSet(free),
         next = "fill" => v \in ToSet(free),
         holder' = holder \/ holder' = [holder EXCEPT ![v] = None],
         pc[p].at = "inactive" <=> holder' # holder,
         UNCHANGED <<born, inode, cached>>
  PROVE  Inv'
<1> PICK to \in Job : Gonel(p, v, i, next, to)
  BY Vgoneling
<1>0. /\ JobOK(to) /\ pc' = [pc EXCEPT ![p] = to]
      /\ to.v = v /\ to.i = i /\ to.next = next /\ ~to.byname
      /\ to.at = IF xlock[v] THEN "clean?" ELSE "drain"
      /\ to.active <=> ~xlock[v] /\ use[v] > 0
      /\ use' \in [Vnode -> Nat]
      /\ use'[v] = use[v] + (IF to.active THEN 1 ELSE 0)
      /\ \A w \in Vnode \ {v} : use'[w] = use[w] /\ xlock'[w] = xlock[w]
      /\ xlock' \in [Vnode -> BOOLEAN] /\ xlock'[v] = TRUE
  BY DEF Gonel
<1>1. /\ Local(v) /\ v # None /\ pc[p] \in Job /\ JobOK(pc[p])
      /\ pc[p].next = "idle" /\ pc[p].active = FALSE
      /\ pc[p].v = IF pc[p].at = "idle" THEN None ELSE v
      /\ use[v] \in Nat /\ holder \in [Vnode -> Proc \cup {None}]
  BY VnodeAssumption DEF Inv, TypeOK, JobOK, Job
<1>2. /\ pc' \in [Proc -> Job] /\ \A q \in Proc : JobOK(pc'[q])
      /\ pc'[p] = to /\ \A q \in Proc \ {p} : pc'[q] = pc[q] /\ Same(q)
  BY <1>0, NewJob
<1>3. holder' \in [Vnode -> Proc \cup {None}] /\ \A w \in Vnode \ {v} : holder'[w] = holder[w]
  BY <1>0, <1>1
<1>4. TypeOK' /\ CachedSound'
  BY <1>0, <1>2, <1>3 DEF Inv, TypeOK, CachedSound
<1>5. Alone(p, v)
  BY <1>0, <1>1, <1>2, <1>3 DEF Alone
<1>6. use'[v] = use[v] + Share(p, v)' - Share(p, v)
  <2>1. Share(p, v) = IF next = "ref" THEN 1 ELSE 0
    BY <1>1 DEF Share, Refers
  <2>2. Share(p, v)' = (IF next = "ref" THEN 1 ELSE 0) + (IF to.active THEN 1 ELSE 0)
    BY <1>0, <1>2 DEF Share, Refers
  <2>. QED  BY <1>0, <1>1, <2>1, <2>2
<1>7. /\ \A q \in Users(v)' : q \in Proc /\ (q # p => q \in Users(v) /\ pc'[q] = pc[q])
      /\ \A q \in Users(v) : q \in Proc /\ q \in Users(v)' /\ (q # p => pc'[q] = pc[q])
      /\ p \in Users(v)'
  BY <1>0, <1>2 DEF Users
<1>8. ~Takes(p) /\ ~Cleans(p) /\ (Takes(p)' <=> next = "fill") /\ (Cleans(p)' <=> ~xlock[v])
  BY <1>0, <1>1, <1>2 DEF Takes, Cleans, At
<1>9. \A q \in Proc \ {p} : (Takes(q)' <=> Takes(q)) /\ (Cleans(q)' <=> Cleans(q))
                           /\ (Waits(q)' <=> Waits(q)) /\ (Refers(q)' <=> Refers(q))
  BY <1>0, <1>2 DEF Takes, Cleans, Waits, Refers, At
<1>10. next = "fill" => use[v] = 0 /\ \A q \in Users(v) : ~Takes(q)
  BY <1>1 DEF Local, FreeExact
<1>11. use'[v] = 0 <=> use[v] = 0
  BY <1>0, <1>1
<1>12. v \in born
  <2>1. CASE inode[v] # None
    BY <2>1, <1>1 DEF Local, FreeExact
  <2>2. CASE xlock[v]
    BY <2>2, <1>1 DEF Local, FreeExact, CleanedOnce
  <2>3. CASE \E q \in Users(v) : At(q, "new")
    BY <2>3, <1>1 DEF Local, FreeExact
  <2>. QED  BY <2>1, <2>2, <2>3
<1>13. FreeExact(v)'
  <2>1. CASE next = "fill"
    BY <1>0, <2>1, <1>7, <1>8, <1>12 DEF FreeExact
  <2>2. CASE next # "fill"
    <3>1. (\A q \in Users(v)' : ~Takes(q)') <=> \A q \in Users(v) : ~Takes(q)
      BY <2>2, <1>7, <1>8, <1>9
    <3>2. v \in ToSet(free) <=> use[v] = 0 /\ \A q \in Users(v) : ~Takes(q)
      BY <1>1, <1>12 DEF Local, FreeExact
    <3>. QED  BY <2>2, <3>1, <3>2, <1>11, <1>12 DEF FreeExact
  <2>. QED  BY <2>1, <2>2
<1>14. TakenOnce(v)'
  <2>1. \A q \in Users(v)' : Takes(q)' =>
         (q = p /\ next = "fill") \/ (q # p /\ q \in Users(v) /\ Takes(q))
    BY <1>7, <1>8, <1>9
  <2>2. \A q, r \in Users(v) : Takes(q) => use[v] = 0 /\ (Takes(r) => q = r)
    BY <1>1 DEF Local, TakenOnce
  <2>. QED  BY <2>1, <2>2, <1>10, <1>11 DEF TakenOnce
<1>15. CleanedOnce(v)'
  <2>1. \A q \in Users(v)' :
          Cleans(q)' <=> (q = p /\ ~xlock[v]) \/ (q # p /\ q \in Users(v) /\ Cleans(q))
    BY <1>7, <1>8, <1>9
  <2>2. CASE xlock[v]
    <3>1. \E q \in Users(v) : Cleans(q)
      BY <2>2, <1>1 DEF Local, CleanedOnce
    <3>2. \E q \in Users(v)' : Cleans(q)'
      BY <3>1, <2>1, <1>7, <1>8
    <3>3. \A q, r \in Users(v)' : Cleans(q)' /\ Cleans(r)' => q = r
      BY <2>1, <2>2, <1>1 DEF Local, CleanedOnce
    <3>. QED  BY <3>2, <3>3, <1>0 DEF CleanedOnce
  <2>3. CASE ~xlock[v]
    <3>1. \A q \in Users(v) : ~Cleans(q)
      BY <2>3, <1>1 DEF Local, CleanedOnce
    <3>. QED  BY <2>1, <2>3, <3>1, <1>0, <1>7, <1>8 DEF CleanedOnce
  <2>. QED  BY <2>2, <2>3
<1>16. HolderSound(v)'
  <2>1. CASE holder' = holder
    <3>1. holder[v] # None => holder[v] # p
      BY <2>1, <1>1, <1>2 DEF Local, HolderSound, Users
    <3>. QED  BY <2>1, <3>1, <1>1, <1>7 DEF Local, HolderSound
  <2>2. CASE holder' = [holder EXCEPT ![v] = None]
    BY <2>2, <1>1 DEF HolderSound
  <2>. QED  BY <2>1, <2>2
<1>17. ASSUME NEW q \in Users(v)'
       PROVE  Place(q, v)'
  <2>1. CASE q = p
    <3>2. Refers(p)' => inode[v] \in {i, None}
      <4>1. Refers(p)' => next = "ref"
        BY <1>0, <1>2 DEF Refers
      <4>2. next = "ref" => p \in Users(v) /\ Refers(p)
        BY <1>1 DEF Users, Refers
      <4>. QED  BY <4>1, <4>2, <1>1 DEF Local, Place
    <3>3. ~Waits(p)' /\ (Cleans(p)' /\ ~to.active => use'[v] = 0)
      BY <1>0, <1>1, <1>2, <1>8 DEF Waits
    <3>. QED  BY <1>0, <2>1, <3>2, <3>3, <1>2 DEF Place, At
  <2>2. CASE q # p
    <3>1. q \in Users(v) /\ pc'[q] = pc[q] /\ q \in Proc /\ Place(q, v)
      BY <2>2, <1>1, <1>7 DEF Local
    <3>2. holder[v] = q => holder'[v] = q
      <4>1. pc[p].at = "inactive" => holder[v] = p
        BY <1>1 DEF Local, Place, Users
      <4>. QED  BY <2>2, <4>1
    <3>3. Cleans(q) => xlock[v]
      BY <3>1, <1>1 DEF Local, CleanedOnce
    <3>4. At(q, "fill") => xlock'[v] = xlock[v]
      <4>1. ASSUME At(q, "fill"), NEW r \in Users(v), At(r, "new")
            PROVE  FALSE
        <5>1. use[v] = 0
          BY <3>1, <4>1, <1>1 DEF Local, TakenOnce, Takes
        <5>2. r \in Proc /\ Share(r, v) >= 1
          BY <4>1 DEF Users, Share, Refers, At
        <5>. QED  BY <5>1, <5>2, Counts
      <4>. QED  BY <3>1, <4>1 DEF Place, At
    <3>5. At(q, "fill") => ~xlock'[v]
      BY <3>1, <3>4 DEF Place
    <3>6. At(q, "clean") => \A r \in Users(v)' : ~Waits(r)'
      <4>1. ~Waits(p)'
        BY <1>0, <1>2 DEF Waits
      <4>. QED  BY <3>1, <4>1, <1>7, <1>9 DEF Place
    <3>7. Cleans(q) => use'[v] = use[v]
      BY <1>0, <3>3, <1>1
    <3>8. /\ At(q, "clean")' = At(q, "clean") /\ Cleans(q)' = Cleans(q)
          /\ Waits(q)' = Waits(q) /\ Refers(q)' = Refers(q) /\ At(q, "fill")' = At(q, "fill")
      BY <3>1 DEF At, Cleans, Waits, Refers
    <3>. QED  BY <1>0, <3>1, <3>2, <3>5, <3>6, <3>7, <3>8 DEF Place, At
  <2>. QED  BY <2>1, <2>2
<1>18. Unshared(v)'
  <2>1. Refers(p)' => pc[p].v = v /\ Refers(p)
    BY <1>0, <1>1, <1>2 DEF Refers
  <2>2. to.at # "new"
    BY <1>0
  <2>. QED  BY <2>1, <2>2, <1>2, StillUnshared
<1>. QED  BY <1>4, <1>5, <1>6, <1>13, <1>14, <1>15, <1>16, <1>17, <1>18, AloneHere

(* revoke(). *)
LEMMA RevokeInv ==
  ASSUME Inv, NEW p \in Proc, Revoke(p), NEW v, v = pc[p].v
  PROVE  Inv'
<1>1. /\ pc[p].at = "ref" /\ inode[v] # None
      /\ Vgonel(p, v, pc[p].i, "ref", FALSE)
      /\ UNCHANGED <<born, free, inode, holder, cached>>
  BY DEF Revoke, At
<1>2. v \in Vnode /\ pc[p].i \in Inode
  BY <1>1, AtVnode DEF JobOK
<1>. QED  BY <1>1, <1>2, VgonelInv DEF Inv, TypeOK

(* vflush(). *)
LEMMA VflushInv ==
  ASSUME Inv, NEW p \in Proc, Vflush(p)
  PROVE  Inv'
<1>1. PICK v \in Vnode : OnMount(v) /\ Vgonel(p, v, None, "idle", FALSE)
  BY DEF Vflush
<1>2. /\ pc[p].at = "idle"
      /\ UNCHANGED <<born, free, inode, holder, cached>>
  BY DEF Vflush, At
<1>3. inode[v] # None \/ xlock[v] \/ \E q \in Users(v) : At(q, "new")
  <2>1. ASSUME NEW q \in Proc, At(q, "itself"), pc[q].v = v
        PROVE  xlock[v]
    BY <2>1 DEF Inv, Local, CleanedOnce, Cleans, Users, At
  <2>. QED  BY <1>1, <2>1 DEF OnMount, HalfMade, Users
<1>. QED  BY <1>1, <1>2, <1>3, VgonelInv DEF Inv, TypeOK

(* The end of ufs_inactive(). *)
LEMMA InactiveInv ==
  ASSUME Inv, NEW p \in Proc, Inactive(p), NEW v, v = pc[p].v
  PROVE  Inv'
<1>1. /\ pc[p].at = "inactive"
      /\ holder' = [holder EXCEPT ![v] = None]
      /\ UNCHANGED <<born, free, inode, cached>>
  BY DEF Inactive, At
<1>2. /\ v \in Vnode /\ p \in Users(v) /\ Local(v) /\ Place(p, v) /\ v # None
      /\ pc[p] \in Job /\ JobOK(pc[p])
  BY <1>1, AtVnode, VnodeAssumption
<1>3. holder[v] = p /\ inode[v] # None
  BY <1>1, <1>2, VnodeAssumption DEF Place, Local, HolderSound
<1>4. CASE link[v] # "named" /\ use[v] = 0
  <2>1. Vgonel(p, v, None, "idle", FALSE)
    BY <1>4 DEF Inactive
  <2>2. holder' # holder
    BY <1>1, <1>2, <1>3, VnodeAssumption DEF Inv, TypeOK
  <2>. QED  BY <1>1, <1>2, <1>3, <2>1, <2>2, VgonelInv DEF Inv, TypeOK
<1>5. CASE ~(link[v] # "named" /\ use[v] = 0)
  <2>1. pc' = [pc EXCEPT ![p] = Idle] /\ UNCHANGED <<use, xlock>>
    BY <1>5 DEF Inactive
  <2>2. Idle \in Job /\ JobOK(Idle) /\ Idle.v = None /\ Idle.at = "idle"
        /\ Idle.next = "idle" /\ Idle.active = FALSE
    BY DEF Idle, Doing, Job, JobOK, Ats
  <2>3. /\ pc' \in [Proc -> Job] /\ \A q \in Proc : JobOK(pc'[q])
        /\ pc'[p] = Idle /\ \A q \in Proc \ {p} : pc'[q] = pc[q] /\ Same(q)
    BY <2>1, <2>2, NewJob
  <2>4. TypeOK' /\ CachedSound'
    BY <1>1, <2>1, <2>3 DEF Inv, TypeOK, CachedSound
  <2>5. /\ holder'[v] = None /\ \A w \in Vnode \ {v} : holder'[w] = holder[w]
    BY <1>1, <1>2 DEF Inv, TypeOK
  <2>6. Alone(p, v)
    BY <1>1, <1>2, <2>1, <2>2, <2>3, <2>5 DEF Alone
  <2>7. pc[p].next = "idle" /\ ~pc[p].active
    BY <1>1, <1>2 DEF JobOK
  <2>8. use'[v] = use[v] + Share(p, v)' - Share(p, v)
    <3>1. Share(p, v) = 0 /\ Share(p, v)' = 0
      BY <1>1, <1>2, <2>2, <2>3, <2>7 DEF Share, Refers
    <3>. QED  BY <3>1, <2>1, <1>2, Counts
  <2>9. /\ Users(v)' = Users(v) \ {p}
        /\ \A q \in Users(v) \ {p} : q \in Proc /\ pc'[q] = pc[q]
    BY <1>2, <2>2, <2>3 DEF Users
  <2>10. ~Takes(p) /\ ~Cleans(p)
    BY <1>1, <2>7 DEF Takes, Cleans, At
  <2>11. \A q \in Users(v) \ {p} : (Takes(q)' <=> Takes(q)) /\ (Cleans(q)' <=> Cleans(q))
                                /\ (Waits(q)' <=> Waits(q))
    BY <2>9 DEF Takes, Cleans, Waits, At
  <2>12. FreeExact(v)' /\ TakenOnce(v)' /\ CleanedOnce(v)' /\ HolderSound(v)'
    <3>1. FreeExact(v)'
      BY <1>1, <1>2, <2>1, <2>9, <2>10, <2>11 DEF Local, FreeExact
    <3>2. TakenOnce(v)'
      BY <1>1, <1>2, <2>1, <2>9, <2>10, <2>11 DEF Local, TakenOnce
    <3>3. CleanedOnce(v)'
      BY <1>1, <1>2, <2>1, <2>9, <2>10, <2>11 DEF Local, CleanedOnce
    <3>4. HolderSound(v)'
      BY <2>5 DEF HolderSound
    <3>. QED  BY <3>1, <3>2, <3>3, <3>4
  <2>13. ASSUME NEW q \in Users(v)'
         PROVE  Place(q, v)'
    <3>1. q \in Users(v) /\ q # p /\ pc'[q] = pc[q] /\ Place(q, v)
      BY <2>9, <1>2 DEF Local
    <3>2. holder[v] # q
      BY <3>1, <1>3
    <3>3. \A r \in Users(v)' : Waits(r)' => r \in Users(v) /\ Waits(r)
      BY <2>9, <2>11
    <3>. QED  BY <3>1, <3>2, <3>3, <1>1, <2>1 DEF Place, At, Refers, Waits, Cleans
  <2>14. Unshared(v)'
    BY <1>1, <1>2, <2>2, <2>3, StillUnshared
  <2>. QED  BY <1>2, <2>4, <2>6, <2>8, <2>12, <2>13, <2>14, AloneHere
<1>. QED  BY <1>4, <1>5

-----------------------------------------------------------------------------
(* Steps that get a vnode for another inode.                               *)

(* p takes a vnode that is dead, or new. *)
LEMMA TakeInv ==
  ASSUME Inv, NEW p \in Proc, NEW v \in Vnode, pc[p].at \in {"idle", "malloc"},
         NEW to \in Job, JobOK(to), pc' = [pc EXCEPT ![p] = to],
         to.at = "fill", to.v = v, to.next = "idle", to.active = FALSE,
         inode[v] = None, ~xlock[v], use[v] = 0, \A q \in Users(v) : ~Takes(q),
         born' = born \cup {v},
         free' \in Seq(Vnode), IsInjective(free'), ToSet(free') = ToSet(free) \ {v},
         UNCHANGED <<use, xlock, inode, holder, cached>>
  PROVE  Inv'
<1>1. /\ Local(v) /\ v # None /\ pc[p] \in Job /\ JobOK(pc[p])
      /\ pc[p].next = "idle" /\ pc[p].active = FALSE /\ pc[p].v = None
  BY VnodeAssumption DEF Inv, TypeOK, JobOK, Job
<1>4. /\ pc' \in [Proc -> Job] /\ \A q \in Proc : JobOK(pc'[q])
      /\ pc'[p] = to /\ \A q \in Proc \ {p} : pc'[q] = pc[q] /\ Same(q)
  BY NewJob
<1>5. TypeOK' /\ CachedSound'
  BY <1>4 DEF Inv, TypeOK, CachedSound
<1>6. Alone(p, v)
  BY <1>1, <1>4 DEF Alone
<1>7. use'[v] = use[v] + Share(p, v)' - Share(p, v)
  <2>1. Share(p, v) = 0 /\ Share(p, v)' = 0
    BY <1>1, <1>4 DEF Share, Refers
  <2>. QED  BY <2>1
<1>8. /\ p \notin Users(v) /\ Users(v)' = Users(v) \cup {p}
      /\ \A q \in Users(v) : q \in Proc /\ pc'[q] = pc[q]
  BY <1>1, <1>4 DEF Users
<1>9. /\ \A q \in Users(v) : (Takes(q)' <=> Takes(q)) /\ (Cleans(q)' <=> Cleans(q))
                             /\ (Waits(q)' <=> Waits(q))
      /\ Takes(p)' /\ ~Cleans(p)' /\ ~Waits(p)' /\ ~Refers(p)'
  BY <1>4, <1>8 DEF Takes, Cleans, Waits, Refers, At
<1>10. FreeExact(v)'
  BY <1>8, <1>9 DEF FreeExact
<1>11. TakenOnce(v)'
  BY <1>8, <1>9 DEF TakenOnce
<1>12. CleanedOnce(v)'
  BY <1>1, <1>8, <1>9 DEF Local, CleanedOnce
<1>13. HolderSound(v)'
  BY <1>1, <1>8 DEF Local, HolderSound
<1>14. ASSUME NEW q \in Users(v)'
       PROVE  Place(q, v)'
  <2>1. CASE q = p
    BY <2>1, <1>4, <1>9 DEF Place, At, Cleans
  <2>2. CASE q # p
    <3>1. q \in Users(v) /\ pc'[q] = pc[q] /\ Place(q, v)
      BY <2>2, <1>1, <1>8 DEF Local
    <3>. QED  BY <3>1, <1>8, <1>9 DEF Place, At, Refers, Waits, Cleans
  <2>. QED  BY <2>1, <2>2
<1>15. Unshared(v)'
  BY <1>4, <1>9, StillUnshared
<1>. QED  BY <1>5, <1>6, <1>7, <1>10, <1>11, <1>12, <1>13, <1>14, <1>15, AloneHere

(* getnewvnode(), up to where it may sleep. *)
LEMMA GetnewvnodeInv ==
  ASSUME Inv, NEW p \in Proc, NEW i \in Inode, NEW dir \in BOOLEAN, Getnewvnode(p, i, dir)
  PROVE  Inv'
<1>1. pc[p].at = "idle" /\ UNCHANGED <<born, inode, holder, cached>>
  BY DEF Getnewvnode, At
<1>2. pc[p] \in Job /\ JobOK(pc[p]) /\ pc[p].v = None
  BY <1>1 DEF Inv, TypeOK, JobOK
<1>3. CASE /\ pc' = [pc EXCEPT ![p] = [Doing("malloc", None, i) EXCEPT !.dir = dir]]
           /\ UNCHANGED <<use, xlock, free>>
  <2> DEFINE to == [Doing("malloc", None, i) EXCEPT !.dir = dir]
  <2>1. to \in Job /\ JobOK(to) /\ to.v = None
    BY DEF Doing, Job, JobOK, Ats
  <2> HIDE DEF to
  <2>2. /\ pc' \in [Proc -> Job] /\ \A q \in Proc : JobOK(pc'[q])
        /\ pc'[p] = to /\ \A q \in Proc \ {p} : pc'[q] = pc[q] /\ Same(q)
    BY <2>1, <1>3, NewJob DEF to
  <2>3. TypeOK' /\ CachedSound'
    BY <1>1, <1>3, <2>2 DEF Inv, TypeOK, CachedSound
  <2>4. OnlyAt(None)
    BY <1>1, <1>2, <1>3, <2>1, <2>2 DEF OnlyAt
  <2>. QED  BY <2>3, <2>4, VnodeAssumption, Here
<1>4. CASE /\ free # <<>> /\ free' = Tail(free)
           /\ IF inode[Head(free)] = None /\ ~xlock[Head(free)]
              THEN /\ pc' = [pc EXCEPT ![p] = [Doing("fill", Head(free), i) EXCEPT !.dir = dir]]
                   /\ UNCHANGED <<use, xlock>>
              ELSE Vgonel(p, Head(free), i, "fill", dir)
  <2> DEFINE v == Head(free)
  <2>1. /\ free' \in Seq(Vnode) /\ IsInjective(free') /\ v \in ToSet(free)
        /\ ToSet(free') = ToSet(free) \ {v}
    BY <1>4, TakeFirst DEF Inv, TypeOK
  <2>2. v \in Vnode
    BY <1>4 DEF Inv, TypeOK
  <2>3. /\ inode[v] = None /\ ~xlock[v] =>
             /\ pc' = [pc EXCEPT ![p] = [Doing("fill", v, i) EXCEPT !.dir = dir]]
             /\ UNCHANGED <<use, xlock>>
        /\ ~(inode[v] = None /\ ~xlock[v]) => Vgonel(p, v, i, "fill", dir)
    BY <1>4
  <2> HIDE DEF v
  <2>4. v \in born /\ use[v] = 0 /\ \A q \in Users(v) : ~Takes(q)
    BY <2>1, <2>2 DEF Inv, Local, FreeExact
  <2>5. CASE inode[v] = None /\ ~xlock[v]
    <3> DEFINE to == [Doing("fill", v, i) EXCEPT !.dir = dir]
    <3>1. born' = born \cup {v}
      BY <1>1, <2>4
    <3>2. /\ to \in Job /\ to.at = "fill" /\ to.v = v /\ to.i = i /\ to.byname = FALSE
          /\ to.next = "idle" /\ to.active = FALSE
      BY <2>2 DEF Doing, Job, Ats
    <3>3. pc' = [pc EXCEPT ![p] = to] /\ UNCHANGED <<use, xlock>>
      BY <2>3, <2>5
    <3> HIDE DEF to
    <3>4. JobOK(to)
      BY <2>2, <3>2, VnodeAssumption DEF JobOK
    <3>. QED  BY <1>1, <2>1, <2>2, <2>4, <2>5, <3>1, <3>2, <3>3, <3>4, TakeInv
  <2>6. CASE ~(inode[v] = None /\ ~xlock[v])
    <3>1. Vgonel(p, v, i, "fill", dir) /\ (inode[v] # None \/ xlock[v])
      BY <2>3, <2>6
    <3>. QED  BY <1>1, <2>1, <2>2, <3>1, VgonelInv
  <2>. QED  BY <2>5, <2>6
<1>. QED  BY <1>3, <1>4 DEF Getnewvnode

(* A vnode that was never there before. *)
LEMMA MallocedInv ==
  ASSUME Inv, NEW p \in Proc, Malloced(p)
  PROVE  Inv'
<1> PICK v \in Vnode \ born : /\ born' = born \cup {v}
                              /\ pc' = [pc EXCEPT ![p].at = "fill", ![p].v = v]
  BY DEF Malloced
<1> DEFINE to == [pc[p] EXCEPT !.at = "fill", !.v = v]
<1>1. pc[p].at = "malloc" /\ UNCHANGED <<use, xlock, free, inode, holder, cached>>
  BY DEF Malloced, At
<1>2. /\ pc[p] \in Job /\ JobOK(pc[p]) /\ pc[p].next = "idle" /\ pc[p].active = FALSE
      /\ pc' = [pc EXCEPT ![p] = to] /\ v \in Vnode /\ v # None
  BY <1>1, VnodeAssumption DEF Inv, TypeOK, JobOK, Job
<1>7. /\ to \in Job /\ to.at = "fill" /\ to.v = v /\ to.i = pc[p].i
      /\ to.byname = pc[p].byname /\ to.next = "idle" /\ to.active = FALSE
  BY <1>2 DEF Job, Ats
<1> HIDE DEF to
<1>8. JobOK(to)
  BY <1>1, <1>2, <1>7 DEF JobOK
<1>3. Local(v) /\ Users(v) = {} /\ inode[v] = None /\ v \notin ToSet(free)
  BY DEF Inv, Local, FreeExact
<1>4. ~xlock[v]
  BY <1>3 DEF Local, CleanedOnce
<1>5. use[v] = 0
  <2>1. Refer(v) = {} /\ Active(v) = {}
    BY <1>3 DEF Refer, Active, Users
  <2>. QED  BY <2>1, <1>3, NoneCounted DEF Local
<1>6. ToSet(free') = ToSet(free) \ {v} /\ free' \in Seq(Vnode) /\ IsInjective(free')
  BY <1>1, <1>3 DEF Inv, TypeOK
<1>. QED  BY <1>1, <1>2, <1>3, <1>4, <1>5, <1>6, <1>7, <1>8, TakeInv

(* Nobody has to do with a vnode that was taken but he who took it. *)
LEMMA TakenAlone ==
  ASSUME Inv, NEW p \in Proc, pc[p].at = "fill", NEW v, v = pc[p].v
  PROVE  Users(v) = {p} /\ holder[v] = None /\ ~xlock[v] /\ use[v] = 0 /\ v \notin ToSet(free)
<1>1. /\ v \in Vnode /\ p \in Users(v) /\ Local(v) /\ Place(p, v) /\ v # None
      /\ pc[p].next = "idle" /\ ~pc[p].active /\ Takes(p)
  BY AtVnode, VnodeAssumption DEF JobOK, Takes, At
<1>2. inode[v] = None /\ ~xlock[v] /\ use[v] = 0 /\ holder[v] = None /\ v \notin ToSet(free)
  <2>1. inode[v] = None /\ ~xlock[v]
    BY <1>1 DEF Place, At
  <2>2. use[v] = 0 /\ v \notin ToSet(free)
    BY <1>1 DEF Local, TakenOnce, FreeExact
  <2>. QED  BY <2>1, <2>2, <1>1 DEF Local, HolderSound
<1>3. Share(p, v) = 0
  BY <1>1 DEF Share, Refers
<1>4. \A q \in Proc \ {p} : Share(q, v) = 0
  BY <1>1, <1>2, <1>3, Counts
<1>5. ASSUME NEW q \in Users(v)
      PROVE  q = p
  <2>1. q \in Proc /\ pc[q].v = v /\ Place(q, v) /\ pc[q] \in Job /\ JobOK(pc[q])
    BY <1>1 DEF Users, Local, Inv, TypeOK
  <2>2. pc[q].at \notin {"idle", "malloc"} /\ pc[q].at \in Ats
    BY <2>1, <1>1 DEF JobOK, Job
  <2>3. q # p => ~Refers(q)
    BY <2>1, <1>4 DEF Share
  <2>4. ~Waits(q) /\ pc[q].at # "clean?"
    BY <2>1, <1>2 DEF Place, At
  <2>5. pc[q].at \notin {"drain", "clean", "itself"}
    BY <1>1, <1>2 DEF Local, CleanedOnce, Cleans
  <2>6. pc[q].at \notin {"inactive", "read", "stale"}
    BY <2>1, <1>2, VnodeAssumption DEF Place
  <2>7. pc[q].at = "fill" => q = p
    BY <1>1 DEF Local, TakenOnce, Takes, At
  <2>. QED  BY <2>2, <2>3, <2>4, <2>5, <2>6, <2>7 DEF Ats, Refers, Waits
<1>. QED  BY <1>1, <1>2, <1>5

(* getnewvnode() is through. *)
LEMMA FillInv ==
  ASSUME Inv, NEW p \in Proc, Fill(p), NEW v, v = pc[p].v
  PROVE  Inv'
<1> DEFINE to == [[pc[p] EXCEPT !.at = "new"] EXCEPT !.fresh = FALSE]
<1>1. /\ pc[p].at = "fill"
      /\ use' = [use EXCEPT ![v] = 1]
      /\ cached' = [i \in Inode |-> IF cached[i] = v THEN None ELSE cached[i]]
      /\ pc' = Outdated(v, [pc EXCEPT ![p].at = "new"])
      /\ UNCHANGED <<born, xlock, free, inode, holder>>
  BY DEF Fill, At, Purged
<1>2. /\ v \in Vnode /\ p \in Users(v) /\ Local(v) /\ Place(p, v) /\ v # None
      /\ pc[p] \in Job /\ JobOK(pc[p]) /\ pc \in [Proc -> Job]
  BY <1>1, AtVnode, VnodeAssumption DEF Inv, TypeOK
<1>3. Users(v) = {p} /\ holder[v] = None /\ ~xlock[v] /\ use[v] = 0 /\ v \notin ToSet(free)
  BY <1>1, TakenAlone
<1>4. /\ to \in Job /\ to.at = "new" /\ to.v = v /\ to.i = pc[p].i
      /\ to.byname = pc[p].byname /\ to.next = pc[p].next /\ to.active = pc[p].active
  BY <1>2 DEF Job, Ats
<1>5. pc[p].byname = FALSE /\ pc[p].next = "idle" /\ pc[p].active = FALSE /\ pc[p].i \in Inode
  BY <1>1, <1>2 DEF JobOK, Job
<1>6. pc' = [pc EXCEPT ![p] = to]
  <2>1. \A q \in Proc : pc[q].v = v => q = p
    BY <1>3 DEF Users
  <2>2. pc' = [q \in Proc |-> IF q = p THEN to ELSE pc[q]]
    <3>1. \A q \in Proc \ {p} : [pc EXCEPT ![p].at = "new"][q] = pc[q]
      BY <1>2
    <3>2. [pc EXCEPT ![p].at = "new"][p] = [pc[p] EXCEPT !.at = "new"]
      BY <1>2
    <3>3. [pc[p] EXCEPT !.at = "new"].v = v
      BY <1>2 DEF Job
    <3> DEFINE ps == [pc EXCEPT ![p].at = "new"]
    <3>4. pc' = Outdated(v, ps)
      BY <1>1
    <3>5. /\ ps[p] = [pc[p] EXCEPT !.at = "new"] /\ ps[p].v = v
          /\ \A q \in Proc \ {p} : ps[q] = pc[q] /\ ps[q].v # v
      BY <2>1, <3>1, <3>2, <3>3
    <3> HIDE DEF ps
    <3>6. pc' = [q \in Proc |-> IF ps[q].v = v THEN [ps[q] EXCEPT !.fresh = FALSE] ELSE ps[q]]
      BY <3>4 DEF Outdated
    <3>7. \A q \in Proc : (IF ps[q].v = v THEN [ps[q] EXCEPT !.fresh = FALSE] ELSE ps[q])
                          = IF q = p THEN to ELSE pc[q]
      BY <3>5
    <3>. QED  BY <3>6, <3>7
  <2>. QED  BY <2>2, <1>2
<1> HIDE DEF to
<1>7. JobOK(to)
  BY <1>2, <1>4, <1>5 DEF JobOK
<1>8. /\ pc' \in [Proc -> Job] /\ \A q \in Proc : JobOK(pc'[q])
      /\ pc'[p] = to /\ \A q \in Proc \ {p} : pc'[q] = pc[q] /\ Same(q)
  BY <1>4, <1>6, <1>7, NewJob
<1>9. use'[v] = 1 /\ \A w \in Vnode \ {v} : use'[w] = use[w]
  BY <1>1, <1>2 DEF Inv, TypeOK
<1>10. TypeOK'
  BY <1>1, <1>2, <1>5, <1>8 DEF Inv, TypeOK
<1>11. CachedSound'
  BY <1>1 DEF Inv, TypeOK, CachedSound
<1>12. Alone(p, v)
  BY <1>1, <1>2, <1>4, <1>8, <1>9 DEF Alone
<1>13. use'[v] = use[v] + Share(p, v)' - Share(p, v)
  <2>1. Share(p, v) = 0 /\ Share(p, v)' = 1
    BY <1>1, <1>4, <1>5, <1>8 DEF Share, Refers
  <2>. QED  BY <2>1, <1>3, <1>9
<1>14. Users(v)' = {p} /\ ~Takes(p)' /\ ~Cleans(p)' /\ ~Waits(p)'
  <2>1. Users(v)' = {p}
    BY <1>3, <1>4, <1>8 DEF Users
  <2>. QED  BY <2>1, <1>4, <1>5, <1>8 DEF Takes, Cleans, Waits, At
<1>15. FreeExact(v)'
  BY <1>1, <1>2, <1>3, <1>9 DEF Local, FreeExact
<1>16. TakenOnce(v)' /\ CleanedOnce(v)'
  BY <1>1, <1>3, <1>14 DEF TakenOnce, CleanedOnce
<1>17. HolderSound(v)'
  BY <1>1, <1>3 DEF HolderSound
<1>18. ASSUME NEW q \in Users(v)'
       PROVE  Place(q, v)'
  <2>1. inode[v] = None
    BY <1>1, <1>2 DEF Place, At
  <2>. QED  BY <2>1, <1>1, <1>4, <1>5, <1>8, <1>9, <1>14 DEF Place, At, Refers
<1>19. Unshared(v)'
  <2>1. inode[v] = None
    BY <1>1, <1>2 DEF Place, At
  <2>. QED  BY <2>1, <1>1, <1>14 DEF Unshared
<1>. QED  BY <1>2, <1>10, <1>11, <1>12, <1>13, <1>15, <1>16, <1>17, <1>18, <1>19, AloneHere

(* The vnode gets its inode, with its lock. *)
LEMMA IhashinsInv ==
  ASSUME Inv, NEW p \in Proc, Ihashins(p), NEW v, v = pc[p].v
  PROVE  Inv'
<1> DEFINE to == [pc[p] EXCEPT !.at = "read"]
<1>1. /\ pc[p].at = "new"
      /\ inode' = [inode EXCEPT ![v] = pc[p].i]
      /\ holder' = [holder EXCEPT ![v] = p]
      /\ pc' = [pc EXCEPT ![p] = to]
      /\ UNCHANGED <<born, use, xlock, free, cached>>
  BY DEF Ihashins, At
<1>2. /\ v \in Vnode /\ p \in Users(v) /\ Local(v) /\ Place(p, v) /\ v # None
      /\ pc[p] \in Job /\ JobOK(pc[p])
  BY <1>1, AtVnode, VnodeAssumption
<1>3. /\ inode[v] = None /\ holder[v] = None /\ pc[p].i \in Inode /\ pc[p].i # None
      /\ pc[p].next = "idle" /\ pc[p].active = FALSE
      /\ \A q \in Users(v) : Refers(q) => q = p
  BY <1>1, <1>2, VnodeAssumption DEF Unshared, At, Local, HolderSound, JobOK, Job
<1>4. /\ to \in Job /\ to.at = "read" /\ to.v = v /\ to.i = pc[p].i
      /\ to.byname = pc[p].byname /\ to.next = "idle" /\ to.active = FALSE
  BY <1>2, <1>3 DEF Job, Ats
<1> HIDE DEF to
<1>5. JobOK(to)
  BY <1>1, <1>2, <1>3, <1>4 DEF JobOK
<1>6. /\ pc' \in [Proc -> Job] /\ \A q \in Proc : JobOK(pc'[q])
      /\ pc'[p] = to /\ \A q \in Proc \ {p} : pc'[q] = pc[q] /\ Same(q)
  BY <1>1, <1>4, <1>5, NewJob
<1>7. /\ inode'[v] = pc[p].i /\ holder'[v] = p
      /\ \A w \in Vnode \ {v} : inode'[w] = inode[w] /\ holder'[w] = holder[w]
  BY <1>1, <1>2 DEF Inv, TypeOK
<1>8. TypeOK'
  BY <1>1, <1>2, <1>3, <1>6 DEF Inv, TypeOK
<1>9. CachedSound'
  <2>1. \A i \in Inode : cached[i] # None => cached[i] # v /\ cached[i] \in Vnode
    BY <1>3, VnodeAssumption DEF Inv, TypeOK, CachedSound
  <2>. QED  BY <2>1, <1>1, <1>7 DEF Inv, CachedSound
<1>10. Alone(p, v)
  BY <1>1, <1>2, <1>4, <1>6, <1>7 DEF Alone
<1>11. Share(p, v) = 1 /\ Share(p, v)' = 1
  BY <1>1, <1>2, <1>3, <1>4, <1>6 DEF Share, Refers, Users
<1>12. use'[v] = use[v] + Share(p, v)' - Share(p, v) /\ use[v] >= 1
  BY <1>1, <1>2, <1>11, Counts
<1>13. /\ Users(v)' = Users(v)
       /\ \A q \in Users(v) : q \in Proc /\ (q # p => pc'[q] = pc[q])
  BY <1>2, <1>4, <1>6 DEF Users
<1>14. \A q \in Users(v) : (Takes(q)' <=> Takes(q)) /\ (Cleans(q)' <=> Cleans(q))
  BY <1>1, <1>3, <1>4, <1>6, <1>13 DEF Takes, Cleans, At
<1>15. FreeExact(v)' /\ TakenOnce(v)' /\ CleanedOnce(v)'
  <2>1. v \in born
    BY <1>2 DEF Local, FreeExact
  <2>2. FreeExact(v)'
    BY <2>1, <1>1, <1>2, <1>13, <1>14 DEF Local, FreeExact
  <2>3. TakenOnce(v)'
    BY <1>1, <1>2, <1>13, <1>14 DEF Local, TakenOnce
  <2>4. CleanedOnce(v)'
    BY <1>1, <1>2, <1>13, <1>14 DEF Local, CleanedOnce
  <2>. QED  BY <2>2, <2>3, <2>4
<1>16. HolderSound(v)'
  BY <1>2, <1>3, <1>4, <1>6, <1>7, <1>13 DEF HolderSound
<1>17. ASSUME NEW q \in Users(v)
       PROVE  Place(q, v)'
  <2>1. CASE q = p
    BY <2>1, <1>3, <1>4, <1>6, <1>7 DEF Place, At, Refers, Waits, Cleans
  <2>2. CASE q # p
    <3>1. q \in Proc /\ pc'[q] = pc[q] /\ Place(q, v) /\ ~Refers(q) /\ JobOK(pc[q])
      BY <2>2, <1>2, <1>3, <1>13 DEF Local, Inv, TypeOK
    <3>2. ~Refers(q)' /\ ~Takes(q)
      BY <3>1, <1>1, <1>2, <1>12 DEF Refers, Local, TakenOnce
    <3>3. pc[q].at \notin {"have", "read", "stale", "inactive", "clean", "fill"}
      BY <3>1, <3>2, <1>3, VnodeAssumption DEF Place, At, Refers, Takes
    <3>4. pc[q].at # "itself"
      BY <3>1, <1>12 DEF Place, Cleans, JobOK
    <3>. QED  BY <3>1, <3>2, <3>3, <3>4, <1>1, <1>3, <1>7 DEF Place, At, Refers, Waits, Cleans
  <2>. QED  BY <2>1, <2>2
<1>18. Unshared(v)'
  <2>1. ASSUME NEW q \in Users(v)
        PROVE  pc'[q].at # "new"
    <3>1. q # p => ~Refers(q) /\ pc'[q] = pc[q]
      BY <1>3, <1>13
    <3>. QED  BY <3>1, <1>4, <1>6 DEF Refers
  <2>. QED  BY <2>1, <1>13 DEF Unshared, At
<1>. QED  BY <1>2, <1>8, <1>9, <1>10, <1>12, <1>13, <1>15, <1>16, <1>17, <1>18, AloneHere

-----------------------------------------------------------------------------
(* The end of cleaning.                                                    *)

(* cache_purge() touches nothing but the numbers that were noted. *)
LEMMA OutdatedJobs ==
  ASSUME NEW v, NEW ps \in [Proc -> Job], \A q \in Proc : JobOK(ps[q]),
         pc' = Outdated(v, ps)
  PROVE  /\ pc' \in [Proc -> Job] /\ \A q \in Proc : JobOK(pc'[q])
         /\ \A q \in Proc :
              /\ pc'[q].at = ps[q].at /\ pc'[q].v = ps[q].v /\ pc'[q].i = ps[q].i
              /\ pc'[q].next = ps[q].next /\ pc'[q].active = ps[q].active
              /\ pc'[q].byname = ps[q].byname /\ (pc'[q].fresh => ps[q].fresh)
              /\ pc'[q].dir = ps[q].dir /\ (pc'[q].fresh => ps[q].v # v)
<1>1. ASSUME NEW q \in Proc
      PROVE  /\ pc'[q] \in Job /\ JobOK(pc'[q])
             /\ pc'[q].at = ps[q].at /\ pc'[q].v = ps[q].v /\ pc'[q].i = ps[q].i
             /\ pc'[q].next = ps[q].next /\ pc'[q].active = ps[q].active
             /\ pc'[q].byname = ps[q].byname /\ (pc'[q].fresh => ps[q].fresh)
             /\ pc'[q].dir = ps[q].dir /\ (pc'[q].fresh => ps[q].v # v)
  <2> DEFINE do == ps[q]
             to == [do EXCEPT !.fresh = FALSE]
  <2>1. do \in Job /\ JobOK(do)
    OBVIOUS
  <2>2. pc'[q] = to \/ (pc'[q] = do /\ do.v # v)
    BY DEF Outdated
  <2> HIDE DEF do
  <2>3. /\ to \in Job /\ to.at = do.at /\ to.v = do.v /\ to.i = do.i
        /\ to.next = do.next /\ to.active = do.active /\ to.byname = do.byname
        /\ to.fresh = FALSE /\ to.dir = do.dir
    BY <2>1 DEF Job
  <2> HIDE DEF to
  <2>4. JobOK(to)
    BY <2>1, <2>3 DEF JobOK
  <2>. QED  BY <2>1, <2>2, <2>3, <2>4 DEF do
<1>2. pc' \in [Proc -> Job]
  BY <1>1 DEF Outdated
<1>. QED  BY <1>1, <1>2

(* What somebody does whose vnode is clean. *)
LEMMA AfterJob ==
  ASSUME NEW do \in Job, JobOK(do), do.v \in Vnode
  PROVE  LET to == After(do) IN
         /\ to \in Job /\ JobOK(to) /\ to.next = "idle" /\ to.active = FALSE
         /\ to.at = IF do.next = "idle" THEN "idle" ELSE do.next
         /\ to.v = IF do.next = "idle" THEN None ELSE do.v
         /\ do.next # "idle" => to.i = do.i
<1>1. do.v # None /\ do.next \in {"idle", "fill", "ref"} /\ do.i \in Inode \cup {None}
  BY VnodeAssumption DEF Job
<1>2. CASE do.next = "idle"
  <2>1. After(do) = Idle
    BY <1>2 DEF After
  <2>. QED  BY <2>1, <1>2 DEF Idle, Doing, Job, JobOK, Ats
<1>3. CASE do.next = "ref"
  <2> DEFINE to == Doing("ref", do.v, do.i)
  <2>1. After(do) = to
    BY <1>3 DEF After
  <2>2. /\ to \in Job /\ to.at = "ref" /\ to.v = do.v /\ to.i = do.i
        /\ to.byname = FALSE /\ to.next = "idle" /\ to.active = FALSE
    BY <1>1, <1>3 DEF Doing, Job, Ats
  <2> HIDE DEF to
  <2>3. JobOK(to)
    BY <1>1, <1>3, <2>2 DEF JobOK
  <2>. QED  BY <1>3, <2>1, <2>2, <2>3
<1>4. CASE do.next = "fill"
  <2> DEFINE to == [Doing("fill", do.v, do.i) EXCEPT !.dir = do.dir]
  <2>1. After(do) = to
    BY <1>4 DEF After
  <2>2. /\ to \in Job /\ to.at = "fill" /\ to.v = do.v /\ to.i = do.i
        /\ to.byname = FALSE /\ to.next = "idle" /\ to.active = FALSE
    BY <1>1, <1>4 DEF Doing, Job, Ats
  <2> HIDE DEF to
  <2>3. JobOK(to)
    BY <1>1, <1>4, <2>2 DEF JobOK
  <2>. QED  BY <1>4, <2>1, <2>2, <2>3
<1>. QED  BY <1>1, <1>2, <1>3, <1>4

(* When the vnode is clean the others only refer to it, or wait. *)
LEMMA CleanerAlone ==
  ASSUME Inv, NEW p \in Proc, pc[p].at = "clean", NEW v, v = pc[p].v
  PROVE  /\ holder[v] = p /\ inode[v] # None /\ xlock[v]
         /\ \A q \in Users(v) \ {p} : pc[q].at \in {"ref", "clean?"} /\ ~pc[q].active
         /\ IF pc[p].active THEN use[v] >= 1 ELSE use[v] = 0
<1>1. v \in Vnode /\ p \in Users(v) /\ Local(v) /\ Place(p, v) /\ v # None
  BY AtVnode, VnodeAssumption
<1>2. holder[v] = p /\ inode[v] # None /\ xlock[v] /\ Cleans(p)
  BY <1>1 DEF Place, Local, CleanedOnce, Cleans, At
<1>3. ASSUME NEW q \in Users(v) \ {p}
      PROVE  pc[q].at \in {"ref", "clean?"} /\ ~pc[q].active
  <2>1. q \in Proc /\ pc[q].v = v /\ Place(q, v) /\ pc[q] \in Job /\ JobOK(pc[q]) /\ q # p
    BY <1>1 DEF Users, Local, Inv, TypeOK
  <2>2. pc[q].at \notin {"idle", "malloc"} /\ pc[q].at \in Ats
    BY <2>1, <1>1 DEF JobOK, Job
  <2>3. ~Cleans(q)
    BY <1>1, <1>2, <2>1 DEF Local, CleanedOnce
  <2>4. ~Waits(q)
    BY <1>1, <2>1 DEF Place, At
  <2>5. pc[q].at \notin {"inactive", "read", "stale", "have", "fill"}
    BY <2>1, <1>2 DEF Place, At
  <2>6. pc[q].at # "new"
    BY <2>1, <1>1, <1>2 DEF Local, Unshared, Users, At
  <2>. QED  BY <2>1, <2>2, <2>3, <2>4, <2>5, <2>6 DEF Ats, Cleans, Waits, JobOK
<1>4. IF pc[p].active THEN use[v] >= 1 ELSE use[v] = 0
  <2>1. use[v] \in Nat /\ use[v] >= Share(p, v) /\ Share(p, v) \in Nat
    BY <1>1, Counts
  <2>2. pc[p].active => Share(p, v) >= 1
    BY <2>1 DEF Share
  <2>. QED  BY <1>1, <1>2, <2>1, <2>2 DEF Place
<1>. QED  BY <1>2, <1>3, <1>4

(* vclean() and vgonel() are over. *)
LEMMA CleanedInv ==
  ASSUME Inv, NEW p \in Proc, Cleaned(p), NEW v, v = pc[p].v
  PROVE  Inv'
<1> DEFINE last == pc[p].active /\ use[v] = 1
<1>1. /\ pc[p].at = "clean"
      /\ holder' = [holder EXCEPT ![v] = None] /\ inode' = [inode EXCEPT ![v] = None]
      /\ cached' = [i \in Inode |-> IF cached[i] = v THEN None ELSE cached[i]]
      /\ born' = born
      /\ use' = IF pc[p].active THEN [use EXCEPT ![v] = @ - 1] ELSE use
      /\ last => /\ pc' = Outdated(v, [pc EXCEPT ![p] = Doing("itself", v, None)])
                 /\ free' = Append(free, v) /\ xlock' = xlock
      /\ ~last => /\ xlock' = [xlock EXCEPT ![v] = FALSE]
                  /\ pc' = Outdated(v, [q \in Proc |-> IF q \in Woken(p, v) THEN After(pc[q])
                                                       ELSE pc[q]])
                  /\ free' = ToHead(v)
  BY DEF Cleaned, At, Purged
<1>2. /\ v \in Vnode /\ p \in Users(v) /\ Local(v) /\ Place(p, v) /\ v # None
      /\ \A q \in Proc : pc[q] \in Job /\ JobOK(pc[q])
      /\ pc \in [Proc -> Job]
  <2>1. v \in Vnode /\ p \in Users(v) /\ Local(v) /\ Place(p, v)
    BY <1>1, AtVnode
  <2>2. pc \in [Proc -> Job] /\ \A q \in Proc : JobOK(pc[q])
    BY DEF Inv, TypeOK
  <2>. QED  BY <2>1, <2>2, VnodeAssumption
<1>3. /\ holder[v] = p /\ inode[v] # None /\ xlock[v]
      /\ \A q \in Users(v) \ {p} : pc[q].at \in {"ref", "clean?"} /\ ~pc[q].active
      /\ IF pc[p].active THEN use[v] >= 1 ELSE use[v] = 0
  BY <1>1, CleanerAlone
<1>4. /\ \A q \in Proc : pc[q].v # v => Same(q)
      /\ last => /\ pc'[p].at = "itself" /\ pc'[p].v = v
                 /\ pc'[p].next = "idle" /\ ~pc'[p].active
                 /\ \A q \in Users(v) \ {p} : Same(q)
      /\ ~last => \A q \in Users(v) :
           IF q = p \/ pc[q].at = "clean?"
           THEN /\ pc'[q].at = pc[q].next /\ pc'[q].next = "idle" /\ ~pc'[q].active
                /\ pc'[q].v = IF pc[q].next = "idle" THEN None ELSE v
           ELSE Same(q)
      /\ pc' \in [Proc -> Job] /\ \A q \in Proc : JobOK(pc'[q])
  <2>1. CASE last
    <3> DEFINE to == Doing("itself", v, None)
               ps == [pc EXCEPT ![p] = to]
    <3>1. to \in Job /\ JobOK(to) /\ to.at = "itself" /\ to.v = v /\ to.next = "idle" /\ ~to.active
      BY <1>2 DEF Doing, Job, JobOK, Ats
    <3> HIDE DEF to
    <3>2. ps \in [Proc -> Job] /\ ps[p] = to /\ \A q \in Proc \ {p} : ps[q] = pc[q]
      BY <1>2, <3>1
    <3>3. \A q \in Proc : JobOK(ps[q])
      BY <1>2, <3>1, <3>2
    <3>4. pc' = Outdated(v, ps)
      BY <2>1, <1>1 DEF to
    <3> HIDE DEF ps
    <3>5. /\ pc' \in [Proc -> Job] /\ \A q \in Proc : JobOK(pc'[q])
          /\ \A q \in Proc :
               /\ pc'[q].at = ps[q].at /\ pc'[q].v = ps[q].v /\ pc'[q].i = ps[q].i
               /\ pc'[q].next = ps[q].next /\ pc'[q].active = ps[q].active
               /\ pc'[q].byname = ps[q].byname /\ (pc'[q].fresh => ps[q].fresh)
               /\ pc'[q].dir = ps[q].dir /\ (pc'[q].fresh => ps[q].v # v)
      BY <3>2, <3>3, <3>4, OutdatedJobs
    <3>6. \A q \in Proc \ {p} : Same(q)
      BY <3>2, <3>5 DEF Same
    <3>7. \A q \in Users(v) : q \in Proc
      BY DEF Users
    <3> HIDE DEF last
    <3>. QED  BY <2>1, <1>2, <3>1, <3>2, <3>5, <3>6, <3>7
  <2>2. CASE ~last
    <3> DEFINE ps == [q \in Proc |-> IF q \in Woken(p, v) THEN After(pc[q]) ELSE pc[q]]
    <3>1. \A q \in Proc : q \in Woken(p, v) <=> q = p \/ (pc[q].at = "clean?" /\ pc[q].v = v)
      BY DEF Woken, At
    <3>2. ASSUME NEW q \in Proc
          PROVE  /\ ps[q] \in Job /\ JobOK(ps[q])
                 /\ q \in Woken(p, v) =>
                      /\ ps[q].next = "idle" /\ ps[q].active = FALSE
                      /\ ps[q].at = pc[q].next
                      /\ ps[q].v = IF pc[q].next = "idle" THEN None ELSE v
                 /\ q \notin Woken(p, v) => ps[q] = pc[q]
      <4>1. CASE q \in Woken(p, v)
        <5>1. pc[q].v = v /\ pc[q] \in Job /\ JobOK(pc[q]) /\ ps[q] = After(pc[q])
          BY <4>1, <3>1, <1>2
        <5>. QED  BY <4>1, <5>1, <1>2, AfterJob
      <4>2. CASE q \notin Woken(p, v)
        BY <4>2, <1>2
      <4>. QED  BY <4>1, <4>2
    <3>3. pc' = Outdated(v, ps)
      BY <2>2, <1>1
    <3>4. ps \in [Proc -> Job]
      BY <3>2
    <3>10. \A q \in Proc : JobOK(ps[q])
      BY <3>2
    <3> HIDE DEF ps
    <3>5. /\ pc' \in [Proc -> Job] /\ \A q \in Proc : JobOK(pc'[q])
          /\ \A q \in Proc :
               /\ pc'[q].at = ps[q].at /\ pc'[q].v = ps[q].v /\ pc'[q].i = ps[q].i
               /\ pc'[q].next = ps[q].next /\ pc'[q].active = ps[q].active
               /\ pc'[q].byname = ps[q].byname /\ (pc'[q].fresh => ps[q].fresh)
               /\ pc'[q].dir = ps[q].dir /\ (pc'[q].fresh => ps[q].v # v)
      BY <3>3, <3>4, <3>10, OutdatedJobs
    <3>6. ASSUME NEW q \in Proc, q \notin Woken(p, v)
          PROVE  Same(q)
      <4>1. ps[q] = pc[q]
        BY <3>2, <3>6
      <4>. QED  BY <3>5, <4>1 DEF Same
    <3>7. \A q \in Users(v) : q \in Proc /\ pc[q].v = v
      BY DEF Users
    <3> HIDE DEF last
    <3>8. ASSUME NEW q \in Users(v), q \in Woken(p, v)
          PROVE  /\ pc'[q].at = pc[q].next /\ pc'[q].next = "idle" /\ ~pc'[q].active
                 /\ pc'[q].v = IF pc[q].next = "idle" THEN None ELSE v
      <4>1. q \in Proc
        BY <3>7
      <4>2. /\ ps[q].next = "idle" /\ ps[q].active = FALSE
            /\ ps[q].at = pc[q].next
            /\ ps[q].v = IF pc[q].next = "idle" THEN None ELSE v
        BY <3>2, <3>8, <4>1
      <4>3. /\ pc'[q].at = ps[q].at /\ pc'[q].v = ps[q].v
            /\ pc'[q].next = ps[q].next /\ pc'[q].active = ps[q].active
        BY <3>5, <4>1
      <4>. QED  BY <4>2, <4>3
    <3>9. \A q \in Proc : pc[q].v # v => Same(q)
      BY <3>1, <3>6, <1>2
    <3>. QED  BY <2>2, <3>1, <3>5, <3>6, <3>7, <3>8, <3>9
  <2>. QED  BY <2>1, <2>2
<1> HIDE DEF last
<1>5. \A q \in Users(v) : q \in Proc /\ pc[q].v = v /\ pc[q] \in Job /\ JobOK(pc[q])
  BY <1>2 DEF Users
<1>6. use[v] \in Nat /\ Share(p, v) \in Nat /\ use[v] >= Share(p, v)
  BY <1>2, Counts
<1>7. last => pc[p].active /\ use[v] = 1 /\ pc[p].next # "ref"
  <2>1. last => pc[p].active /\ use[v] = 1
    BY DEF last
  <2>2. pc[p].active /\ pc[p].next = "ref" => Share(p, v) = 2
    BY <1>5, <1>2 DEF Share, Refers
  <2>. QED  BY <2>1, <2>2, <1>6
<1>8. /\ use' \in [Vnode -> Nat] /\ \A w \in Vnode \ {v} : use'[w] = use[w]
      /\ use'[v] = IF pc[p].active THEN use[v] - 1 ELSE use[v]
  BY <1>1, <1>2, <1>3 DEF Inv, TypeOK
<1>9. /\ holder' \in [Vnode -> Proc \cup {None}] /\ holder'[v] = None
      /\ inode' \in [Vnode -> Inode \cup {None}] /\ inode'[v] = None
      /\ xlock' \in [Vnode -> BOOLEAN] /\ (xlock'[v] <=> last)
      /\ cached' \in [Inode -> Vnode \cup {None}]
      /\ \A w \in Vnode \ {v} : /\ holder'[w] = holder[w] /\ inode'[w] = inode[w]
                                /\ xlock'[w] = xlock[w]
  BY <1>1, <1>2, <1>3 DEF Inv, TypeOK
<1>10. /\ free' \in Seq(Vnode) /\ IsInjective(free')
       /\ ToSet(free') = IF last THEN ToSet(free) \cup {v} ELSE ToSet(free)
  <2>1. free \in Seq(Vnode) /\ IsInjective(free)
    BY DEF Inv, TypeOK
  <2>2. CASE last
    <3>1. v \notin ToSet(free)
      BY <2>2, <1>2, <1>7 DEF Local, FreeExact
    <3>2. /\ Append(free, v) \in Seq(Vnode)
          /\ IsInjective(Append(free, v))
          /\ ToSet(Append(free, v)) = ToSet(free) \cup {v}
      BY <2>1, <3>1, <1>2, AddLast
    <3>. QED  BY <2>1, <2>2, <3>1, <3>2, <1>1, <1>2
  <2>3. CASE ~last
    <3>1. CASE v \in ToSet(free)
      <4> DEFINE s == RemoveFirst(free, v)
      <4>1. free' = <<v>> \o s
        BY <2>3, <3>1, <1>1 DEF ToHead
      <4>2. s \in Seq(Vnode) /\ IsInjective(s) /\ ToSet(s) = ToSet(free) \ {v}
        BY <2>1, RemoveOne
      <4> HIDE DEF s
      <4>3. v \notin ToSet(s) /\ ToSet(s) \cup {v} = ToSet(free)
        BY <3>1, <4>2
      <4>4. free' \in Seq(Vnode) /\ IsInjective(free') /\ ToSet(free') = ToSet(s) \cup {v}
        BY <4>1, <4>2, <4>3, <1>2, AddFirst
      <4>. QED  BY <2>3, <4>3, <4>4
    <3>2. CASE v \notin ToSet(free)
      BY <2>1, <2>3, <3>2, <1>1 DEF ToHead
    <3>. QED  BY <3>1, <3>2
  <2>. QED  BY <2>2, <2>3
<1>11. TypeOK'
  BY <1>1, <1>4, <1>8, <1>9, <1>10 DEF Inv, TypeOK
<1>12. CachedSound'
  BY <1>1, <1>2, <1>9 DEF Inv, TypeOK, CachedSound
<1>13. OnlyAt(v)
  <2>1. ASSUME NEW q \in Proc
        PROVE  IF pc[q].v \in {v, None} THEN pc'[q].v \in {v, None} ELSE Same(q)
    <3>1. CASE pc[q].v = v
      <4>1. q \in Users(v)
        BY <3>1 DEF Users
      <4>. QED  BY <3>1, <4>1, <1>4 DEF Same
    <3>2. CASE pc[q].v # v
      BY <3>2, <1>4 DEF Same
    <3>. QED  BY <3>1, <3>2
  <2>2. \A w \in Vnode \ {v} : w \in ToSet(free') <=> w \in ToSet(free)
    BY <1>10
  <2>3. \A w \in Vnode \ {v} : w \in born' <=> w \in born
    BY <1>1
  <2>. QED  BY <2>1, <2>2, <2>3, <1>8, <1>9 DEF OnlyAt
<1>14. \A q \in Users(v) :
          /\ q \in Users(v)' => (Takes(q)' <=> Takes(q)) /\ (Refers(q)' <=> Refers(q) /\ (q # p \/ ~last))
          /\ q \notin Users(v)' => ~Takes(q) /\ ~Refers(q)
          /\ Cleans(q)' <=> last /\ q = p
          /\ ~Waits(q)' /\ pc'[q].active = FALSE
          /\ pc'[q].at \in {"idle", "fill", "ref", "clean?", "itself"}
          /\ pc'[q].at = "clean?" => last
          /\ pc'[q].at = "fill" => ~last
          /\ pc'[q].at = "itself" => q = p
  <2>1. ASSUME NEW q \in Users(v), q # p, Same(q), pc[q].at = "clean?" => last
        PROVE  /\ q \in Users(v)' /\ (Takes(q)' <=> Takes(q)) /\ (Refers(q)' <=> Refers(q))
               /\ ~Cleans(q)' /\ ~Waits(q)' /\ pc'[q].active = FALSE
               /\ pc'[q].at \in {"ref", "clean?"}
               /\ pc'[q].at = "clean?" => last
    <3>1. pc[q].at \in {"ref", "clean?"} /\ pc[q].active = FALSE
      BY <2>1, <1>3, <1>5 DEF Job
    <3>. QED  BY <2>1, <3>1, <1>5 DEF Same, Takes, Refers, Cleans, Waits, At, Users
  <2>2. ASSUME ~last, NEW q \in Users(v), q = p \/ pc[q].at = "clean?"
        PROVE  /\ q \in Users(v)' => (Takes(q)' <=> Takes(q)) /\ (Refers(q)' <=> Refers(q))
               /\ q \notin Users(v)' => ~Takes(q) /\ ~Refers(q)
               /\ ~Cleans(q)' /\ ~Waits(q)' /\ pc'[q].active = FALSE
               /\ pc'[q].at \in {"idle", "fill", "ref"}
    <3>1. /\ pc'[q].at = pc[q].next /\ pc'[q].next = "idle" /\ ~pc'[q].active
          /\ pc'[q].v = IF pc[q].next = "idle" THEN None ELSE v
      BY <2>2, <1>4
    <3>2. pc[q].at \in {"clean", "clean?"} /\ pc[q].next \in {"idle", "fill", "ref"}
      BY <2>2, <1>1, <1>5 DEF Job
    <3>3. q \in Users(v)' <=> pc[q].next # "idle"
      BY <3>1, <3>2, <1>2, <1>5 DEF Users
    <3>4. pc'[q].active = FALSE
      BY <3>1, <1>4, <1>5 DEF Job
    <3>. QED  BY <3>1, <3>2, <3>3, <3>4 DEF Takes, Refers, Cleans, Waits, At
  <2>3. ASSUME last
        PROVE  /\ p \in Users(v)' /\ ~Takes(p)' /\ ~Refers(p)' /\ ~Takes(p)
               /\ Cleans(p)' /\ ~Waits(p)' /\ pc'[p].active = FALSE
               /\ pc'[p].at = "itself"
    <3>1. /\ pc'[p].at = "itself" /\ pc'[p].v = v
          /\ pc'[p].next = "idle" /\ ~pc'[p].active
      BY <2>3, <1>4
    <3>2. ~Takes(p)
      BY <2>3, <1>2, <1>7 DEF Local, TakenOnce
    <3>3. pc'[p].active = FALSE
      BY <3>1, <1>2, <1>4 DEF Job, Users
    <3>. QED  BY <3>1, <3>2, <3>3, <1>2 DEF Takes, Refers, Cleans, Waits, At, Users
  <2>4. ASSUME NEW q \in Users(v)
        PROVE  \/ q # p /\ Same(q) /\ (pc[q].at = "clean?" => last)
               \/ ~last /\ (q = p \/ pc[q].at = "clean?")
               \/ last /\ q = p
    BY <1>4
  <2>. QED  BY <2>1, <2>2, <2>3, <2>4
<1>15. use'[v] = References(v)'
  <2>1. ASSUME NEW q \in Proc \ {p}
        PROVE  /\ q \in Refer(v) <=> q \in Refer(v)'
               /\ q \in Active(v) <=> q \in Active(v)'
    <3>1. CASE pc[q].v = v
      <4>1. q \in Users(v) /\ ~pc[q].active
        BY <3>1, <1>3 DEF Users
      <4>. QED  BY <3>1, <4>1, <1>14 DEF Refer, Active, Users
    <3>2. CASE pc[q].v # v
      BY <3>2, <1>4 DEF Same, Refer, Active
    <3>. QED  BY <3>1, <3>2
  <2>2. /\ References(v) \in Nat /\ References(v)' \in Nat
        /\ References(v)' = References(v) + Part(p, v)' - Part(p, v)
    BY <2>1, Recount
  <2>3. /\ Part(p, v) = (IF Refers(p) THEN 1 ELSE 0) + (IF pc[p].active THEN 1 ELSE 0)
        /\ Part(p, v)' = IF p \in Users(v)' /\ Refers(p)' THEN 1 ELSE 0
    BY <1>2, <1>14 DEF Part, Refer, Active, Users
  <2>4. last => ~Refers(p)
    BY <1>1, <1>7 DEF Refers
  <2>5. (p \in Users(v)' /\ Refers(p)') <=> Refers(p)
    BY <2>4, <1>2, <1>14
  <2>6. use[v] = References(v)
    BY <1>2 DEF Local
  <2>. QED  BY <2>2, <2>3, <2>5, <2>6, <1>8
<1>16. /\ \A q \in Users(v)' : q \in Users(v)
       /\ use'[v] = 0 <=> use[v] = 0 \/ last
  <2>1. \A q \in Users(v)' : q \in Users(v)
    BY <1>2, <1>4 DEF Users, Same
  <2>2. use'[v] = 0 <=> use[v] = 0 \/ last
    BY <1>3, <1>6, <1>8 DEF last
  <2>. QED  BY <2>1, <2>2
<1>17. FreeExact(v)'
  <2>1. v \in born'
    BY <1>1, <1>2 DEF Local, FreeExact
  <2>2. (\A q \in Users(v)' : ~Takes(q)') <=> \A q \in Users(v) : ~Takes(q)
    BY <1>14, <1>16
  <2>3. last => \A q \in Users(v) : ~Takes(q)
    BY <1>2, <1>7 DEF Local, TakenOnce
  <2>. QED  BY <2>1, <2>2, <2>3, <1>1, <1>2, <1>10, <1>16 DEF Local, FreeExact
<1>18. TakenOnce(v)'
  BY <1>2, <1>14, <1>16 DEF Local, TakenOnce
<1>19. CleanedOnce(v)'
  <2>1. last => p \in Users(v)'
    BY <1>2, <1>4 DEF Users
  <2>. QED  BY <2>1, <1>9, <1>2, <1>14, <1>16 DEF CleanedOnce
<1>20. HolderSound(v)'
  BY <1>9 DEF HolderSound
<1>21. ASSUME NEW q \in Users(v)'
       PROVE  Place(q, v)'
  <2>1. \A r \in Users(v)' : ~Waits(r)'
    BY <1>14, <1>16
  <2>2. Cleans(q)' => use'[v] = 0
    BY <1>14, <1>16
  <2>. QED  BY <2>1, <2>2, <1>9, <1>14, <1>16 DEF Place, At
<1>22. Unshared(v)'
  BY <1>14, <1>16 DEF Unshared, At
<1>. QED  BY <1>2, <1>11, <1>12, <1>13, <1>15, <1>17, <1>18, <1>19, <1>20, <1>21, <1>22, Here DEF Local

-----------------------------------------------------------------------------
(* The invariant is inductive.                                             *)

(* Nothing happens. *)
LEMMA StillInv ==
  ASSUME Inv, UNCHANGED vars
  PROVE  Inv'
<1>1. UNCHANGED <<born, use, xlock, free, inode, holder, cached, pc>>
  BY DEF vars
<1>2. TypeOK' /\ CachedSound'
  BY <1>1 DEF Inv, TypeOK, CachedSound
<1>3. OnlyAt(None)
  BY <1>1 DEF OnlyAt, Same
<1>. QED  BY <1>2, <1>3, VnodeAssumption, Here

(* There are no vnodes at first, and nobody does anything. *)
LEMMA InitInv ==
  ASSUME Init
  PROVE  Inv
<1>1. /\ Idle \in Job /\ JobOK(Idle) /\ Idle.v = None /\ Idle.at = "idle"
      /\ Idle.next = "idle" /\ Idle.active = FALSE
  BY DEF Idle, Doing, Job, JobOK, Ats
<1>2. pc \in [Proc -> Job] /\ \A p \in Proc : pc[p] = Idle
  BY <1>1 DEF Init
<1>3. ToSet(free) = {} /\ free \in Seq(Vnode) /\ IsInjective(free)
  BY DEF Init, ToSet, IsInjective
<1>4. TypeOK
  BY <1>1, <1>2, <1>3 DEF Init, TypeOK
<1>5. CachedSound
  BY DEF Init, CachedSound
<1>6. ASSUME NEW v \in Vnode
      PROVE  Local(v)
  <2>1. Users(v) = {} /\ Refer(v) = {} /\ Active(v) = {}
    BY <1>1, <1>2, VnodeAssumption DEF Users, Refer, Active
  <2>2. use[v] = References(v)
    BY <2>1, NoneCounted DEF Init
  <2>. QED  BY <2>1, <2>2, <1>3 DEF Init, Local, FreeExact, TakenOnce, CleanedOnce, HolderSound, Unshared
<1>. QED  BY <1>4, <1>5, <1>6 DEF Inv

(* Every step preserves it. *)
LEMMA StepInv ==
  ASSUME Inv, [Next]_vars
  PROVE  Inv'
<1>1. CASE UNCHANGED vars
  BY <1>1, StillInv
<1>2. CASE Next
  <2>1. ~Wild /\ \E p \in Proc : Run(p) \/ Call(p)
    BY <1>2 DEF Next
  <2> PICK p \in Proc : Run(p) \/ Call(p)
    BY <2>1
  <2>2. CASE Run(p)
    <3>1. CASE Locked(p)     BY <3>1, LockedInv
    <3>2. CASE Drain(p)
      <4>1. inode[pc[p].v] # None
        BY <2>1, <3>2 DEF Drain, Wild
      <4>. QED  BY <3>2, <4>1, DrainInv
    <3>3. CASE Cleaned(p)    BY <3>3, CleanedInv
    <3>4. CASE Malloced(p)   BY <3>4, MallocedInv
    <3>5. CASE Fill(p)       BY <3>5, FillInv
    <3>11. CASE Ihashins(p)  BY <3>11, IhashinsInv
    <3>6. CASE Read(p)       BY <3>6, ReadInv
    <3>7. CASE ReadFails(p)  BY <3>7, ReadInv
    <3>8. CASE Vput(p)       BY <3>8, VputInv
    <3>9. CASE Unlock(p)     BY <3>9, UnlockInv
    <3>10. CASE Inactive(p)  BY <3>10, InactiveInv
    <3>. QED
      BY <2>2, <3>1, <3>2, <3>3, <3>4, <3>5, <3>6, <3>7, <3>8, <3>9, <3>10, <3>11 DEF Run
  <2>3. CASE Call(p)
    <3>1. CASE \E i \in Inode : CacheLookup(p, i) \/ HashLookup(p, i)
      BY <3>1, LookupInv
    <3>2. CASE \E i \in Inode, dir \in BOOLEAN : Getnewvnode(p, i, dir)
      BY <3>2, GetnewvnodeInv
    <3>3. CASE Revoke(p)      BY <3>3, RevokeInv
    <3>4. CASE Vflush(p)      BY <3>4, VflushInv
    <3>5. CASE CacheEnter(p)  BY <3>5, CacheEnterInv
    <3>6. CASE Rmdir(p)       BY <3>6, RmdirInv
    <3>7. CASE Relock(p)      BY <3>7, RelockInv
    <3>8. CASE Vrele(p)       BY <3>8, VreleInv
    <3>. QED  BY <2>3, <3>1, <3>2, <3>3, <3>4, <3>5, <3>6, <3>7, <3>8 DEF Call
  <2>. QED  BY <2>1, <2>2, <2>3
<1>. QED  BY <1>1, <1>2

-----------------------------------------------------------------------------
(* What names have to do with vnodes. It is of use with Inv only.          *)

(* Where a search of the directory may be under way.                       *)
Seeks(do) ==
  \/ do.at \in {"malloc", "fill", "new", "read", "lock", "have", "stale"}
  \/ do.next = "fill"

(* What the searches and the name cache led p to, and where p found a lock *)
(* to drain.                                                               *)
NameOK(p) ==
  LET v == pc[p].v IN
  /\ pc[p].dir => Seeks(pc[p]) /\ (At(p, "have") \/ pc[p].i \in named)
  /\ At(p, "lock") /\ pc[p].byname /\ pc[p].fresh => link[v] # "none"
  /\ At(p, "have") /\ (pc[p].byname \/ pc[p].dir) => holder[v] = p /\ link[v] # "none"
  /\ At(p, "read") => /\ \A i \in Inode : cached[i] # v
                      /\ \A q \in Users(v) : ~(At(q, "lock") /\ pc[q].byname /\ pc[q].fresh)
  /\ At(p, "drain") => inode[v] # None \/ HalfMade(v)

Links ==
  /\ link \in [Vnode -> {"unread", "named", "none"}]
  /\ \A v \in Vnode : link[v] = "none" /\ inode[v] # None => inode[v] \notin named
  /\ \A i \in Inode : cached[i] # None => link[cached[i]] # "none"

Names == Links /\ \A p \in Proc : NameOK(p)

(* q goes on as it did.                                                    *)
Keeps(q) ==
  /\ pc'[q].at = pc[q].at /\ pc'[q].v = pc[q].v /\ pc'[q].i = pc[q].i
  /\ pc'[q].next = pc[q].next /\ pc'[q].byname = pc[q].byname /\ pc'[q].dir = pc[q].dir
  /\ pc'[q].fresh => pc[q].fresh

(* The links and the inodes stay what they are, and so do the others.      *)
Quiet(p) ==
  /\ link' = link /\ named' = named /\ inode' = inode
  /\ \A i \in Inode : cached'[i] \in {cached[i], None}
  /\ \A q \in Proc \ {p} :
       Keeps(q) /\ (At(q, "have") /\ holder[pc[q].v] = q => holder'[pc[q].v] = q)

LEMMA QuietNames ==
  ASSUME Inv, Names, ~Wild, NEW p \in Proc, Quiet(p), NameOK(p)', pc'[p].at # "read",
         pc'[p].at = "lock" /\ pc'[p].byname /\ pc'[p].fresh =>
           \A q \in Users(pc'[p].v) : ~At(q, "read")
  PROVE  Names'
<1>1. Links'
  BY DEF Names, Links, Quiet, Inv, TypeOK
<1>2. ASSUME NEW q \in Proc \ {p}, NEW v, v = pc[q].v
      PROVE  NameOK(q)'
  <2>1. NameOK(q) /\ Keeps(q) /\ pc'[q].v = v
    BY <1>2 DEF Names, Quiet, Keeps
  <2>2. /\ link' = link /\ named' = named /\ inode' = inode
        /\ At(q, "have") /\ holder[v] = q => holder'[v] = q
    BY <1>2 DEF Quiet
  <2>3. At(q, "drain") => inode[v] # None
    BY <1>2 DEF Wild
  <2>4. ASSUME At(q, "read")
        PROVE  /\ \A i \in Inode : cached'[i] # v
               /\ \A r \in Users(v)' : ~(At(r, "lock") /\ pc[r].byname /\ pc[r].fresh)'
    <3>1. /\ \A i \in Inode : cached[i] # v
          /\ \A r \in Users(v) : ~(At(r, "lock") /\ pc[r].byname /\ pc[r].fresh)
          /\ v # None /\ q \in Users(v)
      <4>1. v \in Vnode /\ q \in Users(v)
        BY <1>2, <2>4, AtVnode DEF At
      <4>. QED  BY <4>1, <2>1, <2>4, <1>2, VnodeAssumption DEF NameOK
    <3>2. \A i \in Inode : cached'[i] # v
      BY <3>1 DEF Quiet
    <3>3. ASSUME NEW r \in Users(v)'
          PROVE  ~(At(r, "lock") /\ pc[r].byname /\ pc[r].fresh)'
      <4>1. CASE r = p
        <5>1. pc'[p].v = v
          BY <4>1, <3>3 DEF Users
        <5>2. ~\A x \in Users(pc'[p].v) : ~At(x, "read")
          BY <5>1, <2>4, <3>1
        <5>. QED  BY <4>1, <5>2 DEF At
      <4>2. CASE r # p
        <5>1. r \in Proc /\ Keeps(r) /\ r \in Users(v)
          BY <4>2, <3>3 DEF Users, Quiet, Keeps
        <5>. QED  BY <5>1, <3>1 DEF Keeps, At
      <4>. QED  BY <4>1, <4>2
    <3>. QED  BY <3>2, <3>3
  <2>5. Seeks(pc[q])' <=> Seeks(pc[q])
    BY <2>1 DEF Keeps, Seeks
  <2>. QED  BY <1>2, <2>1, <2>2, <2>3, <2>4, <2>5 DEF NameOK, Keeps, At
<1>. QED  BY <1>1, <1>2 DEF Names

(* p has nothing to do with names any more. *)
LEMMA ForgetNames ==
  ASSUME Inv, Names, ~Wild, NEW p \in Proc, Quiet(p),
         ~pc'[p].dir, ~pc'[p].byname, pc'[p].at \notin {"read", "drain"}
  PROVE  Names'
<1>1. NameOK(p)'
  BY DEF NameOK, At
<1>. QED  BY <1>1, QuietNames

(* p gets another job, and the rest stays. *)
LEMMA QuietJob ==
  ASSUME Inv, NEW p \in Proc, NEW to, pc' = [pc EXCEPT ![p] = to],
         link' = link, named' = named, inode' = inode, cached' = cached,
         NEW v \in Vnode,
         \/ holder' = holder
         \/ holder' = [holder EXCEPT ![v] = p] /\ holder[v] = None
         \/ holder' = [holder EXCEPT ![v] = None] /\ holder[v] = p
  PROVE  Quiet(p) /\ pc'[p] = to
<1>1. pc'[p] = to /\ \A q \in Proc \ {p} : pc'[q] = pc[q]
  BY DEF Inv, TypeOK
<1>2. ASSUME NEW q \in Proc \ {p}, At(q, "have"), holder[pc[q].v] = q
      PROVE  holder'[pc[q].v] = q
  <2>0. pc[q].v \in Vnode
    BY <1>2, AtVnode DEF At
  <2>1. holder[v] # q => holder'[pc[q].v] = holder[pc[q].v]
    BY <1>2, <2>0 DEF Inv, TypeOK
  <2>2. holder[v] = q => holder' = holder
    BY VnodeAssumption
  <2>. QED  BY <1>2, <2>1, <2>2
<1>. QED  BY <1>1, <1>2 DEF Quiet, Keeps

(* vgonel() keeps a search under way, and finds a lock to drain. *)
LEMMA VgonelNames ==
  ASSUME Inv, Names, ~Wild, NEW p \in Proc, NEW v \in Vnode, NEW i, NEW next,
         NEW dir \in BOOLEAN, Vgonel(p, v, i, next, dir),
         link' = link, named' = named, inode' = inode, cached' = cached,
         \/ holder' = holder
         \/ holder' = [holder EXCEPT ![v] = None] /\ holder[v] = p,
         dir => next = "fill" /\ i \in named,
         xlock[v] \/ inode[v] # None \/ (HalfMade(v) /\ At(p, "idle"))
  PROVE  Names'
<1> DEFINE a == [Doing("clean?", v, i) EXCEPT !.next = next, !.dir = dir]
           b == [Doing("drain", v, i) EXCEPT !.next = next, !.dir = dir,
                                             !.active = use[v] > 0]
<1>1. /\ a.at = "clean?" /\ a.v = v /\ a.i = i /\ a.next = next /\ a.dir = dir /\ ~a.byname
      /\ b.at = "drain" /\ b.v = v /\ b.i = i /\ b.next = next /\ b.dir = dir /\ ~b.byname
  BY DEF Doing
<1>2. \/ xlock[v] /\ pc' = [pc EXCEPT ![p] = a]
      \/ ~xlock[v] /\ pc' = [pc EXCEPT ![p] = b]
  BY DEF Vgonel
<1> HIDE DEF a, b
<1>3. PICK to :
        /\ pc' = [pc EXCEPT ![p] = to] /\ to.v = v /\ to.i = i /\ to.next = next
        /\ to.dir = dir /\ ~to.byname
        /\ to.at = "clean?" \/ (to.at = "drain" /\ ~xlock[v])
  BY <1>1, <1>2
<1>4. Quiet(p) /\ pc'[p] = to
  BY <1>3, QuietJob
<1>5. At(p, "drain")' => inode'[v] # None \/ HalfMade(v)'
  <2>1. ASSUME NEW q \in Proc, At(q, "new"), pc[q].v = v, At(p, "idle")
        PROVE  HalfMade(v)'
    <3>1. q # p /\ Keeps(q)
      BY <2>1, <1>4 DEF At, Quiet
    <3>2. At(q, "new")' /\ pc'[q].v = v
      BY <2>1, <3>1 DEF At, Keeps
    <3>. QED  BY <3>2 DEF HalfMade
  <2>2. HalfMade(v) /\ At(p, "idle") => HalfMade(v)'
    BY <2>1 DEF HalfMade
  <2>3. At(p, "drain")' => ~xlock[v]
    BY <1>3, <1>4 DEF At
  <2>. QED  BY <2>2, <2>3
<1>6. NameOK(p)'
  <2>1. /\ ~At(p, "lock")' /\ ~At(p, "have")' /\ ~At(p, "read")' /\ pc'[p].v = v
        /\ pc'[p].dir => Seeks(pc[p])' /\ pc'[p].i \in named'
    BY <1>3, <1>4 DEF At, Seeks
  <2>. QED  BY <2>1, <1>5 DEF NameOK
<1>. QED  BY <1>3, <1>4, <1>6, QuietNames

(* The steps with which p has nothing to do with names any more. *)
LEMMA LetsGoNames ==
  ASSUME Inv, Names, ~Wild, NEW p \in Proc,
         Unlock(p) \/ Relock(p) \/ Vput(p) \/ Vrele(p)
  PROVE  Names'
<1> PICK v : v = pc[p].v
  OBVIOUS
<1>1. pc[p].at \in {"have", "stale", "ref"} /\ UNCHANGED <<inode, link, named, cached>>
  BY DEF Unlock, Relock, Vput, Vrele, At
<1>2. /\ v \in Vnode /\ Local(v) /\ Place(p, v) /\ JobOK(pc[p])
      /\ pc[p].dir \in BOOLEAN /\ pc[p].byname \in BOOLEAN
  BY <1>1, AtVnode DEF Job
<1>3. At(p, "ref") => ~pc[p].dir /\ ~pc[p].byname /\ holder[v] # p
  <2>1. At(p, "ref") => ~pc[p].byname /\ pc[p].next # "fill"
    BY <1>2 DEF At, JobOK
  <2>2. At(p, "ref") => ~Seeks(pc[p])
    BY <2>1 DEF At, Seeks
  <2>3. At(p, "ref") => holder[v] # p
    BY <1>2, VnodeAssumption DEF At, Local, HolderSound
  <2>. QED  BY <2>1, <2>2, <2>3 DEF Names, NameOK
<1>4. PICK to :
        /\ pc' = [pc EXCEPT ![p] = to] /\ ~to.dir /\ ~to.byname
        /\ to.at \notin {"read", "drain"}
        /\ \/ holder' = holder
           \/ holder' = [holder EXCEPT ![v] = p] /\ holder[v] = None
           \/ holder' = [holder EXCEPT ![v] = None] /\ holder[v] = p
  <2>1. ASSUME NEW at \in {"ref", "inactive", "rele", "clean?", "idle"}, NEW x, NEW i
        PROVE  LET d == Doing(at, x, i) IN ~d.dir /\ ~d.byname /\ d.at \notin {"read", "drain"}
    BY DEF Doing
  <2>2. Idle = Doing("idle", None, None)
    BY DEF Idle
  <2>3. Released(v, p) \in {holder, [holder EXCEPT ![v] = None]}
        /\ (Released(v, p) # holder => holder[v] = p)
    BY <1>2 DEF Released, Inv, TypeOK
  <2>4. CASE Unlock(p)
    <3>1. pc' = [pc EXCEPT ![p] = Doing("ref", v, pc[p].i)] /\ holder' = Released(v, p)
      BY <2>4 DEF Unlock
    <3>. QED  BY <3>1, <2>1, <2>3
  <2>5. CASE Relock(p)
    <3> DEFINE a == [Doing("clean?", v, pc[p].i) EXCEPT !.next = "ref"]
               b == [pc[p] EXCEPT !.at = "relock"]
               c == [pc[p] EXCEPT !.at = "have"]
    <3>1. ~a.dir /\ ~a.byname /\ a.at = "clean?"
      BY DEF Doing
    <3>2. pc[p] \in Job /\ ~pc[p].dir /\ ~pc[p].byname /\ At(p, "ref")
      BY <2>5, <1>3 DEF Relock, Inv, TypeOK
    <3>3. /\ ~b.dir /\ ~b.byname /\ b.at = "relock"
          /\ ~c.dir /\ ~c.byname /\ c.at = "have"
      BY <3>2 DEF Job
    <3>4. \/ holder' = holder /\ pc' = [pc EXCEPT ![p] = a]
          \/ holder' = holder /\ pc' = [pc EXCEPT ![p] = b]
          \/ holder' = holder /\ pc' = [pc EXCEPT ![p] = c]
          \/ /\ inode[v] # None /\ holder[v] = None
             /\ holder' = [holder EXCEPT ![v] = p] /\ pc' = [pc EXCEPT ![p] = c]
      BY <2>5 DEF Relock
    <3> HIDE DEF a, b, c
    <3>. QED  BY <3>1, <3>3, <3>4
  <2>6. CASE Vput(p)
    <3>1. \/ pc' = [pc EXCEPT ![p] = Idle]
          \/ pc' = [pc EXCEPT ![p] = Doing("inactive", v, None)]
      BY <2>6 DEF Vput
    <3>2. holder' = holder \/ holder' = Released(v, p)
      BY <2>6 DEF Vput
    <3>. QED  BY <3>1, <3>2, <2>1, <2>2, <2>3
  <2>7. CASE Vrele(p)
    <3>1. \/ pc' = [pc EXCEPT ![p] = Idle] /\ holder' = holder
          \/ pc' = [pc EXCEPT ![p] = Doing("rele", v, None)] /\ holder' = holder
          \/ /\ pc' = [pc EXCEPT ![p] = Doing("inactive", v, None)]
             /\ holder' = [holder EXCEPT ![v] = p] /\ holder[v] = None
      BY <2>7 DEF Vrele
    <3>. QED  BY <3>1, <2>1, <2>2
  <2>. QED  BY <2>4, <2>5, <2>6, <2>7
<1>5. Quiet(p) /\ pc'[p] = to
  BY <1>1, <1>2, <1>4, QuietJob
<1>. QED  BY <1>4, <1>5, ForgetNames

(* The steps that begin to clean a vnode. *)
LEMMA CleaningNames ==
  ASSUME Inv, Names, ~Wild, NEW p \in Proc, Revoke(p) \/ Vflush(p) \/ Inactive(p)
  PROVE  Names'
<1>1. link' = link /\ named' = named /\ inode' = inode /\ cached' = cached
  BY DEF Revoke, Vflush, Inactive
<1>2. CASE Revoke(p)
  <2>1. /\ pc[p].at = "ref" /\ inode[pc[p].v] # None /\ holder' = holder
        /\ Vgonel(p, pc[p].v, pc[p].i, "ref", FALSE)
    BY <1>2 DEF Revoke, At
  <2>2. pc[p].v \in Vnode
    BY <2>1, AtVnode
  <2>. QED  BY <1>1, <2>1, <2>2, VgonelNames
<1>3. CASE Vflush(p)
  <2>1. PICK v \in Vnode : OnMount(v) /\ Vgonel(p, v, None, "idle", FALSE)
    BY <1>3 DEF Vflush
  <2>2. At(p, "idle") /\ holder' = holder
    BY <1>3 DEF Vflush
  <2>3. xlock[v] \/ inode[v] # None \/ HalfMade(v)
    <3>1. ASSUME NEW q \in Proc, At(q, "itself"), pc[q].v = v
          PROVE  xlock[v]
      BY <3>1 DEF Inv, Local, CleanedOnce, Cleans, Users, At
    <3>. QED  BY <2>1, <3>1 DEF OnMount
  <2>. QED  BY <1>1, <2>1, <2>2, <2>3, VgonelNames
<1>4. CASE Inactive(p)
  <2> PICK v : v = pc[p].v
    OBVIOUS
  <2>1. /\ pc[p].at = "inactive" /\ holder' = [holder EXCEPT ![v] = None]
        /\ \/ Vgonel(p, v, None, "idle", FALSE)
           \/ pc' = [pc EXCEPT ![p] = Idle]
    BY <1>4 DEF Inactive, At
  <2>2. v \in Vnode /\ holder[v] = p /\ inode[v] # None
    <3>1. v \in Vnode /\ Local(v) /\ Place(p, v)
      BY <2>1, AtVnode
    <3>. QED  BY <2>1, <3>1, VnodeAssumption DEF Place, Local, HolderSound
  <2>3. CASE Vgonel(p, v, None, "idle", FALSE)
    BY <1>1, <2>1, <2>2, <2>3, VgonelNames
  <2>4. CASE pc' = [pc EXCEPT ![p] = Idle]
    <3>1. ~Idle.dir /\ ~Idle.byname /\ Idle.at = "idle"
      BY DEF Idle, Doing
    <3>2. Quiet(p) /\ pc'[p] = Idle
      BY <1>1, <2>1, <2>2, <2>4, QuietJob
    <3>. QED  BY <3>1, <3>2, ForgetNames
  <2>. QED  BY <2>1, <2>3, <2>4
<1>. QED  BY <1>2, <1>3, <1>4

(* Somebody goes on with his search when he comes to another place. *)
LEMMA SearchNames ==
  ASSUME Inv, Names, ~Wild, NEW p \in Proc, Quiet(p), Seeks(pc'[p]),
         ~pc'[p].byname, pc'[p].at \notin {"read", "have", "drain"},
         pc'[p].dir => pc'[p].i \in named
  PROVE  Names'
<1>1. NameOK(p)'
  BY DEF NameOK, At, Quiet, Seeks
<1>. QED  BY <1>1, QuietNames

(* The steps with which a search gets on. *)
LEMMA GetsOnNames ==
  ASSUME Inv, Names, ~Wild, NEW p \in Proc, Drain(p) \/ Malloced(p) \/ ReadFails(p)
  PROVE  Names'
<1>1. /\ UNCHANGED <<inode, link, named, cached>>
      /\ pc[p].at \in {"drain", "malloc", "read"}
  BY DEF Drain, Malloced, ReadFails, At
<1>2. pc[p] \in Job /\ JobOK(pc[p]) /\ NameOK(p)
  BY DEF Inv, TypeOK, Names
<1>3. CASE Drain(p)
  <2> DEFINE v == pc[p].v
             to == [pc[p] EXCEPT !.at = "clean"]
  <2>1. /\ pc' = [pc EXCEPT ![p] = to] /\ holder' = [holder EXCEPT ![v] = p]
        /\ holder[v] = None /\ pc[p].at = "drain"
    BY <1>3 DEF Drain, Drained, At
  <2>2. v \in Vnode
    BY <2>1, AtVnode
  <2>3. /\ to.at = "clean" /\ to.dir = pc[p].dir /\ to.byname = pc[p].byname
        /\ to.i = pc[p].i /\ to.next = pc[p].next
    BY <1>2 DEF Job
  <2> HIDE DEF to, v
  <2>4. Quiet(p) /\ pc'[p] = to
    BY <1>1, <2>1, <2>2, QuietJob
  <2>5. /\ ~to.byname /\ to.dir => Seeks(to) /\ to.i \in named
        /\ ~to.byname
    BY <1>2, <2>1, <2>3 DEF NameOK, Seeks, JobOK, At
  <2>6. NameOK(p)'
    BY <2>3, <2>4, <2>5 DEF NameOK, At, Quiet, Seeks
  <2>. QED  BY <2>3, <2>4, <2>6, QuietNames
<1>4. CASE Malloced(p)
  <2> PICK v \in Vnode \ born : pc' = [pc EXCEPT ![p].at = "fill", ![p].v = v]
    BY <1>4 DEF Malloced
  <2> DEFINE to == [pc[p] EXCEPT !.at = "fill", !.v = v]
  <2>1. pc' = [pc EXCEPT ![p] = to] /\ holder' = holder /\ pc[p].at = "malloc"
    BY <1>4 DEF Malloced, At, Inv, TypeOK
  <2>2. to.at = "fill" /\ to.dir = pc[p].dir /\ to.byname = pc[p].byname /\ to.i = pc[p].i
    BY <1>2 DEF Job
  <2> HIDE DEF to
  <2>3. Quiet(p) /\ pc'[p] = to
    BY <1>1, <2>1, QuietJob
  <2>4. /\ to.dir => to.i \in named
        /\ ~to.byname /\ Seeks(to)
    BY <1>2, <2>1, <2>2 DEF NameOK, Seeks, JobOK, At
  <2>. QED  BY <2>2, <2>3, <2>4, SearchNames
<1>5. CASE ReadFails(p)
  <2> DEFINE to == [pc[p] EXCEPT !.at = "stale"]
  <2>1. pc' = [pc EXCEPT ![p] = to] /\ holder' = holder /\ pc[p].at = "read"
    BY <1>5 DEF ReadFails, At
  <2>2. to.at = "stale" /\ to.dir = pc[p].dir /\ to.byname = pc[p].byname /\ to.i = pc[p].i
    BY <1>2 DEF Job
  <2> HIDE DEF to
  <2>5. pc[p].v \in Vnode
    BY <2>1, AtVnode
  <2>3. Quiet(p) /\ pc'[p] = to
    BY <1>1, <2>1, <2>5, QuietJob
  <2>4. /\ to.dir => to.i \in named
        /\ ~to.byname /\ Seeks(to)
    BY <1>2, <2>1, <2>2 DEF NameOK, Seeks, JobOK, At
  <2>. QED  BY <2>2, <2>3, <2>4, SearchNames
<1>. QED  BY <1>3, <1>4, <1>5

(* Whoever gets the lock of a vnode by a name that is still the one he     *)
(* looked up, gets one with a name.                                        *)
LEMMA LockedNames ==
  ASSUME Inv, Names, ~Wild, NEW p \in Proc, Locked(p)
  PROVE  Names'
<1> DEFINE v == pc[p].v
           to == [pc[p] EXCEPT !.at = Granted(pc[p]), !.fresh = FALSE]
<1>1. /\ pc[p].at \in {"lock", "relock", "rele"} /\ holder[v] = None
      /\ holder' = [holder EXCEPT ![v] = p]
      /\ pc' = [pc EXCEPT ![p].at = Granted(pc[p]), ![p].fresh = FALSE]
      /\ UNCHANGED <<inode, link, named, cached>>
  BY DEF Locked, At
<1>2. /\ v \in Vnode /\ Local(v) /\ Place(p, v) /\ NameOK(p)
      /\ pc[p] \in Job /\ JobOK(pc[p])
  BY <1>1, AtVnode DEF Names
<1>3. /\ pc' = [pc EXCEPT ![p] = to]
      /\ to.v = v /\ to.i = pc[p].i /\ to.byname = pc[p].byname /\ to.dir = pc[p].dir
      /\ to.at = Granted(pc[p])
  BY <1>1, <1>2 DEF Inv, TypeOK, Job
<1>4. /\ to.at \in {"have", "stale", "inactive"}
      /\ to.at = "have" /\ to.byname => At(p, "lock") /\ pc[p].fresh
  BY <1>1, <1>2, <1>3 DEF Granted, JobOK, At
<1>5. Quiet(p) /\ pc'[p] = to /\ holder'[v] = p
  <2> HIDE DEF to, v
  <2>1. Quiet(p) /\ pc'[p] = to
    BY <1>1, <1>2, <1>3, QuietJob
  <2>. QED  BY <2>1, <1>1, <1>2 DEF Inv, TypeOK
<1> HIDE DEF to
<1>6. to.dir => At(p, "lock") /\ pc[p].i \in named
  <2>1. to.dir => pc[p].at = "lock"
    BY <1>1, <1>2, <1>3 DEF NameOK, Seeks, JobOK
  <2>. QED  BY <2>1, <1>2, <1>3 DEF NameOK, At
<1>7. (inode[v] \in {pc[p].i, None} /\ inode[v] # None) \/ ~At(p, "lock")
  BY <1>1, <1>2 DEF Place, Refers, Waits, At
<1>8. to.dir => link[v] # "none"
  BY <1>2, <1>6, <1>7 DEF Names, Links
<1>9. to.at = "have" /\ to.byname => link[v] # "none"
  BY <1>2, <1>3, <1>4 DEF NameOK, At
<1>10. NameOK(p)'
  <2>1. to.dir => to.at \in {"have", "stale"}
    BY <1>1, <1>3, <1>4, <1>6 DEF Granted, At
  <2>. QED  BY <2>1, <1>3, <1>4, <1>5, <1>6, <1>8, <1>9 DEF NameOK, At, Quiet, Seeks, v
<1>. QED  BY <1>4, <1>5, <1>10, QuietNames

(* Whoever looks a vnode up, by its name or not, comes to one with a name  *)
(* if the search says so.                                                  *)
LEMMA VgetNames ==
  ASSUME Inv, Names, ~Wild, NEW p \in Proc, NEW v \in Vnode, NEW i \in Inode,
         inode[v] = i, NEW do \in Job, do.at = "lock", do.v = v, do.i = i,
         do.byname => cached[i] = v, do.dir => i \in named, Vget(p, v, do)
  PROVE  Names'
<1> DEFINE a == Doing("clean?", v, None)
           b == [do EXCEPT !.at = "have", !.fresh = FALSE]
<1>1. /\ ~a.dir /\ ~a.byname /\ a.at = "clean?"
      /\ b.at = "have" /\ b.v = v /\ b.i = i /\ b.byname = do.byname /\ b.dir = do.dir
  BY DEF Doing, Job
<1>2. /\ UNCHANGED <<inode, link, named, cached>>
      /\ \/ holder' = holder /\ pc' = [pc EXCEPT ![p] = a]
         \/ holder' = holder /\ pc' = [pc EXCEPT ![p] = do]
         \/ /\ holder[v] = None /\ holder' = [holder EXCEPT ![v] = p]
            /\ pc' = [pc EXCEPT ![p] = b]
  BY DEF Vget
<1> HIDE DEF a, b
<1>3. do.byname \/ do.dir => link[v] # "none"
  <2>1. do.byname => cached[i] = v /\ v # None
    BY VnodeAssumption
  <2>2. i # None
    BY VnodeAssumption
  <2>. QED  BY <2>1, <2>2 DEF Names, Links
<1>4. CASE holder' = holder /\ pc' = [pc EXCEPT ![p] = a]
  <2>1. Quiet(p) /\ pc'[p] = a
    BY <1>2, <1>4, QuietJob
  <2>. QED  BY <1>1, <2>1, ForgetNames
<1>5. CASE holder' = holder /\ pc' = [pc EXCEPT ![p] = do]
  <2>1. Quiet(p) /\ pc'[p] = do
    BY <1>2, <1>5, QuietJob
  <2>2. NameOK(p)'
    BY <1>3, <2>1 DEF NameOK, At, Seeks, Quiet
  <2>3. do.byname => \A q \in Users(v) : ~At(q, "read")
    BY VnodeAssumption DEF Names, NameOK, Users
  <2>. QED  BY <2>1, <2>2, <2>3, QuietNames
<1>6. CASE /\ holder[v] = None /\ holder' = [holder EXCEPT ![v] = p]
           /\ pc' = [pc EXCEPT ![p] = b]
  <2>1. Quiet(p) /\ pc'[p] = b
    BY <1>2, <1>6, QuietJob
  <2>2. holder'[v] = p
    BY <1>6 DEF Inv, TypeOK
  <2>3. NameOK(p)'
    BY <1>1, <1>3, <2>1, <2>2 DEF NameOK, At, Seeks, Quiet
  <2>. QED  BY <1>1, <2>1, <2>3, QuietNames
<1>. QED  BY <1>2, <1>4, <1>5, <1>6

LEMMA LookupNames ==
  ASSUME Inv, Names, ~Wild, NEW p \in Proc, NEW i \in Inode,
         CacheLookup(p, i) \/ HashLookup(p, i)
  PROVE  Names'
<1>1. CASE CacheLookup(p, i)
  <2> DEFINE v == cached[i]
  <2> PICK dir \in BOOLEAN :
             /\ Lookup(i, dir)
             /\ Vget(p, v, [Doing("lock", v, i) EXCEPT !.byname = TRUE, !.fresh = TRUE,
                                                       !.dir = dir])
    BY <1>1 DEF CacheLookup
  <2> DEFINE do == [Doing("lock", v, i) EXCEPT !.byname = TRUE, !.fresh = TRUE, !.dir = dir]
  <2>1. v # None /\ Vget(p, v, do) /\ (dir => i \in named)
    BY <1>1 DEF CacheLookup, Lookup
  <2>2. v \in Vnode /\ inode[v] = i
    BY <2>1 DEF Inv, TypeOK, CachedSound
  <2>3. do \in Job /\ do.at = "lock" /\ do.v = v /\ do.i = i /\ do.dir = dir
    BY <2>2 DEF Doing, Job, Ats
  <2>4. cached[i] = v
    OBVIOUS
  <2> HIDE DEF v, do
  <2>. QED  BY <2>1, <2>2, <2>3, <2>4, VgetNames
<1>2. CASE HashLookup(p, i)
  <2>1. PICK dir \in BOOLEAN, v \in Vnode :
          /\ Lookup(i, dir) /\ inode[v] = i
          /\ Vget(p, v, [Doing("lock", v, i) EXCEPT !.dir = dir])
    BY <1>2 DEF HashLookup
  <2> DEFINE do == [Doing("lock", v, i) EXCEPT !.dir = dir]
  <2>2. do \in Job /\ do.at = "lock" /\ do.v = v /\ do.i = i /\ ~do.byname /\ do.dir = dir
    BY DEF Doing, Job, Ats
  <2>3. Vget(p, v, do) /\ (dir => i \in named)
    BY <2>1 DEF Lookup
  <2> HIDE DEF do
  <2>. QED  BY <2>1, <2>2, <2>3, VgetNames
<1>. QED  BY <1>1, <1>2

(* getnewvnode(), for an inode that the directory has if it was searched.  *)
LEMMA GetnewvnodeNames ==
  ASSUME Inv, Names, ~Wild, NEW p \in Proc, NEW i \in Inode, NEW dir \in BOOLEAN,
         Getnewvnode(p, i, dir)
  PROVE  Names'
<1>1. /\ At(p, "idle") /\ UNCHANGED <<inode, link, named, holder, cached>>
      /\ dir => i \in named
  BY DEF Getnewvnode, Lookup
<1>2. ASSUME NEW at \in {"malloc", "fill"}, NEW v,
             pc' = [pc EXCEPT ![p] = [Doing(at, v, i) EXCEPT !.dir = dir]]
      PROVE  Names'
  <2> DEFINE to == [Doing(at, v, i) EXCEPT !.dir = dir]
  <2>1. to.at = at /\ to.i = i /\ to.dir = dir /\ ~to.byname
    BY DEF Doing
  <2>2. pc' = [pc EXCEPT ![p] = to] /\ pc[p] \in Job
    BY <1>2 DEF Inv, TypeOK
  <2> HIDE DEF to
  <2>3. pc'[p] = to /\ \A q \in Proc \ {p} : pc'[q] = pc[q]
    BY <2>2 DEF Inv, TypeOK
  <2>4. Quiet(p)
    BY <1>1, <2>3 DEF Quiet, Keeps
  <2>. QED  BY <1>1, <2>1, <2>3, <2>4, SearchNames DEF Seeks
<1>3. CASE /\ free # <<>>
           /\ IF inode[Head(free)] = None /\ ~xlock[Head(free)]
              THEN pc' = [pc EXCEPT ![p] = [Doing("fill", Head(free), i) EXCEPT !.dir = dir]]
              ELSE Vgonel(p, Head(free), i, "fill", dir)
  <2> DEFINE v == Head(free)
  <2>1. v \in Vnode
    BY <1>3 DEF Inv, TypeOK
  <2>2. /\ inode[v] = None /\ ~xlock[v] =>
             pc' = [pc EXCEPT ![p] = [Doing("fill", v, i) EXCEPT !.dir = dir]]
        /\ ~(inode[v] = None /\ ~xlock[v]) => Vgonel(p, v, i, "fill", dir)
    BY <1>3
  <2> HIDE DEF v
  <2>. QED  BY <1>1, <1>2, <2>1, <2>2, VgonelNames
<1>. QED  BY <1>2, <1>3 DEF Getnewvnode

(* The end of getnewvnode(): nobody has to do with the vnode but p.        *)
LEMMA FillNames ==
  ASSUME Inv, Names, ~Wild, NEW p \in Proc, Fill(p), NEW v, v = pc[p].v
  PROVE  Names'
<1> DEFINE ps == [pc EXCEPT ![p].at = "new"]
<1>1. /\ pc[p].at = "fill" /\ pc' = Outdated(v, ps)
      /\ \A j \in Inode : cached'[j] \in {cached[j], None}
      /\ UNCHANGED <<inode, link, named, holder>>
  BY DEF Fill, At, Purged
<1>2. /\ pc \in [Proc -> Job] /\ pc[p] \in Job /\ JobOK(pc[p]) /\ NameOK(p)
      /\ \A q \in Proc : pc[q] \in Job /\ JobOK(pc[q])
  BY DEF Inv, TypeOK, Names
<1>3. /\ ps \in [Proc -> Job]
      /\ \A q \in Proc \ {p} : ps[q] = pc[q]
      /\ ps[p].at = "new" /\ ps[p].v = v /\ ps[p].i = pc[p].i /\ ps[p].next = pc[p].next
      /\ ps[p].byname = pc[p].byname /\ ps[p].dir = pc[p].dir
      /\ ps[p].active = pc[p].active
  <2> DEFINE to == [pc[p] EXCEPT !.at = "new"]
  <2>1. /\ to \in Job /\ to.at = "new" /\ to.v = v /\ to.i = pc[p].i /\ to.next = pc[p].next
        /\ to.byname = pc[p].byname /\ to.dir = pc[p].dir /\ to.active = pc[p].active
    BY <1>2 DEF Job, Ats
  <2>2. ps = [pc EXCEPT ![p] = to]
    BY <1>2
  <2> HIDE DEF to
  <2>. QED  BY <2>1, <2>2, <1>2
<1> HIDE DEF ps
<1>4. \A q \in Proc : JobOK(ps[q])
  <2>1. JobOK(ps[p])
    BY <1>1, <1>2, <1>3 DEF JobOK
  <2>. QED  BY <2>1, <1>2, <1>3
<1>5. \A q \in Proc :
        /\ pc'[q].at = ps[q].at /\ pc'[q].v = ps[q].v /\ pc'[q].i = ps[q].i
        /\ pc'[q].next = ps[q].next /\ pc'[q].byname = ps[q].byname
        /\ (pc'[q].fresh => ps[q].fresh) /\ pc'[q].dir = ps[q].dir
  BY <1>1, <1>3, <1>4, OutdatedJobs
<1>6. \A q \in Proc \ {p} : Keeps(q)
  BY <1>3, <1>5 DEF Keeps
<1>7. Quiet(p)
  BY <1>1, <1>6 DEF Quiet
<1>8. /\ pc'[p].at = "new" /\ ~pc'[p].byname
      /\ pc'[p].dir => pc'[p].i \in named
  BY <1>1, <1>2, <1>3, <1>5 DEF NameOK, JobOK, At
<1>. QED  BY <1>7, <1>8, SearchNames DEF Seeks

(* Names that change at v are no matter to those who use another vnode.    *)
LEMMA ElsewhereNames ==
  ASSUME Inv, Names, ~Wild, NEW v \in Vnode, NEW q \in Proc, pc[q].v # v, Keeps(q),
         \A w \in Vnode \ {v} : link'[w] = link[w] /\ inode'[w] = inode[w] /\ holder'[w] = holder[w],
         \A i \in Inode : cached'[i] \in {cached[i], None, v},
         \A r \in Proc : pc'[r].v \in {v, None} \/ Keeps(r),
         pc[q].dir => At(q, "have") \/ pc[q].i \in named'
  PROVE  NameOK(q)'
<1> PICK w : w = pc[q].v
  OBVIOUS
<1>1. /\ NameOK(q) /\ pc'[q].at = pc[q].at /\ pc'[q].v = w /\ pc'[q].i = pc[q].i
      /\ pc'[q].byname = pc[q].byname /\ pc'[q].dir = pc[q].dir
      /\ pc'[q].fresh => pc[q].fresh
      /\ Seeks(pc[q])' <=> Seeks(pc[q])
  BY DEF Names, Keeps, Seeks
<1>2. pc'[q].dir => Seeks(pc[q])' /\ (At(q, "have")' \/ pc'[q].i \in named')
  BY <1>1 DEF NameOK, At
<1>3. CASE pc[q].at \notin {"lock", "have", "read", "drain"}
  BY <1>1, <1>2, <1>3 DEF NameOK, At
<1>4. CASE pc[q].at \in {"lock", "have", "read", "drain"}
  <2>1. w \in Vnode \ {v} /\ w # None
    BY <1>4, AtVnode, VnodeAssumption
  <2>2. link'[w] = link[w] /\ inode'[w] = inode[w] /\ holder'[w] = holder[w]
    BY <2>1
  <2>3. At(q, "drain") => inode[w] # None
    BY DEF Wild
  <2>4. ASSUME At(q, "read")
        PROVE  /\ \A i \in Inode : cached'[i] # w
               /\ \A r \in Users(w)' : ~(At(r, "lock") /\ pc[r].byname /\ pc[r].fresh)'
    <3>1. /\ \A i \in Inode : cached[i] # w
          /\ \A r \in Users(w) : ~(At(r, "lock") /\ pc[r].byname /\ pc[r].fresh)
      BY <1>1, <2>4 DEF NameOK
    <3>2. \A i \in Inode : cached'[i] # w
      BY <2>1, <3>1
    <3>3. \A r \in Users(w)' : r \in Users(w) /\ Keeps(r)
      BY <2>1 DEF Users, Keeps
    <3>. QED  BY <3>1, <3>2, <3>3 DEF Keeps, At
  <2>5. At(q, "lock") /\ pc[q].byname /\ pc[q].fresh => link[w] # "none"
    BY <1>1 DEF NameOK
  <2>6. At(q, "have") /\ (pc[q].byname \/ pc[q].dir) => holder[w] = q /\ link[w] # "none"
    BY <1>1 DEF NameOK
  <2>. QED  BY <1>1, <1>2, <2>2, <2>3, <2>4, <2>5, <2>6 DEF NameOK, At
<1>. QED  BY <1>3, <1>4

(* An inode that is in the hash, and not read yet, has no name that leads  *)
(* there.                                                                  *)
LEMMA IhashinsNames ==
  ASSUME Inv, Names, ~Wild, NEW p \in Proc, Ihashins(p), NEW v, v = pc[p].v
  PROVE  Names'
<1> DEFINE to == [pc[p] EXCEPT !.at = "read"]
<1>1. /\ pc[p].at = "new"
      /\ inode' = [inode EXCEPT ![v] = pc[p].i] /\ link' = [link EXCEPT ![v] = "unread"]
      /\ holder' = [holder EXCEPT ![v] = p] /\ pc' = [pc EXCEPT ![p] = to]
      /\ named' = named /\ cached' = cached
  BY DEF Ihashins, At
<1>2. /\ v \in Vnode /\ p \in Users(v) /\ Local(v) /\ NameOK(p) /\ v # None
      /\ pc[p] \in Job /\ JobOK(pc[p])
  BY <1>1, AtVnode, VnodeAssumption DEF Names
<1>3. /\ inode[v] = None /\ pc[p].i \in Inode /\ pc[p].i # None
      /\ \A q \in Users(v) : Refers(q) => q = p
  BY <1>1, <1>2, VnodeAssumption DEF Unshared, At, Local, JobOK
<1>4. /\ to.at = "read" /\ to.v = v /\ to.i = pc[p].i /\ to.dir = pc[p].dir
      /\ to.byname = pc[p].byname
  BY <1>2 DEF Job
<1> HIDE DEF to
<1>5. pc'[p] = to /\ \A q \in Proc \ {p} : pc'[q] = pc[q] /\ Keeps(q)
  BY <1>1 DEF Inv, TypeOK, Keeps
<1>6. /\ link'[v] = "unread" /\ inode'[v] = pc[p].i
      /\ \A w \in Vnode \ {v} : link'[w] = link[w] /\ inode'[w] = inode[w] /\ holder'[w] = holder[w]
      /\ link' \in [Vnode -> {"unread", "named", "none"}]
  BY <1>1, <1>2 DEF Inv, TypeOK, Names, Links
<1>7. Links'
  <2>1. \A i \in Inode : cached[i] # None => cached[i] \in Vnode
    BY DEF Inv, TypeOK
  <2>. QED  BY <1>1, <1>6, <2>1 DEF Names, Links
<1>8. \A i \in Inode : cached[i] # v
  BY <1>2, <1>3, VnodeAssumption DEF Inv, CachedSound
<1>9. Users(v)' = Users(v)
  BY <1>2, <1>4, <1>5 DEF Users
<1>10. \A q \in Users(v) : ~(At(q, "lock") /\ pc[q].byname /\ pc[q].fresh)'
  <2>1. \A q \in Users(v) \ {p} : ~Refers(q) /\ pc'[q] = pc[q]
    BY <1>3, <1>5 DEF Users
  <2>. QED  BY <2>1, <1>4, <1>5 DEF Refers, At
<1>11. NameOK(p)'
  BY <1>1, <1>2, <1>4, <1>5, <1>8, <1>9, <1>10 DEF NameOK, At, Seeks
<1>12. ASSUME NEW q \in Proc \ {p}
       PROVE  NameOK(q)'
  <2>1. pc'[q] = pc[q] /\ Keeps(q) /\ NameOK(q)
    BY <1>5 DEF Names
  <2>2. CASE pc[q].v # v
    <3>1. \A r \in Proc : pc'[r].v \in {v, None} \/ Keeps(r)
      BY <1>4, <1>5
    <3>2. pc[q].dir => At(q, "have") \/ pc[q].i \in named'
      BY <2>1, <1>1 DEF NameOK
    <3>. QED  BY <2>1, <2>2, <3>1, <3>2, <1>1, <1>2, <1>6, ElsewhereNames
  <2>3. CASE pc[q].v = v
    <3>1. ~Refers(q)
      BY <2>3, <1>3 DEF Users
    <3>2. ~At(q, "lock") /\ ~At(q, "have") /\ ~At(q, "read")
      BY <3>1 DEF Refers, At
    <3>. QED  BY <2>1, <2>3, <3>2, <1>1, <1>3, <1>6 DEF NameOK, At
  <2>. QED  BY <2>2, <2>3
<1>. QED  BY <1>7, <1>11, <1>12 DEF Names

(* The inode says whether it has a name; whoever searched the directory    *)
(* for it knows that it has.                                               *)
LEMMA ReadNames ==
  ASSUME Inv, Names, ~Wild, NEW p \in Proc, Read(p), NEW v, v = pc[p].v
  PROVE  Names'
<1> DEFINE to == [pc[p] EXCEPT !.at = "have"]
<1>1. /\ pc[p].at = "read" /\ pc' = [pc EXCEPT ![p] = to]
      /\ link' = [link EXCEPT ![v] = IF pc[p].i \in named THEN "named" ELSE "none"]
      /\ inode' = inode /\ holder' = holder /\ named' = named /\ cached' = cached
  BY DEF Read, At
<1>2. /\ v \in Vnode /\ p \in Users(v) /\ Local(v) /\ NameOK(p) /\ Place(p, v) /\ v # None
      /\ pc[p] \in Job /\ JobOK(pc[p])
  BY <1>1, AtVnode, VnodeAssumption DEF Names
<1>3. holder[v] = p /\ inode[v] = pc[p].i /\ ~pc[p].byname
  BY <1>1, <1>2 DEF Place, At, JobOK
<1>4. /\ to.at = "have" /\ to.v = v /\ to.i = pc[p].i /\ to.dir = pc[p].dir
      /\ to.byname = pc[p].byname
  BY <1>2 DEF Job
<1> HIDE DEF to
<1>5. pc'[p] = to /\ \A q \in Proc \ {p} : pc'[q] = pc[q] /\ Keeps(q)
  BY <1>1 DEF Inv, TypeOK, Keeps
<1>6. /\ link'[v] = (IF pc[p].i \in named THEN "named" ELSE "none")
      /\ \A w \in Vnode \ {v} : link'[w] = link[w]
      /\ link' \in [Vnode -> {"unread", "named", "none"}]
  BY <1>1, <1>2 DEF Names, Links
<1>7. /\ \A i \in Inode : cached[i] # v
      /\ \A q \in Users(v) : ~(At(q, "lock") /\ pc[q].byname /\ pc[q].fresh)
  BY <1>1, <1>2 DEF NameOK, At
<1>8. Links'
  <2>1. \A i \in Inode : cached[i] # None => cached[i] \in Vnode \ {v}
    BY <1>7 DEF Inv, TypeOK
  <2>. QED  BY <1>1, <1>3, <1>6, <2>1 DEF Names, Links
<1>9. pc[p].dir => pc[p].i \in named
  BY <1>1, <1>2 DEF NameOK, At
<1>10. NameOK(p)'
  BY <1>1, <1>3, <1>4, <1>5, <1>6, <1>9 DEF NameOK, At, Seeks
<1>11. ASSUME NEW q \in Proc \ {p}
       PROVE  NameOK(q)'
  <2>1. pc'[q] = pc[q] /\ Keeps(q) /\ NameOK(q)
    BY <1>5 DEF Names
  <2>2. CASE pc[q].v # v
    <3>1. \A r \in Proc : pc'[r].v \in {v, None} \/ Keeps(r)
      BY <1>4, <1>5
    <3>2. pc[q].dir => At(q, "have") \/ pc[q].i \in named'
      BY <2>1, <1>1 DEF NameOK
    <3>. QED  BY <2>1, <2>2, <3>1, <3>2, <1>1, <1>2, <1>6, ElsewhereNames
  <2>3. CASE pc[q].v = v
    <3>1. q \in Users(v) /\ Place(q, v)
      BY <2>3, <1>2 DEF Users, Local
    <3>2. ~At(q, "read")
      BY <3>1, <1>3 DEF Place, At
    <3>3. ~(At(q, "have") /\ (pc[q].byname \/ pc[q].dir))
      BY <2>1, <2>3, <1>3 DEF NameOK
    <3>4. ~(At(q, "lock") /\ pc[q].byname /\ pc[q].fresh)
      BY <3>1, <1>7
    <3>5. At(q, "drain") => inode[v] # None
      BY <2>3 DEF Wild
    <3>. QED  BY <2>1, <2>3, <3>2, <3>3, <3>4, <3>5, <1>1 DEF NameOK, At
  <2>. QED  BY <2>2, <2>3
<1>. QED  BY <1>8, <1>10, <1>11 DEF Names

(* What is entered in the cache was found in the directory.                *)
LEMMA CacheEnterNames ==
  ASSUME Inv, Names, ~Wild, NEW p \in Proc, CacheEnter(p), NEW v, v = pc[p].v
  PROVE  Names'
<1>1. /\ pc[p].at = "have" /\ holder[v] = p /\ pc[p].dir
      /\ cached' = [cached EXCEPT ![pc[p].i] = v]
      /\ UNCHANGED <<inode, link, holder, named, pc>>
  BY DEF CacheEnter, HasLocked, At
<1>2. v \in Vnode /\ v # None /\ link[v] # "none" /\ Local(v)
  BY <1>1, AtVnode, VnodeAssumption DEF Names, NameOK, At
<1>3. \A i \in Inode : cached'[i] \in {cached[i], v}
  BY <1>1 DEF Inv, TypeOK
<1>4. Links'
  BY <1>1, <1>2, <1>3 DEF Names, Links
<1>5. \A r \in Proc : Keeps(r) /\ pc'[r] = pc[r]
  BY <1>1 DEF Keeps
<1>6. ASSUME NEW q \in Proc
      PROVE  NameOK(q)'
  <2>1. NameOK(q) /\ pc'[q] = pc[q]
    BY <1>5 DEF Names
  <2>2. CASE pc[q].v # v
    <3>1. pc[q].dir => At(q, "have") \/ pc[q].i \in named'
      BY <2>1, <1>1 DEF NameOK
    <3>. QED  BY <2>2, <3>1, <1>1, <1>2, <1>3, <1>5, ElsewhereNames
  <2>3. CASE pc[q].v = v
    <3>1. Place(q, v)
      BY <2>3, <1>2 DEF Users, Local
    <3>2. ~At(q, "read")
      BY <3>1, <1>1 DEF Place, At
    <3>3. At(q, "drain") => inode[v] # None
      BY <2>3 DEF Wild
    <3>. QED  BY <2>1, <2>3, <3>2, <3>3, <1>1 DEF NameOK, At, Seeks
  <2>. QED  BY <2>2, <2>3
<1>. QED  BY <1>4, <1>6 DEF Names

(* A name goes while nobody else searches for it.                          *)
LEMMA RmdirNames ==
  ASSUME Inv, Names, ~Wild, NEW p \in Proc, Rmdir(p), NEW v, v = pc[p].v
  PROVE  Names'
<1> PICK i : i = pc[p].i
  OBVIOUS
<1> DEFINE ps == [pc EXCEPT ![p].byname = FALSE, ![p].dir = FALSE]
           to == [pc[p] EXCEPT !.byname = FALSE, !.dir = FALSE]
<1>1. /\ pc[p].at = "have" /\ holder[v] = p /\ ~Searched(i)
      /\ named' = named \ {i} /\ link' = [link EXCEPT ![v] = "none"]
      /\ cached' = [[j \in Inode |-> IF cached[j] = v THEN None ELSE cached[j]]
                      EXCEPT ![i] = None]
      /\ pc' = Outdated(v, ps)
      /\ inode' = inode /\ holder' = holder
  BY DEF Rmdir, HasLocked, At, Purged
<1>2. /\ v \in Vnode /\ v # None /\ p \in Users(v) /\ Local(v) /\ Place(p, v)
      /\ \A q \in Proc : pc[q] \in Job /\ JobOK(pc[q])
      /\ pc \in [Proc -> Job]
  <2>1. v \in Vnode /\ p \in Users(v) /\ Local(v) /\ Place(p, v)
    BY <1>1, AtVnode
  <2>. QED  BY <2>1, VnodeAssumption DEF Inv, TypeOK
<1>3. inode[v] = i /\ i \in Inode
  <2>1. inode[v] # None
    BY <1>1, <1>2, VnodeAssumption DEF Local, HolderSound
  <2>. QED  BY <2>1, <1>1, <1>2 DEF Place, Refers, JobOK
<1>4. /\ to \in Job /\ JobOK(to) /\ to.at = "have" /\ to.v = v /\ ~to.byname /\ ~to.dir
  <2>1. /\ to \in Job /\ to.at = "have" /\ to.v = v /\ ~to.byname /\ ~to.dir
        /\ to.i = pc[p].i /\ to.next = pc[p].next /\ to.active = pc[p].active
    BY <1>1, <1>2 DEF Job
  <2> HIDE DEF to
  <2>2. JobOK(to)
    BY <2>1, <1>1, <1>2 DEF JobOK
  <2>. QED  BY <2>1, <2>2
<1>5. ps \in [Proc -> Job] /\ ps[p] = to /\ \A q \in Proc \ {p} : ps[q] = pc[q]
  BY <1>2, <1>4
<1> HIDE DEF ps, to
<1>6. \A q \in Proc : JobOK(ps[q])
  BY <1>2, <1>4, <1>5
<1>7. \A q \in Proc :
        /\ pc'[q].at = ps[q].at /\ pc'[q].v = ps[q].v /\ pc'[q].i = ps[q].i
        /\ pc'[q].next = ps[q].next /\ pc'[q].byname = ps[q].byname
        /\ (pc'[q].fresh => ps[q].fresh) /\ pc'[q].dir = ps[q].dir
        /\ (pc'[q].fresh => ps[q].v # v)
  BY <1>1, <1>5, <1>6, OutdatedJobs
<1>8. \A q \in Proc \ {p} : Keeps(q)
  BY <1>5, <1>7 DEF Keeps
<1>9. /\ link'[v] = "none" /\ \A w \in Vnode \ {v} : link'[w] = link[w]
      /\ link' \in [Vnode -> {"unread", "named", "none"}]
  BY <1>1, <1>2 DEF Names, Links
<1>10. \A j \in Inode : cached'[j] \in {cached[j], None} /\ cached'[j] # v
  BY <1>1, <1>2, <1>3
<1>11. Links'
  <2>1. ASSUME NEW w \in Vnode, link'[w] = "none", inode[w] # None
        PROVE  inode[w] \notin named'
    BY <2>1, <1>1, <1>3, <1>9 DEF Names, Links
  <2>2. ASSUME NEW j \in Inode, cached'[j] # None
        PROVE  link'[cached'[j]] # "none"
    <3>1. cached'[j] = cached[j] /\ cached[j] \in Vnode \ {v}
      BY <2>2, <1>10 DEF Inv, TypeOK
    <3>. QED  BY <3>1, <2>2, <1>9 DEF Names, Links
  <2>. QED  BY <2>1, <2>2, <1>1, <1>9 DEF Links
<1>12. NameOK(p)'
  BY <1>4, <1>5, <1>7 DEF NameOK, At
<1>13. ASSUME NEW q \in Proc \ {p}
       PROVE  NameOK(q)'
  <2>1. Keeps(q) /\ NameOK(q)
    BY <1>8 DEF Names
  <2>2. pc[q].dir => At(q, "have") \/ pc[q].i \in named'
    <3>1. pc[q].dir /\ pc[q].i = i => At(q, "have")
      BY <1>1 DEF Searched
    <3>. QED  BY <2>1, <3>1, <1>1 DEF NameOK
  <2>3. CASE pc[q].v # v
    <3>1. \A r \in Proc : pc'[r].v \in {v, None} \/ Keeps(r)
      BY <1>4, <1>5, <1>7, <1>8
    <3>. QED  BY <2>1, <2>2, <2>3, <3>1, <1>1, <1>2, <1>9, <1>10, ElsewhereNames
  <2>4. CASE pc[q].v = v
    <3>1. Place(q, v)
      BY <2>4, <1>2 DEF Users, Local
    <3>2. ~At(q, "read")
      BY <3>1, <1>1 DEF Place, At
    <3>3. ~(At(q, "have") /\ (pc[q].byname \/ pc[q].dir))
      BY <2>1, <2>4, <1>1 DEF NameOK
    <3>4. ~pc'[q].fresh
      BY <2>4, <1>5, <1>7
    <3>5. At(q, "drain") => inode[v] # None
      BY <2>4 DEF Wild
    <3>6. pc'[q].dir => Seeks(pc[q])' /\ (At(q, "have")' \/ pc'[q].i \in named')
      BY <2>1, <2>2 DEF NameOK, Keeps, Seeks, At
    <3>. QED  BY <2>1, <2>4, <3>2, <3>3, <3>4, <3>5, <3>6, <1>1 DEF NameOK, At, Keeps
  <2>. QED  BY <2>3, <2>4
<1>. QED  BY <1>11, <1>12, <1>13 DEF Names

(* The end of cleaning: only a search that waited for it goes on.          *)
LEMMA CleanedNames ==
  ASSUME Inv, Names, ~Wild, NEW p \in Proc, Cleaned(p), NEW v, v = pc[p].v
  PROVE  Names'
<1> DEFINE last == pc[p].active /\ use[v] = 1
           ps == IF last THEN [pc EXCEPT ![p] = Doing("itself", v, None)]
                 ELSE [q \in Proc |-> IF q \in Woken(p, v) THEN After(pc[q]) ELSE pc[q]]
<1>1. /\ pc[p].at = "clean"
      /\ holder' = [holder EXCEPT ![v] = None] /\ inode' = [inode EXCEPT ![v] = None]
      /\ link' = [link EXCEPT ![v] = "unread"] /\ named' = named
      /\ cached' = [i \in Inode |-> IF cached[i] = v THEN None ELSE cached[i]]
      /\ pc' = Outdated(v, ps)
  BY DEF Cleaned, At, Purged
<1>2. /\ v \in Vnode /\ v # None /\ p \in Users(v)
      /\ \A q \in Proc : pc[q] \in Job /\ JobOK(pc[q])
      /\ pc \in [Proc -> Job]
  <2>1. v \in Vnode /\ p \in Users(v)
    BY <1>1, AtVnode
  <2>. QED  BY <2>1, VnodeAssumption DEF Inv, TypeOK
<1>3. \A q \in Users(v) \ {p} : pc[q].at \in {"ref", "clean?"}
  BY <1>1, CleanerAlone
<1>4. ASSUME NEW q \in Proc
      PROVE  /\ ps[q] \in Job /\ JobOK(ps[q])
             /\ ps[q] = pc[q]
                \/ (pc[q].v = v /\ ps[q].at = "itself" /\ ps[q].v = v /\ ~ps[q].dir)
                \/ (pc[q].v = v /\ ps[q] = After(pc[q]))
  <2>1. CASE last
    <3> DEFINE to == Doing("itself", v, None)
    <3>1. to \in Job /\ JobOK(to) /\ to.at = "itself" /\ to.v = v /\ ~to.dir
      BY <1>2 DEF Doing, Job, JobOK, Ats
    <3> HIDE DEF to
    <3>2. ps[q] = IF q = p THEN to ELSE pc[q]
      BY <2>1, <1>2 DEF to
    <3>. QED  BY <3>1, <3>2, <1>2 DEF Users
  <2>2. CASE ~last
    <3>1. ps[q] = IF q \in Woken(p, v) THEN After(pc[q]) ELSE pc[q]
      BY <2>2
    <3>2. q \in Woken(p, v) => pc[q].v = v
      BY <1>2 DEF Woken, Users
    <3>3. pc[q].v = v => After(pc[q]) \in Job /\ JobOK(After(pc[q]))
      BY <1>2, AfterJob
    <3> HIDE DEF ps
    <3>. QED  BY <3>1, <3>2, <3>3, <1>2
  <2>. QED  BY <2>1, <2>2
<1>5. ps \in [Proc -> Job]
  <2>1. \A q \in Proc : ps[q] \in Job
    BY <1>4
  <2>2. ps = [q \in Proc |-> ps[q]]
    <3>1. CASE last
      BY <3>1, <1>2
    <3>2. CASE ~last
      BY <3>2
    <3>. QED  BY <3>1, <3>2
  <2> HIDE DEF ps
  <2>. QED  BY <2>1, <2>2
<1> HIDE DEF ps
<1>6. \A q \in Proc :
        /\ pc'[q].at = ps[q].at /\ pc'[q].v = ps[q].v /\ pc'[q].i = ps[q].i
        /\ pc'[q].next = ps[q].next /\ pc'[q].byname = ps[q].byname
        /\ (pc'[q].fresh => ps[q].fresh) /\ pc'[q].dir = ps[q].dir
  BY <1>1, <1>4, <1>5, OutdatedJobs
<1>7. /\ link'[v] = "unread" /\ inode'[v] = None
      /\ \A w \in Vnode \ {v} : link'[w] = link[w] /\ inode'[w] = inode[w] /\ holder'[w] = holder[w]
      /\ link' \in [Vnode -> {"unread", "named", "none"}]
  BY <1>1, <1>2 DEF Inv, TypeOK, Names, Links
<1>8. \A i \in Inode : cached'[i] \in {cached[i], None} /\ cached'[i] # v
  BY <1>1, <1>2
<1>9. Links'
  <2>1. \A i \in Inode : cached'[i] # None => cached'[i] = cached[i] /\ cached[i] \in Vnode \ {v}
    BY <1>8 DEF Inv, TypeOK
  <2>. QED  BY <2>1, <1>1, <1>7 DEF Names, Links
<1>10. \A q \in Proc : pc[q].v # v => Keeps(q)
  BY <1>4, <1>6 DEF Keeps
<1>11. ASSUME NEW q \in Proc, pc[q].v = v, ps[q] = After(pc[q])
       PROVE  /\ pc'[q].at \in {"fill", "ref", "idle"} /\ pc'[q].v \in {v, None}
              /\ pc'[q].dir => pc'[q].at = "fill" /\ pc'[q].i \in named
  <2>1. pc[q].next \in {"fill", "ref", "idle"} /\ NameOK(q)
    BY <1>2 DEF Job, Names
  <2>2. CASE pc[q].next = "fill"
    <3> DEFINE to == [Doing("fill", pc[q].v, pc[q].i) EXCEPT !.dir = pc[q].dir]
    <3>1. to.at = "fill" /\ to.v = pc[q].v /\ to.i = pc[q].i /\ to.dir = pc[q].dir
      BY DEF Doing
    <3>2. ps[q] = to
      BY <1>11, <2>2 DEF After
    <3>3. ~At(q, "have")
      BY <2>2, <1>2 DEF JobOK, At
    <3> HIDE DEF to
    <3>. QED  BY <1>6, <1>11, <2>1, <3>1, <3>2, <3>3 DEF NameOK
  <2>3. CASE pc[q].next = "ref"
    <3>1. ps[q] = Doing("ref", pc[q].v, pc[q].i)
      BY <1>11, <2>3 DEF After
    <3>2. ps[q].at = "ref" /\ ps[q].v = pc[q].v /\ ~ps[q].dir
      BY <3>1 DEF Doing
    <3>. QED  BY <1>6, <1>11, <3>2
  <2>4. CASE pc[q].next = "idle"
    <3>1. ps[q] = Idle
      BY <1>11, <2>4 DEF After
    <3>2. ps[q].at = "idle" /\ ps[q].v = None /\ ~ps[q].dir
      BY <3>1 DEF Idle, Doing
    <3>. QED  BY <1>6, <3>2
  <2>. QED  BY <2>1, <2>2, <2>3, <2>4
<1>12. ASSUME NEW q \in Proc, pc[q].v = v
       PROVE  NameOK(q)' /\ pc'[q].v \in {v, None}
  <2>1. CASE ps[q] = After(pc[q])
    BY <1>1, <1>11, <1>12, <2>1 DEF NameOK, At, Seeks
  <2>2. CASE ps[q].at = "itself" /\ ps[q].v = v /\ ~ps[q].dir
    BY <1>6, <2>2 DEF NameOK, At
  <2>3. CASE ps[q] = pc[q] /\ q # p
    <3>1. pc'[q].at \in {"ref", "clean?"} /\ pc'[q].v = v /\ NameOK(q)
      BY <1>2, <1>3, <1>6, <1>12, <2>3 DEF Users, Names
    <3>2. pc'[q].dir => Seeks(pc[q])' /\ pc'[q].i \in named'
      BY <1>1, <1>3, <1>6, <1>12, <2>3, <3>1 DEF NameOK, Seeks, At
    <3>. QED  BY <3>1, <3>2 DEF NameOK, At
  <2>4. CASE ps[q] = pc[q] /\ q = p
    <3>1. last => ps[p].at = "itself"
      <4>1. Doing("itself", v, None).at = "itself"
        BY DEF Doing
      <4>. QED  BY <4>1, <1>2 DEF ps
    <3>2. ~last => ps[p] = After(pc[p])
      BY DEF ps, Woken
    <3>. QED  BY <2>1, <2>4, <3>1, <3>2, <1>1
  <2>. QED  BY <1>4, <2>1, <2>2, <2>3, <2>4
<1>13. ASSUME NEW q \in Proc, pc[q].v # v
       PROVE  NameOK(q)'
  <2>1. Keeps(q) /\ NameOK(q)
    BY <1>10, <1>13 DEF Names
  <2>2. \A r \in Proc : pc'[r].v \in {v, None} \/ Keeps(r)
    BY <1>10, <1>12
  <2>3. pc[q].dir => At(q, "have") \/ pc[q].i \in named'
    BY <2>1, <1>1 DEF NameOK
  <2>. QED  BY <1>2, <1>7, <1>8, <1>13, <2>1, <2>2, <2>3, ElsewhereNames
<1>. QED  BY <1>9, <1>12, <1>13 DEF Names

(* Every inode has its name at first, and nobody does anything.            *)
LEMMA InitNames ==
  ASSUME Init
  PROVE  Names
<1>1. Idle.at = "idle" /\ ~Idle.dir
  BY DEF Idle, Doing
<1>2. \A p \in Proc : pc[p] = Idle
  BY DEF Init
<1>3. Links
  BY DEF Init, Links
<1>. QED  BY <1>1, <1>2, <1>3 DEF Names, NameOK, At

(* Every step preserves Names.                                             *)
LEMMA StepNames ==
  ASSUME Inv, Names, [Next]_vars
  PROVE  Names'
<1>1. CASE UNCHANGED vars
  BY <1>1 DEF vars, Names, Links, NameOK, At, Seeks, Users, HalfMade
<1>2. CASE Next
  <2> PICK p \in Proc : ~Wild /\ (Run(p) \/ Call(p))
    BY <1>2 DEF Next
  <2>1. CASE Run(p)
    <3>1. CASE Locked(p)      BY <3>1, LockedNames
    <3>2. CASE Drain(p) \/ Malloced(p) \/ ReadFails(p)
      BY <3>2, GetsOnNames
    <3>3. CASE Cleaned(p)     BY <3>3, CleanedNames
    <3>4. CASE Fill(p)        BY <3>4, FillNames
    <3>5. CASE Ihashins(p)    BY <3>5, IhashinsNames
    <3>6. CASE Read(p)        BY <3>6, ReadNames
    <3>7. CASE Vput(p) \/ Unlock(p)
      BY <3>7, LetsGoNames
    <3>8. CASE Inactive(p)    BY <3>8, CleaningNames
    <3>. QED  BY <2>1, <3>1, <3>2, <3>3, <3>4, <3>5, <3>6, <3>7, <3>8 DEF Run
  <2>2. CASE Call(p)
    <3>1. CASE \E i \in Inode : CacheLookup(p, i) \/ HashLookup(p, i)
      BY <3>1, LookupNames
    <3>2. CASE \E i \in Inode, dir \in BOOLEAN : Getnewvnode(p, i, dir)
      BY <3>2, GetnewvnodeNames
    <3>3. CASE Revoke(p) \/ Vflush(p)
      BY <3>3, CleaningNames
    <3>4. CASE CacheEnter(p)  BY <3>4, CacheEnterNames
    <3>5. CASE Rmdir(p)       BY <3>5, RmdirNames
    <3>6. CASE Relock(p) \/ Vrele(p)
      BY <3>6, LetsGoNames
    <3>. QED  BY <2>2, <3>1, <3>2, <3>3, <3>4, <3>5, <3>6 DEF Call
  <2>. QED  BY <2>1, <2>2
<1>. QED  BY <1>1, <1>2

-----------------------------------------------------------------------------
(* What it says of the properties that the runs check.                     *)

(* Whoever took a vnode has it to himself. *)
LEMMA TakenSound ==
  ASSUME Inv, NEW v \in Vnode
  PROVE  /\ Taken(v) <=> \E p \in Users(v) : Takes(p)
         /\ Taken(v) => use[v] = 0 /\ (inode[v] = None \/ xlock[v])
<1>1. Taken(v) <=> \E p \in Users(v) : Takes(p)
  BY DEF Taken, Users, Takes, At
<1>2. ASSUME NEW p \in Users(v), Takes(p)
      PROVE  use[v] = 0 /\ (inode[v] = None \/ xlock[v])
  <2>1. Local(v) /\ Place(p, v) /\ JobOK(pc[p])
    BY DEF Inv, TypeOK, Local, Users
  <2>2. use[v] = 0
    BY <1>2, <2>1 DEF Local, TakenOnce
  <2>3. At(p, "fill") => inode[v] = None
    BY <2>1 DEF Place
  <2>4. pc[p].next = "fill" => xlock[v]
    BY <2>1 DEF Place, JobOK, At, Local, CleanedOnce, Cleans
  <2>. QED  BY <1>2, <2>2, <2>3, <2>4 DEF Takes
<1>. QED  BY <1>1, <1>2

(* In every reachable state both invariants hold. *)
THEOREM VnodesSound == Spec => [](Inv /\ Names)
<1>1. Init => Inv /\ Names
  BY InitInv, InitNames
<1>2. Inv /\ Names /\ [Next]_vars => Inv' /\ Names'
  BY StepInv, StepNames
<1>. QED  BY <1>1, <1>2, PTL DEF Spec

(* Through all sleeps of vget(), vput(), vrele(), vclean() and             *)
(* getnewvnode(), the use count of a vnode is the number of references to  *)
(* it, and the free list has just the unused vnodes that nobody took.      *)
THEOREM CountsAreExact == Spec => []CountsExact
<1>1. Inv => CountsExact
  <2> SUFFICES ASSUME Inv PROVE CountsExact
    OBVIOUS
  <2>1. ASSUME NEW v \in Vnode
        PROVE  /\ use[v] = References(v)
               /\ v \in ToSet(free) <=> v \in born /\ use[v] = 0 /\ ~Taken(v)
               /\ inode[v] # None /\ ~xlock[v] => v \in born /\ ~Taken(v)
               /\ xlock[v] <=> \E p \in Proc : /\ pc[p].v = v
                                               /\ pc[p].at \in {"drain", "clean", "itself"}
               /\ Taken(v) => use[v] = 0
    <3>1. Local(v)
      BY DEF Inv
    <3>2. v \in ToSet(free) <=> v \in born /\ use[v] = 0 /\ ~Taken(v)
      BY <3>1, TakenSound DEF Local, FreeExact
    <3>3. inode[v] # None /\ ~xlock[v] => v \in born /\ ~Taken(v)
      BY <3>1, TakenSound DEF Local, FreeExact
    <3>4. xlock[v] <=> \E p \in Proc : /\ pc[p].v = v
                                       /\ pc[p].at \in {"drain", "clean", "itself"}
      BY <3>1 DEF Local, CleanedOnce, Users, Cleans
    <3>. QED  BY <3>1, <3>2, <3>3, <3>4, TakenSound DEF Local
  <2>. QED  BY <2>1 DEF CountsExact, Inv, TypeOK
<1>. QED  BY <1>1, VnodesSound, PTL

(* An inode is not reclaimed under somebody who holds its lock or waits    *)
(* for it: LK_DRAIN in vclean() is enough. And vclean() finds a lock to    *)
(* drain, but in a vnode that ffs_vget() has not given its inode yet.      *)
THEOREM LockIsAlive == Spec => []LockAlive
<1>1. Inv /\ Names => LockAlive
  <2> SUFFICES ASSUME Inv, Names, NEW v \in Vnode
               PROVE  /\ holder[v] # None \/ Waiting(v) # {} => inode[v] # None
                      /\ (\E p \in Proc : At(p, "drain") /\ pc[p].v = v) =>
                           inode[v] # None \/ HalfMade(v)
    BY DEF LockAlive
  <2>1. Local(v)
    BY DEF Inv
  <2>2. holder[v] # None => inode[v] # None
    BY <2>1 DEF Local, HolderSound
  <2>3. Waiting(v) # {} => inode[v] # None
    BY <2>1 DEF Local, Place, Waiting, Waits, Users
  <2>4. ASSUME NEW p \in Proc, At(p, "drain"), pc[p].v = v
        PROVE  inode[v] # None \/ HalfMade(v)
    BY <2>4 DEF Names, NameOK
  <2>. QED  BY <2>2, <2>3, <2>4
<1>. QED  BY <1>1, VnodesSound, PTL

(* A vnode is not given another inode under somebody who came to it for    *)
(* this one; and what was found by a name, in the directory or by the      *)
(* cache and its capability numbers, still had the name when it was        *)
(* locked.                                                                 *)
THEOREM FileIsRight == Spec => []RightFile
<1>1. Inv /\ Names => RightFile
  <2> SUFFICES ASSUME Inv, Names, NEW p \in Proc, NEW v, v = pc[p].v
               PROVE  /\ pc[p].at \in {"lock", "have", "ref", "relock"} =>
                           inode[v] \in {pc[p].i, None}
                      /\ At(p, "have") /\ holder[v] = p => inode[v] = pc[p].i
                      /\ At(p, "have") /\ (pc[p].byname \/ pc[p].dir) => link[v] # "none"
                      /\ \A i \in Inode : cached[i] # None =>
                           inode[cached[i]] = i /\ link[cached[i]] # "none"
    BY DEF RightFile
  <2>1. \A i \in Inode : cached[i] # None =>
          inode[cached[i]] = i /\ link[cached[i]] # "none"
    BY DEF Inv, CachedSound, Names, Links
  <2>2. At(p, "have") /\ (pc[p].byname \/ pc[p].dir) => link[v] # "none"
    BY DEF Names, NameOK
  <2>3. ASSUME pc[p].at \in {"lock", "have", "ref", "relock"}
        PROVE  /\ inode[v] \in {pc[p].i, None}
               /\ At(p, "have") /\ holder[v] = p => inode[v] = pc[p].i
    <3>1. v \in Vnode /\ Local(v) /\ Place(p, v)
      BY <2>3, AtVnode
    <3>2. inode[v] \in {pc[p].i, None}
      BY <2>3, <3>1 DEF Place, Refers
    <3>3. holder[v] = p => inode[v] # None
      BY <3>1, VnodeAssumption DEF Local, HolderSound
    <3>. QED  BY <3>2, <3>3
  <2>. QED  BY <2>1, <2>2, <2>3 DEF At
<1>. QED  BY <1>1, VnodesSound, PTL

(* Whoever sleeps for a vnode sleeps for somebody who does not sleep for   *)
(* it himself, but for the one who waits for itself (CleaningEnds).        *)
THEOREM WaitForSomebody == Spec => []WaitsForSomebody
<1>1. Inv => WaitsForSomebody
  <2> SUFFICES ASSUME Inv, NEW p \in Proc, NEW v, v = pc[p].v
               PROVE  /\ At(p, "clean?") =>
                           \E q \in Proc : /\ pc[q].v = v
                                           /\ pc[q].at \in {"drain", "clean", "itself"}
                      /\ p \in Waiting(v) => holder[v] = None \/ Works(holder[v])
                      /\ At(p, "drain") => Drained(v) \/ Waiting(v) # {} \/ Works(holder[v])
    BY DEF WaitsForSomebody
  <2> SUFFICES ASSUME At(p, "clean?") \/ Waits(p) \/ At(p, "drain")
               PROVE  /\ At(p, "clean?") =>
                           \E q \in Proc : /\ pc[q].v = v
                                           /\ pc[q].at \in {"drain", "clean", "itself"}
                      /\ p \in Waiting(v) => holder[v] = None \/ Works(holder[v])
                      /\ At(p, "drain") => Drained(v) \/ Waiting(v) # {} \/ Works(holder[v])
    BY DEF Waiting, Waits
  <2>1. v \in Vnode /\ Local(v) /\ Place(p, v) /\ p \in Users(v)
    BY AtVnode DEF At, Waits
  <2>2. At(p, "clean?") => \E q \in Proc : /\ pc[q].v = v
                                           /\ pc[q].at \in {"drain", "clean", "itself"}
    BY <2>1 DEF Place, Local, CleanedOnce, Users, Cleans
  <2>3. ASSUME holder[v] # None, Waits(p) \/ At(p, "drain")
        PROVE  Works(holder[v])
    <3> DEFINE q == holder[v]
    <3>1. /\ q \in Users(v) /\ pc[q].at \in {"have", "stale", "read", "inactive", "clean"}
      BY <2>1, <2>3 DEF Local, HolderSound
    <3>2. Place(q, v)
      BY <2>1, <3>1 DEF Local
    <3> HIDE DEF q
    <3>3. pc[q].at # "clean"
      <4>1. Waits(p) => ~At(q, "clean")
        BY <2>1, <3>2 DEF Place
      <4>2. At(p, "drain") /\ At(q, "clean") => p = q
        BY <2>1, <3>1 DEF Local, CleanedOnce, Cleans, At
      <4>. QED  BY <4>1, <4>2, <2>3 DEF At
    <3>. QED  BY <3>1, <3>3 DEF Works, q
  <2>. QED  BY <2>2, <2>3 DEF Drained, Waiting, Waits
<1>. QED  BY <1>1, VnodesSound, PTL
=============================================================================
