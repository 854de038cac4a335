----------------------------- MODULE LockfProofs -----------------------------
(***************************************************************************)
(* Proofs about advisory locks: types, that no process sleeps for nothing, *)
(* that circles of sleepers are refused, and that the list implements the  *)
(* map of ByteLocks.                                                       *)
(*                                                                         *)
(* The inductive invariant is LockfInv. The list is sorted by owner        *)
(* (Listed), no process is on two queues or twice on one, and whoever is   *)
(* on a queue waits for a lock that conflicts with its request (Queues).   *)
(*                                                                         *)
(* An insertion or an unlock rebuilds the list (Cut). It is followed lock  *)
(* by lock: each lock of the new list comes from a place of the old one,   *)
(* or is the lock entered. From that come the order, the queues, and what  *)
(* each byte belongs to. The end of the module has the search for          *)
(* deadlocks, and the refinement.                                          *)
(***************************************************************************)
EXTENDS Lockf, ListLemmas, TLAPS

-----------------------------------------------------------------------------
(* The list as the code keeps it. Reach is the last byte of a range.       *)

Reach(k) == IF k.end = EOF THEN End ELSE k.end

Ranged(k) == k.start \in Byte /\ k.end \in (k.start .. (End - 1)) \cup {EOF}

Lock == {f \in [id : Owner, type : {"RD", "WR"}, start : Byte,
                end : Byte \cup {EOF}, blk : Seq(Proc)] : Ranged(f)}

Sorted(l) ==
  \A i \in DOMAIN l : \A j \in 1 .. (i - 1) :
    l[j].id = l[i].id => l[i].start > Reach(l[j])

Listed(l) == l \in Seq(Lock) /\ Sorted(l)

(* Nobody is on two queues, or twice on one.                               *)
Once(l) ==
  /\ \A i \in DOMAIN l : IsInjective(l[i].blk)
  /\ \A i, j \in DOMAIN l :
       i # j => ToSet(l[i].blk) \cap ToSet(l[j].blk) = {}

On(l, q) == \E i \in DOMAIN l : q \in ToSet(l[i].blk)

Queues ==
  /\ Once(list)
  /\ \A i \in DOMAIN list : \A q \in ToSet(list[i].blk) :
       pc[q] = "asleep" /\ (q \in missed \/ Conflict(list[i], req[q]))
  /\ \A q \in Proc : pc[q] = "asleep" => On(list, q)

(* A process in lf_split() has a lock that its request lies inside of.     *)
Around(f, k) ==
  /\ f.id = k.id /\ f.type # k.type
  /\ f.start < k.start /\ Reach(k) < Reach(f)

Splitting ==
  \A p \in Proc : pc[p] = "split" =>
    /\ req[p].id = p /\ req[p].type \in SplitSleeps
    /\ \E i \in DOMAIN list : Around(list[i], req[p])

States ==
  /\ pc \in [Proc -> {"idle", "called", "asleep", "retry", "split"}]
  /\ req \in [Proc -> {NoRequest} \cup UNION {Asks[p] : p \in Proc}]
  /\ \A p \in Proc :
       CASE pc[p] = "idle" -> req[p] = NoRequest
         [] pc[p] \in {"asleep", "retry"} -> req[p] \in Locks(p)
         [] pc[p] \in {"called", "split"} -> req[p] \in Asks[p]
  /\ stale \cup missed \subseteq {p \in Proc : pc[p] = "asleep"}
  /\ wild \in BOOLEAN

LockfInv == Listed(list) /\ States /\ Queues /\ Splitting

-----------------------------------------------------------------------------
(* How two ranges lie, in terms of their last bytes.                       *)

LEMMA ReachIs ==
  ASSUME NEW f, Ranged(f)
  PROVE  /\ f.start \in Int /\ Reach(f) \in Int /\ End \in Nat
         /\ 0 <= f.start /\ f.start <= Reach(f) /\ Reach(f) <= End
         /\ f.end = EOF <=> Reach(f) = End
         /\ f.end # EOF => Reach(f) = f.end
BY LockfAssumption DEF Ranged, Reach, Byte, EOF

LEMMA ApartIs ==
  ASSUME NEW f, NEW k, Ranged(f), Ranged(k)
  PROVE  /\ Apart(f, k) <=> k.start > Reach(f) \/ f.start > Reach(k)
         /\ Behind(f, k) <=> f.start > Reach(k)
<1>1. /\ f.end = EOF <=> Reach(f) = End
      /\ f.end # EOF => Reach(f) = f.end
      /\ k.end = EOF <=> Reach(k) = End
      /\ k.end # EOF => Reach(k) = k.end
  BY ReachIs
<1>2. /\ f.start \in Int /\ Reach(f) \in Int /\ End \in Nat
      /\ k.start \in Int /\ Reach(k) \in Int
      /\ f.start <= End /\ k.start <= End
      /\ f.start <= Reach(f) /\ k.start <= Reach(k)
  BY ReachIs, LockfAssumption DEF Ranged, Byte
<1>. QED  BY <1>1, <1>2 DEF Apart, Behind

(* The kinds of overlap.                                                    *)
LEMMA OverlapIs ==
  ASSUME NEW f, NEW k, Ranged(f), Ranged(k)
  PROVE  /\ Overlap(f, k) = 0 <=> Apart(f, k)
         /\ ~Apart(f, k) =>
              /\ Overlap(f, k) \in 1..5
              /\ Overlap(f, k) = 1 <=> f.start = k.start /\ Reach(f) = Reach(k)
              /\ Overlap(f, k) = 2 => /\ f.start <= k.start /\ Reach(k) <= Reach(f)
                                      /\ k.end # EOF
              /\ Overlap(f, k) = 3 <=>
                   /\ k.start <= f.start /\ Reach(f) <= Reach(k)
                   /\ Overlap(f, k) # 1
              /\ (Overlap(f, k) = 4 \/ (Overlap(f, k) = 2 /\ f.start # k.start))
                    <=> f.start < k.start
              /\ (Overlap(f, k) = 5 \/ (Overlap(f, k) = 2 /\ f.end # k.end))
                    <=> Reach(k) < Reach(f)
              /\ Reach(f) < Reach(k) => Overlap(f, k) \in {3, 4}
<1>1. /\ f.end = EOF <=> Reach(f) = End
      /\ f.end # EOF => Reach(f) = f.end
      /\ k.end = EOF <=> Reach(k) = End
      /\ k.end # EOF => Reach(k) = k.end
  BY ReachIs
<1>2. /\ f.start \in Int /\ Reach(f) \in Int /\ End \in Nat
      /\ k.start \in Int /\ Reach(k) \in Int
      /\ 0 <= f.start /\ 0 <= k.start
      /\ f.start <= Reach(f) /\ k.start <= Reach(k)
      /\ Reach(f) <= End /\ Reach(k) <= End
  BY ReachIs, LockfAssumption DEF Ranged, Byte
<1>3. f.end = k.end <=> Reach(f) = Reach(k)
  BY <1>1
<1>4. Encloses(f, k) <=> f.start <= k.start /\ k.end # EOF /\ Reach(k) <= Reach(f)
  BY <1>1, <1>2 DEF Encloses, EOF
<1>5. Within(f, k) <=> k.start <= f.start /\ Reach(f) <= Reach(k)
  BY <1>1, <1>2 DEF Within, EOF
<1>6. Overlap(f, k) =
        IF Apart(f, k) THEN 0
        ELSE IF f.start = k.start /\ f.end = k.end THEN 1
        ELSE IF Encloses(f, k) THEN 2
        ELSE IF Within(f, k) THEN 3
        ELSE IF f.start < k.start THEN 4 ELSE 5
  BY DEF Overlap
<1>7. k.end = EOF => Reach(f) <= Reach(k)
  BY <1>1, <1>2
<1>. QED  BY <1>2, <1>3, <1>4, <1>5, <1>6, <1>7

(* The locks that a request meets are those of its owner that overlap it:  *)
(* one that lies before such a lock neither ends the search nor lies       *)
(* behind the request.                                                      *)
LEMMA MetIs ==
  ASSUME NEW l, Listed(l), NEW k, Ranged(k)
  PROVE  \A i \in DOMAIN l : i \in Met(l, k) <=> l[i].id = k.id /\ ~Apart(l[i], k)
<1>1. \A i \in DOMAIN l : Ranged(l[i])
  BY DEF Listed, Lock
<1>2. ASSUME NEW i \in DOMAIN l, l[i].id = k.id, ~Apart(l[i], k)
      PROVE  i \in Met(l, k)
  <2>1. Overlap(l[i], k) # 0
    BY <1>1, <1>2, OverlapIs
  <2>2. ASSUME NEW j \in 1 .. (i - 1), l[j].id = k.id
        PROVE  Overlap(l[j], k) \in {0, 3, 4} /\ ~Behind(l[j], k)
    <3>1. j \in DOMAIN l
      BY DEF Listed
    <3>2. l[i].start > Reach(l[j])
      BY <1>2, <2>2 DEF Listed, Sorted
    <3>3. l[i].start <= Reach(k)
      BY <1>1, <1>2, ApartIs, ReachIs
    <3>4. Reach(l[j]) < Reach(k)
      <4>1. l[i].start \in Int /\ Reach(l[j]) \in Int /\ Reach(k) \in Int
        BY <1>1, <3>1, ReachIs
      <4>. QED  BY <4>1, <3>2, <3>3
    <3>5. Ranged(l[j])
      BY <1>1, <3>1
    <3>6. Overlap(l[j], k) \in {0, 3, 4}
      BY <3>4, <3>5, OverlapIs
    <3>7. ~Behind(l[j], k)
      <4>1. Behind(l[j], k) <=> l[j].start > Reach(k)
        BY <3>5, ApartIs
      <4>2. l[j].start \in Int /\ Reach(l[j]) \in Int /\ Reach(k) \in Int
            /\ l[j].start <= Reach(l[j])
        BY <3>5, ReachIs
      <4>. QED  BY <4>1, <4>2, <3>4
    <3>. QED  BY <3>6, <3>7
  <2>. QED  BY <1>2, <2>1, <2>2 DEF Met
<1>3. ASSUME NEW i \in DOMAIN l, i \in Met(l, k)
      PROVE  l[i].id = k.id /\ ~Apart(l[i], k)
  <2>1. l[i].id = k.id /\ Overlap(l[i], k) # 0
    BY <1>3 DEF Met
  <2>. QED  BY <2>1, <1>1, OverlapIs
<1>. QED  BY <1>2, <1>3

(* A set of numbers has a least one.                                        *)
LEMMA LeastIs ==
  ASSUME NEW S, S \subseteq Nat, S # {}
  PROVE  Min(S) \in S /\ \A m \in S : Min(S) <= m
<1> DEFINE R == OpToRel(<, Nat)
<1>1. IsWellFoundedOn(R, Nat)
  BY NatLessThanWellFounded
<1>2. PICK x \in S : \A y \in S : ~(<<y, x>> \in R)
  BY <1>1, WFMin, Zenon
<1>3. ASSUME NEW y \in S
      PROVE  x <= y
  <2>1. x \in Nat /\ y \in Nat
    OBVIOUS
  <2>2. y < x => <<y, x>> \in R
    BY <2>1 DEF OpToRel
  <2> HIDE DEF R
  <2>. QED  BY <2>1, <2>2, <1>2
<1>. QED  BY <1>3 DEF Min

(* The place of a request among the locks of its owner: all those before   *)
(* it end before the request, all those from there on that it does not     *)
(* meet lie behind it.                                                      *)
LEMMA PlaceIs ==
  ASSUME NEW l, Listed(l), NEW k, Ranged(k)
  PROVE  /\ Place(l, k) \in 1 .. (Len(l) + 1)
         /\ \A i \in DOMAIN l : l[i].id = k.id =>
              /\ i \in Met(l, k) => Place(l, k) <= i
              /\ i \in Met(l, k) /\ i # Place(l, k) => k.start < l[i].start
              /\ i \notin Met(l, k) /\ i < Place(l, k) => Reach(l[i]) < k.start
              /\ i \notin Met(l, k) /\ Place(l, k) <= i => Reach(k) < l[i].start
<1> DEFINE P == Place(l, k)
           B == {i \in DOMAIN l : l[i].id = k.id /\ Behind(l[i], k)} \cup {Len(l) + 1}
<1>1. \A i \in DOMAIN l : Ranged(l[i])
  BY DEF Listed, Lock
<1>2. /\ Len(l) \in Nat /\ DOMAIN l = 1..Len(l)
      /\ Met(l, k) \subseteq 1..Len(l) /\ Met(l, k) \subseteq Nat
      /\ B \subseteq 1..(Len(l) + 1) /\ B \subseteq Nat /\ B # {}
  BY DEF Listed, Met
<1>3. /\ Met(l, k) # {} => P \in Met(l, k) /\ \A m \in Met(l, k) : P <= m
      /\ Met(l, k) = {} => P \in B /\ \A m \in B : P <= m
  BY <1>2, LeastIs DEF Place
<1>4. P \in 1..(Len(l) + 1)
  BY <1>2, <1>3
<1>5. ASSUME NEW i \in DOMAIN l, l[i].id = k.id
      PROVE  /\ i \in Int /\ l[i].start \in Int /\ Reach(l[i]) \in Int
             /\ k.start \in Int /\ Reach(k) \in Int
             /\ k.start <= Reach(k) /\ l[i].start <= Reach(l[i])
             /\ i \in Met(l, k) <=> ~(k.start > Reach(l[i]) \/ l[i].start > Reach(k))
             /\ Behind(l[i], k) <=> l[i].start > Reach(k)
  BY <1>1, <1>2, <1>5, ReachIs, ApartIs, MetIs
<1>6. ASSUME NEW i \in DOMAIN l, l[i].id = k.id, NEW j \in DOMAIN l,
             l[j].id = k.id, j < i
      PROVE  l[i].start > Reach(l[j])
  <2>1. j \in 1 .. (i - 1)
    BY <1>2, <1>6
  <2>. QED  BY <2>1, <1>6 DEF Listed, Sorted
<1> HIDE DEF P, B
<1>7. CASE Met(l, k) # {}
  <2>1. P \in DOMAIN l /\ l[P].id = k.id /\ P \in Met(l, k)
    BY <1>2, <1>3, <1>7, MetIs
  <2>2. ASSUME NEW i \in DOMAIN l, l[i].id = k.id
        PROVE  /\ i \in Met(l, k) => P <= i
               /\ i \in Met(l, k) /\ i # P => k.start < l[i].start
               /\ i \notin Met(l, k) /\ i < P => Reach(l[i]) < k.start
               /\ i \notin Met(l, k) /\ P <= i => Reach(k) < l[i].start
    <3>1. i < P => Reach(l[i]) < l[P].start
      BY <2>1, <2>2, <1>6, <1>5
    <3>2. P < i => Reach(l[P]) < l[i].start
      BY <2>1, <2>2, <1>6, <1>5
    <3>3. /\ P \in Int /\ l[P].start \in Int /\ Reach(l[P]) \in Int
          /\ k.start \in Int /\ Reach(k) \in Int
          /\ ~(k.start > Reach(l[P]) \/ l[P].start > Reach(k))
      BY <2>1, <1>5
    <3>4. /\ i \in Int /\ l[i].start \in Int /\ Reach(l[i]) \in Int
          /\ l[i].start <= Reach(l[i])
          /\ i \in Met(l, k) <=> ~(k.start > Reach(l[i]) \/ l[i].start > Reach(k))
      BY <2>2, <1>5
    <3>5. i \in Met(l, k) => P <= i
      BY <1>3
    <3>6. i = P => i \in Met(l, k)
      BY <2>1
    <3>. QED  BY <3>1, <3>2, <3>3, <3>4, <3>5, <3>6
  <2>. QED  BY <2>2, <1>4 DEF P
<1>8. CASE Met(l, k) = {}
  <2>2. ASSUME NEW i \in DOMAIN l, l[i].id = k.id
        PROVE  /\ i \notin Met(l, k)
               /\ i < P => Reach(l[i]) < k.start
               /\ P <= i => Reach(k) < l[i].start
    <3>1. Behind(l[i], k) => P <= i
      BY <1>3, <1>8, <2>2 DEF B
    <3>2. P = i => Behind(l[i], k)
      <4>1. i # Len(l) + 1
        BY <1>2
      <4>. QED  BY <4>1, <1>3, <1>8 DEF B
    <3>3. P < i => Reach(l[P]) < l[i].start /\ Reach(k) < l[P].start
                   /\ l[P].start <= Reach(l[P]) /\ l[P].start \in Int /\ Reach(l[P]) \in Int
      <4>1. SUFFICES ASSUME P < i
                     PROVE  P \in DOMAIN l /\ l[P].id = k.id /\ Behind(l[P], k)
        BY <1>5, <1>6, <2>2
      <4>2. P # Len(l) + 1
        BY <4>1, <1>2
      <4>. QED  BY <4>2, <1>3, <1>8 DEF B
    <3>4. /\ i \in Int /\ l[i].start \in Int /\ Reach(l[i]) \in Int /\ P \in Int
          /\ l[i].start <= Reach(l[i]) /\ k.start \in Int /\ Reach(k) \in Int
          /\ i \in Met(l, k) <=> ~(k.start > Reach(l[i]) \/ l[i].start > Reach(k))
          /\ Behind(l[i], k) <=> l[i].start > Reach(k)
      BY <2>2, <1>5, <1>4
    <3>5. i \notin Met(l, k)
      BY <1>8
    <3>. QED  BY <3>1, <3>2, <3>3, <3>4, <3>5
  <2>3. \A i \in DOMAIN l : l[i].id = k.id =>
          /\ i \in Met(l, k) => P <= i
          /\ i \in Met(l, k) /\ i # P => k.start < l[i].start
          /\ i \notin Met(l, k) /\ i < P => Reach(l[i]) < k.start
          /\ i \notin Met(l, k) /\ P <= i => Reach(k) < l[i].start
    BY <2>2
  <2>. QED  BY <2>3, <1>4 DEF P
<1>. QED  BY <1>7, <1>8

-----------------------------------------------------------------------------
(* What Cut makes of a list.                                               *)

(* g is what is left of f before k, or behind it.                          *)
IsLeft(g, f, k) ==
  /\ g \in Lock /\ g.id = f.id /\ g.type = f.type
  /\ f.start < k.start /\ g.start = f.start /\ Reach(g) = k.start - 1
  /\ g.blk = f.blk

IsRight(g, f, k) ==
  /\ g \in Lock /\ g.id = f.id /\ g.type = f.type
  /\ Reach(k) < Reach(f) /\ g.start = Reach(k) + 1 /\ Reach(g) = Reach(f)
  /\ g.blk = IF f.start < k.start THEN <<>> ELSE f.blk

LEMMA LeftIs ==
  ASSUME NEW f \in Lock, NEW k, Ranged(k), ~Apart(f, k)
  PROVE  /\ f.start < k.start => \E g \in Lock : Left(f, k) = <<g>> /\ IsLeft(g, f, k)
         /\ ~(f.start < k.start) => Left(f, k) = <<>>
<1>1. Ranged(f)
  BY DEF Lock
<1>2. (Overlap(f, k) = 4 \/ (Overlap(f, k) = 2 /\ f.start # k.start))
        <=> f.start < k.start
  BY <1>1, OverlapIs
<1>3. ASSUME f.start < k.start
      PROVE  \E g \in Lock : Left(f, k) = <<g>> /\ IsLeft(g, f, k)
  <2> DEFINE g == [f EXCEPT !.end = k.start - 1]
  <2>1. Left(f, k) = <<g>>
    BY <1>2, <1>3 DEF Left
  <2>2. f \in [id : Owner, type : {"RD", "WR"}, start : Byte,
               end : Byte \cup {EOF}, blk : Seq(Proc)]
    BY DEF Lock
  <2>3. /\ k.start \in 0..End /\ f.start \in 0..End /\ End \in Nat
        /\ k.start - 1 \in f.start..(End - 1) /\ k.start - 1 \in 0..End
        /\ k.start - 1 # -1
    BY <1>1, <1>3, LockfAssumption DEF Ranged, Byte
  <2>4. /\ g.id = f.id /\ g.type = f.type /\ g.start = f.start
        /\ g.end = k.start - 1 /\ g.blk = f.blk
        /\ g \in [id : Owner, type : {"RD", "WR"}, start : Byte,
                  end : Byte \cup {EOF}, blk : Seq(Proc)]
    BY <2>2, <2>3 DEF Byte
  <2> HIDE DEF g
  <2>5. Ranged(g)
    BY <2>3, <2>4 DEF Ranged, Byte
  <2>6. Reach(g) = k.start - 1
    BY <2>3, <2>4 DEF Reach, EOF
  <2>7. g \in Lock
    BY <2>4, <2>5 DEF Lock
  <2>8. IsLeft(g, f, k)
    BY <1>3, <2>4, <2>6, <2>7 DEF IsLeft
  <2>. QED  BY <2>1, <2>7, <2>8
<1>4. ~(f.start < k.start) => Left(f, k) = <<>>
  BY <1>2 DEF Left
<1>. QED  BY <1>3, <1>4

LEMMA RightIs ==
  ASSUME NEW f \in Lock, NEW k, Ranged(k), ~Apart(f, k)
  PROVE  /\ Reach(k) < Reach(f) => \E g \in Lock : Right(f, k) = <<g>> /\ IsRight(g, f, k)
         /\ ~(Reach(k) < Reach(f)) => Right(f, k) = <<>>
<1>1. Ranged(f)
  BY DEF Lock
<1>2. (Overlap(f, k) = 5 \/ (Overlap(f, k) = 2 /\ f.end # k.end))
        <=> Reach(k) < Reach(f)
  BY <1>1, OverlapIs
<1>3. ASSUME Reach(k) < Reach(f)
      PROVE  \E g \in Lock : Right(f, k) = <<g>> /\ IsRight(g, f, k)
  <2> DEFINE b == IF Left(f, k) = <<>> THEN f.blk ELSE <<>>
             g == [f EXCEPT !.start = k.end + 1, !.blk = b]
  <2>1. Right(f, k) = <<g>>
    BY <1>2, <1>3 DEF Right
  <2>2. f \in [id : Owner, type : {"RD", "WR"}, start : Byte,
               end : Byte \cup {EOF}, blk : Seq(Proc)]
    BY DEF Lock
  <2>3. b \in Seq(Proc) /\ b = IF f.start < k.start THEN <<>> ELSE f.blk
    <3>1. Left(f, k) = <<>> <=> ~(f.start < k.start)
      <4>1. f.start < k.start => \E v : Left(f, k) = <<v>>
        BY LeftIs
      <4>. QED  BY <4>1, LeftIs
    <3>2. f.blk \in Seq(Proc) /\ <<>> \in Seq(Proc)
      BY <2>2
    <3>. QED  BY <3>1, <3>2
  <2>4. /\ k.end # EOF /\ k.end = Reach(k)
        /\ f.end # EOF => Reach(f) = f.end
        /\ f.end = EOF => Reach(f) = End
        /\ Reach(f) \in Int /\ Reach(k) \in Int /\ Reach(f) <= End /\ 0 <= Reach(k)
    BY <1>1, <1>3, ReachIs
  <2>5. k.end + 1 \in 0..End /\ End \in Nat /\ k.end + 1 <= Reach(f)
    BY <1>3, <2>4, LockfAssumption
  <2> HIDE DEF b
  <2>6. /\ g.id = f.id /\ g.type = f.type /\ g.start = k.end + 1
        /\ g.end = f.end /\ g.blk = b
        /\ g \in [id : Owner, type : {"RD", "WR"}, start : Byte,
                  end : Byte \cup {EOF}, blk : Seq(Proc)]
    BY <2>2, <2>3, <2>5 DEF Byte
  <2> HIDE DEF g
  <2>7. Reach(g) = Reach(f)
    BY <2>6 DEF Reach
  <2>8. Ranged(g)
    BY <1>1, <2>4, <2>5, <2>6 DEF Ranged, Byte
  <2>9. g \in Lock
    BY <2>6, <2>8 DEF Lock
  <2>10. IsRight(g, f, k)
    BY <1>3, <2>3, <2>4, <2>6, <2>7, <2>9 DEF IsRight
  <2>. QED  BY <2>1, <2>9, <2>10
<1>4. ~(Reach(k) < Reach(f)) => Right(f, k) = <<>>
  BY <1>2 DEF Right
<1>. QED  BY <1>3, <1>4

(* Where the lock g of the new list comes from: it is what is left of      *)
(* lock i before (c = 1) or behind (3) the request, the lock that is put   *)
(* at its place (2), or a lock that the request does not meet (3).         *)
From(l, k, mid, g, i, c) ==
  \/ c = 1 /\ i \in Met(l, k) /\ IsLeft(g, l[i], k)
  \/ c = 2 /\ i = Place(l, k) /\ mid = <<g>>
  \/ c = 3 /\ i \in Met(l, k) /\ IsRight(g, l[i], k)
  \/ c = 3 /\ i \in DOMAIN l \ Met(l, k) /\ g = l[i]

CutOf(l, k, mid, t, at, of) ==
  /\ at \in [1..Len(t) -> 1..(Len(l) + 1)] /\ of \in [1..Len(t) -> 1..3]
  /\ \A n \in 1..Len(t) : From(l, k, mid, t[n], at[n], of[n])
  /\ \A n \in 1..Len(t) : \A j \in 1..(n - 1) :
       at[j] < at[n] \/ (at[j] = at[n] /\ of[j] < of[n])
  /\ \A i \in Met(l, k) :
       /\ l[i].start < k.start => \E n \in 1..Len(t) : at[n] = i /\ of[n] = 1
       /\ Reach(k) < Reach(l[i]) => \E n \in 1..Len(t) : at[n] = i /\ of[n] = 3
  /\ \A i \in DOMAIN l \ Met(l, k) : \E n \in 1..Len(t) : at[n] = i /\ of[n] = 3
  /\ mid # <<>> => \E n \in 1..Len(t) : at[n] = Place(l, k) /\ of[n] = 2

Parts(l, k, mid) ==
  [i \in 1 .. (Len(l) + 1) |->
     [c \in 1 .. 3 |->
        IF c = 1 THEN IF i \in Met(l, k) THEN Left(l[i], k) ELSE <<>>
        ELSE IF c = 2 THEN IF i = Place(l, k) THEN mid ELSE <<>>
        ELSE IF i \in Met(l, k) THEN Right(l[i], k)
             ELSE IF i \in DOMAIN l THEN <<l[i]>> ELSE <<>>]]

LEMMA PartsAre ==
  ASSUME NEW l, Listed(l), NEW k, Ranged(k), NEW mid \in Seq(Lock), Len(mid) <= 1,
         NEW i \in 1 .. (Len(l) + 1)
  PROVE  LET s == Parts(l, k, mid)[i]
         IN  /\ \A c \in 1 .. 3 : s[c] \in Seq(Lock) /\ Len(s[c]) <= 1
             /\ \A c \in 1 .. 3 : \A g : s[c] = <<g>> => From(l, k, mid, g, i, c)
             /\ i \in Met(l, k) /\ l[i].start < k.start => s[1] # <<>>
             /\ i \in Met(l, k) /\ Reach(k) < Reach(l[i]) => s[3] # <<>>
             /\ i \in DOMAIN l \ Met(l, k) => s[3] # <<>>
             /\ i = Place(l, k) /\ mid # <<>> => s[2] # <<>>
<1> DEFINE s == Parts(l, k, mid)[i]
<1>1. /\ s[1] = IF i \in Met(l, k) THEN Left(l[i], k) ELSE <<>>
      /\ s[2] = IF i = Place(l, k) THEN mid ELSE <<>>
      /\ s[3] = IF i \in Met(l, k) THEN Right(l[i], k)
                ELSE IF i \in DOMAIN l THEN <<l[i]>> ELSE <<>>
  BY DEF Parts
<1> HIDE DEF s
<1>2. i \in DOMAIN l => l[i] \in Lock
  BY DEF Listed
<1>3. i \in Met(l, k) => i \in DOMAIN l /\ ~Apart(l[i], k)
  <2>1. i \in Met(l, k) => i \in DOMAIN l
    BY DEF Met
  <2>. QED  BY <2>1, MetIs
<1>4. \A g : <<g>> # <<>>
  OBVIOUS
<1>5. \A g, h : <<g>> = <<h>> => g = h
  OBVIOUS
<1>6. /\ <<>> \in Seq(Lock) /\ Len(<<>>) <= 1
      /\ \A g \in Lock : <<g>> \in Seq(Lock) /\ Len(<<g>>) <= 1
  OBVIOUS
<1>7. /\ s[1] \in Seq(Lock) /\ Len(s[1]) <= 1
      /\ \A g : s[1] = <<g>> => From(l, k, mid, g, i, 1)
      /\ i \in Met(l, k) /\ l[i].start < k.start => s[1] # <<>>
  <2>1. CASE i \in Met(l, k) /\ l[i].start < k.start
    <3>1. PICK g \in Lock : Left(l[i], k) = <<g>> /\ IsLeft(g, l[i], k)
      BY <2>1, <1>2, <1>3, LeftIs
    <3>2. s[1] = <<g>>
      BY <3>1, <2>1, <1>1
    <3>. QED  BY <3>1, <3>2, <2>1, <1>4, <1>5, <1>6, Zenon DEF From
  <2>2. CASE ~(i \in Met(l, k) /\ l[i].start < k.start)
    <3>1. s[1] = <<>>
      BY <2>2, <1>1, <1>2, <1>3, LeftIs
    <3>. QED  BY <3>1, <2>2, <1>4, <1>6, Zenon
  <2>. QED  BY <2>1, <2>2
<1>8. /\ s[2] \in Seq(Lock) /\ Len(s[2]) <= 1
      /\ \A g : s[2] = <<g>> => From(l, k, mid, g, i, 2)
      /\ i = Place(l, k) /\ mid # <<>> => s[2] # <<>>
  BY <1>1, <1>4, <1>6, Zenon DEF From
<1>9. /\ s[3] \in Seq(Lock) /\ Len(s[3]) <= 1
      /\ \A g : s[3] = <<g>> => From(l, k, mid, g, i, 3)
      /\ i \in Met(l, k) /\ Reach(k) < Reach(l[i]) => s[3] # <<>>
      /\ i \in DOMAIN l \ Met(l, k) => s[3] # <<>>
  <2>1. CASE i \in Met(l, k) /\ Reach(k) < Reach(l[i])
    <3>1. PICK g \in Lock : Right(l[i], k) = <<g>> /\ IsRight(g, l[i], k)
      BY <2>1, <1>2, <1>3, RightIs
    <3>2. s[3] = <<g>>
      BY <3>1, <2>1, <1>1
    <3>. QED  BY <3>1, <3>2, <2>1, <1>4, <1>5, <1>6, Zenon DEF From
  <2>2. CASE i \in Met(l, k) /\ ~(Reach(k) < Reach(l[i]))
    <3>1. s[3] = <<>>
      BY <2>2, <1>1, <1>2, <1>3, RightIs
    <3>. QED  BY <3>1, <2>2, <1>4, <1>6, Zenon
  <2>3. CASE i \in DOMAIN l \ Met(l, k)
    <3>1. s[3] = <<l[i]>>
      BY <2>3, <1>1
    <3>. QED  BY <3>1, <2>3, <1>2, <1>4, <1>5, <1>6, Zenon DEF From
  <2>4. CASE i \notin DOMAIN l
    <3>1. s[3] = <<>> /\ i \notin Met(l, k)
      BY <2>4, <1>1, <1>3
    <3>. QED  BY <3>1, <2>4, <1>4, <1>6, Zenon
  <2>. QED  BY <2>1, <2>2, <2>3, <2>4
<1>10. \A c \in 1 .. 3 : c = 1 \/ c = 2 \/ c = 3
  OBVIOUS
<1>. QED  BY <1>7, <1>8, <1>9, <1>10, Zenon DEF s

LEMMA CutIs ==
  ASSUME NEW l, Listed(l), NEW k, Ranged(k), NEW mid \in Seq(Lock), Len(mid) <= 1
  PROVE  /\ Cut(l, k, mid) \in Seq(Lock)
         /\ \E at, of : CutOf(l, k, mid, Cut(l, k, mid), at, of)
<1> DEFINE m == Len(l) + 1
           parts == Parts(l, k, mid)
           s == [i \in 1..m |-> parts[i][1] \o parts[i][2] \o parts[i][3]]
           t == Cut(l, k, mid)
<1>1. m \in Nat /\ DOMAIN l \subseteq 1..m /\ Met(l, k) \subseteq 1..m
  BY DEF Listed, Met
<1>2. \A i \in 1..m :
         /\ \A c \in 1 .. 3 : parts[i][c] \in Seq(Lock) /\ Len(parts[i][c]) <= 1
         /\ \A c \in 1 .. 3 : \A g :
              parts[i][c] = <<g>> => From(l, k, mid, g, i, c)
         /\ i \in Met(l, k) /\ l[i].start < k.start => parts[i][1] # <<>>
         /\ i \in Met(l, k) /\ Reach(k) < Reach(l[i]) => parts[i][3] # <<>>
         /\ i \in DOMAIN l \ Met(l, k) => parts[i][3] # <<>>
         /\ i = Place(l, k) /\ mid # <<>> => parts[i][2] # <<>>
  BY PartsAre
<1>3. t = FlattenSeq(s)
  <2>1. ASSUME NEW i \in 1..m
        PROVE  parts[i][1] \o parts[i][2] \o parts[i][3] =
                 (IF i \in Met(l, k) THEN Left(l[i], k) ELSE <<>>)
                   \o (IF i = Place(l, k) THEN mid ELSE <<>>)
                   \o (IF i \in Met(l, k) THEN Right(l[i], k)
                       ELSE IF i \in DOMAIN l THEN <<l[i]>> ELSE <<>>)
    <3>1. /\ parts[i][1] = IF i \in Met(l, k) THEN Left(l[i], k) ELSE <<>>
          /\ parts[i][2] = IF i = Place(l, k) THEN mid ELSE <<>>
          /\ parts[i][3] = IF i \in Met(l, k) THEN Right(l[i], k)
                ELSE IF i \in DOMAIN l THEN <<l[i]>> ELSE <<>>
      BY DEF Parts
    <3>. QED  BY <3>1, Zenon
  <2>2. s = [i \in 1..m |-> (IF i \in Met(l, k) THEN Left(l[i], k) ELSE <<>>)
                   \o (IF i = Place(l, k) THEN mid ELSE <<>>)
                   \o (IF i \in Met(l, k) THEN Right(l[i], k)
                       ELSE IF i \in DOMAIN l THEN <<l[i]>> ELSE <<>>)]
    BY <2>1, Zenon
  <2>. QED  BY <2>2, Zenon DEF Cut
<1>4. FlattenSeq(s) \in Seq(Lock)
      /\ \E at, of : Sourced(parts, m, FlattenSeq(s), at, of)
  <2>1. \A i \in 1..m : \A c \in 1..3 :
           parts[i][c] \in Seq(Lock) /\ Len(parts[i][c]) <= 1
    BY <1>2, Zenon
  <2> HIDE DEF m, parts
  <2>. QED  BY <1>1, <2>1, FlatSourced, Zenon
<1> HIDE DEF s, t, parts
<1>5. t \in Seq(Lock) /\ \E at, of : Sourced(parts, m, t, at, of)
  BY <1>3, <1>4
<1>6. PICK at, of : Sourced(parts, m, t, at, of)
  BY <1>5
<1>7. Place(l, k) \in 1..m /\ 1 \in 1..3 /\ 2 \in 1..3 /\ 3 \in 1..3
  BY PlaceIs
<1> HIDE DEF m
<1>8. /\ at \in [1..Len(t) -> 1..m] /\ of \in [1..Len(t) -> 1..3]
      /\ \A n \in 1..Len(t) : parts[at[n]][of[n]] = <<t[n]>>
      /\ \A n \in 1..Len(t) : \A j \in 1..(n - 1) :
           at[j] < at[n] \/ (at[j] = at[n] /\ of[j] < of[n])
      /\ \A i \in 1..m : \A c \in 1..3 :
           parts[i][c] # <<>> => \E n \in 1..Len(t) : at[n] = i /\ of[n] = c
  BY <1>6, Zenon DEF Sourced
<1>9. \A n \in 1..Len(t) : at[n] \in 1..m /\ of[n] \in 1..3
  BY <1>8
<1>10. \A n \in 1..Len(t) : From(l, k, mid, t[n], at[n], of[n])
  BY <1>2, <1>8, <1>9, Zenon
<1>11. /\ \A i \in Met(l, k) :
            /\ l[i].start < k.start => \E n \in 1..Len(t) : at[n] = i /\ of[n] = 1
            /\ Reach(k) < Reach(l[i]) => \E n \in 1..Len(t) : at[n] = i /\ of[n] = 3
       /\ \A i \in DOMAIN l \ Met(l, k) : \E n \in 1..Len(t) : at[n] = i /\ of[n] = 3
       /\ mid # <<>> => \E n \in 1..Len(t) : at[n] = Place(l, k) /\ of[n] = 2
  <2>1. \A i \in DOMAIN l \ Met(l, k) : i \in 1..m
    BY <1>1
  <2>2. \A i \in Met(l, k) : i \in 1..m
    BY <1>1
  <2>3. \A i \in 1..m : \A c \in 1..3 :
           parts[i][c] # <<>> => \E n \in 1..Len(t) : at[n] = i /\ of[n] = c
    BY <1>8
  <2>4. ASSUME NEW i \in Met(l, k)
        PROVE  /\ l[i].start < k.start => \E n \in 1..Len(t) : at[n] = i /\ of[n] = 1
               /\ Reach(k) < Reach(l[i]) => \E n \in 1..Len(t) : at[n] = i /\ of[n] = 3
    <3>1. /\ l[i].start < k.start => parts[i][1] # <<>>
          /\ Reach(k) < Reach(l[i]) => parts[i][3] # <<>>
      BY <1>2, <2>2
    <3>. QED  BY <3>1, <2>2, <2>3
  <2>5. ASSUME NEW i \in DOMAIN l \ Met(l, k)
        PROVE  \E n \in 1..Len(t) : at[n] = i /\ of[n] = 3
    <3>1. parts[i][3] # <<>>
      BY <1>2, <2>1
    <3>. QED  BY <3>1, <2>1, <2>3
  <2>6. mid # <<>> => \E n \in 1..Len(t) : at[n] = Place(l, k) /\ of[n] = 2
    BY <1>2, <1>7, <2>3, Zenon
  <2>. QED  BY <2>4, <2>5, <2>6, Zenon
<1>12. CutOf(l, k, mid, t, at, of)
  BY <1>8, <1>10, <1>11, Zenon DEF CutOf, m
<1>. QED  BY <1>5, <1>12, Zenon DEF t

(* The lock that Cut puts at the place of the request k, if any.           *)
MidOf(mid, k) ==
  \/ mid = <<>>
  \/ \E g \in Lock : /\ mid = <<g>> /\ g.id = k.id
                     /\ g.start = k.start /\ Reach(g) = Reach(k)

LEMMA MidIs ==
  ASSUME NEW mid, NEW k, MidOf(mid, k)
  PROVE  /\ mid \in Seq(Lock) /\ Len(mid) <= 1
         /\ \A g : mid = <<g>> => /\ g \in Lock /\ g.id = k.id
                                  /\ g.start = k.start /\ Reach(g) = Reach(k)
<1>1. CASE mid = <<>>
  <2>1. \A g : mid # <<g>>
    BY <1>1
  <2>. QED  BY <1>1, <2>1
<1>2. CASE mid # <<>>
  <2>1. PICK g \in Lock : /\ mid = <<g>> /\ g.id = k.id
                          /\ g.start = k.start /\ Reach(g) = Reach(k)
    BY <1>2 DEF MidOf
  <2>2. \A h : <<g>> = <<h>> => g = h
    OBVIOUS
  <2>3. <<g>> \in Seq(Lock) /\ Len(<<g>>) <= 1
    OBVIOUS
  <2>. QED  BY <2>1, <2>2, <2>3, Zenon
<1>. QED  BY <1>1, <1>2

(* A lock of the new list is a part of the one it comes from, and on the   *)
(* right side of the request.                                               *)
Lies(l, k, mid, g, i, c) ==
  /\ g \in Lock
  /\ c # 2 => /\ i \in DOMAIN l /\ g.id = l[i].id /\ g.type = l[i].type
              /\ l[i].start <= g.start /\ Reach(g) <= Reach(l[i])
  /\ c = 2 => /\ i = Place(l, k) /\ mid = <<g>> /\ g.id = k.id
              /\ g.start = k.start /\ Reach(g) = Reach(k)
  /\ c = 1 => i = Place(l, k) /\ Reach(g) < k.start /\ g.id = k.id
  /\ g.id = k.id /\ c = 3 /\ i < Place(l, k) => Reach(g) < k.start
  /\ g.id = k.id /\ c = 3 /\ Place(l, k) <= i => Reach(k) < g.start
  /\ i \in Met(l, k) => i \in DOMAIN l /\ l[i].id = k.id

LEMMA FromIs ==
  ASSUME NEW l, Listed(l), NEW k, Ranged(k), NEW mid, MidOf(mid, k),
         NEW g, NEW i \in 1..(Len(l) + 1), NEW c, From(l, k, mid, g, i, c)
  PROVE  Lies(l, k, mid, g, i, c)
<1> SUFFICES /\ g \in Lock
             /\ c # 2 => /\ i \in DOMAIN l /\ g.id = l[i].id /\ g.type = l[i].type
                         /\ l[i].start <= g.start /\ Reach(g) <= Reach(l[i])
             /\ c = 2 => /\ i = Place(l, k) /\ mid = <<g>> /\ g.id = k.id
                         /\ g.start = k.start /\ Reach(g) = Reach(k)
             /\ c = 1 => i = Place(l, k) /\ Reach(g) < k.start /\ g.id = k.id
             /\ g.id = k.id /\ c = 3 /\ i < Place(l, k) => Reach(g) < k.start
             /\ g.id = k.id /\ c = 3 /\ Place(l, k) <= i => Reach(k) < g.start
             /\ i \in Met(l, k) => i \in DOMAIN l /\ l[i].id = k.id
  BY Zenon DEF Lies
<1>1. \A j \in DOMAIN l : l[j] \in Lock /\ Ranged(l[j])
  BY DEF Listed, Lock
<1>2. \A j \in DOMAIN l : j \in Met(l, k) <=> l[j].id = k.id /\ ~Apart(l[j], k)
  BY MetIs
<1>3. Met(l, k) \subseteq DOMAIN l
  BY DEF Met
<1>4. /\ i \in Int /\ Place(l, k) \in Int /\ k.start \in Int /\ Reach(k) \in Int
      /\ k.start <= Reach(k)
  BY PlaceIs, ReachIs DEF Listed
<1>5. CASE c = 1 /\ i \in Met(l, k) /\ IsLeft(g, l[i], k)
  <2>1. i \in DOMAIN l /\ l[i].id = k.id /\ Ranged(l[i]) /\ ~Apart(l[i], k)
    BY <1>1, <1>2, <1>3, <1>5
  <2>2. /\ g \in Lock /\ g.id = l[i].id /\ g.type = l[i].type
        /\ l[i].start < k.start /\ g.start = l[i].start /\ Reach(g) = k.start - 1
    BY <1>5 DEF IsLeft
  <2>3. /\ k.start <= Reach(l[i]) /\ l[i].start \in Int /\ Reach(l[i]) \in Int
    BY <2>1, ApartIs, ReachIs, <1>4
  <2>4. i = Place(l, k)
    <3>1. i # Place(l, k) => k.start < l[i].start
      BY <2>1, <1>5, PlaceIs
    <3>. QED  BY <3>1, <2>2, <2>3, <1>4
  <2>5. k.start - 1 < k.start /\ k.start - 1 <= Reach(l[i]) /\ l[i].start <= l[i].start
    BY <2>3, <1>4
  <2>6. 1 # 2 /\ 1 # 3
    OBVIOUS
  <2>. QED  BY <1>5, <2>1, <2>2, <2>4, <2>5, <2>6
<1>6. CASE c = 2 /\ i = Place(l, k) /\ mid = <<g>>
  BY <1>6, MidIs, <1>2, <1>3
<1>7. CASE c = 3 /\ i \in Met(l, k) /\ IsRight(g, l[i], k)
  <2>1. i \in DOMAIN l /\ l[i].id = k.id /\ Ranged(l[i]) /\ ~Apart(l[i], k)
    BY <1>1, <1>2, <1>3, <1>7
  <2>2. /\ g \in Lock /\ g.id = l[i].id /\ g.type = l[i].type
        /\ g.start = Reach(k) + 1 /\ Reach(g) = Reach(l[i])
    BY <1>7 DEF IsRight
  <2>3. /\ l[i].start <= Reach(k) /\ l[i].start \in Int /\ Reach(l[i]) \in Int
    BY <2>1, ApartIs, ReachIs, <1>4
  <2>4. Place(l, k) <= i
    BY <2>1, <1>7, PlaceIs
  <2>5. /\ Reach(k) < Reach(k) + 1 /\ l[i].start <= Reach(k) + 1
        /\ Reach(l[i]) <= Reach(l[i]) /\ ~(i < Place(l, k))
    BY <2>3, <2>4, <1>4
  <2>6. 3 # 2 /\ 3 # 1
    OBVIOUS
  <2>. QED  BY <1>7, <2>1, <2>2, <2>5, <2>6
<1>8. CASE c = 3 /\ i \in DOMAIN l \ Met(l, k) /\ g = l[i]
  <2>1. g \in Lock /\ l[i].start \in Int /\ Reach(l[i]) \in Int
        /\ l[i].start <= Reach(l[i])
    BY <1>1, <1>8, ReachIs
  <2>2. g.id = k.id => /\ i < Place(l, k) => Reach(g) < k.start
                       /\ Place(l, k) <= i => Reach(k) < g.start
    BY <1>8, PlaceIs
  <2>3. 3 # 2 /\ 3 # 1 /\ l[i].start <= l[i].start /\ Reach(l[i]) <= Reach(l[i])
    BY <2>1
  <2>. QED  BY <1>8, <2>1, <2>2, <2>3
<1>. QED  BY <1>5, <1>6, <1>7, <1>8 DEF From

(* Three numbers in a row.                                                  *)
LEMMA Follows ==
  ASSUME NEW a \in Int, NEW b \in Int, NEW c \in Int, NEW d \in Int,
         a <= b, b < c, c <= d
  PROVE  a < d
OBVIOUS

(* The new list is in order as the old one was.                             *)
LEMMA CutListed ==
  ASSUME NEW l, Listed(l), NEW k, Ranged(k), NEW mid, MidOf(mid, k)
  PROVE  Listed(Cut(l, k, mid))
<1> DEFINE t == Cut(l, k, mid)
           P == Place(l, k)
<1>1. t \in Seq(Lock) /\ \E at, of : CutOf(l, k, mid, t, at, of)
  BY MidIs, CutIs
<1> HIDE DEF t
<1>2. PICK at, of : CutOf(l, k, mid, t, at, of)
  BY <1>1
<1>3. /\ at \in [1..Len(t) -> 1..(Len(l) + 1)] /\ of \in [1..Len(t) -> 1..3]
      /\ \A n \in 1..Len(t) : From(l, k, mid, t[n], at[n], of[n])
      /\ \A n \in 1..Len(t) : \A j \in 1..(n - 1) :
           at[j] < at[n] \/ (at[j] = at[n] /\ of[j] < of[n])
  BY <1>2 DEF CutOf
<1>4. ASSUME NEW n \in 1..Len(t)
      PROVE  LET g == t[n]
                 i == at[n]
                 c == of[n]
             IN  /\ g \in Lock /\ g.start \in Int /\ Reach(g) \in Int
                 /\ i \in Int /\ c \in 1..3
                 /\ c # 2 => /\ i \in DOMAIN l /\ g.id = l[i].id
                             /\ l[i].start <= g.start /\ Reach(g) <= Reach(l[i])
                 /\ c = 2 => /\ i = P /\ g.id = k.id
                             /\ g.start = k.start /\ Reach(g) = Reach(k)
                 /\ c = 1 => i = P /\ Reach(g) < k.start /\ g.id = k.id
                 /\ g.id = k.id /\ c = 3 /\ i < P => Reach(g) < k.start
                 /\ g.id = k.id /\ c = 3 /\ P <= i => Reach(k) < g.start
  <2>1. at[n] \in 1..(Len(l) + 1) /\ of[n] \in 1..3
        /\ From(l, k, mid, t[n], at[n], of[n])
    BY <1>3
  <2>2. at[n] \in Int
    BY <2>1 DEF Listed
  <2>3. t[n] \in Lock
    BY <1>1
  <2>4. Ranged(t[n])
    BY <2>3 DEF Lock
  <2>5. t[n].start \in Int /\ Reach(t[n]) \in Int
    BY <2>4, ReachIs
  <2>6. Lies(l, k, mid, t[n], at[n], of[n])
    BY <2>1, FromIs
  <2>. QED  BY <2>1, <2>2, <2>3, <2>5, <2>6 DEF Lies
<1>5. k.start \in Int /\ Reach(k) \in Int /\ k.start <= Reach(k) /\ P \in Int
  BY ReachIs, PlaceIs DEF Listed
<1>6. \A i \in DOMAIN l : l[i].start \in Int /\ Reach(l[i]) \in Int
  BY ReachIs DEF Listed, Lock
<1> HIDE DEF P
<1>7. ASSUME NEW n \in 1..Len(t), NEW j \in 1..(n - 1), t[j].id = t[n].id
      PROVE  t[n].start > Reach(t[j])
  <2>1. j \in 1..Len(t)
    BY <1>1
  <2>2. at[j] < at[n] \/ (at[j] = at[n] /\ of[j] < of[n])
    BY <1>3
  <2>3. /\ at[j] \in Int /\ at[n] \in Int /\ of[j] \in 1..3 /\ of[n] \in 1..3
        /\ t[n].start \in Int /\ Reach(t[n]) \in Int
        /\ t[j].start \in Int /\ Reach(t[j]) \in Int
    BY <2>1, <1>4
  <2>4. CASE of[n] = 2
    <3>1. at[n] = P /\ t[n].id = k.id /\ t[n].start = k.start
      BY <2>4, <1>4
    <3>2. of[j] = 1 \/ (of[j] = 3 /\ at[j] < P)
      <4>1. of[j] = 2 => at[j] = P
        BY <2>1, <1>4
      <4>. QED  BY <4>1, <3>1, <2>2, <2>3, <2>4, <1>5
    <3>3. Reach(t[j]) < k.start
      BY <3>1, <3>2, <1>7, <2>1, <1>4
    <3>. QED  BY <3>1, <3>3, <2>3, <1>5
  <2>5. CASE of[j] = 2
    <3>1. at[j] = P /\ t[j].id = k.id /\ Reach(t[j]) = Reach(k)
      BY <2>1, <2>5, <1>4
    <3>2. of[n] = 3 /\ P <= at[n]
      <4>1. of[n] \in {1, 2} => at[n] = P
        BY <1>4
      <4>. QED  BY <4>1, <3>1, <2>2, <2>3, <2>5, <1>5
    <3>3. Reach(k) < t[n].start
      BY <3>1, <3>2, <1>7, <1>4
    <3>. QED  BY <3>1, <3>3, <2>3, <1>5
  <2>6. CASE of[n] # 2 /\ of[j] # 2 /\ at[j] < at[n]
    <3>1. /\ at[n] \in DOMAIN l /\ l[at[n]].start <= t[n].start
          /\ t[n].id = l[at[n]].id
          /\ at[j] \in DOMAIN l /\ Reach(t[j]) <= Reach(l[at[j]])
          /\ t[j].id = l[at[j]].id
      BY <2>1, <2>6, <1>4
    <3>2. at[j] \in 1 .. (at[n] - 1)
      <4>1. at[j] \in 1..Len(l) /\ Len(l) \in Nat
        BY <3>1 DEF Listed
      <4>. QED  BY <4>1, <2>3, <2>6
    <3>3. l[at[n]].start > Reach(l[at[j]])
      BY <3>1, <3>2, <1>7 DEF Listed, Sorted
    <3>4. /\ l[at[n]].start \in Int /\ Reach(l[at[j]]) \in Int
      BY <3>1, <1>6
    <3>5. Reach(l[at[j]]) < l[at[n]].start
      BY <3>3, <3>4
    <3>6. Reach(t[j]) < t[n].start
      BY <3>1, <3>4, <3>5, <2>3, Follows
    <3>. QED  BY <3>6, <2>3
  <2>7. CASE of[n] # 2 /\ of[j] # 2 /\ at[j] = at[n]
    <3>1. of[j] = 1 /\ of[n] = 3
      BY <2>2, <2>3, <2>7
    <3>2. at[j] = P /\ Reach(t[j]) < k.start /\ t[j].id = k.id
      BY <2>1, <3>1, <1>4
    <3>3. Reach(k) < t[n].start
      <4>1. P <= at[n]
        BY <3>2, <2>7, <1>5
      <4>. QED  BY <4>1, <3>1, <3>2, <1>7, <1>4
    <3>. QED  BY <3>2, <3>3, <2>3, <1>5
  <2>. QED  BY <2>2, <2>4, <2>5, <2>6, <2>7
<1>8. DOMAIN t = 1..Len(t)
  BY <1>1
<1>9. Sorted(t)
  BY <1>7, <1>8 DEF Sorted
<1>. QED  BY <1>1, <1>9 DEF Listed, t

-----------------------------------------------------------------------------
(* The queues of the new list.                                              *)

(* Something is left of lock i of l that can keep its queue.               *)
Stays(l, k, i) ==
  i \in Met(l, k) => l[i].start < k.start \/ Reach(k) < Reach(l[i])

LEMMA NoQueue == ToSet(<<>>) = {} /\ IsInjective(<<>>)
BY DEF ToSet, IsInjective

(* The queue of a lock is that of the lock it comes from, or it is empty.  *)
LEMMA FromQueue ==
  ASSUME NEW l, Listed(l), NEW k, Ranged(k), NEW mid, MidOf(mid, k),
         NEW g, NEW i \in 1..(Len(l) + 1), NEW c, From(l, k, mid, g, i, c)
  PROVE  /\ c # 2 => g.blk = l[i].blk \/ g.blk = <<>>
         /\ \A q \in ToSet(g.blk) : c # 2 =>
              /\ i \in DOMAIN l /\ q \in ToSet(l[i].blk) /\ Stays(l, k, i)
              /\ c \in {1, 3}
              /\ c = 1 <=> i \in Met(l, k) /\ l[i].start < k.start
              /\ i \in Met(l, k) \/ g = l[i]
<1>1. c # 2 => i \in DOMAIN l
  BY FromIs DEF Lies
<1>2. CASE c = 1 /\ i \in Met(l, k) /\ IsLeft(g, l[i], k)
  <2>1. g.blk = l[i].blk /\ l[i].start < k.start
    BY <1>2 DEF IsLeft
  <2>. QED  BY <2>1, <1>1, <1>2 DEF Stays
<1>3. CASE c = 2
  BY <1>3
<1>4. CASE c = 3 /\ i \in Met(l, k) /\ IsRight(g, l[i], k)
  <2>1. /\ Reach(k) < Reach(l[i])
        /\ g.blk = IF l[i].start < k.start THEN <<>> ELSE l[i].blk
    BY <1>4 DEF IsRight
  <2>. QED  BY <2>1, <1>1, <1>4, NoQueue DEF Stays
<1>5. CASE c = 3 /\ i \in DOMAIN l \ Met(l, k) /\ g = l[i]
  BY <1>5 DEF Stays
<1>. QED  BY <1>2, <1>3, <1>4, <1>5 DEF From

(* The same of the locks of the new list by their places.                  *)
Traced(l, k, mid, t, at, of) ==
  \A n \in 1..Len(t) :
    /\ of[n] = 2 => mid = <<t[n]>> /\ at[n] = Place(l, k)
    /\ of[n] # 2 => /\ at[n] \in DOMAIN l /\ t[n].id = l[at[n]].id
                    /\ t[n].blk = l[at[n]].blk \/ t[n].blk = <<>>
    /\ of[n] # 2 => \A q \in ToSet(t[n].blk) :
         /\ at[n] \in DOMAIN l /\ q \in ToSet(l[at[n]].blk)
         /\ Stays(l, k, at[n])
         /\ of[n] \in {1, 3}
         /\ of[n] = 1 <=> at[n] \in Met(l, k) /\ l[at[n]].start < k.start
         /\ at[n] \in Met(l, k) \/ t[n] = l[at[n]]

LEMMA CutTraced ==
  ASSUME NEW l, Listed(l), NEW k, Ranged(k), NEW mid, MidOf(mid, k),
         NEW t, NEW at, NEW of, CutOf(l, k, mid, t, at, of)
  PROVE  Traced(l, k, mid, t, at, of)
<1> SUFFICES ASSUME NEW n \in 1..Len(t)
             PROVE  /\ of[n] = 2 => mid = <<t[n]>> /\ at[n] = Place(l, k)
                    /\ of[n] # 2 =>
                         /\ at[n] \in DOMAIN l /\ t[n].id = l[at[n]].id
                         /\ t[n].blk = l[at[n]].blk \/ t[n].blk = <<>>
                    /\ of[n] # 2 => \A q \in ToSet(t[n].blk) :
                         /\ at[n] \in DOMAIN l /\ q \in ToSet(l[at[n]].blk)
                         /\ Stays(l, k, at[n])
                         /\ of[n] \in {1, 3}
                         /\ of[n] = 1 <=> at[n] \in Met(l, k) /\ l[at[n]].start < k.start
                         /\ at[n] \in Met(l, k) \/ t[n] = l[at[n]]
  BY DEF Traced
<1>1. /\ at[n] \in 1..(Len(l) + 1) /\ of[n] \in 1..3
      /\ From(l, k, mid, t[n], at[n], of[n])
  BY DEF CutOf
<1>2. of[n] = 2 => mid = <<t[n]>> /\ at[n] = Place(l, k)
  BY <1>1 DEF From
<1>3. of[n] # 2 => at[n] \in DOMAIN l /\ t[n].id = l[at[n]].id
  BY <1>1, FromIs DEF Lies
<1>4. of[n] # 2 => t[n].blk = l[at[n]].blk \/ t[n].blk = <<>>
  BY <1>1, FromQueue
<1>5. of[n] # 2 => \A q \in ToSet(t[n].blk) :
         /\ at[n] \in DOMAIN l /\ q \in ToSet(l[at[n]].blk)
         /\ Stays(l, k, at[n])
         /\ of[n] \in {1, 3}
         /\ of[n] = 1 <=> at[n] \in Met(l, k) /\ l[at[n]].start < k.start
         /\ at[n] \in Met(l, k) \/ t[n] = l[at[n]]
  <2>1. \A g, c : \A i \in 1..(Len(l) + 1) : From(l, k, mid, g, i, c) =>
           \A r \in ToSet(g.blk) : c # 2 =>
              /\ i \in DOMAIN l /\ r \in ToSet(l[i].blk) /\ Stays(l, k, i)
              /\ c \in {1, 3}
              /\ c = 1 <=> i \in Met(l, k) /\ l[i].start < k.start
              /\ i \in Met(l, k) \/ g = l[i]
    BY FromQueue
  <2>. QED  BY <1>1, <2>1, ZenonT(40)
<1>. QED  BY <1>2, <1>3, <1>4, <1>5, Zenon

(* Those who wait on a list that is cut wait on the new one, unless         *)
(* nothing is left of the lock, and nobody else does.                       *)
CutWaits(l, k, mid, t) ==
  /\ Once(t)
  /\ \A n \in DOMAIN t : \A q \in ToSet(t[n].blk) :
       \/ mid = <<t[n]>>
       \/ \E i \in DOMAIN l : /\ Stays(l, k, i) /\ q \in ToSet(l[i].blk)
                              /\ i \in Met(l, k) \/ t[n] = l[i]
                              /\ t[n].id = l[i].id
  /\ \A i \in DOMAIN l : Stays(l, k, i) => \A q \in ToSet(l[i].blk) : On(t, q)
  /\ \A g : mid = <<g>> => \A q \in ToSet(g.blk) : On(t, q)

LEMMA CutQueues ==
  ASSUME NEW l, Listed(l), Once(l), NEW k, Ranged(k), NEW mid, MidOf(mid, k),
         \A g : mid = <<g>> =>
           /\ IsInjective(g.blk)
           /\ \A i \in DOMAIN l :
                Stays(l, k, i) => ToSet(l[i].blk) \cap ToSet(g.blk) = {},
         NEW t, t = Cut(l, k, mid)
  PROVE  CutWaits(l, k, mid, t)
<1>1. t \in Seq(Lock) /\ \E at, of : CutOf(l, k, mid, t, at, of)
  BY MidIs, CutIs
<1>2. PICK at, of : CutOf(l, k, mid, t, at, of)
  BY <1>1
<1>3. /\ at \in [1..Len(t) -> 1..(Len(l) + 1)] /\ of \in [1..Len(t) -> 1..3]
      /\ \A n \in 1..Len(t) : From(l, k, mid, t[n], at[n], of[n])
      /\ \A n \in 1..Len(t) : \A j \in 1..(n - 1) :
           at[j] < at[n] \/ (at[j] = at[n] /\ of[j] < of[n])
  BY <1>2 DEF CutOf
<1>4. DOMAIN t = 1..Len(t) /\ Len(t) \in Nat
  BY <1>1
<1>5. \A n \in DOMAIN t : at[n] \in 1..(Len(l) + 1) /\ of[n] \in 1..3
                          /\ From(l, k, mid, t[n], at[n], of[n])
  BY <1>3, <1>4
<1>6. /\ \A n \in DOMAIN t :
           /\ of[n] = 2 => mid = <<t[n]>> /\ at[n] = Place(l, k)
           /\ of[n] # 2 => /\ at[n] \in DOMAIN l /\ t[n].id = l[at[n]].id
                           /\ t[n].blk = l[at[n]].blk \/ t[n].blk = <<>>
      /\ \A n \in DOMAIN t : of[n] # 2 => \A q \in ToSet(t[n].blk) :
           /\ at[n] \in DOMAIN l /\ q \in ToSet(l[at[n]].blk)
           /\ Stays(l, k, at[n])
           /\ of[n] \in {1, 3}
           /\ of[n] = 1 <=> at[n] \in Met(l, k) /\ l[at[n]].start < k.start
           /\ at[n] \in Met(l, k) \/ t[n] = l[at[n]]
  <2>1. Traced(l, k, mid, t, at, of)
    BY <1>2, CutTraced
  <2>. QED  BY <2>1, <1>4, Zenon DEF Traced
<1>7. ASSUME NEW n \in DOMAIN t
      PROVE  IsInjective(t[n].blk)
  <2>1. CASE of[n] = 2
    <3>1. mid = <<t[n]>>
      BY <2>1, <1>6
    <3>. QED  BY <3>1
  <2>2. CASE of[n] # 2
    <3>1. at[n] \in DOMAIN l /\ (t[n].blk = l[at[n]].blk \/ t[n].blk = <<>>)
      BY <2>2, <1>6
    <3>. QED  BY <3>1, NoQueue DEF Once
  <2>. QED  BY <2>1, <2>2
<1>8. ASSUME NEW n \in DOMAIN t, NEW j \in 1..(n - 1),
             NEW q, q \in ToSet(t[n].blk), q \in ToSet(t[j].blk)
      PROVE  FALSE
  <2>1. j \in DOMAIN t
    BY <1>4
  <2>2. at[j] < at[n] \/ (at[j] = at[n] /\ of[j] < of[n])
    BY <1>3, <1>4
  <2>3. at[j] \in Int /\ at[n] \in Int /\ of[j] \in 1..3 /\ of[n] \in 1..3
    BY <2>1, <1>5 DEF Listed
  <2>4. of[n] = 2 => mid = <<t[n]>> /\ at[n] = Place(l, k)
    BY <1>6
  <2>5. of[j] = 2 => mid = <<t[j]>> /\ at[j] = Place(l, k)
    BY <2>1, <1>6
  <2>6. of[n] # 2 => /\ at[n] \in DOMAIN l /\ q \in ToSet(l[at[n]].blk)
                     /\ Stays(l, k, at[n])
                     /\ of[n] = IF at[n] \in Met(l, k) /\ l[at[n]].start < k.start
                                THEN 1 ELSE 3
    BY <1>8, <1>6
  <2>7. of[j] # 2 => /\ at[j] \in DOMAIN l /\ q \in ToSet(l[at[j]].blk)
                     /\ Stays(l, k, at[j])
                     /\ of[j] = IF at[j] \in Met(l, k) /\ l[at[j]].start < k.start
                                THEN 1 ELSE 3
    BY <1>8, <2>1, <1>6
  <2>8. CASE of[n] = 2 /\ of[j] = 2
    BY <2>2, <2>3, <2>4, <2>5, <2>8
  <2>9. CASE of[n] = 2 /\ of[j] # 2
    BY <2>4, <2>7, <2>9, <1>8
  <2>10. CASE of[n] # 2 /\ of[j] = 2
    BY <2>5, <2>6, <2>10, <1>8
  <2>11. CASE of[n] # 2 /\ of[j] # 2
    <3>1. at[n] = at[j]
      BY <2>6, <2>7, <2>11 DEF Once
    <3>. QED  BY <3>1, <2>2, <2>3, <2>6, <2>7, <2>11
  <2>. QED  BY <2>8, <2>9, <2>10, <2>11
<1>9. Once(t)
  <2>1. ASSUME NEW i \in DOMAIN t, NEW j \in DOMAIN t, i # j
        PROVE  ToSet(t[i].blk) \cap ToSet(t[j].blk) = {}
    <3>1. j \in 1..(i - 1) \/ i \in 1..(j - 1)
      BY <1>4, <2>1
    <3>. QED  BY <3>1, <1>8
  <2>. QED  BY <2>1, <1>7 DEF Once
<1>10. ASSUME NEW n \in DOMAIN t, NEW q \in ToSet(t[n].blk)
      PROVE  \/ mid = <<t[n]>>
             \/ \E i \in DOMAIN l : /\ Stays(l, k, i) /\ q \in ToSet(l[i].blk)
                                    /\ i \in Met(l, k) \/ t[n] = l[i]
                                    /\ t[n].id = l[i].id
  <2>1. CASE of[n] = 2
    BY <2>1, <1>6
  <2>2. CASE of[n] # 2
    <3>1. /\ at[n] \in DOMAIN l /\ q \in ToSet(l[at[n]].blk) /\ Stays(l, k, at[n])
          /\ at[n] \in Met(l, k) \/ t[n] = l[at[n]]
      BY <2>2, <1>6
    <3>2. t[n].id = l[at[n]].id
      BY <2>2, <1>6
    <3>. QED  BY <3>1, <3>2
  <2>. QED  BY <2>1, <2>2
<1>11. ASSUME NEW i \in DOMAIN l, Stays(l, k, i), NEW q \in ToSet(l[i].blk)
       PROVE  On(t, q)
  <2>1. CASE i \in Met(l, k) /\ l[i].start < k.start
    <3>1. PICK n \in 1..Len(t) : at[n] = i /\ of[n] = 1
      BY <2>1, <1>2 DEF CutOf
    <3>2. IsLeft(t[n], l[i], k)
      BY <3>1, <1>4, <1>5 DEF From
    <3>3. t[n].blk = l[i].blk
      BY <3>2 DEF IsLeft
    <3>. QED  BY <3>1, <3>3, <1>4 DEF On
  <2>2. CASE i \in Met(l, k) /\ ~(l[i].start < k.start)
    <3>1. PICK n \in 1..Len(t) : at[n] = i /\ of[n] = 3
      BY <2>2, <1>2, <1>11 DEF CutOf, Stays
    <3>2. IsRight(t[n], l[i], k)
      BY <3>1, <2>2, <1>4, <1>5 DEF From
    <3>3. t[n].blk = l[i].blk
      BY <3>2, <2>2 DEF IsRight
    <3>. QED  BY <3>1, <3>3, <1>4 DEF On
  <2>3. CASE i \notin Met(l, k)
    <3>1. PICK n \in 1..Len(t) : at[n] = i /\ of[n] = 3
      BY <2>3, <1>2 DEF CutOf
    <3>2. t[n] = l[i]
      BY <3>1, <2>3, <1>4, <1>5 DEF From
    <3>. QED  BY <3>1, <3>2, <1>4 DEF On
  <2>. QED  BY <2>1, <2>2, <2>3
<1>12. ASSUME NEW g, mid = <<g>>, NEW q \in ToSet(g.blk)
       PROVE  On(t, q)
  <2>1. mid # <<>>
    BY <1>12
  <2>2. PICK n \in 1..Len(t) : at[n] = Place(l, k) /\ of[n] = 2
    BY <2>1, <1>2 DEF CutOf
  <2>3. mid = <<t[n]>>
    BY <2>2, <1>4, <1>6
  <2>4. t[n] = g
    BY <2>3, <1>12
  <2>. QED  BY <2>2, <2>4, <1>4 DEF On
<1>. QED  BY <1>9, <1>10, <1>11, <1>12 DEF CutWaits

-----------------------------------------------------------------------------
(* The bytes of the new list.                                               *)

LEMMA AreaIs ==
  ASSUME NEW k, Ranged(k), NEW b
  PROVE  b \in Area(k) <=> b \in Byte /\ k.start <= b /\ b <= Reach(k)
<1>1. /\ End \in Nat
      /\ k.end = EOF => Reach(k) = End
      /\ k.end # EOF => Reach(k) = k.end
  BY ReachIs
<1>2. b \in Byte => b \in Int /\ b <= End
  BY <1>1 DEF Byte
<1>. QED  BY <1>1, <1>2 DEF Area

(* The locks of others stay as they are, the owner keeps what is not in    *)
(* the range of the request, and mid is all that it has there.             *)
CutLocks(l, k, mid, t) ==
  /\ \A n \in DOMAIN t : t[n].id # k.id => \E i \in DOMAIN l : t[n] = l[i]
  /\ \A i \in DOMAIN l : l[i].id # k.id => \E n \in DOMAIN t : t[n] = l[i]
  /\ \A n \in DOMAIN t : t[n].id = k.id /\ mid # <<t[n]>> =>
       \E i \in DOMAIN l :
         /\ l[i].id = k.id /\ l[i].type = t[n].type
         /\ \A b \in Area(t[n]) : b \in Area(l[i]) /\ b \notin Area(k)
  /\ \A i \in DOMAIN l : l[i].id = k.id =>
       \A b \in Area(l[i]) \ Area(k) : \E n \in DOMAIN t :
         t[n].id = k.id /\ t[n].type = l[i].type /\ b \in Area(t[n])
  /\ mid # <<>> => \E n \in DOMAIN t : mid = <<t[n]>>

LEMMA CutsLocks ==
  ASSUME NEW l, Listed(l), NEW k, Ranged(k), NEW mid, MidOf(mid, k),
         NEW t, t = Cut(l, k, mid)
  PROVE  CutLocks(l, k, mid, t)
<1>1. t \in Seq(Lock) /\ \E at, of : CutOf(l, k, mid, t, at, of)
  BY MidIs, CutIs
<1>2. PICK at, of : CutOf(l, k, mid, t, at, of)
  BY <1>1
<1>3. DOMAIN t = 1..Len(t) /\ \A n \in DOMAIN t : t[n] \in Lock /\ Ranged(t[n])
  BY <1>1 DEF Lock
<1>4. \A i \in DOMAIN l : l[i] \in Lock /\ Ranged(l[i])
  BY DEF Listed, Lock
<1>5. \A n \in DOMAIN t : /\ at[n] \in 1..(Len(l) + 1) /\ of[n] \in 1..3
                          /\ From(l, k, mid, t[n], at[n], of[n])
  BY <1>2, <1>3 DEF CutOf
<1>6. /\ \A i \in Met(l, k) :
           /\ l[i].start < k.start => \E n \in DOMAIN t : at[n] = i /\ of[n] = 1
           /\ Reach(k) < Reach(l[i]) => \E n \in DOMAIN t : at[n] = i /\ of[n] = 3
      /\ \A i \in DOMAIN l \ Met(l, k) : \E n \in DOMAIN t : at[n] = i /\ of[n] = 3
      /\ mid # <<>> => \E n \in DOMAIN t : at[n] = Place(l, k) /\ of[n] = 2
  <2>1. /\ \A i \in Met(l, k) :
             /\ l[i].start < k.start => \E n \in 1..Len(t) : at[n] = i /\ of[n] = 1
             /\ Reach(k) < Reach(l[i]) => \E n \in 1..Len(t) : at[n] = i /\ of[n] = 3
        /\ \A i \in DOMAIN l \ Met(l, k) : \E n \in 1..Len(t) : at[n] = i /\ of[n] = 3
        /\ mid # <<>> => \E n \in 1..Len(t) : at[n] = Place(l, k) /\ of[n] = 2
    BY <1>2, Zenon DEF CutOf
  <2>2. 1..Len(t) = DOMAIN t
    BY <1>3
  <2>3. ASSUME NEW D, 1..Len(t) = D
        PROVE  /\ \A i \in Met(l, k) :
                    /\ l[i].start < k.start => \E n \in D : at[n] = i /\ of[n] = 1
                    /\ Reach(k) < Reach(l[i]) => \E n \in D : at[n] = i /\ of[n] = 3
               /\ \A i \in DOMAIN l \ Met(l, k) : \E n \in D : at[n] = i /\ of[n] = 3
               /\ mid # <<>> => \E n \in D : at[n] = Place(l, k) /\ of[n] = 2
    BY <2>1, <2>3
  <2>. QED  BY <2>2, <2>3
<1>7. \A i \in DOMAIN l : i \in Met(l, k) => l[i].id = k.id
  BY MetIs
<1>8. Met(l, k) \subseteq DOMAIN l
  BY DEF Met
<1>9. ASSUME NEW n \in DOMAIN t, t[n].id # k.id
      PROVE  \E i \in DOMAIN l : t[n] = l[i]
  <2>1. From(l, k, mid, t[n], at[n], of[n])
    BY <1>5
  <2>2. mid # <<t[n]>>
    BY <1>9, MidIs
  <2>3. \A i \in Met(l, k) : ~IsLeft(t[n], l[i], k) /\ ~IsRight(t[n], l[i], k)
    BY <1>7, <1>8, <1>9 DEF IsLeft, IsRight
  <2>. QED  BY <2>1, <2>2, <2>3 DEF From
<1>10. ASSUME NEW i \in DOMAIN l, i \notin Met(l, k)
       PROVE  \E n \in DOMAIN t : t[n] = l[i]
  <2>1. PICK n \in DOMAIN t : at[n] = i /\ of[n] = 3
    BY <1>6, <1>10
  <2>2. From(l, k, mid, t[n], at[n], of[n])
    BY <1>5
  <2>. QED  BY <2>1, <2>2, <1>10 DEF From
<1>11. ASSUME NEW n \in DOMAIN t, t[n].id = k.id, mid # <<t[n]>>
       PROVE  \E i \in DOMAIN l :
                /\ l[i].id = k.id /\ l[i].type = t[n].type
                /\ \A b \in Area(t[n]) : b \in Area(l[i]) /\ b \notin Area(k)
  <2> DEFINE i == at[n]
             c == of[n]
             g == t[n]
  <2>1. i \in 1..(Len(l) + 1) /\ c \in 1..3 /\ From(l, k, mid, g, i, c)
    BY <1>5
  <2>2. c # 2
    BY <2>1, <1>11 DEF From
  <2>3. g \in Lock /\ Ranged(g)
    BY <1>3
  <2> HIDE DEF i, c, g
  <2>4. Lies(l, k, mid, g, i, c)
    BY <2>1, FromIs
  <2>5. /\ i \in DOMAIN l /\ g.id = l[i].id /\ g.type = l[i].type
        /\ l[i].start <= g.start /\ Reach(g) <= Reach(l[i])
    BY <2>2, <2>4 DEF Lies
  <2>6. Reach(g) < k.start \/ Reach(k) < g.start
    <3>1. g.id = k.id /\ i \in Int /\ Place(l, k) \in Int
      BY <1>11, <2>1, PlaceIs DEF g, Listed
    <3>. QED  BY <3>1, <2>1, <2>2, <2>4 DEF Lies
  <2>7. /\ l[i].start \in Int /\ Reach(l[i]) \in Int /\ g.start \in Int
        /\ Reach(g) \in Int /\ k.start \in Int /\ Reach(k) \in Int /\ End \in Nat
    BY <2>3, <2>5, <1>4, ReachIs
  <2>8. ASSUME NEW b \in Area(g)
        PROVE  b \in Area(l[i]) /\ b \notin Area(k)
    <3>1. b \in Byte /\ g.start <= b /\ b <= Reach(g)
      BY <2>3, AreaIs
    <3>2. b \in Int
      BY <3>1, <2>7 DEF Byte
    <3>3. l[i].start <= b /\ b <= Reach(l[i]) /\ ~(k.start <= b /\ b <= Reach(k))
      BY <3>1, <3>2, <2>5, <2>6, <2>7
    <3>4. Ranged(l[i])
      BY <2>5, <1>4
    <3>. QED  BY <3>1, <3>3, <3>4, AreaIs
  <2>9. g.id = k.id
    BY <1>11 DEF g
  <2>. QED  BY <2>5, <2>8, <2>9 DEF g
<1>12. ASSUME NEW i \in DOMAIN l, l[i].id = k.id, NEW b \in Area(l[i]) \ Area(k)
       PROVE  \E n \in DOMAIN t :
                t[n].id = k.id /\ t[n].type = l[i].type /\ b \in Area(t[n])
  <2>1. CASE i \notin Met(l, k)
    <3>1. PICK n \in DOMAIN t : t[n] = l[i]
      BY <2>1, <1>10
    <3>. QED  BY <3>1, <1>12
  <2>2. b \in Byte /\ l[i].start <= b /\ b <= Reach(l[i])
        /\ ~(k.start <= b /\ b <= Reach(k))
    BY <1>4, <1>12, AreaIs
  <2>3. /\ l[i].start \in Int /\ Reach(l[i]) \in Int /\ End \in Nat
        /\ k.start \in Int /\ Reach(k) \in Int
    BY <1>4, ReachIs
  <2>4. b \in Int
    BY <2>2, <2>3 DEF Byte
  <2>5. CASE i \in Met(l, k) /\ b < k.start
    <3>1. l[i].start < k.start
      BY <2>2, <2>3, <2>4, <2>5
    <3>2. PICK n \in DOMAIN t : at[n] = i /\ of[n] = 1
      BY <3>1, <2>5, <1>6
    <3>3. From(l, k, mid, t[n], i, 1)
      BY <3>2, <1>5
    <3>4. IsLeft(t[n], l[i], k)
      BY <3>3 DEF From
    <3>5. /\ t[n].id = k.id /\ t[n].type = l[i].type
          /\ t[n].start = l[i].start /\ Reach(t[n]) = k.start - 1
      BY <3>4, <1>12 DEF IsLeft
    <3>6. b <= k.start - 1
      BY <2>3, <2>4, <2>5
    <3>7. b \in Area(t[n])
      BY <3>5, <3>6, <2>2, <1>3, AreaIs
    <3>. QED  BY <3>5, <3>7
  <2>6. CASE i \in Met(l, k) /\ ~(b < k.start)
    <3>1. Reach(k) < b /\ Reach(k) < Reach(l[i])
      BY <2>2, <2>3, <2>4, <2>6
    <3>2. PICK n \in DOMAIN t : at[n] = i /\ of[n] = 3
      BY <3>1, <2>6, <1>6
    <3>3. From(l, k, mid, t[n], i, 3)
      BY <3>2, <1>5
    <3>4. IsRight(t[n], l[i], k)
      BY <3>3, <2>6 DEF From
    <3>5. /\ t[n].id = k.id /\ t[n].type = l[i].type
          /\ t[n].start = Reach(k) + 1 /\ Reach(t[n]) = Reach(l[i])
      BY <3>4, <1>12 DEF IsRight
    <3>6. Reach(k) + 1 <= b
      BY <3>1, <2>3, <2>4
    <3>7. b \in Area(t[n])
      BY <3>5, <3>6, <2>2, <1>3, AreaIs
    <3>. QED  BY <3>5, <3>7
  <2>. QED  BY <2>1, <2>5, <2>6
<1>13. ASSUME mid # <<>>
       PROVE  \E n \in DOMAIN t : mid = <<t[n]>>
  <2>1. PICK n \in DOMAIN t : at[n] = Place(l, k) /\ of[n] = 2
    BY <1>6, <1>13
  <2>2. From(l, k, mid, t[n], at[n], 2)
    BY <2>1, <1>5
  <2>. QED  BY <2>2 DEF From
<1>. QED  BY <1>7, <1>9, <1>10, <1>11, <1>12, <1>13 DEF CutLocks

(* The one lock of an owner on a byte.                                     *)
LEMMA HoldsIs ==
  ASSUME NEW l, Listed(l), NEW o, NEW b
  PROVE  /\ \A i \in DOMAIN l :
              l[i].id = o /\ b \in Area(l[i]) => Holds(l, o, b) = l[i].type
         /\ (\A i \in DOMAIN l : ~(l[i].id = o /\ b \in Area(l[i]))) =>
              Holds(l, o, b) = "none"
<1> DEFINE S == {i \in DOMAIN l : l[i].id = o /\ b \in Area(l[i])}
<1>1. ASSUME NEW i \in S, NEW j \in S
      PROVE  ~(j < i)
  <2>1. i \in DOMAIN l /\ j \in DOMAIN l /\ Ranged(l[i]) /\ Ranged(l[j])
        /\ i \in Int /\ j \in Int /\ 1 <= j
    BY DEF Listed, Lock
  <2>2. l[i].start <= b /\ b <= Reach(l[j]) /\ b \in Byte
    BY <2>1, AreaIs
  <2>3. b \in Int /\ l[i].start \in Int /\ Reach(l[j]) \in Int
    BY <2>1, <2>2, ReachIs DEF Byte
  <2>4. j \in 1..(i - 1) => l[i].start > Reach(l[j])
    BY <2>1 DEF Listed, Sorted
  <2>. QED  BY <2>1, <2>2, <2>3, <2>4
<1>2. S \subseteq Nat
  BY DEF Listed
<1>3. ASSUME NEW i \in S
      PROVE  Min(S) = i
  <2>1. Min(S) \in S /\ Min(S) <= i
    BY <1>2, LeastIs
  <2>2. ~(Min(S) < i)
    BY <2>1, <1>1
  <2> HIDE DEF S
  <2>3. Min(S) \in Nat /\ i \in Nat
    BY <2>1, <1>2
  <2>. QED  BY <2>1, <2>2, <2>3
<1>4. Holds(l, o, b) = IF S = {} THEN "none" ELSE l[Min(S)].type
  BY DEF Holds
<1>5. ASSUME NEW i \in DOMAIN l, l[i].id = o, b \in Area(l[i])
      PROVE  Holds(l, o, b) = l[i].type
  <2>1. i \in S
    BY <1>5
  <2> HIDE DEF S
  <2>. QED  BY <2>1, <1>3, <1>4
<1>6. (\A i \in DOMAIN l : ~(l[i].id = o /\ b \in Area(l[i]))) => S = {}
  OBVIOUS
<1> HIDE DEF S
<1>. QED  BY <1>4, <1>5, <1>6

(* A cut changes just the bytes of the request, and just for its owner.    *)
LEMMA CutHolds ==
  ASSUME NEW l, Listed(l), NEW k, Ranged(k), NEW mid, MidOf(mid, k),
         NEW t, t = Cut(l, k, mid), NEW o, NEW b
  PROVE  Holds(t, o, b) = IF o = k.id /\ b \in Area(k)
                          THEN IF mid = <<>> THEN "none" ELSE mid[1].type
                          ELSE Holds(l, o, b)
<1>1. Listed(t) /\ CutLocks(l, k, mid, t)
  BY CutListed, CutsLocks
<1>2. CASE o # k.id
  <2>1. CASE \E i \in DOMAIN l : l[i].id = o /\ b \in Area(l[i])
    <3>1. PICK i \in DOMAIN l : l[i].id = o /\ b \in Area(l[i])
      BY <2>1
    <3>2. PICK n \in DOMAIN t : t[n] = l[i]
      BY <3>1, <1>1, <1>2 DEF CutLocks
    <3>. QED  BY <3>1, <3>2, <1>1, <1>2, HoldsIs
  <2>2. CASE ~\E i \in DOMAIN l : l[i].id = o /\ b \in Area(l[i])
    <3>1. \A n \in DOMAIN t : ~(t[n].id = o /\ b \in Area(t[n]))
      BY <2>2, <1>1, <1>2 DEF CutLocks
    <3>. QED  BY <3>1, <2>2, <1>1, <1>2, HoldsIs
  <2>. QED  BY <2>1, <2>2
<1>3. CASE o = k.id /\ b \in Area(k)
  <2>1. CASE mid = <<>>
    <3>1. \A n \in DOMAIN t : mid # <<t[n]>>
      BY <2>1
    <3>2. \A n \in DOMAIN t : ~(t[n].id = o /\ b \in Area(t[n]))
      BY <3>1, <1>1, <1>3 DEF CutLocks
    <3>. QED  BY <2>1, <3>2, <1>1, <1>3, HoldsIs
  <2>2. CASE mid # <<>>
    <3>1. PICK n \in DOMAIN t : mid = <<t[n]>>
      BY <2>2, <1>1 DEF CutLocks
    <3>2. /\ t[n] \in Lock /\ t[n].id = k.id
          /\ t[n].start = k.start /\ Reach(t[n]) = Reach(k)
      BY <3>1, MidIs
    <3>3. Ranged(t[n])
      BY <3>2 DEF Lock
    <3>4. b \in Area(t[n])
      BY <3>2, <3>3, <1>3, AreaIs
    <3>5. mid[1] = t[n]
      BY <3>1
    <3>. QED  BY <2>2, <3>2, <3>4, <3>5, <1>1, <1>3, HoldsIs
  <2>. QED  BY <2>1, <2>2
<1>4. CASE o = k.id /\ b \notin Area(k)
  <2>1. CASE \E i \in DOMAIN l : l[i].id = o /\ b \in Area(l[i])
    <3>1. PICK i \in DOMAIN l : l[i].id = o /\ b \in Area(l[i])
      BY <2>1
    <3>2. PICK n \in DOMAIN t : t[n].id = k.id /\ t[n].type = l[i].type /\ b \in Area(t[n])
      BY <3>1, <1>1, <1>4 DEF CutLocks
    <3>. QED  BY <3>1, <3>2, <1>1, <1>4, HoldsIs
  <2>2. CASE ~\E i \in DOMAIN l : l[i].id = o /\ b \in Area(l[i])
    <3>1. ASSUME NEW n \in DOMAIN t, t[n].id = o, b \in Area(t[n])
          PROVE  FALSE
      <4>1. mid # <<t[n]>>
        <5>1. ASSUME mid = <<t[n]>>
              PROVE  FALSE
          <6>1. /\ t[n] \in Lock /\ t[n].id = k.id
                /\ t[n].start = k.start /\ Reach(t[n]) = Reach(k)
            BY <5>1, MidIs
          <6>2. Ranged(t[n])
            BY <6>1 DEF Lock
          <6>. QED  BY <6>1, <6>2, <3>1, <1>4, AreaIs
        <5>. QED  BY <5>1
      <4>. QED  BY <4>1, <3>1, <2>2, <1>1, <1>4 DEF CutLocks
    <3>. QED  BY <3>1, <2>2, <1>1, <1>4, HoldsIs
  <2>. QED  BY <2>1, <2>2
<1>. QED  BY <1>2, <1>3, <1>4

-----------------------------------------------------------------------------
(* What the operations make of a list and its queues.                      *)

(* The same locks, but for their types and queues.                         *)
Alike(l, t) ==
  /\ t \in Seq(Lock) /\ Len(t) = Len(l)
  /\ \A i \in DOMAIN l : /\ t[i].id = l[i].id
                         /\ t[i].start = l[i].start /\ t[i].end = l[i].end

LEMMA AlikeIs ==
  ASSUME NEW l, Listed(l), NEW t, Alike(l, t)
  PROVE  /\ Listed(t) /\ DOMAIN t = DOMAIN l
         /\ \A i \in DOMAIN l : Reach(t[i]) = Reach(l[i]) /\ Area(t[i]) = Area(l[i])
<1>1. DOMAIN t = DOMAIN l /\ DOMAIN l = 1..Len(l) /\ Len(l) \in Nat
  BY DEF Alike, Listed
<1>2. \A i \in DOMAIN l : Reach(t[i]) = Reach(l[i]) /\ Area(t[i]) = Area(l[i])
  BY DEF Alike, Reach, Area
<1>3. ASSUME NEW i \in DOMAIN t, NEW j \in 1 .. (i - 1), t[j].id = t[i].id
      PROVE  t[i].start > Reach(t[j])
  <2>1. i \in DOMAIN l /\ j \in DOMAIN l
    BY <1>1
  <2>2. l[j].id = l[i].id
    BY <2>1, <1>3 DEF Alike
  <2>3. l[i].start > Reach(l[j])
    BY <2>1, <2>2 DEF Listed, Sorted
  <2>4. t[i].start = l[i].start /\ Reach(t[j]) = Reach(l[j])
    BY <2>1, <1>2 DEF Alike
  <2>. QED  BY <2>3, <2>4
<1>4. Listed(t)
  BY <1>3 DEF Listed, Sorted, Alike
<1>. QED  BY <1>1, <1>2, <1>4

LEMMA AlikeMet ==
  ASSUME NEW l, Listed(l), NEW t, Alike(l, t), NEW k, Ranged(k)
  PROVE  Met(t, k) = Met(l, k)
<1>1. Listed(t) /\ DOMAIN t = DOMAIN l
  BY AlikeIs
<1>2. \A i \in DOMAIN l : Apart(t[i], k) <=> Apart(l[i], k)
  BY DEF Alike, Apart
<1>3. Met(l, k) \subseteq DOMAIN l /\ Met(t, k) \subseteq DOMAIN t
  BY DEF Met
<1>4. \A i \in DOMAIN l : i \in Met(t, k) <=> i \in Met(l, k)
  BY <1>1, <1>2, MetIs DEF Alike
<1>. QED  BY <1>1, <1>3, <1>4

(* Locks that are woken stay the same but for their queues.                *)
LEMMA RousedIs ==
  ASSUME NEW l, Listed(l), NEW S, NEW t, t = Roused(l, S)
  PROVE  /\ Alike(l, t) /\ Listed(t) /\ DOMAIN t = DOMAIN l
         /\ \A i \in DOMAIN l : /\ t[i].type = l[i].type
                                /\ i \notin S => t[i] = l[i]
                                /\ t[i].blk = IF i \in S THEN <<>> ELSE l[i].blk
<1>1. DOMAIN l = 1..Len(l) /\ Len(l) \in Nat /\ \A i \in DOMAIN l : l[i] \in Lock
  BY DEF Listed
<1>2. ASSUME NEW f \in Lock
      PROVE  LET g == [f EXCEPT !.blk = <<>>]
             IN  /\ g \in Lock /\ g.id = f.id /\ g.type = f.type
                 /\ g.start = f.start /\ g.end = f.end /\ g.blk = <<>>
  <2> DEFINE g == [f EXCEPT !.blk = <<>>]
  <2>1. /\ Ranged(f)
        /\ f \in [id : Owner, type : {"RD", "WR"}, start : Byte,
                  end : Byte \cup {EOF}, blk : Seq(Proc)]
    BY DEF Lock
  <2>2. /\ g.id = f.id /\ g.type = f.type
        /\ g.start = f.start /\ g.end = f.end /\ g.blk = <<>>
        /\ g \in [id : Owner, type : {"RD", "WR"}, start : Byte,
                  end : Byte \cup {EOF}, blk : Seq(Proc)]
    <3>1. <<>> \in Seq(Proc)
      OBVIOUS
    <3>. QED  BY <2>1, <3>1
  <2> HIDE DEF g
  <2>3. g \in Lock
    BY <2>1, <2>2 DEF Lock, Ranged
  <2>. QED  BY <2>2, <2>3 DEF g
<1>3. ASSUME NEW i \in DOMAIN l
      PROVE  /\ t[i] \in Lock /\ t[i].id = l[i].id
             /\ t[i].start = l[i].start /\ t[i].end = l[i].end
             /\ t[i].type = l[i].type
             /\ i \notin S => t[i] = l[i]
             /\ t[i].blk = IF i \in S THEN <<>> ELSE l[i].blk
  <2>1. t[i] = IF i \in S THEN [l[i] EXCEPT !.blk = <<>>] ELSE l[i]
    BY DEF Roused
  <2>. QED  BY <2>1, <1>1, <1>2
<1>4. t \in Seq(Lock) /\ Len(t) = Len(l)
  <2>1. t = [i \in 1..Len(l) |-> t[i]]
    BY <1>1 DEF Roused
  <2> HIDE DEF Roused
  <2>2. \A i \in 1..Len(l) : t[i] \in Lock
    BY <1>1, <1>3
  <2>3. t \in [1..Len(l) -> Lock]
    BY <2>1, <2>2
  <2>. QED  BY <2>3, <1>1
<1>5. Alike(l, t)
  BY <1>3, <1>4 DEF Alike
<1>. QED  BY <1>3, <1>5, AlikeIs

(* Whoever waits for f can wait for g as well.                             *)
Stands(f, g) == \A r : Ranged(r) /\ Conflict(f, r) => Conflict(g, r)

Same(f, g) ==
  f.id = g.id /\ f.type = g.type /\ f.start = g.start /\ f.end = g.end

(* The operation on the list l makes it t, wakes some and leaves the others *)
(* on the queues of locks of the same owners that stand in their way, but  *)
(* for those that are late. The locks of all but one owner stay.           *)
Moves(l, t, woken, late, id) ==
  /\ Listed(t) /\ Once(t)
  /\ \A n \in DOMAIN t : \A q \in ToSet(t[n].blk) :
       /\ q \notin woken
       /\ \E i \in DOMAIN l : /\ q \in ToSet(l[i].blk) /\ t[n].id = l[i].id
                              /\ q \in late \/ Stands(l[i], t[n])
  /\ \A i \in DOMAIN l : \A q \in ToSet(l[i].blk) : q \notin woken => On(t, q)
  /\ \A i \in DOMAIN l : l[i].id # id => \E n \in DOMAIN t : Same(l[i], t[n])

LEMMA StandsItself ==
  ASSUME NEW f
  PROVE  Stands(f, f) /\ Same(f, f)
BY DEF Stands, Same

(* A request is in the way of one lock as long as another one is that      *)
(* covers it and is not of a weaker type.                                  *)
LEMMA StandsBehind ==
  ASSUME NEW f, NEW g, Ranged(f), Ranged(g), f.id = g.id,
         g.start <= f.start, Reach(f) <= Reach(g), f.type = "WR" => g.type = "WR"
  PROVE  Stands(f, g)
<1> SUFFICES ASSUME NEW r, Ranged(r), Conflict(f, r)
             PROVE  Conflict(g, r)
  BY DEF Stands
<1>1. /\ f.start \in Int /\ Reach(f) \in Int /\ g.start \in Int /\ Reach(g) \in Int
      /\ r.start \in Int /\ Reach(r) \in Int
  BY ReachIs
<1>2. /\ Apart(f, r) <=> r.start > Reach(f) \/ f.start > Reach(r)
      /\ Apart(g, r) <=> r.start > Reach(g) \/ g.start > Reach(r)
  BY ApartIs
<1>3. f.id # r.id /\ ~Apart(f, r) /\ (r.type = "WR" \/ f.type = "WR")
  BY DEF Conflict
<1>4. ~Apart(g, r)
  BY <1>1, <1>2, <1>3
<1>. QED  BY <1>3, <1>4 DEF Conflict

LEMMA NothingMoves ==
  ASSUME NEW l, Listed(l), Once(l), NEW id
  PROVE  Moves(l, l, {}, {}, id)
BY StandsItself DEF Moves, On

(* lf_wakelock().                                                           *)
LEMMA RousedMoves ==
  ASSUME NEW l, Listed(l), Once(l), NEW S, S \subseteq DOMAIN l, NEW id
  PROVE  Moves(l, Roused(l, S), Waiters(l, S), {}, id)
<1> DEFINE t == Roused(l, S)
<1>1. /\ Alike(l, t) /\ Listed(t) /\ DOMAIN t = DOMAIN l
      /\ \A i \in DOMAIN l : /\ t[i].type = l[i].type
                             /\ i \notin S => t[i] = l[i]
                             /\ t[i].blk = IF i \in S THEN <<>> ELSE l[i].blk
  BY RousedIs
<1> HIDE DEF t
<1>2. Once(t)
  BY <1>1, NoQueue DEF Once
<1>3. \A q : q \in Waiters(l, S) <=> \E i \in S : q \in ToSet(l[i].blk)
  BY DEF Waiters
<1>4. ASSUME NEW n \in DOMAIN t, NEW q \in ToSet(t[n].blk)
      PROVE  /\ q \notin Waiters(l, S)
             /\ \E i \in DOMAIN l : /\ q \in ToSet(l[i].blk) /\ t[n].id = l[i].id
                                    /\ q \in {} \/ Stands(l[i], t[n])
  <2>1. n \in DOMAIN l /\ n \notin S /\ t[n] = l[n]
    BY <1>1, <1>4, NoQueue
  <2>2. q \notin Waiters(l, S)
    BY <2>1, <1>3, <1>4 DEF Once
  <2>. QED  BY <2>1, <2>2, <1>4, StandsItself
<1>5. ASSUME NEW i \in DOMAIN l, NEW q \in ToSet(l[i].blk), q \notin Waiters(l, S)
      PROVE  On(t, q)
  <2>1. i \notin S
    BY <1>3, <1>5
  <2>. QED  BY <2>1, <1>1, <1>5 DEF On
<1>6. \A i \in DOMAIN l : Same(l[i], t[i])
  BY <1>1 DEF Same, Alike
<1>. QED  BY <1>1, <1>2, <1>4, <1>5, <1>6 DEF Moves, t

(* lf_clearlock().                                                          *)
LEMMA ClearedMoves ==
  ASSUME NEW l, Listed(l), Once(l), NEW k, Ranged(k)
  PROVE  Moves(l, Cleared(l, k), Waiters(l, Met(l, k)), {}, k.id)
<1> DEFINE S == Met(l, k)
           r == Roused(l, S)
           t == Cut(r, k, <<>>)
<1>1. /\ Alike(l, r) /\ Listed(r) /\ DOMAIN r = DOMAIN l
      /\ \A i \in DOMAIN l : /\ i \notin S => r[i] = l[i]
                             /\ r[i].blk = IF i \in S THEN <<>> ELSE l[i].blk
                             /\ r[i].id = l[i].id
  BY RousedIs DEF Alike
<1>2. Met(r, k) = S
  BY <1>1, AlikeMet
<1>3. S \subseteq DOMAIN l
  BY DEF Met
<1>4. Once(r)
  BY <1>1, NoQueue DEF Once
<1>5. MidOf(<<>>, k) /\ \A g : <<>> # <<g>>
  BY DEF MidOf
<1> HIDE DEF S, r
<1>6. Listed(t) /\ CutLocks(r, k, <<>>, t)
  BY <1>1, <1>5, CutListed, CutsLocks
<1>7. CutWaits(r, k, <<>>, t)
  BY <1>1, <1>4, <1>5, CutQueues
<1> HIDE DEF t
<1>8. \A q : q \in Waiters(l, S) <=> \E i \in S : q \in ToSet(l[i].blk)
  BY DEF Waiters
<1>9. ASSUME NEW n \in DOMAIN t, NEW q \in ToSet(t[n].blk)
      PROVE  /\ q \notin Waiters(l, S)
             /\ \E i \in DOMAIN l : /\ q \in ToSet(l[i].blk) /\ t[n].id = l[i].id
                                    /\ q \in {} \/ Stands(l[i], t[n])
  <2>1. PICK i \in DOMAIN r : /\ q \in ToSet(r[i].blk)
                              /\ i \in S \/ t[n] = r[i]
    BY <1>2, <1>5, <1>7 DEF CutWaits
  <2>2. i \notin S /\ t[n] = l[i] /\ q \in ToSet(l[i].blk) /\ i \in DOMAIN l
    BY <2>1, <1>1, NoQueue
  <2>3. q \notin Waiters(l, S)
    BY <2>2, <1>3, <1>8 DEF Once
  <2>. QED  BY <2>2, <2>3, StandsItself
<1>10. ASSUME NEW i \in DOMAIN l, NEW q \in ToSet(l[i].blk), q \notin Waiters(l, S)
       PROVE  On(t, q)
  <2>1. i \notin S
    BY <1>8, <1>10
  <2>2. Stays(r, k, i)
    BY <2>1, <1>2 DEF Stays
  <2>. QED  BY <2>1, <2>2, <1>1, <1>7 DEF CutWaits
<1>11. ASSUME NEW i \in DOMAIN l, l[i].id # k.id
       PROVE  \E n \in DOMAIN t : Same(l[i], t[n])
  <2>1. i \notin S
    BY <1>11, MetIs DEF S
  <2>2. PICK n \in DOMAIN t : t[n] = r[i]
    BY <1>1, <1>6, <1>11 DEF CutLocks
  <2>. QED  BY <2>1, <2>2, <1>1, StandsItself
<1>12. Moves(l, t, Waiters(l, S), {}, k.id)
  BY <1>6, <1>7, <1>9, <1>10, <1>11 DEF Moves, CutWaits
<1>. QED  BY <1>12 DEF t, r, S, Cleared

(* Who waits for the locks that are swallowed, one queue behind the other. *)
LEMMA TakenIs ==
  ASSUME NEW l, Listed(l), Once(l), NEW Z, Z \subseteq DOMAIN l, NEW s,
         s = [i \in DOMAIN l |-> IF i \in Z THEN l[i].blk ELSE <<>>]
  PROVE  /\ FlattenSeq(s) \in Seq(Proc) /\ IsInjective(FlattenSeq(s))
         /\ ToSet(FlattenSeq(s)) = Waiters(l, Z)
<1> DEFINE t == FlattenSeq(s)
<1>1. DOMAIN l = 1..Len(l) /\ Len(l) \in Nat /\ \A i \in DOMAIN l : l[i].blk \in Seq(Proc)
  BY DEF Listed, Lock
<1>2. s \in Seq(Seq(Proc)) /\ Len(s) = Len(l)
  <2>1. \A i \in 1..Len(l) : s[i] \in Seq(Proc)
    BY <1>1
  <2>2. s \in [1..Len(l) -> Seq(Proc)]
    BY <2>1, <1>1
  <2>. QED  BY <2>2, <1>1
<1>3. \A i \in 1..Len(s) : s[i] = IF i \in Z THEN l[i].blk ELSE <<>>
  BY <1>1, <1>2
<1>4. t \in Seq(Proc) /\ \E a, b : Spread(s, Len(s), t, a, b)
  BY <1>2, FlatSpread
<1> HIDE DEF t
<1>5. PICK a, b : Spread(s, Len(s), t, a, b)
  BY <1>4
<1>6. DOMAIN t = 1..Len(t) /\ Len(t) \in Nat
  BY <1>4
<1>7. \A n \in 1..Len(t) : /\ a[n] \in 1..Len(s) /\ b[n] \in 1..Len(s[a[n]])
                           /\ t[n] = s[a[n]][b[n]]
  BY <1>5 DEF Spread
<1>8. ASSUME NEW n \in 1..Len(t)
      PROVE  /\ a[n] \in DOMAIN l /\ a[n] \in Z /\ s[a[n]] = l[a[n]].blk
             /\ b[n] \in DOMAIN l[a[n]].blk
             /\ t[n] = l[a[n]].blk[b[n]] /\ t[n] \in ToSet(l[a[n]].blk)
  <2>1. a[n] \in 1..Len(s) /\ b[n] \in 1..Len(s[a[n]]) /\ t[n] = s[a[n]][b[n]]
    BY <1>7
  <2>2. a[n] \in Z
    <3>1. ASSUME a[n] \notin Z
          PROVE  FALSE
      <4>1. s[a[n]] = <<>>
        BY <2>1, <3>1, <1>3
      <4>. QED  BY <4>1, <2>1
    <3>. QED  BY <3>1
  <2>3. s[a[n]] = l[a[n]].blk
    BY <2>1, <2>2, <1>3
  <2>4. a[n] \in DOMAIN l
    BY <2>2
  <2>5. DOMAIN l[a[n]].blk = 1..Len(l[a[n]].blk)
    BY <2>4, <1>1
  <2>. QED  BY <2>1, <2>2, <2>3, <2>4, <2>5 DEF ToSet
<1>9. ASSUME NEW n \in 1..Len(t), NEW j \in 1..(n - 1)
      PROVE  t[n] # t[j]
  <2>1. j \in 1..Len(t)
    BY <1>6
  <2>2. a[j] < a[n] \/ (a[j] = a[n] /\ b[j] < b[n])
    BY <1>5 DEF Spread
  <2>3. a[j] \in Int /\ a[n] \in Int /\ b[j] \in Int /\ b[n] \in Int
    BY <2>1, <1>7
  <2>4. a[j] # a[n] \/ (a[j] = a[n] /\ b[j] # b[n])
    BY <2>2, <2>3
  <2>5. CASE a[j] # a[n]
    BY <2>1, <2>5, <1>8 DEF Once
  <2>6. CASE a[j] = a[n] /\ b[j] # b[n]
    BY <2>1, <2>6, <1>8 DEF Once, IsInjective
  <2>. QED  BY <2>4, <2>5, <2>6
<1>10. IsInjective(t)
  <2>1. ASSUME NEW m \in DOMAIN t, NEW n \in DOMAIN t, t[m] = t[n]
        PROVE  m = n
    <3>1. m \in 1..Len(t) /\ n \in 1..Len(t)
      BY <1>6
    <3>2. ~(m < n)
      <4>1. m < n => m \in 1..(n - 1)
        BY <3>1, <1>6
      <4>. QED  BY <4>1, <3>1, <2>1, <1>9
    <3>3. ~(n < m)
      <4>1. n < m => n \in 1..(m - 1)
        BY <3>1, <1>6
      <4>. QED  BY <4>1, <3>1, <2>1, <1>9
    <3>. QED  BY <3>1, <3>2, <3>3
  <2>. QED  BY <2>1 DEF IsInjective
<1>11. \A q : q \in Waiters(l, Z) <=> \E i \in Z : q \in ToSet(l[i].blk)
  BY DEF Waiters
<1>12. ASSUME NEW q \in ToSet(t)
       PROVE  q \in Waiters(l, Z)
  <2>1. PICK n \in 1..Len(t) : t[n] = q
    BY <1>6 DEF ToSet
  <2>. QED  BY <2>1, <1>8, <1>11
<1>13. ASSUME NEW q \in Waiters(l, Z)
       PROVE  q \in ToSet(t)
  <2>1. PICK i \in Z : q \in ToSet(l[i].blk)
    BY <1>11
  <2>2. i \in 1..Len(s) /\ s[i] = l[i].blk /\ l[i].blk \in Seq(Proc)
    BY <1>1, <1>2, <1>3
  <2>3. PICK c \in 1..Len(s[i]) : s[i][c] = q
    BY <2>1, <2>2 DEF ToSet
  <2>4. PICK n \in 1..Len(t) : a[n] = i /\ b[n] = c
    BY <2>2, <1>5 DEF Spread
  <2>5. t[n] = q
    BY <2>3, <2>4, <1>7
  <2>. QED  BY <2>5, <1>6 DEF ToSet
<1>. QED  BY <1>4, <1>10, <1>12, <1>13 DEF t

(* A lock that has all of the request is the only one that it meets.       *)
LEMMA OneMet ==
  ASSUME NEW l, Listed(l), NEW k, Ranged(k), NEW i \in DOMAIN l, l[i].id = k.id,
         l[i].start <= k.start, Reach(k) <= Reach(l[i])
  PROVE  Met(l, k) = {i}
<1>1. \A j \in DOMAIN l : /\ Ranged(l[j]) /\ l[j].start \in Int /\ Reach(l[j]) \in Int
                          /\ l[j].start <= Reach(l[j]) /\ j \in Int
  BY ReachIs DEF Listed, Lock
<1>2. k.start \in Int /\ Reach(k) \in Int /\ k.start <= Reach(k)
  BY ReachIs
<1>3. \A j \in DOMAIN l : Apart(l[j], k) <=> k.start > Reach(l[j]) \/ l[j].start > Reach(k)
  BY <1>1, ApartIs
<1>4. i \in Met(l, k)
  <2>1. ~Apart(l[i], k)
    BY <1>1, <1>2, <1>3
  <2>. QED  BY <2>1, MetIs
<1>5. ASSUME NEW j \in Met(l, k), j # i
      PROVE  FALSE
  <2>1. j \in DOMAIN l /\ l[j].id = k.id /\ ~Apart(l[j], k)
    <3>1. j \in DOMAIN l
      BY DEF Met
    <3>. QED  BY <3>1, MetIs
  <2>2. j \in 1..(i - 1) \/ i \in 1..(j - 1)
    BY <2>1, <1>1, <1>5 DEF Listed
  <2>3. l[i].start > Reach(l[j]) \/ l[j].start > Reach(l[i])
    BY <2>1, <2>2 DEF Listed, Sorted
  <2>. QED  BY <2>1, <2>3, <1>1, <1>2, <1>3
<1>. QED  BY <1>4, <1>5

LEMMA InPlaceIs ==
  ASSUME NEW f, Ranged(f), NEW k, Ranged(k), ~Apart(f, k), InPlace(f, k)
  PROVE  /\ f.start <= k.start /\ Reach(k) <= Reach(f)
         /\ f.type = k.type \/ (f.start = k.start /\ Reach(k) = Reach(f))
         /\ ~Wakes(f, k) /\ f.type = "WR" => k.type = "WR" \/ k.type \notin {"RD", "WR"}
<1>1. Overlap(f, k) = 1 => f.start = k.start /\ Reach(f) = Reach(k)
  BY OverlapIs
<1>2. Overlap(f, k) = 2 => f.start <= k.start /\ Reach(k) <= Reach(f)
  BY OverlapIs
<1>3. f.start \in Int /\ Reach(f) \in Int
  BY ReachIs
<1>. QED  BY <1>1, <1>2, <1>3 DEF InPlace, Wakes, Downgrades

(* Whoever is not woken waits for the request instead.                     *)
LEMMA SwallowedIs ==
  ASSUME NEW l, Listed(l), NEW k, Ranged(k), k.type \in {"RD", "WR"}
  PROVE  /\ Swallowed(l, k) \subseteq Met(l, k) /\ Waking(l, k) \subseteq Met(l, k)
         /\ Met(l, k) \subseteq DOMAIN l
         /\ Swallowed(l, k) \cap Waking(l, k) = {}
         /\ \A i \in Swallowed(l, k) :
              /\ l[i].id = k.id /\ k.start <= l[i].start /\ Reach(l[i]) <= Reach(k)
              /\ l[i].type = "WR" => k.type = "WR"
         /\ \A i \in Met(l, k) \ Waking(l, k) :
              i \in Swallowed(l, k) \/ InPlace(l[i], k)
<1>1. Met(l, k) \subseteq DOMAIN l
  BY DEF Met
<1>2. ASSUME NEW i \in Met(l, k)
      PROVE  l[i].id = k.id /\ ~Apart(l[i], k) /\ Ranged(l[i]) /\ i \in DOMAIN l
  BY <1>1, MetIs DEF Listed, Lock
<1>3. ASSUME NEW i \in Met(l, k)
      PROVE  /\ Overlap(l[i], k) \in 1..5
             /\ Overlap(l[i], k) = 3 => k.start <= l[i].start /\ Reach(l[i]) <= Reach(k)
  <2>1. ~Apart(l[i], k) /\ Ranged(l[i])
    BY <1>2
  <2>. QED  BY <2>1, OverlapIs
<1>4. \A i \in Swallowed(l, k) : i \in Met(l, k) /\ Overlap(l[i], k) = 3
                                 /\ ~Downgrades(l[i], k)
  BY DEF Swallowed
<1>5. \A i \in Waking(l, k) : i \in Met(l, k) /\ Wakes(l[i], k)
  BY DEF Waking
<1>6. \A i : Overlap(l[i], k) = 3 /\ ~Downgrades(l[i], k) => ~Wakes(l[i], k)
  BY DEF Wakes
<1>7. ASSUME NEW i \in Met(l, k) \ Waking(l, k)
      PROVE  i \in Swallowed(l, k) \/ InPlace(l[i], k)
  <2>1. ~Wakes(l[i], k) /\ Overlap(l[i], k) \in 1..5
    BY <1>3 DEF Waking
  <2>2. Overlap(l[i], k) = 1 \/ Overlap(l[i], k) = 2 \/ Overlap(l[i], k) = 3
    BY <2>1 DEF Wakes
  <2>. QED  BY <2>1, <2>2 DEF Wakes, InPlace, Swallowed
<1>8. \A i \in Swallowed(l, k) : l[i].type = "WR" => k.type = "WR"
  BY <1>4 DEF Downgrades
<1>. QED  BY <1>1, <1>2, <1>3, <1>4, <1>5, <1>6, <1>7, <1>8

(* A lock that is changed in place.                                         *)
LEMMA PlacedIs ==
  ASSUME NEW l, Listed(l), Once(l), NEW k, Ranged(k), k.type \in {"RD", "WR"},
         NEW x \in Met(l, k), InPlace(l[x], k), NEW t, t = Granted(l, k)
  PROVE  /\ Alike(l, t) /\ Met(l, k) = {x} /\ l[x].id = k.id
         /\ \A i \in DOMAIN l :
              /\ t[i].blk = IF i \in Waking(l, k) THEN <<>> ELSE l[i].blk
              /\ t[i].type = IF i = x THEN k.type ELSE l[i].type
              /\ i # x => t[i] = l[i]
<1> DEFINE r == Roused(l, Waking(l, k))
<1>1. /\ Alike(l, r)
      /\ \A i \in DOMAIN l : /\ r[i].type = l[i].type
                             /\ i \notin Waking(l, k) => r[i] = l[i]
                             /\ r[i].blk = IF i \in Waking(l, k) THEN <<>> ELSE l[i].blk
  BY RousedIs
<1>2. t = [i \in DOMAIN l |-> IF i \in Met(l, k) THEN [r[i] EXCEPT !.type = k.type]
                              ELSE r[i]]
  BY DEF Granted
<1> HIDE DEF r
<1>3. x \in DOMAIN l /\ l[x].id = k.id /\ ~Apart(l[x], k) /\ Ranged(l[x])
  <2>1. x \in DOMAIN l
    BY DEF Met
  <2>. QED  BY <2>1, MetIs DEF Listed, Lock
<1>4. l[x].start <= k.start /\ Reach(k) <= Reach(l[x])
  BY <1>3, InPlaceIs
<1>5. Met(l, k) = {x}
  BY <1>3, <1>4, OneMet
<1>6. DOMAIN l = 1..Len(l) /\ Len(l) \in Nat /\ \A i \in DOMAIN l : r[i] \in Lock
  <2>1. r \in Seq(Lock) /\ Len(r) = Len(l)
    BY <1>1 DEF Alike
  <2>. QED  BY <2>1 DEF Listed
<1>7. ASSUME NEW f \in Lock
      PROVE  LET g == [f EXCEPT !.type = k.type]
             IN  /\ g \in Lock /\ g.id = f.id /\ g.type = k.type
                 /\ g.start = f.start /\ g.end = f.end /\ g.blk = f.blk
  <2> DEFINE g == [f EXCEPT !.type = k.type]
  <2>1. /\ Ranged(f)
        /\ f \in [id : Owner, type : {"RD", "WR"}, start : Byte,
                  end : Byte \cup {EOF}, blk : Seq(Proc)]
    BY DEF Lock
  <2>2. /\ g.id = f.id /\ g.type = k.type
        /\ g.start = f.start /\ g.end = f.end /\ g.blk = f.blk
        /\ g \in [id : Owner, type : {"RD", "WR"}, start : Byte,
                  end : Byte \cup {EOF}, blk : Seq(Proc)]
    BY <2>1
  <2> HIDE DEF g
  <2>3. g \in Lock
    BY <2>1, <2>2 DEF Lock, Ranged
  <2>. QED  BY <2>2, <2>3 DEF g
<1>8. ASSUME NEW i \in DOMAIN l
      PROVE  /\ t[i] \in Lock /\ t[i].id = l[i].id
             /\ t[i].start = l[i].start /\ t[i].end = l[i].end
             /\ t[i].blk = IF i \in Waking(l, k) THEN <<>> ELSE l[i].blk
             /\ t[i].type = IF i = x THEN k.type ELSE l[i].type
             /\ i # x => t[i] = l[i]
  <2>1. /\ r[i] \in Lock /\ r[i].id = l[i].id
        /\ r[i].start = l[i].start /\ r[i].end = l[i].end
        /\ r[i].blk = IF i \in Waking(l, k) THEN <<>> ELSE l[i].blk
        /\ r[i].type = l[i].type
    BY <1>1, <1>6 DEF Alike
  <2>2. CASE i = x
    <3>1. t[i] = [r[i] EXCEPT !.type = k.type]
      BY <2>2, <1>2, <1>5
    <3>. QED  BY <3>1, <2>1, <2>2, <1>7
  <2>3. CASE i # x
    <3>1. t[i] = r[i] /\ i \notin Met(l, k)
      BY <2>3, <1>2, <1>5
    <3>2. i \notin Waking(l, k)
      BY <3>1 DEF Waking
    <3>. QED  BY <3>1, <3>2, <2>1, <2>3, <1>1
  <2>. QED  BY <2>2, <2>3
<1>9. t \in Seq(Lock) /\ Len(t) = Len(l)
  <2>1. t = [i \in 1..Len(l) |-> t[i]]
    BY <1>2, <1>6
  <2>2. \A i \in 1..Len(l) : t[i] \in Lock
    BY <1>6, <1>8
  <2>3. t \in [1..Len(l) -> Lock]
    BY <2>1, <2>2
  <2>. QED  BY <2>3, <1>6
<1>10. Alike(l, t)
  BY <1>8, <1>9 DEF Alike
<1>. QED  BY <1>3, <1>5, <1>8, <1>10

(* lf_setlock(), when nothing blocks the request.                          *)
LEMMA PlacedMoves ==
  ASSUME NEW l, Listed(l), Once(l), NEW k, Ranged(k), k.type \in {"RD", "WR"},
         NEW x \in Met(l, k), InPlace(l[x], k)
  PROVE  Moves(l, Granted(l, k), Waiters(l, Waking(l, k)), {}, k.id)
<1> DEFINE t == Granted(l, k)
           W == Waking(l, k)
<1>1. /\ Alike(l, t) /\ Met(l, k) = {x} /\ l[x].id = k.id
      /\ \A i \in DOMAIN l :
           /\ t[i].blk = IF i \in W THEN <<>> ELSE l[i].blk
           /\ t[i].type = IF i = x THEN k.type ELSE l[i].type
           /\ i # x => t[i] = l[i]
  BY PlacedIs
<1> HIDE DEF t
<1>2. /\ Listed(t) /\ DOMAIN t = DOMAIN l
      /\ \A i \in DOMAIN l : Reach(t[i]) = Reach(l[i])
  BY <1>1, AlikeIs
<1>3. Once(t)
  BY <1>1, <1>2, NoQueue DEF Once
<1>4. W \subseteq DOMAIN l /\ x \in DOMAIN l
  BY DEF Waking, Met
<1>5. \A q : q \in Waiters(l, W) <=> \E i \in W : q \in ToSet(l[i].blk)
  BY DEF Waiters
<1>6. \A i \in DOMAIN l : Ranged(l[i]) /\ Ranged(t[i])
  BY <1>2 DEF Listed, Lock
<1>7. ASSUME NEW n \in DOMAIN t, NEW q \in ToSet(t[n].blk)
      PROVE  /\ q \notin Waiters(l, W)
             /\ \E i \in DOMAIN l : /\ q \in ToSet(l[i].blk) /\ t[n].id = l[i].id
                                    /\ q \in {} \/ Stands(l[i], t[n])
  <2>1. n \in DOMAIN l /\ n \notin W /\ q \in ToSet(l[n].blk)
    BY <1>1, <1>2, <1>7, NoQueue
  <2>2. q \notin Waiters(l, W)
    BY <2>1, <1>4, <1>5 DEF Once
  <2>3. t[n].id = l[n].id /\ t[n].start = l[n].start /\ Reach(t[n]) = Reach(l[n])
    BY <2>1, <1>1, <1>2 DEF Alike
  <2>4. l[n].type = "WR" => t[n].type = "WR"
    <3>1. CASE n = x
      <4>1. ~Wakes(l[x], k)
        BY <2>1, <3>1 DEF W, Waking
      <4>2. ~Apart(l[x], k)
        BY <1>4, MetIs
      <4>3. l[x].type = "WR" => k.type = "WR"
        BY <4>1, <4>2, <1>4, <1>6, InPlaceIs
      <4>. QED  BY <4>3, <3>1, <1>1, <1>4
    <3>2. CASE n # x
      BY <3>2, <2>1, <1>1
    <3>. QED  BY <3>1, <3>2
  <2>5. Stands(l[n], t[n])
    <3>1. l[n].start \in Int /\ Reach(l[n]) \in Int /\ Ranged(l[n]) /\ Ranged(t[n])
      BY <2>1, <1>6, ReachIs
    <3>2. t[n].start <= l[n].start /\ Reach(l[n]) <= Reach(t[n])
      BY <3>1, <2>3
    <3>. QED  BY <3>1, <3>2, <2>3, <2>4, StandsBehind
  <2>. QED  BY <2>1, <2>2, <2>3, <2>5
<1>8. ASSUME NEW i \in DOMAIN l, NEW q \in ToSet(l[i].blk), q \notin Waiters(l, W)
      PROVE  On(t, q)
  <2>1. i \notin W
    BY <1>5, <1>8
  <2>. QED  BY <2>1, <1>1, <1>2, <1>8 DEF On
<1>9. ASSUME NEW i \in DOMAIN l, l[i].id # k.id
      PROVE  \E n \in DOMAIN t : Same(l[i], t[n])
  <2>1. i # x
    BY <1>1, <1>9
  <2>. QED  BY <2>1, <1>1, <1>2, StandsItself
<1>10. Moves(l, t, Waiters(l, W), {}, k.id)
  BY <1>2, <1>3, <1>7, <1>8, <1>9 DEF Moves
<1>. QED  BY <1>10 DEF t

(* The lock that is put at its place.                                      *)
GrantedMid(l, k) ==
  [id |-> k.id, type |-> k.type, start |-> k.start, end |-> k.end,
   blk |-> FlattenSeq([i \in DOMAIN l |->
                         IF i \in Swallowed(l, k) THEN l[i].blk ELSE <<>>])]

LEMMA MidGranted ==
  ASSUME NEW l, Listed(l), Once(l), NEW k, Ranged(k), k.type \in {"RD", "WR"},
         k.id \in Owner, NEW g, g = GrantedMid(l, k)
  PROVE  /\ g \in Lock /\ g.id = k.id /\ g.type = k.type
         /\ g.start = k.start /\ g.end = k.end /\ Reach(g) = Reach(k)
         /\ IsInjective(g.blk) /\ ToSet(g.blk) = Waiters(l, Swallowed(l, k))
         /\ MidOf(<<g>>, k)
<1> DEFINE Z == Swallowed(l, k)
           s == [i \in DOMAIN l |-> IF i \in Z THEN l[i].blk ELSE <<>>]
           b == FlattenSeq(s)
<1>1. Z \subseteq DOMAIN l
  BY DEF Swallowed, Met
<1>2. b \in Seq(Proc) /\ IsInjective(b) /\ ToSet(b) = Waiters(l, Z)
  <2> HIDE DEF Z
  <2>. QED  BY <1>1, TakenIs
<1>3. g = [id |-> k.id, type |-> k.type, start |-> k.start, end |-> k.end, blk |-> b]
  BY DEF GrantedMid
<1> HIDE DEF b
<1>4. k.start \in Byte /\ k.end \in Byte \cup {EOF}
  BY LockfAssumption DEF Ranged, Byte
<1>5. /\ g.id = k.id /\ g.type = k.type /\ g.start = k.start /\ g.end = k.end
      /\ g.blk = b
      /\ g \in [id : Owner, type : {"RD", "WR"}, start : Byte,
                end : Byte \cup {EOF}, blk : Seq(Proc)]
  BY <1>2, <1>3, <1>4
<1>6. g \in Lock
  BY <1>5 DEF Lock, Ranged
<1>7. Reach(g) = Reach(k)
  BY <1>5 DEF Reach
<1>8. MidOf(<<g>>, k)
  BY <1>5, <1>6, <1>7 DEF MidOf
<1>. QED  BY <1>2, <1>5, <1>6, <1>7, <1>8

LEMMA GrantedIs ==
  ASSUME NEW l, NEW k, \A i \in Met(l, k) : ~InPlace(l[i], k)
  PROVE  Granted(l, k) = Cut(Roused(l, Waking(l, k)), k, <<GrantedMid(l, k)>>)
BY Zenon DEF Granted, GrantedMid

LEMMA PutMoves ==
  ASSUME NEW l, Listed(l), Once(l), NEW k, Ranged(k), k.type \in {"RD", "WR"},
         k.id \in Owner, \A i \in Met(l, k) : ~InPlace(l[i], k)
  PROVE  Moves(l, Granted(l, k), Waiters(l, Waking(l, k)), {}, k.id)
<1> DEFINE S == Met(l, k)
           W == Waking(l, k)
           Z == Swallowed(l, k)
           r == Roused(l, W)
           g == GrantedMid(l, k)
           t == Cut(r, k, <<g>>)
<1>1. /\ Alike(l, r) /\ Listed(r) /\ DOMAIN r = DOMAIN l
      /\ \A i \in DOMAIN l : /\ i \notin W => r[i] = l[i]
                             /\ r[i].blk = IF i \in W THEN <<>> ELSE l[i].blk
                             /\ r[i].id = l[i].id /\ r[i].start = l[i].start
      /\ \A i \in DOMAIN l : Reach(r[i]) = Reach(l[i])
  BY RousedIs, AlikeIs DEF Alike
<1>2. Met(r, k) = S
  BY <1>1, AlikeMet
<1>3. /\ Z \subseteq S /\ W \subseteq S /\ S \subseteq DOMAIN l /\ Z \cap W = {}
      /\ \A i \in Z :
           /\ l[i].id = k.id /\ k.start <= l[i].start /\ Reach(l[i]) <= Reach(k)
           /\ l[i].type = "WR" => k.type = "WR"
      /\ \A i \in S \ W : i \in Z
  BY SwallowedIs
<1>4. Once(r)
  BY <1>1, NoQueue DEF Once
<1>5. /\ g \in Lock /\ g.id = k.id /\ g.type = k.type
      /\ g.start = k.start /\ Reach(g) = Reach(k)
      /\ IsInjective(g.blk) /\ ToSet(g.blk) = Waiters(l, Z)
      /\ MidOf(<<g>>, k)
  BY MidGranted
<1>6. /\ \A q : q \in Waiters(l, W) <=> \E i \in W : q \in ToSet(l[i].blk)
      /\ \A q : q \in Waiters(l, Z) <=> \E i \in Z : q \in ToSet(l[i].blk)
  BY DEF Waiters
<1>7. \A i \in DOMAIN l : Ranged(l[i]) /\ l[i].start \in Int /\ Reach(l[i]) \in Int
  BY ReachIs DEF Listed, Lock
<1>8. k.start \in Int /\ Reach(k) \in Int
  BY ReachIs
<1> HIDE DEF S, W, Z, r, g
<1>9. \A i \in Z : ~Stays(r, k, i)
  BY <1>1, <1>2, <1>3, <1>7, <1>8 DEF Stays
<1>10. \A v : <<v>> = <<g>> => v = g
  OBVIOUS
<1>11. ASSUME NEW i \in DOMAIN r, Stays(r, k, i)
       PROVE  ToSet(r[i].blk) \cap ToSet(g.blk) = {}
  <2>1. i \notin Z /\ i \in DOMAIN l
    BY <1>1, <1>9, <1>11
  <2>2. ToSet(r[i].blk) \subseteq ToSet(l[i].blk)
    BY <2>1, <1>1, NoQueue
  <2>3. \A j \in Z : ToSet(l[i].blk) \cap ToSet(l[j].blk) = {}
    BY <2>1, <1>3 DEF Once
  <2>. QED  BY <2>2, <2>3, <1>5, <1>6
<1>12. Listed(t) /\ CutLocks(r, k, <<g>>, t)
  BY <1>1, <1>5, CutListed, CutsLocks
<1>13. CutWaits(r, k, <<g>>, t)
  <2>1. \A v : <<g>> = <<v>> =>
          /\ IsInjective(v.blk)
          /\ \A i \in DOMAIN r :
               Stays(r, k, i) => ToSet(r[i].blk) \cap ToSet(v.blk) = {}
    BY <1>5, <1>10, <1>11, Zenon
  <2>. QED  BY <1>1, <1>4, <1>5, <2>1, CutQueues, Zenon
<1> HIDE DEF t
<1>14. ASSUME NEW n \in DOMAIN t, NEW q \in ToSet(t[n].blk)
       PROVE  /\ q \notin Waiters(l, W)
              /\ \E i \in DOMAIN l : /\ q \in ToSet(l[i].blk) /\ t[n].id = l[i].id
                                     /\ q \in {} \/ Stands(l[i], t[n])
  <2>1. CASE <<g>> = <<t[n]>>
    <3>1. t[n] = g
      BY <2>1
    <3>2. PICK i \in Z : q \in ToSet(l[i].blk)
      BY <3>1, <1>5, <1>6, <1>14
    <3>3. q \notin Waiters(l, W)
      BY <3>2, <1>3, <1>6 DEF Once
    <3>4. Ranged(g) /\ Ranged(l[i])
      BY <3>2, <1>3, <1>5, <1>7 DEF Lock
    <3>5. Stands(l[i], g)
      BY <3>4, <1>3, <1>5, StandsBehind
    <3>. QED  BY <3>1, <3>2, <3>3, <3>5, <1>3, <1>5
  <2>2. CASE <<g>> # <<t[n]>>
    <3>1. PICK i \in DOMAIN r : /\ Stays(r, k, i) /\ q \in ToSet(r[i].blk)
                                /\ i \in S \/ t[n] = r[i]
      BY <2>2, <1>2, <1>13 DEF CutWaits
    <3>2. i \in DOMAIN l /\ i \notin W /\ q \in ToSet(l[i].blk) /\ r[i] = l[i]
      BY <3>1, <1>1, NoQueue
    <3>3. i \notin S
      BY <3>1, <3>2, <1>3, <1>9
    <3>4. q \notin Waiters(l, W)
      BY <3>2, <1>3, <1>6 DEF Once
    <3>. QED  BY <3>1, <3>2, <3>3, <3>4, StandsItself
  <2>. QED  BY <2>1, <2>2
<1>15. ASSUME NEW i \in DOMAIN l, NEW q \in ToSet(l[i].blk), q \notin Waiters(l, W)
       PROVE  On(t, q)
  <2>1. i \notin W
    BY <1>6, <1>15
  <2>2. CASE i \in S
    <3>1. q \in ToSet(g.blk)
      BY <2>1, <2>2, <1>3, <1>5, <1>6, <1>15
    <3>. QED  BY <3>1, <1>13 DEF CutWaits
  <2>3. CASE i \notin S
    <3>1. Stays(r, k, i)
      BY <2>3, <1>2 DEF Stays
    <3>. QED  BY <2>1, <3>1, <1>1, <1>13, <1>15 DEF CutWaits
  <2>. QED  BY <2>2, <2>3
<1>16. ASSUME NEW i \in DOMAIN l, l[i].id # k.id
       PROVE  \E n \in DOMAIN t : Same(l[i], t[n])
  <2>1. i \notin S
    BY <1>16, MetIs DEF S
  <2>2. i \notin W
    BY <2>1, <1>3
  <2>3. PICK n \in DOMAIN t : t[n] = r[i]
    BY <1>1, <1>12, <1>16 DEF CutLocks
  <2>. QED  BY <2>2, <2>3, <1>1, StandsItself
<1>17. Moves(l, t, Waiters(l, W), {}, k.id)
  BY <1>12, <1>13, <1>14, <1>15, <1>16 DEF Moves, CutWaits
<1>. QED  BY <1>17, GrantedIs DEF t, r, g, W

LEMMA GrantedMoves ==
  ASSUME NEW l, Listed(l), Once(l), NEW k, Ranged(k), k.type \in {"RD", "WR"},
         k.id \in Owner
  PROVE  Moves(l, Granted(l, k), Waiters(l, Waking(l, k)), {}, k.id)
<1>1. CASE \E x \in Met(l, k) : InPlace(l[x], k)
  BY <1>1, PlacedMoves
<1>2. CASE \A x \in Met(l, k) : ~InPlace(l[x], k)
  BY <1>2, PutMoves
<1>. QED  BY <1>1, <1>2

(* lf_clearlock(), when it goes on after lf_split() has slept.              *)
LEMMA ResumeMoves ==
  ASSUME NEW l, Listed(l), Once(l), NEW k, Ranged(k),
         NEW x \in DOMAIN l, Around(l[x], k)
  PROVE  Moves(l, Cut(l, k, <<>>), {}, Waiters(l, Met(l, k)), k.id)
<1> DEFINE t == Cut(l, k, <<>>)
           S == Met(l, k)
<1>1. /\ l[x].start \in Int /\ Reach(l[x]) \in Int
      /\ k.start \in Int /\ Reach(k) \in Int
  BY ReachIs DEF Listed, Lock
<1>2. l[x].id = k.id /\ l[x].start < k.start /\ Reach(k) < Reach(l[x])
  BY DEF Around
<1>3. S = {x}
  BY <1>1, <1>2, OneMet
<1>4. MidOf(<<>>, k) /\ \A g : <<>> # <<g>>
  BY DEF MidOf
<1> HIDE DEF S
<1>5. \A i \in DOMAIN l : Stays(l, k, i)
  BY <1>2, <1>3 DEF Stays, S
<1>6. Listed(t) /\ CutLocks(l, k, <<>>, t)
  BY <1>4, CutListed, CutsLocks
<1>7. CutWaits(l, k, <<>>, t)
  BY <1>4, CutQueues
<1> HIDE DEF t
<1>8. \A q : q \in Waiters(l, S) <=> \E i \in S : q \in ToSet(l[i].blk)
  BY DEF Waiters
<1>9. ASSUME NEW n \in DOMAIN t, NEW q \in ToSet(t[n].blk)
      PROVE  \E i \in DOMAIN l : /\ q \in ToSet(l[i].blk) /\ t[n].id = l[i].id
                                 /\ q \in Waiters(l, S) \/ Stands(l[i], t[n])
  <2>1. PICK i \in DOMAIN l : /\ q \in ToSet(l[i].blk) /\ t[n].id = l[i].id
                              /\ i \in Met(l, k) \/ t[n] = l[i]
    BY <1>4, <1>7 DEF CutWaits
  <2>2. q \in Waiters(l, S) \/ Stands(l[i], t[n])
    BY <2>1, <1>8, StandsItself DEF S
  <2>. QED  BY <2>1, <2>2
<1>10. ASSUME NEW i \in DOMAIN l, NEW q \in ToSet(l[i].blk)
       PROVE  On(t, q)
  BY <1>5, <1>7, <1>10 DEF CutWaits
<1>11. ASSUME NEW i \in DOMAIN l, l[i].id # k.id
       PROVE  \E n \in DOMAIN t : Same(l[i], t[n])
  BY <1>6, <1>11, StandsItself DEF CutLocks
<1>12. Moves(l, t, {}, Waiters(l, S), k.id)
  BY <1>6, <1>7, <1>9, <1>10, <1>11 DEF Moves, CutWaits
<1>. QED  BY <1>12 DEF t, S

(* A queue without one of its processes.                                   *)
LEMMA QueueLess ==
  ASSUME NEW f \in Lock, IsInjective(f.blk), NEW p, NEW g,
         g = [f EXCEPT !.blk = RemoveFirst(@, p)]
  PROVE  /\ g \in Lock /\ Same(f, g) /\ IsInjective(g.blk)
         /\ ToSet(g.blk) = ToSet(f.blk) \ {p}
         /\ g.id = f.id /\ g.start = f.start /\ g.end = f.end
<1>1. /\ Ranged(f)
      /\ f \in [id : Owner, type : {"RD", "WR"}, start : Byte,
                end : Byte \cup {EOF}, blk : Seq(Proc)]
  BY DEF Lock
<1>2. f.blk \in Seq(Proc)
  BY <1>1
<1>3. /\ RemoveFirst(f.blk, p) \in Seq(Proc)
      /\ IsInjective(RemoveFirst(f.blk, p))
      /\ ToSet(RemoveFirst(f.blk, p)) = ToSet(f.blk) \ {p}
  BY <1>2, RemoveOne
<1>4. /\ g.id = f.id /\ g.type = f.type /\ g.start = f.start /\ g.end = f.end
      /\ g.blk = RemoveFirst(f.blk, p)
      /\ g \in [id : Owner, type : {"RD", "WR"}, start : Byte,
                end : Byte \cup {EOF}, blk : Seq(Proc)]
  BY <1>1, <1>3
<1> HIDE DEF RemoveFirst
<1>5. g \in Lock
  BY <1>1, <1>4 DEF Lock, Ranged
<1>. QED  BY <1>3, <1>4, <1>5 DEF Same

LEMMA SameStands ==
  ASSUME NEW f, NEW g, Same(f, g)
  PROVE  Stands(f, g) /\ \A r : Conflict(f, r) <=> Conflict(g, r)
BY DEF Stands, Same, Conflict, Apart

(* A process is on no queue any more.                                      *)
Leaves(l, t, p) ==
  /\ Listed(t) /\ DOMAIN t = DOMAIN l
  /\ \A i \in DOMAIN l : /\ Same(l[i], t[i]) /\ IsInjective(t[i].blk)
                         /\ ToSet(t[i].blk) = ToSet(l[i].blk) \ {p}

LEMMA QueuesLess ==
  ASSUME NEW l, Listed(l), Once(l), NEW p, NEW t,
         t = [i \in DOMAIN l |-> [l[i] EXCEPT !.blk = RemoveFirst(@, p)]]
  PROVE  Leaves(l, t, p)
<1>1. DOMAIN l = 1..Len(l) /\ Len(l) \in Nat /\ \A i \in DOMAIN l : l[i] \in Lock
  BY DEF Listed
<1>2. ASSUME NEW i \in DOMAIN l
      PROVE  /\ t[i] \in Lock /\ Same(l[i], t[i]) /\ IsInjective(t[i].blk)
             /\ ToSet(t[i].blk) = ToSet(l[i].blk) \ {p}
             /\ t[i].id = l[i].id /\ t[i].start = l[i].start /\ t[i].end = l[i].end
  <2>1. t[i] = [l[i] EXCEPT !.blk = RemoveFirst(@, p)]
    OBVIOUS
  <2>2. l[i] \in Lock /\ IsInjective(l[i].blk)
    BY <1>1 DEF Once
  <2> DEFINE f == l[i]
             g == t[i]
  <2>3. g = [f EXCEPT !.blk = RemoveFirst(@, p)]
    BY <2>1
  <2>4. f \in Lock /\ IsInjective(f.blk)
    BY <2>2
  <2> HIDE DEF f, g
  <2>5. /\ g \in Lock /\ Same(f, g) /\ IsInjective(g.blk)
        /\ ToSet(g.blk) = ToSet(f.blk) \ {p}
        /\ g.id = f.id /\ g.start = f.start /\ g.end = f.end
    BY <2>3, <2>4, QueueLess
  <2>. QED  BY <2>5 DEF f, g
<1>3. DOMAIN t = DOMAIN l
  OBVIOUS
<1>4. t \in Seq(Lock) /\ Len(t) = Len(l)
  <2>1. t = [i \in 1..Len(l) |-> t[i]]
    BY <1>1
  <2>2. t \in [1..Len(l) -> Lock]
    BY <2>1, <1>1, <1>2
  <2>. QED  BY <2>2, <1>1
<1>5. Listed(t)
  <2>1. Alike(l, t)
    BY <1>2, <1>4 DEF Alike
  <2>. QED  BY <2>1, AlikeIs
<1>. QED  BY <1>2, <1>3, <1>5 DEF Leaves

LEMMA InterruptMoves ==
  ASSUME NEW l, Listed(l), Once(l), NEW p, NEW id, NEW t,
         t = [i \in DOMAIN l |-> [l[i] EXCEPT !.blk = RemoveFirst(@, p)]]
  PROVE  Moves(l, t, {p}, {}, id)
<1>2. /\ Listed(t) /\ DOMAIN t = DOMAIN l
      /\ \A i \in DOMAIN l : /\ Same(l[i], t[i]) /\ IsInjective(t[i].blk)
                             /\ ToSet(t[i].blk) = ToSet(l[i].blk) \ {p}
  <2>1. Leaves(l, t, p)
    BY QueuesLess
  <2>. QED  BY <2>1, Zenon DEF Leaves
<1>3. DOMAIN t = DOMAIN l
  BY <1>2
<1>5. Listed(t)
  BY <1>2
<1>6. Once(t)
  <2>1. \A i \in DOMAIN t : IsInjective(t[i].blk)
    BY <1>2, <1>3
  <2>2. ASSUME NEW i \in DOMAIN t, NEW j \in DOMAIN t, i # j
        PROVE  ToSet(t[i].blk) \cap ToSet(t[j].blk) = {}
    <3>1. ToSet(l[i].blk) \cap ToSet(l[j].blk) = {}
      BY <2>2, <1>3 DEF Once
    <3>2. ToSet(t[i].blk) \subseteq ToSet(l[i].blk) /\ ToSet(t[j].blk) \subseteq ToSet(l[j].blk)
      BY <1>2, <1>3
    <3>. QED  BY <3>1, <3>2
  <2>. QED  BY <2>1, <2>2 DEF Once
<1>7. ASSUME NEW n \in DOMAIN t, NEW q \in ToSet(t[n].blk)
      PROVE  /\ q \notin {p}
             /\ \E i \in DOMAIN l : /\ q \in ToSet(l[i].blk) /\ t[n].id = l[i].id
                                    /\ q \in {} \/ Stands(l[i], t[n])
  <2>0. n \in DOMAIN l /\ Same(l[n], t[n]) /\ ToSet(t[n].blk) = ToSet(l[n].blk) \ {p}
    BY <1>2, <1>3, Zenon
  <2>1. n \in DOMAIN l /\ q \in ToSet(l[n].blk) /\ q # p /\ Same(l[n], t[n])
        /\ t[n].id = l[n].id
    BY <2>0, <1>7 DEF Same
  <2>2. Stands(l[n], t[n])
    BY <2>1, SameStands
  <2>. QED  BY <2>1, <2>2
<1>8. ASSUME NEW i \in DOMAIN l, NEW q \in ToSet(l[i].blk), q \notin {p}
      PROVE  On(t, q)
  BY <1>2, <1>3, <1>8 DEF On
<1>9. \A i \in DOMAIN l : \E n \in DOMAIN t : Same(l[i], t[n])
  BY <1>2, <1>3
<1> HIDE DEF Same, Stands, On
<1>. QED  BY <1>5, <1>6, <1>7, <1>8, <1>9 DEF Moves

(* A process goes to the end of the queue of the lock m.                   *)
Joins(l, t, m, p) ==
  /\ Listed(t) /\ Once(t) /\ DOMAIN t = DOMAIN l
  /\ \A i \in DOMAIN l :
       /\ Same(l[i], t[i])
       /\ ToSet(t[i].blk) = IF i = m THEN ToSet(l[i].blk) \cup {p}
                            ELSE ToSet(l[i].blk)

LEMMA QueueMore ==
  ASSUME NEW f \in Lock, IsInjective(f.blk), NEW p \in Proc, p \notin ToSet(f.blk),
         NEW g, g = [f EXCEPT !.blk = Append(@, p)]
  PROVE  /\ g \in Lock /\ Same(f, g) /\ IsInjective(g.blk)
         /\ ToSet(g.blk) = ToSet(f.blk) \cup {p}
<1>1. /\ Ranged(f)
      /\ f \in [id : Owner, type : {"RD", "WR"}, start : Byte,
                end : Byte \cup {EOF}, blk : Seq(Proc)]
  BY DEF Lock
<1>2. f.blk \in Seq(Proc)
  BY <1>1
<1>3. /\ Append(f.blk, p) \in Seq(Proc) /\ IsInjective(Append(f.blk, p))
      /\ ToSet(Append(f.blk, p)) = ToSet(f.blk) \cup {p}
  BY <1>2, AddLast
<1>4. /\ g.id = f.id /\ g.type = f.type /\ g.start = f.start /\ g.end = f.end
      /\ g.blk = Append(f.blk, p)
      /\ g \in [id : Owner, type : {"RD", "WR"}, start : Byte,
                end : Byte \cup {EOF}, blk : Seq(Proc)]
  BY <1>1, <1>3
<1>5. g \in Lock
  BY <1>1, <1>4 DEF Lock, Ranged
<1>. QED  BY <1>3, <1>4, <1>5 DEF Same

LEMMA SleepJoins ==
  ASSUME NEW l, Listed(l), Once(l), NEW p \in Proc, ~On(l, p),
         NEW m \in DOMAIN l, NEW t,
         t = [l EXCEPT ![m].blk = Append(@, p)]
  PROVE  Joins(l, t, m, p)
<1>1. DOMAIN l = 1..Len(l) /\ Len(l) \in Nat /\ \A i \in DOMAIN l : l[i] \in Lock
  BY DEF Listed
<1>2. /\ DOMAIN t = DOMAIN l /\ t[m] = [l[m] EXCEPT !.blk = Append(@, p)]
      /\ \A i \in DOMAIN l : i # m => t[i] = l[i]
  OBVIOUS
<1>3. ASSUME NEW i \in DOMAIN l
      PROVE  /\ t[i] \in Lock /\ Same(l[i], t[i]) /\ IsInjective(t[i].blk)
             /\ ToSet(t[i].blk) = IF i = m THEN ToSet(l[i].blk) \cup {p}
                                  ELSE ToSet(l[i].blk)
  <2>1. l[i] \in Lock /\ IsInjective(l[i].blk) /\ p \notin ToSet(l[i].blk)
    BY <1>1 DEF Once, On
  <2>2. CASE i = m
    BY <2>1, <2>2, <1>2, QueueMore
  <2>3. CASE i # m
    BY <2>1, <2>3, <1>2, StandsItself
  <2>. QED  BY <2>2, <2>3
<1>4. t \in Seq(Lock) /\ Len(t) = Len(l)
  <2>1. t = [i \in 1..Len(l) |-> t[i]]
    BY <1>1
  <2>2. t \in [1..Len(l) -> Lock]
    BY <2>1, <1>1, <1>3
  <2>. QED  BY <2>2, <1>1
<1>5. Listed(t)
  <2>1. Alike(l, t)
    BY <1>3, <1>4 DEF Alike, Same
  <2>. QED  BY <2>1, AlikeIs
<1>6. Once(t)
  <2>1. \A i \in DOMAIN t : IsInjective(t[i].blk)
    BY <1>2, <1>3
  <2>2. ASSUME NEW i \in DOMAIN t, NEW j \in DOMAIN t, i # j
        PROVE  ToSet(t[i].blk) \cap ToSet(t[j].blk) = {}
    <3>1. ToSet(l[i].blk) \cap ToSet(l[j].blk) = {}
      BY <2>2, <1>2 DEF Once
    <3>2. p \notin ToSet(l[i].blk) /\ p \notin ToSet(l[j].blk)
      BY <1>2 DEF On
    <3>3. /\ ToSet(t[i].blk) = IF i = m THEN ToSet(l[i].blk) \cup {p} ELSE ToSet(l[i].blk)
          /\ ToSet(t[j].blk) = IF j = m THEN ToSet(l[j].blk) \cup {p} ELSE ToSet(l[j].blk)
      BY <1>2, <1>3
    <3>. QED  BY <2>2, <3>1, <3>2, <3>3
  <2>. QED  BY <2>1, <2>2 DEF Once
<1>. QED  BY <1>2, <1>3, <1>5, <1>6 DEF Joins

-----------------------------------------------------------------------------
(* The invariant.                                                          *)

(* A process waits for the one lock on whose queue it is.                  *)
LEMMA TheLock ==
  ASSUME NEW l, Once(l), NEW i \in DOMAIN l, NEW q \in ToSet(l[i].blk)
  PROVE  (CHOOSE j \in DOMAIN l : q \in ToSet(l[j].blk)) = i
BY DEF Once

LEMMA RequestIs ==
  ASSUME NEW p \in Proc, NEW k \in Asks[p]
  PROVE  /\ Ranged(k) /\ k.type \in {"RD", "WR", "UN"} /\ k.id \in Owner
         /\ k.id \notin Proc \ {p}
         /\ k.id = p \/ (k.id \in File /\ k.end = EOF)
         /\ k # NoRequest
         /\ k \in Locks(p) => k.type \in {"RD", "WR"}
         /\ k \notin Locks(p) => k.type = "UN"
<1>1. /\ k.type \in {"RD", "WR", "UN"}
      /\ k.start \in Byte /\ k.end \in (k.start .. (End - 1)) \cup {EOF}
      /\ k.id = p \/ (k.id \in File /\ k.start = 0 /\ k.end = EOF)
      /\ Proc \cap File = {}
  BY LockfAssumption
<1>2. k # NoRequest
  <2>1. NoRequest.type = "none"
    BY DEF NoRequest
  <2>. QED  BY <1>1, <2>1
<1>. QED  BY <1>1, <1>2 DEF Ranged, Owner, Locks

(* What an operation on the list leaves of the queues and of the locks     *)
(* that are being split.                                                   *)
Moved(t, w, late, id) ==
  /\ Listed(t) /\ Once(t)
  /\ \A n \in DOMAIN t : \A q \in ToSet(t[n].blk) :
       /\ q \in Proc /\ q \notin w /\ pc[q] = "asleep"
       /\ q \in missed \cup late \/ Conflict(t[n], req[q])
       /\ WaitsFor(q) = t[n].id
  /\ \A q \in Proc : pc[q] = "asleep" /\ q \notin w => On(t, q)
  /\ \A q \in Proc : pc[q] = "split" /\ q # id =>
       \E n \in DOMAIN t : Around(t[n], req[q])

LEMMA MovesMoved ==
  ASSUME LockfInv, NEW t, NEW w, NEW late, NEW id, Moves(list, t, w, late, id)
  PROVE  Moved(t, w, late, id)
<1>1. Listed(list) /\ States /\ Queues /\ Splitting
  BY DEF LockfInv
<1>2. ASSUME NEW n \in DOMAIN t, NEW q \in ToSet(t[n].blk)
      PROVE  /\ q \in Proc /\ q \notin w /\ pc[q] = "asleep"
             /\ q \in missed \cup late \/ Conflict(t[n], req[q])
             /\ WaitsFor(q) = t[n].id
  <2>1. PICK i \in DOMAIN list : /\ q \in ToSet(list[i].blk) /\ t[n].id = list[i].id
                                 /\ q \in late \/ Stands(list[i], t[n])
    BY <1>2 DEF Moves
  <2>2. pc[q] = "asleep" /\ (q \in missed \/ Conflict(list[i], req[q]))
    BY <1>1, <2>1 DEF Queues
  <2>3. q \in Proc
    <3>1. list[i].blk \in Seq(Proc)
      BY <1>1 DEF Listed, Lock
    <3>. QED  BY <2>1, <3>1 DEF ToSet
  <2>4. req[q] \in Asks[q]
    BY <1>1, <2>2, <2>3 DEF States, Locks
  <2>5. Ranged(req[q])
    BY <2>3, <2>4, RequestIs
  <2>6. q \notin w
    BY <1>2 DEF Moves
  <2>7. WaitsFor(q) = t[n].id
    <3>1. (CHOOSE j \in DOMAIN list : q \in ToSet(list[j].blk)) = i
      BY <1>1, <2>1, TheLock DEF Queues
    <3>. QED  BY <2>1, <3>1 DEF WaitsFor
  <2>. QED  BY <2>1, <2>2, <2>3, <2>5, <2>6, <2>7 DEF Stands
<1>3. ASSUME NEW q \in Proc, pc[q] = "asleep", q \notin w
      PROVE  On(t, q)
  <2>1. PICK i \in DOMAIN list : q \in ToSet(list[i].blk)
    BY <1>1, <1>3 DEF Queues, On
  <2>. QED  BY <1>3, <2>1 DEF Moves
<1>4. ASSUME NEW q \in Proc, pc[q] = "split", q # id
      PROVE  \E n \in DOMAIN t : Around(t[n], req[q])
  <2>1. req[q].id = q /\ \E i \in DOMAIN list : Around(list[i], req[q])
    BY <1>1, <1>4 DEF Splitting
  <2>2. PICK i \in DOMAIN list : Around(list[i], req[q])
    BY <2>1
  <2>3. list[i].id # id
    BY <2>1, <2>2, <1>4 DEF Around
  <2>4. PICK n \in DOMAIN t : Same(list[i], t[n])
    BY <2>3 DEF Moves
  <2>5. Around(t[n], req[q])
    BY <2>2, <2>4 DEF Same, Around, Reach
  <2>. QED  BY <2>5
<1>5. Listed(t) /\ Once(t)
  BY DEF Moves
<1>. QED  BY <1>2, <1>3, <1>4, <1>5 DEF Moved

(* Who a process may wake or leave behind, when it goes on with a request. *)
Goes(p, how, k) ==
  \/ how = "idle" /\ k = NoRequest
  \/ how = "asleep" /\ k \in Locks(p)
  \/ how \in {"called", "split"} /\ k \in Asks[p]

Sleepers == {q \in Proc : pc[q] = "asleep"}

LEMMA BecomesIs ==
  ASSUME States, NEW p \in Proc, NEW how, NEW k, NEW woken, NEW freed, NEW late,
         Becomes(p, how, k, woken, freed, late)
  PROVE  \A q \in Proc :
           /\ req'[q] = IF q = p THEN k ELSE req[q]
           /\ pc'[q] = IF q = p THEN how
                       ELSE IF q \in woken THEN "retry" ELSE pc[q]
BY DEF States, Becomes

LEMMA BecomesStates ==
  ASSUME States, NEW p \in Proc, NEW how, NEW k, NEW woken, NEW freed, NEW late,
         Goes(p, how, k), woken \subseteq Sleepers,
         freed \cup late \subseteq Sleepers \ (woken \cup {p}),
         Becomes(p, how, k, woken, freed, late), wild' \in BOOLEAN
  PROVE  States'
<1>1. \A q \in Proc :
        /\ req'[q] = IF q = p THEN k ELSE req[q]
        /\ pc'[q] = IF q = p THEN how ELSE IF q \in woken THEN "retry" ELSE pc[q]
  BY BecomesIs
<1>2. /\ pc \in [Proc -> {"idle", "called", "asleep", "retry", "split"}]
      /\ req \in [Proc -> {NoRequest} \cup UNION {Asks[q] : q \in Proc}]
      /\ stale \cup missed \subseteq {q \in Proc : pc[q] = "asleep"}
  BY DEF States
<1>3. ASSUME NEW q \in Proc
      PROVE  (CASE pc'[q] = "idle" -> req'[q] = NoRequest
                [] pc'[q] \in {"asleep", "retry"} -> req'[q] \in Locks(q)
                [] pc'[q] \in {"called", "split"} -> req'[q] \in Asks[q])
  <2>1. CASE q = p
    BY <2>1, <1>1 DEF Goes
  <2>2. CASE q # p /\ q \in woken
    <3>1. pc[q] = "asleep"
      BY <2>2 DEF Sleepers
    <3>2. req[q] \in Locks(q)
      BY <3>1 DEF States
    <3>. QED  BY <2>2, <3>2, <1>1
  <2>3. CASE q # p /\ q \notin woken
    <3>1. pc'[q] = pc[q] /\ req'[q] = req[q]
      BY <2>3, <1>1
    <3>2. (CASE pc[q] = "idle" -> req[q] = NoRequest
             [] pc[q] \in {"asleep", "retry"} -> req[q] \in Locks(q)
             [] pc[q] \in {"called", "split"} -> req[q] \in Asks[q])
      BY DEF States
    <3>. QED  BY <3>1, <3>2
  <2>. QED  BY <2>1, <2>2, <2>3
<1>4. how \in {"idle", "called", "asleep", "split"}
      /\ k \in {NoRequest} \cup UNION {Asks[q] : q \in Proc}
  <2>1. how \in {"idle", "called", "asleep", "split"} /\ (k = NoRequest \/ k \in Asks[p])
    BY DEF Goes, Locks
  <2>2. k \in {NoRequest} \cup UNION {Asks[q] : q \in Proc}
    <3>1. CASE k = NoRequest
      BY <3>1
    <3>2. CASE k \in Asks[p]
      <4>1. \E q \in Proc : k \in Asks[q]
        BY <3>2
      <4>. QED  BY <4>1
    <3>. QED  BY <2>1, <3>1, <3>2
  <2>. QED  BY <2>1, <2>2
<1>5. pc' \in [Proc -> {"idle", "called", "asleep", "retry", "split"}]
  BY <1>2, <1>4 DEF Becomes
<1>6. req' \in [Proc -> {NoRequest} \cup UNION {Asks[q] : q \in Proc}]
  BY <1>2, <1>4 DEF Becomes
<1>7. stale' \cup missed' \subseteq {q \in Proc : pc'[q] = "asleep"}
  <2>1. ASSUME NEW q \in stale' \cup missed'
        PROVE  q \in Proc /\ pc'[q] = "asleep"
    <3>1. q \notin woken \cup {p} /\ q \in stale \cup missed \cup freed \cup late
      BY <2>1 DEF Becomes
    <3>2. q \in Proc /\ pc[q] = "asleep"
      BY <3>1, <1>2 DEF Sleepers
    <3>. QED  BY <3>1, <3>2, <1>1
  <2>. QED  BY <2>1
<1>. QED  BY <1>3, <1>5, <1>6, <1>7 DEF States

(* What the other sleepers wait for stays the same.                        *)
Keeps(p) ==
  \A q \in Proc \ {p} : pc'[q] = "asleep" =>
    /\ pc[q] = "asleep" /\ req'[q] = req[q] /\ WaitsFor(q)' = WaitsFor(q)
    /\ q \in stale => q \in stale'

WaitsNow(p, o) == WaitsFor(p)' = o

(* A process comes to the end of its request, or sleeps in lf_split().      *)
LEMMA Settles ==
  ASSUME LockfInv, NEW p \in Proc, NEW how, NEW k, NEW woken, NEW freed, NEW late,
         Goes(p, how, k), how # "asleep", woken \subseteq Sleepers,
         freed \cup late \subseteq Sleepers \ (woken \cup {p}),
         Becomes(p, how, k, woken, freed, late), wild' \in BOOLEAN,
         NEW w, w = woken \/ w = woken \cup {p}, pc[p] = "asleep" => p \in w,
         NEW id, id \notin Proc \ {p}, Moved(list', w, late, id),
         how = "split" => /\ k.id = p /\ k.type \in SplitSleeps
                          /\ \E i \in DOMAIN list' : Around(list'[i], k)
  PROVE  LockfInv' /\ Keeps(p) /\ pc'[p] # "asleep"
<1>1. States'
  BY BecomesStates DEF LockfInv
<1>2. \A q \in Proc :
        /\ req'[q] = IF q = p THEN k ELSE req[q]
        /\ pc'[q] = IF q = p THEN how ELSE IF q \in woken THEN "retry" ELSE pc[q]
  BY BecomesIs DEF LockfInv
<1>3. Listed(list') /\ Once(list')
  BY DEF Moved
<1>4. ASSUME NEW n \in DOMAIN list', NEW q \in ToSet(list'[n].blk)
      PROVE  pc'[q] = "asleep" /\ (q \in missed' \/ Conflict(list'[n], req'[q]))
  <2>1. /\ q \in Proc /\ q \notin w /\ pc[q] = "asleep"
        /\ q \in missed \cup late \/ Conflict(list'[n], req[q])
    BY <1>4 DEF Moved
  <2>2. q # p /\ q \notin woken
    BY <2>1
  <2>3. q \in missed \cup late => q \in missed'
    BY <2>2 DEF Becomes
  <2>4. pc'[q] = pc[q] /\ req'[q] = req[q]
    BY <2>1, <2>2, <1>2
  <2>. QED  BY <2>1, <2>3, <2>4
<1>5. ASSUME NEW q \in Proc, pc'[q] = "asleep"
      PROVE  On(list', q)
  <2>1. q # p /\ q \notin woken /\ pc[q] = "asleep"
    BY <1>2, <1>5
  <2>. QED  BY <2>1 DEF Moved
<1>6. Queues'
  BY <1>3, <1>4, <1>5 DEF Queues
<1>7. ASSUME NEW q \in Proc, pc'[q] = "split"
      PROVE  /\ req'[q].id = q /\ req'[q].type \in SplitSleeps
             /\ \E i \in DOMAIN list' : Around(list'[i], req'[q])
  <2>1. CASE q = p
    BY <2>1, <1>2, <1>7
  <2>2. CASE q # p
    <3>1. pc[q] = "split" /\ req'[q] = req[q]
      BY <2>2, <1>2, <1>7
    <3>2. req[q].id = q /\ req[q].type \in SplitSleeps
      BY <3>1 DEF LockfInv, Splitting
    <3>3. \E n \in DOMAIN list' : Around(list'[n], req[q])
      BY <2>2, <3>1 DEF Moved
    <3>. QED  BY <3>1, <3>2, <3>3
  <2>. QED  BY <2>1, <2>2
<1>8. Splitting'
  BY <1>7 DEF Splitting
<1>9. ASSUME NEW q \in Proc \ {p}, pc'[q] = "asleep"
      PROVE  /\ pc[q] = "asleep" /\ req'[q] = req[q] /\ WaitsFor(q)' = WaitsFor(q)
             /\ q \in stale => q \in stale'
  <2>1. q \notin woken /\ pc[q] = "asleep" /\ req'[q] = req[q]
    BY <1>2, <1>9
  <2>2. PICK n \in DOMAIN list' : q \in ToSet(list'[n].blk)
    BY <1>5, <1>9 DEF On
  <2>3. WaitsFor(q) = list'[n].id
    BY <2>2 DEF Moved
  <2>4. (CHOOSE j \in DOMAIN list' : q \in ToSet(list'[j].blk)) = n
    BY <1>3, <2>2, TheLock
  <2>5. WaitsFor(q)' = list'[n].id
    BY <2>4 DEF WaitsFor
  <2>6. q \in stale => q \in stale'
    BY <2>1 DEF Becomes
  <2>. QED  BY <2>1, <2>3, <2>5, <2>6
<1>10. Keeps(p)
  BY <1>9 DEF Keeps
<1>11. pc'[p] # "asleep"
  BY <1>2
<1>. QED  BY <1>1, <1>3, <1>6, <1>8, <1>10, <1>11 DEF LockfInv

(* A process goes to sleep on a lock that is in its way.                   *)
LEMMA FallsAsleep ==
  ASSUME LockfInv, NEW p \in Proc, pc[p] # "asleep", NEW k \in Locks(p), NEW woken,
         woken \subseteq Sleepers, Becomes(p, "asleep", k, woken, {}, {}),
         wild' \in BOOLEAN, NEW id, id \notin Proc \ {p},
         NEW left, Moved(left, woken, {}, id),
         NEW m \in DOMAIN left, Conflict(left[m], k), Joins(left, list', m, p)
  PROVE  LockfInv' /\ Keeps(p) /\ WaitsNow(p, left[m].id)
<1>1. States'
  BY BecomesStates DEF LockfInv, Goes
<1>2. \A q \in Proc :
        /\ req'[q] = IF q = p THEN k ELSE req[q]
        /\ pc'[q] = IF q = p THEN "asleep" ELSE IF q \in woken THEN "retry" ELSE pc[q]
  BY BecomesIs DEF LockfInv
<1>3. /\ Listed(list') /\ Once(list') /\ DOMAIN list' = DOMAIN left
      /\ \A i \in DOMAIN left : Same(left[i], list'[i])
      /\ \A i \in DOMAIN left :
           ToSet(list'[i].blk) = IF i = m THEN ToSet(left[i].blk) \cup {p}
                                 ELSE ToSet(left[i].blk)
  BY DEF Joins
<1>4. ASSUME NEW n \in DOMAIN list', NEW q \in ToSet(list'[n].blk)
      PROVE  pc'[q] = "asleep" /\ (q \in missed' \/ Conflict(list'[n], req'[q]))
  <2>1. n \in DOMAIN left /\ Same(left[n], list'[n])
    BY <1>3
  <2>2. CASE q = p
    <3>1. n = m
      BY <2>1, <2>2, <1>3, <1>4 DEF Moved
    <3>2. Conflict(list'[n], k)
      BY <2>1, <3>1, SameStands
    <3>. QED  BY <2>2, <3>2, <1>2
  <2>3. CASE q # p
    <3>1. q \in ToSet(left[n].blk)
      <4>1. ToSet(list'[n].blk) = IF n = m THEN ToSet(left[n].blk) \cup {p}
                                  ELSE ToSet(left[n].blk)
        BY <2>1, <1>3
      <4>. QED  BY <4>1, <2>3, <1>4
    <3>2. /\ q \in Proc /\ q \notin woken /\ pc[q] = "asleep"
          /\ q \in missed \/ Conflict(left[n], req[q])
      BY <2>1, <3>1 DEF Moved
    <3>3. q \in missed => q \in missed'
      BY <2>3, <3>2 DEF Becomes
    <3>4. Conflict(left[n], req[q]) => Conflict(list'[n], req[q])
      BY <2>1, SameStands
    <3>5. pc'[q] = pc[q] /\ req'[q] = req[q]
      BY <2>3, <3>2, <1>2
    <3>. QED  BY <3>2, <3>3, <3>4, <3>5
  <2>. QED  BY <2>2, <2>3
<1>5. ASSUME NEW q \in Proc, pc'[q] = "asleep"
      PROVE  On(list', q)
  <2>1. CASE q = p
    BY <2>1, <1>3 DEF On
  <2>2. CASE q # p
    <3>1. q \notin woken /\ pc[q] = "asleep"
      BY <2>2, <1>2, <1>5
    <3>2. PICK i \in DOMAIN left : q \in ToSet(left[i].blk)
      BY <3>1 DEF Moved, On
    <3>. QED  BY <3>2, <1>3 DEF On
  <2>. QED  BY <2>1, <2>2
<1>6. Queues'
  BY <1>3, <1>4, <1>5 DEF Queues
<1>7. ASSUME NEW q \in Proc, pc'[q] = "split"
      PROVE  /\ req'[q].id = q /\ req'[q].type \in SplitSleeps
             /\ \E i \in DOMAIN list' : Around(list'[i], req'[q])
  <2>1. q # p /\ pc[q] = "split" /\ req'[q] = req[q]
    BY <1>2, <1>7
  <2>2. req[q].id = q /\ req[q].type \in SplitSleeps
    BY <2>1 DEF LockfInv, Splitting
  <2>3. PICK n \in DOMAIN left : Around(left[n], req[q])
    BY <2>1 DEF Moved
  <2>4. Around(list'[n], req[q])
    BY <2>3, <1>3 DEF Same, Around, Reach
  <2>. QED  BY <2>1, <2>2, <2>3, <2>4, <1>3
<1>8. Splitting'
  BY <1>7 DEF Splitting
<1>9. ASSUME NEW q \in Proc \ {p}, pc'[q] = "asleep"
      PROVE  /\ pc[q] = "asleep" /\ req'[q] = req[q] /\ WaitsFor(q)' = WaitsFor(q)
             /\ q \in stale => q \in stale'
  <2>1. q \notin woken /\ pc[q] = "asleep" /\ req'[q] = req[q]
    BY <1>2, <1>9
  <2>2. PICK n \in DOMAIN left : q \in ToSet(left[n].blk)
    BY <2>1 DEF Moved, On
  <2>3. WaitsFor(q) = left[n].id
    BY <2>2 DEF Moved
  <2>4. n \in DOMAIN list' /\ q \in ToSet(list'[n].blk) /\ list'[n].id = left[n].id
    BY <2>2, <1>3 DEF Same
  <2>5. (CHOOSE j \in DOMAIN list' : q \in ToSet(list'[j].blk)) = n
    BY <1>3, <2>4, TheLock
  <2>6. WaitsFor(q)' = list'[n].id
    BY <2>5 DEF WaitsFor
  <2>7. q \in stale => q \in stale'
    BY <2>1 DEF Becomes
  <2>. QED  BY <2>1, <2>3, <2>4, <2>6, <2>7
<1>10. Keeps(p)
  BY <1>9 DEF Keeps
<1>11. WaitsNow(p, left[m].id)
  <2>1. m \in DOMAIN list' /\ p \in ToSet(list'[m].blk) /\ list'[m].id = left[m].id
    BY <1>3 DEF Same
  <2>2. (CHOOSE j \in DOMAIN list' : p \in ToSet(list'[j].blk)) = m
    BY <1>3, <2>1, TheLock
  <2>. QED  BY <2>1, <2>2 DEF WaitsFor, WaitsNow
<1>. QED  BY <1>1, <1>3, <1>6, <1>8, <1>10, <1>11 DEF LockfInv

LEMMA WaitersSleep ==
  ASSUME LockfInv, NEW S, S \subseteq DOMAIN list
  PROVE  /\ Waiters(list, S) \subseteq Sleepers
         /\ \A Z : Z \subseteq DOMAIN list /\ Z \cap S = {} =>
              Waiters(list, Z) \cap Waiters(list, S) = {}
<1>1. \A T, q : q \in Waiters(list, T) <=> \E i \in T : q \in ToSet(list[i].blk)
  BY DEF Waiters
<1>2. ASSUME NEW i \in DOMAIN list, NEW q \in ToSet(list[i].blk)
      PROVE  q \in Sleepers
  <2>1. list[i].blk \in Seq(Proc)
    BY DEF LockfInv, Listed, Lock
  <2>2. q \in Proc
    BY <2>1, <1>2 DEF ToSet
  <2>3. pc[q] = "asleep"
    BY <1>2 DEF LockfInv, Queues
  <2>. QED  BY <2>2, <2>3 DEF Sleepers
<1>3. Waiters(list, S) \subseteq Sleepers
  BY <1>1, <1>2
<1>4. ASSUME NEW Z, Z \subseteq DOMAIN list, Z \cap S = {},
             NEW q, q \in Waiters(list, Z), q \in Waiters(list, S)
      PROVE  FALSE
  <2>1. PICK i \in Z : q \in ToSet(list[i].blk)
    BY <1>1, <1>4
  <2>2. PICK j \in S : q \in ToSet(list[j].blk)
    BY <1>1, <1>4
  <2>3. i # j /\ i \in DOMAIN list /\ j \in DOMAIN list
    BY <1>4
  <2>. QED  BY <2>1, <2>2, <2>3 DEF LockfInv, Queues, Once
<1>. QED  BY <1>3, <1>4

(* Only a range of a process is split, and it is one inside of a lock.     *)
LEMMA SplitsAround ==
  ASSUME NEW l, Listed(l), NEW p \in Proc, NEW k \in Asks[p], Splits(l, k)
  PROVE  k.id = p /\ \E i \in DOMAIN l : Around(l[i], k)
<1>1. Ranged(k) /\ (k.id = p \/ k.end = EOF)
  BY RequestIs
<1>2. PICK i \in Met(l, k) : SplitsInThree(l[i], k)
  BY DEF Splits
<1>3. i \in DOMAIN l /\ Ranged(l[i])
  BY DEF Met, Listed, Lock
<1>4. l[i].id = k.id /\ ~Apart(l[i], k)
  BY <1>1, <1>2, <1>3, MetIs
<1>5. /\ Overlap(l[i], k) = 2 /\ l[i].start # k.start /\ l[i].end # k.end
      /\ l[i].type # k.type
  BY <1>2 DEF SplitsInThree
<1>6. k.end # EOF /\ l[i].start < k.start /\ Reach(k) < Reach(l[i])
  BY <1>1, <1>3, <1>4, <1>5, OverlapIs
<1>. QED  BY <1>1, <1>3, <1>4, <1>5, <1>6 DEF Around

LEMMA GrantInv ==
  ASSUME LockfInv, NEW p \in Proc, pc[p] # "asleep", NEW k \in Locks(p), Grant(p, k),
         wild \in BOOLEAN
  PROVE  LockfInv' /\ Keeps(p) /\ pc'[p] # "asleep"
<1> DEFINE W == Waking(list, k)
           Z == Swallowed(list, k)
<1>1. Listed(list) /\ Once(list)
  BY DEF LockfInv, Queues
<1>2. k \in Asks[p]
  BY DEF Locks
<1>3. Ranged(k) /\ k.type \in {"RD", "WR"} /\ k.id \in Owner /\ k.id \notin Proc \ {p}
  BY <1>2, RequestIs
<1>4. W \subseteq DOMAIN list /\ Z \subseteq DOMAIN list /\ Z \cap W = {}
  BY <1>1, <1>3, SwallowedIs
<1>5. /\ Waiters(list, W) \subseteq Sleepers /\ Waiters(list, Z) \subseteq Sleepers
      /\ Waiters(list, Z) \cap Waiters(list, W) = {}
  <2> HIDE DEF W, Z
  <2>. QED  BY <1>4, WaitersSleep
<1>6. p \notin Sleepers
  BY DEF Sleepers
<1>7. Moves(list, Granted(list, k), Waiters(list, W), {}, k.id)
  BY <1>1, <1>3, GrantedMoves
<1>8. /\ list' = Granted(list, k) /\ wild' \in BOOLEAN
      /\ Becomes(p, "idle", NoRequest, Waiters(list, W), Waiters(list, Z), {})
  BY DEF Grant
<1> HIDE DEF W, Z
<1>9. Moved(list', Waiters(list, W), {}, k.id)
  BY <1>7, <1>8, MovesMoved
<1>10. Waiters(list, Z) \cup {} \subseteq Sleepers \ (Waiters(list, W) \cup {p})
  BY <1>5, <1>6
<1>11. Goes(p, "idle", NoRequest)
  BY DEF Goes
<1>. QED  BY <1>3, <1>5, <1>8, <1>9, <1>10, <1>11, Settles

LEMMA StaysMoved ==
  ASSUME LockfInv, NEW id
  PROVE  Moved(list, {}, {}, id)
BY NothingMoves, MovesMoved DEF LockfInv, Queues

LEMMA TakeInv ==
  ASSUME LockfInv, NEW p \in Proc, pc[p] # "asleep", NEW k \in Locks(p), Take(p, k)
  PROVE  LockfInv' /\ Keeps(p) /\ pc'[p] # "asleep"
<1>1. wild \in BOOLEAN /\ Listed(list) /\ k \in Asks[p]
  BY DEF LockfInv, States, Locks
<1>2. CASE Grant(p, k)
  BY <1>1, <1>2, GrantInv
<1>3. CASE /\ k.type \in SplitSleeps /\ Splits(list, k)
           /\ Becomes(p, "split", k, {}, {}, {})
           /\ UNCHANGED <<list, wild>>
  <2>1. k.id = p /\ \E i \in DOMAIN list : Around(list[i], k)
    BY <1>1, <1>3, SplitsAround
  <2>2. Moved(list', {}, {}, k.id)
    BY <1>3, StaysMoved
  <2>3. Goes(p, "split", k)
    BY <1>1 DEF Goes
  <2>4. \E i \in DOMAIN list' : Around(list'[i], k)
    BY <2>1, <1>3
  <2>5. wild' \in BOOLEAN /\ k.id \notin Proc \ {p}
    BY <2>1, <1>1, <1>3
  <2>. QED  BY <2>1, <2>2, <2>3, <2>4, <2>5, <1>3, Settles
<1>. QED  BY <1>2, <1>3 DEF Take

LEMMA RefuseInv ==
  ASSUME LockfInv, NEW p \in Proc, pc[p] # "asleep", NEW k, Refuse(p, k)
  PROVE  LockfInv' /\ Keeps(p) /\ pc'[p] # "asleep"
<1>1. /\ Becomes(p, "idle", NoRequest, {}, {}, {}) /\ list' = list
      /\ wild' \in BOOLEAN
  BY DEF Refuse, LockfInv, States
<1>2. Moved(list', {}, {}, p)
  BY <1>1, StaysMoved
<1>3. Goes(p, "idle", NoRequest)
  BY DEF Goes
<1>. QED  BY <1>1, <1>2, <1>3, Settles

(* The first lock that blocks a request.                                    *)
LEMMA FirstBlock ==
  ASSUME NEW l, Listed(l), NEW k, Blocks(l, k) # {}
  PROVE  Min(Blocks(l, k)) \in DOMAIN l /\ Conflict(l[Min(Blocks(l, k))], k)
<1>1. Blocks(l, k) \subseteq Nat
  BY DEF Blocks, Listed
<1>2. Min(Blocks(l, k)) \in Blocks(l, k)
  BY <1>1, LeastIs
<1>. QED  BY <1>2 DEF Blocks

LEMMA SleepInv ==
  ASSUME LockfInv, NEW p \in Proc, pc[p] # "asleep", NEW k \in Locks(p), Sleep(p, k)
  PROVE  /\ LockfInv' /\ Keeps(p)
         /\ k.id = p => /\ k.id \notin File
                        /\ WaitsNow(p, list[Min(Blocks(list, k))].id)
<1> DEFINE gives == k.id \in File /\ k.type = "WR"
           left == IF gives THEN Cleared(list, k) ELSE list
           woken == IF gives THEN Waiters(list, Met(list, k)) ELSE {}
           m == Min(Blocks(left, k))
<1>1. Listed(list) /\ Once(list) /\ wild \in BOOLEAN /\ k \in Asks[p]
  BY DEF LockfInv, Queues, States, Locks
<1>2. Ranged(k) /\ k.id \notin Proc \ {p}
  BY <1>1, RequestIs
<1>3. /\ Blocks(list, k) # {}
      /\ list' = [left EXCEPT ![m].blk = Append(@, p)]
      /\ Becomes(p, "asleep", k, woken, {}, {}) /\ wild' \in BOOLEAN
  BY <1>1, Zenon DEF Sleep
<1>4. woken \subseteq Sleepers
  <2>1. Met(list, k) \subseteq DOMAIN list
    BY DEF Met
  <2>2. Waiters(list, Met(list, k)) \subseteq Sleepers
    BY <2>1, WaitersSleep
  <2>. QED  BY <2>2
<1>5. Moves(list, left, woken, {}, k.id)
  <2>1. CASE gives
    BY <2>1, <1>1, <1>2, ClearedMoves
  <2>2. CASE ~gives
    BY <2>2, <1>1, NothingMoves
  <2>. QED  BY <2>1, <2>2
<1> HIDE DEF gives, left, woken, m
<1>6. Moved(left, woken, {}, k.id)
  BY <1>5, MovesMoved
<1>7. Listed(left) /\ Once(left) /\ ~On(left, p)
  BY <1>6 DEF Moved, On
<1>8. Blocks(left, k) # {}
  <2>1. PICK i \in DOMAIN list : Conflict(list[i], k)
    BY <1>3 DEF Blocks
  <2>2. list[i].id # k.id
    BY <2>1 DEF Conflict
  <2>3. PICK n \in DOMAIN left : Same(list[i], left[n])
    BY <2>2, <1>5 DEF Moves
  <2>4. Conflict(left[n], k)
    BY <2>1, <2>3, SameStands
  <2>. QED  BY <2>4 DEF Blocks
<1>9. m \in DOMAIN left /\ Conflict(left[m], k)
  BY <1>7, <1>8, FirstBlock DEF m
<1>10. Joins(left, list', m, p)
  BY <1>3, <1>7, <1>9, SleepJoins
<1>11. LockfInv' /\ Keeps(p) /\ WaitsNow(p, left[m].id)
  BY <1>2, <1>3, <1>4, <1>6, <1>9, <1>10, FallsAsleep
<1>12. k.id = p => k.id \notin File /\ left = list
  BY LockfAssumption DEF left, gives
<1>. QED  BY <1>11, <1>12 DEF m

LEMMA CallInv ==
  ASSUME LockfInv, NEW p \in Proc, Call(p)
  PROVE  LockfInv' /\ Keeps(p) /\ pc'[p] # "asleep"
<1>1. PICK k \in Asks[p] : Becomes(p, "called", k, {}, {}, {})
  BY DEF Call
<1>2. pc[p] = "idle" /\ list' = list /\ wild' \in BOOLEAN
  BY DEF Call, LockfInv, States
<1>3. Moved(list', {}, {}, p)
  BY <1>2, StaysMoved
<1>4. Goes(p, "called", k)
  BY DEF Goes
<1>5. /\ {} \subseteq Sleepers /\ {} \cup {} \subseteq Sleepers \ ({} \cup {p})
      /\ p \notin Proc \ {p} /\ pc[p] # "asleep"
      /\ "called" # "asleep" /\ "called" # "split"
  BY <1>2
<1>. QED  BY <1>1, <1>2, <1>3, <1>4, <1>5, Settles

LEMMA UnlockInv ==
  ASSUME LockfInv, NEW p \in Proc, Unlock(p)
  PROVE  LockfInv' /\ Keeps(p) /\ pc'[p] # "asleep"
<1> DEFINE k == req[p]
<1>1. \/ /\ list' = Cleared(list, k)
         /\ Becomes(p, "idle", NoRequest, Waiters(list, Met(list, k)), {}, {})
      \/ /\ k.type \in SplitSleeps /\ Splits(list, k)
         /\ list' = Roused(list, Met(list, k))
         /\ Becomes(p, "split", k, Waiters(list, Met(list, k)), {}, {})
  BY DEF Unlock, Release
<1>0. pc[p] = "called" /\ wild' \in BOOLEAN
  BY DEF LockfInv, States, Unlock
<1>7. k \in Asks[p]
  BY <1>0 DEF LockfInv, States
<1> HIDE DEF k
<1>2. /\ Listed(list) /\ Once(list) /\ wild' \in BOOLEAN /\ k \in Asks[p]
      /\ pc[p] = "called" /\ Ranged(k) /\ k.id \notin Proc \ {p}
  BY <1>0, <1>7, RequestIs DEF LockfInv, Queues
<1> DEFINE S == Met(list, k)
           woken == Waiters(list, S)
<1>3. S \subseteq DOMAIN list
  BY DEF Met
<1>4. woken \subseteq Sleepers
  BY <1>3, WaitersSleep
<1> HIDE DEF S
<1>5. CASE /\ list' = Cleared(list, k)
           /\ Becomes(p, "idle", NoRequest, woken, {}, {})
  <2>1. Moves(list, list', woken, {}, k.id)
    BY <1>2, <1>5, ClearedMoves DEF S
  <2> HIDE DEF woken
  <2>2. Moved(list', woken, {}, k.id)
    BY <2>1, MovesMoved
  <2>3. Goes(p, "idle", NoRequest)
    BY DEF Goes
  <2>4. /\ {} \cup {} \subseteq Sleepers \ (woken \cup {p})
        /\ pc[p] # "asleep" /\ "idle" # "asleep" /\ "idle" # "split"
    BY <1>2
  <2>. QED  BY <2>2, <2>3, <2>4, <1>2, <1>4, <1>5, Settles
<1>6. CASE /\ k.type \in SplitSleeps /\ Splits(list, k) /\ list' = Roused(list, S)
           /\ Becomes(p, "split", k, woken, {}, {})
  <2>1. Moves(list, list', woken, {}, k.id)
    BY <1>2, <1>3, <1>6, RousedMoves
  <2> HIDE DEF woken
  <2>2. Moved(list', woken, {}, k.id)
    BY <2>1, MovesMoved
  <2>3. Goes(p, "split", k)
    BY <1>2 DEF Goes
  <2>4. k.id = p /\ \E i \in DOMAIN list : Around(list[i], k)
    BY <1>2, <1>6, SplitsAround
  <2>5. PICK i \in DOMAIN list : Around(list[i], k)
    BY <2>4
  <2>6. /\ i \in DOMAIN list' /\ list'[i].id = list[i].id
        /\ list'[i].type = list[i].type
        /\ list'[i].start = list[i].start /\ list'[i].end = list[i].end
    BY <1>2, <1>6, RousedIs DEF Alike
  <2>7. Around(list'[i], k)
    BY <2>5, <2>6 DEF Around, Reach
  <2>. QED  BY <2>2, <2>3, <2>4, <2>6, <2>7, <1>2, <1>4, <1>6, Settles
<1>. QED  BY <1>1, <1>5, <1>6 DEF S

LEMMA ResumeUnlockInv ==
  ASSUME LockfInv, NEW p \in Proc, ResumeUnlock(p)
  PROVE  LockfInv' /\ Keeps(p) /\ pc'[p] # "asleep"
<1> DEFINE k == req[p]
           S == Met(list, k)
           late == Waiters(list, S)
<1>1. /\ Listed(list) /\ Once(list) /\ wild' \in BOOLEAN /\ pc[p] = "split"
      /\ list' = Cut(list, k, <<>>)
      /\ Becomes(p, "idle", NoRequest, {}, {}, late)
  BY DEF LockfInv, Queues, States, ResumeUnlock
<1>2. k \in Asks[p]
  BY <1>1 DEF LockfInv, States
<1>3. k.id = p /\ \E i \in DOMAIN list : Around(list[i], k)
  BY <1>1 DEF LockfInv, Splitting
<1> HIDE DEF k
<1>4. Ranged(k)
  BY <1>2, RequestIs
<1>5. PICK x \in DOMAIN list : Around(list[x], k)
  BY <1>3
<1>6. Moves(list, list', {}, late, k.id)
  BY <1>1, <1>4, <1>5, ResumeMoves
<1>7. S \subseteq DOMAIN list
  BY DEF Met
<1> HIDE DEF S
<1>8. late \subseteq Sleepers /\ p \notin Sleepers
  BY <1>1, <1>7, WaitersSleep DEF Sleepers
<1> HIDE DEF late
<1>9. Moved(list', {}, late, k.id)
  BY <1>6, MovesMoved
<1>10. Goes(p, "idle", NoRequest)
  BY DEF Goes
<1>11. {} \cup late \subseteq Sleepers \ ({} \cup {p})
  BY <1>8
<1>. QED  BY <1>1, <1>3, <1>8, <1>9, <1>10, <1>11, Settles

LEMMA InterruptInv ==
  ASSUME LockfInv, NEW p \in Proc, Interrupt(p)
  PROVE  LockfInv' /\ Keeps(p) /\ pc'[p] # "asleep"
<1>1. /\ Listed(list) /\ Once(list)
      /\ list' = [i \in DOMAIN list |-> [list[i] EXCEPT !.blk = RemoveFirst(@, p)]]
      /\ Becomes(p, "idle", NoRequest, {}, {}, {})
  BY DEF LockfInv, Queues, Interrupt
<1>2. wild' \in BOOLEAN
  <2>1. wild' = (p \in stale /\ \E i \in DOMAIN list :
                                  list[i].blk # <<>> /\ Last(list[i].blk) = p)
    BY DEF Interrupt
  <2>. QED  BY <2>1, Zenon
<1>3. Moves(list, list', {p}, {}, p)
  BY <1>1, InterruptMoves
<1>4. Moved(list', {p}, {}, p)
  BY <1>3, MovesMoved
<1>5. Goes(p, "idle", NoRequest)
  BY DEF Goes
<1>6. {p} = {} \cup {p}
  OBVIOUS
<1>. QED  BY <1>1, <1>2, <1>4, <1>5, <1>6, Settles

LEMMA InitInv == Init => LockfInv
<1> SUFFICES ASSUME Init PROVE LockfInv
  OBVIOUS
<1>1. /\ list = <<>> /\ stale = {} /\ missed = {} /\ wild = FALSE
      /\ pc = [p \in Proc |-> "idle"] /\ req = [p \in Proc |-> NoRequest]
  BY DEF Init
<1>2. DOMAIN list = {} /\ list \in Seq(Lock)
  BY <1>1
<1>3. \A p \in Proc : pc[p] = "idle" /\ req[p] = NoRequest
  BY <1>1
<1>4. Listed(list) /\ Queues
  BY <1>2, <1>3 DEF Listed, Sorted, Queues, Once
<1>5. Splitting
  BY <1>3 DEF Splitting
<1>6. States
  <2>1. pc \in [Proc -> {"idle", "called", "asleep", "retry", "split"}]
    BY <1>1
  <2>2. req \in [Proc -> {NoRequest} \cup UNION {Asks[p] : p \in Proc}]
    BY <1>1
  <2>. QED  BY <2>1, <2>2, <1>1, <1>3 DEF States
<1>. QED  BY <1>4, <1>5, <1>6 DEF LockfInv

(* A step of p makes nobody else fall asleep, and p just in lf_setlock().  *)
SleepsNow(p) ==
  \E k \in Locks(p) :
    /\ pc[p] # "asleep" /\ Sleep(p, k) /\ req'[p] = k
    /\ k.id = p => /\ k.id \notin File
                   /\ WaitsNow(p, list[Min(Blocks(list, k))].id)

LEMMA StepInv ==
  ASSUME LockfInv, NEW p \in Proc, Step(p)
  PROVE  LockfInv' /\ Keeps(p) /\ (pc'[p] = "asleep" => SleepsNow(p))
<1>0. ASSUME NEW k \in Locks(p), pc[p] # "asleep", Sleep(p, k)
      PROVE  LockfInv' /\ Keeps(p) /\ SleepsNow(p)
  <2>1. /\ LockfInv' /\ Keeps(p)
        /\ k.id = p => /\ k.id \notin File
                       /\ WaitsNow(p, list[Min(Blocks(list, k))].id)
    BY <1>0, SleepInv
  <2>2. req'[p] = k
    BY <1>0 DEF Sleep, Becomes, LockfInv, States
  <2>. QED  BY <1>0, <2>1, <2>2 DEF SleepsNow
<1>1. CASE SetLock(p)
  <2>1. /\ pc[p] = "called" /\ req[p] \in Locks(p)
        /\ Take(p, req[p]) \/ Refuse(p, req[p]) \/ Sleep(p, req[p])
    BY <1>1 DEF SetLock, Decide
  <2>. QED  BY <2>1, <1>0, TakeInv, RefuseInv
<1>2. CASE Retry(p)
  <2>1. pc[p] = "retry" /\ (Take(p, req[p]) \/ Refuse(p, req[p]) \/ Sleep(p, req[p]))
    BY <1>2 DEF Retry, Decide
  <2>2. req[p] \in Locks(p)
    BY <2>1 DEF LockfInv, States
  <2>. QED  BY <2>1, <2>2, <1>0, TakeInv, RefuseInv
<1>3. CASE ResumeSetLock(p)
  <2>1. pc[p] = "split" /\ req[p] \in Locks(p) /\ Grant(p, req[p])
    BY <1>3 DEF ResumeSetLock
  <2>2. wild \in BOOLEAN
    BY DEF LockfInv, States
  <2>. QED  BY <2>1, <2>2, GrantInv
<1>. QED  BY <1>1, <1>2, <1>3, CallInv, UnlockInv, ResumeUnlockInv, InterruptInv
          DEF Step

(* The list of locks stays in order, each sleeper waits once for a lock    *)
(* that stands in its way, and a lock that is being split stays where it   *)
(* is.                                                                     *)
THEOREM LockfInvariant == Spec => []LockfInv
<1>1. LockfInv /\ [Next]_vars => LockfInv'
  <2> SUFFICES ASSUME LockfInv, [Next]_vars PROVE LockfInv'
    OBVIOUS
  <2>1. CASE Next
    BY <2>1, StepInv DEF Next
  <2>2. CASE UNCHANGED vars
    <3>1. /\ list' = list /\ pc' = pc /\ req' = req
          /\ stale' = stale /\ missed' = missed /\ wild' = wild
      BY <2>2 DEF vars
    <3>2. States'
      BY <3>1 DEF LockfInv, States
    <3>3. Queues' /\ Splitting' /\ Listed(list')
      BY <3>1 DEF LockfInv, Queues, Splitting
    <3>. QED  BY <3>2, <3>3 DEF LockfInv
  <2>. QED  BY <2>1, <2>2
<1>. QED  BY InitInv, <1>1, PTL DEF Spec

-----------------------------------------------------------------------------
(* What the invariant says.                                                *)

LEMMA LocksTyped ==
  ASSUME LockfInv
  PROVE  TypeOK
<1>1. Listed(list) /\ States
  BY DEF LockfInv
<1>2. ASSUME NEW i \in DOMAIN list
      PROVE  /\ list[i].id \in Owner /\ list[i].type \in {"RD", "WR"}
             /\ list[i].start \in Byte /\ list[i].end \in Byte \cup {EOF}
             /\ list[i].blk \in Seq(Proc)
             /\ Area(list[i]) # {}
             /\ \A j \in 1 .. (i - 1) :
                  list[j].id = list[i].id => Behind(list[i], list[j])
  <2>1. list[i] \in Lock
    BY <1>1 DEF Listed
  <2>2. /\ list[i].id \in Owner /\ list[i].type \in {"RD", "WR"}
        /\ list[i].start \in Byte /\ list[i].end \in Byte \cup {EOF}
        /\ list[i].blk \in Seq(Proc) /\ Ranged(list[i])
    BY <2>1 DEF Lock
  <2>3. Area(list[i]) # {}
    <3>1. list[i].start \in Int /\ list[i].start <= Reach(list[i])
      BY <2>2, ReachIs
    <3>2. list[i].start \in Area(list[i])
      BY <2>2, <3>1, AreaIs
    <3>. QED  BY <3>2
  <2>4. ASSUME NEW j \in 1 .. (i - 1), list[j].id = list[i].id
        PROVE  Behind(list[i], list[j])
    <3>1. list[i].start > Reach(list[j])
      BY <2>4, <1>1 DEF Listed, Sorted
    <3>2. j \in DOMAIN list
      BY <1>1 DEF Listed
    <3>3. Ranged(list[j])
      BY <3>2, <1>1 DEF Listed, Lock
    <3>. QED  BY <2>2, <3>1, <3>3, ApartIs
  <2>. QED  BY <2>2, <2>3, <2>4
<1>. QED  BY <1>1, <1>2 DEF TypeOK, States

LEMMA SleepersWait ==
  ASSUME LockfInv
  PROVE  NobodySleepsForNothing
<1> SUFFICES ASSUME NEW p \in Proc
             PROVE  LET at == {i \in DOMAIN list : p \in ToSet(list[i].blk)}
                    IN  IF pc[p] = "asleep"
                        THEN /\ \E i \in at :
                                  /\ at = {i}
                                  /\ p \in missed \/ Conflict(list[i], req[p])
                             /\ \A i \in at :
                                  Cardinality({n \in DOMAIN list[i].blk :
                                                 list[i].blk[n] = p}) = 1
                        ELSE at = {}
  BY DEF NobodySleepsForNothing
<1> DEFINE at == {i \in DOMAIN list : p \in ToSet(list[i].blk)}
<1>1. Once(list) /\ Queues
  BY DEF LockfInv, Queues
<1>2. ASSUME pc[p] = "asleep"
      PROVE  /\ \E i \in at : /\ at = {i}
                              /\ p \in missed \/ Conflict(list[i], req[p])
             /\ \A i \in at : Cardinality({n \in DOMAIN list[i].blk :
                                             list[i].blk[n] = p}) = 1
  <2>1. PICK i \in DOMAIN list : p \in ToSet(list[i].blk)
    BY <1>1, <1>2 DEF Queues, On
  <2>2. at = {i}
    BY <1>1, <2>1 DEF Once
  <2>3. p \in missed \/ Conflict(list[i], req[p])
    BY <1>1, <2>1 DEF Queues
  <2>4. Cardinality({n \in DOMAIN list[i].blk : list[i].blk[n] = p}) = 1
    <3> DEFINE N == {n \in DOMAIN list[i].blk : list[i].blk[n] = p}
    <3>1. PICK n \in DOMAIN list[i].blk : list[i].blk[n] = p
      BY <2>1 DEF ToSet
    <3>2. IsInjective(list[i].blk)
      BY <1>1 DEF Once
    <3>3. N = {n}
      BY <3>1, <3>2 DEF IsInjective
    <3> HIDE DEF N
    <3>4. Cardinality(N) = 1
      BY <3>3, FS_Singleton
    <3>. QED  BY <3>4 DEF N
  <2>. QED  BY <2>2, <2>3, <2>4
<1>3. ASSUME pc[p] # "asleep"
      PROVE  at = {}
  BY <1>1, <1>3 DEF Queues
<1>. QED  BY <1>2, <1>3

(* The variables have their types, and the locks of an owner are in order  *)
(* and apart, through all splits and merges of lf_setlock() and            *)
(* lf_clearlock().                                                         *)
THEOREM LocksAreTyped == Spec => []TypeOK
BY LockfInvariant, LocksTyped, PTL

(* Whoever sleeps in lf_setlock() is on the queue of one lock, once, and   *)
(* this lock still stands in its way, unless it came while lf_split()      *)
(* slept for lf_clearlock().                                               *)
THEOREM SleepersAreBlocked == Spec => []NobodySleepsForNothing
BY LockfInvariant, SleepersWait, PTL

-----------------------------------------------------------------------------
(* The search for deadlocks.                                               *)

WalkAt(p, f, n, r) ==
  IF pc[r] # "asleep" \/ n = 0 THEN {FALSE}
  ELSE IF r \in stale THEN BOOLEAN
  ELSE IF WaitsFor(r) \in File THEN {FALSE}
  ELSE IF WaitsFor(r) = p THEN {TRUE} ELSE f[n - 1][WaitsFor(r)]

Walked(p, f, m) == f = [n \in 0 .. m |-> [r \in Proc |-> WalkAt(p, f, n, r)]]

LEMMA WalkExists ==
  ASSUME NEW p, NEW m \in Nat
  PROVE  \E f : Walked(p, f, m)
<1> DEFINE X == {n \in Nat : \E f : Walked(p, f, n)}
<1>1. 0 \in X
  <2> DEFINE f == [n \in 0..0 |-> [r \in Proc |-> {FALSE}]]
  <2>1. \A n \in 0..0 : \A r \in Proc : WalkAt(p, f, n, r) = {FALSE}
    BY DEF WalkAt
  <2>2. f = [n \in 0..0 |-> [r \in Proc |-> WalkAt(p, f, n, r)]]
    BY <2>1
  <2> HIDE DEF f
  <2>. QED  BY <2>2 DEF Walked
<1>2. ASSUME NEW n \in Nat, n \in X
      PROVE  n + 1 \in X
  <2>1. PICK f : Walked(p, f, n)
    BY <1>2
  <2> DEFINE top == [r \in Proc |-> WalkAt(p, f, n + 1, r)]
             g == [i \in 0..(n + 1) |-> IF i <= n THEN f[i] ELSE top]
  <2>2. ASSUME NEW i \in 0..(n + 1), NEW r \in Proc
        PROVE  WalkAt(p, g, i, r) = WalkAt(p, f, i, r)
    <3>1. CASE i = 0
      BY <3>1 DEF WalkAt
    <3>2. CASE i # 0
      <4>1. i - 1 \in 0..(n + 1) /\ i - 1 <= n
        BY <3>2
      <4>2. g[i - 1] = f[i - 1]
        BY <4>1
      <4> HIDE DEF g
      <4>. QED  BY <4>2 DEF WalkAt
    <3>. QED  BY <3>1, <3>2
  <2>3. ASSUME NEW i \in 0..(n + 1)
        PROVE  g[i] = [r \in Proc |-> WalkAt(p, g, i, r)]
    <3>1. g[i] = [r \in Proc |-> WalkAt(p, f, i, r)]
      <4>1. CASE i <= n
        <5>1. f[i] = [r \in Proc |-> WalkAt(p, f, i, r)]
          <6>1. i \in 0..n
            BY <4>1
          <6>. QED  BY <6>1, <2>1, Zenon DEF Walked
        <5>. QED  BY <4>1, <5>1
      <4>2. CASE ~(i <= n)
        <5>1. i = n + 1
          BY <4>2
        <5>. QED  BY <4>2, <5>1
      <4>. QED  BY <4>1, <4>2
    <3> HIDE DEF g
    <3>. QED  BY <3>1, <2>2
  <2>4. g = [i \in 0..(n + 1) |-> [r \in Proc |-> WalkAt(p, g, i, r)]]
    <3> DEFINE h == [i \in 0..(n + 1) |-> [r \in Proc |-> WalkAt(p, g, i, r)]]
    <3>1. \A i \in 0..(n + 1) : g[i] = h[i]
      BY <2>3
    <3>2. g = [i \in 0..(n + 1) |-> g[i]]
      OBVIOUS
    <3>3. h = [i \in 0..(n + 1) |-> h[i]]
      OBVIOUS
    <3> HIDE DEF g, h
    <3>4. g = h
      BY <3>1, <3>2, <3>3, Zenon
    <3>. QED  BY <3>4 DEF h
  <2> HIDE DEF g
  <2>5. \E u : Walked(p, u, n + 1)
    BY <2>4 DEF Walked
  <2>. QED  BY <2>5
<1>3. Nat \subseteq X
  <2> HIDE DEF X
  <2>. QED  BY <1>1, <1>2, EveryNumber
<1>. QED  BY <1>3

LEMMA VerdictsAre ==
  ASSUME NEW p, NEW q
  PROVE  \E f : Walked(p, f, MaxDepth) /\ Verdicts(p, q) = f[MaxDepth][q]
<1> DEFINE f == CHOOSE u : Walked(p, u, MaxDepth)
<1>1. MaxDepth \in Nat
  BY LockfAssumption
<1>2. Walked(p, f, MaxDepth)
  BY <1>1, WalkExists
<1>3. Verdicts(p, q) = f[MaxDepth][q]
  BY Zenon DEF Verdicts, Walked, WalkAt
<1> HIDE DEF f
<1>. QED  BY <1>2, <1>3

(* The verdict of each process after n steps, in what the search reads.    *)
LEMMA WalkStep ==
  ASSUME NEW p, NEW f, NEW m \in Nat, Walked(p, f, m), NEW n \in 0..m, NEW r \in Proc
  PROVE  f[n][r] = WalkAt(p, f, n, r)
<1>1. f[n] = [s \in Proc |-> WalkAt(p, f, n, s)]
  BY Zenon DEF Walked
<1>. QED  BY <1>1

(* Processes that wait for each other, each for a range of the next.        *)
Circle(C) ==
  /\ C # {}
  /\ \A q \in C : /\ q \in Proc \ stale /\ pc[q] = "asleep" /\ req[q].id = q
                  /\ WaitsFor(q) \in C

NoCircle == \A C : Circle(C) => ~(Cardinality(C) <= MaxDepth + 1)

LEMMA CirclesSeen ==
  ASSUME NoCircle
  PROVE  DeadlocksAreSeen
<1> SUFFICES ASSUME NEW C \in SUBSET (Proc \ stale),
                    C # {}, Cardinality(C) <= MaxDepth + 1,
                    \A p \in C : /\ pc[p] = "asleep" /\ req[p].id = p
                                 /\ WaitsFor(p) \in C
             PROVE  FALSE
  BY DEF DeadlocksAreSeen
<1>1. Circle(C)
  BY DEF Circle
<1>. QED  BY <1>1 DEF NoCircle

(* The search finds a circle that p closes if it is not too long: those    *)
(* from whom it comes to nothing in n steps become fewer with n, or they   *)
(* would be a circle without p.                                            *)
LEMMA SearchFinds ==
  ASSUME NoCircle, NEW p \in Proc, NEW C \in SUBSET Proc, p \in C,
         Cardinality(C) <= MaxDepth + 1,
         \A q \in C \ {p} : /\ q \notin stale /\ pc[q] = "asleep" /\ req[q].id = q
                            /\ WaitsFor(q) \in C,
         NEW x \in C \ {p}
  PROVE  FALSE \notin Verdicts(p, x)
<1>1. PICK f : Walked(p, f, MaxDepth) /\ Verdicts(p, x) = f[MaxDepth][x]
  BY VerdictsAre
<1>2. MaxDepth \in Nat /\ IsFiniteSet(Proc) /\ Proc \cap File = {}
  BY LockfAssumption
<1> DEFINE D == C \ {p}
           R(n) == {r \in D : FALSE \in f[n][r]}
           X == {n \in Nat : n <= MaxDepth =>
                   /\ R(n) = {} \/ Cardinality(R(n)) + n <= Cardinality(D)
                   /\ n > 0 => R(n) \subseteq R(n - 1)}
<1>3. D \subseteq Proc /\ x \in D
  OBVIOUS
<1>4. IsFiniteSet(C) /\ IsFiniteSet(D) /\ Cardinality(C) \in Nat /\ Cardinality(D) \in Nat
  <2>1. IsFiniteSet(C)
    BY <1>2, FS_Subset
  <2>2. IsFiniteSet(D)
    BY <1>2, <1>3, FS_Subset
  <2>. QED  BY <2>1, <2>2, FS_CardinalityType
<1>5. Cardinality(D) <= MaxDepth
  <2>1. Cardinality(D) = Cardinality(C) - 1
    BY <1>4, FS_RemoveElement
  <2>. QED  BY <2>1, <1>2, <1>4
<1>6. \A r \in D : /\ r \in Proc /\ r \notin stale /\ pc[r] = "asleep" /\ req[r].id = r
                   /\ WaitsFor(r) \notin File
                   /\ WaitsFor(r) = p \/ WaitsFor(r) \in D
  BY <1>2
<1>7. \A n \in 0..MaxDepth : \A r \in D : f[n][r] = WalkAt(p, f, n, r)
  BY <1>1, <1>2, <1>3, WalkStep
<1>8. \A n : /\ R(n) \subseteq D
             /\ IsFiniteSet(R(n)) /\ Cardinality(R(n)) \in Nat
             /\ Cardinality(R(n)) <= Cardinality(D)
  <2> TAKE n
  <2>1. R(n) \subseteq D
    OBVIOUS
  <2> HIDE DEF R
  <2>. QED  BY <2>1, <1>4, FS_Subset, FS_CardinalityType
<1>9. \A n, r : r \in R(n) <=> r \in D /\ FALSE \in f[n][r]
  OBVIOUS
<1> HIDE DEF R, D
<1>10. ASSUME NEW n \in Nat, n + 1 <= MaxDepth, NEW r \in R(n + 1)
       PROVE  WaitsFor(r) \in R(n)
  <2>1. r \in D /\ FALSE \in f[n + 1][r]
    BY <1>9, <1>10
  <2>2. f[n + 1][r] = WalkAt(p, f, n + 1, r)
    BY <1>2, <1>7, <1>10, <2>1
  <2>3. n + 1 # 0 /\ n + 1 - 1 = n
    OBVIOUS
  <2>4. /\ pc[r] = "asleep" /\ r \notin stale /\ WaitsFor(r) \notin File
        /\ WaitsFor(r) = p \/ WaitsFor(r) \in D
    BY <2>1, <1>6
  <2>5. f[n + 1][r] = IF WaitsFor(r) = p THEN {TRUE} ELSE f[n][WaitsFor(r)]
    BY <2>2, <2>3, <2>4 DEF WalkAt
  <2>6. WaitsFor(r) # p /\ FALSE \in f[n][WaitsFor(r)]
    BY <2>1, <2>5
  <2>. QED  BY <2>4, <2>6, <1>9
<1>11. 0 \in X
  <2>1. Cardinality(R(0)) + 0 <= Cardinality(D)
    BY <1>4, <1>8
  <2>. QED  BY <2>1
<1>12. ASSUME NEW n \in Nat, n \in X
       PROVE  n + 1 \in X
  <2> SUFFICES ASSUME n + 1 <= MaxDepth
               PROVE  /\ \/ R(n + 1) = {}
                         \/ Cardinality(R(n + 1)) + (n + 1) <= Cardinality(D)
                      /\ R(n + 1) \subseteq R(n)
    OBVIOUS
  <2>1. /\ R(n) = {} \/ Cardinality(R(n)) + n <= Cardinality(D)
        /\ n > 0 => R(n) \subseteq R(n - 1)
    BY <1>2, <1>12
  <2>2. ASSUME NEW r \in R(n + 1)
        PROVE  r \in R(n)
    <3>1. r \in D /\ WaitsFor(r) \in R(n)
      BY <1>9, <1>10
    <3>2. f[n][r] = WalkAt(p, f, n, r)
      BY <3>1, <1>2, <1>7
    <3>3. FALSE \in f[n][r]
      <4>1. CASE n = 0
        BY <4>1, <3>2 DEF WalkAt
      <4>2. CASE n # 0
        <5>1. WaitsFor(r) \in R(n - 1)
          <6>1. n > 0
            BY <4>2
          <6>. QED  BY <6>1, <2>1, <3>1
        <5>2. FALSE \in f[n - 1][WaitsFor(r)] /\ WaitsFor(r) \in D
          BY <5>1, <1>9
        <5>3. WaitsFor(r) # p
          BY <5>2 DEF D
        <5>4. pc[r] = "asleep" /\ r \notin stale /\ WaitsFor(r) \notin File
          BY <3>1, <1>6
        <5>5. WalkAt(p, f, n, r) = f[n - 1][WaitsFor(r)]
          BY <4>2, <5>3, <5>4 DEF WalkAt
        <5>. QED  BY <3>2, <5>2, <5>5
      <4>. QED  BY <4>1, <4>2
    <3>. QED  BY <3>1, <3>3, <1>9
  <2>3. ASSUME R(n + 1) # {}, R(n + 1) = R(n)
        PROVE  FALSE
    <3>1. Circle(R(n))
      BY <2>3, <1>6, <1>8, <1>10 DEF Circle
    <3>2. Cardinality(R(n)) <= MaxDepth + 1
      BY <1>2, <1>4, <1>5, <1>8
    <3>. QED  BY <3>1, <3>2 DEF NoCircle
  <2>4. ASSUME R(n + 1) # {}
        PROVE  Cardinality(R(n + 1)) + (n + 1) <= Cardinality(D)
    <3>1. R(n + 1) \subseteq R(n) /\ R(n + 1) # R(n) /\ R(n) # {}
      BY <2>2, <2>3, <2>4
    <3>2. Cardinality(R(n + 1)) < Cardinality(R(n))
      <4>1. IsFiniteSet(R(n))
        BY <1>8
      <4>2. /\ Cardinality(R(n + 1)) <= Cardinality(R(n))
            /\ Cardinality(R(n + 1)) = Cardinality(R(n)) => R(n + 1) = R(n)
        BY <3>1, <4>1, FS_Subset
      <4>3. Cardinality(R(n + 1)) \in Nat /\ Cardinality(R(n)) \in Nat
        BY <1>8
      <4>. QED  BY <3>1, <4>2, <4>3
    <3>3. Cardinality(R(n)) + n <= Cardinality(D)
      BY <2>1, <3>1
    <3>4. Cardinality(R(n + 1)) \in Nat /\ Cardinality(R(n)) \in Nat
      BY <1>8
    <3>. QED  BY <3>2, <3>3, <3>4, <1>4
  <2>. QED  BY <2>2, <2>4
<1>13. MaxDepth \in X
  <2>1. Nat \subseteq X
    <3> HIDE DEF X
    <3>. QED  BY <1>11, <1>12, EveryNumber
  <2>. QED  BY <2>1, <1>2
<1>14. R(MaxDepth) = {}
  <2>1. R(MaxDepth) = {} \/ Cardinality(R(MaxDepth)) + MaxDepth <= Cardinality(D)
    BY <1>2, <1>13
  <2>2. Cardinality(R(MaxDepth)) \in Nat /\ IsFiniteSet(R(MaxDepth))
    BY <1>8
  <2>3. Cardinality(R(MaxDepth)) = 0 => R(MaxDepth) = {}
    BY <2>2, FS_EmptySet
  <2>. QED  BY <2>1, <2>2, <2>3, <1>2, <1>4, <1>5
<1>15. x \notin R(MaxDepth)
  BY <1>14
<1>16. FALSE \notin f[MaxDepth][x]
  BY <1>3, <1>9, <1>15
<1>. QED  BY <1>1, <1>16

LEMMA StepCircles ==
  ASSUME LockfInv, NoCircle, NEW p \in Proc, Step(p)
  PROVE  NoCircle'
<1> SUFFICES ASSUME NEW C, Circle(C)', Cardinality(C) <= MaxDepth + 1
             PROVE  FALSE
  BY DEF NoCircle
<1>1. LockfInv' /\ Keeps(p) /\ (pc'[p] = "asleep" => SleepsNow(p))
  BY StepInv
<1>2. /\ C # {} /\ C \in SUBSET Proc
      /\ \A q \in C : /\ q \in Proc /\ q \notin stale' /\ pc'[q] = "asleep"
                      /\ req'[q].id = q /\ WaitsFor(q)' \in C
  BY DEF Circle
<1>3. \A q \in C \ {p} : /\ q \notin stale /\ pc[q] = "asleep" /\ req[q].id = q
                         /\ WaitsFor(q) \in C
  BY <1>1, <1>2 DEF Keeps
<1>4. CASE p \notin C
  <2>1. Circle(C)
    BY <1>2, <1>3, <1>4 DEF Circle
  <2>. QED  BY <2>1 DEF NoCircle
<1>5. CASE p \in C
  <2>1. pc'[p] = "asleep" /\ req'[p].id = p /\ WaitsFor(p)' \in C
    BY <1>2, <1>5
  <2>2. PICK k \in Locks(p) :
          /\ pc[p] # "asleep" /\ Sleep(p, k) /\ req'[p] = k
          /\ k.id = p => /\ k.id \notin File
                         /\ WaitsNow(p, list[Min(Blocks(list, k))].id)
    BY <1>1, <2>1 DEF SleepsNow
  <2> DEFINE x == list[Min(Blocks(list, k))].id
  <2>3. k.id = p /\ x \in C
    BY <2>1, <2>2 DEF WaitsNow
  <2>4. x # p
    <3>1. Blocks(list, k) # {} /\ Listed(list)
      BY <2>2 DEF Sleep, LockfInv
    <3>2. Conflict(list[Min(Blocks(list, k))], k)
      BY <3>1, FirstBlock
    <3>. QED  BY <2>3, <3>2 DEF Conflict
  <2>5. FALSE \in Verdicts(p, x)
    <3>1. FindsDeadlock(p, k, FALSE)
      BY <2>2 DEF Sleep
    <3>2. x \in Proc
      BY <1>2, <2>3
    <3>. QED  BY <2>3, <3>1, <3>2 DEF FindsDeadlock
  <2> HIDE DEF x
  <2>. QED  BY <1>2, <1>3, <1>5, <2>3, <2>4, <2>5, SearchFinds
<1>. QED  BY <1>4, <1>5

(* The request that closes a circle of sleepers fails with EDEADLK: no     *)
(* circle of processes that wait for ranges of each other comes about that *)
(* is within reach of the search, whatever was granted, split, merged,     *)
(* woken and interrupted in between.                                       *)
THEOREM CirclesAreRefused == Spec => []DeadlocksAreSeen
<1>1. Init => NoCircle
  BY DEF Init, NoCircle, Circle
<1>2. LockfInv /\ NoCircle /\ [Next]_vars => NoCircle'
  <2> SUFFICES ASSUME LockfInv, NoCircle, [Next]_vars PROVE NoCircle'
    OBVIOUS
  <2>1. CASE Next
    BY <2>1, StepCircles DEF Next
  <2>2. CASE UNCHANGED vars
    BY <2>2 DEF vars, NoCircle, Circle, WaitsFor
  <2>. QED  BY <2>1, <2>2
<1>. QED  BY <1>1, <1>2, LockfInvariant, CirclesSeen, PTL DEF Spec

-----------------------------------------------------------------------------
(* The map from bytes to locks.                                            *)

(* Locks that differ elsewhere, or just in their queues.                   *)
LEMMA HoldsAlike ==
  ASSUME NEW l, Listed(l), NEW t, Listed(t), DOMAIN t = DOMAIN l, NEW o, NEW b,
         \A i \in DOMAIN l :
           /\ t[i].id = l[i].id /\ Area(t[i]) = Area(l[i])
           /\ l[i].id = o /\ b \in Area(l[i]) => t[i].type = l[i].type
  PROVE  Holds(t, o, b) = Holds(l, o, b)
<1>1. CASE \E i \in DOMAIN l : l[i].id = o /\ b \in Area(l[i])
  <2>1. PICK i \in DOMAIN l : l[i].id = o /\ b \in Area(l[i])
    BY <1>1
  <2>2. i \in DOMAIN t /\ t[i].id = o /\ b \in Area(t[i]) /\ t[i].type = l[i].type
    BY <2>1
  <2>. QED  BY <2>1, <2>2, HoldsIs
<1>2. CASE \A i \in DOMAIN l : ~(l[i].id = o /\ b \in Area(l[i]))
  <2>1. \A i \in DOMAIN t : ~(t[i].id = o /\ b \in Area(t[i]))
    BY <1>2
  <2>. QED  BY <1>2, <2>1, HoldsIs
<1>. QED  BY <1>1, <1>2

LEMMA HoldsSame ==
  ASSUME NEW l, Listed(l), NEW t, Listed(t), DOMAIN t = DOMAIN l, NEW o, NEW b,
         \A i \in DOMAIN l : Same(l[i], t[i])
  PROVE  Holds(t, o, b) = Holds(l, o, b)
<1>1. \A i \in DOMAIN l : /\ t[i].id = l[i].id /\ Area(t[i]) = Area(l[i])
                          /\ t[i].type = l[i].type
  BY DEF Same, Area
<1>. QED  BY <1>1, HoldsAlike

LEMMA RousedHolds ==
  ASSUME NEW l, Listed(l), NEW S, NEW o, NEW b
  PROVE  Holds(Roused(l, S), o, b) = Holds(l, o, b)
<1> DEFINE t == Roused(l, S)
<1>1. /\ Listed(t) /\ DOMAIN t = DOMAIN l
      /\ \A i \in DOMAIN l : Same(l[i], t[i])
  BY RousedIs DEF Same, Alike
<1> HIDE DEF t
<1>2. Holds(t, o, b) = Holds(l, o, b)
  BY <1>1, HoldsSame
<1>. QED  BY <1>2 DEF t

LEMMA ClearedHolds ==
  ASSUME NEW l, Listed(l), NEW k, Ranged(k), NEW o, NEW b
  PROVE  Holds(Cleared(l, k), o, b) =
           IF o = k.id /\ b \in Area(k) THEN "none" ELSE Holds(l, o, b)
<1> DEFINE r == Roused(l, Met(l, k))
<1>1. Listed(r) /\ Holds(r, o, b) = Holds(l, o, b)
  BY RousedIs, RousedHolds
<1>2. MidOf(<<>>, k)
  BY DEF MidOf
<1>3. Cleared(l, k) = Cut(r, k, <<>>)
  BY DEF Cleared
<1> HIDE DEF r
<1>. QED  BY <1>1, <1>2, <1>3, CutHolds

(* A request that is granted sets its bytes and no other.                  *)
LEMMA PlacedHolds ==
  ASSUME NEW l, Listed(l), Once(l), NEW k, Ranged(k), k.type \in {"RD", "WR"},
         NEW x \in Met(l, k), InPlace(l[x], k), NEW o, NEW b
  PROVE  Holds(Granted(l, k), o, b) =
           IF o = k.id /\ b \in Area(k) THEN k.type ELSE Holds(l, o, b)
<1> DEFINE t == Granted(l, k)
<1>1. /\ Alike(l, t) /\ Met(l, k) = {x} /\ l[x].id = k.id
      /\ \A i \in DOMAIN l : /\ t[i].type = IF i = x THEN k.type ELSE l[i].type
                             /\ i # x => t[i] = l[i]
  BY PlacedIs
<1> HIDE DEF t
<1>2. /\ Listed(t) /\ DOMAIN t = DOMAIN l
      /\ \A i \in DOMAIN l : Area(t[i]) = Area(l[i]) /\ t[i].id = l[i].id
  BY <1>1, AlikeIs DEF Alike
<1>3. x \in DOMAIN l /\ Ranged(l[x]) /\ ~Apart(l[x], k)
  <2>1. x \in DOMAIN l
    BY DEF Met
  <2>. QED  BY <2>1, MetIs DEF Listed, Lock
<1>4. /\ l[x].start <= k.start /\ Reach(k) <= Reach(l[x])
      /\ l[x].type = k.type \/ (l[x].start = k.start /\ Reach(k) = Reach(l[x]))
  BY <1>3, InPlaceIs
<1>5. CASE o = k.id /\ b \in Area(k)
  <2>1. b \in Area(l[x])
    <3>1. b \in Byte /\ k.start <= b /\ b <= Reach(k)
      BY <1>5, AreaIs
    <3>2. /\ b \in Int /\ k.start \in Int /\ Reach(k) \in Int
          /\ l[x].start \in Int /\ Reach(l[x]) \in Int
      BY <3>1, <1>3, ReachIs DEF Byte
    <3>. QED  BY <3>1, <3>2, <1>3, <1>4, AreaIs
  <2>2. x \in DOMAIN t /\ t[x].id = o /\ b \in Area(t[x]) /\ t[x].type = k.type
    BY <2>1, <1>1, <1>2, <1>3, <1>5
  <2>3. Holds(t, o, b) = k.type
    BY <2>2, <1>2, HoldsIs
  <2>. QED  BY <2>3, <1>5 DEF t
<1>6. CASE ~(o = k.id /\ b \in Area(k))
  <2>1. ASSUME NEW i \in DOMAIN l, l[i].id = o, b \in Area(l[i])
        PROVE  t[i].type = l[i].type
    <3>1. CASE i # x
      BY <3>1, <1>1
    <3>2. CASE i = x /\ l[x].type = k.type
      BY <3>2, <1>1
    <3>3. CASE i = x /\ l[x].start = k.start /\ Reach(k) = Reach(l[x])
      <4>1. b \in Area(k)
        BY <2>1, <3>3, <1>3, AreaIs
      <4>. QED  BY <4>1, <2>1, <3>3, <1>1, <1>6
    <3>. QED  BY <3>1, <3>2, <3>3, <1>4
  <2>2. Holds(t, o, b) = Holds(l, o, b)
    BY <2>1, <1>2, HoldsAlike
  <2>. QED  BY <2>2, <1>6 DEF t
<1>. QED  BY <1>5, <1>6

LEMMA GrantedHolds ==
  ASSUME NEW l, Listed(l), Once(l), NEW k, Ranged(k), k.type \in {"RD", "WR"},
         k.id \in Owner, NEW o, NEW b
  PROVE  Holds(Granted(l, k), o, b) =
           IF o = k.id /\ b \in Area(k) THEN k.type ELSE Holds(l, o, b)
<1>1. CASE \E x \in Met(l, k) : InPlace(l[x], k)
  BY <1>1, PlacedHolds
<1>2. CASE \A x \in Met(l, k) : ~InPlace(l[x], k)
  <2> DEFINE r == Roused(l, Waking(l, k))
             g == GrantedMid(l, k)
  <2>1. Listed(r) /\ Holds(r, o, b) = Holds(l, o, b)
    BY RousedIs, RousedHolds
  <2>2. MidOf(<<g>>, k) /\ g.type = k.type
    BY MidGranted
  <2>3. Granted(l, k) = Cut(r, k, <<g>>)
    BY <1>2, GrantedIs
  <2> HIDE DEF r, g
  <2>4. <<g>> # <<>> /\ <<g>>[1] = g
    OBVIOUS
  <2>. QED  BY <2>1, <2>2, <2>3, <2>4, CutHolds, SMTT(30)
<1>. QED  BY <1>1, <1>2

-----------------------------------------------------------------------------
(* The steps of the map.                                                   *)

(* No other owner's lock stands in the way of the request.                 *)
Free(l, k) ==
  \A r \in Owner \ {k.id} : \A b \in Area(k) :
    IF k.type = "WR" THEN Holds(l, r, b) = "none" ELSE Holds(l, r, b) # "WR"

LEMMA UnblockedIs ==
  ASSUME NEW l, Listed(l), NEW k, Ranged(k), Blocks(l, k) = {}
  PROVE  Free(l, k)
<1> SUFFICES ASSUME NEW r \in Owner \ {k.id}, NEW b \in Area(k)
             PROVE  IF k.type = "WR" THEN Holds(l, r, b) = "none"
                    ELSE Holds(l, r, b) # "WR"
  BY DEF Free
<1>1. CASE \A i \in DOMAIN l : ~(l[i].id = r /\ b \in Area(l[i]))
  BY <1>1, HoldsIs
<1>2. CASE \E i \in DOMAIN l : l[i].id = r /\ b \in Area(l[i])
  <2>1. PICK i \in DOMAIN l : l[i].id = r /\ b \in Area(l[i])
    BY <1>2
  <2>2. Ranged(l[i])
    BY DEF Listed, Lock
  <2>3. /\ b \in Byte /\ k.start <= b /\ b <= Reach(k)
        /\ l[i].start <= b /\ b <= Reach(l[i])
    BY <2>1, <2>2, AreaIs
  <2>4. /\ b \in Int /\ k.start \in Int /\ Reach(k) \in Int
        /\ l[i].start \in Int /\ Reach(l[i]) \in Int
    BY <2>2, <2>3, ReachIs DEF Byte
  <2>5. ~Apart(l[i], k)
    BY <2>2, <2>3, <2>4, ApartIs
  <2>6. ~Conflict(l[i], k)
    BY DEF Blocks
  <2>7. k.type # "WR" /\ l[i].type # "WR"
    BY <2>1, <2>5, <2>6 DEF Conflict
  <2>8. Holds(l, r, b) = l[i].type
    BY <2>1, HoldsIs
  <2>. QED  BY <2>7, <2>8
<1>. QED  BY <1>1, <1>2

SetsMap(k) ==
  /\ Free(list, k) /\ k.type \in {"RD", "WR"}
  /\ \A o, b : Holds(list', o, b) = IF o = k.id /\ b \in Area(k) THEN k.type
                                    ELSE Holds(list, o, b)

ClearsMap(k) ==
  \A o, b : Holds(list', o, b) = IF o = k.id /\ b \in Area(k) THEN "none"
                                 ELSE Holds(list, o, b)

KeepsMap == \A o, b : Holds(list', o, b) = Holds(list, o, b)

(* The bytes change as one request says.                                   *)
Changes == \/ KeepsMap
           \/ \E p \in Proc : \E k \in Asks[p] : ClearsMap(k) \/ SetsMap(k)

Asked(p, k) == req' = [req EXCEPT ![p] = k]

(* What a step of p does to the map and to the request of p.               *)
MapStep(p) ==
  \/ KeepsMap /\ req' = req
  \/ KeepsMap /\ req[p] = NoRequest /\ \E k \in Asks[p] : Asked(p, k)
  \/ /\ req[p] \in Locks(p) /\ Asked(p, NoRequest)
     /\ KeepsMap \/ SetsMap(req[p])
  \/ /\ req[p] \in Asks[p] \ Locks(p) /\ Asked(p, NoRequest)
     /\ ClearsMap(req[p])
  \/ /\ req[p] \in Locks(p) /\ req[p].type = "WR" /\ req[p].id \in File
     /\ ~Free(list, req[p])
     /\ ClearsMap(req[p]) /\ req' = req

LEMMA AskedIs ==
  ASSUME States, NEW p \in Proc, NEW how, NEW k, NEW woken, NEW freed, NEW late,
         Becomes(p, how, k, woken, freed, late)
  PROVE  Asked(p, k) /\ (k = req[p] => req' = req)
<1>1. req' = [req EXCEPT ![p] = k]
  BY Zenon DEF Becomes
<1>2. req = [q \in Proc |-> req[q]]
  <2>1. req \in [Proc -> {NoRequest} \cup UNION {Asks[q] : q \in Proc}]
    BY DEF States
  <2>. QED  BY <2>1
<1>3. k = req[p] => req' = req
  BY <1>1, <1>2
<1>. QED  BY <1>1, <1>3 DEF Asked

(* A lock that blocks a request is on a byte that is not free for it.      *)
LEMMA BlockedIs ==
  ASSUME NEW l, Listed(l), NEW k, Ranged(k), k.type \in {"RD", "WR"},
         Blocks(l, k) # {}
  PROVE  ~Free(l, k)
<1>1. PICK i \in DOMAIN l : Conflict(l[i], k)
  BY DEF Blocks
<1>2. /\ l[i].id # k.id /\ ~Apart(l[i], k) /\ (k.type = "WR" \/ l[i].type = "WR")
  BY <1>1 DEF Conflict
<1>3. Ranged(l[i]) /\ l[i].id \in Owner /\ l[i].type \in {"RD", "WR"}
  BY DEF Listed, Lock
<1>4. k.start <= Reach(l[i]) /\ l[i].start <= Reach(k)
  <2>1. /\ k.start \in Int /\ Reach(k) \in Int
        /\ l[i].start \in Int /\ Reach(l[i]) \in Int
    BY <1>3, ReachIs
  <2>2. ~(k.start > Reach(l[i]) \/ l[i].start > Reach(k))
    BY <1>2, <1>3, ApartIs
  <2>. QED  BY <2>1, <2>2
<1>5. \E b \in Area(k) : b \in Area(l[i])
  <2>1. /\ k.start \in Byte /\ l[i].start \in Byte
        /\ k.start <= Reach(k) /\ l[i].start <= Reach(l[i])
        /\ k.start \in Int /\ l[i].start \in Int
    BY <1>3, ReachIs DEF Ranged
  <2>2. CASE k.start <= l[i].start
    <3>1. l[i].start \in Area(k) /\ l[i].start \in Area(l[i])
      BY <2>1, <2>2, <1>3, <1>4, AreaIs
    <3>. QED  BY <3>1
  <2>3. CASE l[i].start <= k.start
    <3>1. k.start \in Area(k) /\ k.start \in Area(l[i])
      BY <2>1, <2>3, <1>3, <1>4, AreaIs
    <3>. QED  BY <3>1
  <2>. QED  BY <2>1, <2>2, <2>3
<1>6. PICK b \in Area(k) : b \in Area(l[i])
  BY <1>5
<1>7. Holds(l, l[i].id, b) = l[i].type
  BY <1>6, HoldsIs
<1>8. l[i].id \in Owner \ {k.id}
  BY <1>2, <1>3
<1>9. ~(IF k.type = "WR" THEN Holds(l, l[i].id, b) = "none"
        ELSE Holds(l, l[i].id, b) # "WR")
  BY <1>2, <1>3, <1>7
<1>. QED  BY <1>6, <1>8, <1>9 DEF Free

LEMMA GrantMap ==
  ASSUME LockfInv, NEW p \in Proc, NEW k \in Locks(p), Grant(p, k), Free(list, k)
  PROVE  SetsMap(k)
<1>1. Listed(list) /\ Once(list) /\ k \in Asks[p] /\ list' = Granted(list, k)
  BY DEF LockfInv, Queues, Locks, Grant
<1>2. Ranged(k) /\ k.type \in {"RD", "WR"} /\ k.id \in Owner
  BY <1>1, RequestIs
<1>. QED  BY <1>1, <1>2, GrantedHolds DEF SetsMap

LEMMA SleepMap ==
  ASSUME LockfInv, NEW p \in Proc, pc[p] # "asleep", NEW k \in Locks(p), Sleep(p, k)
  PROVE  KeepsMap \/ (k.id \in File /\ k.type = "WR" /\ ClearsMap(k))
<1> DEFINE gives == k.id \in File /\ k.type = "WR"
           left == IF gives THEN Cleared(list, k) ELSE list
           woken == IF gives THEN Waiters(list, Met(list, k)) ELSE {}
           m == Min(Blocks(left, k))
<1>1. Listed(list) /\ Once(list) /\ k \in Asks[p]
  BY DEF LockfInv, Queues, Locks
<1>2. Ranged(k)
  BY <1>1, RequestIs
<1>3. Blocks(list, k) # {} /\ list' = [left EXCEPT ![m].blk = Append(@, p)]
  BY Zenon DEF Sleep
<1>4. Moves(list, left, woken, {}, k.id)
  <2>1. CASE gives
    BY <2>1, <1>1, <1>2, ClearedMoves
  <2>2. CASE ~gives
    BY <2>2, <1>1, NothingMoves
  <2>. QED  BY <2>1, <2>2
<1>6. \/ \A o, b : Holds(left, o, b) = Holds(list, o, b)
      \/ /\ k.id \in File /\ k.type = "WR"
         /\ \A o, b : Holds(left, o, b) =
              IF o = k.id /\ b \in Area(k) THEN "none" ELSE Holds(list, o, b)
  BY <1>1, <1>2, ClearedHolds
<1> HIDE DEF gives, left, woken, m
<1>7. Moved(left, woken, {}, k.id)
  BY <1>4, MovesMoved
<1>8. Listed(left) /\ Once(left) /\ ~On(left, p)
  BY <1>7 DEF Moved, On
<1>9. m \in DOMAIN left
  <2>1. PICK i \in DOMAIN list : Conflict(list[i], k)
    BY <1>3 DEF Blocks
  <2>2. list[i].id # k.id
    BY <2>1 DEF Conflict
  <2>3. PICK n \in DOMAIN left : Same(list[i], left[n])
    BY <2>2, <1>4 DEF Moves
  <2>4. Conflict(left[n], k)
    BY <2>1, <2>3, SameStands
  <2>5. Blocks(left, k) # {}
    BY <2>4 DEF Blocks
  <2>. QED  BY <2>5, <1>8, FirstBlock DEF m
<1>10. Joins(left, list', m, p)
  BY <1>3, <1>8, <1>9, SleepJoins
<1>11. /\ Listed(list') /\ DOMAIN list' = DOMAIN left
       /\ \A i \in DOMAIN left : Same(left[i], list'[i])
  BY <1>10 DEF Joins
<1>12. \A o, b : Holds(list', o, b) = Holds(left, o, b)
  BY <1>8, <1>11, HoldsSame
<1>. QED  BY <1>6, <1>12 DEF KeepsMap, ClearsMap

LEMMA ResumeFree ==
  ASSUME LockfInv, Exclusion, "WR" \notin SplitSleeps,
         NEW p \in Proc, pc[p] = "split", req[p] \in Locks(p)
  PROVE  Free(list, req[p])
<1> DEFINE k == req[p]
<1>1. k \in Asks[p] /\ Listed(list)
  BY DEF LockfInv, Locks
<1>2. k.id = p /\ k.type \in SplitSleeps /\ \E i \in DOMAIN list : Around(list[i], k)
  BY DEF LockfInv, Splitting
<1>3. Ranged(k) /\ k.id \in Owner /\ k.type = "RD"
  <2>1. k.type \in {"RD", "WR"} /\ Ranged(k) /\ k.id \in Owner
    BY <1>1, RequestIs
  <2>. QED  BY <1>2, <2>1
<1> HIDE DEF k
<1>4. PICK i \in DOMAIN list : Around(list[i], k)
  BY <1>2
<1>5. list[i] \in Lock /\ Ranged(list[i]) /\ list[i].type = "WR" /\ list[i].id = k.id
  BY <1>1, <1>3, <1>4 DEF Listed, Lock, Around
<1>6. ASSUME NEW b \in Area(k)
      PROVE  b \in Byte /\ Holds(list, k.id, b) = "WR"
  <2>1. b \in Byte /\ k.start <= b /\ b <= Reach(k)
    BY <1>3, AreaIs
  <2>2. list[i].start < k.start /\ Reach(k) < Reach(list[i])
    BY <1>4 DEF Around
  <2>3. /\ b \in Int /\ k.start \in Int /\ Reach(k) \in Int
        /\ list[i].start \in Int /\ Reach(list[i]) \in Int
    BY <2>1, <1>3, <1>5, ReachIs DEF Byte
  <2>4. b \in Area(list[i])
    <3>1. list[i].start <= b /\ b <= Reach(list[i])
      BY <2>1, <2>2, <2>3
    <3>. QED  BY <2>1, <3>1, <1>5, AreaIs
  <2>. QED  BY <2>1, <2>4, <1>1, <1>5, HoldsIs
<1>7. \A r \in Owner \ {k.id} : \A b \in Area(k) : Holds(list, r, b) = "none"
  BY <1>3, <1>6 DEF Exclusion
<1>. QED  BY <1>3, <1>7 DEF Free, k

LEMMA TakeMap ==
  ASSUME LockfInv, NEW p \in Proc, req[p] \in Locks(p), Take(p, req[p])
  PROVE  MapStep(p)
<1> DEFINE k == req[p]
<1>0. Take(p, k) /\ k \in Locks(p) /\ k = req[p] /\ States
  BY DEF LockfInv
<1> HIDE DEF k
<1>1. CASE Grant(p, k)
  <2>1. Blocks(list, k) = {} /\ Listed(list) /\ k \in Asks[p]
    BY <1>0 DEF Take, LockfInv, Locks
  <2>2. Ranged(k)
    BY <2>1, RequestIs
  <2>3. Free(list, k)
    BY <2>1, <2>2, UnblockedIs
  <2>4. SetsMap(k)
    BY <2>3, <1>0, <1>1, GrantMap
  <2>5. Asked(p, NoRequest)
    BY <1>0, <1>1, AskedIs DEF Grant
  <2>. QED  BY <1>0, <2>4, <2>5 DEF MapStep
<1>2. CASE Becomes(p, "split", k, {}, {}, {}) /\ list' = list
  <2>1. req' = req
    BY <1>0, <1>2, AskedIs
  <2>. QED  BY <2>1, <1>2 DEF MapStep, KeepsMap
<1>. QED  BY <1>0, <1>1, <1>2 DEF Take

LEMMA DecideMap ==
  ASSUME LockfInv, NEW p \in Proc, pc[p] # "asleep", req[p] \in Locks(p), Decide(p)
  PROVE  MapStep(p)
<1> DEFINE k == req[p]
<1>0. k \in Locks(p) /\ k \in Asks[p] /\ k = req[p] /\ States /\ Listed(list)
  BY DEF LockfInv, Locks
<1>1. Take(p, k) \/ Refuse(p, k) \/ Sleep(p, k)
  BY DEF Decide
<1>2. CASE Take(p, k)
  BY <1>2, TakeMap
<1> HIDE DEF k
<1>3. CASE Refuse(p, k)
  <2>1. Becomes(p, "idle", NoRequest, {}, {}, {}) /\ list' = list
    BY <1>3, Zenon DEF Refuse
  <2>2. Asked(p, NoRequest) /\ KeepsMap
    BY <2>1, <1>0, AskedIs DEF KeepsMap
  <2>. QED  BY <2>2, <1>0 DEF MapStep
<1>4. CASE Sleep(p, k)
  <2> DEFINE gives == k.id \in File /\ k.type = "WR"
             woken == IF gives THEN Waiters(list, Met(list, k)) ELSE {}
  <2>1. Becomes(p, "asleep", k, woken, {}, {}) /\ Blocks(list, k) # {}
    BY <1>4, Zenon DEF Sleep
  <2> HIDE DEF woken
  <2>2. req' = req
    BY <2>1, <1>0, AskedIs
  <2>3. Ranged(k) /\ k.type \in {"RD", "WR"}
    BY <1>0, RequestIs
  <2>4. ~Free(list, k)
    BY <2>1, <2>3, <1>0, BlockedIs
  <2>5. KeepsMap \/ (k.id \in File /\ k.type = "WR" /\ ClearsMap(k))
    BY <1>0, <1>4, SleepMap
  <2>. QED  BY <2>2, <2>4, <2>5, <1>0 DEF MapStep
<1>. QED  BY <1>1, <1>2, <1>3, <1>4

LEMMA UnlockMap ==
  ASSUME LockfInv, NEW p \in Proc, Unlock(p)
  PROVE  MapStep(p)
<1> DEFINE k == req[p]
           woken == Waiters(list, Met(list, k))
<1>1. \/ /\ list' = Cleared(list, k)
         /\ Becomes(p, "idle", NoRequest, woken, {}, {})
      \/ /\ list' = Roused(list, Met(list, k))
         /\ Becomes(p, "split", k, woken, {}, {})
  BY DEF Unlock, Release
<1>2. pc[p] = "called" /\ k \notin Locks(p) /\ k = req[p] /\ States /\ Listed(list)
  BY DEF Unlock, LockfInv
<1>3. k \in Asks[p]
  BY <1>2 DEF LockfInv, States
<1> HIDE DEF k, woken
<1>4. Ranged(k)
  BY <1>3, RequestIs
<1>5. CASE list' = Cleared(list, k) /\ Becomes(p, "idle", NoRequest, woken, {}, {})
  <2>1. ClearsMap(k)
    BY <1>2, <1>4, <1>5, ClearedHolds DEF ClearsMap
  <2>2. Asked(p, NoRequest)
    BY <1>2, <1>5, AskedIs
  <2>. QED  BY <2>1, <2>2, <1>2, <1>3 DEF MapStep
<1>6. CASE list' = Roused(list, Met(list, k)) /\ Becomes(p, "split", k, woken, {}, {})
  <2>1. KeepsMap
    BY <1>2, <1>4, <1>6, RousedHolds DEF KeepsMap
  <2>2. req' = req
    BY <1>2, <1>6, AskedIs
  <2>. QED  BY <2>1, <2>2 DEF MapStep
<1>. QED  BY <1>1, <1>5, <1>6 DEF k

LEMMA ResumeUnlockMap ==
  ASSUME LockfInv, NEW p \in Proc, ResumeUnlock(p)
  PROVE  MapStep(p)
<1> DEFINE k == req[p]
           late == Waiters(list, Met(list, k))
<1>1. /\ pc[p] = "split" /\ list' = Cut(list, k, <<>>) /\ Listed(list)
      /\ k \notin Locks(p) /\ k = req[p] /\ States
      /\ Becomes(p, "idle", NoRequest, {}, {}, late)
  BY DEF ResumeUnlock, LockfInv
<1>2. k \in Asks[p]
  BY <1>1 DEF LockfInv, States
<1> HIDE DEF k, late
<1>3. Ranged(k) /\ MidOf(<<>>, k)
  BY <1>2, RequestIs DEF MidOf
<1>4. ClearsMap(k)
  BY <1>1, <1>3, CutHolds DEF ClearsMap
<1>5. Asked(p, NoRequest)
  BY <1>1, AskedIs
<1>. QED  BY <1>1, <1>2, <1>4, <1>5 DEF MapStep

LEMMA InterruptMap ==
  ASSUME LockfInv, NEW p \in Proc, Interrupt(p)
  PROVE  MapStep(p)
<1>1. /\ Listed(list) /\ Once(list) /\ pc[p] \in {"asleep", "retry"} /\ States
      /\ list' = [i \in DOMAIN list |-> [list[i] EXCEPT !.blk = RemoveFirst(@, p)]]
      /\ Becomes(p, "idle", NoRequest, {}, {}, {})
  BY DEF LockfInv, Queues, Interrupt
<1>2. /\ Listed(list') /\ DOMAIN list' = DOMAIN list
      /\ \A i \in DOMAIN list : Same(list[i], list'[i])
  BY <1>1, QueuesLess DEF Leaves
<1>3. KeepsMap
  BY <1>1, <1>2, HoldsSame DEF KeepsMap
<1>4. req[p] \in Locks(p)
  BY <1>1 DEF States
<1>5. Asked(p, NoRequest)
  BY <1>1, AskedIs
<1>. QED  BY <1>3, <1>4, <1>5 DEF MapStep

LEMMA CallMap ==
  ASSUME LockfInv, NEW p \in Proc, Call(p)
  PROVE  MapStep(p)
<1>1. PICK k \in Asks[p] : Becomes(p, "called", k, {}, {}, {})
  BY DEF Call
<1>2. pc[p] = "idle" /\ list' = list /\ States
  BY DEF Call, LockfInv
<1>3. req[p] = NoRequest
  BY <1>2 DEF States
<1>4. Asked(p, k) /\ KeepsMap
  BY <1>1, <1>2, AskedIs DEF KeepsMap
<1>. QED  BY <1>3, <1>4 DEF MapStep

LEMMA StepMap ==
  ASSUME LockfInv, Exclusion, "WR" \notin SplitSleeps, NEW p \in Proc, Step(p)
  PROVE  MapStep(p)
<1>1. CASE SetLock(p)
  BY <1>1, DecideMap DEF SetLock
<1>2. CASE Retry(p)
  <2>1. pc[p] = "retry" /\ Decide(p)
    BY <1>2 DEF Retry
  <2>2. req[p] \in Locks(p)
    BY <2>1 DEF LockfInv, States
  <2>. QED  BY <2>1, <2>2, DecideMap
<1>3. CASE ResumeSetLock(p)
  <2>1. pc[p] = "split" /\ req[p] \in Locks(p) /\ Grant(p, req[p])
    BY <1>3 DEF ResumeSetLock
  <2>2. Free(list, req[p])
    BY <2>1, ResumeFree
  <2>3. SetsMap(req[p])
    BY <2>1, <2>2, GrantMap
  <2>4. Asked(p, NoRequest)
    BY <2>1, AskedIs DEF Grant, LockfInv
  <2>. QED  BY <2>1, <2>3, <2>4 DEF MapStep
<1>. QED  BY <1>1, <1>2, <1>3, CallMap, UnlockMap, ResumeUnlockMap, InterruptMap
          DEF Step

(* The mapping of the refinement.                                          *)
Map == [o \in Owner |-> [b \in Byte |-> Holds(list, o, b)]]

LEMMA MapIs ==
  /\ \A o \in Owner : \A b \in Byte : Map[o][b] = Holds(list, o, b)
  /\ Map = [o \in Owner |-> [b \in Byte |-> Map[o][b]]]
BY DEF Map

LEMMA Excepted ==
  ASSUME NEW f, f = [o \in Owner |-> [b \in Byte |-> f[o][b]]], NEW h \in Owner,
         NEW A, NEW v
  PROVE  [f EXCEPT ![h] = [b \in Byte |-> IF b \in A THEN v ELSE @[b]]]
           = [o \in Owner |-> [b \in Byte |->
                IF o = h /\ b \in A THEN v ELSE f[o][b]]]
<1> DEFINE e == [f EXCEPT ![h] = [b \in Byte |-> IF b \in A THEN v ELSE @[b]]]
<1>1. DOMAIN f = Owner
  OBVIOUS
<1>2. e = [o \in Owner |-> IF o = h THEN [b \in Byte |-> IF b \in A THEN v ELSE f[h][b]]
                           ELSE f[o]]
  BY <1>1
<1>3. \A o \in Owner : o # h => f[o] = [b \in Byte |-> f[o][b]]
  OBVIOUS
<1>4. \A o \in Owner : e[o] = [b \in Byte |-> IF o = h /\ b \in A THEN v ELSE f[o][b]]
  BY <1>2, <1>3
<1> HIDE DEF e
<1>5. e = [o \in Owner |-> [b \in Byte |->
                IF o = h /\ b \in A THEN v ELSE f[o][b]]]
  BY <1>2, <1>4
<1>. QED  BY <1>5 DEF e

LEMMA PutIs ==
  ASSUME NEW k, k.id \in Owner, NEW v,
         \A o \in Owner, b \in Byte :
           Holds(list', o, b) = IF o = k.id /\ b \in Area(k) THEN v
                                ELSE Holds(list, o, b)
  PROVE  Map' = Bytes!Put(k, v)
<1>1. Map' = [o \in Owner |-> [b \in Byte |-> Holds(list', o, b)]]
  BY DEF Map
<1>2. \A o \in Owner, b \in Byte :
        Holds(list', o, b) = IF o = k.id /\ b \in Area(k) THEN v ELSE Map[o][b]
  BY MapIs
<1>3. Map' = [o \in Owner |-> [b \in Byte |->
                IF o = k.id /\ b \in Area(k) THEN v ELSE Map[o][b]]]
  BY <1>1, <1>2
<1>4. Map = [o \in Owner |-> [b \in Byte |-> Map[o][b]]]
  BY MapIs
<1>5. Map' = [Map EXCEPT ![k.id] = [b \in Byte |-> IF b \in Area(k) THEN v
                                                  ELSE @[b]]]
  BY <1>3, <1>4, Excepted
<1>6. Bytes!Area(k) = Area(k)
  BY DEF Bytes!Area, Area, EOF
<1>. QED  BY <1>5, <1>6, Zenon DEF Map, Bytes!Put

LEMMA WayIs ==
  ASSUME NEW k, k.id \in Owner
  PROVE  Free(list, k) <=> ~ \E r \in Owner : Bytes!InTheWay(r, k)
<1>1. Bytes!Area(k) = Area(k)
  BY DEF Bytes!Area, Area, EOF
<1>2. \A b \in Area(k) : b \in Byte
  BY DEF Area
<1>3. ASSUME NEW r \in Owner
      PROVE  Bytes!InTheWay(r, k) <=>
               r # k.id /\ \E b \in Area(k) :
                 IF k.type = "WR" THEN Holds(list, r, b) # "none"
                 ELSE Holds(list, r, b) = "WR"
  <2>1. Bytes!InTheWay(r, k) <=>
          r # k.id /\ \E b \in Area(k) : IF k.type = "WR" THEN Map[r][b] # "none"
                                        ELSE Map[r][b] = "WR"
    BY <1>1, Zenon DEF Bytes!InTheWay, Map
  <2>2. \A b \in Area(k) : Map[r][b] = Holds(list, r, b)
    BY <1>2, MapIs
  <2>. QED  BY <2>1, <2>2
<1>4. Free(list, k) <=>
        \A r \in Owner : r # k.id => \A b \in Area(k) :
          IF k.type = "WR" THEN Holds(list, r, b) = "none"
          ELSE Holds(list, r, b) # "WR"
  BY DEF Free
<1>. QED  BY <1>3, <1>4

(* Every step of the list is one of the map, or none.                      *)
LEMMA MapNext ==
  ASSUME NEW p \in Proc, MapStep(p)
  PROVE  [Bytes!Next]_<<Map, req>>
<1> DEFINE k == req[p]
<1>0. Bytes!NoRequest = NoRequest
  BY DEF Bytes!NoRequest, NoRequest
<1>1. KeepsMap => Map' = Map
  BY DEF Map, KeepsMap
<1>2. CASE KeepsMap /\ req' = req
  BY <1>1, <1>2
<1>3. CASE KeepsMap /\ req[p] = NoRequest /\ \E a \in Asks[p] : Asked(p, a)
  <2>1. Bytes!Ask(p)
    BY <1>0, <1>1, <1>3, Zenon DEF Bytes!Ask, Asked, Map
  <2>. QED  BY <2>1 DEF Bytes!Next
<1>4. ASSUME k \in Asks[p]
      PROVE  k.id \in Owner /\ k # NoRequest /\ (k \in Locks(p) <=> k.type # "UN")
             /\ (k.id \in File => k.id \notin Proc)
  BY <1>4, RequestIs, LockfAssumption DEF Locks
<1>5. ASSUME k # NoRequest, Asked(p, NoRequest)
      PROVE  Bytes!Ends(p)
  BY <1>0, <1>5, Zenon DEF Bytes!Ends, Asked
<1>6. k \in Locks(p) => k \in Asks[p]
  BY DEF Locks
<1>7. CASE k \in Locks(p) /\ Asked(p, NoRequest) /\ KeepsMap
  <2>1. Bytes!Ends(p) /\ k.type # "UN" /\ Map' = Map
    BY <1>1, <1>4, <1>5, <1>6, <1>7
  <2>2. Bytes!Refuse(p)
    BY <2>1, Zenon DEF Bytes!Refuse, Map
  <2>. QED  BY <2>2 DEF Bytes!Next
<1>8. CASE k \in Locks(p) /\ Asked(p, NoRequest) /\ SetsMap(k)
  <2>1. Bytes!Ends(p) /\ k.type # "UN" /\ k.id \in Owner
    BY <1>4, <1>5, <1>6, <1>8
  <2>2. Map' = Bytes!Put(k, k.type)
    BY <2>1, <1>8, PutIs DEF SetsMap
  <2>3. ~ \E r \in Owner : Bytes!InTheWay(r, k)
    BY <2>1, <1>8, WayIs DEF SetsMap
  <2>4. Bytes!Set(p)
    BY <2>1, <2>2, <2>3, Zenon DEF Bytes!Set, Map
  <2>. QED  BY <2>4 DEF Bytes!Next
<1>9. CASE k \in Asks[p] \ Locks(p) /\ Asked(p, NoRequest) /\ ClearsMap(k)
  <2>1. Bytes!Ends(p) /\ k.type = "UN" /\ k.id \in Owner
    BY <1>4, <1>5, <1>9
  <2>2. Map' = Bytes!Put(k, "none")
    BY <2>1, <1>9, PutIs DEF ClearsMap
  <2>3. Bytes!Clear(p)
    BY <2>1, <2>2, Zenon DEF Bytes!Clear, Map
  <2>. QED  BY <2>3 DEF Bytes!Next
<1>10. CASE /\ k \in Locks(p) /\ k.type = "WR" /\ k.id \in File
            /\ ~Free(list, k)
            /\ ClearsMap(k) /\ req' = req
  <2>1. k.id \in Owner /\ k.id \notin Proc
    BY <1>4, <1>6, <1>10
  <2>2. Map' = Bytes!Put(k, "none")
    BY <2>1, <1>10, PutIs DEF ClearsMap
  <2>3. \E r \in Owner : Bytes!InTheWay(r, k)
    BY <2>1, <1>10, WayIs
  <2>4. Bytes!GiveUp(p)
    BY <2>1, <2>2, <2>3, <1>10, Zenon DEF Bytes!GiveUp, Map
  <2>. QED  BY <2>4 DEF Bytes!Next
<1>. QED  BY <1>2, <1>3, <1>7, <1>8, <1>9, <1>10, Zenon DEF MapStep

LEMMA MapInit == Init => Bytes!Init
<1> SUFFICES ASSUME Init PROVE Bytes!Init
  OBVIOUS
<1>1. Listed(list) /\ DOMAIN list = {}
  BY InitInv DEF LockfInv, Init
<1>2. \A o, b : Holds(list, o, b) = "none"
  BY <1>1, HoldsIs
<1>3. req = [p \in Proc |-> Bytes!NoRequest]
  BY DEF Init, Bytes!NoRequest, NoRequest
<1>. QED  BY <1>2, <1>3 DEF Bytes!Init

LEMMA MapExclusion ==
  ASSUME Exclusion, Changes
  PROVE  Exclusion'
<1> SUFFICES ASSUME NEW o \in Owner, NEW r \in Owner, NEW b \in Byte,
                    o # r, Holds(list', o, b) = "WR"
             PROVE  Holds(list', r, b) = "none"
  BY DEF Exclusion
<1>1. \A u \in Owner, v \in Owner :
        u # v /\ Holds(list, u, b) = "WR" => Holds(list, v, b) = "none"
  BY DEF Exclusion
<1>2. CASE KeepsMap
  BY <1>1, <1>2 DEF KeepsMap
<1>3. ASSUME NEW p \in Proc, NEW k \in Asks[p], ClearsMap(k)
      PROVE  Holds(list', r, b) = "none"
  BY <1>1, <1>3 DEF ClearsMap
<1>4. ASSUME NEW p \in Proc, NEW k \in Asks[p], SetsMap(k)
      PROVE  Holds(list', r, b) = "none"
  <2>1. /\ Holds(list', o, b) = IF o = k.id /\ b \in Area(k) THEN k.type
                                ELSE Holds(list, o, b)
        /\ Holds(list', r, b) = IF r = k.id /\ b \in Area(k) THEN k.type
                                ELSE Holds(list, r, b)
    BY <1>4 DEF SetsMap
  <2>2. CASE b \in Area(k) /\ o = k.id
    <3>1. k.type = "WR" /\ r # k.id
      BY <2>1, <2>2
    <3>2. Holds(list, r, b) = "none"
      BY <3>1, <2>2, <1>4 DEF SetsMap, Free
    <3>. QED  BY <3>1, <3>2, <2>1
  <2>3. CASE b \in Area(k) /\ r = k.id
    <3>1. Holds(list, o, b) = "WR" /\ o # k.id
      BY <2>1, <2>3
    <3>. QED  BY <3>1, <2>3, <1>4 DEF SetsMap, Free
  <2>4. CASE ~(b \in Area(k) /\ (o = k.id \/ r = k.id))
    BY <2>1, <2>4, <1>1
  <2>. QED  BY <2>2, <2>3, <2>4
<1>. QED  BY <1>2, <1>3, <1>4 DEF Changes

LEMMA NextMap ==
  ASSUME LockfInv, Exclusion, "WR" \notin SplitSleeps, [Next]_vars
  PROVE  (KeepsMap /\ req' = req) \/ \E p \in Proc : MapStep(p)
<1>1. CASE Next
  BY <1>1, StepMap DEF Next
<1>2. CASE UNCHANGED vars
  BY <1>2 DEF vars, KeepsMap
<1>. QED  BY <1>1, <1>2

LEMMA NextChanges ==
  ASSUME LockfInv, Exclusion, "WR" \notin SplitSleeps, [Next]_vars
  PROVE  Changes
<1>1. ASSUME NEW p \in Proc, MapStep(p)
      PROVE  Changes
  <2>1. req[p] \in Locks(p) => req[p] \in Asks[p]
    BY DEF Locks
  <2>2. KeepsMap \/ (req[p] \in Asks[p] /\ (ClearsMap(req[p]) \/ SetsMap(req[p])))
    BY <1>1, <2>1, Zenon DEF MapStep
  <2>. QED  BY <2>2 DEF Changes
<1>. QED  BY <1>1, NextMap DEF Changes

(* An exclusive lock keeps all others off its bytes, if lf_split() does    *)
(* not sleep for a request that is exclusive itself.                       *)
THEOREM ExclusiveIsAlone == ASSUME "WR" \notin SplitSleeps PROVE Spec => []Exclusion
<1>1. Init => Exclusion
  <2> SUFFICES ASSUME Init PROVE Exclusion
    OBVIOUS
  <2>1. Listed(list) /\ DOMAIN list = {}
    BY InitInv DEF LockfInv, Init
  <2>2. \A o, b : Holds(list, o, b) = "none"
    BY <2>1, HoldsIs
  <2>. QED  BY <2>2 DEF Exclusion
<1>2. LockfInv /\ Exclusion /\ [Next]_vars => Exclusion'
  BY NextChanges, MapExclusion
<1>. QED  BY <1>1, <1>2, LockfInvariant, PTL DEF Spec

(* The list implements the map from bytes to locks, under the same         *)
(* condition: a request for a lock ends with the whole range it asked for, *)
(* where nobody was in its way, or with nothing changed; an unlock ends    *)
(* with its range free and no other byte changed; splits, merges, the      *)
(* sleeps in between and the requests that wait leave the map alone, but   *)
(* for the locks that a flock() gives up.                                  *)
THEOREM ListIsAMap ==
  ASSUME "WR" \notin SplitSleeps PROVE Spec => ImplementsByteLocks
<1>1. LockfInv /\ Exclusion /\ [Next]_vars => [Bytes!Next]_<<Map, req>>
  <2>1. KeepsMap /\ req' = req => UNCHANGED <<Map, req>>
    BY DEF Map, KeepsMap
  <2>. QED  BY <2>1, NextMap, MapNext
<1>. QED  BY <1>1, MapInit, LockfInvariant, ExclusiveIsAlone, PTL
          DEF Spec, ImplementsByteLocks, Bytes!Spec, Bytes!vars, Map

=============================================================================
