------------------------------ MODULE ListLemmas ------------------------------
(***************************************************************************)
(* Lemmas that the proofs of several components need: lists without        *)
(* duplicates, which is what the queues of the kernel are, lists put       *)
(* together from a list of lists, sums over the elements of a finite set,  *)
(* and the induction over numbers that these rest on. It is stated of a    *)
(* set of numbers, which is how it can be used.                            *)
(***************************************************************************)
EXTENDS Integers, SequencesExt, FiniteSetTheorems, WellFoundedInduction,
        SequenceTheorems, TLAPS

(* A set that has 0, and n + 1 if it has n, has every number: a least      *)
(* number that it does not have would have one before it.                  *)
LEMMA EveryNumber ==
  ASSUME NEW X, 0 \in X, \A n \in Nat : n \in X => n + 1 \in X
  PROVE  Nat \subseteq X
<1>1. SUFFICES ASSUME Nat \ X # {} PROVE FALSE
  OBVIOUS
<1> DEFINE T == Nat \ X
           R == OpToRel(<, Nat)
<1>2. PICK m \in T : \A y \in T : <<y, m>> \notin R
  <2>1. T \subseteq Nat /\ T # {}
    BY <1>1
  <2>2. IsWellFoundedOn(R, Nat)
    BY NatLessThanWellFounded
  <2> HIDE DEF T, R
  <2>. QED  BY <2>1, <2>2, WFMin
<1>3. m - 1 \in Nat /\ m - 1 < m /\ m - 1 + 1 = m
  <2>1. m # 0 /\ m \in Nat
    OBVIOUS
  <2>. QED  BY <2>1
<1>4. m - 1 \notin X
  BY <1>3
<1>5. <<m - 1, m>> \in R
  BY <1>3 DEF OpToRel
<1>. QED  BY <1>2, <1>3, <1>4, <1>5

-----------------------------------------------------------------------------
(* Lists.                                                                  *)

(* What is behind place k moves up when the element at k is removed.       *)
LEMMA RemovedAt ==
  ASSUME NEW X, NEW s \in Seq(X), NEW k \in 1..Len(s), NEW t,
         t = RemoveAt(s, k)
  PROVE  /\ t \in Seq(X) /\ Len(t) = Len(s) - 1
         /\ \A n \in 1..(Len(s) - 1) : t[n] = IF n < k THEN s[n] ELSE s[n + 1]
<1> DEFINE a == SubSeq(s, 1, k - 1)
           b == SubSeq(s, k + 1, Len(s))
<1>1. a \in Seq(X) /\ Len(a) = k - 1 /\ \A n \in 1..(k - 1) : a[n] = s[n]
  OBVIOUS
<1>2. /\ b \in Seq(X) /\ Len(b) = Len(s) - k
      /\ \A n \in 1..(Len(s) - k) : b[n] = s[k + n]
  OBVIOUS
<1>3. t = a \o b
  BY DEF RemoveAt
<1> HIDE DEF a, b
<1>4. /\ t \in Seq(X) /\ Len(t) = Len(a) + Len(b)
      /\ \A n \in 1..Len(a) : t[n] = a[n]
      /\ \A n \in 1..Len(b) : t[Len(a) + n] = b[n]
  <2>1. /\ a \o b \in Seq(X) /\ Len(a \o b) = Len(a) + Len(b)
        /\ \A n \in 1..Len(a) : (a \o b)[n] = a[n]
        /\ \A n \in 1..Len(b) : (a \o b)[Len(a) + n] = b[n]
    <3>1. a \in Seq(X) /\ b \in Seq(X)
      BY <1>1, <1>2
    <3>. QED  BY <3>1
  <2>. QED  BY <2>1, <1>3
<1>5. Len(t) = Len(s) - 1
  BY <1>1, <1>2, <1>4
<1>6. ASSUME NEW n \in 1..(Len(s) - 1)
      PROVE  t[n] = IF n < k THEN s[n] ELSE s[n + 1]
  <2>1. CASE n < k
    <3>1. n \in 1..Len(a) /\ n \in 1..(k - 1)
      BY <2>1, <1>1
    <3>2. t[n] = a[n]
      BY <3>1, <1>4
    <3>3. a[n] = s[n]
      BY <3>1, <1>1
    <3>. QED  BY <3>2, <3>3, <2>1
  <2>2. CASE n >= k
    <3> DEFINE m == n - k + 1
    <3>1. m \in 1..Len(b) /\ Len(a) + m = n /\ k + m = n + 1
      BY <2>2, <1>1, <1>2
    <3> HIDE DEF m
    <3>2. t[n] = b[m]
      BY <3>1, <1>4
    <3>3. b[m] = s[k + m] /\ ~(n < k)
      BY <3>1, <1>2, <2>2
    <3>. QED  BY <3>1, <3>2, <3>3
  <2>. QED  BY <2>1, <2>2
<1>. QED  BY <1>4, <1>5, <1>6

(* An element that is on a list once is found at its place.                *)
LEMMA FoundAt ==
  ASSUME NEW X, NEW s \in Seq(X), IsInjective(s), NEW k \in 1..Len(s)
  PROVE  /\ {i \in 1..Len(s) : s[i] = s[k]} # {}
         /\ Min({i \in 1..Len(s) : s[i] = s[k]}) = k
<1>1. {i \in 1..Len(s) : s[i] = s[k]} = {k}
  BY DEF IsInjective
<1>2. Min({k}) = k
  <2>1. (CHOOSE x \in {k} : \A y \in {k} : x =< y) \in {k}
    OBVIOUS
  <2>. QED  BY <2>1 DEF Min
<1>. QED  BY <1>1, <1>2

(* Removing an element that is on a list closes up its place.              *)
LEMMA RemovedFirst ==
  ASSUME NEW X, NEW s \in Seq(X), IsInjective(s), NEW k \in 1..Len(s)
  PROVE  RemoveFirst(s, s[k]) = RemoveAt(s, k)
<1> DEFINE I == {i \in 1..Len(s) : s[i] = s[k]}
<1>1. (\E i \in 1..Len(s) : s[i] = s[k]) /\ I # {} /\ Min(I) = k
  BY FoundAt
<1>2. RemoveFirst(s, s[k]) = RemoveAt(s, IF I # {} THEN Min(I) ELSE 0)
  BY <1>1, Zenon DEF RemoveFirst, SelectInSeq
<1> HIDE DEF I
<1>. QED  BY <1>1, <1>2

(* What TAILQ_REMOVE() takes off a list is just the one element.           *)
LEMMA RemoveOne ==
  ASSUME NEW X, NEW s \in Seq(X), NEW v, IsInjective(s)
  PROVE  /\ RemoveFirst(s, v) \in Seq(X)
         /\ IsInjective(RemoveFirst(s, v))
         /\ ToSet(RemoveFirst(s, v)) = ToSet(s) \ {v}
<1>1. CASE v \notin ToSet(s)
  <2>1. ~\E i \in 1..Len(s) : s[i] = v
    BY <1>1 DEF ToSet
  <2>2. RemoveFirst(s, v) = s
    BY <2>1, Zenon DEF RemoveFirst
  <2>. QED  BY <1>1, <2>2
<1>2. CASE v \in ToSet(s)
  <2>1. PICK k \in 1..Len(s) : s[k] = v
    BY <1>2 DEF ToSet
  <2> DEFINE t == RemoveAt(s, k)
  <2>2. /\ t \in Seq(X) /\ Len(t) = Len(s) - 1
        /\ \A n \in 1..(Len(s) - 1) : t[n] = IF n < k THEN s[n] ELSE s[n + 1]
    BY RemovedAt
  <2>3. RemoveFirst(s, v) = t
    BY <2>1, RemovedFirst
  <2> HIDE DEF t
  <2>4. \A x, y \in 1..Len(s) : s[x] = s[y] => x = y
    BY DEF IsInjective
  <2>5. IsInjective(t)
    <3> SUFFICES ASSUME NEW m \in 1..Len(t), NEW n \in 1..Len(t), t[m] = t[n]
                 PROVE  m = n
      BY <2>2 DEF IsInjective
    <3>. QED  BY <2>1, <2>2, <2>4
  <2>6. \A n \in DOMAIN t : t[n] \in ToSet(s) \ {v}
    <3> SUFFICES ASSUME NEW n \in 1..(Len(s) - 1)
                 PROVE  t[n] \in ToSet(s) \ {v}
      BY <2>2
    <3>1. CASE n < k
      <4>1. n \in 1..Len(s) /\ n # k /\ t[n] = s[n]
        BY <3>1, <2>1, <2>2
      <4>. QED  BY <4>1, <2>1, <2>4 DEF ToSet
    <3>2. CASE ~(n < k)
      <4>1. n + 1 \in 1..Len(s) /\ n + 1 # k /\ t[n] = s[n + 1]
        BY <3>2, <2>1, <2>2
      <4>. QED  BY <4>1, <2>1, <2>4 DEF ToSet
    <3>. QED  BY <3>1, <3>2
  <2>7. \A n \in DOMAIN s : s[n] # v => s[n] \in ToSet(t)
    <3> SUFFICES ASSUME NEW n \in DOMAIN s, s[n] # v
                 PROVE  s[n] \in ToSet(t)
      OBVIOUS
    <3>1. CASE n < k
      BY <3>1, <2>1, <2>2 DEF ToSet
    <3>2. CASE n > k
      <4>1. n - 1 \in DOMAIN t /\ t[n - 1] = s[n]
        BY <3>2, <2>1, <2>2
      <4>. QED  BY <4>1 DEF ToSet
    <3>. QED  BY <3>1, <3>2, <2>1
  <2>8. ToSet(t) = ToSet(s) \ {v}
    BY <2>6, <2>7 DEF ToSet
  <2>. QED  BY <2>2, <2>3, <2>5, <2>8
<1>. QED  BY <1>1, <1>2

(* TAILQ_INSERT_TAIL() of an element that is not on the list.               *)
LEMMA AddLast ==
  ASSUME NEW X, NEW s \in Seq(X), NEW v \in X, IsInjective(s), v \notin ToSet(s)
  PROVE  /\ Append(s, v) \in Seq(X)
         /\ IsInjective(Append(s, v))
         /\ ToSet(Append(s, v)) = ToSet(s) \cup {v}
BY DEF IsInjective, ToSet

(* TAILQ_INSERT_HEAD() of an element that is not on the list.               *)
LEMMA AddFirst ==
  ASSUME NEW X, NEW s \in Seq(X), NEW v \in X, IsInjective(s), v \notin ToSet(s)
  PROVE  /\ <<v>> \o s \in Seq(X)
         /\ IsInjective(<<v>> \o s)
         /\ ToSet(<<v>> \o s) = ToSet(s) \cup {v}
<1> DEFINE t == <<v>> \o s
<1>1. /\ t \in Seq(X) /\ Len(t) = Len(s) + 1
      /\ t[1] = v /\ \A n \in 1..Len(s) : t[n + 1] = s[n]
  OBVIOUS
<1> HIDE DEF t
<1>2. \A n \in 1..Len(t) : t[n] = IF n = 1 THEN v ELSE s[n - 1]
  <2> SUFFICES ASSUME NEW n \in 1..Len(t), n # 1 PROVE t[n] = s[n - 1]
    BY <1>1
  <2>1. n - 1 \in 1..Len(s) /\ (n - 1) + 1 = n
    BY <1>1
  <2>. QED  BY <1>1, <2>1
<1>3. IsInjective(t)
  BY <1>1, <1>2 DEF IsInjective, ToSet
<1>4. ToSet(t) = ToSet(s) \cup {v}
  <2>1. \A n \in 1..Len(t) : t[n] \in ToSet(s) \cup {v}
    BY <1>1, <1>2 DEF ToSet
  <2>2. v \in ToSet(t)
    BY <1>1 DEF ToSet
  <2>3. \A n \in 1..Len(s) : s[n] \in ToSet(t)
    BY <1>1 DEF ToSet
  <2>. QED  BY <1>1, <2>1, <2>2, <2>3 DEF ToSet
<1>. QED  BY <1>1, <1>3, <1>4 DEF t

(* The first element is taken off a list.                                   *)
LEMMA TakeFirst ==
  ASSUME NEW X, NEW s \in Seq(X), s # <<>>, IsInjective(s)
  PROVE  /\ Tail(s) \in Seq(X)
         /\ IsInjective(Tail(s))
         /\ Head(s) \in ToSet(s)
         /\ ToSet(Tail(s)) = ToSet(s) \ {Head(s)}
<1>1. /\ Tail(s) \in Seq(X) /\ Len(Tail(s)) = Len(s) - 1
      /\ \A n \in 1..Len(Tail(s)) : Tail(s)[n] = s[n + 1]
      /\ Head(s) = s[1] /\ Len(s) >= 1
  OBVIOUS
<1>2. IsInjective(Tail(s))
  <2> SUFFICES ASSUME NEW m \in 1..Len(Tail(s)), NEW n \in 1..Len(Tail(s)),
                      Tail(s)[m] = Tail(s)[n]
               PROVE  m = n
    BY <1>1 DEF IsInjective
  <2>1. \A x, y \in 1..Len(s) : s[x] = s[y] => x = y
    BY DEF IsInjective
  <2>. QED  BY <2>1, <1>1
<1>3. \A n \in 1..Len(Tail(s)) : Tail(s)[n] \in ToSet(s) \ {Head(s)}
  BY <1>1 DEF ToSet, IsInjective
<1>4. \A n \in 1..Len(s) : s[n] # Head(s) => s[n] \in ToSet(Tail(s))
  <2> SUFFICES ASSUME NEW n \in 1..Len(s), n # 1
               PROVE  s[n] \in ToSet(Tail(s))
    BY <1>1
  <2>1. n - 1 \in 1..Len(Tail(s)) /\ (n - 1) + 1 = n
    BY <1>1
  <2>2. n - 1 \in DOMAIN Tail(s) /\ Tail(s)[n - 1] = s[n]
    BY <1>1, <2>1
  <2>. QED  BY <2>2 DEF ToSet
<1>5. ToSet(Tail(s)) = ToSet(s) \ {Head(s)}
  BY <1>1, <1>3, <1>4 DEF ToSet
<1>6. Head(s) \in ToSet(s)
  BY <1>1 DEF ToSet
<1>. QED  BY <1>1, <1>2, <1>5, <1>6

(* Two lists without a common element are one list without duplicates.     *)
LEMMA JoinedLists ==
  ASSUME NEW X, NEW a \in Seq(X), NEW b \in Seq(X),
         IsInjective(a), IsInjective(b), ToSet(a) \cap ToSet(b) = {}
  PROVE  /\ a \o b \in Seq(X) /\ IsInjective(a \o b)
         /\ ToSet(a \o b) = ToSet(a) \cup ToSet(b)
<1> DEFINE t == a \o b
<1>1. /\ t \in Seq(X) /\ Len(t) = Len(a) + Len(b)
      /\ \A n \in 1..Len(a) : t[n] = a[n]
      /\ \A n \in 1..Len(b) : t[Len(a) + n] = b[n]
  OBVIOUS
<1> HIDE DEF t
<1>2. ASSUME NEW n \in 1..Len(t), n > Len(a)
      PROVE  n - Len(a) \in 1..Len(b) /\ t[n] = b[n - Len(a)]
  <2>1. n - Len(a) \in 1..Len(b) /\ Len(a) + (n - Len(a)) = n
    BY <1>1, <1>2
  <2>. QED  BY <1>1, <2>1
<1>3. IsInjective(t)
  <2>1. SUFFICES ASSUME NEW m \in 1..Len(t), NEW n \in 1..Len(t), t[m] = t[n]
                 PROVE  m = n
    BY <1>1 DEF IsInjective
  <2>2. CASE m <= Len(a) /\ n <= Len(a)
    <3>1. m \in 1..Len(a) /\ n \in 1..Len(a) /\ a[m] = a[n]
      BY <1>1, <2>1, <2>2
    <3>. QED  BY <3>1 DEF IsInjective
  <2>3. CASE m > Len(a) /\ n > Len(a)
    <3>1. /\ m - Len(a) \in 1..Len(b) /\ n - Len(a) \in 1..Len(b)
          /\ b[m - Len(a)] = b[n - Len(a)]
      BY <1>2, <2>1, <2>3
    <3>2. m - Len(a) = n - Len(a)
      BY <3>1 DEF IsInjective
    <3>. QED  BY <3>2
  <2>4. CASE m <= Len(a) /\ n > Len(a)
    <3>1. t[m] \in ToSet(a)
      BY <1>1, <2>4 DEF ToSet
    <3>2. t[n] \in ToSet(b)
      BY <1>2, <2>4 DEF ToSet
    <3>. QED  BY <2>1, <3>1, <3>2
  <2>5. CASE m > Len(a) /\ n <= Len(a)
    <3>1. t[n] \in ToSet(a)
      BY <1>1, <2>5 DEF ToSet
    <3>2. t[m] \in ToSet(b)
      BY <1>2, <2>5 DEF ToSet
    <3>. QED  BY <2>1, <3>1, <3>2
  <2>. QED  BY <2>2, <2>3, <2>4, <2>5
<1>4. ToSet(t) = ToSet(a) \cup ToSet(b)
  <2>1. ASSUME NEW n \in 1..Len(t)
        PROVE  t[n] \in ToSet(a) \cup ToSet(b)
    <3>1. CASE n <= Len(a)
      <4>1. n \in 1..Len(a) /\ t[n] = a[n]
        BY <1>1, <3>1
      <4>. QED  BY <4>1 DEF ToSet
    <3>2. CASE n > Len(a)
      BY <1>2, <3>2 DEF ToSet
    <3>. QED  BY <3>1, <3>2
  <2>2. \A n \in 1..Len(a) : a[n] \in ToSet(t)
    BY <1>1 DEF ToSet
  <2>3. ASSUME NEW n \in 1..Len(b)
        PROVE  b[n] \in ToSet(t)
    <3>1. Len(a) + n \in DOMAIN t /\ t[Len(a) + n] = b[n]
      BY <1>1
    <3>. QED  BY <3>1 DEF ToSet
  <2>4. ToSet(t) \subseteq ToSet(a) \cup ToSet(b)
    BY <1>1, <2>1 DEF ToSet
  <2>5. ToSet(a) \subseteq ToSet(t)
    BY <2>2 DEF ToSet
  <2>6. ToSet(b) \subseteq ToSet(t)
    BY <2>3 DEF ToSet
  <2>. QED  BY <2>4, <2>5, <2>6
<1>. QED  BY <1>1, <1>3, <1>4 DEF t

(* A sequence that has the elements of two is the two joined.               *)
LEMMA JoinedIs ==
  ASSUME NEW X, NEW x \in Seq(X), NEW y \in Seq(X), NEW z \in Seq(X),
         Len(z) = Len(x) + Len(y),
         \A n \in 1..Len(z) : z[n] = IF n <= Len(x) THEN x[n] ELSE y[n - Len(x)]
  PROVE  z = x \o y
<1> DEFINE w == x \o y
<1>1. /\ w \in Seq(X) /\ Len(w) = Len(x) + Len(y) /\ Len(x) \in Nat /\ Len(y) \in Nat
  OBVIOUS
<1>2. \A n \in 1..Len(z) : w[n] = IF n <= Len(x) THEN x[n] ELSE y[n - Len(x)]
  OBVIOUS
<1> HIDE DEF w
<1>3. \A n \in 1..Len(z) : w[n] = z[n]
  BY <1>2
<1>4. z = w
  BY <1>1, <1>3
<1>. QED  BY <1>4 DEF w

(* The largest place of those up to k + 1, if k + 1 is one of them.        *)
LEMMA TopIsMax ==
  ASSUME NEW k \in Nat, NEW s \in SUBSET (1..(k + 1)), k + 1 \in s
  PROVE  Max(s) = k + 1
<1> DEFINE Top(x) == x \in s /\ \A y \in s : x >= y
<1>1. Top(k + 1)
  OBVIOUS
<1>2. Max(s) = CHOOSE x : Top(x)
  BY Zenon DEF Max
<1>3. Top(Max(s))
  <2> HIDE DEF Top
  <2>. QED  BY <1>1, <1>2
<1> DEFINE m == Max(s)
<1>4. m \in s /\ m >= k + 1
  BY <1>3
<1> HIDE DEF m
<1>5. m = k + 1
  <2>1. m \in 1..(k + 1)
    BY <1>4
  <2>. QED  BY <1>4, <2>1
<1>. QED  BY <1>5 DEF m

-----------------------------------------------------------------------------
(* Sums. The fold over a function adds its values in some order, and takes *)
(* the sums of smaller sets from a function on the subsets of its domain.  *)

Total(g) == FoldFunction(+, 0, g)

Picked(s) == CHOOSE x \in s : TRUE

Added(g, sum, s) == IF s = {} THEN 0
                    ELSE g[Picked(s)] + sum[s \ {Picked(s)}]

Sums(g, sum, D) == sum = [s \in D |-> Added(g, sum, s)]

(* The subsets of S with n elements at most.                               *)
Small(S, n) == {s \in SUBSET S : Cardinality(s) <= n}

(* What is left of a set without the element that is picked.               *)
LEMMA OneLess ==
  ASSUME NEW S, IsFiniteSet(S), NEW s \in SUBSET S, s # {}
  PROVE  /\ Picked(s) \in s /\ Picked(s) \in S
         /\ IsFiniteSet(s) /\ s \ {Picked(s)} \in SUBSET S
         /\ Cardinality(s) \in Nat \ {0}
         /\ Cardinality(s \ {Picked(s)}) = Cardinality(s) - 1
<1>1. IsFiniteSet(s)
  BY FS_Subset
<1>2. Picked(s) \in s
  BY DEF Picked
<1> DEFINE x == Picked(s)
<1> HIDE DEF x
<1>3. Cardinality(s \ {x}) = Cardinality(s) - 1 /\ Cardinality(s) \in Nat
  BY <1>1, <1>2, FS_RemoveElement, FS_CardinalityType DEF x
<1>4. Cardinality(s) # 0
  BY <1>1, FS_EmptySet
<1>. QED  BY <1>1, <1>2, <1>3, <1>4 DEF x

(* The sums of all subsets exist: those of n + 1 elements follow from      *)
(* those of n.                                                             *)
LEMMA SumsExist ==
  ASSUME NEW S, IsFiniteSet(S), NEW g
  PROVE  \E sum : Sums(g, sum, SUBSET S)
<1> DEFINE X == {n \in Nat : \E sum : Sums(g, sum, Small(S, n))}
<1>1. \A s \in SUBSET S : IsFiniteSet(s) /\ Cardinality(s) \in Nat
  BY FS_Subset, FS_CardinalityType
<1>2. 0 \in X
  <2> DEFINE sum == [s \in Small(S, 0) |-> 0]
  <2>1. \A s \in Small(S, 0) : s = {}
    BY <1>1, FS_EmptySet DEF Small
  <2>2. Sums(g, sum, Small(S, 0))
    BY <2>1 DEF Sums, Added
  <2>. QED  BY <2>2
<1>3. ASSUME NEW n \in Nat, n \in X
      PROVE  n + 1 \in X
  <2>1. PICK old : Sums(g, old, Small(S, n))
    BY <1>3
  <2> DEFINE sum == [s \in Small(S, n + 1) |-> Added(g, old, s)]
  <2>2. \A s \in Small(S, n) : old[s] = Added(g, old, s)
    BY <2>1 DEF Sums
  <2>3. ASSUME NEW s \in Small(S, n + 1), s # {}
        PROVE  s \ {Picked(s)} \in Small(S, n)
    BY <2>3, <1>1, OneLess DEF Small
  <2>4. \A s \in Small(S, n) : s \in Small(S, n + 1)
    BY <1>1 DEF Small
  <2>5. \A s \in Small(S, n) : sum[s] = old[s]
    BY <2>2, <2>4
  <2>6. ASSUME NEW s \in Small(S, n + 1)
        PROVE  Added(g, sum, s) = Added(g, old, s)
    <3>1. CASE s = {}
      BY <3>1 DEF Added
    <3>2. CASE s # {}
      <4>1. sum[s \ {Picked(s)}] = old[s \ {Picked(s)}]
        BY <3>2, <2>3, <2>5
      <4> HIDE DEF sum
      <4>. QED  BY <3>2, <4>1 DEF Added
    <3>. QED  BY <3>1, <3>2
  <2>7. sum = [s \in Small(S, n + 1) |-> Added(g, sum, s)]
    BY <2>6
  <2> HIDE DEF sum
  <2>8. \E u : Sums(g, u, Small(S, n + 1))
    BY <2>7 DEF Sums
  <2>. QED  BY <2>8
<1>4. Nat \subseteq X
  <2> HIDE DEF X
  <2>. QED  BY <1>2, <1>3, EveryNumber
<1>5. Small(S, Cardinality(S)) = SUBSET S
  BY FS_Subset DEF Small
<1>6. Cardinality(S) \in X
  <2> HIDE DEF X
  <2>. QED  BY <1>1, <1>4
<1>. QED  BY <1>5, <1>6

(* The total is the sum of the whole domain.                               *)
LEMMA TotalIsSum ==
  ASSUME NEW S, IsFiniteSet(S), NEW g, DOMAIN g = S
  PROVE  \E sum : Sums(g, sum, SUBSET S) /\ Total(g) = sum[S]
<1> DEFINE sum == CHOOSE u : Sums(g, u, SUBSET S)
<1>1. Total(g) = sum[S]
  BY Zenon DEF Total, FoldFunction, FoldFunctionOnSet, MapThenFoldSet, Sums,
               Added, Picked
<1>2. Sums(g, sum, SUBSET S)
  BY SumsExist
<1>. QED  BY <1>1, <1>2

(* Sums of numbers are numbers, and a change of one value changes them by  *)
(* as much.                                                                *)
LEMMA TotalChanged ==
  ASSUME NEW S, IsFiniteSet(S), NEW g \in [S -> Nat], NEW h \in [S -> Nat],
         NEW x \in S, \A y \in S \ {x} : h[y] = g[y]
  PROVE  /\ Total(g) \in Nat /\ Total(h) \in Nat
         /\ Total(h) = Total(g) + h[x] - g[x]
<1>1. PICK a : Sums(g, a, SUBSET S) /\ Total(g) = a[S]
  BY TotalIsSum
<1>2. PICK b : Sums(h, b, SUBSET S) /\ Total(h) = b[S]
  BY TotalIsSum
<1> DEFINE P(s) == /\ a[s] \in Nat /\ b[s] \in Nat
                   /\ b[s] = a[s] + (IF x \in s THEN h[x] - g[x] ELSE 0)
           X == {n \in Nat : \A s \in Small(S, n) : P(s)}
<1>3. \A s \in SUBSET S : a[s] = Added(g, a, s) /\ b[s] = Added(h, b, s)
  BY <1>1, <1>2 DEF Sums
<1>4. \A s \in SUBSET S : IsFiniteSet(s) /\ Cardinality(s) \in Nat
  BY FS_Subset, FS_CardinalityType
<1>5. P({})
  <2>1. a[{}] = 0 /\ b[{}] = 0
    BY <1>3 DEF Added
  <2>. QED  BY <2>1
<1>6. 0 \in X
  <2>1. \A s \in Small(S, 0) : s = {}
    BY <1>4, FS_EmptySet DEF Small
  <2> HIDE DEF P
  <2>. QED  BY <1>5, <2>1
<1>7. ASSUME NEW n \in Nat, n \in X
      PROVE  n + 1 \in X
  <2>1. ASSUME NEW s \in Small(S, n + 1), s # {}
        PROVE  P(s)
    <3> DEFINE c == Picked(s)
               r == s \ {c}
    <3>1. s \in SUBSET S /\ c \in s /\ c \in S /\ r \in Small(S, n)
      BY <2>1, <1>4, OneLess DEF Small
    <3>2. a[s] = g[c] + a[r] /\ b[s] = h[c] + b[r]
      BY <2>1, <3>1, <1>3 DEF Added
    <3>3. P(r)
      BY <1>7, <3>1
    <3>4. c \notin r
      OBVIOUS
    <3>5. g[c] \in Nat /\ h[c] \in Nat /\ g[x] \in Nat /\ h[x] \in Nat
      BY <3>1
    <3> HIDE DEF c
    <3>6. CASE c = x
      BY <3>1, <3>2, <3>3, <3>5, <3>6
    <3>7. CASE c # x
      <4>1. x \in r <=> x \in s
        BY <3>7
      <4>2. h[c] = g[c]
        BY <3>1, <3>7
      <4> HIDE DEF r
      <4>. QED  BY <3>2, <3>3, <3>5, <4>1, <4>2
    <3>. QED  BY <3>6, <3>7
  <2>2. ASSUME NEW s \in Small(S, n + 1)
        PROVE  P(s)
    <3> HIDE DEF P
    <3>1. CASE s = {}
      BY <3>1, <1>5
    <3>. QED  BY <3>1, <2>1
  <2> HIDE DEF P
  <2>. QED  BY <2>2
<1>8. Nat \subseteq X
  <2> HIDE DEF X
  <2>. QED  BY <1>6, <1>7, EveryNumber
<1>9. S \in Small(S, Cardinality(S)) /\ Cardinality(S) \in Nat
  BY <1>4 DEF Small
<1>10. P(S)
  <2> HIDE DEF P
  <2>. QED  BY <1>8, <1>9
<1>. QED  BY <1>1, <1>2, <1>10

(* The sum of equal numbers.                                               *)
LEMMA TotalEqual ==
  ASSUME NEW S, IsFiniteSet(S), NEW k \in Nat, NEW g, g = [x \in S |-> k]
  PROVE  Total(g) = k * Cardinality(S)
<1>1. PICK a : Sums(g, a, SUBSET S) /\ Total(g) = a[S]
  BY TotalIsSum
<1> DEFINE P(s) == a[s] = k * Cardinality(s)
           X == {n \in Nat : \A s \in Small(S, n) : P(s)}
<1>2. \A s \in SUBSET S : a[s] = Added(g, a, s)
  BY <1>1 DEF Sums
<1>3. \A s \in SUBSET S : IsFiniteSet(s) /\ Cardinality(s) \in Nat
  BY FS_Subset, FS_CardinalityType
<1>4. P({})
  BY <1>2, FS_EmptySet DEF Added
<1>5. 0 \in X
  <2>1. \A s \in Small(S, 0) : s = {}
    BY <1>3, FS_EmptySet DEF Small
  <2> HIDE DEF P
  <2>. QED  BY <1>4, <2>1
<1>6. ASSUME NEW n \in Nat, n \in X
      PROVE  n + 1 \in X
  <2>1. ASSUME NEW s \in Small(S, n + 1), s # {}
        PROVE  P(s)
    <3> DEFINE c == Picked(s)
               r == s \ {c}
               m == Cardinality(r)
    <3>1. /\ s \in SUBSET S /\ c \in S /\ r \in Small(S, n)
          /\ Cardinality(s) = m + 1 /\ m \in Nat
      BY <2>1, <1>3, OneLess DEF Small
    <3>2. a[s] = k + a[r]
      BY <2>1, <3>1, <1>2 DEF Added
    <3>3. a[r] = k * m
      BY <1>6, <3>1
    <3> HIDE DEF m, r, c
    <3>4. k + k * m = k * (m + 1)
      BY <3>1
    <3>. QED  BY <3>1, <3>2, <3>3, <3>4
  <2>2. ASSUME NEW s \in Small(S, n + 1)
        PROVE  P(s)
    <3> HIDE DEF P
    <3>1. CASE s = {}
      BY <3>1, <1>4
    <3>. QED  BY <3>1, <2>1
  <2> HIDE DEF P
  <2>. QED  BY <2>2
<1>7. Nat \subseteq X
  <2> HIDE DEF X
  <2>. QED  BY <1>5, <1>6, EveryNumber
<1>8. S \in Small(S, Cardinality(S)) /\ Cardinality(S) \in Nat
  BY <1>3 DEF Small
<1>9. P(S)
  <2> HIDE DEF P
  <2>. QED  BY <1>7, <1>8
<1>. QED  BY <1>1, <1>9

(* The sum of sums.                                                        *)
LEMMA TotalAdded ==
  ASSUME NEW S, IsFiniteSet(S), NEW g \in [S -> Nat], NEW h \in [S -> Nat],
         NEW k \in [S -> Nat], \A x \in S : k[x] = g[x] + h[x]
  PROVE  /\ Total(g) \in Nat /\ Total(h) \in Nat
         /\ Total(k) = Total(g) + Total(h)
<1>1. PICK a : Sums(g, a, SUBSET S) /\ Total(g) = a[S]
  BY TotalIsSum
<1>2. PICK b : Sums(h, b, SUBSET S) /\ Total(h) = b[S]
  BY TotalIsSum
<1>3. PICK c : Sums(k, c, SUBSET S) /\ Total(k) = c[S]
  BY TotalIsSum
<1> DEFINE P(s) == a[s] \in Nat /\ b[s] \in Nat /\ c[s] = a[s] + b[s]
           X == {n \in Nat : \A s \in Small(S, n) : P(s)}
<1>4. \A s \in SUBSET S : /\ a[s] = Added(g, a, s) /\ b[s] = Added(h, b, s)
                          /\ c[s] = Added(k, c, s)
  BY <1>1, <1>2, <1>3 DEF Sums
<1>5. \A s \in SUBSET S : IsFiniteSet(s) /\ Cardinality(s) \in Nat
  BY FS_Subset, FS_CardinalityType
<1>6. P({})
  <2>1. a[{}] = 0 /\ b[{}] = 0 /\ c[{}] = 0
    BY <1>4 DEF Added
  <2>. QED  BY <2>1
<1>7. 0 \in X
  <2>1. \A s \in Small(S, 0) : s = {}
    BY <1>5, FS_EmptySet DEF Small
  <2> HIDE DEF P
  <2>. QED  BY <1>6, <2>1
<1>8. ASSUME NEW n \in Nat, n \in X
      PROVE  n + 1 \in X
  <2>1. ASSUME NEW s \in Small(S, n + 1), s # {}
        PROVE  P(s)
    <3> DEFINE x == Picked(s)
               r == s \ {x}
    <3>1. s \in SUBSET S /\ x \in S /\ r \in Small(S, n)
      BY <2>1, <1>5, OneLess DEF Small
    <3>2. a[s] = g[x] + a[r] /\ b[s] = h[x] + b[r] /\ c[s] = k[x] + c[r]
      BY <2>1, <3>1, <1>4 DEF Added
    <3>3. P(r)
      BY <1>8, <3>1
    <3>4. g[x] \in Nat /\ h[x] \in Nat /\ k[x] = g[x] + h[x]
      BY <3>1
    <3> HIDE DEF x, r
    <3>. QED  BY <3>2, <3>3, <3>4
  <2>2. ASSUME NEW s \in Small(S, n + 1)
        PROVE  P(s)
    <3> HIDE DEF P
    <3>1. CASE s = {}
      BY <3>1, <1>6
    <3>. QED  BY <3>1, <2>1
  <2> HIDE DEF P
  <2>. QED  BY <2>2
<1>9. Nat \subseteq X
  <2> HIDE DEF X
  <2>. QED  BY <1>7, <1>8, EveryNumber
<1>10. S \in Small(S, Cardinality(S)) /\ Cardinality(S) \in Nat
  BY <1>5 DEF Small
<1>11. P(S)
  <2> HIDE DEF P
  <2>. QED  BY <1>9, <1>10
<1>. QED  BY <1>1, <1>2, <1>3, <1>11

(* A sum of numbers is a number.                                            *)
LEMMA TotalIsNumber ==
  ASSUME NEW S, IsFiniteSet(S), NEW g \in [S -> Nat]
  PROVE  Total(g) \in Nat
<1> DEFINE k == [x \in S |-> g[x] + g[x]]
<1>1. k \in [S -> Nat] /\ \A x \in S : k[x] = g[x] + g[x]
  OBVIOUS
<1> HIDE DEF k
<1>. QED  BY <1>1, TotalAdded

(* A sum of numbers is not less than any of them.                          *)
LEMMA TotalIsMore ==
  ASSUME NEW S, IsFiniteSet(S), NEW g \in [S -> Nat], NEW x \in S
  PROVE  Total(g) \in Nat /\ Total(g) >= g[x]
<1> DEFINE h == [g EXCEPT ![x] = 0]
<1>1. h \in [S -> Nat] /\ h[x] = 0 /\ \A y \in S \ {x} : h[y] = g[y]
  OBVIOUS
<1> HIDE DEF h
<1>2. /\ Total(g) \in Nat /\ Total(h) \in Nat
      /\ Total(h) = Total(g) + h[x] - g[x]
  BY <1>1, TotalChanged
<1>3. g[x] \in Nat
  OBVIOUS
<1>. QED  BY <1>1, <1>2, <1>3

-----------------------------------------------------------------------------
(* The places in a list of what is in a set.                               *)

PlacesOf(s, Y) == {n \in DOMAIN s : s[n] \in Y}

Among(s, Y) == Cardinality(PlacesOf(s, Y))

(* How many elements of a sequence are in a set is a number.                *)
LEMMA AmongIsNumber ==
  ASSUME NEW X, NEW s \in Seq(X), NEW Y
  PROVE  IsFiniteSet(PlacesOf(s, Y)) /\ Among(s, Y) \in Nat
<1>1. IsFiniteSet(1..Len(s)) /\ PlacesOf(s, Y) \in SUBSET (1..Len(s))
  <2>1. Len(s) \in Nat /\ DOMAIN s = 1..Len(s)
    OBVIOUS
  <2>. QED  BY <2>1, FS_Interval DEF PlacesOf
<1>. QED  BY <1>1, FS_Subset, FS_CardinalityType DEF Among

(* When an element is in the set, one element at least is.                  *)
LEMMA AmongSome ==
  ASSUME NEW X, NEW s \in Seq(X), NEW Y, NEW n \in DOMAIN s, s[n] \in Y
  PROVE  Among(s, Y) >= 1
<1>1. n \in PlacesOf(s, Y)
  BY DEF PlacesOf
<1>2. IsFiniteSet(PlacesOf(s, Y)) /\ Among(s, Y) \in Nat
  BY AmongIsNumber
<1>3. Among(s, Y) # 0
  BY <1>1, <1>2, FS_EmptySet DEF Among
<1>. QED  BY <1>2, <1>3

(* None of the elements of the empty sequence are.                          *)
LEMMA AmongNone ==
  ASSUME NEW Y
  PROVE  Among(<<>>, Y) = 0
<1>1. PlacesOf(<<>>, Y) = {}
  BY DEF PlacesOf
<1>. QED  BY <1>1, FS_EmptySet DEF Among

(* One element is or is not.                                                *)
LEMMA AmongOne ==
  ASSUME NEW x, NEW Y
  PROVE  Among(<<x>>, Y) = IF x \in Y THEN 1 ELSE 0
<1> DEFINE s == <<x>>
<1>1. DOMAIN s = {1} /\ s[1] = x
  OBVIOUS
<1>2. PlacesOf(s, Y) = IF x \in Y THEN {1} ELSE {}
  <2> HIDE DEF s
  <2>. QED  BY <1>1 DEF PlacesOf
<1>. QED  BY <1>2, FS_EmptySet, FS_Singleton DEF Among

(* Those of two lists, one behind the other.                               *)
LEMMA AmongJoined ==
  ASSUME NEW X, NEW a \in Seq(X), NEW b \in Seq(X), NEW Y
  PROVE  Among(a \o b, Y) = Among(a, Y) + Among(b, Y)
<1> DEFINE c == a \o b
           m == Len(a)
           A == PlacesOf(a, Y)
           B == PlacesOf(b, Y)
           T == {n + m : n \in B}
           shift == [n \in B |-> n + m]
<1>1. /\ DOMAIN a = 1..m /\ DOMAIN b = 1..Len(b)
      /\ m \in Nat /\ Len(b) \in Nat
      /\ DOMAIN c = 1..(m + Len(b))
      /\ \A n \in 1..m : c[n] = a[n]
      /\ \A n \in 1..Len(b) : c[n + m] = b[n]
  OBVIOUS
<1> HIDE DEF c, m
<1>2. PlacesOf(c, Y) = A \cup T
  <2>1. ASSUME NEW n \in PlacesOf(c, Y)
        PROVE  n \in A \cup T
    <3>1. n \in 1..(m + Len(b)) /\ c[n] \in Y
      BY <1>1 DEF PlacesOf
    <3>2. CASE n <= m
      <4>1. n \in 1..m
        BY <3>1, <3>2, <1>1
      <4>. QED  BY <4>1, <3>1, <1>1 DEF PlacesOf
    <3>3. CASE ~(n <= m)
      <4>1. n - m \in 1..Len(b) /\ (n - m) + m = n
        BY <3>1, <3>3, <1>1
      <4>2. b[n - m] \in Y
        BY <3>1, <4>1, <1>1
      <4>3. n - m \in B
        BY <4>1, <4>2, <1>1 DEF PlacesOf
      <4>. QED  BY <4>1, <4>3
    <3>. QED  BY <3>2, <3>3
  <2>2. ASSUME NEW n \in A
        PROVE  n \in PlacesOf(c, Y)
    BY <1>1 DEF PlacesOf
  <2>3. ASSUME NEW n \in B
        PROVE  n + m \in PlacesOf(c, Y)
    <3>1. n \in 1..Len(b) /\ b[n] \in Y
      BY <1>1 DEF PlacesOf
    <3>2. n + m \in 1..(m + Len(b)) /\ c[n + m] \in Y
      BY <3>1, <1>1
    <3>. QED  BY <3>2, <1>1 DEF PlacesOf
  <2> HIDE DEF A, B
  <2>. QED  BY <2>1, <2>2, <2>3
<1>3. A \cap T = {}
  <2>1. A \subseteq 1..m /\ B \subseteq 1..Len(b)
    BY <1>1 DEF PlacesOf
  <2> HIDE DEF A, B
  <2>. QED  BY <2>1, <1>1
<1>4. IsFiniteSet(A) /\ IsFiniteSet(B)
  BY AmongIsNumber
<1>5. IsFiniteSet(T) /\ Cardinality(T) = Cardinality(B)
  <2>1. B \subseteq Nat
    BY <1>1 DEF PlacesOf
  <2> HIDE DEF B
  <2>2. shift \in Bijection(B, T)
    <3>1. shift \in [B -> T]
      OBVIOUS
    <3>2. \A x, y \in B : shift[x] = shift[y] => x = y
      BY <2>1, <1>1
    <3>3. \A z \in T : \E x \in B : shift[x] = z
      OBVIOUS
    <3> HIDE DEF T, shift
    <3>. QED  BY <3>1, <3>2, <3>3 DEF Bijection, Injection, Surjection, IsInjective
  <2>3. ExistsBijection(B, T)
    BY <2>2 DEF ExistsBijection
  <2>. QED  BY <2>3, <1>4, FS_Bijection
<1>6. Cardinality(A) \in Nat /\ Cardinality(B) \in Nat
  BY <1>4, FS_CardinalityType
<1>7. Cardinality(A \cup T) = Cardinality(A) + Cardinality(T) - Cardinality({})
  BY <1>3, <1>4, <1>5, FS_Union
<1>8. Cardinality({}) = 0
  BY FS_EmptySet
<1> HIDE DEF A, B, T
<1>9. Cardinality(PlacesOf(c, Y)) = Cardinality(A) + Cardinality(B)
  BY <1>2, <1>5, <1>6, <1>7, <1>8
<1>. QED  BY <1>9 DEF Among, c, A, B

-----------------------------------------------------------------------------
(* Lists of lists, one behind the other.                                   *)

FlatTo(s, f, i) == IF i = 1 THEN s[i] ELSE f[i - 1] \o s[i]

Flattened(s, f, n) == f = [i \in 1..n |-> FlatTo(s, f, i)]

(* One of the sequences further.                                            *)
LEMMA FlatStep ==
  ASSUME NEW s, NEW n, NEW f, Flattened(s, f, n), NEW i \in 1..n
  PROVE  f[i] = IF i = 1 THEN s[i] ELSE f[i - 1] \o s[i]
<1>1. f[i] = FlatTo(s, f, i)
  BY DEF Flattened
<1>. QED  BY <1>1 DEF FlatTo

(* The function that joins the sequences one by one exists.                 *)
LEMMA FlatExists ==
  ASSUME NEW s, NEW m \in Nat
  PROVE  \E f : Flattened(s, f, m)
<1> DEFINE X == {n \in Nat : \E f : Flattened(s, f, n)}
<1>1. 0 \in X
  <2> DEFINE f == [i \in 1..0 |-> 0]
  <2>1. Flattened(s, f, 0)
    BY DEF Flattened
  <2>. QED  BY <2>1
<1>2. ASSUME NEW n \in Nat, n \in X
      PROVE  n + 1 \in X
  <2>1. PICK f : Flattened(s, f, n)
    BY <1>2
  <2> DEFINE top == IF n = 0 THEN s[1] ELSE f[n] \o s[n + 1]
             g == [i \in 1..(n + 1) |-> IF i <= n THEN f[i] ELSE top]
  <2>2. ASSUME NEW i \in 1..(n + 1)
        PROVE  g[i] = IF i = 1 THEN s[i] ELSE g[i - 1] \o s[i]
    <3>1. CASE i <= n
      <4>1. i \in 1..n /\ f[i] = IF i = 1 THEN s[i] ELSE f[i - 1] \o s[i]
        BY <3>1, <2>1, FlatStep
      <4>2. g[i] = f[i]
        BY <3>1
      <4>3. i # 1 => i - 1 \in 1..(n + 1) /\ g[i - 1] = f[i - 1]
        BY <3>1
      <4> HIDE DEF g
      <4>. QED  BY <4>1, <4>2, <4>3
    <3>2. CASE ~(i <= n)
      <4>1. i = n + 1 /\ g[i] = top
        BY <3>2
      <4>2. i = 1 <=> n = 0
        BY <4>1
      <4>3. n # 0 => i - 1 = n /\ n \in 1..(n + 1) /\ g[n] = f[n]
        BY <4>1
      <4> HIDE DEF g
      <4>. QED  BY <4>1, <4>2, <4>3
    <3>. QED  BY <3>1, <3>2
  <2>3. g = [i \in 1..(n + 1) |-> IF i = 1 THEN s[i] ELSE g[i - 1] \o s[i]]
    BY <2>2
  <2> HIDE DEF g
  <2>4. \E u : Flattened(s, u, n + 1)
    BY <2>3 DEF Flattened, FlatTo
  <2>. QED  BY <2>4
<1>3. Nat \subseteq X
  <2> HIDE DEF X
  <2>. QED  BY <1>1, <1>2, EveryNumber
<1>. QED  BY <1>3

(* FlattenSeq is the last value of that function.                           *)
LEMMA FlatIs ==
  ASSUME NEW X, NEW s \in Seq(Seq(X))
  PROVE  /\ s = <<>> => FlattenSeq(s) = <<>>
         /\ s # <<>> => \E f : Flattened(s, f, Len(s)) /\ FlattenSeq(s) = f[Len(s)]
<1>1. CASE s = <<>>
  <2>1. Len(s) = 0
    BY <1>1
  <2>. QED  BY <1>1, <2>1 DEF FlattenSeq
<1>2. CASE s # <<>>
  <2> DEFINE f == CHOOSE u : Flattened(s, u, Len(s))
  <2>1. Len(s) \in Nat /\ Len(s) # 0
    BY <1>2
  <2>2. Flattened(s, f, Len(s))
    BY <2>1, FlatExists
  <2>3. FlattenSeq(s) = f[Len(s)]
    BY <2>1, Zenon DEF FlattenSeq, Flattened, FlatTo
  <2> HIDE DEF f
  <2>. QED  BY <1>2, <2>2, <2>3
<1>. QED  BY <1>1, <1>2

(* The lists up to one place are lists of the same elements.               *)
LEMMA FlatTyped ==
  ASSUME NEW X, NEW s \in Seq(Seq(X)), NEW f, Flattened(s, f, Len(s))
  PROVE  \A n \in 1..Len(s) : f[n] \in Seq(X)
<1> DEFINE Y == {n \in Nat : n + 1 \in 1..Len(s) => f[n + 1] \in Seq(X)}
<1>1. \A i \in 1..Len(s) : /\ s[i] \in Seq(X)
                           /\ f[i] = IF i = 1 THEN s[i] ELSE f[i - 1] \o s[i]
  BY FlatStep
<1>2. Len(s) \in Nat
  OBVIOUS
<1>3. 0 \in Y
  BY <1>1
<1>4. ASSUME NEW n \in Nat, n \in Y
      PROVE  n + 1 \in Y
  <2>1. ASSUME n + 2 \in 1..Len(s)
        PROVE  f[n + 2] \in Seq(X)
    <3>1. n + 1 \in 1..Len(s) /\ (n + 2) - 1 = n + 1 /\ n + 2 # 1
      BY <2>1, <1>2
    <3>2. f[n + 1] \in Seq(X) /\ s[n + 2] \in Seq(X)
      BY <1>4, <3>1, <2>1, <1>1
    <3>3. f[n + 2] = f[n + 1] \o s[n + 2]
      BY <2>1, <3>1, <1>1
    <3>. QED  BY <3>2, <3>3
  <2>2. (n + 1) + 1 = n + 2
    OBVIOUS
  <2>. QED  BY <2>1, <2>2
<1>5. Nat \subseteq Y
  <2> HIDE DEF Y
  <2>. QED  BY <1>3, <1>4, EveryNumber
<1>6. ASSUME NEW n \in 1..Len(s)
      PROVE  f[n] \in Seq(X)
  <2>1. n - 1 \in Nat /\ (n - 1) + 1 = n
    BY <1>2
  <2>2. n - 1 \in Y
    BY <2>1, <1>5
  <2>. QED  BY <2>1, <2>2
<1>. QED  BY <1>6

(* FlattenSeq of one sequence.                                              *)
LEMMA FlatOne ==
  ASSUME NEW X, NEW m \in Seq(X)
  PROVE  FlattenSeq(<<m>>) = m
<1> DEFINE s == <<m>>
<1>1. s \in Seq(Seq(X)) /\ s # <<>> /\ Len(s) = 1 /\ s[1] = m
  OBVIOUS
<1> HIDE DEF s
<1>2. PICK f : Flattened(s, f, Len(s)) /\ FlattenSeq(s) = f[Len(s)]
  BY <1>1, FlatIs
<1>3. f[1] = s[1]
  BY <1>1, <1>2, FlatStep
<1>. QED  BY <1>1, <1>2, <1>3 DEF s

(* FlattenSeq is a sequence.                                                *)
LEMMA FlatType ==
  ASSUME NEW X, NEW s \in Seq(Seq(X))
  PROVE  FlattenSeq(s) \in Seq(X)
<1>1. CASE s = <<>>
  <2>1. FlattenSeq(s) = <<>>
    BY <1>1, FlatIs
  <2>. QED  BY <2>1
<1>2. CASE s # <<>>
  <2>1. PICK f : Flattened(s, f, Len(s)) /\ FlattenSeq(s) = f[Len(s)]
    BY <1>2, FlatIs
  <2>2. Len(s) \in 1..Len(s)
    BY <1>2
  <2>. QED  BY <2>1, <2>2, FlatTyped
<1>. QED  BY <1>1, <1>2

(* FlattenSeq of two that are joined.                                       *)
LEMMA FlatJoined ==
  ASSUME NEW X, NEW s \in Seq(Seq(X)), NEW t \in Seq(Seq(X))
  PROVE  FlattenSeq(s \o t) = FlattenSeq(s) \o FlattenSeq(t)
<1> DEFINE u == s \o t
           m == Len(s)
<1>1. /\ u \in Seq(Seq(X)) /\ Len(u) = m + Len(t) /\ m \in Nat /\ Len(t) \in Nat
      /\ \A n \in 1..m : u[n] = s[n]
      /\ \A n \in 1..Len(t) : u[m + n] = t[n]
  OBVIOUS
<1>2. CASE s = <<>>
  <2>1. FlattenSeq(s) = <<>> /\ FlattenSeq(t) \in Seq(X)
    BY <1>2, FlatIs, FlatType
  <2>2. u = t
    BY <1>2
  <2>. QED  BY <2>1, <2>2
<1>3. CASE t = <<>>
  <2>1. FlattenSeq(t) = <<>> /\ FlattenSeq(s) \in Seq(X)
    BY <1>3, FlatIs, FlatType
  <2>2. u = s
    BY <1>3
  <2>. QED  BY <2>1, <2>2
<1>4. CASE s # <<>> /\ t # <<>>
  <2>1. m >= 1 /\ Len(t) >= 1 /\ u # <<>>
    BY <1>4
  <2> HIDE DEF u, m
  <2>2. PICK f : Flattened(s, f, Len(s)) /\ FlattenSeq(s) = f[Len(s)]
    BY <1>4, FlatIs
  <2>3. PICK g : Flattened(t, g, Len(t)) /\ FlattenSeq(t) = g[Len(t)]
    BY <1>4, FlatIs
  <2>4. PICK h : Flattened(u, h, Len(u)) /\ FlattenSeq(u) = h[Len(u)]
    BY <1>1, <2>1, FlatIs
  <2>5. /\ \A n \in 1..m : f[n] \in Seq(X)
        /\ \A n \in 1..m : f[n] = IF n = 1 THEN s[n] ELSE f[n - 1] \o s[n]
    BY <2>2, FlatTyped, FlatStep DEF m
  <2>6. /\ \A n \in 1..Len(t) : g[n] \in Seq(X) /\ t[n] \in Seq(X)
        /\ \A n \in 1..Len(t) : g[n] = IF n = 1 THEN t[n] ELSE g[n - 1] \o t[n]
    <3>1. \A n \in 1..Len(t) : t[n] \in Seq(X)
      OBVIOUS
    <3>. QED  BY <2>3, <3>1, FlatTyped, FlatStep
  <2>7. \A n \in 1..(m + Len(t)) :
          h[n] = IF n = 1 THEN u[n] ELSE h[n - 1] \o u[n]
    BY <2>4, <1>1, FlatStep
  <2> DEFINE A == {n \in Nat : n + 1 \in 1..m => h[n + 1] = f[n + 1]}
             B == {n \in Nat : n + 1 \in 1..Len(t) =>
                                 h[m + (n + 1)] = f[m] \o g[n + 1]}
  <2>8. 0 \in A
    BY <2>1, <2>5, <2>7, <1>1
  <2>9. ASSUME NEW n \in Nat, n \in A
        PROVE  n + 1 \in A
    <3>1. ASSUME n + 2 \in 1..m
          PROVE  h[n + 2] = f[n + 2]
      <4>1. /\ n + 1 \in 1..m /\ (n + 2) - 1 = n + 1 /\ n + 2 # 1
            /\ n + 2 \in 1..(m + Len(t))
        BY <3>1, <1>1
      <4>2. h[n + 1] = f[n + 1] /\ u[n + 2] = s[n + 2]
        BY <2>9, <4>1, <3>1, <1>1
      <4>3. h[n + 2] = h[n + 1] \o u[n + 2]
        BY <4>1, <2>7
      <4>4. f[n + 2] = f[n + 1] \o s[n + 2]
        BY <3>1, <4>1, <2>5
      <4>. QED  BY <4>2, <4>3, <4>4
    <3>2. (n + 1) + 1 = n + 2
      OBVIOUS
    <3>. QED  BY <3>1, <3>2
  <2>10. Nat \subseteq A
    <3> HIDE DEF A
    <3>. QED  BY <2>8, <2>9, EveryNumber
  <2>11. h[m] = f[m] /\ m \in 1..m
    <3>1. m - 1 \in Nat /\ (m - 1) + 1 = m
      BY <1>1, <2>1
    <3>2. m - 1 \in A
      BY <3>1, <2>10
    <3>. QED  BY <3>1, <3>2, <2>1
  <2>12. 0 \in B
    <3>1. m + 1 \in 1..(m + Len(t)) /\ m + 1 # 1 /\ (m + 1) - 1 = m /\ 1 \in 1..Len(t)
      BY <1>1, <2>1
    <3>2. h[m + 1] = h[m] \o u[m + 1]
      BY <3>1, <2>7
    <3>3. u[m + 1] = t[1] /\ g[1] = t[1]
      BY <3>1, <1>1, <2>6
    <3>4. h[m + 1] = f[m] \o g[1] /\ 0 + 1 = 1
      BY <3>2, <3>3, <2>11
    <3>. QED  BY <3>4, Zenon
  <2>13. ASSUME NEW n \in Nat, n \in B
         PROVE  n + 1 \in B
    <3>1. ASSUME n + 2 \in 1..Len(t)
          PROVE  h[m + (n + 2)] = f[m] \o g[n + 2]
      <4>1. /\ n + 1 \in 1..Len(t) /\ (n + 2) - 1 = n + 1 /\ n + 2 # 1
            /\ m + (n + 2) \in 1..(m + Len(t)) /\ m + (n + 2) # 1
            /\ (m + (n + 2)) - 1 = m + (n + 1)
        BY <3>1, <1>1
      <4>2. h[m + (n + 1)] = f[m] \o g[n + 1] /\ u[m + (n + 2)] = t[n + 2]
        BY <2>13, <4>1, <3>1, <1>1
      <4>3. h[m + (n + 2)] = h[m + (n + 1)] \o u[m + (n + 2)]
        BY <4>1, <2>7
      <4>4. g[n + 2] = g[n + 1] \o t[n + 2]
        BY <3>1, <4>1, <2>6
      <4>5. f[m] \in Seq(X) /\ g[n + 1] \in Seq(X) /\ t[n + 2] \in Seq(X)
        BY <2>11, <2>5, <4>1, <3>1, <2>6
      <4>6. (f[m] \o g[n + 1]) \o t[n + 2] = f[m] \o (g[n + 1] \o t[n + 2])
        <5> DEFINE x == f[m]
                   y == g[n + 1]
                   z == t[n + 2]
        <5>1. x \in Seq(X) /\ y \in Seq(X) /\ z \in Seq(X)
          BY <4>5
        <5> HIDE DEF x, y, z
        <5>2. (x \o y) \o z = x \o (y \o z)
          BY <5>1, ConcatAssociative
        <5>. QED  BY <5>2 DEF x, y, z
      <4>. QED  BY <4>2, <4>3, <4>4, <4>6
    <3>2. (n + 1) + 1 = n + 2 /\ n + 1 \in Nat
      OBVIOUS
    <3>. QED  BY <3>1, <3>2, Zenon
  <2>14. Nat \subseteq B
    <3> HIDE DEF B
    <3>. QED  BY <2>12, <2>13, EveryNumber
  <2>15. h[m + Len(t)] = f[m] \o g[Len(t)]
    <3>1. Len(t) - 1 \in Nat /\ (Len(t) - 1) + 1 = Len(t) /\ Len(t) \in 1..Len(t)
      BY <1>1, <2>1
    <3>2. Len(t) - 1 \in B
      BY <3>1, <2>14
    <3>. QED  BY <3>1, <3>2
  <2>. QED  BY <2>2, <2>3, <2>4, <2>15, <1>1 DEF u, m
<1>. QED  BY <1>2, <1>3, <1>4

(* Where the elements of t come from, when t is the first m sequences of   *)
(* s, one behind the other: t[n] is element b[n] of s[a[n]].                *)
Spread(s, m, t, a, b) ==
  /\ a \in [1..Len(t) -> 1..m] /\ b \in [1..Len(t) -> Nat]
  /\ \A n \in 1..Len(t) : b[n] \in 1..Len(s[a[n]]) /\ t[n] = s[a[n]][b[n]]
  /\ \A n \in 1..Len(t) : \A j \in 1..(n - 1) :
       a[j] < a[n] \/ (a[j] = a[n] /\ b[j] < b[n])
  /\ \A i \in 1..m : \A c \in 1..Len(s[i]) :
       \E n \in 1..Len(t) : a[n] = i /\ b[n] = c

(* The elements of one sequence more.                                       *)
LEMMA SpreadStep ==
  ASSUME NEW X, NEW s, NEW m \in Nat, NEW t \in Seq(X), NEW a, NEW b,
         Spread(s, m, t, a, b), s[m + 1] \in Seq(X)
  PROVE  \E c, d : Spread(s, m + 1, t \o s[m + 1], c, d)
<1> DEFINE r == s[m + 1]
           u == t \o r
           p == Len(t)
           c == [n \in 1..Len(u) |-> IF n <= p THEN a[n] ELSE m + 1]
           d == [n \in 1..Len(u) |-> IF n <= p THEN b[n] ELSE n - p]
<1>1. /\ p \in Nat /\ Len(r) \in Nat /\ Len(u) = p + Len(r)
      /\ \A n \in 1..p : u[n] = t[n]
      /\ \A n \in 1..Len(r) : u[p + n] = r[n]
  OBVIOUS
<1>2. \A n \in 1..p : /\ n \in 1..Len(u) /\ c[n] = a[n] /\ d[n] = b[n]
                      /\ a[n] \in 1..m /\ b[n] \in Nat
  BY <1>1 DEF Spread
<1>3. ASSUME NEW n \in 1..Len(u), ~(n <= p)
      PROVE  c[n] = m + 1 /\ d[n] = n - p /\ n - p \in 1..Len(r) /\ u[n] = r[n - p]
  <2>1. n - p \in 1..Len(r) /\ p + (n - p) = n
    BY <1>1, <1>3
  <2>. QED  BY <2>1, <1>1, <1>3
<1>4. ASSUME NEW n \in 1..Len(u)
      PROVE  /\ c[n] \in 1..(m + 1) /\ d[n] \in Nat
             /\ d[n] \in 1..Len(s[c[n]]) /\ u[n] = s[c[n]][d[n]]
  <2> HIDE DEF c, d, u
  <2>1. CASE n <= p
    <3>1. n \in 1..p
      BY <2>1, <1>1
    <3>2. b[n] \in 1..Len(s[a[n]]) /\ t[n] = s[a[n]][b[n]]
      BY <3>1 DEF Spread
    <3>3. c[n] = a[n] /\ d[n] = b[n] /\ a[n] \in 1..m /\ b[n] \in Nat /\ u[n] = t[n]
      BY <3>1, <1>1, <1>2
    <3>4. a[n] \in 1..(m + 1)
      BY <3>3
    <3> HIDE DEF p, r
    <3>. QED  BY <3>2, <3>3, <3>4
  <2>2. CASE ~(n <= p)
    <3>1. c[n] = m + 1 /\ d[n] = n - p /\ n - p \in 1..Len(r) /\ u[n] = r[n - p]
      BY <2>2, <1>3
    <3>2. n - p \in Nat /\ m + 1 \in 1..(m + 1)
      BY <3>1, <1>1
    <3>. QED  BY <3>1, <3>2
  <2>. QED  BY <2>1, <2>2
<1>5. ASSUME NEW n \in 1..Len(u), NEW j \in 1..(n - 1)
      PROVE  c[j] < c[n] \/ (c[j] = c[n] /\ d[j] < d[n])
  <2> HIDE DEF c, d, u
  <2>1. CASE n <= p
    <3>1. n \in 1..p /\ j \in 1..p
      BY <2>1, <1>1
    <3>2. a[j] < a[n] \/ (a[j] = a[n] /\ b[j] < b[n])
      BY <3>1 DEF Spread
    <3>. QED  BY <3>1, <3>2, <1>2
  <2>2. CASE ~(n <= p) /\ j <= p
    <3>1. j \in 1..p
      BY <2>2, <1>1
    <3>2. c[j] \in 1..m /\ c[n] = m + 1
      BY <3>1, <1>2, <2>2, <1>3
    <3>. QED  BY <3>2
  <2>3. CASE ~(n <= p) /\ ~(j <= p)
    <3>1. j \in 1..Len(u)
      BY <1>1
    <3>2. c[j] = m + 1 /\ d[j] = j - p /\ c[n] = m + 1 /\ d[n] = n - p
      BY <3>1, <2>3, <1>3
    <3>3. j - p < n - p
      BY <1>1
    <3>. QED  BY <3>2, <3>3
  <2>. QED  BY <2>1, <2>2, <2>3
<1>6. ASSUME NEW i \in 1..(m + 1), NEW x \in 1..Len(s[i])
      PROVE  \E n \in 1..Len(u) : c[n] = i /\ d[n] = x
  <2> HIDE DEF c, d, u
  <2>1. CASE i = m + 1
    <3>1. x \in 1..Len(r) /\ x \in Int
      BY <2>1
    <3>2. p + x \in 1..Len(u) /\ ~(p + x <= p) /\ (p + x) - p = x
      BY <3>1, <1>1
    <3>3. c[p + x] = m + 1 /\ d[p + x] = (p + x) - p
      BY <3>2, <1>3
    <3> HIDE DEF p, r
    <3>. QED  BY <3>2, <3>3, <2>1
  <2>2. CASE i # m + 1
    <3>1. i \in 1..m
      BY <2>2
    <3>2. PICK n \in 1..p : a[n] = i /\ b[n] = x
      BY <3>1 DEF Spread
    <3>. QED  BY <3>2, <1>2
  <2>. QED  BY <2>1, <2>2
<1>7. c \in [1..Len(u) -> 1..(m + 1)] /\ d \in [1..Len(u) -> Nat]
  <2>1. DOMAIN c = 1..Len(u) /\ DOMAIN d = 1..Len(u)
    OBVIOUS
  <2>2. c = [n \in 1..Len(u) |-> c[n]] /\ d = [n \in 1..Len(u) |-> d[n]]
    OBVIOUS
  <2> HIDE DEF c, d
  <2>. QED  BY <1>4, <2>2
<1> HIDE DEF c, d, u
<1>8. Spread(s, m + 1, u, c, d)
  BY <1>4, <1>5, <1>6, <1>7 DEF Spread
<1>. QED  BY <1>8 DEF u

(* What FlattenSeq puts where.                                              *)
LEMMA FlatSpread ==
  ASSUME NEW X, NEW s \in Seq(Seq(X))
  PROVE  /\ FlattenSeq(s) \in Seq(X)
         /\ \E a, b : Spread(s, Len(s), FlattenSeq(s), a, b)
<1>1. Spread(s, 0, <<>>, <<>>, <<>>)
  BY DEF Spread
<1>2. Len(s) \in Nat /\ \A i \in 1..Len(s) : s[i] \in Seq(X)
  OBVIOUS
<1>3. CASE s = <<>>
  <2>1. Len(s) = 0 /\ FlattenSeq(s) = <<>>
    BY <1>3, FlatIs
  <2>. QED  BY <2>1, <1>1
<1>4. CASE s # <<>>
  <2>1. Len(s) # 0
    BY <1>4
  <2>2. PICK f : Flattened(s, f, Len(s)) /\ FlattenSeq(s) = f[Len(s)]
    BY <1>4, FlatIs
  <2>3. \A n \in 1..Len(s) : f[n] \in Seq(X)
    BY <2>2, FlatTyped
  <2> DEFINE Y == {n \in Nat : n + 1 \in 1..Len(s) =>
                     \E a, b : Spread(s, n + 1, f[n + 1], a, b)}
  <2>4. 0 \in Y
    <3>1. 1 \in 1..Len(s)
      BY <2>1, <1>2
    <3>2. s[1] \in Seq(X) /\ f[1] = s[1]
      BY <3>1, <1>2, <2>2, FlatStep
    <3>3. <<>> \o s[1] = s[1]
      BY <3>2
    <3>4. s[0 + 1] \in Seq(X) /\ 0 \in Nat /\ <<>> \in Seq(X)
      BY <3>2
    <3>5. \E a, b : Spread(s, 0 + 1, <<>> \o s[0 + 1], a, b)
      BY <3>4, <1>1, SpreadStep, Zenon
    <3>. QED  BY <3>2, <3>3, <3>5
  <2>5. ASSUME NEW n \in Nat, n \in Y
        PROVE  n + 1 \in Y
    <3>1. SUFFICES ASSUME (n + 1) + 1 \in 1..Len(s)
                   PROVE  \E a, b : Spread(s, (n + 1) + 1, f[(n + 1) + 1], a, b)
      OBVIOUS
    <3>2. n + 1 \in 1..Len(s) /\ n + 1 \in Nat /\ ((n + 1) + 1) - 1 = n + 1
          /\ (n + 1) + 1 # 1
      BY <3>1, <1>2
    <3>3. PICK a, b : Spread(s, n + 1, f[n + 1], a, b)
      BY <2>5, <3>2
    <3>4. f[(n + 1) + 1] = f[n + 1] \o s[(n + 1) + 1]
      <4>1. \A i \in 1..Len(s) : f[i] = IF i = 1 THEN s[i] ELSE f[i - 1] \o s[i]
        BY <2>2, FlatStep
      <4>. QED  BY <4>1, <3>1, <3>2
    <3>5. f[n + 1] \in Seq(X) /\ s[(n + 1) + 1] \in Seq(X)
      BY <3>1, <3>2, <2>3, <1>2
    <3>6. \E c, d : Spread(s, (n + 1) + 1, f[n + 1] \o s[(n + 1) + 1], c, d)
      BY <3>2, <3>3, <3>5, SpreadStep, Zenon
    <3>. QED  BY <3>4, <3>6, Zenon
  <2>6. Nat \subseteq Y
    <3> HIDE DEF Y
    <3>. QED  BY <2>4, <2>5, EveryNumber
  <2>7. Len(s) - 1 \in Nat /\ (Len(s) - 1) + 1 = Len(s) /\ Len(s) \in 1..Len(s)
    BY <2>1, <1>2
  <2>8. Len(s) - 1 \in Y
    BY <2>6, <2>7
  <2>9. \E a, b : Spread(s, Len(s), f[Len(s)], a, b)
    BY <2>7, <2>8
  <2>. QED  BY <2>2, <2>3, <2>7, <2>9, Zenon
<1>. QED  BY <1>3, <1>4

(* Three lists of one element at most, joined: of[n] is the one that       *)
(* element n comes from.                                                    *)
Parted(s, w, of) ==
  /\ of \in [1..Len(w) -> 1..3]
  /\ \A n \in 1..Len(w) : s[of[n]] = <<w[n]>>
  /\ \A n \in 1..Len(w) : \A j \in 1..(n - 1) : of[j] < of[n]
  /\ \A i \in 1..3 : s[i] # <<>> => \E n \in 1..Len(w) : of[n] = i

LEMMA PartedExists ==
  ASSUME NEW X, NEW s, \A i \in 1..3 : s[i] \in Seq(X) /\ Len(s[i]) <= 1
  PROVE  /\ s[1] \o s[2] \o s[3] \in Seq(X)
         /\ \E of : Parted(s, s[1] \o s[2] \o s[3], of)
<1> DEFINE x == s[1]
           y == s[2]
           z == s[3]
           w == x \o y \o z
<1>1. s[1] = x /\ s[2] = y /\ s[3] = z
  OBVIOUS
<1>2. /\ \A i \in 1..3 : s[i] \in Seq(X) /\ Len(s[i]) \in Nat /\ Len(s[i]) <= 1
      /\ x \in Seq(X) /\ y \in Seq(X) /\ z \in Seq(X)
  <2>1. 1 \in 1..3 /\ 2 \in 1..3 /\ 3 \in 1..3
    OBVIOUS
  <2>. QED  BY <2>1
<1> HIDE DEF x, y, z
<1>3. Spread(s, 0, <<>>, <<>>, <<>>)
  BY DEF Spread
<1>4. \E a, b : Spread(s, 1, x, a, b)
  <2>1. <<>> \o x = x /\ <<>> \in Seq(X) /\ 0 \in Nat /\ 0 + 1 = 1
    BY <1>2
  <2>2. \E a, b : Spread(s, 0 + 1, <<>> \o s[0 + 1], a, b)
    BY <2>1, <1>1, <1>2, <1>3, SpreadStep, Zenon
  <2>. QED  BY <2>1, <2>2, <1>1, Zenon
<1>5. \E a, b : Spread(s, 2, x \o y, a, b)
  <2>1. 1 \in Nat /\ 1 + 1 = 2
    OBVIOUS
  <2>2. \E a, b : Spread(s, 1 + 1, x \o s[1 + 1], a, b)
    BY <2>1, <1>1, <1>2, <1>4, SpreadStep, Zenon
  <2>. QED  BY <2>1, <2>2, <1>1, Zenon
<1>6. x \o y \in Seq(X) /\ w \in Seq(X)
  BY <1>2
<1>7. PICK a, b : Spread(s, 3, w, a, b)
  <2>1. 2 \in Nat /\ 2 + 1 = 3
    OBVIOUS
  <2>2. \E a, b : Spread(s, 2 + 1, (x \o y) \o s[2 + 1], a, b)
    BY <2>1, <1>1, <1>2, <1>5, <1>6, SpreadStep, Zenon
  <2>. QED  BY <2>1, <2>2, <1>1, Zenon
<1> HIDE DEF w
<1>8. Len(w) \in Nat
  BY <1>6
<1>9. \A n \in 1..Len(w) : a[n] \in 1..3 /\ b[n] \in 1..Len(s[a[n]])
                           /\ w[n] = s[a[n]][b[n]]
  BY <1>7 DEF Spread
<1>10. ASSUME NEW n \in 1..Len(w)
       PROVE  b[n] = 1 /\ Len(s[a[n]]) = 1
  <2>1. a[n] \in 1..3 /\ b[n] \in 1..Len(s[a[n]])
    BY <1>9
  <2>2. Len(s[a[n]]) \in Nat /\ Len(s[a[n]]) <= 1
    BY <2>1, <1>2
  <2>3. ASSUME NEW m \in Nat, m <= 1, NEW v \in 1..m
        PROVE  v = 1 /\ m = 1
    BY <2>3
  <2>. QED  BY <2>1, <2>2, <2>3, Zenon
<1>11. ASSUME NEW n \in 1..Len(w)
       PROVE  s[a[n]] = <<w[n]>>
  <2>1. ASSUME NEW v \in Seq(X), Len(v) = 1
        PROVE  v = <<v[1]>>
    BY <2>1
  <2>2. s[a[n]] \in Seq(X) /\ Len(s[a[n]]) = 1 /\ w[n] = s[a[n]][1]
    BY <1>9, <1>10, <1>2
  <2>. QED  BY <2>1, <2>2, Zenon
<1>12. \A n \in 1..Len(w) : \A j \in 1..(n - 1) : a[j] < a[n]
  <2>1. \A n \in 1..Len(w) : \A j \in 1..(n - 1) : j \in 1..Len(w)
    BY <1>8
  <2>2. \A n \in 1..Len(w) : \A j \in 1..(n - 1) :
          a[j] < a[n] \/ (a[j] = a[n] /\ b[j] < b[n])
    BY <1>7 DEF Spread
  <2>. QED  BY <2>1, <2>2, <1>10
<1>13. ASSUME NEW i \in 1..3, s[i] # <<>>
       PROVE  \E n \in 1..Len(w) : a[n] = i
  <2>1. 1 \in 1..Len(s[i])
    BY <1>13, <1>2
  <2>. QED  BY <2>1, <1>7 DEF Spread
<1>14. a \in [1..Len(w) -> 1..3]
  BY <1>7 DEF Spread
<1>15. Parted(s, w, a)
  BY <1>11, <1>12, <1>13, <1>14, Zenon DEF Parted
<1>. QED  BY <1>6, <1>15, Zenon DEF w, x, y, z

(* The same for many times three lists: element n comes from list of[n] of *)
(* the three of at[n].                                                      *)
Sourced(parts, m, t, at, of) ==
  /\ at \in [1..Len(t) -> 1..m] /\ of \in [1..Len(t) -> 1..3]
  /\ \A n \in 1..Len(t) : parts[at[n]][of[n]] = <<t[n]>>
  /\ \A n \in 1..Len(t) : \A j \in 1..(n - 1) :
       at[j] < at[n] \/ (at[j] = at[n] /\ of[j] < of[n])
  /\ \A i \in 1..m : \A c \in 1..3 :
       parts[i][c] # <<>> => \E n \in 1..Len(t) : at[n] = i /\ of[n] = c

LEMMA FlatSourced ==
  ASSUME NEW X, NEW m \in Nat, NEW parts,
         \A i \in 1..m : \A c \in 1..3 :
           parts[i][c] \in Seq(X) /\ Len(parts[i][c]) <= 1,
         NEW s, s = [i \in 1..m |-> parts[i][1] \o parts[i][2] \o parts[i][3]]
  PROVE  /\ FlattenSeq(s) \in Seq(X)
         /\ \E at, of : Sourced(parts, m, FlattenSeq(s), at, of)
<1> DEFINE t == FlattenSeq(s)
           from(i) == CHOOSE of : Parted(parts[i], s[i], of)
<1>1. ASSUME NEW i \in 1..m
      PROVE  s[i] \in Seq(X) /\ Parted(parts[i], s[i], from(i))
  <2>1. s[i] = parts[i][1] \o parts[i][2] \o parts[i][3]
    OBVIOUS
  <2>2. \A c \in 1..3 : parts[i][c] \in Seq(X) /\ Len(parts[i][c]) <= 1
    OBVIOUS
  <2>3. /\ parts[i][1] \o parts[i][2] \o parts[i][3] \in Seq(X)
        /\ \E of : Parted(parts[i], parts[i][1] \o parts[i][2] \o parts[i][3], of)
    BY <2>2, PartedExists, Zenon
  <2>4. s[i] \in Seq(X) /\ \E of : Parted(parts[i], s[i], of)
    BY <2>1, <2>3, Zenon
  <2>. QED  BY <2>4, Zenon
<1>2. s \in Seq(Seq(X)) /\ Len(s) = m
  <2>1. \A i \in 1..m : s[i] \in Seq(X)
    BY <1>1
  <2>. QED  BY <2>1
<1>3. t \in Seq(X) /\ \E a, b : Spread(s, m, t, a, b)
  BY <1>2, FlatSpread
<1> HIDE DEF t, from
<1>4. PICK a, b : Spread(s, m, t, a, b)
  BY <1>3
<1>5. Len(t) \in Nat
  BY <1>3
<1>6. /\ a \in [1..Len(t) -> 1..m]
      /\ \A n \in 1..Len(t) : b[n] \in 1..Len(s[a[n]]) /\ t[n] = s[a[n]][b[n]]
      /\ \A n \in 1..Len(t) : \A j \in 1..(n - 1) :
           a[j] < a[n] \/ (a[j] = a[n] /\ b[j] < b[n])
      /\ \A i \in 1..m : \A c \in 1..Len(s[i]) :
           \E n \in 1..Len(t) : a[n] = i /\ b[n] = c
  BY <1>4 DEF Spread
<1> DEFINE of == [n \in 1..Len(t) |-> from(a[n])[b[n]]]
<1>7. ASSUME NEW n \in 1..Len(t)
      PROVE  /\ of[n] = from(a[n])[b[n]] /\ of[n] \in 1..3
             /\ parts[a[n]][of[n]] = <<t[n]>>
  <2>1. a[n] \in 1..m /\ b[n] \in 1..Len(s[a[n]]) /\ t[n] = s[a[n]][b[n]]
    BY <1>6
  <2>2. of[n] = from(a[n])[b[n]]
    OBVIOUS
  <2> HIDE DEF of
  <2>3. Parted(parts[a[n]], s[a[n]], from(a[n]))
    BY <2>1, <1>1
  <2>. QED  BY <2>1, <2>2, <2>3 DEF Parted
<1>8. of \in [1..Len(t) -> 1..3]
  BY <1>7
<1> HIDE DEF of
<1>9. ASSUME NEW n \in 1..Len(t), NEW j \in 1..(n - 1)
      PROVE  a[j] < a[n] \/ (a[j] = a[n] /\ of[j] < of[n])
  <2>1. a[j] < a[n] \/ (a[j] = a[n] /\ b[j] < b[n])
    BY <1>6
  <2>2. SUFFICES ASSUME a[j] = a[n], b[j] < b[n]
                 PROVE  of[j] < of[n]
    BY <2>1
  <2>3. j \in 1..Len(t)
    BY <1>5
  <2>4. of[j] = from(a[n])[b[j]] /\ of[n] = from(a[n])[b[n]]
    BY <2>2, <2>3, <1>7
  <2>5. a[n] \in 1..m /\ b[n] \in 1..Len(s[a[n]]) /\ b[j] \in 1..Len(s[a[n]])
    BY <1>6, <2>2, <2>3
  <2>6. Parted(parts[a[n]], s[a[n]], from(a[n]))
    BY <2>5, <1>1
  <2>7. b[j] \in 1..(b[n] - 1)
    <3>1. b[n] \in Int /\ b[j] \in Int /\ b[j] >= 1
      BY <2>5
    <3>. QED  BY <3>1, <2>2
  <2>8. from(a[n])[b[j]] < from(a[n])[b[n]]
    BY <2>5, <2>6, <2>7 DEF Parted
  <2>. QED  BY <2>4, <2>8
<1>10. ASSUME NEW i \in 1..m, NEW c \in 1..3, parts[i][c] # <<>>
       PROVE  \E n \in 1..Len(t) : a[n] = i /\ of[n] = c
  <2>1. PICK x \in 1..Len(s[i]) : from(i)[x] = c
    BY <1>1, <1>10 DEF Parted
  <2>2. PICK n \in 1..Len(t) : a[n] = i /\ b[n] = x
    <3>1. x \in 1..Len(s[i]) => \E n \in 1..Len(t) : a[n] = i /\ b[n] = x
      BY <1>6, ZenonT(60)
    <3>. QED  BY <2>1, <3>1, Zenon
  <2>. QED  BY <2>1, <2>2, <1>7
<1>11. Sourced(parts, m, t, a, of)
  BY <1>6, <1>7, <1>8, <1>9, <1>10 DEF Sourced
<1>. QED  BY <1>3, <1>11 DEF t

=============================================================================
