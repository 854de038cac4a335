---------------------------- MODULE LockmgrProofs ----------------------------
(***************************************************************************)
(* Proofs about the lock manager, for any finite set of callers and any    *)
(* choice of requests, flags and sleep errors.                             *)
(***************************************************************************)
EXTENDS Lockmgr, FiniteSetTheorems, TLAPS

-----------------------------------------------------------------------------
(* Counting the waiters and the granted shares.                            *)

(* No waiter is left when the count is zero. *)
LEMMA WaitersZero ==
  Cardinality(Waiters) = 0 <=> \A p \in Proc : pc[p] \notin AcquireStages
<1>1. IsFiniteSet(Waiters)
  BY ProcAssumption, FS_Subset DEF Waiters
<1>2. Cardinality(Waiters) = 0 <=> Waiters = {}
  BY <1>1, FS_EmptySet
<1>. QED  BY <1>2 DEF Waiters

(* The shares held by any callers are a finite set. *)
LEMMA HeldFinite ==
  ASSUME NEW s \in [Proc -> Nat]
  PROVE  IsFiniteSet(Held(s))
<1> DEFINE Own(p) == {p} \X (1 .. s[p])
           T == {Own(p) : p \in Proc}
           f == [p \in Proc |-> Own(p)]
<1>1. f \in Surjection(Proc, T)
  BY DEF Surjection
<1>2. IsFiniteSet(T)
  <2> HIDE DEF f, T
  <2>. QED  BY <1>1, ProcAssumption, FS_Surjection
<1>3. ASSUME NEW p \in Proc
      PROVE  IsFiniteSet(Own(p))
  <2>1. IsFiniteSet(1 .. s[p])
    BY FS_Interval
  <2>2. IsFiniteSet({p})
    BY FS_Singleton
  <2>. QED  BY <2>1, <2>2, FS_Product
<1>4. \A X \in T : IsFiniteSet(X)
  BY <1>3
<1>5. IsFiniteSet(UNION T)
  <2> HIDE DEF T
  <2>. QED  BY <1>2, <1>4, FS_UNION
<1>. QED  BY <1>5 DEF Held

(* Changing what one caller holds changes the number of shares by it. *)
LEMMA HeldCount ==
  ASSUME NEW s \in [Proc -> Nat], NEW p \in Proc, NEW n \in Nat
  PROVE  /\ Cardinality(Held(s)) \in Nat
         /\ s[p] <= Cardinality(Held(s))
         /\ Cardinality(Held([s EXCEPT ![p] = n])) =
              Cardinality(Held(s)) - s[p] + n
<1> DEFINE rest == Held([s EXCEPT ![p] = 0])
           own(k) == {p} \X (1 .. k)
<1>1. ASSUME NEW k \in Nat
      PROVE  /\ Held([s EXCEPT ![p] = k]) = rest \cup own(k)
             /\ rest \cap own(k) = {}
  <2> DEFINE t == [s EXCEPT ![p] = k]
             z == [s EXCEPT ![p] = 0]
  <2>1. \A r \in Proc \ {p} : t[r] = s[r] /\ z[r] = s[r]
    OBVIOUS
  <2>2. t[p] = k /\ z[p] = 0
    OBVIOUS
  <2>3. 1 .. 0 = {}
    OBVIOUS
  <2> HIDE DEF t, z
  <2>4. Held(t) = Held(z) \cup own(k)
    BY <2>1, <2>2, <2>3 DEF Held
  <2>5. Held(z) \cap own(k) = {}
    BY <2>1, <2>2, <2>3 DEF Held
  <2>. QED  BY <2>4, <2>5 DEF t, z
<1>2. ASSUME NEW k \in Nat
      PROVE  IsFiniteSet(own(k)) /\ Cardinality(own(k)) = k
  <2>1. IsFiniteSet(1 .. k) /\ Cardinality(1 .. k) = k
    BY FS_Interval
  <2>2. IsFiniteSet({p}) /\ Cardinality({p}) = 1
    BY FS_Singleton
  <2>3. /\ IsFiniteSet({p} \X (1 .. k))
        /\ Cardinality({p} \X (1 .. k)) =
             Cardinality({p}) * Cardinality(1 .. k)
    BY <2>1, <2>2, FS_Product
  <2>4. Cardinality({p}) * Cardinality(1 .. k) = k
    BY <2>1, <2>2
  <2>. QED  BY <2>3, <2>4
<1>3. IsFiniteSet(rest) /\ Cardinality(rest) \in Nat
  BY HeldFinite, FS_CardinalityType
<1>4. ASSUME NEW k \in Nat
      PROVE  Cardinality(Held([s EXCEPT ![p] = k])) = Cardinality(rest) + k
  <2> DEFINE O == own(k)
  <2>1. IsFiniteSet(O) /\ Cardinality(O) = k
    BY <1>2
  <2>2. Held([s EXCEPT ![p] = k]) = rest \cup O /\ rest \cap O = {}
    BY <1>1
  <2> HIDE DEF rest, O
  <2>3. Cardinality(rest \cup O) =
          Cardinality(rest) + Cardinality(O) - Cardinality(rest \cap O)
    BY <2>1, <1>3, FS_Union
  <2>4. Cardinality(rest \cap O) = 0
    BY <2>2, FS_EmptySet
  <2>5. Cardinality(rest \cup O) = Cardinality(rest) + k
    BY <1>3, <2>1, <2>3, <2>4
  <2>. QED  BY <2>2, <2>5
<1>5. [s EXCEPT ![p] = s[p]] = s
  OBVIOUS
<1>6. Cardinality(Held(s)) = Cardinality(rest) + s[p]
  BY <1>4, <1>5
<1>7. Cardinality(Held([s EXCEPT ![p] = n])) = Cardinality(rest) + n
  BY <1>4
<1>8. s[p] \in Nat
  OBVIOUS
<1> HIDE DEF rest
<1>. QED  BY <1>3, <1>6, <1>7, <1>8

-----------------------------------------------------------------------------
(* The lock without p's place in it. Between the entry of lockmgr(), or    *)
(* the return of its tsleep(), and its next sleep or return, the running   *)
(* process p is counted by no counter and announced by no flag: the lock   *)
(* record l and the grants s and e agree with the other processes' places. *)

Stage(p, stage) == \E r \in Proc \ {p} : pc[r] = stage

Around(p, l, s, e) ==
  /\ l \in LockRecord
  /\ s \in [Proc -> Nat]
  /\ e \in [Proc -> Nat]
  /\ l.waitcount = Cardinality(Waiters \ {p})
  /\ l.sharecount = Cardinality(Held(s))
  /\ \A r \in Proc : e[r] = IF l.lockholder = r THEN l.exclusivecount ELSE 0
  /\ l.exclusivecount = 0 <=> l.lockholder = NoProc
  /\ "HAVE_EXCL" \in l.flags <=> l.exclusivecount # 0
  /\ "WANT_UPGRADE" \in l.flags <=> Stage(p, "upgrade")
  /\ "WANT_EXCL" \in l.flags <=> Stage(p, "excl2")
  /\ l.exclusivecount # 0 =>
       l.sharecount = 0 /\ "WANT_UPGRADE" \notin l.flags
  /\ \A r \in Proc \ {p} : pc[r] # "idle" => s[r] = 0 /\ e[r] = 0
  /\ l.flags \cap {"DRAINING", "DRAINED"} # {} =>
       l.sharecount = 0 /\ \A r \in Proc \ {p} : pc[r] = "idle"
  /\ "DRAINING" \in l.flags => l.exclusivecount = 1 /\ "DRAINED" \notin l.flags
  /\ "DRAINED" \in l.flags => l.exclusivecount = 0

(* What LockInv says of the processes alone: nobody else is in p's place   *)
(* in a queue of one, and who sleeps or has failed is in a request.        *)
Placed(p, q) ==
  /\ pc \in [Proc -> Stages \cup {"idle"}]
  /\ ext \in [Proc -> SUBSET ExtFlags]
  /\ q \subseteq asleep
  /\ p \notin q
  /\ asleep \subseteq Proc /\ failed \subseteq Proc /\ panicked \in BOOLEAN
  /\ \A r, t \in Proc \ {p} :
       pc[r] = pc[t] /\ pc[r] \in {"upgrade", "excl2", "drain"} => r = t
  /\ \A r \in asleep \cup failed : pc[r] # "idle"

(* The flag that announces a process waiting at a stage. *)
StageFlag(stage) == CASE stage = "upgrade" -> {"WANT_UPGRADE"}
                      [] stage = "excl2" -> {"WANT_EXCL"}
                      [] OTHER -> {}

(* The waiters other than p. *)
LEMMA OtherWaiters ==
  ASSUME NEW p \in Proc
  PROVE  /\ IsFiniteSet(Waiters)
         /\ Cardinality(Waiters \ {p}) \in Nat
         /\ Cardinality(Waiters) = Cardinality(Waiters \ {p}) +
              (IF pc[p] \in AcquireStages THEN 1 ELSE 0)
<1>1. IsFiniteSet(Waiters)
  BY ProcAssumption, FS_Subset DEF Waiters
<1>2. IsFiniteSet(Waiters \ {p})
  BY <1>1, FS_Subset
<1>3. p \in Waiters <=> pc[p] \in AcquireStages
  BY DEF Waiters
<1>4. Cardinality(Waiters) \in Nat /\ Cardinality(Waiters \ {p}) \in Nat
  BY <1>1, <1>2, FS_CardinalityType
<1>5. Cardinality(Waiters \ {p}) =
        IF p \in Waiters THEN Cardinality(Waiters) - 1 ELSE Cardinality(Waiters)
  BY <1>1, FS_RemoveElement
<1>. QED  BY <1>1, <1>3, <1>4, <1>5

(* A process that enters lockmgr(), or returns from its sleep as drainer,  *)
(* is counted nowhere.                                                     *)
LEMMA Entered ==
  ASSUME LockInv, NEW p \in Proc, pc[p] \in {"idle", "drain"}
  PROVE  Around(p, lk, shares, excl)
<1>1. pc[p] \notin AcquireStages
  BY DEF AcquireStages
<1>2. lk.waitcount = Cardinality(Waiters \ {p})
  BY <1>1, OtherWaiters DEF LockInv, CountsAgree, TypeOK, LockRecord
<1>3. /\ "WANT_UPGRADE" \in lk.flags <=> Stage(p, "upgrade")
      /\ "WANT_EXCL" \in lk.flags <=> Stage(p, "excl2")
  BY DEF LockInv, FlagsAgree, Stage
<1>4. \A r \in Proc \ {p} : pc[r] # "idle" => shares[r] = 0 /\ excl[r] = 0
  BY DEF LockInv, WaitersHoldNothing
<1>. QED
  BY <1>2, <1>3, <1>4
  DEF Around, LockInv, TypeOK, CountsAgree, FlagsAgree, DrainingIsQuiet

(* A process back from a sleep in ACQUIRE takes itself out of the count,   *)
(* and out of the flag of its stage.                                       *)
LEMMA Woken ==
  ASSUME LockInv, NEW p \in Proc, pc[p] \in AcquireStages
  PROVE  /\ Around(p, [Awake EXCEPT !.flags = @ \ StageFlag(pc[p])],
                   shares, excl)
         /\ StageFlag(pc[p]) \subseteq Awake.flags
         /\ Awake.flags \cap {"DRAINING", "DRAINED"} = {}
         /\ shares[p] = 0 /\ excl[p] = 0
         /\ pc[p] = "upgrade" => Awake.exclusivecount = 0
<1> DEFINE F == StageFlag(pc[p])
           l == [Awake EXCEPT !.flags = @ \ F]
<1>1. pc[p] # "idle"
  BY DEF AcquireStages
<1>2. /\ lk.waitcount = Cardinality(Waiters \ {p}) + 1
      /\ Cardinality(Waiters \ {p}) \in Nat
  BY OtherWaiters DEF LockInv, CountsAgree, TypeOK, LockRecord
<1>3. lk \in LockRecord
  BY DEF LockInv, TypeOK
<1>4. /\ l \in LockRecord
      /\ l.waitcount = Cardinality(Waiters \ {p})
      /\ l.flags = lk.flags \ StageFlag(pc[p])
      /\ Awake.flags = lk.flags /\ Awake.exclusivecount = lk.exclusivecount
      /\ l.sharecount = lk.sharecount
      /\ l.exclusivecount = lk.exclusivecount
      /\ l.lockholder = lk.lockholder
  <2> HIDE DEF F
  <2>1. /\ Awake \in LockRecord
        /\ Awake.waitcount = Cardinality(Waiters \ {p})
        /\ Awake.flags = lk.flags
        /\ Awake.sharecount = lk.sharecount
        /\ Awake.exclusivecount = lk.exclusivecount
        /\ Awake.lockholder = lk.lockholder
    BY <1>2, <1>3 DEF LockRecord, Awake
  <2>. QED  BY <2>1 DEF LockRecord, F
<1>5. StageFlag(pc[p]) \subseteq lk.flags
  BY DEF LockInv, FlagsAgree, StageFlag
<1>6. lk.flags \cap {"DRAINING", "DRAINED"} = {}
  BY <1>1 DEF LockInv, DrainingIsQuiet
<1>7. /\ "HAVE_EXCL" \in l.flags <=> "HAVE_EXCL" \in lk.flags
      /\ "WANT_UPGRADE" \in l.flags => "WANT_UPGRADE" \in lk.flags
      /\ l.flags \cap {"DRAINING", "DRAINED"} = {}
  BY <1>4, <1>6 DEF StageFlag
<1>8. "WANT_UPGRADE" \in l.flags <=> Stage(p, "upgrade")
  BY <1>4 DEF LockInv, FlagsAgree, StageFlag, Stage
<1>9. "WANT_EXCL" \in l.flags <=> Stage(p, "excl2")
  BY <1>4 DEF LockInv, FlagsAgree, StageFlag, Stage
<1>10. \A r \in Proc : pc[r] # "idle" => shares[r] = 0 /\ excl[r] = 0
  BY DEF LockInv, WaitersHoldNothing
<1>11. pc[p] = "upgrade" => lk.exclusivecount = 0
  BY DEF LockInv, FlagsAgree
<1> HIDE DEF l
<1>12. Around(p, l, shares, excl)
  BY <1>4, <1>7, <1>8, <1>9, <1>10
  DEF Around, LockInv, TypeOK, CountsAgree, FlagsAgree
<1>. QED  BY <1>1, <1>4, <1>5, <1>6, <1>10, <1>11, <1>12 DEF l

(* The sleep queue that a running process may leave behind it. *)
LEMMA Places ==
  ASSUME LockInv, NEW p \in Proc, p \notin asleep
  PROVE  /\ Placed(p, asleep)
         /\ Placed(p, Wakeup(asleep))
         /\ \A l : Placed(p, WakeWaiters(l))
<1>1. Placed(p, asleep)
  BY DEF LockInv, TypeOK, FlagsAgree, WaitersHoldNothing, Placed
<1>2. Placed(p, Wakeup(asleep))
  BY <1>1 DEF Placed, Wakeup
<1>. QED  BY <1>1, <1>2 DEF WakeWaiters

-----------------------------------------------------------------------------
(* The ways a run of lockmgr() ends keep the invariant.                    *)

LEMMA Unmoved ==
  ASSUME LockInv, UNCHANGED <<lk, pc, ext, asleep, failed, owned>>,
         panicked' \in BOOLEAN
  PROVE  LockInv'
BY DEF owned, LockInv, TypeOK, CountsAgree, FlagsAgree, WaitersHoldNothing,
       DrainingIsQuiet, Waiters

(* p returns, with the lock left as l: the last user of a lock clears      *)
(* LK_WAITDRAIN, which announces nobody.                                   *)
LEMMA Returned ==
  ASSUME NEW p \in Proc, NEW l, NEW s, NEW e, NEW q,
         Around(p, l, s, e), Placed(p, q), Return(p, l, q),
         shares' = s, excl' = e
  PROVE  LockInv'
<1>1. /\ pc' = [pc EXCEPT ![p] = "idle"]
      /\ pc'[p] = "idle"
      /\ \A r \in Proc \ {p} : pc'[r] = pc[r]
      /\ pc' \in [Proc -> Stages \cup {"idle"}]
  BY DEF Return, Placed
<1>2. /\ lk' \in LockRecord
      /\ lk'.waitcount = l.waitcount
      /\ lk'.sharecount = l.sharecount
      /\ lk'.exclusivecount = l.exclusivecount
      /\ lk'.lockholder = l.lockholder
      /\ \A f : f # "WAITDRAIN" => (f \in lk'.flags <=> f \in l.flags)
  BY DEF Return, Around, LockRecord
<1>3. Cardinality(Waiters') = Cardinality(Waiters \ {p})
  <2>1. Waiters' = Waiters \ {p}
    BY <1>1 DEF Waiters, AcquireStages
  <2>. QED  BY <2>1
<1>4. TypeOK'
  <2>1. ext' \in [Proc -> SUBSET ExtFlags]
    BY DEF Return, Placed
  <2>2. asleep' \subseteq Proc /\ failed' \subseteq Proc /\ panicked' \in BOOLEAN
    BY DEF Return, Placed
  <2>3. shares' \in [Proc -> Nat] /\ excl' \in [Proc -> Nat]
    BY DEF Around
  <2>. QED  BY <1>1, <1>2, <2>1, <2>2, <2>3 DEF TypeOK
<1>5. CountsAgree'
  BY <1>2, <1>3 DEF CountsAgree, Around
<1>6. FlagsAgree'
  <2>1. "WANT_UPGRADE" \in lk'.flags <=> \E r \in Proc : pc'[r] = "upgrade"
    BY <1>1, <1>2 DEF Around, Stage
  <2>2. "WANT_EXCL" \in lk'.flags <=> \E r \in Proc : pc'[r] = "excl2"
    BY <1>1, <1>2 DEF Around, Stage
  <2>3. \A r, t \in Proc :
          pc'[r] = pc'[t] /\ pc'[r] \in {"upgrade", "excl2", "drain"} => r = t
    BY <1>1 DEF Placed
  <2>. QED  BY <1>2, <2>1, <2>2, <2>3 DEF FlagsAgree, Around
<1>7. WaitersHoldNothing'
  <2>1. \A r \in Proc : pc'[r] # "idle" => shares'[r] = 0 /\ excl'[r] = 0
    BY <1>1 DEF Around
  <2>2. asleep' \subseteq q /\ failed' = failed \ {p}
    BY DEF Return
  <2>3. \A r \in asleep' \cup failed' : r \in Proc \ {p} /\ pc[r] # "idle"
    BY <2>2 DEF Placed
  <2>. QED  BY <1>1, <2>1, <2>3 DEF WaitersHoldNothing
<1>8. DrainingIsQuiet'
  BY <1>1, <1>2 DEF DrainingIsQuiet, Around
<1>. QED  BY <1>4, <1>5, <1>6, <1>7, <1>8 DEF LockInv

(* p goes to sleep in ACQUIRE, counted as a waiter and announced by the    *)
(* flag of its stage, which nobody else has up.                            *)
LEMMA Slept ==
  ASSUME NEW p \in Proc, NEW x \in SUBSET ExtFlags,
         NEW stage \in AcquireStages, NEW l, NEW s, NEW q,
         Around(p, l, s, excl), Placed(p, q),
         s[p] = 0, excl[p] = 0,
         StageFlag(stage) \cap l.flags = {},
         l.flags \cap {"DRAINING", "DRAINED"} = {},
         stage = "upgrade" => l.exclusivecount = 0,
         Wait(p, x, stage, [l EXCEPT !.flags = @ \cup StageFlag(stage)], q, s)
  PROVE  LockInv'
<1> DEFINE F == StageFlag(stage)
<1>1. /\ pc'[p] = stage
      /\ \A r \in Proc \ {p} : pc'[r] = pc[r]
      /\ pc' \in [Proc -> Stages \cup {"idle"}]
  BY DEF Wait, Placed, Stages
<1>2. stage \notin {"idle", "drain"}
  BY DEF AcquireStages
<1>3. Cardinality(Waiters \ {p}) \in Nat
  BY OtherWaiters
<1>4. F \subseteq InternalFlags
  BY DEF StageFlag, InternalFlags, ExclFlags
<1>5. /\ lk' \in LockRecord
      /\ lk'.waitcount = l.waitcount + 1
      /\ lk'.sharecount = l.sharecount
      /\ lk'.exclusivecount = l.exclusivecount
      /\ lk'.lockholder = l.lockholder
      /\ lk'.flags = l.flags \cup F
  <2> DEFINE m == [l EXCEPT !.flags = @ \cup F]
  <2>1. lk' = [m EXCEPT !.waitcount = @ + 1]
    BY DEF Wait
  <2> HIDE DEF F
  <2>2. /\ m \in LockRecord
        /\ m.flags = l.flags \cup F
        /\ m.waitcount = l.waitcount
        /\ m.sharecount = l.sharecount
        /\ m.exclusivecount = l.exclusivecount
        /\ m.lockholder = l.lockholder
    BY <1>4 DEF Around, LockRecord
  <2> HIDE DEF m
  <2>. QED  BY <2>1, <2>2 DEF LockRecord
<1>6. Cardinality(Waiters') = Cardinality(Waiters \ {p}) + 1
  <2>1. Waiters' = (Waiters \ {p}) \cup {p}
    BY <1>1 DEF Waiters
  <2>2. IsFiniteSet(Waiters \ {p})
    BY OtherWaiters, FS_Subset
  <2>. QED  BY <2>1, <2>2, FS_AddElement
<1>7. TypeOK'
  <2>1. ext' \in [Proc -> SUBSET ExtFlags]
    BY DEF Wait, Placed
  <2>2. asleep' \subseteq Proc /\ failed' \subseteq Proc /\ panicked' \in BOOLEAN
    BY DEF Wait, Placed
  <2>3. shares' \in [Proc -> Nat] /\ excl' \in [Proc -> Nat]
    BY DEF Wait, Around
  <2>. QED  BY <1>1, <1>5, <2>1, <2>2, <2>3 DEF TypeOK
<1>8. shares' = s /\ excl' = excl
  BY DEF Wait
<1>9. CountsAgree'
  BY <1>3, <1>5, <1>6, <1>8 DEF CountsAgree, Around
<1>10. FlagsAgree'
  <2>1. "WANT_UPGRADE" \in lk'.flags <=> \E r \in Proc : pc'[r] = "upgrade"
    BY <1>1, <1>5 DEF Around, Stage, StageFlag
  <2>2. "WANT_EXCL" \in lk'.flags <=> \E r \in Proc : pc'[r] = "excl2"
    BY <1>1, <1>5 DEF Around, Stage, StageFlag
  <2>3. stage \in {"upgrade", "excl2"} => ~Stage(p, stage)
    BY DEF Around, StageFlag
  <2>4. \A r, t \in Proc :
          pc'[r] = pc'[t] /\ pc'[r] \in {"upgrade", "excl2", "drain"} => r = t
    BY <1>1, <1>2, <2>3 DEF Placed, Stage
  <2>5. "HAVE_EXCL" \in lk'.flags <=> "HAVE_EXCL" \in l.flags
    BY <1>5 DEF StageFlag
  <2>6. "WANT_UPGRADE" \in lk'.flags =>
          "WANT_UPGRADE" \in l.flags \/ stage = "upgrade"
    BY <1>5 DEF StageFlag
  <2>. QED  BY <1>5, <2>1, <2>2, <2>4, <2>5, <2>6 DEF FlagsAgree, Around
<1>11. WaitersHoldNothing'
  <2>1. \A r \in Proc : pc'[r] # "idle" => shares'[r] = 0 /\ excl'[r] = 0
    BY <1>1, <1>8 DEF Around
  <2>2. \A r \in asleep' \cup failed' : r = p \/ (r \in Proc /\ pc[r] # "idle")
    BY DEF Wait, Placed
  <2>. QED  BY <1>1, <1>2, <2>1, <2>2 DEF WaitersHoldNothing
<1>12. DrainingIsQuiet'
  <2>1. lk'.flags \cap {"DRAINING", "DRAINED"} = {}
    BY <1>5 DEF StageFlag
  <2>. QED  BY <2>1 DEF DrainingIsQuiet
<1>. QED  BY <1>7, <1>9, <1>10, <1>11, <1>12 DEF LockInv

(* A grant of the lock, exclusively: nobody shares it nor is promised it.  *)
LEMMA GrantedExclusive ==
  ASSUME LockInv, NEW p \in Proc, NEW l, NEW s,
         Around(p, l, s, excl), Placed(p, asleep),
         l.sharecount = 0, "WANT_UPGRADE" \notin l.flags,
         l.flags \cap {"DRAINING", "DRAINED"} = {},
         GrantExclusive(p, l, s)
  PROVE  LockInv'
<1>1. CASE l.exclusivecount # 0
  BY <1>1, Unmoved DEF GrantExclusive, Panic
<1>2. CASE l.exclusivecount = 0
  <2> DEFINE m == [l EXCEPT !.flags = @ \cup {"HAVE_EXCL"},
                            !.lockholder = p,
                            !.exclusivecount = 1]
             e == [excl EXCEPT ![p] = 1]
  <2>1. Return(p, m, asleep) /\ excl' = e /\ shares' = s
    BY <1>2 DEF GrantExclusive
  <2>2. /\ m \in LockRecord
        /\ m.flags = l.flags \cup {"HAVE_EXCL"}
        /\ m.lockholder = p /\ m.exclusivecount = 1
        /\ m.waitcount = l.waitcount /\ m.sharecount = l.sharecount
    BY DEF Around, LockRecord, InternalFlags, ExclFlags
  <2>3. /\ e \in [Proc -> Nat] /\ e[p] = 1
        /\ \A r \in Proc \ {p} : e[r] = 0
    BY <1>2, ProcAssumption DEF Around
  <2>4. p # NoProc
    BY ProcAssumption
  <2> HIDE DEF m, e
  <2>5. Around(p, m, s, e)
    BY <2>2, <2>3, <2>4 DEF Around
  <2>. QED  BY <2>1, <2>5, Returned
<1>. QED  BY <1>1, <1>2

(* A grant of one more share, with no exclusive holder.                    *)
LEMMA GrantedShared ==
  ASSUME NEW p \in Proc, NEW l, Around(p, l, shares, excl), Placed(p, asleep),
         "HAVE_EXCL" \notin l.flags,
         l.flags \cap {"DRAINING", "DRAINED"} = {},
         GrantShared(p, l)
  PROVE  LockInv'
<1> DEFINE m == [l EXCEPT !.sharecount = @ + 1]
           s == [shares EXCEPT ![p] = @ + 1]
<1>1. Return(p, m, asleep) /\ shares' = s /\ excl' = excl
  BY DEF GrantShared
<1>2. /\ m \in LockRecord
      /\ m.sharecount = l.sharecount + 1
      /\ m.flags = l.flags /\ m.lockholder = l.lockholder
      /\ m.exclusivecount = l.exclusivecount /\ m.waitcount = l.waitcount
  BY DEF Around, LockRecord
<1>3. /\ s \in [Proc -> Nat]
      /\ \A r \in Proc \ {p} : s[r] = shares[r]
  BY DEF Around
<1>4. Cardinality(Held(s)) = Cardinality(Held(shares)) + 1
  <2>1. shares \in [Proc -> Nat] /\ shares[p] \in Nat /\ shares[p] + 1 \in Nat
    BY DEF Around
  <2> DEFINE n == shares[p] + 1
  <2>2. n \in Nat /\ s = [shares EXCEPT ![p] = n]
    BY <2>1
  <2> HIDE DEF n
  <2>3. /\ Cardinality(Held(shares)) \in Nat
        /\ Cardinality(Held([shares EXCEPT ![p] = n])) =
             Cardinality(Held(shares)) - shares[p] + n
    BY <2>1, <2>2, HeldCount
  <2>4. Cardinality(Held(s)) = Cardinality(Held(shares)) - shares[p] + n
    BY <2>2, <2>3
  <2> HIDE DEF s
  <2>. QED  BY <2>1, <2>3, <2>4 DEF n
<1> HIDE DEF m, s
<1>5. Around(p, m, s, excl)
  BY <1>2, <1>3, <1>4 DEF Around
<1>. QED  BY <1>1, <1>5, Returned

(* Giving one share up leaves the counters in agreement.                   *)
LEMMA ShareDropped ==
  ASSUME NEW p \in Proc, NEW l, Around(p, l, shares, excl), shares[p] > 0,
         l.flags \cap {"DRAINING", "DRAINED"} = {}
  PROVE  /\ Around(p, [l EXCEPT !.sharecount = @ - 1],
                   [shares EXCEPT ![p] = @ - 1], excl)
         /\ l.sharecount > 0 /\ l.exclusivecount = 0 /\ excl[p] = 0
<1> DEFINE m == [l EXCEPT !.sharecount = @ - 1]
           s == [shares EXCEPT ![p] = @ - 1]
<1>1. shares \in [Proc -> Nat] /\ shares[p] \in Nat /\ shares[p] - 1 \in Nat
  BY DEF Around
<1>2. /\ Cardinality(Held(shares)) \in Nat
      /\ shares[p] <= Cardinality(Held(shares))
      /\ Cardinality(Held(s)) = Cardinality(Held(shares)) - 1
  <2> DEFINE n == shares[p] - 1
  <2>2. n \in Nat /\ s = [shares EXCEPT ![p] = n]
    BY <1>1
  <2> HIDE DEF n
  <2>3. /\ Cardinality(Held(shares)) \in Nat
        /\ shares[p] <= Cardinality(Held(shares))
        /\ Cardinality(Held([shares EXCEPT ![p] = n])) =
             Cardinality(Held(shares)) - shares[p] + n
    BY <1>1, <2>2, HeldCount
  <2>4. Cardinality(Held(s)) = Cardinality(Held(shares)) - shares[p] + n
    BY <2>2, <2>3
  <2> HIDE DEF s
  <2>. QED  BY <1>1, <2>3, <2>4 DEF n
<1>3. l.sharecount > 0 /\ l.exclusivecount = 0
  BY <1>1, <1>2 DEF Around
<1>4. excl[p] = 0
  BY <1>3 DEF Around
<1>5. /\ m \in LockRecord
      /\ m.sharecount = l.sharecount - 1
      /\ m.flags = l.flags /\ m.lockholder = l.lockholder
      /\ m.exclusivecount = l.exclusivecount /\ m.waitcount = l.waitcount
  BY <1>3 DEF Around, LockRecord
<1>6. /\ s \in [Proc -> Nat]
      /\ \A r \in Proc \ {p} : s[r] = shares[r]
  BY <1>1
<1> HIDE DEF m, s
<1>7. Around(p, m, s, excl)
  BY <1>2, <1>3, <1>5, <1>6 DEF Around
<1>. QED  BY <1>3, <1>4, <1>7 DEF m, s

(* The drainer goes to sleep on the flags: no counter has it.              *)
LEMMA DrainAwaited ==
  ASSUME LockInv, NEW p \in Proc, NEW x \in SUBSET ExtFlags,
         pc[p] \in {"idle", "drain"},
         \A r \in Proc \ {p} : pc[r] # "drain",
         shares[p] = 0, excl[p] = 0,
         lk.flags \cap {"DRAINING", "DRAINED"} = {},
         AwaitDrain(p, x)
  PROVE  LockInv'
<1>1. /\ pc'[p] = "drain"
      /\ \A r \in Proc \ {p} : pc'[r] = pc[r]
      /\ pc' \in [Proc -> Stages \cup {"idle"}]
  BY DEF AwaitDrain, LockInv, TypeOK, Stages
<1>2. /\ lk' \in LockRecord
      /\ lk'.waitcount = lk.waitcount
      /\ lk'.sharecount = lk.sharecount
      /\ lk'.exclusivecount = lk.exclusivecount
      /\ lk'.lockholder = lk.lockholder
      /\ lk'.flags = lk.flags \cup {"WAITDRAIN"}
  BY DEF AwaitDrain, LockInv, TypeOK, LockRecord, InternalFlags
<1>3. Waiters' = Waiters
  BY <1>1 DEF Waiters, AcquireStages
<1>4. TypeOK'
  BY <1>1, <1>2 DEF TypeOK, LockInv, AwaitDrain, owned
<1>5. shares' = shares /\ excl' = excl
  BY DEF AwaitDrain, owned
<1>6. CountsAgree'
  BY <1>2, <1>3, <1>5 DEF LockInv, CountsAgree
<1>7. FlagsAgree'
  <2>1. \A r \in Proc : /\ pc'[r] = "upgrade" <=> pc[r] = "upgrade"
                        /\ pc'[r] = "excl2" <=> pc[r] = "excl2"
    BY <1>1
  <2>2. \A r, t \in Proc :
          pc'[r] = pc'[t] /\ pc'[r] \in {"upgrade", "excl2", "drain"} => r = t
    BY <1>1 DEF LockInv, FlagsAgree
  <2>. QED  BY <1>2, <2>1, <2>2 DEF LockInv, FlagsAgree
<1>8. WaitersHoldNothing'
  <2>1. \A r \in asleep' \cup failed' : r = p \/ (r \in Proc /\ pc[r] # "idle")
    BY DEF AwaitDrain, LockInv, WaitersHoldNothing, TypeOK
  <2>. QED  BY <1>1, <1>5, <2>1 DEF LockInv, WaitersHoldNothing
<1>9. DrainingIsQuiet'
  BY <1>2 DEF DrainingIsQuiet
<1>. QED  BY <1>4, <1>6, <1>7, <1>8, <1>9 DEF LockInv

(* The drain is granted on a quiet lock.                                   *)
LEMMA DrainGranted ==
  ASSUME LockInv, NEW p \in Proc, pc[p] \in {"idle", "drain"}, p \notin asleep,
         \A r \in Proc \ {p} : pc[r] # "drain",
         Quiet(lk), lk.flags \cap {"DRAINING", "DRAINED"} = {},
         GrantDrain(p, lk)
  PROVE  LockInv'
<1> DEFINE m == [lk EXCEPT !.flags = @ \cup {"DRAINING", "HAVE_EXCL"},
                           !.lockholder = p,
                           !.exclusivecount = 1]
           e == [excl EXCEPT ![p] = 1]
<1>1. Return(p, m, asleep) /\ shares' = shares /\ excl' = e
  BY DEF GrantDrain
<1>2. /\ m \in LockRecord
      /\ m.flags = lk.flags \cup {"DRAINING", "HAVE_EXCL"}
      /\ m.lockholder = p /\ m.exclusivecount = 1
      /\ m.waitcount = lk.waitcount /\ m.sharecount = lk.sharecount
  BY DEF LockInv, TypeOK, LockRecord, InternalFlags, ExclFlags
<1>3. Around(p, lk, shares, excl) /\ Placed(p, asleep)
  BY Entered, Places
<1>4. /\ lk.exclusivecount = 0 /\ lk.sharecount = 0
      /\ lk.flags \cap ExclFlags = {}
  BY <1>3 DEF Quiet, Blocked, ExclFlags, Around
<1>5. /\ e \in [Proc -> Nat] /\ e[p] = 1
      /\ \A r \in Proc \ {p} : e[r] = 0
  BY <1>3, <1>4 DEF Around
<1>6. \A r \in Proc : pc[r] \notin AcquireStages
  BY WaitersZero DEF Quiet, LockInv, CountsAgree
<1>7. \A r \in Proc \ {p} : pc[r] = "idle"
  <2>1. \A r \in Proc : pc[r] \in Stages \cup {"idle"}
    BY DEF LockInv, TypeOK
  <2>. QED  BY <1>6, <2>1 DEF Stages
<1>8. p # NoProc
  BY ProcAssumption
<1> HIDE DEF m, e
<1>9. Around(p, m, shares, e)
  BY <1>2, <1>3, <1>4, <1>5, <1>7, <1>8 DEF Around, ExclFlags
<1>. QED  BY <1>1, <1>3, <1>9, Returned

(* An exclusive request waits for one thing or the other, or is granted.   *)
LEMMA Sought ==
  ASSUME LockInv, NEW p \in Proc, NEW x \in SUBSET ExtFlags, NEW l, NEW s,
         NEW q, Around(p, l, s, excl), Placed(p, q), Placed(p, asleep),
         s[p] = 0, excl[p] = 0,
         l.flags \cap {"DRAINING", "DRAINED"} = {},
         SeekExclusive(p, x, l, q, s)
  PROVE  LockInv'
<1>1. CASE Wanted("excl1", l)
  <2>1. Wait(p, x, "excl1", l, q, s)
    BY <1>1 DEF SeekExclusive
  <2>2. /\ StageFlag("excl1") = {} /\ "excl1" \in AcquireStages
        /\ "excl1" # "upgrade"
    BY DEF StageFlag, AcquireStages
  <2>3. [l EXCEPT !.flags = @ \cup StageFlag("excl1")] = l
    BY <2>2 DEF Around, LockRecord
  <2>. QED  BY <2>1, <2>2, <2>3, Slept
<1>2. CASE ~Wanted("excl1", l) /\ Wanted("excl2", l)
  <2>1. Wait(p, x, "excl2", [l EXCEPT !.flags = @ \cup {"WANT_EXCL"}], q, s)
    BY <1>2 DEF SeekExclusive
  <2>2. /\ StageFlag("excl2") = {"WANT_EXCL"} /\ "excl2" \in AcquireStages
        /\ "excl2" # "upgrade"
    BY DEF StageFlag, AcquireStages
  <2>3. "WANT_EXCL" \notin l.flags
    BY <1>2 DEF Wanted
  <2>. QED  BY <2>1, <2>2, <2>3, Slept
<1>3. CASE ~Wanted("excl1", l) /\ ~Wanted("excl2", l)
  <2>1. l.sharecount = 0 /\ "WANT_UPGRADE" \notin l.flags
    BY <1>3 DEF Wanted
  <2>2. GrantExclusive(p, l, s)
    BY <1>3 DEF SeekExclusive
  <2>. QED  BY <2>1, <2>2, GrantedExclusive
<1>. QED  BY <1>1, <1>2, <1>3

-----------------------------------------------------------------------------
(* Each request, and each return from a sleep, keeps the invariant.        *)

(* A caller about to enter lockmgr() is neither asleep nor counted.        *)
LEMMA Idle ==
  ASSUME LockInv, NEW p \in Proc, pc[p] = "idle"
  PROVE  /\ p \notin asleep
         /\ Around(p, lk, shares, excl)
         /\ Placed(p, asleep)
         /\ \A l : Placed(p, WakeWaiters(l))
<1>1. p \notin asleep
  BY DEF LockInv, WaitersHoldNothing
<1>. QED  BY <1>1, Entered, Places

(* The lock of an exclusive holder, told apart from the drainer's.         *)
LEMMA Holder ==
  ASSUME LockInv, NEW p \in Proc, excl[p] > 0
  PROVE  /\ lk.lockholder = p /\ lk.exclusivecount = excl[p]
         /\ lk.sharecount = 0 /\ "WANT_UPGRADE" \notin lk.flags
         /\ "DRAINED" \notin lk.flags
<1>1. excl[p] = IF lk.lockholder = p THEN lk.exclusivecount ELSE 0
  BY DEF LockInv, CountsAgree
<1>2. lk.lockholder = p /\ lk.exclusivecount = excl[p]
  BY <1>1
<1>. QED  BY <1>2 DEF LockInv, FlagsAgree, DrainingIsQuiet

LEMMA SharedKeeps ==
  ASSUME LockInv, NEW p \in Proc, NEW x \in SUBSET ExtFlags, Shared(p, x)
  PROVE  LockInv'
<1>1. pc[p] = "idle" /\ shares[p] = 0 /\ excl[p] = 0
  BY DEF Shared, Calls, HoldsNothing
<1>2. lk.flags \cap {"DRAINING", "DRAINED"} = {}
  BY DEF Shared, Usable
<1>3. CASE ~Blocked(lk) /\ GrantShared(p, lk)
  BY <1>1, <1>2, <1>3, Idle, GrantedShared DEF Blocked, ExclFlags
<1>4. CASE Refuse(p, lk)
  BY <1>1, <1>4, Idle, Returned DEF Refuse, owned
<1>5. CASE Wait(p, x, "shared", lk, asleep, shares)
  <2>1. /\ StageFlag("shared") = {} /\ "shared" \in AcquireStages
        /\ "shared" # "upgrade"
    BY DEF StageFlag, AcquireStages
  <2>2. [lk EXCEPT !.flags = @ \cup StageFlag("shared")] = lk
    BY <2>1 DEF LockInv, TypeOK, LockRecord
  <2>. QED  BY <1>1, <1>2, <1>5, <2>1, <2>2, Idle, Slept
<1>. QED  BY <1>3, <1>4, <1>5 DEF Shared

LEMMA DowngradeKeeps ==
  ASSUME LockInv, NEW p \in Proc, Downgrade(p)
  PROVE  LockInv'
<1>1. pc[p] = "idle" /\ excl[p] > 0 /\ ~Barred(p, "DOWNGRADE")
  BY DEF Downgrade, Calls
<1>2. PICK more \in {0, 1} : DowngradeTo(p, more)
  BY DEF Downgrade
<1>3. /\ lk.lockholder = p /\ lk.exclusivecount = excl[p]
      /\ lk.sharecount = 0 /\ "WANT_UPGRADE" \notin lk.flags
  BY <1>1, Holder
<1>4. lk.flags \cap {"DRAINING", "DRAINED"} = {}
  BY <1>1 DEF Barred
<1> DEFINE n == shares[p] + excl[p] + more
           m == [lk EXCEPT !.sharecount = @ + lk.exclusivecount + more,
                           !.exclusivecount = 0,
                           !.flags = @ \ {"HAVE_EXCL"},
                           !.lockholder = NoProc]
           s == [shares EXCEPT ![p] = @ + excl[p] + more]
           e == [excl EXCEPT ![p] = 0]
<1>5. Return(p, m, WakeWaiters(lk)) /\ shares' = s /\ excl' = e
  BY <1>1, <1>2, <1>3 DEF DowngradeTo
<1>6. Around(p, lk, shares, excl)
  BY <1>1, Idle
<1>7. shares[p] \in Nat /\ excl[p] \in Nat /\ n \in Nat
  BY <1>6 DEF Around
<1>8. /\ m \in LockRecord
      /\ m.sharecount = excl[p] + more
      /\ m.exclusivecount = 0
      /\ m.flags = lk.flags \ {"HAVE_EXCL"}
      /\ m.lockholder = NoProc /\ m.waitcount = lk.waitcount
  <2> DEFINE c == lk.sharecount + lk.exclusivecount + more
             k == lk.flags \ {"HAVE_EXCL"}
  <2>1. c = excl[p] + more /\ c \in Nat
    BY <1>3, <1>7
  <2>2. lk \in LockRecord /\ k \in SUBSET InternalFlags
    BY <1>6 DEF Around, LockRecord
  <2>3. m = [lk EXCEPT !.sharecount = c, !.exclusivecount = 0,
                       !.flags = k, !.lockholder = NoProc]
    BY <2>2 DEF LockRecord
  <2> HIDE DEF c, k, m
  <2>4. /\ m \in LockRecord /\ m.sharecount = c /\ m.exclusivecount = 0
        /\ m.flags = k /\ m.lockholder = NoProc
        /\ m.waitcount = lk.waitcount
    BY <2>1, <2>2, <2>3 DEF LockRecord
  <2>. QED  BY <2>1, <2>4 DEF k
<1>9. /\ s \in [Proc -> Nat] /\ s = [shares EXCEPT ![p] = n]
      /\ \A r \in Proc \ {p} : s[r] = shares[r]
  BY <1>6, <1>7 DEF Around
<1>10. Cardinality(Held(s)) = excl[p] + more
  <2> HIDE DEF n, s
  <2>1. /\ Cardinality(Held(shares)) = 0
        /\ shares[p] <= Cardinality(Held(shares))
        /\ Cardinality(Held([shares EXCEPT ![p] = n])) =
             Cardinality(Held(shares)) - shares[p] + n
    <3>1. Cardinality(Held(shares)) = 0 /\ shares \in [Proc -> Nat]
      BY <1>3, <1>6 DEF Around
    <3>. QED  BY <3>1, <1>7, HeldCount
  <2>2. Cardinality(Held(s)) =
             Cardinality(Held(shares)) - shares[p] + n
    BY <1>9, <2>1
  <2>. QED  BY <1>7, <2>1, <2>2 DEF n
<1>11. /\ e \in [Proc -> Nat]
       /\ \A r \in Proc : e[r] = 0
  BY <1>3, <1>6 DEF Around
<1>12. \A r \in Proc \ {p} : r # NoProc
  BY ProcAssumption
<1> HIDE DEF m, s, e, n
<1>13. Around(p, m, s, e)
  BY <1>3, <1>4, <1>6, <1>8, <1>9, <1>10, <1>11 DEF Around
<1>. QED  BY <1>1, <1>5, <1>13, Idle, Returned

LEMMA UpgradeKeeps ==
  ASSUME LockInv, NEW p \in Proc, NEW x \in SUBSET ExtFlags,
         NEW type \in {"UPGRADE", "EXCLUPGRADE"}, Upgrade(p, x, type)
  PROVE  LockInv'
<1> DEFINE rival == "WANT_UPGRADE" \in lk.flags
           l == [lk EXCEPT !.sharecount = @ - 1]
           s == [shares EXCEPT ![p] = @ - 1]
           panics == Barred(p, type) \/ lk.lockholder = p \/ lk.sharecount <= 0
<1>1. pc[p] = "idle" /\ shares[p] = 1
  BY DEF Upgrade, Calls
<1>2. CASE panics
  BY <1>2, Unmoved DEF Upgrade, Panic
<1>3. CASE ~panics
  <2>1. lk.flags \cap {"DRAINING", "DRAINED"} = {}
    BY <1>3 DEF Barred
  <2>2. /\ Around(p, l, s, excl)
        /\ lk.exclusivecount = 0 /\ excl[p] = 0
    BY <1>1, <2>1, Idle, ShareDropped
  <2>3. s[p] = 0
    BY <1>1 DEF LockInv, TypeOK
  <2>4. l.flags = lk.flags /\ l.exclusivecount = lk.exclusivecount
    BY DEF LockInv, TypeOK, LockRecord
  <2>5. CASE Return(p, l, asleep) /\ shares' = s /\ UNCHANGED excl
    BY <1>1, <2>2, <2>5, Idle, Returned
  <2>6. CASE \E q \in {WakeWaiters(l), asleep} : SeekExclusive(p, x, l, q, s)
    <3> HIDE DEF l, s
    <3>1. PICK q \in {WakeWaiters(l), asleep} : SeekExclusive(p, x, l, q, s)
      BY <2>6
    <3>2. Placed(p, q) /\ Placed(p, asleep)
      BY <1>1, Idle
    <3>. QED  BY <2>1, <2>2, <2>3, <2>4, <3>1, <3>2, Sought
  <2>7. CASE ~rival /\ Wanted("upgrade", l) /\
             Wait(p, x, "upgrade",
                  [l EXCEPT !.flags = @ \cup {"WANT_UPGRADE"}], asleep, s)
    <3>1. StageFlag("upgrade") = {"WANT_UPGRADE"} /\ "upgrade" \in AcquireStages
      BY DEF StageFlag, AcquireStages
    <3> HIDE DEF l, s
    <3>. QED
      BY <1>1, <2>1, <2>2, <2>3, <2>4, <2>7, <3>1, Idle, Slept DEF rival
  <2>8. CASE ~rival /\ ~Wanted("upgrade", l) /\ GrantExclusive(p, l, s)
    <3> HIDE DEF l, s
    <3>1. l.sharecount = 0
      BY <2>8 DEF Wanted
    <3>. QED  BY <1>1, <2>1, <2>2, <2>4, <2>8, <3>1, Idle, GrantedExclusive
  <2>. QED  BY <1>3, <2>5, <2>6, <2>7, <2>8 DEF Upgrade
<1>. QED  BY <1>2, <1>3

LEMMA ExclusiveKeeps ==
  ASSUME LockInv, NEW p \in Proc, NEW x \in SUBSET ExtFlags, Exclusive(p, x)
  PROVE  LockInv'
<1>1. pc[p] = "idle" /\ shares[p] = 0 /\ excl[p] = 0
  BY DEF Exclusive, Calls, HoldsNothing
<1>2. lk.flags \cap {"DRAINING", "DRAINED"} = {}
  BY DEF Exclusive, Usable
<1>3. CASE Refuse(p, lk)
  BY <1>1, <1>3, Idle, Returned DEF Refuse, owned
<1>4. CASE SeekExclusive(p, x, lk, asleep, shares)
  BY <1>1, <1>2, <1>4, Idle, Sought
<1>. QED  BY <1>3, <1>4 DEF Exclusive

(* The holder's exclusive count changes by one more or one less: the lock  *)
(* record m and the grants e follow it.                                    *)
LEMMA Recounted ==
  ASSUME LockInv, NEW p \in Proc, excl[p] > 0,
         NEW n \in Nat \ {0}, NEW f \in SUBSET InternalFlags,
         f \ {"DRAINING", "DRAINED"} = lk.flags \ {"DRAINING", "DRAINED"},
         f \cap {"DRAINING", "DRAINED"} = {}
  PROVE  Around(p, [lk EXCEPT !.flags = f, !.exclusivecount = n], shares,
                [excl EXCEPT ![p] = n])
<1> DEFINE m == [lk EXCEPT !.flags = f, !.exclusivecount = n]
           e == [excl EXCEPT ![p] = n]
<1>1. \A r \in Proc : excl[r] = IF lk.lockholder = r THEN lk.exclusivecount
                                ELSE 0
  BY DEF LockInv, CountsAgree
<1>2. /\ lk.lockholder = p /\ lk.exclusivecount = excl[p]
      /\ lk.sharecount = 0 /\ "WANT_UPGRADE" \notin lk.flags
  BY Holder
<1>3. /\ m \in LockRecord
      /\ m.exclusivecount = n /\ m.flags = f
      /\ m.lockholder = lk.lockholder /\ m.waitcount = lk.waitcount
      /\ m.sharecount = lk.sharecount
  BY DEF LockInv, TypeOK, LockRecord
<1>4. /\ e \in [Proc -> Nat] /\ e[p] = n
      /\ \A r \in Proc \ {p} : e[r] = excl[r]
  BY DEF LockInv, TypeOK
<1>5. lk.waitcount = Cardinality(Waiters \ {p})
  <2>1. pc[p] = "idle"
    BY DEF LockInv, WaitersHoldNothing
  <2>. QED  BY <2>1, Entered DEF Around
<1>6. /\ "HAVE_EXCL" \in f /\ "WANT_UPGRADE" \notin f
      /\ "WANT_EXCL" \in f <=> "WANT_EXCL" \in lk.flags
  BY <1>2 DEF LockInv, FlagsAgree
<1>7. pc[p] = "idle"
  BY DEF LockInv, WaitersHoldNothing
<1>8. /\ "WANT_UPGRADE" \in f <=> Stage(p, "upgrade")
      /\ "WANT_EXCL" \in f <=> Stage(p, "excl2")
  BY <1>2, <1>6, <1>7 DEF LockInv, FlagsAgree, Stage
<1>9. p # NoProc
  BY ProcAssumption
<1> HIDE DEF m, e
<1>10. Around(p, m, shares, e)
  BY <1>1, <1>2, <1>3, <1>4, <1>5, <1>6, <1>8, <1>9
  DEF Around, LockInv, TypeOK, CountsAgree, WaitersHoldNothing
<1>. QED  BY <1>10 DEF m, e

LEMMA RecurseKeeps ==
  ASSUME LockInv, NEW p \in Proc, Recurse(p)
  PROVE  LockInv'
<1> DEFINE n == lk.exclusivecount + 1
<1>1. pc[p] = "idle" /\ excl[p] > 0 /\ ~Barred(p, "EXCLUSIVE")
  BY BoundAssumption DEF Recurse, Calls
<1>2. lk.flags \cap {"DRAINING", "DRAINED"} = {}
  BY <1>1 DEF Barred
<1>3. lk \in LockRecord /\ lk.flags \in SUBSET InternalFlags
  BY DEF LockInv, TypeOK, LockRecord
<1>4. n = excl[p] + 1 /\ n \in Nat \ {0}
  BY <1>1, <1>3, Holder DEF LockRecord
<1>5. /\ [lk EXCEPT !.exclusivecount = @ + 1] =
           [lk EXCEPT !.flags = lk.flags, !.exclusivecount = n]
      /\ excl' = [excl EXCEPT ![p] = n]
  BY <1>3, <1>4 DEF Recurse, LockRecord
<1> HIDE DEF n
<1>6. Around(p, [lk EXCEPT !.flags = lk.flags, !.exclusivecount = n], shares,
             [excl EXCEPT ![p] = n])
  BY <1>1, <1>2, <1>3, <1>4, Recounted
<1>. QED  BY <1>1, <1>5, <1>6, Idle, Returned DEF Recurse

LEMMA ReleaseKeeps ==
  ASSUME LockInv, NEW p \in Proc, NEW reenable \in BOOLEAN,
         Release(p, reenable)
  PROVE  LockInv'
<1> DEFINE draining == "DRAINING" \in lk.flags
           f == IF ~draining THEN lk.flags
                ELSE (lk.flags \ {"DRAINING"})
                     \cup (IF reenable THEN {} ELSE {"DRAINED"})
           x == lk.exclusivecount - 1
           unlocked == [lk EXCEPT !.flags = f \ {"HAVE_EXCL"},
                                  !.exclusivecount = 0,
                                  !.lockholder = NoProc]
           l == IF lk.exclusivecount # 0
                THEN IF x = 0 THEN unlocked
                     ELSE [lk EXCEPT !.flags = f, !.exclusivecount = x]
                ELSE IF lk.sharecount # 0 THEN [lk EXCEPT !.sharecount = @ - 1]
                ELSE lk
           panics == \/ Barred(p, "RELEASE")
                     \/ lk.exclusivecount # 0 /\ lk.lockholder # p
<1>1. pc[p] = "idle" /\ (shares[p] # 0 \/ excl[p] # 0)
  BY DEF Release, Calls, HoldsNothing
<1>2. CASE panics
  BY <1>2, Unmoved DEF Release, Panic
<1>3. CASE ~panics /\ excl[p] > 0
  <2>1. /\ lk.lockholder = p /\ lk.exclusivecount = excl[p]
        /\ lk.sharecount = 0 /\ "WANT_UPGRADE" \notin lk.flags
        /\ "DRAINED" \notin lk.flags
    BY <1>3, Holder
  <2>2. excl[p] \in Nat \ {0}
    BY <1>3 DEF LockInv, TypeOK
  <2>3. Return(p, l, WakeWaiters(l)) /\ shares' = shares /\
        excl' = [excl EXCEPT ![p] = @ - 1]
    BY <1>3 DEF Release
  <2>4. lk.flags \in SUBSET InternalFlags /\ f \in SUBSET InternalFlags
    BY DEF LockInv, TypeOK, LockRecord, InternalFlags
  <2>5. CASE excl[p] = 1
    <3>1. l = unlocked /\ x = 0
      BY <2>1, <2>5
    <3> DEFINE e == [excl EXCEPT ![p] = @ - 1]
    <3>2. /\ \A r \in Proc : e[r] = 0
          /\ e \in [Proc -> Nat]
      BY <2>1, <2>5, ProcAssumption DEF LockInv, TypeOK, CountsAgree
    <3>3. /\ l \in LockRecord
          /\ l.flags = f \ {"HAVE_EXCL"} /\ l.exclusivecount = 0
          /\ l.lockholder = NoProc /\ l.sharecount = 0
          /\ l.waitcount = lk.waitcount
      <4>1. lk \in LockRecord
        BY DEF LockInv, TypeOK
      <4> HIDE DEF f
      <4>. QED  BY <2>1, <2>4, <3>1, <4>1 DEF LockRecord
    <3>4. Around(p, lk, shares, excl)
      BY <1>1, Idle
    <3>5. /\ \A k \in {"WANT_UPGRADE", "WANT_EXCL"} : k \in l.flags <=> k \in lk.flags
          /\ "HAVE_EXCL" \notin l.flags /\ "DRAINING" \notin l.flags
          /\ "DRAINED" \in l.flags => draining
      BY <2>1, <3>3
    <3> HIDE DEF l, e, f, unlocked
    <3>6. Around(p, l, shares, e)
      BY <2>1, <3>2, <3>3, <3>4, <3>5 DEF Around
    <3>. QED  BY <1>1, <2>3, <3>6, Idle, Returned DEF e
  <2>6. CASE excl[p] # 1
    <3>1. ~draining
      BY <2>1, <2>6 DEF LockInv, DrainingIsQuiet
    <3>2. l = [lk EXCEPT !.flags = f, !.exclusivecount = excl[p] - 1]
      BY <2>1, <2>2, <2>6
    <3>3. excl[p] - 1 \in Nat \ {0}
      BY <2>2, <2>6
    <3>4. f = lk.flags /\ f \cap {"DRAINING", "DRAINED"} = {}
      BY <2>1, <3>1
    <3> HIDE DEF l, f
    <3>5. Around(p, l, shares, [excl EXCEPT ![p] = excl[p] - 1])
      BY <1>3, <2>4, <3>2, <3>3, <3>4, Recounted
    <3>. QED  BY <1>1, <2>3, <3>5, Idle, Returned
  <2>. QED  BY <2>5, <2>6
<1>4. CASE ~panics /\ excl[p] = 0
  <2>1. shares[p] > 0
    BY <1>1, <1>4 DEF LockInv, TypeOK
  <2>2. Around(p, lk, shares, excl)
    BY <1>1, Idle
  <2>3. lk.flags \cap {"DRAINING", "DRAINED"} = {}
    <3>1. lk.lockholder = p => "DRAINING" \notin lk.flags
      BY <1>4 DEF LockInv, CountsAgree, DrainingIsQuiet
    <3>. QED  BY <1>4, <3>1 DEF Barred
  <2>4. /\ Around(p, [lk EXCEPT !.sharecount = @ - 1],
                  [shares EXCEPT ![p] = @ - 1], excl)
        /\ lk.sharecount > 0 /\ lk.exclusivecount = 0
    BY <2>1, <2>2, <2>3, ShareDropped
  <2>5. l = [lk EXCEPT !.sharecount = @ - 1]
    BY <2>4
  <2>6. /\ Return(p, l, WakeWaiters(l))
        /\ shares' = [shares EXCEPT ![p] = @ - 1] /\ excl' = excl
    BY <1>4 DEF Release
  <2> HIDE DEF l
  <2>. QED  BY <1>1, <2>4, <2>5, <2>6, Idle, Returned
<1>5. excl[p] \in Nat
  BY DEF LockInv, TypeOK
<1>. QED  BY <1>2, <1>3, <1>4, <1>5

LEMMA DrainKeeps ==
  ASSUME LockInv, NEW p \in Proc, NEW x \in SUBSET ExtFlags, Drain(p, x)
  PROVE  LockInv'
<1>1. /\ pc[p] = "idle" /\ shares[p] = 0 /\ excl[p] = 0
      /\ \A r \in Proc : pc[r] # "drain"
      /\ lk.flags \cap {"DRAINING", "DRAINED"} = {}
  BY DEF Drain, Calls, Usable, HoldsNothing
<1>2. p \notin asleep
  BY <1>1, Idle
<1>3. CASE Quiet(lk) /\ GrantDrain(p, lk)
  BY <1>1, <1>2, <1>3, DrainGranted
<1>4. CASE Refuse(p, lk)
  BY <1>1, <1>4, Idle, Returned DEF Refuse, owned
<1>5. CASE AwaitDrain(p, x)
  BY <1>1, <1>5, DrainAwaited
<1>. QED  BY <1>3, <1>4, <1>5 DEF Drain

(* A process that runs again finds the lock as it is, but for the count of *)
(* those who wait; without flags to take out it is just that.              *)
LEMMA AwakeIsAwake ==
  ASSUME LockInv
  PROVE  [Awake EXCEPT !.flags = @ \ {}] = Awake
<1> DEFINE w == lk.waitcount - 1
<1>1. lk = [flags |-> lk.flags, sharecount |-> lk.sharecount,
            waitcount |-> lk.waitcount, exclusivecount |-> lk.exclusivecount,
            lockholder |-> lk.lockholder]
  BY DEF LockInv, TypeOK, LockRecord
<1>2. Awake = [lk EXCEPT !.waitcount = w]
  BY DEF Awake
<1> HIDE DEF w
<1>3. Awake = [flags |-> lk.flags, sharecount |-> lk.sharecount,
               waitcount |-> w, exclusivecount |-> lk.exclusivecount,
               lockholder |-> lk.lockholder]
  BY <1>1, <1>2
<1>4. lk.flags \ {} = lk.flags
  OBVIOUS
<1>. QED  BY <1>3, <1>4

(* Whatever wait a process comes out of, LockInv is kept.                  *)
LEMMA ResumeKeeps ==
  ASSUME LockInv, NEW p \in Proc, Resume(p)
  PROVE  LockInv'
<1> DEFINE l == [Awake EXCEPT !.flags = @ \ StageFlag(pc[p])]
<1>1. p \notin asleep /\ Placed(p, asleep)
  <2>1. p \notin asleep
    BY DEF Resume, ResumeShared, ResumeUpgrade, ResumeWantExcl,
           ResumeExclusive, ResumeDrain, Runs
  <2>. QED  BY <2>1, Places
<1>2. ext[p] \in SUBSET ExtFlags
  BY DEF LockInv, TypeOK
<1>3. pc[p] \in AcquireStages =>
        /\ Around(p, l, shares, excl)
        /\ StageFlag(pc[p]) \subseteq Awake.flags
        /\ l.flags = Awake.flags \ StageFlag(pc[p])
        /\ [l EXCEPT !.flags = @ \cup StageFlag(pc[p])] = Awake
        /\ l.sharecount = Awake.sharecount
        /\ l.exclusivecount = Awake.exclusivecount
        /\ Awake.flags \cap {"DRAINING", "DRAINED"} = {}
        /\ shares[p] = 0 /\ excl[p] = 0
        /\ pc[p] = "upgrade" => Awake.exclusivecount = 0
  <2> DEFINE F == StageFlag(pc[p])
  <2>1. ASSUME pc[p] \in AcquireStages
        PROVE  /\ Around(p, l, shares, excl)
               /\ F \subseteq Awake.flags
               /\ Awake.flags \cap {"DRAINING", "DRAINED"} = {}
               /\ shares[p] = 0 /\ excl[p] = 0
               /\ pc[p] = "upgrade" => Awake.exclusivecount = 0
    BY <2>1, Woken
  <2>2. /\ Awake = [lk EXCEPT !.waitcount = lk.waitcount - 1]
        /\ lk = [flags |-> lk.flags, sharecount |-> lk.sharecount,
                 waitcount |-> lk.waitcount,
                 exclusivecount |-> lk.exclusivecount,
                 lockholder |-> lk.lockholder]
    BY DEF Awake, LockInv, TypeOK, LockRecord
  <2> HIDE DEF F
  <2>3. ASSUME F \subseteq Awake.flags
        PROVE  /\ [Awake EXCEPT !.flags = @ \ F].flags = Awake.flags \ F
               /\ [[Awake EXCEPT !.flags = @ \ F] EXCEPT !.flags = @ \cup F]
                    = Awake
               /\ [Awake EXCEPT !.flags = @ \ F].sharecount = Awake.sharecount
               /\ [Awake EXCEPT !.flags = @ \ F].exclusivecount =
                    Awake.exclusivecount
    BY <2>2, <2>3
  <2>. QED  BY <2>1, <2>3 DEF F
<1>4. CASE ResumeShared(p)
  <2>1. /\ pc[p] = "shared" /\ pc[p] \in AcquireStages
        /\ StageFlag("shared") = {} /\ pc[p] # "upgrade"
    BY <1>4 DEF ResumeShared, Runs, AcquireStages, StageFlag
  <2>2. l = Awake
    BY <2>1, AwakeIsAwake
  <2> HIDE DEF l
  <2>3. Around(p, Awake, shares, excl)
    BY <1>3, <2>1, <2>2
  <2>4. CASE Refuse(p, Awake)
    BY <1>1, <2>3, <2>4, Returned DEF Refuse, owned
  <2>5. CASE Wait(p, ext[p], "shared", Awake, asleep, shares)
    BY <1>1, <1>2, <1>3, <2>1, <2>2, <2>5, Slept
  <2>6. CASE ~Wanted("shared", Awake) /\ GrantShared(p, Awake)
    <3>1. "HAVE_EXCL" \notin Awake.flags
      BY <2>6 DEF Wanted, Blocked, ExclFlags
    <3>. QED  BY <1>1, <1>3, <2>1, <2>3, <2>6, <3>1, GrantedShared
  <2>. QED  BY <1>4, <2>4, <2>5, <2>6 DEF ResumeShared
<1>5. CASE ResumeUpgrade(p)
  <2>1. /\ pc[p] = "upgrade" /\ pc[p] \in AcquireStages
        /\ StageFlag("upgrade") = {"WANT_UPGRADE"}
    BY <1>5 DEF ResumeUpgrade, Runs, AcquireStages, StageFlag
  <2>2. l = [Awake EXCEPT !.flags = @ \ {"WANT_UPGRADE"}]
    BY <2>1
  <2>3. \/ Refuse(p, l)
        \/ Wait(p, ext[p], "upgrade", Awake, asleep, shares)
        \/ ~Wanted("upgrade", Awake) /\ GrantExclusive(p, l, shares)
    BY <1>5, <2>2 DEF ResumeUpgrade
  <2> HIDE DEF l
  <2>4. CASE Refuse(p, l)
    BY <1>1, <1>3, <2>1, <2>4, Returned DEF Refuse, owned
  <2>5. CASE Wait(p, ext[p], "upgrade", Awake, asleep, shares)
    <3>1. /\ StageFlag("upgrade") \cap l.flags = {}
          /\ l.flags \cap {"DRAINING", "DRAINED"} = {}
      BY <1>3, <2>1
    <3>. QED  BY <1>1, <1>2, <1>3, <2>1, <2>5, <3>1, Slept
  <2>6. CASE ~Wanted("upgrade", Awake) /\ GrantExclusive(p, l, shares)
    <3>1. /\ l.sharecount = 0 /\ "WANT_UPGRADE" \notin l.flags
          /\ l.flags \cap {"DRAINING", "DRAINED"} = {}
      BY <1>3, <2>1, <2>6 DEF Wanted
    <3>. QED  BY <1>1, <1>3, <2>1, <2>6, <3>1, GrantedExclusive
  <2>. QED  BY <2>3, <2>4, <2>5, <2>6
<1>6. CASE ResumeWantExcl(p)
  <2>1. /\ pc[p] = "excl1" /\ pc[p] \in AcquireStages
        /\ StageFlag("excl1") = {}
    BY <1>6 DEF ResumeWantExcl, Runs, AcquireStages, StageFlag
  <2>2. l = Awake
    BY <2>1, AwakeIsAwake
  <2> HIDE DEF l
  <2>3. CASE Refuse(p, Awake)
    BY <1>1, <1>3, <2>1, <2>2, <2>3, Returned DEF Refuse, owned
  <2>4. CASE SeekExclusive(p, ext[p], Awake, asleep, shares)
    BY <1>1, <1>2, <1>3, <2>1, <2>2, <2>4, Sought
  <2>. QED  BY <1>6, <2>3, <2>4 DEF ResumeWantExcl
<1>7. CASE ResumeExclusive(p)
  <2>1. /\ pc[p] = "excl2" /\ pc[p] \in AcquireStages
        /\ StageFlag("excl2") = {"WANT_EXCL"} /\ pc[p] # "upgrade"
    BY <1>7 DEF ResumeExclusive, Runs, AcquireStages, StageFlag
  <2>2. l = [Awake EXCEPT !.flags = @ \ {"WANT_EXCL"}]
    BY <2>1
  <2>3. \/ Refuse(p, l)
        \/ Wait(p, ext[p], "excl2", Awake, asleep, shares)
        \/ ~Wanted("excl2", Awake) /\ GrantExclusive(p, l, shares)
    BY <1>7, <2>2 DEF ResumeExclusive
  <2> HIDE DEF l
  <2>4. CASE Refuse(p, l)
    BY <1>1, <1>3, <2>1, <2>4, Returned DEF Refuse, owned
  <2>5. CASE Wait(p, ext[p], "excl2", Awake, asleep, shares)
    <3>1. /\ StageFlag("excl2") \cap l.flags = {}
          /\ l.flags \cap {"DRAINING", "DRAINED"} = {}
      BY <1>3, <2>1
    <3>. QED  BY <1>1, <1>2, <1>3, <2>1, <2>5, <3>1, Slept
  <2>6. CASE ~Wanted("excl2", Awake) /\ GrantExclusive(p, l, shares)
    <3>1. /\ l.sharecount = 0 /\ "WANT_UPGRADE" \notin l.flags
          /\ l.flags \cap {"DRAINING", "DRAINED"} = {}
      BY <1>3, <2>1, <2>6 DEF Wanted
    <3>. QED  BY <1>1, <1>3, <2>1, <2>6, <3>1, GrantedExclusive
  <2>. QED  BY <2>3, <2>4, <2>5, <2>6
<1>8. CASE ResumeDrain(p)
  <2>1. pc[p] = "drain"
    BY <1>8 DEF ResumeDrain, Runs
  <2>2. \A r \in Proc \ {p} : pc[r] # "drain"
    BY <2>1 DEF LockInv, FlagsAgree
  <2>3. /\ shares[p] = 0 /\ excl[p] = 0
        /\ lk.flags \cap {"DRAINING", "DRAINED"} = {}
    BY <2>1 DEF LockInv, WaitersHoldNothing, DrainingIsQuiet
  <2>4. CASE /\ pc' = [pc EXCEPT ![p] = "idle"]
             /\ ext' = [ext EXCEPT ![p] = {}]
             /\ failed' = failed \ {p}
             /\ UNCHANGED <<lk, asleep, panicked, owned>>
    <3>1. /\ pc'[p] = "idle"
          /\ \A r \in Proc \ {p} : pc'[r] = pc[r]
          /\ pc' \in [Proc -> Stages \cup {"idle"}]
      BY <2>4 DEF LockInv, TypeOK
    <3>2. TypeOK'
      BY <2>4, <3>1 DEF LockInv, TypeOK, owned
    <3>3. Waiters' = Waiters
      BY <2>1, <3>1 DEF Waiters, AcquireStages
    <3>4. CountsAgree'
      BY <2>4, <3>3 DEF LockInv, CountsAgree, owned
    <3>5. FlagsAgree'
      <4>1. \A r \in Proc : /\ pc'[r] = "upgrade" <=> pc[r] = "upgrade"
                            /\ pc'[r] = "excl2" <=> pc[r] = "excl2"
        BY <2>1, <3>1
      <4>2. \A r, t \in Proc :
              pc'[r] = pc'[t] /\ pc'[r] \in {"upgrade", "excl2", "drain"}
                => r = t
        BY <3>1 DEF LockInv, FlagsAgree
      <4>. QED  BY <2>4, <4>1, <4>2 DEF LockInv, FlagsAgree
    <3>6. WaitersHoldNothing'
      BY <1>1, <2>4, <3>1 DEF LockInv, WaitersHoldNothing, TypeOK, owned
    <3>7. DrainingIsQuiet'
      BY <2>3, <2>4 DEF DrainingIsQuiet
    <3>. QED  BY <3>2, <3>4, <3>5, <3>6, <3>7 DEF LockInv
  <2>5. CASE Quiet(lk) /\ GrantDrain(p, lk)
    BY <1>1, <2>1, <2>2, <2>3, <2>5, DrainGranted
  <2>6. CASE AwaitDrain(p, ext[p])
    BY <1>2, <2>1, <2>2, <2>3, <2>6, DrainAwaited
  <2>. QED  BY <1>8, <2>4, <2>5, <2>6 DEF ResumeDrain
<1>. QED  BY <1>4, <1>5, <1>6, <1>7, <1>8 DEF Resume

(* A failing sleep moves nobody but the sleeper off the queue.             *)
LEMMA SleepFailsKeeps ==
  ASSUME LockInv, NEW p \in Proc, SleepFails(p)
  PROVE  LockInv'
<1>1. UNCHANGED <<lk, pc, ext, panicked, shares, excl>>
  BY DEF SleepFails, owned
<1>2. /\ asleep' \subseteq asleep /\ failed' = failed \cup {p}
      /\ pc[p] # "idle"
  BY DEF SleepFails
<1>3. TypeOK' /\ WaitersHoldNothing'
  BY <1>1, <1>2 DEF LockInv, TypeOK, WaitersHoldNothing
<1>4. CountsAgree' /\ FlagsAgree' /\ DrainingIsQuiet'
  BY <1>1 DEF LockInv, CountsAgree, FlagsAgree, DrainingIsQuiet, Waiters
<1>. QED  BY <1>3, <1>4 DEF LockInv

(* A decommissioned lock initialised again has nobody in it.               *)
LEMMA ReinitKeeps ==
  ASSUME LockInv, Reinit
  PROVE  LockInv'
<1>1. /\ lk' = Fresh
      /\ UNCHANGED <<pc, ext, asleep, failed, panicked, shares, excl>>
  BY DEF Reinit, owned
<1>2. /\ lk.sharecount = 0 /\ lk.exclusivecount = 0
      /\ \A p \in Proc : pc[p] = "idle"
  BY DEF Reinit, LockInv, DrainingIsQuiet
<1>3. Cardinality(Waiters) = 0
  BY <1>2, WaitersZero DEF AcquireStages
<1>4. Waiters' = Waiters
  BY <1>1 DEF Waiters
<1>5. lk' \in LockRecord
  BY <1>1 DEF Fresh, LockRecord
<1>6. TypeOK' /\ WaitersHoldNothing'
  BY <1>1, <1>5 DEF LockInv, TypeOK, WaitersHoldNothing
<1>7. CountsAgree'
  <2>1. \A p \in Proc : excl[p] = 0
    BY <1>2 DEF LockInv, CountsAgree
  <2>2. lk.sharecount = Cardinality(Held(shares))
    BY DEF LockInv, CountsAgree
  <2>. QED  BY <1>1, <1>2, <1>3, <1>4, <2>1, <2>2 DEF CountsAgree, Fresh
<1>8. FlagsAgree' /\ DrainingIsQuiet'
  BY <1>1, <1>2 DEF LockInv, FlagsAgree, DrainingIsQuiet, Fresh
<1>. QED  BY <1>6, <1>7, <1>8 DEF LockInv

LEMMA InitLock ==
  ASSUME Init
  PROVE  LockInv
<1>1. TypeOK
  BY DEF Init, TypeOK, Fresh, LockRecord
<1>2. Cardinality(Waiters) = 0
  BY WaitersZero DEF Init, AcquireStages
<1>3. Cardinality(Held(shares)) = 0
  <2>1. Held(shares) = {}
    BY DEF Init, Held
  <2>. QED  BY <2>1, FS_EmptySet
<1>. QED
  BY <1>1, <1>2, <1>3 DEF LockInv, Init, Fresh, CountsAgree, FlagsAgree,
     WaitersHoldNothing, DrainingIsQuiet

LEMMA StepKeeps ==
  ASSUME LockInv, [Next]_vars
  PROVE  LockInv'
<1>1. CASE \E p \in Proc : Request(p) \/ Resume(p) \/ SleepFails(p)
  <2>1. PICK p \in Proc : Request(p) \/ Resume(p) \/ SleepFails(p)
    BY <1>1
  <2>2. ASSUME NEW x \in SUBSET (ExtFlags \cap {"NOWAIT", "SLEEPFAIL"}),
               \/ Shared(p, x) \/ Exclusive(p, x) \/ Drain(p, x)
               \/ \E type \in {"UPGRADE", "EXCLUPGRADE"} : Upgrade(p, x, type)
        PROVE  LockInv'
    BY <2>2, SharedKeeps, ExclusiveKeeps, DrainKeeps, UpgradeKeeps
  <2>3. CASE Recurse(p) \/ Downgrade(p) \/ Unlock(p)
    BY <2>3, RecurseKeeps, DowngradeKeeps, ReleaseKeeps DEF Unlock
  <2>4. CASE Resume(p) \/ SleepFails(p)
    BY <2>4, ResumeKeeps, SleepFailsKeeps
  <2>. QED  BY <2>1, <2>2, <2>3, <2>4 DEF Request
<1>2. CASE Reinit
  BY <1>2, ReinitKeeps
<1>3. CASE UNCHANGED vars
  BY <1>3, Unmoved DEF vars, owned, LockInv, TypeOK
<1>. QED  BY <1>1, <1>2, <1>3 DEF Next

-----------------------------------------------------------------------------
(* The counters, the flags and the grants of a lock agree in every state   *)
(* that any requests, sleeps and errors of lockmgr() lead to: LockInv is   *)
(* an inductive invariant.                                                 *)
THEOREM LockInvariant == Spec => []LockInv
<1>1. Init => LockInv
  BY InitLock
<1>2. LockInv /\ [Next]_vars => LockInv'
  BY StepKeeps
<1>. QED  BY <1>1, <1>2, PTL DEF Spec

(* The types of lockmgr()'s state, with no counter ever below zero.        *)
THEOREM TypeInvariant == Spec => []TypeOK
<1>1. LockInv => TypeOK
  BY DEF LockInv
<1>. QED  BY <1>1, LockInvariant, PTL

(* An exclusive grant of lockmgr() excludes every other grant.             *)
THEOREM Exclusion == Spec => []MutualExclusion
<1>1. LockInv => MutualExclusion
  <2> SUFFICES ASSUME LockInv, NEW p \in Proc, NEW r \in Proc,
                      p # r, excl[p] > 0
               PROVE  excl[r] = 0 /\ shares[r] = 0
    BY DEF MutualExclusion
  <2>1. lk.lockholder = p /\ lk.sharecount = 0
    BY Holder
  <2>2. excl[r] = 0
    BY <2>1 DEF LockInv, CountsAgree
  <2>3. shares[r] = 0
    <3>1. shares \in [Proc -> Nat] /\ Cardinality(Held(shares)) = 0
      BY <2>1 DEF LockInv, TypeOK, CountsAgree
    <3>2. shares[r] \in Nat /\ shares[r] <= 0
      BY <3>1, HeldCount
    <3>. QED  BY <3>2
  <2>. QED  BY <2>2, <2>3
<1>. QED  BY <1>1, LockInvariant, PTL

(* Nobody gets the lock exclusively ahead of an accepted upgrade.          *)
THEOREM UpgradeIsNext == Spec => []UpgradeExcludes
<1>1. LockInv => UpgradeExcludes
  <2> SUFFICES ASSUME LockInv, NEW p \in Proc, pc[p] = "upgrade",
                      NEW r \in Proc
               PROVE  excl[r] = 0
    BY DEF UpgradeExcludes
  <2>1. lk.exclusivecount = 0
    BY DEF LockInv, FlagsAgree
  <2>. QED  BY <2>1 DEF LockInv, CountsAgree
<1>. QED  BY <1>1, LockInvariant, PTL

(* After the drainer's release lockmgr() has nobody left in the lock, so   *)
(* that its memory may be freed.                                           *)
THEOREM DrainFrees == Spec => []DrainedIsFree
<1>1. LockInv => DrainedIsFree
  <2> SUFFICES ASSUME LockInv, "DRAINED" \in lk.flags
               PROVE  /\ \A p \in Proc : /\ pc[p] = "idle"
                                         /\ shares[p] = 0 /\ excl[p] = 0
                      /\ lk.waitcount = 0
                      /\ LockStatus = "NONE"
    BY DEF DrainedIsFree
  <2>1. /\ lk.sharecount = 0 /\ lk.exclusivecount = 0
        /\ \A p \in Proc : pc[p] = "idle"
    BY DEF LockInv, DrainingIsQuiet
  <2>2. lk.waitcount = 0
    BY <2>1, WaitersZero DEF LockInv, CountsAgree, AcquireStages
  <2>3. \A p \in Proc : excl[p] = 0
    BY <2>1 DEF LockInv, CountsAgree
  <2>4. ASSUME NEW p \in Proc PROVE shares[p] = 0
    <3>1. shares \in [Proc -> Nat] /\ Cardinality(Held(shares)) = 0
      BY <2>1 DEF LockInv, TypeOK, CountsAgree
    <3>2. shares[p] \in Nat /\ shares[p] <= 0
      BY <3>1, HeldCount
    <3>. QED  BY <3>2
  <2>. QED  BY <2>1, <2>2, <2>3, <2>4 DEF LockStatus
<1>. QED  BY <1>1, LockInvariant, PTL

-----------------------------------------------------------------------------
(* lockmgr() implements RWLock. The upgrader of the abstract lock is the   *)
(* process behind LK_WANT_UPGRADE, its state of draining the two flags.    *)

UpgraderKnown ==
  /\ Upgrader \in Proc \cup {NoProc}
  /\ \A p \in Proc : pc[p] = "upgrade" <=> Upgrader = p
  /\ "WANT_UPGRADE" \in lk.flags <=> Upgrader # NoProc

LEMMA UpgraderIs == LockInv => UpgraderKnown
<1> SUFFICES ASSUME LockInv
             PROVE  /\ Upgrader \in Proc \cup {NoProc}
                    /\ \A p \in Proc : pc[p] = "upgrade" <=> Upgrader = p
                    /\ "WANT_UPGRADE" \in lk.flags <=> Upgrader # NoProc
  BY DEF UpgraderKnown
<1>1. CASE \E p \in Proc : pc[p] = "upgrade"
  <2>1. PICK p \in Proc : pc[p] = "upgrade"
    BY <1>1
  <2>2. \A r \in Proc : pc[r] = "upgrade" <=> r = p
    BY <2>1 DEF LockInv, FlagsAgree
  <2>3. Upgrader \in Proc /\ pc[Upgrader] = "upgrade"
    BY <1>1 DEF Upgrader
  <2>. QED  BY <1>1, <2>2, <2>3, ProcAssumption DEF LockInv, FlagsAgree
<1>2. CASE ~\E p \in Proc : pc[p] = "upgrade"
  BY <1>2, ProcAssumption DEF Upgrader, LockInv, FlagsAgree
<1>. QED  BY <1>1, <1>2

LEMMA UpgraderIsNext == LockInv' => UpgraderKnown'
BY UpgraderIs, PTL

(* What the fields of the lock say of the grants. *)
LEMMA Fields ==
  ASSUME LockInv
  PROVE  /\ "HAVE_EXCL" \notin lk.flags => RW!NobodyExclusive
         /\ lk.sharecount = 0 => \A r \in Proc : shares[r] = 0
         /\ Drained = "no" <=> lk.flags \cap {"DRAINING", "DRAINED"} = {}
         /\ \A p \in Proc : excl[p] > 0 => Drained # "retired"
<1>1. "HAVE_EXCL" \notin lk.flags => RW!NobodyExclusive
  BY DEF LockInv, FlagsAgree, CountsAgree, RW!NobodyExclusive
<1>2. ASSUME lk.sharecount = 0, NEW r \in Proc
      PROVE  shares[r] = 0
  <2>1. shares \in [Proc -> Nat] /\ Cardinality(Held(shares)) = 0
    BY <1>2 DEF LockInv, TypeOK, CountsAgree
  <2>2. shares[r] \in Nat /\ shares[r] <= 0
    BY <2>1, HeldCount
  <2>. QED  BY <2>2
<1>3. Drained = "no" <=> lk.flags \cap {"DRAINING", "DRAINED"} = {}
  BY DEF Drained
<1>4. ASSUME NEW p \in Proc, excl[p] > 0
      PROVE  Drained # "retired"
  BY <1>4, Holder DEF Drained
<1>. QED  BY <1>1, <1>2, <1>3, <1>4

(* A step that moves no process into or out of an upgrade leaves the       *)
(* upgrader as it was, one that leaves the two flags the draining.         *)
LEMMA UpgraderStays ==
  ASSUME LockInv, LockInv',
         \A r \in Proc : pc'[r] = "upgrade" <=> pc[r] = "upgrade"
  PROVE  Upgrader' = Upgrader
BY UpgraderIs, UpgraderIsNext, ProcAssumption DEF UpgraderKnown

LEMMA ReturnMaps ==
  ASSUME LockInv, LockInv', NEW p \in Proc, NEW l, NEW q, l \in LockRecord,
         Return(p, l, q)
  PROVE  /\ pc[p] # "upgrade" => Upgrader' = Upgrader
         /\ pc[p] = "upgrade" => Upgrader' = NoProc
         /\ \A f \in {"DRAINING", "DRAINED"} : f \in lk'.flags <=> f \in l.flags
         /\ l.flags \cap {"DRAINING", "DRAINED"} =
              lk.flags \cap {"DRAINING", "DRAINED"} => Drained' = Drained
<1>1. pc'[p] = "idle" /\ \A r \in Proc \ {p} : pc'[r] = pc[r]
  BY DEF Return, LockInv, TypeOK
<1>2. pc[p] # "upgrade" => Upgrader' = Upgrader
  BY <1>1, UpgraderStays
<1>3. pc[p] = "upgrade" => Upgrader' = NoProc
  BY <1>1, UpgraderIs, UpgraderIsNext DEF UpgraderKnown
<1>4. \A f \in {"DRAINING", "DRAINED"} : f \in lk'.flags <=> f \in l.flags
  BY DEF Return, LockRecord
<1>. QED  BY <1>2, <1>3, <1>4 DEF Drained

LEMMA WaitMaps ==
  ASSUME LockInv, LockInv', NEW p \in Proc, NEW x, NEW stage, NEW l, NEW q,
         NEW s, l \in LockRecord, Wait(p, x, stage, l, q, s),
         l.flags \cap {"DRAINING", "DRAINED"} =
           lk.flags \cap {"DRAINING", "DRAINED"}
  PROVE  /\ Drained' = Drained /\ excl' = excl /\ shares' = s
         /\ (pc[p] = "upgrade" <=> stage = "upgrade") => Upgrader' = Upgrader
         /\ stage = "upgrade" => Upgrader' = p
<1>1. pc'[p] = stage /\ \A r \in Proc \ {p} : pc'[r] = pc[r]
  BY DEF Wait, LockInv, TypeOK
<1>2. (pc[p] = "upgrade" <=> stage = "upgrade") => Upgrader' = Upgrader
  BY <1>1, UpgraderStays
<1>3. stage = "upgrade" => Upgrader' = p
  BY <1>1, UpgraderIsNext DEF UpgraderKnown
<1>4. lk'.flags = l.flags
  BY DEF Wait, LockRecord
<1>. QED  BY <1>2, <1>3, <1>4 DEF Wait, Drained

(* The step of the abstract lock, or a stuttering one. *)
Maps == [RW!RWNext]_(RW!rwvars)

LEMMA NoShares ==
  ASSUME NEW s \in [Proc -> Nat], Cardinality(Held(s)) = 0
  PROVE  \A r \in Proc : s[r] = 0
<1> SUFFICES ASSUME NEW r \in Proc PROVE s[r] = 0
  OBVIOUS
<1>1. s[r] \in Nat /\ s[r] <= 0
  BY HeldCount
<1>. QED  BY <1>1

LEMMA Stutters ==
  ASSUME LockInv, LockInv', UNCHANGED <<shares, excl>>, Drained' = Drained,
         \A r \in Proc : pc'[r] = "upgrade" <=> pc[r] = "upgrade"
  PROVE  Maps
BY UpgraderStays DEF Maps, RW!rwvars

LEMMA PanicMaps ==
  ASSUME LockInv, LockInv', Panic
  PROVE  Maps
BY Stutters DEF Panic, owned, Drained

LEMMA RefuseMaps ==
  ASSUME LockInv, LockInv', NEW p \in Proc, NEW l \in LockRecord,
         l.flags \cap {"DRAINING", "DRAINED"} =
           lk.flags \cap {"DRAINING", "DRAINED"},
         Refuse(p, l)
  PROVE  Maps
<1>1. Return(p, l, asleep) /\ shares' = shares /\ excl' = excl
  BY DEF Refuse, owned
<1>2. Drained' = Drained
  BY <1>1, ReturnMaps
<1>3. CASE pc[p] = "upgrade"
  <2>1. Upgrader = p
    BY <1>3, UpgraderIs DEF UpgraderKnown
  <2>2. Upgrader' = NoProc
    BY <1>1, <1>3, ReturnMaps
  <2>3. RW!AbandonPromotion(p)
    BY <1>1, <1>2, <2>1, <2>2 DEF RW!AbandonPromotion
  <2>. QED  BY <2>3 DEF Maps, RW!RWNext
<1>4. CASE pc[p] # "upgrade"
  BY <1>1, <1>2, <1>4, ReturnMaps DEF Maps, RW!rwvars
<1>. QED  BY <1>3, <1>4

LEMMA SleepMaps ==
  ASSUME LockInv, LockInv', NEW p \in Proc, NEW x, NEW stage,
         NEW l \in LockRecord, Wait(p, x, stage, l, asleep, shares),
         l.flags \cap {"DRAINING", "DRAINED"} =
           lk.flags \cap {"DRAINING", "DRAINED"},
         pc[p] = "upgrade" <=> stage = "upgrade"
  PROVE  Maps
<1>1. UNCHANGED <<shares, excl>> /\ Drained' = Drained /\ Upgrader' = Upgrader
  BY WaitMaps
<1>. QED  BY <1>1 DEF Maps, RW!rwvars

LEMMA GrantSharedMaps ==
  ASSUME LockInv, LockInv', NEW p \in Proc, NEW l \in LockRecord,
         l.flags = lk.flags, ~Blocked(l), pc[p] # "upgrade",
         lk.flags \cap {"DRAINING", "DRAINED"} = {},
         GrantShared(p, l)
  PROVE  Maps
<1> DEFINE m == [l EXCEPT !.sharecount = @ + 1]
<1>1. /\ m \in LockRecord /\ m.flags = lk.flags
      /\ Return(p, m, asleep)
      /\ shares' = [shares EXCEPT ![p] = @ + 1] /\ excl' = excl
  BY DEF GrantShared, LockRecord
<1> HIDE DEF m
<1>2. Drained' = Drained /\ Upgrader' = Upgrader
  BY <1>1, ReturnMaps
<1>3. RW!Free
  BY Fields, UpgraderIs DEF RW!Free, Blocked, ExclFlags, UpgraderKnown
<1>4. RW!GetShared(p)
  BY <1>1, <1>2, <1>3 DEF RW!GetShared
<1>. QED  BY <1>4 DEF Maps, RW!RWNext

(* An exclusive grant: of an exclusive request, of an upgrade that waited, *)
(* or of one that did not have to.                                         *)
LEMMA GrantExclusiveMaps ==
  ASSUME LockInv, LockInv', NEW p \in Proc, NEW l \in LockRecord,
         NEW s, GrantExclusive(p, l, s),
         l.flags \cap {"DRAINING", "DRAINED"} =
           lk.flags \cap {"DRAINING", "DRAINED"}
  PROVE  \/ Panic
         \/ /\ l.exclusivecount = 0
            /\ excl' = [excl EXCEPT ![p] = 1] /\ shares' = s
            /\ Drained' = Drained
            /\ pc[p] # "upgrade" => Upgrader' = Upgrader
            /\ pc[p] = "upgrade" => Upgrader' = NoProc
<1>1. CASE l.exclusivecount # 0
  BY <1>1 DEF GrantExclusive
<1>2. CASE l.exclusivecount = 0
  <2> DEFINE m == [l EXCEPT !.flags = @ \cup {"HAVE_EXCL"},
                            !.lockholder = p,
                            !.exclusivecount = 1]
  <2>1. Return(p, m, asleep) /\ excl' = [excl EXCEPT ![p] = 1] /\ shares' = s
    BY <1>2 DEF GrantExclusive
  <2>2. m \in LockRecord /\ m.flags = l.flags \cup {"HAVE_EXCL"}
    BY DEF LockRecord, InternalFlags, ExclFlags
  <2> HIDE DEF m
  <2>3. /\ Drained' = Drained
        /\ pc[p] # "upgrade" => Upgrader' = Upgrader
        /\ pc[p] = "upgrade" => Upgrader' = NoProc
    BY <2>1, <2>2, ReturnMaps
  <2>. QED  BY <1>2, <2>1, <2>3
<1>. QED  BY <1>1, <1>2

LEMMA SeekMaps ==
  ASSUME LockInv, LockInv', NEW p \in Proc, NEW x, NEW l \in LockRecord,
         pc[p] \in {"idle", "excl1"},
         l.flags = lk.flags, l.sharecount = lk.sharecount,
         lk.flags \cap {"DRAINING", "DRAINED"} = {},
         SeekExclusive(p, x, l, asleep, shares)
  PROVE  Maps
<1>1. CASE Wanted("excl1", l)
  BY <1>1, SleepMaps DEF SeekExclusive
<1>2. CASE ~Wanted("excl1", l) /\ Wanted("excl2", l)
  <2>1. Wait(p, x, "excl2", [l EXCEPT !.flags = @ \cup {"WANT_EXCL"}],
             asleep, shares)
    BY <1>2 DEF SeekExclusive
  <2> DEFINE m == [l EXCEPT !.flags = @ \cup {"WANT_EXCL"}]
  <2>2. m \in LockRecord /\ m.flags = l.flags \cup {"WANT_EXCL"}
    BY DEF LockRecord, InternalFlags, ExclFlags
  <2> HIDE DEF m
  <2>. QED  BY <2>1, <2>2, SleepMaps DEF m
<1>3. CASE ~Wanted("excl1", l) /\ ~Wanted("excl2", l)
  <2>1. GrantExclusive(p, l, shares)
    BY <1>3 DEF SeekExclusive
  <2>2. /\ lk.sharecount = 0
        /\ "HAVE_EXCL" \notin lk.flags /\ "WANT_UPGRADE" \notin lk.flags
    BY <1>3 DEF Wanted
  <2>3. RW!Free /\ \A r \in Proc : shares[r] = 0
    BY <2>2, Fields, UpgraderIs DEF RW!Free, UpgraderKnown
  <2>4. CASE Panic
    BY <2>4, PanicMaps
  <2>5. CASE /\ excl' = [excl EXCEPT ![p] = 1] /\ shares' = shares
             /\ Drained' = Drained /\ Upgrader' = Upgrader
    <3>1. RW!GetExclusive(p)
      BY <2>3, <2>5 DEF RW!GetExclusive
    <3>. QED  BY <3>1 DEF Maps, RW!RWNext
  <2>. QED  BY <2>1, <2>4, <2>5, GrantExclusiveMaps
<1>. QED  BY <1>1, <1>2, <1>3

LEMMA AwaitDrainMaps ==
  ASSUME LockInv, LockInv', NEW p \in Proc, NEW x, pc[p] # "upgrade",
         AwaitDrain(p, x)
  PROVE  Maps
<1>1. \A r \in Proc : pc'[r] = "upgrade" <=> pc[r] = "upgrade"
  BY DEF AwaitDrain, LockInv, TypeOK
<1>2. lk'.flags = lk.flags \cup {"WAITDRAIN"}
  BY DEF AwaitDrain, LockInv, TypeOK, LockRecord
<1>3. Drained' = Drained
  BY <1>2 DEF Drained
<1>. QED  BY <1>1, <1>3, Stutters DEF AwaitDrain, owned

LEMMA GrantDrainMaps ==
  ASSUME LockInv, LockInv', NEW p \in Proc, pc[p] # "upgrade",
         Quiet(lk), lk.flags \cap {"DRAINING", "DRAINED"} = {},
         GrantDrain(p, lk)
  PROVE  Maps
<1> DEFINE m == [lk EXCEPT !.flags = @ \cup {"DRAINING", "HAVE_EXCL"},
                           !.lockholder = p,
                           !.exclusivecount = 1]
<1>1. /\ Return(p, m, asleep)
      /\ excl' = [excl EXCEPT ![p] = 1] /\ shares' = shares
  BY DEF GrantDrain
<1>2. m \in LockRecord /\ m.flags = lk.flags \cup {"DRAINING", "HAVE_EXCL"}
  BY DEF LockInv, TypeOK, LockRecord, InternalFlags, ExclFlags
<1> HIDE DEF m
<1>3. /\ Upgrader' = Upgrader
      /\ "DRAINING" \in lk'.flags
  BY <1>1, <1>2, ReturnMaps
<1>4. Drained' = "held"
  BY <1>3 DEF Drained
<1>5. RW!Free /\ \A r \in Proc : shares[r] = 0
  BY Fields, UpgraderIs
  DEF Quiet, Blocked, ExclFlags, RW!Free, UpgraderKnown
<1>6. RW!GetDrained(p)
  BY <1>1, <1>3, <1>4, <1>5 DEF RW!GetDrained
<1>. QED  BY <1>6 DEF Maps, RW!RWNext

LEMMA UpgradeMaps ==
  ASSUME LockInv, LockInv', NEW p \in Proc, NEW x,
         NEW type \in {"UPGRADE", "EXCLUPGRADE"}, Upgrade(p, x, type)
  PROVE  Maps
<1> DEFINE rival == "WANT_UPGRADE" \in lk.flags
           l == [lk EXCEPT !.sharecount = @ - 1]
           s == [shares EXCEPT ![p] = @ - 1]
           panics == Barred(p, type) \/ lk.lockholder = p \/ lk.sharecount <= 0
<1>1. pc[p] = "idle" /\ shares[p] = 1
  BY DEF Upgrade, Calls
<1>2. CASE panics
  BY <1>2, PanicMaps DEF Upgrade
<1>3. CASE ~panics
  <2>1. lk.flags \cap {"DRAINING", "DRAINED"} = {}
    BY <1>3 DEF Barred
  <2>2. Around(p, l, s, excl) /\ lk.exclusivecount = 0
    BY <1>1, <2>1, Idle, ShareDropped
  <2>3. l \in LockRecord /\ l.flags = lk.flags
    BY <2>2 DEF Around, LockInv, TypeOK, LockRecord
  <2>4. /\ s = [shares EXCEPT ![p] = 0] /\ s = [shares EXCEPT ![p] = @ - 1]
        /\ s \in [Proc -> Nat]
    BY <1>1, <2>2 DEF Around
  <2>5. pc[p] # "upgrade"
    BY <1>1
  <2>6. ASSUME shares' = s, excl' = excl, Drained' = Drained,
               Upgrader' = Upgrader
        PROVE  Maps
    <3>1. RW!PutShared(p)
      BY <1>1, <2>4, <2>6 DEF RW!PutShared
    <3>. QED  BY <3>1 DEF Maps, RW!RWNext
  <2>7. "HAVE_EXCL" \notin lk.flags
    BY <2>2 DEF LockInv, FlagsAgree
  <2>8. ~rival => RW!Free
    BY <2>1, <2>7, Fields, UpgraderIs DEF RW!Free, UpgraderKnown
  <2>9. CASE Return(p, l, asleep) /\ shares' = s /\ UNCHANGED excl
    <3> HIDE DEF l, s
    <3>. QED  BY <2>3, <2>5, <2>6, <2>9, ReturnMaps
  <2>10. CASE rival /\ \E q \in {WakeWaiters(l), asleep} :
                SeekExclusive(p, x, l, q, s)
    <3> HIDE DEF l, s
    <3>1. PICK q \in {WakeWaiters(l), asleep} : SeekExclusive(p, x, l, q, s)
      BY <2>10
    <3> DEFINE m == [l EXCEPT !.flags = @ \cup {"WANT_EXCL"}]
    <3>2. \/ Wait(p, x, "excl1", l, q, s)
          \/ Wait(p, x, "excl2", m, q, s)
      BY <2>3, <2>10, <3>1 DEF SeekExclusive, Wanted
    <3>3. m \in LockRecord /\ m.flags = l.flags \cup {"WANT_EXCL"}
      BY <2>3 DEF LockRecord, InternalFlags, ExclFlags
    <3> HIDE DEF m
    <3>4. CASE Wait(p, x, "excl1", l, q, s)
      BY <2>3, <2>5, <2>6, <3>4, WaitMaps
    <3>5. CASE Wait(p, x, "excl2", m, q, s)
      BY <2>3, <2>5, <2>6, <3>3, <3>5, WaitMaps
    <3>. QED  BY <3>2, <3>4, <3>5
  <2>11. CASE ~rival /\ Wait(p, x, "upgrade",
                  [l EXCEPT !.flags = @ \cup {"WANT_UPGRADE"}], asleep, s)
    <3> DEFINE m == [l EXCEPT !.flags = @ \cup {"WANT_UPGRADE"}]
    <3> HIDE DEF l, s
    <3>1. m \in LockRecord /\ m.flags = l.flags \cup {"WANT_UPGRADE"}
      BY <2>3 DEF LockRecord, InternalFlags, ExclFlags
    <3>2. Wait(p, x, "upgrade", m, asleep, s)
      BY <2>11
    <3> HIDE DEF m
    <3>3. shares' = s /\ excl' = excl /\ Drained' = Drained /\ Upgrader' = p
      BY <2>3, <3>1, <3>2, WaitMaps
    <3>4. RW!Promote(p)
      BY <1>1, <2>4, <2>8, <2>11, <3>3 DEF RW!Promote
    <3>. QED  BY <3>4 DEF Maps, RW!RWNext
  <2>12. CASE ~rival /\ ~Wanted("upgrade", l) /\ GrantExclusive(p, l, s)
    <3> HIDE DEF l, s
    <3>1. l.sharecount = 0
      BY <2>12 DEF Wanted
    <3>2. \A r \in Proc : s[r] = 0
      BY <2>2, <2>4, <3>1, NoShares DEF Around
    <3>3. RW!NobodyElseShares(p)
      BY <2>4, <3>2 DEF RW!NobodyElseShares
    <3>4. \/ Panic
          \/ /\ excl' = [excl EXCEPT ![p] = 1] /\ shares' = s
             /\ Drained' = Drained /\ Upgrader' = Upgrader
      BY <2>3, <2>5, <2>12, GrantExclusiveMaps
    <3>5. CASE Panic
      BY <3>5, PanicMaps
    <3>6. CASE /\ excl' = [excl EXCEPT ![p] = 1] /\ shares' = s
               /\ Drained' = Drained /\ Upgrader' = Upgrader
      <4>1. RW!Promote(p)
        BY <1>1, <2>4, <2>8, <2>12, <3>3, <3>6 DEF RW!Promote
      <4>. QED  BY <4>1 DEF Maps, RW!RWNext
    <3>. QED  BY <3>4, <3>5, <3>6
  <2>. QED  BY <1>3, <2>9, <2>10, <2>11, <2>12 DEF Upgrade
<1>. QED  BY <1>2, <1>3

LEMMA DowngradeMaps ==
  ASSUME LockInv, LockInv', NEW p \in Proc, Downgrade(p)
  PROVE  Maps
<1>1. pc[p] = "idle" /\ excl[p] > 0 /\ ~Barred(p, "DOWNGRADE")
  BY DEF Downgrade, Calls
<1>2. PICK more \in {0, 1} : DowngradeTo(p, more)
  BY DEF Downgrade
<1>3. /\ lk.lockholder = p /\ lk.exclusivecount = excl[p] /\ lk.sharecount = 0
  BY <1>1, Holder
<1> DEFINE m == [lk EXCEPT !.sharecount = @ + lk.exclusivecount + more,
                           !.exclusivecount = 0,
                           !.flags = @ \ {"HAVE_EXCL"},
                           !.lockholder = NoProc]
<1>4. /\ Return(p, m, WakeWaiters(lk))
      /\ shares' = [shares EXCEPT ![p] = @ + excl[p] + more]
      /\ excl' = [excl EXCEPT ![p] = 0]
  BY <1>1, <1>2, <1>3 DEF DowngradeTo
<1>5. m \in LockRecord /\ m.flags = lk.flags \ {"HAVE_EXCL"}
  <2> DEFINE c == lk.sharecount + lk.exclusivecount + more
             k == lk.flags \ {"HAVE_EXCL"}
  <2>1. lk \in LockRecord /\ c \in Nat /\ k \in SUBSET InternalFlags
    BY DEF LockInv, TypeOK, LockRecord
  <2>2. m = [lk EXCEPT !.sharecount = c, !.exclusivecount = 0,
                       !.flags = k, !.lockholder = NoProc]
    BY <2>1 DEF LockRecord
  <2> HIDE DEF c, k, m
  <2>3. m \in LockRecord /\ m.flags = k
    BY <2>1, <2>2 DEF LockRecord
  <2>. QED  BY <2>3 DEF k
<1>6. Drained = "no"
  BY <1>1, Fields DEF Barred
<1> HIDE DEF m
<1>7. Drained' = Drained /\ Upgrader' = Upgrader
  BY <1>1, <1>4, <1>5, ReturnMaps
<1>8. RW!Demote(p)
  BY <1>1, <1>4, <1>6, <1>7 DEF RW!Demote
<1>. QED  BY <1>8 DEF Maps, RW!RWNext

LEMMA RecurseMaps ==
  ASSUME LockInv, LockInv', NEW p \in Proc, Recurse(p)
  PROVE  Maps
<1> DEFINE m == [lk EXCEPT !.exclusivecount = @ + 1]
<1>1. /\ pc[p] = "idle" /\ excl[p] > 0 /\ ~Barred(p, "EXCLUSIVE")
      /\ Return(p, m, asleep)
      /\ excl' = [excl EXCEPT ![p] = @ + 1] /\ shares' = shares
  BY BoundAssumption DEF Recurse, Calls
<1>2. m \in LockRecord /\ m.flags = lk.flags
  BY DEF LockInv, TypeOK, LockRecord
<1>3. Drained = "no"
  BY <1>1, Fields DEF Barred
<1> HIDE DEF m
<1>4. Drained' = Drained /\ Upgrader' = Upgrader
  BY <1>1, <1>2, ReturnMaps
<1>5. RW!GetAgain(p)
  BY <1>1, <1>3, <1>4 DEF RW!GetAgain
<1>. QED  BY <1>5 DEF Maps, RW!RWNext

LEMMA ReleaseMaps ==
  ASSUME LockInv, LockInv', NEW p \in Proc, NEW reenable \in BOOLEAN,
         Release(p, reenable)
  PROVE  Maps
<1> DEFINE draining == "DRAINING" \in lk.flags
           f == IF ~draining THEN lk.flags
                ELSE (lk.flags \ {"DRAINING"})
                     \cup (IF reenable THEN {} ELSE {"DRAINED"})
           x == lk.exclusivecount - 1
           unlocked == [lk EXCEPT !.flags = f \ {"HAVE_EXCL"},
                                  !.exclusivecount = 0,
                                  !.lockholder = NoProc]
           l == IF lk.exclusivecount # 0
                THEN IF x = 0 THEN unlocked
                     ELSE [lk EXCEPT !.flags = f, !.exclusivecount = x]
                ELSE IF lk.sharecount # 0 THEN [lk EXCEPT !.sharecount = @ - 1]
                ELSE lk
           panics == \/ Barred(p, "RELEASE")
                     \/ lk.exclusivecount # 0 /\ lk.lockholder # p
<1>1. /\ pc[p] = "idle" /\ (shares[p] # 0 \/ excl[p] # 0)
      /\ shares[p] \in Nat /\ excl[p] \in Nat
  BY DEF Release, Calls, HoldsNothing, LockInv, TypeOK
<1>2. CASE panics
  BY <1>2, PanicMaps DEF Release
<1>3. f \in SUBSET InternalFlags /\ lk \in LockRecord
  BY DEF LockInv, TypeOK, LockRecord, InternalFlags
<1>4. CASE ~panics /\ excl[p] > 0
  <2>1. /\ lk.lockholder = p /\ lk.exclusivecount = excl[p]
        /\ "DRAINED" \notin lk.flags
    BY <1>4, Holder
  <2>2. /\ Return(p, l, WakeWaiters(l)) /\ shares' = shares
        /\ excl' = [excl EXCEPT ![p] = @ - 1]
    BY <1>4 DEF Release
  <2>3. /\ l \in LockRecord
        /\ \A k \in {"DRAINING", "DRAINED"} : k \in l.flags <=> k \in f
    <3>1. \/ l = unlocked
          \/ l = [lk EXCEPT !.flags = f, !.exclusivecount = x] /\ x \in Nat
      BY <1>1, <1>4, <2>1
    <3> DEFINE g == f \ {"HAVE_EXCL"}
    <3>2. g \in SUBSET InternalFlags
      BY <1>3
    <3>3. \A k \in {"DRAINING", "DRAINED"} : k \in g <=> k \in f
      OBVIOUS
    <3> HIDE DEF f, g, x, l
    <3>4. CASE l = [lk EXCEPT !.flags = g, !.exclusivecount = 0,
                              !.lockholder = NoProc]
      BY <1>3, <3>2, <3>3, <3>4 DEF LockRecord
    <3>5. CASE l = [lk EXCEPT !.flags = f, !.exclusivecount = x] /\ x \in Nat
      BY <1>3, <3>5 DEF LockRecord
    <3>. QED  BY <3>1, <3>4, <3>5 DEF g
  <2> HIDE DEF l
  <2>4. Upgrader' = Upgrader
    BY <1>1, <2>2, <2>3, ReturnMaps
  <2>5. \A k \in {"DRAINING", "DRAINED"} : k \in lk'.flags <=> k \in f
    BY <2>2, <2>3, ReturnMaps
  <2>6. CASE draining
    <3>1. Drained = "held" /\ Drained' \in {"no", "retired"}
      BY <2>1, <2>5, <2>6 DEF Drained
    <3>2. RW!PutExclusive(p)
      BY <1>4, <2>2, <2>4, <3>1 DEF RW!PutExclusive
    <3>. QED  BY <3>2 DEF Maps, RW!RWNext
  <2>7. CASE ~draining
    <3>1. Drained = "no" /\ Drained' = "no"
      BY <2>1, <2>5, <2>7 DEF Drained
    <3>2. RW!PutExclusive(p)
      BY <1>4, <2>2, <2>4, <3>1 DEF RW!PutExclusive
    <3>. QED  BY <3>2 DEF Maps, RW!RWNext
  <2>. QED  BY <2>6, <2>7
<1>5. CASE ~panics /\ excl[p] = 0
  <2>1. lk.flags \cap {"DRAINING", "DRAINED"} = {}
    <3>1. lk.lockholder = p => "DRAINING" \notin lk.flags
      BY <1>5 DEF LockInv, CountsAgree, DrainingIsQuiet
    <3>. QED  BY <1>5, <3>1 DEF Barred
  <2>2. lk.sharecount > 0 /\ lk.exclusivecount = 0
    <3>1. shares[p] > 0 /\ Around(p, lk, shares, excl)
      BY <1>1, <1>5, Idle
    <3>. QED  BY <2>1, <3>1, ShareDropped
  <2>3. l = [lk EXCEPT !.sharecount = @ - 1] /\ l \in LockRecord
    BY <1>3, <2>2 DEF LockRecord
  <2>4. l.flags = lk.flags
    BY <1>3, <2>3 DEF LockRecord
  <2>5. /\ Return(p, l, WakeWaiters(l))
        /\ shares' = [shares EXCEPT ![p] = @ - 1] /\ excl' = excl
    BY <1>5 DEF Release
  <2> HIDE DEF l
  <2>6. Drained' = Drained /\ Upgrader' = Upgrader
    BY <1>1, <2>3, <2>4, <2>5, ReturnMaps
  <2>7. RW!PutShared(p)
    BY <1>1, <1>5, <2>5, <2>6 DEF RW!PutShared
  <2>. QED  BY <2>7 DEF Maps, RW!RWNext
<1>. QED  BY <1>1, <1>2, <1>4, <1>5

LEMMA RequestMaps ==
  ASSUME LockInv, LockInv', NEW p \in Proc, Request(p)
  PROVE  Maps
<1>1. lk \in LockRecord
  BY DEF LockInv, TypeOK
<1>2. ASSUME NEW x, Shared(p, x)
      PROVE  Maps
  <2>1. pc[p] = "idle" /\ lk.flags \cap {"DRAINING", "DRAINED"} = {}
    BY <1>2 DEF Shared, Calls, Usable
  <2>2. \/ ~Blocked(lk) /\ GrantShared(p, lk)
        \/ Refuse(p, lk)
        \/ Wait(p, x, "shared", lk, asleep, shares)
    BY <1>2 DEF Shared
  <2>3. CASE ~Blocked(lk) /\ GrantShared(p, lk)
    BY <1>1, <2>1, <2>3, GrantSharedMaps
  <2>4. CASE Refuse(p, lk)
    BY <1>1, <2>4, RefuseMaps
  <2>5. CASE Wait(p, x, "shared", lk, asleep, shares)
    BY <1>1, <2>1, <2>5, SleepMaps
  <2>. QED  BY <2>2, <2>3, <2>4, <2>5
<1>3. ASSUME NEW x, Exclusive(p, x)
      PROVE  Maps
  <2>1. pc[p] = "idle" /\ lk.flags \cap {"DRAINING", "DRAINED"} = {}
    BY <1>3 DEF Exclusive, Calls, Usable
  <2>2. CASE Refuse(p, lk)
    BY <1>1, <2>2, RefuseMaps
  <2>3. CASE SeekExclusive(p, x, lk, asleep, shares)
    BY <1>1, <2>1, <2>3, SeekMaps
  <2>. QED  BY <1>3, <2>2, <2>3 DEF Exclusive
<1>4. ASSUME NEW x, Drain(p, x)
      PROVE  Maps
  <2>1. pc[p] = "idle" /\ lk.flags \cap {"DRAINING", "DRAINED"} = {}
    BY <1>4 DEF Drain, Calls, Usable
  <2>2. CASE Quiet(lk) /\ GrantDrain(p, lk)
    BY <2>1, <2>2, GrantDrainMaps
  <2>3. CASE Refuse(p, lk)
    BY <1>1, <2>3, RefuseMaps
  <2>4. CASE AwaitDrain(p, x)
    BY <2>1, <2>4, AwaitDrainMaps
  <2>. QED  BY <1>4, <2>2, <2>3, <2>4 DEF Drain
<1>. QED
  BY <1>2, <1>3, <1>4, UpgradeMaps, RecurseMaps, DowngradeMaps, ReleaseMaps
  DEF Request, Unlock

LEMMA ResumeMaps ==
  ASSUME LockInv, LockInv', NEW p \in Proc, Resume(p)
  PROVE  Maps
<1>1. lk \in LockRecord /\ lk.waitcount \in Nat
  BY DEF LockInv, TypeOK, LockRecord
<1>2. ASSUME pc[p] \in AcquireStages
      PROVE  /\ Awake \in LockRecord
             /\ Awake.flags = lk.flags /\ Awake.sharecount = lk.sharecount
             /\ lk.flags \cap {"DRAINING", "DRAINED"} = {}
  <2>1. lk.waitcount = Cardinality(Waiters \ {p}) + 1
        /\ Cardinality(Waiters \ {p}) \in Nat
    BY <1>2, OtherWaiters DEF LockInv, CountsAgree, TypeOK, LockRecord
  <2>2. lk.waitcount - 1 \in Nat
    BY <2>1
  <2>3. pc[p] # "idle"
    BY <1>2 DEF AcquireStages
  <2>. QED  BY <1>1, <2>2, <2>3 DEF Awake, LockRecord, LockInv, DrainingIsQuiet
<1>3. ASSUME NEW f \in {"WANT_UPGRADE", "WANT_EXCL"},
             pc[p] \in AcquireStages
      PROVE  LET l == [Awake EXCEPT !.flags = @ \ {f}]
             IN  /\ l \in LockRecord
                 /\ l.flags \cap {"DRAINING", "DRAINED"} = {}
                 /\ l.sharecount = lk.sharecount
                 /\ l.flags = lk.flags \ {f}
  BY <1>2, <1>3 DEF LockRecord
<1>4. CASE ResumeShared(p)
  <2>1. pc[p] = "shared" /\ pc[p] \in AcquireStages
    BY <1>4 DEF ResumeShared, Runs, AcquireStages
  <2>2. \/ Refuse(p, Awake)
        \/ Wait(p, ext[p], "shared", Awake, asleep, shares)
        \/ ~Blocked(Awake) /\ GrantShared(p, Awake)
    BY <1>4 DEF ResumeShared, Wanted
  <2>3. CASE Refuse(p, Awake)
    BY <1>2, <2>1, <2>3, RefuseMaps
  <2>4. CASE Wait(p, ext[p], "shared", Awake, asleep, shares)
    BY <1>2, <2>1, <2>4, SleepMaps
  <2>5. CASE ~Blocked(Awake) /\ GrantShared(p, Awake)
    BY <1>2, <2>1, <2>5, GrantSharedMaps
  <2>. QED  BY <2>2, <2>3, <2>4, <2>5
<1>5. CASE ResumeUpgrade(p)
  <2> DEFINE l == [Awake EXCEPT !.flags = @ \ {"WANT_UPGRADE"}]
  <2>1. pc[p] = "upgrade" /\ pc[p] \in AcquireStages
    BY <1>5 DEF ResumeUpgrade, Runs, AcquireStages
  <2>2. \/ Refuse(p, l)
        \/ Wait(p, ext[p], "upgrade", Awake, asleep, shares)
        \/ ~Wanted("upgrade", Awake) /\ GrantExclusive(p, l, shares)
    BY <1>5 DEF ResumeUpgrade
  <2>3. /\ l \in LockRecord
        /\ l.flags \cap {"DRAINING", "DRAINED"} = {}
        /\ lk.flags \cap {"DRAINING", "DRAINED"} = {}
    BY <1>2, <1>3, <2>1
  <2> HIDE DEF l
  <2>4. CASE Refuse(p, l)
    BY <2>3, <2>4, RefuseMaps
  <2>5. CASE Wait(p, ext[p], "upgrade", Awake, asleep, shares)
    BY <1>2, <2>1, <2>5, SleepMaps
  <2>6. CASE ~Wanted("upgrade", Awake) /\ GrantExclusive(p, l, shares)
    <3>1. \A r \in Proc : shares[r] = 0
      BY <1>2, <2>1, <2>6, Fields DEF Wanted
    <3>2. Upgrader = p
      BY <2>1, UpgraderIs DEF UpgraderKnown
    <3>3. \/ Panic
          \/ /\ excl' = [excl EXCEPT ![p] = 1] /\ shares' = shares
             /\ Drained' = Drained /\ Upgrader' = NoProc
      BY <2>1, <2>3, <2>6, GrantExclusiveMaps
    <3>4. CASE Panic
      BY <3>4, PanicMaps
    <3>5. CASE /\ excl' = [excl EXCEPT ![p] = 1] /\ shares' = shares
               /\ Drained' = Drained /\ Upgrader' = NoProc
      <4>1. RW!FinishPromotion(p)
        BY <3>1, <3>2, <3>5 DEF RW!FinishPromotion
      <4>. QED  BY <4>1 DEF Maps, RW!RWNext
    <3>. QED  BY <3>3, <3>4, <3>5
  <2>. QED  BY <2>2, <2>4, <2>5, <2>6
<1>6. CASE ResumeWantExcl(p)
  <2>1. pc[p] = "excl1" /\ pc[p] \in AcquireStages
    BY <1>6 DEF ResumeWantExcl, Runs, AcquireStages
  <2>2. CASE Refuse(p, Awake)
    BY <1>2, <2>1, <2>2, RefuseMaps
  <2>3. CASE SeekExclusive(p, ext[p], Awake, asleep, shares)
    BY <1>2, <2>1, <2>3, SeekMaps
  <2>. QED  BY <1>6, <2>2, <2>3 DEF ResumeWantExcl
<1>7. CASE ResumeExclusive(p)
  <2> DEFINE l == [Awake EXCEPT !.flags = @ \ {"WANT_EXCL"}]
  <2>1. pc[p] = "excl2" /\ pc[p] \in AcquireStages
    BY <1>7 DEF ResumeExclusive, Runs, AcquireStages
  <2>2. \/ Refuse(p, l)
        \/ Wait(p, ext[p], "excl2", Awake, asleep, shares)
        \/ ~Wanted("excl2", Awake) /\ GrantExclusive(p, l, shares)
    BY <1>7 DEF ResumeExclusive
  <2>3. /\ l \in LockRecord
        /\ l.flags \cap {"DRAINING", "DRAINED"} = {}
        /\ lk.flags \cap {"DRAINING", "DRAINED"} = {}
        /\ l.flags = lk.flags \ {"WANT_EXCL"}
    BY <1>2, <1>3, <2>1
  <2>4. l.exclusivecount = lk.exclusivecount
    BY <1>1 DEF Awake, LockRecord
  <2> HIDE DEF l
  <2>5. CASE Refuse(p, l)
    BY <2>3, <2>5, RefuseMaps
  <2>6. CASE Wait(p, ext[p], "excl2", Awake, asleep, shares)
    BY <1>2, <2>1, <2>6, SleepMaps
  <2>7. CASE ~Wanted("excl2", Awake) /\ GrantExclusive(p, l, shares)
    <3>1. lk.sharecount = 0 /\ "WANT_UPGRADE" \notin lk.flags
      BY <1>2, <2>1, <2>7 DEF Wanted
    <3>2. \/ Panic
          \/ /\ l.exclusivecount = 0
             /\ excl' = [excl EXCEPT ![p] = 1] /\ shares' = shares
             /\ Drained' = Drained /\ Upgrader' = Upgrader
      BY <2>1, <2>3, <2>7, GrantExclusiveMaps
    <3>3. CASE Panic
      BY <3>3, PanicMaps
    <3>4. CASE /\ l.exclusivecount = 0
               /\ excl' = [excl EXCEPT ![p] = 1] /\ shares' = shares
               /\ Drained' = Drained /\ Upgrader' = Upgrader
      <4>1. "HAVE_EXCL" \notin lk.flags
        BY <2>4, <3>4 DEF LockInv, FlagsAgree
      <4>2. RW!Free /\ \A r \in Proc : shares[r] = 0
        BY <2>3, <3>1, <4>1, Fields, UpgraderIs DEF RW!Free, UpgraderKnown
      <4>3. RW!GetExclusive(p)
        BY <3>4, <4>2 DEF RW!GetExclusive
      <4>. QED  BY <4>3 DEF Maps, RW!RWNext
    <3>. QED  BY <3>2, <3>3, <3>4
  <2>. QED  BY <2>2, <2>5, <2>6, <2>7
<1>8. CASE ResumeDrain(p)
  <2>1. pc[p] = "drain"
    BY <1>8 DEF ResumeDrain, Runs
  <2>2. lk.flags \cap {"DRAINING", "DRAINED"} = {}
    BY <2>1 DEF LockInv, DrainingIsQuiet
  <2>3. CASE /\ pc' = [pc EXCEPT ![p] = "idle"]
             /\ UNCHANGED <<lk, asleep, panicked, owned>>
    <3>1. \A r \in Proc : pc'[r] = "upgrade" <=> pc[r] = "upgrade"
      BY <2>1, <2>3 DEF LockInv, TypeOK
    <3>2. Drained' = Drained /\ UNCHANGED <<shares, excl>>
      BY <2>3 DEF Drained, owned
    <3>. QED  BY <3>1, <3>2, Stutters
  <2>4. CASE Quiet(lk) /\ GrantDrain(p, lk)
    BY <2>1, <2>2, <2>4, GrantDrainMaps
  <2>5. CASE AwaitDrain(p, ext[p])
    BY <2>1, <2>5, AwaitDrainMaps
  <2>. QED  BY <1>8, <2>3, <2>4, <2>5 DEF ResumeDrain
<1>. QED  BY <1>4, <1>5, <1>6, <1>7, <1>8 DEF Resume

LEMMA StepMaps ==
  ASSUME LockInv, LockInv', [Next]_vars
  PROVE  Maps
<1>1. CASE \E p \in Proc : Request(p) \/ Resume(p) \/ SleepFails(p)
  <2>1. PICK p \in Proc : Request(p) \/ Resume(p) \/ SleepFails(p)
    BY <1>1
  <2>2. CASE SleepFails(p)
    BY <2>2, Stutters DEF SleepFails, owned, Drained
  <2>. QED  BY <2>1, <2>2, RequestMaps, ResumeMaps
<1>2. CASE Reinit
  <2>1. Upgrader' = Upgrader
    BY <1>2, UpgraderStays DEF Reinit
  <2>2. Drained = "retired"
    BY <1>2 DEF Reinit, LockInv, DrainingIsQuiet, Drained
  <2>3. Drained' = "no"
    BY <1>2 DEF Reinit, Fresh, Drained
  <2>4. RW!Renew
    BY <1>2, <2>1, <2>2, <2>3 DEF Reinit, owned, RW!Renew
  <2>. QED  BY <2>4 DEF Maps, RW!RWNext
<1>3. CASE UNCHANGED vars
  BY <1>3, Stutters DEF vars, Drained
<1>. QED  BY <1>1, <1>2, <1>3 DEF Next

(* The code keeps the promise of lock.h: whatever requests arrive and      *)
(* however sleeps end, every grant, refusal and release of lockmgr() is a  *)
(* step that the lock without flags, counters or sleeps allows.            *)
THEOREM Refinement == Spec => ImplementsRWLock
<1>1. Init => RW!RWInit
  BY DEF Init, RW!RWInit, Upgrader, Drained, Fresh
<1>2. LockInv /\ LockInv' /\ [Next]_vars => [RW!RWNext]_(RW!rwvars)
  BY StepMaps DEF Maps
<1>. QED  BY <1>1, <1>2, LockInvariant, PTL DEF Spec, ImplementsRWLock, RW!RWSpec

-----------------------------------------------------------------------------
(* No wakeup of the lock manager is ever lost, and none of its panics      *)
(* reached, for any number of callers that share, exclude, recurse,        *)
(* downgrade, release and drain, as long as none of them asks for an       *)
(* upgrade and no sleep ends but by a wakeup. Both restrictions are needed:*)
(* an upgrade gives up its share, or panics, without waking anybody, and a *)
(* sleep that fails takes LK_WANT_EXCL down without waking anybody.        *)

(* Callers and sleeps of the plain kind: no upgrades, and tsleep() returns *)
(* 0, without LK_SLEEPFAIL to make a failure of that.                      *)
Plain ==
  /\ Types \cap {"UPGRADE", "EXCLUPGRADE"} = {}
  /\ ~Timeout /\ ~Catch
  /\ "SLEEPFAIL" \notin ExtFlags

(* Whoever waits for the shares to go has LK_WANT_EXCL up since a moment   *)
(* when nobody held the lock exclusively, and keeps everybody from it; a   *)
(* sleeping drainer has left LK_WAITDRAIN for the last user to find.       *)
WakeInv ==
  /\ failed = {}
  /\ NeverPanics
  /\ \A r \in Proc : pc[r] # "upgrade"
  /\ \A r \in Proc : pc[r] = "excl2" => lk.exclusivecount = 0
  /\ \A r \in asleep : pc[r] = "drain" => "WAITDRAIN" \in lk.flags
  /\ NoStrandedSleeper

(* The same of the other processes while p runs, with the lock at l and    *)
(* the sleep queue at q. Drainers are left to the common tail of lockmgr().*)
Sound(p, l, q) ==
  /\ l \in LockRecord
  /\ q \subseteq asleep \ {p}
  /\ \A r \in q : pc[r] # "drain" => Wanted(pc[r], l)
  /\ \A r \in q : pc[r] = "drain" => "WAITDRAIN" \in l.flags
  /\ \A r \in Proc \ {p} : pc[r] = "excl2" => l.exclusivecount = 0

-----------------------------------------------------------------------------
(* The ways a run of lockmgr() ends.                                       *)

(* A return leaves no drainer asleep beside a quiet lock. *)
LEMMA ReturnWakes ==
  ASSUME LockInv, WakeInv, NEW p \in Proc, NEW l, NEW q,
         Sound(p, l, q), Return(p, l, q)
  PROVE  WakeInv'
<1> DEFINE drained == "WAITDRAIN" \in l.flags /\ Quiet(l)
<1>1. /\ pc' = [pc EXCEPT ![p] = "idle"]
      /\ failed' = failed \ {p} /\ panicked' = panicked
      /\ lk' = (IF drained THEN [l EXCEPT !.flags = @ \ {"WAITDRAIN"}] ELSE l)
      /\ asleep' = (IF drained THEN {r \in q : pc[r] # "drain"} ELSE q)
  BY DEF Return
<1>2. /\ pc'[p] = "idle" /\ \A r \in Proc \ {p} : pc'[r] = pc[r]
      /\ asleep' \subseteq q /\ q \subseteq Proc \ {p}
  BY <1>1 DEF LockInv, TypeOK, Sound
<1>3. /\ lk'.sharecount = l.sharecount
      /\ lk'.exclusivecount = l.exclusivecount
      /\ lk'.flags \ {"WAITDRAIN"} = l.flags \ {"WAITDRAIN"}
  BY <1>1 DEF Sound, LockRecord
<1>4. ASSUME NEW r \in asleep'
      PROVE  /\ Wanted(pc[r], lk')
             /\ pc[r] = "drain" => "WAITDRAIN" \in lk'.flags
  <2>1. r \in q
    BY <1>2
  <2>2. CASE pc[r] = "drain"
    <3>1. ~drained /\ lk' = l /\ "WAITDRAIN" \in l.flags
      BY <1>1, <2>1, <2>2 DEF Sound
    <3>. QED  BY <2>2, <3>1 DEF Wanted
  <2>3. CASE pc[r] # "drain"
    <3>1. Wanted(pc[r], l)
      BY <2>1, <2>3 DEF Sound
    <3>2. pc[r] \in Stages
      BY <1>2, <2>1 DEF LockInv, TypeOK, WaitersHoldNothing, Sound
    <3>. QED
      BY <1>3, <2>3, <3>1, <3>2
      DEF Wanted, Blocked, ExclFlags, Stages, AcquireStages
  <2>. QED  BY <2>2, <2>3
<1>5. NoStrandedSleeper'
  BY <1>2, <1>4 DEF NoStrandedSleeper
<1>6. \A r \in asleep' : pc'[r] = "drain" => "WAITDRAIN" \in lk'.flags
  BY <1>2, <1>4
<1>7. \A r \in Proc : /\ pc'[r] # "upgrade"
                      /\ pc'[r] = "excl2" => lk'.exclusivecount = 0
  BY <1>2, <1>3 DEF WakeInv, Sound
<1>. QED  BY <1>1, <1>5, <1>6, <1>7 DEF WakeInv, NeverPanics

(* A wait in ACQUIRE adds a sleeper whose condition holds. *)
LEMMA WaitWakes ==
  ASSUME LockInv, WakeInv, NEW p \in Proc, NEW x, NEW stage, NEW l, NEW q,
         NEW s, stage \in {"shared", "excl1", "excl2"},
         Sound(p, l, q), Wanted(stage, l),
         stage = "excl2" => l.exclusivecount = 0,
         Wait(p, x, stage, l, q, s)
  PROVE  WakeInv'
<1>1. /\ pc' = [pc EXCEPT ![p] = stage]
      /\ failed' = failed /\ panicked' = panicked
      /\ lk' = [l EXCEPT !.waitcount = @ + 1]
      /\ asleep' = q \cup {p}
  BY DEF Wait
<1>2. /\ pc'[p] = stage /\ \A r \in Proc \ {p} : pc'[r] = pc[r]
      /\ q \subseteq Proc \ {p}
  BY <1>1 DEF LockInv, TypeOK, Sound
<1>3. /\ lk'.sharecount = l.sharecount
      /\ lk'.exclusivecount = l.exclusivecount
      /\ lk'.flags = l.flags
      /\ lk'.waitcount = l.waitcount + 1 /\ l.waitcount \in Nat
  BY <1>1 DEF Sound, LockRecord
<1>4. \A g \in {"shared", "excl1", "excl2"} :
        Wanted(g, l) => Wanted(g, lk')
  BY <1>3 DEF Wanted, Blocked
<1>5. lk'.waitcount # 0
  BY <1>3
<1>6. Wanted("drain", lk')
  BY <1>5 DEF Wanted, Quiet
<1>7. ASSUME NEW r \in q
      PROVE  Wanted(pc[r], lk')
  <2>1. pc[r] \in {"shared", "excl1", "excl2", "drain"}
    BY <1>2
    DEF LockInv, TypeOK, WaitersHoldNothing, Sound, WakeInv, Stages,
        AcquireStages
  <2>2. CASE pc[r] = "drain"
    BY <1>6, <2>2
  <2>3. CASE pc[r] # "drain"
    BY <1>4, <2>1, <2>3 DEF Sound
  <2>. QED  BY <2>2, <2>3
<1>8. NoStrandedSleeper'
  <2>1. \A r \in q : Wanted(pc'[r], lk')
    BY <1>2, <1>7
  <2>2. Wanted(pc'[p], lk')
    BY <1>2, <1>4
  <2>. QED  BY <1>1, <2>1, <2>2 DEF NoStrandedSleeper
<1>9. \A r \in asleep' : pc'[r] = "drain" => "WAITDRAIN" \in lk'.flags
  BY <1>1, <1>2, <1>3 DEF Sound
<1>10. \A r \in Proc : /\ pc'[r] # "upgrade"
                       /\ pc'[r] = "excl2" => lk'.exclusivecount = 0
  BY <1>2, <1>3 DEF WakeInv, Sound
<1>. QED  BY <1>1, <1>8, <1>9, <1>10 DEF WakeInv, NeverPanics

(* A process that runs leaves the others as they are, whether or not it    *)
(* counts itself a waiter.                                                 *)
LEMMA RunsSound ==
  ASSUME LockInv, WakeInv, NEW p \in Proc, p \notin asleep
  PROVE  /\ Sound(p, lk, asleep)
         /\ pc[p] \in AcquireStages =>
              /\ Sound(p, Awake, asleep)
              /\ Awake.flags = lk.flags
              /\ Awake.sharecount = lk.sharecount
              /\ Awake.exclusivecount = lk.exclusivecount
<1>1. Sound(p, lk, asleep)
  BY DEF Sound, LockInv, TypeOK, WakeInv, NoStrandedSleeper
<1>2. ASSUME pc[p] \in AcquireStages
      PROVE  /\ Awake \in LockRecord
             /\ Awake.flags = lk.flags
             /\ Awake.sharecount = lk.sharecount
             /\ Awake.exclusivecount = lk.exclusivecount
  <2>1. /\ lk.waitcount = Cardinality(Waiters \ {p}) + 1
        /\ Cardinality(Waiters \ {p}) \in Nat
    BY <1>2, OtherWaiters DEF LockInv, CountsAgree, TypeOK, LockRecord
  <2>2. lk.waitcount - 1 \in Nat
    BY <2>1
  <2>. QED  BY <2>2 DEF Awake, LockRecord, LockInv, TypeOK
<1>3. ASSUME pc[p] \in AcquireStages
      PROVE  Sound(p, Awake, asleep)
  <2>1. \A r \in asleep : pc[r] # "drain" =>
          (Wanted(pc[r], lk) => Wanted(pc[r], Awake))
    <3>1. \A r \in asleep : pc[r] \in Stages
      BY DEF LockInv, TypeOK, WaitersHoldNothing
    <3>. QED
      BY <1>2, <1>3, <3>1 DEF Wanted, Blocked, Stages, AcquireStages
  <2>. QED  BY <1>1, <1>2, <1>3, <2>1 DEF Sound
<1>. QED  BY <1>1, <1>2, <1>3

(* An exclusive grant, to one who finds the lock free behind LK_WANT_EXCL. *)
LEMMA ExclusiveWakes ==
  ASSUME LockInv, WakeInv, NEW p \in Proc, NEW l, NEW s,
         l \in LockRecord, l.exclusivecount = 0, p \notin asleep,
         "WAITDRAIN" \in lk.flags => "WAITDRAIN" \in l.flags,
         \A r \in Proc \ {p} : pc[r] # "excl2",
         GrantExclusive(p, l, s)
  PROVE  WakeInv'
<1> DEFINE m == [l EXCEPT !.flags = @ \cup {"HAVE_EXCL"}, !.lockholder = p,
                          !.exclusivecount = 1]
<1>1. Return(p, m, asleep)
  BY DEF GrantExclusive
<1>2. m \in LockRecord /\ m.flags = l.flags \cup {"HAVE_EXCL"}
  BY DEF LockRecord, InternalFlags, ExclFlags
<1> HIDE DEF m
<1>3. Wanted("shared", m) /\ Wanted("excl1", m)
  BY <1>2 DEF Wanted, Blocked, ExclFlags
<1>4. ASSUME NEW r \in asleep
      PROVE  pc[r] \in {"shared", "excl1", "drain"}
  <2>1. r \in Proc \ {p} /\ pc[r] \in Stages /\ pc[r] # "upgrade"
    BY DEF LockInv, TypeOK, WaitersHoldNothing, WakeInv
  <2>. QED  BY <2>1 DEF Stages, AcquireStages
<1>5. Sound(p, m, asleep)
  BY <1>2, <1>3, <1>4 DEF Sound, WakeInv
<1>. QED  BY <1>1, <1>5, ReturnWakes

LEMMA SeekWakes ==
  ASSUME LockInv, WakeInv, NEW p \in Proc, NEW x, NEW l,
         pc[p] # "excl2", Sound(p, l, asleep),
         l.flags = lk.flags, l.exclusivecount = lk.exclusivecount,
         SeekExclusive(p, x, l, asleep, shares)
  PROVE  WakeInv'
<1>1. CASE Wanted("excl1", l)
  BY <1>1, WaitWakes DEF SeekExclusive
<1>2. CASE ~Wanted("excl1", l)
  <2>1. l.flags \cap {"HAVE_EXCL", "WANT_EXCL"} = {}
    BY <1>2 DEF Wanted
  <2>2. l.exclusivecount = 0 /\ \A r \in Proc : pc[r] # "excl2"
    BY <2>1 DEF LockInv, FlagsAgree
  <2>3. CASE Wanted("excl2", l)
    <3> DEFINE m == [l EXCEPT !.flags = @ \cup {"WANT_EXCL"}]
    <3>1. Wait(p, x, "excl2", m, asleep, shares)
      BY <1>2, <2>3 DEF SeekExclusive
    <3>2. /\ m \in LockRecord /\ m.flags = l.flags \cup {"WANT_EXCL"}
          /\ m.sharecount = l.sharecount
          /\ m.exclusivecount = l.exclusivecount
      BY DEF Sound, LockRecord, InternalFlags, ExclFlags
    <3> HIDE DEF m
    <3>3. \A g \in {"shared", "excl1", "excl2"} :
            Wanted(g, l) => Wanted(g, m)
      BY <3>2 DEF Wanted, Blocked
    <3>4. \A r \in asleep : pc[r] \in {"shared", "excl1", "excl2", "drain"}
      BY DEF LockInv, TypeOK, WaitersHoldNothing, WakeInv, Stages,
             AcquireStages
    <3>5. Sound(p, m, asleep)
      BY <3>2, <3>3, <3>4 DEF Sound
    <3>. QED  BY <2>2, <2>3, <3>1, <3>2, <3>3, <3>5, WaitWakes
  <2>4. CASE ~Wanted("excl2", l)
    <3>1. GrantExclusive(p, l, shares)
      BY <1>2, <2>4 DEF SeekExclusive
    <3>. QED  BY <2>2, <3>1, ExclusiveWakes DEF Sound
  <2>. QED  BY <2>3, <2>4
<1>. QED  BY <1>1, <1>2

(* if (lkp->lk_waitcount) wakeup(lkp) leaves only drainers asleep. *)
LEMMA OnlyDrainers ==
  ASSUME LockInv, NEW p \in Proc, pc[p] = "idle", NEW l,
         l.waitcount = lk.waitcount
  PROVE  /\ WakeWaiters(l) \subseteq asleep \ {p}
         /\ \A r \in WakeWaiters(l) : pc[r] = "drain"
<1>1. p \notin asleep
  BY DEF LockInv, WaitersHoldNothing
<1>2. CASE l.waitcount # 0
  BY <1>1, <1>2 DEF WakeWaiters, Wakeup
<1>3. CASE l.waitcount = 0
  <2>1. \A r \in asleep : pc[r] = "drain"
    BY <1>3, WaitersZero
    DEF LockInv, CountsAgree, TypeOK, WaitersHoldNothing, Stages
  <2>. QED  BY <1>1, <1>3, <2>1 DEF WakeWaiters
<1>. QED  BY <1>2, <1>3

(* A return that woke the waiters leaves nobody behind. *)
LEMMA WokenAll ==
  ASSUME LockInv, WakeInv, NEW p \in Proc, pc[p] = "idle",
         NEW l \in LockRecord, NEW k, k.waitcount = lk.waitcount,
         "WAITDRAIN" \in lk.flags => "WAITDRAIN" \in l.flags,
         lk.exclusivecount = 0 => l.exclusivecount = 0,
         Return(p, l, WakeWaiters(k))
  PROVE  WakeInv'
<1>1. Sound(p, l, WakeWaiters(k))
  BY OnlyDrainers DEF Sound, WakeInv
<1>. QED  BY <1>1, ReturnWakes

(* A drainer is granted an empty lock: nobody sleeps beside it. *)
LEMMA DrainWakes ==
  ASSUME LockInv, WakeInv, NEW p \in Proc, p \notin asleep,
         \A r \in Proc \ {p} : pc[r] # "drain",
         Quiet(lk) /\ GrantDrain(p, lk)
  PROVE  WakeInv'
<1> DEFINE m == [lk EXCEPT !.flags = @ \cup {"DRAINING", "HAVE_EXCL"},
                           !.lockholder = p, !.exclusivecount = 1]
<1>1. Return(p, m, asleep)
  BY DEF GrantDrain
<1>2. m \in LockRecord
  BY DEF LockInv, TypeOK, LockRecord, InternalFlags, ExclFlags
<1>3. \A r \in Proc : pc[r] \notin AcquireStages
  BY WaitersZero DEF Quiet, LockInv, CountsAgree
<1>4. asleep = {}
  BY <1>3 DEF LockInv, TypeOK, WaitersHoldNothing, Stages
<1> HIDE DEF m
<1>5. Sound(p, m, asleep)
  BY <1>2, <1>3, <1>4 DEF Sound, AcquireStages
<1>. QED  BY <1>1, <1>5, ReturnWakes

(* A drainer that has to wait leaves LK_WAITDRAIN. *)
LEMMA AwaitDrainWakes ==
  ASSUME LockInv, WakeInv, NEW p \in Proc, NEW x, ~Quiet(lk),
         AwaitDrain(p, x)
  PROVE  WakeInv'
<1>1. /\ pc' = [pc EXCEPT ![p] = "drain"]
      /\ failed' = failed /\ panicked' = panicked
      /\ asleep' = asleep \cup {p}
  BY DEF AwaitDrain
<1>2. /\ pc'[p] = "drain" /\ \A r \in Proc \ {p} : pc'[r] = pc[r]
      /\ asleep \subseteq Proc
  BY <1>1 DEF LockInv, TypeOK
<1>3. /\ lk'.flags = lk.flags \cup {"WAITDRAIN"}
      /\ lk'.sharecount = lk.sharecount
      /\ lk'.exclusivecount = lk.exclusivecount
      /\ lk'.waitcount = lk.waitcount
  BY DEF AwaitDrain, LockInv, TypeOK, LockRecord
<1>4. \A g \in Stages \ {"upgrade"} : Wanted(g, lk) => Wanted(g, lk')
  BY <1>3 DEF Wanted, Quiet, Blocked, ExclFlags, Stages, AcquireStages
<1>5. Wanted("drain", lk')
  BY <1>4 DEF Wanted, Stages
<1>6. NoStrandedSleeper'
  <2>1. \A r \in asleep \ {p} : Wanted(pc'[r], lk')
    BY <1>2, <1>4
    DEF WakeInv, NoStrandedSleeper, LockInv, TypeOK, WaitersHoldNothing
  <2>. QED  BY <1>1, <1>2, <1>5, <2>1 DEF NoStrandedSleeper
<1>7. \A r \in Proc : /\ pc'[r] # "upgrade"
                      /\ pc'[r] = "excl2" => lk'.exclusivecount = 0
  BY <1>2, <1>3 DEF WakeInv
<1>. QED  BY <1>1, <1>3, <1>6, <1>7 DEF WakeInv, NeverPanics

-----------------------------------------------------------------------------
(* The requests.                                                           *)

LEMMA IdleSound ==
  ASSUME LockInv, WakeInv, NEW p \in Proc, pc[p] = "idle"
  PROVE  p \notin asleep /\ Sound(p, lk, asleep)
<1>1. p \notin asleep
  BY DEF LockInv, WaitersHoldNothing
<1>. QED  BY <1>1, RunsSound

(* A shared grant takes nothing from those who wait for something else. *)
LEMMA SharedGrantWakes ==
  ASSUME LockInv, WakeInv, NEW p \in Proc, NEW l, Sound(p, l, asleep),
         GrantShared(p, l)
  PROVE  WakeInv'
<1> DEFINE m == [l EXCEPT !.sharecount = @ + 1]
<1>1. Return(p, m, asleep)
  BY DEF GrantShared
<1>2. /\ m \in LockRecord /\ m.flags = l.flags
      /\ m.sharecount # 0 /\ m.exclusivecount = l.exclusivecount
  BY DEF Sound, LockRecord
<1> HIDE DEF m
<1>3. \A g \in {"shared", "excl1", "excl2"} : Wanted(g, l) => Wanted(g, m)
  BY <1>2 DEF Wanted, Blocked
<1>4. \A r \in asleep : pc[r] \in {"shared", "excl1", "excl2", "drain"}
  BY DEF LockInv, TypeOK, WaitersHoldNothing, WakeInv, Stages, AcquireStages
<1>5. Sound(p, m, asleep)
  BY <1>2, <1>3, <1>4 DEF Sound
<1>. QED  BY <1>1, <1>5, ReturnWakes

LEMMA SharedWakes ==
  ASSUME LockInv, WakeInv, NEW p \in Proc, NEW x, Shared(p, x)
  PROVE  WakeInv'
<1>1. pc[p] = "idle"
  BY DEF Shared, Calls
<1>2. Sound(p, lk, asleep)
  BY <1>1, IdleSound
<1>3. CASE ~Blocked(lk)
  BY <1>2, <1>3, SharedGrantWakes DEF Shared
<1>4. CASE Blocked(lk) /\ Refuse(p, lk)
  BY <1>2, <1>4, ReturnWakes DEF Refuse
<1>5. CASE Blocked(lk) /\ Wait(p, x, "shared", lk, asleep, shares)
  <2>1. Wanted("shared", lk)
    BY <1>5 DEF Wanted
  <2>. QED  BY <1>2, <1>5, <2>1, WaitWakes
<1>. QED  BY <1>3, <1>4, <1>5 DEF Shared

LEMMA ExclusiveRequestWakes ==
  ASSUME LockInv, WakeInv, NEW p \in Proc, NEW x, Exclusive(p, x)
  PROVE  WakeInv'
<1>1. pc[p] = "idle"
  BY DEF Exclusive, Calls
<1>2. Sound(p, lk, asleep)
  BY <1>1, IdleSound
<1>3. CASE Refuse(p, lk)
  BY <1>2, <1>3, ReturnWakes DEF Refuse
<1>4. CASE SeekExclusive(p, x, lk, asleep, shares)
  BY <1>1, <1>2, <1>4, SeekWakes
<1>. QED  BY <1>3, <1>4 DEF Exclusive

LEMMA DrainRequestWakes ==
  ASSUME LockInv, WakeInv, NEW p \in Proc, NEW x, Drain(p, x)
  PROVE  WakeInv'
<1>1. pc[p] = "idle" /\ \A r \in Proc : pc[r] # "drain"
  BY DEF Drain, Calls
<1>2. p \notin asleep /\ Sound(p, lk, asleep)
  BY <1>1, IdleSound
<1>3. CASE Quiet(lk)
  BY <1>1, <1>2, <1>3, DrainWakes DEF Drain
<1>4. CASE ~Quiet(lk) /\ Refuse(p, lk)
  BY <1>2, <1>4, ReturnWakes DEF Refuse
<1>5. CASE ~Quiet(lk) /\ AwaitDrain(p, x)
  BY <1>5, AwaitDrainWakes
<1>. QED  BY <1>3, <1>4, <1>5 DEF Drain

LEMMA RecurseWakes ==
  ASSUME LockInv, WakeInv, NEW p \in Proc, Recurse(p)
  PROVE  WakeInv'
<1> DEFINE m == [lk EXCEPT !.exclusivecount = @ + 1]
<1>1. pc[p] = "idle" /\ excl[p] > 0 /\ Return(p, m, asleep)
  BY BoundAssumption DEF Recurse, Calls
<1>2. Sound(p, lk, asleep)
  BY <1>1, IdleSound
<1>3. lk.exclusivecount # 0
  BY <1>1, Holder
<1>4. \A r \in Proc : pc[r] # "excl2"
  BY <1>3 DEF WakeInv
<1>5. m \in LockRecord /\ m.flags = lk.flags /\ m.sharecount = lk.sharecount
  BY <1>2 DEF Sound, LockRecord
<1> HIDE DEF m
<1>6. \A g \in {"shared", "excl1", "excl2"} : Wanted(g, lk) => Wanted(g, m)
  BY <1>5 DEF Wanted, Blocked
<1>7. \A r \in asleep : pc[r] \in {"shared", "excl1", "excl2", "drain"}
  BY DEF LockInv, TypeOK, WaitersHoldNothing, WakeInv, Stages, AcquireStages
<1>8. Sound(p, m, asleep)
  BY <1>2, <1>4, <1>5, <1>6, <1>7 DEF Sound
<1>. QED  BY <1>1, <1>8, ReturnWakes

LEMMA DowngradeWakes ==
  ASSUME LockInv, WakeInv, NEW p \in Proc, Downgrade(p)
  PROVE  WakeInv'
<1>1. PICK more \in {0, 1} : pc[p] = "idle" /\ excl[p] > 0
                              /\ DowngradeTo(p, more)
  BY DEF Downgrade, Calls
<1> DEFINE m == [lk EXCEPT !.sharecount = @ + lk.exclusivecount + more,
                           !.exclusivecount = 0,
                           !.flags = @ \ {"HAVE_EXCL"},
                           !.lockholder = NoProc]
<1>2. lk.lockholder = p /\ lk.exclusivecount # 0
  BY <1>1, Holder
<1>3. Return(p, m, WakeWaiters(lk))
  BY <1>1, <1>2 DEF DowngradeTo
<1>4. /\ m \in LockRecord /\ m.flags = lk.flags \ {"HAVE_EXCL"}
      /\ m.exclusivecount = 0
  <2> DEFINE c == lk.sharecount + lk.exclusivecount + more
             k == lk.flags \ {"HAVE_EXCL"}
  <2>1. lk \in LockRecord /\ c \in Nat /\ k \in SUBSET InternalFlags
    BY DEF LockInv, TypeOK, LockRecord
  <2>2. m = [lk EXCEPT !.sharecount = c, !.exclusivecount = 0,
                       !.flags = k, !.lockholder = NoProc]
    BY <2>1 DEF LockRecord
  <2> HIDE DEF c, k, m
  <2>3. m \in LockRecord /\ m.flags = k /\ m.exclusivecount = 0
    BY <2>1, <2>2 DEF LockRecord
  <2>. QED  BY <2>3 DEF k
<1> HIDE DEF m
<1>. QED  BY <1>1, <1>3, <1>4, WokenAll

LEMMA ReleaseWakes ==
  ASSUME LockInv, WakeInv, NEW p \in Proc, NEW reenable \in BOOLEAN,
         Release(p, reenable)
  PROVE  WakeInv'
<1> DEFINE f == IF "DRAINING" \notin lk.flags THEN lk.flags
                ELSE (lk.flags \ {"DRAINING"})
                     \cup (IF reenable THEN {} ELSE {"DRAINED"})
           x == lk.exclusivecount - 1
           g == f \ {"HAVE_EXCL"}
           l == IF lk.exclusivecount # 0
                THEN IF x = 0
                     THEN [lk EXCEPT !.flags = g, !.exclusivecount = 0,
                                     !.lockholder = NoProc]
                     ELSE [lk EXCEPT !.flags = f, !.exclusivecount = x]
                ELSE IF lk.sharecount # 0
                THEN [lk EXCEPT !.sharecount = @ - 1] ELSE lk
           panics == \/ Barred(p, "RELEASE")
                     \/ lk.exclusivecount # 0 /\ lk.lockholder # p
<1>1. /\ pc[p] = "idle" /\ (shares[p] # 0 \/ excl[p] # 0)
      /\ shares[p] \in Nat /\ excl[p] \in Nat
  BY DEF Release, Calls, HoldsNothing, LockInv, TypeOK
<1>2. ~panics
  <2>1. CASE excl[p] > 0
    BY <2>1, Holder DEF Barred
  <2>2. CASE shares[p] > 0
    <3>1. lk.sharecount # 0
      BY <2>2, Fields
    <3>. QED
      BY <3>1 DEF Barred, LockInv, FlagsAgree, DrainingIsQuiet
  <2>. QED  BY <1>1, <2>1, <2>2
<1>3. Return(p, l, WakeWaiters(l))
  BY <1>2 DEF Release
<1>4. /\ lk \in LockRecord /\ f \in SUBSET InternalFlags
      /\ g \in SUBSET InternalFlags
      /\ "WAITDRAIN" \in lk.flags => "WAITDRAIN" \in f /\ "WAITDRAIN" \in g
  BY DEF LockInv, TypeOK, LockRecord, InternalFlags
<1>5. lk.exclusivecount # 0 => x \in Nat
  BY <1>4 DEF LockRecord
<1> HIDE DEF f, g, x
<1>6. /\ l \in LockRecord /\ l.waitcount = lk.waitcount
      /\ "WAITDRAIN" \in lk.flags => "WAITDRAIN" \in l.flags
      /\ lk.exclusivecount = 0 => l.exclusivecount = 0
  <2>1. CASE l = [lk EXCEPT !.flags = g, !.exclusivecount = 0,
                            !.lockholder = NoProc]
    BY <1>4, <2>1 DEF LockRecord
  <2>2. CASE /\ l = [lk EXCEPT !.flags = f, !.exclusivecount = x]
             /\ lk.exclusivecount # 0
    BY <1>4, <1>5, <2>2 DEF LockRecord
  <2>3. CASE l = [lk EXCEPT !.sharecount = @ - 1] /\ lk.sharecount # 0
    BY <1>4, <2>3 DEF LockRecord
  <2>4. CASE l = lk
    BY <1>4, <2>4
  <2>. QED  BY <2>1, <2>2, <2>3, <2>4
<1> HIDE DEF l
<1>. QED  BY <1>1, <1>3, <1>6, WokenAll

-----------------------------------------------------------------------------
(* The return of a sleep.                                                  *)

LEMMA ResumeWakes ==
  ASSUME Plain, LockInv, WakeInv, NEW p \in Proc, Resume(p)
  PROVE  WakeInv'
<1>1. ~Aborts(p)
  BY DEF Plain, Aborts, WakeInv, LockInv, TypeOK
<1>2. p \notin asleep
  BY DEF Resume, ResumeShared, ResumeUpgrade, ResumeWantExcl,
         ResumeExclusive, ResumeDrain, Runs
<1>3. CASE ResumeShared(p)
  <2>1. pc[p] = "shared" /\ Sound(p, Awake, asleep)
    BY <1>2, <1>3, RunsSound DEF ResumeShared, Runs, AcquireStages
  <2>2. CASE /\ Wanted("shared", Awake)
             /\ Wait(p, ext[p], "shared", Awake, asleep, shares)
    BY <2>1, <2>2, WaitWakes
  <2>3. CASE GrantShared(p, Awake)
    BY <2>1, <2>3, SharedGrantWakes
  <2>. QED  BY <1>1, <1>3, <2>2, <2>3 DEF ResumeShared
<1>4. CASE ResumeUpgrade(p)
  BY <1>4 DEF ResumeUpgrade, Runs, WakeInv
<1>5. CASE ResumeWantExcl(p)
  <2>1. /\ pc[p] = "excl1" /\ Sound(p, Awake, asleep)
        /\ Awake.flags = lk.flags
        /\ Awake.exclusivecount = lk.exclusivecount
    BY <1>2, <1>5, RunsSound DEF ResumeWantExcl, Runs, AcquireStages
  <2>2. SeekExclusive(p, ext[p], Awake, asleep, shares)
    BY <1>1, <1>5 DEF ResumeWantExcl
  <2>. QED  BY <2>1, <2>2, SeekWakes
<1>6. CASE ResumeExclusive(p)
  <2>1. /\ pc[p] = "excl2" /\ Sound(p, Awake, asleep)
        /\ Awake.exclusivecount = 0 /\ Awake.flags = lk.flags
    BY <1>2, <1>6, RunsSound
    DEF ResumeExclusive, Runs, AcquireStages, WakeInv
  <2>2. CASE /\ Wanted("excl2", Awake)
             /\ Wait(p, ext[p], "excl2", Awake, asleep, shares)
    BY <2>1, <2>2, WaitWakes
  <2>3. CASE GrantExclusive(p, [Awake EXCEPT !.flags = @ \ {"WANT_EXCL"}],
                            shares)
    <3> DEFINE m == [Awake EXCEPT !.flags = @ \ {"WANT_EXCL"}]
    <3>1. /\ m \in LockRecord /\ m.exclusivecount = 0
          /\ "WAITDRAIN" \in lk.flags => "WAITDRAIN" \in m.flags
      BY <2>1 DEF Sound, LockRecord
    <3>2. \A r \in Proc \ {p} : pc[r] # "excl2"
      BY <2>1 DEF LockInv, FlagsAgree
    <3>3. GrantExclusive(p, m, shares)
      BY <2>3
    <3> HIDE DEF m
    <3>. QED  BY <1>2, <3>1, <3>2, <3>3, ExclusiveWakes
  <2>. QED  BY <1>1, <1>6, <2>2, <2>3 DEF ResumeExclusive
<1>7. CASE ResumeDrain(p)
  <2>1. pc[p] = "drain"
    BY <1>7 DEF ResumeDrain, Runs
  <2>2. \A r \in Proc \ {p} : pc[r] # "drain"
    BY <2>1 DEF LockInv, FlagsAgree
  <2>3. CASE Quiet(lk) /\ GrantDrain(p, lk)
    BY <1>2, <2>2, <2>3, DrainWakes
  <2>4. CASE ~Quiet(lk) /\ AwaitDrain(p, ext[p])
    BY <2>4, AwaitDrainWakes
  <2>. QED  BY <1>1, <1>7, <2>3, <2>4 DEF ResumeDrain
<1>. QED  BY <1>3, <1>4, <1>5, <1>6, <1>7 DEF Resume

LEMMA RequestWakes ==
  ASSUME Plain, LockInv, WakeInv, NEW p \in Proc, Request(p)
  PROVE  WakeInv'
<1>1. ASSUME NEW x, NEW type \in {"UPGRADE", "EXCLUPGRADE"},
             Upgrade(p, x, type)
      PROVE  FALSE
  BY <1>1 DEF Upgrade, Calls, Plain
<1>. QED
  BY <1>1, SharedWakes, ExclusiveRequestWakes, DrainRequestWakes,
     RecurseWakes, DowngradeWakes, ReleaseWakes
  DEF Request, Unlock

LEMMA StepWakes ==
  ASSUME Plain, LockInv, WakeInv, [Next]_vars
  PROVE  WakeInv'
<1>1. CASE \E p \in Proc : Request(p) \/ Resume(p)
  BY <1>1, RequestWakes, ResumeWakes
<1>2. CASE \E p \in Proc : SleepFails(p)
  BY <1>2 DEF SleepFails, Plain
<1>3. CASE Reinit
  <2>1. \A r \in Proc : pc[r] = "idle"
    BY <1>3 DEF Reinit, LockInv, DrainingIsQuiet
  <2>2. asleep = {}
    BY <2>1 DEF LockInv, TypeOK, WaitersHoldNothing
  <2>. QED
    BY <1>3, <2>1, <2>2
    DEF Reinit, WakeInv, NeverPanics, NoStrandedSleeper
<1>4. CASE UNCHANGED vars
  BY <1>4 DEF vars, WakeInv, NeverPanics, NoStrandedSleeper, Wanted, Blocked,
              Quiet
<1>. QED  BY <1>1, <1>2, <1>3, <1>4 DEF Next

(* The invariant behind the wakeups of kern_lock.c. *)
LEMMA WakeInvariant == ASSUME Plain PROVE Spec => [](LockInv /\ WakeInv)
<1>1. Init => LockInv /\ WakeInv
  BY InitLock DEF Init, WakeInv, NeverPanics, NoStrandedSleeper
<1>2. (LockInv /\ WakeInv) /\ [Next]_vars => (LockInv /\ WakeInv)'
  BY StepKeeps, StepWakes
<1>. QED  BY <1>1, <1>2, PTL DEF Spec

(* In a kernel without upgrades, timeouts and signals on the lock, nobody  *)
(* sleeps in lockmgr() for a condition that has come true.                 *)
THEOREM WakeupsSuffice == ASSUME Plain PROVE Spec => []NoStrandedSleeper
<1>1. WakeInv => NoStrandedSleeper
  BY DEF WakeInv
<1>. QED  BY <1>1, WakeInvariant, PTL

(* In such a kernel lockmgr() reaches none of its panics. *)
THEOREM PlainNeverPanics == ASSUME Plain PROVE Spec => []NeverPanics
<1>1. WakeInv => NeverPanics
  BY DEF WakeInv
<1>. QED  BY <1>1, WakeInvariant, PTL
=============================================================================
