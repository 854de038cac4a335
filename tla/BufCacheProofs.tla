---------------------------- MODULE BufCacheProofs ----------------------------
(***************************************************************************)
(* The buffer cache, for any number of processes, buffers and blocks of    *)
(* any size.                                                               *)
(*                                                                         *)
(* A block never has two buffers, as long as no strategy routine sleeps in *)
(* the bawrite() that getnewbuf() does of a delayed write (that it may not *)
(* is the assumption ~Sleepy, the same as of the run). What getblk() needs *)
(* between its search of the hash chain and the entry of the new buffer is *)
(* that nothing comes in between but what takes buffers off the chains;    *)
(* every operation of the cache is shown to do no more than that, whatever *)
(* it does to lists, flags and pages. (CacheInv)                           *)
(*                                                                         *)
(* The free lists are exact and whoever sleeps in the cache will be woken: *)
(* the inductive invariant is Order, which says of each buffer by itself   *)
(* what its flags, its size, its vnode and the lists that it is on have to *)
(* do with each other, and of each process what it may rely on at the      *)
(* place where it is.                                                      *)
(*                                                                         *)
(* The cache implements the store of BlockStore. That needs Coherent as    *)
(* well, which says where the content of a block is: in every buffer that  *)
(* a write is due of, in every buffer that bread() would not read, and on  *)
(* the disk unless a write is due; with OneBufferPerBlock it is inductive. *)
(***************************************************************************)
EXTENDS BufCache, ListLemmas, TLAPS

-----------------------------------------------------------------------------
(* Records of the four variables, and what an operation may do to blocks.  *)

(* b is a struct buf, whatever its fields hold. *)
Fields(b) ==
  b = [block |-> b.block, flags |-> b.flags, size |-> b.size, data |-> b.data]

(* S is a record of the four variables. *)
Shaped(S) ==
  /\ S = [buf |-> S.buf, free |-> S.free, need |-> S.need, slp |-> S.slp]
  /\ S.buf = [bp \in Buf |-> S.buf[bp]]
  /\ \A bp \in Buf : Fields(S.buf[bp])

(* T comes of S by an operation that puts no buffer on a hash chain.       *)
Less(S, T) ==
  /\ Shaped(T)
  /\ \A bp \in Buf : T.buf[bp].block \in {S.buf[bp].block, None}

(* The operations compose. *)
LEMMA LessSelf ==
  ASSUME NEW S, Shaped(S)
  PROVE  Less(S, S)
BY DEF Less

LEMMA LessTwice ==
  ASSUME NEW S, NEW T, NEW U, Less(S, T), Less(T, U)
  PROVE  Less(S, U)
BY DEF Less

(* Lists, needbuffer and sleepers are no chains. *)
LEMMA Same ==
  ASSUME NEW S, NEW T, Shaped(S), T.buf = S.buf,
         T = [buf |-> T.buf, free |-> T.free, need |-> T.need, slp |-> T.slp]
  PROVE  Less(S, T)
BY DEF Less, Shaped

(* One buffer is changed. *)
LEMMA Edited ==
  ASSUME NEW S, Shaped(S), NEW bp \in Buf, NEW c, Fields(c)
  PROVE  LET T == [S EXCEPT !.buf[bp] = c]
         IN  /\ Shaped(T)
             /\ \A x \in Buf : T.buf[x] = IF x = bp THEN c ELSE S.buf[x]
<1> DEFINE T == [S EXCEPT !.buf[bp] = c]
<1>1. /\ T.buf = [S.buf EXCEPT ![bp] = c] /\ T.free = S.free
      /\ T.need = S.need /\ T.slp = S.slp
      /\ T = [buf |-> T.buf, free |-> T.free, need |-> T.need, slp |-> T.slp]
  BY DEF Shaped
<1> HIDE DEF T
<1>2. T.buf = [x \in Buf |-> IF x = bp THEN c ELSE S.buf[x]]
  BY <1>1 DEF Shaped
<1>3. \A x \in Buf : T.buf[x] = IF x = bp THEN c ELSE S.buf[x]
  BY <1>2
<1>4. Shaped(T)
  BY <1>1, <1>2, <1>3 DEF Shaped
<1>. QED  BY <1>3, <1>4 DEF T

(* A buffer that is changed keeps its block or loses it. *)
LEMMA EditedLess ==
  ASSUME NEW S, Shaped(S), NEW bp, NEW c,
         bp \in Buf => Fields(c) /\ c.block \in {S.buf[bp].block, None}
  PROVE  Less(S, [S EXCEPT !.buf[bp] = c])
<1> DEFINE T == [S EXCEPT !.buf[bp] = c]
<1>1. CASE bp \in Buf
  BY <1>1, Edited DEF Less
<1>2. CASE bp \notin Buf
  <2>1. [S.buf EXCEPT ![bp] = c] = S.buf
    BY <1>2 DEF Shaped
  <2>2. /\ T.buf = S.buf
        /\ T = [buf |-> T.buf, free |-> T.free, need |-> T.need,
                slp |-> T.slp]
    BY <2>1 DEF Shaped
  <2> HIDE DEF T
  <2>. QED  BY <2>2, Same DEF T
<1>. QED  BY <1>1, <1>2

(* The fields of struct buf change one at a time. *)
LEMMA FieldsKept ==
  ASSUME NEW b, Fields(b), NEW f
  PROVE  /\ Fields([b EXCEPT !.flags = f])
         /\ [b EXCEPT !.flags = f].block = b.block
         /\ Fields([b EXCEPT !.size = f])
         /\ [b EXCEPT !.size = f].block = b.block
         /\ Fields([b EXCEPT !.data = f])
         /\ [b EXCEPT !.data = f].block = b.block
         /\ Fields([b EXCEPT !.block = f])
         /\ [b EXCEPT !.block = f].block = f
BY DEF Fields

(* A change of one field of one buffer. *)
LEMMA FieldLess ==
  ASSUME NEW S, Shaped(S), NEW bp, NEW f
  PROVE  /\ Less(S, [S EXCEPT !.buf[bp].flags = f])
         /\ Less(S, [S EXCEPT !.buf[bp].size = f])
         /\ Less(S, [S EXCEPT !.buf[bp].data = f])
         /\ Less(S, [S EXCEPT !.buf[bp].block = None])
<1> DEFINE b == S.buf[bp]
           c1 == [b EXCEPT !.flags = f]
           c2 == [b EXCEPT !.size = f]
           c3 == [b EXCEPT !.data = f]
           c4 == [b EXCEPT !.block = None]
<1>1. bp \in Buf => Fields(b)
  BY DEF Shaped
<1>2. bp \in Buf =>
        /\ Fields(c1) /\ c1.block = b.block
        /\ Fields(c2) /\ c2.block = b.block
        /\ Fields(c3) /\ c3.block = b.block
        /\ Fields(c4) /\ c4.block = None
  <2> HIDE DEF b
  <2>. QED  BY <1>1, FieldsKept
<1>3. /\ [S EXCEPT !.buf[bp].flags = f] = [S EXCEPT !.buf[bp] = c1]
      /\ [S EXCEPT !.buf[bp].size = f] = [S EXCEPT !.buf[bp] = c2]
      /\ [S EXCEPT !.buf[bp].data = f] = [S EXCEPT !.buf[bp] = c3]
      /\ [S EXCEPT !.buf[bp].block = None] = [S EXCEPT !.buf[bp] = c4]
  OBVIOUS
<1> HIDE DEF c1, c2, c3, c4
<1>4. /\ Less(S, [S EXCEPT !.buf[bp] = c1])
      /\ Less(S, [S EXCEPT !.buf[bp] = c2])
      /\ Less(S, [S EXCEPT !.buf[bp] = c3])
      /\ Less(S, [S EXCEPT !.buf[bp] = c4])
  BY <1>2, EditedLess
<1>. QED  BY <1>3, <1>4

-----------------------------------------------------------------------------
(* The operations.                                                         *)

LEMMA FlagsLess ==
  ASSUME NEW S, Shaped(S), NEW bp, NEW on, NEW off
  PROVE  Less(S, SetFlags(S, bp, on, off))
<1> DEFINE f == (S.buf[bp].flags \ off) \cup on
<1>1. SetFlags(S, bp, on, off) = [S EXCEPT !.buf[bp].flags = f]
  BY Zenon DEF SetFlags
<1> HIDE DEF f
<1>2. Less(S, [S EXCEPT !.buf[bp].flags = f])
  BY FieldLess
<1>. QED  BY <1>1, <1>2

LEMMA ListsLess ==
  ASSUME NEW S, Shaped(S), NEW f, NEW n, NEW s
  PROVE  /\ Less(S, [S EXCEPT !.free = f])
         /\ Less(S, [S EXCEPT !.need = n])
         /\ Less(S, [S EXCEPT !.slp = s])
<1> DEFINE T1 == [S EXCEPT !.free = f]
           T2 == [S EXCEPT !.need = n]
           T3 == [S EXCEPT !.slp = s]
<1>1. T1.buf = S.buf
      /\ T1 = [buf |-> T1.buf, free |-> T1.free, need |-> T1.need,
               slp |-> T1.slp]
  BY DEF Shaped
<1>2. T2.buf = S.buf
      /\ T2 = [buf |-> T2.buf, free |-> T2.free, need |-> T2.need,
               slp |-> T2.slp]
  BY DEF Shaped
<1>3. T3.buf = S.buf
      /\ T3 = [buf |-> T3.buf, free |-> T3.free, need |-> T3.need,
               slp |-> T3.slp]
  BY DEF Shaped
<1> HIDE DEF T1, T2, T3
<1>4. Less(S, T1) /\ Less(S, T2) /\ Less(S, T3)
  BY <1>1, <1>2, <1>3, Same
<1>. QED  BY <1>4 DEF T1, T2, T3

LEMMA SleepLess ==
  ASSUME NEW S, Shaped(S), NEW p, NEW chan
  PROVE  Less(S, Sleep(S, p, chan)) /\ Less(S, Wakeup(S, chan))
<1> DEFINE s == [S.slp EXCEPT ![p] = chan]
           w == [r \in Proc |-> IF S.slp[r] = chan THEN None ELSE S.slp[r]]
<1>1. Sleep(S, p, chan) = [S EXCEPT !.slp = s]
  BY DEF Sleep
<1>2. Wakeup(S, chan) = [S EXCEPT !.slp = w]
  BY DEF Wakeup
<1> HIDE DEF s, w
<1>3. Less(S, [S EXCEPT !.slp = s]) /\ Less(S, [S EXCEPT !.slp = w])
  BY ListsLess
<1>. QED  BY <1>1, <1>2, <1>3

LEMMA BremfreeLess ==
  ASSUME NEW S, Shaped(S), NEW bp
  PROVE  Less(S, Bremfree(S, bp))
<1> DEFINE f == [q \in DOMAIN S.free |-> RemoveFirst(S.free[q], bp)]
<1>1. Bremfree(S, bp) = [S EXCEPT !.free = f]
  BY Zenon DEF Bremfree
<1> HIDE DEF f
<1>2. Less(S, [S EXCEPT !.free = f])
  BY ListsLess
<1>. QED  BY <1>1, <1>2

LEMMA WakeForReleaseLess ==
  ASSUME NEW S, Shaped(S), NEW bp
  PROVE  Less(S, WakeForRelease(S, bp))
<1> DEFINE S1 == IF "WANTED" \in S.buf[bp].flags THEN Wakeup(S, bp) ELSE S
           S2 == Wakeup(S1, NeedBuffer)
           S3 == [S2 EXCEPT !.need = FALSE]
<1>1. Less(S, S1)
  BY LessSelf, SleepLess
<1>2. WakeForRelease(S, bp) = IF S1.need THEN S3 ELSE S1
  BY DEF WakeForRelease
<1> HIDE DEF S1
<1>3. Less(S1, S2)
  BY <1>1, SleepLess DEF Less
<1> HIDE DEF S2
<1>4. Less(S2, S3)
  BY <1>3, ListsLess DEF Less
<1> HIDE DEF S3
<1>. QED  BY <1>1, <1>2, <1>3, <1>4, LessTwice

LEMMA DisassociateLess ==
  ASSUME NEW S, Shaped(S), NEW bp
  PROVE  Less(S, Disassociate(S, bp))
<1> DEFINE S1 == IF "ERROR" \in S.buf[bp].flags
                 THEN SetFlags(S, bp, {"INVAL"}, {}) ELSE S
           S2 == SetFlags(S1, bp, {}, {"DELWRI"})
           S3 == [S2 EXCEPT !.buf[bp].block = None]
<1>1. Less(S, S1)
  BY LessSelf, FlagsLess
<1>2. Disassociate(S, bp) = IF ~Dead(S.buf[bp]) THEN S ELSE S3
  BY DEF Disassociate
<1> HIDE DEF S1
<1>3. Less(S1, S2)
  BY <1>1, FlagsLess DEF Less
<1> HIDE DEF S2
<1>4. Less(S2, S3)
  BY <1>3, FieldLess DEF Less
<1> HIDE DEF S3
<1>. QED  BY <1>1, <1>2, <1>3, <1>4, LessSelf, LessTwice

LEMMA RequeueLess ==
  ASSUME NEW S, Shaped(S), NEW bp
  PROVE  Less(S, Requeue(S, bp))
<1> DEFINE b == S.buf[bp]
           f(q, l) == [S.free EXCEPT ![q] = l]
<1>1. \/ Requeue(S, bp) = [S EXCEPT !.free["EMPTY"] = <<bp>> \o @]
      \/ Requeue(S, bp) = [S EXCEPT !.free["AGE"] = <<bp>> \o @]
      \/ Requeue(S, bp) = [S EXCEPT !.free["AGE"] = Append(@, bp)]
      \/ Requeue(S, bp) = [S EXCEPT !.free["LRU"] = Append(@, bp)]
  <2>1. \/ b.size = 0
        \/ b.size # 0 /\ Dead(b)
        \/ ~Dead(b) /\ "AGE" \in b.flags
        \/ ~Dead(b) /\ "AGE" \notin b.flags
    BY DEF Dead
  <2>2. b.size = 0 => Dead(b)
    BY DEF Dead
  <2>. QED  BY <2>1, <2>2 DEF Requeue
<1> DEFINE g == Requeue(S, bp).free
<1>2. Requeue(S, bp) = [S EXCEPT !.free = g]
  <2>1. ASSUME NEW h, Requeue(S, bp) = [S EXCEPT !.free = h]
        PROVE  Requeue(S, bp) = [S EXCEPT !.free = g]
    BY <2>1 DEF Shaped
  <2>. QED  BY <1>1, <2>1
<1> HIDE DEF g
<1>3. Less(S, [S EXCEPT !.free = g])
  BY ListsLess
<1>. QED  BY <1>2, <1>3

LEMMA BrelseLess ==
  ASSUME NEW S, Shaped(S), NEW bp
  PROVE  Less(S, Brelse(S, bp))
<1> DEFINE S1 == WakeForRelease(S, bp)
           S2 == Disassociate(S1, bp)
           S3 == Requeue(S2, bp)
           S4 == SetFlags(S3, bp, {}, {"WANTED", "BUSY", "ASYNC", "AGE"})
<1>1. Less(S, S1)
  BY WakeForReleaseLess
<1> HIDE DEF S1
<1>2. Less(S1, S2)
  BY <1>1, DisassociateLess DEF Less
<1> HIDE DEF S2
<1>3. Less(S2, S3)
  BY <1>2, RequeueLess DEF Less
<1> HIDE DEF S3
<1>4. Less(S3, S4)
  BY <1>3, FlagsLess DEF Less
<1>5. Brelse(S, bp) = S4
  BY DEF Brelse, S1, S2, S3
<1> HIDE DEF S4
<1>. QED  BY <1>1, <1>2, <1>3, <1>4, <1>5, LessTwice

LEMMA StartWriteLess ==
  ASSUME NEW S, Shaped(S), NEW bp
  PROVE  Less(S, StartWrite(S, bp))
BY FlagsLess DEF StartWrite

LEMMA FillLess ==
  ASSUME NEW S, Shaped(S), NEW bp, NEW v
  PROVE  Less(S, Fill(S, bp, v))
BY FieldLess DEF Fill

LEMMA CompleteLess ==
  ASSUME NEW S, Shaped(S), NEW bp
  PROVE  Less(S, Complete(S, bp))
<1> DEFINE T == SetFlags(S, bp, {}, {"WANTED"})
<1>1. Less(S, T)
  BY FlagsLess
<1>2. Complete(S, bp) = IF "ASYNC" \in S.buf[bp].flags THEN Brelse(S, bp)
                        ELSE Wakeup(T, bp)
  BY DEF Complete
<1> HIDE DEF T
<1>3. Less(T, Wakeup(T, bp))
  BY <1>1, SleepLess DEF Less
<1>. QED  BY <1>1, <1>2, <1>3, BrelseLess, LessTwice

LEMMA TakenLess ==
  ASSUME NEW S, Shaped(S), NEW bp
  PROVE  Less(S, Taken(S, bp))
<1> DEFINE S1 == Bremfree(S, bp)
           S2 == [S1 EXCEPT !.buf[bp].flags = {"BUSY"}]
           S3 == [S2 EXCEPT !.buf[bp].block = None]
<1>1. Less(S, S1)
  BY BremfreeLess
<1>2. Taken(S, bp) = S3
  BY DEF Taken
<1> HIDE DEF S1
<1>3. Less(S1, S2)
  BY <1>1, FieldLess DEF Less
<1> HIDE DEF S2
<1>4. Less(S2, S3)
  BY <1>3, FieldLess DEF Less
<1> HIDE DEF S3
<1>. QED  BY <1>1, <1>2, <1>3, <1>4, LessTwice

LEMMA TakePagesLess ==
  ASSUME NEW p, NEW bp, Shaped(Now)
  PROVE  Less(Now, TakePages(p, bp))
<1> DEFINE tp == held[p]
           take == Min({SizeOf[want[p]] - buf[tp].size, buf[bp].size})
           S1 == Taken(Now, bp)
           k == S1.buf[tp].size + take
           S2 == [S1 EXCEPT !.buf[tp].size = k]
           n == S1.buf[bp].size - take
           S3 == [S2 EXCEPT !.buf[bp].size = n]
           S4 == SetFlags(S3, bp, {"INVAL"}, {})
<1>1. Less(Now, S1)
  BY TakenLess
<1>2. TakePages(p, bp) = IF S3.buf[bp].size = 0 THEN S4 ELSE S3
  BY DEF TakePages
<1> HIDE DEF S1, k
<1>3. Less(S1, S2)
  BY <1>1, FieldLess DEF Less
<1> HIDE DEF S2, n
<1>4. Less(S2, S3)
  BY <1>3, FieldLess DEF Less
<1> HIDE DEF S3
<1>5. Less(S3, S4)
  BY <1>4, FlagsLess DEF Less
<1> HIDE DEF S4
<1>. QED  BY <1>1, <1>2, <1>3, <1>4, <1>5, LessTwice

-----------------------------------------------------------------------------
(* The invariant. A process between getblk()'s search and getnewbuf()'s    *)
(* result has not slept, and no buffer has its block.                      *)

Chains == Shaped(Now) /\ OneBufferPerBlock

CacheInv ==
  /\ Chains
  /\ pc \in [Proc -> Places]
  /\ want \in [Proc -> Block \cup {None}]
  /\ \A p \in Proc : pc[p] # "idle" => want[p] \in Block
  /\ \A p \in Proc :
       pc[p] = "newbuf" =>
         cpu = p /\ \A bp \in Buf : buf[bp].block # want[p]

(* An operation that puts no buffer on a hash chain leaves the chains      *)
(* sound, and a block without a buffer without one.                        *)
LEMMA BecomesLess ==
  ASSUME Chains, NEW T, Less(Now, T), Becomes(T)
  PROVE  /\ Chains'
         /\ \A bp \in Buf : buf'[bp].block \in {buf[bp].block, None}
<1>1. buf' = T.buf /\ free' = T.free /\ need' = T.need /\ slp' = T.slp
  BY DEF Becomes
<1>2. \A bp \in Buf : buf'[bp].block \in {buf[bp].block, None}
  BY <1>1 DEF Less, Now
<1>3. Shaped(Now)'
  BY <1>1 DEF Less, Shaped, Now
<1>4. OneBufferPerBlock'
  BY <1>2 DEF Chains, OneBufferPerBlock
<1>. QED  BY <1>2, <1>3, <1>4 DEF Chains

(* The same of a step that leaves the cache alone. *)
LEMMA StateSame ==
  ASSUME Chains, UNCHANGED state
  PROVE  Chains' /\ \A bp \in Buf : buf'[bp].block \in {buf[bp].block, None}
BY DEF Chains, state, Shaped, Now, OneBufferPerBlock

(* A step of p, when the chains only lose buffers. *)
LEMMA Stepped ==
  ASSUME CacheInv, NEW p \in Proc, cpu \in {None, p}, Chains',
         \A bp \in Buf : buf'[bp].block \in {buf[bp].block, None},
         pc' \in [Proc -> Places], want' \in [Proc -> Block \cup {None}],
         \A r \in Proc \ {p} : pc'[r] = pc[r] /\ want'[r] = want[r],
         pc'[p] # "idle" => want'[p] \in Block,
         pc'[p] = "newbuf" => /\ cpu' = p
                              /\ \A bp \in Buf : buf[bp].block # want'[p]
  PROVE  CacheInv'
<1>1. ASSUME NEW r \in Proc, pc'[r] = "newbuf"
      PROVE  r = p
  BY <1>1, BufCacheAssumption DEF CacheInv
<1>2. ASSUME pc'[p] = "newbuf"
      PROVE  \A bp \in Buf : buf'[bp].block # want'[p]
  BY <1>2, BufCacheAssumption
<1>3. \A r \in Proc : pc'[r] # "idle" => want'[r] \in Block
  BY DEF CacheInv
<1>. QED  BY <1>1, <1>2, <1>3 DEF CacheInv

(* p goes on somewhere else than to getnewbuf(). *)
LEMMA Moved ==
  ASSUME CacheInv, NEW p \in Proc, cpu \in {None, p}, pc[p] # "idle", Chains',
         \A bp \in Buf : buf'[bp].block \in {buf[bp].block, None},
         NEW where \in Places \ {"newbuf"}, Goto(p, where), want' = want
  PROVE  CacheInv'
<1>1. /\ pc' \in [Proc -> Places] /\ pc'[p] = where
      /\ \A r \in Proc \ {p} : pc'[r] = pc[r]
  BY DEF Goto, CacheInv
<1>2. want' \in [Proc -> Block \cup {None}] /\ want'[p] \in Block
  BY DEF CacheInv
<1>. QED  BY <1>1, <1>2, Stepped

(* p gives its buffer up. *)
LEMMA Left ==
  ASSUME CacheInv, NEW p \in Proc, cpu \in {None, p}, Chains',
         \A bp \in Buf : buf'[bp].block \in {buf[bp].block, None}, Leave(p)
  PROVE  CacheInv'
<1>1. /\ pc' \in [Proc -> Places] /\ pc'[p] = "idle"
      /\ \A r \in Proc \ {p} : pc'[r] = pc[r]
  BY DEF Leave, Goto, CacheInv, Places
<1>2. /\ want' \in [Proc -> Block \cup {None}]
      /\ \A r \in Proc \ {p} : want'[r] = want[r]
  BY DEF Leave, CacheInv
<1>. QED  BY <1>1, <1>2, Stepped

(* p stays where it is, and does not sleep if that is in getnewbuf(). *)
LEMMA Stayed ==
  ASSUME CacheInv, NEW p \in Proc, cpu \in {None, p}, pc[p] # "idle", Chains',
         \A bp \in Buf : buf'[bp].block \in {buf[bp].block, None},
         UNCHANGED <<pc, want>>, pc[p] = "newbuf" => cpu' = p
  PROVE  CacheInv'
BY Stepped DEF CacheInv

-----------------------------------------------------------------------------
(* The actions.                                                            *)

(* What the invariant says of the cache alone. *)
LEMMA NowShaped == CacheInv => Shaped(Now) /\ Chains
BY DEF CacheInv, Chains

LEMMA StartKeeps ==
  ASSUME CacheInv, NEW p \in Proc, NEW b \in Block, NEW h, Start(p, b, h)
  PROVE  CacheInv'
<1>1. cpu \in {None, p} /\ UNCHANGED state
  BY DEF Start, Runs
<1>2. /\ pc' = [pc EXCEPT ![p] = "getblk"] /\ want' = [want EXCEPT ![p] = b]
  BY DEF Start, Goto
<1>3. /\ pc' \in [Proc -> Places] /\ pc'[p] = "getblk"
      /\ want' \in [Proc -> Block \cup {None}] /\ want'[p] = b
      /\ \A r \in Proc \ {p} : pc'[r] = pc[r] /\ want'[r] = want[r]
  BY <1>2 DEF CacheInv, Places
<1>. QED  BY <1>1, <1>3, NowShaped, StateSame, Stepped

(* The search ends with a busy buffer, a free one, or none. *)
LEMMA GetblkKeeps ==
  ASSUME CacheInv, NEW p \in Proc, Getblk(p)
  PROVE  CacheInv'
<1>1. cpu \in {None, p} /\ pc[p] = "getblk" /\ Shaped(Now) /\ Chains
  BY NowShaped DEF Getblk, Runs
<1>2. ASSUME NEW bp, GetblkBusy(p, bp)
      PROVE  CacheInv'
  <2> DEFINE S == SetFlags(Now, bp, {"WANTED"}, {})
             T == Sleep(S, p, bp)
  <2>1. Less(Now, S)
    BY <1>1, FlagsLess
  <2>2. Becomes(T) /\ UNCHANGED <<pc, want>>
    BY <1>2 DEF GetblkBusy, local
  <2> HIDE DEF S
  <2>3. Less(Now, T)
    BY <2>1, SleepLess, LessTwice DEF Less
  <2> HIDE DEF T
  <2>. QED  BY <1>1, <2>2, <2>3, BecomesLess, Stayed
<1>3. ASSUME NEW bp, Becomes(SetFlags(Bremfree(Now, bp), bp, {"BUSY"}, {})),
             Goto(p, "got"), want' = want
      PROVE  CacheInv'
  <2> DEFINE S == Bremfree(Now, bp)
             T == SetFlags(S, bp, {"BUSY"}, {})
  <2>1. Less(Now, S)
    BY <1>1, BremfreeLess
  <2> HIDE DEF S
  <2>2. Less(Now, T)
    BY <2>1, FlagsLess, LessTwice DEF Less
  <2>3. Becomes(T)
    BY <1>3 DEF S
  <2> HIDE DEF T
  <2>4. "got" \in Places \ {"newbuf"}
    BY DEF Places
  <2>. QED  BY <1>1, <1>3, <2>2, <2>3, <2>4, BecomesLess, Moved
<1>4. ASSUME \A bp \in Buf : buf[bp].block # want[p],
             Goto(p, "newbuf"), cpu' = p, UNCHANGED state, want' = want
      PROVE  CacheInv'
  <2>1. /\ pc' \in [Proc -> Places]
        /\ \A r \in Proc \ {p} : pc'[r] = pc[r]
    BY <1>4 DEF Goto, CacheInv, Places
  <2>2. want' \in [Proc -> Block \cup {None}] /\ want'[p] \in Block
    BY <1>1, <1>4 DEF CacheInv
  <2>. QED  BY <1>1, <1>4, <2>1, <2>2, StateSame, Stepped
<1>. QED  BY <1>2, <1>3, <1>4 DEF Getblk

(* getnewbuf() finds no buffer, and p goes back to a place of its own. *)
LEMMA NoneKeeps ==
  ASSUME CacheInv, NEW p \in Proc, cpu \in {None, p}, pc[p] # "idle",
         NEW back \in Places \ {"newbuf"}, GetnewbufNone(p, back)
  PROVE  CacheInv'
<1> DEFINE S == [Now EXCEPT !.need = TRUE]
           T == Sleep(S, p, NeedBuffer)
<1>1. Shaped(Now) /\ Chains
  BY NowShaped
<1>2. Less(Now, S)
  BY <1>1, ListsLess
<1>3. Becomes(T) /\ Goto(p, back) /\ want' = want
  BY DEF GetnewbufNone
<1> HIDE DEF S
<1>4. Less(Now, T)
  BY <1>2, SleepLess, LessTwice DEF Less
<1> HIDE DEF T
<1>. QED  BY <1>1, <1>3, <1>4, BecomesLess, Moved

(* getnewbuf() starts a delayed write, and does not sleep. *)
LEMMA DirtyKeeps ==
  ASSUME ~Sleepy, CacheInv, NEW p \in Proc, cpu \in {None, p},
         pc[p] # "idle", NEW bp, GetnewbufDirty(p, bp)
  PROVE  CacheInv'
<1> DEFINE S == Bremfree(Now, bp)
           U == SetFlags(S, bp, {"BUSY", "ASYNC"}, {})
           T == StartWrite(U, bp)
<1>1. Shaped(Now) /\ Chains
  BY NowShaped
<1>2. Less(Now, S)
  BY <1>1, BremfreeLess
<1>3. Becomes(T) /\ cpu' = p /\ UNCHANGED <<pc, want>>
  BY DEF GetnewbufDirty, local
<1> HIDE DEF S
<1>4. Less(Now, U)
  BY <1>2, FlagsLess, LessTwice DEF Less
<1> HIDE DEF U
<1>5. Less(Now, T)
  BY <1>4, StartWriteLess, LessTwice DEF Less
<1> HIDE DEF T
<1>. QED  BY <1>1, <1>3, <1>5, BecomesLess, Stayed

(* A buffer enters the chain of the block that p had not found there. *)
LEMMA NewbufKeeps ==
  ASSUME ~Sleepy, CacheInv, NEW p \in Proc, Newbuf(p)
  PROVE  CacheInv'
<1>1. /\ cpu \in {None, p} /\ pc[p] = "newbuf" /\ Shaped(Now) /\ Chains
      /\ want[p] \in Block
  BY NowShaped DEF Newbuf, Runs, CacheInv
<1>2. CASE GetnewbufNone(p, Retry)
  BY <1>1, <1>2, NoneKeeps DEF Retry, Places
<1>3. ASSUME NEW bp, GetnewbufDirty(p, bp)
      PROVE  CacheInv'
  BY <1>1, <1>3, DirtyKeeps
<1>4. ASSUME NEW bp,
             Becomes([Taken(Now, bp) EXCEPT !.buf[bp].block = want[p]]),
             Goto(p, "alloc"), want' = want
      PROVE  CacheInv'
  <2> DEFINE S == Taken(Now, bp)
             c == [S.buf[bp] EXCEPT !.block = want[p]]
             T == [S EXCEPT !.buf[bp] = c]
  <2>1. Less(Now, S)
    BY <1>1, TakenLess
  <2>2. Becomes(T)
    BY <1>4
  <2>3. buf' = T.buf /\ free' = T.free /\ need' = T.need /\ slp' = T.slp
    BY <2>2 DEF Becomes
  <2>4. bp \in Buf => Fields(c) /\ c.block = want[p]
    <3> DEFINE b == S.buf[bp]
    <3>1. bp \in Buf => Fields(b)
      BY <2>1 DEF Less, Shaped
    <3> HIDE DEF b
    <3>2. bp \in Buf => /\ Fields([b EXCEPT !.block = want[p]])
                        /\ [b EXCEPT !.block = want[p]].block = want[p]
      BY <3>1, FieldsKept
    <3>. QED  BY <3>2 DEF b
  <2> HIDE DEF S, c
  <2>5. /\ Shaped(T)
        /\ \A x \in Buf : T.buf[x].block = IF x = bp THEN want[p]
                                           ELSE S.buf[x].block
    <3>1. CASE bp \in Buf
      BY <2>1, <2>4, <3>1, Edited DEF Less
    <3>2. CASE bp \notin Buf
      <4>1. [S.buf EXCEPT ![bp] = c] = S.buf
        BY <2>1, <3>2 DEF Less, Shaped
      <4>2. /\ T.buf = S.buf
            /\ T = [buf |-> T.buf, free |-> T.free, need |-> T.need,
                    slp |-> T.slp]
        BY <2>1, <4>1 DEF Less, Shaped
      <4>3. Shaped(T)
        <5> HIDE DEF T
        <5>. QED  BY <2>1, <4>2 DEF Less, Shaped
      <4>. QED  BY <3>2, <4>2, <4>3
    <3>. QED  BY <3>1, <3>2
  <2> HIDE DEF T
  <2>6. Shaped(Now)'
    BY <2>3, <2>5 DEF Shaped, Now
  <2>7. \A x \in Buf : buf'[x].block = want[p]
                         \/ buf'[x].block \in {buf[x].block, None}
    BY <2>1, <2>3, <2>5 DEF Less, Now
  <2>8. \A x \in Buf \ {bp} : buf'[x].block \in {buf[x].block, None}
    BY <2>1, <2>3, <2>5 DEF Less, Now
  <2>9. \A x \in Buf : buf[x].block # want[p]
    BY <1>1 DEF CacheInv
  <2>10. OneBufferPerBlock'
    <3>1. SUFFICES ASSUME NEW x \in Buf, NEW y \in Buf, x # y,
                          buf'[x].block # None
                   PROVE  buf'[x].block # buf'[y].block
      BY DEF OneBufferPerBlock
    <3>2. CASE x # bp /\ y # bp
      BY <1>1, <2>8, <3>1, <3>2 DEF Chains, OneBufferPerBlock
    <3>3. CASE x = bp \/ y = bp
      <4>1. bp \in Buf => buf'[bp].block = want[p]
        BY <2>3, <2>5
      <4>. QED  BY <1>1, <2>8, <2>9, <3>1, <3>3, <4>1, BufCacheAssumption
    <3>. QED  BY <3>2, <3>3
  <2>11. /\ pc' \in [Proc -> Places] /\ pc'[p] = "alloc"
         /\ \A r \in Proc \ {p} : pc'[r] = pc[r]
    BY <1>4 DEF Goto, CacheInv, Places
  <2>12. \A r \in Proc : pc'[r] # "newbuf"
    BY <1>1, <2>11, BufCacheAssumption DEF CacheInv
  <2>. QED  BY <1>1, <1>4, <2>6, <2>10, <2>11, <2>12 DEF CacheInv, Chains
<1>. QED  BY <1>2, <1>3, <1>4 DEF Newbuf

(* What a step of p may end in, when the cache went from Now to T. *)
LEMMA ThenMoved ==
  ASSUME CacheInv, NEW p \in Proc, cpu \in {None, p}, pc[p] # "idle",
         NEW T, Less(Now, T), Becomes(T),
         \/ \E where \in Places \ {"newbuf"} : Goto(p, where) /\ want' = want
         \/ Leave(p)
  PROVE  CacheInv'
BY NowShaped, BecomesLess, Moved, Left

(* The same when the cache has not changed. *)
LEMMA JustMoved ==
  ASSUME CacheInv, NEW p \in Proc, cpu \in {None, p}, pc[p] # "idle",
         UNCHANGED state, NEW where \in Places \ {"newbuf"}, Goto(p, where),
         want' = want
  PROVE  CacheInv'
BY NowShaped, StateSame, Moved

(* allocbuf() gives pages away, or takes some. *)
LEMMA ShrinkKeeps ==
  ASSUME CacheInv, NEW p \in Proc, cpu \in {None, p}, pc[p] # "idle",
         Shrink(p)
  PROVE  CacheInv'
<1> DEFINE bp == held[p]
           size == SizeOf[want[p]]
           ep == Head(free["EMPTY"])
           S1 == Bremfree(Now, ep)
           n == buf[bp].size - size
           f == S1.buf[ep].flags \cup {"BUSY", "INVAL"}
           S2 == [S1 EXCEPT !.buf[ep].size = n]
           S3 == [S2 EXCEPT !.buf[ep].flags = f]
           S4 == [S3 EXCEPT !.buf[bp].size = size]
           S5 == Brelse(S4, ep)
<1>1. Goto(p, "got") /\ want' = want /\ "got" \in Places \ {"newbuf"}
  BY DEF Shrink, Places
<1>2. UNCHANGED state \/ Becomes(S5)
  BY DEF Shrink
<1>3. Less(Now, S1)
  BY NowShaped, BremfreeLess
<1> HIDE DEF S1, n, f, ep, size, bp
<1>4. Less(S1, S2)
  BY <1>3, FieldLess DEF Less
<1> HIDE DEF S2
<1>5. Less(S2, S3)
  BY <1>4, FieldLess DEF Less
<1> HIDE DEF S3
<1>6. Less(S3, S4)
  BY <1>5, FieldLess DEF Less
<1> HIDE DEF S4
<1>7. Less(S4, S5)
  BY <1>6, BrelseLess DEF Less
<1> HIDE DEF S5
<1>. QED
  BY <1>1, <1>2, <1>3, <1>4, <1>5, <1>6, <1>7, LessTwice, JustMoved, ThenMoved

LEMMA GrowKeeps ==
  ASSUME ~Sleepy, CacheInv, NEW p \in Proc, cpu \in {None, p},
         pc[p] = "alloc", Grow(p)
  PROVE  CacheInv'
<1>1. CASE GetnewbufNone(p, "alloc")
  BY <1>1, NoneKeeps DEF Places
<1>2. ASSUME NEW bp, GetnewbufDirty(p, bp)
      PROVE  CacheInv'
  BY <1>2, DirtyKeeps
<1>3. ASSUME NEW bp, Becomes(Brelse(TakePages(p, bp), bp)),
             UNCHANGED <<pc, want>>
      PROVE  CacheInv'
  <2> DEFINE S == TakePages(p, bp)
             T == Brelse(S, bp)
  <2>1. Less(Now, S)
    BY NowShaped, TakePagesLess
  <2> HIDE DEF S
  <2>2. Less(Now, T)
    BY <2>1, BrelseLess, LessTwice DEF Less
  <2>3. Becomes(T)
    BY <1>3 DEF S
  <2> HIDE DEF T
  <2>. QED  BY <1>3, <2>2, <2>3, NowShaped, BecomesLess, Stayed
<1>. QED  BY <1>1, <1>2, <1>3 DEF Grow, local

LEMMA AllocbufKeeps ==
  ASSUME ~Sleepy, CacheInv, NEW p \in Proc, Allocbuf(p)
  PROVE  CacheInv'
<1>1. cpu \in {None, p} /\ pc[p] = "alloc" /\ "got" \in Places \ {"newbuf"}
  BY DEF Allocbuf, Runs, Places
<1>. QED  BY <1>1, ShrinkKeeps, GrowKeeps, JustMoved DEF Allocbuf

(* The caller's steps with the buffer it holds. *)
LEMMA GotKeeps ==
  ASSUME CacheInv, NEW p \in Proc, Got(p)
  PROVE  CacheInv'
<1> DEFINE bp == held[p]
           R == SetFlags(Now, bp, {"READ"}, {})
           T == Sleep(R, p, bp)
           A == SetFlags(Now, bp, {"READ", "ASYNC"}, {})
           B == Brelse(Now, bp)
<1>1. cpu \in {None, p} /\ pc[p] = "got"
  BY DEF Got, Runs
<1>2. Less(Now, R) /\ Less(Now, A) /\ Less(Now, B)
  BY NowShaped, FlagsLess, BrelseLess
<1>3. \/ Goto(p, "use") /\ want' = want /\ UNCHANGED state
      \/ Becomes(T) /\ Goto(p, "biowait") /\ want' = want
      \/ Becomes(B) /\ Leave(p)
      \/ Becomes(A) /\ Leave(p)
  BY DEF Got, Use
<1>4. {"use", "biowait"} \subseteq Places \ {"newbuf"}
  BY DEF Places
<1> HIDE DEF R, A, B
<1>5. Less(Now, T)
  BY <1>2, SleepLess, LessTwice DEF Less
<1> HIDE DEF T
<1>. QED  BY <1>1, <1>2, <1>3, <1>4, <1>5, JustMoved, ThenMoved

LEMMA ReadKeeps ==
  ASSUME CacheInv, NEW p \in Proc, Read(p)
  PROVE  CacheInv'
<1> DEFINE B == Brelse(Now, held[p])
<1>1. cpu \in {None, p} /\ pc[p] = "biowait" /\ "use" \in Places \ {"newbuf"}
  BY DEF Read, Runs, Places
<1>2. \/ Goto(p, "use") /\ want' = want /\ UNCHANGED state
      \/ Becomes(B) /\ Leave(p)
  BY DEF Read, Use
<1>3. Less(Now, B)
  BY NowShaped, BrelseLess
<1> HIDE DEF B
<1>. QED  BY <1>1, <1>2, <1>3, JustMoved, ThenMoved

LEMMA ReleaseKeeps ==
  ASSUME CacheInv, NEW p \in Proc, Release(p) \/ BwriteDone(p)
  PROVE  CacheInv'
<1> DEFINE B == Brelse(Now, held[p])
<1>1. cpu \in {None, p} /\ pc[p] # "idle" /\ Becomes(B) /\ Leave(p)
  BY DEF Release, BwriteDone, Runs
<1>2. Less(Now, B)
  BY NowShaped, BrelseLess
<1> HIDE DEF B
<1>. QED  BY <1>1, <1>2, ThenMoved

LEMMA WritesKeep ==
  ASSUME CacheInv, NEW p \in Proc, NEW v,
         Bdwrite(p, v) \/ Bawrite(p, v) \/ Bwrite(p, v)
  PROVE  CacheInv'
<1> DEFINE bp == held[p]
           F == Fill(Now, bp, v)
           D == SetFlags(F, bp, {"DONE", "DELWRI"}, {})
           A == SetFlags(F, bp, {"ASYNC"}, {})
           D2 == Brelse(D, bp)
           A2 == StartWrite(A, bp)
           W == StartWrite(F, bp)
           W2 == Sleep(W, p, bp)
<1>1. cpu \in {None, p} /\ pc[p] = "use" /\ "bwrite" \in Places \ {"newbuf"}
  BY DEF Bdwrite, Bawrite, Bwrite, Runs, Places
<1>2. \/ Becomes(D2) /\ Leave(p)
      \/ Becomes(A2) /\ Leave(p)
      \/ Becomes(W2) /\ Goto(p, "bwrite") /\ want' = want
  BY DEF Bdwrite, Bawrite, Bwrite
<1>3. Less(Now, F)
  BY NowShaped, FillLess
<1> HIDE DEF F
<1>4. Less(Now, D) /\ Less(Now, A) /\ Less(Now, W)
  BY <1>3, FlagsLess, StartWriteLess, LessTwice DEF Less
<1> HIDE DEF D, A, W
<1>5. Less(Now, D2) /\ Less(Now, A2) /\ Less(Now, W2)
  <2>1. Shaped(D) /\ Shaped(A) /\ Shaped(W)
    BY <1>4 DEF Less
  <2>2. Less(D, D2) /\ Less(A, A2) /\ Less(W, W2)
    BY <2>1, BrelseLess, StartWriteLess, SleepLess
  <2>. QED  BY <1>4, <2>2, LessTwice
<1> HIDE DEF D2, A2, W2
<1>. QED  BY <1>1, <1>2, <1>5, ThenMoved

(* The interrupt comes at any time, also between the search and the entry. *)
LEMMA BiodoneKeeps ==
  ASSUME CacheInv, NEW bp \in Buf, Biodone(bp)
  PROVE  CacheInv'
<1> DEFINE F == Fill(Now, bp, disk[buf[bp].block])
           A == SetFlags(F, bp, {"DONE"}, {})
           B == SetFlags(Now, bp, {"DONE", "ERROR"}, {})
           C == SetFlags(Now, bp, {"DONE"}, {})
<1>1. PICK S \in {A, B, C} : Becomes(Complete(S, bp))
  BY DEF Biodone
<1>2. Less(Now, F)
  BY NowShaped, FillLess
<1> HIDE DEF F
<1>3. Less(Now, A) /\ Less(Now, B) /\ Less(Now, C)
  BY <1>2, NowShaped, FlagsLess, LessTwice DEF Less
<1> HIDE DEF A, B, C
<1>4. Less(Now, Complete(S, bp))
  BY <1>3, CompleteLess, LessTwice DEF Less
<1>5. /\ Chains'
      /\ \A x \in Buf : buf'[x].block \in {buf[x].block, None}
  BY <1>1, <1>4, NowShaped, BecomesLess
<1>6. UNCHANGED <<pc, want, cpu>>
  BY DEF Biodone, local
<1>7. ASSUME NEW p \in Proc, pc[p] = "newbuf"
      PROVE  \A x \in Buf : buf'[x].block # want[p]
  <2>1. want[p] # None /\ \A x \in Buf : buf[x].block # want[p]
    BY <1>7, BufCacheAssumption DEF CacheInv
  <2>. QED  BY <1>5, <2>1
<1>. QED  BY <1>5, <1>6, <1>7 DEF CacheInv

-----------------------------------------------------------------------------
(* No buffer has a block at first. *)
LEMMA InitCache == Init => CacheInv
<1>1. SUFFICES ASSUME Init PROVE CacheInv
  OBVIOUS
<1>2. PICK v \in Val : buf = [bp \in Buf |-> [block |-> None,
                                 flags |-> {"INVAL"}, size |-> Pages,
                                 data |-> v]]
  BY <1>1 DEF Init
<1>3. Shaped(Now) /\ OneBufferPerBlock
  BY <1>2 DEF Shaped, Now, Fields, OneBufferPerBlock
<1>. QED  BY <1>1, <1>3 DEF Init, CacheInv, Chains, Places

LEMMA StepKeeps ==
  ASSUME ~Sleepy, CacheInv, [Next]_vars
  PROVE  CacheInv'
<1>1. CASE UNCHANGED vars
  BY <1>1, NowShaped, StateSame DEF vars, local, CacheInv, state
<1>2. CASE \E bp \in Buf : Biodone(bp)
  BY <1>2, BiodoneKeeps
<1>3. ASSUME NEW p \in Proc,
             \/ \E b \in Block, h \in {"bread", "getblk", "ahead"} :
                  Start(p, b, h)
             \/ Getblk(p) \/ Newbuf(p) \/ Allocbuf(p) \/ Got(p) \/ Read(p)
             \/ Release(p) \/ BwriteDone(p)
             \/ \E v \in Val : Bdwrite(p, v) \/ Bawrite(p, v) \/ Bwrite(p, v)
      PROVE  CacheInv'
  BY <1>3, StartKeeps, GetblkKeeps, NewbufKeeps, AllocbufKeeps, GotKeeps,
     ReadKeeps, ReleaseKeeps, WritesKeep
<1>. QED  BY <1>1, <1>2, <1>3 DEF Next

(* However reads, writes, evictions and moves of pages interleave with the *)
(* completion of I/O, getblk() never enters a second buffer for a block:   *)
(* the "slight chance" that vfs_bio.c speaks of is gone with the sleep.    *)
THEOREM BufferIsUnique == ASSUME ~Sleepy PROVE Spec => []OneBufferPerBlock
<1>1. Init => CacheInv
  BY InitCache
<1>2. CacheInv /\ [Next]_vars => CacheInv'
  BY StepKeeps
<1>3. CacheInv => OneBufferPerBlock
  BY DEF CacheInv, Chains
<1>. QED  BY <1>1, <1>2, <1>3, PTL DEF Spec

-----------------------------------------------------------------------------
(* The lists and the owners of buffers. What the operations do is said of  *)
(* records of the four variables with the right types, field by field.     *)

Queues == {"LRU", "AGE", "EMPTY"}

BufRec == [block : Block \cup {None}, flags : SUBSET Flags, size : Nat,
           data : Val]

StateRec == [buf : [Buf -> BufRec], free : [Queues -> Seq(Buf)],
             need : BOOLEAN, slp : [Proc -> Buf \cup {NeedBuffer, None}]]

(* No buffer is on the free lists twice.                                   *)
Apart(f) ==
  /\ \A q \in Queues : IsInjective(f[q])
  /\ \A q, r \in Queues : q # r => ToSet(f[q]) \cap ToSet(f[r]) = {}

(* That is what ListsExact says of the three lists together.               *)
LEMMA ApartTogether ==
  ASSUME NEW f \in [Queues -> Seq(Buf)], Apart(f)
  PROVE  LET all == f["LRU"] \o f["AGE"] \o f["EMPTY"]
         IN  /\ IsInjective(all)
             /\ ToSet(all) = ToSet(f["LRU"]) \cup ToSet(f["AGE"])
                               \cup ToSet(f["EMPTY"])
<1> DEFINE a == f["LRU"]
           b == f["AGE"]
           c == f["EMPTY"]
           ab == a \o b
<1>1. a \in Seq(Buf) /\ b \in Seq(Buf) /\ c \in Seq(Buf)
  BY DEF Queues
<1>2. /\ IsInjective(a) /\ IsInjective(b) /\ IsInjective(c)
      /\ ToSet(a) \cap ToSet(b) = {} /\ ToSet(a) \cap ToSet(c) = {}
      /\ ToSet(b) \cap ToSet(c) = {}
  BY DEF Apart, Queues
<1> HIDE DEF a, b, c
<1>3. /\ ab \in Seq(Buf) /\ IsInjective(ab)
      /\ ToSet(ab) = ToSet(a) \cup ToSet(b)
  BY <1>1, <1>2, JoinedLists
<1> HIDE DEF ab
<1>4. IsInjective(ab \o c) /\ ToSet(ab \o c) = ToSet(ab) \cup ToSet(c)
  BY <1>1, <1>2, <1>3, JoinedLists
<1>. QED  BY <1>3, <1>4 DEF a, b, c, ab

(* One buffer is changed.                                                  *)
Put(S, bp, c) == [S EXCEPT !.buf[bp] = c]

(* The rest stays as it was.                                               *)
LEMMA PutIs ==
  ASSUME NEW S \in StateRec, NEW bp \in Buf, NEW c \in BufRec
  PROVE  LET T == Put(S, bp, c)
         IN  /\ T \in StateRec /\ T.buf[bp] = c
             /\ \A x \in Buf \ {bp} : T.buf[x] = S.buf[x]
             /\ T.free = S.free /\ T.need = S.need /\ T.slp = S.slp
BY DEF Put, StateRec

(* The change of a field is the change of a buffer.                        *)
LEMMA FieldsPut ==
  ASSUME NEW S, NEW bp, NEW f
  PROVE  /\ [S EXCEPT !.buf[bp].flags = f]
              = Put(S, bp, [S.buf[bp] EXCEPT !.flags = f])
         /\ [S EXCEPT !.buf[bp].size = f]
              = Put(S, bp, [S.buf[bp] EXCEPT !.size = f])
         /\ [S EXCEPT !.buf[bp].data = f]
              = Put(S, bp, [S.buf[bp] EXCEPT !.data = f])
         /\ [S EXCEPT !.buf[bp].block = f]
              = Put(S, bp, [S.buf[bp] EXCEPT !.block = f])
BY DEF Put

(* A buffer with one field changed.                                        *)
LEMMA RecordField ==
  ASSUME NEW b \in BufRec
  PROVE  /\ \A f \in SUBSET Flags :
              LET c == [b EXCEPT !.flags = f]
              IN  /\ c \in BufRec /\ c.flags = f /\ c.block = b.block
                  /\ c.size = b.size /\ c.data = b.data
         /\ \A f \in Nat :
              LET c == [b EXCEPT !.size = f]
              IN  /\ c \in BufRec /\ c.size = f /\ c.block = b.block
                  /\ c.flags = b.flags /\ c.data = b.data
         /\ \A f \in Val :
              LET c == [b EXCEPT !.data = f]
              IN  /\ c \in BufRec /\ c.data = f /\ c.block = b.block
                  /\ c.flags = b.flags /\ c.size = b.size
         /\ \A f \in Block \cup {None} :
              LET c == [b EXCEPT !.block = f]
              IN  /\ c \in BufRec /\ c.block = f /\ c.flags = b.flags
                  /\ c.size = b.size /\ c.data = b.data
BY DEF BufRec

(* Only the flags of bp change, from S to T.                               *)
Flagged(S, T, bp, f) ==
  /\ T \in StateRec /\ T.free = S.free /\ T.need = S.need /\ T.slp = S.slp
  /\ \A x \in Buf \ {bp} : T.buf[x] = S.buf[x]
  /\ T.buf[bp].flags = f /\ T.buf[bp].block = S.buf[bp].block
  /\ T.buf[bp].size = S.buf[bp].size /\ T.buf[bp].data = S.buf[bp].data

(* A change of flags is no more than that.                                 *)
LEMMA SetFlagsIs ==
  ASSUME NEW S \in StateRec, NEW bp \in Buf, NEW on \in SUBSET Flags, NEW off
  PROVE  Flagged(S, SetFlags(S, bp, on, off), bp,
                 (S.buf[bp].flags \ off) \cup on)
<1> DEFINE f == (S.buf[bp].flags \ off) \cup on
           b == S.buf[bp]
           c == [b EXCEPT !.flags = f]
           T == SetFlags(S, bp, on, off)
<1>1. T = [S EXCEPT !.buf[bp].flags = f]
  BY Zenon DEF SetFlags
<1>2. T = Put(S, bp, c)
  <2> HIDE DEF f, T
  <2>1. [S EXCEPT !.buf[bp].flags = f] = Put(S, bp, c)
    BY DEF Put
  <2>. QED  BY <1>1, <2>1
<1>3. b \in BufRec
  BY DEF StateRec
<1>4. f \in SUBSET Flags
  BY <1>3 DEF BufRec
<1> HIDE DEF f, T
<1>5. /\ c \in BufRec /\ c.flags = f /\ c.block = b.block
      /\ c.size = b.size /\ c.data = b.data
  BY <1>3, <1>4, RecordField
<1> HIDE DEF c
<1>6. /\ T \in StateRec
      /\ T.buf[bp] = c /\ \A x \in Buf \ {bp} : T.buf[x] = S.buf[x]
      /\ T.free = S.free /\ T.need = S.need /\ T.slp = S.slp
  BY <1>2, <1>5, PutIs
<1>7. Flagged(S, T, bp, f)
  BY <1>5, <1>6 DEF Flagged
<1>. QED  BY <1>7 DEF f, T

(* wakeup() and tsleep() change who sleeps.                                *)
Slept(S, T, s) ==
  /\ T \in StateRec /\ T.buf = S.buf /\ T.free = S.free /\ T.need = S.need
  /\ T.slp = s

(* wakeup(): whoever sleeps on the channel runs.                           *)
LEMMA WakeupIs ==
  ASSUME NEW S \in StateRec, NEW chan
  PROVE  Slept(S, Wakeup(S, chan),
               [p \in Proc |-> IF S.slp[p] = chan THEN None ELSE S.slp[p]])
BY DEF Wakeup, StateRec, Slept

(* tsleep().                                                               *)
LEMMA SleepIs ==
  ASSUME NEW S \in StateRec, NEW p \in Proc, NEW chan \in Buf \cup {NeedBuffer}
  PROVE  Slept(S, Sleep(S, p, chan), [S.slp EXCEPT ![p] = chan])
BY DEF Sleep, StateRec, Slept

(* bremfree() takes the buffer off the list it is on.                      *)
Unlisted(S, T, bp) ==
  /\ T \in StateRec /\ Apart(T.free)
  /\ T.buf = S.buf /\ T.need = S.need /\ T.slp = S.slp
  /\ \A q \in Queues : ToSet(T.free[q]) = ToSet(S.free[q]) \ {bp}

(* The lists stay without duplicates.                                      *)
LEMMA BremfreeIs ==
  ASSUME NEW S \in StateRec, Apart(S.free), NEW bp \in Buf
  PROVE  Unlisted(S, Bremfree(S, bp), bp)
<1> DEFINE T == Bremfree(S, bp)
           g == [q \in Queues |-> RemoveFirst(S.free[q], bp)]
<1>1. /\ T.buf = S.buf /\ T.need = S.need /\ T.slp = S.slp /\ T.free = g
      /\ T = [S EXCEPT !.free = g]
  <2>1. DOMAIN S.free = Queues
    BY DEF StateRec
  <2>2. T = [S EXCEPT !.free = g]
    BY <2>1, Zenon DEF Bremfree
  <2> HIDE DEF T, g
  <2>. QED  BY <2>2 DEF StateRec
<1> HIDE DEF T
<1>2. ASSUME NEW q \in Queues
      PROVE  /\ g[q] \in Seq(Buf) /\ IsInjective(g[q])
             /\ ToSet(g[q]) = ToSet(S.free[q]) \ {bp}
  <2> DEFINE s == S.free[q]
  <2>1. s \in Seq(Buf) /\ IsInjective(s)
    BY DEF StateRec, Apart
  <2>2. g[q] = RemoveFirst(s, bp)
    OBVIOUS
  <2> HIDE DEF s, g
  <2>3. /\ RemoveFirst(s, bp) \in Seq(Buf) /\ IsInjective(RemoveFirst(s, bp))
        /\ ToSet(RemoveFirst(s, bp)) = ToSet(s) \ {bp}
    BY <2>1, RemoveOne
  <2>. QED  BY <2>2, <2>3 DEF s
<1>3. g \in [Queues -> Seq(Buf)]
  BY <1>2
<1> HIDE DEF g
<1>4. T \in StateRec
  BY <1>1, <1>3 DEF StateRec
<1>5. Apart(g)
  BY <1>2 DEF Apart
<1>. QED  BY <1>1, <1>2, <1>4, <1>5 DEF Unlisted, T

(* The sleepers after a release: those that wait for the buffer, if it is  *)
(* wanted, and those that wait for any buffer, if one is needed, run.      *)
Awake(S, bp) ==
  [p \in Proc |->
     IF \/ S.slp[p] = bp /\ "WANTED" \in S.buf[bp].flags
        \/ S.slp[p] = NeedBuffer /\ S.need
     THEN None ELSE S.slp[p]]

(* The wakeups at the head of brelse().                                    *)
LEMMA WakeForReleaseIs ==
  ASSUME NEW S \in StateRec, NEW bp \in Buf
  PROVE  LET T == WakeForRelease(S, bp)
         IN  /\ T \in StateRec /\ T.buf = S.buf /\ T.free = S.free
             /\ T.need = FALSE /\ T.slp = Awake(S, bp)
<1> DEFINE S1 == IF "WANTED" \in S.buf[bp].flags THEN Wakeup(S, bp) ELSE S
           s1 == [p \in Proc |-> IF /\ S.slp[p] = bp
                                    /\ "WANTED" \in S.buf[bp].flags
                                 THEN None ELSE S.slp[p]]
           S2 == Wakeup(S1, NeedBuffer)
           s2 == [p \in Proc |-> IF s1[p] = NeedBuffer THEN None ELSE s1[p]]
           T == WakeForRelease(S, bp)
<1>1. Slept(S, S1, s1)
  <2>1. CASE "WANTED" \in S.buf[bp].flags
    <3>1. S1 = Wakeup(S, bp)
      BY <2>1
    <3>2. s1 = [p \in Proc |-> IF S.slp[p] = bp THEN None ELSE S.slp[p]]
      BY <2>1
    <3> HIDE DEF S1, s1
    <3>. QED  BY <3>1, <3>2, WakeupIs
  <2>2. CASE "WANTED" \notin S.buf[bp].flags
    <3>1. S1 = S /\ s1 = S.slp
      BY <2>2 DEF StateRec
    <3>. QED  BY <3>1 DEF Slept
  <2>. QED  BY <2>1, <2>2
<1>2. T = IF S1.need THEN [S2 EXCEPT !.need = FALSE] ELSE S1
  BY DEF WakeForRelease
<1> HIDE DEF S1, T
<1>3. Slept(S1, S2, s2)
  <2>1. Slept(S1, S2, [p \in Proc |-> IF S1.slp[p] = NeedBuffer THEN None
                                      ELSE S1.slp[p]])
    BY <1>1, WakeupIs DEF Slept
  <2>2. S1.slp = s1
    BY <1>1 DEF Slept
  <2>. QED  BY <2>1, <2>2
<1> HIDE DEF S2
<1>4. S.need \in BOOLEAN /\ S1.need = S.need
  BY <1>1 DEF Slept, StateRec
<1>5. CASE S.need
  <2>1. T = [S2 EXCEPT !.need = FALSE]
    BY <1>2, <1>4, <1>5
  <2>2. s2 = Awake(S, bp)
    BY <1>5 DEF Awake
  <2> HIDE DEF s1, s2
  <2>3. /\ S2 \in StateRec /\ S2.buf = S.buf /\ S2.free = S.free
        /\ S2.slp = s2
    BY <1>1, <1>3 DEF Slept
  <2>4. /\ T \in StateRec /\ T.buf = S2.buf /\ T.free = S2.free
        /\ T.need = FALSE /\ T.slp = S2.slp
    BY <2>1, <2>3 DEF StateRec
  <2>. QED  BY <2>2, <2>3, <2>4 DEF T
<1>6. CASE ~S.need
  <2>1. T = S1
    BY <1>2, <1>4, <1>6
  <2>2. s1 = Awake(S, bp)
    BY <1>6 DEF Awake
  <2> HIDE DEF s1, s2
  <2>. QED  BY <1>1, <1>4, <1>6, <2>1, <2>2 DEF Slept, T
<1>. QED  BY <1>4, <1>5, <1>6

(* The flags of a buffer that brelse() has disassociated if it must.       *)
Faded(b) == IF Dead(b)
           THEN (b.flags \cup (IF "ERROR" \in b.flags THEN {"INVAL"} ELSE {}))
                  \ {"DELWRI"}
           ELSE b.flags

Disassociated(S, T, bp) ==
  LET b == S.buf[bp]
      c == T.buf[bp]
  IN  /\ T \in StateRec
      /\ T.free = S.free /\ T.need = S.need /\ T.slp = S.slp
      /\ \A x \in Buf \ {bp} : T.buf[x] = S.buf[x]
      /\ c.size = b.size /\ c.data = b.data /\ c.flags = Faded(b)
      /\ c.block = IF Dead(b) THEN None ELSE b.block

(* A buffer that is not fit to be found again leaves its vnode.            *)
LEMMA DisassociateIs ==
  ASSUME NEW S \in StateRec, NEW bp \in Buf
  PROVE  Disassociated(S, Disassociate(S, bp), bp)
<1> DEFINE b == S.buf[bp]
           T == Disassociate(S, bp)
           S1 == IF "ERROR" \in b.flags
                 THEN SetFlags(S, bp, {"INVAL"}, {}) ELSE S
           S2 == SetFlags(S1, bp, {}, {"DELWRI"})
           c2 == S2.buf[bp]
           c3 == [c2 EXCEPT !.block = None]
           S3 == Put(S2, bp, c3)
           f1 == b.flags \cup (IF "ERROR" \in b.flags THEN {"INVAL"} ELSE {})
<1>1. CASE ~Dead(b)
  BY <1>1 DEF Disassociate, Disassociated, Faded
<1>2. CASE Dead(b)
  <2>1. T = S3
    BY <1>2 DEF Disassociate, Put
  <2> HIDE DEF T
  <2>2. Flagged(S, S1, bp, f1)
    <3>1. CASE "ERROR" \in b.flags
      <4>1. S1 = SetFlags(S, bp, {"INVAL"}, {})
        BY <3>1
      <4>2. {"INVAL"} \in SUBSET Flags
        BY DEF Flags
      <4>3. f1 = (b.flags \ {}) \cup {"INVAL"}
        BY <3>1
      <4> HIDE DEF S1, f1
      <4>. QED  BY <4>1, <4>2, <4>3, SetFlagsIs
    <3>2. CASE "ERROR" \notin b.flags
      <4>1. S1 = S /\ f1 = S.buf[bp].flags
        BY <3>2
      <4>. QED  BY <4>1 DEF Flagged
    <3>. QED  BY <3>1, <3>2
  <2> HIDE DEF S1, f1
  <2>3. Flagged(S1, S2, bp, S1.buf[bp].flags \ {"DELWRI"})
    <3>1. S1 \in StateRec /\ {} \in SUBSET Flags
      BY <2>2 DEF Flagged
    <3>2. Flagged(S1, S2, bp, (S1.buf[bp].flags \ {"DELWRI"}) \cup {})
      BY <3>1, SetFlagsIs
    <3>. QED  BY <3>2
  <2> HIDE DEF S2
  <2>4. S2 \in StateRec /\ c2 \in BufRec
    BY <2>3 DEF Flagged, StateRec
  <2>5. /\ c3 \in BufRec /\ c3.block = None /\ c3.flags = c2.flags
        /\ c3.size = c2.size /\ c3.data = c2.data
    <3> HIDE DEF c2
    <3>. QED  BY <2>4, RecordField
  <2> HIDE DEF c3
  <2>6. /\ S3 \in StateRec /\ S3.buf[bp] = c3
        /\ \A x \in Buf \ {bp} : S3.buf[x] = S2.buf[x]
        /\ S3.free = S2.free /\ S3.need = S2.need /\ S3.slp = S2.slp
    BY <2>4, <2>5, PutIs
  <2> HIDE DEF S3
  <2>7. /\ S3.free = S.free /\ S3.need = S.need /\ S3.slp = S.slp
        /\ \A x \in Buf \ {bp} : S3.buf[x] = S.buf[x]
    BY <2>2, <2>3, <2>6 DEF Flagged
  <2>8. /\ c3.size = b.size /\ c3.data = b.data /\ c3.block = None
        /\ c3.flags = f1 \ {"DELWRI"}
    BY <2>2, <2>3, <2>5 DEF Flagged
  <2>9. LET c == T.buf[bp]
        IN  c.size = b.size /\ c.data = b.data /\ c.block = None
              /\ c.flags = f1 \ {"DELWRI"}
    BY <2>1, <2>6, <2>8
  <2>10. Faded(b) = f1 \ {"DELWRI"}
    BY <1>2 DEF Faded, f1
  <2>. QED  BY <1>2, <2>1, <2>6, <2>7, <2>9, <2>10 DEF T, Disassociated
<1>. QED  BY <1>1, <1>2

(* The list that brelse() puts a buffer on.                                *)
Queue(b) == IF b.size = 0 THEN "EMPTY"
            ELSE IF Dead(b) \/ "AGE" \in b.flags THEN "AGE" ELSE "LRU"

Requeued(S, T, bp) ==
  /\ T \in StateRec /\ Apart(T.free)
  /\ T.buf = S.buf /\ T.need = S.need /\ T.slp = S.slp
  /\ \A q \in Queues :
       ToSet(T.free[q]) = ToSet(S.free[q])
         \cup (IF q = Queue(S.buf[bp]) THEN {bp} ELSE {})

(* It is put on one list, if it was on none.                               *)
LEMMA RequeueIs ==
  ASSUME NEW S \in StateRec, Apart(S.free), NEW bp \in Buf,
         \A q \in Queues : bp \notin ToSet(S.free[q])
  PROVE  Requeued(S, Requeue(S, bp), bp)
<1> DEFINE b == S.buf[bp]
           w == Queue(b)
           T == Requeue(S, bp)
           s == S.free[w]
<1>1. w \in Queues
  BY DEF Queue, Queues
<1>2. \/ T = [S EXCEPT !.free[w] = <<bp>> \o s]
      \/ T = [S EXCEPT !.free[w] = Append(s, bp)]
  <2>1. b.size = 0 => Dead(b)
    BY DEF Dead
  <2>2. CASE b.size = 0
    BY <2>1, <2>2 DEF Requeue, Queue
  <2>3. CASE b.size # 0 /\ Dead(b)
    BY <2>1, <2>3 DEF Requeue, Queue
  <2>4. CASE ~Dead(b) /\ "AGE" \in b.flags
    BY <2>1, <2>4 DEF Requeue, Queue
  <2>5. CASE ~Dead(b) /\ "AGE" \notin b.flags
    BY <2>1, <2>5 DEF Requeue, Queue
  <2>. QED  BY <2>2, <2>3, <2>4, <2>5
<1>3. s \in Seq(Buf) /\ IsInjective(s) /\ bp \notin ToSet(s)
  BY <1>1 DEF StateRec, Apart
<1> HIDE DEF s, w, T
<1>4. PICK l \in {<<bp>> \o s, Append(s, bp)} : T = [S EXCEPT !.free[w] = l]
  BY <1>2
<1>5. l \in Seq(Buf) /\ IsInjective(l) /\ ToSet(l) = ToSet(s) \cup {bp}
  <2>1. /\ <<bp>> \o s \in Seq(Buf) /\ IsInjective(<<bp>> \o s)
        /\ ToSet(<<bp>> \o s) = ToSet(s) \cup {bp}
    BY <1>3, AddFirst
  <2>2. /\ Append(s, bp) \in Seq(Buf) /\ IsInjective(Append(s, bp))
        /\ ToSet(Append(s, bp)) = ToSet(s) \cup {bp}
    BY <1>3, AddLast
  <2>. QED  BY <2>1, <2>2
<1>6. /\ T \in StateRec /\ T.buf = S.buf /\ T.need = S.need /\ T.slp = S.slp
      /\ \A q \in Queues : T.free[q] = IF q = w THEN l ELSE S.free[q]
  BY <1>1, <1>4, <1>5 DEF StateRec
<1>7. \A q \in Queues :
        ToSet(T.free[q]) = ToSet(S.free[q]) \cup (IF q = w THEN {bp} ELSE {})
  BY <1>5, <1>6 DEF s
<1>8. Apart(T.free)
  <2>1. \A q \in Queues : IsInjective(T.free[q])
    BY <1>5, <1>6 DEF Apart
  <2>2. ASSUME NEW q \in Queues, NEW r \in Queues, q # r
        PROVE  ToSet(T.free[q]) \cap ToSet(T.free[r]) = {}
    <3>1. ToSet(S.free[q]) \cap ToSet(S.free[r]) = {}
      BY <2>2 DEF Apart
    <3>2. bp \notin ToSet(S.free[q]) /\ bp \notin ToSet(S.free[r])
      OBVIOUS
    <3>3. /\ ToSet(T.free[q]) = ToSet(S.free[q]) \cup (IF q = w THEN {bp} ELSE {})
          /\ ToSet(T.free[r]) = ToSet(S.free[r]) \cup (IF r = w THEN {bp} ELSE {})
      BY <1>7
    <3>. QED  BY <2>2, <3>1, <3>2, <3>3
  <2>. QED  BY <2>1, <2>2 DEF Apart
<1>. QED  BY <1>6, <1>7, <1>8 DEF T, w, Requeued

(* brelse() in full.                                                       *)
Brelsed(S, T, bp) ==
  LET b == S.buf[bp]
      c == T.buf[bp]
  IN  /\ T \in StateRec /\ Apart(T.free)
      /\ \A x \in Buf \ {bp} : T.buf[x] = S.buf[x]
      /\ c.size = b.size /\ c.data = b.data
      /\ c.block = IF Dead(b) THEN None ELSE b.block
      /\ c.flags = Faded(b) \ {"WANTED", "BUSY", "ASYNC", "AGE"}
      /\ \A q \in Queues :
           ToSet(T.free[q]) = ToSet(S.free[q])
             \cup (IF q = Queue(b) THEN {bp} ELSE {})
      /\ T.need = FALSE /\ T.slp = Awake(S, bp)

(* What brelse() makes of the cache, if the buffer was on no list.         *)
LEMMA BrelseIs ==
  ASSUME NEW S \in StateRec, Apart(S.free), NEW bp \in Buf,
         \A q \in Queues : bp \notin ToSet(S.free[q])
  PROVE  Brelsed(S, Brelse(S, bp), bp)
<1> DEFINE S1 == WakeForRelease(S, bp)
           S2 == Disassociate(S1, bp)
           S3 == Requeue(S2, bp)
           off == {"WANTED", "BUSY", "ASYNC", "AGE"}
           T == SetFlags(S3, bp, {}, off)
           b == S.buf[bp]
           c2 == S2.buf[bp]
<1>1. Brelse(S, bp) = T
  BY DEF Brelse
<1>2. /\ S1 \in StateRec /\ S1.buf = S.buf /\ S1.free = S.free
      /\ S1.need = FALSE /\ S1.slp = Awake(S, bp)
  BY WakeForReleaseIs
<1> HIDE DEF S1
<1>3. Disassociated(S1, S2, bp)
  BY <1>2, DisassociateIs
<1> HIDE DEF S2
<1>4. /\ S2 \in StateRec
      /\ S2.free = S.free /\ S2.need = FALSE /\ S2.slp = Awake(S, bp)
      /\ \A x \in Buf \ {bp} : S2.buf[x] = S.buf[x]
      /\ c2.size = b.size /\ c2.data = b.data
      /\ c2.block = IF Dead(b) THEN None ELSE b.block
      /\ c2.flags = Faded(b)
  BY <1>2, <1>3 DEF Disassociated
<1>5. /\ Requeued(S2, S3, bp) /\ Queue(c2) = Queue(b)
  <2>1. Requeued(S2, S3, bp)
    BY <1>4, RequeueIs
  <2>2. Queue(c2) = Queue(b)
    <3> HIDE DEF c2, b
    <3>1. b.flags \in SUBSET Flags
      BY DEF StateRec, BufRec, b
    <3>2. Dead(c2) = Dead(b) \/ c2.size = 0
      BY <1>4 DEF Dead, Faded
    <3>3. "AGE" \in c2.flags <=> "AGE" \in b.flags
      BY <1>4 DEF Faded
    <3>. QED  BY <1>4, <3>2, <3>3 DEF Queue
  <2>. QED  BY <2>1, <2>2
<1> HIDE DEF S3
<1>6. Flagged(S3, T, bp, S3.buf[bp].flags \ off)
  <2>1. S3 \in StateRec /\ {} \in SUBSET Flags
    BY <1>5 DEF Requeued
  <2>2. Flagged(S3, T, bp, (S3.buf[bp].flags \ off) \cup {})
    BY <2>1, SetFlagsIs
  <2>. QED  BY <2>2
<1> HIDE DEF T
<1>7. Brelsed(S, T, bp)
  BY <1>4, <1>5, <1>6 DEF Flagged, Requeued, Brelsed
<1>. QED  BY <1>1, <1>7

-----------------------------------------------------------------------------
(* The inductive invariant.                                                *)

(* The free lists that a buffer is on.                                     *)
On(f, bp) == {q \in Queues : bp \in ToSet(f[q])}

(* What holds of a buffer by itself: on is the lists it is on, drv says    *)
(* that the driver has it.                                                 *)
Fit(b, on, drv) ==
  /\ "EMPTY" \in on => b.size = 0
  /\ on \cap {"LRU", "AGE"} # {} => b.size > 0
  /\ "BUSY" \in b.flags <=> on = {}
  /\ "BUSY" \notin b.flags =>
       "WANTED" \notin b.flags /\ ~drv /\ (Dead(b) => b.block = None)
  /\ "DELWRI" \in b.flags => b.block # None
  /\ "ASYNC" \in b.flags => drv
  /\ drv => /\ "BUSY" \in b.flags /\ b.block # None /\ b.size > 0
            /\ b.flags \cap {"DONE", "DELWRI", "ERROR", "INVAL"} = {}

(* What holds of the buffer of a process that is at a place and works on   *)
(* block w.                                                                *)
Holds(place, w, b, drv) ==
  /\ "BUSY" \in b.flags /\ b.flags \cap {"ASYNC", "INVAL"} = {} /\ b.block = w
  /\ place = "alloc" => b.flags \subseteq {"BUSY", "WANTED"}
  /\ place # "alloc" => b.size > 0
  /\ place \in {"alloc", "got", "use"} => ~drv /\ "ERROR" \notin b.flags
  /\ place \in {"biowait", "bwrite"} =>
       (drv <=> "DONE" \notin b.flags) /\ "DELWRI" \notin b.flags
  /\ place = "biowait" => "READ" \in b.flags
  /\ place = "bwrite" => b.flags \cap {"READ", "ERROR"} = {}

BufOK(bp) ==
  /\ Fit(buf[bp], On(free, bp), bp \in io)
  /\ "BUSY" \in buf[bp].flags =>
       "ASYNC" \in buf[bp].flags \/ \E p \in Proc : held[p] = bp

HoldOK(p) ==
  /\ held[p] = None <=> pc[p] \in {"idle", "getblk", "newbuf"}
  /\ pc[p] # "idle" => want[p] \in Block
  /\ held[p] # None =>
       Holds(pc[p], want[p], buf[held[p]], held[p] \in io)

(* No buffer is free to be taken.                                          *)
NoneFree == \A bp \in Buf : On(free, bp) \subseteq {"EMPTY"}

Awaited(bp) == \/ bp \in io /\ "ASYNC" \notin buf[bp].flags
               \/ {"BUSY", "WANTED"} \subseteq buf[bp].flags

SleepOK(p) == /\ slp[p] = NeedBuffer => need /\ NoneFree
              /\ slp[p] \in Buf => Awaited(slp[p])

LocalTyped ==
  /\ disk \in [Block -> Val] /\ content \in [Block -> Val]
  /\ pc \in [Proc -> Places] /\ want \in [Proc -> Block \cup {None}]
  /\ how \in [Proc -> {"bread", "getblk", "ahead", "none"}]
  /\ held \in [Proc -> Buf \cup {None}] /\ cpu \in Proc \cup {None}
  /\ seen \in [Proc -> Val \cup {None}]

Typed == Now \in StateRec /\ io \subseteq Buf /\ LocalTyped

HoldersApart ==
  \A p, q \in Proc : p # q /\ held[p] # None => held[p] # held[q]

Order ==
  /\ Typed /\ Apart(free) /\ PagesKept /\ HoldersApart
  /\ \A bp \in Buf : BufOK(bp)
  /\ \A p \in Proc : HoldOK(p) /\ SleepOK(p)

(* The new state has the types of the record it is.                        *)
LEMMA BecomesTyped ==
  ASSUME NEW T \in StateRec, Becomes(T)
  PROVE  (Now \in StateRec)'
BY DEF Becomes, Now, StateRec

(* A step of the processes P that concerns the buffers X leaves the rest   *)
(* in order.                                                               *)
LEMMA Framed ==
  ASSUME Order, NEW X \in SUBSET Buf, NEW P \in SUBSET Proc,
         Typed', Apart(free'), PagesKept',
         \A x \in Buf \ X : /\ buf'[x] = buf[x] /\ On(free', x) = On(free, x)
                            /\ x \in io' <=> x \in io,
         \A r \in Proc \ P :
           pc'[r] = pc[r] /\ want'[r] = want[r] /\ held'[r] = held[r],
         \A r \in P : held[r] # None => held[r] \in X \/ held'[r] = held[r],
         \A r \in P, q \in Proc : q # r /\ held'[r] # None => held'[q] # held'[r],
         \A x \in X : BufOK(x)',
         \A r \in Proc : r \in P \/ held[r] \in X => HoldOK(r)',
         \A r \in Proc : SleepOK(r)'
  PROVE  Order'
<1>1. HoldersApart'
  <2>1. SUFFICES ASSUME NEW p \in Proc, NEW q \in Proc, p # q, held'[p] # None
                 PROVE  held'[p] # held'[q]
    BY DEF HoldersApart
  <2>2. CASE p \in P
    BY <2>1, <2>2
  <2>3. CASE q \in P
    BY <2>1, <2>3
  <2>4. CASE p \notin P /\ q \notin P
    BY <2>1, <2>4 DEF Order, HoldersApart
  <2>. QED  BY <2>2, <2>3, <2>4
<1>2. ASSUME NEW x \in Buf
      PROVE  BufOK(x)'
  <2>1. CASE x \in X
    BY <2>1
  <2>2. CASE x \notin X
    <3>1. BufOK(x)
      BY DEF Order
    <3>2. ASSUME NEW r \in Proc, held[r] = x
          PROVE  held'[r] = x
      <4>1. x # None
        BY BufCacheAssumption
      <4>. QED  BY <2>2, <3>2, <4>1
    <3>3. buf'[x] = buf[x] /\ On(free', x) = On(free, x) /\ (x \in io' <=> x \in io)
      BY <2>2
    <3>. QED  BY <3>1, <3>2, <3>3 DEF BufOK, Fit
  <2>. QED  BY <2>1, <2>2
<1>3. ASSUME NEW r \in Proc
      PROVE  HoldOK(r)'
  <2>1. CASE r \in P \/ held[r] \in X
    BY <2>1
  <2>2. CASE ~(r \in P \/ held[r] \in X)
    <3>1. HoldOK(r) /\ held[r] \in Buf \cup {None}
      BY DEF Order, Typed, LocalTyped
    <3>2. pc'[r] = pc[r] /\ want'[r] = want[r] /\ held'[r] = held[r]
      BY <2>2
    <3>3. held[r] # None =>
            /\ buf'[held[r]] = buf[held[r]]
            /\ held[r] \in io' <=> held[r] \in io
      BY <2>2, <3>1
    <3>. QED  BY <3>1, <3>2, <3>3 DEF HoldOK, Holds
  <2>. QED  BY <2>1, <2>2
<1>. QED  BY <1>1, <1>2, <1>3 DEF Order

(* Those outside P who sleep stay asleep or wake, and nothing that they    *)
(* wait for is gone, if only the buffers X change.                         *)
Undisturbed(X, P) ==
  /\ \A x \in Buf \ X : buf'[x] = buf[x] /\ (x \in io' <=> x \in io)
  /\ \A r \in Proc \ P : slp'[r] \in {slp[r], None}
  /\ \A r \in P : SleepOK(r)'
  /\ \/ \A r \in Proc \ P : slp'[r] # NeedBuffer
     \/ /\ need => need'
        /\ \A x \in Buf : On(free', x) \subseteq On(free, x)
  /\ \A x \in X : Awaited(x)' \/ \A r \in Proc \ P : slp'[r] # x

(* Then whoever sleeps will still be woken.                                *)
LEMMA SleepFramed ==
  ASSUME Order, NEW X \in SUBSET Buf, NEW P \in SUBSET Proc, Undisturbed(X, P)
  PROVE  \A r \in Proc : SleepOK(r)'
<1> USE DEF Undisturbed
<1>1. SUFFICES ASSUME NEW r \in Proc \ P
               PROVE  SleepOK(r)'
  OBVIOUS
<1>2. SleepOK(r) /\ slp'[r] \in {slp[r], None}
  BY DEF Order
<1>3. slp'[r] = NeedBuffer => (need /\ NoneFree)'
  <2>1. SUFFICES ASSUME slp'[r] = NeedBuffer
                 PROVE  (need /\ NoneFree)'
    OBVIOUS
  <2>2. slp[r] = NeedBuffer
    BY <1>2, <2>1, BufCacheAssumption
  <2>3. need' /\ \A x \in Buf : On(free', x) \subseteq On(free, x)
    BY <1>2, <2>1, <2>2 DEF SleepOK
  <2>. QED  BY <1>2, <2>2, <2>3 DEF SleepOK, NoneFree
<1>4. ASSUME NEW x \in Buf, slp'[r] = x
      PROVE  Awaited(x)'
  <2>1. CASE x \in X
    BY <1>4, <2>1
  <2>2. CASE x \notin X
    <3>1. slp[r] = x
      BY <1>2, <1>4, BufCacheAssumption
    <3>2. Awaited(x)
      BY <1>2, <3>1 DEF SleepOK
    <3>3. buf'[x] = buf[x] /\ (x \in io' <=> x \in io)
      BY <2>2
    <3>. QED  BY <3>2, <3>3 DEF Awaited
  <2>. QED  BY <2>1, <2>2
<1>5. slp'[r] \in Buf => Awaited(slp[r])'
  <2>1. SUFFICES ASSUME slp'[r] \in Buf
                 PROVE  Awaited(slp[r])'
    OBVIOUS
  <2>2. PICK x \in Buf : slp'[r] = x
    BY <2>1
  <2>3. Awaited(x)'
    BY <1>4, <2>2
  <2>. QED  BY <2>2, <2>3 DEF Awaited
<1>. QED  BY <1>3, <1>5 DEF SleepOK

(* The sum of the pages after a step.                                      *)
LEMMA PagesAfter ==
  PagesKept' <=> Total([bp \in Buf |-> buf'[bp].size]) = Pages * Cardinality(Buf)
BY Zenon DEF PagesKept, Total, FoldFunction, FoldFunctionOnSet, MapThenFoldSet

(* Nobody's pages change.                                                  *)
LEMMA SizesSame ==
  ASSUME PagesKept, \A x \in Buf : buf'[x].size = buf[x].size
  PROVE  PagesKept'
<1>1. [bp \in Buf |-> buf'[bp].size] = [bp \in Buf |-> buf[bp].size]
  OBVIOUS
<1>2. Total([bp \in Buf |-> buf[bp].size]) = Pages * Cardinality(Buf)
  BY Zenon DEF PagesKept, Total
<1>. QED  BY <1>1, <1>2, PagesAfter

(* Pages move from one buffer to another.                                  *)
LEMMA SizesMoved ==
  ASSUME Typed, PagesKept, Typed', NEW x \in Buf, NEW y \in Buf, x # y,
         \A z \in Buf \ {x, y} : buf'[z].size = buf[z].size,
         buf'[x].size + buf'[y].size = buf[x].size + buf[y].size
  PROVE  PagesKept'
<1> DEFINE g == [bp \in Buf |-> buf[bp].size]
           h == [bp \in Buf |-> buf'[bp].size]
           k == [g EXCEPT ![x] = buf'[x].size]
<1>1. g \in [Buf -> Nat] /\ h \in [Buf -> Nat]
  BY DEF Typed, LocalTyped, Now, StateRec, BufRec
<1>2. /\ k \in [Buf -> Nat] /\ k[x] = h[x] /\ k[y] = g[y]
      /\ \A z \in Buf \ {x} : k[z] = g[z]
      /\ \A z \in Buf \ {y} : h[z] = k[z]
  BY <1>1
<1>3. h[x] + h[y] = g[x] + g[y]
  OBVIOUS
<1> HIDE DEF g, h, k
<1>4. IsFiniteSet(Buf)
  BY BufCacheAssumption
<1>5. /\ Total(g) \in Nat /\ Total(k) \in Nat
      /\ Total(k) = Total(g) + k[x] - g[x]
  BY <1>1, <1>2, <1>4, TotalChanged
<1>6. Total(h) \in Nat /\ Total(h) = Total(k) + h[y] - k[y]
  BY <1>1, <1>2, <1>4, TotalChanged
<1>7. {g[x], g[y], h[x], h[y]} \subseteq Nat
  BY <1>1
<1>8. Total(h) = Total(g)
  BY <1>2, <1>3, <1>5, <1>6, <1>7
<1>9. Total(g) = Pages * Cardinality(Buf)
  BY Zenon DEF PagesKept, Total, g
<1>. QED  BY <1>8, <1>9, PagesAfter DEF h

-----------------------------------------------------------------------------
(* What the steps need of the invariant.                                   *)

LEMMA NowIs ==
  ASSUME Typed
  PROVE  /\ Now \in StateRec /\ Now.buf = buf /\ Now.free = free
         /\ Now.need = need /\ Now.slp = slp
         /\ buf \in [Buf -> BufRec] /\ free \in [Queues -> Seq(Buf)]
         /\ need \in BOOLEAN /\ slp \in [Proc -> Buf \cup {NeedBuffer, None}]
         /\ \A x \in Buf : /\ buf[x].block \in Block \cup {None}
                           /\ buf[x].flags \in SUBSET Flags
                           /\ buf[x].size \in Nat /\ buf[x].data \in Val
BY DEF Typed, LocalTyped, Now, StateRec, BufRec

(* A buffer that getnewbuf() settles on is on one of the lists that it     *)
(* searches, and there is none only if they are empty.                     *)
LEMMA CandidateIs ==
  ASSUME Typed, NEW bp \in Candidates
  PROVE  bp \in Buf /\ On(free, bp) \cap {"LRU", "AGE"} # {}
<1> DEFINE a == free["AGE"]
           l == free["LRU"]
           q == a \o l
<1>1. a \in Seq(Buf) /\ l \in Seq(Buf)
  BY NowIs DEF Queues
<1>2. PICK i \in DOMAIN q : bp = q[i]
  BY DEF Candidates
<1> HIDE DEF a, l
<1>3. q \in Seq(Buf) /\ i \in 1..Len(q)
  BY <1>1
<1>4. bp \in ToSet(a) \/ bp \in ToSet(l)
  <2>1. CASE i <= Len(a)
    <3>1. i \in 1..Len(a) /\ q[i] = a[i]
      BY <1>1, <1>3, <2>1
    <3>. QED  BY <1>1, <1>2, <3>1 DEF ToSet
  <2>2. CASE i > Len(a)
    <3>1. i - Len(a) \in 1..Len(l) /\ q[i] = l[i - Len(a)]
      BY <1>1, <1>3, <2>2
    <3>. QED  BY <1>1, <1>2, <3>1 DEF ToSet
  <2>. QED  BY <1>1, <1>3, <2>1, <2>2
<1>5. bp \in Buf
  BY <1>2, <1>3
<1>. QED  BY <1>4, <1>5 DEF On, Queues, a, l

(* getnewbuf() finds nothing when the lists it searches are empty.         *)
LEMMA NoCandidates ==
  ASSUME Typed, Candidates = {}
  PROVE  NoneFree
<1> DEFINE a == free["AGE"]
           l == free["LRU"]
           q == a \o l
<1>1. a \in Seq(Buf) /\ l \in Seq(Buf)
  BY NowIs DEF Queues
<1>2. ASSUME 1 \in DOMAIN q
      PROVE  FALSE
  <2>1. q[1] \in Candidates
    <3> HIDE DEF a, l
    <3>1. \A j \in 1..(1 - 1) : "DELWRI" \in buf[q[j]].flags
      OBVIOUS
    <3>. QED  BY <1>2, <3>1, Zenon DEF Candidates, a, l
  <2>. QED  BY <2>1
<1> HIDE DEF a, l
<1>3. a = <<>> /\ l = <<>>
  BY <1>1, <1>2
<1>4. ToSet(a) = {} /\ ToSet(l) = {}
  BY <1>3 DEF ToSet
<1>. QED  BY <1>4 DEF NoneFree, On, Queues, a, l

(* A buffer that is released is in order.                                  *)
LEMMA ReleaseFits ==
  ASSUME NEW S \in StateRec, NEW bp \in Buf, NEW T, Brelsed(S, T, bp),
         \A q \in Queues : bp \notin ToSet(S.free[q]),
         "DELWRI" \in S.buf[bp].flags => S.buf[bp].block # None
  PROVE  /\ Fit(T.buf[bp], On(T.free, bp), FALSE)
         /\ "BUSY" \notin T.buf[bp].flags
<1> DEFINE b == S.buf[bp]
           c == T.buf[bp]
           on == On(T.free, bp)
<1>1. /\ c.size = b.size
      /\ c.block = IF Dead(b) THEN None ELSE b.block
      /\ c.flags = Faded(b) \ {"WANTED", "BUSY", "ASYNC", "AGE"}
  BY DEF Brelsed
<1>2. on = {Queue(b)} /\ Queue(b) \in Queues
  <2>1. Queue(b) \in Queues
    BY DEF Queue, Queues
  <2>2. \A q \in Queues : bp \in ToSet(T.free[q]) <=> q = Queue(b)
    BY DEF Brelsed
  <2>. QED  BY <2>1, <2>2 DEF On
<1>3. b.size \in Nat
  BY DEF StateRec, BufRec
<1> HIDE DEF b, c, on
<1>4. Dead(c) => c.block = None
  BY <1>1 DEF Dead, Faded
<1>5. "DELWRI" \in c.flags => c.block # None
  BY <1>1 DEF Faded, b
<1>6. /\ "EMPTY" \in on => c.size = 0
      /\ on \cap {"LRU", "AGE"} # {} => c.size > 0
  BY <1>1, <1>2, <1>3 DEF Queue, Dead
<1>7. /\ "BUSY" \notin c.flags /\ "WANTED" \notin c.flags /\ "ASYNC" \notin c.flags
      /\ on # {}
  BY <1>1, <1>2
<1>8. Fit(c, on, FALSE)
  BY <1>4, <1>5, <1>6, <1>7 DEF Fit
<1>. QED  BY <1>7, <1>8 DEF c, on

(* Nobody sleeps for a buffer, or for this one, after a release.           *)
LEMMA ReleaseWakes ==
  ASSUME Order, NEW S \in StateRec, NEW bp \in Buf, NEW T, Brelsed(S, T, bp),
         S.need = need, S.slp = slp,
         "WANTED" \in buf[bp].flags => "WANTED" \in S.buf[bp].flags,
         bp \notin io \/ "ASYNC" \in buf[bp].flags
  PROVE  \A r \in Proc : /\ T.slp[r] \in {slp[r], None}
                         /\ T.slp[r] # NeedBuffer /\ T.slp[r] # bp
<1>1. SUFFICES ASSUME NEW r \in Proc
               PROVE  /\ T.slp[r] \in {slp[r], None}
                      /\ T.slp[r] # NeedBuffer /\ T.slp[r] # bp
  OBVIOUS
<1>2. T.slp[r] = IF \/ slp[r] = bp /\ "WANTED" \in S.buf[bp].flags
                    \/ slp[r] = NeedBuffer /\ need
                 THEN None ELSE slp[r]
  BY DEF Brelsed, Awake
<1>3. SleepOK(r)
  BY DEF Order
<1>4. slp[r] = bp => "WANTED" \in buf[bp].flags
  BY <1>3 DEF SleepOK, Awaited
<1>5. slp[r] = NeedBuffer => need
  BY <1>3 DEF SleepOK
<1>. QED  BY <1>2, <1>4, <1>5, BufCacheAssumption

-----------------------------------------------------------------------------
(* The steps.                                                              *)

(* The buffer of a process is busy, and on no list.                        *)
LEMMA HeldIs ==
  ASSUME Order, NEW p \in Proc, held[p] # None
  PROVE  /\ held[p] \in Buf /\ pc[p] \notin {"idle", "getblk", "newbuf"}
         /\ want[p] \in Block
         /\ "BUSY" \in buf[held[p]].flags
         /\ buf[held[p]].flags \cap {"ASYNC", "INVAL"} = {}
         /\ buf[held[p]].block = want[p] /\ buf[held[p]].block # None
         /\ On(free, held[p]) = {}
         /\ \A q \in Queues : held[p] \notin ToSet(free[q])
         /\ Holds(pc[p], want[p], buf[held[p]], held[p] \in io)
         /\ \A r \in Proc \ {p} : held[r] # held[p]
<1>1. held[p] \in Buf /\ HoldOK(p) /\ BufOK(held[p])
  BY DEF Order, Typed, LocalTyped
<1>2. /\ pc[p] \notin {"idle", "getblk", "newbuf"} /\ want[p] \in Block
      /\ Holds(pc[p], want[p], buf[held[p]], held[p] \in io)
  BY <1>1 DEF HoldOK
<1>3. /\ "BUSY" \in buf[held[p]].flags
      /\ buf[held[p]].flags \cap {"ASYNC", "INVAL"} = {}
      /\ buf[held[p]].block = want[p]
  BY <1>2 DEF Holds
<1>4. On(free, held[p]) = {}
  BY <1>1, <1>3 DEF BufOK, Fit
<1>5. \A q \in Queues : held[p] \notin ToSet(free[q])
  BY <1>4 DEF On
<1>6. \A r \in Proc \ {p} : held[r] # held[p]
  BY DEF Order, HoldersApart
<1>. QED  BY <1>1, <1>2, <1>3, <1>4, <1>5, <1>6, BufCacheAssumption

(* What a process is after brelse() and return.                            *)
LEMMA LeaveTyped ==
  ASSUME Typed, NEW p \in Proc, Leave(p)
  PROVE  /\ pc' \in [Proc -> Places] /\ want' \in [Proc -> Block \cup {None}]
         /\ how' \in [Proc -> {"bread", "getblk", "ahead", "none"}]
         /\ held' \in [Proc -> Buf \cup {None}] /\ cpu' \in Proc \cup {None}
         /\ seen' \in [Proc -> Val \cup {None}]
         /\ pc'[p] = "idle" /\ want'[p] = None /\ held'[p] = None
         /\ \A r \in Proc \ {p} :
              pc'[r] = pc[r] /\ want'[r] = want[r] /\ held'[r] = held[r]
BY DEF Typed, LocalTyped, Leave, Goto, Places

(* brelse() of a busy buffer bp: S is the cache with the changes that were *)
(* made to the buffer, P the processes that go on to something else.       *)
LEMMA Released ==
  ASSUME Order, NEW bp \in Buf, NEW P \in SUBSET Proc,
         "BUSY" \in buf[bp].flags, buf[bp].block # None,
         bp \notin io \/ "ASYNC" \in buf[bp].flags, NEW S \in StateRec,
         S.free = free, S.need = need, S.slp = slp,
         \A x \in Buf \ {bp} : S.buf[x] = buf[x],
         S.buf[bp].size = buf[bp].size, S.buf[bp].block = buf[bp].block,
         "WANTED" \in buf[bp].flags => "WANTED" \in S.buf[bp].flags,
         Becomes(Brelse(S, bp)), io' = io \ {bp}, LocalTyped',
         \A r \in Proc \ P :
           pc'[r] = pc[r] /\ want'[r] = want[r] /\ held'[r] = held[r],
         \A r \in P : held'[r] = None /\ held[r] = bp /\ HoldOK(r)',
         \A r \in Proc : held'[r] # bp
  PROVE  Order'
<1> DEFINE T == Brelse(S, bp)
           X == {bp}
           none == {}
<1>1. Typed /\ Apart(free) /\ PagesKept /\ BufOK(bp)
  BY DEF Order
<1>2. On(free, bp) = {} /\ \A q \in Queues : bp \notin ToSet(free[q])
  BY <1>1 DEF BufOK, Fit, On
<1>3. Brelsed(S, T, bp)
  BY <1>1, <1>2, BrelseIs
<1>4. Becomes(T)
  OBVIOUS
<1> HIDE DEF T
<1>5. T \in StateRec /\ Apart(T.free)
  BY <1>3 DEF Brelsed
<1>6. buf' = T.buf /\ free' = T.free /\ need' = T.need /\ slp' = T.slp
  BY <1>4 DEF Becomes
<1>7. Typed'
  <2>1. (Now \in StateRec)'
    BY <1>4, <1>5, BecomesTyped
  <2>2. io' \subseteq Buf
    BY <1>1 DEF Typed
  <2>. QED  BY <2>1, <2>2 DEF Typed
<1>8. \A x \in Buf \ {bp} :
        /\ buf'[x] = buf[x] /\ On(free', x) = On(free, x)
        /\ x \in io' <=> x \in io
  <2>1. SUFFICES ASSUME NEW x \in Buf \ {bp}
                 PROVE  buf'[x] = buf[x] /\ On(free', x) = On(free, x)
    OBVIOUS
  <2>2. \A q \in Queues : x \in ToSet(T.free[q]) <=> x \in ToSet(free[q])
    BY <1>3 DEF Brelsed
  <2>. QED  BY <1>3, <1>6, <2>2 DEF Brelsed, On
<1>9. PagesKept'
  <2>1. \A x \in Buf : buf'[x].size = buf[x].size
    BY <1>3, <1>6, <1>8 DEF Brelsed
  <2>. QED  BY <1>1, <2>1, SizesSame
<1>10. BufOK(bp)'
  <2>1. /\ Fit(T.buf[bp], On(T.free, bp), FALSE)
        /\ "BUSY" \notin T.buf[bp].flags
    BY <1>2, <1>3, ReleaseFits
  <2>2. bp \notin io'
    OBVIOUS
  <2>. QED  BY <1>6, <2>1, <2>2 DEF BufOK, Fit
<1>11. \A r \in Proc : /\ T.slp[r] \in {slp[r], None}
                       /\ T.slp[r] # NeedBuffer /\ T.slp[r] # bp
  BY <1>3, ReleaseWakes
<1>12. /\ X \in SUBSET Buf /\ none \in SUBSET Proc
       /\ \A r \in Proc \ none : slp'[r] \in {slp[r], None}
       /\ \A r \in none : SleepOK(r)'
       /\ \A r \in Proc \ none : slp'[r] # NeedBuffer
       /\ \A x \in X : Awaited(x)' \/ \A r \in Proc \ none : slp'[r] # x
       /\ \A x \in Buf \ X : buf'[x] = buf[x] /\ (x \in io' <=> x \in io)
  BY <1>6, <1>8, <1>11
<1>13. /\ \A x \in X : BufOK(x)'
       /\ \A x \in Buf \ X :
            /\ buf'[x] = buf[x] /\ On(free', x) = On(free, x)
            /\ x \in io' <=> x \in io
       /\ \A r \in P : held[r] # None => held[r] \in X \/ held'[r] = held[r]
       /\ \A r \in P, q \in Proc :
            q # r /\ held'[r] # None => held'[q] # held'[r]
       /\ \A r \in Proc : r \in P \/ held[r] \in X => HoldOK(r)'
       /\ Apart(free')
  BY <1>5, <1>6, <1>8, <1>10
<1> HIDE DEF X, none
<1>14. \A r \in Proc : SleepOK(r)'
  <2>1. Undisturbed(X, none)
    BY <1>12 DEF Undisturbed
  <2>. QED  BY <1>12, <2>1, SleepFramed
<1>. QED  BY <1>7, <1>9, <1>12, <1>13, <1>14, Framed

(* A process releases its buffer.                                          *)
LEMMA GivenUp ==
  ASSUME Order, NEW p \in Proc, NEW bp \in Buf, held[p] = bp,
         bp \notin io, slp[p] = None, NEW S \in StateRec,
         S.free = free, S.need = need, S.slp = slp,
         \A x \in Buf \ {bp} : S.buf[x] = buf[x],
         S.buf[bp].size = buf[bp].size,
         S.buf[bp].block = buf[bp].block,
         "WANTED" \in S.buf[bp].flags <=> "WANTED" \in buf[bp].flags,
         Becomes(Brelse(S, bp)), Leave(p), io' = io,
         disk' \in [Block -> Val], content' \in [Block -> Val]
  PROVE  Order'
<1> DEFINE P == {p}
<1>1. Typed /\ bp # None
  BY BufCacheAssumption DEF Order
<1>2. /\ "BUSY" \in buf[bp].flags /\ buf[bp].block # None
      /\ \A r \in Proc \ {p} : held[r] # bp
  BY <1>1, HeldIs
<1>3. LocalTyped' /\ io' = io \ {bp}
  BY <1>1, LeaveTyped DEF Typed, LocalTyped
<1>4. HoldOK(p)'
  BY <1>1, LeaveTyped DEF HoldOK
<1>5. /\ P \in SUBSET Proc
      /\ \A r \in Proc \ P :
           pc'[r] = pc[r] /\ want'[r] = want[r] /\ held'[r] = held[r]
      /\ \A r \in P : held'[r] = None /\ held[r] = bp /\ HoldOK(r)'
      /\ \A r \in Proc : held'[r] # bp
  BY <1>1, <1>2, <1>4, LeaveTyped
<1> HIDE DEF P
<1>. QED  BY <1>2, <1>3, <1>5, Released

(* A step that changes one buffer, which stays where it is on the lists or *)
(* is taken off, and that takes nothing from those who sleep.              *)
LEMMA OneChanged ==
  ASSUME Order, NEW bp \in Buf, NEW P \in SUBSET Proc, NEW T \in StateRec,
         Becomes(T), Apart(T.free),
         \A x \in Buf \ {bp} : /\ T.buf[x] = buf[x]
                               /\ On(T.free, x) = On(free, x)
                               /\ x \in io' <=> x \in io,
         On(T.free, bp) \subseteq On(free, bp), T.buf[bp].size = buf[bp].size,
         io' \subseteq Buf, LocalTyped',
         \A r \in Proc \ P :
           pc'[r] = pc[r] /\ want'[r] = want[r] /\ held'[r] = held[r],
         \A r \in P : held[r] # None => held[r] = bp \/ held'[r] = held[r],
         \A r \in P, q \in Proc : q # r /\ held'[r] # None => held'[q] # held'[r],
         BufOK(bp)',
         \A r \in Proc : r \in P \/ held[r] = bp => HoldOK(r)',
         need => T.need, \A r \in Proc \ P : T.slp[r] \in {slp[r], None},
         \A r \in P : SleepOK(r)',
         Awaited(bp)' \/ \A r \in Proc \ P : T.slp[r] # bp
  PROVE  Order'
<1>1. buf' = T.buf /\ free' = T.free /\ need' = T.need /\ slp' = T.slp
  BY DEF Becomes
<1>2. Typed /\ PagesKept
  BY DEF Order
<1>3. Typed'
  <2>1. (Now \in StateRec)'
    BY BecomesTyped
  <2>. QED  BY <2>1 DEF Typed
<1>4. PagesKept'
  <2>1. \A x \in Buf : buf'[x].size = buf[x].size
    BY <1>1
  <2>. QED  BY <1>2, <2>1, SizesSame
<1> DEFINE X == {bp}
<1>5. /\ X \in SUBSET Buf
      /\ \A x \in Buf \ X : buf'[x] = buf[x] /\ On(free', x) = On(free, x)
                              /\ (x \in io' <=> x \in io)
      /\ \A x \in X : BufOK(x)'
      /\ \A x \in X : Awaited(x)' \/ \A r \in Proc \ P : slp'[r] # x
      /\ \A r \in P : held[r] # None => held[r] \in X \/ held'[r] = held[r]
      /\ \A r \in Proc : r \in P \/ held[r] \in X => HoldOK(r)'
      /\ \A r \in Proc \ P : slp'[r] \in {slp[r], None}
      /\ Apart(free')
  BY <1>1
<1>6. \A x \in Buf : On(free', x) \subseteq On(free, x)
  <2>1. SUFFICES ASSUME NEW x \in Buf
                 PROVE  On(free', x) \subseteq On(free, x)
    OBVIOUS
  <2>2. CASE x = bp
    BY <1>1, <2>2
  <2>3. CASE x # bp
    BY <1>1, <2>3
  <2>. QED  BY <2>2, <2>3
<1>7. need => need'
  BY <1>1
<1> HIDE DEF X
<1>8. \A r \in Proc : SleepOK(r)'
  <2>1. Undisturbed(X, P)
    BY <1>5, <1>6, <1>7 DEF Undisturbed
  <2>. QED  BY <1>5, <2>1, SleepFramed
<1>. QED  BY <1>3, <1>4, <1>5, <1>8, Framed

(* A step of p that only goes on, or goes to sleep.                        *)
LEMMA JustWent ==
  ASSUME Order, NEW p \in Proc, NEW T \in StateRec, Becomes(T),
         T.buf = buf, T.free = free, io' = io, need => T.need, LocalTyped',
         \A r \in Proc \ {p} : /\ pc'[r] = pc[r] /\ want'[r] = want[r]
                               /\ held'[r] = held[r] /\ T.slp[r] = slp[r],
         held' = held, HoldOK(p)', SleepOK(p)'
  PROVE  Order'
<1>1. buf' = buf /\ free' = free /\ need' = T.need /\ slp' = T.slp
  BY DEF Becomes
<1>2. Typed /\ PagesKept /\ HoldersApart /\ Apart(free)
  BY DEF Order
<1>3. Typed'
  <2>1. (Now \in StateRec)'
    BY BecomesTyped
  <2>2. io' \subseteq Buf
    BY <1>2 DEF Typed
  <2>. QED  BY <2>1, <2>2 DEF Typed
<1>4. PagesKept'
  <2>1. \A x \in Buf : buf'[x].size = buf[x].size
    BY <1>1
  <2>. QED  BY <1>2, <2>1, SizesSame
<1> DEFINE X == {}
           P == {p}
<1>5. /\ X \in SUBSET Buf /\ P \in SUBSET Proc
      /\ \A x \in Buf \ X : buf'[x] = buf[x] /\ On(free', x) = On(free, x)
                              /\ (x \in io' <=> x \in io)
      /\ \A x \in X : BufOK(x)'
      /\ \A x \in X : Awaited(x)' \/ \A r \in Proc \ P : slp'[r] # x
      /\ \A r \in Proc \ P : /\ pc'[r] = pc[r] /\ want'[r] = want[r]
                             /\ held'[r] = held[r]
      /\ \A r \in P : held[r] # None => held[r] \in X \/ held'[r] = held[r]
      /\ \A r \in Proc : r \in P \/ held[r] \in X => HoldOK(r)'
      /\ \A r \in Proc \ P : slp'[r] \in {slp[r], None}
      /\ \A r \in P : SleepOK(r)'
      /\ \A x \in Buf : On(free', x) \subseteq On(free, x)
      /\ need => need'
      /\ Apart(free')
  BY <1>1, <1>2
<1>6. \A r \in P, q \in Proc : q # r /\ held'[r] # None => held'[q] # held'[r]
  BY <1>2 DEF HoldersApart
<1> HIDE DEF X, P
<1>7. \A r \in Proc : SleepOK(r)'
  <2>1. Undisturbed(X, P)
    BY <1>5 DEF Undisturbed
  <2>. QED  BY <1>5, <2>1, SleepFramed
<1>. QED  BY <1>3, <1>4, <1>5, <1>6, <1>7, Framed

(* The cache is as it was.                                                 *)
LEMMA StillThere ==
  ASSUME Typed, UNCHANGED state
  PROVE  Becomes(Now)
BY DEF Becomes, state, Now

(* What goes with a step of getblk() and of getnewbuf().                   *)
LEMMA StartOrder ==
  ASSUME Order, NEW p \in Proc, NEW b \in Block,
         NEW h \in {"bread", "getblk", "ahead"}, Start(p, b, h)
  PROVE  Order'
<1>1. Typed /\ HoldOK(p) /\ SleepOK(p)
  BY DEF Order
<1>2. Becomes(Now) /\ UNCHANGED state
  BY <1>1, StillThere DEF Start
<1>3. LocalTyped'
  BY <1>1 DEF Typed, LocalTyped, Start, Goto, Places
<1>4. /\ pc[p] = "idle" /\ pc'[p] = "getblk" /\ want'[p] = b /\ held' = held
      /\ \A r \in Proc \ {p} : /\ pc'[r] = pc[r] /\ want'[r] = want[r]
                               /\ held'[r] = held[r]
      /\ io' = io /\ slp[p] = None
  BY <1>1 DEF Typed, LocalTyped, Start, Goto, Runs
<1>5. HoldOK(p)'
  BY <1>1, <1>4 DEF HoldOK
<1>6. SleepOK(p)'
  BY <1>2, <1>4, BufCacheAssumption DEF SleepOK, state
<1>. QED  BY <1>1, <1>2, <1>3, <1>4, <1>5, <1>6, NowIs, JustWent

(* getblk() waits for a busy buffer.                                       *)
LEMMA BusyOrder ==
  ASSUME Order, NEW p \in Proc, Runs(p, "getblk"), NEW bp \in Buf,
         "BUSY" \in buf[bp].flags, GetblkBusy(p, bp),
         UNCHANGED <<io, disk, content, seen>>
  PROVE  Order'
<1> DEFINE S == SetFlags(Now, bp, {"WANTED"}, {})
           T == Sleep(S, p, bp)
           P == {p}
           f == buf[bp].flags \cup {"WANTED"}
<1>1. Typed /\ Apart(free) /\ HoldersApart /\ HoldOK(p) /\ BufOK(bp)
  BY DEF Order
<1>2. Flagged(Now, S, bp, f)
  <2>1. {"WANTED"} \in SUBSET Flags /\ f = (Now.buf[bp].flags \ {}) \cup {"WANTED"}
    BY DEF Flags, Now
  <2>2. Now \in StateRec
    BY <1>1, NowIs
  <2> HIDE DEF f, S
  <2>. QED  BY <2>1, <2>2, SetFlagsIs DEF S
<1>3. Becomes(T)
  BY DEF GetblkBusy
<1> HIDE DEF f, S
<1>4. Slept(S, T, [slp EXCEPT ![p] = bp])
  <2>1. S \in StateRec /\ S.slp = slp
    BY <1>1, <1>2, NowIs DEF Flagged
  <2>2. Slept(S, T, [S.slp EXCEPT ![p] = bp])
    BY <2>1, SleepIs
  <2>. QED  BY <2>1, <2>2
<1> HIDE DEF T
<1>5. /\ T \in StateRec /\ T.free = free /\ T.need = need
      /\ T.slp = [slp EXCEPT ![p] = bp]
      /\ \A x \in Buf \ {bp} : T.buf[x] = buf[x]
      /\ T.buf[bp].flags = f /\ T.buf[bp].block = buf[bp].block
      /\ T.buf[bp].size = buf[bp].size /\ T.buf[bp].data = buf[bp].data
  BY <1>1, <1>2, <1>4, NowIs DEF Flagged, Slept
<1>6. buf' = T.buf /\ free' = free /\ need' = need /\ slp' = T.slp
  BY <1>3, <1>5 DEF Becomes
<1>7. UNCHANGED <<pc, want, how, held>> /\ io' = io
  BY DEF GetblkBusy, local
<1>8. LocalTyped' /\ io' \subseteq Buf
  BY <1>1, <1>7 DEF Typed, LocalTyped, GetblkBusy, local
<1>9. BufOK(bp)'
  BY <1>1, <1>5, <1>6, <1>7 DEF BufOK, Fit, Dead, f
<1>10. ASSUME NEW r \in Proc
       PROVE  HoldOK(r)'
  <2>1. HoldOK(r) /\ held[r] \in Buf \cup {None}
    BY <1>1 DEF Order, Typed, LocalTyped
  <2>2. held[r] # None =>
          Holds(pc[r], want[r], buf'[held[r]], held[r] \in io)
    <3>1. CASE held[r] = bp
      BY <2>1, <3>1, <1>5, <1>6 DEF HoldOK, Holds, f
    <3>2. CASE held[r] # bp
      BY <2>1, <3>2, <1>5, <1>6 DEF HoldOK, Holds
    <3>. QED  BY <3>1, <3>2
  <2>. QED  BY <2>1, <2>2, <1>7 DEF HoldOK, Holds
<1>11. Awaited(bp)'
  BY <1>5, <1>6 DEF Awaited, f
<1>12. slp'[p] = bp
  BY <1>1, <1>5, <1>6, NowIs
<1>13. SleepOK(p)'
  BY <1>11, <1>12, BufCacheAssumption DEF SleepOK, Awaited
<1>14. /\ P \in SUBSET Proc
       /\ \A r \in Proc \ P : T.slp[r] \in {slp[r], None}
       /\ \A r \in P : SleepOK(r)'
       /\ \A r \in Proc \ P :
           pc'[r] = pc[r] /\ want'[r] = want[r] /\ held'[r] = held[r]
       /\ \A r \in P : held[r] # None => held[r] = bp \/ held'[r] = held[r]
       /\ \A r \in P, q \in Proc : q # r /\ held'[r] # None => held'[q] # held'[r]
       /\ \A r \in Proc : r \in P \/ held[r] = bp => HoldOK(r)'
       /\ Apart(T.free) /\ On(T.free, bp) \subseteq On(free, bp) /\ (need => T.need)
       /\ \A x \in Buf \ {bp} : /\ T.buf[x] = buf[x]
                                /\ On(T.free, x) = On(free, x)
                                /\ x \in io' <=> x \in io
  BY <1>1, <1>5, <1>7, <1>10, <1>13 DEF HoldersApart
<1> HIDE DEF P
<1>. QED  BY <1>3, <1>5, <1>8, <1>9, <1>11, <1>14, OneChanged

(* A buffer comes off its list into the hands of p: what getblk() does     *)
(* with the buffer that it finds and with the new one.                     *)
LEMMA TakenOrder ==
  ASSUME Order, NEW p \in Proc, held[p] = None, slp[p] = None,
         NEW bp \in Buf, "BUSY" \notin buf[bp].flags, NEW T \in StateRec,
         Becomes(T), Apart(T.free), T.need = need, T.slp = slp,
         \A q \in Queues : ToSet(T.free[q]) = ToSet(free[q]) \ {bp},
         \A x \in Buf \ {bp} : T.buf[x] = buf[x],
         T.buf[bp].size = buf[bp].size, "BUSY" \in T.buf[bp].flags,
         T.buf[bp].block = want[p], want[p] \in Block,
         "ASYNC" \notin T.buf[bp].flags,
         NEW place \in {"got", "alloc"},
         Holds(place, want[p], T.buf[bp], FALSE),
         held' = [held EXCEPT ![p] = bp], Goto(p, place), cpu' = p,
         UNCHANGED <<io, want, how, disk, content, seen>>
  PROVE  Order'
<1> DEFINE P == {p}
<1>1. /\ Typed /\ Apart(free) /\ HoldersApart /\ BufOK(bp)
      /\ \A r \in Proc : SleepOK(r) /\ HoldOK(r)
  BY DEF Order
<1>2. buf' = T.buf /\ free' = T.free /\ need' = need /\ slp' = slp
  BY DEF Becomes
<1>3. bp \notin io
  BY <1>1 DEF BufOK, Fit
<1>4. LocalTyped' /\ io' \subseteq Buf
  BY <1>1 DEF Typed, LocalTyped, Goto, Places
<1>5. /\ pc'[p] = place /\ held'[p] = bp /\ want' = want
      /\ \A r \in Proc \ {p} : pc'[r] = pc[r] /\ held'[r] = held[r]
  BY <1>1 DEF Typed, LocalTyped, Goto
<1>6. \A r \in Proc : held[r] # bp
  <2>1. SUFFICES ASSUME NEW r \in Proc, held[r] = bp
                 PROVE  FALSE
    OBVIOUS
  <2>2. bp # None
    BY BufCacheAssumption
  <2>. QED  BY <1>1, <2>1, <2>2 DEF HoldOK, Holds
<1>7. On(T.free, bp) = {} /\ \A x \in Buf \ {bp} : On(T.free, x) = On(free, x)
  BY DEF On
<1>8. BufOK(bp)'
  <2>1. Fit(T.buf[bp], {}, FALSE)
    <3>1. T.buf[bp].block # None
      BY BufCacheAssumption
    <3>. QED  BY <3>1 DEF Fit
  <2>2. "BUSY" \in buf'[bp].flags => \E q \in Proc : held'[q] = bp
    BY <1>5
  <2>. QED  BY <1>2, <1>3, <1>7, <2>1, <2>2 DEF BufOK, Fit
<1>9. HoldOK(p)'
  <2>1. bp # None
    BY BufCacheAssumption
  <2>. QED  BY <1>2, <1>3, <1>5, <2>1 DEF HoldOK, Holds
<1>10. \A r \in Proc : slp[r] # bp
  BY <1>1, <1>3 DEF SleepOK, Awaited
<1>11. SleepOK(p)'
  BY <1>2, BufCacheAssumption DEF SleepOK
<1>12. /\ P \in SUBSET Proc
       /\ \A r \in Proc \ P : T.slp[r] \in {slp[r], None}
       /\ \A r \in Proc \ P : T.slp[r] # bp
       /\ \A r \in P : SleepOK(r)'
       /\ \A r \in Proc \ P :
           pc'[r] = pc[r] /\ want'[r] = want[r] /\ held'[r] = held[r]
       /\ \A r \in P : held[r] # None => held[r] = bp \/ held'[r] = held[r]
       /\ \A r \in P, q \in Proc : q # r /\ held'[r] # None => held'[q] # held'[r]
       /\ \A r \in Proc : r \in P \/ held[r] = bp => HoldOK(r)'
       /\ On(T.free, bp) \subseteq On(free, bp) /\ (need => T.need)
       /\ \A x \in Buf \ {bp} : /\ T.buf[x] = buf[x]
                                /\ On(T.free, x) = On(free, x)
                                /\ x \in io' <=> x \in io
  BY <1>1, <1>5, <1>6, <1>7, <1>9, <1>10, <1>11
<1> HIDE DEF P
<1>. QED  BY <1>4, <1>8, <1>12, OneChanged

(* getblk().                                                               *)
LEMMA GetblkOrder ==
  ASSUME Order, NEW p \in Proc, Getblk(p)
  PROVE  Order'
<1>1. /\ Typed /\ Apart(free) /\ HoldOK(p) /\ SleepOK(p)
      /\ Runs(p, "getblk") /\ pc[p] = "getblk" /\ slp[p] = None
      /\ UNCHANGED <<io, disk, content, seen>>
  BY DEF Order, Getblk, Runs
<1>2. held[p] = None /\ want[p] \in Block
  BY <1>1 DEF HoldOK
<1>3. ASSUME NEW bp \in Buf, buf[bp].block = want[p],
             "BUSY" \in buf[bp].flags, GetblkBusy(p, bp)
      PROVE  Order'
  BY <1>1, <1>3, BusyOrder
<1>4. ASSUME NEW bp \in Buf, buf[bp].block = want[p],
             "BUSY" \notin buf[bp].flags,
             Becomes(SetFlags(Bremfree(Now, bp), bp, {"BUSY"}, {})),
             held' = [held EXCEPT ![p] = bp], Goto(p, "got"), cpu' = p,
             UNCHANGED <<want, how>>
      PROVE  Order'
  <2> DEFINE R == Bremfree(Now, bp)
             T == SetFlags(R, bp, {"BUSY"}, {})
  <2>1. Unlisted(Now, R, bp)
    BY <1>1, NowIs, BremfreeIs
  <2> HIDE DEF R
  <2>2. /\ R \in StateRec /\ R.buf = buf /\ R.need = need /\ R.slp = slp
        /\ Apart(R.free)
        /\ \A q \in Queues : ToSet(R.free[q]) = ToSet(free[q]) \ {bp}
    BY <1>1, <2>1, NowIs DEF Unlisted
  <2>3. Flagged(R, T, bp, buf[bp].flags \cup {"BUSY"})
    <3>1. {"BUSY"} \in SUBSET Flags
      BY DEF Flags
    <3>2. Flagged(R, T, bp, (R.buf[bp].flags \ {}) \cup {"BUSY"})
      BY <2>2, <3>1, SetFlagsIs
    <3>3. (R.buf[bp].flags \ {}) \cup {"BUSY"} = buf[bp].flags \cup {"BUSY"}
      BY <2>2
    <3> HIDE DEF T
    <3>. QED  BY <3>2, <3>3
  <2>4. Becomes(T)
    BY <1>4 DEF R
  <2> HIDE DEF T
  <2>5. BufOK(bp) /\ buf[bp].size \in Nat /\ bp # None
    BY <1>1, NowIs, BufCacheAssumption DEF Order
  <2>6. /\ T \in StateRec /\ T.need = need /\ T.slp = slp /\ Apart(T.free)
        /\ \A q \in Queues : ToSet(T.free[q]) = ToSet(free[q]) \ {bp}
        /\ \A x \in Buf \ {bp} : T.buf[x] = buf[x]
        /\ T.buf[bp].size = buf[bp].size /\ T.buf[bp].block = buf[bp].block
        /\ T.buf[bp].flags = buf[bp].flags \cup {"BUSY"}
    BY <2>2, <2>3 DEF Flagged
  <2>7. buf[bp].block # None
    BY <1>2, <1>4, BufCacheAssumption
  <2>8. /\ ~Dead(buf[bp]) /\ "ASYNC" \notin buf[bp].flags
    BY <1>4, <2>5, <2>7 DEF BufOK, Fit
  <2>9. Holds("got", want[p], T.buf[bp], FALSE)
    BY <1>4, <2>5, <2>6, <2>8 DEF Holds, Dead
  <2>. QED  BY <1>1, <1>2, <1>4, <2>4, <2>6, <2>8, <2>9, TakenOrder
<1>5. ASSUME Goto(p, "newbuf"), cpu' = p, UNCHANGED <<state, want, how, held>>
      PROVE  Order'
  <2>1. Becomes(Now)
    BY <1>1, <1>5, StillThere
  <2>2. LocalTyped'
    BY <1>1, <1>5 DEF Typed, LocalTyped, Goto, Places
  <2>3. /\ pc'[p] = "newbuf"
        /\ \A r \in Proc \ {p} : /\ pc'[r] = pc[r] /\ want'[r] = want[r]
                                 /\ held'[r] = held[r]
    BY <1>1, <1>5 DEF Typed, LocalTyped, Goto
  <2>4. HoldOK(p)'
    BY <1>2, <1>5, <2>3 DEF HoldOK
  <2>5. SleepOK(p)'
    BY <1>1, <1>5, BufCacheAssumption DEF SleepOK, state
  <2>. QED  BY <1>1, <1>5, <2>1, <2>2, <2>3, <2>4, <2>5, NowIs, JustWent
<1>. QED  BY <1>1, <1>3, <1>4, <1>5 DEF Getblk

(* getnewbuf() sleeps until a buffer is free.                              *)
LEMMA NoneOrder ==
  ASSUME Order, NEW p \in Proc, NEW at \in {"newbuf", "alloc"}, pc[p] = at,
         slp[p] = None, Candidates = {},
         GetnewbufNone(p, IF at = "alloc" THEN "alloc" ELSE "getblk"),
         UNCHANGED <<disk, content, seen>>
  PROVE  Order'
<1> DEFINE S == [Now EXCEPT !.need = TRUE]
           T == Sleep(S, p, NeedBuffer)
           back == IF at = "alloc" THEN "alloc" ELSE "getblk"
<1>1. Typed /\ HoldOK(p)
  BY DEF Order
<1>2. /\ S \in StateRec /\ S.buf = buf /\ S.free = free /\ S.need = TRUE
      /\ S.slp = slp
  BY <1>1, NowIs DEF StateRec
<1>3. Becomes(T) /\ Goto(p, back) /\ cpu' = None /\ UNCHANGED <<io, want, how, held>>
  BY DEF GetnewbufNone
<1> HIDE DEF S, back
<1>4. Slept(S, T, [S.slp EXCEPT ![p] = NeedBuffer])
  BY <1>2, SleepIs
<1> HIDE DEF T
<1>5. /\ T \in StateRec /\ T.buf = buf /\ T.free = free /\ T.need = TRUE
      /\ T.slp = [slp EXCEPT ![p] = NeedBuffer]
  BY <1>2, <1>4 DEF Slept
<1>6. back \in {"alloc", "getblk"} /\ (back = "alloc" <=> at = "alloc")
  BY DEF back
<1>7. LocalTyped'
  BY <1>1, <1>3, <1>6 DEF Typed, LocalTyped, Goto, Places
<1>8. /\ pc'[p] = back
      /\ \A r \in Proc \ {p} : /\ pc'[r] = pc[r] /\ want'[r] = want[r]
                               /\ held'[r] = held[r] /\ T.slp[r] = slp[r]
  BY <1>1, <1>3, <1>5, NowIs DEF Typed, LocalTyped, Goto
<1>9. buf' = buf /\ free' = free /\ need' = TRUE /\ slp'[p] = NeedBuffer
  BY <1>1, <1>3, <1>5, NowIs DEF Becomes
<1>10. HoldOK(p)'
  BY <1>1, <1>3, <1>6, <1>8, <1>9 DEF HoldOK, Holds
<1>11. SleepOK(p)'
  BY <1>1, <1>9, NoCandidates, BufCacheAssumption DEF SleepOK, NoneFree, On
<1>. QED  BY <1>3, <1>5, <1>7, <1>8, <1>10, <1>11, JustWent

(* The flags of a buffer when its write is started.                        *)
Writing(f) == (f \ {"READ", "DONE", "ERROR", "DELWRI"})
                \cup (IF {"ASYNC", "DELWRI"} \subseteq f THEN {"AGE"} ELSE {})

(* A write is started: the flags of the buffer change.                     *)
LEMMA StartWriteIs ==
  ASSUME NEW S \in StateRec, NEW bp \in Buf
  PROVE  Flagged(S, StartWrite(S, bp), bp, Writing(S.buf[bp].flags))
<1> DEFINE f == S.buf[bp].flags
           on == IF {"ASYNC", "DELWRI"} \subseteq f THEN {"AGE"} ELSE {}
           off == {"READ", "DONE", "ERROR", "DELWRI"}
           T == SetFlags(S, bp, on, off)
<1>1. StartWrite(S, bp) = T
  BY DEF StartWrite
<1>2. on \in SUBSET Flags
  BY DEF Flags
<1> HIDE DEF on, off, T
<1>3. Flagged(S, T, bp, (f \ off) \cup on)
  BY <1>2, SetFlagsIs DEF T
<1>4. (f \ off) \cup on = Writing(f)
  BY DEF Writing, on, off
<1>. QED  BY <1>1, <1>3, <1>4

(* A buffer filled by its holder or by the driver.                         *)
LEMMA FillIs ==
  ASSUME NEW S \in StateRec, NEW bp \in Buf, NEW v \in Val
  PROVE  LET T == Fill(S, bp, v)
         IN  /\ T \in StateRec /\ T.free = S.free /\ T.need = S.need
             /\ T.slp = S.slp
             /\ \A x \in Buf \ {bp} : T.buf[x] = S.buf[x]
             /\ T.buf[bp].data = v /\ T.buf[bp].flags = S.buf[bp].flags
             /\ T.buf[bp].block = S.buf[bp].block
             /\ T.buf[bp].size = S.buf[bp].size
<1> DEFINE b == S.buf[bp]
           c == [b EXCEPT !.data = v]
           T == Fill(S, bp, v)
<1>1. T = Put(S, bp, c)
  BY DEF Fill, Put
<1>2. b \in BufRec
  BY DEF StateRec
<1> HIDE DEF T
<1>3. /\ c \in BufRec /\ c.data = v /\ c.flags = b.flags
      /\ c.block = b.block /\ c.size = b.size
  BY <1>2, RecordField
<1> HIDE DEF c
<1>4. /\ T \in StateRec /\ T.buf[bp] = c
      /\ \A x \in Buf \ {bp} : T.buf[x] = S.buf[x]
      /\ T.free = S.free /\ T.need = S.need /\ T.slp = S.slp
  BY <1>1, <1>3, PutIs
<1>. QED  BY <1>3, <1>4 DEF T

(* A buffer with its flags and its block changed.                          *)
Relabel(S, T, bp, f, w) ==
  /\ T \in StateRec /\ T.free = S.free /\ T.need = S.need /\ T.slp = S.slp
  /\ \A x \in Buf \ {bp} : T.buf[x] = S.buf[x]
  /\ T.buf[bp].flags = f /\ T.buf[bp].block = w
  /\ T.buf[bp].size = S.buf[bp].size /\ T.buf[bp].data = S.buf[bp].data

(* That is what two changes of fields come to.                             *)
LEMMA Relabelled ==
  ASSUME NEW S \in StateRec, NEW bp \in Buf, NEW f \in SUBSET Flags,
         NEW w \in Block \cup {None}
  PROVE  Relabel(S, [S EXCEPT !.buf[bp].flags = f, !.buf[bp].block = w],
                 bp, f, w)
<1> DEFINE b == S.buf[bp]
           c == [b EXCEPT !.flags = f]
           R == [S EXCEPT !.buf[bp].flags = f]
           d == [c EXCEPT !.block = w]
           T == [S EXCEPT !.buf[bp].flags = f, !.buf[bp].block = w]
<1>1. T = [R EXCEPT !.buf[bp].block = w]
  OBVIOUS
<1>2. R = Put(S, bp, c)
  BY DEF Put
<1>3. b \in BufRec
  BY DEF StateRec
<1> HIDE DEF T, R
<1>4. /\ c \in BufRec /\ c.flags = f /\ c.block = b.block
      /\ c.size = b.size /\ c.data = b.data
  BY <1>3, RecordField
<1> HIDE DEF c
<1>5. /\ R \in StateRec /\ R.buf[bp] = c
      /\ \A x \in Buf \ {bp} : R.buf[x] = S.buf[x]
      /\ R.free = S.free /\ R.need = S.need /\ R.slp = S.slp
  BY <1>2, <1>4, PutIs
<1>6. T = Put(R, bp, d)
  <2>1. [R EXCEPT !.buf[bp].block = w]
          = Put(R, bp, [R.buf[bp] EXCEPT !.block = w])
    BY DEF Put
  <2>. QED  BY <1>1, <1>5, <2>1
<1>7. /\ d \in BufRec /\ d.block = w /\ d.flags = c.flags
      /\ d.size = c.size /\ d.data = c.data
  BY <1>4, RecordField
<1> HIDE DEF d
<1>8. /\ T \in StateRec /\ T.buf[bp] = d
      /\ \A x \in Buf \ {bp} : T.buf[x] = R.buf[x]
      /\ T.free = R.free /\ T.need = R.need /\ T.slp = R.slp
  BY <1>5, <1>6, <1>7, PutIs
<1>9. Relabel(S, T, bp, f, w)
  BY <1>4, <1>5, <1>7, <1>8 DEF Relabel
<1>. QED  BY <1>9 DEF T

(* What getnewbuf() does to the buffer it takes.                           *)
TookOff(S, T, bp) ==
  /\ T \in StateRec /\ Apart(T.free) /\ T.need = S.need /\ T.slp = S.slp
  /\ \A q \in Queues : ToSet(T.free[q]) = ToSet(S.free[q]) \ {bp}
  /\ \A x \in Buf \ {bp} : T.buf[x] = S.buf[x]
  /\ T.buf[bp].flags = {"BUSY"} /\ T.buf[bp].block = None
  /\ T.buf[bp].size = S.buf[bp].size /\ T.buf[bp].data = S.buf[bp].data

(* getnewbuf() does it.                                                    *)
LEMMA TakenIs ==
  ASSUME NEW S \in StateRec, Apart(S.free), NEW bp \in Buf
  PROVE  TookOff(S, Taken(S, bp), bp)
<1> DEFINE R == Bremfree(S, bp)
           f == {"BUSY"}
           w == None
           T == [R EXCEPT !.buf[bp].flags = f, !.buf[bp].block = w]
<1>1. Taken(S, bp) = T
  BY DEF Taken
<1>2. Unlisted(S, R, bp)
  BY BremfreeIs
<1> HIDE DEF R
<1>3. /\ R \in StateRec /\ R.buf = S.buf /\ R.need = S.need /\ R.slp = S.slp
      /\ Apart(R.free)
      /\ \A q \in Queues : ToSet(R.free[q]) = ToSet(S.free[q]) \ {bp}
  BY <1>2 DEF Unlisted
<1>4. f \in SUBSET Flags /\ w \in Block \cup {None}
  BY DEF Flags
<1> HIDE DEF f, w
<1>5. Relabel(R, T, bp, f, w)
  BY <1>3, <1>4, Relabelled
<1> HIDE DEF T
<1>6. TookOff(S, T, bp)
  BY <1>3, <1>5 DEF Relabel, TookOff, f, w
<1>. QED  BY <1>1, <1>6

(* getnewbuf() starts the delayed write of a buffer.                       *)
LEMMA DirtyOrder ==
  ASSUME Order, NEW p \in Proc, NEW bp \in Candidates,
         "DELWRI" \in buf[bp].flags, GetnewbufDirty(p, bp),
         UNCHANGED <<disk, content, seen>>
  PROVE  Order'
<1> DEFINE R == Bremfree(Now, bp)
           S == SetFlags(R, bp, {"BUSY", "ASYNC"}, {})
           T == StartWrite(S, bp)
           P == {}
           f == buf[bp].flags \cup {"BUSY", "ASYNC"}
<1>1. /\ Typed /\ Apart(free) /\ bp \in Buf
      /\ On(free, bp) \cap {"LRU", "AGE"} # {}
  BY CandidateIs DEF Order
<1>2. BufOK(bp)
  BY <1>1 DEF Order
<1>3. Unlisted(Now, R, bp)
  BY <1>1, NowIs, BremfreeIs
<1> HIDE DEF R
<1>4. /\ R \in StateRec /\ R.buf = buf /\ R.need = need /\ R.slp = slp
      /\ Apart(R.free)
      /\ \A q \in Queues : ToSet(R.free[q]) = ToSet(free[q]) \ {bp}
  BY <1>1, <1>3, NowIs DEF Unlisted
<1>5. Flagged(R, S, bp, f)
  <2>1. {"BUSY", "ASYNC"} \in SUBSET Flags
    BY DEF Flags
  <2>2. Flagged(R, S, bp, (R.buf[bp].flags \ {}) \cup {"BUSY", "ASYNC"})
    BY <1>1, <1>4, <2>1, SetFlagsIs
  <2>3. (R.buf[bp].flags \ {}) \cup {"BUSY", "ASYNC"} = f
    BY <1>4
  <2> HIDE DEF S, f
  <2>. QED  BY <2>2, <2>3
<1>6. Becomes(T) /\ io' = io \cup {bp} /\ UNCHANGED local
      /\ cpu' \in {p} \cup {None}
  BY DEF GetnewbufDirty, R
<1> HIDE DEF S, f
<1>7. S \in StateRec /\ S.buf[bp].flags = f
  BY <1>5 DEF Flagged
<1>8. Flagged(S, T, bp, Writing(f))
  BY <1>1, <1>7, StartWriteIs
<1> HIDE DEF T
<1>9. /\ T \in StateRec /\ T.need = need /\ T.slp = slp /\ Apart(T.free)
      /\ \A q \in Queues : ToSet(T.free[q]) = ToSet(free[q]) \ {bp}
      /\ \A x \in Buf \ {bp} : T.buf[x] = buf[x]
      /\ T.buf[bp].size = buf[bp].size /\ T.buf[bp].block = buf[bp].block
      /\ T.buf[bp].flags = Writing(f)
  BY <1>4, <1>5, <1>8 DEF Flagged
<1>10. buf' = T.buf /\ free' = T.free /\ need' = need /\ slp' = slp
  BY <1>6, <1>9 DEF Becomes
<1>11. /\ buf[bp].block # None /\ ~Dead(buf[bp]) /\ "BUSY" \notin buf[bp].flags
       /\ buf[bp].size > 0
  BY <1>1, <1>2 DEF BufOK, Fit
<1>12. On(T.free, bp) = {} /\ \A x \in Buf \ {bp} : On(T.free, x) = On(free, x)
  BY <1>9 DEF On
<1>13. BufOK(bp)'
  <2>1. Fit(T.buf[bp], {}, TRUE)
    BY <1>9, <1>11 DEF Fit, Dead, Writing, f
  <2>2. "ASYNC" \in T.buf[bp].flags
    BY <1>9 DEF Writing, f
  <2>. QED  BY <1>6, <1>10, <1>12, <2>1, <2>2 DEF BufOK, Fit
<1>14. bp # None /\ \A r \in Proc : held[r] # bp /\ slp[r] # bp
  <2>1. bp # None
    BY <1>1, BufCacheAssumption
  <2>2. ASSUME NEW r \in Proc
        PROVE  held[r] # bp /\ slp[r] # bp
    <3>1. HoldOK(r) /\ SleepOK(r)
      BY DEF Order
    <3>2. bp \notin io
      BY <1>2, <1>11 DEF BufOK, Fit
    <3>. QED
      BY <1>1, <1>11, <2>1, <3>1, <3>2 DEF HoldOK, Holds, SleepOK, Awaited
  <2>. QED  BY <2>1, <2>2
<1>15. LocalTyped' /\ io' \subseteq Buf
  BY <1>1, <1>6 DEF Typed, LocalTyped, local
<1>16. /\ P \in SUBSET Proc
       /\ \A r \in Proc \ P : T.slp[r] \in {slp[r], None}
       /\ \A r \in Proc \ P : T.slp[r] # bp
       /\ \A r \in P : SleepOK(r)'
       /\ \A r \in Proc \ P :
           pc'[r] = pc[r] /\ want'[r] = want[r] /\ held'[r] = held[r]
       /\ \A r \in P : held[r] # None => held[r] = bp \/ held'[r] = held[r]
       /\ \A r \in P, q \in Proc : q # r /\ held'[r] # None => held'[q] # held'[r]
       /\ \A r \in Proc : r \in P \/ held[r] = bp => HoldOK(r)'
       /\ On(T.free, bp) \subseteq On(free, bp) /\ (need => T.need)
       /\ \A x \in Buf \ {bp} : /\ T.buf[x] = buf[x]
                                /\ On(T.free, x) = On(free, x)
                                /\ x \in io' <=> x \in io
  BY <1>6, <1>9, <1>12, <1>14 DEF local
<1> HIDE DEF P
<1>. QED  BY <1>1, <1>6, <1>9, <1>13, <1>15, <1>16, OneChanged

(* getblk() goes on to getnewbuf().                                        *)
LEMMA NewbufOrder ==
  ASSUME Order, NEW p \in Proc, Newbuf(p)
  PROVE  Order'
<1>1. /\ Typed /\ Apart(free) /\ HoldOK(p)
      /\ pc[p] = "newbuf" /\ slp[p] = None
      /\ UNCHANGED <<disk, content, seen>>
  BY DEF Order, Newbuf, Runs
<1>2. held[p] = None /\ want[p] \in Block
  BY <1>1 DEF HoldOK
<1>3. ASSUME Candidates = {}, GetnewbufNone(p, Retry)
      PROVE  Order'
  BY <1>1, <1>3, NoneOrder DEF Retry
<1>4. ASSUME NEW bp \in Candidates, "DELWRI" \in buf[bp].flags,
             GetnewbufDirty(p, bp)
      PROVE  Order'
  BY <1>1, <1>4, DirtyOrder
<1>5. ASSUME NEW bp \in Candidates, "DELWRI" \notin buf[bp].flags,
             Becomes([Taken(Now, bp) EXCEPT !.buf[bp].block = want[p]]),
             held' = [held EXCEPT ![p] = bp], Goto(p, "alloc"), cpu' = p,
             UNCHANGED <<io, want, how>>
      PROVE  Order'
  <2> DEFINE R == Taken(Now, bp)
             c == [R.buf[bp] EXCEPT !.block = want[p]]
             T == [R EXCEPT !.buf[bp].block = want[p]]
  <2>1. bp \in Buf /\ On(free, bp) # {}
    BY <1>1, <1>5, CandidateIs
  <2>2. TookOff(Now, R, bp)
    BY <1>1, <2>1, NowIs, TakenIs
  <2>3. T = Put(R, bp, c) /\ Becomes(T)
    BY <1>5 DEF Put
  <2> HIDE DEF R
  <2>4. R \in StateRec /\ R.buf[bp] \in BufRec
    BY <2>1, <2>2 DEF TookOff, StateRec
  <2>5. /\ c \in BufRec /\ c.block = want[p] /\ c.flags = R.buf[bp].flags
        /\ c.size = R.buf[bp].size /\ c.data = R.buf[bp].data
    BY <1>2, <2>4, RecordField
  <2> HIDE DEF c, T
  <2>6. /\ T \in StateRec /\ T.buf[bp] = c
        /\ \A x \in Buf \ {bp} : T.buf[x] = R.buf[x]
        /\ T.free = R.free /\ T.need = R.need /\ T.slp = R.slp
    BY <2>1, <2>3, <2>4, <2>5, PutIs
  <2>7. /\ Apart(T.free) /\ T.need = need /\ T.slp = slp
        /\ \A q \in Queues : ToSet(T.free[q]) = ToSet(free[q]) \ {bp}
        /\ \A x \in Buf \ {bp} : T.buf[x] = buf[x]
        /\ T.buf[bp].flags = {"BUSY"} /\ T.buf[bp].block = want[p]
        /\ T.buf[bp].size = buf[bp].size
    BY <1>1, <2>2, <2>5, <2>6, NowIs DEF TookOff
  <2>8. BufOK(bp)
    BY <2>1 DEF Order
  <2>9. "BUSY" \notin buf[bp].flags
    BY <2>1, <2>8 DEF BufOK, Fit
  <2>10. Holds("alloc", want[p], T.buf[bp], FALSE)
    BY <2>7 DEF Holds
  <2>11. "BUSY" \in T.buf[bp].flags /\ "ASYNC" \notin T.buf[bp].flags
    BY <2>7
  <2>. QED
    BY <1>1, <1>2, <1>5, <2>1, <2>3, <2>6, <2>7, <2>9, <2>10, <2>11, TakenOrder
<1>. QED  BY <1>1, <1>3, <1>4, <1>5 DEF Newbuf

(* A step of p on its way with its buffer, which it does not touch.        *)
LEMMA WentOn ==
  ASSUME Order, NEW p \in Proc, held[p] # None, slp[p] = None,
         NEW place \in Places, Goto(p, place),
         Holds(place, want[p], buf[held[p]], held[p] \in io),
         place \notin {"idle", "getblk", "newbuf"},
         cpu' \in Proc \cup {None}, seen' \in [Proc -> Val \cup {None}],
         UNCHANGED <<state, io, want, how, held, disk, content>>
  PROVE  Order'
<1>1. Typed /\ HoldOK(p)
  BY DEF Order
<1>2. Becomes(Now) /\ UNCHANGED state
  BY <1>1, StillThere
<1>3. LocalTyped'
  BY <1>1 DEF Typed, LocalTyped, Goto
<1>4. /\ pc'[p] = place
      /\ \A r \in Proc \ {p} : /\ pc'[r] = pc[r] /\ want'[r] = want[r]
                               /\ held'[r] = held[r]
  BY <1>1 DEF Typed, LocalTyped, Goto
<1>5. want[p] \in Block
  BY HeldIs
<1>6. HoldOK(p)'
  BY <1>4, <1>5 DEF HoldOK, Holds, state
<1>7. SleepOK(p)'
  BY BufCacheAssumption DEF SleepOK, state
<1>. QED  BY <1>1, <1>2, <1>3, <1>4, <1>6, <1>7, NowIs, JustWent

(* Pages move between the buffer y of p and a buffer x, which came off a   *)
(* list for it and is released.                                            *)
Exchanged(S, x, y) ==
  /\ S \in StateRec /\ Apart(S.free) /\ S.need = need /\ S.slp = slp
  /\ \A q \in Queues : ToSet(S.free[q]) = ToSet(free[q]) \ {x}
  /\ \A z \in Buf \ {x, y} : S.buf[z] = buf[z]
  /\ S.buf[y].flags = buf[y].flags /\ S.buf[y].block = buf[y].block
  /\ "DELWRI" \in S.buf[x].flags => S.buf[x].block # None
  /\ S.buf[x].size + S.buf[y].size = buf[x].size + buf[y].size

(* allocbuf() keeps the cache in order, either way.                        *)
LEMMA PagesMoved ==
  ASSUME Order, NEW p \in Proc, NEW y \in Buf, held[p] = y, pc[p] = "alloc",
         slp[p] = None, NEW x \in Buf, "BUSY" \notin buf[x].flags,
         NEW S, Exchanged(S, x, y), Becomes(Brelse(S, x)),
         NEW place \in {"alloc", "got"}, pc' = [pc EXCEPT ![p] = place],
         place = "got" => S.buf[y].size > 0,
         cpu' = p, UNCHANGED <<io, want, how, held, disk, content, seen>>
  PROVE  Order'
<1> USE DEF Exchanged
<1> DEFINE T == Brelse(S, x)
           X == {x, y}
           P == {p}
<1>1. /\ Typed /\ Apart(free) /\ PagesKept /\ BufOK(x) /\ HoldOK(p)
  BY DEF Order
<1>2. /\ y # None /\ "BUSY" \in buf[y].flags /\ On(free, y) = {} /\ x # y
      /\ want[p] \in Block /\ \A r \in Proc \ {p} : held[r] # y
      /\ Holds("alloc", want[p], buf[y], y \in io)
  BY HeldIs, BufCacheAssumption
<1>3. /\ x # None /\ x \notin io /\ "WANTED" \notin buf[x].flags
  BY <1>1, BufCacheAssumption DEF BufOK, Fit
<1>4. \A r \in Proc : held[r] # x
  <2>1. SUFFICES ASSUME NEW r \in Proc, held[r] = x
                 PROVE  FALSE
    OBVIOUS
  <2>2. HoldOK(r)
    BY DEF Order
  <2>. QED  BY <1>3, <2>1, <2>2 DEF HoldOK, Holds
<1>5. \A q \in Queues : x \notin ToSet(S.free[q])
  OBVIOUS
<1>6. Brelsed(S, T, x)
  BY <1>5, BrelseIs
<1>7. Becomes(T)
  OBVIOUS
<1> HIDE DEF T
<1>8. /\ T \in StateRec /\ Apart(T.free) /\ T.need = FALSE
      /\ \A z \in Buf \ {x} : T.buf[z] = S.buf[z]
      /\ T.buf[x].size = S.buf[x].size
  BY <1>6 DEF Brelsed
<1>9. buf' = T.buf /\ free' = T.free /\ need' = T.need /\ slp' = T.slp
  BY <1>7 DEF Becomes
<1>10. \A z \in Buf \ {x} : On(free', z) = On(free, z)
  <2>1. SUFFICES ASSUME NEW z \in Buf \ {x}
                 PROVE  On(T.free, z) = On(free, z)
    BY <1>9
  <2>2. \A q \in Queues : z \in ToSet(T.free[q]) <=> z \in ToSet(free[q])
    BY <1>6 DEF Brelsed
  <2>. QED  BY <2>2 DEF On
<1>11. Typed'
  <2>1. (Now \in StateRec)'
    BY <1>7, <1>8, BecomesTyped
  <2>2. io' \subseteq Buf
    BY <1>1 DEF Typed
  <2>3. LocalTyped'
    BY <1>1 DEF Typed, LocalTyped, Places
  <2>. QED  BY <2>1, <2>2, <2>3 DEF Typed
<1>12. PagesKept'
  <2>1. buf'[x].size + buf'[y].size = buf[x].size + buf[y].size
    BY <1>2, <1>8, <1>9
  <2>2. \A z \in Buf \ {x, y} : buf'[z].size = buf[z].size
    BY <1>8, <1>9
  <2>. QED  BY <1>1, <1>2, <1>11, <2>1, <2>2, SizesMoved
<1>13. BufOK(x)'
  <2>1. Fit(T.buf[x], On(T.free, x), FALSE) /\ "BUSY" \notin T.buf[x].flags
    BY <1>5, <1>6, ReleaseFits
  <2>. QED  BY <1>3, <1>9, <2>1 DEF BufOK, Fit
<1>14. /\ buf'[y].flags = buf[y].flags /\ buf'[y].block = buf[y].block
       /\ buf'[y].size = S.buf[y].size
  BY <1>2, <1>8, <1>9
<1>15. /\ pc'[p] = place
       /\ \A r \in Proc \ {p} : pc'[r] = pc[r]
  BY <1>1 DEF Typed, LocalTyped
<1>16. HoldOK(p)'
  BY <1>2, <1>14, <1>15 DEF HoldOK, Holds
<1>17. BufOK(y)'
  <2>1. y \notin io
    BY <1>2 DEF Holds
  <2>2. On(free', y) = {}
    BY <1>2, <1>10
  <2>3. Fit(buf'[y], {}, FALSE)
    BY <1>2, <1>14 DEF Fit, Holds
  <2>. QED  BY <2>1, <2>2, <2>3 DEF BufOK, Fit
<1>18. \A r \in Proc : /\ T.slp[r] \in {slp[r], None}
                       /\ T.slp[r] # NeedBuffer /\ T.slp[r] # x
  BY <1>3, <1>6, ReleaseWakes
<1>19. SleepOK(p)'
  <2>1. slp'[p] = None
    BY <1>9, <1>18
  <2>. QED  BY <2>1, BufCacheAssumption DEF SleepOK
<1>20. Awaited(y)' \/ \A r \in Proc \ P : slp'[r] # y
  <2>1. SUFFICES ASSUME NEW r \in Proc, slp'[r] = y
                 PROVE  Awaited(y)'
    OBVIOUS
  <2>2. slp[r] = y /\ SleepOK(r)
    BY <1>2, <1>9, <1>18, <2>1 DEF Order
  <2>. QED  BY <1>14, <2>2 DEF SleepOK, Awaited
<1>21. /\ X \in SUBSET Buf /\ P \in SUBSET Proc
       /\ \A z \in Buf \ X : /\ buf'[z] = buf[z] /\ On(free', z) = On(free, z)
                             /\ z \in io' <=> z \in io
       /\ \A r \in Proc \ P :
            pc'[r] = pc[r] /\ want'[r] = want[r] /\ held'[r] = held[r]
       /\ \A r \in P : held[r] # None => held[r] \in X \/ held'[r] = held[r]
       /\ \A r \in P, q \in Proc : q # r /\ held'[r] # None => held'[q] # held'[r]
       /\ \A z \in X : BufOK(z)'
       /\ \A r \in Proc : r \in P \/ held[r] \in X => HoldOK(r)'
       /\ \A r \in Proc \ P : slp'[r] \in {slp[r], None}
       /\ \A r \in P : SleepOK(r)'
       /\ \A r \in Proc \ P : slp'[r] # NeedBuffer
       /\ \A z \in X : Awaited(z)' \/ \A r \in Proc \ P : slp'[r] # z
  BY <1>2, <1>4, <1>8, <1>9, <1>10, <1>13, <1>15, <1>16, <1>17, <1>18, <1>19,
     <1>20
<1> HIDE DEF X, P
<1>22. \A r \in Proc : SleepOK(r)'
  <2>1. Undisturbed(X, P)
    BY <1>21 DEF Undisturbed
  <2>. QED  BY <1>21, <2>1, SleepFramed
<1>23. Apart(free')
  BY <1>8, <1>9
<1>. QED  BY <1>11, <1>12, <1>21, <1>22, <1>23, Framed

(* A buffer with its size changed.                                         *)
LEMMA Resized ==
  ASSUME NEW S \in StateRec, NEW bp \in Buf, NEW n \in Nat
  PROVE  LET T == [S EXCEPT !.buf[bp].size = n]
         IN  /\ T \in StateRec /\ T.free = S.free /\ T.need = S.need
             /\ T.slp = S.slp
             /\ \A x \in Buf \ {bp} : T.buf[x] = S.buf[x]
             /\ T.buf[bp].size = n /\ T.buf[bp].flags = S.buf[bp].flags
             /\ T.buf[bp].block = S.buf[bp].block
             /\ T.buf[bp].data = S.buf[bp].data
<1> DEFINE b == S.buf[bp]
           c == [b EXCEPT !.size = n]
           T == [S EXCEPT !.buf[bp].size = n]
<1>1. T = Put(S, bp, c)
  BY DEF Put
<1>2. b \in BufRec
  BY DEF StateRec
<1> HIDE DEF T
<1>3. /\ c \in BufRec /\ c.size = n /\ c.flags = b.flags
      /\ c.block = b.block /\ c.data = b.data
  BY <1>2, RecordField
<1> HIDE DEF c
<1>4. /\ T \in StateRec /\ T.buf[bp] = c
      /\ \A x \in Buf \ {bp} : T.buf[x] = S.buf[x]
      /\ T.free = S.free /\ T.need = S.need /\ T.slp = S.slp
  BY <1>1, <1>3, PutIs
<1>. QED  BY <1>3, <1>4 DEF T

(* The lesser of two numbers.                                              *)
LEMMA LesserIs ==
  ASSUME NEW m \in Nat, NEW n \in Nat
  PROVE  Min({m, n}) \in Nat /\ Min({m, n}) <= m /\ Min({m, n}) <= n
<1> DEFINE k == IF m <= n THEN m ELSE n
<1>1. k \in {m, n} /\ \A i \in {m, n} : k <= i
  OBVIOUS
<1>2. \E i \in {m, n} : \A j \in {m, n} : i <= j
  BY <1>1
<1>3. Min({m, n}) \in {m, n} /\ \A j \in {m, n} : Min({m, n}) <= j
  BY <1>2, Zenon DEF Min
<1>. QED  BY <1>3

(* What allocbuf() makes of the buffers tp, that grows, and bp.            *)
LEMMA TakePagesIs ==
  ASSUME Typed, Apart(free), NEW p \in Proc, NEW tp \in Buf, held[p] = tp,
         NEW bp \in Buf, bp # tp, want[p] \in Block,
         buf[tp].size < SizeOf[want[p]]
  PROVE  LET S == TakePages(p, bp)
         IN  /\ S \in StateRec /\ Apart(S.free) /\ S.need = need /\ S.slp = slp
             /\ \A q \in Queues : ToSet(S.free[q]) = ToSet(free[q]) \ {bp}
             /\ \A z \in Buf \ {tp, bp} : S.buf[z] = buf[z]
             /\ S.buf[tp].flags = buf[tp].flags
             /\ S.buf[tp].block = buf[tp].block
             /\ S.buf[tp].data = buf[tp].data
             /\ S.buf[bp].flags \subseteq {"BUSY", "INVAL"}
             /\ S.buf[bp].block = None
             /\ S.buf[bp].size + S.buf[tp].size = buf[bp].size + buf[tp].size
<1> DEFINE take == Min({SizeOf[want[p]] - buf[tp].size, buf[bp].size})
           R == Taken(Now, bp)
           m == R.buf[tp].size + take
           R1 == [R EXCEPT !.buf[tp].size = m]
           n == R1.buf[bp].size - take
           R2 == [R1 EXCEPT !.buf[bp].size = n]
           S == IF R2.buf[bp].size = 0 THEN SetFlags(R2, bp, {"INVAL"}, {})
                ELSE R2
<1>1. TakePages(p, bp) = S
  <2> DEFINE more == Min({SizeOf[want[p]] - buf[held[p]].size, buf[bp].size})
             given == [R EXCEPT !.buf[held[p]].size = @ + more,
                                !.buf[bp].size = @ - more]
             both == [R EXCEPT !.buf[tp].size = @ + take,
                               !.buf[bp].size = @ - take]
  <2>1. TakePages(p, bp) = IF given.buf[bp].size = 0
                           THEN SetFlags(given, bp, {"INVAL"}, {}) ELSE given
    BY Zenon DEF TakePages
  <2>2. given = both
    <3> HIDE DEF R
    <3>. QED  OBVIOUS
  <2>3. both = R2
    <3> HIDE DEF R, take
    <3>. QED  OBVIOUS
  <2> HIDE DEF given, both, R2
  <2>. QED  BY <2>1, <2>2, <2>3
<1>2. TookOff(Now, R, bp)
  BY NowIs, TakenIs
<1> HIDE DEF R, S
<1>3. /\ R \in StateRec /\ Apart(R.free) /\ R.need = need /\ R.slp = slp
      /\ \A q \in Queues : ToSet(R.free[q]) = ToSet(free[q]) \ {bp}
      /\ \A x \in Buf \ {bp} : R.buf[x] = buf[x]
      /\ R.buf[bp].flags = {"BUSY"} /\ R.buf[bp].block = None
      /\ R.buf[bp].size = buf[bp].size
  BY <1>2, NowIs DEF TookOff
<1>4. take \in Nat /\ take <= buf[bp].size
  <2>1. SizeOf[want[p]] - buf[tp].size \in Nat /\ buf[bp].size \in Nat
    <3>1. SizeOf[want[p]] \in Nat
      BY BufCacheAssumption
    <3>2. buf[tp].size \in Nat /\ buf[bp].size \in Nat
      BY NowIs
    <3>. QED  BY <3>1, <3>2
  <2>. QED  BY <2>1, LesserIs
<1> HIDE DEF take
<1>5. buf[tp].size \in Nat /\ buf[bp].size \in Nat
  BY NowIs
<1>6. m \in Nat /\ m = buf[tp].size + take
  BY <1>3, <1>4, <1>5
<1> HIDE DEF m
<1>7. /\ R1 \in StateRec /\ R1.free = R.free /\ R1.need = R.need
      /\ R1.slp = R.slp
      /\ \A x \in Buf \ {tp} : R1.buf[x] = R.buf[x]
      /\ R1.buf[tp].size = m /\ R1.buf[tp].flags = R.buf[tp].flags
      /\ R1.buf[tp].block = R.buf[tp].block
      /\ R1.buf[tp].data = R.buf[tp].data
  BY <1>3, <1>6, Resized
<1> HIDE DEF R1
<1>8. n \in Nat /\ n = buf[bp].size - take
  BY <1>3, <1>4, <1>5, <1>7
<1> HIDE DEF n
<1>9. /\ R2 \in StateRec /\ R2.free = R1.free /\ R2.need = R1.need
      /\ R2.slp = R1.slp
      /\ \A x \in Buf \ {bp} : R2.buf[x] = R1.buf[x]
      /\ R2.buf[bp].size = n /\ R2.buf[bp].flags = R1.buf[bp].flags
      /\ R2.buf[bp].block = R1.buf[bp].block
  BY <1>7, <1>8, Resized
<1> HIDE DEF R2
<1>10. \E f \in SUBSET {"BUSY", "INVAL"} : Flagged(R2, S, bp, f)
  <2>1. CASE R2.buf[bp].size = 0
    <3> DEFINE U == SetFlags(R2, bp, {"INVAL"}, {})
    <3>1. S = U
      BY <2>1 DEF S
    <3>2. {"INVAL"} \in SUBSET Flags
      BY DEF Flags
    <3>3. Flagged(R2, U, bp, (R2.buf[bp].flags \ {}) \cup {"INVAL"})
      BY <1>9, <3>2, SetFlagsIs
    <3>4. (R2.buf[bp].flags \ {}) \cup {"INVAL"} \in SUBSET {"BUSY", "INVAL"}
      BY <1>3, <1>7, <1>9
    <3> HIDE DEF U
    <3>. QED  BY <3>1, <3>3, <3>4
  <2>2. CASE R2.buf[bp].size # 0
    <3>1. S = R2
      BY <2>2 DEF S
    <3>2. Flagged(R2, R2, bp, R2.buf[bp].flags)
      BY <1>9 DEF Flagged
    <3>3. R2.buf[bp].flags \in SUBSET {"BUSY", "INVAL"}
      BY <1>3, <1>7, <1>9
    <3>. QED  BY <3>1, <3>2, <3>3
  <2>. QED  BY <2>1, <2>2
<1>11. /\ S \in StateRec /\ S.free = R.free /\ S.need = need /\ S.slp = slp
       /\ \A z \in Buf \ {tp, bp} : S.buf[z] = buf[z]
       /\ S.buf[bp].flags \subseteq {"BUSY", "INVAL"}
       /\ S.buf[bp].block = None /\ S.buf[bp].size = n
       /\ S.buf[tp].size = m /\ S.buf[tp].flags = buf[tp].flags
       /\ S.buf[tp].block = buf[tp].block /\ S.buf[tp].data = buf[tp].data
  BY <1>3, <1>7, <1>9, <1>10 DEF Flagged
<1>12. n + m = buf[bp].size + buf[tp].size
  BY <1>4, <1>5, <1>6, <1>8
<1>. QED  BY <1>1, <1>3, <1>11, <1>12

(* What allocbuf() makes of the buffer tp, that shrinks, and of ep, which  *)
(* is on BQ_EMPTY and gets the excess.                                     *)
GaveAway(S, tp, ep, size) ==
  /\ ep \in Buf /\ ep # tp /\ "BUSY" \notin buf[ep].flags /\ buf[ep].size = 0
  /\ S \in StateRec /\ Apart(S.free) /\ S.need = need /\ S.slp = slp
  /\ \A q \in Queues : ToSet(S.free[q]) = ToSet(free[q]) \ {ep}
  /\ \A z \in Buf \ {ep, tp} : S.buf[z] = buf[z]
  /\ S.buf[tp].flags = buf[tp].flags /\ S.buf[tp].block = buf[tp].block
  /\ S.buf[tp].data = buf[tp].data /\ S.buf[tp].size = size
  /\ S.buf[ep].size = buf[tp].size - size /\ S.buf[ep].block = buf[ep].block
  /\ S.buf[ep].flags = buf[ep].flags \cup {"BUSY", "INVAL"}

(* allocbuf() does that when it shrinks a buffer.                          *)
LEMMA ShrinkIs ==
  ASSUME Order, NEW p \in Proc, NEW tp \in Buf, held[p] = tp, want[p] \in Block,
         Shrink(p), free["EMPTY"] # <<>>, ~UNCHANGED state
  PROVE  \E S, ep : /\ GaveAway(S, tp, ep, SizeOf[want[p]])
                    /\ Becomes(Brelse(S, ep))
<1> DEFINE size == SizeOf[want[p]]
           ep == Head(free["EMPTY"])
<1>1. /\ Typed /\ Apart(free) /\ Shrink(p)
      /\ free["EMPTY"] # <<>> /\ ~UNCHANGED state
  BY DEF Order
<1>2. held[p] = tp
  OBVIOUS
<1>3. On(free, tp) = {}
  BY <1>2, HeldIs, BufCacheAssumption
<1>4. size \in Nat /\ size > 0 /\ buf[tp].size \in Nat /\ buf[tp].size > size
  <2>1. size \in Nat /\ size > 0
    BY BufCacheAssumption
  <2>2. buf[tp].size \in Nat
    BY <1>1, NowIs
  <2>3. buf[tp].size > size
    BY <1>1, <1>2, Zenon DEF Shrink
  <2>. QED  BY <2>1, <2>2, <2>3
<1> DEFINE n == buf[tp].size - size
           R == Bremfree(Now, ep)
           R1 == [R EXCEPT !.buf[ep].size = n]
           R2 == SetFlags(R1, ep, {}, {})
           f == R1.buf[ep].flags \cup {"BUSY", "INVAL"}
           R3 == SetFlags(R1, ep, {"BUSY", "INVAL"}, {})
           S == [R3 EXCEPT !.buf[tp].size = size]
<1>5. /\ ep \in Buf /\ ep \in ToSet(free["EMPTY"])
  <2> DEFINE s == free["EMPTY"]
  <2>1. s \in Seq(Buf) /\ s # <<>> /\ IsInjective(s)
    BY <1>1, NowIs DEF Queues, Apart
  <2>2. ep = Head(s)
    OBVIOUS
  <2> HIDE DEF s, ep
  <2>3. Head(s) \in Buf /\ Head(s) \in ToSet(s)
    BY <2>1, TakeFirst
  <2>. QED  BY <2>2, <2>3 DEF s
<1>6. Becomes(Brelse(S, ep))
  <2> DEFINE both == [R EXCEPT !.buf[ep].size = buf[held[p]].size - size,
                        !.buf[ep].flags = @ \cup {"BUSY", "INVAL"},
                        !.buf[held[p]].size = size]
  <2>1. Becomes(Brelse(both, ep))
    BY <1>1, <1>2, Zenon DEF Shrink
  <2>2. both = [[R1 EXCEPT !.buf[ep].flags = @ \cup {"BUSY", "INVAL"}]
                  EXCEPT !.buf[tp].size = size]
    <3> DEFINE here == [R EXCEPT !.buf[ep].size = n,
                          !.buf[ep].flags = @ \cup {"BUSY", "INVAL"},
                          !.buf[tp].size = size]
    <3>1. buf[held[p]].size - size = n
      BY <1>2
    <3>2. both = here
      <4> HIDE DEF R, n, size, ep
      <4>. QED  BY <1>2, <3>1, Zenon
    <3>3. here = [[R1 EXCEPT !.buf[ep].flags = @ \cup {"BUSY", "INVAL"}]
                    EXCEPT !.buf[tp].size = size]
      <4> HIDE DEF R, n, size, ep
      <4>. QED  OBVIOUS
    <3> HIDE DEF both, here
    <3>. QED  BY <3>2, <3>3
  <2>3. R3 = [R1 EXCEPT !.buf[ep].flags = @ \cup {"BUSY", "INVAL"}]
    <3> HIDE DEF R1
    <3>1. \A g : (g \ {}) \cup {"BUSY", "INVAL"} = g \cup {"BUSY", "INVAL"}
      OBVIOUS
    <3>. QED  BY <3>1 DEF SetFlags
  <2>4. both = S
    <3> HIDE DEF both, R1, R3
    <3>. QED  BY <2>2, <2>3
  <2> HIDE DEF both, S
  <2>. QED  BY <2>1, <2>4
<1> HIDE DEF ep, R3
<1>7. /\ ep # tp /\ "BUSY" \notin buf[ep].flags /\ buf[ep].size = 0
  <2>1. BufOK(ep) /\ "EMPTY" \in On(free, ep)
    BY <1>5 DEF Order, On, Queues
  <2>. QED  BY <1>3, <2>1 DEF BufOK, Fit
<1>8. Unlisted(Now, R, ep)
  BY <1>1, <1>5, NowIs, BremfreeIs
<1> HIDE DEF R
<1>9. /\ R \in StateRec /\ Apart(R.free) /\ R.buf = buf /\ R.need = need
      /\ R.slp = slp
      /\ \A q \in Queues : ToSet(R.free[q]) = ToSet(free[q]) \ {ep}
  BY <1>1, <1>8, NowIs DEF Unlisted
<1>10. n \in Nat
  BY <1>4
<1> HIDE DEF n
<1>11. /\ R1 \in StateRec /\ R1.free = R.free /\ R1.need = R.need
       /\ R1.slp = R.slp
       /\ \A x \in Buf \ {ep} : R1.buf[x] = R.buf[x]
       /\ R1.buf[ep].size = n /\ R1.buf[ep].flags = R.buf[ep].flags
       /\ R1.buf[ep].block = R.buf[ep].block
  BY <1>5, <1>9, <1>10, Resized
<1> HIDE DEF R1
<1>12. Flagged(R1, R3, ep, f)
  <2>1. {"BUSY", "INVAL"} \in SUBSET Flags
    BY DEF Flags
  <2>2. (R1.buf[ep].flags \ {}) \cup {"BUSY", "INVAL"} = f
    OBVIOUS
  <2> HIDE DEF f
  <2>3. Flagged(R1, R3, ep, (R1.buf[ep].flags \ {}) \cup {"BUSY", "INVAL"})
    BY <1>5, <1>11, <2>1, SetFlagsIs DEF R3
  <2>. QED  BY <2>2, <2>3
<1>13. R3 \in StateRec /\ size \in Nat
  BY <1>4, <1>12 DEF Flagged
<1> HIDE DEF size
<1>14. /\ S \in StateRec /\ S.free = R3.free /\ S.need = R3.need
       /\ S.slp = R3.slp
       /\ \A x \in Buf \ {tp} : S.buf[x] = R3.buf[x]
       /\ S.buf[tp].size = size /\ S.buf[tp].flags = R3.buf[tp].flags
       /\ S.buf[tp].block = R3.buf[tp].block
       /\ S.buf[tp].data = R3.buf[tp].data
  BY <1>13, Resized
<1> HIDE DEF S
<1>15. /\ Apart(S.free) /\ S.need = need /\ S.slp = slp
       /\ \A q \in Queues : ToSet(S.free[q]) = ToSet(free[q]) \ {ep}
       /\ \A z \in Buf \ {ep, tp} : S.buf[z] = buf[z]
       /\ S.buf[tp].flags = buf[tp].flags /\ S.buf[tp].block = buf[tp].block
       /\ S.buf[tp].data = buf[tp].data
       /\ S.buf[ep].size = n /\ S.buf[ep].block = buf[ep].block
       /\ S.buf[ep].flags = buf[ep].flags \cup {"BUSY", "INVAL"}
  <2>1. f = buf[ep].flags \cup {"BUSY", "INVAL"}
    BY <1>9, <1>11
  <2> HIDE DEF f, n
  <2>3. /\ R3.free = R1.free /\ R3.need = R1.need /\ R3.slp = R1.slp
        /\ \A x \in Buf \ {ep} : R3.buf[x] = R1.buf[x]
        /\ R3.buf[ep].size = R1.buf[ep].size
        /\ R3.buf[ep].block = R1.buf[ep].block /\ R3.buf[ep].flags = f
    BY <1>12 DEF Flagged
  <2>2. /\ \A z \in Buf \ {ep, tp} : S.buf[z] = buf[z]
        /\ S.buf[tp].flags = buf[tp].flags /\ S.buf[tp].block = buf[tp].block
        /\ S.buf[tp].data = buf[tp].data
        /\ S.buf[ep] = R3.buf[ep]
    BY <1>5, <1>7, <1>9, <1>11, <1>14, <2>3
  <2>. QED  BY <1>9, <1>11, <1>14, <2>1, <2>2, <2>3
<1>16. GaveAway(S, tp, ep, size)
  BY <1>5, <1>7, <1>14, <1>15 DEF GaveAway, n
<1>. QED  BY <1>6, <1>16 DEF size

(* allocbuf() gives the excess away.                                       *)
LEMMA ShrinkOrder ==
  ASSUME Order, NEW p \in Proc, Runs(p, "alloc"), Shrink(p),
         UNCHANGED <<disk, content, seen>>
  PROVE  Order'
<1>1. /\ Typed /\ Apart(free) /\ HoldOK(p) /\ pc[p] = "alloc" /\ slp[p] = None
  BY DEF Order, Runs
<1>2. held[p] # None
  BY <1>1 DEF HoldOK
<1>3. PICK tp \in Buf : held[p] = tp
  BY <1>1, <1>2 DEF Typed, LocalTyped
<1> DEFINE size == SizeOf[want[p]]
<1>4. /\ want[p] \in Block /\ On(free, tp) = {}
      /\ Holds("alloc", want[p], buf[tp], tp \in io)
  BY <1>1, <1>2, <1>3, HeldIs
<1>5. size \in Nat /\ size > 0 /\ buf[tp].size \in Nat /\ buf[tp].size > size
  BY <1>1, <1>3, <1>4, NowIs, BufCacheAssumption DEF Shrink
<1>6. /\ Goto(p, "got") /\ cpu' = p /\ UNCHANGED <<io, want, how, held>>
  BY DEF Shrink
<1>7. CASE UNCHANGED state
  <2>1. Holds("got", want[p], buf[held[p]], held[p] \in io)
    BY <1>3, <1>4, <1>5 DEF Holds
  <2>2. /\ "got" \in Places /\ cpu' \in Proc \cup {None}
        /\ seen' \in [Proc -> Val \cup {None}]
    BY <1>1, <1>6 DEF Places, Typed, LocalTyped
  <2>. QED  BY <1>1, <1>2, <1>6, <1>7, <2>1, <2>2, WentOn
<1>8. CASE free["EMPTY"] # <<>> /\ ~UNCHANGED state
  <2>1. PICK S, ep : GaveAway(S, tp, ep, size) /\ Becomes(Brelse(S, ep))
    BY <1>3, <1>4, <1>8, ShrinkIs
  <2>2. /\ ep \in Buf /\ ep # tp /\ "BUSY" \notin buf[ep].flags
        /\ S \in StateRec /\ Apart(S.free) /\ S.need = need /\ S.slp = slp
        /\ \A q \in Queues : ToSet(S.free[q]) = ToSet(free[q]) \ {ep}
        /\ \A z \in Buf \ {ep, tp} : S.buf[z] = buf[z]
        /\ S.buf[tp].flags = buf[tp].flags /\ S.buf[tp].block = buf[tp].block
    BY <2>1 DEF GaveAway
  <2>3. "DELWRI" \in S.buf[ep].flags => S.buf[ep].block # None
    <3>1. BufOK(ep)
      BY <2>2 DEF Order
    <3>. QED  BY <2>1, <3>1 DEF GaveAway, BufOK, Fit
  <2>4. S.buf[ep].size + S.buf[tp].size = buf[ep].size + buf[tp].size
    BY <1>5, <2>1 DEF GaveAway
  <2>5. pc' = [pc EXCEPT ![p] = "got"] /\ S.buf[tp].size > 0
    BY <1>5, <1>6, <2>1 DEF Goto, GaveAway
  <2>6. Exchanged(S, ep, tp)
    BY <2>2, <2>3, <2>4 DEF Exchanged
  <2>. QED  BY <1>1, <1>3, <1>6, <2>1, <2>2, <2>5, <2>6, PagesMoved
<1>9. free["EMPTY"] = <<>> => UNCHANGED state
  BY DEF Shrink
<1>. QED  BY <1>7, <1>8, <1>9

(* allocbuf() takes the pages of others.                                   *)
LEMMA GrowOrder ==
  ASSUME Order, NEW p \in Proc, Runs(p, "alloc"), Grow(p),
         UNCHANGED <<disk, content, seen>>
  PROVE  Order'
<1>1. /\ Typed /\ Apart(free) /\ HoldOK(p) /\ pc[p] = "alloc" /\ slp[p] = None
  BY DEF Order, Runs
<1>2. held[p] # None
  BY <1>1 DEF HoldOK
<1>3. PICK tp \in Buf : held[p] = tp
  BY <1>1, <1>2 DEF Typed, LocalTyped
<1>4. want[p] \in Block /\ On(free, tp) = {}
  BY <1>1, <1>2, <1>3, HeldIs
<1>5. ASSUME Candidates = {}, GetnewbufNone(p, "alloc")
      PROVE  Order'
  BY <1>1, <1>5, NoneOrder
<1>6. ASSUME NEW bp \in Candidates, "DELWRI" \in buf[bp].flags,
             GetnewbufDirty(p, bp)
      PROVE  Order'
  BY <1>1, <1>6, DirtyOrder
<1>7. ASSUME NEW bp \in Candidates, "DELWRI" \notin buf[bp].flags,
             Becomes(Brelse(TakePages(p, bp), bp)), cpu' = p,
             UNCHANGED <<io, local>>
      PROVE  Order'
  <2> DEFINE S == TakePages(p, bp)
  <2>1. bp \in Buf /\ On(free, bp) # {} /\ bp # tp
    BY <1>1, <1>4, <1>7, CandidateIs
  <2>2. "BUSY" \notin buf[bp].flags
    <3>1. BufOK(bp)
      BY <2>1 DEF Order
    <3>. QED  BY <2>1, <3>1 DEF BufOK, Fit
  <2>3. buf[tp].size < SizeOf[want[p]]
    BY <1>3 DEF Grow
  <2>4. /\ S \in StateRec /\ Apart(S.free) /\ S.need = need /\ S.slp = slp
        /\ \A q \in Queues : ToSet(S.free[q]) = ToSet(free[q]) \ {bp}
        /\ \A z \in Buf \ {bp, tp} : S.buf[z] = buf[z]
        /\ S.buf[tp].flags = buf[tp].flags
        /\ S.buf[tp].block = buf[tp].block
        /\ S.buf[bp].flags \subseteq {"BUSY", "INVAL"}
        /\ S.buf[bp].size + S.buf[tp].size = buf[bp].size + buf[tp].size
    BY <1>1, <1>3, <1>4, <2>1, <2>3, TakePagesIs
  <2>5. Becomes(Brelse(S, bp))
    BY <1>7
  <2> HIDE DEF S
  <2>6. "DELWRI" \in S.buf[bp].flags => S.buf[bp].block # None
    BY <2>4
  <2>7. pc' = [pc EXCEPT ![p] = "alloc"] /\ UNCHANGED <<io, want, how, held>>
    BY <1>1, <1>7 DEF Typed, LocalTyped, local
  <2>8. Exchanged(S, bp, tp)
    BY <2>4, <2>6 DEF Exchanged
  <2>. QED  BY <1>1, <1>3, <1>7, <2>1, <2>2, <2>5, <2>7, <2>8, PagesMoved
<1>. QED  BY <1>5, <1>6, <1>7 DEF Grow

(* allocbuf().                                                             *)
LEMMA AllocbufOrder ==
  ASSUME Order, NEW p \in Proc, Allocbuf(p)
  PROVE  Order'
<1>1. /\ Runs(p, "alloc") /\ pc[p] = "alloc" /\ slp[p] = None
      /\ UNCHANGED <<disk, content, seen>>
  BY DEF Allocbuf, Runs
<1>2. ASSUME buf[held[p]].size = SizeOf[want[p]], Goto(p, "got"), cpu' = p,
             UNCHANGED <<state, io, want, how, held>>
      PROVE  Order'
  <2>1. Typed /\ HoldOK(p)
    BY DEF Order
  <2>2. held[p] # None
    BY <1>1, <2>1 DEF HoldOK
  <2>3. /\ want[p] \in Block
        /\ Holds("alloc", want[p], buf[held[p]], held[p] \in io)
    BY <1>1, <2>2, HeldIs
  <2>4. Holds("got", want[p], buf[held[p]], held[p] \in io)
    <3>1. SizeOf[want[p]] \in Nat \ {0}
      BY <2>3, BufCacheAssumption
    <3>. QED  BY <1>2, <2>3, <3>1 DEF Holds
  <2>5. /\ "got" \in Places /\ cpu' \in Proc \cup {None}
        /\ seen' \in [Proc -> Val \cup {None}]
    BY <1>1, <1>2, <2>1 DEF Places, Typed, LocalTyped
  <2>. QED  BY <1>1, <1>2, <2>2, <2>4, <2>5, WentOn
<1>. QED  BY <1>1, <1>2, ShrinkOrder, GrowOrder DEF Allocbuf

(* A release of a buffer that has not changed.                             *)
LEMMA PlainRelease ==
  ASSUME Order, NEW p \in Proc, held[p] # None, held[p] \notin io,
         slp[p] = None, Becomes(Brelse(Now, held[p])), Leave(p),
         UNCHANGED <<io, disk, content>>
  PROVE  Order'
<1>1. PICK bp \in Buf : held[p] = bp
  BY HeldIs
<1>2. Typed
  BY DEF Order
<1>3. /\ Now \in StateRec /\ Now.buf = buf /\ Now.free = free
      /\ Now.need = need /\ Now.slp = slp
      /\ disk' \in [Block -> Val] /\ content' \in [Block -> Val] /\ io' = io
  BY <1>2, NowIs DEF Typed, LocalTyped
<1>4. Becomes(Brelse(Now, bp)) /\ bp \notin io
  BY <1>1
<1>. QED  BY <1>1, <1>3, <1>4, GivenUp

(* The holder releases its buffer.                                         *)
LEMMA ReleaseOrder ==
  ASSUME Order, NEW p \in Proc, Release(p) \/ BwriteDone(p)
  PROVE  Order'
<1>1. /\ pc[p] \in {"use", "bwrite"} /\ slp[p] = None
      /\ pc[p] = "bwrite" => "DONE" \in buf[held[p]].flags
      /\ Becomes(Brelse(Now, held[p])) /\ Leave(p)
      /\ UNCHANGED <<io, disk, content>>
  BY DEF Release, BwriteDone, Runs
<1>2. held[p] # None
  BY <1>1 DEF Order, HoldOK
<1>3. held[p] \notin io
  BY <1>1, <1>2, HeldIs DEF Holds
<1>. QED  BY <1>1, <1>2, <1>3, PlainRelease

(* The buffer of p goes to the driver, for a read or a write: it keeps     *)
(* the buffer and waits, or it leaves and the I/O is asynchronous.         *)
LEMMA HandedOver ==
  ASSUME Order, NEW p \in Proc, NEW bp \in Buf, held[p] = bp,
         pc[p] \in {"got", "use"}, NEW T \in StateRec, Becomes(T),
         T.free = free, T.need = need,
         \A x \in Buf \ {bp} : T.buf[x] = buf[x],
         T.buf[bp].size = buf[bp].size, T.buf[bp].block = buf[bp].block,
         "WANTED" \in buf[bp].flags => "WANTED" \in T.buf[bp].flags,
         "BUSY" \in T.buf[bp].flags, "INVAL" \notin T.buf[bp].flags,
         T.buf[bp].flags \cap {"DONE", "DELWRI", "ERROR"} = {},
         io' = io \cup {bp},
         disk' \in [Block -> Val], content' \in [Block -> Val],
         \/ /\ Leave(p) /\ T.slp = slp /\ slp[p] = None
            /\ "ASYNC" \in T.buf[bp].flags
         \/ \E place \in {"biowait", "bwrite"} :
              /\ Goto(p, place) /\ cpu' = None /\ UNCHANGED <<want, how, held>>
              /\ seen' \in [Proc -> Val \cup {None}]
              /\ T.slp = [slp EXCEPT ![p] = bp]
              /\ "ASYNC" \notin T.buf[bp].flags
              /\ place = "biowait" => "READ" \in T.buf[bp].flags
              /\ place = "bwrite" => "READ" \notin T.buf[bp].flags
  PROVE  Order'
<1> DEFINE P == {p}
           Went ==
             /\ \A r \in Proc \ {p} :
                  /\ pc'[r] = pc[r] /\ want'[r] = want[r] /\ held'[r] = held[r]
                  /\ T.slp[r] = slp[r]
             /\ \/ /\ pc'[p] = "idle" /\ want'[p] = None /\ held'[p] = None
                   /\ T.slp[p] = None /\ "ASYNC" \in T.buf[bp].flags
                \/ /\ pc'[p] \in {"biowait", "bwrite"} /\ want'[p] = want[p]
                   /\ held'[p] = bp /\ T.slp[p] = bp
                   /\ "ASYNC" \notin T.buf[bp].flags
                   /\ pc'[p] = "biowait" => "READ" \in T.buf[bp].flags
                   /\ pc'[p] = "bwrite" => "READ" \notin T.buf[bp].flags
<1>1. /\ Typed /\ HoldersApart /\ Apart(free) /\ PagesKept /\ bp # None
  BY BufCacheAssumption DEF Order
<1>2. /\ On(free, bp) = {} /\ buf[bp].block # None /\ want[p] \in Block
      /\ buf[bp].block = want[p]
      /\ \A r \in Proc \ {p} : held[r] # bp
      /\ buf[bp].size > 0 /\ bp \notin io /\ "BUSY" \in buf[bp].flags
  BY <1>1, HeldIs DEF Holds
<1>3. buf' = T.buf /\ free' = free /\ need' = need /\ slp' = T.slp
  BY DEF Becomes
<1>4. LocalTyped' /\ io' \subseteq Buf
  <2>1. CASE Leave(p)
    BY <1>1, <2>1, LeaveTyped DEF Typed, LocalTyped
  <2>2. CASE ~Leave(p)
    BY <1>1, <2>2 DEF Typed, LocalTyped, Goto, Places
  <2>3. io' \subseteq Buf
    BY <1>1 DEF Typed
  <2>. QED  BY <2>1, <2>2, <2>3
<1>5. Went
  <2>1. CASE Leave(p) /\ T.slp = slp /\ slp[p] = None /\ "ASYNC" \in T.buf[bp].flags
    BY <1>1, <2>1, LeaveTyped
  <2>2. ASSUME NEW place \in {"biowait", "bwrite"},
               Goto(p, place), UNCHANGED <<want, how, held>>,
               T.slp = [slp EXCEPT ![p] = bp],
               "ASYNC" \notin T.buf[bp].flags,
               place = "biowait" => "READ" \in T.buf[bp].flags,
               place = "bwrite" => "READ" \notin T.buf[bp].flags
        PROVE  Went
    <3>1. /\ pc'[p] = place /\ \A r \in Proc \ {p} : pc'[r] = pc[r]
          /\ T.slp[p] = bp /\ \A r \in Proc \ {p} : T.slp[r] = slp[r]
      BY <1>1, <2>2, NowIs DEF Goto, Typed, LocalTyped
    <3>. QED  BY <2>2, <3>1
  <2>. QED  BY <2>1, <2>2
<1>6. BufOK(bp)'
  <2>1. Fit(T.buf[bp], {}, TRUE)
    BY <1>2 DEF Fit
  <2>2. "ASYNC" \in T.buf[bp].flags \/ \E r \in Proc : held'[r] = bp
    BY <1>5
  <2>. QED  BY <1>2, <1>3, <2>1, <2>2 DEF BufOK, Fit
<1>7. HoldOK(p)'
  BY <1>1, <1>2, <1>3, <1>5 DEF HoldOK, Holds
<1>8. Awaited(bp)' \/ \A r \in Proc \ P : T.slp[r] # bp
  <2>1. SUFFICES ASSUME NEW r \in Proc, slp[r] = bp
                 PROVE  Awaited(bp)'
    BY <1>5
  <2>2. Awaited(bp)
    BY <2>1 DEF Order, SleepOK
  <2>. QED  BY <1>2, <1>3, <2>2 DEF Awaited
<1>9. SleepOK(p)'
  <2>1. CASE T.slp[p] = None
    BY <1>3, <2>1, BufCacheAssumption DEF SleepOK
  <2>2. CASE T.slp[p] = bp /\ "ASYNC" \notin T.buf[bp].flags
    BY <1>3, <2>2, BufCacheAssumption DEF SleepOK, Awaited
  <2>. QED  BY <1>5, <2>1, <2>2
<1>10. /\ P \in SUBSET Proc
       /\ \A r \in Proc \ P : T.slp[r] \in {slp[r], None}
       /\ \A r \in P : SleepOK(r)'
       /\ \A r \in Proc \ P :
           pc'[r] = pc[r] /\ want'[r] = want[r] /\ held'[r] = held[r]
       /\ \A r \in P : held[r] # None => held[r] = bp \/ held'[r] = held[r]
       /\ \A r \in P, q \in Proc : q # r /\ held'[r] # None => held'[q] # held'[r]
       /\ \A r \in Proc : r \in P \/ held[r] = bp => HoldOK(r)'
       /\ On(T.free, bp) \subseteq On(free, bp) /\ (need => T.need)
       /\ \A x \in Buf \ {bp} : /\ T.buf[x] = buf[x]
                                /\ On(T.free, x) = On(free, x)
                                /\ x \in io' <=> x \in io
       /\ Apart(T.free)
  BY <1>1, <1>2, <1>5, <1>7, <1>9
<1> HIDE DEF P
<1>. QED  BY <1>4, <1>6, <1>8, <1>10, OneChanged

(* getblk() has returned.                                                  *)
LEMMA GotOrder ==
  ASSUME Order, NEW p \in Proc, Got(p)
  PROVE  Order'
<1>1. /\ Typed /\ Apart(free) /\ HoldOK(p) /\ pc[p] = "got" /\ slp[p] = None
      /\ UNCHANGED <<disk, content>>
      /\ disk' \in [Block -> Val] /\ content' \in [Block -> Val]
  BY DEF Order, Got, Runs, Typed, LocalTyped
<1>2. held[p] # None
  BY <1>1 DEF HoldOK
<1>3. PICK bp \in Buf : held[p] = bp
  BY <1>2, HeldIs
<1>4. /\ bp \notin io /\ "ERROR" \notin buf[bp].flags
      /\ "BUSY" \in buf[bp].flags /\ "INVAL" \notin buf[bp].flags
      /\ "ASYNC" \notin buf[bp].flags
      /\ Holds("got", want[p], buf[bp], bp \in io)
  BY <1>1, <1>2, <1>3, HeldIs DEF Holds
<1>5. CASE Use(p) /\ UNCHANGED <<state, io>>
  <2>1. "use" \in Places /\ "use" \notin {"idle", "getblk", "newbuf"}
    BY DEF Places
  <2>2. Holds("use", want[p], buf[held[p]], held[p] \in io)
    BY <1>3, <1>4 DEF Holds
  <2>3. cpu' \in Proc \cup {None} /\ seen' \in [Proc -> Val \cup {None}]
    BY <1>1, <1>3, <1>5, NowIs DEF Use, Typed, LocalTyped
  <2>4. Goto(p, "use") /\ UNCHANGED <<want, how, held>>
    BY <1>5 DEF Use
  <2>. QED  BY <1>1, <1>2, <1>5, <2>1, <2>2, <2>3, <2>4, WentOn
<1>6. CASE /\ how[p] = "bread" /\ ~Filled(bp)
           /\ Becomes(Sleep(SetFlags(Now, bp, {"READ"}, {}), p, bp))
           /\ io' = io \cup {bp}
           /\ Goto(p, "biowait") /\ cpu' = None
           /\ UNCHANGED <<want, how, held, seen>>
  <2> DEFINE S == SetFlags(Now, bp, {"READ"}, {})
             T == Sleep(S, p, bp)
             f == buf[bp].flags \cup {"READ"}
  <2>1. Flagged(Now, S, bp, f)
    <3>1. {"READ"} \in SUBSET Flags /\ f = (Now.buf[bp].flags \ {}) \cup {"READ"}
      BY DEF Flags, Now
    <3>2. Now \in StateRec
      BY <1>1, NowIs
    <3> HIDE DEF f, S
    <3>. QED  BY <3>1, <3>2, SetFlagsIs DEF S
  <2>2. Becomes(T)
    BY <1>6
  <2> HIDE DEF S, f
  <2>3. Slept(S, T, [slp EXCEPT ![p] = bp])
    <3>1. S \in StateRec /\ S.slp = slp
      BY <1>1, <2>1, NowIs DEF Flagged
    <3>2. Slept(S, T, [S.slp EXCEPT ![p] = bp])
      BY <3>1, SleepIs
    <3>. QED  BY <3>1, <3>2
  <2> HIDE DEF T
  <2>4. /\ T \in StateRec /\ T.free = free /\ T.need = need
        /\ T.slp = [slp EXCEPT ![p] = bp]
        /\ \A x \in Buf \ {bp} : T.buf[x] = buf[x]
        /\ T.buf[bp].flags = f /\ T.buf[bp].block = buf[bp].block
        /\ T.buf[bp].size = buf[bp].size
    BY <1>1, <2>1, <2>3, NowIs DEF Flagged, Slept
  <2>5. /\ "WANTED" \in buf[bp].flags => "WANTED" \in f
        /\ "BUSY" \in f /\ "INVAL" \notin f /\ "ASYNC" \notin f /\ "READ" \in f
        /\ f \cap {"DONE", "DELWRI", "ERROR"} = {}
    BY <1>4, <1>6 DEF f, Filled
  <2>6. seen' \in [Proc -> Val \cup {None}]
    BY <1>1, <1>6 DEF Typed, LocalTyped
  <2>7. \E place \in {"biowait", "bwrite"} :
          /\ Goto(p, place) /\ cpu' = None /\ UNCHANGED <<want, how, held>>
          /\ seen' \in [Proc -> Val \cup {None}]
          /\ T.slp = [slp EXCEPT ![p] = bp]
          /\ "ASYNC" \notin T.buf[bp].flags
          /\ place = "biowait" => "READ" \in T.buf[bp].flags
          /\ place = "bwrite" => "READ" \notin T.buf[bp].flags
    BY <1>6, <2>4, <2>5, <2>6
  <2>. QED  BY <1>1, <1>3, <1>6, <2>2, <2>4, <2>5, <2>7, HandedOver
<1>7. CASE Becomes(Brelse(Now, bp)) /\ Leave(p) /\ UNCHANGED io
  BY <1>1, <1>2, <1>3, <1>4, <1>7, PlainRelease
<1>8. CASE /\ ~Filled(bp)
           /\ Becomes(SetFlags(Now, bp, {"READ", "ASYNC"}, {}))
           /\ io' = io \cup {bp} /\ Leave(p)
  <2> DEFINE T == SetFlags(Now, bp, {"READ", "ASYNC"}, {})
             f == buf[bp].flags \cup {"READ", "ASYNC"}
  <2>1. Flagged(Now, T, bp, f)
    <3>1. /\ {"READ", "ASYNC"} \in SUBSET Flags
          /\ f = (Now.buf[bp].flags \ {}) \cup {"READ", "ASYNC"}
      BY DEF Flags, Now
    <3>2. Now \in StateRec
      BY <1>1, NowIs
    <3> HIDE DEF f, T
    <3>. QED  BY <3>1, <3>2, SetFlagsIs DEF T
  <2>2. Becomes(T)
    BY <1>8
  <2> HIDE DEF T, f
  <2>3. /\ T \in StateRec /\ T.free = free /\ T.need = need /\ T.slp = slp
        /\ \A x \in Buf \ {bp} : T.buf[x] = buf[x]
        /\ T.buf[bp].flags = f /\ T.buf[bp].block = buf[bp].block
        /\ T.buf[bp].size = buf[bp].size
    BY <1>1, <2>1, NowIs DEF Flagged
  <2>4. /\ "WANTED" \in buf[bp].flags => "WANTED" \in f
        /\ "BUSY" \in f /\ "INVAL" \notin f /\ "ASYNC" \in f
        /\ f \cap {"DONE", "DELWRI", "ERROR"} = {}
    BY <1>4, <1>8 DEF f, Filled
  <2>. QED  BY <1>1, <1>3, <1>8, <2>2, <2>3, <2>4, HandedOver
<1>9. \/ Use(p) /\ UNCHANGED <<state, io>>
      \/ /\ how[p] = "bread" /\ ~Filled(bp)
         /\ Becomes(Sleep(SetFlags(Now, bp, {"READ"}, {}), p, bp))
         /\ io' = io \cup {bp}
         /\ Goto(p, "biowait") /\ cpu' = None
         /\ UNCHANGED <<want, how, held, seen>>
      \/ Becomes(Brelse(Now, bp)) /\ Leave(p) /\ UNCHANGED io
      \/ /\ ~Filled(bp)
         /\ Becomes(SetFlags(Now, bp, {"READ", "ASYNC"}, {}))
         /\ io' = io \cup {bp} /\ Leave(p)
  BY <1>3, Zenon DEF Got
<1>. QED  BY <1>5, <1>6, <1>7, <1>8, <1>9

(* bread() after biowait().                                                *)
LEMMA ReadOrder ==
  ASSUME Order, NEW p \in Proc, Read(p)
  PROVE  Order'
<1>1. /\ Typed /\ HoldOK(p) /\ pc[p] = "biowait" /\ slp[p] = None
      /\ "DONE" \in buf[held[p]].flags /\ UNCHANGED <<io, disk, content>>
  BY DEF Order, Read, Runs
<1>2. held[p] # None
  BY <1>1 DEF HoldOK
<1>3. /\ held[p] \notin io /\ held[p] \in Buf
      /\ Holds("biowait", want[p], buf[held[p]], held[p] \in io)
  BY <1>1, <1>2, HeldIs DEF Holds
<1>4. CASE "ERROR" \notin buf[held[p]].flags /\ Use(p) /\ UNCHANGED state
  <2>1. "use" \in Places /\ "use" \notin {"idle", "getblk", "newbuf"}
    BY DEF Places
  <2>2. Holds("use", want[p], buf[held[p]], held[p] \in io)
    BY <1>3, <1>4 DEF Holds
  <2>3. cpu' \in Proc \cup {None} /\ seen' \in [Proc -> Val \cup {None}]
    BY <1>1, <1>3, <1>4, NowIs DEF Use, Typed, LocalTyped
  <2>4. Goto(p, "use") /\ UNCHANGED <<want, how, held>>
    BY <1>4 DEF Use
  <2>. QED  BY <1>1, <1>2, <1>4, <2>1, <2>2, <2>3, <2>4, WentOn
<1>5. CASE Becomes(Brelse(Now, held[p])) /\ Leave(p)
  BY <1>1, <1>2, <1>3, <1>5, PlainRelease
<1>. QED  BY <1>4, <1>5 DEF Read

(* The writes.                                                             *)
LEMMA WritesOrder ==
  ASSUME Order, NEW p \in Proc, NEW v \in Val,
         Bdwrite(p, v) \/ Bawrite(p, v) \/ Bwrite(p, v)
  PROVE  Order'
<1>1. /\ Typed /\ Apart(free) /\ HoldOK(p) /\ pc[p] = "use" /\ slp[p] = None
  BY DEF Order, Bdwrite, Bawrite, Bwrite, Runs
<1>2. held[p] # None
  BY <1>1 DEF HoldOK
<1>3. PICK bp \in Buf : held[p] = bp
  BY <1>2, HeldIs
<1>4. /\ bp \notin io /\ "ERROR" \notin buf[bp].flags
      /\ "BUSY" \in buf[bp].flags /\ "INVAL" \notin buf[bp].flags
      /\ "ASYNC" \notin buf[bp].flags
  BY <1>1, <1>2, <1>3, HeldIs DEF Holds
<1>5. disk' \in [Block -> Val] /\ content' \in [Block -> Val]
  <2>1. disk' = disk /\ content' = [content EXCEPT ![want[p]] = v]
    BY DEF Bdwrite, Bawrite, Bwrite, Written
  <2>. QED  BY <1>1, <2>1 DEF Typed, LocalTyped
<1> DEFINE F == Fill(Now, bp, v)
           f == buf[bp].flags
<1>6. /\ F \in StateRec /\ F.free = free /\ F.need = need /\ F.slp = slp
      /\ \A x \in Buf \ {bp} : F.buf[x] = buf[x]
      /\ F.buf[bp].data = v /\ F.buf[bp].flags = f
      /\ F.buf[bp].block = buf[bp].block /\ F.buf[bp].size = buf[bp].size
  BY <1>1, NowIs, FillIs
<1>7. CASE Bdwrite(p, v)
  <2> DEFINE D == SetFlags(F, bp, {"DONE", "DELWRI"}, {})
  <2>1. Becomes(Brelse(D, bp)) /\ Leave(p) /\ io' = io
    BY <1>3, <1>7 DEF Bdwrite
  <2> HIDE DEF F, f
  <2>2. Flagged(F, D, bp, (F.buf[bp].flags \ {}) \cup {"DONE", "DELWRI"})
    <3>1. {"DONE", "DELWRI"} \in SUBSET Flags
      BY DEF Flags
    <3>. QED  BY <1>6, <3>1, SetFlagsIs
  <2> HIDE DEF D
  <2>3. /\ D \in StateRec /\ D.free = free /\ D.need = need /\ D.slp = slp
        /\ \A x \in Buf \ {bp} : D.buf[x] = buf[x]
        /\ D.buf[bp].size = buf[bp].size /\ D.buf[bp].block = buf[bp].block
        /\ "WANTED" \in D.buf[bp].flags <=> "WANTED" \in buf[bp].flags
    BY <1>6, <2>2 DEF Flagged, f
  <2>. QED  BY <1>1, <1>3, <1>4, <1>5, <2>1, <2>3, GivenUp
<1>8. CASE Bawrite(p, v)
  <2> DEFINE A == SetFlags(F, bp, {"ASYNC"}, {})
             T == StartWrite(A, bp)
             g == f \cup {"ASYNC"}
  <2>1. Becomes(T) /\ Leave(p) /\ io' = io \cup {bp}
    BY <1>3, <1>8 DEF Bawrite
  <2> HIDE DEF F, f
  <2>2. Flagged(F, A, bp, (F.buf[bp].flags \ {}) \cup {"ASYNC"})
    <3>1. {"ASYNC"} \in SUBSET Flags
      BY DEF Flags
    <3>. QED  BY <1>6, <3>1, SetFlagsIs
  <2> HIDE DEF A
  <2>3. A \in StateRec /\ A.buf[bp].flags = g
    BY <1>6, <2>2 DEF Flagged
  <2> HIDE DEF g
  <2>4. Flagged(A, T, bp, Writing(g))
    BY <2>3, StartWriteIs
  <2> HIDE DEF T
  <2>5. /\ T \in StateRec /\ T.free = free /\ T.need = need /\ T.slp = slp
        /\ \A x \in Buf \ {bp} : T.buf[x] = buf[x]
        /\ T.buf[bp].size = buf[bp].size /\ T.buf[bp].block = buf[bp].block
        /\ T.buf[bp].flags = Writing(g)
    BY <1>6, <2>2, <2>4 DEF Flagged
  <2>6. /\ "WANTED" \in buf[bp].flags => "WANTED" \in Writing(g)
        /\ "BUSY" \in Writing(g) /\ "INVAL" \notin Writing(g)
        /\ "ASYNC" \in Writing(g)
        /\ Writing(g) \cap {"DONE", "DELWRI", "ERROR"} = {}
    BY <1>4 DEF Writing, g, f
  <2>. QED  BY <1>1, <1>3, <1>5, <2>1, <2>5, <2>6, HandedOver
<1>9. CASE Bwrite(p, v)
  <2> DEFINE W == StartWrite(F, bp)
             T == Sleep(W, p, bp)
  <2>1. /\ Becomes(T) /\ io' = io \cup {bp} /\ Goto(p, "bwrite") /\ cpu' = None
        /\ UNCHANGED <<want, how, held>> /\ seen' = [seen EXCEPT ![p] = None]
    BY <1>3, <1>9 DEF Bwrite
  <2> HIDE DEF F, f
  <2>2. Flagged(F, W, bp, Writing(f))
    <3>1. F.buf[bp].flags = f
      BY <1>6
    <3>2. Flagged(F, W, bp, Writing(F.buf[bp].flags))
      BY <1>6, StartWriteIs
    <3>. QED  BY <3>1, <3>2
  <2> HIDE DEF W
  <2>3. Slept(W, T, [slp EXCEPT ![p] = bp])
    <3>1. W \in StateRec /\ W.slp = slp
      BY <1>6, <2>2 DEF Flagged
    <3>2. Slept(W, T, [W.slp EXCEPT ![p] = bp])
      BY <3>1, SleepIs
    <3>. QED  BY <3>1, <3>2
  <2> HIDE DEF T
  <2>4. /\ T \in StateRec /\ T.free = free /\ T.need = need
        /\ T.slp = [slp EXCEPT ![p] = bp]
        /\ \A x \in Buf \ {bp} : T.buf[x] = buf[x]
        /\ T.buf[bp].size = buf[bp].size /\ T.buf[bp].block = buf[bp].block
        /\ T.buf[bp].flags = Writing(f)
    BY <1>6, <2>2, <2>3 DEF Flagged, Slept
  <2>5. /\ "WANTED" \in buf[bp].flags => "WANTED" \in Writing(f)
        /\ "BUSY" \in Writing(f) /\ "INVAL" \notin Writing(f)
        /\ "ASYNC" \notin Writing(f) /\ "READ" \notin Writing(f)
        /\ Writing(f) \cap {"DONE", "DELWRI", "ERROR"} = {}
    BY <1>4 DEF Writing, f
  <2>6. seen' \in [Proc -> Val \cup {None}]
    BY <1>1, <2>1 DEF Typed, LocalTyped
  <2>7. \E place \in {"biowait", "bwrite"} :
          /\ Goto(p, place) /\ cpu' = None /\ UNCHANGED <<want, how, held>>
          /\ seen' \in [Proc -> Val \cup {None}]
          /\ T.slp = [slp EXCEPT ![p] = bp]
          /\ "ASYNC" \notin T.buf[bp].flags
          /\ place = "biowait" => "READ" \in T.buf[bp].flags
          /\ place = "bwrite" => "READ" \notin T.buf[bp].flags
    BY <2>1, <2>4, <2>5, <2>6
  <2>. QED  BY <1>1, <1>3, <1>5, <2>1, <2>4, <2>5, <2>7, HandedOver
<1>. QED  BY <1>7, <1>8, <1>9

(* biodone(), when the driver has made S of the buffer.                    *)
LEMMA CompleteOrder ==
  ASSUME Order, NEW bp \in Buf, bp \in io, NEW S \in StateRec,
         S.free = free, S.need = need, S.slp = slp,
         \A x \in Buf \ {bp} : S.buf[x] = buf[x],
         S.buf[bp].size = buf[bp].size, S.buf[bp].block = buf[bp].block,
         \/ S.buf[bp].flags = buf[bp].flags \cup {"DONE"}
         \/ /\ "READ" \in buf[bp].flags
            /\ S.buf[bp].flags = buf[bp].flags \cup {"DONE", "ERROR"},
         Becomes(Complete(S, bp)), io' = io \ {bp}, disk' \in [Block -> Val],
         UNCHANGED <<local, cpu, content, seen>>
  PROVE  Order'
<1>1. Typed /\ Apart(free) /\ HoldersApart /\ BufOK(bp) /\ bp # None
  BY BufCacheAssumption DEF Order
<1>2. /\ "BUSY" \in buf[bp].flags /\ buf[bp].block # None /\ buf[bp].size > 0
      /\ On(free, bp) = {}
      /\ buf[bp].flags \cap {"DONE", "DELWRI", "ERROR", "INVAL"} = {}
      /\ "ASYNC" \in buf[bp].flags \/ \E p \in Proc : held[p] = bp
  BY <1>1 DEF BufOK, Fit
<1>3. LocalTyped' /\ io' \subseteq Buf /\ UNCHANGED <<pc, want, held>>
  BY <1>1 DEF Typed, LocalTyped, local
<1>4. "ASYNC" \in S.buf[bp].flags <=> "ASYNC" \in buf[bp].flags
  OBVIOUS
<1>5. CASE "ASYNC" \in buf[bp].flags
  <2>1. Becomes(Brelse(S, bp))
    BY <1>4, <1>5 DEF Complete
  <2>2. \A r \in Proc : held[r] # bp
    BY <1>1, <1>5, HeldIs
  <2> DEFINE P == {}
  <2>3. /\ P \in SUBSET Proc
        /\ \A r \in Proc \ P :
             pc'[r] = pc[r] /\ want'[r] = want[r] /\ held'[r] = held[r]
        /\ \A r \in P : held'[r] = None /\ held[r] = bp /\ HoldOK(r)'
        /\ \A r \in Proc : held'[r] # bp
        /\ "WANTED" \in buf[bp].flags => "WANTED" \in S.buf[bp].flags
    BY <1>3, <2>2
  <2> HIDE DEF P
  <2>. QED  BY <1>2, <1>3, <1>5, <2>1, <2>3, Released
<1>6. CASE "ASYNC" \notin buf[bp].flags
  <2> DEFINE R == SetFlags(S, bp, {}, {"WANTED"})
             T == Wakeup(R, bp)
             f == S.buf[bp].flags \ {"WANTED"}
             P == {}
  <2>1. Becomes(T)
    BY <1>4, <1>6 DEF Complete
  <2>2. Flagged(S, R, bp, f)
    <3>1. {} \in SUBSET Flags /\ f = (S.buf[bp].flags \ {"WANTED"}) \cup {}
      OBVIOUS
    <3>2. Flagged(S, R, bp, (S.buf[bp].flags \ {"WANTED"}) \cup {})
      BY <3>1, SetFlagsIs
    <3> HIDE DEF R, f
    <3>. QED  BY <3>1, <3>2
  <2> HIDE DEF R, f
  <2>3. Slept(R, T, [p \in Proc |-> IF slp[p] = bp THEN None ELSE slp[p]])
    <3>1. R \in StateRec /\ R.slp = slp
      BY <2>2 DEF Flagged
    <3>2. Slept(R, T, [p \in Proc |-> IF R.slp[p] = bp THEN None ELSE R.slp[p]])
      BY <3>1, WakeupIs
    <3>. QED  BY <3>1, <3>2
  <2> HIDE DEF T
  <2>4. /\ T \in StateRec /\ T.free = free /\ T.need = need
        /\ T.slp = [p \in Proc |-> IF slp[p] = bp THEN None ELSE slp[p]]
        /\ \A x \in Buf \ {bp} : T.buf[x] = buf[x]
        /\ T.buf[bp].size = buf[bp].size /\ T.buf[bp].block = buf[bp].block
        /\ T.buf[bp].flags = f
    BY <2>2, <2>3 DEF Flagged, Slept
  <2>5. buf' = T.buf /\ free' = free /\ need' = need /\ slp' = T.slp
    BY <2>1, <2>4 DEF Becomes
  <2>6. /\ "BUSY" \in f /\ "WANTED" \notin f /\ "ASYNC" \notin f /\ "DONE" \in f
        /\ f \cap {"DELWRI", "INVAL"} = {}
        /\ "ERROR" \in f => "READ" \in f
        /\ "READ" \in f <=> "READ" \in buf[bp].flags
    BY <1>2, <1>6 DEF f
  <2>7. BufOK(bp)'
    <3>1. Fit(T.buf[bp], {}, FALSE)
      BY <1>2, <2>4, <2>6 DEF Fit
    <3>2. \E p \in Proc : held'[p] = bp
      BY <1>2, <1>3, <1>6
    <3>. QED  BY <1>2, <2>5, <3>1, <3>2 DEF BufOK, Fit
  <2>8. ASSUME NEW r \in Proc, held[r] = bp
        PROVE  HoldOK(r)'
    <3>1. HoldOK(r) /\ pc[r] \in Places
      BY <1>1 DEF Order, Typed, LocalTyped
    <3>2. pc[r] \in {"biowait", "bwrite"} /\ Holds(pc[r], want[r], buf[bp], TRUE)
      BY <1>1, <2>8, <3>1 DEF HoldOK, Holds, Places
    <3>3. Holds(pc[r], want[r], T.buf[bp], FALSE)
      BY <2>4, <2>6, <3>2 DEF Holds
    <3>. QED  BY <1>3, <2>5, <2>8, <3>1, <3>3 DEF HoldOK, Holds
  <2>9. /\ P \in SUBSET Proc
        /\ \A r \in Proc \ P : T.slp[r] \in {slp[r], None}
        /\ \A r \in Proc \ P : T.slp[r] # bp
        /\ \A r \in P : SleepOK(r)'
        /\ \A r \in Proc \ P :
            pc'[r] = pc[r] /\ want'[r] = want[r] /\ held'[r] = held[r]
        /\ \A r \in P : held[r] # None => held[r] = bp \/ held'[r] = held[r]
        /\ \A r \in P, q \in Proc :
             q # r /\ held'[r] # None => held'[q] # held'[r]
        /\ \A r \in Proc : r \in P \/ held[r] = bp => HoldOK(r)'
        /\ On(T.free, bp) \subseteq On(free, bp) /\ (need => T.need)
        /\ \A x \in Buf \ {bp} : /\ T.buf[x] = buf[x]
                                 /\ On(T.free, x) = On(free, x)
                                 /\ x \in io' <=> x \in io
        /\ Apart(T.free)
    BY <1>1, <1>3, <2>4, <2>8
  <2> HIDE DEF P
  <2>. QED  BY <1>3, <2>1, <2>4, <2>7, <2>9, OneChanged
<1>. QED  BY <1>5, <1>6

(* biodone(), whatever the driver has done.                                *)
LEMMA BiodoneOrder ==
  ASSUME Order, NEW bp \in Buf, Biodone(bp)
  PROVE  Order'
<1>1. Typed /\ BufOK(bp)
  BY DEF Order
<1> DEFINE v == disk[buf[bp].block]
           F == Fill(Now, bp, v)
           A == SetFlags(F, bp, {"DONE"}, {})
           B == SetFlags(Now, bp, {"DONE", "ERROR"}, {})
           C == SetFlags(Now, bp, {"DONE"}, {})
           Made(S) == /\ S \in StateRec
                      /\ S.free = free /\ S.need = need /\ S.slp = slp
                      /\ \A x \in Buf \ {bp} : S.buf[x] = buf[x]
                      /\ S.buf[bp].size = buf[bp].size
                      /\ S.buf[bp].block = buf[bp].block
<1>2. /\ bp \in io /\ io' = io \ {bp} /\ UNCHANGED <<local, cpu, content, seen>>
      /\ buf[bp].block \in Block
  BY <1>1, NowIs DEF Biodone, BufOK, Fit
<1>3. v \in Val /\ Now \in StateRec
  BY <1>1, <1>2, NowIs DEF Typed, LocalTyped
<1>4. disk' \in [Block -> Val]
  BY <1>1, <1>2, NowIs DEF Biodone, Typed, LocalTyped
<1>5. {"DONE"} \in SUBSET Flags /\ {"DONE", "ERROR"} \in SUBSET Flags
  BY DEF Flags
<1>6. \/ Becomes(Complete(A, bp))
      \/ "READ" \in buf[bp].flags /\ Becomes(Complete(B, bp))
      \/ Becomes(Complete(C, bp))
  BY Zenon DEF Biodone
<1> HIDE DEF v
<1>7. /\ F \in StateRec /\ F.free = free /\ F.need = need /\ F.slp = slp
      /\ \A x \in Buf \ {bp} : F.buf[x] = buf[x]
      /\ F.buf[bp].flags = buf[bp].flags
      /\ F.buf[bp].block = buf[bp].block /\ F.buf[bp].size = buf[bp].size
  BY <1>1, <1>3, NowIs, FillIs
<1> HIDE DEF F
<1>8. Made(A) /\ A.buf[bp].flags = buf[bp].flags \cup {"DONE"}
  <2>1. Flagged(F, A, bp, (F.buf[bp].flags \ {}) \cup {"DONE"})
    BY <1>5, <1>7, SetFlagsIs
  <2> HIDE DEF A
  <2>. QED  BY <1>7, <2>1 DEF Flagged
<1>9. Made(B) /\ B.buf[bp].flags = buf[bp].flags \cup {"DONE", "ERROR"}
  <2>1. Flagged(Now, B, bp, (Now.buf[bp].flags \ {}) \cup {"DONE", "ERROR"})
    BY <1>3, <1>5, SetFlagsIs
  <2> HIDE DEF B
  <2>. QED  BY <1>1, <2>1, NowIs DEF Flagged
<1>10. Made(C) /\ C.buf[bp].flags = buf[bp].flags \cup {"DONE"}
  <2>1. Flagged(Now, C, bp, (Now.buf[bp].flags \ {}) \cup {"DONE"})
    BY <1>3, <1>5, SetFlagsIs
  <2> HIDE DEF C
  <2>. QED  BY <1>1, <2>1, NowIs DEF Flagged
<1> HIDE DEF A, B, C
<1>. QED  BY <1>2, <1>4, <1>6, <1>8, <1>9, <1>10, CompleteOrder

(* bufinit() puts every buffer on the list, once.                          *)
LEMMA AllListed ==
  ASSUME NEW order \in SetToAllKPermutations(Buf),
         Len(order) = Cardinality(Buf)
  PROVE  order \in Seq(Buf) /\ IsInjective(order) /\ ToSet(order) = Buf
<1>1. PICK s \in SUBSET Buf : order \in SetToSeqs(s)
  BY DEF SetToAllKPermutations
<1> DEFINE n == Cardinality(s)
           D == 1..n
<1>2. /\ order \in [D -> s]
      /\ \A i, j \in D : i # j => order[i] # order[j]
  BY <1>1, Zenon DEF SetToSeqs
<1>3. IsFiniteSet(s) /\ n \in Nat
  BY BufCacheAssumption, FS_Subset, FS_CardinalityType
<1>4. Len(order) = n /\ order \in Seq(s)
  BY <1>2, <1>3
<1>5. s = Buf
  BY <1>4, BufCacheAssumption, FS_Subset
<1>6. order \in Injection(D, s)
  BY <1>2 DEF Injection, IsInjective
<1>7. Cardinality(D) = n /\ IsFiniteSet(D)
  BY <1>3, FS_Interval
<1>8. order \in Surjection(D, s)
  <2>1. Cardinality(D) = Cardinality(s)
    BY <1>7
  <2> HIDE DEF D, n
  <2>2. Cardinality(D) = Cardinality(s) <=> order \in Surjection(D, s)
    BY <1>3, <1>6, FS_Injection, Zenon
  <2>. QED  BY <2>1, <2>2
<1>9. ToSet(order) = s
  <2>1. DOMAIN order = D /\ \A i \in D : order[i] \in s
    BY <1>2
  <2>2. \A x \in s : \E i \in D : order[i] = x
    BY <1>8, Zenon DEF Surjection
  <2>3. ToSet(order) = {order[i] : i \in D}
    BY <2>1 DEF ToSet
  <2>. QED  BY <2>1, <2>2, <2>3
<1>10. IsInjective(order)
  BY <1>2 DEF IsInjective
<1>. QED  BY <1>4, <1>5, <1>9, <1>10

(* bufinit() leaves the cache in order.                                    *)
LEMMA OrderInit == Init => Order
<1>1. SUFFICES ASSUME Init PROVE Order
  OBVIOUS
<1>2. PICK v \in Val :
        /\ disk = [b \in Block |-> v] /\ content = disk
        /\ buf = [bp \in Buf |-> [block |-> None, flags |-> {"INVAL"},
                                  size |-> Pages, data |-> v]]
  BY <1>1 DEF Init
<1>3. PICK order \in SetToAllKPermutations(Buf) :
        /\ Len(order) = Cardinality(Buf)
        /\ free = [q \in {"LRU", "AGE", "EMPTY"} |->
                     IF q = "AGE" THEN order ELSE <<>>]
  BY <1>1 DEF Init
<1>4. /\ need = FALSE /\ io = {} /\ cpu = None
      /\ slp = [p \in Proc |-> None] /\ pc = [p \in Proc |-> "idle"]
      /\ want = [p \in Proc |-> None] /\ how = [p \in Proc |-> "none"]
      /\ held = [p \in Proc |-> None]
      /\ seen = [p \in Proc |-> None]
  BY <1>1 DEF Init
<1>5. order \in Seq(Buf) /\ IsInjective(order) /\ ToSet(order) = Buf
  BY <1>3, AllListed
<1>6. /\ <<>> \in Seq(Buf) /\ IsInjective(<<>>) /\ ToSet(<<>>) = {}
  BY DEF IsInjective, ToSet
<1>7. /\ free \in [Queues -> Seq(Buf)] /\ Apart(free)
      /\ \A bp \in Buf : On(free, bp) = {"AGE"}
  BY <1>3, <1>5, <1>6 DEF Queues, Apart, On
<1>8. Typed
  <2>1. buf \in [Buf -> BufRec]
    BY <1>2, BufCacheAssumption DEF BufRec, Flags
  <2>2. Now \in StateRec
    BY <1>4, <1>7, <2>1 DEF Now, StateRec
  <2>3. LocalTyped
    BY <1>2, <1>4 DEF LocalTyped, Places
  <2>. QED  BY <1>4, <2>2, <2>3 DEF Typed
<1>9. PagesKept
  <2> DEFINE g == [bp \in Buf |-> buf[bp].size]
  <2>1. g = [bp \in Buf |-> Pages]
    BY <1>2
  <2> HIDE DEF g
  <2>2. Pages \in Nat /\ IsFiniteSet(Buf)
    BY BufCacheAssumption
  <2>3. Total(g) = Pages * Cardinality(Buf)
    BY <2>1, <2>2, TotalEqual
  <2>. QED  BY <2>3, Zenon DEF PagesKept, Total, g
<1>10. ASSUME NEW bp \in Buf
       PROVE  BufOK(bp)
  <2>1. /\ buf[bp].block = None /\ buf[bp].flags = {"INVAL"}
        /\ buf[bp].size > 0
    BY <1>2, BufCacheAssumption
  <2>2. Fit(buf[bp], {"AGE"}, FALSE)
    BY <2>1 DEF Fit
  <2>3. On(free, bp) = {"AGE"} /\ ~(bp \in io) /\ "BUSY" \notin buf[bp].flags
    BY <1>4, <1>7, <2>1
  <2>4. (bp \in io) = FALSE
    BY <2>3
  <2>. QED  BY <2>2, <2>3, <2>4 DEF BufOK
<1>11. \A p \in Proc : HoldOK(p) /\ SleepOK(p)
  BY <1>4, BufCacheAssumption DEF HoldOK, SleepOK
<1>. QED  BY <1>4, <1>7, <1>8, <1>9, <1>10, <1>11 DEF Order, HoldersApart

(* Nothing happens.                                                        *)
LEMMA OrderStutter ==
  ASSUME Order, UNCHANGED vars
  PROVE  Order'
<1>1. /\ UNCHANGED <<buf, free, need, slp, io, disk, pc, want, how, held, cpu,
                     content, seen>>
  BY DEF vars, state, local
<1>2. Typed /\ Apart(free) /\ PagesKept
  BY DEF Order
<1>3. Typed'
  BY <1>1, <1>2 DEF Typed, LocalTyped, Now
<1>4. PagesKept'
  BY <1>1, <1>2, SizesSame
<1> DEFINE X == {}
           P == {}
<1>5. /\ X \in SUBSET Buf /\ P \in SUBSET Proc
      /\ \A x \in Buf \ X : buf'[x] = buf[x] /\ On(free', x) = On(free, x)
                              /\ (x \in io' <=> x \in io)
      /\ \A x \in X : BufOK(x)'
      /\ \A x \in X : Awaited(x)' \/ \A r \in Proc \ P : slp'[r] # x
      /\ \A r \in Proc \ P : /\ pc'[r] = pc[r] /\ want'[r] = want[r]
                             /\ held'[r] = held[r]
      /\ \A r \in P : held[r] # None => held[r] \in X \/ held'[r] = held[r]
      /\ \A r \in P, q \in Proc : q # r /\ held'[r] # None => held'[q] # held'[r]
      /\ \A r \in Proc : r \in P \/ held[r] \in X => HoldOK(r)'
      /\ \A r \in Proc \ P : slp'[r] \in {slp[r], None}
      /\ \A r \in P : SleepOK(r)'
      /\ \A x \in Buf : On(free', x) \subseteq On(free, x)
      /\ need => need'
      /\ Apart(free')
  BY <1>1, <1>2
<1> HIDE DEF X, P
<1>6. \A r \in Proc : SleepOK(r)'
  <2>1. Undisturbed(X, P)
    BY <1>5 DEF Undisturbed
  <2>. QED  BY <1>5, <2>1, SleepFramed
<1>. QED  BY <1>3, <1>4, <1>5, <1>6, Framed

(* Every step keeps the cache in order.                                    *)
LEMMA OrderNext == Order /\ [Next]_vars => Order'
<1>1. SUFFICES ASSUME Order, [Next]_vars
               PROVE  Order'
  OBVIOUS
<1>2. ASSUME NEW bp \in Buf, Biodone(bp)
      PROVE  Order'
  BY <1>1, <1>2, BiodoneOrder
<1>3. ASSUME NEW p \in Proc, NEW b \in Block,
             NEW h \in {"bread", "getblk", "ahead"}, Start(p, b, h)
      PROVE  Order'
  BY <1>1, <1>3, StartOrder
<1>4. ASSUME NEW p \in Proc,
             \/ Getblk(p) \/ Newbuf(p) \/ Allocbuf(p) \/ Got(p) \/ Read(p)
             \/ Release(p) \/ BwriteDone(p)
      PROVE  Order'
  BY <1>1, <1>4, GetblkOrder, NewbufOrder, AllocbufOrder, GotOrder, ReadOrder,
     ReleaseOrder
<1>5. ASSUME NEW p \in Proc, NEW v \in Val,
             Bdwrite(p, v) \/ Bawrite(p, v) \/ Bwrite(p, v)
      PROVE  Order'
  BY <1>1, <1>5, WritesOrder
<1>6. CASE UNCHANGED vars
  BY <1>1, <1>6, OrderStutter
<1>. QED  BY <1>1, <1>2, <1>3, <1>4, <1>5, <1>6 DEF Next

(* The invariant is as strong as what the runs check.                      *)
LEMMA OrderShows == Order => FreeListsExact /\ SleepersWillWake
<1>1. SUFFICES ASSUME Order
               PROVE  FreeListsExact /\ SleepersWillWake
  OBVIOUS
<1>2. /\ Typed /\ Apart(free) /\ PagesKept /\ HoldersApart
      /\ \A bp \in Buf : BufOK(bp)
      /\ \A p \in Proc : HoldOK(p) /\ SleepOK(p)
  BY <1>1 DEF Order
<1>3. /\ buf \in [Buf -> BufRec] /\ free \in [Queues -> Seq(Buf)]
      /\ need \in BOOLEAN /\ slp \in [Proc -> Buf \cup {NeedBuffer, None}]
  BY <1>2, NowIs
<1>4. \A q \in Queues : ToSet(free[q]) \subseteq Buf
  BY <1>3 DEF ToSet
<1>5. TypeOK
  <2>1. ASSUME NEW bp \in ToSet(free["LRU"]) \cup ToSet(free["AGE"])
        PROVE  buf[bp].size > 0
    <3>1. bp \in Buf /\ On(free, bp) \cap {"LRU", "AGE"} # {}
      BY <1>4, <2>1 DEF On, Queues
    <3>2. BufOK(bp)
      BY <1>2, <3>1
    <3>. QED  BY <3>1, <3>2 DEF BufOK, Fit
  <2>. QED  BY <1>2, <1>3, <2>1 DEF TypeOK, Typed, LocalTyped, BufRec, Queues
<1>6. ListsExact
  <2> DEFINE all == free["LRU"] \o free["AGE"] \o free["EMPTY"]
  <2>1. /\ IsInjective(all)
        /\ ToSet(all) = ToSet(free["LRU"]) \cup ToSet(free["AGE"])
                          \cup ToSet(free["EMPTY"])
    BY <1>2, <1>3, ApartTogether
  <2> HIDE DEF all
  <2>2. ASSUME NEW bp \in Buf
        PROVE  bp \in ToSet(all) <=> "BUSY" \notin buf[bp].flags
    <3>1. bp \in ToSet(all) <=> On(free, bp) # {}
      BY <2>1 DEF On, Queues
    <3>2. BufOK(bp)
      BY <1>2
    <3>. QED  BY <3>1, <3>2 DEF BufOK, Fit
  <2>3. ToSet(all) \subseteq Buf
    BY <1>4, <2>1 DEF Queues
  <2>. QED  BY <2>1, <2>2, <2>3 DEF ListsExact, all
<1>7. OwnersExact
  <2>1. ASSUME NEW p \in Proc, held[p] # None
        PROVE  {"BUSY", "ASYNC"} \cap buf[held[p]].flags = {"BUSY"}
    BY <1>2, <2>1 DEF HoldOK, Holds
  <2>2. ASSUME NEW bp \in Buf, "BUSY" \in buf[bp].flags
        PROVE  \/ \E p \in Proc : held[p] = bp
               \/ bp \in io /\ "ASYNC" \in buf[bp].flags
    BY <1>2, <2>2 DEF BufOK, Fit
  <2>. QED  BY <1>2, <2>1, <2>2 DEF OwnersExact, HoldersApart
<1>8. ASSUME NEW p \in Proc, slp[p] = NeedBuffer
      PROVE  need /\ free["LRU"] = <<>> /\ free["AGE"] = <<>>
  <2>1. need /\ NoneFree
    BY <1>2, <1>8 DEF SleepOK
  <2>2. ASSUME NEW q \in {"LRU", "AGE"}
        PROVE  free[q] = <<>>
    <3>1. free[q] \in Seq(Buf)
      BY <1>3 DEF Queues
    <3>2. ToSet(free[q]) = {}
      BY <1>4, <2>1 DEF NoneFree, On, Queues
    <3> DEFINE s == free[q]
    <3>3. s \in Seq(Buf) /\ ToSet(s) = {}
      BY <3>1, <3>2
    <3> HIDE DEF s
    <3>4. 1 \in DOMAIN s => s[1] \in ToSet(s)
      BY DEF ToSet
    <3>5. s = <<>>
      BY <3>3, <3>4
    <3>. QED  BY <3>5 DEF s
  <2>. QED  BY <2>1, <2>2
<1>9. SleepersWillWake
  BY <1>2, <1>8 DEF SleepersWillWake, SleepOK, Awaited
<1>. QED  BY <1>2, <1>5, <1>6, <1>7, <1>9 DEF FreeListsExact

(* The buffers that are not busy are on the free lists, each once and on   *)
(* the list that its memory is for; the pages of the cache are what        *)
(* bufinit() gave it, in sum; and a busy buffer belongs to one process or  *)
(* to the I/O that will release it: for any number of processes, buffers   *)
(* and blocks, and also where a strategy routine sleeps.                   *)
THEOREM FreeListsAreExact == Spec => []FreeListsExact
<1>1. Order => FreeListsExact
  BY OrderShows
<1>. QED  BY <1>1, OrderInit, OrderNext, PTL DEF Spec

(* Whoever sleeps in getblk(), getnewbuf() or biowait() has somebody who   *)
(* will wake it.                                                           *)
THEOREM SleepersAreWoken == Spec => []SleepersWillWake
<1>1. Order => SleepersWillWake
  BY OrderShows
<1>. QED  BY <1>1, OrderInit, OrderNext, PTL DEF Spec

-----------------------------------------------------------------------------
(* The cache as a store. A buffer that a write is due of has what was last *)
(* written to its block, and so has one that bread() would not read; where *)
(* the disk does not have it, a buffer does that is due.                   *)

(* The flags that say what a buffer holds.                                 *)
Telling == {"DONE", "DELWRI", "ERROR", "READ"}

Owed(bp) == \/ "DELWRI" \in buf[bp].flags
            \/ bp \in io /\ "READ" \notin buf[bp].flags

DataOK(bp) ==
  buf[bp].block # None =>
    /\ Filled(bp) /\ "ERROR" \notin buf[bp].flags =>
         buf[bp].data = content[buf[bp].block]
    /\ Owed(bp) => buf[bp].data = content[buf[bp].block]

DiskOK(b) ==
  disk[b] # content[b] => \E bp \in Buf : buf[bp].block = b /\ Owed(bp)

Coherent == /\ \A bp \in Buf : DataOK(bp)
            /\ \A b \in Block : DiskOK(b)

(* Nothing is known of the buffer any more, and nothing is due of it.      *)
Blank(bp) == /\ ~Owed(bp)
             /\ \/ buf[bp].block = None
                \/ ~Filled(bp) \/ "ERROR" \in buf[bp].flags

(* A step that leaves a buffer what it is, as far as its data go.          *)
Kept(bp) ==
  /\ buf'[bp].block = buf[bp].block /\ buf'[bp].data = buf[bp].data
  /\ buf'[bp].flags \cap Telling = buf[bp].flags \cap Telling
  /\ bp \in io' <=> bp \in io

(* One that has nothing to do with data keeps them in order.               *)
LEMMA CoherentFramed ==
  ASSUME Coherent, content' = content, disk' = disk, NEW X \in SUBSET Buf,
         \A x \in Buf \ X : Kept(x),
         \A x \in X : /\ Owed(x) => Owed(x)' /\ buf'[x].block = buf[x].block
                      /\ DataOK(x)'
  PROVE  Coherent'
<1>1. ASSUME NEW x \in Buf, Kept(x)
      PROVE  DataOK(x)' /\ (Owed(x) => Owed(x)' /\ buf'[x].block = buf[x].block)
  <2>1. DataOK(x)
    BY DEF Coherent
  <2>2. \A f \in Telling : f \in buf'[x].flags <=> f \in buf[x].flags
    BY <1>1 DEF Kept
  <2>3. /\ (buf'[x].flags \cap {"DONE", "DELWRI"} # {})
             <=> (buf[x].flags \cap {"DONE", "DELWRI"} # {})
        /\ "ERROR" \in buf'[x].flags <=> "ERROR" \in buf[x].flags
        /\ "DELWRI" \in buf'[x].flags <=> "DELWRI" \in buf[x].flags
        /\ "READ" \in buf'[x].flags <=> "READ" \in buf[x].flags
    BY <2>2 DEF Telling
  <2>. QED  BY <1>1, <2>1, <2>3 DEF DataOK, Kept, Owed, Filled
<1>2. ASSUME NEW x \in Buf
      PROVE  DataOK(x)' /\ (Owed(x) => Owed(x)' /\ buf'[x].block = buf[x].block)
  BY <1>1
<1>3. ASSUME NEW b \in Block
      PROVE  DiskOK(b)'
  <2>1. DiskOK(b)
    BY DEF Coherent
  <2>. QED  BY <1>2, <2>1 DEF DiskOK
<1>. QED  BY <1>2, <1>3 DEF Coherent

(* Most steps do something to one buffer at most.                          *)
LEMMA OneTouched ==
  ASSUME Coherent, content' = content, disk' = disk, NEW bp \in Buf,
         \A x \in Buf \ {bp} : buf'[x] = buf[x] /\ (x \in io' <=> x \in io),
         \/ Kept(bp)
         \/ ~Owed(bp) /\ Blank(bp)'
  PROVE  Coherent'
<1>1. \A x \in Buf \ {bp} : Kept(x)
  BY DEF Kept
<1>2. CASE Kept(bp)
  <2> DEFINE X == {}
  <2>1. /\ X \in SUBSET Buf /\ \A x \in Buf \ X : Kept(x)
        /\ \A x \in X : /\ Owed(x) => Owed(x)' /\ buf'[x].block = buf[x].block
                        /\ DataOK(x)'
    BY <1>1, <1>2
  <2> HIDE DEF X
  <2>. QED  BY <2>1, CoherentFramed
<1>3. CASE ~Owed(bp) /\ Blank(bp)'
  <2> DEFINE X == {bp}
  <2>1. DataOK(bp)'
    BY <1>3 DEF Blank, DataOK, Owed, Filled
  <2>2. /\ X \in SUBSET Buf /\ \A x \in Buf \ X : Kept(x)
        /\ \A x \in X : /\ Owed(x) => Owed(x)' /\ buf'[x].block = buf[x].block
                        /\ DataOK(x)'
    BY <1>1, <1>3, <2>1
  <2> HIDE DEF X
  <2>. QED  BY <2>2, CoherentFramed
<1>. QED  BY <1>2, <1>3

(* Some steps touch no buffer.                                             *)
LEMMA NoneTouched ==
  ASSUME Coherent, content' = content, disk' = disk,
         \A x \in Buf : buf'[x] = buf[x] /\ (x \in io' <=> x \in io)
  PROVE  Coherent'
<1> DEFINE X == {}
<1>1. /\ X \in SUBSET Buf /\ \A x \in Buf \ X : Kept(x)
      /\ \A x \in X : /\ Owed(x) => Owed(x)' /\ buf'[x].block = buf[x].block
                      /\ DataOK(x)'
  BY DEF Kept
<1> HIDE DEF X
<1>. QED  BY <1>1, CoherentFramed

(* brelse() of a busy buffer: what it is after it.                         *)
LEMMA ReleasedBuffer ==
  ASSUME Typed, Apart(free), NEW S \in StateRec, NEW bp \in Buf, Apart(S.free),
         \A q \in Queues : bp \notin ToSet(S.free[q]),
         Becomes(Brelse(S, bp))
  PROVE  /\ \A x \in Buf \ {bp} : buf'[x] = S.buf[x]
         /\ buf'[bp].data = S.buf[bp].data
         /\ Dead(S.buf[bp]) =>
              buf'[bp].block = None /\ "DELWRI" \notin buf'[bp].flags
         /\ ~Dead(S.buf[bp]) =>
              /\ buf'[bp].block = S.buf[bp].block
              /\ buf'[bp].flags
                   = S.buf[bp].flags \ {"WANTED", "BUSY", "ASYNC", "AGE"}
<1> DEFINE T == Brelse(S, bp)
<1>1. Brelsed(S, T, bp)
  BY BrelseIs
<1>2. Becomes(T)
  OBVIOUS
<1> HIDE DEF T
<1>3. buf' = T.buf
  BY <1>2 DEF Becomes
<1>. QED  BY <1>1, <1>3 DEF Brelsed, Faded

(* The state after a step that has given one buffer of S other flags.      *)
Marked(S, bp, f) ==
  /\ \A x \in Buf \ {bp} : buf'[x] = S.buf[x]
  /\ buf'[bp].flags = f
  /\ buf'[bp].block = S.buf[bp].block
  /\ buf'[bp].data = S.buf[bp].data
  /\ buf'[bp].size = S.buf[bp].size

(* Flags of one buffer, with or without a sleep after it.                  *)
LEMMA FlaggedBuffer ==
  ASSUME NEW S \in StateRec, NEW bp \in Buf, NEW on \in SUBSET Flags, NEW off,
         NEW p \in Proc,
         \/ Becomes(SetFlags(S, bp, on, off))
         \/ Becomes(Sleep(SetFlags(S, bp, on, off), p, bp))
  PROVE  Marked(S, bp, (S.buf[bp].flags \ off) \cup on)
<1> DEFINE T == SetFlags(S, bp, on, off)
           U == Sleep(T, p, bp)
           f == (S.buf[bp].flags \ off) \cup on
<1>1. Flagged(S, T, bp, f)
  BY SetFlagsIs
<1>2. Becomes(T) \/ Becomes(U)
  OBVIOUS
<1> HIDE DEF T, f
<1>3. Slept(T, U, [T.slp EXCEPT ![p] = bp])
  BY <1>1, SleepIs DEF Flagged
<1> HIDE DEF U
<1>4. buf' = T.buf
  BY <1>2, <1>3 DEF Becomes, Slept
<1>. QED  BY <1>1, <1>4 DEF Flagged, Marked, f

(* getblk() asks for a buffer that is busy.                                *)
LEMMA BusyCoherent ==
  ASSUME Order, Coherent, NEW p \in Proc, NEW bp \in Buf, GetblkBusy(p, bp),
         UNCHANGED <<io, disk, content>>
  PROVE  Coherent'
<1>1. Typed
  BY DEF Order
<1>2. /\ Now \in StateRec /\ Now.buf = buf /\ {"WANTED"} \in SUBSET Flags
      /\ Becomes(Sleep(SetFlags(Now, bp, {"WANTED"}, {}), p, bp))
  BY <1>1, NowIs DEF GetblkBusy, Flags
<1>3. /\ \A x \in Buf \ {bp} : buf'[x] = buf[x]
      /\ buf'[bp].flags = (buf[bp].flags \ {}) \cup {"WANTED"}
      /\ buf'[bp].block = buf[bp].block /\ buf'[bp].data = buf[bp].data
  <2>1. Marked(Now, bp, (Now.buf[bp].flags \ {}) \cup {"WANTED"})
    BY <1>2, FlaggedBuffer
  <2>. QED  BY <1>2, <2>1 DEF Marked
<1>4. Kept(bp)
  BY <1>3 DEF Kept, Telling
<1>. QED  BY <1>3, <1>4, OneTouched

(* getblk() touches the flags of a buffer at most.                         *)
LEMMA GetblkCoherent ==
  ASSUME Order, Coherent, NEW p \in Proc, Getblk(p)
  PROVE  Coherent'
<1>1. Typed /\ Apart(free) /\ UNCHANGED <<io, disk, content>>
  BY DEF Order, Getblk
<1>2. ASSUME NEW bp \in Buf,
             Becomes(SetFlags(Bremfree(Now, bp), bp, {"BUSY"}, {}))
      PROVE  Coherent'
  <2> DEFINE R == Bremfree(Now, bp)
  <2>1. Unlisted(Now, R, bp)
    BY <1>1, NowIs, BremfreeIs
  <2>2. Becomes(SetFlags(R, bp, {"BUSY"}, {})) /\ {"BUSY"} \in SUBSET Flags
    BY <1>2 DEF Flags
  <2> HIDE DEF R
  <2>3. R \in StateRec /\ R.buf = buf
    BY <1>1, <2>1, NowIs DEF Unlisted
  <2>4. /\ \A x \in Buf \ {bp} : buf'[x] = buf[x]
        /\ buf'[bp].flags = (buf[bp].flags \ {}) \cup {"BUSY"}
        /\ buf'[bp].block = buf[bp].block /\ buf'[bp].data = buf[bp].data
    <3>1. Marked(R, bp, (R.buf[bp].flags \ {}) \cup {"BUSY"})
      BY <2>2, <2>3, FlaggedBuffer
    <3>. QED  BY <2>3, <3>1 DEF Marked
  <2>5. Kept(bp)
    BY <1>1, <2>4 DEF Kept, Telling
  <2>. QED  BY <1>1, <2>4, <2>5, OneTouched
<1>3. CASE UNCHANGED state
  BY <1>1, <1>3, NoneTouched DEF state
<1>. QED  BY <1>1, <1>2, <1>3, BusyCoherent DEF Getblk

(* getnewbuf() finds nothing.                                              *)
LEMMA NoneCoherent ==
  ASSUME Order, Coherent, NEW p \in Proc, NEW back, GetnewbufNone(p, back),
         UNCHANGED <<disk, content>>
  PROVE  Coherent'
<1> DEFINE S == [Now EXCEPT !.need = TRUE]
           T == Sleep(S, p, NeedBuffer)
<1>1. Typed
  BY DEF Order
<1>2. S \in StateRec /\ S.buf = buf
  BY <1>1, NowIs DEF StateRec
<1>3. Becomes(T) /\ io' = io
  BY DEF GetnewbufNone
<1> HIDE DEF S
<1>4. Slept(S, T, [S.slp EXCEPT ![p] = NeedBuffer])
  BY <1>2, SleepIs
<1> HIDE DEF T
<1>5. buf' = buf
  BY <1>2, <1>3, <1>4 DEF Slept, Becomes
<1>. QED  BY <1>3, <1>5, NoneTouched

(* getnewbuf() starts a write: it is due before and after.                 *)
LEMMA DirtyCoherent ==
  ASSUME Order, Coherent, NEW p \in Proc, NEW bp \in Candidates,
         "DELWRI" \in buf[bp].flags, GetnewbufDirty(p, bp),
         UNCHANGED <<disk, content>>
  PROVE  Coherent'
<1> DEFINE R == Bremfree(Now, bp)
           S == SetFlags(R, bp, {"BUSY", "ASYNC"}, {})
           T == StartWrite(S, bp)
           f == buf[bp].flags \cup {"BUSY", "ASYNC"}
           X == {bp}
<1>1. Typed /\ Apart(free) /\ bp \in Buf
  BY CandidateIs DEF Order
<1>2. Unlisted(Now, R, bp)
  BY <1>1, NowIs, BremfreeIs
<1>3. Becomes(T) /\ io' = io \cup {bp}
  BY DEF GetnewbufDirty
<1> HIDE DEF R
<1>4. R \in StateRec /\ R.buf = buf
  BY <1>1, <1>2, NowIs DEF Unlisted
<1>5. Flagged(R, S, bp, f)
  <2>1. {"BUSY", "ASYNC"} \in SUBSET Flags
    BY DEF Flags
  <2>2. Flagged(R, S, bp, (R.buf[bp].flags \ {}) \cup {"BUSY", "ASYNC"})
    BY <1>1, <1>4, <2>1, SetFlagsIs
  <2>3. (R.buf[bp].flags \ {}) \cup {"BUSY", "ASYNC"} = f
    BY <1>4
  <2> HIDE DEF S, f
  <2>. QED  BY <2>2, <2>3
<1> HIDE DEF S, f
<1>6. S \in StateRec /\ S.buf[bp].flags = f
  BY <1>5 DEF Flagged
<1>7. Flagged(S, T, bp, Writing(f))
  BY <1>1, <1>6, StartWriteIs
<1> HIDE DEF T
<1>8. /\ \A x \in Buf \ {bp} : buf'[x] = buf[x]
      /\ buf'[bp].flags = Writing(f)
      /\ buf'[bp].block = buf[bp].block /\ buf'[bp].data = buf[bp].data
  BY <1>3, <1>4, <1>5, <1>7 DEF Flagged, Becomes
<1>9. /\ Owed(bp) /\ Owed(bp)'
      /\ \/ buf'[bp].data = content[buf[bp].block]
         \/ buf[bp].block = None
  <2>1. Owed(bp)
    BY DEF Owed
  <2>2. Owed(bp)'
    BY <1>3, <1>8 DEF Owed, Writing
  <2>3. DataOK(bp)
    BY <1>1 DEF Coherent
  <2>. QED  BY <1>8, <2>1, <2>2, <2>3 DEF DataOK
<1>10. buf[bp].block # None
  <2>1. BufOK(bp)
    BY <1>1 DEF Order
  <2>. QED  BY <2>1 DEF BufOK, Fit
<1>11. DataOK(bp)'
  BY <1>8, <1>9, <1>10 DEF DataOK
<1>12. /\ X \in SUBSET Buf /\ \A x \in Buf \ X : Kept(x)
       /\ \A x \in X : /\ Owed(x) => Owed(x)' /\ buf'[x].block = buf[x].block
                       /\ DataOK(x)'
  BY <1>1, <1>3, <1>8, <1>9, <1>10, <1>11 DEF Kept
<1> HIDE DEF X
<1>. QED  BY <1>12, CoherentFramed

(* A new buffer has nothing yet.                                           *)
LEMMA NewbufCoherent ==
  ASSUME Order, Coherent, NEW p \in Proc, Newbuf(p)
  PROVE  Coherent'
<1>1. Typed /\ Apart(free) /\ UNCHANGED <<disk, content>>
  BY DEF Order, Newbuf
<1>2. ASSUME NEW bp \in Candidates, "DELWRI" \notin buf[bp].flags,
             Becomes([Taken(Now, bp) EXCEPT !.buf[bp].block = want[p]]),
             io' = io
      PROVE  Coherent'
  <2> DEFINE R == Taken(Now, bp)
             b == R.buf[bp]
             c == [b EXCEPT !.block = want[p]]
             T == [R EXCEPT !.buf[bp].block = want[p]]
  <2>1. bp \in Buf /\ On(free, bp) # {}
    BY <1>1, <1>2, CandidateIs
  <2>2. TookOff(Now, R, bp)
    BY <1>1, <2>1, NowIs, TakenIs
  <2>3. T = Put(R, bp, c) /\ Becomes(T)
    BY <1>2 DEF Put
  <2>4. want[p] \in Block \cup {None}
    BY <1>1 DEF Typed, LocalTyped
  <2> HIDE DEF R
  <2>5. R \in StateRec /\ b \in BufRec
    BY <2>1, <2>2 DEF TookOff, StateRec
  <2> HIDE DEF b
  <2>6. c \in BufRec /\ c.flags = b.flags
    BY <2>4, <2>5, RecordField
  <2> HIDE DEF c, T
  <2>7. T.buf[bp] = c /\ \A x \in Buf \ {bp} : T.buf[x] = R.buf[x]
    BY <2>1, <2>3, <2>5, <2>6, PutIs
  <2>8. /\ \A x \in Buf \ {bp} : buf'[x] = buf[x]
        /\ buf'[bp].flags = {"BUSY"}
    BY <1>1, <2>2, <2>3, <2>6, <2>7, NowIs DEF Becomes, TookOff, b
  <2>9. bp \notin io
    <3>1. BufOK(bp)
      BY <2>1 DEF Order
    <3>. QED  BY <2>1, <3>1 DEF BufOK, Fit
  <2>10. ~Owed(bp) /\ Blank(bp)'
    BY <1>2, <2>8, <2>9 DEF Owed, Blank, Filled
  <2>. QED  BY <1>1, <1>2, <2>1, <2>8, <2>10, OneTouched
<1>. QED  BY <1>1, <1>2, NoneCoherent, DirtyCoherent DEF Newbuf

(* Most steps keep all buffers but one, and of that one nothing is known   *)
(* afterwards; a step on two buffers does not touch the data of the other. *)
LEMMA OneBlanked ==
  ASSUME Coherent, content' = content, disk' = disk, NEW bp \in Buf,
         \A x \in Buf \ {bp} : Kept(x), ~Owed(bp), Blank(bp)'
  PROVE  Coherent'
<1> DEFINE X == {bp}
<1>1. DataOK(bp)'
  BY DEF Blank, DataOK, Owed, Filled
<1>2. /\ X \in SUBSET Buf /\ \A x \in Buf \ X : Kept(x)
      /\ \A x \in X : /\ Owed(x) => Owed(x)' /\ buf'[x].block = buf[x].block
                      /\ DataOK(x)'
  BY <1>1
<1> HIDE DEF X
<1>. QED  BY <1>2, CoherentFramed

(* brelse() of a buffer that was got for its memory.                       *)
LEMMA MemoryReleased ==
  ASSUME Order, Coherent, content' = content, disk' = disk, io' = io,
         NEW S \in StateRec, NEW bp \in Buf, Apart(S.free),
         \A q \in Queues : bp \notin ToSet(S.free[q]),
         Becomes(Brelse(S, bp)), NEW tp \in Buf, tp # bp,
         \A z \in Buf \ {tp, bp} : S.buf[z] = buf[z],
         S.buf[tp].flags = buf[tp].flags, S.buf[tp].block = buf[tp].block,
         S.buf[tp].data = buf[tp].data,
         "DELWRI" \notin S.buf[bp].flags,
         S.buf[bp].block = None \/ "INVAL" \in S.buf[bp].flags,
         "DELWRI" \notin buf[bp].flags, bp \notin io
  PROVE  Coherent'
<1>1. Typed /\ Apart(free)
  BY DEF Order
<1>2. /\ \A x \in Buf \ {bp} : buf'[x] = S.buf[x]
      /\ Dead(S.buf[bp]) =>
           buf'[bp].block = None /\ "DELWRI" \notin buf'[bp].flags
      /\ ~Dead(S.buf[bp]) =>
           /\ buf'[bp].block = S.buf[bp].block
           /\ buf'[bp].flags
                = S.buf[bp].flags \ {"WANTED", "BUSY", "ASYNC", "AGE"}
  BY <1>1, ReleasedBuffer
<1>3. buf'[bp].block = None /\ "DELWRI" \notin buf'[bp].flags
  BY <1>2 DEF Dead
<1>4. ~Owed(bp) /\ Blank(bp)'
  BY <1>3 DEF Owed, Blank
<1>5. \A x \in Buf \ {bp} : Kept(x)
  BY <1>2 DEF Kept
<1>. QED  BY <1>4, <1>5, OneBlanked

(* allocbuf() moves memory, and leaves the data of its buffer alone.       *)
LEMMA AllocbufCoherent ==
  ASSUME Order, Coherent, NEW p \in Proc, Allocbuf(p)
  PROVE  Coherent'
<1>1. /\ Typed /\ Apart(free) /\ HoldOK(p) /\ pc[p] = "alloc"
      /\ UNCHANGED <<disk, content>>
  BY DEF Order, Allocbuf, Runs
<1>2. held[p] # None
  BY <1>1 DEF HoldOK
<1>3. PICK tp \in Buf : held[p] = tp
  BY <1>2, HeldIs
<1>4. want[p] \in Block /\ On(free, tp) = {}
  BY <1>2, <1>3, HeldIs
<1>5. ASSUME UNCHANGED state, io' = io
      PROVE  Coherent'
  BY <1>1, <1>5, NoneTouched DEF state
<1>6. ASSUME Shrink(p)
      PROVE  Coherent'
  <2>1. io' = io
    BY <1>6 DEF Shrink
  <2>2. CASE UNCHANGED state
    BY <1>5, <2>1, <2>2
  <2>3. CASE free["EMPTY"] # <<>> /\ ~UNCHANGED state
    <3>1. PICK S, ep : /\ GaveAway(S, tp, ep, SizeOf[want[p]])
                       /\ Becomes(Brelse(S, ep))
      BY <1>3, <1>4, <1>6, <2>3, ShrinkIs
    <3>2. /\ ep \in Buf /\ S \in StateRec /\ Apart(S.free) /\ ep # tp
          /\ \A q \in Queues : ep \notin ToSet(S.free[q])
          /\ \A z \in Buf \ {tp, ep} : S.buf[z] = buf[z]
          /\ S.buf[tp].flags = buf[tp].flags
          /\ S.buf[tp].block = buf[tp].block /\ S.buf[tp].data = buf[tp].data
          /\ S.buf[ep].flags = buf[ep].flags \cup {"BUSY", "INVAL"}
          /\ buf[ep].size = 0 /\ "BUSY" \notin buf[ep].flags
      BY <3>1 DEF GaveAway
    <3>3. ep \notin io /\ "DELWRI" \notin buf[ep].flags
      <4>1. BufOK(ep)
        BY <3>2 DEF Order
      <4>. QED  BY <3>2, <4>1 DEF BufOK, Fit, Dead
    <3>4. "DELWRI" \notin S.buf[ep].flags /\ "INVAL" \in S.buf[ep].flags
      BY <3>2, <3>3
    <3>. QED  BY <1>1, <2>1, <3>1, <3>2, <3>3, <3>4, MemoryReleased
  <2>4. free["EMPTY"] = <<>> => UNCHANGED state
    BY <1>6 DEF Shrink
  <2>. QED  BY <2>2, <2>3, <2>4
<1>7. ASSUME NEW bp \in Candidates, "DELWRI" \notin buf[bp].flags,
             Becomes(Brelse(TakePages(p, bp), bp)), io' = io,
             buf[held[p]].size < SizeOf[want[p]]
      PROVE  Coherent'
  <2> DEFINE S == TakePages(p, bp)
  <2>1. bp \in Buf /\ On(free, bp) # {} /\ bp # tp
    BY <1>1, <1>4, <1>7, CandidateIs
  <2>2. bp \notin io
    <3>1. BufOK(bp)
      BY <2>1 DEF Order
    <3>. QED  BY <2>1, <3>1 DEF BufOK, Fit
  <2>3. /\ S \in StateRec /\ Apart(S.free)
        /\ \A q \in Queues : ToSet(S.free[q]) = ToSet(free[q]) \ {bp}
        /\ \A z \in Buf \ {tp, bp} : S.buf[z] = buf[z]
        /\ S.buf[tp].flags = buf[tp].flags
        /\ S.buf[tp].block = buf[tp].block
        /\ S.buf[tp].data = buf[tp].data
        /\ S.buf[bp].flags \subseteq {"BUSY", "INVAL"}
        /\ S.buf[bp].block = None
    BY <1>1, <1>3, <1>4, <1>7, <2>1, TakePagesIs
  <2>4. Becomes(Brelse(S, bp))
    BY <1>7
  <2> HIDE DEF S
  <2>5. /\ \A q \in Queues : bp \notin ToSet(S.free[q])
        /\ "DELWRI" \notin S.buf[bp].flags
    BY <2>3
  <2>. QED  BY <1>1, <1>7, <2>1, <2>2, <2>3, <2>4, <2>5, MemoryReleased
<1>8. ASSUME Grow(p)
      PROVE  Coherent'
  BY <1>1, <1>7, <1>8, NoneCoherent, DirtyCoherent DEF Grow
<1>. QED  BY <1>5, <1>6, <1>8 DEF Allocbuf

(* brelse() by the holder: the buffer keeps its data, or it is disassociated *)
(* and no write of it was due.                                             *)
LEMMA PlainCoherent ==
  ASSUME Order, Coherent, NEW p \in Proc, NEW bp \in Buf, held[p] = bp,
         bp \notin io, Becomes(Brelse(Now, bp)), UNCHANGED <<io, disk, content>>,
         ~Dead(buf[bp]) \/ "DELWRI" \notin buf[bp].flags
  PROVE  Coherent'
<1>1. Typed /\ Apart(free) /\ bp # None
  BY BufCacheAssumption DEF Order
<1>2. /\ Now \in StateRec /\ Now.buf = buf /\ Apart(Now.free)
      /\ \A q \in Queues : bp \notin ToSet(Now.free[q])
  BY <1>1, NowIs, HeldIs
<1>3. /\ \A x \in Buf \ {bp} : buf'[x] = buf[x]
      /\ buf'[bp].data = buf[bp].data
      /\ Dead(buf[bp]) =>
           buf'[bp].block = None /\ "DELWRI" \notin buf'[bp].flags
      /\ ~Dead(buf[bp]) =>
           /\ buf'[bp].block = buf[bp].block
           /\ buf'[bp].flags = buf[bp].flags \ {"WANTED", "BUSY", "ASYNC", "AGE"}
  <2> DEFINE S == Now
  <2>1. /\ S \in StateRec /\ S.buf = buf /\ Apart(S.free)
        /\ \A q \in Queues : bp \notin ToSet(S.free[q])
        /\ Becomes(Brelse(S, bp))
    BY <1>2
  <2> HIDE DEF S
  <2>2. /\ \A x \in Buf \ {bp} : buf'[x] = S.buf[x]
        /\ buf'[bp].data = S.buf[bp].data
        /\ Dead(S.buf[bp]) =>
             buf'[bp].block = None /\ "DELWRI" \notin buf'[bp].flags
        /\ ~Dead(S.buf[bp]) =>
             /\ buf'[bp].block = S.buf[bp].block
             /\ buf'[bp].flags
                  = S.buf[bp].flags \ {"WANTED", "BUSY", "ASYNC", "AGE"}
    BY <1>1, <2>1, ReleasedBuffer
  <2>. QED  BY <2>1, <2>2
<1>4. CASE Dead(buf[bp])
  <2>1. ~Owed(bp) /\ Blank(bp)'
    BY <1>3, <1>4 DEF Owed, Blank
  <2>. QED  BY <1>3, <2>1, OneTouched
<1>5. CASE ~Dead(buf[bp])
  <2>1. Kept(bp)
    BY <1>3, <1>5 DEF Kept, Telling
  <2>. QED  BY <1>3, <2>1, OneTouched
<1>. QED  BY <1>4, <1>5

(* A read is started of a buffer without content.                          *)
LEMMA ReadStarted ==
  ASSUME Order, Coherent, NEW p \in Proc, NEW bp \in Buf, bp \notin io,
         ~Filled(bp), NEW on \in SUBSET Flags, "READ" \in on,
         on \cap {"DONE", "DELWRI"} = {},
         \/ Becomes(SetFlags(Now, bp, on, {}))
         \/ Becomes(Sleep(SetFlags(Now, bp, on, {}), p, bp)),
         io' = io \cup {bp}, UNCHANGED <<disk, content>>
  PROVE  Coherent'
<1>1. Typed
  BY DEF Order
<1>2. Now \in StateRec /\ Now.buf = buf
  BY <1>1, NowIs
<1>3. Marked(Now, bp, (Now.buf[bp].flags \ {}) \cup on)
  <2> DEFINE S == Now
             off == {}
  <2>1. /\ S \in StateRec
        /\ \/ Becomes(SetFlags(S, bp, on, off))
           \/ Becomes(Sleep(SetFlags(S, bp, on, off), p, bp))
    BY <1>2
  <2> HIDE DEF S, off
  <2>2. Marked(S, bp, (S.buf[bp].flags \ off) \cup on)
    BY <2>1, FlaggedBuffer
  <2>. QED  BY <2>2 DEF S, off
<1>4. /\ \A x \in Buf \ {bp} : buf'[x] = buf[x] /\ (x \in io' <=> x \in io)
      /\ buf'[bp].flags = (buf[bp].flags \ {}) \cup on
  BY <1>2, <1>3 DEF Marked
<1>5. ~Owed(bp) /\ Blank(bp)'
  BY <1>4 DEF Filled, Owed, Blank
<1>. QED  BY <1>4, <1>5, OneTouched

(* getblk() has returned: the buffer is used, read or released.            *)
LEMMA GotCoherent ==
  ASSUME Order, Coherent, NEW p \in Proc, Got(p)
  PROVE  Coherent'
<1>1. HoldOK(p) /\ pc[p] = "got" /\ UNCHANGED <<disk, content>>
  BY DEF Order, Got, Runs
<1>2. held[p] # None
  BY <1>1 DEF HoldOK
<1>3. PICK bp \in Buf : held[p] = bp
  BY <1>2, HeldIs
<1>4. bp \notin io /\ ~Dead(buf[bp])
  <2>1. Holds("got", want[p], buf[bp], bp \in io)
    BY <1>1, <1>2, <1>3, HeldIs
  <2>. QED  BY <2>1 DEF Holds, Dead
<1>5. CASE UNCHANGED <<state, io>>
  BY <1>1, <1>5, NoneTouched DEF state
<1>6. ASSUME NEW on \in {{"READ"}, {"READ", "ASYNC"}}, ~Filled(bp),
             \/ Becomes(SetFlags(Now, bp, on, {}))
             \/ Becomes(Sleep(SetFlags(Now, bp, on, {}), p, bp)),
             io' = io \cup {bp}
      PROVE  Coherent'
  <2>1. on \in SUBSET Flags /\ "READ" \in on /\ on \cap {"DONE", "DELWRI"} = {}
    BY DEF Flags
  <2>. QED  BY <1>1, <1>4, <1>6, <2>1, ReadStarted
<1>7. CASE Becomes(Brelse(Now, bp)) /\ UNCHANGED io
  BY <1>1, <1>3, <1>4, <1>7, PlainCoherent
<1>8. \/ UNCHANGED <<state, io>>
      \/ /\ ~Filled(bp)
         /\ Becomes(Sleep(SetFlags(Now, bp, {"READ"}, {}), p, bp))
         /\ io' = io \cup {bp}
      \/ Becomes(Brelse(Now, bp)) /\ UNCHANGED io
      \/ /\ ~Filled(bp)
         /\ Becomes(SetFlags(Now, bp, {"READ", "ASYNC"}, {}))
         /\ io' = io \cup {bp}
  BY <1>3, Zenon DEF Got
<1>. QED  BY <1>5, <1>6, <1>7, <1>8

(* bread() after biowait(), and the releases.                              *)
LEMMA ReadCoherent ==
  ASSUME Order, Coherent, NEW p \in Proc,
         Read(p) \/ Release(p) \/ BwriteDone(p)
  PROVE  Coherent'
<1>1. /\ HoldOK(p) /\ pc[p] \in {"biowait", "use", "bwrite"}
      /\ pc[p] \in {"biowait", "bwrite"} => "DONE" \in buf[held[p]].flags
      /\ UNCHANGED <<io, disk, content>>
      /\ UNCHANGED state \/ Becomes(Brelse(Now, held[p]))
  BY DEF Order, Read, Release, BwriteDone, Runs
<1>2. held[p] # None
  BY <1>1 DEF HoldOK
<1>3. PICK bp \in Buf : held[p] = bp
  BY <1>2, HeldIs
<1>4. bp \notin io /\ (~Dead(buf[bp]) \/ "DELWRI" \notin buf[bp].flags)
  <2>1. Holds(pc[p], want[p], buf[bp], bp \in io)
    BY <1>2, <1>3, HeldIs
  <2>. QED  BY <1>1, <1>3, <2>1 DEF Holds, Dead
<1>5. CASE UNCHANGED state
  BY <1>1, <1>5, NoneTouched DEF state
<1>6. CASE Becomes(Brelse(Now, held[p]))
  BY <1>1, <1>3, <1>4, <1>6, PlainCoherent
<1>. QED  BY <1>1, <1>5, <1>6

(* A block is rewritten, in the one buffer that it has.                    *)
LEMMA Rewritten ==
  ASSUME Typed, Coherent, OneBufferPerBlock, NEW bp \in Buf, NEW b \in Block,
         NEW v, buf[bp].block = b, disk' = disk,
         content' = [content EXCEPT ![b] = v],
         \A x \in Buf \ {bp} : buf'[x] = buf[x] /\ (x \in io' <=> x \in io),
         buf'[bp].block = b, buf'[bp].data = v, Owed(bp)'
  PROVE  Coherent'
<1>1. /\ content'[b] = v /\ \A c \in Block \ {b} : content'[c] = content[c]
      /\ b # None
  BY BufCacheAssumption DEF Typed, LocalTyped
<1>2. ASSUME NEW x \in Buf \ {bp}
      PROVE  DataOK(x)' /\ (Owed(x) => Owed(x)')
  <2>1. DataOK(x) /\ buf'[x] = buf[x] /\ (x \in io' <=> x \in io)
    BY DEF Coherent
  <2>2. buf[x].block # b /\ buf[x].block \in Block \cup {None}
    BY <1>1, NowIs DEF OneBufferPerBlock
  <2>3. buf[x].block # None => content'[buf[x].block] = content[buf[x].block]
    BY <1>1, <2>2
  <2>. QED  BY <2>1, <2>3 DEF DataOK, Owed, Filled
<1>3. DataOK(bp)'
  BY <1>1 DEF DataOK
<1>4. ASSUME NEW c \in Block
      PROVE  DiskOK(c)'
  <2>1. CASE c = b
    BY <2>1 DEF DiskOK
  <2>2. ASSUME c # b, disk[c] # content[c]
        PROVE  DiskOK(c)'
    <3>1. PICK x \in Buf : buf[x].block = c /\ Owed(x)
      BY <2>2 DEF Coherent, DiskOK
    <3>2. x # bp
      BY <2>2, <3>1
    <3>. QED  BY <1>2, <3>1, <3>2 DEF DiskOK
  <2>3. ASSUME c # b, disk[c] = content[c]
        PROVE  DiskOK(c)'
    BY <1>1, <2>3 DEF DiskOK
  <2>. QED  BY <2>1, <2>2, <2>3
<1>. QED  BY <1>2, <1>3, <1>4 DEF Coherent

(* The writes: the holder's buffer is due then, with the new data.         *)
LEMMA WritesCoherent ==
  ASSUME Order, Coherent, OneBufferPerBlock, NEW p \in Proc, NEW v \in Val,
         Bdwrite(p, v) \/ Bawrite(p, v) \/ Bwrite(p, v)
  PROVE  Coherent'
<1>1. /\ Typed /\ Apart(free) /\ HoldOK(p) /\ pc[p] = "use"
      /\ disk' = disk /\ content' = [content EXCEPT ![want[p]] = v]
  BY DEF Order, Bdwrite, Bawrite, Bwrite, Runs, Written
<1>2. held[p] # None
  BY <1>1 DEF HoldOK
<1>3. PICK bp \in Buf : held[p] = bp
  BY <1>2, HeldIs
<1>4. /\ bp \notin io /\ ~Dead(buf[bp]) /\ want[p] \in Block
      /\ buf[bp].block = want[p]
      /\ \A q \in Queues : bp \notin ToSet(free[q])
  <2>1. Holds("use", want[p], buf[bp], bp \in io)
    BY <1>1, <1>2, <1>3, HeldIs
  <2>. QED  BY <1>2, <1>3, <2>1, HeldIs DEF Holds, Dead
<1> DEFINE F == Fill(Now, bp, v)
           D == SetFlags(F, bp, {"DONE", "DELWRI"}, {})
           A == SetFlags(F, bp, {"ASYNC"}, {})
           A2 == StartWrite(A, bp)
           W == StartWrite(F, bp)
           W2 == Sleep(W, p, bp)
           B == Brelse(D, bp)
<1>5. /\ F \in StateRec /\ F.free = free
      /\ \A x \in Buf \ {bp} : F.buf[x] = buf[x]
      /\ F.buf[bp].data = v /\ F.buf[bp].flags = buf[bp].flags
      /\ F.buf[bp].block = want[p] /\ F.buf[bp].size = buf[bp].size
  BY <1>1, <1>4, NowIs, FillIs
<1>6. \/ Becomes(B) /\ io' = io
      \/ Becomes(A2) /\ io' = io \cup {bp}
      \/ Becomes(W2) /\ io' = io \cup {bp}
  BY <1>3 DEF Bdwrite, Bawrite, Bwrite
<1> HIDE DEF F
<1>7. CASE Becomes(B) /\ io' = io
  <2>1. Flagged(F, D, bp, (F.buf[bp].flags \ {}) \cup {"DONE", "DELWRI"})
    <3>1. {"DONE", "DELWRI"} \in SUBSET Flags
      BY DEF Flags
    <3>. QED  BY <1>5, <3>1, SetFlagsIs
  <2>2. Becomes(Brelse(D, bp))
    BY <1>7
  <2> HIDE DEF D
  <2>3. /\ D \in StateRec /\ D.free = free
        /\ \A x \in Buf \ {bp} : D.buf[x] = buf[x]
        /\ D.buf[bp].flags = buf[bp].flags \cup {"DONE", "DELWRI"}
        /\ D.buf[bp].block = want[p] /\ D.buf[bp].data = v
        /\ D.buf[bp].size = buf[bp].size
    BY <1>5, <2>1 DEF Flagged
  <2>4. ~Dead(D.buf[bp])
    BY <1>4, <2>3 DEF Dead
  <2>5. /\ Apart(D.free) /\ \A q \in Queues : bp \notin ToSet(D.free[q])
    BY <1>1, <1>4, <2>3
  <2>6. /\ \A x \in Buf \ {bp} : buf'[x] = buf[x]
        /\ buf'[bp].data = v /\ buf'[bp].block = want[p]
        /\ "DELWRI" \in buf'[bp].flags
    BY <1>1, <2>2, <2>3, <2>4, <2>5, ReleasedBuffer
  <2>7. Owed(bp)'
    BY <2>6 DEF Owed
  <2>. QED  BY <1>1, <1>4, <1>7, <2>6, <2>7, Rewritten
<1>8. ASSUME NEW S \in StateRec, S.buf[bp].data = v, S.buf[bp].block = want[p],
             \A x \in Buf \ {bp} : S.buf[x] = buf[x],
             buf' = StartWrite(S, bp).buf, io' = io \cup {bp}
      PROVE  Coherent'
  <2>1. Flagged(S, StartWrite(S, bp), bp, Writing(S.buf[bp].flags))
    BY StartWriteIs
  <2>2. /\ \A x \in Buf \ {bp} : buf'[x] = buf[x]
        /\ buf'[bp].data = v /\ buf'[bp].block = want[p]
        /\ buf'[bp].flags = Writing(S.buf[bp].flags)
    BY <1>8, <2>1 DEF Flagged
  <2>3. Owed(bp)'
    BY <1>8, <2>2 DEF Owed, Writing
  <2>4. \A x \in Buf \ {bp} : x \in io' <=> x \in io
    BY <1>8
  <2>. QED  BY <1>1, <1>4, <2>2, <2>3, <2>4, Rewritten
<1>9. CASE Becomes(A2) /\ io' = io \cup {bp}
  <2>1. Flagged(F, A, bp, (F.buf[bp].flags \ {}) \cup {"ASYNC"})
    <3>1. {"ASYNC"} \in SUBSET Flags
      BY DEF Flags
    <3>. QED  BY <1>5, <3>1, SetFlagsIs
  <2>2. buf' = StartWrite(A, bp).buf
    BY <1>9 DEF Becomes
  <2> HIDE DEF A
  <2>3. /\ A \in StateRec /\ A.buf[bp].data = v /\ A.buf[bp].block = want[p]
        /\ \A x \in Buf \ {bp} : A.buf[x] = buf[x]
    BY <1>5, <2>1 DEF Flagged
  <2>. QED  BY <1>8, <1>9, <2>2, <2>3
<1>10. CASE Becomes(W2) /\ io' = io \cup {bp}
  <2>1. W \in StateRec
    BY <1>5, StartWriteIs DEF Flagged
  <2>2. buf' = W2.buf
    BY <1>10 DEF Becomes
  <2>3. Slept(W, W2, [W.slp EXCEPT ![p] = bp])
    <3> HIDE DEF W
    <3>. QED  BY <2>1, SleepIs
  <2>4. W2.buf = W.buf
    <3> HIDE DEF W, W2
    <3>. QED  BY <2>3 DEF Slept
  <2>5. buf' = StartWrite(F, bp).buf
    BY <2>2, <2>4
  <2>. QED  BY <1>5, <1>8, <1>10, <2>5
<1>. QED  BY <1>6, <1>7, <1>9, <1>10

(* What biodone() leaves of the buffer that the driver has made S of.      *)
LEMMA CompletedBuffer ==
  ASSUME Order, NEW bp \in Buf, bp \in io, NEW S \in StateRec, S.free = free,
         \A x \in Buf \ {bp} : S.buf[x] = buf[x], Becomes(Complete(S, bp))
  PROVE  /\ \A x \in Buf \ {bp} : buf'[x] = buf[x]
         /\ buf'[bp].data = S.buf[bp].data
         /\ \/ /\ buf'[bp].block = S.buf[bp].block
               /\ buf'[bp].flags \cap Telling = S.buf[bp].flags \cap Telling
            \/ /\ Dead(S.buf[bp]) /\ buf'[bp].block = None
               /\ "DELWRI" \notin buf'[bp].flags
<1>1. Typed /\ Apart(free) /\ \A q \in Queues : bp \notin ToSet(free[q])
  <2>1. BufOK(bp)
    BY DEF Order
  <2>. QED  BY <2>1 DEF Order, BufOK, Fit, On
<1>2. CASE "ASYNC" \in S.buf[bp].flags
  <2>1. Becomes(Brelse(S, bp))
    BY <1>2 DEF Complete
  <2>2. /\ \A x \in Buf \ {bp} : buf'[x] = S.buf[x]
        /\ buf'[bp].data = S.buf[bp].data
        /\ Dead(S.buf[bp]) =>
             buf'[bp].block = None /\ "DELWRI" \notin buf'[bp].flags
        /\ ~Dead(S.buf[bp]) =>
             /\ buf'[bp].block = S.buf[bp].block
             /\ buf'[bp].flags
                  = S.buf[bp].flags \ {"WANTED", "BUSY", "ASYNC", "AGE"}
    BY <1>1, <2>1, ReleasedBuffer
  <2>. QED  BY <2>2 DEF Telling
<1>3. CASE "ASYNC" \notin S.buf[bp].flags
  <2> DEFINE R == SetFlags(S, bp, {}, {"WANTED"})
             T == Wakeup(R, bp)
  <2>1. Becomes(T)
    BY <1>3 DEF Complete
  <2>2. Flagged(S, R, bp, (S.buf[bp].flags \ {"WANTED"}) \cup {})
    <3>1. {} \in SUBSET Flags
      OBVIOUS
    <3>. QED  BY <3>1, SetFlagsIs
  <2> HIDE DEF R
  <2>3. R \in StateRec
    BY <2>2 DEF Flagged
  <2>4. Slept(R, T, [p \in Proc |-> IF R.slp[p] = bp THEN None ELSE R.slp[p]])
    BY <2>3, WakeupIs
  <2> HIDE DEF T
  <2>5. buf' = R.buf
    BY <2>1, <2>4 DEF Becomes, Slept
  <2>. QED  BY <2>2, <2>5 DEF Flagged, Telling
<1>. QED  BY <1>2, <1>3

(* The end of I/O: what was read is what was last written, for nothing is  *)
(* due of the block elsewhere, and what was due is on the disk.            *)
LEMMA BiodoneCoherent ==
  ASSUME Order, Coherent, OneBufferPerBlock, NEW bp \in Buf, Biodone(bp)
  PROVE  Coherent'
<1> DEFINE b == buf[bp].block
           f == buf[bp].flags
           F == Fill(Now, bp, disk[b])
<1>1. /\ Typed /\ bp \in io /\ io' = io \ {bp} /\ content' = content
      /\ \A x \in Buf \ {bp} : x \in io' <=> x \in io
  BY DEF Order, Biodone
<1>2. /\ b \in Block /\ b # None /\ buf[bp].size > 0
      /\ f \cap {"DONE", "DELWRI", "ERROR", "INVAL"} = {}
      /\ DataOK(bp) /\ DiskOK(b)
  <2>1. BufOK(bp)
    BY DEF Order
  <2>2. b # None /\ buf[bp].size > 0 /\ f \cap {"DONE", "DELWRI", "ERROR", "INVAL"} = {}
    BY <1>1, <2>1 DEF BufOK, Fit
  <2>3. b \in Block
    BY <1>1, <2>2, NowIs
  <2>. QED  BY <2>2, <2>3 DEF Coherent
<1>3. ASSUME NEW x \in Buf, buf[x].block = b
      PROVE  x = bp
  BY <1>2, <1>3 DEF OneBufferPerBlock
<1>4. Now \in StateRec /\ Now.buf = buf /\ Now.free = free
  BY <1>1, NowIs
<1>5. ASSUME "READ" \in f, disk' = disk,
             Becomes(Complete(SetFlags(F, bp, {"DONE"}, {}), bp))
      PROVE  Coherent'
  <2> DEFINE S == SetFlags(F, bp, {"DONE"}, {})
             X == {bp}
  <2>1. /\ F \in StateRec /\ F.free = free
        /\ \A x \in Buf \ {bp} : F.buf[x] = buf[x]
        /\ F.buf[bp].data = disk[b] /\ F.buf[bp].flags = f
        /\ F.buf[bp].block = b /\ F.buf[bp].size = buf[bp].size
    <3>1. disk[b] \in Val
      BY <1>1, <1>2 DEF Typed, LocalTyped
    <3> HIDE DEF b
    <3>. QED  BY <1>4, <3>1, FillIs DEF b
  <2>2. Becomes(Complete(S, bp))
    BY <1>5
  <2> HIDE DEF F
  <2>3. Flagged(F, S, bp, (F.buf[bp].flags \ {}) \cup {"DONE"})
    <3>1. {"DONE"} \in SUBSET Flags
      BY DEF Flags
    <3>. QED  BY <2>1, <3>1, SetFlagsIs
  <2> HIDE DEF S
  <2>4. /\ S \in StateRec /\ S.free = free
        /\ \A x \in Buf \ {bp} : S.buf[x] = buf[x]
        /\ S.buf[bp].data = disk[b] /\ S.buf[bp].flags = f \cup {"DONE"}
        /\ S.buf[bp].block = b /\ ~Dead(S.buf[bp])
    BY <1>2, <2>1, <2>3 DEF Flagged, Dead
  <2>5. /\ \A x \in Buf \ {bp} : buf'[x] = buf[x]
        /\ buf'[bp].data = disk[b] /\ buf'[bp].block = b
        /\ buf'[bp].flags \cap Telling = (f \cup {"DONE"}) \cap Telling
    BY <1>1, <2>2, <2>4, CompletedBuffer
  <2>6. ~Owed(bp)
    BY <1>2, <1>5 DEF Owed
  <2>7. disk[b] = content[b]
    BY <1>2, <1>3, <2>6 DEF DiskOK
  <2>8. DataOK(bp)'
    <3>1. ~Owed(bp)'
      BY <1>1, <1>2, <2>5 DEF Owed, Telling
    <3>. QED  BY <1>1, <2>5, <2>7, <3>1 DEF DataOK
  <2>9. /\ X \in SUBSET Buf /\ \A x \in Buf \ X : Kept(x)
        /\ \A x \in X : /\ Owed(x) => Owed(x)' /\ buf'[x].block = buf[x].block
                        /\ DataOK(x)'
    BY <1>1, <2>5, <2>6, <2>8 DEF Kept
  <2> HIDE DEF X
  <2>. QED  BY <1>1, <1>5, <2>9, CoherentFramed
<1>6. ASSUME "READ" \in f, disk' = disk,
             Becomes(Complete(SetFlags(Now, bp, {"DONE", "ERROR"}, {}), bp))
      PROVE  Coherent'
  <2> DEFINE S == SetFlags(Now, bp, {"DONE", "ERROR"}, {})
  <2>1. Flagged(Now, S, bp, (Now.buf[bp].flags \ {}) \cup {"DONE", "ERROR"})
    <3>1. {"DONE", "ERROR"} \in SUBSET Flags
      BY DEF Flags
    <3>. QED  BY <1>4, <3>1, SetFlagsIs
  <2>2. Becomes(Complete(S, bp))
    BY <1>6
  <2> HIDE DEF S
  <2>3. /\ S \in StateRec /\ S.free = free
        /\ \A x \in Buf \ {bp} : S.buf[x] = buf[x]
        /\ S.buf[bp].flags = f \cup {"DONE", "ERROR"}
    BY <1>4, <2>1 DEF Flagged
  <2>4. /\ \A x \in Buf \ {bp} : buf'[x] = buf[x]
        /\ \/ buf'[bp].flags \cap Telling = (f \cup {"DONE", "ERROR"}) \cap Telling
           \/ buf'[bp].block = None /\ "DELWRI" \notin buf'[bp].flags
    BY <1>1, <2>2, <2>3, CompletedBuffer
  <2>5. ~Owed(bp) /\ Blank(bp)'
    BY <1>1, <1>2, <1>6, <2>4 DEF Owed, Blank, Telling
  <2>. QED  BY <1>1, <1>6, <2>4, <2>5, OneTouched
<1>7. ASSUME "READ" \notin f, disk' = [disk EXCEPT ![b] = buf[bp].data],
             Becomes(Complete(SetFlags(Now, bp, {"DONE"}, {}), bp))
      PROVE  Coherent'
  <2> DEFINE S == SetFlags(Now, bp, {"DONE"}, {})
  <2>1. Flagged(Now, S, bp, (Now.buf[bp].flags \ {}) \cup {"DONE"})
    <3>1. {"DONE"} \in SUBSET Flags
      BY DEF Flags
    <3>. QED  BY <1>4, <3>1, SetFlagsIs
  <2>2. Becomes(Complete(S, bp))
    BY <1>7
  <2> HIDE DEF S
  <2>3. /\ S \in StateRec /\ S.free = free
        /\ \A x \in Buf \ {bp} : S.buf[x] = buf[x]
        /\ S.buf[bp].data = buf[bp].data /\ S.buf[bp].flags = f \cup {"DONE"}
        /\ S.buf[bp].block = b /\ ~Dead(S.buf[bp])
    BY <1>2, <1>4, <2>1 DEF Flagged, Dead
  <2>4. /\ \A x \in Buf \ {bp} : buf'[x] = buf[x]
        /\ buf'[bp].data = buf[bp].data /\ buf'[bp].block = b
        /\ buf'[bp].flags \cap Telling = (f \cup {"DONE"}) \cap Telling
    BY <1>1, <2>2, <2>3, CompletedBuffer
  <2>5. buf[bp].data = content[b]
    BY <1>1, <1>2, <1>7 DEF DataOK, Owed
  <2>6. /\ disk'[b] = content[b] /\ \A c \in Block \ {b} : disk'[c] = disk[c]
    BY <1>1, <1>2, <1>7, <2>5 DEF Typed, LocalTyped
  <2>7. DataOK(bp)'
    BY <1>1, <2>4, <2>5 DEF DataOK
  <2>8. ASSUME NEW x \in Buf \ {bp}
        PROVE  DataOK(x)' /\ (Owed(x) => Owed(x)')
    <3>1. DataOK(x) /\ buf'[x] = buf[x] /\ (x \in io' <=> x \in io)
      BY <1>1, <2>4 DEF Coherent
    <3>. QED  BY <1>1, <3>1 DEF DataOK, Owed, Filled
  <2>9. ASSUME NEW c \in Block, disk'[c] # content[c]
        PROVE  \E x \in Buf : buf'[x].block = c /\ Owed(x)'
    <3>1. c # b /\ disk[c] # content[c] /\ DiskOK(c)
      BY <2>6, <2>9 DEF Coherent
    <3>2. PICK x \in Buf : buf[x].block = c /\ Owed(x)
      BY <3>1 DEF DiskOK
    <3>3. x # bp
      BY <3>1, <3>2
    <3>. QED  BY <2>4, <2>8, <3>2, <3>3
  <2>. QED  BY <1>1, <2>7, <2>8, <2>9 DEF Coherent, DiskOK
<1>. QED  BY <1>5, <1>6, <1>7 DEF Biodone

(* A step that may take a buffer from its holder or give it one.           *)
LEMMA CoherentNext ==
  ASSUME Order, Coherent, OneBufferPerBlock, [Next]_vars
  PROVE  Coherent'
<1>1. ASSUME NEW bp \in Buf, Biodone(bp)
      PROVE  Coherent'
  BY <1>1, BiodoneCoherent
<1>2. ASSUME NEW p \in Proc, NEW b \in Block,
             NEW h \in {"bread", "getblk", "ahead"}, Start(p, b, h)
      PROVE  Coherent'
  <2>1. UNCHANGED <<buf, io, disk, content>>
    BY <1>2 DEF Start, state
  <2>. QED  BY <2>1, NoneTouched
<1>3. ASSUME NEW p \in Proc,
             \/ Getblk(p) \/ Newbuf(p) \/ Allocbuf(p) \/ Got(p) \/ Read(p)
             \/ Release(p) \/ BwriteDone(p)
      PROVE  Coherent'
  BY <1>3, GetblkCoherent, NewbufCoherent, AllocbufCoherent, GotCoherent,
     ReadCoherent
<1>4. ASSUME NEW p \in Proc, NEW v \in Val,
             Bdwrite(p, v) \/ Bawrite(p, v) \/ Bwrite(p, v)
      PROVE  Coherent'
  BY <1>4, WritesCoherent
<1>5. CASE UNCHANGED vars
  <2>1. UNCHANGED <<buf, io, disk, content>>
    BY <1>5 DEF vars, state
  <2>. QED  BY <2>1, NoneTouched
<1>. QED  BY <1>1, <1>2, <1>3, <1>4, <1>5 DEF Next

(* At first no buffer has a block, and the disk is what was written.       *)
LEMMA CoherentInit == Init => Coherent
<1>1. SUFFICES ASSUME Init PROVE Coherent
  OBVIOUS
<1>2. disk = content
  BY <1>1 DEF Init
<1>3. \A bp \in Buf : buf[bp].block = None
  BY <1>1 DEF Init
<1>. QED  BY <1>2, <1>3 DEF Coherent, DataOK, DiskOK

(* What a process that bread() gives a buffer finds in it.                 *)
LEMMA BreadGives ==
  ASSUME Order, Coherent, NEW p \in Proc, Use(p), held[p] # None,
         Filled(held[p]), "ERROR" \notin buf[held[p]].flags, how[p] = "bread"
  PROVE  seen' = [seen EXCEPT ![p] = content[want[p]]]
<1>1. /\ held[p] \in Buf /\ want[p] \in Block
      /\ buf[held[p]].block = want[p] /\ buf[held[p]].block # None
  BY HeldIs
<1>2. DataOK(held[p])
  BY <1>1 DEF Coherent
<1>3. buf[held[p]].data = content[want[p]]
  BY <1>1, <1>2 DEF DataOK
<1>. QED  BY <1>3 DEF Use

(* Every step of the cache is one of the store, or none.                   *)
LEMMA StoreNext ==
  ASSUME Order, Coherent, [Next]_vars
  PROVE  [Store!Next]_<<content, seen>>
<1>1. /\ Typed /\ content \in [Block -> Val]
      /\ seen \in [Proc -> Val \cup {None}]
  BY DEF Order, Typed, LocalTyped
<1>2. ASSUME UNCHANGED <<content, seen>>
      PROVE  [Store!Next]_<<content, seen>>
  BY <1>2
<1>3. ASSUME NEW p \in Proc, content' = content,
             seen' = [seen EXCEPT ![p] = None]
      PROVE  Store!Next
  BY <1>3 DEF Store!Next, Store!Release
<1>4. ASSUME NEW p \in Proc, Use(p), content' = content, held[p] # None,
             how[p] = "bread" =>
               Filled(held[p]) /\ "ERROR" \notin buf[held[p]].flags
      PROVE  [Store!Next]_<<content, seen>>
  <2>1. CASE how[p] = "bread"
    <3>1. seen' = [seen EXCEPT ![p] = content[want[p]]]
      BY <1>4, <2>1, BreadGives
    <3>2. want[p] \in Block
      BY <1>4, HeldIs
    <3>. QED  BY <1>4, <3>1, <3>2 DEF Store!Next, Store!Read
  <2>2. CASE how[p] # "bread"
    <3>1. seen' = [seen EXCEPT ![p] = seen[p]]
      BY <1>4, <2>2 DEF Use
    <3>2. seen' = seen
      BY <1>1, <3>1
    <3>. QED  BY <1>2, <1>4, <3>2
  <2>. QED  BY <2>1, <2>2
<1>5. ASSUME NEW p \in Proc, Got(p)
      PROVE  [Store!Next]_<<content, seen>>
  <2>1. HoldOK(p) /\ pc[p] = "got" /\ content' = content
    BY <1>5 DEF Order, Got, Runs
  <2>2. held[p] # None
    BY <2>1 DEF HoldOK
  <2>3. "ERROR" \notin buf[held[p]].flags
    BY <2>1, <2>2, HeldIs DEF Holds
  <2>4. \/ Use(p) /\ (how[p] = "getblk" \/ Filled(held[p]))
        \/ seen' = seen
        \/ Leave(p)
    BY <1>5, Zenon DEF Got
  <2>5. CASE Use(p) /\ (how[p] = "getblk" \/ Filled(held[p]))
    BY <1>4, <2>1, <2>2, <2>3, <2>5
  <2>6. CASE seen' = seen
    BY <1>2, <2>1, <2>6
  <2>7. CASE Leave(p)
    BY <1>3, <2>1, <2>7 DEF Leave
  <2>. QED  BY <2>4, <2>5, <2>6, <2>7
<1>6. ASSUME NEW p \in Proc, Read(p)
      PROVE  [Store!Next]_<<content, seen>>
  <2>1. HoldOK(p) /\ pc[p] = "biowait" /\ content' = content
    BY <1>6 DEF Order, Read, Runs
  <2>2. held[p] # None
    BY <2>1 DEF HoldOK
  <2>3. Filled(held[p])
    BY <1>6 DEF Read, Filled
  <2>4. CASE Use(p) /\ "ERROR" \notin buf[held[p]].flags
    BY <1>4, <2>1, <2>2, <2>3, <2>4
  <2>5. CASE Leave(p)
    BY <1>3, <2>1, <2>5 DEF Leave
  <2>. QED  BY <1>6, <2>4, <2>5 DEF Read
<1>7. ASSUME NEW p \in Proc, Release(p) \/ BwriteDone(p)
      PROVE  Store!Next
  BY <1>3, <1>7 DEF Release, BwriteDone, Leave
<1>8. ASSUME NEW p \in Proc, NEW v \in Val,
             Bdwrite(p, v) \/ Bawrite(p, v) \/ Bwrite(p, v)
      PROVE  Store!Next
  <2>1. /\ content' = [content EXCEPT ![want[p]] = v]
        /\ seen' = [seen EXCEPT ![p] = None] /\ pc[p] = "use"
    BY <1>8 DEF Bdwrite, Bawrite, Bwrite, Written, Leave, Runs
  <2>2. want[p] \in Block
    BY <2>1 DEF Order, HoldOK
  <2>. QED  BY <2>1, <2>2 DEF Store!Next, Store!Write
<1>9. ASSUME NEW p \in Proc,
             \/ \E b \in Block, h \in {"bread", "getblk", "ahead"} :
                  Start(p, b, h)
             \/ Getblk(p) \/ Newbuf(p) \/ Allocbuf(p)
      PROVE  UNCHANGED <<content, seen>>
  BY <1>9 DEF Start, Getblk, Newbuf, Allocbuf
<1>10. ASSUME NEW bp \in Buf, Biodone(bp)
       PROVE  UNCHANGED <<content, seen>>
  BY <1>10 DEF Biodone
<1>11. CASE UNCHANGED vars
  BY <1>11 DEF vars
<1>. QED
  BY <1>2, <1>5, <1>6, <1>7, <1>8, <1>9, <1>10, <1>11 DEF Next

(* The store begins with what the disk holds.                              *)
LEMMA StoreInit == Init => Store!Init
<1>1. SUFFICES ASSUME Init PROVE Store!Init
  OBVIOUS
<1>2. content \in [Block -> Val] /\ seen = [p \in Proc |-> None]
  BY <1>1 DEF Init
<1>. QED  BY <1>2 DEF Store!Init

(* The cache is the store of BlockStore, where the strategy routine does   *)
(* not sleep: whatever is evicted, read ahead, written late, resized or    *)
(* read with an error, what bread() gives is what was last written.        *)
THEOREM CacheIsAStore == ASSUME ~Sleepy PROVE Spec => ImplementsBlockStore
<1> DEFINE IInv == CacheInv /\ Order /\ Coherent
<1>1. Init => IInv
  BY InitCache, OrderInit, CoherentInit
<1>2. IInv /\ [Next]_vars => IInv'
  <2>1. SUFFICES ASSUME IInv, [Next]_vars
                 PROVE  IInv'
    OBVIOUS
  <2>2. OneBufferPerBlock
    BY <2>1 DEF CacheInv, Chains
  <2>. QED  BY <2>1, <2>2, StepKeeps, OrderNext, CoherentNext
<1>3. IInv /\ [Next]_vars => [Store!Next]_<<content, seen>>
  BY StoreNext
<1>4. Init => Store!Init
  BY StoreInit
<1>. QED  BY <1>1, <1>2, <1>3, <1>4, PTL DEF Spec, ImplementsBlockStore, Store!Spec
=============================================================================
