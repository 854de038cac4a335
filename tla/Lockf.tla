-------------------------------- MODULE Lockf --------------------------------
(***************************************************************************)
(* Advisory locks, sys/ufs/ufs/ufs_lockf.c: lf_setlock() and               *)
(* lf_clearlock() on the lock list of one inode, with the requests that    *)
(* wait on its locks and the search for deadlocks. fcntl() locks           *)
(* ("POSIX") belong to a process, flock() locks to an open file.           *)
(*                                                                         *)
(* The kernel is not preemptive, so an action is what a process does       *)
(* between two sleeps; the first is in ufs_advlock(), which needs memory   *)
(* for the request. A request without F_WAIT that is refused changes       *)
(* nothing, nor does lf_getlock(). lf_wakelock() and lf_split() mention a  *)
(* field lf_spare that struct lockf no longer has; they are modelled       *)
(* without it. An operator named Bug... is a plausible slip in the         *)
(* definition after it.                                                    *)
(***************************************************************************)
EXTENDS Integers, SequencesExt

CONSTANTS
  Proc,
  File,          \* the open files
  Asks,          \* the locks and unlocks that each process may ask for:
                 \* ranges of its own, end EOF or a byte, and whole open files
  End,           \* bound: no range starts behind it, or ends there or behind
  MaxDepth,      \* maxlockdepth
  SplitSleeps    \* the types of request for which MALLOC(M_WAITOK) in
                 \* lf_split() may sleep

EOF == -1
Owner == Proc \cup File
Byte == 0 .. End         \* End stands for all bytes from there on

ASSUME LockfAssumption ==
  /\ IsFiniteSet(Proc) /\ Proc \cap File = {}
  /\ End \in Nat /\ MaxDepth \in Nat
  /\ SplitSleeps \subseteq {"RD", "WR", "UN"}
  /\ \A p \in Proc : \A a \in Asks[p] :
       /\ a.type \in {"RD", "WR", "UN"}
       /\ a.start \in Byte /\ a.end \in (a.start .. (End - 1)) \cup {EOF}
       /\ a.id = p \/ (a.id \in File /\ a.start = 0 /\ a.end = EOF)

VARIABLES
  list,     \* i_lockf: the locks, each with the requests blocked on it
  pc,       \* "idle", "called", "asleep" on a lock, woken to "retry", or in
            \* lf_split()
  req,      \* the request of a process that is not idle
  stale,    \* sleepers whose lf_next points to a lock that has been freed
  missed,   \* sleepers that came to a lock while its owner was in lf_split(),
            \* to release a part of it, and were not woken after it
  wild      \* freed memory has been written to

vars == <<list, pc, req, stale, missed, wild>>

Area(k) == {b \in Byte : k.start <= b /\ (k.end = EOF \/ b <= k.end)}

NoRequest == [type |-> "none"]

Locks(p) == {a \in Asks[p] : a.type # "UN"}

-----------------------------------------------------------------------------
(* lf_findoverlap(): how the lock f lies to the lock k.                    *)

Apart(f, k) == \/ f.end # EOF /\ k.start > f.end
               \/ k.end # EOF /\ f.start > k.end

Behind(f, k) == k.end # EOF /\ f.start > k.end

BugEncloses(f, k) == f.start <= k.start /\ (f.end >= k.end \/ f.end = EOF)

Encloses(f, k) ==
  f.start <= k.start /\ k.end # EOF /\ (f.end >= k.end \/ f.end = EOF)

Within(f, k) ==
  k.start <= f.start /\ (k.end = EOF \/ (f.end # EOF /\ k.end >= f.end))

Overlap(f, k) ==
  CASE Apart(f, k) -> 0
    [] OTHER -> IF f.start = k.start /\ f.end = k.end THEN 1
                ELSE IF Encloses(f, k) THEN 2
                ELSE IF Within(f, k) THEN 3
                ELSE IF f.start < k.start THEN 4 ELSE 5

(* The locks of its owner that a request meets: the search ends with a     *)
(* lock that reaches to its end or lies behind.                            *)
Met(l, k) ==
  {i \in DOMAIN l :
     /\ l[i].id = k.id /\ Overlap(l[i], k) # 0
     /\ \A j \in 1 .. (i - 1) :
          l[j].id = k.id => Overlap(l[j], k) \in {0, 3, 4} /\ ~Behind(l[j], k)}

Conflict(f, k) ==
  f.id # k.id /\ ~Apart(f, k) /\ (k.type = "WR" \/ f.type = "WR")

(* lf_getblock() returns the first of these.                               *)
Blocks(l, k) == {i \in DOMAIN l : Conflict(l[i], k)}

-----------------------------------------------------------------------------
(* What is left of a lock f of which k takes a part, and the list in which *)
(* k has taken its part of every lock it meets, with mid at its place.     *)

Left(f, k) ==
  IF Overlap(f, k) = 4 \/ (Overlap(f, k) = 2 /\ f.start # k.start)
  THEN <<[f EXCEPT !.end = k.start - 1]>> ELSE <<>>

BugRight(f, k) ==
  IF Overlap(f, k) = 5 \/ (Overlap(f, k) = 2 /\ f.end # k.end)
  THEN <<[f EXCEPT !.start = k.end, !.blk = <<>>]>> ELSE <<>>

Right(f, k) ==
  IF Overlap(f, k) = 5 \/ (Overlap(f, k) = 2 /\ f.end # k.end)
  THEN <<[f EXCEPT !.start = k.end + 1,
                   !.blk = IF Left(f, k) = <<>> THEN @ ELSE <<>>]>>
  ELSE <<>>

Place(l, k) ==
  Min(IF Met(l, k) # {} THEN Met(l, k)
      ELSE {i \in DOMAIN l : l[i].id = k.id /\ Behind(l[i], k)}
             \cup {Len(l) + 1})

Cut(l, k, mid) ==
  LET Before(i) == IF i \in Met(l, k) THEN Left(l[i], k) ELSE <<>>
      At(i) == IF i = Place(l, k) THEN mid ELSE <<>>
      After(i) == IF i \in Met(l, k) THEN Right(l[i], k)
                  ELSE IF i \in DOMAIN l THEN <<l[i]>> ELSE <<>>
  IN  FlattenSeq([i \in 1 .. (Len(l) + 1) |-> Before(i) \o At(i) \o After(i)])

(* lf_wakelock() on some of the locks.                                     *)
Roused(l, locks) ==
  [i \in DOMAIN l |-> IF i \in locks THEN [l[i] EXCEPT !.blk = <<>>] ELSE l[i]]

Waiters(l, locks) == UNION {ToSet(l[i].blk) : i \in locks}

-----------------------------------------------------------------------------
(* The rest of lf_setlock(k) when no lock blocks it.                       *)

BugDowngrades(f, k) == FALSE

Downgrades(f, k) == k.type = "RD" /\ f.type = "WR"

(* Those who wait for a part of f that k takes wake up, unless they can    *)
(* wait for k as well.                                                     *)
Wakes(f, k) == \/ Overlap(f, k) \in {1, 3} /\ Downgrades(f, k)
               \/ Overlap(f, k) = 2 /\ f.type # k.type
               \/ Overlap(f, k) \in {4, 5}

Waking(l, k) == {i \in Met(l, k) : Wakes(l[i], k)}

(* The owner has just this lock, or all of k in a lock of the same type.   *)
InPlace(f, k) == Overlap(f, k) = 1 \/ (Overlap(f, k) = 2 /\ f.type = k.type)

(* The locks that go while their waiters go on waiting, for k.             *)
Swallowed(l, k) ==
  {i \in Met(l, k) : Overlap(l[i], k) = 3 /\ ~Downgrades(l[i], k)}

Granted(l, k) ==
  LET m == Met(l, k)
      awake == Roused(l, Waking(l, k))
      taken == [i \in DOMAIN l |->
                  IF i \in Swallowed(l, k) THEN l[i].blk ELSE <<>>]
  IN  IF \E i \in m : InPlace(l[i], k)
      THEN [i \in DOMAIN l |-> IF i \in m THEN [awake[i] EXCEPT !.type = k.type]
                               ELSE awake[i]]
      ELSE Cut(awake, k,
               <<[id |-> k.id, type |-> k.type, start |-> k.start,
                  end |-> k.end, blk |-> FlattenSeq(taken)]>>)

(* lf_clearlock(k) wakes the waiters of each lock it meets.                *)
Cleared(l, k) == Cut(Roused(l, Met(l, k)), k, <<>>)

(* lf_split() makes a third lock, for which it needs memory.               *)
SplitsInThree(f, k) ==
  Overlap(f, k) = 2 /\ f.start # k.start /\ f.end # k.end /\ f.type # k.type

Splits(l, k) == \E i \in Met(l, k) : SplitsInThree(l[i], k)

-----------------------------------------------------------------------------
(* p goes on to another state, and others are woken, left to wait for a    *)
(* lock that is freed or missed by a wakeup.                               *)
Becomes(p, how, k, woken, freed, late) ==
  /\ pc' = [q \in Proc |-> IF q = p THEN how
                           ELSE IF q \in woken THEN "retry" ELSE pc[q]]
  /\ req' = [req EXCEPT ![p] = k]
  /\ stale' = (stale \ (woken \cup {p})) \cup freed
  /\ missed' = (missed \ (woken \cup {p})) \cup late

Grant(p, k) ==
  /\ list' = Granted(list, k)
  /\ Becomes(p, "idle", NoRequest, Waiters(list, Waking(list, k)),
             Waiters(list, Swallowed(list, k)), {})
  /\ UNCHANGED wild

Take(p, k) ==
  /\ Blocks(list, k) = {}
  /\ \/ Grant(p, k)
     \/ /\ k.type \in SplitSleeps /\ Splits(list, k)
        /\ Becomes(p, "split", k, {}, {}, {})
        /\ UNCHANGED <<list, wild>>

(* Whose lock the sleeper q waits for.                                     *)
WaitsFor(q) ==
  list[CHOOSE i \in DOMAIN list : q \in ToSet(list[i].blk)].id

(* Does the walk from the process q along the sleepers find p? One that    *)
(* reads a lock that has been freed may find anything.                     *)
BugVerdicts(p, q) == {pc[q] = "asleep" /\ q \notin stale /\ WaitsFor(q) = p}

Verdicts(p, q) ==
  LET from[n \in 0 .. MaxDepth] ==
        [r \in Proc |->
           IF pc[r] # "asleep" \/ n = 0 THEN {FALSE}
           ELSE IF r \in stale THEN BOOLEAN
           ELSE IF WaitsFor(r) \in File THEN {FALSE}
           ELSE IF WaitsFor(r) = p THEN {TRUE} ELSE from[n - 1][WaitsFor(r)]]
  IN  from[MaxDepth][q]

(* lf_setlock() fails with EDEADLK, or it sleeps; the owner of a flock()   *)
(* lock gives it up before it waits for an exclusive one.                  *)
FindsDeadlock(p, k, found) ==
  LET block == list[Min(Blocks(list, k))]
  IN  IF k.id = p /\ block.id \in Proc THEN found \in Verdicts(p, block.id)
      ELSE ~found

Refuse(p, k) ==
  /\ Blocks(list, k) # {} /\ FindsDeadlock(p, k, TRUE)
  /\ Becomes(p, "idle", NoRequest, {}, {}, {})
  /\ UNCHANGED <<list, wild>>

Sleep(p, k) ==
  LET gives == k.id \in File /\ k.type = "WR"
      left == IF gives THEN Cleared(list, k) ELSE list
      woken == IF gives THEN Waiters(list, Met(list, k)) ELSE {}
  IN  /\ Blocks(list, k) # {} /\ FindsDeadlock(p, k, FALSE)
      /\ list' = [left EXCEPT ![Min(Blocks(left, k))].blk = Append(@, p)]
      /\ Becomes(p, "asleep", k, woken, {}, {})
      /\ UNCHANGED wild

(* ufs_advlock(): MALLOC() of the request may sleep.                       *)
Call(p) ==
  /\ pc[p] = "idle"
  /\ \E k \in Asks[p] : Becomes(p, "called", k, {}, {}, {})
  /\ UNCHANGED <<list, wild>>

Decide(p) == Take(p, req[p]) \/ Refuse(p, req[p]) \/ Sleep(p, req[p])

SetLock(p) == pc[p] = "called" /\ req[p] \in Locks(p) /\ Decide(p)

Retry(p) == pc[p] = "retry" /\ Decide(p)

(* fcntl(F_UNLCK), flock(LOCK_UN) and closef().                            *)
Release(p, k) ==
  LET woken == Waiters(list, Met(list, k))
  IN  \/ /\ list' = Cleared(list, k)
         /\ Becomes(p, "idle", NoRequest, woken, {}, {})
      \/ /\ k.type \in SplitSleeps /\ Splits(list, k)
         /\ list' = Roused(list, Met(list, k))
         /\ Becomes(p, "split", k, woken, {}, {})

Unlock(p) ==
  /\ pc[p] = "called" /\ req[p] \notin Locks(p)
  /\ Release(p, req[p])
  /\ UNCHANGED wild

(* MALLOC() returns: lf_split() and its caller go on where they were.      *)
ResumeSetLock(p) == pc[p] = "split" /\ req[p] \in Locks(p) /\ Grant(p, req[p])

ResumeUnlock(p) ==
  /\ pc[p] = "split" /\ req[p] \notin Locks(p)
  /\ list' = Cut(list, req[p], <<>>)
  /\ Becomes(p, "idle", NoRequest, {}, {},
             Waiters(list, Met(list, req[p])))
  /\ UNCHANGED wild

(* A signal. The sleeper leaves its queue through lf_next: the last of a   *)
(* queue writes to the head it finds there.                                *)
Interrupt(p) ==
  /\ pc[p] \in {"asleep", "retry"}
  /\ list' = [i \in DOMAIN list |-> [list[i] EXCEPT !.blk = RemoveFirst(@, p)]]
  /\ wild' = (p \in stale /\ \E i \in DOMAIN list :
                               list[i].blk # <<>> /\ Last(list[i].blk) = p)
  /\ Becomes(p, "idle", NoRequest, {}, {}, {})

Init ==
  /\ list = <<>> /\ stale = {} /\ missed = {} /\ wild = FALSE
  /\ pc = [p \in Proc |-> "idle"] /\ req = [p \in Proc |-> NoRequest]

Step(p) == \/ Call(p) \/ SetLock(p) \/ Retry(p) \/ Unlock(p) \/ Interrupt(p)
           \/ ResumeSetLock(p) \/ ResumeUnlock(p)

(* After a write to freed memory nothing is known.                         *)
Next == ~wild /\ \E p \in Proc : Step(p)

Spec == Init /\ [][Next]_vars

-----------------------------------------------------------------------------
(* The variables have their types, each lock covers a byte and those of an *)
(* owner are in order and apart, as lf_findoverlap() needs them to stop.   *)
TypeOK ==
  /\ \A i \in DOMAIN list :
       /\ list[i].id \in Owner /\ list[i].type \in {"RD", "WR"}
       /\ list[i].start \in Byte /\ list[i].end \in Byte \cup {EOF}
       /\ list[i].blk \in Seq(Proc)
       /\ Area(list[i]) # {}
       /\ \A j \in 1 .. (i - 1) :
            list[j].id = list[i].id => Behind(list[i], list[j])
  /\ \A p \in Proc :
       CASE pc[p] = "idle" -> req[p] = NoRequest
         [] pc[p] \in {"asleep", "retry"} -> req[p] \in Locks(p)
         [] pc[p] \in {"called", "split"} -> req[p] \in Asks[p]
  /\ stale \cup missed \subseteq {p \in Proc : pc[p] = "asleep"}
  /\ wild \in BOOLEAN

(* Whoever sleeps in lf_setlock() is once on the queue of one lock, and    *)
(* that lock still stands in its way: no release, downgrade or split of a  *)
(* lock leaves a request behind that it should have woken, but for those   *)
(* that come while lf_split() sleeps for lf_clearlock().                   *)
NobodySleepsForNothing ==
  \A p \in Proc :
    LET at == {i \in DOMAIN list : p \in ToSet(list[i].blk)}
    IN  IF pc[p] = "asleep"
        THEN /\ \E i \in at : /\ at = {i}
                              /\ p \in missed \/ Conflict(list[i], req[p])
             /\ \A i \in at : Cardinality({n \in DOMAIN list[i].blk :
                                             list[i].blk[n] = p}) = 1
        ELSE at = {}

(* No processes sleep in fcntl(), each for a byte range of the next: the   *)
(* one that closes the circle gets EDEADLK (comment at ufs_lockf.c:113),   *)
(* if the circle is no longer than the search and meets no freed lock.     *)
DeadlocksAreSeen ==
  \A circle \in SUBSET (Proc \ stale) :
    circle # {} /\ Cardinality(circle) <= MaxDepth + 1 =>
      \E p \in circle : \/ pc[p] # "asleep" \/ req[p].id # p
                        \/ WaitsFor(p) \notin circle

(* The lock of an owner on a byte.                                         *)
Holds(l, o, b) ==
  LET at == {i \in DOMAIN l : l[i].id = o /\ b \in Area(l[i])}
  IN  IF at = {} THEN "none" ELSE l[Min(at)].type

(* An exclusive lock keeps all others off its bytes (fcntl.2:222).         *)
Exclusion ==
  \A o \in Owner, r \in Owner, b \in Byte :
    o # r /\ Holds(list, o, b) = "WR" => Holds(list, r, b) = "none"

Bytes == INSTANCE ByteLocks
  WITH holds <- [o \in Owner |-> [b \in Byte |-> Holds(list, o, b)]],
       ask <- req

(* The list, with its splits, merges, downgrades and upgrades, implements  *)
(* the map from bytes to locks that fcntl(2) describes: a lock request     *)
(* that ends sets the whole range it asked for, where no other owner is in *)
(* its way, or nothing; an unlock ends with its range free and no other    *)
(* byte changed; and a request that goes on waiting leaves the map alone,  *)
(* but for the flock() lock given up.                                      *)
ImplementsByteLocks == Bytes!Spec
=============================================================================
