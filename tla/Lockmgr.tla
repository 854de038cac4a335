------------------------------- MODULE Lockmgr -------------------------------
(***************************************************************************)
(* The kernel lock manager, lockmgr() of sys/kern/kern_lock.c: shared,     *)
(* exclusive, upgrade, downgrade, release and drain requests on one        *)
(* struct lock, for the uniprocessor DIAGNOSTIC build (every port in the   *)
(* tree defines NCPUS as 1, so PAUSE expands to nothing).                  *)
(*                                                                         *)
(* The interlock makes the code between two sleeps atomic, so an action is *)
(* a run of lockmgr() from its entry, or from the return of tsleep(), to   *)
(* the next tsleep() or the return to the caller.                          *)
(***************************************************************************)
EXTENDS Integers, FiniteSets

CONSTANTS
  Proc,       \* the callers, each with a pid of its own
  NoProc,     \* LK_NOPROC
  Types,      \* the request types the callers use
  ExtFlags,   \* the external flags the callers may pass
  Timeout,    \* TRUE when lk_timo # 0: tsleep may return EWOULDBLOCK
  Catch,      \* TRUE when lk_prio has PCATCH: tsleep may return EINTR
  Gated,      \* TRUE when callers start no new request beside a drain
  MaxExcl     \* bound on the recursion of exclusive locks

RequestTypes == {"SHARED", "EXCLUSIVE", "UPGRADE", "EXCLUPGRADE",
                 "DOWNGRADE", "RELEASE", "DRAIN"}

ASSUME ProcAssumption == NoProc \notin Proc /\ IsFiniteSet(Proc)
ASSUME TypesAssumption == Types \subseteq RequestTypes
ASSUME FlagsAssumption ==
  ExtFlags \subseteq {"NOWAIT", "SLEEPFAIL", "CANRECURSE"}
ASSUME TsleepAssumption == Timeout \in BOOLEAN /\ Catch \in BOOLEAN
ASSUME GatedAssumption == Gated \in BOOLEAN
ASSUME BoundAssumption == MaxExcl \in Nat \ {0}

VARIABLES
  lk,         \* the struct lock
  pc,         \* where each process is: "idle", or the wait it is in
  ext,        \* the external flags of the request in progress
  asleep,     \* the processes on a sleep queue of this lock
  failed,     \* the processes whose tsleep() will return an error
  panicked,   \* lockmgr() has called panic()
  shares,     \* the shared locks each caller has been granted
  excl        \* the exclusive locks each caller has been granted

vars == <<lk, pc, ext, asleep, failed, panicked, shares, excl>>
owned == <<shares, excl>>

ExclFlags == {"HAVE_EXCL", "WANT_EXCL", "WANT_UPGRADE"}
InternalFlags == ExclFlags \cup {"WAITDRAIN", "DRAINING", "DRAINED"}

(* The four waits on lkp, inside ACQUIRE; "drain" waits on &lkp->lk_flags. *)
AcquireStages == {"shared", "upgrade", "excl1", "excl2"}
Stages == AcquireStages \cup {"drain"}

LockRecord == [flags : SUBSET InternalFlags, sharecount : Nat,
               waitcount : Nat, exclusivecount : Nat,
               lockholder : Proc \cup {NoProc}]

TypeOK ==
  /\ lk \in LockRecord
  /\ pc \in [Proc -> Stages \cup {"idle"}]
  /\ ext \in [Proc -> SUBSET ExtFlags]
  /\ asleep \subseteq Proc
  /\ failed \subseteq Proc
  /\ panicked \in BOOLEAN
  /\ shares \in [Proc -> Nat]
  /\ excl \in [Proc -> Nat]

-----------------------------------------------------------------------------
(* Conditions on the fields of a lock record l. An operator named Bug...   *)
(* is a plausible slip in the definition after it; no behaviour uses it.   *)

BugBlocked(l) == l.flags \cap {"HAVE_EXCL", "WANT_UPGRADE"} # {}

Blocked(l) == l.flags \cap ExclFlags # {}

BugQuiet(l) == ~Blocked(l) /\ l.sharecount = 0

Quiet(l) == ~Blocked(l) /\ l.sharecount = 0 /\ l.waitcount = 0

BugWantedFirst(stage, l) ==
  CASE stage = "shared"  -> Blocked(l)
    [] stage = "upgrade" -> l.sharecount # 0
    [] stage = "excl1"   -> "HAVE_EXCL" \in l.flags
    [] stage = "excl2"   -> l.sharecount # 0 \/ "WANT_UPGRADE" \in l.flags
    [] stage = "drain"   -> ~Quiet(l)

BugWantedSecond(stage, l) ==
  CASE stage = "shared"  -> Blocked(l)
    [] stage = "upgrade" -> l.sharecount # 0
    [] stage = "excl1"   -> l.flags \cap {"HAVE_EXCL", "WANT_EXCL"} # {}
    [] stage = "excl2"   -> l.sharecount # 0
    [] stage = "drain"   -> ~Quiet(l)

(* The condition each ACQUIRE loop, and the drain loop, waits out.         *)
Wanted(stage, l) ==
  CASE stage = "shared"  -> Blocked(l)
    [] stage = "upgrade" -> l.sharecount # 0
    [] stage = "excl1"   -> l.flags \cap {"HAVE_EXCL", "WANT_EXCL"} # {}
    [] stage = "excl2"   -> l.sharecount # 0 \/ "WANT_UPGRADE" \in l.flags
    [] stage = "drain"   -> ~Quiet(l)

(* lockstatus(): the mode the lock is reported to be held in.              *)
LockStatus == IF lk.exclusivecount # 0 THEN "EXCLUSIVE"
              ELSE IF lk.sharecount # 0 THEN "SHARED"
              ELSE "NONE"

-----------------------------------------------------------------------------
(* The ways a run of lockmgr() ends: q is the sleep queue by then, s what  *)
(* the callers hold shared.                                                *)

(* wakeup(lkp): everybody waiting on the lock, but not the drainers, who   *)
(* wait on the address of its flags.                                       *)
Wakeup(q) == {r \in q : pc[r] = "drain"}

BugWakeWaiters(l) == IF l.waitcount > 1 THEN Wakeup(asleep) ELSE asleep

(* if (lkp->lk_waitcount) wakeup(lkp)                                      *)
WakeWaiters(l) == IF l.waitcount # 0 THEN Wakeup(asleep) ELSE asleep

(* The common tail: the last user of a lock with a drain pending clears    *)
(* LK_WAITDRAIN and wakes the drainer.                                     *)
Return(p, l, q) ==
  LET drained == "WAITDRAIN" \in l.flags /\ Quiet(l)
  IN  /\ lk' = IF drained THEN [l EXCEPT !.flags = @ \ {"WAITDRAIN"}] ELSE l
      /\ asleep' = IF drained THEN {r \in q : pc[r] # "drain"} ELSE q
      /\ pc' = [pc EXCEPT ![p] = "idle"]
      /\ ext' = [ext EXCEPT ![p] = {}]
      /\ failed' = failed \ {p}
      /\ UNCHANGED panicked

(* The sleep in ACQUIRE.                                                   *)
Wait(p, x, stage, l, q, s) ==
  /\ lk' = [l EXCEPT !.waitcount = @ + 1]
  /\ asleep' = q \cup {p}
  /\ pc' = [pc EXCEPT ![p] = stage]
  /\ ext' = [ext EXCEPT ![p] = x]
  /\ shares' = s
  /\ UNCHANGED <<failed, panicked, excl>>

(* panic(): nothing in the kernel runs any more.                           *)
Panic == panicked' = TRUE /\ UNCHANGED <<lk, pc, ext, asleep, failed, owned>>

GrantShared(p, l) ==
  /\ Return(p, [l EXCEPT !.sharecount = @ + 1], asleep)
  /\ shares' = [shares EXCEPT ![p] = @ + 1]
  /\ UNCHANGED excl

BugGrantExclusive(p, l, s) ==
  IF l.exclusivecount # 0
  THEN Panic
  ELSE /\ Return(p, [l EXCEPT !.lockholder = p, !.exclusivecount = 1], asleep)
       /\ excl' = [excl EXCEPT ![p] = 1]
       /\ shares' = s

(* How the exclusive and the upgrade case end.                             *)
GrantExclusive(p, l, s) ==
  IF l.exclusivecount # 0
  THEN Panic              \* "lockmgr: non-zero exclusive count"
  ELSE /\ Return(p, [l EXCEPT !.flags = @ \cup {"HAVE_EXCL"},
                              !.lockholder = p,
                              !.exclusivecount = 1], asleep)
       /\ excl' = [excl EXCEPT ![p] = 1]
       /\ shares' = s

GrantDrain(p, l) ==
  /\ Return(p, [l EXCEPT !.flags = @ \cup {"DRAINING", "HAVE_EXCL"},
                         !.lockholder = p,
                         !.exclusivecount = 1], asleep)
  /\ excl' = [excl EXCEPT ![p] = 1]
  /\ UNCHANGED shares

(* No lock is granted.                                                     *)
Refuse(p, l) == Return(p, l, asleep) /\ UNCHANGED owned

(* The two ACQUIREs of an exclusive request: one for LK_WANT_EXCL, one for *)
(* the shared locks and the upgrade ahead of it to go away.                *)
SeekExclusive(p, x, l, q, s) ==
  IF Wanted("excl1", l) THEN Wait(p, x, "excl1", l, q, s)
  ELSE IF Wanted("excl2", l)
  THEN Wait(p, x, "excl2", [l EXCEPT !.flags = @ \cup {"WANT_EXCL"}], q, s)
  ELSE GrantExclusive(p, l, s)

-----------------------------------------------------------------------------
(* The requests. A caller asks for what lock.h lets it ask: it does not    *)
(* wait for a lock it holds itself, it releases only what it was granted,  *)
(* and once the lock drains only the drainer uses it.                      *)

Calls(p, type, x) ==
  /\ ~panicked
  /\ pc[p] = "idle"
  /\ type \in Types
  /\ x \subseteq ExtFlags

(* No drain has happened, nor (behind the gate that VXLOCK and MNT_UNMOUNT *)
(* are in the kernel) is one under way.                                    *)
Usable ==
  /\ lk.flags \cap {"DRAINING", "DRAINED"} = {}
  /\ Gated => \A r \in Proc : pc[r] # "drain"

(* The DIAGNOSTIC check on entry: once a lock drains, the only valid       *)
(* request is the drainer's release.                                       *)
Barred(p, type) ==
  \/ "DRAINED" \in lk.flags
  \/ "DRAINING" \in lk.flags /\ (type # "RELEASE" \/ lk.lockholder # p)

HoldsNothing(p) == shares[p] = 0 /\ excl[p] = 0

Shared(p, x) ==
  /\ Calls(p, "SHARED", x)
  /\ Usable
  /\ HoldsNothing(p)
  /\ IF ~Blocked(lk) THEN GrantShared(p, lk)
     ELSE IF "NOWAIT" \in x THEN Refuse(p, lk)
     ELSE Wait(p, x, "shared", lk, asleep, shares)

BugDowngradeUnwoken(p, more) ==
  IF lk.lockholder # p \/ lk.exclusivecount = 0
  THEN Panic
  ELSE /\ Return(p, [lk EXCEPT !.sharecount = @ + lk.exclusivecount + more,
                               !.exclusivecount = 0,
                               !.flags = @ \ {"HAVE_EXCL"},
                               !.lockholder = NoProc], asleep)
       /\ shares' = [shares EXCEPT ![p] = @ + excl[p] + more]
       /\ excl' = [excl EXCEPT ![p] = 0]

BugDowngradeOne(p, more) ==
  IF lk.lockholder # p \/ lk.exclusivecount = 0
  THEN Panic
  ELSE /\ Return(p, [lk EXCEPT !.sharecount = @ + 1 + more,
                               !.exclusivecount = 0,
                               !.flags = @ \ {"HAVE_EXCL"},
                               !.lockholder = NoProc], WakeWaiters(lk))
       /\ shares' = [shares EXCEPT ![p] = @ + excl[p] + more]
       /\ excl' = [excl EXCEPT ![p] = 0]

(* LK_DOWNGRADE, and the LK_SHARED request of the exclusive holder, which  *)
(* falls into it with one share more.                                      *)
DowngradeTo(p, more) ==
  IF lk.lockholder # p \/ lk.exclusivecount = 0
  THEN Panic              \* "lockmgr: not holding exclusive lock"
  ELSE /\ Return(p, [lk EXCEPT !.sharecount = @ + lk.exclusivecount + more,
                               !.exclusivecount = 0,
                               !.flags = @ \ {"HAVE_EXCL"},
                               !.lockholder = NoProc], WakeWaiters(lk))
       /\ shares' = [shares EXCEPT ![p] = @ + excl[p] + more]
       /\ excl' = [excl EXCEPT ![p] = 0]

Downgrade(p) ==
  /\ ~Barred(p, "DOWNGRADE")
  /\ excl[p] > 0
  /\ \/ Calls(p, "DOWNGRADE", {}) /\ DowngradeTo(p, 0)
     \/ Calls(p, "SHARED", {}) /\ DowngradeTo(p, 1)

(* LK_UPGRADE and LK_EXCLUPGRADE: the share is given up first, whatever    *)
(* becomes of the request.                                                 *)
Upgrade(p, x, type) ==
  LET rival == "WANT_UPGRADE" \in lk.flags
      l == [lk EXCEPT !.sharecount = @ - 1]
      s == [shares EXCEPT ![p] = @ - 1]
      fails == \/ type = "EXCLUPGRADE" /\ rival
               \/ "NOWAIT" \in x /\ (rival \/ l.sharecount > 1)
  IN  /\ Calls(p, type, x)
      /\ type \in {"UPGRADE", "EXCLUPGRADE"}
      /\ shares[p] = 1
      /\ IF Barred(p, type) \/ lk.lockholder = p \/ lk.sharecount <= 0
         THEN Panic       \* "lockmgr: upgrade exclusive lock"
         ELSE
         \/ /\ fails
            /\ Return(p, l, asleep)
            /\ shares' = s
            /\ UNCHANGED excl
         \/ /\ ~fails /\ rival
            /\ SeekExclusive(p, x, l,
                 IF l.sharecount = 0 THEN WakeWaiters(l) ELSE asleep, s)
         \/ /\ ~fails /\ ~rival
            /\ IF Wanted("upgrade", l)
               THEN Wait(p, x, "upgrade",
                         [l EXCEPT !.flags = @ \cup {"WANT_UPGRADE"}],
                         asleep, s)
               ELSE GrantExclusive(p, l, s)

Exclusive(p, x) ==
  /\ Calls(p, "EXCLUSIVE", x)
  /\ Usable
  /\ HoldsNothing(p)
  /\ IF "NOWAIT" \in x /\ (Blocked(lk) \/ lk.sharecount # 0)
     THEN Refuse(p, lk)
     ELSE SeekExclusive(p, x, lk, asleep, shares)

(* The exclusive holder asks again; without LK_CANRECURSE that is the      *)
(* panic "locking against myself", which callers avoid.                    *)
Recurse(p) ==
  /\ Calls(p, "EXCLUSIVE", {"CANRECURSE"})
  /\ ~Barred(p, "EXCLUSIVE")
  /\ excl[p] \in 1 .. MaxExcl - 1
  /\ Return(p, [lk EXCEPT !.exclusivecount = @ + 1], asleep)
  /\ excl' = [excl EXCEPT ![p] = @ + 1]
  /\ UNCHANGED shares

(* LK_RELEASE of one lock. That of a drained lock decommissions it, unless *)
(* LK_REENABLE is passed.                                                  *)
Release(p, reenable) ==
  LET draining == "DRAINING" \in lk.flags
      f == IF ~draining THEN lk.flags
           ELSE (lk.flags \ {"DRAINING"})
                \cup (IF reenable THEN {} ELSE {"DRAINED"})
      x == lk.exclusivecount - 1
      unlocked == [lk EXCEPT !.flags = f \ {"HAVE_EXCL"},
                             !.exclusivecount = 0,
                             !.lockholder = NoProc]
      l == IF lk.exclusivecount # 0
           THEN IF x = 0 THEN unlocked
                ELSE [lk EXCEPT !.flags = f, !.exclusivecount = x]
           ELSE IF lk.sharecount # 0 THEN [lk EXCEPT !.sharecount = @ - 1]
           ELSE lk
  IN  /\ Calls(p, "RELEASE", {})
      /\ ~HoldsNothing(p)
      /\ IF \/ Barred(p, "RELEASE")
            \/ lk.exclusivecount # 0 /\ lk.lockholder # p
         THEN Panic       \* "lockmgr: pid %d, not %s %d unlocking"
         ELSE /\ Return(p, l, WakeWaiters(l))
              /\ IF excl[p] > 0
                 THEN excl' = [excl EXCEPT ![p] = @ - 1] /\ UNCHANGED shares
                 ELSE shares' = [shares EXCEPT ![p] = @ - 1] /\ UNCHANGED excl

(* LK_DRAIN: one caller, who is about to free the memory of the lock.      *)
AwaitDrain(p, x) ==
  /\ lk' = [lk EXCEPT !.flags = @ \cup {"WAITDRAIN"}]
  /\ asleep' = asleep \cup {p}
  /\ pc' = [pc EXCEPT ![p] = "drain"]
  /\ ext' = [ext EXCEPT ![p] = x]
  /\ UNCHANGED <<failed, panicked, owned>>

Drain(p, x) ==
  /\ Calls(p, "DRAIN", x)
  /\ Usable
  /\ HoldsNothing(p)
  /\ \A r \in Proc : pc[r] # "drain"
  /\ IF Quiet(lk) THEN GrantDrain(p, lk)
     ELSE IF "NOWAIT" \in x THEN Refuse(p, lk)
     ELSE AwaitDrain(p, x)

(* lockinit(), on the memory of a decommissioned lock put to new use.      *)
Fresh == [flags |-> {}, sharecount |-> 0, waitcount |-> 0,
          exclusivecount |-> 0, lockholder |-> NoProc]

Reinit ==
  /\ ~panicked
  /\ "DRAINED" \in lk.flags
  /\ lk' = Fresh
  /\ UNCHANGED <<pc, ext, asleep, failed, panicked, owned>>

-----------------------------------------------------------------------------
(* The return of tsleep(): the process tests its error, then its condition *)
(* again.                                                                  *)

Aborts(p) == p \in failed \/ "SLEEPFAIL" \in ext[p]

Runs(p, stage) == ~panicked /\ pc[p] = stage /\ p \notin asleep

Awake == [lk EXCEPT !.waitcount = @ - 1]

ResumeShared(p) ==
  /\ Runs(p, "shared")
  /\ IF Aborts(p) THEN Refuse(p, Awake)
     ELSE IF Wanted("shared", Awake)
     THEN Wait(p, ext[p], "shared", Awake, asleep, shares)
     ELSE GrantShared(p, Awake)

BugResumeUpgrade(p) ==
  LET l == [Awake EXCEPT !.flags = @ \ {"WANT_UPGRADE"}]
  IN  /\ Runs(p, "upgrade")
      /\ IF Aborts(p) THEN Refuse(p, l) ELSE GrantExclusive(p, l, shares)

ResumeUpgrade(p) ==
  LET l == [Awake EXCEPT !.flags = @ \ {"WANT_UPGRADE"}]
  IN  /\ Runs(p, "upgrade")
      /\ IF Aborts(p) THEN Refuse(p, l)
         ELSE IF Wanted("upgrade", Awake)
         THEN Wait(p, ext[p], "upgrade", Awake, asleep, shares)
         ELSE GrantExclusive(p, l, shares)

ResumeWantExcl(p) ==
  /\ Runs(p, "excl1")
  /\ IF Aborts(p) THEN Refuse(p, Awake)
     ELSE SeekExclusive(p, ext[p], Awake, asleep, shares)

ResumeExclusive(p) ==
  LET l == [Awake EXCEPT !.flags = @ \ {"WANT_EXCL"}]
  IN  /\ Runs(p, "excl2")
      /\ IF Aborts(p) THEN Refuse(p, l)
         ELSE IF Wanted("excl2", Awake)
         THEN Wait(p, ext[p], "excl2", Awake, asleep, shares)
         ELSE GrantExclusive(p, l, shares)

(* A drain that fails returns at once, past the common tail.               *)
ResumeDrain(p) ==
  /\ Runs(p, "drain")
  /\ IF Aborts(p)
     THEN /\ pc' = [pc EXCEPT ![p] = "idle"]
          /\ ext' = [ext EXCEPT ![p] = {}]
          /\ failed' = failed \ {p}
          /\ UNCHANGED <<lk, asleep, panicked, owned>>
     ELSE IF Quiet(lk) THEN GrantDrain(p, lk)
     ELSE AwaitDrain(p, ext[p])

Resume(p) ==
  \/ ResumeShared(p)
  \/ ResumeUpgrade(p)
  \/ ResumeWantExcl(p)
  \/ ResumeExclusive(p)
  \/ ResumeDrain(p)

(* tsleep() fails: its timeout takes the process off the queue, a signal   *)
(* does so too or finds it already awake.                                  *)
SleepFails(p) ==
  /\ ~panicked
  /\ pc[p] # "idle"
  /\ p \notin failed
  /\ Catch \/ (Timeout /\ p \in asleep)
  /\ failed' = failed \cup {p}
  /\ asleep' = asleep \ {p}
  /\ UNCHANGED <<lk, pc, ext, panicked, owned>>

-----------------------------------------------------------------------------
Init ==
  /\ lk = Fresh
  /\ pc = [p \in Proc |-> "idle"]
  /\ ext = [p \in Proc |-> {}]
  /\ asleep = {}
  /\ failed = {}
  /\ panicked = FALSE
  /\ shares = [p \in Proc |-> 0]
  /\ excl = [p \in Proc |-> 0]

Unlock(p) == \E reenable \in BOOLEAN : Release(p, reenable)

Request(p) ==
  \/ \E x \in SUBSET (ExtFlags \cap {"NOWAIT", "SLEEPFAIL"}) :
       \/ Shared(p, x)
       \/ Exclusive(p, x)
       \/ Drain(p, x)
       \/ \E type \in {"UPGRADE", "EXCLUPGRADE"} : Upgrade(p, x, type)
  \/ Recurse(p)
  \/ Downgrade(p)
  \/ Unlock(p)

Next ==
  \/ \E p \in Proc : Request(p) \/ Resume(p) \/ SleepFails(p)
  \/ Reinit

Spec == Init /\ [][Next]_vars

(* A process made runnable runs, and a holder does not keep the lock: it   *)
(* releases, and however often it recurses it releases its last one too.   *)
Fairness == \A p \in Proc :
  /\ WF_vars(Resume(p))
  /\ WF_vars(Unlock(p))
  /\ SF_vars(shares[p] + excl[p] = 1 /\ Unlock(p))

FairSpec == Spec /\ Fairness

-----------------------------------------------------------------------------
(* Correctness properties.                                                 *)

(* Only one caller holds the lock exclusively, and nobody shares it        *)
(* meanwhile: what the callers were granted, not what the counters say.    *)
MutualExclusion ==
  \A p, r \in Proc : p # r /\ excl[p] > 0 => excl[r] = 0 /\ shares[r] = 0

(* The counters of struct lock are those of the grants: lk_waitcount, on   *)
(* which every wakeup() depends, counts each process inside an ACQUIRE,    *)
(* through failed sleeps and second waits; lk_sharecount and               *)
(* lk_exclusivecount count the locks to be released.                       *)
Waiters == {p \in Proc : pc[p] \in AcquireStages}
Held(s) == UNION {{p} \X (1 .. s[p]) : p \in Proc}

CountsAgree ==
  /\ lk.waitcount = Cardinality(Waiters)
  /\ lk.sharecount = Cardinality(Held(shares))
  /\ \A p \in Proc : excl[p] = IF lk.lockholder = p THEN lk.exclusivecount
                               ELSE 0
  /\ lk.exclusivecount = 0 <=> lk.lockholder = NoProc

(* Each internal flag means what the requests take it for: LK_WANT_UPGRADE *)
(* and LK_WANT_EXCL are up exactly while one process waits behind them,    *)
(* LK_HAVE_EXCL while the lock is held exclusively, and an accepted        *)
(* upgrade or an exclusive lock leaves no room for the other.              *)
FlagsAgree ==
  /\ "HAVE_EXCL" \in lk.flags <=> lk.exclusivecount # 0
  /\ "WANT_UPGRADE" \in lk.flags <=> \E p \in Proc : pc[p] = "upgrade"
  /\ "WANT_EXCL" \in lk.flags <=> \E p \in Proc : pc[p] = "excl2"
  /\ \A p, r \in Proc :
       pc[p] = pc[r] /\ pc[p] \in {"upgrade", "excl2", "drain"} => p = r
  /\ lk.exclusivecount # 0 =>
       lk.sharecount = 0 /\ "WANT_UPGRADE" \notin lk.flags

(* A process inside a request holds nothing, and only such a process is on *)
(* a sleep queue or has a failed sleep to report.                          *)
WaitersHoldNothing ==
  /\ \A p \in Proc : pc[p] # "idle" => shares[p] = 0 /\ excl[p] = 0
  /\ \A p \in asleep \cup failed : pc[p] # "idle"

(* From the drainer's grant on, nobody else is in the lock.                *)
DrainingIsQuiet ==
  /\ lk.flags \cap {"DRAINING", "DRAINED"} # {} =>
       lk.sharecount = 0 /\ \A p \in Proc : pc[p] = "idle"
  /\ "DRAINING" \in lk.flags =>
       lk.exclusivecount = 1 /\ "DRAINED" \notin lk.flags
  /\ "DRAINED" \in lk.flags => lk.exclusivecount = 0

LockInv ==
  TypeOK /\ CountsAgree /\ FlagsAgree /\ WaitersHoldNothing /\ DrainingIsQuiet

(* Between an accepted upgrade request and its grant no other process      *)
(* holds the lock exclusively, in any state: what LK_EXCLUPGRADE promises. *)
UpgradeExcludes ==
  (\E p \in Proc : pc[p] = "upgrade") => \A r \in Proc : excl[r] = 0

(* No process sleeps for a condition that has come true: whatever falsified*)
(* a wait also woke the waiters.                                           *)
NoStrandedSleeper == \A p \in asleep : Wanted(pc[p], lk)

(* Once drained, the lock is out of everybody's hands: no process waits in *)
(* it or will touch it again, and lockstatus() says so, so its memory may  *)
(* be freed.                                                               *)
DrainedIsFree ==
  "DRAINED" \in lk.flags =>
    /\ \A p \in Proc : pc[p] = "idle" /\ shares[p] = 0 /\ excl[p] = 0
    /\ lk.waitcount = 0
    /\ LockStatus = "NONE"

(* lockmgr() never reaches one of its panics.                              *)
NeverPanics == ~panicked

(* A request that holds LK_WANT_EXCL keeps later shared requests out, so   *)
(* it is granted once the shares it found are released.                    *)
WriterAdvances ==
  \A p \in Proc : pc[p] = "excl2" ~> excl[p] > 0

(* Every sleeper is woken: the lock it waits for is released and the       *)
(* release finds it.                                                       *)
SleeperWakes == \A p \in Proc : p \in asleep ~> p \notin asleep

(* A drain that is not interrupted ends with the drainer holding the lock. *)
DrainEnds == \A p \in Proc : pc[p] = "drain" ~> excl[p] > 0

(* An accepted upgrade is granted once the other shares are released.      *)
UpgradeReturns ==
  \A p \in Proc : pc[p] = "upgrade" ~> pc[p] = "idle"

(* A request with LK_NOWAIT never goes to sleep.                           *)
NoWaitNeverSleeps == \A p \in asleep : "NOWAIT" \notin ext[p]

-----------------------------------------------------------------------------
(* lockmgr() implements the lock that lock.h describes: its flags and      *)
(* counters never let a grant through that the abstract lock would refuse. *)
Upgrader ==
  IF \E p \in Proc : pc[p] = "upgrade"
  THEN CHOOSE p \in Proc : pc[p] = "upgrade" ELSE NoProc

Drained == IF "DRAINING" \in lk.flags THEN "held"
           ELSE IF "DRAINED" \in lk.flags THEN "retired" ELSE "no"

RW == INSTANCE RWLock WITH upgrader <- Upgrader, drained <- Drained

ImplementsRWLock == RW!RWSpec
=============================================================================
