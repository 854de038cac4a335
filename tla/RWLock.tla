-------------------------------- MODULE RWLock --------------------------------
(***************************************************************************)
(* What sys/sys/lock.h promises the callers of lockmgr(): a lock that many *)
(* share or one holds exclusively, perhaps several times over, in which a  *)
(* sharer may be accepted for an upgrade that nobody gets ahead of, and    *)
(* which after a drain belongs to nobody until it is initialised again.    *)
(* There are no flags, counters, sleeps or wakeups here.                   *)
(***************************************************************************)
EXTENDS Naturals

CONSTANTS Proc, NoProc

VARIABLES
  shares,     \* shares[p]: the shared locks p holds
  excl,       \* excl[p]: the exclusive locks p holds
  upgrader,   \* the process whose upgrade is accepted and not yet granted
  drained     \* "no", "held" by the drainer, or "retired"

rwvars == <<shares, excl, upgrader, drained>>

RWInit ==
  /\ shares = [p \in Proc |-> 0]
  /\ excl = [p \in Proc |-> 0]
  /\ upgrader = NoProc
  /\ drained = "no"

NobodyExclusive == \A p \in Proc : excl[p] = 0
NobodyElseShares(p) == \A r \in Proc \ {p} : shares[r] = 0
Free == NobodyExclusive /\ upgrader = NoProc /\ drained = "no"

GetShared(p) ==
  /\ Free
  /\ shares' = [shares EXCEPT ![p] = @ + 1]
  /\ UNCHANGED <<excl, upgrader, drained>>

GetExclusive(p) ==
  /\ Free
  /\ \A r \in Proc : shares[r] = 0
  /\ excl' = [excl EXCEPT ![p] = 1]
  /\ UNCHANGED <<shares, upgrader, drained>>

GetAgain(p) ==
  /\ excl[p] > 0
  /\ drained = "no"
  /\ excl' = [excl EXCEPT ![p] = @ + 1]
  /\ UNCHANGED <<shares, upgrader, drained>>

(* All of p's exclusive locks become shared, and it may get one more.      *)
Demote(p) ==
  /\ excl[p] > 0
  /\ drained = "no"
  /\ excl' = [excl EXCEPT ![p] = 0]
  /\ \E more \in {0, 1} :
       shares' = [shares EXCEPT ![p] = @ + excl[p] + more]
  /\ UNCHANGED <<upgrader, drained>>

(* The share is lost at once. If it was the last one the upgrade may be    *)
(* granted in the same step; otherwise p waits, alone, to be granted it.   *)
Promote(p) ==
  /\ Free
  /\ shares[p] = 1
  /\ shares' = [shares EXCEPT ![p] = 0]
  /\ \/ excl' = excl /\ upgrader' = p
     \/ NobodyElseShares(p) /\ excl' = [excl EXCEPT ![p] = 1]
          /\ UNCHANGED upgrader
  /\ UNCHANGED drained

FinishPromotion(p) ==
  /\ upgrader = p
  /\ \A r \in Proc : shares[r] = 0
  /\ upgrader' = NoProc
  /\ excl' = [excl EXCEPT ![p] = 1]
  /\ UNCHANGED <<shares, drained>>

AbandonPromotion(p) ==
  /\ upgrader = p
  /\ upgrader' = NoProc
  /\ UNCHANGED <<shares, excl, drained>>

PutShared(p) ==
  /\ shares[p] > 0
  /\ shares' = [shares EXCEPT ![p] = @ - 1]
  /\ UNCHANGED <<excl, upgrader, drained>>

PutExclusive(p) ==
  /\ excl[p] > 0
  /\ excl' = [excl EXCEPT ![p] = @ - 1]
  /\ IF drained = "held" THEN drained' \in {"no", "retired"}
     ELSE UNCHANGED drained
  /\ UNCHANGED <<shares, upgrader>>

GetDrained(p) ==
  /\ Free
  /\ \A r \in Proc : shares[r] = 0
  /\ excl' = [excl EXCEPT ![p] = 1]
  /\ drained' = "held"
  /\ UNCHANGED <<shares, upgrader>>

Renew ==
  /\ drained = "retired"
  /\ drained' = "no"
  /\ UNCHANGED <<shares, excl, upgrader>>

RWNext ==
  \/ \E p \in Proc :
       \/ GetShared(p) \/ GetExclusive(p) \/ GetAgain(p) \/ GetDrained(p)
       \/ Demote(p) \/ Promote(p) \/ FinishPromotion(p)
       \/ AbandonPromotion(p) \/ PutShared(p) \/ PutExclusive(p)
  \/ Renew

RWSpec == RWInit /\ [][RWNext]_rwvars
=============================================================================
