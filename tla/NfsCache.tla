------------------------------ MODULE NfsCache -------------------------------
(***************************************************************************)
(* The cache of recent requests of the NFS server, nfs/nfs_srvcache.c,     *)
(* with the nfsd loop around it (nfs_syscalls.c) and clients that repeat a *)
(* request over datagrams until it is answered. Requests and replies are   *)
(* lost, duplicated, delayed and reordered, the server crashes. While it   *)
(* starts up it serves nothing but writes of NQNFS clients, lest leases    *)
(* from before be broken. An nfsd keeps the CPU until it sleeps: each      *)
(* action is what it does from one sleep to the next. Definitions called   *)
(* Bug... are variants of the one that follows each of them.               *)
(***************************************************************************)
EXTENDS Integers, FiniteSets

CONSTANTS
  Nfsd,
  Req,          \* requests, told apart by xid, procedure and address
  Nonidem,      \* those of nonidempotent procedures
  Bad,          \* those whose arguments cannot be parsed
  Nqnfs,        \* those of NQNFS clients
  Write,        \* those of the procedure WRITE
  Entry,        \* cache entries there may ever be
  None,
  Desired,      \* desirednfsrvcache
  MaxCrashes    \* bound on the crashes and terminations of the server

ASSUME NfsAssumption ==
  /\ Nonidem \subseteq Req /\ Bad \subseteq Req
  /\ Nqnfs \subseteq Req /\ Write \subseteq Req
  /\ None \notin Req \cup Entry
  /\ Desired \in Nat \ {0} /\ MaxCrashes \in Nat

VARIABLES
  answered,   \* requests that clients have a reply to, be it "try later"
  cache,      \* the entries: [key, state, reply, locked], reply being the
              \* request it is the reply to
  live,       \* the entries in the hash and on the LRU list
  inserted,   \* <<e, f>>: f is before e in the hash chains
  used,       \* <<e, f>>: f is after e on the LRU list
  nfsd,       \* what each nfsd does: [at, req, on]
  runs,       \* how often each nonidempotent request was executed; 2 is more
  lost,       \* those of them that the cache forgot, or took in twice
  crashes,
  start,      \* start-up: "early", "due" from nqnfsstarttime on, or "over",
              \* which is noticed, in notstarted, with the next request
  modify_flag,
  left        \* requests whose entry was left in progress by an nfsd that
              \* did not execute it or could not parse it

lists == <<live, inserted, used>>

startup == <<start, modify_flag>>

vars == <<answered, cache, lists, nfsd, runs, lost, crashes, startup, left>>

Fresh == [key |-> None, state |-> "INPROG", reply |-> None, locked |-> FALSE]

Idle == [at |-> "idle", req |-> None, on |-> None]

Init ==
  /\ answered = {}
  /\ cache = [e \in Entry |-> Fresh]
  /\ live = {} /\ inserted = {} /\ used = {}
  /\ nfsd = [d \in Nfsd |-> Idle]
  /\ runs = [r \in Nonidem |-> 0]
  /\ lost = {} /\ crashes = 0
  /\ start = "early" /\ modify_flag = FALSE /\ left = {}

-----------------------------------------------------------------------------
(* The cache.                                                              *)
Entries(r) == {e \in live : cache[e].key = r}

(* The entry for r that a search of the hash chain comes to first: entries *)
(* are inserted at the head.                                               *)
BugNewest(r) == {e \in Entries(r) : \A f \in Entries(r) : <<f, e>> \notin inserted}

Newest(r) == {e \in Entries(r) : \A f \in Entries(r) : <<e, f>> \notin inserted}

(* The head of the LRU list.                                               *)
Oldest == {e \in live : \A f \in live : <<f, e>> \notin used}

(* The order in which e comes after all others.                            *)
Last(order, e) == {p \in order : p[1] # e} \cup ((live \ {e}) \X {e})

Doing(at, r, e) == [at |-> at, req |-> r, on |-> e]

(* Entry e is unlocked, and whoever sleeps on it goes on.                  *)
BugUnlock(d, e, to) == [nfsd EXCEPT ![d] = to]

Unlock(d, e, to) ==
  [c \in Nfsd |->
    IF c = d THEN to
    ELSE IF nfsd[c].on = e /\ nfsd[c].at \in {"wait", "lruwait", "updwait"}
    THEN [nfsd[c] EXCEPT !.on = None] ELSE nfsd[c]]

Awake(d, at) == nfsd[d].at = at /\ nfsd[d].on = None

(* The nfsd goes on with r after nfsrv_getcache(), which returned DOIT,    *)
(* DROPIT or REPLY. While the server starts up, NQNFS clients are told to  *)
(* try again later and other requests are dropped; a write is served, and  *)
(* puts the end off when it comes.                                         *)
notstarted == start = "early" \/ (start = "due" /\ modify_flag)

Served(r) == ~notstarted \/ r \in Nqnfs \cap Write

Startup(r) ==
  /\ start' = IF notstarted THEN "early" ELSE "over"
  /\ modify_flag' = (notstarted /\ \/ r \in Nqnfs \cap Write
                                   \/ start = "early" /\ modify_flag)

Then(r, to) ==
  IF Served(r) THEN to
  ELSE IF r \in Nqnfs THEN Doing("trylater", r, None) ELSE Idle

(* r is in progress from now on, but not if it is not served.              *)
Leaves(r) == left' = IF Served(r) THEN left \ {r} ELSE left \cup {r}

(* nfsrv_getcache() finds an entry e that nobody has locked: the request   *)
(* is dropped while it is being executed, its reply is copied, which may   *)
(* sleep for memory, or else it is executed again.                         *)
Hit(d, r, e) ==
  /\ used' = Last(used, e)
  /\ \/ /\ cache[e].state = "INPROG"
        /\ nfsd' = [nfsd EXCEPT ![d] = Then(r, Idle)]
        /\ Startup(r)
        /\ UNCHANGED <<cache, left>>
     \/ /\ cache[e].state = "DONE" /\ cache[e].reply # None
        /\ nfsd' = [nfsd EXCEPT ![d] = Doing("copy", r, e)]
        /\ cache' = [cache EXCEPT ![e].locked = TRUE]
        /\ UNCHANGED <<startup, left>>
     \/ /\ cache[e].state = "DONE" /\ cache[e].reply = None
        /\ nfsd' = [nfsd EXCEPT ![d] = Then(r, Doing("doit", r, None))]
        /\ cache' = [cache EXCEPT ![e].state = "INPROG"]
        /\ Startup(r) /\ Leaves(r)
  /\ UNCHANGED <<live, inserted, lost>>

SleepOn(d, at, r, e) ==
  /\ nfsd' = [nfsd EXCEPT ![d] = Doing(at, r, e)]
  /\ UNCHANGED <<cache, lists, lost, startup, left>>

Found(d, r) ==
  \E e \in Newest(r) :
    IF cache[e].locked THEN SleepOn(d, "wait", r, e) ELSE Hit(d, r, e)

(* The entry e is r's from now on. What it had is forgotten; that there is *)
(* another entry for r by now is not noticed.                              *)
Insert(d, r, e) ==
  /\ cache' = [cache EXCEPT ![e] = [Fresh EXCEPT !.key = r]]
  /\ live' = live \cup {e}
  /\ inserted' = Last(inserted, e)
  /\ used' = Last(used, e)
  /\ nfsd' = Unlock(d, e, Then(r, Doing("doit", r, None)))
  /\ Startup(r) /\ Leaves(r)
  /\ lost' = lost \cup (Nonidem \cap {cache[f].key : f \in Entries(r) \cup (live \cap {e})})

(* The oldest entry is reused, whatever its state; when it is locked, the  *)
(* nfsd waits, and looks at the oldest again, but not at the hash.         *)
Reuse(d, r) ==
  \E e \in Oldest :
    IF cache[e].locked THEN SleepOn(d, "lruwait", r, e) ELSE Insert(d, r, e)

(* Nothing is found: allocate an entry, sleeping for memory, or reuse one. *)
Miss(d, r) ==
  /\ Entries(r) = {}
  /\ IF Cardinality(live) < Desired
     THEN SleepOn(d, "malloc", r, None)
     ELSE Reuse(d, r)

Getcache(d, r) == Found(d, r) \/ Miss(d, r)

(* A request arrives when its client has sent it, sent it again or, any    *)
(* time later, when a duplicate is delivered, and an nfsd takes it; what   *)
(* is lost or still waits in the socket has not arrived.                   *)
Receive(d, r) ==
  /\ nfsd[d].at = "idle"
  /\ Getcache(d, r)
  /\ UNCHANGED <<answered, runs, crashes>>

Again(d) ==
  /\ Awake(d, "wait")
  /\ Getcache(d, nfsd[d].req)
  /\ UNCHANGED <<answered, runs, crashes>>

LruAgain(d) ==
  /\ Awake(d, "lruwait")
  /\ Reuse(d, nfsd[d].req)
  /\ UNCHANGED <<answered, runs, crashes>>

Malloced(d) ==
  /\ nfsd[d].at = "malloc"
  /\ \E e \in Entry \ live : Insert(d, nfsd[d].req, e)
  /\ UNCHANGED <<answered, runs, crashes>>

(* A reply to r is sent; it reaches the client or is lost.                 *)
Send(r) == answered' \in {answered, answered \cup {r}}

(* The cached reply is copied and sent.                                    *)
Copied(d) ==
  LET e == nfsd[d].on
      r == nfsd[d].req
  IN /\ nfsd[d].at = "copy"
     /\ cache' = [cache EXCEPT ![e].locked = FALSE]
     /\ nfsd' = Unlock(d, e, Then(r, Idle))
     /\ IF Served(r) THEN Send(cache[e].reply) ELSE UNCHANGED answered
     /\ Startup(r)
     /\ UNCHANGED <<lists, runs, lost, crashes, left>>

(* The reply "try again later", of the procedure NOOP, for which           *)
(* nfsrv_updatecache() finds no entry.                                     *)
Trylater(d) ==
  /\ nfsd[d].at = "trylater"
  /\ nfsd' = [nfsd EXCEPT ![d] = Idle]
  /\ Send(nfsd[d].req)
  /\ UNCHANGED <<cache, lists, runs, lost, crashes, startup, left>>

-----------------------------------------------------------------------------
(* Executing a request, and nfsrv_updatecache(). A request that cannot be  *)
(* parsed does nothing and gets no reply; whether nfsrv_updatecache() is   *)
(* called for it depends on what an earlier request left in mreq.          *)
Doit(d) ==
  LET r == nfsd[d].req
  IN /\ nfsd[d].at = "doit"
     /\ runs' = IF r \in Nonidem \ Bad
                THEN [runs EXCEPT ![r] = IF @ = 0 THEN 1 ELSE 2] ELSE runs
     /\ \/ /\ nfsd' = [nfsd EXCEPT ![d] = Doing("updwait", r, None)]
           /\ UNCHANGED left
        \/ /\ r \in Bad
           /\ nfsd' = [nfsd EXCEPT ![d] = Idle]
           /\ left' = left \cup {r}
     /\ UNCHANGED <<answered, cache, lists, lost, crashes, startup>>

Reply(d) == IF nfsd[d].req \in Bad THEN UNCHANGED answered ELSE Send(nfsd[d].req)

(* The reply of a nonidempotent request is to be kept.                     *)
BugKept(d) == FALSE

Kept(d) == nfsd[d].req \in Nonidem \ Bad

(* The entry found is done; copying the reply into it may sleep ("save").  *)
BugUpdate(d, e) ==
  /\ IF Kept(d)
     THEN /\ cache' = [cache EXCEPT ![e].state = "DONE", ![e].locked = TRUE]
          /\ nfsd' = [nfsd EXCEPT ![d].at = "save", ![d].on = e]
          /\ UNCHANGED answered
     ELSE /\ nfsd' = [nfsd EXCEPT ![d] = Idle]
          /\ Reply(d) /\ UNCHANGED cache

Update(d, e) ==
  /\ IF Kept(d)
     THEN /\ cache' = [cache EXCEPT ![e].state = "DONE", ![e].locked = TRUE]
          /\ nfsd' = [nfsd EXCEPT ![d].at = "save", ![d].on = e]
          /\ UNCHANGED answered
     ELSE /\ cache' = [cache EXCEPT ![e].state = "DONE"]
          /\ nfsd' = [nfsd EXCEPT ![d] = Idle]
          /\ Reply(d)

(* The entry may have been reused meanwhile.                               *)
Updatecache(d) ==
  /\ Awake(d, "updwait")
  /\ \/ \E e \in Newest(nfsd[d].req) :
          IF cache[e].locked
          THEN /\ nfsd' = [nfsd EXCEPT ![d].on = e]
               /\ UNCHANGED <<cache, answered, left>>
          ELSE Update(d, e) /\ left' = left \ {nfsd[d].req}
     \/ /\ Entries(nfsd[d].req) = {}
        /\ nfsd' = [nfsd EXCEPT ![d] = Idle]
        /\ Reply(d)
        /\ UNCHANGED <<cache, left>>
  /\ UNCHANGED <<lists, runs, lost, crashes, startup>>

Saved(d) ==
  LET e == nfsd[d].on
  IN /\ nfsd[d].at = "save"
     /\ cache' = [cache EXCEPT ![e].reply = nfsd[d].req,
                               ![e].locked = FALSE]
     /\ nfsd' = Unlock(d, e, Idle)
     /\ Reply(d)
     /\ UNCHANGED <<lists, runs, lost, crashes, startup, left>>

(* The server goes on with an empty cache.                                 *)
Forget ==
  /\ crashes < MaxCrashes
  /\ crashes' = crashes + 1
  /\ cache' = [e \in Entry |-> Fresh]
  /\ live' = {} /\ inserted' = {} /\ used' = {}
  /\ nfsd' = [d \in Nfsd |-> Idle]
  /\ lost' = lost \cup {r \in Nonidem : runs[r] > 0}
  /\ left' = {}
  /\ UNCHANGED <<answered, runs>>

Crash == Forget /\ start' = "early" /\ modify_flag' = FALSE

(* The last nfsd terminates, and nfsds are started again.                  *)
Cleancache == Forget /\ (\A d \in Nfsd : nfsd[d] = Idle) /\ UNCHANGED startup

(* nqnfsstarttime.                                                         *)
StartTimeComes ==
  /\ start = "early" /\ start' = "due"
  /\ UNCHANGED <<answered, cache, lists, nfsd, runs, lost, crashes, modify_flag,
                 left>>

-----------------------------------------------------------------------------
Work(d) ==
  \/ Again(d) \/ LruAgain(d) \/ Malloced(d) \/ Copied(d) \/ Trylater(d)
  \/ Doit(d) \/ Updatecache(d) \/ Saved(d)

Next ==
  \/ Crash \/ Cleancache \/ StartTimeComes
  \/ \E d \in Nfsd : Work(d) \/ \E r \in Req : Receive(d, r)

Spec == Init /\ [][Next]_vars

(* Nfsds get the CPU and wake up. A client repeats its request until there *)
(* is an answer; of what is sent again and again something arrives at last.*)
(* That start-up ends is not assumed.                                      *)
FairSpec ==
  /\ Spec
  /\ \A d \in Nfsd : WF_vars(Work(d))
  /\ \A r \in Req \ Bad :
       /\ SF_vars(r \notin answered /\ \E d \in Nfsd : Receive(d, r))
       /\ SF_vars(\E d \in Nfsd : Work(d) /\ r \in answered' \ answered)

-----------------------------------------------------------------------------
(* Properties.                                                             *)

(* A nonidempotent request is executed a second time only when its entry   *)
(* has been reused or lost in a crash, or when two nfsds entered it at the *)
(* same time (nfsrv_getcache() does not search again after it has slept).  *)
AtMostOnce == \A r \in Nonidem \ lost : runs[r] < 2

(* An entry that is in progress, and for which retransmissions are dropped *)
(* (nfs_srvcache.c:197), has an nfsd that will complete it, however often  *)
(* entries were reused or the same request was entered twice, unless       *)
(* start-up refused to serve it (nfs_syscalls.c:563), or it could not be   *)
(* parsed (nfs_syscalls.c:594).                                            *)
Working(d, r) == nfsd[d].req = r /\ nfsd[d].at \in {"doit", "updwait"}

NoOrphan ==
  \A r \in Req \ left : \A e \in Newest(r) :
    cache[e].state = "INPROG" => \E d \in Nfsd : Working(d, r)

(* What the cache holds: its reply is that of an execution of this very    *)
(* request.                                                                *)
RepliesMatch ==
  \A e \in live :
    cache[e].reply # None =>
      /\ cache[e].state = "DONE" /\ cache[e].reply = cache[e].key
      /\ cache[e].key \in Nonidem /\ runs[cache[e].key] > 0

(* An entry is locked by the one nfsd that copies its reply or saves one   *)
(* in it (RC_LOCKED), and it stays that nfsd's request's meanwhile; who    *)
(* sleeps on an entry (RC_WANTED) sleeps on a locked one.                  *)
Holder(d, e) == nfsd[d].at \in {"copy", "save"} /\ nfsd[d].on = e

LocksHold ==
  /\ \A e \in Entry : cache[e].locked => \E d \in Nfsd : Holder(d, e)
  /\ \A d \in Nfsd : \A e \in Entry : Holder(d, e) =>
       /\ e \in live /\ cache[e].locked /\ cache[e].key = nfsd[d].req
       /\ \A c \in Nfsd \ {d} : ~ Holder(c, e)
  /\ \A d \in Nfsd : nfsd[d].on # None => cache[nfsd[d].on].locked

(* What the cache answers is the reply of an execution of that very        *)
(* request, kept only of nonidempotent ones, though entries are reused     *)
(* while nfsds sleep over them: who sleeps has locked them, and whoever    *)
(* sleeps for a lock is woken when it goes (RC_LOCKED, RC_WANTED).         *)
CacheSound == RepliesMatch /\ LocksHold

(* A request that can be parsed is answered in the end: no nfsd sleeps for *)
(* ever, and dropping retransmissions starves nobody, but those whom       *)
(* start-up left in progress, or does not serve because it never ends.     *)
StartingUp == start # "over"

RequestAnswered ==
  \A r \in Req \ Bad : <>(r \in answered) \/ <>[](StartingUp \/ r \in left)

(* "After this, the server simply services requests in a manner similar to *)
(* NFS." (share/doc/smm/06.nfs/2.t:170): once start-up is over, a request  *)
(* that is repeated until it is answered is answered.                      *)
ServesAfterStartup ==
  \A r \in Req \ Bad : <>[](~StartingUp) => <>(r \in answered)
=============================================================================
