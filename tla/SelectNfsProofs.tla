--------------------------- MODULE SelectNfsProofs ---------------------------
(***************************************************************************)
(* Two independent proofs, one behind the other: that no process sleeps in *)
(* select() over a ready descriptor, and what NfsCache promises.           *)
(***************************************************************************)
EXTENDS Select, NfsCache, TLAPS

-----------------------------------------------------------------------------
(* Select. The invariant is SelectInv; each action is taken up in a lemma  *)
(* of its own.                                                             *)

LEMMA SelectInitInv == SelectInit => SelectInv
BY SelectAssumption
   DEF SelectInit, SelectInv, SelectTypes, InPlace, SleepersReached, ScannersReached,
       BoundToSleep, Scanning

(* Reading what was ready disturbs nothing.                                *)
LEMMA ConsumeInv ==
  ASSUME SelectInv, NEW d \in Desc, Consume(d)
  PROVE  SelectInv'
BY DEF SelectInv, SelectTypes, InPlace, SleepersReached, ScannersReached, Seen,
       Reaches, BoundToSleep, SafeToSleep, Scanning, Consume, selVars, callVars

(* An event: those who stay asleep, and those who can still go to sleep,   *)
(* had not looked at d.                                                    *)
LEMMA EventInv ==
  ASSUME SelectInv, NEW d \in Desc, Event(d)
  PROVE  SelectInv'
<1> USE SelectAssumption
<1>1. SelectTypes'
  BY DEF SelectInv, SelectTypes, Event, Selwakeup, selVars, callVars, Scanning
<1>2. InPlace'
  BY DEF SelectInv, SelectTypes, InPlace, Event, Selwakeup, selVars, callVars, Scanning
<1>3. ASSUME NEW p \in queue'
      PROVE  p \in queue /\ d \notin want[p]
  BY <1>3 DEF SelectInv, SelectTypes, InPlace, SleepersReached, Seen, Reaches, Event,
              Selwakeup, selVars, callVars
<1>4. SleepersReached'
  BY <1>3 DEF SelectInv, SelectTypes, SleepersReached, Seen, Reaches, Event,
              Selwakeup, selVars, callVars
<1>5. ASSUME NEW p \in Proc, BoundToSleep(p)'
      PROVE  BoundToSleep(p) /\ d \notin want[p] \ todo[p]
  <2>1. BoundToSleep(p) /\ p \notin queue
    BY <1>5 DEF SelectInv, SelectTypes, InPlace, BoundToSleep, SafeToSleep, Scanning,
                Event, Selwakeup, selVars, callVars
  <2>2. ~Reaches(d, p)
    BY <1>5, <2>1 DEF SelectInv, SelectTypes, InPlace, BoundToSleep, SafeToSleep,
                Scanning, Reaches, Event, Selwakeup, selVars, callVars
  <2> QED BY <2>1, <2>2 DEF SelectInv, ScannersReached, Seen
<1>6. ScannersReached'
  BY <1>5 DEF SelectInv, SelectTypes, ScannersReached, Seen, Reaches, Event,
              Selwakeup, selVars, callVars
<1> QED BY <1>1, <1>2, <1>4, <1>6 DEF SelectInv

(* A scan starts: nothing has been looked at yet.                          *)
LEMMA StartInv ==
  ASSUME SelectInv, NEW p \in Proc, NEW D \in SUBSET Desc,
         p \notin queue, \A q \in Proc \ {p} : ~Scanning(q),
         StartScan(p, D), want' = [want EXCEPT ![p] = D],
         timer' \in [Proc -> {"none", "ahead", "passed"}],
         UNCHANGED <<queue, stopped, timo, sig>>
  PROVE  SelectInv'
<1>1. SelectTypes'
  BY DEF SelectInv, SelectTypes, StartScan
<1>0. InPlace'
  BY DEF SelectInv, SelectTypes, InPlace, Scanning, StartScan
<1>2. SleepersReached'
  BY DEF SelectInv, SelectTypes, SleepersReached, Seen, Reaches, StartScan
<1>3. ASSUME NEW q \in Proc, Scanning(q)'
      PROVE  (want[q] \ todo[q])' = {}
  BY <1>3 DEF SelectInv, SelectTypes, Scanning, StartScan
<1>4. ScannersReached'
  BY <1>3 DEF ScannersReached, BoundToSleep
<1> QED BY <1>0, <1>1, <1>2, <1>4 DEF SelectInv

(* A call ends: its records stay behind, but nobody depends on them.       *)
LEMMA DoneInv ==
  ASSUME SelectInv, NEW p \in Proc, p \notin queue, Done(p)
  PROVE  SelectInv'
BY DEF SelectInv, SelectTypes, InPlace, SleepersReached, ScannersReached, Seen,
       Reaches, BoundToSleep, SafeToSleep, Scanning, Done

(* A descriptor is looked at: its record may be taken over only from one   *)
(* that does not sleep.                                                    *)
LEMMA ScanInv ==
  ASSUME SelectInv, NEW p \in Proc, NEW d \in Desc, Scan(p, d)
  PROVE  SelectInv'
<1> USE SelectAssumption
<1>1. SelectTypes' /\ InPlace'
  BY DEF SelectInv, SelectTypes, InPlace, Scan, Selrecord, Scanning
<1>2. ASSUME NEW q \in queue, NEW e \in want[q]
      PROVE  Reaches(e, q)'
  BY <1>2 DEF SelectInv, SelectTypes, SleepersReached, Seen, Reaches, Scan, Selrecord,
              Collides
<1>3. SleepersReached'
  BY <1>2 DEF SelectInv, SleepersReached, Seen, Scan
<1>4. ASSUME NEW q \in Proc, BoundToSleep(q)', NEW e \in want[q] \ todo'[q]
      PROVE  Seen(e, q)'
  <2>1. q = p /\ BoundToSleep(p) /\ d \notin ready
    BY <1>4 DEF SelectInv, SelectTypes, InPlace, BoundToSleep, SafeToSleep, Scanning, Scan
  <2>2. CASE e = d
    BY <2>1, <2>2 DEF SelectInv, SelectTypes, Seen, Reaches, Scan, Selrecord, Collides
  <2>3. CASE e # d
    <3>1. e \in want[q] \ todo[q]
      BY <1>4, <2>1, <2>3 DEF SelectInv, SelectTypes, Scan
    <3> QED BY <2>1, <2>3, <3>1 DEF SelectInv, SelectTypes, ScannersReached, Seen,
              Reaches, Scan, Selrecord
  <2> QED BY <2>2, <2>3
<1>5. ScannersReached'
  BY <1>4 DEF ScannersReached, Scan
<1> QED BY <1>1, <1>3, <1>5 DEF SelectInv

LEMMA SelectNextInv == SelectInv /\ [SelectNext]_allVars => SelectInv'
<1> SUFFICES ASSUME SelectInv, [SelectNext]_allVars PROVE SelectInv'
  OBVIOUS
<1>1. ASSUME NEW p \in Proc, NEW D \in SUBSET Desc, NEW t \in Timeouts, Call(p, D, t)
      PROVE  SelectInv'
  BY <1>1, StartInv DEF SelectInv, SelectTypes, InPlace, Call, CpuFree
<1>2. ASSUME NEW p \in Proc, ScanFails(p)
      PROVE  SelectInv'
  BY <1>2, DoneInv DEF SelectInv, InPlace, Scanning, ScanFails
<1>3. ASSUME NEW p \in Proc, EndScan(p)
      PROVE  SelectInv'
  <2>0. p \notin queue /\ \A q \in Proc \ {p} : ~Scanning(q)
    BY <1>3 DEF SelectInv, InPlace, EndScan, Scanned, Scanning
  <2>1. CASE Done(p)
    BY <2>0, <2>1, DoneInv
  <2>2. CASE StartScan(p, want[p]) /\ UNCHANGED <<queue, stopped, want, timer, timo, sig>>
    BY <2>0, <2>2, StartInv DEF SelectInv, SelectTypes
  <2>3. CASE queue' = queue \cup {p}
    BY <1>3, <2>0, <2>3
       DEF SelectInv, SelectTypes, InPlace, SleepersReached, ScannersReached, Seen,
           Reaches, BoundToSleep, Scanned, Scanning, EndScan, Done, StartScan
  <2> QED BY <1>3, <2>1, <2>2, <2>3 DEF EndScan
<1>4. ASSUME NEW p \in Proc, Resume(p)
      PROVE  SelectInv'
  BY <1>4, DoneInv, StartInv DEF SelectInv, SelectTypes, Resume, CpuFree
<1>5. ASSUME NEW p \in Proc,
             TimePasses(p) \/ Endtsleep(p) \/ Signal(p) \/ Stop(p) \/ Cont(p)
      PROVE  SelectInv'
  BY <1>5 DEF SelectInv, SelectTypes, InPlace, SleepersReached, ScannersReached, Seen,
              Reaches, BoundToSleep, SafeToSleep, Scanning, TimePasses, Endtsleep,
              Signal, Stop, Cont, selVars
<1>6. CASE UNCHANGED allVars
  BY <1>6 DEF allVars, selVars, callVars, SelectInv, SelectTypes, InPlace, SleepersReached,
              ScannersReached, Seen, Reaches, BoundToSleep, SafeToSleep, Scanning
<1> QED BY <1>1, <1>2, <1>3, <1>4, <1>5, <1>6, ScanInv, EventInv, ConsumeInv
        DEF SelectNext, Step

(* Whoever sleeps, or is bound to, is reached by an event on every         *)
(* descriptor it has looked at, and none of these is ready (selrecord(),   *)
(* selwakeup(), and the test of P_SELECT and nselcoll in select()).        *)
THEOREM SelectInvariant == SelectSpec => []SelectInv
BY SelectInitInv, SelectNextInv, PTL DEF SelectSpec

(* The property that the records, the collision flag, P_SELECT and         *)
(* nselcoll of select() are there for: no sleep over a ready descriptor,   *)
(* for any number of processes and descriptors.                            *)
THEOREM SelectMisses == SelectSpec => []NoSleepOverReady
<1>1. SelectInv => NoSleepOverReady
  BY DEF SelectInv, SleepersReached, Seen, NoSleepOverReady
<1> QED BY <1>1, SelectInvariant, PTL

-----------------------------------------------------------------------------
(* What NfsCache promises, proved for any number of nfsds, requests and    *)
(* entries, any size of the cache and any number of crashes. The inductive *)
(* invariant is the conjunction of the parts below; the part that is not   *)
(* in sight in the code is OrderSound: among entries for one request, the  *)
(* LRU list agrees with the hash chain, so that the reuse of the oldest    *)
(* never brings one to light that was hidden behind it.                    *)

Ats == {"idle", "wait", "lruwait", "malloc", "copy", "trylater", "doit", "updwait",
        "save"}

TypeOK ==
  /\ answered \subseteq Req
  /\ cache \in [Entry -> [key : Req \cup {None}, state : {"INPROG", "DONE"},
                          reply : Req \cup {None}, locked : BOOLEAN]]
  /\ live \subseteq Entry
  /\ nfsd \in [Nfsd -> [at : Ats, req : Req \cup {None}, on : Entry \cup {None}]]
  /\ runs \in [Nonidem -> 0..2]
  /\ lost \subseteq Nonidem
  /\ crashes \in Nat
  /\ \A d \in Nfsd :
       /\ nfsd[d].at # "idle" => nfsd[d].req \in Req
       /\ nfsd[d].on # None =>
            nfsd[d].at \in {"wait", "lruwait", "updwait", "copy", "save"}
       /\ nfsd[d].at \in {"copy", "save"} => nfsd[d].on \in Entry

OrderSound ==
  /\ inserted \subseteq live \X live
  /\ \A e, f \in live : e # f => <<e, f>> \in inserted \/ <<f, e>> \in inserted
  /\ \A e, f \in live :
       /\ cache[e].key = cache[f].key
       /\ <<e, f>> \in inserted
       => <<e, f>> \in used

(* What an nfsd that sleeps in the middle relies on.                       *)
SleepSound ==
  \A d \in Nfsd :
    /\ nfsd[d].at = "save" =>
         /\ cache[nfsd[d].on].state = "DONE"
         /\ nfsd[d].req \in Nonidem \ Bad /\ runs[nfsd[d].req] > 0
    /\ nfsd[d].at = "copy" => cache[nfsd[d].on].reply # None
    /\ nfsd[d].at = "updwait" /\ nfsd[d].req \in Nonidem \ Bad => runs[nfsd[d].req] > 0

(* A nonidempotent request that the cache has not forgotten: its one entry *)
(* tells whether it was executed.                                          *)
Once(r) ==
  /\ \A e, f \in Entries(r) : e = f
  /\ \A c, d \in Nfsd : Working(c, r) /\ Working(d, r) => c = d
  /\ Entries(r) = {} => runs[r] = 0 /\ \A d \in Nfsd : ~ Working(d, r)
  /\ runs[r] < 2
  /\ \A d \in Nfsd : Working(d, r) =>
       /\ nfsd[d].at = "doit" => runs[r] = 0
       /\ \A e \in Entries(r) : cache[e].state = "INPROG"
  /\ \A e \in Entries(r) : cache[e].state = "DONE" /\ r \notin Bad =>
       cache[e].reply # None \/ cache[e].locked

OnceSound ==
  /\ \A r \in Nonidem \cap Bad : runs[r] = 0
  /\ \A r \in Nonidem \ lost : Once(r)

Inv ==
  /\ TypeOK
  /\ OrderSound
  /\ LocksHold
  /\ RepliesMatch
  /\ SleepSound
  /\ NoOrphan
  /\ OnceSound

LEMMA InitInv == Init => Inv
<1> SUFFICES ASSUME Init PROVE Inv
  OBVIOUS
<1> USE NfsAssumption
<1>1. TypeOK
  BY DEF Init, TypeOK, Fresh, Idle, Ats
<1>2. OrderSound /\ RepliesMatch /\ NoOrphan
  BY DEF Init, OrderSound, RepliesMatch, NoOrphan, Newest, Entries
<1>3. LocksHold /\ SleepSound
  BY DEF Init, LocksHold, Holder, SleepSound, Fresh, Idle
<1>4. OnceSound
  BY DEF Init, OnceSound, Once, Entries, Working, Idle
<1> QED
  BY <1>1, <1>2, <1>3, <1>4 DEF Inv

(* Two entries for r cannot both be the first that a search finds.         *)
LEMMA NewestUnique ==
  ASSUME OrderSound, NEW r, NEW e \in Newest(r), NEW f \in Newest(r)
  PROVE  e = f
BY DEF OrderSound, Newest, Entries

(* An nfsd that is neither executing a request nor holding an entry.       *)
Free(d) == nfsd[d].at \in {"idle", "wait", "lruwait", "malloc"}

(* What an nfsd may go on to when start-up refuses to serve r.             *)
Refused(r) == {Idle, Doing("trylater", r, None)}

LEMMA RefusedIs ==
  ASSUME NEW r \in Req, NEW x \in Refused(r)
  PROVE  /\ x \in [at : Ats, req : Req \cup {None}, on : Entry \cup {None}]
         /\ x.at \in {"idle", "trylater"} /\ x.on = None
         /\ x.at # "idle" => x.req = r
BY DEF Refused, Idle, Doing, Ats

LEMMA ThenIs ==
  ASSUME NEW r, NEW to
  PROVE  /\ Served(r) => Then(r, to) = to
         /\ ~ Served(r) => Then(r, to) \in Refused(r)
BY DEF Then, Refused

(* What Unlock() does to each nfsd.                                        *)
LEMMA UnlockDoes ==
  ASSUME TypeOK, NEW d \in Nfsd, NEW e \in Entry,
         NEW to \in [at : Ats, req : Req \cup {None}, on : Entry \cup {None}],
         nfsd' = Unlock(d, e, to)
  PROVE  /\ nfsd' \in [Nfsd -> [at : Ats, req : Req \cup {None}, on : Entry \cup {None}]]
         /\ nfsd'[d] = to
         /\ \A c \in Nfsd \ {d} :
              /\ nfsd'[c].at = nfsd[c].at /\ nfsd'[c].req = nfsd[c].req
              /\ nfsd'[c].on \in {nfsd[c].on, None}
              /\ nfsd'[c].on # nfsd[c].on =>
                   nfsd[c].on = e /\ nfsd[c].at \in {"wait", "lruwait", "updwait"}
              /\ nfsd[c].on = e /\ nfsd[c].at \in {"wait", "lruwait", "updwait"} =>
                   nfsd'[c].on = None
BY DEF TypeOK, Unlock

(* An nfsd goes to sleep on a locked entry, or for memory.                 *)
LEMMA SleepStep ==
  ASSUME Inv, NEW d \in Nfsd, NEW r \in Req, Free(d),
         NEW at \in {"wait", "lruwait", "malloc"}, NEW e \in Entry \cup {None},
         e # None => at # "malloc" /\ cache[e].locked,
         SleepOn(d, at, r, e), UNCHANGED <<answered, runs, crashes>>
  PROVE  Inv'
<1> USE NfsAssumption DEF Inv, SleepOn, Doing, lists
<1>1. \A c \in Nfsd : c # d => nfsd'[c] = nfsd[c]
  BY DEF TypeOK
<1>2. /\ nfsd'[d].at = at /\ nfsd'[d].req = r /\ nfsd'[d].on = e
      /\ at \in Ats \ {"idle", "copy", "save", "doit", "updwait"}
  BY DEF TypeOK, Ats
<1>3. TypeOK'
  BY <1>2 DEF TypeOK
<1>4. OrderSound' /\ RepliesMatch'
  BY DEF OrderSound, RepliesMatch
<1>5. \A c \in Nfsd : \A f : Holder(c, f)' <=> Holder(c, f)
  BY <1>1, <1>2 DEF Holder, Free
<1>6. \A c \in Nfsd : \A q : Working(c, q)' <=> Working(c, q)
  BY <1>1, <1>2 DEF Working, Free
<1>7. LocksHold'
  <2>1. \A f \in Entry : cache'[f].locked => \E c \in Nfsd : Holder(c, f)'
    BY <1>5 DEF LocksHold
  <2>2. \A c \in Nfsd : \A f \in Entry : Holder(c, f)' =>
          /\ f \in live' /\ cache'[f].locked /\ cache'[f].key = nfsd'[c].req
          /\ \A b \in Nfsd \ {c} : ~ Holder(b, f)'
    BY <1>1, <1>2, <1>5 DEF LocksHold, Holder
  <2>3. \A c \in Nfsd : nfsd'[c].on # None => cache'[nfsd'[c].on].locked
    BY <1>1, <1>2 DEF LocksHold
  <2> QED
    BY <2>1, <2>2, <2>3 DEF LocksHold
<1>8. SleepSound'
  BY <1>1, <1>2 DEF SleepSound
<1>9. NoOrphan'
  BY <1>6 DEF NoOrphan, Newest, Entries
<1>10. OnceSound'
  BY <1>1, <1>2, <1>6 DEF OnceSound, Once, Entries
<1> QED
  BY <1>3, <1>4, <1>7, <1>8, <1>9, <1>10

(* A request is found in the cache.                                        *)
LEMMA HitStep ==
  ASSUME Inv, NEW d \in Nfsd, NEW r \in Req, Free(d),
         NEW e \in Newest(r), ~ cache[e].locked,
         Hit(d, r, e), UNCHANGED <<answered, runs, crashes>>
  PROVE  Inv'
<1> USE NfsAssumption DEF Inv
<1>0. e \in live /\ e \in Entry /\ cache[e].key = r /\ e \in Entries(r)
  BY DEF Newest, Entries, TypeOK
<1>1. \A c \in Nfsd : c # d => nfsd'[c] = nfsd[c]
  BY DEF TypeOK, Hit
<1>2. UNCHANGED <<answered, live, inserted, lost, runs, crashes>>
  BY DEF Hit
<1>3. \A f \in Entry : f # e => cache'[f] = cache[f]
  BY DEF TypeOK, Hit
<1>4. cache'[e].key = r /\ cache'[e].reply = cache[e].reply
  BY <1>0 DEF TypeOK, Hit
<1> DEFINE go == nfsd'[d]
<1>t. /\ \A x \in Refused(r) :
           /\ x \in [at : Ats, req : Req \cup {None}, on : Entry \cup {None}]
           /\ x.at \in {"idle", "trylater"} /\ x.on = None
           /\ x.at # "idle" => x.req = r
      /\ Idle \in Refused(r)
  BY RefusedIs DEF Refused
<1>u. /\ Then(r, Idle) \in Refused(r)
      /\ Served(r) => Then(r, Doing("doit", r, None)) = Doing("doit", r, None)
      /\ ~ Served(r) => Then(r, Doing("doit", r, None)) \in Refused(r)
  BY <1>t, ThenIs
<1>5. \/ go \in Refused(r) /\ cache' = cache /\ left' = left
      \/ /\ go = Doing("copy", r, e)
         /\ cache[e].state = "DONE" /\ cache[e].reply # None
         /\ cache'[e].state = "DONE" /\ cache'[e].locked
         /\ left' = left
      \/ /\ go = Doing("doit", r, None) \/ (go \in Refused(r) /\ r \in left')
         /\ cache[e].state = "DONE" /\ cache[e].reply = None
         /\ cache'[e].state = "INPROG" /\ ~ cache'[e].locked
         /\ left \ {r} \subseteq left'
  <2>1. \A x : nfsd' = [nfsd EXCEPT ![d] = x] => go = x
    BY DEF TypeOK
  <2>2. CASE cache[e].state = "INPROG"
    BY <1>0, <1>u, <2>1, <2>2 DEF Hit
  <2>3. CASE cache[e].state = "DONE" /\ cache[e].reply # None
    <3>1. go = Doing("copy", r, e) /\ left' = left
      BY <2>1, <2>3 DEF Hit
    <3>2. cache' = [cache EXCEPT ![e].locked = TRUE]
      BY <2>3 DEF Hit
    <3> QED
      BY <1>0, <2>3, <3>1, <3>2 DEF TypeOK
  <2>4. CASE cache[e].state = "DONE" /\ cache[e].reply = None
    <3>1. /\ go = Then(r, Doing("doit", r, None))
          /\ left' = IF Served(r) THEN left \ {r} ELSE left \cup {r}
      BY <2>1, <2>4 DEF Hit, Leaves
    <3>2. cache' = [cache EXCEPT ![e].state = "INPROG"]
      BY <2>4 DEF Hit
    <3>3. cache'[e].state = "INPROG" /\ ~ cache'[e].locked
      BY <1>0, <3>2 DEF TypeOK
    <3>4. go = Doing("doit", r, None) \/ (go \in Refused(r) /\ r \in left')
      BY <1>u, <3>1
    <3>5. left \ {r} \subseteq left'
      BY <3>1
    <3> QED
      BY <2>4, <3>3, <3>4, <3>5
  <2>5. cache[e].state \in {"INPROG", "DONE"}
    BY <1>0 DEF TypeOK
  <2> QED
    BY <2>2, <2>3, <2>4, <2>5
<1>6. \A q : Entries(q)' = Entries(q)
  BY <1>0, <1>2, <1>3, <1>4 DEF Entries, TypeOK
<1>7. \A q : Newest(q)' = Newest(q)
  BY <1>2, <1>6 DEF Newest
<1>8. \A c \in Nfsd : ~ Holder(c, e)
  BY <1>0 DEF LocksHold
<1>9. TypeOK'
  <2>1. cache' \in [Entry -> [key : Req \cup {None}, state : {"INPROG", "DONE"},
                              reply : Req \cup {None}, locked : BOOLEAN]]
    <3> DEFINE Rec == [key : Req \cup {None}, state : {"INPROG", "DONE"},
                       reply : Req \cup {None}, locked : BOOLEAN]
    <3>1. cache \in [Entry -> Rec] /\ cache[e] \in Rec
      BY <1>0 DEF TypeOK
    <3>2. /\ [cache[e] EXCEPT !.locked = TRUE] \in Rec
          /\ [cache[e] EXCEPT !.state = "INPROG"] \in Rec
      BY <3>1
    <3> HIDE DEF Rec
    <3>3. \/ cache' = cache
          \/ \E x \in Rec : cache' = [cache EXCEPT ![e] = x]
      BY <3>1, <3>2 DEF Hit
    <3>4. cache' \in [Entry -> Rec]
      BY <3>1, <3>3
    <3> QED
      BY <3>4 DEF Rec
  <2>2. nfsd' \in [Nfsd -> [at : Ats, req : Req \cup {None}, on : Entry \cup {None}]]
    <3> DEFINE Rec == [at : Ats, req : Req \cup {None}, on : Entry \cup {None}]
    <3>1. /\ \A x \in Refused(r) : x \in Rec
          /\ Doing("copy", r, e) \in Rec /\ Doing("doit", r, None) \in Rec
      BY <1>0, <1>t DEF Doing, Ats
    <3> HIDE DEF Rec
    <3>4. Then(r, Idle) \in Rec /\ Then(r, Doing("doit", r, None)) \in Rec
      BY <1>u, <3>1
    <3>2. \E x \in Rec : nfsd' = [nfsd EXCEPT ![d] = x]
      BY <3>1, <3>4 DEF Hit
    <3>3. nfsd \in [Nfsd -> Rec]
      BY DEF TypeOK, Rec
    <3>5. nfsd' \in [Nfsd -> Rec]
      BY <3>2, <3>3
    <3> QED
      BY <3>5 DEF Rec
  <2>3. \A c \in Nfsd :
          /\ nfsd'[c].at # "idle" => nfsd'[c].req \in Req
          /\ nfsd'[c].on # None =>
               nfsd'[c].at \in {"wait", "lruwait", "updwait", "copy", "save"}
          /\ nfsd'[c].at \in {"copy", "save"} => nfsd'[c].on \in Entry
    <3>1. CASE go \in Refused(r)
      BY <1>1, <1>t, <3>1 DEF TypeOK
    <3>2. CASE go \in {Doing("copy", r, e), Doing("doit", r, None)}
      BY <1>0, <1>1, <3>2 DEF TypeOK, Doing
    <3> QED
      BY <1>5, <3>1, <3>2
  <2> QED
    BY <1>2, <2>1, <2>2, <2>3 DEF TypeOK
<1>10. OrderSound'
  <2>1. \A f \in live : <<e, f>> \in inserted => cache[f].key # r
    BY DEF Newest, Entries
  <2>2. \A f, g \in live' :
          cache'[f].key = cache'[g].key /\ <<f, g>> \in inserted' => <<f, g>> \in used'
    BY <1>0, <1>2, <1>3, <1>4, <2>1 DEF OrderSound, Hit, Last, TypeOK
  <2> QED
    BY <1>2, <2>2 DEF OrderSound
<1>11. LocksHold'
  <2>1. \A c \in Nfsd \ {d} : \A f : Holder(c, f)' <=> Holder(c, f)
    BY <1>1 DEF Holder
  <2>2. \A f \in Entry : ~ Holder(d, f)
    BY DEF Holder, Free
  <2>3. \A f \in Entry : Holder(d, f)' =>
          f = e /\ cache'[e].locked /\ nfsd'[d].req = r
    BY <1>5, <1>t DEF Holder, Doing
  <2>4. \A f \in Entry : cache'[f].locked => \E c \in Nfsd : Holder(c, f)'
    <3> SUFFICES ASSUME NEW f \in Entry, cache'[f].locked
                 PROVE  \E c \in Nfsd : Holder(c, f)'
      OBVIOUS
    <3>1. CASE f = e
      BY <1>5, <3>1 DEF Holder, Doing
    <3>2. CASE f # e
      BY <1>3, <2>1, <2>2, <3>2 DEF LocksHold
    <3> QED
      BY <3>1, <3>2
  <2>5. \A c \in Nfsd : \A f \in Entry : Holder(c, f)' =>
          /\ f \in live' /\ cache'[f].locked /\ cache'[f].key = nfsd'[c].req
          /\ \A b \in Nfsd \ {c} : ~ Holder(b, f)'
    BY <1>0, <1>1, <1>2, <1>3, <1>4, <1>8, <2>1, <2>3 DEF LocksHold
  <2>6. \A c \in Nfsd : nfsd'[c].on # None => cache'[nfsd'[c].on].locked
    <3>1. go.on # None => go.on = e /\ cache'[e].locked
      BY <1>5, <1>t DEF Doing
    <3>2. \A c \in Nfsd : nfsd[c].on # None =>
             nfsd[c].on \in Entry /\ cache'[nfsd[c].on].locked
      <4>1. ~ cache[e].locked
        OBVIOUS
      <4> QED
        BY <1>3, <4>1 DEF LocksHold, TypeOK
    <3> QED
      BY <1>1, <3>1, <3>2
  <2> QED
    BY <2>4, <2>5, <2>6 DEF LocksHold
<1>12. RepliesMatch'
  BY <1>0, <1>2, <1>3, <1>4, <1>5 DEF RepliesMatch, TypeOK
<1>13. SleepSound'
  <2> SUFFICES ASSUME NEW c \in Nfsd
               PROVE  /\ nfsd'[c].at = "save" =>
                           /\ cache'[nfsd'[c].on].state = "DONE"
                           /\ nfsd'[c].req \in Nonidem \ Bad /\ runs'[nfsd'[c].req] > 0
                      /\ nfsd'[c].at = "copy" => cache'[nfsd'[c].on].reply # None
                      /\ nfsd'[c].at = "updwait" /\ nfsd'[c].req \in Nonidem \ Bad =>
                           runs'[nfsd'[c].req] > 0
    BY DEF SleepSound
  <2>1. CASE c = d
    <3>1. /\ go.at \notin {"save", "updwait"}
          /\ go.at = "copy" => go.on = e /\ cache[e].reply # None
      BY <1>5, <1>t DEF Doing
    <3> QED
      BY <1>4, <2>1, <3>1
  <2>2. CASE nfsd[c].at \in {"copy", "save"} /\ c # d
    <3>1. nfsd[c].on \in Entry /\ nfsd[c].on # e /\ nfsd'[c] = nfsd[c]
      BY <1>1, <1>8, <2>2 DEF TypeOK, Holder
    <3> QED
      BY <1>2, <1>3, <2>2, <3>1 DEF SleepSound
  <2>3. CASE nfsd[c].at \notin {"copy", "save"} /\ c # d
    BY <1>1, <1>2, <2>3 DEF SleepSound
  <2> QED
    BY <2>1, <2>2, <2>3
<1>14. \A c \in Nfsd : \A q : Working(c, q) => Working(c, q)'
  BY <1>1 DEF Working, Free
<1>15. \A c \in Nfsd : \A q : Working(c, q)' =>
         \/ Working(c, q)
         \/ c = d /\ q = r /\ nfsd'[d] = Doing("doit", r, None)
  <2>1. \A q : Working(d, q)' => nfsd'[d] = Doing("doit", r, None) /\ q = r
    <3>1. CASE nfsd'[d] = Doing("doit", r, None)
      BY <3>1 DEF Working, Doing
    <3>2. CASE nfsd'[d] # Doing("doit", r, None)
      BY <1>5, <1>t, <3>2 DEF Working, Doing
    <3> QED
      BY <3>1, <3>2
  <2>2. \A c \in Nfsd \ {d} : \A q : Working(c, q)' => Working(c, q)
    BY <1>1 DEF Working
  <2> SUFFICES ASSUME NEW c \in Nfsd, NEW q, Working(c, q)', ~ Working(c, q)
               PROVE  c = d /\ q = r /\ nfsd'[d] = Doing("doit", r, None)
    OBVIOUS
  <2>3. c = d
    BY <2>2
  <2> QED
    BY <2>1, <2>3
<1>16. NoOrphan'
  <2>1. \A q \in Req : \A f \in Newest(q) : f = e <=> f = e /\ q = r
    BY <1>0 DEF Newest, Entries
  <2>2. nfsd'[d] = Doing("doit", r, None) => Working(d, r)'
    BY DEF Working, Doing
  <2>3. \A q \in Req : \A f \in Newest(q) : f \in Entry
    BY DEF Newest, Entries, TypeOK
  <2> SUFFICES ASSUME NEW q \in Req, q \notin left', NEW f \in Newest(q),
                      cache'[f].state = "INPROG"
               PROVE  \E c \in Nfsd : Working(c, q)'
    BY <1>7 DEF NoOrphan
  <2>4. CASE f = e /\ nfsd'[d] = Doing("doit", r, None)
    BY <2>1, <2>2, <2>4
  <2>5. CASE f = e /\ nfsd'[d] # Doing("doit", r, None)
    <3>1. q = r /\ cache' = cache /\ left' = left
      BY <1>5, <2>1, <2>5
    <3> QED
      BY <1>14, <3>1 DEF NoOrphan
  <2>6. CASE f # e
    <3>1. q # r
      BY <2>6, NewestUnique
    <3>2. q \notin left
      BY <1>5, <3>1
    <3> QED
      BY <1>3, <1>14, <2>3, <2>6, <3>2 DEF NoOrphan
  <2> QED
    BY <2>4, <2>5, <2>6
<1>17. OnceSound'
  <2>1. \A q \in Nonidem \cap Bad : runs'[q] = 0
    BY <1>2 DEF OnceSound
  <2> SUFFICES ASSUME NEW q \in Nonidem, q \notin lost PROVE Once(q)'
    BY <1>2, <2>1 DEF OnceSound
  <2>2. Once(q)
    BY DEF OnceSound
  <2>3. CASE q # r
    <3>1. \A f \in Entries(q) : f # e /\ f \in Entry
      BY <1>0, <2>3 DEF Entries, TypeOK
    <3>2. \A c \in Nfsd : Working(c, q)' => Working(c, q) /\ c # d
      BY <1>15, <2>3 DEF Working, Free
    <3> QED
      BY <1>1, <1>2, <1>3, <1>6, <2>2, <3>1, <3>2 DEF Once
  <2>4. CASE q = r /\ nfsd'[d] # Doing("doit", r, None)
    <3>1. \A c \in Nfsd : Working(c, q)' => Working(c, q) /\ c # d
      BY <1>15, <2>4 DEF Working, Free
    <3>2. \A f \in Entries(q) : f = e
      BY <1>0, <2>2, <2>4 DEF Once
    <3>3. CASE cache'[e].state = cache[e].state
      <4>1. \A f \in Entries(q) : cache[f].locked => f # e
        BY <3>2
      <4> QED
        BY <1>1, <1>2, <1>4, <1>5, <1>6, <2>2, <2>4, <3>1, <3>2, <3>3 DEF Once
    <3>4. CASE cache'[e].state # cache[e].state
      <4>1. cache[e].state = "DONE" /\ cache'[e].state = "INPROG"
        BY <1>5, <3>4
      <4>2. \A c \in Nfsd : ~ Working(c, q)'
        BY <1>0, <2>2, <2>4, <3>1, <4>1 DEF Once
      <4> QED
        BY <1>0, <1>2, <1>6, <2>2, <2>4, <3>2, <4>1, <4>2 DEF Once
    <3> QED
      BY <3>3, <3>4
  <2>5. CASE q = r /\ nfsd'[d] = Doing("doit", r, None)
    <3>1. /\ cache[e].state = "DONE" /\ cache[e].reply = None
          /\ cache'[e].state = "INPROG"
      <4>1. /\ Doing("doit", r, None).at = "doit"
            /\ Doing("copy", r, e).at = "copy"
        BY DEF Doing
      <4>2. go \notin Refused(r) /\ go # Doing("copy", r, e)
        BY <1>t, <2>5, <4>1
      <4> QED
        BY <1>5, <4>2
    <3>2. r \in Bad /\ runs[r] = 0
      BY <1>0, <2>2, <2>5, <3>1 DEF Once, OnceSound
    <3>3. \A c \in Nfsd : ~ Working(c, q)
      BY <1>0, <2>2, <2>5, <3>1 DEF Once
    <3>4. \A c \in Nfsd : Working(c, q)' => c = d
      BY <1>15, <3>3
    <3>5. \A f \in Entries(q) : f = e
      BY <1>0, <2>2, <2>5 DEF Once
    <3> QED
      BY <1>0, <1>2, <1>6, <2>5, <3>1, <3>2, <3>4, <3>5 DEF Once
  <2> QED
    BY <2>3, <2>4, <2>5
<1> QED
  BY <1>9, <1>10, <1>11, <1>12, <1>13, <1>16, <1>17

(* A request is entered, in a new entry or in the oldest one.              *)
LEMMA InsertStep ==
  ASSUME Inv, NEW d \in Nfsd, NEW r \in Req, Free(d), NEW e \in Entry,
         e \in live => e \in Oldest /\ ~ cache[e].locked,
         Insert(d, r, e), UNCHANGED <<answered, runs, crashes>>
  PROVE  Inv'
<1> USE NfsAssumption DEF Inv
<1> DEFINE New == Then(r, Doing("doit", r, None))
<1>t. /\ Served(r) => New = Doing("doit", r, None)
      /\ ~ Served(r) => New \in Refused(r)
  BY ThenIs
<1>v. /\ Doing("doit", r, None) \in [at : Ats, req : Req \cup {None}, on : Entry \cup {None}]
      /\ Doing("doit", r, None).at = "doit" /\ Doing("doit", r, None).req = r
      /\ Doing("doit", r, None).on = None
  BY DEF Doing, Ats
<1>0. /\ New \in [at : Ats, req : Req \cup {None}, on : Entry \cup {None}]
      /\ New.at \in {"idle", "trylater", "doit"} /\ New.on = None
      /\ New.at # "idle" => New.req = r
      /\ New.at = "doit" <=> Served(r)
  BY <1>t, <1>v, RefusedIs
<1>w. left' = IF Served(r) THEN left \ {r} ELSE left \cup {r}
  BY DEF Insert, Leaves
<1>1. nfsd' = Unlock(d, e, New)
  BY DEF Insert
<1> HIDE DEF New
<1>2. /\ nfsd' \in [Nfsd -> [at : Ats, req : Req \cup {None}, on : Entry \cup {None}]]
      /\ nfsd'[d] = New
      /\ \A c \in Nfsd \ {d} :
           /\ nfsd'[c].at = nfsd[c].at /\ nfsd'[c].req = nfsd[c].req
           /\ nfsd'[c].on \in {nfsd[c].on, None}
           /\ nfsd'[c].on # nfsd[c].on =>
                nfsd[c].on = e /\ nfsd[c].at \in {"wait", "lruwait", "updwait"}
  BY <1>0, <1>1, UnlockDoes
<1>3. \A f \in Entry : f # e => cache'[f] = cache[f]
  BY DEF TypeOK, Insert
<1>4. /\ cache'[e].key = r /\ cache'[e].state = "INPROG"
      /\ cache'[e].reply = None /\ cache'[e].locked = FALSE
  BY DEF TypeOK, Insert, Fresh
<1>5. live' = live \cup {e} /\ inserted' = Last(inserted, e) /\ used' = Last(used, e)
  BY DEF Insert
<1>6. UNCHANGED <<answered, runs, crashes>>
  OBVIOUS
<1>7. \A c \in Nfsd : ~ Holder(c, e) /\ (cache[e].locked = FALSE)
  BY DEF LocksHold, TypeOK
<1>8. Entries(r)' = Entries(r) \cup {e}
  BY <1>3, <1>4, <1>5 DEF Entries, TypeOK
<1>9. \A q : q # r => Entries(q)' = Entries(q) \ {e}
  BY <1>3, <1>4, <1>5 DEF Entries, TypeOK
<1>10. TypeOK'
  <2>1. cache' \in [Entry -> [key : Req \cup {None}, state : {"INPROG", "DONE"},
                              reply : Req \cup {None}, locked : BOOLEAN]]
    <3> DEFINE Rec == [key : Req \cup {None}, state : {"INPROG", "DONE"},
                       reply : Req \cup {None}, locked : BOOLEAN]
    <3>1. [Fresh EXCEPT !.key = r] \in Rec
      BY DEF Fresh
    <3>2. cache \in [Entry -> Rec]
      BY DEF TypeOK
    <3> HIDE DEF Rec
    <3>3. cache' \in [Entry -> Rec]
      BY <3>1, <3>2 DEF Insert
    <3> QED
      BY <3>3 DEF Rec
  <2>2. \A c \in Nfsd :
          /\ nfsd'[c].at # "idle" => nfsd'[c].req \in Req
          /\ nfsd'[c].on # None =>
               nfsd'[c].at \in {"wait", "lruwait", "updwait", "copy", "save"}
          /\ nfsd'[c].at \in {"copy", "save"} => nfsd'[c].on \in Entry
    BY <1>0, <1>2 DEF TypeOK
  <2>3. lost' \subseteq Nonidem /\ live' \subseteq Entry
    BY <1>5 DEF Insert, TypeOK
  <2> QED
    BY <1>2, <1>6, <2>1, <2>2, <2>3 DEF TypeOK
<1>11. OrderSound'
  <2>1. inserted' \subseteq live' \X live'
    BY <1>5 DEF OrderSound, Last
  <2>2. \A f, g \in live' : f # g => <<f, g>> \in inserted' \/ <<g, f>> \in inserted'
    BY <1>5 DEF OrderSound, Last
  <2>3. ASSUME NEW f \in live', NEW g \in live',
               cache'[f].key = cache'[g].key, <<f, g>> \in inserted'
        PROVE  <<f, g>> \in used'
    <3>1. CASE g = e
      BY <1>5, <2>3, <3>1 DEF Last
    <3>2. CASE g # e
      <4>1. f # e /\ f \in live /\ g \in live /\ <<f, g>> \in inserted
        BY <1>5, <2>3, <3>2 DEF Last
      <4>2. cache'[f] = cache[f] /\ cache'[g] = cache[g]
        BY <1>3, <3>2, <4>1 DEF TypeOK
      <4> QED
        BY <1>5, <2>3, <4>1, <4>2 DEF OrderSound, Last
    <3> QED
      BY <3>1, <3>2
  <2> QED
    BY <2>1, <2>2, <2>3 DEF OrderSound
<1>12. \A f : ~ Holder(d, f) /\ ~ Holder(d, f)'
  BY <1>0, <1>2 DEF Holder, Free
<1>13. \A c \in Nfsd : \A f \in Entry : Holder(c, f)' <=> Holder(c, f)
  <2> SUFFICES ASSUME NEW c \in Nfsd, c # d, NEW f \in Entry
               PROVE  Holder(c, f)' <=> Holder(c, f)
    BY <1>12
  <2> QED
    BY <1>2 DEF Holder
<1>14. LocksHold'
  <2>1. \A f \in Entry : cache'[f].locked => \E c \in Nfsd : Holder(c, f)'
    BY <1>3, <1>4, <1>13 DEF LocksHold
  <2>2. \A c \in Nfsd : \A f \in Entry : Holder(c, f)' =>
          /\ f \in live' /\ cache'[f].locked /\ cache'[f].key = nfsd'[c].req
          /\ \A b \in Nfsd \ {c} : ~ Holder(b, f)'
    <3> SUFFICES ASSUME NEW c \in Nfsd, NEW f \in Entry, Holder(c, f)
                 PROVE  /\ f \in live' /\ cache'[f].locked /\ cache'[f].key = nfsd'[c].req
                        /\ \A b \in Nfsd \ {c} : ~ Holder(b, f)'
      BY <1>13
    <3>1. f # e /\ c # d
      BY <1>7, <1>12
    <3> QED
      BY <1>2, <1>3, <1>5, <1>13, <3>1 DEF LocksHold
  <2>3. \A c \in Nfsd : nfsd'[c].on # None => cache'[nfsd'[c].on].locked
    <3> SUFFICES ASSUME NEW c \in Nfsd, nfsd'[c].on # None
                 PROVE  cache'[nfsd'[c].on].locked
      OBVIOUS
    <3>1. c # d /\ nfsd'[c].on = nfsd[c].on /\ nfsd[c].on \in Entry
      BY <1>0, <1>2 DEF TypeOK
    <3>2. cache[nfsd[c].on].locked
      BY <3>1 DEF LocksHold
    <3> QED
      BY <1>3, <1>7, <3>1, <3>2
  <2> QED
    BY <2>1, <2>2, <2>3 DEF LocksHold
<1>15. RepliesMatch'
  <2> SUFFICES ASSUME NEW f \in live', cache'[f].reply # None
               PROVE  /\ cache'[f].state = "DONE" /\ cache'[f].reply = cache'[f].key
                      /\ cache'[f].key \in Nonidem /\ runs'[cache'[f].key] > 0
    BY DEF RepliesMatch
  <2>1. f # e /\ f \in live /\ cache'[f] = cache[f]
    BY <1>3, <1>4, <1>5 DEF TypeOK
  <2> QED
    BY <1>6, <2>1 DEF RepliesMatch
<1>16. SleepSound'
  <2> SUFFICES ASSUME NEW c \in Nfsd
               PROVE  /\ nfsd'[c].at = "save" =>
                           /\ cache'[nfsd'[c].on].state = "DONE"
                           /\ nfsd'[c].req \in Nonidem \ Bad /\ runs'[nfsd'[c].req] > 0
                      /\ nfsd'[c].at = "copy" => cache'[nfsd'[c].on].reply # None
                      /\ nfsd'[c].at = "updwait" /\ nfsd'[c].req \in Nonidem \ Bad =>
                           runs'[nfsd'[c].req] > 0
    BY DEF SleepSound
  <2>1. CASE c = d
    BY <1>0, <1>2, <2>1
  <2>2. CASE nfsd[c].at \in {"copy", "save"} /\ c # d
    <3>1. nfsd[c].on \in Entry /\ nfsd[c].on # e
      BY <1>7, <2>2 DEF TypeOK, Holder
    <3>2. nfsd'[c].on = nfsd[c].on /\ cache'[nfsd[c].on] = cache[nfsd[c].on]
      BY <1>2, <1>3, <2>2, <3>1
    <3> QED
      BY <1>2, <1>6, <2>2, <3>2 DEF SleepSound
  <2>3. CASE nfsd[c].at \notin {"copy", "save"} /\ c # d
    BY <1>2, <1>6, <2>3 DEF SleepSound
  <2> QED
    BY <2>1, <2>2, <2>3
<1>17. \A c \in Nfsd \ {d} : \A q : Working(c, q)' <=> Working(c, q)
  BY <1>2 DEF Working
<1>18. \A q : ~ Working(d, q) /\ (Working(d, q)' <=> q = r /\ Served(r))
  BY <1>0, <1>2 DEF Working, Free
<1>19. NoOrphan'
  <2> SUFFICES ASSUME NEW q \in Req, q \notin left', NEW f \in Newest(q)',
                      cache'[f].state = "INPROG"
               PROVE  \E c \in Nfsd : Working(c, q)'
    BY DEF NoOrphan
  <2>1. CASE q = r
    BY <1>18, <1>w, <2>1
  <2>2. CASE q # r
    <3>1. f \in Entries(q) \ {e} /\ f \in live /\ f \in Entry /\ cache[f].key = q
      <4>1. f \in Entries(q)'
        BY DEF Newest
      <4>2. f \in Entries(q) \ {e}
        BY <1>9, <2>2, <4>1
      <4> QED
        BY <4>2 DEF Entries, TypeOK
    <3>2. cache'[f] = cache[f]
      BY <1>3, <3>1
    <3>3. \A g \in Entries(q) \ {e} : <<f, g>> \notin inserted
      <4> SUFFICES ASSUME NEW g \in Entries(q) \ {e}, <<f, g>> \in inserted PROVE FALSE
        OBVIOUS
      <4>1. <<f, g>> \in inserted'
        BY <1>5, <3>1 DEF Last
      <4> QED
        BY <1>9, <2>2, <4>1 DEF Newest
    <3>4. e \in Entries(q) => <<f, e>> \notin inserted
      <4> SUFFICES ASSUME e \in Entries(q), <<f, e>> \in inserted PROVE FALSE
        OBVIOUS
      <4>1. e \in live /\ cache[e].key = q
        BY DEF Entries
      <4>2. <<f, e>> \in used
        BY <3>1, <4>1 DEF OrderSound
      <4> QED
        BY <3>1, <4>1, <4>2 DEF Oldest
    <3>5. f \in Newest(q)
      BY <3>1, <3>3, <3>4 DEF Newest
    <3>6. PICK c \in Nfsd : Working(c, q)
      BY <1>w, <2>2, <3>2, <3>5 DEF NoOrphan
    <3> QED
      BY <1>17, <1>18, <3>6
  <2> QED
    BY <2>1, <2>2
<1>20. OnceSound'
  <2>1. \A q \in Nonidem \cap Bad : runs'[q] = 0
    BY <1>6 DEF OnceSound
  <2> SUFFICES ASSUME NEW q \in Nonidem, q \notin lost' PROVE Once(q)'
    BY <2>1 DEF OnceSound
  <2>2. /\ q \notin lost
        /\ \A f \in Entries(r) \cup (live \cap {e}) : cache[f].key # q
    BY DEF Insert
  <2>3. Once(q)
    BY <2>2 DEF OnceSound
  <2>4. CASE q = r
    <3>1. Entries(r) = {}
      BY <2>2, <2>4 DEF Entries
    <3>2. Entries(q)' = {e}
      BY <1>8, <2>4, <3>1
    <3>3. runs'[q] = 0 /\ \A c \in Nfsd : ~ Working(c, q)
      BY <1>6, <2>3, <2>4, <3>1 DEF Once
    <3>4. \A c \in Nfsd : Working(c, q)' => c = d
      BY <1>17, <3>3
    <3> QED
      BY <1>4, <3>2, <3>3, <3>4 DEF Once
  <2>5. CASE q # r
    <3>1. e \notin Entries(q)
      BY <2>2 DEF Entries
    <3>2. Entries(q)' = Entries(q)
      BY <1>9, <2>5, <3>1
    <3>3. \A f \in Entries(q) : cache'[f] = cache[f]
      BY <1>3, <3>1 DEF Entries, TypeOK
    <3>4. \A c \in Nfsd : Working(c, q)' => Working(c, q) /\ nfsd'[c].at = nfsd[c].at
      BY <1>2, <1>17, <1>18, <2>5
    <3> QED
      BY <1>6, <2>3, <3>2, <3>3, <3>4, <1>17, <1>18, <2>5 DEF Once
  <2> QED
    BY <2>4, <2>5
<1> QED
  BY <1>10, <1>11, <1>14, <1>15, <1>16, <1>19, <1>20

-----------------------------------------------------------------------------
(* A copied or saved reply: the entry is unlocked, with its reply in it.   *)
CacheType == [Entry -> [key : Req \cup {None}, state : {"INPROG", "DONE"},
                        reply : Req \cup {None}, locked : BOOLEAN]]

LEMMA ReleaseStep ==
  ASSUME Inv, NEW d \in Nfsd, NEW e \in Entry, Holder(d, e),
         cache[e].state = "DONE", cache[e].key \in Nonidem, runs[cache[e].key] > 0,
         NEW to \in Refused(nfsd[d].req),
         nfsd' = Unlock(d, e, to), cache' \in CacheType,
         \A f \in Entry : f # e => cache'[f] = cache[f],
         cache'[e].key = cache[e].key, cache'[e].state = "DONE",
         cache'[e].reply = cache[e].key, cache'[e].locked = FALSE,
         UNCHANGED <<lists, runs, lost, crashes, left>>, answered' \subseteq Req
  PROVE  Inv'
<1> USE NfsAssumption DEF Inv
<1>0. /\ nfsd[d].at \in {"copy", "save"} /\ e \in live /\ cache[e].locked
      /\ cache[e].key = nfsd[d].req /\ nfsd[d].on = e /\ cache[e].key \in Req
  BY DEF Holder, LocksHold
<1>1. /\ to \in [at : Ats, req : Req \cup {None}, on : Entry \cup {None}]
      /\ to.at \in {"idle", "trylater"} /\ to.on = None
      /\ to.at # "idle" => to.req = nfsd[d].req
  BY <1>0, RefusedIs
<1>2. /\ nfsd' = Unlock(d, e, to)
      /\ UNCHANGED <<lists, runs, lost, crashes, left>>
      /\ \A f \in Entry : f # e => cache'[f] = cache[f]
  OBVIOUS
<1>3. /\ nfsd' \in [Nfsd -> [at : Ats, req : Req \cup {None}, on : Entry \cup {None}]]
      /\ nfsd'[d] = to
      /\ \A c \in Nfsd \ {d} :
           /\ nfsd'[c].at = nfsd[c].at /\ nfsd'[c].req = nfsd[c].req
           /\ nfsd'[c].on \in {nfsd[c].on, None}
           /\ nfsd'[c].on # nfsd[c].on =>
                nfsd[c].on = e /\ nfsd[c].at \in {"wait", "lruwait", "updwait"}
           /\ nfsd[c].on = e /\ nfsd[c].at \in {"wait", "lruwait", "updwait"} =>
                nfsd'[c].on = None
  BY <1>0, <1>1, <1>2, UnlockDoes
<1>4. /\ \A f \in Entry : cache'[f].key = cache[f].key /\ cache'[f].state = cache[f].state
      /\ \A f \in Entry : cache[f].reply # None => cache'[f].reply # None
      /\ cache'[e].reply = cache[e].key /\ cache'[e].locked = FALSE
  BY <1>0
<1>5. TypeOK'
  <2>1. \A c \in Nfsd :
          /\ nfsd'[c].at # "idle" => nfsd'[c].req \in Req
          /\ nfsd'[c].on # None =>
               nfsd'[c].at \in {"wait", "lruwait", "updwait", "copy", "save"}
          /\ nfsd'[c].at \in {"copy", "save"} => nfsd'[c].on \in Entry
    BY <1>0, <1>1, <1>3 DEF TypeOK
  <2> QED
    BY <1>1, <1>2, <1>3, <2>1 DEF TypeOK, CacheType, lists
<1>6. \A q : Entries(q)' = Entries(q)
  BY <1>2, <1>4 DEF Entries, lists, TypeOK
<1>7. \A q : Newest(q)' = Newest(q)
  BY <1>2, <1>6 DEF Newest, lists
<1>8. \A c \in Nfsd : \A q : Working(c, q)' <=> Working(c, q)
  <2>1. \A q : ~ Working(d, q) /\ ~ Working(d, q)'
    BY <1>0, <1>1, <1>3 DEF Working
  <2>2. \A c \in Nfsd \ {d} : \A q : Working(c, q)' <=> Working(c, q)
    BY <1>3 DEF Working
  <2> QED
    BY <2>1, <2>2
<1>9. OrderSound'
  BY <1>2, <1>4 DEF OrderSound, lists, TypeOK
<1>10. \A c \in Nfsd : \A f \in Entry : Holder(c, f)' <=> Holder(c, f) /\ c # d
  <2>1. \A f \in Entry : ~ Holder(d, f)'
    BY <1>1, <1>3 DEF Holder
  <2>2. \A c \in Nfsd \ {d} : \A f \in Entry : Holder(c, f)' <=> Holder(c, f)
    BY <1>3 DEF Holder
  <2> QED
    BY <2>1, <2>2
<1>11. LocksHold'
  <2>1. \A f \in Entry : cache'[f].locked => \E c \in Nfsd : Holder(c, f)'
    <3> SUFFICES ASSUME NEW f \in Entry, cache'[f].locked
                 PROVE  \E c \in Nfsd : Holder(c, f)'
      OBVIOUS
    <3>1. f # e /\ cache[f].locked
      BY <1>2, <1>4
    <3>2. PICK c \in Nfsd : Holder(c, f)
      BY <3>1 DEF LocksHold
    <3>3. c # d
      BY <1>0, <3>1, <3>2 DEF Holder
    <3> QED
      BY <1>10, <3>2, <3>3
  <2>2. \A c \in Nfsd : \A f \in Entry : Holder(c, f)' =>
          /\ f \in live' /\ cache'[f].locked /\ cache'[f].key = nfsd'[c].req
          /\ \A b \in Nfsd \ {c} : ~ Holder(b, f)'
    <3> SUFFICES ASSUME NEW c \in Nfsd, NEW f \in Entry, Holder(c, f), c # d
                 PROVE  /\ f \in live' /\ cache'[f].locked /\ cache'[f].key = nfsd'[c].req
                        /\ \A b \in Nfsd \ {c} : ~ Holder(b, f)'
      BY <1>10
    <3>1. f # e
      BY <1>0 DEF LocksHold
    <3> QED
      BY <1>2, <1>3, <1>10, <3>1 DEF LocksHold, lists
  <2>3. \A c \in Nfsd : nfsd'[c].on # None => cache'[nfsd'[c].on].locked
    <3> SUFFICES ASSUME NEW c \in Nfsd, nfsd'[c].on # None
                 PROVE  cache'[nfsd'[c].on].locked
      OBVIOUS
    <3>1. c # d /\ nfsd'[c].on = nfsd[c].on /\ nfsd[c].on \in Entry
      BY <1>1, <1>3 DEF TypeOK
    <3>2. cache[nfsd[c].on].locked
      BY <3>1 DEF LocksHold
    <3>3. nfsd[c].on # e
      <4> SUFFICES ASSUME nfsd[c].on = e PROVE FALSE
        OBVIOUS
      <4>1. nfsd[c].at \in {"copy", "save"}
        BY <1>3, <3>1 DEF TypeOK
      <4> QED
        BY <1>0, <3>1, <4>1 DEF LocksHold, Holder
    <3> QED
      BY <1>2, <3>1, <3>2, <3>3
  <2> QED
    BY <2>1, <2>2, <2>3 DEF LocksHold
<1>12. RepliesMatch'
  <2> SUFFICES ASSUME NEW f \in live, cache'[f].reply # None
               PROVE  /\ cache'[f].state = "DONE" /\ cache'[f].reply = cache'[f].key
                      /\ cache'[f].key \in Nonidem /\ runs'[cache'[f].key] > 0
    BY DEF RepliesMatch, lists
  <2>1. CASE f = e
    BY <1>2, <2>1
  <2>2. CASE f # e
    BY <1>2, <2>2 DEF RepliesMatch, TypeOK
  <2> QED
    BY <2>1, <2>2
<1>13. SleepSound'
  <2> SUFFICES ASSUME NEW c \in Nfsd, c # d
               PROVE  /\ nfsd'[c].at = "save" =>
                           /\ cache'[nfsd'[c].on].state = "DONE"
                           /\ nfsd'[c].req \in Nonidem \ Bad /\ runs'[nfsd'[c].req] > 0
                      /\ nfsd'[c].at = "copy" => cache'[nfsd'[c].on].reply # None
                      /\ nfsd'[c].at = "updwait" /\ nfsd'[c].req \in Nonidem \ Bad =>
                           runs'[nfsd'[c].req] > 0
    BY <1>1, <1>3 DEF SleepSound
  <2>1. nfsd[c].at \in {"copy", "save"} => nfsd'[c].on = nfsd[c].on /\ nfsd[c].on \in Entry
    BY <1>3 DEF TypeOK
  <2> QED
    BY <1>2, <1>3, <1>4, <2>1 DEF SleepSound
<1>14. NoOrphan'
  <2> SUFFICES ASSUME NEW q \in Req \ left, NEW f \in Newest(q),
                      cache'[f].state = "INPROG"
               PROVE  \E c \in Nfsd : Working(c, q)'
    BY <1>2, <1>7 DEF NoOrphan
  <2>1. f \in Entry
    BY DEF Newest, Entries, TypeOK
  <2>2. PICK c \in Nfsd : Working(c, q)
    BY <1>4, <2>1 DEF NoOrphan
  <2> QED
    BY <1>8, <2>2
<1>15. OnceSound'
  <2>1. \A q \in Nonidem \cap Bad : runs'[q] = 0
    BY <1>2 DEF OnceSound
  <2> SUFFICES ASSUME NEW q \in Nonidem, q \notin lost PROVE Once(q)'
    BY <1>2, <2>1 DEF OnceSound
  <2>2. Once(q)
    BY DEF OnceSound
  <2>3. \A c \in Nfsd : Working(c, q) => c # d /\ nfsd'[c].at = nfsd[c].at
    BY <1>0, <1>3 DEF Working
  <2>4. \A f \in Entries(q) : f \in Entry
    BY DEF Entries, TypeOK
  <2>5. \A f \in Entries(q) : f = e => cache'[f].reply # None
    BY <1>0, <1>4
  <2> QED
    BY <1>2, <1>4, <1>6, <1>8, <2>2, <2>3, <2>4, <2>5 DEF Once
<1> QED
  BY <1>5, <1>9, <1>11, <1>12, <1>13, <1>14, <1>15

LEMMA CopiedStep ==
  ASSUME Inv, NEW d \in Nfsd, Copied(d)
  PROVE  Inv'
<1> USE NfsAssumption DEF Inv
<1> DEFINE e == nfsd[d].on
<1>1. /\ nfsd[d].at = "copy" /\ e \in Entry /\ Holder(d, e) /\ e \in live
      /\ cache[e].reply # None
  <2>1. nfsd[d].at = "copy"
    BY DEF Copied
  <2>2. e \in Entry /\ Holder(d, e)
    BY <2>1 DEF SleepSound, Holder, TypeOK
  <2>. QED  BY <2>1, <2>2 DEF Holder, LocksHold, TypeOK, SleepSound
<1>2. /\ cache[e].state = "DONE" /\ cache[e].key \in Nonidem /\ runs[cache[e].key] > 0
      /\ cache[e].reply = cache[e].key
  BY <1>1 DEF RepliesMatch
<1> HIDE DEF e
<1>3. /\ nfsd' = Unlock(d, e, Then(nfsd[d].req, Idle))
      /\ cache' = [cache EXCEPT ![e].locked = FALSE]
      /\ UNCHANGED <<lists, runs, lost, crashes, left>>
      /\ answered' \in {answered, answered \cup {cache[e].reply}}
  BY DEF Copied, Send, e
<1>5. Then(nfsd[d].req, Idle) \in Refused(nfsd[d].req)
  <2>1. Idle \in Refused(nfsd[d].req)
    BY DEF Refused
  <2> QED
    BY <2>1, ThenIs
<1>4. /\ cache' \in CacheType /\ answered' \subseteq Req
      /\ \A f \in Entry : f # e => cache'[f] = cache[f]
      /\ cache'[e].key = cache[e].key /\ cache'[e].state = "DONE"
      /\ cache'[e].reply = cache[e].key /\ cache'[e].locked = FALSE
  <2> DEFINE new == [cache[e] EXCEPT !.locked = FALSE]
  <2>1. cache \in CacheType /\ cache[e] \in [key : Req \cup {None}, state : {"INPROG", "DONE"},
                                            reply : Req \cup {None}, locked : BOOLEAN]
    BY <1>1 DEF TypeOK, CacheType
  <2>2. /\ new \in [key : Req \cup {None}, state : {"INPROG", "DONE"},
                     reply : Req \cup {None}, locked : BOOLEAN]
        /\ new.key = cache[e].key /\ new.state = "DONE"
        /\ new.reply = cache[e].key /\ new.locked = FALSE
    BY <1>2, <2>1
  <2>3. cache' = [cache EXCEPT ![e] = new]
    BY <1>3
  <2> HIDE DEF new
  <2>4. cache' \in CacheType /\ cache'[e] = new /\ \A f \in Entry : f # e => cache'[f] = cache[f]
    BY <1>1, <2>1, <2>2, <2>3 DEF CacheType
  <2>5. answered' \subseteq Req
    BY <1>2, <1>3 DEF TypeOK
  <2> QED
    BY <2>2, <2>4, <2>5
<1> QED
  BY <1>1, <1>2, <1>3, <1>4, <1>5, ReleaseStep

(* "Try again later" is sent.                                              *)
LEMMA TrylaterStep ==
  ASSUME Inv, NEW d \in Nfsd, Trylater(d)
  PROVE  Inv'
<1> USE NfsAssumption DEF Inv
<1>1. /\ nfsd[d].at = "trylater" /\ nfsd[d].req \in Req /\ nfsd[d].on = None
      /\ UNCHANGED <<cache, lists, runs, lost, crashes, left>>
  BY DEF Trylater, TypeOK
<1>2. answered' \subseteq Req
  BY <1>1 DEF Trylater, Send, TypeOK
<1>3. /\ Idle \in [at : Ats, req : Req \cup {None}, on : Entry \cup {None}]
      /\ Idle.at = "idle" /\ Idle.on = None
  BY DEF Idle, Ats
<1>4. /\ nfsd' \in [Nfsd -> [at : Ats, req : Req \cup {None}, on : Entry \cup {None}]]
      /\ nfsd'[d].at = "idle" /\ nfsd'[d].on = None
      /\ \A c \in Nfsd : c # d => nfsd'[c] = nfsd[c]
  BY <1>3 DEF Trylater, TypeOK
<1>5. TypeOK'
  BY <1>1, <1>2, <1>4 DEF TypeOK, lists
<1>6. OrderSound' /\ RepliesMatch'
  BY <1>1 DEF OrderSound, RepliesMatch, lists
<1>7. \A c \in Nfsd : \A f : Holder(c, f)' <=> Holder(c, f)
  BY <1>1, <1>4 DEF Holder
<1>8. \A c \in Nfsd : \A q : Working(c, q)' <=> Working(c, q)
  BY <1>1, <1>4 DEF Working
<1>9. LocksHold'
  <2>1. \A f \in Entry : cache'[f].locked => \E c \in Nfsd : Holder(c, f)'
    BY <1>1, <1>7 DEF LocksHold
  <2>2. \A c \in Nfsd : \A f \in Entry : Holder(c, f)' =>
          /\ f \in live' /\ cache'[f].locked /\ cache'[f].key = nfsd'[c].req
          /\ \A b \in Nfsd \ {c} : ~ Holder(b, f)'
    <3>1. \A f : ~ Holder(d, f)
      BY <1>1 DEF Holder
    <3> QED
      BY <1>1, <1>4, <1>7, <3>1 DEF LocksHold, lists
  <2>3. \A c \in Nfsd : nfsd'[c].on # None => cache'[nfsd'[c].on].locked
    BY <1>1, <1>4 DEF LocksHold
  <2> QED
    BY <2>1, <2>2, <2>3 DEF LocksHold
<1>10. SleepSound'
  BY <1>1, <1>4 DEF SleepSound
<1>11. \A q : Entries(q)' = Entries(q) /\ Newest(q)' = Newest(q)
  BY <1>1 DEF Entries, Newest, lists
<1>12. NoOrphan'
  BY <1>1, <1>8, <1>11 DEF NoOrphan
<1>13. OnceSound'
  <2>1. \A c \in Nfsd : \A q : Working(c, q) => nfsd'[c] = nfsd[c]
    BY <1>1, <1>4 DEF Working
  <2> QED
    BY <1>1, <1>8, <1>11, <2>1 DEF OnceSound, Once
<1> QED
  BY <1>5, <1>6, <1>9, <1>10, <1>12, <1>13

LEMMA SavedStep ==
  ASSUME Inv, NEW d \in Nfsd, Saved(d)
  PROVE  Inv'
<1> USE NfsAssumption DEF Inv
<1> DEFINE e == nfsd[d].on
<1>1. nfsd[d].at = "save" /\ e \in Entry /\ Holder(d, e) /\ e \in live
  BY DEF Saved, Holder, LocksHold, TypeOK
<1>2. /\ cache[e].state = "DONE" /\ cache[e].key \in Nonidem /\ runs[cache[e].key] > 0
      /\ nfsd[d].req = cache[e].key
  BY <1>1 DEF SleepSound, LocksHold
<1> HIDE DEF e
<1>3. /\ nfsd' = Unlock(d, e, Idle)
      /\ cache' = [cache EXCEPT ![e].reply = nfsd[d].req, ![e].locked = FALSE]
      /\ UNCHANGED <<lists, runs, lost, crashes, left>>
      /\ answered' \subseteq Req
      /\ Idle \in Refused(nfsd[d].req)
  BY <1>2 DEF Saved, Reply, Send, TypeOK, Refused, e
<1>4. /\ cache' \in CacheType
      /\ \A f \in Entry : f # e => cache'[f] = cache[f]
      /\ cache'[e].key = cache[e].key /\ cache'[e].state = cache[e].state
      /\ cache'[e].reply = nfsd[d].req /\ cache'[e].locked = FALSE
  <2> DEFINE Rec == [key : Req \cup {None}, state : {"INPROG", "DONE"},
                     reply : Req \cup {None}, locked : BOOLEAN]
             old == cache[e]
             mid == [old EXCEPT !.reply = nfsd[d].req]
             new == [mid EXCEPT !.locked = FALSE]
  <2>1. old \in Rec /\ nfsd[d].req \in Req
    BY <1>1, <1>2 DEF TypeOK
  <2>2. mid \in Rec /\ mid.key = old.key /\ mid.state = old.state /\ mid.reply = nfsd[d].req
    BY <2>1
  <2>3. /\ new \in Rec /\ new.key = old.key /\ new.state = old.state
        /\ new.reply = nfsd[d].req /\ new.locked = FALSE
    BY <2>2
  <2>4. cache' = [[cache EXCEPT ![e] = mid] EXCEPT ![e] = new]
    BY <1>1, <1>3 DEF TypeOK
  <2> HIDE DEF Rec, old, mid, new
  <2>5. cache \in [Entry -> Rec] /\ old = cache[e]
    BY DEF TypeOK, Rec, old
  <2>6. /\ cache' \in [Entry -> Rec] /\ cache'[e] = new
        /\ \A f \in Entry : f # e => cache'[f] = cache[f]
    BY <1>1, <2>2, <2>3, <2>4, <2>5
  <2> QED
    BY <2>3, <2>5, <2>6 DEF CacheType, Rec
<1> QED
  BY <1>1, <1>2, <1>3, <1>4, ReleaseStep

LEMMA ForgetStep ==
  ASSUME Inv, Forget
  PROVE  Inv'
<1> USE NfsAssumption DEF Inv
<1>1. /\ cache' = [e \in Entry |-> Fresh] /\ live' = {} /\ inserted' = {} /\ used' = {}
      /\ nfsd' = [d \in Nfsd |-> Idle]
      /\ lost' = lost \cup {r \in Nonidem : runs[r] > 0}
      /\ UNCHANGED <<answered, runs>> /\ crashes' = crashes + 1
  BY DEF Forget
<1>2. TypeOK'
  BY <1>1 DEF TypeOK, Fresh, Idle, Ats
<1>3. \A d \in Nfsd : nfsd'[d].at = "idle" /\ nfsd'[d].on = None
  BY <1>1 DEF Idle
<1>4. OrderSound' /\ RepliesMatch'
  BY <1>1 DEF OrderSound, RepliesMatch
<1>5. LocksHold'
  BY <1>1, <1>3 DEF LocksHold, Holder, Fresh
<1>6. SleepSound'
  BY <1>3 DEF SleepSound
<1>7. \A q : Entries(q)' = {}
  BY <1>1 DEF Entries
<1>8. NoOrphan'
  BY <1>7 DEF NoOrphan, Newest
<1>9. OnceSound'
  <2>1. \A d \in Nfsd : \A q : ~ Working(d, q)'
    BY <1>3 DEF Working
  <2>2. \A q \in Nonidem \ lost' : runs'[q] = 0
    BY <1>1 DEF TypeOK
  <2>3. \A q \in Nonidem \cap Bad : runs'[q] = 0
    BY <1>1 DEF OnceSound
  <2> QED
    BY <1>7, <2>1, <2>2, <2>3 DEF OnceSound, Once
<1> QED
  BY <1>2, <1>4, <1>5, <1>6, <1>8, <1>9

LEMMA DoitStep ==
  ASSUME Inv, NEW d \in Nfsd, Doit(d)
  PROVE  Inv'
<1> USE NfsAssumption DEF Inv
<1> DEFINE r == nfsd[d].req
<1>1. /\ nfsd[d].at = "doit" /\ r \in Req /\ nfsd[d].on = None
      /\ UNCHANGED <<answered, cache, lists, lost, crashes>>
  BY DEF Doit, TypeOK
<1>2. /\ nfsd'[d].at \in {"updwait", "idle"} /\ nfsd'[d].on = None
      /\ nfsd'[d].at = "updwait" => nfsd'[d].req = r /\ left' = left
      /\ nfsd'[d].at = "idle" => r \in Bad /\ left' = left \cup {r}
      /\ \A c \in Nfsd : c # d => nfsd'[c] = nfsd[c]
      /\ nfsd' \in [Nfsd -> [at : Ats, req : Req \cup {None}, on : Entry \cup {None}]]
  <2> DEFINE Rec == [at : Ats, req : Req \cup {None}, on : Entry \cup {None}]
             new == Doing("updwait", r, None)
  <2>1. /\ new \in Rec /\ new.at = "updwait" /\ new.req = r /\ new.on = None
        /\ Idle \in Rec /\ Idle.at = "idle" /\ Idle.on = None
    BY <1>1 DEF Doing, Idle, Ats
  <2>2. \/ nfsd' = [nfsd EXCEPT ![d] = new] /\ left' = left
        \/ nfsd' = [nfsd EXCEPT ![d] = Idle] /\ r \in Bad /\ left' = left \cup {r}
    BY DEF Doit
  <2>3. nfsd \in [Nfsd -> Rec]
    BY DEF TypeOK
  <2> HIDE DEF Rec, new
  <2>4. CASE nfsd' = [nfsd EXCEPT ![d] = new] /\ left' = left
    <3>1. nfsd'[d] = new /\ nfsd' \in [Nfsd -> Rec] /\ \A c \in Nfsd : c # d => nfsd'[c] = nfsd[c]
      BY <2>1, <2>3, <2>4
    <3> QED
      BY <2>1, <2>4, <3>1 DEF Rec
  <2>5. CASE nfsd' = [nfsd EXCEPT ![d] = Idle] /\ r \in Bad /\ left' = left \cup {r}
    <3>1. nfsd'[d] = Idle /\ nfsd' \in [Nfsd -> Rec] /\ \A c \in Nfsd : c # d => nfsd'[c] = nfsd[c]
      BY <2>1, <2>3, <2>5
    <3> QED
      BY <2>1, <2>5, <3>1 DEF Rec
  <2> QED
    BY <2>2, <2>4, <2>5
<1>3. /\ r \notin Nonidem \ Bad => runs' = runs
      /\ r \in Nonidem \ Bad =>
           runs' = [runs EXCEPT ![r] = IF @ = 0 THEN 1 ELSE 2]
  BY DEF Doit
<1> HIDE DEF r
<1>4. /\ runs' \in [Nonidem -> 0..2]
      /\ \A q \in Nonidem : q # r => runs'[q] = runs[q]
      /\ \A q \in Nonidem : runs[q] > 0 => runs'[q] > 0
      /\ r \in Nonidem \ Bad => runs'[r] > 0 /\ (runs[r] = 0 => runs'[r] = 1)
  BY <1>3 DEF TypeOK
<1>5. TypeOK'
  BY <1>1, <1>2, <1>4 DEF TypeOK, lists
<1>6. OrderSound'
  BY <1>1 DEF OrderSound, lists
<1>7. RepliesMatch'
  BY <1>1, <1>4 DEF RepliesMatch, lists
<1>8. \A c \in Nfsd : \A f : Holder(c, f)' <=> Holder(c, f)
  <2>1. \A f : ~ Holder(d, f) /\ ~ Holder(d, f)'
    BY <1>1, <1>2 DEF Holder
  <2>2. \A c \in Nfsd \ {d} : \A f : Holder(c, f)' <=> Holder(c, f)
    BY <1>2 DEF Holder
  <2> QED
    BY <2>1, <2>2
<1>9. /\ \A c \in Nfsd : \A q : Working(c, q)' => Working(c, q)
      /\ \A c \in Nfsd : \A q : Working(c, q) =>
           Working(c, q)' \/ (c = d /\ q = r /\ r \in Bad /\ r \in left')
      /\ left \subseteq left'
  <2>1. \A q : /\ Working(d, q) <=> q = r
               /\ Working(d, q)' => q = r
               /\ Working(d, r)' \/ (r \in Bad /\ r \in left')
    BY <1>1, <1>2 DEF Working, r
  <2>2. \A c \in Nfsd \ {d} : \A q : Working(c, q)' <=> Working(c, q)
    BY <1>2 DEF Working
  <2>3. left \subseteq left'
    BY <1>2
  <2> QED
    BY <2>1, <2>2, <2>3
<1>10. LocksHold'
  <2>1. \A c \in Nfsd : nfsd'[c].on = nfsd[c].on
    BY <1>1, <1>2
  <2>2. \A c \in Nfsd : \A f \in Entry : Holder(c, f) => nfsd'[c].req = nfsd[c].req
    BY <1>1, <1>2 DEF Holder
  <2> QED
    BY <1>1, <1>8, <2>1, <2>2 DEF LocksHold, lists
<1>11. SleepSound'
  <2> SUFFICES ASSUME NEW c \in Nfsd
               PROVE  /\ nfsd'[c].at = "save" =>
                           /\ cache'[nfsd'[c].on].state = "DONE"
                           /\ nfsd'[c].req \in Nonidem \ Bad /\ runs'[nfsd'[c].req] > 0
                      /\ nfsd'[c].at = "copy" => cache'[nfsd'[c].on].reply # None
                      /\ nfsd'[c].at = "updwait" /\ nfsd'[c].req \in Nonidem \ Bad =>
                           runs'[nfsd'[c].req] > 0
    BY DEF SleepSound
  <2>1. CASE c = d
    BY <1>2, <1>4, <2>1
  <2>2. CASE c # d
    BY <1>1, <1>2, <1>4, <2>2 DEF SleepSound
  <2> QED
    BY <2>1, <2>2
<1>12. \A q : Entries(q)' = Entries(q) /\ Newest(q)' = Newest(q)
  BY <1>1 DEF Entries, Newest, lists
<1>13. NoOrphan'
  <2> SUFFICES ASSUME NEW q \in Req, q \notin left', NEW f \in Newest(q),
                      cache[f].state = "INPROG"
               PROVE  \E c \in Nfsd : Working(c, q)'
    BY <1>1, <1>12 DEF NoOrphan
  <2>1. PICK c \in Nfsd : Working(c, q)
    BY <1>9 DEF NoOrphan
  <2> QED
    BY <1>9, <2>1
<1>14. OnceSound'
  <2>1. \A q \in Nonidem \cap Bad : runs'[q] = 0
    BY <1>3, <1>4 DEF OnceSound
  <2> SUFFICES ASSUME NEW q \in Nonidem, q \notin lost PROVE Once(q)'
    BY <1>1, <2>1 DEF OnceSound
  <2>2. Once(q)
    BY DEF OnceSound
  <2>3. CASE q # r
    <3>1. runs'[q] = runs[q]
      BY <1>4, <2>3
    <3>2. \A c \in Nfsd : Working(c, q) => nfsd'[c] = nfsd[c]
      BY <1>2, <2>3 DEF Working, r
    <3>3. \A c \in Nfsd : Working(c, q)' => Working(c, q)
      BY <1>9
    <3> QED
      BY <1>1, <1>12, <2>2, <3>1, <3>2, <3>3 DEF Once
  <2>4. CASE q = r
    <3>1. Working(d, q)
      BY <1>1, <2>4 DEF Working, r
    <3>2. runs[q] = 0 /\ Entries(q) # {}
      BY <1>1, <2>2, <3>1 DEF Once
    <3>3. runs'[q] < 2
      BY <1>3, <1>4, <2>4, <3>2
    <3>4. \A c \in Nfsd : Working(c, q) => nfsd'[c].at # "doit"
      BY <1>2, <2>2, <3>1 DEF Once
    <3>5. \A c \in Nfsd : Working(c, q)' => Working(c, q)
      BY <1>9
    <3> QED
      BY <1>1, <1>12, <2>2, <3>2, <3>3, <3>4, <3>5 DEF Once
  <2> QED
    BY <2>3, <2>4
<1> QED
  BY <1>5, <1>6, <1>7, <1>10, <1>11, <1>13, <1>14

(* Nothing but the nfsd itself changes: it waits for the entry, or it      *)
(* finds none.                                                             *)
LEMMA UpdateNoneStep ==
  ASSUME Inv, NEW d \in Nfsd, Awake(d, "updwait"),
         \/ \E e \in Newest(nfsd[d].req) :
              /\ cache[e].locked
              /\ nfsd' = [nfsd EXCEPT ![d].on = e] /\ UNCHANGED <<cache, answered>>
         \/ /\ Entries(nfsd[d].req) = {}
            /\ nfsd' = [nfsd EXCEPT ![d] = Idle] /\ Reply(d) /\ UNCHANGED cache,
         UNCHANGED <<lists, runs, lost, crashes, left>>
  PROVE  Inv'
<1> USE NfsAssumption DEF Inv
<1> DEFINE r == nfsd[d].req
<1>1. /\ nfsd[d].at = "updwait" /\ r \in Req /\ nfsd[d].on = None
      /\ UNCHANGED <<cache, lists, runs, lost, crashes, left>>
      /\ answered' \subseteq Req
  BY DEF Awake, TypeOK, Reply, Send
<1>2. /\ nfsd' \in [Nfsd -> [at : Ats, req : Req \cup {None}, on : Entry \cup {None}]]
      /\ \A c \in Nfsd : c # d => nfsd'[c] = nfsd[c]
      /\ \/ /\ nfsd'[d].at = "updwait" /\ nfsd'[d].req = r /\ nfsd'[d].on \in Entry
            /\ cache[nfsd'[d].on].locked
         \/ /\ nfsd'[d].at = "idle" /\ nfsd'[d].req = None /\ nfsd'[d].on = None
            /\ Entries(r) = {}
  BY <1>1 DEF TypeOK, Idle, Ats, Newest, Entries
<1> HIDE DEF r
<1>3. TypeOK'
  BY <1>1, <1>2 DEF TypeOK, lists
<1>4. OrderSound' /\ RepliesMatch'
  BY <1>1 DEF OrderSound, RepliesMatch, lists
<1>5. \A c \in Nfsd : \A f : Holder(c, f)' <=> Holder(c, f)
  <2>1. \A f : ~ Holder(d, f) /\ ~ Holder(d, f)'
    BY <1>1, <1>2 DEF Holder
  <2>2. \A c \in Nfsd \ {d} : \A f : Holder(c, f)' <=> Holder(c, f)
    BY <1>2 DEF Holder
  <2> QED
    BY <2>1, <2>2
<1>6. LocksHold'
  <2>1. \A f \in Entry : cache'[f].locked => \E c \in Nfsd : Holder(c, f)'
    BY <1>1, <1>5 DEF LocksHold
  <2>2. \A c \in Nfsd : \A f \in Entry : Holder(c, f)' =>
          /\ f \in live' /\ cache'[f].locked /\ cache'[f].key = nfsd'[c].req
          /\ \A b \in Nfsd \ {c} : ~ Holder(b, f)'
    <3>1. \A c \in Nfsd : \A f \in Entry : Holder(c, f) => c # d
      BY <1>1 DEF Holder
    <3> QED
      BY <1>1, <1>2, <1>5, <3>1 DEF LocksHold, lists
  <2>3. \A c \in Nfsd : nfsd'[c].on # None => cache'[nfsd'[c].on].locked
    BY <1>1, <1>2 DEF LocksHold
  <2> QED
    BY <2>1, <2>2, <2>3 DEF LocksHold
<1>7. SleepSound'
  BY <1>1, <1>2 DEF SleepSound, r
<1>8. \A q : Entries(q)' = Entries(q) /\ Newest(q)' = Newest(q)
  BY <1>1 DEF Entries, Newest, lists
<1>9. \A c \in Nfsd : \A q : Working(c, q)' => Working(c, q) /\ nfsd'[c].at = nfsd[c].at
  <2>1. \A q : Working(d, q)' => Working(d, q) /\ nfsd'[d].at = nfsd[d].at
    BY <1>1, <1>2 DEF Working, r
  <2>2. \A c \in Nfsd \ {d} : \A q : Working(c, q)' => Working(c, q) /\ nfsd'[c].at = nfsd[c].at
    BY <1>2 DEF Working
  <2> QED
    BY <2>1, <2>2
<1>10. \A c \in Nfsd : \A q : Working(c, q) /\ Entries(q) # {} => Working(c, q)'
  BY <1>1, <1>2 DEF Working, r
<1>11. NoOrphan'
  <2> SUFFICES ASSUME NEW q \in Req \ left, NEW f \in Newest(q),
                      cache[f].state = "INPROG"
               PROVE  \E c \in Nfsd : Working(c, q)'
    BY <1>1, <1>8 DEF NoOrphan
  <2>1. Entries(q) # {}
    BY DEF Newest
  <2>2. PICK c \in Nfsd : Working(c, q)
    BY DEF NoOrphan
  <2> QED
    BY <1>10, <2>1, <2>2
<1>12. OnceSound'
  BY <1>1, <1>8, <1>9 DEF OnceSound, Once
<1> QED
  BY <1>3, <1>4, <1>6, <1>7, <1>11, <1>12

(* The entry of the request is done.                                       *)
LEMMA UpdateStep ==
  ASSUME Inv, NEW d \in Nfsd, Awake(d, "updwait"),
         NEW e \in Newest(nfsd[d].req), ~ cache[e].locked, Update(d, e),
         UNCHANGED <<lists, runs, lost, crashes>>, left' = left \ {nfsd[d].req}
  PROVE  Inv'
<1> USE NfsAssumption DEF Inv
<1> DEFINE r == nfsd[d].req
<1>1. /\ nfsd[d].at = "updwait" /\ r \in Req /\ nfsd[d].on = None
      /\ e \in live /\ e \in Entry /\ cache[e].key = r /\ e \in Entries(r)
      /\ UNCHANGED <<lists, runs, lost, crashes>> /\ left' = left \ {r}
      /\ Working(d, r)
  BY DEF Awake, TypeOK, Newest, Entries, Working
<1>2. /\ nfsd' \in [Nfsd -> [at : Ats, req : Req \cup {None}, on : Entry \cup {None}]]
      /\ \A c \in Nfsd : c # d => nfsd'[c] = nfsd[c]
      /\ \/ /\ r \in Nonidem \ Bad /\ cache'[e].locked
            /\ nfsd'[d].at = "save" /\ nfsd'[d].req = r /\ nfsd'[d].on = e
         \/ /\ r \notin Nonidem \ Bad /\ ~ cache'[e].locked
            /\ nfsd'[d].at = "idle" /\ nfsd'[d].req = None /\ nfsd'[d].on = None
  <2>1. CASE Kept(d)
    <3> DEFINE new == [nfsd[d] EXCEPT !.at = "save", !.on = e]
    <3>1. r \in Nonidem \ Bad
      BY <2>1 DEF Kept
    <3>2. nfsd' = [nfsd EXCEPT ![d] = new]
      BY <2>1 DEF Update, TypeOK
    <3>3. /\ new \in [at : Ats, req : Req \cup {None}, on : Entry \cup {None}]
          /\ new.at = "save" /\ new.req = r /\ new.on = e
      <4>1. nfsd[d] \in [at : Ats, req : Req \cup {None}, on : Entry \cup {None}]
        BY DEF TypeOK
      <4>2. "save" \in Ats
        BY DEF Ats
      <4> QED
        BY <1>1, <4>1, <4>2
    <3> HIDE DEF new
    <3>4. cache'[e].locked
      BY <1>1, <2>1 DEF Update, TypeOK
    <3> QED
      BY <1>1, <3>1, <3>2, <3>3, <3>4 DEF TypeOK
  <2>2. CASE ~ Kept(d)
    <3>1. r \notin Nonidem \ Bad /\ nfsd' = [nfsd EXCEPT ![d] = Idle]
      BY <2>2 DEF Kept, Update
    <3>2. ~ cache'[e].locked
      BY <1>1, <2>2 DEF Update, TypeOK
    <3>3. /\ Idle \in [at : Ats, req : Req \cup {None}, on : Entry \cup {None}]
          /\ Idle.at = "idle" /\ Idle.req = None /\ Idle.on = None
      BY DEF Idle, Ats
    <3> QED
      BY <1>1, <3>1, <3>2, <3>3 DEF TypeOK
  <2> QED
    BY <2>1, <2>2
<1>3. /\ \A f \in Entry : f # e => cache'[f] = cache[f]
      /\ cache'[e].key = r /\ cache'[e].state = "DONE" /\ cache'[e].reply = cache[e].reply
  BY <1>1 DEF TypeOK, Update
<1>4. cache' \in CacheType
  <2> DEFINE Rec == [key : Req \cup {None}, state : {"INPROG", "DONE"},
                     reply : Req \cup {None}, locked : BOOLEAN]
             mid == [cache[e] EXCEPT !.state = "DONE"]
             new == [mid EXCEPT !.locked = TRUE]
  <2>1. mid \in Rec
    BY <1>1 DEF TypeOK
  <2>2. new \in Rec
    BY <2>1
  <2>3. \/ cache' = [cache EXCEPT ![e] = mid]
        \/ cache' = [[cache EXCEPT ![e] = mid] EXCEPT ![e] = new]
    BY <1>1 DEF Update, TypeOK
  <2> HIDE DEF Rec, mid, new
  <2>4. cache \in [Entry -> Rec]
    BY DEF TypeOK, Rec
  <2>5. cache' \in [Entry -> Rec]
    BY <1>1, <2>1, <2>2, <2>3, <2>4
  <2> QED
    BY <2>5 DEF CacheType, Rec
<1>5. answered' \subseteq Req
  BY <1>1 DEF Update, Reply, Send, TypeOK
<1> HIDE DEF r
<1>6. TypeOK'
  <2>1. \A c \in Nfsd :
          /\ nfsd'[c].at # "idle" => nfsd'[c].req \in Req
          /\ nfsd'[c].on # None =>
               nfsd'[c].at \in {"wait", "lruwait", "updwait", "copy", "save"}
          /\ nfsd'[c].at \in {"copy", "save"} => nfsd'[c].on \in Entry
    BY <1>1, <1>2 DEF TypeOK
  <2> QED
    BY <2>1, <1>1, <1>2, <1>4, <1>5 DEF TypeOK, CacheType, lists
<1>7. \A f \in Entry : cache'[f].key = cache[f].key /\ cache'[f].reply = cache[f].reply
  BY <1>1, <1>3
<1>8. \A q : Entries(q)' = Entries(q)
  BY <1>1, <1>7 DEF Entries, lists, TypeOK
<1>9. \A q : Newest(q)' = Newest(q)
  BY <1>1, <1>8 DEF Newest, lists
<1>10. OrderSound'
  BY <1>1, <1>7 DEF OrderSound, lists, TypeOK
<1>11. \A c \in Nfsd : ~ Holder(c, e)
  BY <1>1 DEF LocksHold
<1>12. LocksHold'
  <2>1. \A c \in Nfsd \ {d} : \A f : Holder(c, f)' <=> Holder(c, f)
    BY <1>2 DEF Holder
  <2>2. \A f : ~ Holder(d, f) /\ (Holder(d, f)' => f = e /\ cache'[e].locked /\ nfsd'[d].req = r)
    BY <1>1, <1>2 DEF Holder
  <2>3. \A f \in Entry : cache'[f].locked => \E c \in Nfsd : Holder(c, f)'
    <3> SUFFICES ASSUME NEW f \in Entry, cache'[f].locked
                 PROVE  \E c \in Nfsd : Holder(c, f)'
      OBVIOUS
    <3>1. CASE f = e
      BY <1>2, <3>1 DEF Holder
    <3>2. CASE f # e
      BY <1>3, <2>1, <2>2, <3>2 DEF LocksHold
    <3> QED
      BY <3>1, <3>2
  <2>4. \A c \in Nfsd : \A f \in Entry : Holder(c, f)' =>
          /\ f \in live' /\ cache'[f].locked /\ cache'[f].key = nfsd'[c].req
          /\ \A b \in Nfsd \ {c} : ~ Holder(b, f)'
    BY <1>1, <1>2, <1>3, <1>11, <2>1, <2>2 DEF LocksHold, lists
  <2>5. \A c \in Nfsd : nfsd'[c].on # None => cache'[nfsd'[c].on].locked
    <3> SUFFICES ASSUME NEW c \in Nfsd, nfsd'[c].on # None
                 PROVE  cache'[nfsd'[c].on].locked
      OBVIOUS
    <3>1. CASE c = d
      BY <1>2, <3>1
    <3>2. CASE c # d
      <4>1. nfsd'[c] = nfsd[c] /\ nfsd[c].on \in Entry
        BY <1>2, <3>2 DEF TypeOK
      <4>2. cache[nfsd[c].on].locked
        BY <4>1 DEF LocksHold
      <4> QED
        BY <1>3, <4>1, <4>2
    <3> QED
      BY <3>1, <3>2
  <2> QED
    BY <2>3, <2>4, <2>5 DEF LocksHold
<1>13. RepliesMatch'
  <2> SUFFICES ASSUME NEW f \in live, cache'[f].reply # None
               PROVE  /\ cache'[f].state = "DONE" /\ cache'[f].reply = cache'[f].key
                      /\ cache'[f].key \in Nonidem /\ runs'[cache'[f].key] > 0
    BY <1>1 DEF RepliesMatch, lists
  <2>1. cache[f].reply # None /\ f \in Entry
    BY <1>7 DEF TypeOK
  <2>2. cache'[f].state = "DONE"
    BY <1>3, <2>1 DEF RepliesMatch
  <2> QED
    BY <1>1, <1>7, <2>1, <2>2 DEF RepliesMatch
<1>14. SleepSound'
  <2> SUFFICES ASSUME NEW c \in Nfsd
               PROVE  /\ nfsd'[c].at = "save" =>
                           /\ cache'[nfsd'[c].on].state = "DONE"
                           /\ nfsd'[c].req \in Nonidem \ Bad /\ runs'[nfsd'[c].req] > 0
                      /\ nfsd'[c].at = "copy" => cache'[nfsd'[c].on].reply # None
                      /\ nfsd'[c].at = "updwait" /\ nfsd'[c].req \in Nonidem \ Bad =>
                           runs'[nfsd'[c].req] > 0
    BY DEF SleepSound
  <2>1. CASE c = d
    BY <1>1, <1>2, <1>3, <2>1 DEF SleepSound, r
  <2>2. CASE nfsd[c].at \in {"copy", "save"} /\ c # d
    <3>1. nfsd[c].on \in Entry /\ nfsd[c].on # e /\ nfsd'[c] = nfsd[c]
      BY <1>2, <1>11, <2>2 DEF TypeOK, Holder
    <3> QED
      BY <1>1, <1>3, <2>2, <3>1 DEF SleepSound
  <2>3. CASE nfsd[c].at \notin {"copy", "save"} /\ c # d
    BY <1>1, <1>2, <2>3 DEF SleepSound
  <2> QED
    BY <2>1, <2>2, <2>3
<1>15. \A q : ~ Working(d, q)'
  BY <1>2 DEF Working
<1>16. \A c \in Nfsd \ {d} : \A q : Working(c, q)' <=> Working(c, q)
  BY <1>2 DEF Working
<1>17. NoOrphan'
  <2> SUFFICES ASSUME NEW q \in Req, q \notin left', NEW f \in Newest(q),
                      cache'[f].state = "INPROG"
               PROVE  \E c \in Nfsd : Working(c, q)'
    BY <1>9 DEF NoOrphan
  <2>1. f \in Entry /\ f # e /\ cache[f].state = "INPROG"
    BY <1>3 DEF Newest, Entries, TypeOK
  <2>2. q # r
    BY <2>1, NewestUnique DEF r
  <2>3. PICK c \in Nfsd : Working(c, q)
    BY <1>1, <2>1, <2>2 DEF NoOrphan
  <2>4. c # d
    BY <2>2, <2>3 DEF Working, r
  <2> QED
    BY <1>16, <2>3, <2>4
<1>18. OnceSound'
  <2>1. \A q \in Nonidem \cap Bad : runs'[q] = 0
    BY <1>1 DEF OnceSound
  <2> SUFFICES ASSUME NEW q \in Nonidem, q \notin lost PROVE Once(q)'
    BY <1>1, <2>1 DEF OnceSound
  <2>2. Once(q)
    BY DEF OnceSound
  <2>3. CASE q # r
    <3>1. \A f \in Entries(q) : cache'[f] = cache[f]
      BY <1>1, <1>3, <2>3 DEF Entries, TypeOK
    <3>2. \A c \in Nfsd : Working(c, q)' => Working(c, q) /\ nfsd'[c].at = nfsd[c].at
      BY <1>2, <1>15, <1>16
    <3> QED
      BY <1>1, <1>8, <1>15, <1>16, <2>2, <3>1, <3>2 DEF Once
  <2>4. CASE q = r
    <3>1. \A c \in Nfsd : ~ Working(c, q)'
      BY <1>1, <1>15, <1>16, <2>2, <2>4 DEF Once
    <3>2. \A f \in Entries(q) : f = e
      BY <1>1, <2>2, <2>4 DEF Once
    <3>3. r \notin Bad => cache'[e].locked
      BY <1>2, <2>4
    <3> QED
      BY <1>1, <1>8, <2>2, <2>4, <3>1, <3>2, <3>3 DEF Once
  <2> QED
    BY <2>3, <2>4
<1> QED
  BY <1>6, <1>10, <1>12, <1>13, <1>14, <1>17, <1>18

LEMMA UpdatecacheStep ==
  ASSUME Inv, NEW d \in Nfsd, Updatecache(d)
  PROVE  Inv'
<1>1. Awake(d, "updwait") /\ UNCHANGED <<lists, runs, lost, crashes>>
  BY DEF Updatecache
<1>2. CASE \E e \in Newest(nfsd[d].req) :
             ~ cache[e].locked /\ Update(d, e) /\ left' = left \ {nfsd[d].req}
  BY <1>1, <1>2, UpdateStep
<1>3. CASE /\ \/ \E e \in Newest(nfsd[d].req) :
                   /\ cache[e].locked
                   /\ nfsd' = [nfsd EXCEPT ![d].on = e] /\ UNCHANGED <<cache, answered>>
              \/ /\ Entries(nfsd[d].req) = {}
                 /\ nfsd' = [nfsd EXCEPT ![d] = Idle] /\ Reply(d) /\ UNCHANGED cache
           /\ UNCHANGED left
  BY <1>1, <1>3, UpdateNoneStep
<1> QED
  BY <1>2, <1>3 DEF Updatecache

-----------------------------------------------------------------------------
LEMMA ReuseStep ==
  ASSUME Inv, NEW d \in Nfsd, NEW r \in Req, Free(d), Reuse(d, r),
         UNCHANGED <<answered, runs, crashes>>
  PROVE  Inv'
<1>1. PICK e \in Oldest : IF cache[e].locked THEN SleepOn(d, "lruwait", r, e)
                                             ELSE Insert(d, r, e)
  BY DEF Reuse
<1>2. e \in Entry /\ e \in Entry \cup {None} /\ "lruwait" \in {"wait", "lruwait", "malloc"}
  BY DEF Oldest, Inv, TypeOK
<1>3. CASE cache[e].locked
  BY <1>1, <1>2, <1>3, SleepStep
<1>4. CASE ~ cache[e].locked
  BY <1>1, <1>2, <1>4, InsertStep
<1> QED
  BY <1>3, <1>4

LEMMA GetcacheStep ==
  ASSUME Inv, NEW d \in Nfsd, NEW r \in Req, Free(d), Getcache(d, r),
         UNCHANGED <<answered, runs, crashes>>
  PROVE  Inv'
<1>1. CASE Found(d, r)
  <2>1. PICK e \in Newest(r) : IF cache[e].locked THEN SleepOn(d, "wait", r, e)
                                                  ELSE Hit(d, r, e)
    BY <1>1 DEF Found
  <2>2. e \in Entry \cup {None} /\ "wait" \in {"wait", "lruwait", "malloc"}
    BY DEF Newest, Entries, Inv, TypeOK
  <2>3. CASE cache[e].locked
    BY <2>1, <2>2, <2>3, SleepStep
  <2>4. CASE ~ cache[e].locked
    BY <2>1, <2>4, HitStep
  <2> QED
    BY <2>3, <2>4
<1>2. CASE Miss(d, r)
  <2>1. CASE SleepOn(d, "malloc", r, None)
    <3>1. None \in Entry \cup {None} /\ "malloc" \in {"wait", "lruwait", "malloc"}
      OBVIOUS
    <3> QED
      BY <2>1, <3>1, SleepStep
  <2>2. CASE Reuse(d, r)
    BY <2>2, ReuseStep
  <2> QED
    BY <1>2, <2>1, <2>2 DEF Miss
<1> QED
  BY <1>1, <1>2 DEF Getcache

LEMMA NextInv == Inv /\ [Next]_vars => Inv'
<1> SUFFICES ASSUME Inv, [Next]_vars PROVE Inv'
  OBVIOUS
<1>1. CASE Crash \/ Cleancache
  BY <1>1, ForgetStep DEF Crash, Cleancache
<1>5. CASE StartTimeComes
  BY <1>5 DEF StartTimeComes, Inv, TypeOK, OrderSound, LocksHold, Holder, RepliesMatch,
              SleepSound, NoOrphan, Working, Newest, Entries, OnceSound, Once, lists
<1>2. ASSUME NEW d \in Nfsd, NEW r \in Req, Receive(d, r) PROVE Inv'
  BY <1>2, GetcacheStep DEF Receive, Free
<1>3. ASSUME NEW d \in Nfsd, Work(d) PROVE Inv'
  <2>1. nfsd[d].at # "idle" => nfsd[d].req \in Req
    BY DEF Inv, TypeOK
  <2>2. CASE Again(d)
    BY <2>1, <2>2, GetcacheStep DEF Again, Awake, Free
  <2>3. CASE LruAgain(d)
    BY <2>1, <2>3, ReuseStep DEF LruAgain, Awake, Free
  <2>4. CASE Malloced(d)
    BY <2>1, <2>4, InsertStep DEF Malloced, Free
  <2>5. CASE Copied(d)
    BY <2>5, CopiedStep
  <2>9. CASE Trylater(d)
    BY <2>9, TrylaterStep
  <2>6. CASE Doit(d)
    BY <2>6, DoitStep
  <2>7. CASE Updatecache(d)
    BY <2>7, UpdatecacheStep
  <2>8. CASE Saved(d)
    BY <2>8, SavedStep
  <2> QED
    BY <1>3, <2>2, <2>3, <2>4, <2>5, <2>6, <2>7, <2>8, <2>9 DEF Work
<1>4. CASE UNCHANGED vars
  BY <1>4 DEF Inv, TypeOK, OrderSound, LocksHold, Holder, RepliesMatch, SleepSound,
              NoOrphan, Working, Newest, Entries, OnceSound, Once, vars, lists
<1> QED
  BY <1>1, <1>2, <1>3, <1>4, <1>5 DEF Next

(* The invariant holds, whatever is lost, repeated or overtaken, and       *)
(* however the nfsds are interleaved at their sleeps.                      *)
THEOREM NfsInvariant == Spec => []Inv
<1>1. Init => Inv
  BY InitInv
<1>2. Inv /\ [Next]_vars => Inv'
  BY NextInv
<1> QED
  BY <1>1, <1>2, PTL DEF Spec

(* A nonidempotent request is executed again only when its entry was       *)
(* reused, lost in a crash, or entered twice (nfsrv_getcache()).           *)
THEOREM ExecutedOnce == Spec => []AtMostOnce
<1>1. Inv => AtMostOnce
  BY DEF Inv, OnceSound, Once, AtMostOnce
<1> QED
  BY <1>1, NfsInvariant, PTL

(* Retransmissions are dropped (nfs_srvcache.c:197) only while an nfsd     *)
(* executes the request, though entries are reused in progress, except     *)
(* those of requests whose entry start-up left in progress                 *)
(* (nfs_syscalls.c:563) or that could not be parsed (nfs_syscalls.c:594).  *)
THEOREM NobodyDropsForNothing == Spec => []NoOrphan
<1>1. Inv => NoOrphan
  BY DEF Inv
<1> QED
  BY <1>1, NfsInvariant, PTL

(* Cached replies are those of the requests they are kept for, and an      *)
(* entry is locked exactly while its one holder sleeps (RC_LOCKED).        *)
THEOREM CacheIsSound == Spec => []CacheSound
<1>1. Inv => CacheSound
  BY DEF Inv, CacheSound
<1> QED
  BY <1>1, NfsInvariant, PTL
=============================================================================
