------------------------------- MODULE Select --------------------------------
(***************************************************************************)
(* select() of sys/kern/sys_generic.c with selrecord() and selwakeup(). A  *)
(* descriptor remembers one selecting process, and that there were more    *)
(* ("collision"): then all processes in select() are woken. A process that *)
(* is scanning has no sleep to be woken from; P_SELECT and nselcoll tell   *)
(* it, when it is about to sleep, that something happened meanwhile.       *)
(*                                                                         *)
(* A Desc is a descriptor in one of the three masks, with its selinfo. The *)
(* test of a descriptor and selrecord() are one step, as the routines      *)
(* called through fo_select raise the priority around both. A process      *)
(* scans without sleeping: only events come in between.                    *)
(***************************************************************************)
CONSTANTS
  Proc, NoProc,  \* NoProc: si_pid is 0
  Desc,
  Timeouts       \* whether a timeout is given: a subset of BOOLEAN

ASSUME SelectAssumption ==
  /\ NoProc \notin Proc
  /\ Timeouts \subseteq BOOLEAN

VARIABLES
  ready,     \* the descriptors that can be read, written, ...
  siPid,     \* si_pid
  siColl,    \* the descriptors with SI_COLL
  pSelect,   \* the processes with P_SELECT
  moved,     \* those that scan, and nselcoll is no longer what they noted
  pc,        \* "idle", "scan", or "sleep": in tsleep()
  queue,     \* the processes asleep on &selwait (p_wchan)
  stopped,   \* SSTOP in tsleep()
  want,      \* the descriptors asked for
  todo,      \* those that the scan has still to look at
  found,     \* and those it found ready
  timer,     \* the time given: "none", "ahead" or "passed"
  timo,      \* the processes with P_TIMEOUT
  sig        \* those with a signal to take

selVars == <<siPid, siColl, pSelect, moved, queue>>
callVars == <<pc, stopped, want, todo, found, timer, timo, sig>>
allVars == <<ready, selVars, callVars>>

Scanning(p) == pc[p] = "scan"

(* Another process can run: nobody is between two sleeps.                  *)
CpuFree == \A p \in Proc : ~Scanning(p)

SelectTypes ==
  /\ ready \subseteq Desc
  /\ siPid \in [Desc -> Proc \cup {NoProc}]
  /\ siColl \subseteq Desc
  /\ pSelect \subseteq Proc /\ moved \subseteq Proc
  /\ pc \in [Proc -> {"idle", "scan", "sleep"}]
  /\ queue \subseteq Proc /\ stopped \subseteq Proc
  /\ want \in [Proc -> SUBSET Desc]
  /\ todo \in [Proc -> SUBSET Desc] /\ found \in [Proc -> SUBSET Desc]
  /\ timer \in [Proc -> {"none", "ahead", "passed"}]
  /\ timo \subseteq Proc /\ sig \subseteq Proc

SelectInit ==
  /\ ready = {}
  /\ siPid = [d \in Desc |-> NoProc] /\ siColl = {}
  /\ pSelect = {} /\ moved = {} /\ queue = {} /\ stopped = {}
  /\ pc = [p \in Proc |-> "idle"]
  /\ want = [p \in Proc |-> {}]
  /\ todo = [p \in Proc |-> {}] /\ found = [p \in Proc |-> {}]
  /\ timer = [p \in Proc |-> "none"]
  /\ timo = {} /\ sig = {}

-----------------------------------------------------------------------------
(* selrecord() and selwakeup(). A Bug... is a plausible slip in the        *)
(* definition after it; no behaviour uses it.                              *)

(* Is another process to be told of the same descriptor? One that no       *)
(* longer sleeps will look at the descriptor again, if it still selects.   *)
BugCollides(p, d) == siPid[d] \notin {NoProc, p} /\ siPid[d] \in pSelect

Collides(p, d) == siPid[d] \notin {NoProc, p} /\ siPid[d] \in queue

Selrecord(p, d) ==
  IF Collides(p, d)
  THEN siColl' = siColl \cup {d} /\ UNCHANGED siPid
  ELSE siPid' = [siPid EXCEPT ![d] = p] /\ UNCHANGED siColl

(* Whoever scans when there is a collision finds nselcoll changed. The     *)
(* recorded process is taken off the queue, also if it is stopped; one     *)
(* that is not there, or that the collision woke, loses P_SELECT.          *)
Selwakeup(d) ==
  IF siPid[d] = NoProc THEN UNCHANGED selVars
  ELSE /\ siPid' = [siPid EXCEPT ![d] = NoProc]
       /\ siColl' = siColl \ {d}
       /\ moved' = IF d \in siColl THEN {p \in Proc : Scanning(p)} ELSE moved
       /\ queue' = IF d \in siColl THEN {} ELSE queue \ {siPid[d]}
       /\ pSelect' = IF d \in siColl \/ siPid[d] \notin queue
                     THEN pSelect \ {siPid[d]} ELSE pSelect

(* An event at interrupt level or in another process's system call: each   *)
(* calls selwakeup(), whether or not the descriptor became ready by it.    *)
Event(d) ==
  /\ ready' \in {ready, ready \cup {d}}
  /\ Selwakeup(d)
  /\ UNCHANGED callVars

(* Somebody reads what was there to read, and so on.                       *)
Consume(d) ==
  /\ CpuFree
  /\ ready' = ready \ {d}
  /\ UNCHANGED <<selVars, callVars>>

-----------------------------------------------------------------------------
(* From retry to the first descriptor.                                     *)
StartScan(p, D) ==
  /\ pSelect' = pSelect \cup {p}
  /\ moved' = moved \ {p}
  /\ pc' = [pc EXCEPT ![p] = "scan"]
  /\ todo' = [todo EXCEPT ![p] = D]
  /\ found' = [found EXCEPT ![p] = {}]
  /\ UNCHANGED <<ready, siPid, siColl>>

Call(p, D, timed) ==
  /\ pc[p] = "idle" /\ CpuFree
  /\ want' = [want EXCEPT ![p] = D]
  /\ timer' = [timer EXCEPT ![p] = IF timed THEN "ahead" ELSE "none"]
  /\ StartScan(p, D)
  /\ UNCHANGED <<queue, stopped, timo, sig>>

(* done: whatever was asked for and found goes back to the caller.         *)
Done(p) ==
  /\ pc' = [pc EXCEPT ![p] = "idle"]
  /\ pSelect' = pSelect \ {p} /\ moved' = moved \ {p}
  /\ want' = [want EXCEPT ![p] = {}]
  /\ todo' = [todo EXCEPT ![p] = {}] /\ found' = [found EXCEPT ![p] = {}]
  /\ timer' = [timer EXCEPT ![p] = "none"]
  /\ timo' = timo \ {p} /\ sig' = sig \ {p}
  /\ UNCHANGED <<ready, siPid, siColl, queue, stopped>>

(* One descriptor of selscan().                                            *)
Scan(p, d) ==
  /\ Scanning(p) /\ d \in todo[p]
  /\ todo' = [todo EXCEPT ![p] = @ \ {d}]
  /\ IF d \in ready
     THEN found' = [found EXCEPT ![p] = @ \cup {d}] /\ UNCHANGED <<siPid, siColl>>
     ELSE Selrecord(p, d) /\ UNCHANGED found
  /\ UNCHANGED <<ready, pSelect, moved, queue, pc, stopped, want, timer, timo,
                 sig>>

(* The scan comes to a number that is no open descriptor: EBADF.           *)
ScanFails(p) == Scanning(p) /\ Done(p)

(* The end of the scan, at splhigh: something was found, or the time is    *)
(* over, or something has happened since retry, or it is time to sleep. A  *)
(* signal that tsleep() finds at once ends the call.                       *)
BugSafeToSleep(p) == p \in pSelect

SafeToSleep(p) == p \in pSelect /\ p \notin moved

Scanned(p) == Scanning(p) /\ todo[p] = {}

EndScan(p) ==
  /\ Scanned(p)
  /\ \/ /\ found[p] # {} \/ timer[p] = "passed" \/ (SafeToSleep(p) /\ p \in sig)
        /\ Done(p)
     \/ /\ found[p] = {} /\ timer[p] # "passed" /\ ~SafeToSleep(p)
        /\ StartScan(p, want[p])
        /\ UNCHANGED <<queue, stopped, want, timer, timo, sig>>
     \/ /\ found[p] = {} /\ timer[p] # "passed" /\ SafeToSleep(p) /\ p \notin sig
        /\ pc' = [pc EXCEPT ![p] = "sleep"]
        /\ pSelect' = pSelect \ {p}
        /\ queue' = queue \cup {p}
        /\ UNCHANGED <<ready, siPid, siColl, moved, stopped, want, todo, found,
                       timer, timo, sig>>

(* Switched in again: an error of tsleep() ends the call without another   *)
(* scan, and otherwise it starts afresh.                                   *)
Resume(p) ==
  /\ pc[p] = "sleep" /\ p \notin queue /\ p \notin stopped /\ CpuFree
  /\ \/ p \in timo \cup sig /\ Done(p)
     \/ /\ p \notin timo \cup sig
        /\ StartScan(p, want[p])
        /\ UNCHANGED <<queue, stopped, want, timer, timo, sig>>

(* The time given comes. endtsleep() may be up to a tick early.            *)
TimePasses(p) ==
  /\ timer[p] = "ahead"
  /\ timer' = [timer EXCEPT ![p] = "passed"]
  /\ UNCHANGED <<ready, selVars, pc, stopped, want, todo, found, timo, sig>>

Endtsleep(p) ==
  /\ p \in queue /\ timer[p] # "none"
  /\ queue' = queue \ {p}
  /\ timo' = timo \cup {p}
  /\ UNCHANGED <<ready, siPid, siColl, pSelect, moved, pc, stopped, want, todo,
                 found, timer, sig>>

(* psignal() for a caught signal, a stop and SIGCONT.                      *)
Signal(p) ==
  /\ pc[p] # "idle" /\ p \notin sig
  /\ sig' = sig \cup {p}
  /\ queue' = queue \ {p}
  /\ UNCHANGED <<ready, siPid, siColl, pSelect, moved, pc, stopped, want, todo,
                 found, timer, timo>>

Stop(p) ==
  /\ p \in queue \ stopped
  /\ stopped' = stopped \cup {p}
  /\ UNCHANGED <<ready, selVars, pc, want, todo, found, timer, timo, sig>>

Cont(p) ==
  /\ p \in stopped
  /\ stopped' = stopped \ {p}
  /\ UNCHANGED <<ready, selVars, pc, want, todo, found, timer, timo, sig>>

Step(p) ==
  \/ \E D \in SUBSET Desc \ {{}}, t \in Timeouts : Call(p, D, t)
  \/ \E d \in Desc : Scan(p, d)
  \/ ScanFails(p) \/ EndScan(p) \/ Resume(p)
  \/ TimePasses(p) \/ Endtsleep(p) \/ Signal(p) \/ Stop(p) \/ Cont(p)

SelectNext ==
  \/ \E p \in Proc : Step(p)
  \/ \E d \in Desc : Event(d) \/ Consume(d)

SelectSpec == SelectInit /\ [][SelectNext]_allVars

(* A process that can run is switched in, and runs; the clock goes on.     *)
FairSelect ==
  /\ SelectSpec
  /\ \A p \in Proc :
       /\ \A d \in Desc : WF_allVars(Scan(p, d))
       /\ WF_allVars(EndScan(p)) /\ SF_allVars(Resume(p))
       /\ WF_allVars(TimePasses(p)) /\ WF_allVars(Endtsleep(p))

-----------------------------------------------------------------------------
(* No process sleeps in select() while a descriptor it asked for is ready: *)
(* the record of a descriptor, the collision flag, P_SELECT and nselcoll   *)
(* together leave no gap between the look at it and the sleep.             *)
NoSleepOverReady == \A p \in queue : want[p] \cap ready = {}

(* An event on d reaches p, which has looked at d.                         *)
Reaches(d, p) == siPid[d] = p \/ (siPid[d] # NoProc /\ d \in siColl)

(* p scans, and would still go to sleep.                                   *)
BoundToSleep(p) == Scanning(p) /\ found[p] = {} /\ SafeToSleep(p)

(* Why: whoever sleeps, or is bound to, is reached by an event on whatever *)
(* it looked at, and that was not ready. A descriptor has room for one     *)
(* process only, so that this depends on all of the others' scans.         *)
Seen(d, p) == d \notin ready /\ Reaches(d, p)

InPlace ==
  /\ \A p, q \in Proc : Scanning(p) /\ Scanning(q) => p = q
  /\ \A p \in pSelect : Scanning(p)
  /\ \A p \in queue : pc[p] = "sleep"

SleepersReached == \A p \in queue : \A d \in want[p] : Seen(d, p)

ScannersReached ==
  \A p \in Proc : BoundToSleep(p) => \A d \in want[p] \ todo[p] : Seen(d, p)

SelectInv == SelectTypes /\ InPlace /\ SleepersReached /\ ScannersReached

(* select() returns when a descriptor stays ready, and when a time was     *)
(* given, unless it is stopped: wakeups lead to a scan that finds what is  *)
(* there, and collisions cannot make it scan for ever. (They could make    *)
(* another process, one with nothing ready, if they came in every scan of  *)
(* it; that is a flood of interrupts in which nobody else runs.)           *)
Waits(p) ==
  /\ pc[p] # "idle" /\ p \notin stopped
  /\ timer[p] # "none" \/ want[p] \cap ready # {}

SelectReturns ==
  \A p \in Proc :
    (\A q \in Proc \ {p} : []<>~Scanning(q)) => []<>~Waits(p)
=============================================================================
