------------------------------ MODULE SleepQueue ------------------------------
(***************************************************************************)
(* Sleeping, waking and job control: tsleep(), endtsleep(), unsleep(),     *)
(* wakeup() and setrunnable() of sys/kern/kern_synch.c with psignal() and  *)
(* issignal() of sys/kern/kern_sig.c, which stop, continue and interrupt   *)
(* the sleepers.                                                           *)
(*                                                                         *)
(* All wait channels are on one chain of slpque[]: channels that hash to   *)
(* one chain are the interesting case. The chain is a sequence with the    *)
(* pointer sq_tailp beside it. Each routine runs at splhigh, so an action  *)
(* is a routine, or a run of tsleep() up to mi_switch(). Processes are in  *)
(* memory, not traced, not vfork() children and not in an orphaned process *)
(* group; their parents are outside the model, and a signal keeps its      *)
(* disposition. sleep() is tsleep() without PCATCH and timo.               *)
(***************************************************************************)
EXTENDS Integers, SequencesExt

CONSTANTS
  Proc,
  Chan,       \* wait channels
  NoChan,     \* p_wchan of a process on no sleep queue
  None,       \* no signal, or no process
  Signals,    \* the signals that are sent
  Caught,     \* the signals with a handler
  Held,       \* the signals blocked by p_sigmask
  Catch,      \* the values of PCATCH that callers of tsleep() pass
  Timo        \* the values of timo # 0 that they pass

SigNo == [INT |-> 2, KILL |-> 9, STOP |-> 17, TSTP |-> 18, CONT |-> 19,
          USR1 |-> 30]

ASSUME ChanAssumption == NoChan \notin Chan /\ None \notin Proc
ASSUME SignalsAssumption ==
  /\ Signals \subseteq DOMAIN SigNo /\ None \notin Signals
  /\ Caught \cup Held \subseteq DOMAIN SigNo \ {"KILL", "STOP"}
ASSUME CallAssumption == Catch \subseteq BOOLEAN /\ Timo \subseteq BOOLEAN

VARIABLES
  stat,       \* p_stat
  wchan,      \* p_wchan
  sleepq,     \* the chain: its processes, and the one sq_tailp points into
  sintr,      \* the processes with P_SINTR
  timedout,   \* the processes with P_TIMEOUT
  callout,    \* the processes whose endtsleep() is in the callout queue
  siglist,    \* p_siglist
  pc,         \* where the process is: see Places
  call,       \* catch and timo of the tsleep() it is in
  found,      \* sig of the tsleep() it is in, or the signal it stopped for
  ret,        \* what its last tsleep() returned
  woken,      \* the processes a wakeup() found in their last tsleep()
  last        \* which was last sent to it: a stop, or SIGCONT

vars == <<stat, wchan, sleepq, sintr, timedout, callout, siglist, pc, call,
          found, ret, woken, last>>
queue == <<wchan, sleepq>>
timer == <<timedout, callout>>
ghost == <<woken, last>>

(* Running outside tsleep(); switched out asleep, or stopped by the first  *)
(* or the second CURSIG of tsleep(), or by the one on the way to user mode;*)
(* or in tsleep() past its switch, which the first CURSIG made it skip.    *)
Places == {"run", "asleep", "stop1", "stop2", "stopu", "awake"}
Results == {"none", "0", "EWOULDBLOCK", "EINTR"}

(* The type of every variable; a process is in one place of one chain, as  *)
(* there is one p_forw (kern_synch.c: the chains of slpque[]).             *)
TypeOK ==
  /\ stat \in [Proc -> {"SRUN", "SSLEEP", "SSTOP", "SZOMB"}]
  /\ wchan \in [Proc -> Chan \cup {NoChan}]
  /\ sleepq \in [list : Seq(Proc), tail : Proc \cup {None}]
  /\ IsInjective(sleepq.list)
  /\ sintr \subseteq Proc /\ timedout \subseteq Proc
  /\ callout \subseteq Proc /\ woken \subseteq Proc
  /\ siglist \in [Proc -> SUBSET Signals]
  /\ pc \in [Proc -> Places]
  /\ call \in [Proc -> [catch : BOOLEAN, timo : BOOLEAN]]
  /\ found \in [Proc -> Signals \cup {None}]
  /\ ret \in [Proc -> Results]
  /\ last \in [Proc -> {"STOP", "CONT"}]

-----------------------------------------------------------------------------
(* The sleep queue. An operator named Bug... is a plausible slip in the    *)
(* definition after it; no behaviour uses it.                              *)

BugEnqueue(q, p) ==
  [list |-> Append(q.list, p), tail |-> IF q.tail = None THEN p ELSE q.tail]

(* *qp->sq_tailp = p: the process goes behind the one that sq_tailp points *)
(* into, and whatever was behind that one is lost.                         *)
Enqueue(q, p) ==
  [list |-> IF q.list = <<>> THEN <<p>>
            ELSE LET behind == {i \in DOMAIN q.list : q.list[i] = q.tail}
                 IN  IF behind = {} THEN q.list
                     ELSE Append(SubSeq(q.list, 1, Max(behind)), p),
   tail |-> p]

BugDequeue(q, p) == [q EXCEPT !.list = RemoveFirst(@, p)]

Dequeue(q, p) ==
  LET i == SelectInSeq(q.list, LAMBDA r : r = p)
  IN  [list |-> RemoveFirst(q.list, p),
       tail |-> IF q.tail # p THEN q.tail
                ELSE IF i = 1 THEN None ELSE q.list[i - 1]]

Unsleep(p) ==
  IF wchan[p] # NoChan
  THEN /\ sleepq' = Dequeue(sleepq, p)
       /\ wchan' = [wchan EXCEPT ![p] = NoChan]
  ELSE UNCHANGED queue

Setrunnable(p) ==
  /\ Unsleep(p)
  /\ stat' = [stat EXCEPT ![p] = "SRUN"]

(* The walk along the chain, which takes the processes in waiting off it.  *)
Walk(waiting) ==
  FoldLeft(LAMBDA q, p : IF p \in waiting THEN Dequeue(q, p) ELSE q,
           sleepq, sleepq.list)

BugWakeup(c) ==
  LET waiting == {p \in ToSet(sleepq.list) : wchan[p] = c}
  IN  /\ waiting # {}
      /\ sleepq' = Walk(waiting)
      /\ wchan' = [p \in Proc |-> IF wchan[p] = c THEN NoChan ELSE wchan[p]]
      /\ stat' = [p \in Proc |-> IF wchan[p] = c THEN "SRUN" ELSE stat[p]]
      /\ woken' = woken \cup waiting
      /\ UNCHANGED <<sintr, timer, siglist, pc, call, found, ret, last>>

(* wakeup(): all that wait for c leave the chain, one after the other; a   *)
(* stopped one stays stopped.                                              *)
Wakeup(c) ==
  LET waiting == {p \in ToSet(sleepq.list) : wchan[p] = c}
  IN  /\ waiting # {}
      /\ sleepq' = Walk(waiting)
      /\ wchan' = [p \in Proc |-> IF p \in waiting THEN NoChan ELSE wchan[p]]
      /\ stat' = [p \in Proc |-> IF p \in waiting /\ stat[p] = "SSLEEP"
                                 THEN "SRUN" ELSE stat[p]]
      /\ woken' = woken \cup waiting
      /\ UNCHANGED <<sintr, timer, siglist, pc, call, found, ret, last>>

BugRouse(p) == IF stat[p] = "SSLEEP" THEN Setrunnable(p)
               ELSE UNCHANGED <<stat, queue>>

(* What endtsleep() does to a process that is still waiting: a stopped one *)
(* leaves the chain but stays stopped.                                     *)
Rouse(p) == IF stat[p] = "SSLEEP" THEN Setrunnable(p)
            ELSE Unsleep(p) /\ UNCHANGED stat

BugEndtsleep(p) ==
  /\ p \in callout
  /\ callout' = callout \ {p}
  /\ timedout' = timedout \cup {p}
  /\ IF wchan[p] = NoChan THEN UNCHANGED <<stat, queue>> ELSE Rouse(p)
  /\ UNCHANGED <<sintr, siglist, pc, call, found, ret, ghost>>

(* The timeout of a tsleep(), from softclock(): it does nothing to a       *)
(* process that was woken first.                                           *)
Endtsleep(p) ==
  /\ p \in callout
  /\ callout' = callout \ {p}
  /\ IF wchan[p] = NoChan THEN UNCHANGED <<stat, queue, timedout>>
     ELSE Rouse(p) /\ timedout' = timedout \cup {p}
  /\ UNCHANGED <<sintr, siglist, pc, call, found, ret, ghost>>

-----------------------------------------------------------------------------
(* Signals.                                                                *)

StopSigs == {"STOP", "TSTP"}

Action(s) == IF s \in Held THEN "HOLD"
             ELSE IF s \in Caught THEN "CATCH" ELSE "DFL"

Stops(s) == s \in StopSigs /\ Action(s) = "DFL"

(* What issignal() passes over: SIGCONT, unless a handler takes it.        *)
Discards(s) == s = "CONT" /\ Action(s) = "DFL"

(* The pending signals issignal() acts on, the lowest of them first, and   *)
(* the pending signals that are left when it comes to that one.            *)
Deliverable(list) == {s \in list \ Held : ~Discards(s)}

First(list) ==
  LET d == Deliverable(list)
  IN  IF d = {} THEN None
      ELSE CHOOSE s \in d : \A t \in d : SigNo[s] <= SigNo[t]

Swept(list) ==
  LET s == First(list)
  IN  {t \in list : t \in Held \/ ~Discards(t) \/
                    (s # None /\ SigNo[s] < SigNo[t])}

(* stop(), in issignal(): the signal stays in p_siglist until the process  *)
(* is switched in again, and what is left then is Taken.                   *)
StopFor(p, s, where) ==
  /\ stat' = [stat EXCEPT ![p] = "SSTOP"]
  /\ pc' = [pc EXCEPT ![p] = where]
  /\ found' = [found EXCEPT ![p] = s]

Taken(p) == siglist[p] \ {found[p]}

BugPending(list, s) == list \cup {s}

(* Posting a signal: a stop and SIGCONT cancel each other.                 *)
Pending(list, s) ==
  (list \ (IF s = "CONT" THEN StopSigs
           ELSE IF s \in StopSigs THEN {"CONT"} ELSE {})) \cup {s}

BugLeftPending(p, s) ==
  \/ Action(s) = "HOLD" /\ (s # "CONT" \/ stat[p] # "SSTOP")
  \/ stat[p] = "SRUN"
  \/ stat[p] = "SSLEEP" /\ p \notin sintr
  \/ stat[p] = "SSTOP" /\ s # "CONT"

(* psignal() has no more to do: the signal is held, or will be found when  *)
(* the process runs.                                                       *)
LeftPending(p, s) ==
  \/ Action(s) = "HOLD" /\ (s # "CONT" \/ stat[p] # "SSTOP")
  \/ stat[p] = "SRUN"
  \/ stat[p] = "SSLEEP" /\ p \notin sintr

(* A signal to an interruptible sleeper.                                   *)
SignalSleeper(p, s, list) ==
  \/ /\ Discards(s)
     /\ siglist' = [siglist EXCEPT ![p] = list \ {s}]
     /\ UNCHANGED <<stat, queue>>
  \/ /\ Stops(s)
     /\ siglist' = [siglist EXCEPT ![p] = list \ {s}]
     /\ stat' = [stat EXCEPT ![p] = "SSTOP"]
     /\ UNCHANGED queue
  \/ /\ ~Discards(s) /\ ~Stops(s)
     /\ siglist' = [siglist EXCEPT ![p] = list]
     /\ Setrunnable(p)

BugContinue(p, s) ==
  IF Action(s) = "CATCH" THEN Setrunnable(p)
  ELSE stat' = [stat EXCEPT ![p] = "SSLEEP"] /\ UNCHANGED queue

(* SIGCONT to a stopped process: it goes back to sleep if it waits.        *)
Continue(p, s) ==
  IF Action(s) = "CATCH" \/ wchan[p] = NoChan THEN Setrunnable(p)
  ELSE stat' = [stat EXCEPT ![p] = "SSLEEP"] /\ UNCHANGED queue

BugSimulateWakeup(p) == UNCHANGED queue

(* Another signal to a stopped process that sleeps interruptibly.          *)
SimulateWakeup(p) == IF p \in sintr THEN Unsleep(p) ELSE UNCHANGED queue

SignalStopped(p, s, list) ==
  \/ /\ s = "KILL"
     /\ siglist' = [siglist EXCEPT ![p] = list]
     /\ Setrunnable(p)
  \/ /\ s = "CONT"
     /\ siglist' = [siglist EXCEPT ![p] = IF Discards(s) THEN list \ {s}
                                          ELSE list]
     /\ Continue(p, s)
  \/ /\ s \in StopSigs
     /\ siglist' = [siglist EXCEPT ![p] = list \ {s}]
     /\ UNCHANGED <<stat, queue>>
  \/ /\ s \notin StopSigs \cup {"KILL", "CONT"}
     /\ siglist' = [siglist EXCEPT ![p] = list]
     /\ SimulateWakeup(p)
     /\ UNCHANGED stat

(* psignal(p, s), by an interrupt or another process.                      *)
Psignal(p, s) ==
  LET list == Pending(siglist[p], s)
  IN  /\ stat[p] # "SZOMB"
      /\ last' = [last EXCEPT ![p] = IF s = "CONT" THEN "CONT"
                                     ELSE IF Stops(s) THEN "STOP" ELSE @]
      /\ \/ /\ LeftPending(p, s)
            /\ siglist' = [siglist EXCEPT ![p] = list]
            /\ UNCHANGED <<stat, queue>>
         \/ /\ ~LeftPending(p, s) /\ stat[p] = "SSLEEP"
            /\ SignalSleeper(p, s, list)
         \/ /\ ~LeftPending(p, s) /\ stat[p] = "SSTOP"
            /\ SignalStopped(p, s, list)
      /\ UNCHANGED <<sintr, timer, pc, call, found, ret, woken>>

-----------------------------------------------------------------------------
(* The process itself.                                                     *)

(* tsleep() from its first CURSIG to the switch, with these pending        *)
(* signals, waiting for w in the chain q. It stops there; or has a signal  *)
(* and does not sleep; or finds that it was woken while it was stopped; or *)
(* sleeps.                                                                 *)
CheckThenSleep(p, list, w, q, k) ==
  LET s == First(list)
  IN  /\ siglist' = [siglist EXCEPT ![p] = Swept(list)]
      /\ \/ /\ s # None /\ Stops(s)
            /\ StopFor(p, s, "stop1")
            /\ sleepq' = q
            /\ wchan' = [wchan EXCEPT ![p] = w]
            /\ call' = [call EXCEPT ![p] = k]
         \/ /\ s # None /\ ~Stops(s)
            /\ stat' = [stat EXCEPT ![p] = "SRUN"]
            /\ pc' = [pc EXCEPT ![p] = "awake"]
            /\ found' = [found EXCEPT ![p] = s]
            /\ sleepq' = IF w = NoChan THEN q ELSE Dequeue(q, p)
            /\ wchan' = [wchan EXCEPT ![p] = NoChan]
            /\ call' = [call EXCEPT ![p] = k]
         \/ /\ s = None /\ w = NoChan
            /\ pc' = [pc EXCEPT ![p] = "awake"]
            /\ found' = [found EXCEPT ![p] = None]
            /\ call' = [call EXCEPT ![p] = [k EXCEPT !.catch = FALSE]]
            /\ UNCHANGED <<stat, queue>>
         \/ /\ s = None /\ w # NoChan
            /\ stat' = [stat EXCEPT ![p] = "SSLEEP"]
            /\ pc' = [pc EXCEPT ![p] = "asleep"]
            /\ found' = [found EXCEPT ![p] = None]
            /\ sleepq' = q
            /\ wchan' = [wchan EXCEPT ![p] = w]
            /\ call' = [call EXCEPT ![p] = k]

(* tsleep(), up to the switch.                                             *)
TSleep(p, c, k) ==
  /\ pc[p] = "run" /\ stat[p] = "SRUN"
  /\ callout' = IF k.timo THEN callout \cup {p} ELSE callout
  /\ ret' = [ret EXCEPT ![p] = "none"]
  /\ woken' = woken \ {p}
  /\ \/ /\ k.catch
        /\ sintr' = sintr \cup {p}
        /\ CheckThenSleep(p, siglist[p], c, Enqueue(sleepq, p), k)
     \/ /\ ~k.catch
        /\ sleepq' = Enqueue(sleepq, p)
        /\ wchan' = [wchan EXCEPT ![p] = c]
        /\ stat' = [stat EXCEPT ![p] = "SSLEEP"]
        /\ pc' = [pc EXCEPT ![p] = "asleep"]
        /\ found' = [found EXCEPT ![p] = None]
        /\ call' = [call EXCEPT ![p] = k]
        /\ UNCHANGED <<sintr, siglist>>
  /\ UNCHANGED <<timedout, last>>

(* The first CURSIG goes on when the process is switched in again.         *)
ResumeFirst(p) ==
  /\ pc[p] = "stop1" /\ stat[p] = "SRUN"
  /\ CheckThenSleep(p, Taken(p), wchan[p], sleepq, call[p])
  /\ UNCHANGED <<sintr, timer, ret, ghost>>

Return(p, r) ==
  /\ ret' = [ret EXCEPT ![p] = r]
  /\ pc' = [pc EXCEPT ![p] = "run"]
  /\ found' = [found EXCEPT ![p] = None]
  /\ UNCHANGED stat

(* The second CURSIG of tsleep().                                          *)
CheckThenReturn(p, list) ==
  LET s == First(list)
  IN  /\ siglist' = [siglist EXCEPT ![p] = Swept(list)]
      /\ \/ s = None /\ Return(p, "0")
         \/ s # None /\ Stops(s) /\ StopFor(p, s, "stop2") /\ UNCHANGED ret
         \/ s # None /\ ~Stops(s) /\ Return(p, "EINTR")

BugDisarm(p) == callout

(* untimeout(), unless the timeout has expired.                            *)
Disarm(p) == IF p \in timedout THEN callout ELSE callout \ {p}

(* tsleep() from its resume: label; ERESTART counts as EINTR.              *)
Finish(p) ==
  /\ pc[p] \in {"asleep", "awake"} /\ stat[p] = "SRUN"
  /\ sintr' = sintr \ {p}
  /\ timedout' = timedout \ {p}
  /\ callout' = Disarm(p)
  /\ \/ /\ p \in timedout /\ found[p] = None
        /\ Return(p, "EWOULDBLOCK")
        /\ UNCHANGED siglist
     \/ /\ p \notin timedout \/ found[p] # None
        /\ \/ /\ ~call[p].catch
              /\ Return(p, "0")
              /\ UNCHANGED siglist
           \/ /\ call[p].catch /\ found[p] # None
              /\ Return(p, "EINTR")
              /\ UNCHANGED siglist
           \/ /\ call[p].catch /\ found[p] = None
              /\ CheckThenReturn(p, siglist[p])
  /\ UNCHANGED <<queue, call, ghost>>

ResumeSecond(p) ==
  /\ pc[p] = "stop2" /\ stat[p] = "SRUN"
  /\ CheckThenReturn(p, Taken(p))
  /\ UNCHANGED <<queue, sintr, timer, call, ghost>>

(* while (signum = CURSIG(p)) postsig(signum), on the way to user mode. A  *)
(* signal that is caught is blocked while its handler runs, so that the    *)
(* loop takes each of them once.                                           *)
Deliver(p, list) ==
  LET s == First({t \in list : t \notin Caught})
      handled == {t \in Deliverable(list) \cap Caught :
                    s = None \/ SigNo[t] < SigNo[s]}
  IN  /\ siglist' = [siglist EXCEPT ![p] = Swept(list \ handled)]
      /\ \/ /\ s = None
            /\ pc' = [pc EXCEPT ![p] = "run"]
            /\ found' = [found EXCEPT ![p] = None]
            /\ UNCHANGED stat
         \/ s # None /\ Stops(s) /\ StopFor(p, s, "stopu")
         \/ /\ s # None /\ ~Stops(s)
            /\ stat' = [stat EXCEPT ![p] = "SZOMB"]
            /\ pc' = [pc EXCEPT ![p] = "run"]
            /\ found' = [found EXCEPT ![p] = None]
  /\ UNCHANGED <<queue, sintr, timer, call, ret, ghost>>

ToUser(p) ==
  /\ pc[p] = "run" /\ stat[p] = "SRUN" /\ siglist[p] \ Held # {}
  /\ Deliver(p, siglist[p])

ResumeUser(p) ==
  /\ pc[p] = "stopu" /\ stat[p] = "SRUN"
  /\ Deliver(p, Taken(p))

-----------------------------------------------------------------------------
Init ==
  /\ stat = [p \in Proc |-> "SRUN"] /\ wchan = [p \in Proc |-> NoChan]
  /\ sleepq = [list |-> <<>>, tail |-> None]
  /\ sintr = {} /\ timedout = {} /\ callout = {} /\ woken = {}
  /\ siglist = [p \in Proc |-> {}] /\ pc = [p \in Proc |-> "run"]
  /\ call = [p \in Proc |-> [catch |-> FALSE, timo |-> FALSE]]
  /\ found = [p \in Proc |-> None] /\ ret = [p \in Proc |-> "none"]
  /\ last = [p \in Proc |-> "CONT"]

Next ==
  \/ \E c \in Chan : Wakeup(c)
  \/ \E p \in Proc :
       \/ \E c \in Chan, k \in [catch : Catch, timo : Timo] : TSleep(p, c, k)
       \/ \E s \in Signals : Psignal(p, s)
       \/ Endtsleep(p) \/ Finish(p)
       \/ ResumeFirst(p) \/ ResumeSecond(p)
       \/ ToUser(p) \/ ResumeUser(p)

Spec == Init /\ [][Next]_vars

(* A runnable process is switched in and a timeout fires; a process does   *)
(* not go to sleep forever without going back to user mode between.        *)
Fairness ==
  \A p \in Proc :
    /\ WF_vars(Endtsleep(p)) /\ WF_vars(Finish(p))
    /\ WF_vars(ResumeFirst(p)) /\ WF_vars(ResumeSecond(p))
    /\ WF_vars(ResumeUser(p)) /\ SF_vars(ToUser(p))

FairSpec == Spec /\ Fairness

-----------------------------------------------------------------------------
(* The chain holds exactly the processes that wait, and sq_tailp points    *)
(* into the last of them: unsleep() would run off a chain without its      *)
(* process, wakeup() would miss one (its "wakeup" panic is the third       *)
(* conjunct). A process asleep is on the chain: someone can wake it.       *)
QueueSound ==
  /\ TypeOK
  /\ ToSet(sleepq.list) = {p \in Proc : wchan[p] # NoChan}
  /\ sleepq.tail = IF sleepq.list = <<>> THEN None ELSE Last(sleepq.list)
  /\ \A p \in Proc : wchan[p] # NoChan => stat[p] \in {"SSLEEP", "SSTOP"}
  /\ \A p \in Proc : stat[p] = "SSLEEP" => wchan[p] # NoChan

(* A timeout cannot end a later tsleep() than the one that started it:     *)
(* neither endtsleep() nor P_TIMEOUT outlives the call, and one process    *)
(* has one of the two at most.                                             *)
TimeoutSound ==
  /\ \A p \in callout \cup timedout :
       pc[p] \in {"asleep", "stop1", "awake"} /\ call[p].timo
  /\ callout \cap timedout = {}
  /\ \A p \in timedout : wchan[p] = NoChan

(* "Returns 0 if awakened, EWOULDBLOCK if the timeout expires": a wakeup   *)
(* and a timeout that race are told apart by what tsleep() returns.        *)
ReturnsTruth ==
  \A p \in Proc : /\ ret[p] = "0" => p \in woken
                  /\ ret[p] = "EWOULDBLOCK" => p \notin woken

(* A process that sleeps interruptibly has no signal to take: psignal()    *)
(* wakes it, or tsleep() sees the signal before it sleeps.                 *)
NoDeafSleeper ==
  \A p \in sintr : stat[p] = "SSLEEP" => Deliverable(siglist[p]) = {}

(* Only a stop that came after the last SIGCONT keeps a process stopped:   *)
(* SIGCONT cancels the stop that is pending, whatever the process does.    *)
StoppedOnlyIfAsked == \A p \in Proc : stat[p] = "SSTOP" => last[p] = "STOP"

(* Neither wakeup() nor a timeout, nor a signal but SIGCONT and SIGKILL,   *)
(* takes a process out of SSTOP.                                           *)
StopHolds ==
  [][\A p \in Proc : stat[p] = "SSTOP" /\ stat'[p] # "SSTOP" =>
                       last'[p] = "CONT" \/ "KILL" \in siglist'[p]]_vars

(* A tsleep() with a timeout returns, whatever stops, continues and wakes  *)
(* the process on the way, unless it stays stopped.                        *)
TimedSleepEnds ==
  \A p \in Proc : (p \in callout \cup timedout) ~>
                    (pc[p] = "run" \/ stat[p] = "SSTOP")

(* A wakeup() that found a process stopped is not lost: once the process   *)
(* is continued it comes out of its tsleep().                              *)
ContinuedRuns ==
  \A p \in Proc : (p \in woken /\ stat[p] # "SSTOP") ~>
                    (pc[p] = "run" \/ stat[p] = "SSTOP")

(* SIGKILL reaches a process that sleeps interruptibly, is stopped, or     *)
(* both.                                                                   *)
KillTakes == \A p \in Proc : ("KILL" \in siglist[p]) ~> (stat[p] = "SZOMB")

(* "Stop signals with default action are processed immediately, then       *)
(* cleared" (issignal()): a stop that no SIGCONT follows stops the process *)
(* if it does not end first.                                               *)
StopObeyed ==
  \A p \in Proc : (last[p] = "STOP") ~>
                    (stat[p] \in {"SSTOP", "SZOMB"} \/ last[p] = "CONT")
=============================================================================
