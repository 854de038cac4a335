--------------------------- MODULE SleepQueueProofs ---------------------------
(***************************************************************************)
(* Proofs about sleeping and job control, for any processes, channels,     *)
(* signals and ways to handle them.                                        *)
(***************************************************************************)
EXTENDS SleepQueue, ListLemmas, TLAPS

-----------------------------------------------------------------------------
(* The inductive invariant: the types of the functions over processes, the *)
(* two safety properties, and what the second needs of pending signals.    *)

Calls == [catch : BOOLEAN, timo : BOOLEAN]

SQTypes ==
  /\ stat \in [Proc -> {"SRUN", "SSLEEP", "SSTOP", "SZOMB"}]
  /\ wchan \in [Proc -> Chan \cup {NoChan}]
  /\ siglist \in [Proc -> SUBSET Signals]
  /\ pc \in [Proc -> Places]
  /\ call \in [Proc -> Calls]
  /\ found \in [Proc -> Signals \cup {None}]
  /\ last \in [Proc -> {"STOP", "CONT"}]
  /\ timedout \subseteq Proc /\ callout \subseteq Proc

(* A stop that is pending came after the last SIGCONT.                     *)
PendingStops ==
  \A p \in Proc : \A s \in siglist[p] : Stops(s) => last[p] = "STOP"

SQInv == /\ SQTypes
         /\ TimeoutSound
         /\ PendingStops
         /\ StoppedOnlyIfAsked

(* The part of the invariant that speaks of one process.                   *)
Good(p) ==
  /\ p \in callout \/ p \in timedout =>
       pc[p] \in {"asleep", "stop1", "awake"} /\ call[p].timo
  /\ ~(p \in callout /\ p \in timedout)
  /\ p \in timedout => wchan[p] = NoChan
  /\ \A s \in siglist[p] : Stops(s) => last[p] = "STOP"
  /\ stat[p] = "SSTOP" => last[p] = "STOP"

(* A step that leaves the other processes alone.                           *)
Others(p) ==
  \A q \in Proc \ {p} :
    /\ stat'[q] = stat[q] /\ wchan'[q] = wchan[q] /\ siglist'[q] = siglist[q]
    /\ pc'[q] = pc[q] /\ call'[q] = call[q] /\ last'[q] = last[q]
    /\ (q \in timedout' <=> q \in timedout)
    /\ (q \in callout' <=> q \in callout)

-----------------------------------------------------------------------------
(* Operators.                                                              *)

(* Of signals that can be delivered one has the lowest number. *)
LEMMA LowestIs ==
  ASSUME NEW list \in SUBSET Signals, Deliverable(list) # {}
  PROVE  \E s \in Deliverable(list) :
           \A t \in Deliverable(list) : SigNo[s] <= SigNo[t]
<1> DEFINE d == Deliverable(list)
<1>1. d \subseteq {"INT", "KILL", "STOP", "TSTP", "CONT", "USR1"}
  BY SignalsAssumption DEF Deliverable, SigNo
<1>2. /\ SigNo["INT"] = 2 /\ SigNo["KILL"] = 9 /\ SigNo["STOP"] = 17
      /\ SigNo["TSTP"] = 18 /\ SigNo["CONT"] = 19 /\ SigNo["USR1"] = 30
  BY DEF SigNo
<1>3. d # {} => \E s \in d : \A t \in d : SigNo[s] <= SigNo[t]
  <2> HIDE DEF d
  <2>1. CASE "INT" \in d
    BY <2>1, <1>1, <1>2
  <2>2. CASE "INT" \notin d /\ "KILL" \in d
    BY <2>2, <1>1, <1>2
  <2>3. CASE "INT" \notin d /\ "KILL" \notin d /\ "STOP" \in d
    BY <2>3, <1>1, <1>2
  <2>4. CASE /\ "INT" \notin d /\ "KILL" \notin d /\ "STOP" \notin d
             /\ "TSTP" \in d
    BY <2>4, <1>1, <1>2
  <2>5. CASE /\ "INT" \notin d /\ "KILL" \notin d /\ "STOP" \notin d
             /\ "TSTP" \notin d /\ "CONT" \in d
    BY <2>5, <1>1, <1>2
  <2>6. CASE /\ "INT" \notin d /\ "KILL" \notin d /\ "STOP" \notin d
             /\ "TSTP" \notin d /\ "CONT" \notin d
    <3>1. d \subseteq {"USR1"}
      BY <2>6, <1>1
    <3>2. SigNo["USR1"] <= SigNo["USR1"]
      BY <1>2
    <3>. QED  BY <3>1, <3>2
  <2>. QED  BY <2>1, <2>2, <2>3, <2>4, <2>5, <2>6
<1>. QED  BY <1>3

(* First returns a pending signal that can be delivered, or none. *)
LEMMA FirstIn ==
  ASSUME NEW list \in SUBSET Signals
  PROVE  First(list) = None \/ First(list) \in Deliverable(list)
<1> DEFINE d == Deliverable(list)
<1>1. d # {} => \E s \in d : \A t \in d : SigNo[s] <= SigNo[t]
  BY LowestIs
<1>. QED  BY <1>1 DEF First

(* What is left of pending signals is part of them. *)
LEMMA SweptPart ==
  ASSUME NEW list PROVE Swept(list) \subseteq list
BY DEF Swept

(* First returns a signal that is pending, or none.                        *)
LEMMA FirstPending ==
  ASSUME NEW list \in SUBSET Signals
  PROVE  First(list) \in list \cup {None}
BY FirstIn DEF Deliverable

(* unsleep() leaves a process waiting for nothing. *)
LEMMA UnsleepWaits ==
  ASSUME NEW p \in Proc, SQTypes, Unsleep(p)
  PROVE  wchan' = [wchan EXCEPT ![p] = NoChan]
<1>1. CASE wchan[p] # NoChan
  BY <1>1 DEF Unsleep
<1>2. CASE wchan[p] = NoChan
  BY <1>2 DEF Unsleep, SQTypes, queue
<1>. QED  BY <1>1, <1>2

(* setrunnable() makes the process run, and leaves it waiting for nothing. *)
LEMMA SetrunnableRuns ==
  ASSUME NEW p \in Proc, SQTypes, Setrunnable(p)
  PROVE  /\ wchan' = [wchan EXCEPT ![p] = NoChan]
         /\ stat' = [stat EXCEPT ![p] = "SRUN"]
BY UnsleepWaits DEF Setrunnable

-----------------------------------------------------------------------------
(* Pieces of actions.                                                      *)

(* tsleep() up to the switch keeps the process in that tsleep(), waiting   *)
(* for what it came for or for nothing, and stops it only for a signal     *)
(* that was pending. *)
SleepEffect(p, list, w, k) ==
  \E st \in {"SRUN", "SSLEEP", "SSTOP"},
     pl \in {"asleep", "stop1", "awake"},
     x \in {w, NoChan}, kk \in Calls, f \in Signals \cup {None} :
    /\ stat' = [stat EXCEPT ![p] = st]
    /\ pc' = [pc EXCEPT ![p] = pl]
    /\ wchan' = [wchan EXCEPT ![p] = x]
    /\ call' = [call EXCEPT ![p] = kk] /\ kk.timo = k.timo
    /\ found' = [found EXCEPT ![p] = f]
    /\ siglist' = [siglist EXCEPT ![p] = Swept(list)]
    /\ st = "SSTOP" => \E s \in list : Stops(s)

(* CheckThenSleep, in tsleep(), has that effect. *)
LEMMA CheckThenSleepEffect ==
  ASSUME NEW p \in Proc, SQTypes, stat[p] = "SRUN",
         NEW list \in SUBSET Signals,
         NEW w \in Chan \cup {NoChan}, w = NoChan => wchan[p] = NoChan,
         NEW q, NEW k \in Calls, CheckThenSleep(p, list, w, q, k)
  PROVE  SleepEffect(p, list, w, k)
<1> USE DEF SleepEffect
<1> DEFINE s == First(list)
<1>0. s \in list \cup {None} /\ None \notin Signals
  BY FirstPending, SignalsAssumption
<1>1. CASE s # None /\ Stops(s)
  <2>1. /\ stat' = [stat EXCEPT ![p] = "SSTOP"]
        /\ pc' = [pc EXCEPT ![p] = "stop1"]
        /\ wchan' = [wchan EXCEPT ![p] = w]
        /\ call' = [call EXCEPT ![p] = k]
        /\ found' = [found EXCEPT ![p] = s]
        /\ siglist' = [siglist EXCEPT ![p] = Swept(list)]
    BY <1>1 DEF CheckThenSleep, StopFor
  <2>. QED  BY <2>1, <1>0, <1>1
<1>2. CASE s # None /\ ~Stops(s)
  <2>1. /\ stat' = [stat EXCEPT ![p] = "SRUN"]
        /\ pc' = [pc EXCEPT ![p] = "awake"]
        /\ wchan' = [wchan EXCEPT ![p] = NoChan]
        /\ call' = [call EXCEPT ![p] = k]
        /\ found' = [found EXCEPT ![p] = s]
        /\ siglist' = [siglist EXCEPT ![p] = Swept(list)]
    BY <1>2 DEF CheckThenSleep
  <2>. QED  BY <2>1, <1>0
<1>3. CASE s = None /\ w = NoChan
  <2> DEFINE kk == [k EXCEPT !.catch = FALSE]
  <2>1. /\ stat' = stat /\ wchan' = wchan
        /\ pc' = [pc EXCEPT ![p] = "awake"]
        /\ call' = [call EXCEPT ![p] = kk]
        /\ found' = [found EXCEPT ![p] = None]
        /\ siglist' = [siglist EXCEPT ![p] = Swept(list)]
    BY <1>3 DEF CheckThenSleep, queue
  <2>2. /\ stat = [stat EXCEPT ![p] = "SRUN"]
        /\ wchan = [wchan EXCEPT ![p] = w]
    BY <1>3 DEF SQTypes
  <2>3. kk \in Calls /\ kk.timo = k.timo
    BY DEF Calls
  <2>. QED  BY <2>1, <2>2, <2>3
<1>4. CASE s = None /\ w # NoChan
  <2>1. /\ stat' = [stat EXCEPT ![p] = "SSLEEP"]
        /\ pc' = [pc EXCEPT ![p] = "asleep"]
        /\ wchan' = [wchan EXCEPT ![p] = w]
        /\ call' = [call EXCEPT ![p] = k]
        /\ found' = [found EXCEPT ![p] = None]
        /\ siglist' = [siglist EXCEPT ![p] = Swept(list)]
    BY <1>4 DEF CheckThenSleep
  <2>. QED  BY <2>1
<1>. QED  BY <1>1, <1>2, <1>3, <1>4

(* The second CURSIG of tsleep() returns, or stops the process for a       *)
(* signal that was pending. *)
ReturnEffect(p, list) ==
  \E st \in {"SRUN", "SSTOP"}, pl \in {"run", "stop2"},
     f \in Signals \cup {None} :
    /\ stat' = [stat EXCEPT ![p] = st]
    /\ pc' = [pc EXCEPT ![p] = pl]
    /\ found' = [found EXCEPT ![p] = f]
    /\ siglist' = [siglist EXCEPT ![p] = Swept(list)]
    /\ st = "SSTOP" => \E s \in list : Stops(s)

(* CheckThenReturn, in tsleep(), has that effect. *)
LEMMA CheckThenReturnEffect ==
  ASSUME NEW p \in Proc, SQTypes, stat[p] = "SRUN",
         NEW list \in SUBSET Signals, CheckThenReturn(p, list)
  PROVE  ReturnEffect(p, list)
<1> USE DEF ReturnEffect
<1> DEFINE s == First(list)
<1>0. s \in list \cup {None} /\ None \notin Signals
  BY FirstPending, SignalsAssumption
<1>1. siglist' = [siglist EXCEPT ![p] = Swept(list)]
  BY DEF CheckThenReturn
<1>2. CASE s # None /\ Stops(s) /\ StopFor(p, s, "stop2")
  BY <1>0, <1>1, <1>2 DEF StopFor
<1>3. CASE \E r \in Results : Return(p, r)
  <2>1. stat = [stat EXCEPT ![p] = "SRUN"]
    BY DEF SQTypes
  <2>. QED  BY <1>1, <1>3, <2>1 DEF Return
<1>4. \/ s # None /\ Stops(s) /\ StopFor(p, s, "stop2")
      \/ \E r \in Results : Return(p, r)
  BY DEF CheckThenReturn, Results
<1>. QED  BY <1>2, <1>3, <1>4

(* On its way to user mode a process goes on, dies, or stops for a signal  *)
(* that was pending; no signal is added to those pending. *)
UserEffect(p, list) ==
  \E st \in {"SRUN", "SSTOP", "SZOMB"}, pl \in {"run", "stopu"},
     f \in Signals \cup {None}, left \in SUBSET list :
    /\ stat' = [stat EXCEPT ![p] = st]
    /\ pc' = [pc EXCEPT ![p] = pl]
    /\ found' = [found EXCEPT ![p] = f]
    /\ siglist' = [siglist EXCEPT ![p] = left]
    /\ st = "SSTOP" => \E s \in list : Stops(s)

(* Deliver, the loop over CURSIG, has that effect. *)
LEMMA DeliverEffect ==
  ASSUME NEW p \in Proc, SQTypes, stat[p] = "SRUN",
         NEW list \in SUBSET Signals, Deliver(p, list)
  PROVE  UserEffect(p, list)
<1> USE DEF UserEffect
<1> DEFINE uncaught == {t \in list : t \notin Caught}
           s == First(uncaught)
           handled == {t \in Deliverable(list) \cap Caught :
                         s = None \/ SigNo[t] < SigNo[s]}
           left == Swept(list \ handled)
<1>0. s \in list \cup {None} /\ None \notin Signals
  BY FirstPending, SignalsAssumption, uncaught \in SUBSET Signals
<1>1. siglist' = [siglist EXCEPT ![p] = left] /\ left \in SUBSET list
  BY SweptPart DEF Deliver
<1>2. \/ /\ s = None
         /\ pc' = [pc EXCEPT ![p] = "run"]
         /\ found' = [found EXCEPT ![p] = None]
         /\ stat' = stat
      \/ s # None /\ Stops(s) /\ StopFor(p, s, "stopu")
      \/ /\ s # None /\ ~Stops(s)
         /\ stat' = [stat EXCEPT ![p] = "SZOMB"]
         /\ pc' = [pc EXCEPT ![p] = "run"]
         /\ found' = [found EXCEPT ![p] = None]
  BY DEF Deliver
<1> HIDE DEF s, left
<1>3. stat = [stat EXCEPT ![p] = "SRUN"]
  BY DEF SQTypes
<1>4. CASE s # None /\ Stops(s) /\ StopFor(p, s, "stopu")
  BY <1>0, <1>1, <1>4 DEF StopFor
<1>5. CASE /\ pc' = [pc EXCEPT ![p] = "run"]
           /\ found' = [found EXCEPT ![p] = None]
           /\ stat' = stat \/ stat' = [stat EXCEPT ![p] = "SZOMB"]
  BY <1>1, <1>3, <1>5
<1>. QED  BY <1>2, <1>4, <1>5

(* A sleeper that is roused from its sleep, by a timeout or a signal, ends *)
(* up waiting for nothing; one that is stopped stays stopped. *)
LEMMA RouseEffect ==
  ASSUME NEW p \in Proc, SQTypes, Rouse(p)
  PROVE  \E st \in {stat[p], "SRUN"} :
           /\ stat' = [stat EXCEPT ![p] = st]
           /\ wchan' = [wchan EXCEPT ![p] = NoChan]
           /\ stat[p] = "SSTOP" => st = "SSTOP"
<1>1. CASE stat[p] = "SSLEEP"
  BY <1>1, SetrunnableRuns DEF Rouse
<1>2. CASE stat[p] # "SSLEEP"
  BY <1>2, UnsleepWaits DEF Rouse, SQTypes
<1>. QED  BY <1>1, <1>2

(* psignal() in full: it changes the state and the wait channel of the     *)
(* process, and adds at most the signal itself to those pending. It stops  *)
(* the process for a stop, which becomes the last asked for; and takes it  *)
(* out of a stop only for SIGCONT or SIGKILL. *)
SignalEffect(p, s) ==
  \E st \in {"SRUN", "SSLEEP", "SSTOP", "SZOMB"},
     x \in {wchan[p], NoChan},
     left \in SUBSET Pending(siglist[p], s) :
    /\ stat' = [stat EXCEPT ![p] = st]
    /\ wchan' = [wchan EXCEPT ![p] = x]
    /\ siglist' = [siglist EXCEPT ![p] = left]
    /\ st = "SSTOP" => s # "CONT" /\ (stat[p] = "SSTOP" \/ Stops(s))
    /\ stat[p] = "SSTOP" /\ st # "SSTOP" =>
         s = "CONT" \/ "KILL" \in left

(* psignal() has that effect. *)
LEMMA PsignalEffect ==
  ASSUME NEW p \in Proc, SQTypes, NEW s \in Signals, Psignal(p, s)
  PROVE  SignalEffect(p, s)
<1> USE DEF SignalEffect
<1> DEFINE list == Pending(siglist[p], s)
<1>0. /\ stat = [stat EXCEPT ![p] = stat[p]]
      /\ wchan = [wchan EXCEPT ![p] = wchan[p]]
      /\ stat[p] \in {"SRUN", "SSLEEP", "SSTOP", "SZOMB"}
      /\ s \in list /\ list \in SUBSET list /\ list \ {s} \in SUBSET list
  BY DEF SQTypes, Pending
<1>1. CASE /\ LeftPending(p, s)
           /\ siglist' = [siglist EXCEPT ![p] = list]
           /\ UNCHANGED <<stat, queue>>
  <2>1. stat' = stat /\ wchan' = wchan
    BY <1>1 DEF queue
  <2>2. stat[p] = "SSTOP" => s # "CONT"
    BY <1>1 DEF LeftPending
  <2>. QED  BY <1>0, <1>1, <2>1, <2>2
<1>2. CASE stat[p] = "SSLEEP" /\ SignalSleeper(p, s, list)
  <2>1. CASE /\ siglist' = [siglist EXCEPT ![p] = list \ {s}]
             /\ UNCHANGED <<stat, queue>>
    BY <1>0, <1>2, <2>1 DEF queue
  <2>2. CASE /\ Stops(s)
             /\ siglist' = [siglist EXCEPT ![p] = list \ {s}]
             /\ stat' = [stat EXCEPT ![p] = "SSTOP"]
             /\ UNCHANGED queue
    <3>1. s # "CONT"
      BY <2>2 DEF Stops, StopSigs
    <3>. QED  BY <1>0, <1>2, <2>2, <3>1 DEF queue
  <2>3. CASE /\ siglist' = [siglist EXCEPT ![p] = list]
             /\ Setrunnable(p)
    BY <1>0, <1>2, <2>3, SetrunnableRuns
  <2>. QED  BY <1>2, <2>1, <2>2, <2>3 DEF SignalSleeper
<1>3. CASE stat[p] = "SSTOP" /\ SignalStopped(p, s, list)
  <2>1. CASE /\ s = "KILL"
             /\ siglist' = [siglist EXCEPT ![p] = list]
             /\ Setrunnable(p)
    BY <1>0, <2>1, SetrunnableRuns
  <2>2. CASE /\ s = "CONT"
             /\ siglist' = [siglist EXCEPT ![p] = IF Discards(s)
                                                  THEN list \ {s} ELSE list]
             /\ Continue(p, s)
    <3>1. CASE Setrunnable(p)
      BY <1>0, <2>2, <3>1, SetrunnableRuns
    <3>2. CASE stat' = [stat EXCEPT ![p] = "SSLEEP"] /\ UNCHANGED queue
      BY <1>0, <2>2, <3>2 DEF queue
    <3>. QED  BY <2>2, <3>1, <3>2 DEF Continue
  <2>3. CASE /\ s \in StopSigs
             /\ siglist' = [siglist EXCEPT ![p] = list \ {s}]
             /\ UNCHANGED <<stat, queue>>
    <3>1. s # "CONT"
      BY <2>3 DEF StopSigs
    <3>. QED  BY <1>0, <1>3, <2>3, <3>1 DEF queue
  <2>4. CASE /\ s \notin StopSigs \cup {"KILL", "CONT"}
             /\ siglist' = [siglist EXCEPT ![p] = list]
             /\ SimulateWakeup(p)
             /\ UNCHANGED stat
    <3>1. \E x \in {wchan[p], NoChan} : wchan' = [wchan EXCEPT ![p] = x]
      BY <1>0, <2>4, UnsleepWaits DEF SimulateWakeup, queue
    <3>. QED  BY <1>0, <1>3, <2>4, <3>1
  <2>. QED  BY <1>3, <2>1, <2>2, <2>3, <2>4 DEF SignalStopped
<1>. QED  BY <1>1, <1>2, <1>3 DEF Psignal

-----------------------------------------------------------------------------
(* Steps.                                                                  *)

(* The invariant says the same of each process. *)
LEMMA InvIsGood ==
  SQInv <=> SQTypes /\ \A p \in Proc : Good(p)
BY DEF SQInv, SQTypes, TimeoutSound, PendingStops, StoppedOnlyIfAsked, Good

(* A step of one process that is good for that process keeps the           *)
(* invariant. *)
LEMMA OneProcess ==
  ASSUME NEW p \in Proc, SQInv, SQTypes', Others(p), Good(p)'
  PROVE  SQInv'
<1>1. ASSUME NEW q \in Proc \ {p} PROVE Good(q)'
  BY InvIsGood DEF Others, Good
<1>2. \A q \in Proc : Good(q)'
  BY <1>1
<1>. QED  BY <1>2 DEF SQInv, SQTypes, TimeoutSound, PendingStops,
                      StoppedOnlyIfAsked, Good

(* The invariant holds when nobody has slept yet.                          *)
LEMMA InitInv == Init => SQInv
<1> SUFFICES ASSUME Init PROVE SQInv
  OBVIOUS
<1>1. SQTypes
  BY DEF Init, SQTypes, Calls, Places
<1>2. \A p \in Proc : Good(p)
  BY DEF Init, Good
<1>. QED  BY <1>1, <1>2, InvIsGood

(* wakeup() takes processes off the chain and posts no signal.             *)
LEMMA WakeupInv ==
  ASSUME SQInv, NEW c \in Chan, Wakeup(c) PROVE SQInv'
<1> DEFINE w == {p \in ToSet(sleepq.list) : wchan[p] = c}
<1>0. SQTypes /\ \A p \in Proc : Good(p)
  BY InvIsGood
<1>1. /\ wchan' = [p \in Proc |-> IF p \in w THEN NoChan ELSE wchan[p]]
      /\ stat' = [p \in Proc |-> IF p \in w /\ stat[p] = "SSLEEP"
                                 THEN "SRUN" ELSE stat[p]]
      /\ UNCHANGED <<timedout, callout, siglist, pc, call, found, last>>
  BY DEF Wakeup, timer
<1> HIDE DEF w
<1>2. SQTypes'
  BY <1>0, <1>1 DEF SQTypes
<1>3. ASSUME NEW p \in Proc PROVE Good(p)'
  <2>1. stat'[p] = "SSTOP" => stat[p] = "SSTOP"
    BY <1>0, <1>1 DEF SQTypes
  <2>2. wchan'[p] \in {wchan[p], NoChan}
    BY <1>1
  <2>. QED  BY <1>0, <1>1, <2>1, <2>2 DEF Good
<1>. QED  BY <1>2, <1>3 DEF SQInv, SQTypes, TimeoutSound, PendingStops,
                            StoppedOnlyIfAsked, Good

(* endtsleep(): the callout is gone when P_TIMEOUT goes up.                *)
LEMMA EndtsleepInv ==
  ASSUME SQInv, NEW p \in Proc, Endtsleep(p) PROVE SQInv'
<1>0. SQTypes /\ Good(p) /\ p \in callout
  BY InvIsGood DEF Endtsleep
<1>1. /\ callout' = callout \ {p}
      /\ UNCHANGED <<siglist, pc, call, found, last>>
  BY DEF Endtsleep, ghost
<1>2. CASE /\ wchan[p] = NoChan /\ UNCHANGED <<stat, queue, timedout>>
  <2>1. SQTypes'
    BY <1>0, <1>1, <1>2 DEF SQTypes, queue
  <2>2. Others(p)
    BY <1>1, <1>2 DEF Others, queue
  <2>3. Good(p)'
    BY <1>0, <1>1, <1>2 DEF Good, queue
  <2>. QED  BY <2>1, <2>2, <2>3, OneProcess
<1>3. CASE Rouse(p) /\ timedout' = timedout \cup {p}
  <2>0. PICK st \in {stat[p], "SRUN"} :
          /\ stat' = [stat EXCEPT ![p] = st]
          /\ wchan' = [wchan EXCEPT ![p] = NoChan]
          /\ stat[p] = "SSTOP" => st = "SSTOP"
    BY <1>0, <1>3, RouseEffect
  <2>1. SQTypes'
    BY <1>0, <1>1, <1>3, <2>0 DEF SQTypes
  <2>2. Others(p)
    BY <1>0, <1>1, <1>3, <2>0 DEF Others, SQTypes
  <2>3. Good(p)'
    <3>1. stat'[p] = st /\ wchan'[p] = NoChan
      BY <1>0, <2>0 DEF SQTypes
    <3>2. st = "SSTOP" => stat[p] = "SSTOP"
      BY <2>0
    <3>. QED  BY <1>0, <1>1, <1>3, <3>1, <3>2 DEF Good
  <2>. QED  BY <2>1, <2>2, <2>3, OneProcess
<1>. QED  BY <1>2, <1>3 DEF Endtsleep

(* psignal(): a stop that stays pending, or stops the process, is the last *)
(* asked for.                                                              *)
LEMMA PsignalInv ==
  ASSUME SQInv, NEW p \in Proc, NEW s \in Signals, Psignal(p, s)
  PROVE  SQInv'
<1>0. SQTypes /\ Good(p)
  BY InvIsGood
<1>1. /\ last' = [last EXCEPT ![p] = IF s = "CONT" THEN "CONT"
                                     ELSE IF Stops(s) THEN "STOP" ELSE @]
      /\ UNCHANGED <<callout, timedout, pc, call, found>>
  BY DEF Psignal, timer
<1>2. PICK st \in {"SRUN", "SSLEEP", "SSTOP", "SZOMB"},
           x \in {wchan[p], NoChan},
           left \in SUBSET Pending(siglist[p], s) :
        /\ stat' = [stat EXCEPT ![p] = st]
        /\ wchan' = [wchan EXCEPT ![p] = x]
        /\ siglist' = [siglist EXCEPT ![p] = left]
        /\ st = "SSTOP" => s # "CONT" /\ (stat[p] = "SSTOP" \/ Stops(s))
        /\ stat[p] = "SSTOP" /\ st # "SSTOP" => s = "CONT" \/ "KILL" \in left
  <2>1. SignalEffect(p, s)
    BY <1>0, PsignalEffect
  <2>. QED  BY <2>1 DEF SignalEffect
<1>3. left \in SUBSET Signals
  BY <1>0 DEF SQTypes, Pending
<1>4. SQTypes'
  BY <1>0, <1>1, <1>2, <1>3 DEF SQTypes
<1>5. Others(p)
  BY <1>0, <1>1, <1>2 DEF Others, SQTypes
<1>6. Good(p)'
  <2>1. /\ stat'[p] = st /\ wchan'[p] = x /\ siglist'[p] = left
        /\ last'[p] = IF s = "CONT" THEN "CONT"
                      ELSE IF Stops(s) THEN "STOP" ELSE last[p]
    BY <1>0, <1>1, <1>2 DEF SQTypes
  <2>2. st = "SSTOP" => last'[p] = "STOP"
    BY <1>0, <1>2, <2>1 DEF Good
  <2>3. ASSUME NEW t \in left, Stops(t) PROVE last'[p] = "STOP"
    <3>1. CASE t = s
      <4>1. s # "CONT"
        BY <2>3, <3>1 DEF Stops, StopSigs
      <4>. QED  BY <2>1, <2>3, <3>1, <4>1
    <3>2. CASE t # s
      <4>1. t \in siglist[p] /\ s # "CONT"
        BY <2>3, <3>2 DEF Pending, Stops
      <4>. QED  BY <1>0, <2>1, <2>3, <4>1 DEF Good
    <3>. QED  BY <3>1, <3>2
  <2>. QED  BY <1>0, <1>1, <2>1, <2>2, <2>3 DEF Good
<1>. QED  BY <1>4, <1>5, <1>6, OneProcess

(* What CheckThenSleep does to the process keeps the invariant when it is  *)
(* in a tsleep() to begin with, or starts one whose timeout it arms. *)
LEMMA CheckThenSleepInv ==
  ASSUME SQInv, NEW p \in Proc, stat[p] = "SRUN", NEW k \in Calls,
         NEW w \in Chan \cup {NoChan}, w = NoChan => wchan[p] = NoChan,
         NEW q, NEW list \in SUBSET siglist[p],
         CheckThenSleep(p, list, w, q, k),
         timedout' = timedout, last' = last,
         callout' = callout \/ (callout' = callout \cup {p} /\ k.timo),
         p \in callout => k.timo,
         p \in timedout => k.timo /\ w = NoChan /\ callout' = callout
  PROVE  SQInv'
<1>0. SQTypes /\ Good(p) /\ list \in SUBSET Signals
  BY InvIsGood DEF SQTypes
<1>1. PICK st \in {"SRUN", "SSLEEP", "SSTOP"},
           pl \in {"asleep", "stop1", "awake"},
           x \in {w, NoChan}, kk \in Calls, f \in Signals \cup {None} :
        /\ stat' = [stat EXCEPT ![p] = st]
        /\ pc' = [pc EXCEPT ![p] = pl]
        /\ wchan' = [wchan EXCEPT ![p] = x]
        /\ call' = [call EXCEPT ![p] = kk] /\ kk.timo = k.timo
        /\ found' = [found EXCEPT ![p] = f]
        /\ siglist' = [siglist EXCEPT ![p] = Swept(list)]
        /\ st = "SSTOP" => \E s \in list : Stops(s)
  <2>1. SleepEffect(p, list, w, k)
    BY <1>0, CheckThenSleepEffect
  <2>. QED  BY <2>1 DEF SleepEffect
<1>2. Swept(list) \subseteq siglist[p] /\ Swept(list) \subseteq Signals
  BY <1>0, SweptPart
<1>3. SQTypes'
  BY <1>0, <1>1, <1>2 DEF SQTypes, Places
<1>4. Others(p)
  BY <1>0, <1>1 DEF Others, SQTypes
<1>5. Good(p)'
  <2>1. /\ stat'[p] = st /\ pc'[p] = pl /\ wchan'[p] = x /\ call'[p] = kk
        /\ siglist'[p] = Swept(list)
    BY <1>0, <1>1 DEF SQTypes
  <2>2. st = "SSTOP" => last[p] = "STOP"
    BY <1>0, <1>1 DEF Good
  <2>3. \A s \in Swept(list) : Stops(s) => last[p] = "STOP"
    BY <1>0, <1>2 DEF Good
  <2>4. p \in callout' \/ p \in timedout' => kk.timo
    BY <1>1
  <2>5. ~(p \in callout' /\ p \in timedout')
    BY <1>0 DEF Good
  <2>6. p \in timedout' => x = NoChan
    BY <1>0
  <2>. QED  BY <2>1, <2>2, <2>3, <2>4, <2>5, <2>6 DEF Good
<1>. QED  BY <1>3, <1>4, <1>5, OneProcess

(* tsleep() arms a timeout when no older one is left.                      *)
LEMMA TSleepInv ==
  ASSUME SQInv, NEW p \in Proc, NEW c \in Chan,
         NEW k \in [catch : Catch, timo : Timo], TSleep(p, c, k)
  PROVE  SQInv'
<1>0. SQTypes /\ Good(p)
  BY InvIsGood
<1>1. /\ pc[p] = "run" /\ stat[p] = "SRUN" /\ k \in Calls
      /\ p \notin callout /\ p \notin timedout
      /\ callout' = IF k.timo THEN callout \cup {p} ELSE callout
      /\ timedout' = timedout /\ last' = last
  BY <1>0, CallAssumption DEF TSleep, Good, Calls
<1>2. CASE k.catch /\ CheckThenSleep(p, siglist[p], c, Enqueue(sleepq, p), k)
  <2>1. c # NoChan /\ siglist[p] \in SUBSET siglist[p]
    BY ChanAssumption
  <2>. QED  BY <1>0, <1>1, <1>2, <2>1, CheckThenSleepInv
<1>3. CASE /\ wchan' = [wchan EXCEPT ![p] = c]
           /\ stat' = [stat EXCEPT ![p] = "SSLEEP"]
           /\ pc' = [pc EXCEPT ![p] = "asleep"]
           /\ found' = [found EXCEPT ![p] = None]
           /\ call' = [call EXCEPT ![p] = k]
           /\ UNCHANGED <<sintr, siglist>>
  <2>1. SQTypes'
    BY <1>0, <1>1, <1>3 DEF SQTypes, Places
  <2>2. Others(p)
    BY <1>0, <1>1, <1>3 DEF Others, SQTypes
  <2>3. Good(p)'
    <3>1. stat'[p] = "SSLEEP" /\ pc'[p] = "asleep" /\ call'[p] = k
      BY <1>0, <1>3 DEF SQTypes
    <3>. QED  BY <1>0, <1>1, <1>3, <3>1 DEF Good
  <2>. QED  BY <2>1, <2>2, <2>3, OneProcess
<1>. QED  BY <1>2, <1>3 DEF TSleep

(* The first CURSIG of tsleep(), after a stop.                             *)
LEMMA ResumeFirstInv ==
  ASSUME SQInv, NEW p \in Proc, ResumeFirst(p) PROVE SQInv'
<1>0. SQTypes /\ Good(p)
  BY InvIsGood
<1>1. /\ stat[p] = "SRUN" /\ timedout' = timedout /\ callout' = callout
      /\ last' = last
      /\ CheckThenSleep(p, Taken(p), wchan[p], sleepq, call[p])
  BY DEF ResumeFirst, timer, ghost
<1>2. /\ wchan[p] \in Chan \cup {NoChan} /\ call[p] \in Calls
      /\ Taken(p) \in SUBSET siglist[p]
      /\ p \in callout => call[p].timo
      /\ p \in timedout => call[p].timo /\ wchan[p] = NoChan
  BY <1>0 DEF SQTypes, Taken, Good
<1>. QED  BY <1>1, <1>2, CheckThenSleepInv

(* A process that leaves tsleep(), or passes by user mode, keeps the       *)
(* invariant when its timeout is gone and its new state comes from signals *)
(* that were pending. *)
LEMMA LeaveInv ==
  ASSUME SQInv, NEW p \in Proc,
         NEW st \in {"SRUN", "SSTOP", "SZOMB"}, NEW pl \in Places,
         NEW f \in Signals \cup {None}, NEW left \in SUBSET siglist[p],
         stat' = [stat EXCEPT ![p] = st], pc' = [pc EXCEPT ![p] = pl],
         found' = [found EXCEPT ![p] = f],
         siglist' = [siglist EXCEPT ![p] = left],
         st = "SSTOP" => \E s \in siglist[p] : Stops(s),
         timedout' = timedout \ {p}, callout' = callout \ {p},
         UNCHANGED <<queue, call, last>>
  PROVE  SQInv'
<1>0. SQTypes /\ Good(p)
  BY InvIsGood
<1>1. wchan' = wchan /\ call' = call /\ last' = last
  BY DEF queue
<1>2. left \in SUBSET Signals
  BY <1>0 DEF SQTypes
<1>3. SQTypes'
  BY <1>0, <1>1, <1>2 DEF SQTypes
<1>4. Others(p)
  BY <1>0, <1>1 DEF Others, SQTypes
<1>5. Good(p)'
  <2>1. stat'[p] = st /\ siglist'[p] = left
    BY <1>0 DEF SQTypes
  <2>. QED  BY <1>0, <1>1, <2>1 DEF Good
<1>. QED  BY <1>3, <1>4, <1>5, OneProcess

(* Outside tsleep() there is no timeout. *)
LEMMA NoTimeout ==
  ASSUME SQInv, NEW p \in Proc, pc[p] \in {"run", "stop2", "stopu"}
  PROVE  timedout = timedout \ {p} /\ callout = callout \ {p}
BY InvIsGood DEF Good

(* The second CURSIG of tsleep(), when the timeout is disarmed.            *)
LEMMA CheckThenReturnInv ==
  ASSUME SQInv, NEW p \in Proc, stat[p] = "SRUN",
         NEW list \in SUBSET siglist[p], CheckThenReturn(p, list),
         timedout' = timedout \ {p}, callout' = callout \ {p},
         UNCHANGED <<queue, call, last>>
  PROVE  SQInv'
<1>0. SQTypes /\ list \in SUBSET Signals
  BY InvIsGood DEF SQTypes
<1>1. PICK st \in {"SRUN", "SSTOP"}, pl \in {"run", "stop2"},
           f \in Signals \cup {None} :
        /\ stat' = [stat EXCEPT ![p] = st]
        /\ pc' = [pc EXCEPT ![p] = pl]
        /\ found' = [found EXCEPT ![p] = f]
        /\ siglist' = [siglist EXCEPT ![p] = Swept(list)]
        /\ st = "SSTOP" => \E s \in list : Stops(s)
  <2>1. ReturnEffect(p, list)
    BY <1>0, CheckThenReturnEffect
  <2>. QED  BY <2>1 DEF ReturnEffect
<1>2. Swept(list) \in SUBSET siglist[p] /\ pl \in Places
  BY SweptPart DEF Places
<1>. QED  BY <1>1, <1>2, LeaveInv

(* tsleep() from resume: on disarms the timeout.                           *)
LEMMA FinishInv ==
  ASSUME SQInv, NEW p \in Proc, Finish(p) PROVE SQInv'
<1>0. SQTypes /\ Good(p)
  BY InvIsGood
<1>1. /\ stat[p] = "SRUN"
      /\ timedout' = timedout \ {p} /\ callout' = callout \ {p}
      /\ UNCHANGED <<queue, call, last>>
  BY <1>0 DEF Finish, Disarm, Good, ghost
<1>2. CASE (\E r \in Results : Return(p, r)) /\ UNCHANGED siglist
  <2>1. /\ stat' = [stat EXCEPT ![p] = "SRUN"]
        /\ pc' = [pc EXCEPT ![p] = "run"] /\ "run" \in Places
        /\ found' = [found EXCEPT ![p] = None]
        /\ siglist' = [siglist EXCEPT ![p] = siglist[p]]
        /\ siglist[p] \in SUBSET siglist[p]
    BY <1>0, <1>1, <1>2 DEF Return, SQTypes, Places
  <2>. QED  BY <1>1, <2>1, LeaveInv
<1>3. CASE CheckThenReturn(p, siglist[p])
  BY <1>1, <1>3, CheckThenReturnInv
<1>. QED  BY <1>2, <1>3 DEF Finish, Results

(* The second CURSIG of tsleep(), after a stop.                            *)
LEMMA ResumeSecondInv ==
  ASSUME SQInv, NEW p \in Proc, ResumeSecond(p) PROVE SQInv'
<1>1. /\ stat[p] = "SRUN" /\ pc[p] = "stop2"
      /\ timedout' = timedout /\ callout' = callout
      /\ UNCHANGED <<queue, call, last>> /\ CheckThenReturn(p, Taken(p))
  BY DEF ResumeSecond, timer, ghost
<1>2. Taken(p) \in SUBSET siglist[p]
  BY DEF Taken
<1>. QED  BY <1>1, <1>2, NoTimeout, CheckThenReturnInv

(* userret() stops a process only for a stop that was pending.             *)
LEMMA DeliverInv ==
  ASSUME SQInv, NEW p \in Proc, stat[p] = "SRUN",
         pc[p] \in {"run", "stopu"},
         NEW list \in SUBSET siglist[p], Deliver(p, list)
  PROVE  SQInv'
<1>0. SQTypes /\ list \in SUBSET Signals
  BY InvIsGood DEF SQTypes
<1>1. PICK st \in {"SRUN", "SSTOP", "SZOMB"}, pl \in {"run", "stopu"},
           f \in Signals \cup {None}, left \in SUBSET list :
        /\ stat' = [stat EXCEPT ![p] = st]
        /\ pc' = [pc EXCEPT ![p] = pl]
        /\ found' = [found EXCEPT ![p] = f]
        /\ siglist' = [siglist EXCEPT ![p] = left]
        /\ st = "SSTOP" => \E s \in list : Stops(s)
  <2>1. UserEffect(p, list)
    BY <1>0, DeliverEffect
  <2>. QED  BY <2>1 DEF UserEffect
<1>2. /\ left \in SUBSET siglist[p] /\ pl \in Places
      /\ timedout' = timedout \ {p} /\ callout' = callout \ {p}
      /\ UNCHANGED <<queue, call, last>>
  BY NoTimeout DEF Deliver, Places, timer, ghost
<1>. QED  BY <1>1, <1>2, LeaveInv

(* Every step keeps the invariant.                                         *)
LEMMA NextInv == SQInv /\ [Next]_vars => SQInv'
<1> SUFFICES ASSUME SQInv, [Next]_vars PROVE SQInv'
  OBVIOUS
<1>1. CASE UNCHANGED vars
  BY <1>1 DEF vars, SQInv, SQTypes, TimeoutSound, PendingStops,
              StoppedOnlyIfAsked
<1>2. ASSUME NEW p \in Proc, ToUser(p) PROVE SQInv'
  BY <1>2, DeliverInv DEF ToUser
<1>3. ASSUME NEW p \in Proc, ResumeUser(p) PROVE SQInv'
  BY <1>3, DeliverInv DEF ResumeUser, Taken
<1>. QED  BY <1>1, <1>2, <1>3, WakeupInv, TSleepInv, PsignalInv, EndtsleepInv,
             FinishInv, ResumeFirstInv, ResumeSecondInv DEF Next

-----------------------------------------------------------------------------
(* The chain.                                                              *)

(* A chain without repetition, with sq_tailp where it should be.           *)
ChainSound(q) ==
  /\ q \in [list : Seq(Proc), tail : Proc \cup {None}]
  /\ IsInjective(q.list)
  /\ q.tail = IF q.list = <<>> THEN None ELSE Last(q.list)

(* tsleep(): a process that goes behind the one sq_tailp points into goes  *)
(* behind all others, and nobody is lost.                                  *)
LEMMA Enqueued ==
  ASSUME NEW q, ChainSound(q), NEW p \in Proc, p \notin ToSet(q.list)
  PROVE  /\ ChainSound(Enqueue(q, p))
         /\ ToSet(Enqueue(q, p).list) = ToSet(q.list) \cup {p}
<1> DEFINE s == q.list
           behind == {i \in DOMAIN s : s[i] = q.tail}
<1>1. s \in Seq(Proc) /\ IsInjective(s)
  BY DEF ChainSound
<1>2. Enqueue(q, p).list = Append(s, p) /\ Enqueue(q, p).tail = p
  <2>1. CASE s = <<>>
    BY <2>1 DEF Enqueue
  <2>2. CASE s # <<>>
    <3>1. /\ Len(s) \in 1..Len(s) /\ DOMAIN s = 1..Len(s)
          /\ q.tail = s[Len(s)]
      BY <1>1, <2>2 DEF ChainSound, Last
    <3>2. behind = {Len(s)}
      BY <1>1, <3>1 DEF IsInjective
    <3>3. Max({Len(s)}) = Len(s)
      <4>1. (CHOOSE x \in {Len(s)} : \A y \in {Len(s)} : x >= y) \in {Len(s)}
        BY <3>1
      <4>. QED  BY <4>1 DEF Max
    <3>4. SubSeq(s, 1, Len(s)) = s
      BY <1>1
    <3> HIDE DEF behind
    <3>5. Enqueue(q, p).list = IF behind = {} THEN s
                               ELSE Append(SubSeq(s, 1, Max(behind)), p)
      BY <2>2, Zenon DEF Enqueue, behind
    <3>. QED  BY <3>2, <3>3, <3>4, <3>5 DEF Enqueue
  <2>. QED  BY <2>1, <2>2
<1>3. /\ Append(s, p) \in Seq(Proc) /\ IsInjective(Append(s, p))
      /\ ToSet(Append(s, p)) = ToSet(s) \cup {p}
  BY <1>1, AddLast
<1>4. Last(Append(s, p)) = p /\ Append(s, p) # <<>>
  BY <1>1 DEF Last
<1>5. Enqueue(q, p) = [list |-> Append(s, p), tail |-> p]
  BY <1>2 DEF Enqueue
<1> HIDE DEF s
<1>6. /\ Enqueue(q, p) \in [list : Seq(Proc), tail : Proc \cup {None}]
      /\ Enqueue(q, p).list = Append(s, p) /\ Enqueue(q, p).tail = p
  BY <1>3, <1>5
<1>. QED  BY <1>3, <1>4, <1>6 DEF ChainSound, s

(* unsleep(): what it takes off the chain is just the process, and when    *)
(* that was the last, sq_tailp moves to the one before it.                 *)
LEMMA Dequeued ==
  ASSUME NEW q, ChainSound(q), NEW p \in ToSet(q.list)
  PROVE  /\ ChainSound(Dequeue(q, p))
         /\ ToSet(Dequeue(q, p).list) = ToSet(q.list) \ {p}
<1> DEFINE s == q.list
           t == RemoveFirst(s, p)
           n == Len(s)
<1>1. /\ s \in Seq(Proc) /\ IsInjective(s) /\ q.tail \in Proc \cup {None}
      /\ DOMAIN s = 1..n /\ n \in Nat
  BY DEF ChainSound
<1>2. PICK k \in 1..n : s[k] = p
  BY <1>1 DEF ToSet
<1>0. n \in Nat /\ k \in Nat /\ 1 <= k /\ k <= n
  BY <1>1
<1>3. /\ t \in Seq(Proc) /\ IsInjective(t) /\ ToSet(t) = ToSet(s) \ {p}
  BY <1>1, RemoveOne
<1>4. /\ t = RemoveAt(s, k)
      /\ Len(t) = n - 1
      /\ \A i \in 1..(n - 1) : t[i] = IF i < k THEN s[i] ELSE s[i + 1]
  <2>1. t = RemoveAt(s, k)
    BY <1>1, <1>2, RemovedFirst
  <2>. QED  BY <1>1, <2>1, RemovedAt
<1>5. SelectInSeq(s, LAMBDA r : r = p) = k
  <2> DEFINE I == {i \in 1..n : s[i] = p}
  <2>1. I # {} /\ Min(I) = k
    BY <1>1, <1>2, FoundAt
  <2>2. SelectInSeq(s, LAMBDA r : r = p) = IF I # {} THEN Min(I) ELSE 0
    BY Zenon DEF SelectInSeq
  <2> HIDE DEF I
  <2>. QED  BY <2>1, <2>2
<1>6. q.tail = s[n] /\ n \in 1..n
  BY <1>1, <1>2 DEF ChainSound, Last
<1> DEFINE x == IF q.tail # p THEN q.tail ELSE IF k = 1 THEN None ELSE s[k - 1]
<1>7. Dequeue(q, p) = [list |-> t, tail |-> x]
  BY <1>5, Zenon DEF Dequeue
<1>8. q.tail = p <=> k = n
  BY <1>1, <1>2, <1>6 DEF IsInjective
<1> HIDE DEF s, t
<1>9. x = IF t = <<>> THEN None ELSE t[Len(t)]
  <2>1. t = <<>> <=> n = 1
    BY <1>1, <1>3, <1>4, <1>6
  <2>2. CASE n = 1
    BY <1>2, <1>8, <2>1, <2>2
  <2>3. CASE n # 1 /\ k = n
    <3>1. n - 1 \in 1..(n - 1) /\ n - 1 < k /\ k # 1
      BY <1>1, <1>6, <2>3
    <3>2. t[n - 1] = s[n - 1]
      BY <1>4, <3>1
    <3>. QED  BY <1>4, <1>8, <2>1, <2>3, <3>1, <3>2
  <2>4. CASE n # 1 /\ k # n
    <3>1. n - 1 \in 1..(n - 1) /\ ~(n - 1 < k) /\ (n - 1) + 1 = n
      <4> HIDE DEF n
      <4>. QED  BY <1>0, <2>4
    <3>2. t[n - 1] = s[n]
      BY <1>4, <3>1
    <3>. QED  BY <1>4, <1>6, <1>8, <2>1, <2>4, <3>2
  <2>. QED  BY <2>2, <2>3, <2>4
<1>10. x \in Proc \cup {None}
  BY <1>1, <1>2
<1> HIDE DEF x
<1>11. /\ Dequeue(q, p) \in [list : Seq(Proc), tail : Proc \cup {None}]
       /\ Dequeue(q, p).list = t /\ Dequeue(q, p).tail = x
  BY <1>3, <1>7, <1>10
<1>. QED  BY <1>3, <1>9, <1>11 DEF ChainSound, Last, s

(* The walk along the chain takes the processes in waiting off it and no   *)
(* others, and sq_tailp follows.                                           *)
LEMMA Walked ==
  ASSUME NEW W, ChainSound(sleepq)
  PROVE  /\ ChainSound(Walk(W))
         /\ ToSet(Walk(W).list) = ToSet(sleepq.list) \ W
<1> DEFINE l == sleepq.list
           n == Len(l)
           Pass(r, s) == LET i == Max(s)
                         IN  IF l[i] \in W THEN Dequeue(r[s \ {i}], l[i])
                             ELSE r[s \ {i}]
           Passed(r, s) == IF s = {} THEN sleepq ELSE Pass(r, s)
           Passes(r, D) == r = [s \in D |-> Passed(r, s)]
<1>1. /\ l \in Seq(Proc) /\ IsInjective(l) /\ DOMAIN l = 1..n /\ n \in Nat
  BY DEF ChainSound
<1>2. Walk(W) = (CHOOSE r : Passes(r, SUBSET (1..n)))[1..n]
  BY <1>1, Zenon DEF Walk, FoldLeft, MapThenFoldSet
<1>3. \E r : Passes(r, SUBSET (1..n))
  <2> DEFINE X == {k \in Nat : \E r : Passes(r, SUBSET (1..k))}
  <2>1. 0 \in X
    <3> DEFINE r == [s \in SUBSET (1..0) |-> sleepq]
    <3>1. \A s \in SUBSET (1..0) : s = {}
      OBVIOUS
    <3>2. \A s \in SUBSET (1..0) : Passed(r, s) = sleepq
      BY <3>1
    <3> HIDE DEF Passed
    <3>3. Passes(r, SUBSET (1..0))
      BY <3>2
    <3>. QED  BY <3>3
  <2>2. ASSUME NEW k \in Nat, k \in X PROVE k + 1 \in X
    <3>1. PICK old : Passes(old, SUBSET (1..k))
      BY <2>2
    <3> DEFINE r == [s \in SUBSET (1..(k + 1)) |-> Passed(old, s)]
    <3>2. \A s \in SUBSET (1..k) : s \in SUBSET (1..(k + 1))
      OBVIOUS
    <3>3. \A s \in SUBSET (1..k) : r[s] = old[s]
      <4> HIDE DEF Passed
      <4>. QED  BY <3>1, <3>2
    <3>4. ASSUME NEW s \in SUBSET (1..(k + 1)), s # {}
          PROVE  s \ {Max(s)} \in SUBSET (1..k)
      <4>1. CASE k + 1 \in s
        <5>1. Max(s) = k + 1
          BY <4>1, TopIsMax
        <5>. QED  BY <5>1
      <4>2. CASE k + 1 \notin s
        <5>1. \A i \in 1..(k + 1) : i # k + 1 => i \in 1..k
          OBVIOUS
        <5>2. s \in SUBSET (1..k)
          BY <4>2, <5>1
        <5>. QED  BY <5>2
      <4>. QED  BY <4>1, <4>2
    <3>5. ASSUME NEW s \in SUBSET (1..(k + 1))
          PROVE  Passed(r, s) = Passed(old, s)
      <4>1. CASE s = {}
        BY <4>1
      <4>2. CASE s # {}
        <5>1. r[s \ {Max(s)}] = old[s \ {Max(s)}]
          BY <4>2, <3>3, <3>4
        <5> HIDE DEF r
        <5>. QED  BY <4>2, <5>1
      <4>. QED  BY <4>1, <4>2
    <3> HIDE DEF Passed
    <3>6. r = [s \in SUBSET (1..(k + 1)) |-> Passed(r, s)]
      BY <3>5
    <3> HIDE DEF r
    <3>7. \E u : Passes(u, SUBSET (1..(k + 1)))
      BY <3>6
    <3>. QED  BY <3>7
  <2>3. n \in X
    <3>1. Nat \subseteq X
      <4> HIDE DEF X
      <4>. QED  BY <2>1, <2>2, EveryNumber
    <3>. QED  BY <1>1, <3>1
  <2>. QED  BY <2>3
<1>4. PICK r : Passes(r, SUBSET (1..n)) /\ Walk(W) = r[1..n]
  <2> HIDE DEF Passes
  <2>. QED  BY <1>2, <1>3
<1> DEFINE Seen(k) == {l[i] : i \in 1..k}
           Good0(k) == /\ ChainSound(r[1..k])
                       /\ ToSet(r[1..k].list) = ToSet(l) \ (W \cap Seen(k))
           Y == {k \in Nat : k <= n => Good0(k)}
<1>5. \A s \in SUBSET (1..n) : r[s] = Passed(r, s)
  <2> HIDE DEF Passed
  <2>. QED  BY <1>4
<1>6. 0 \in Y
  <2>1. 1..0 = {} /\ 1..0 \in SUBSET (1..n)
    BY <1>1
  <2>2. r[1..0] = sleepq
    BY <1>5, <2>1
  <2>3. Seen(0) = {}
    OBVIOUS
  <2> HIDE DEF Seen
  <2>. QED  BY <2>2, <2>3
<1>7. ASSUME NEW k \in Nat, k \in Y PROVE k + 1 \in Y
  <2> SUFFICES ASSUME k + 1 <= n PROVE Good0(k + 1)
    OBVIOUS
  <2>1. Good0(k)
    BY <1>1, <1>7
  <2> DEFINE i == k + 1
  <2>2. /\ i \in 1..n /\ 1..i \in SUBSET (1..n) /\ 1..i # {}
        /\ (1..i) \ {i} = 1..k
    <3>1. n \in Nat
      BY <1>1
    <3> HIDE DEF n
    <3>2. i \in 1..n /\ i \in 1..i
      BY <3>1
    <3>3. \A j \in 1..i : j \in 1..n
      BY <3>1, <3>2
    <3>4. \A j : j \in 1..k <=> j \in 1..i /\ j # i
      OBVIOUS
    <3>. QED  BY <3>2, <3>3, <3>4
  <2>3. Max(1..i) = i
    BY TopIsMax
  <2>4. r[1..i] = IF l[i] \in W THEN Dequeue(r[1..k], l[i]) ELSE r[1..k]
    <3> HIDE DEF i
    <3>. QED  BY <1>5, <2>2, <2>3
  <2>5. Seen(i) = Seen(k) \cup {l[i]}
    OBVIOUS
  <2>6. l[i] \in ToSet(l) /\ l[i] \notin Seen(k)
    BY <1>1, <2>2 DEF IsInjective, ToSet
  <2> HIDE DEF i, Seen
  <2>7. CASE l[i] \in W
    <3>1. l[i] \in ToSet(r[1..k].list)
      BY <2>1, <2>6
    <3>2. /\ ChainSound(Dequeue(r[1..k], l[i]))
          /\ ToSet(Dequeue(r[1..k], l[i]).list) = ToSet(r[1..k].list) \ {l[i]}
      BY <2>1, <3>1, Dequeued
    <3>. QED  BY <2>1, <2>4, <2>5, <2>7, <3>2 DEF i
  <2>8. CASE l[i] \notin W
    BY <2>1, <2>4, <2>5, <2>8 DEF i
  <2>. QED  BY <2>7, <2>8
<1>8. Good0(n)
  <2>1. Nat \subseteq Y
    <3> HIDE DEF Y
    <3>. QED  BY <1>6, <1>7, EveryNumber
  <2>. QED  BY <1>1, <2>1
<1>9. Seen(n) = ToSet(l)
  BY <1>1 DEF ToSet
<1> HIDE DEF Seen
<1>10. ToSet(l) \ (W \cap Seen(n)) = ToSet(l) \ W
  BY <1>9
<1>. QED  BY <1>4, <1>8, <1>10

-----------------------------------------------------------------------------
(* The chain and the wait channels.                                        *)

(* QueueSound without the types: the chain is sound, it holds just those   *)
(* that wait, and they are asleep or stopped.                              *)
Linked ==
  /\ ChainSound(sleepq)
  /\ ToSet(sleepq.list) = {p \in Proc : wchan[p] # NoChan}
  /\ \A p \in Proc : wchan[p] # NoChan => stat[p] \in {"SSLEEP", "SSTOP"}
  /\ \A p \in Proc : stat[p] = "SSLEEP" => wchan[p] # NoChan

(* The chain with p on it if p waits for x, and off it otherwise.          *)
Moved(p, x) ==
  /\ ChainSound(sleepq')
  /\ ToSet(sleepq'.list) = IF x = NoChan THEN ToSet(sleepq.list) \ {p}
                           ELSE ToSet(sleepq.list) \cup {p}

(* A process that waits, asleep or stopped, is put on the chain; one that  *)
(* waits for nothing any more is taken off it, and is not asleep. *)
LEMMA OneMoved ==
  ASSUME SQTypes, Linked, NEW p \in Proc, NEW x \in Chan \cup {NoChan},
         NEW st \in {"SRUN", "SSLEEP", "SSTOP", "SZOMB"},
         wchan' = [wchan EXCEPT ![p] = x], stat' = [stat EXCEPT ![p] = st],
         Moved(p, x),
         x # NoChan => st \in {"SSLEEP", "SSTOP"},
         st = "SSLEEP" => x # NoChan
  PROVE  Linked'
<1>1. /\ wchan'[p] = x /\ stat'[p] = st
      /\ \A q \in Proc \ {p} : wchan'[q] = wchan[q] /\ stat'[q] = stat[q]
  BY DEF SQTypes
<1>2. ToSet(sleepq'.list) = {q \in Proc : wchan'[q] # NoChan}
  BY <1>1 DEF Linked, Moved
<1>. QED  BY <1>1, <1>2 DEF Linked, Moved

(* The chain as it was is right for a process that goes on waiting, or on  *)
(* not waiting. *)
LEMMA NotMoved ==
  ASSUME SQTypes, Linked, NEW p \in Proc, sleepq' = sleepq
  PROVE  Moved(p, wchan[p])
<1>1. p \in ToSet(sleepq.list) <=> wchan[p] # NoChan
  BY DEF Linked
<1>2. ChainSound(sleepq')
  BY DEF Linked
<1>. QED  BY <1>1, <1>2 DEF Moved

(* unsleep() takes a process off the chain if it is on it. *)
LEMMA UnsleepMoves ==
  ASSUME SQTypes, Linked, NEW p \in Proc, Unsleep(p)
  PROVE  Moved(p, NoChan)
<1>1. CASE wchan[p] # NoChan
  <2>1. p \in ToSet(sleepq.list) /\ ChainSound(sleepq)
    BY <1>1 DEF Linked
  <2>2. sleepq' = Dequeue(sleepq, p)
    BY <1>1 DEF Unsleep
  <2>. QED  BY <2>1, <2>2, Dequeued DEF Moved
<1>2. CASE wchan[p] = NoChan
  BY <1>2, NotMoved DEF Unsleep, queue
<1>. QED  BY <1>1, <1>2

(* setrunnable(): the process is off the chain and not asleep. *)
LEMMA SetrunnableLinked ==
  ASSUME SQTypes, Linked, NEW p \in Proc, Setrunnable(p) PROVE Linked'
<1>1. Moved(p, NoChan)
  BY UnsleepMoves DEF Setrunnable
<1>2. NoChan \in Chan \cup {NoChan}
  OBVIOUS
<1>. QED  BY <1>1, <1>2, SetrunnableRuns, OneMoved

(* A process that is off the chain may do anything but sleep. *)
LEMMA StaysOff ==
  ASSUME SQTypes, Linked, NEW p \in Proc, stat[p] = "SRUN",
         NEW st \in {"SRUN", "SSTOP", "SZOMB"},
         stat' = [stat EXCEPT ![p] = st], UNCHANGED queue
  PROVE  Linked'
<1>1. wchan[p] = NoChan /\ sleepq' = sleepq
  BY DEF Linked, queue
<1>2. wchan' = [wchan EXCEPT ![p] = NoChan]
  BY <1>1 DEF queue, SQTypes
<1>3. Moved(p, NoChan)
  BY <1>1, NotMoved
<1>4. NoChan \in Chan \cup {NoChan}
  OBVIOUS
<1>. QED  BY <1>2, <1>3, <1>4, OneMoved

(* wakeup(): those that wait for c leave the chain, and those asleep run. *)
LEMMA WakeupLinked ==
  ASSUME SQTypes, Linked, NEW c \in Chan, Wakeup(c) PROVE Linked'
<1> DEFINE w == {p \in ToSet(sleepq.list) : wchan[p] = c}
<1>1. /\ wchan' = [p \in Proc |-> IF p \in w THEN NoChan ELSE wchan[p]]
      /\ stat' = [p \in Proc |-> IF p \in w /\ stat[p] = "SSLEEP"
                                 THEN "SRUN" ELSE stat[p]]
      /\ sleepq' = Walk(w)
  BY DEF Wakeup
<1> HIDE DEF w
<1>2. ChainSound(sleepq') /\ ToSet(sleepq'.list) = ToSet(sleepq.list) \ w
  BY <1>1, Walked DEF Linked
<1>3. ToSet(sleepq'.list) = {p \in Proc : wchan'[p] # NoChan}
  BY <1>1, <1>2 DEF Linked
<1>4. ASSUME NEW p \in Proc
      PROVE  /\ wchan'[p] # NoChan => stat'[p] \in {"SSLEEP", "SSTOP"}
             /\ stat'[p] = "SSLEEP" => wchan'[p] # NoChan
  <2>1. CASE p \in w
    BY <1>1, <2>1 DEF SQTypes
  <2>2. CASE p \notin w
    BY <1>1, <2>2 DEF Linked
  <2>. QED  BY <2>1, <2>2
<1>. QED  BY <1>2, <1>3, <1>4 DEF Linked

(* endtsleep(): a process that still waits leaves the chain. *)
LEMMA EndtsleepLinked ==
  ASSUME SQTypes, Linked, NEW p \in Proc, Endtsleep(p) PROVE Linked'
<1>1. CASE UNCHANGED <<stat, queue>>
  BY <1>1 DEF Linked, queue
<1>2. CASE Rouse(p)
  <2>1. CASE stat[p] = "SSLEEP"
    BY <1>2, <2>1, SetrunnableLinked DEF Rouse
  <2>2. CASE stat[p] # "SSLEEP"
    <3>1. Unsleep(p) /\ stat' = stat
      BY <1>2, <2>2 DEF Rouse
    <3>2. Moved(p, NoChan) /\ wchan' = [wchan EXCEPT ![p] = NoChan]
      BY <3>1, UnsleepMoves, UnsleepWaits
    <3>3. /\ stat' = [stat EXCEPT ![p] = stat[p]]
          /\ stat[p] \in {"SRUN", "SSTOP", "SZOMB"}
          /\ NoChan \in Chan \cup {NoChan}
      BY <2>2, <3>1 DEF SQTypes
    <3>. QED  BY <3>2, <3>3, OneMoved
  <2>. QED  BY <2>1, <2>2
<1>. QED  BY <1>1, <1>2 DEF Endtsleep

(* psignal(): a sleeper that it stops, and a stopped process that it puts  *)
(* back to sleep, stay on the chain; one that it makes run, or whose       *)
(* wakeup it simulates, leaves it. *)
LEMMA PsignalLinked ==
  ASSUME SQTypes, Linked, NEW p \in Proc, NEW s \in Signals, Psignal(p, s)
  PROVE  Linked'
<1> DEFINE list == Pending(siglist[p], s)
<1>1. CASE UNCHANGED <<stat, queue>>
  BY <1>1 DEF Linked, queue
<1>2. CASE Setrunnable(p)
  BY <1>2, SetrunnableLinked
<1>3. ASSUME NEW st \in {"SSLEEP", "SSTOP"},
             wchan[p] # NoChan, UNCHANGED queue,
             stat' = [stat EXCEPT ![p] = st]
      PROVE  Linked'
  <2>1. wchan' = [wchan EXCEPT ![p] = wchan[p]] /\ sleepq' = sleepq
    BY <1>3 DEF queue, SQTypes
  <2>2. Moved(p, wchan[p]) /\ wchan[p] \in Chan \cup {NoChan}
    BY <2>1, NotMoved DEF SQTypes
  <2>. QED  BY <1>3, <2>1, <2>2, OneMoved
<1>4. CASE stat[p] = "SSTOP" /\ Unsleep(p) /\ stat' = stat
  <2>1. Moved(p, NoChan) /\ wchan' = [wchan EXCEPT ![p] = NoChan]
    BY <1>4, UnsleepMoves, UnsleepWaits
  <2>2. stat' = [stat EXCEPT ![p] = "SSTOP"] /\ NoChan \in Chan \cup {NoChan}
    BY <1>4 DEF SQTypes
  <2>. QED  BY <2>1, <2>2, OneMoved
<1>5. CASE stat[p] = "SSLEEP" /\ SignalSleeper(p, s, list)
  <2>1. wchan[p] # NoChan
    BY <1>5 DEF Linked
  <2>. QED  BY <1>1, <1>2, <1>3, <1>5, <2>1 DEF SignalSleeper
<1>6. CASE stat[p] = "SSTOP" /\ SignalStopped(p, s, list)
  <2>1. CASE Continue(p, s)
    BY <1>2, <1>3, <2>1 DEF Continue
  <2>2. CASE SimulateWakeup(p) /\ UNCHANGED stat
    BY <1>1, <1>4, <1>6, <2>2 DEF SimulateWakeup
  <2>. QED  BY <1>1, <1>2, <1>6, <2>1, <2>2 DEF SignalStopped
<1>. QED  BY <1>1, <1>5, <1>6 DEF Psignal

(* tsleep() up to the switch: the process is on the chain when it sleeps   *)
(* or is stopped before it could, and off it when it has a signal to take. *)
LEMMA CheckThenSleepLinked ==
  ASSUME SQTypes, Linked, NEW p \in Proc, stat[p] = "SRUN",
         NEW list, NEW w \in Chan \cup {NoChan}, NEW q, NEW k,
         ChainSound(q),
         ToSet(q.list) = IF w = NoChan THEN ToSet(sleepq.list) \ {p}
                         ELSE ToSet(sleepq.list) \cup {p},
         CheckThenSleep(p, list, w, q, k)
  PROVE  Linked'
<1> DEFINE s == First(list)
<1>1. CASE s # None /\ Stops(s)
  <2>1. /\ sleepq' = q /\ wchan' = [wchan EXCEPT ![p] = w]
        /\ stat' = [stat EXCEPT ![p] = "SSTOP"]
    BY <1>1 DEF CheckThenSleep, StopFor
  <2>2. Moved(p, w)
    BY <2>1 DEF Moved
  <2>. QED  BY <2>1, <2>2, OneMoved
<1>2. CASE s # None /\ ~Stops(s)
  <2>1. /\ sleepq' = IF w = NoChan THEN q ELSE Dequeue(q, p)
        /\ wchan' = [wchan EXCEPT ![p] = NoChan]
        /\ stat' = [stat EXCEPT ![p] = "SRUN"]
    BY <1>2 DEF CheckThenSleep
  <2>2. Moved(p, NoChan)
    <3>1. CASE w = NoChan
      BY <2>1, <3>1 DEF Moved
    <3>2. CASE w # NoChan
      <4>1. p \in ToSet(q.list)
        BY <3>2
      <4>2. /\ ChainSound(Dequeue(q, p))
            /\ ToSet(Dequeue(q, p).list) = ToSet(q.list) \ {p}
        BY <4>1, Dequeued
      <4>3. sleepq' = Dequeue(q, p)
        BY <2>1, <3>2
      <4>. QED  BY <3>2, <4>2, <4>3 DEF Moved
    <3>. QED  BY <3>1, <3>2
  <2>3. NoChan \in Chan \cup {NoChan}
    OBVIOUS
  <2>. QED  BY <2>1, <2>2, <2>3, OneMoved
<1>3. CASE s = None /\ w = NoChan
  <2>1. UNCHANGED <<stat, queue>>
    BY <1>3 DEF CheckThenSleep
  <2>. QED  BY <2>1 DEF Linked, queue
<1>4. CASE s = None /\ w # NoChan
  <2>1. /\ sleepq' = q /\ wchan' = [wchan EXCEPT ![p] = w]
        /\ stat' = [stat EXCEPT ![p] = "SSLEEP"]
    BY <1>4 DEF CheckThenSleep
  <2>2. Moved(p, w)
    BY <2>1 DEF Moved
  <2>. QED  BY <1>4, <2>1, <2>2, OneMoved
<1>. QED  BY <1>1, <1>2, <1>3, <1>4

(* tsleep() puts the process behind all others.                            *)
LEMMA TSleepLinked ==
  ASSUME SQTypes, Linked, NEW p \in Proc, NEW c \in Chan, NEW k,
         TSleep(p, c, k)
  PROVE  Linked'
<1>1. /\ stat[p] = "SRUN" /\ p \notin ToSet(sleepq.list) /\ c # NoChan
      /\ ChainSound(sleepq)
  BY ChanAssumption DEF TSleep, Linked
<1> DEFINE q == Enqueue(sleepq, p)
<1>2. ChainSound(q) /\ ToSet(q.list) = ToSet(sleepq.list) \cup {p}
  BY <1>1, Enqueued
<1> HIDE DEF q
<1>3. CASE CheckThenSleep(p, siglist[p], c, q, k)
  BY <1>1, <1>2, <1>3, CheckThenSleepLinked
<1>4. CASE /\ sleepq' = q /\ wchan' = [wchan EXCEPT ![p] = c]
           /\ stat' = [stat EXCEPT ![p] = "SSLEEP"]
  <2>1. Moved(p, c)
    BY <1>1, <1>2, <1>4 DEF Moved
  <2>. QED  BY <1>1, <1>4, <2>1, OneMoved
<1>. QED  BY <1>3, <1>4 DEF TSleep, q

(* A process that runs again after its first CURSIG stopped it has left    *)
(* the chain.                                                              *)
LEMMA ResumeFirstLinked ==
  ASSUME SQTypes, Linked, NEW p \in Proc, ResumeFirst(p) PROVE Linked'
<1>1. /\ stat[p] = "SRUN"
      /\ CheckThenSleep(p, Taken(p), wchan[p], sleepq, call[p])
  BY DEF ResumeFirst
<1>2. wchan[p] = NoChan /\ p \notin ToSet(sleepq.list) /\ ChainSound(sleepq)
  BY <1>1 DEF Linked
<1>3. ToSet(sleepq.list) = ToSet(sleepq.list) \ {p}
  BY <1>2
<1>. QED  BY <1>1, <1>2, <1>3, CheckThenSleepLinked

(* What tsleep() does after the switch, and userret(), leave the chain     *)
(* alone, and put nobody to sleep. *)
LEMMA RestLinked ==
  ASSUME SQTypes, Linked, NEW p \in Proc,
         Finish(p) \/ ResumeSecond(p) \/ ToUser(p) \/ ResumeUser(p)
  PROVE  Linked'
<1>1. stat[p] = "SRUN" /\ UNCHANGED queue
  BY DEF Finish, ResumeSecond, ToUser, ResumeUser, Deliver
<1>2. \/ stat' = stat \/ stat' = [stat EXCEPT ![p] = "SSTOP"]
      \/ stat' = [stat EXCEPT ![p] = "SZOMB"]
  BY DEF Finish, ResumeSecond, ToUser, ResumeUser, Deliver, CheckThenReturn,
         Return, StopFor
<1>3. stat = [stat EXCEPT ![p] = "SRUN"]
  BY <1>1 DEF SQTypes
<1>. QED  BY <1>1, <1>2, <1>3, StaysOff

(* The types of what SQTypes leaves out. *)
RestTypes ==
  sintr \subseteq Proc /\ woken \subseteq Proc /\ ret \in [Proc -> Results]

(* The chain is empty at first.                                            *)
LEMMA LinkedInit == Init => Linked /\ RestTypes
<1> SUFFICES ASSUME Init PROVE Linked /\ RestTypes
  OBVIOUS
<1>1. ToSet(sleepq.list) = {} /\ IsInjective(sleepq.list)
  BY DEF Init, ToSet, IsInjective
<1>. QED  BY <1>1 DEF Init, Linked, ChainSound, RestTypes, Results

(* The variables that are in neither SQTypes nor the chain keep their      *)
(* types. *)
LEMMA RestTyped ==
  ASSUME Linked, RestTypes, [Next]_vars PROVE RestTypes'
<1>1. /\ "0" \in Results /\ "EINTR" \in Results /\ "none" \in Results
      /\ "EWOULDBLOCK" \in Results
  BY DEF Results
<1>2. ASSUME NEW c \in Chan, Wakeup(c) PROVE RestTypes'
  <2>1. woken' \subseteq woken \cup ToSet(sleepq.list)
    BY <1>2 DEF Wakeup
  <2>2. ToSet(sleepq.list) \subseteq Proc
    BY DEF Linked
  <2>. QED  BY <1>2, <2>1, <2>2 DEF Wakeup, RestTypes
<1>3. ASSUME NEW p \in Proc, NEW list, CheckThenReturn(p, list)
      PROVE  ret' \in [Proc -> Results]
  BY <1>1, <1>3 DEF CheckThenReturn, Return, RestTypes
<1>4. ASSUME NEW p \in Proc, NEW c \in Chan,
             NEW k \in [catch : Catch, timo : Timo], TSleep(p, c, k)
      PROVE  RestTypes'
  BY <1>1, <1>4 DEF TSleep, RestTypes
<1>5. ASSUME NEW p \in Proc, Finish(p) PROVE RestTypes'
  <2>1. ret' \in [Proc -> Results]
    BY <1>1, <1>3, <1>5 DEF Finish, Return, RestTypes
  <2>. QED  BY <1>5, <2>1 DEF Finish, ghost, RestTypes
<1>6. ASSUME NEW p \in Proc, ResumeSecond(p) PROVE RestTypes'
  <2>1. ret' \in [Proc -> Results]
    BY <1>3, <1>6 DEF ResumeSecond
  <2>. QED  BY <1>6, <2>1 DEF ResumeSecond, ghost, RestTypes
<1>7. ASSUME NEW p \in Proc,
             \/ \E s \in Signals : Psignal(p, s)
             \/ Endtsleep(p) \/ ResumeFirst(p) \/ ToUser(p) \/ ResumeUser(p)
      PROVE  RestTypes'
  BY <1>7 DEF Psignal, Endtsleep, ResumeFirst, ToUser, ResumeUser, Deliver,
              ghost, RestTypes
<1>8. CASE UNCHANGED vars
  BY <1>8 DEF vars, RestTypes
<1>. QED  BY <1>2, <1>4, <1>5, <1>6, <1>7, <1>8 DEF Next

(* Every step keeps the chain sound.                                       *)
LEMMA NextLinked ==
  ASSUME SQTypes, Linked, [Next]_vars PROVE Linked'
<1>1. CASE UNCHANGED vars
  BY <1>1 DEF vars, Linked
<1>2. ASSUME NEW p \in Proc,
             Finish(p) \/ ResumeSecond(p) \/ ToUser(p) \/ ResumeUser(p)
      PROVE  Linked'
  BY <1>2, RestLinked
<1>. QED  BY <1>1, <1>2, WakeupLinked, TSleepLinked, PsignalLinked,
             EndtsleepLinked, ResumeFirstLinked DEF Next


-----------------------------------------------------------------------------
(* Interruptible sleepers and pending signals.                             *)

(* No signal that psignal() makes a process run for has a higher number    *)
(* than a stop that the process obeys: issignal(), which goes by numbers,  *)
(* comes to the stop last.                                                 *)
StopsComeLast ==
  \A s, t \in Signals : Stops(s) /\ SigNo[s] < SigNo[t] =>
                          t \in StopSigs \cup {"CONT"} \cup Held

(* What NoDeafSleeper needs of one process. While it is stopped it may     *)
(* have the stop pending, which SIGCONT takes away; and a stop and SIGCONT *)
(* are never both pending.                                                 *)
Hears(p) ==
  /\ p \in sintr /\ stat[p] = "SSLEEP" => Deliverable(siglist[p]) = {}
  /\ p \in sintr /\ stat[p] = "SSTOP" /\ wchan[p] # NoChan =>
       Deliverable(siglist[p] \ StopSigs) = {}
  /\ "CONT" \in siglist[p] => siglist[p] \cap StopSigs = {}

AllHear == \A p \in Proc : Hears(p)

(* P_SINTR is only up within tsleep().                                     *)
Inside(p) == p \in sintr => pc[p] \in {"asleep", "stop1", "awake"}

AllInside == \A p \in Proc : Inside(p)

(* A step that leaves a process alone.                                     *)
Same(p) ==
  /\ stat'[p] = stat[p] /\ wchan'[p] = wchan[p] /\ siglist'[p] = siglist[p]
  /\ pc'[p] = pc[p] /\ call'[p] = call[p] /\ found'[p] = found[p]
  /\ ret'[p] = ret[p]
  /\ (p \in sintr' <=> p \in sintr) /\ (p \in woken' <=> p \in woken)
  /\ (p \in timedout' <=> p \in timedout)

(* A step changes one process, or is a wakeup().                           *)
LEMMA OthersSame ==
  ASSUME SQTypes, RestTypes, NEW p \in Proc, NEW q \in Proc, q # p,
         \/ \E c \in Chan, k \in [catch : Catch, timo : Timo] : TSleep(p, c, k)
         \/ \E s \in Signals : Psignal(p, s)
         \/ Endtsleep(p) \/ Finish(p) \/ ResumeFirst(p) \/ ResumeSecond(p)
         \/ ToUser(p) \/ ResumeUser(p)
  PROVE  Same(q)
<1> USE DEF Same, RestTypes
<1>1. ASSUME NEW c \in Chan, NEW k \in [catch : Catch, timo : Timo],
             TSleep(p, c, k)
      PROVE  Same(q)
  BY <1>1 DEF TSleep, CheckThenSleep, StopFor, SQTypes, queue
<1>2. ASSUME NEW s \in Signals, Psignal(p, s)
      PROVE  Same(q)
  <2>1. SignalEffect(p, s)
    BY <1>2, PsignalEffect
  <2>2. stat'[q] = stat[q] /\ wchan'[q] = wchan[q] /\ siglist'[q] = siglist[q]
    BY <2>1 DEF SignalEffect, SQTypes
  <2>. QED  BY <1>2, <2>2 DEF Psignal, timer
<1>3. CASE Endtsleep(p)
  <2>1. stat'[q] = stat[q] /\ wchan'[q] = wchan[q]
    BY <1>3, RouseEffect DEF Endtsleep, queue, SQTypes
  <2>. QED  BY <1>3, <2>1 DEF Endtsleep, ghost
<1>4. CASE Finish(p) \/ ResumeSecond(p)
  BY <1>4 DEF Finish, ResumeSecond, CheckThenReturn, Return, StopFor, SQTypes,
              queue, timer, ghost
<1>5. CASE ResumeFirst(p)
  BY <1>5 DEF ResumeFirst, CheckThenSleep, StopFor, SQTypes, queue, timer,
              ghost
<1>6. CASE ToUser(p) \/ ResumeUser(p)
  BY <1>6 DEF ToUser, ResumeUser, Deliver, StopFor, SQTypes, queue, timer,
              ghost
<1>. QED  BY <1>1, <1>2, <1>3, <1>4, <1>5, <1>6

(* Fewer pending signals, fewer to deliver.                                *)
LEMMA FewerDeliverable ==
  ASSUME NEW a, NEW b, a \subseteq b, Deliverable(b) = {}
  PROVE  Deliverable(a) = {}
BY DEF Deliverable

(* The stop that a process obeys in tsleep() leaves nothing else pending   *)
(* that it would have to take.                                             *)
LEMMA StopTakesLast ==
  ASSUME StopsComeLast, NEW list \in SUBSET Signals,
         "CONT" \in list => list \cap StopSigs = {},
         First(list) # None, Stops(First(list))
  PROVE  Deliverable(Swept(list) \ StopSigs) = {}
<1> DEFINE s == First(list)
<1>1. /\ s \in Deliverable(list) /\ s \in StopSigs
      /\ \A t \in Deliverable(list) : SigNo[s] <= SigNo[t]
  <2>1. s \in Deliverable(list)
    BY FirstIn
  <2>2. s \in StopSigs
    BY DEF Stops
  <2> DEFINE d == Deliverable(list)
             Lowest(x) == x \in d /\ \A t \in d : SigNo[x] <= SigNo[t]
  <2>3. s = CHOOSE x : Lowest(x)
    BY <2>1, Zenon DEF First
  <2>4. Lowest(s)
    <3>1. \E x : Lowest(x)
      BY <2>1, LowestIs
    <3> HIDE DEF Lowest
    <3>. QED  BY <2>3, <3>1
  <2>. QED  BY <2>1, <2>2, <2>4
<1>2. s \in Signals /\ s \in list
  BY <1>1 DEF Deliverable
<1> HIDE DEF s
<1>3. ASSUME NEW t \in Deliverable(Swept(list) \ StopSigs)
      PROVE  FALSE
  <2>1. t \in Deliverable(list) /\ t \in list /\ t \notin StopSigs /\ t \notin Held
    BY <1>3 DEF Deliverable, Swept
  <2>2. SigNo[s] <= SigNo[t] /\ t \in DOMAIN SigNo /\ s \in {"STOP", "TSTP"}
    BY <1>1, <2>1, SignalsAssumption DEF StopSigs
  <2>3. SigNo[s] < SigNo[t]
    <3>1. /\ SigNo["INT"] = 2 /\ SigNo["KILL"] = 9 /\ SigNo["STOP"] = 17
          /\ SigNo["TSTP"] = 18 /\ SigNo["CONT"] = 19 /\ SigNo["USR1"] = 30
          /\ DOMAIN SigNo = {"INT", "KILL", "STOP", "TSTP", "CONT", "USR1"}
      BY DEF SigNo
    <3>2. t \in {"INT", "KILL", "CONT", "USR1"}
      BY <2>1, <2>2, <3>1 DEF StopSigs
    <3>. QED  BY <2>2, <3>1, <3>2
  <2>4. t = "CONT"
    BY <1>2, <2>1, <2>3 DEF StopsComeLast, s
  <2>. QED  BY <1>1, <1>2, <2>1, <2>4
<1>. QED  BY <1>3

(* psignal(): a signal that a sleeper has to take makes it run, or is      *)
(* noted for when the stopped process runs.                                *)
LEMMA PsignalHears ==
  ASSUME SQTypes, Linked, NEW p \in Proc, NEW s \in Signals, Psignal(p, s),
         Hears(p)
  PROVE  Hears(p)'
<1> DEFINE old == siglist[p]
           list == Pending(old, s)
<1>0. /\ stat[p] \in {"SRUN", "SSLEEP", "SSTOP", "SZOMB"} /\ sintr' = sintr
      /\ "CONT" \in list => list \cap StopSigs = {}
      /\ "KILL" \notin StopSigs /\ "CONT" \notin StopSigs
  <2>1. "KILL" \notin StopSigs /\ "CONT" \notin StopSigs
    BY DEF StopSigs
  <2>2. "CONT" \in old => old \cap StopSigs = {}
    BY DEF Hears
  <2>3. "CONT" \in list => list \cap StopSigs = {}
    BY <2>1, <2>2 DEF Pending
  <2>. QED  BY <2>1, <2>3 DEF SQTypes, Psignal
<1> HIDE DEF list
<1>1. ASSUME NEW l \in SUBSET list, siglist' = [siglist EXCEPT ![p] = l]
      PROVE  /\ siglist'[p] = l
             /\ "CONT" \in siglist'[p] => siglist'[p] \cap StopSigs = {}
  <2>1. siglist'[p] = l
    BY <1>1 DEF SQTypes
  <2>. QED  BY <1>0, <1>1, <2>1
<1>2. list \in SUBSET list /\ list \ {s} \in SUBSET list
  OBVIOUS
<1>3. CASE /\ LeftPending(p, s)
           /\ siglist' = [siglist EXCEPT ![p] = list]
           /\ UNCHANGED <<stat, queue>>
  <2>1. CASE s \in Held
    <3>1. /\ Deliverable(list) \subseteq Deliverable(old)
          /\ Deliverable(list \ StopSigs) \subseteq Deliverable(old \ StopSigs)
      BY <2>1 DEF Deliverable, list, Pending
    <3>. QED  BY <1>0, <1>1, <1>2, <1>3, <3>1 DEF Hears, queue
  <2>2. CASE s \notin Held
    <3>1. ~(p \in sintr /\ stat[p] \in {"SSLEEP", "SSTOP"} /\ wchan[p] # NoChan)
      BY <1>3, <2>2 DEF LeftPending, Action
    <3>2. stat[p] = "SSLEEP" => wchan[p] # NoChan
      BY DEF Linked
    <3>. QED  BY <1>0, <1>1, <1>2, <1>3, <3>1, <3>2 DEF Hears, queue
  <2>. QED  BY <2>1, <2>2
<1>4. CASE Setrunnable(p) /\ siglist' = [siglist EXCEPT ![p] = list]
  <2>1. stat'[p] = "SRUN"
    BY <1>4 DEF Setrunnable, SQTypes
  <2>. QED  BY <1>1, <1>2, <1>4, <2>1 DEF Hears
<1>5. CASE stat[p] = "SSLEEP" /\ p \in sintr /\ SignalSleeper(p, s, list)
  <2>1. Deliverable(old) = {}
    BY <1>5 DEF Hears
  <2>2. list \ {s} \subseteq old
    BY DEF list, Pending
  <2>3. Deliverable(list \ {s}) = {} /\ Deliverable((list \ {s}) \ StopSigs) = {}
    BY <2>1, <2>2 DEF Deliverable
  <2>4. CASE /\ siglist' = [siglist EXCEPT ![p] = list \ {s}]
    BY <1>0, <1>1, <1>2, <2>3, <2>4 DEF Hears
  <2>. QED  BY <1>4, <1>5, <2>4 DEF SignalSleeper
<1>6. CASE stat[p] = "SSTOP" /\ SignalStopped(p, s, list) /\ ~LeftPending(p, s)
  <2>1. CASE /\ s = "CONT"
             /\ siglist' = [siglist EXCEPT ![p] = IF Discards(s)
                                                  THEN list \ {s} ELSE list]
             /\ Continue(p, s)
    <3> DEFINE l == IF Discards(s) THEN list \ {s} ELSE list
    <3>1. l \in SUBSET list /\ siglist' = [siglist EXCEPT ![p] = l]
      BY <2>1
    <3>2. CASE Setrunnable(p)
      <4>1. stat'[p] = "SRUN"
        BY <3>2 DEF Setrunnable, SQTypes
      <4>. QED  BY <1>1, <3>1, <4>1 DEF Hears
    <3>3. CASE /\ stat' = [stat EXCEPT ![p] = "SSLEEP"]
               /\ Action(s) # "CATCH" /\ wchan[p] # NoChan
      <4>1. stat'[p] = "SSLEEP"
        BY <3>3 DEF SQTypes
      <4>2. p \in sintr => Deliverable(old \ StopSigs) = {}
        BY <1>6, <3>3 DEF Hears
      <4>3. Deliverable(l) \subseteq Deliverable(old \ StopSigs)
        BY <2>1, <3>3 DEF Deliverable, Discards, Action, list, Pending
      <4> HIDE DEF l
      <4>. QED  BY <1>0, <1>1, <3>1, <4>1, <4>2, <4>3 DEF Hears
    <3>. QED  BY <2>1, <3>2, <3>3 DEF Continue
  <2>2. CASE /\ s \in StopSigs
             /\ siglist' = [siglist EXCEPT ![p] = list \ {s}]
             /\ UNCHANGED <<stat, queue>>
    <3>1. Deliverable((list \ {s}) \ StopSigs) \subseteq
            Deliverable(old \ StopSigs)
      BY DEF Deliverable, list, Pending
    <3>. QED  BY <1>0, <1>1, <1>2, <1>6, <2>2, <3>1 DEF Hears, queue
  <2>3. CASE /\ siglist' = [siglist EXCEPT ![p] = list]
             /\ SimulateWakeup(p) /\ UNCHANGED stat
    <3>1. p \in sintr => wchan'[p] = NoChan
      BY <2>3, UnsleepWaits DEF SimulateWakeup, SQTypes
    <3>. QED  BY <1>0, <1>1, <1>2, <1>6, <2>3, <3>1 DEF Hears
  <2>. QED  BY <1>4, <1>6, <2>1, <2>2, <2>3 DEF SignalStopped
<1>. QED  BY <1>3, <1>5, <1>6 DEF Psignal, LeftPending, list

(* tsleep() up to the switch: a process that goes to sleep has seen that   *)
(* nothing is pending that it would have to take.                          *)
LEMMA CheckThenSleepHears ==
  ASSUME SQTypes, Linked, StopsComeLast, NEW p \in Proc, stat[p] = "SRUN",
         NEW list \in SUBSET siglist[p], NEW w, NEW q, NEW k,
         CheckThenSleep(p, list, w, q, k), Hears(p)
  PROVE  Hears(p)'
<1> DEFINE s == First(list)
<1>1. /\ siglist'[p] = Swept(list) /\ Swept(list) \subseteq list
      /\ list \in SUBSET Signals
      /\ "CONT" \in list => list \cap StopSigs = {}
  BY SweptPart DEF CheckThenSleep, SQTypes, Hears
<1>2. "CONT" \in siglist'[p] => siglist'[p] \cap StopSigs = {}
  BY <1>1
<1>3. CASE s # None /\ Stops(s)
  <2>1. stat'[p] = "SSTOP"
    BY <1>3 DEF CheckThenSleep, StopFor, SQTypes
  <2>2. Deliverable(Swept(list) \ StopSigs) = {}
    BY <1>1, <1>3, StopTakesLast
  <2>. QED  BY <1>1, <1>2, <2>1, <2>2 DEF Hears
<1>4. CASE s # None /\ ~Stops(s)
  <2>1. stat'[p] = "SRUN"
    BY <1>4 DEF CheckThenSleep, SQTypes
  <2>. QED  BY <1>2, <2>1 DEF Hears
<1>5. CASE s = None /\ w = NoChan
  <2>1. stat'[p] = "SRUN"
    BY <1>5 DEF CheckThenSleep
  <2>. QED  BY <1>2, <2>1 DEF Hears
<1>6. CASE s = None /\ w # NoChan
  <2>1. stat'[p] = "SSLEEP"
    BY <1>6 DEF CheckThenSleep, SQTypes
  <2>2. Deliverable(list) = {}
    <3>1. Deliverable(list) # {} => s \in Deliverable(list)
      <4> DEFINE Lowest(x) == /\ x \in Deliverable(list)
                              /\ \A t \in Deliverable(list) : SigNo[x] <= SigNo[t]
      <4> SUFFICES ASSUME Deliverable(list) # {} PROVE s \in Deliverable(list)
        OBVIOUS
      <4>1. s = CHOOSE x : Lowest(x)
        BY Zenon DEF First
      <4>2. \E x : Lowest(x)
        BY <1>1, LowestIs
      <4>3. Lowest(s)
        <5> HIDE DEF Lowest, s
        <5>. QED  BY <4>1, <4>2
      <4>. QED  BY <4>3
    <3>2. None \notin Signals
      BY SignalsAssumption
    <3>. QED  BY <1>1, <1>6, <3>1, <3>2 DEF Deliverable
  <2>3. Deliverable(Swept(list)) = {}
    BY <1>1, <2>2, FewerDeliverable
  <2>. QED  BY <1>1, <1>2, <2>1, <2>3 DEF Hears
<1>. QED  BY <1>3, <1>4, <1>5, <1>6

(* One that runs, or is off the chain, need not listen.                    *)
LEMMA NeedNotHear ==
  ASSUME SQTypes, NEW p \in Proc, Hears(p),
         siglist'[p] \subseteq siglist[p],
         stat'[p] # "SSLEEP", stat'[p] = "SSTOP" => wchan'[p] = NoChan
  PROVE  Hears(p)'
BY DEF Hears

(* tsleep() sets P_SINTR, and clears it on its way out.                    *)
LEMMA NextInside ==
  ASSUME SQTypes, RestTypes, AllInside, [Next]_vars PROVE AllInside'
<1>0. \A p \in Proc : Inside(p)
  BY DEF AllInside
<1>1. ASSUME NEW p \in Proc,
             \/ \E c \in Chan, k \in [catch : Catch, timo : Timo] :
                  TSleep(p, c, k)
             \/ Finish(p) \/ ResumeFirst(p) \/ ResumeSecond(p)
             \/ ToUser(p) \/ ResumeUser(p)
      PROVE  Inside(p)'
  <2>1. ASSUME NEW list, NEW w, NEW q, NEW k, CheckThenSleep(p, list, w, q, k)
        PROVE  pc'[p] \in {"asleep", "stop1", "awake"}
    BY <2>1 DEF CheckThenSleep, StopFor, SQTypes
  <2>2. ASSUME NEW c \in Chan, NEW k \in [catch : Catch, timo : Timo],
               TSleep(p, c, k)
        PROVE  pc'[p] \in {"asleep", "stop1", "awake"}
    BY <2>1, <2>2 DEF TSleep, SQTypes
  <2>3. CASE ResumeFirst(p)
    BY <2>1, <2>3 DEF ResumeFirst, Inside
  <2>4. CASE Finish(p)
    BY <2>4 DEF Finish, Inside
  <2>5. CASE ResumeSecond(p) \/ ToUser(p) \/ ResumeUser(p)
    <3>1. p \notin sintr /\ sintr' = sintr
      BY <1>0, <2>5 DEF ResumeSecond, ToUser, ResumeUser, Deliver, Inside
    <3>. QED  BY <3>1 DEF Inside
  <2>. QED  BY <1>1, <2>2, <2>3, <2>4, <2>5 DEF Inside
<1>2. ASSUME NEW p \in Proc,
             (\E s \in Signals : Psignal(p, s)) \/ Endtsleep(p)
      PROVE  Inside(p)'
  BY <1>0, <1>2 DEF Psignal, Endtsleep, Inside
<1>3. ASSUME NEW c \in Chan, Wakeup(c) PROVE AllInside'
  BY <1>3 DEF Wakeup, AllInside, Inside
<1>4. CASE UNCHANGED vars
  BY <1>4 DEF vars, AllInside, Inside
<1>5. ASSUME NEW p \in Proc, Inside(p)', \A q \in Proc \ {p} : Same(q)
      PROVE  AllInside'
  BY <1>0, <1>5 DEF AllInside, Inside, Same
<1>. QED  BY <1>1, <1>2, <1>3, <1>4, <1>5, OthersSame DEF Next

(* Every step leaves interruptible sleepers without a signal to take.      *)
LEMMA NextHears ==
  ASSUME SQTypes, RestTypes, Linked, StopsComeLast, AllInside, AllHear,
         [Next]_vars
  PROVE  AllHear'
<1>0. \A p \in Proc : Hears(p)
  BY DEF AllHear
<1>1. CASE UNCHANGED vars
  BY <1>1 DEF vars, AllHear, Hears
<1>2. ASSUME NEW c \in Chan, Wakeup(c), NEW p \in Proc
      PROVE  Hears(p)'
  <2> DEFINE w == {r \in ToSet(sleepq.list) : wchan[r] = c}
  <2>1. /\ wchan'[p] = IF p \in w THEN NoChan ELSE wchan[p]
        /\ stat'[p] = IF p \in w /\ stat[p] = "SSLEEP" THEN "SRUN" ELSE stat[p]
        /\ siglist' = siglist /\ sintr' = sintr
    BY <1>2 DEF Wakeup
  <2> HIDE DEF w
  <2>. QED  BY <1>0, <2>1 DEF Hears
<1>3. ASSUME NEW p \in Proc, Endtsleep(p) PROVE Hears(p)'
  <2>1. CASE UNCHANGED <<stat, queue>>
    BY <1>0, <1>3, <2>1 DEF Endtsleep, Hears, queue
  <2>2. CASE Rouse(p)
    <3>1. wchan'[p] = NoChan
      BY <2>2, RouseEffect DEF SQTypes
    <3>2. stat'[p] # "SSLEEP"
      BY <2>2 DEF Rouse, Setrunnable, SQTypes
    <3>3. siglist' = siglist
      BY <1>3 DEF Endtsleep
    <3>. QED  BY <1>0, <3>1, <3>2, <3>3, NeedNotHear
  <2>. QED  BY <1>3, <2>1, <2>2 DEF Endtsleep
<1>4. ASSUME NEW p \in Proc, NEW c \in Chan,
             NEW k \in [catch : Catch, timo : Timo], TSleep(p, c, k)
      PROVE  Hears(p)'
  <2>1. CASE CheckThenSleep(p, siglist[p], c, Enqueue(sleepq, p), k)
    <3>1. stat[p] = "SRUN"
      BY <1>4 DEF TSleep
    <3>. QED  BY <1>0, <2>1, <3>1, CheckThenSleepHears
  <2>2. CASE ~k.catch /\ UNCHANGED <<sintr, siglist>>
             /\ stat' = [stat EXCEPT ![p] = "SSLEEP"]
    <3>1. pc[p] = "run"
      BY <1>4 DEF TSleep
    <3>2. p \notin sintr /\ stat'[p] = "SSLEEP"
      BY <2>2, <3>1 DEF AllInside, Inside, SQTypes
    <3>. QED  BY <1>0, <2>2, <3>2 DEF Hears
  <2>. QED  BY <1>4, <2>1, <2>2 DEF TSleep
<1>5. ASSUME NEW p \in Proc, ResumeFirst(p) PROVE Hears(p)'
  <2>1. Taken(p) \in SUBSET siglist[p]
    BY DEF Taken
  <2>. QED  BY <1>0, <1>5, <2>1, CheckThenSleepHears DEF ResumeFirst
<1>6. ASSUME NEW p \in Proc,
             Finish(p) \/ ResumeSecond(p) \/ ToUser(p) \/ ResumeUser(p)
      PROVE  Hears(p)'
  <2>1. stat[p] = "SRUN" /\ wchan'[p] = wchan[p]
    BY <1>6 DEF Finish, ResumeSecond, ToUser, ResumeUser, Deliver, queue
  <2>2. wchan'[p] = NoChan
    BY <2>1 DEF Linked
  <2>3. siglist'[p] \subseteq siglist[p]
    <3>1. ASSUME NEW list \in SUBSET siglist[p], CheckThenReturn(p, list)
          PROVE  siglist'[p] \subseteq siglist[p]
      BY <3>1, SweptPart DEF CheckThenReturn, SQTypes
    <3>2. ASSUME NEW list \in SUBSET siglist[p], Deliver(p, list)
          PROVE  siglist'[p] \subseteq siglist[p]
      <4>1. list \in SUBSET Signals
        BY DEF SQTypes
      <4>2. UserEffect(p, list)
        BY <2>1, <3>2, <4>1, DeliverEffect
      <4>. QED  BY <4>2 DEF UserEffect, SQTypes
    <3>3. Taken(p) \in SUBSET siglist[p] /\ siglist[p] \in SUBSET siglist[p]
      BY DEF Taken
    <3>. QED  BY <1>6, <3>1, <3>2, <3>3 DEF Finish, ResumeSecond, ToUser,
                                            ResumeUser
  <2>4. stat'[p] # "SSLEEP"
    BY <1>6, <2>1 DEF Finish, ResumeSecond, ToUser, ResumeUser, Deliver,
                CheckThenReturn, Return, StopFor, SQTypes
  <2>. QED  BY <1>0, <2>2, <2>3, <2>4, NeedNotHear
<1>7. ASSUME NEW p \in Proc, NEW s \in Signals, Psignal(p, s)
      PROVE  Hears(p)'
  BY <1>0, <1>7, PsignalHears
<1>8. ASSUME NEW p \in Proc, Hears(p)', \A q \in Proc \ {p} : Same(q)
      PROVE  AllHear'
  <2>1. ASSUME NEW q \in Proc \ {p} PROVE Hears(q)'
    BY <1>0, <1>8 DEF Hears, Same
  <2>. QED  BY <1>8, <2>1 DEF AllHear
<1>9. ASSUME NEW c \in Chan, Wakeup(c) PROVE AllHear'
  BY <1>2, <1>9 DEF AllHear
<1>. QED  BY <1>1, <1>3, <1>4, <1>5, <1>6, <1>7, <1>8, <1>9, OthersSame DEF Next

-----------------------------------------------------------------------------
(* What tsleep() returns.                                                  *)

(* SIGTSTP and SIGCONT have no handlers.                                   *)
NoJobHandlers == {"TSTP", "CONT"} \cap Caught = {}

(* A signal is pending that ends an interruptible sleep, and that no other *)
(* signal cancels.                                                         *)
Noted(list) == \E t \in list : t \notin Held \cup StopSigs \cup {"CONT"}

(* What ReturnsTruth needs of one process: in its tsleep(), off the chain, *)
(* there is a reason that it is off the chain.                             *)
Honest(p) ==
  /\ wchan[p] # NoChan => pc[p] \in {"asleep", "stop1"} /\ p \notin woken
  /\ p \in timedout => p \notin woken
  /\ ret[p] = "0" => p \in woken
  /\ ret[p] = "EWOULDBLOCK" => p \notin woken
  /\ pc[p] \in {"asleep", "stop1", "awake", "stop2"} => ret[p] = "none"
  /\ pc[p] = "stop1" => p \in sintr /\ call[p].catch /\ Stops(found[p])
  /\ pc[p] = "asleep" => /\ found[p] = None
                         /\ p \in sintr => call[p].catch
                         /\ stat[p] = "SSTOP" => p \in sintr
  /\ pc[p] = "awake" =>
       /\ stat[p] = "SRUN"
       /\ found[p] = None => p \in woken \/ p \in timedout
       /\ found[p] # None => call[p].catch
  /\ pc[p] = "stop2" => Stops(found[p]) /\ (p \in woken \/ Noted(siglist[p]))
  /\ pc[p] \in {"asleep", "stop1"} /\ wchan[p] = NoChan =>
       \/ p \in woken \/ p \in timedout
       \/ Noted(siglist[p]) /\ call[p].catch

AllHonest == \A p \in Proc : Honest(p)

(* CURSIG finds a signal that is noted, keeps it noted when it comes to    *)
(* another, and so does the end of a stop.                                 *)
LEMMA NotedStays ==
  ASSUME NEW list \in SUBSET Signals, Noted(list)
  PROVE  /\ First(list) # None
         /\ Noted(Swept(list))
         /\ \A s : Stops(s) => Noted(list \ {s})
<1>1. PICK t \in list : t \notin Held \cup StopSigs \cup {"CONT"}
  BY DEF Noted
<1>2. t \in Deliverable(list)
  BY <1>1 DEF Deliverable, Discards
<1>3. First(list) # None
  <2> DEFINE s == First(list)
             Lowest(x) == /\ x \in Deliverable(list)
                          /\ \A y \in Deliverable(list) : SigNo[x] <= SigNo[y]
  <2>1. s = CHOOSE x : Lowest(x)
    BY <1>2, Zenon DEF First
  <2>2. \E x : Lowest(x)
    BY <1>2, LowestIs
  <2>3. Lowest(s)
    <3> HIDE DEF Lowest, s
    <3>. QED  BY <2>1, <2>2
  <2>4. s \in Signals
    BY <2>3 DEF Deliverable
  <2> HIDE DEF s
  <2>5. s # None
    BY <2>4, SignalsAssumption
  <2>. QED  BY <2>5 DEF s
<1>4. t \in Swept(list)
  BY <1>1 DEF Swept, Discards
<1>5. \A s : Stops(s) => t # s
  BY <1>1 DEF Stops
<1>. QED  BY <1>1, <1>3, <1>4, <1>5 DEF Noted

(* psignal() takes a process off the chain only for a signal that is       *)
(* noted, and only from an interruptible sleep; it takes back none that    *)
(* is.                                                                     *)
LEMMA PsignalNotes ==
  ASSUME SQTypes, Linked, NoJobHandlers, NEW p \in Proc, NEW s \in Signals,
         Psignal(p, s)
  PROVE  /\ Noted(siglist[p]) => Noted(siglist'[p])
         /\ wchan'[p] \in {wchan[p], NoChan}
         /\ wchan[p] # NoChan /\ wchan'[p] = NoChan =>
              /\ Noted(siglist'[p])
              /\ stat[p] = "SSLEEP" => p \in sintr
         /\ stat'[p] = "SSTOP" => stat[p] = "SSTOP" \/ p \in sintr
         /\ stat[p] = "SRUN" => stat'[p] = "SRUN"
<1> DEFINE old == siglist[p]
           list == Pending(old, s)
<1>0. /\ siglist'[p] \in {list, list \ {s}}
      /\ siglist'[p] = list \ {s} => s \in StopSigs \cup {"CONT"}
  <2>1. siglist' \in {[siglist EXCEPT ![p] = list],
                      [siglist EXCEPT ![p] = list \ {s}]}
    BY DEF Psignal, SignalSleeper, SignalStopped
  <2>2. siglist'[p] \in {list, list \ {s}}
    BY <2>1 DEF SQTypes
  <2>3. \/ siglist' = [siglist EXCEPT ![p] = list]
        \/ s \in StopSigs \cup {"CONT"}
    BY DEF Psignal, SignalSleeper, SignalStopped, Discards, Stops
  <2>4. siglist'[p] = list \/ s \in StopSigs \cup {"CONT"}
    BY <2>3 DEF SQTypes
  <2>5. s \in list
    BY DEF Pending
  <2>. QED  BY <2>2, <2>4, <2>5
<1>1. Noted(old) => Noted(siglist'[p])
  <2> SUFFICES ASSUME Noted(old) PROVE Noted(siglist'[p])
    OBVIOUS
  <2>1. PICK t \in old : t \notin Held \cup StopSigs \cup {"CONT"}
    BY DEF Noted
  <2>2. t \in list
    BY <2>1 DEF Pending
  <2>3. t \in siglist'[p]
    BY <1>0, <2>1, <2>2
  <2>. QED  BY <2>1, <2>3 DEF Noted
<1>2. SignalEffect(p, s)
  BY PsignalEffect
<1>3. wchan'[p] \in {wchan[p], NoChan}
  BY <1>2 DEF SignalEffect, SQTypes
<1>4. ASSUME s \notin Held \cup StopSigs \cup {"CONT"}
      PROVE  Noted(siglist'[p])
  <2>1. s \in siglist'[p]
    BY <1>0, <1>4 DEF Pending
  <2>. QED  BY <1>4, <2>1 DEF Noted
<1>5. ASSUME wchan[p] # NoChan, wchan'[p] = NoChan
      PROVE  Noted(siglist'[p]) /\ (stat[p] = "SSLEEP" => p \in sintr)
  <2>1. ~UNCHANGED queue
    BY <1>5 DEF queue
  <2>2. CASE /\ ~LeftPending(p, s) /\ stat[p] = "SSLEEP"
             /\ SignalSleeper(p, s, list)
    <3>1. ~Discards(s) /\ ~Stops(s) /\ Action(s) # "HOLD" /\ p \in sintr
      BY <2>1, <2>2 DEF SignalSleeper, LeftPending
    <3>2. s \notin Held
      BY <3>1 DEF Action
    <3>3. s \notin StopSigs \cup {"CONT"}
      BY <3>1, <3>2, SignalsAssumption
         DEF NoJobHandlers, Action, Discards, Stops, StopSigs
    <3>. QED  BY <1>4, <3>1, <3>2, <3>3
  <2>3. CASE /\ ~LeftPending(p, s) /\ stat[p] = "SSTOP"
             /\ SignalStopped(p, s, list)
    <3>1. CASE s = "KILL"
      <4>1. s \notin Held \cup StopSigs \cup {"CONT"}
        BY <3>1, SignalsAssumption DEF StopSigs
      <4>. QED  BY <1>4, <2>3, <4>1
    <3>2. CASE s = "CONT" /\ Continue(p, s)
      <4>1. Action(s) # "CATCH"
        BY <3>2 DEF NoJobHandlers, Action
      <4>. QED  BY <1>5, <2>1, <3>2, <4>1 DEF Continue
    <3>3. CASE s \notin StopSigs \cup {"KILL", "CONT"}
      <4>1. s \notin Held
        BY <2>3, <3>3 DEF LeftPending, Action
      <4>. QED  BY <1>4, <2>3, <3>3, <4>1
    <3>. QED  BY <2>1, <2>3, <3>1, <3>2, <3>3 DEF SignalStopped
  <2>. QED  BY <2>1, <2>2, <2>3 DEF Psignal
<1>6. stat'[p] = "SSTOP" => stat[p] = "SSTOP" \/ p \in sintr
  <2>1. stat'[p] = stat[p] \/ stat[p] = "SSTOP" \/ p \in sintr
    BY DEF Psignal, LeftPending
  <2>. QED  BY <2>1
<1>7. stat[p] = "SRUN" => stat'[p] = "SRUN"
  BY DEF Psignal, LeftPending
<1>. QED  BY <1>1, <1>3, <1>5, <1>6, <1>7

(* psignal(): a process it takes off the chain has a signal noted.         *)
LEMMA PsignalHonest ==
  ASSUME SQTypes, Linked, NoJobHandlers, NEW p \in Proc, NEW s \in Signals,
         Psignal(p, s), Honest(p)
  PROVE  Honest(p)'
<1>1. /\ Noted(siglist[p]) => Noted(siglist'[p])
      /\ wchan'[p] \in {wchan[p], NoChan}
      /\ wchan[p] # NoChan /\ wchan'[p] = NoChan =>
           /\ Noted(siglist'[p])
           /\ stat[p] = "SSLEEP" => p \in sintr
      /\ stat'[p] = "SSTOP" => stat[p] = "SSTOP" \/ p \in sintr
      /\ stat[p] = "SRUN" => stat'[p] = "SRUN"
  BY PsignalNotes
<1>2. /\ sintr' = sintr /\ timedout' = timedout /\ pc' = pc /\ call' = call
      /\ found' = found /\ ret' = ret /\ woken' = woken
  BY DEF Psignal, timer
<1>3. wchan[p] # NoChan => stat[p] \in {"SSLEEP", "SSTOP"}
  BY DEF Linked
<1>4. wchan[p] # NoChan /\ wchan'[p] = NoChan =>
        Noted(siglist'[p]) /\ call[p].catch
  BY <1>1, <1>3 DEF Honest
<1>. QED  BY <1>1, <1>2, <1>4 DEF Honest

(* A process leaves tsleep() by way of the second CURSIG: with 0 only when *)
(* nothing is noted.                                                       *)
LEMMA CheckThenReturnHonest ==
  ASSUME SQTypes, RestTypes, NEW p \in Proc,
         NEW list \in SUBSET Signals, CheckThenReturn(p, list),
         p \in woken \/ Noted(list), ret[p] = "none", wchan[p] = NoChan,
         woken' = woken, wchan' = wchan, p \notin timedout'
  PROVE  Honest(p)'
<1> DEFINE s == First(list)
<1>1. siglist'[p] = Swept(list)
  BY DEF CheckThenReturn, SQTypes
<1>2. Noted(list) => s # None /\ Noted(Swept(list))
  BY NotedStays
<1>3. CASE s = None
  <2>1. pc'[p] = "run" /\ ret'[p] = "0"
    BY <1>3 DEF CheckThenReturn, Return, SQTypes, RestTypes
  <2>. QED  BY <1>2, <1>3, <2>1 DEF Honest
<1>4. CASE s # None /\ Stops(s)
  <2>1. pc'[p] = "stop2" /\ found'[p] = s /\ ret' = ret
    BY <1>4 DEF CheckThenReturn, StopFor, SQTypes
  <2>. QED  BY <1>1, <1>2, <1>4, <2>1 DEF Honest
<1>5. CASE s # None /\ ~Stops(s)
  <2>1. pc'[p] = "run" /\ ret'[p] = "EINTR"
    BY <1>5 DEF CheckThenReturn, Return, SQTypes, RestTypes
  <2>. QED  BY <2>1 DEF Honest
<1>. QED  BY <1>3, <1>4, <1>5

(* tsleep() from resume: on.                                               *)
LEMMA FinishHonest ==
  ASSUME SQTypes, RestTypes, Linked, NEW p \in Proc, Finish(p), Honest(p)
  PROVE  Honest(p)'
<1>1. /\ pc[p] \in {"asleep", "awake"} /\ stat[p] = "SRUN"
      /\ wchan' = wchan /\ woken' = woken /\ timedout' = timedout \ {p}
  BY DEF Finish, queue, ghost
<1>2. wchan[p] = NoChan /\ ret[p] = "none" /\ siglist[p] \in SUBSET Signals
  BY <1>1 DEF Linked, Honest, SQTypes
<1>3. ASSUME NEW r \in Results, Return(p, r)
      PROVE  pc'[p] = "run" /\ ret'[p] = r
  BY <1>3 DEF Return, SQTypes, RestTypes
<1>4. CASE p \in timedout /\ found[p] = None /\ Return(p, "EWOULDBLOCK")
  <2>1. pc'[p] = "run" /\ ret'[p] = "EWOULDBLOCK"
    BY <1>3, <1>4 DEF Results
  <2>. QED  BY <1>1, <1>2, <1>4, <2>1 DEF Honest
<1>5. CASE /\ p \notin timedout \/ found[p] # None
           /\ ~call[p].catch /\ Return(p, "0")
  <2>1. pc'[p] = "run" /\ ret'[p] = "0"
    BY <1>3, <1>5 DEF Results
  <2>2. p \in woken
    BY <1>1, <1>2, <1>5 DEF Honest
  <2>. QED  BY <1>1, <1>2, <2>1, <2>2 DEF Honest
<1>6. CASE Return(p, "EINTR")
  <2>1. pc'[p] = "run" /\ ret'[p] = "EINTR"
    BY <1>3, <1>6 DEF Results
  <2>. QED  BY <1>1, <1>2, <2>1 DEF Honest
<1>7. CASE /\ p \notin timedout \/ found[p] # None
           /\ found[p] = None /\ CheckThenReturn(p, siglist[p])
  <2>1. p \in woken \/ Noted(siglist[p])
    BY <1>1, <1>2, <1>7 DEF Honest
  <2>2. p \notin timedout'
    BY <1>1
  <2>. QED  BY <1>1, <1>2, <1>7, <2>1, <2>2, CheckThenReturnHonest
<1>. QED  BY <1>4, <1>5, <1>6, <1>7 DEF Finish

(* The second CURSIG of tsleep(), after a stop: what was noted still is.   *)
LEMMA ResumeSecondHonest ==
  ASSUME SQInv, RestTypes, Linked, NEW p \in Proc, ResumeSecond(p), Honest(p)
  PROVE  Honest(p)'
<1>1. /\ pc[p] = "stop2" /\ stat[p] = "SRUN" /\ CheckThenReturn(p, Taken(p))
      /\ wchan' = wchan /\ woken' = woken /\ timedout' = timedout
  BY DEF ResumeSecond, queue, timer, ghost
<1>2. /\ SQTypes /\ p \notin timedout /\ wchan[p] = NoChan
      /\ ret[p] = "none" /\ Stops(found[p])
      /\ siglist[p] \in SUBSET Signals
  BY <1>1 DEF SQInv, SQTypes, TimeoutSound, Linked, Honest
<1>3. p \in woken \/ Noted(siglist[p])
  BY <1>1 DEF Honest
<1>4. Noted(siglist[p]) => Noted(Taken(p))
  BY <1>2, NotedStays DEF Taken
<1>5. Taken(p) \in SUBSET Signals
  BY <1>2 DEF Taken
<1>. QED  BY <1>1, <1>2, <1>3, <1>4, <1>5, CheckThenReturnHonest

(* tsleep() up to the switch: it does not sleep only if it has a signal    *)
(* to take, or has been off the chain for a reason.                        *)
LEMMA CheckThenSleepHonest ==
  ASSUME SQTypes, NEW p \in Proc, stat[p] = "SRUN",
         NEW list \in SUBSET Signals, NEW w \in Chan \cup {NoChan}, NEW q,
         NEW k \in Calls, k.catch, CheckThenSleep(p, list, w, q, k),
         w = NoChan => \/ p \in woken \/ p \in timedout
                       \/ Noted(list),
         w = NoChan => wchan[p] = NoChan,
         w # NoChan => p \notin woken',
         p \in timedout => p \notin woken, woken' \subseteq woken,
         w = NoChan => woken' = woken,
         timedout' = timedout, p \in sintr', ret'[p] = "none"
  PROVE  Honest(p)'
<1> DEFINE s == First(list)
<1>1. siglist'[p] = Swept(list)
  BY DEF CheckThenSleep, SQTypes
<1>2. Noted(list) => s # None /\ Noted(Swept(list))
  BY NotedStays
<1>3. p \in timedout' => p \notin woken'
  OBVIOUS
<1>4. CASE s # None /\ Stops(s)
  <2>1. pc'[p] = "stop1" /\ found'[p] = s /\ call'[p] = k /\ wchan'[p] = w
    BY <1>4 DEF CheckThenSleep, StopFor, SQTypes
  <2>. QED  BY <1>1, <1>2, <1>3, <1>4, <2>1 DEF Honest
<1>5. CASE s # None /\ ~Stops(s)
  <2>1. /\ pc'[p] = "awake" /\ found'[p] = s /\ call'[p] = k
        /\ wchan'[p] = NoChan /\ stat'[p] = "SRUN"
    BY <1>5 DEF CheckThenSleep, SQTypes
  <2>. QED  BY <1>3, <1>5, <2>1 DEF Honest
<1>6. CASE s = None /\ w = NoChan
  <2>1. /\ pc'[p] = "awake" /\ found'[p] = None /\ wchan'[p] = NoChan
        /\ stat'[p] = "SRUN"
    BY <1>6 DEF CheckThenSleep, SQTypes, queue
  <2>2. p \in woken' \/ p \in timedout'
    BY <1>2, <1>6
  <2>. QED  BY <1>3, <2>1, <2>2 DEF Honest
<1>7. CASE s = None /\ w # NoChan
  <2>1. /\ pc'[p] = "asleep" /\ found'[p] = None /\ call'[p] = k
        /\ wchan'[p] = w
    BY <1>7 DEF CheckThenSleep, SQTypes
  <2>. QED  BY <1>3, <1>7, <2>1 DEF Honest
<1>. QED  BY <1>4, <1>5, <1>6, <1>7

(* The first CURSIG of tsleep(), after a stop: the reason that took the    *)
(* process off the chain still stands.                                     *)
LEMMA ResumeFirstHonest ==
  ASSUME SQTypes, Linked, NEW p \in Proc, ResumeFirst(p), Honest(p)
  PROVE  Honest(p)'
<1>1. /\ pc[p] = "stop1" /\ stat[p] = "SRUN"
      /\ CheckThenSleep(p, Taken(p), wchan[p], sleepq, call[p])
      /\ sintr' = sintr /\ timedout' = timedout /\ ret' = ret
      /\ woken' = woken
  BY DEF ResumeFirst, timer, ghost
<1>2. /\ wchan[p] = NoChan /\ NoChan \in Chan \cup {NoChan}
      /\ siglist[p] \in SUBSET Signals /\ call[p] \in Calls
      /\ call[p].catch /\ p \in sintr' /\ ret'[p] = "none"
      /\ Stops(found[p]) /\ (p \in timedout => p \notin woken)
  BY <1>1 DEF Linked, SQTypes, Honest
<1>3. p \in woken \/ p \in timedout \/ Noted(siglist[p])
  BY <1>1, <1>2 DEF Honest
<1>4. Taken(p) \in SUBSET Signals /\ (Noted(siglist[p]) => Noted(Taken(p)))
  BY <1>2, NotedStays DEF Taken
<1> HIDE DEF Noted
<1>. QED  BY <1>1, <1>2, <1>3, <1>4, CheckThenSleepHonest

(* tsleep() starts with no wakeup and no timeout.                          *)
LEMMA TSleepHonest ==
  ASSUME SQInv, RestTypes, AllInside, NEW p \in Proc, NEW c \in Chan,
         NEW k \in [catch : Catch, timo : Timo], TSleep(p, c, k), Honest(p)
  PROVE  Honest(p)'
<1>1. /\ pc[p] = "run" /\ stat[p] = "SRUN" /\ ret'[p] = "none"
      /\ woken' = woken \ {p} /\ timedout' = timedout /\ c # NoChan
      /\ k \in Calls /\ SQTypes
  BY ChanAssumption, CallAssumption DEF TSleep, RestTypes, Calls, SQInv
<1>2. p \notin timedout /\ p \notin sintr /\ siglist[p] \in SUBSET Signals
  BY <1>1 DEF SQInv, TimeoutSound, AllInside, Inside, SQTypes
<1>3. CASE /\ k.catch /\ sintr' = sintr \cup {p}
           /\ CheckThenSleep(p, siglist[p], c, Enqueue(sleepq, p), k)
  <2>1. p \in sintr' /\ p \notin woken' /\ c \in Chan \cup {NoChan}
    BY <1>1, <1>3
  <2>. QED  BY <1>1, <1>2, <1>3, <2>1, CheckThenSleepHonest
<1>4. CASE /\ ~k.catch /\ sintr' = sintr
           /\ wchan' = [wchan EXCEPT ![p] = c]
           /\ stat' = [stat EXCEPT ![p] = "SSLEEP"]
           /\ pc' = [pc EXCEPT ![p] = "asleep"]
           /\ found' = [found EXCEPT ![p] = None]
  <2>1. /\ wchan'[p] = c /\ stat'[p] = "SSLEEP" /\ pc'[p] = "asleep"
        /\ found'[p] = None
    BY <1>1, <1>4 DEF SQTypes
  <2>. QED  BY <1>1, <1>2, <1>4, <2>1 DEF Honest
<1>. QED  BY <1>3, <1>4 DEF TSleep

(* endtsleep() times a process out only if no wakeup came first.           *)
LEMMA EndtsleepHonest ==
  ASSUME SQTypes, NEW p \in Proc, Endtsleep(p), Honest(p)
  PROVE  Honest(p)'
<1>1. /\ sintr' = sintr /\ siglist' = siglist /\ pc' = pc /\ call' = call
      /\ found' = found /\ ret' = ret /\ woken' = woken
  BY DEF Endtsleep, ghost
<1>2. CASE wchan[p] = NoChan /\ UNCHANGED <<stat, queue, timedout>>
  BY <1>1, <1>2 DEF Honest, queue
<1>3. CASE /\ wchan[p] # NoChan /\ Rouse(p)
           /\ timedout' = timedout \cup {p}
  <2>1. /\ wchan'[p] = NoChan
        /\ stat'[p] = stat[p] \/ stat'[p] = "SRUN"
    BY <1>3, RouseEffect DEF SQTypes
  <2>. QED  BY <1>1, <1>3, <2>1 DEF Honest
<1>. QED  BY <1>2, <1>3 DEF Endtsleep

(* wakeup() finds a process only if no timeout came first.                 *)
LEMMA WakeupHonest ==
  ASSUME SQInv, NEW c \in Chan, Wakeup(c), NEW p \in Proc, Honest(p)
  PROVE  Honest(p)'
<1> DEFINE w == {r \in ToSet(sleepq.list) : wchan[r] = c}
<1>1. /\ wchan'[p] = IF p \in w THEN NoChan ELSE wchan[p]
      /\ stat'[p] = IF p \in w /\ stat[p] = "SSLEEP" THEN "SRUN" ELSE stat[p]
      /\ woken' = woken \cup w
      /\ sintr' = sintr /\ timedout' = timedout /\ siglist' = siglist
      /\ pc' = pc /\ call' = call /\ found' = found /\ ret' = ret
  BY DEF Wakeup, timer
<1>2. p \in w => wchan[p] # NoChan
  BY ChanAssumption
<1> HIDE DEF w
<1>3. CASE p \in w
  <2>1. pc[p] \in {"asleep", "stop1"} /\ p \notin timedout /\ ret[p] = "none"
    BY <1>2, <1>3 DEF Honest, SQInv, TimeoutSound
  <2>. QED  BY <1>1, <1>2, <1>3, <2>1 DEF Honest
<1>4. CASE p \notin w
  BY <1>1, <1>4 DEF Honest
<1>. QED  BY <1>3, <1>4

(* userret() changes nothing of what tsleep() returned.                    *)
LEMMA UserHonest ==
  ASSUME SQTypes, Linked, NEW p \in Proc, ToUser(p) \/ ResumeUser(p),
         Honest(p)
  PROVE  Honest(p)'
<1>1. /\ stat[p] = "SRUN" /\ wchan' = wchan /\ woken' = woken /\ ret' = ret
      /\ timedout' = timedout
  BY DEF ToUser, ResumeUser, Deliver, queue, timer, ghost
<1>2. pc'[p] \in {"run", "stopu"}
  BY DEF ToUser, ResumeUser, Deliver, StopFor, SQTypes
<1>3. wchan[p] = NoChan
  BY <1>1 DEF Linked
<1>. QED  BY <1>1, <1>2, <1>3 DEF Honest

(* Every step leaves each process in tsleep() with a reason to be off the  *)
(* chain.                                                                  *)
LEMMA NextHonest ==
  ASSUME SQInv, RestTypes, Linked, NoJobHandlers, AllInside, AllHonest,
         [Next]_vars
  PROVE  AllHonest'
<1>0. SQTypes /\ \A p \in Proc : Honest(p)
  BY DEF AllHonest, SQInv
<1>1. CASE UNCHANGED vars
  BY <1>1 DEF vars, AllHonest, Honest
<1>2. ASSUME NEW c \in Chan, Wakeup(c) PROVE AllHonest'
  <2>1. ASSUME NEW p \in Proc PROVE Honest(p)'
    BY <1>0, <1>2, WakeupHonest
  <2>. QED  BY <2>1 DEF AllHonest
<1>3. ASSUME NEW p \in Proc, Honest(p)', \A q \in Proc \ {p} : Same(q)
      PROVE  AllHonest'
  <2>1. ASSUME NEW q \in Proc \ {p} PROVE Honest(q)'
    BY <1>0, <1>3 DEF Honest, Same
  <2>. QED  BY <1>3, <2>1 DEF AllHonest
<1>4. ASSUME NEW p \in Proc,
             \/ \E c \in Chan, k \in [catch : Catch, timo : Timo] :
                  TSleep(p, c, k)
             \/ \E s \in Signals : Psignal(p, s)
             \/ Endtsleep(p) \/ Finish(p) \/ ResumeFirst(p)
             \/ ResumeSecond(p) \/ ToUser(p) \/ ResumeUser(p)
      PROVE  Honest(p)'
  BY <1>0, <1>4, TSleepHonest, PsignalHonest, EndtsleepHonest, FinishHonest,
     ResumeFirstHonest, ResumeSecondHonest, UserHonest
<1>5. ASSUME NEW p \in Proc,
             \/ \E c \in Chan, k \in [catch : Catch, timo : Timo] :
                  TSleep(p, c, k)
             \/ \E s \in Signals : Psignal(p, s)
             \/ Endtsleep(p) \/ Finish(p) \/ ResumeFirst(p)
             \/ ResumeSecond(p) \/ ToUser(p) \/ ResumeUser(p)
      PROVE  AllHonest'
  <2>1. \A q \in Proc \ {p} : Same(q)
    BY <1>0, <1>5, OthersSame
  <2>. QED  BY <1>3, <1>4, <1>5, <2>1
<1>. QED  BY <1>1, <1>2, <1>5 DEF Next

-----------------------------------------------------------------------------
(* Theorems.                                                               *)

(* Every routine keeps the types, and what TimeoutSound and                *)
(* StoppedOnlyIfAsked say.                                                 *)
THEOREM Invariance == Spec => []SQInv
BY InitInv, NextInv, PTL DEF Spec

(* Every routine keeps the chain sound, and P_SINTR within tsleep().       *)
THEOREM ChainInvariance == Spec => [](Linked /\ RestTypes /\ AllInside)
<1>1. Init => Linked /\ RestTypes /\ AllInside
  BY LinkedInit DEF Init, AllInside, Inside
<1>2. SQInv /\ Linked /\ RestTypes /\ AllInside /\ [Next]_vars =>
        (Linked /\ RestTypes /\ AllInside)'
  BY NextLinked, RestTyped, NextInside DEF SQInv
<1>. QED  BY <1>1, <1>2, Invariance, PTL DEF Spec

(* tsleep() and endtsleep(): no timeout outlives the tsleep() that started *)
(* it. *)
THEOREM TimeoutsAreSound == Spec => []TimeoutSound
<1>1. SQInv => TimeoutSound
  BY DEF SQInv
<1>. QED  BY <1>1, Invariance, PTL

(* psignal() and issignal(): a process is only ever stopped by a stop that *)
(* no SIGCONT has followed. *)
THEOREM StopsAreAskedFor == Spec => []StoppedOnlyIfAsked
<1>1. SQInv => StoppedOnlyIfAsked
  BY DEF SQInv
<1>. QED  BY <1>1, Invariance, PTL

(* wakeup(), endtsleep() and psignal(): only SIGCONT or SIGKILL takes a    *)
(* process out of SSTOP. *)
THEOREM StopsHold == Spec => StopHolds
<1> DEFINE Holds(p) == stat[p] = "SSTOP" /\ stat'[p] # "SSTOP" =>
                         last'[p] = "CONT" \/ "KILL" \in siglist'[p]
<1>1. ASSUME SQInv, [Next]_vars, NEW p \in Proc PROVE Holds(p)
  <2> SUFFICES ASSUME stat[p] = "SSTOP", stat'[p] # "SSTOP"
      PROVE last'[p] = "CONT" \/ "KILL" \in siglist'[p]
    OBVIOUS
  <2>0. SQTypes
    BY <1>1 DEF SQInv
  <2>1. ASSUME NEW q \in Proc, NEW s \in Signals, Psignal(q, s)
        PROVE  last'[p] = "CONT" \/ "KILL" \in siglist'[p]
    <3>1. PICK st \in {"SRUN", "SSLEEP", "SSTOP", "SZOMB"},
               x \in {wchan[q], NoChan},
               left \in SUBSET Pending(siglist[q], s) :
            /\ stat' = [stat EXCEPT ![q] = st]
            /\ wchan' = [wchan EXCEPT ![q] = x]
            /\ siglist' = [siglist EXCEPT ![q] = left]
            /\ st = "SSTOP" => s # "CONT" /\ (stat[q] = "SSTOP" \/ Stops(s))
            /\ stat[q] = "SSTOP" /\ st # "SSTOP" =>
                 s = "CONT" \/ "KILL" \in left
      <4>1. SignalEffect(q, s)
        BY <2>0, <2>1, PsignalEffect
      <4>. QED  BY <4>1 DEF SignalEffect
    <3>2. q = p
      BY <2>0, <3>1 DEF SQTypes
    <3>3. s = "CONT" \/ "KILL" \in siglist'[p]
      BY <2>0, <3>1, <3>2 DEF SQTypes
    <3>4. s = "CONT" => last'[p] = "CONT"
      BY <2>0, <2>1, <3>2 DEF Psignal, SQTypes
    <3>. QED  BY <3>3, <3>4
  <2>2. ASSUME NEW c \in Chan, Wakeup(c) PROVE FALSE
    BY <2>0, <2>2 DEF Wakeup, SQTypes
  <2>3. ASSUME NEW q \in Proc, Endtsleep(q) PROVE FALSE
    <3>1. CASE UNCHANGED stat
      BY <3>1
    <3>2. CASE Rouse(q)
      <4>1. PICK st \in {stat[q], "SRUN"} :
              /\ stat' = [stat EXCEPT ![q] = st]
              /\ wchan' = [wchan EXCEPT ![q] = NoChan]
              /\ stat[q] = "SSTOP" => st = "SSTOP"
        BY <2>0, <3>2, RouseEffect
      <4>. QED  BY <2>0, <4>1 DEF SQTypes
    <3>. QED  BY <2>3, <3>1, <3>2 DEF Endtsleep
  <2>4. ASSUME NEW q \in Proc, stat[q] = "SRUN",
               NEW st, stat' = [stat EXCEPT ![q] = st] \/ stat' = stat
        PROVE  FALSE
    BY <2>0, <2>4 DEF SQTypes
  <2>5. ASSUME NEW q \in Proc,
               \/ \E c \in Chan, k \in [catch : Catch, timo : Timo] :
                    TSleep(q, c, k)
               \/ Finish(q) \/ ResumeFirst(q) \/ ResumeSecond(q)
               \/ ToUser(q) \/ ResumeUser(q)
        PROVE  FALSE
    <3>1. stat[q] = "SRUN"
      BY <2>5 DEF TSleep, Finish, ResumeFirst, ResumeSecond, ToUser, ResumeUser
    <3>2. \E st : stat' = [stat EXCEPT ![q] = st] \/ stat' = stat
      BY <2>5 DEF TSleep, Finish, ResumeFirst, ResumeSecond, ToUser,
                  ResumeUser, CheckThenSleep, CheckThenReturn, Return, Deliver,
                  StopFor
    <3>. QED  BY <2>4, <3>1, <3>2
  <2>6. CASE UNCHANGED vars
    BY <2>6 DEF vars
  <2>. QED  BY <1>1, <2>1, <2>2, <2>3, <2>5, <2>6 DEF Next
<1>2. SQInv /\ [Next]_vars =>
        [\A p \in Proc : stat[p] = "SSTOP" /\ stat'[p] # "SSTOP" =>
           last'[p] = "CONT" \/ "KILL" \in siglist'[p]]_vars
  BY <1>1
<1>. QED  BY <1>2, Invariance, PTL DEF Spec, StopHolds

(* wakeup(), unsleep() and tsleep(): the chain holds exactly those that    *)
(* wait, each once, sq_tailp points into the last, and whoever is asleep   *)
(* is on it.                                                               *)
THEOREM ChainIsSound == Spec => []QueueSound
<1>1. SQInv /\ Linked /\ RestTypes => QueueSound
  BY DEF SQInv, SQTypes, Calls, RestTypes, Linked, ChainSound, QueueSound,
         TypeOK
<1>. QED  BY <1>1, Invariance, ChainInvariance, PTL

(* psignal() and the first CURSIG of tsleep(): nobody sleeps interruptibly *)
(* with a signal pending that it would have to take, if no such signal has *)
(* a higher number than a stop. *)
THEOREM SleepersHear ==
  ASSUME StopsComeLast PROVE Spec => []NoDeafSleeper
<1>1. Init => AllHear
  BY DEF Init, AllHear, Hears
<1>2. SQInv /\ Linked /\ RestTypes /\ AllInside /\ AllHear /\ [Next]_vars =>
        AllHear'
  BY NextHears DEF SQInv
<1>3. RestTypes /\ AllHear => NoDeafSleeper
  BY DEF RestTypes, AllHear, Hears, NoDeafSleeper
<1>. QED  BY <1>1, <1>2, <1>3, Invariance, ChainInvariance, PTL DEF Spec

(* tsleep(): it returns 0 just to those that a wakeup() found, and         *)
(* EWOULDBLOCK to none of them, if SIGTSTP and SIGCONT have no handlers.   *)
THEOREM ReturnsAreTrue ==
  ASSUME NoJobHandlers PROVE Spec => []ReturnsTruth
<1>1. Init => AllHonest
  BY DEF Init, AllHonest, Honest
<1>2. SQInv /\ Linked /\ RestTypes /\ AllInside /\ AllHonest /\ [Next]_vars =>
        AllHonest'
  BY NextHonest
<1>3. AllHonest => ReturnsTruth
  BY DEF AllHonest, Honest, ReturnsTruth
<1>. QED  BY <1>1, <1>2, <1>3, Invariance, ChainInvariance, PTL DEF Spec

=============================================================================
