------------------------------- MODULE Callout -------------------------------
(***************************************************************************)
(* The callout queue of sys/kern/kern_clock.c: timeout(), untimeout(),     *)
(* hardclock() and softclock(). A list entry holds the ticks between the   *)
(* entry before it and itself, so that hardclock() has only the head to    *)
(* decrement; entries that are due are at the head, with their lateness.   *)
(*                                                                         *)
(* The queue is changed at splhigh; softclock() lowers it to call a        *)
(* function, so that everything can happen until that returns. A function  *)
(* that it calls is part of the environment, which calls timeout() and     *)
(* untimeout() at any time.                                                *)
(***************************************************************************)
EXTENDS Integers, SequencesExt

CONSTANTS
  Fn,         \* the (c_func, c_arg) pairs
  Ticks,      \* the ticks argument of timeout()
  NCallout,   \* ncallout: callers stay within the table, as it panics
  MaxLate     \* bound: ticks that softclock() may be late

ASSUME CalloutAssumption ==
  /\ Ticks \subseteq Int
  /\ NCallout \in Nat \ {0}
  /\ MaxLate \in Nat

VARIABLES
  calltodo,   \* the queue: c_func with c_arg, and c_time
  soft,       \* the software interrupt is pending or running
  running     \* the function that softclock() has called: a set of one, or {}

vars == <<calltodo, soft, running>>

(* BugDue is a plausible slip in the definition after it; no behaviour     *)
(* uses it.                                                                *)
BugDue(q) == q # <<>>

Due(q) == q # <<>> /\ q[1].time <= 0

-----------------------------------------------------------------------------
(* The leading entries that hardclock() decrements: all that are due and   *)
(* the first that is not.                                                  *)
Reached(q, i) == \A j \in 1 .. (i - 1) : q[j].time <= 0

Hardclock ==
  /\ \A i \in DOMAIN calltodo : calltodo[i].time > -MaxLate
  /\ calltodo' = [i \in DOMAIN calltodo |->
                    IF Reached(calltodo, i)
                    THEN [calltodo[i] EXCEPT !.time = @ - 1]
                    ELSE calltodo[i]]
  /\ soft' = TRUE
  /\ UNCHANGED running

(* The ticks from now, or from the last entry that is due, to entry i - 1. *)
Passed(q, i) ==
  FoldLeft(LAMBDA n, e : IF e.time > 0 THEN n + e.time ELSE n, 0,
           SubSeq(q, 1, i - 1))

(* Where timeout() stops: at the first entry that is not nearer.           *)
Place(q, n) ==
  LET stops == {i \in DOMAIN q : n - Passed(q, i) <= q[i].time}
  IN  IF stops = {} THEN Len(q) + 1 ELSE Min(stops)

Insert(q, f, n) ==
  LET i == Place(q, n)
      rest == n - Passed(q, i)
      after == IF i > Len(q) THEN q ELSE [q EXCEPT ![i].time = @ - rest]
  IN  InsertAt(after, i, [fn |-> f, time |-> rest])

Timeout(f, n) ==
  /\ Len(calltodo) < NCallout
  /\ calltodo' = Insert(calltodo, f, IF n <= 0 THEN 1 ELSE n)
  /\ UNCHANGED <<soft, running>>

(* The entry after the one that goes takes its ticks over, unless it was   *)
(* due.                                                                    *)
Delete(q, i) ==
  LET after == IF i < Len(q) /\ q[i].time > 0
               THEN [q EXCEPT ![i + 1].time = @ + q[i].time] ELSE q
  IN  RemoveAt(after, i)

Untimeout(f) ==
  /\ \E i \in DOMAIN calltodo :
       /\ calltodo[i].fn = f
       /\ \A j \in 1 .. (i - 1) : calltodo[j].fn # f
       /\ calltodo' = Delete(calltodo, i)
  /\ UNCHANGED <<soft, running>>

(* softclock() takes the head off and calls its function, or ends.         *)
Softclock ==
  /\ soft /\ running = {}
  /\ \/ /\ Due(calltodo)
        /\ calltodo' = Tail(calltodo)
        /\ running' = {Head(calltodo).fn}
        /\ UNCHANGED soft
     \/ /\ ~Due(calltodo)
        /\ soft' = FALSE
        /\ UNCHANGED <<calltodo, running>>

Returns ==
  /\ running # {}
  /\ running' = {}
  /\ UNCHANGED <<calltodo, soft>>

-----------------------------------------------------------------------------
Init == calltodo = <<>> /\ soft = FALSE /\ running = {}

Next == \/ Hardclock
        \/ Softclock \/ Returns
        \/ \E f \in Fn : Untimeout(f) \/ \E n \in Ticks : Timeout(f, n)

Spec == Init /\ [][Next]_vars

-----------------------------------------------------------------------------
(* The ticks that are left to entry i.                                     *)
Left(q, i) ==
  IF Reached(q, i) THEN q[i].time
  ELSE Passed(q, i) + (IF q[i].time > 0 THEN q[i].time ELSE 0)

TimersOf(q) ==
  LET entry(i) == [fn |-> q[i].fn, left |-> Left(q, i)]
  IN  [e \in {entry(i) : i \in DOMAIN q} |->
         Cardinality({i \in DOMAIN q : entry(i) = e})]

(* The list of differences behaves as the bag of times: timeout() and      *)
(* untimeout() anywhere in the queue change no other entry's time,         *)
(* hardclock() brings each one tick nearer, and what softclock() calls is  *)
(* the function of the earliest entry, which is due, each entry once and   *)
(* one at a time; only untimeout() takes an entry away without a call.     *)
T == INSTANCE Timers WITH armed <- TimersOf(calltodo)
ImplementsTimers == T!Spec
=============================================================================
