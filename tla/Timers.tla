------------------------------- MODULE Timers --------------------------------
(***************************************************************************)
(* What timeout(), untimeout() and softclock() promise                     *)
(* (sys/kern/kern_clock.c): a function runs no earlier than the number of  *)
(* ticks it asked for, functions run in the order of their times, and      *)
(* cancelling one leaves the times of the others alone.                    *)
(***************************************************************************)
EXTENDS Integers, Bags

CONSTANTS Fn,       \* the (function, argument) pairs
          Ticks     \* the ticks argument of timeout()

VARIABLES armed,    \* the bag of pending timeouts, each with the ticks left
          running   \* the function that is being run: a set of one, or {}

Entry(f, n) == [fn |-> f, left |-> n]

Init == armed = EmptyBag /\ running = {}

Arm(f, n) ==
  /\ armed' = armed (+) SetToBag({Entry(f, IF n > 0 THEN n ELSE 1)})
  /\ UNCHANGED running

(* Every pending timeout comes one tick nearer, an overdue one as well.    *)
Tick ==
  /\ armed' = [e \in {Entry(x.fn, x.left - 1) : x \in BagToSet(armed)} |->
                 armed[Entry(e.fn, e.left + 1)]]
  /\ UNCHANGED running

Earliest(S) == {e \in S : \A d \in S : e.left <= d.left}

(* The earliest timeout has come, and its function is run, when the one    *)
(* before it is through.                                                   *)
Fire(f) ==
  /\ running = {} /\ running' = {f}
  /\ \E e \in Earliest(BagToSet(armed)) :
       /\ e.fn = f /\ e.left <= 0
       /\ armed' = armed (-) SetToBag({e})

Done == running # {} /\ running' = {} /\ UNCHANGED armed

(* Of several timeouts of one function the first to come is cancelled; no  *)
(* function is run for it.                                                 *)
Cancel(f) ==
  /\ \E e \in Earliest({x \in BagToSet(armed) : x.fn = f}) :
       armed' = armed (-) SetToBag({e})
  /\ UNCHANGED running

Next == \/ Tick \/ Done
        \/ \E f \in Fn : Fire(f) \/ Cancel(f) \/ \E n \in Ticks : Arm(f, n)

Spec == Init /\ [][Next]_<<armed, running>>
=============================================================================
