---------------------------- MODULE PassedRights -----------------------------
(***************************************************************************)
(* What passing descriptors promises: a right in a message that somebody   *)
(* may still receive stays in that message, and the file it is for stays   *)
(* as it is, until it is received. Of a socket that no process has, and    *)
(* that is in no such message, nothing is said but that it is empty when   *)
(* it comes into use again.                                                *)
(***************************************************************************)
EXTENDS Integers, SequencesExt, FiniteSets

CONSTANTS
  Proc,
  File,
  Sock    \* those of File that are sockets

VARIABLES
  fds,    \* how often a process has a descriptor for a file
  box,    \* the messages that wait on a socket
  hand    \* the rights of a message that a process has not yet got all of

vars == <<fds, box, hand>>

Count(f, m) == Cardinality({i \in DOMAIN m : m[i] = f})

Got(n, m) == [f \in File |-> n[f] + Count(f, m)]

Held(n, h) ==
  {f \in File : \E p \in Proc : n[p][f] > 0 \/ f \in ToSet(h[p])}

(* The files that a process has, or can come to have by receiving.         *)
In(msgs) == UNION {ToSet(msgs[i]) : i \in DOMAIN msgs}

Further(S, b) == S \cup UNION {In(b[s]) : s \in S \cap Sock}

Reach(n, b, h) ==
  LET Far[i \in 0 .. Cardinality(Sock)] ==
        IF i = 0 THEN Held(n, h) ELSE Further(Far[i - 1], b)
  IN Far[Cardinality(Sock)]

(* The messages are b, as far as anybody can receive them.                 *)
BoxIs(b) ==
  \A s \in Reach(fds', b, hand') \cap Sock : box'[s] = b[s]

Init ==
  /\ fds = [p \in Proc |-> [f \in File |-> 0]]
  /\ box = [s \in Sock |-> <<>>]
  /\ hand = [p \in Proc |-> <<>>]

(* What nobody can reach any more changes, or goes.                        *)
Forget ==
  /\ UNCHANGED <<fds, hand>>
  /\ box' # box /\ BoxIs(box)

(* New files: nobody could reach what they were before.                    *)
Open(p) ==
  /\ fds' # fds /\ UNCHANGED hand
  /\ \A q \in Proc \ {p} : fds'[q] = fds[q]
  /\ \A f \in File :
       \/ fds'[p][f] = fds[p][f]
       \/ /\ fds'[p][f] = 1 /\ f \notin Reach(fds, box, hand)
          /\ f \in Sock => box[f] = <<>>
  /\ BoxIs(box)

Fork(p, q) ==
  /\ \A f \in File : fds[q][f] = 0
  /\ fds' = [fds EXCEPT ![q] = fds[p]] /\ UNCHANGED hand
  /\ BoxIs(box)

Close(p, f) ==
  /\ fds[p][f] > 0
  /\ fds' = [fds EXCEPT ![p][f] = @ - 1] /\ UNCHANGED hand
  /\ BoxIs(box)

(* A message of files that p has arrives at a socket t. (One that is lost  *)
(* changes nothing.)                                                       *)
Send(p, t) ==
  /\ UNCHANGED <<fds, hand>>
  /\ Len(box'[t]) = Len(box[t]) + 1
  /\ \A f \in ToSet(Last(box'[t])) : fds[p][f] > 0
  /\ BoxIs([box EXCEPT ![t] = Append(@, Last(box'[t]))])

(* All of a message, the first n rights of it for now, or an error.        *)
Receive(p, s) ==
  /\ fds[p][s] > 0 /\ box[s] # <<>> /\ box'[s] = Tail(box[s])
  /\ LET m == Head(box[s])
     IN \E n \in 0 .. Len(m) :
          /\ fds' = [fds EXCEPT ![p] = Got(@, SubSeq(m, 1, n))]
          /\ hand' = [hand EXCEPT ![p] = IF n = 0 THEN @ ELSE SubSeq(m, n + 1, Len(m))]
  /\ BoxIs([box EXCEPT ![s] = Tail(@)])

ReceiveRest(p) ==
  /\ hand' = [hand EXCEPT ![p] = <<>>]
  /\ fds' = [fds EXCEPT ![p] = Got(@, hand[p])]
  /\ BoxIs(box)

Next ==
  \/ Forget
  \/ \E p \in Proc :
       \/ Open(p)
       \/ \E q \in Proc : Fork(p, q)
       \/ \E f \in File : Close(p, f)
       \/ \E s \in Sock : Send(p, s) \/ Receive(p, s)
       \/ ReceiveRest(p)

Spec == Init /\ [][Next]_vars
=============================================================================
