------------------------------ MODULE ByteLocks ------------------------------
(***************************************************************************)
(* What advisory locks promise (lib/libc/sys/fcntl.2): each byte of a file *)
(* is free, shared by some owners or held by one exclusively; an owner has *)
(* one lock on a byte, the last that it asked for. A request is a lock or  *)
(* an unlock of an owner on a range of bytes; it changes the bytes of that *)
(* range, for that owner, when it ends, or it fails and changes nothing.   *)
(***************************************************************************)
EXTENDS Integers

CONSTANTS Proc, Owner, Byte,
          Asks        \* the requests of each process

VARIABLES holds,      \* the lock of each owner on each byte
          ask         \* the request of each process that has one

vars == <<holds, ask>>

NoRequest == [type |-> "none"]

Area(k) == {b \in Byte : k.start <= b /\ (k.end = -1 \/ b <= k.end)}

Init == /\ holds = [o \in Owner |-> [b \in Byte |-> "none"]]
        /\ ask = [p \in Proc |-> NoRequest]

(* The map in which the owner of k has this on the bytes of k.             *)
Put(k, type) ==
  [holds EXCEPT ![k.id] = [b \in Byte |-> IF b \in Area(k) THEN type ELSE @[b]]]

InTheWay(r, k) ==
  r # k.id /\ \E b \in Area(k) : IF k.type = "WR" THEN holds[r][b] # "none"
                                 ELSE holds[r][b] = "WR"

Ask(p) == /\ ask[p] = NoRequest
          /\ \E k \in Asks[p] : ask' = [ask EXCEPT ![p] = k]
          /\ UNCHANGED holds

Ends(p) == ask[p] # NoRequest /\ ask' = [ask EXCEPT ![p] = NoRequest]

(* A lock on its range, whatever its owner had there before.               *)
Set(p) == /\ Ends(p)
          /\ ask[p].type # "UN" /\ ~ \E r \in Owner : InTheWay(r, ask[p])
          /\ holds' = Put(ask[p], ask[p].type)

Clear(p) == Ends(p) /\ ask[p].type = "UN" /\ holds' = Put(ask[p], "none")

(* Only a request for a lock can fail.                                     *)
Refuse(p) == Ends(p) /\ ask[p].type # "UN" /\ UNCHANGED holds

(* flock(2): who must wait for an exclusive lock gives up a shared one.    *)
GiveUp(p) == /\ ask[p].type = "WR" /\ ask[p].id \notin Proc
             /\ \E r \in Owner : InTheWay(r, ask[p])
             /\ holds' = Put(ask[p], "none")
             /\ UNCHANGED ask

Next == \E p \in Proc : Ask(p) \/ Set(p) \/ Clear(p) \/ Refuse(p) \/ GiveUp(p)

Spec == Init /\ [][Next]_vars
=============================================================================
