------------------------------ MODULE FdPassing ------------------------------
(***************************************************************************)
(* Open files that are passed in messages over Unix domain sockets, from   *)
(* sys/kern/uipc_usrreq.c and kern_descrip.c: unp_internalize(),           *)
(* unp_externalize(), closef() with what it leads to for a socket, and the *)
(* collector unp_gc(). Closing a socket discards what is in its queue,     *)
(* which may close further files, which may start the collector, which     *)
(* closes files: `stack` is what a process in the kernel still has to do,  *)
(* innermost first. A process keeps the CPU until it sleeps: for memory in *)
(* the collector and when its descriptor table has to grow, or in the      *)
(* close of a file that is no socket. Definitions called Bug... are        *)
(* variants of the one that follows each of them.                          *)
(***************************************************************************)
EXTENDS Integers, SequencesExt, FiniteSetsExt

CONSTANTS
  Proc,
  Sock,       \* file table entries used for Unix domain sockets
  Plain,      \* entries used for anything else
  None,
  MaxFds,     \* descriptors a process may have (RLIMIT_NOFILE)
  MaxQueue,   \* messages that a receive buffer has room for
  MaxRights   \* bound: rights in flight

File == Sock \cup Plain

ASSUME FdAssumption ==
  /\ IsFiniteSet(Proc) /\ IsFiniteSet(File)
  /\ None \notin File
  /\ Sock \cap Plain = {}
  /\ MaxFds \in Nat /\ MaxQueue \in Nat /\ MaxRights \in Nat

VARIABLES
  live,       \* the entries in use (filehead)
  count,      \* f_count
  msgcount,   \* f_msgcount
  fds,        \* fds[p][f]: how often f is in the descriptor table of p
  peer,       \* unp_conn
  queue,      \* the messages in so_rcv, each a sequence of rights
  rights,     \* unp_rights
  gcing,      \* unp_gcing
  marked,     \* FMARK, from the mark phase to the end of the collection
  stack,
  leaked,     \* rights that were counted and then dropped with their message
  garbage,    \* what the collector found unreferenced, and is not freed yet
  hurt        \* the collector went astray; nothing is said of what follows

vars == <<live, count, msgcount, fds, peer, queue, rights, gcing, marked, stack,
          leaked, garbage, hurt>>

(* Occurrences of x in the sequence s.                                     *)
Times(x, s) == Cardinality({i \in DOMAIN s : s[i] = x})

(* The files that there are rights for in a queue.                         *)
Contents(q) == UNION {ToSet(q[i]) : i \in DOMAIN q}

-----------------------------------------------------------------------------
(* What a process in the kernel has still to do.                           *)

Frame(op, arg) == [op |-> op, arg |-> arg]

Busy(p) == stack[p] # <<>>

Top(p) == Head(stack[p])

At(p, op) == Busy(p) /\ Top(p).op = op

Asleep(p) == Busy(p) /\ Top(p).op \in {"memory", "slow", "grow"}

(* p may run: nobody else is between two sleeps.                           *)
Cpu(p) == \A q \in Proc \ {p} : Busy(q) => Asleep(q)

Idle(p) == Cpu(p) /\ ~Busy(p)

(* The innermost frame is done, and `frames` are to be done in its place.  *)
Go(p, frames) == stack' = [stack EXCEPT ![p] = frames \o Tail(@)]

Enter(p, frames) == stack' = [stack EXCEPT ![p] = frames]

Init ==
  /\ live = {}
  /\ count = [f \in File |-> 0] /\ msgcount = [f \in File |-> 0]
  /\ fds = [p \in Proc |-> [f \in File |-> 0]]
  /\ peer = [s \in Sock |-> None]
  /\ queue = [s \in Sock |-> <<>>]
  /\ rights = 0 /\ gcing = FALSE /\ marked = {}
  /\ stack = [p \in Proc |-> <<>>]
  /\ leaked = [f \in File |-> 0] /\ garbage = {}
  /\ hurt = FALSE

-----------------------------------------------------------------------------
(* System calls.                                                           *)

Fds(p) == FoldFunction(+, 0, fds[p])

(* socketpair(), and open() or socket(), whose result is not connected. A  *)
(* new entry has no FMARK.                                                 *)
Socketpair(p, a, b) ==
  /\ Idle(p) /\ a # b /\ {a, b} \cap live = {} /\ Fds(p) + 2 <= MaxFds
  /\ live' = live \cup {a, b} /\ marked' = marked \ {a, b}
  /\ count' = [count EXCEPT ![a] = 1, ![b] = 1]
  /\ fds' = [fds EXCEPT ![p][a] = 1, ![p][b] = 1]
  /\ peer' = [peer EXCEPT ![a] = b, ![b] = a]
  /\ UNCHANGED <<msgcount, queue, rights, gcing, stack, leaked, garbage, hurt>>

Open(p, f) ==
  /\ Idle(p) /\ f \notin live /\ Fds(p) < MaxFds
  /\ live' = live \cup {f} /\ marked' = marked \ {f}
  /\ count' = [count EXCEPT ![f] = 1]
  /\ fds' = [fds EXCEPT ![p][f] = 1]
  /\ UNCHANGED <<msgcount, peer, queue, rights, gcing, stack, leaked, garbage,
                 hurt>>

(* fdcopy(): q is a new process.                                           *)
Fork(p, q) ==
  /\ Idle(p) /\ ~Busy(q) /\ Fds(p) > 0 /\ Fds(q) = 0
  /\ count' = [f \in File |-> count[f] + fds[p][f]]
  /\ fds' = [fds EXCEPT ![q] = fds[p]]
  /\ UNCHANGED <<live, msgcount, peer, queue, rights, gcing, marked, stack,
                 leaked, garbage, hurt>>

(* close(), also as a part of exit() and exec().                           *)
Close(p, f) ==
  /\ Idle(p) /\ fds[p][f] > 0
  /\ fds' = [fds EXCEPT ![p][f] = @ - 1]
  /\ Enter(p, <<Frame("closef", f)>>)
  /\ UNCHANGED <<live, count, msgcount, peer, queue, rights, gcing, marked,
                 leaked, garbage, hurt>>

(* unp_internalize(): the message takes references of its own.             *)
Internalized(m, c) == [f \in File |-> c[f] + Times(f, m)]

(* sendmsg() on s with the rights m. When the queue of the other end is    *)
(* full, or the socket was disconnected while the data were copied in, the *)
(* message is freed, and its references stay.                              *)
Send(p, s, m) ==
  /\ Idle(p) /\ fds[p][s] > 0 /\ \A f \in ToSet(m) : fds[p][f] > 0
  /\ rights + Len(m) <= MaxRights
  /\ count' = Internalized(m, count)
  /\ msgcount' = Internalized(m, msgcount)
  /\ rights' = rights + Len(m)
  /\ IF peer[s] # None /\ Len(queue[peer[s]]) < MaxQueue
     THEN queue' = [queue EXCEPT ![peer[s]] = Append(@, m)] /\ UNCHANGED leaked
     ELSE leaked' = Internalized(m, leaked) /\ UNCHANGED queue
  /\ UNCHANGED <<live, fds, peer, gcing, marked, stack, garbage, hurt>>

(* unp_externalize() of one right after the other.                         *)
BugTaken(p, m) ==
  /\ fds' = [fds EXCEPT ![p] = Internalized(m, @)]
  /\ msgcount' = msgcount
  /\ rights' = rights - Len(m)

Taken(p, m) ==
  /\ fds' = [fds EXCEPT ![p] = Internalized(m, @)]
  /\ msgcount' = [f \in File |-> msgcount[f] - Times(f, m)]
  /\ rights' = rights - Len(m)

(* recvmsg() on s. With too few descriptors left everything is discarded;  *)
(* when the table has to grow, part of the message is taken before it      *)
(* sleeps for memory, and the message is still the first of the queue      *)
(* ("grow", "spilt").                                                      *)
Receive(p, s) ==
  /\ Idle(p) /\ fds[p][s] > 0 /\ queue[s] # <<>>
  /\ queue' = [queue EXCEPT ![s] = Tail(@)]
  /\ LET m == Head(queue[s])
     IN IF Fds(p) + Len(m) > MaxFds
        THEN /\ Enter(p, <<Frame("discard", m), Frame("spilt", None)>>)
             /\ UNCHANGED <<fds, msgcount, rights>>
        ELSE \E n \in 1 .. Len(m) :
               /\ Taken(p, SubSeq(m, 1, n))
               /\ IF n = Len(m) THEN UNCHANGED stack
                  ELSE Enter(p, <<Frame("grow", SubSeq(m, n + 1, Len(m)))>>)
  /\ UNCHANGED <<live, count, peer, gcing, marked, leaked, garbage, hurt>>

Grown(p) ==
  /\ At(p, "grow") /\ Cpu(p)
  /\ Taken(p, Top(p).arg)
  /\ Go(p, <<>>)
  /\ UNCHANGED <<live, count, peer, queue, gcing, marked, leaked, garbage,
                 hurt>>

-----------------------------------------------------------------------------
(* closef() and what it leads to.                                          *)

(* The last close of a socket: unp_detach(), which flushes the queue and   *)
(* calls the collector if there are rights in flight, then sofree().       *)
BugClosing(f) ==
  (IF rights > 0 THEN <<Frame("collect", None)>> ELSE <<>>)
    \o <<Frame("flush", f), Frame("free", f)>>

Closing(f) ==
  (IF rights > 0 THEN <<Frame("flush", f), Frame("collect", None)>> ELSE <<>>)
    \o <<Frame("flush", f), Frame("free", f)>>

Closef(p) ==
  /\ At(p, "closef") /\ Cpu(p)
  /\ LET f == Top(p).arg
         last == count[f] <= 1
     IN /\ count' = [count EXCEPT ![f] = @ - 1]
        /\ peer' = IF last /\ f \in Sock
                   THEN [s \in Sock |-> IF s = f \/ peer[s] = f THEN None
                                        ELSE peer[s]]
                   ELSE peer
        /\ Go(p, CASE ~last -> <<>>
                   [] last /\ f \in Sock -> Closing(f)
                   [] last /\ f \in Plain -> <<Frame("slow", f)>>)
  /\ UNCHANGED <<live, msgcount, fds, queue, rights, gcing, marked, leaked,
                 garbage, hurt>>

(* vn_close() is over, or the socket is free: ffree().                     *)
Free(p) ==
  /\ (At(p, "free") \/ At(p, "slow")) /\ Cpu(p)
  /\ live' = live \ {Top(p).arg} /\ garbage' = garbage \ {Top(p).arg}
  /\ Go(p, <<>>)
  /\ UNCHANGED <<count, msgcount, fds, peer, queue, rights, gcing, marked,
                 leaked, hurt>>

(* sorflush(): the queue is taken off first, then its rights discarded.    *)
Flush(p) ==
  /\ At(p, "flush") /\ Cpu(p)
  /\ queue' = [queue EXCEPT ![Top(p).arg] = <<>>]
  /\ Go(p, <<Frame("discard", FlattenSeq(queue[Top(p).arg]))>>)
  /\ UNCHANGED <<live, count, msgcount, fds, peer, rights, gcing, marked,
                 leaked, garbage, hurt>>

(* unp_discard() of the first right that is left.                          *)
Discard(p) ==
  /\ At(p, "discard") /\ Cpu(p)
  /\ LET m == Top(p).arg
     IN IF m = <<>>
        THEN Go(p, <<>>) /\ UNCHANGED <<msgcount, rights>>
        ELSE /\ msgcount' = [msgcount EXCEPT ![Head(m)] = @ - 1]
             /\ rights' = rights - 1
             /\ Go(p, <<Frame("closef", Head(m)), Frame("discard", Tail(m))>>)
  /\ UNCHANGED <<live, count, fds, peer, queue, gcing, marked, leaked,
                 garbage, hurt>>

(* The message whose rights did not fit is taken off the queue.            *)
Spilt(p) ==
  /\ At(p, "spilt") /\ Cpu(p)
  /\ Go(p, <<>>)
  /\ UNCHANGED <<live, count, msgcount, fds, peer, queue, rights, gcing,
                 marked, leaked, garbage, hurt>>

-----------------------------------------------------------------------------
(* unp_gc().                                                               *)

(* Whatever is referenced by more than messages, and what is in the queue  *)
(* of a marked socket, and so on, as far as unp_mark() and the loop come.  *)
BugRoots == {f \in live : count[f] > 0 /\ msgcount[f] = 0}

Roots == {f \in live : count[f] > 0 /\ count[f] # msgcount[f]}

MarkOnce(S) == S \cup UNION {Contents(queue[s]) : s \in S \cap Sock}

Marked(from) ==
  LET Mark[n \in 0 .. Cardinality(Sock)] ==
        IF n = 0 THEN from ELSE MarkOnce(Mark[n - 1])
  IN Mark[Cardinality(Sock)]

(* A message that is being taken apart is still in its queue: the mark     *)
(* phase meets what is no file any more, or one whose count is 0, for      *)
(* which it loops for ever.                                                *)
InPieces == \E p \in Proc : \E i \in DOMAIN stack[p] :
              stack[p][i].op \in {"spilt", "grow"}

Collect(p) ==
  /\ At(p, "collect") /\ Cpu(p)
  /\ IF gcing
     THEN Go(p, <<>>) /\ UNCHANGED <<gcing, marked, hurt>>
     ELSE /\ gcing' = TRUE
          /\ marked' = Marked(Roots)
          /\ hurt' = InPieces
          /\ Go(p, <<Frame("memory", None)>>)
  /\ UNCHANGED <<live, count, msgcount, fds, peer, queue, rights, leaked,
                 garbage>>

(* What a process has in hand, of a message that it is still receiving.    *)
InGrow == [p \in Proc |-> IF At(p, "grow") THEN Top(p).arg ELSE <<>>]

Growing == UNION {ToSet(InGrow[p]) : p \in Proc}

(* After malloc(), which may have slept: an extra reference to each file   *)
(* that is not marked. All of them are taken for sockets; one that came to *)
(* be during the sleep has no mark, however well it can be reached.        *)
Unref == {f \in live : count[f] > 0 /\ count[f] = msgcount[f] /\ f \notin marked}

BugSweep(p) ==
  /\ At(p, "memory") /\ Cpu(p)
  /\ garbage' = Unref
  /\ hurt' = (Unref \cap (Plain \cup Marked(Roots \cup Growing)) # {})
  /\ Go(p, <<Frame("sweep", Unref), Frame("done", None)>>)
  /\ UNCHANGED <<live, count, msgcount, fds, peer, queue, rights, gcing,
                 marked, leaked>>

Sweep(p) ==
  /\ At(p, "memory") /\ Cpu(p)
  /\ garbage' = Unref
  /\ hurt' = (Unref \cap (Plain \cup Marked(Roots \cup Growing)) # {})
  /\ count' = [f \in File |-> IF f \in Unref THEN count[f] + 1 ELSE count[f]]
  /\ Go(p, <<Frame("sweep", Unref), Frame("drop", Unref), Frame("done", None)>>)
  /\ UNCHANGED <<live, msgcount, fds, peer, queue, rights, gcing, marked,
                 leaked>>

(* First sorflush() for each of them, then closef(), in the order of       *)
(* filehead.                                                               *)
EachUnref(p) ==
  /\ (At(p, "sweep") \/ At(p, "drop")) /\ Cpu(p)
  /\ LET S == Top(p).arg
         op == IF At(p, "sweep") THEN "flush" ELSE "closef"
     IN \/ S = {} /\ Go(p, <<>>)
        \/ \E f \in S : Go(p, <<Frame(op, f), Frame(Top(p).op, S \ {f})>>)
  /\ UNCHANGED <<live, count, msgcount, fds, peer, queue, rights, gcing,
                 marked, leaked, garbage, hurt>>

Collected(p) ==
  /\ At(p, "done") /\ Cpu(p)
  /\ gcing' = FALSE /\ marked' = {} /\ garbage' = {}
  /\ Go(p, <<>>)
  /\ UNCHANGED <<live, count, msgcount, fds, peer, queue, rights, leaked,
                 hurt>>

-----------------------------------------------------------------------------
(* Messages: one right or two.                                             *)
Message == {<<f>> : f \in File} \cup {<<f, g>> : f, g \in File}

Step(p) ==
  \/ \E a, b \in Sock : Socketpair(p, a, b)
  \/ \E f \in File : Open(p, f)
  \/ \E q \in Proc \ {p} : Fork(p, q)
  \/ \E f \in File : Close(p, f)
  \/ \E s \in Sock, m \in Message : Send(p, s, m)
  \/ \E s \in Sock : Receive(p, s)
  \/ Grown(p) \/ Closef(p) \/ Free(p) \/ Flush(p) \/ Discard(p) \/ Spilt(p)
  \/ Collect(p) \/ Sweep(p) \/ EachUnref(p) \/ Collected(p)

Next == ~hurt /\ \E p \in Proc : Step(p)

Spec == Init /\ [][Next]_vars

-----------------------------------------------------------------------------
(* Occurrences of f in the queues, in what the processes have still to do  *)
(* (rights that are off the queue), and references that are about to be    *)
(* given up.                                                               *)
InQueues(f) ==
  FoldFunction(+, 0, [s \in Sock |-> Times(f, FlattenSeq(queue[s]))])

Hand(frames) ==
  FlattenSeq([i \in DOMAIN frames |->
                IF frames[i].op \in {"discard", "grow"} THEN frames[i].arg
                ELSE <<>>])

InHand(f) == FoldFunction(+, 0, [p \in Proc |-> Times(f, Hand(stack[p]))])

Closes(fr, f) == \/ fr.op = "closef" /\ fr.arg = f
                 \/ fr.op = "drop" /\ f \in fr.arg

Closings(frames, f) == Cardinality({i \in DOMAIN frames : Closes(frames[i], f)})

ToClose(f) == FoldFunction(+, 0, [p \in Proc |-> Closings(stack[p], f)])

(* The counts are true at every moment, through all that one close can set *)
(* off: f_msgcount counts the rights in messages (and those that a failed  *)
(* sendmsg() left behind), f_count those and the descriptors; nothing is   *)
(* freed that is referred to, or that is still to be flushed or closed     *)
(* ("closef: count < 0", "soclose: NOFDREF").                              *)
CountsTrue ==
  /\ \A f \in File :
       /\ msgcount[f] = InQueues(f) + InHand(f) + leaked[f]
       /\ count[f] = FoldFunction(+, 0, [p \in Proc |-> fds[p][f]])
                     + msgcount[f] + ToClose(f)
       /\ count[f] > 0 => f \in live
  /\ rights = FoldFunction(+, 0, msgcount)
  /\ \A p \in Proc : \A i \in DOMAIN stack[p] :
       LET fr == stack[p][i] IN
       /\ fr.op \in {"closef", "flush", "free", "slow"} => fr.arg \in live
       /\ fr.op \in {"sweep", "drop"} => fr.arg \subseteq live
       /\ fr.op \in {"free", "slow"} => count[fr.arg] = 0

(* When the collector is through, what it found unreferenced is gone, but  *)
(* for rights that somebody has in hand, those that leaked, those that     *)
(* were put on a marked socket while it slept, and what somebody else is   *)
(* freeing at this moment.                                                 *)
GarbageGone ==
  \A p \in Proc : At(p, "done") =>
    \A f \in garbage :
      \/ leaked[f] + InHand(f) > 0
      \/ \E s \in marked \cap Sock : f \in Contents(queue[s])
      \/ \E q \in Proc : Frame("free", f) \in ToSet(stack[q])

(* As long as nothing is hurt, rights are passed as PassedRights says.     *)
Rights == INSTANCE PassedRights WITH box <- queue, hand <- InGrow

ImplementsRights == Rights!Spec
=============================================================================
