---------------------------- MODULE FdPassingProofs ----------------------------
(***************************************************************************)
(* The counts of open files are true at every moment, and a collection     *)
(* leaves nothing of what it found, for any number of processes, sockets   *)
(* and files.                                                              *)
(*                                                                         *)
(* The inductive invariant FdInv counts: the rights in the queues and in   *)
(* the frames of the stacks, the references that frames will give up, and  *)
(* the frames that will free a file, of which there is never more than     *)
(* one. A step takes some frames off a stack and puts others on; what that *)
(* does to each number is said once, in Restacked. GcInv, on top of it,    *)
(* says what a collection goes through: how the stacks are built, that     *)
(* what was found is cut off from all processes, and who will flush the    *)
(* queues that still have some of it.                                      *)
(***************************************************************************)
EXTENDS FdPassing, ListLemmas, TLAPS

(* What the frames refer to. *)
Frames ==
  [op : {"closef", "slow"}, arg : File]
    \cup [op : {"flush", "free"}, arg : Sock]
    \cup [op : {"discard", "grow"}, arg : Seq(File)]
    \cup [op : {"spilt", "collect", "memory", "done"}, arg : {None}]
    \cup [op : {"sweep", "drop"}, arg : SUBSET File]

FdTypes ==
  /\ live \subseteq File
  /\ count \in [File -> Nat] /\ msgcount \in [File -> Nat]
  /\ leaked \in [File -> Nat]
  /\ fds \in [Proc -> [File -> Nat]]
  /\ peer \in [Sock -> Sock \cup {None}]
  /\ queue \in [Sock -> Seq(Seq(File))]
  /\ rights \in Nat
  /\ stack \in [Proc -> Seq(Frames)]
  /\ hurt \in BOOLEAN

(* The frames that give up a reference to f, and those that free it. *)
Closers(f) == {fr \in Frames : Closes(fr, f)}

Freers(f) == {fr \in Frames : fr.op \in {"free", "slow"} /\ fr.arg = f}

ToFree(f) == Total([p \in Proc |-> Among(stack[p], Freers(f))])

(* Whoever is to be flushed or swept is live because a frame that comes    *)
(* later will free it, or give up the collector's reference to it.         *)
Needs(fr) == CASE fr.op = "flush" -> {fr.arg}
               [] fr.op = "sweep" -> fr.arg
               [] OTHER -> {}

Gives(fr) == CASE fr.op = "free" -> {fr.arg}
               [] fr.op = "drop" -> fr.arg
               [] OTHER -> {}

Backed(frames) ==
  \A i \in DOMAIN frames : \A f \in Needs(frames[i]) :
    \E j \in DOMAIN frames : j > i /\ f \in Gives(frames[j])

InTables(f) == Total([p \in Proc |-> fds[p][f]])

CountOK(f) ==
  /\ msgcount[f] = InQueues(f) + InHand(f) + leaked[f]
  /\ count[f] = InTables(f) + msgcount[f] + ToClose(f)
  /\ count[f] > 0 => f \in live
  /\ ToFree(f) <= 1
  /\ ToFree(f) > 0 => f \in live /\ count[f] = 0

SweepsSockets ==
  ~hurt => \A p \in Proc : \A i \in DOMAIN stack[p] :
             stack[p][i].op = "sweep" => stack[p][i].arg \subseteq Sock

FdInv ==
  /\ FdTypes
  /\ \A f \in File : CountOK(f)
  /\ rights = Total(msgcount)
  /\ \A p \in Proc : Backed(stack[p])
  /\ SweepsSockets

-----------------------------------------------------------------------------
(* Occurrences.                                                            *)

(* Occurrences are the places of one element.                               *)
LEMMA TimesIs ==
  ASSUME NEW x, NEW s
  PROVE  Times(x, s) = Among(s, {x})
<1>1. {i \in DOMAIN s : s[i] = x} = PlacesOf(s, {x})
  BY DEF PlacesOf
<1>. QED  BY <1>1 DEF Times, Among

(* Occurrences are a number.                                                *)
LEMMA TimesType ==
  ASSUME NEW X, NEW s \in Seq(X), NEW x
  PROVE  Times(x, s) \in Nat
BY TimesIs, AmongIsNumber

(* Nothing occurs in the empty sequence.                                    *)
LEMMA TimesNone ==
  ASSUME NEW x
  PROVE  Times(x, <<>>) = 0
BY TimesIs, AmongNone

(* What occurs in a sequence of one.                                        *)
LEMMA TimesOne ==
  ASSUME NEW x, NEW y
  PROVE  Times(x, <<y>>) = IF y = x THEN 1 ELSE 0
BY TimesIs, AmongOne

(* Occurrences in two sequences that are joined add up.                     *)
LEMMA TimesJoined ==
  ASSUME NEW X, NEW a \in Seq(X), NEW b \in Seq(X), NEW x
  PROVE  Times(x, a \o b) = Times(x, a) + Times(x, b)
BY TimesIs, AmongJoined

(* The first element, and the others.                                       *)
LEMMA TimesHead ==
  ASSUME NEW X, NEW m \in Seq(X), m # <<>>, NEW x
  PROVE  /\ Head(m) \in X /\ Tail(m) \in Seq(X)
         /\ Times(x, m) = (IF Head(m) = x THEN 1 ELSE 0) + Times(x, Tail(m))
<1>1. Head(m) \in X /\ Tail(m) \in Seq(X) /\ m = <<Head(m)>> \o Tail(m)
  OBVIOUS
<1> DEFINE h == <<Head(m)>>
           t == Tail(m)
<1>2. h \in Seq(X) /\ t \in Seq(X) /\ m = h \o t
  BY <1>1
<1>3. Times(x, h) = IF Head(m) = x THEN 1 ELSE 0
  BY TimesOne
<1> HIDE DEF h, t
<1>4. Times(x, h \o t) = Times(x, h) + Times(x, t)
  BY <1>2, TimesJoined
<1>. QED  BY <1>1, <1>2, <1>3, <1>4 DEF t

(* A sequence is cut in two.                                                *)
LEMMA TimesParts ==
  ASSUME NEW X, NEW m \in Seq(X), NEW n \in 1..Len(m), NEW x
  PROVE  LET a == SubSeq(m, 1, n)
             b == SubSeq(m, n + 1, Len(m))
         IN  /\ a \in Seq(X) /\ b \in Seq(X)
             /\ Len(a) = n /\ (n = Len(m) => a = m)
             /\ Times(x, m) = Times(x, a) + Times(x, b)
<1> DEFINE a == SubSeq(m, 1, n)
           b == SubSeq(m, n + 1, Len(m))
<1>1. a \in Seq(X) /\ b \in Seq(X) /\ Len(a) = n /\ m = a \o b
  OBVIOUS
<1>2. n = Len(m) => a = m
  OBVIOUS
<1> HIDE DEF a, b
<1>3. Times(x, a \o b) = Times(x, a) + Times(x, b)
  BY <1>1, TimesJoined
<1>. QED  BY <1>1, <1>2, <1>3 DEF a, b

(* What occurs is an element.                                              *)
LEMMA TimesIn ==
  ASSUME NEW m, NEW x, x \notin ToSet(m)
  PROVE  Times(x, m) = 0
<1>1. {i \in DOMAIN m : m[i] = x} = {}
  BY DEF ToSet
<1>. QED  BY <1>1, FS_EmptySet DEF Times

(* Each right of a message is for one file.                                *)
LEMMA TimesTotal ==
  ASSUME NEW X, IsFiniteSet(X), NEW m \in Seq(X)
  PROVE  Total([x \in X |-> Times(x, m)]) = Len(m)
<1> DEFINE g(s) == [x \in X |-> Times(x, s)]
           Y == {n \in Nat : \A s \in Seq(X) : Len(s) = n => Total(g(s)) = n}
<1>1. \A s \in Seq(X) : g(s) \in [X -> Nat]
  BY TimesType
<1>2. 0 \in Y
  <2>1. ASSUME NEW s \in Seq(X), Len(s) = 0
        PROVE  Total(g(s)) = 0
    <3>1. s = <<>>
      BY <2>1
    <3>2. g(s) = [x \in X |-> 0]
      BY <3>1, TimesNone
    <3>3. Total(g(s)) = 0 * Cardinality(X)
      BY <3>2, TotalEqual
    <3>4. Cardinality(X) \in Nat
      BY FS_CardinalityType
    <3> HIDE DEF g
    <3>. QED  BY <3>3, <3>4
  <2> HIDE DEF g
  <2>. QED  BY <2>1
<1>3. ASSUME NEW n \in Nat, n \in Y
      PROVE  n + 1 \in Y
  <2>1. ASSUME NEW s \in Seq(X), Len(s) = n + 1
        PROVE  Total(g(s)) = n + 1
    <3> DEFINE t == Tail(s)
               y == Head(s)
    <3>1. s # <<>> /\ t \in Seq(X) /\ Len(t) = n /\ y \in X
      BY <2>1
    <3>2. \A x \in X : Times(x, s) = (IF y = x THEN 1 ELSE 0) + Times(x, t)
      BY <3>1, TimesHead
    <3> HIDE DEF t, y
    <3>3. g(s)[y] = Times(y, s) /\ g(t)[y] = Times(y, t)
      BY <3>1
    <3>4. \A x \in X \ {y} : g(s)[x] = g(t)[x]
      BY <3>2, <1>1, <3>1
    <3>5. Times(y, t) \in Nat /\ Times(y, s) = 1 + Times(y, t)
      BY <3>1, <3>2, TimesType
    <3>6. Total(g(t)) = n
      BY <1>3, <3>1
    <3>7. g(s) \in [X -> Nat] /\ g(t) \in [X -> Nat]
      BY <1>1, <3>1
    <3> HIDE DEF g
    <3>8. Total(g(s)) = Total(g(t)) + g(s)[y] - g(t)[y]
      BY <3>1, <3>4, <3>7, TotalChanged
    <3>. QED  BY <3>3, <3>5, <3>6, <3>8
  <2> HIDE DEF g
  <2>. QED  BY <2>1
<1>4. Nat \subseteq Y
  <2> HIDE DEF Y
  <2>. QED  BY <1>2, <1>3, EveryNumber
<1>5. Len(m) \in Nat
  OBVIOUS
<1> HIDE DEF g
<1>6. Total(g(m)) = Len(m)
  BY <1>4, <1>5
<1>. QED  BY <1>6 DEF g

-----------------------------------------------------------------------------
(* Frames.                                                                 *)

(* What the argument of a frame is.                                         *)
LEMMA FrameOps ==
  ASSUME NEW fr \in Frames
  PROVE  /\ fr.op \in {"closef", "slow", "flush", "free", "discard", "grow",
                       "spilt", "collect", "memory", "sweep", "drop", "done"}
         /\ fr.op \in {"closef", "slow"} => fr.arg \in File
         /\ fr.op \in {"flush", "free"} => fr.arg \in Sock
         /\ fr.op \in {"discard", "grow"} => fr.arg \in Seq(File)
         /\ fr.op \in {"sweep", "drop"} => fr.arg \in SUBSET File
BY DEF Frames

(* The frames that the actions make.                                        *)
LEMMA FrameIn ==
  /\ \A f \in File : Frame("closef", f) \in Frames /\ Frame("slow", f) \in Frames
  /\ \A s \in Sock : Frame("flush", s) \in Frames /\ Frame("free", s) \in Frames
  /\ \A m \in Seq(File) : Frame("discard", m) \in Frames /\ Frame("grow", m) \in Frames
  /\ Frame("spilt", None) \in Frames /\ Frame("collect", None) \in Frames
  /\ Frame("memory", None) \in Frames /\ Frame("done", None) \in Frames
  /\ \A S \in SUBSET File :
       Frame("sweep", S) \in Frames /\ Frame("drop", S) \in Frames
BY DEF Frames, Frame

Loads(frames) == [i \in DOMAIN frames |->
                    IF frames[i].op \in {"discard", "grow"} THEN frames[i].arg
                    ELSE <<>>]

(* The messages in hand, and their rights, are sequences.                   *)
LEMMA LoadsType ==
  ASSUME NEW a \in Seq(Frames)
  PROVE  Loads(a) \in Seq(Seq(File)) /\ Hand(a) \in Seq(File)
<1>1. \A i \in 1..Len(a) : a[i] \in Frames
  OBVIOUS
<1>2. \A i \in 1..Len(a) :
        (IF a[i].op \in {"discard", "grow"} THEN a[i].arg ELSE <<>>) \in Seq(File)
  BY <1>1, FrameOps
<1>3. DOMAIN a = 1..Len(a) /\ Len(a) \in Nat
  OBVIOUS
<1>4. Loads(a) \in Seq(Seq(File))
  BY <1>2, <1>3 DEF Loads
<1>5. Hand(a) = FlattenSeq(Loads(a))
  BY DEF Hand, Loads
<1>. QED  BY <1>4, <1>5, FlatType

(* The rights in hand of two lists of frames that are joined.               *)
LEMMA HandJoined ==
  ASSUME NEW a \in Seq(Frames), NEW b \in Seq(Frames)
  PROVE  Hand(a \o b) = Hand(a) \o Hand(b)
<1> DEFINE c == a \o b
           L(x) == IF x.op \in {"discard", "grow"} THEN x.arg ELSE <<>>
<1>1. /\ c \in Seq(Frames) /\ DOMAIN c = 1..(Len(a) + Len(b))
      /\ Len(a) \in Nat /\ Len(b) \in Nat
      /\ DOMAIN a = 1..Len(a) /\ DOMAIN b = 1..Len(b)
      /\ \A n \in 1..(Len(a) + Len(b)) :
           c[n] = IF n <= Len(a) THEN a[n] ELSE b[n - Len(a)]
  OBVIOUS
<1>2. /\ Loads(a) \in Seq(Seq(File)) /\ Loads(b) \in Seq(Seq(File))
      /\ Loads(c) \in Seq(Seq(File))
  BY <1>1, LoadsType
<1> HIDE DEF c
<1>3. /\ Len(Loads(a)) = Len(a) /\ Len(Loads(b)) = Len(b)
      /\ Len(Loads(c)) = Len(a) + Len(b)
  BY <1>1, <1>2 DEF Loads
<1>4. /\ \A n \in 1..Len(a) : Loads(a)[n] = L(a[n])
      /\ \A n \in 1..Len(b) : Loads(b)[n] = L(b[n])
      /\ \A n \in 1..(Len(a) + Len(b)) : Loads(c)[n] = L(c[n])
  BY <1>1 DEF Loads
<1> HIDE DEF L
<1> DEFINE x == Loads(a)
           y == Loads(b)
           z == Loads(c)
<1>5. \A n \in 1..(Len(a) + Len(b)) :
        z[n] = IF n <= Len(x) THEN x[n] ELSE y[n - Len(x)]
  <2> SUFFICES ASSUME NEW n \in 1..(Len(a) + Len(b))
               PROVE  z[n] = IF n <= Len(x) THEN x[n] ELSE y[n - Len(x)]
    OBVIOUS
  <2>1. n <= Len(a) => n \in 1..Len(a)
    BY <1>1
  <2>2. ~(n <= Len(a)) => n - Len(a) \in 1..Len(b)
    BY <1>1
  <2>3. z[n] = L(c[n]) /\ c[n] = IF n <= Len(a) THEN a[n] ELSE b[n - Len(a)]
    BY <1>1, <1>4
  <2>4. n <= Len(a) => x[n] = L(a[n])
    BY <2>1, <1>4
  <2>5. ~(n <= Len(a)) => y[n - Len(a)] = L(b[n - Len(a)])
    BY <2>2, <1>4
  <2> HIDE DEF x, y, z
  <2>. QED  BY <2>3, <2>4, <2>5, <1>3 DEF x
<1>6. Loads(c) = Loads(a) \o Loads(b)
  <2>1. /\ x \in Seq(Seq(File)) /\ y \in Seq(Seq(File)) /\ z \in Seq(Seq(File))
        /\ Len(x) = Len(a) /\ Len(y) = Len(b) /\ Len(z) = Len(a) + Len(b)
    BY <1>2, <1>3
  <2> HIDE DEF x, y, z
  <2>2. z = x \o y
    <3>1. \A n \in 1..Len(z) : z[n] = IF n <= Len(x) THEN x[n] ELSE y[n - Len(x)]
      BY <2>1, <1>5
    <3> DEFINE T == Seq(File)
    <3>2. /\ x \in Seq(T) /\ y \in Seq(T) /\ z \in Seq(T)
          /\ Len(z) = Len(x) + Len(y)
      BY <2>1
    <3> HIDE DEF T
    <3>. QED  BY <3>1, <3>2, JoinedIs
  <2>. QED  BY <2>2 DEF x, y, z
<1> HIDE DEF x, y, z
<1>7. FlattenSeq(Loads(a) \o Loads(b)) = FlattenSeq(Loads(a)) \o FlattenSeq(Loads(b))
  BY <1>2, FlatJoined
<1>8. FlattenSeq(Loads(c)) = FlattenSeq(Loads(a)) \o FlattenSeq(Loads(b))
  BY <1>6, <1>7, Zenon
<1>. QED  BY <1>8 DEF Hand, Loads, c

(* The rights in hand of one frame.                                         *)
LEMMA HandOne ==
  ASSUME NEW fr \in Frames
  PROVE  Hand(<<fr>>) = IF fr.op \in {"discard", "grow"} THEN fr.arg ELSE <<>>
<1> DEFINE m == IF fr.op \in {"discard", "grow"} THEN fr.arg ELSE <<>>
           s == <<fr>>
<1>1. m \in Seq(File)
  BY FrameOps
<1>2. DOMAIN s = {1} /\ s[1] = fr
  OBVIOUS
<1>3. Loads(s) = <<m>>
  <2>1. Loads(s) = [i \in {1} |-> m]
    <3> HIDE DEF s
    <3>. QED  BY <1>2 DEF Loads
  <2>2. <<m>> = [i \in {1} |-> m]
    <3> HIDE DEF m
    <3>. QED  OBVIOUS
  <2>. QED  BY <2>1, <2>2
<1>4. Hand(s) = FlattenSeq(Loads(s))
  BY DEF Hand, Loads
<1> HIDE DEF m, s
<1>5. Hand(s) = m
  BY <1>1, <1>3, <1>4, FlatOne
<1>. QED  BY <1>5 DEF m, s

(* The references to be given up are counted as frames.                     *)
LEMMA ClosingsIs ==
  ASSUME NEW a \in Seq(Frames), NEW f
  PROVE  Closings(a, f) = Among(a, Closers(f))
<1>1. \A i \in DOMAIN a : a[i] \in Frames
  OBVIOUS
<1>2. {i \in DOMAIN a : Closes(a[i], f)} = PlacesOf(a, Closers(f))
  BY <1>1 DEF PlacesOf, Closers
<1>. QED  BY <1>2 DEF Closings, Among

(* The three numbers of some frames.                                       *)
InFrames(a, f) == Times(f, Hand(a))
Closed(a, f) == Among(a, Closers(f))
Freed(a, f) == Among(a, Freers(f))

(* What a list of frames counts are numbers.                                *)
LEMMA FramesCount ==
  ASSUME NEW a \in Seq(Frames), NEW f
  PROVE  InFrames(a, f) \in Nat /\ Closed(a, f) \in Nat /\ Freed(a, f) \in Nat
BY LoadsType, TimesType, AmongIsNumber DEF InFrames, Closed, Freed

(* An empty stack counts nothing.                                           *)
LEMMA FramesNone ==
  ASSUME NEW f
  PROVE  InFrames(<<>>, f) = 0 /\ Closed(<<>>, f) = 0 /\ Freed(<<>>, f) = 0
<1>1. Hand(<<>>) = <<>>
  <2>1. Loads(<<>>) = <<>>
    BY DEF Loads
  <2>2. <<>> \in Seq(Seq(File))
    OBVIOUS
  <2>3. FlattenSeq(<<>>) = <<>>
    BY <2>2, FlatIs
  <2>. QED  BY <2>1, <2>3 DEF Hand, Loads
<1>. QED  BY <1>1, TimesNone, AmongNone DEF InFrames, Closed, Freed

(* What one frame counts.                                                   *)
LEMMA FramesOne ==
  ASSUME NEW fr \in Frames, NEW f
  PROVE  /\ <<fr>> \in Seq(Frames)
         /\ InFrames(<<fr>>, f) = IF fr.op \in {"discard", "grow"}
                                  THEN Times(f, fr.arg) ELSE 0
         /\ Closed(<<fr>>, f) = IF Closes(fr, f) THEN 1 ELSE 0
         /\ Freed(<<fr>>, f) = IF fr.op \in {"free", "slow"} /\ fr.arg = f
                               THEN 1 ELSE 0
<1>1. InFrames(<<fr>>, f) = IF fr.op \in {"discard", "grow"}
                            THEN Times(f, fr.arg) ELSE 0
  BY HandOne, TimesNone DEF InFrames
<1>2. Closed(<<fr>>, f) = IF Closes(fr, f) THEN 1 ELSE 0
  BY AmongOne DEF Closed, Closers
<1>3. Freed(<<fr>>, f) = IF fr.op \in {"free", "slow"} /\ fr.arg = f
                         THEN 1 ELSE 0
  BY AmongOne DEF Freed, Freers
<1>. QED  BY <1>1, <1>2, <1>3

(* What two lists of frames count that are joined.                          *)
LEMMA FramesJoined ==
  ASSUME NEW a \in Seq(Frames), NEW b \in Seq(Frames), NEW f
  PROVE  /\ a \o b \in Seq(Frames)
         /\ InFrames(a \o b, f) = InFrames(a, f) + InFrames(b, f)
         /\ Closed(a \o b, f) = Closed(a, f) + Closed(b, f)
         /\ Freed(a \o b, f) = Freed(a, f) + Freed(b, f)
<1>1. Hand(a) \in Seq(File) /\ Hand(b) \in Seq(File)
  BY LoadsType
<1>2. InFrames(a \o b, f) = InFrames(a, f) + InFrames(b, f)
  <2>1. Times(f, Hand(a) \o Hand(b)) = Times(f, Hand(a)) + Times(f, Hand(b))
    BY <1>1, TimesJoined
  <2>. QED  BY <2>1, HandJoined DEF InFrames
<1>. QED  BY <1>2, AmongJoined DEF Closed, Freed

-----------------------------------------------------------------------------
(* What a step does to the sums.                                           *)

(* Processes and files are finitely many.                                   *)
LEMMA ProcsFinite == IsFiniteSet(Proc) /\ IsFiniteSet(File) /\ IsFiniteSet(Sock)
<1>1. Sock \in SUBSET File
  BY DEF File
<1>. QED  BY <1>1, FdAssumption, FS_Subset

(* The numbers of the model are sums over the stacks and the queues.        *)
LEMMA SumsAre ==
  ASSUME NEW f, FdTypes
  PROVE  /\ InHand(f) = Total([p \in Proc |-> InFrames(stack[p], f)])
         /\ ToClose(f) = Total([p \in Proc |-> Closed(stack[p], f)])
         /\ ToFree(f) = Total([p \in Proc |-> Freed(stack[p], f)])
         /\ InQueues(f) = Total([s \in Sock |-> Times(f, FlattenSeq(queue[s]))])
<1>1. \A p \in Proc : Closings(stack[p], f) = Closed(stack[p], f)
  BY ClosingsIs DEF Closed, FdTypes
<1>2. ToClose(f) = Total([p \in Proc |-> Closings(stack[p], f)])
  BY DEF ToClose, Total
<1>3. [p \in Proc |-> Closings(stack[p], f)] = [p \in Proc |-> Closed(stack[p], f)]
  BY <1>1
<1>. QED  BY <1>2, <1>3 DEF InHand, ToFree, InQueues, InFrames, Freed, Total

(* They are numbers.                                                        *)
LEMMA SumsCount ==
  ASSUME NEW f \in File, FdTypes
  PROVE  /\ InHand(f) \in Nat /\ ToClose(f) \in Nat /\ ToFree(f) \in Nat
         /\ InQueues(f) \in Nat /\ InTables(f) \in Nat
         /\ \A p \in Proc : /\ InHand(f) >= InFrames(stack[p], f)
                            /\ ToClose(f) >= Closed(stack[p], f)
                            /\ ToFree(f) >= Freed(stack[p], f)
                            /\ InTables(f) >= fds[p][f]
<1> DEFINE a == [p \in Proc |-> InFrames(stack[p], f)]
           b == [p \in Proc |-> Closed(stack[p], f)]
           c == [p \in Proc |-> Freed(stack[p], f)]
           d == [p \in Proc |-> fds[p][f]]
           e == [s \in Sock |-> Times(f, FlattenSeq(queue[s]))]
<1>1. a \in [Proc -> Nat] /\ b \in [Proc -> Nat] /\ c \in [Proc -> Nat]
  BY FramesCount DEF FdTypes
<1>2. d \in [Proc -> Nat]
  BY DEF FdTypes
<1>3. e \in [Sock -> Nat]
  <2>1. \A s \in Sock : FlattenSeq(queue[s]) \in Seq(File)
    BY FlatType DEF FdTypes
  <2>. QED  BY <2>1, TimesType
<1>4. \A p \in Proc : /\ a[p] = InFrames(stack[p], f) /\ b[p] = Closed(stack[p], f)
                      /\ c[p] = Freed(stack[p], f) /\ d[p] = fds[p][f]
  OBVIOUS
<1>5. /\ InHand(f) = Total(a) /\ ToClose(f) = Total(b) /\ ToFree(f) = Total(c)
      /\ InTables(f) = Total(d) /\ InQueues(f) = Total(e)
  BY SumsAre DEF InTables
<1> HIDE DEF a, b, c, d, e
<1>6. \A p \in Proc : Total(a) >= a[p] /\ Total(b) >= b[p] /\ Total(c) >= c[p]
                      /\ Total(d) >= d[p]
  BY <1>1, <1>2, TotalIsMore, ProcsFinite
<1>7. /\ Total(a) \in Nat /\ Total(b) \in Nat /\ Total(c) \in Nat
      /\ Total(d) \in Nat /\ Total(e) \in Nat
  BY <1>1, <1>2, <1>3, TotalIsNumber, ProcsFinite
<1>. QED  BY <1>4, <1>5, <1>6, <1>7

(* The frames `old` of a process give way to the frames `new`.             *)
LEMMA Restacked ==
  ASSUME FdTypes, NEW p \in Proc,
         NEW old \in Seq(Frames), NEW new \in Seq(Frames), NEW rest \in Seq(Frames),
         stack[p] = old \o rest, stack' = [stack EXCEPT ![p] = new \o rest]
  PROVE  /\ stack' \in [Proc -> Seq(Frames)]
         /\ \A f \in File :
              /\ Total([q \in Proc |-> InFrames(stack'[q], f)])
                   = InHand(f) + InFrames(new, f) - InFrames(old, f)
              /\ Total([q \in Proc |-> Closed(stack'[q], f)])
                   = ToClose(f) + Closed(new, f) - Closed(old, f)
              /\ Total([q \in Proc |-> Freed(stack'[q], f)])
                   = ToFree(f) + Freed(new, f) - Freed(old, f)
<1>1. stack \in [Proc -> Seq(Frames)]
  BY DEF FdTypes
<1>2. old \o rest \in Seq(Frames) /\ new \o rest \in Seq(Frames)
  OBVIOUS
<1>3. /\ stack' \in [Proc -> Seq(Frames)] /\ stack'[p] = new \o rest
      /\ \A q \in Proc \ {p} : stack'[q] = stack[q]
  BY <1>1, <1>2
<1>4. SUFFICES ASSUME NEW f \in File
               PROVE  /\ Total([q \in Proc |-> InFrames(stack'[q], f)])
                           = InHand(f) + InFrames(new, f) - InFrames(old, f)
                      /\ Total([q \in Proc |-> Closed(stack'[q], f)])
                           = ToClose(f) + Closed(new, f) - Closed(old, f)
                      /\ Total([q \in Proc |-> Freed(stack'[q], f)])
                           = ToFree(f) + Freed(new, f) - Freed(old, f)
  BY <1>3
<1> DEFINE a == [q \in Proc |-> InFrames(stack[q], f)]
           b == [q \in Proc |-> Closed(stack[q], f)]
           c == [q \in Proc |-> Freed(stack[q], f)]
           x == [q \in Proc |-> InFrames(stack'[q], f)]
           y == [q \in Proc |-> Closed(stack'[q], f)]
           z == [q \in Proc |-> Freed(stack'[q], f)]
<1>5. /\ a \in [Proc -> Nat] /\ b \in [Proc -> Nat] /\ c \in [Proc -> Nat]
      /\ x \in [Proc -> Nat] /\ y \in [Proc -> Nat] /\ z \in [Proc -> Nat]
  BY <1>1, <1>3, FramesCount
<1>6. \A q \in Proc \ {p} : x[q] = a[q] /\ y[q] = b[q] /\ z[q] = c[q]
  BY <1>3
<1>7. /\ a[p] = InFrames(old, f) + InFrames(rest, f)
      /\ b[p] = Closed(old, f) + Closed(rest, f)
      /\ c[p] = Freed(old, f) + Freed(rest, f)
      /\ x[p] = InFrames(new, f) + InFrames(rest, f)
      /\ y[p] = Closed(new, f) + Closed(rest, f)
      /\ z[p] = Freed(new, f) + Freed(rest, f)
  <2>1. /\ InFrames(old \o rest, f) = InFrames(old, f) + InFrames(rest, f)
        /\ Closed(old \o rest, f) = Closed(old, f) + Closed(rest, f)
        /\ Freed(old \o rest, f) = Freed(old, f) + Freed(rest, f)
    BY FramesJoined
  <2>2. /\ InFrames(new \o rest, f) = InFrames(new, f) + InFrames(rest, f)
        /\ Closed(new \o rest, f) = Closed(new, f) + Closed(rest, f)
        /\ Freed(new \o rest, f) = Freed(new, f) + Freed(rest, f)
    BY FramesJoined
  <2>. QED  BY <1>3, <2>1, <2>2
<1>8. /\ InHand(f) = Total(a) /\ ToClose(f) = Total(b) /\ ToFree(f) = Total(c)
  BY SumsAre
<1> HIDE DEF a, b, c, x, y, z
<1>9. /\ Total(a) \in Nat /\ Total(x) = Total(a) + x[p] - a[p]
      /\ Total(b) \in Nat /\ Total(y) = Total(b) + y[p] - b[p]
      /\ Total(c) \in Nat /\ Total(z) = Total(c) + z[p] - c[p]
  <2>1. Total(a) \in Nat /\ Total(x) = Total(a) + x[p] - a[p]
    <3>1. a \in [Proc -> Nat] /\ x \in [Proc -> Nat]
          /\ \A q \in Proc \ {p} : x[q] = a[q]
      BY <1>5, <1>6
    <3>. QED  BY <3>1, TotalChanged, ProcsFinite, Zenon
  <2>2. Total(b) \in Nat /\ Total(y) = Total(b) + y[p] - b[p]
    <3>1. b \in [Proc -> Nat] /\ y \in [Proc -> Nat]
          /\ \A q \in Proc \ {p} : y[q] = b[q]
      BY <1>5, <1>6
    <3>. QED  BY <3>1, TotalChanged, ProcsFinite, Zenon
  <2>3. Total(c) \in Nat /\ Total(z) = Total(c) + z[p] - c[p]
    <3>1. c \in [Proc -> Nat] /\ z \in [Proc -> Nat]
          /\ \A q \in Proc \ {p} : z[q] = c[q]
      BY <1>5, <1>6
    <3>. QED  BY <3>1, TotalChanged, ProcsFinite, Zenon
  <2>. QED  BY <2>1, <2>2, <2>3
<1>10. /\ InFrames(old, f) \in Nat /\ InFrames(rest, f) \in Nat /\ InFrames(new, f) \in Nat
       /\ Closed(old, f) \in Nat /\ Closed(rest, f) \in Nat /\ Closed(new, f) \in Nat
       /\ Freed(old, f) \in Nat /\ Freed(rest, f) \in Nat /\ Freed(new, f) \in Nat
  BY FramesCount
<1>11. /\ Total(x) = InHand(f) + InFrames(new, f) - InFrames(old, f)
       /\ Total(y) = ToClose(f) + Closed(new, f) - Closed(old, f)
       /\ Total(z) = ToFree(f) + Freed(new, f) - Freed(old, f)
  <2>1. Total(x) = InHand(f) + InFrames(new, f) - InFrames(old, f)
    BY <1>7, <1>8, <1>9, <1>10
  <2>2. Total(y) = ToClose(f) + Closed(new, f) - Closed(old, f)
    BY <1>7, <1>8, <1>9, <1>10
  <2>3. Total(z) = ToFree(f) + Freed(new, f) - Freed(old, f)
    BY <1>7, <1>8, <1>9, <1>10
  <2>. QED  BY <2>1, <2>2, <2>3
<1>. QED  BY <1>11 DEF x, y, z

(* The queue of one socket is another one.                                 *)
LEMMA Requeued ==
  ASSUME FdTypes, NEW s \in Sock, NEW q \in Seq(Seq(File)),
         queue' = [queue EXCEPT ![s] = q]
  PROVE  /\ queue' \in [Sock -> Seq(Seq(File))]
         /\ \A f \in File :
              Total([t \in Sock |-> Times(f, FlattenSeq(queue'[t]))])
                = InQueues(f) + Times(f, FlattenSeq(q)) - Times(f, FlattenSeq(queue[s]))
<1>1. /\ queue \in [Sock -> Seq(Seq(File))] /\ queue' \in [Sock -> Seq(Seq(File))]
      /\ queue'[s] = q /\ \A t \in Sock \ {s} : queue'[t] = queue[t]
  BY DEF FdTypes
<1>2. SUFFICES ASSUME NEW f \in File
               PROVE  Total([t \in Sock |-> Times(f, FlattenSeq(queue'[t]))])
                        = InQueues(f) + Times(f, FlattenSeq(q)) - Times(f, FlattenSeq(queue[s]))
  BY <1>1
<1> DEFINE a == [t \in Sock |-> Times(f, FlattenSeq(queue[t]))]
           x == [t \in Sock |-> Times(f, FlattenSeq(queue'[t]))]
<1>3. a \in [Sock -> Nat] /\ x \in [Sock -> Nat]
  <2>1. \A t \in Sock : /\ FlattenSeq(queue[t]) \in Seq(File)
                        /\ FlattenSeq(queue'[t]) \in Seq(File)
    BY <1>1, FlatType
  <2>. QED  BY <2>1, TimesType
<1>4. \A t \in Sock \ {s} : x[t] = a[t]
  BY <1>1
<1>5. a[s] = Times(f, FlattenSeq(queue[s])) /\ x[s] = Times(f, FlattenSeq(q))
  BY <1>1
<1>6. InQueues(f) = Total(a)
  BY SumsAre
<1> HIDE DEF a, x
<1>7. Total(x) = Total(a) + x[s] - a[s]
  BY <1>3, <1>4, TotalChanged, ProcsFinite
<1>8. Total(x) = InQueues(f) + Times(f, FlattenSeq(q)) - Times(f, FlattenSeq(queue[s]))
  BY <1>5, <1>6, <1>7
<1>. QED  BY <1>8 DEF x

(* The numbers of some frames, and of each frame.                          *)
Counts(a, f, h, c, r) ==
  /\ a \in Seq(Frames)
  /\ InFrames(a, f) = h /\ Closed(a, f) = c /\ Freed(a, f) = r

(* What each kind of frame counts.                                          *)
LEMMA FrameCounts ==
  ASSUME NEW f
  PROVE
  /\ \A g \in File :
       /\ Counts(<<Frame("closef", g)>>, f, 0, IF g = f THEN 1 ELSE 0, 0)
       /\ Counts(<<Frame("slow", g)>>, f, 0, 0, IF g = f THEN 1 ELSE 0)
  /\ \A s \in Sock :
       /\ Counts(<<Frame("flush", s)>>, f, 0, 0, 0)
       /\ Counts(<<Frame("free", s)>>, f, 0, 0, IF s = f THEN 1 ELSE 0)
  /\ \A m \in Seq(File) :
       /\ Counts(<<Frame("discard", m)>>, f, Times(f, m), 0, 0)
       /\ Counts(<<Frame("grow", m)>>, f, Times(f, m), 0, 0)
  /\ Counts(<<Frame("spilt", None)>>, f, 0, 0, 0)
  /\ Counts(<<Frame("collect", None)>>, f, 0, 0, 0)
  /\ Counts(<<Frame("memory", None)>>, f, 0, 0, 0)
  /\ Counts(<<Frame("done", None)>>, f, 0, 0, 0)
  /\ \A S \in SUBSET File :
       /\ Counts(<<Frame("sweep", S)>>, f, 0, 0, 0)
       /\ Counts(<<Frame("drop", S)>>, f, 0, IF f \in S THEN 1 ELSE 0, 0)
<1>1. ASSUME NEW op, NEW arg, Frame(op, arg) \in Frames
      PROVE  Counts(<<Frame(op, arg)>>, f,
                    IF op \in {"discard", "grow"} THEN Times(f, arg) ELSE 0,
                    IF (op = "closef" /\ arg = f) \/ (op = "drop" /\ f \in arg)
                    THEN 1 ELSE 0,
                    IF op \in {"free", "slow"} /\ arg = f THEN 1 ELSE 0)
  <2> DEFINE fr == Frame(op, arg)
  <2>1. fr.op = op /\ fr.arg = arg /\ fr \in Frames
    BY <1>1 DEF Frame
  <2> HIDE DEF fr
  <2>2. /\ <<fr>> \in Seq(Frames)
        /\ InFrames(<<fr>>, f) = IF fr.op \in {"discard", "grow"}
                                 THEN Times(f, fr.arg) ELSE 0
        /\ Closed(<<fr>>, f) = IF Closes(fr, f) THEN 1 ELSE 0
        /\ Freed(<<fr>>, f) = IF fr.op \in {"free", "slow"} /\ fr.arg = f
                              THEN 1 ELSE 0
    BY <2>1, FramesOne
  <2>3. Closes(fr, f) <=> ((op = "closef" /\ arg = f) \/ (op = "drop" /\ f \in arg))
    BY <2>1 DEF Closes
  <2>4. Counts(<<fr>>, f,
               IF op \in {"discard", "grow"} THEN Times(f, arg) ELSE 0,
               IF (op = "closef" /\ arg = f) \/ (op = "drop" /\ f \in arg)
               THEN 1 ELSE 0,
               IF op \in {"free", "slow"} /\ arg = f THEN 1 ELSE 0)
    <3> DEFINE A == IF op \in {"discard", "grow"} THEN Times(f, arg) ELSE 0
               B == IF (op = "closef" /\ arg = f) \/ (op = "drop" /\ f \in arg)
                    THEN 1 ELSE 0
               C == IF op \in {"free", "slow"} /\ arg = f THEN 1 ELSE 0
    <3>1. InFrames(<<fr>>, f) = A
      BY <2>1, <2>2
    <3>2. Closed(<<fr>>, f) = B
      BY <2>2, <2>3
    <3>3. Freed(<<fr>>, f) = C
      BY <2>1, <2>2
    <3> HIDE DEF A, B, C
    <3>4. Counts(<<fr>>, f, A, B, C)
      BY <2>2, <3>1, <3>2, <3>3 DEF Counts
    <3>. QED  BY <3>4 DEF A, B, C
  <2>. QED  BY <2>4 DEF fr
<1>2. \A op, arg :
        Frame(op, arg) \in Frames =>
          Counts(<<Frame(op, arg)>>, f,
                 IF op \in {"discard", "grow"} THEN Times(f, arg) ELSE 0,
                 IF (op = "closef" /\ arg = f) \/ (op = "drop" /\ f \in arg)
                 THEN 1 ELSE 0,
                 IF op \in {"free", "slow"} /\ arg = f THEN 1 ELSE 0)
  BY <1>1
<1>3. \A g \in File :
       /\ Counts(<<Frame("closef", g)>>, f, 0, IF g = f THEN 1 ELSE 0, 0)
       /\ Counts(<<Frame("slow", g)>>, f, 0, 0, IF g = f THEN 1 ELSE 0)
  <2> TAKE g \in File
  <2>1. Frame("closef", g) \in Frames /\ Frame("slow", g) \in Frames
    BY FrameIn
  <2>2. Counts(<<Frame("closef", g)>>, f, 0, IF g = f THEN 1 ELSE 0, 0)
    <3>1. /\ "closef" \notin {"discard", "grow"} /\ "closef" \notin {"free", "slow"}
          /\ "closef" # "drop"
      OBVIOUS
    <3>. QED  BY <2>1, <3>1, <1>2, Zenon
  <2>3. Counts(<<Frame("slow", g)>>, f, 0, 0, IF g = f THEN 1 ELSE 0)
    BY <2>1, <1>2
  <2>. QED  BY <2>2, <2>3
<1>4. \A s \in Sock :
       /\ Counts(<<Frame("flush", s)>>, f, 0, 0, 0)
       /\ Counts(<<Frame("free", s)>>, f, 0, 0, IF s = f THEN 1 ELSE 0)
  BY <1>2, FrameIn
<1>5. \A m \in Seq(File) :
       /\ Counts(<<Frame("discard", m)>>, f, Times(f, m), 0, 0)
       /\ Counts(<<Frame("grow", m)>>, f, Times(f, m), 0, 0)
  BY <1>2, FrameIn
<1>6. /\ Counts(<<Frame("spilt", None)>>, f, 0, 0, 0)
      /\ Counts(<<Frame("collect", None)>>, f, 0, 0, 0)
      /\ Counts(<<Frame("memory", None)>>, f, 0, 0, 0)
      /\ Counts(<<Frame("done", None)>>, f, 0, 0, 0)
  BY <1>2, FrameIn
<1>7. \A S \in SUBSET File :
       /\ Counts(<<Frame("sweep", S)>>, f, 0, 0, 0)
       /\ Counts(<<Frame("drop", S)>>, f, 0, IF f \in S THEN 1 ELSE 0, 0)
  BY <1>2, FrameIn
<1>. QED  BY <1>3, <1>4, <1>5, <1>6, <1>7

(* One frame more in front.                                                *)
LEMMA CountsMore ==
  ASSUME NEW f, NEW x, NEW a, NEW h, NEW c, NEW r, NEW i, NEW d, NEW s,
         Counts(<<x>>, f, h, c, r), Counts(a, f, i, d, s)
  PROVE  Counts(<<x>> \o a, f, h + i, c + d, r + s)
<1> DEFINE b == <<x>>
<1>1. /\ b \in Seq(Frames) /\ InFrames(b, f) = h /\ Closed(b, f) = c /\ Freed(b, f) = r
      /\ a \in Seq(Frames) /\ InFrames(a, f) = i /\ Closed(a, f) = d /\ Freed(a, f) = s
  BY DEF Counts
<1> HIDE DEF b
<1>2. /\ b \o a \in Seq(Frames)
      /\ InFrames(b \o a, f) = InFrames(b, f) + InFrames(a, f)
      /\ Closed(b \o a, f) = Closed(b, f) + Closed(a, f)
      /\ Freed(b \o a, f) = Freed(b, f) + Freed(a, f)
  BY <1>1, FramesJoined
<1>3. Counts(b \o a, f, h + i, c + d, r + s)
  BY <1>1, <1>2, Zenon DEF Counts
<1>. QED  BY <1>3 DEF b

(* How the stack of p changes, as far as it is counted.                    *)
StackMoved(a, b) ==
  /\ stack' \in [Proc -> Seq(Frames)]
  /\ \A f \in File :
       /\ InHand(f)' \in Nat /\ ToClose(f)' \in Nat /\ ToFree(f)' \in Nat
       /\ InHand(f)' = InHand(f) + InFrames(b, f) - InFrames(a, f)
       /\ ToClose(f)' = ToClose(f) + Closed(b, f) - Closed(a, f)
       /\ ToFree(f)' = ToFree(f) + Freed(b, f) - Freed(a, f)
  /\ \A q \in Proc : Backed(stack'[q])
  /\ SweepsSockets'

(* What new frames need is given by later ones, or was needed before.      *)
Fit(new, before) ==
  /\ \A i \in DOMAIN new : \A f \in Needs(new[i]) :
       \/ f \in before
       \/ \E j \in DOMAIN new : j > i /\ f \in Gives(new[j])
  /\ hurt' \/ \A i \in DOMAIN new :
                new[i].op = "sweep" => new[i].arg \subseteq Sock

(* The numbers of the stacks, when the one of p changes at its top.         *)
LEMMA NumbersMoved ==
  ASSUME FdTypes, NEW p \in Proc,
         NEW old \in Seq(Frames), NEW new \in Seq(Frames), NEW rest \in Seq(Frames),
         stack[p] = old \o rest, stack' = [stack EXCEPT ![p] = new \o rest]
  PROVE  /\ stack' \in [Proc -> Seq(Frames)]
         /\ \A f \in File :
              /\ InHand(f)' \in Nat /\ ToClose(f)' \in Nat /\ ToFree(f)' \in Nat
              /\ InHand(f)' = InHand(f) + InFrames(new, f) - InFrames(old, f)
              /\ ToClose(f)' = ToClose(f) + Closed(new, f) - Closed(old, f)
              /\ ToFree(f)' = ToFree(f) + Freed(new, f) - Freed(old, f)
<1>1. stack' \in [Proc -> Seq(Frames)]
  BY Restacked
<1>2. SUFFICES ASSUME NEW f \in File
               PROVE  /\ InHand(f)' \in Nat /\ ToClose(f)' \in Nat /\ ToFree(f)' \in Nat
                      /\ InHand(f)' = InHand(f) + InFrames(new, f) - InFrames(old, f)
                      /\ ToClose(f)' = ToClose(f) + Closed(new, f) - Closed(old, f)
                      /\ ToFree(f)' = ToFree(f) + Freed(new, f) - Freed(old, f)
  BY <1>1
<1> DEFINE x == [q \in Proc |-> InFrames(stack'[q], f)]
           y == [q \in Proc |-> Closed(stack'[q], f)]
           z == [q \in Proc |-> Freed(stack'[q], f)]
<1>3. /\ x \in [Proc -> Nat] /\ y \in [Proc -> Nat] /\ z \in [Proc -> Nat]
  BY <1>1, FramesCount
<1>4. InHand(f)' = Total(x)
  BY Zenon DEF InHand, InFrames, Total, FoldFunction, FoldFunctionOnSet, MapThenFoldSet
<1>5. ToClose(f)' = Total(y)
  <2>1. \A q \in Proc : Closings(stack'[q], f) = Closed(stack'[q], f)
    BY <1>1, ClosingsIs DEF Closed
  <2>2. ToClose(f)' = Total([q \in Proc |-> Closings(stack'[q], f)])
    BY Zenon DEF ToClose, Total, FoldFunction, FoldFunctionOnSet, MapThenFoldSet
  <2>3. [q \in Proc |-> Closings(stack'[q], f)] = y
    BY <2>1
  <2> HIDE DEF y
  <2>. QED  BY <2>2, <2>3
<1>6. ToFree(f)' = Total(z)
  BY DEF ToFree, Freed
<1>7. /\ Total(x) = InHand(f) + InFrames(new, f) - InFrames(old, f)
      /\ Total(y) = ToClose(f) + Closed(new, f) - Closed(old, f)
      /\ Total(z) = ToFree(f) + Freed(new, f) - Freed(old, f)
  <2>1. \A g \in File :
          /\ Total([q \in Proc |-> InFrames(stack'[q], g)])
               = InHand(g) + InFrames(new, g) - InFrames(old, g)
          /\ Total([q \in Proc |-> Closed(stack'[q], g)])
               = ToClose(g) + Closed(new, g) - Closed(old, g)
          /\ Total([q \in Proc |-> Freed(stack'[q], g)])
               = ToFree(g) + Freed(new, g) - Freed(old, g)
    BY Restacked, Zenon
  <2>. QED  BY <2>1, Zenon
<1> HIDE DEF x, y, z
<1>8. Total(x) \in Nat /\ Total(y) \in Nat /\ Total(z) \in Nat
  BY <1>3, TotalIsNumber, ProcsFinite
<1>. QED  BY <1>4, <1>5, <1>6, <1>7, <1>8

(* Frames stay backed when those that are put on top are.                   *)
LEMMA ShapeMoved ==
  ASSUME FdTypes, NEW p \in Proc, Backed(stack[p]),
         NEW old \in Seq(Frames), NEW new \in Seq(Frames), NEW rest \in Seq(Frames),
         stack[p] = old \o rest, Len(old) <= 1,
         \A i \in DOMAIN new : \A f \in Needs(new[i]) :
           \/ \E k \in DOMAIN old : f \in Needs(old[k])
           \/ \E j \in DOMAIN new : j > i /\ f \in Gives(new[j])
  PROVE  Backed(new \o rest)
<1> DEFINE a == old \o rest
           b == new \o rest
           m == Len(old)
           n == Len(new)
<1>1. /\ DOMAIN old = 1..m /\ DOMAIN new = 1..n /\ DOMAIN rest = 1..Len(rest)
      /\ m \in Nat /\ n \in Nat /\ Len(rest) \in Nat
      /\ DOMAIN a = 1..(m + Len(rest)) /\ DOMAIN b = 1..(n + Len(rest))
      /\ \A i \in 1..m : a[i] = old[i]
      /\ \A i \in 1..n : b[i] = new[i]
      /\ \A i \in 1..Len(rest) : a[m + i] = rest[i] /\ b[n + i] = rest[i]
  OBVIOUS
<1>2. Backed(a)
  OBVIOUS
<1>3. m <= 1
  OBVIOUS
<1> HIDE DEF a, b, m, n
<1>4. ASSUME NEW i \in DOMAIN a, NEW f \in Needs(a[i]), i >= m
      PROVE  \E j \in 1..Len(rest) : m + j > i /\ f \in Gives(rest[j])
  <2>1. PICK j \in DOMAIN a : j > i /\ f \in Gives(a[j])
    BY <1>2 DEF Backed
  <2>2. j - m \in 1..Len(rest) /\ m + (j - m) = j
    BY <1>1, <1>4, <2>1
  <2>3. a[j] = rest[j - m]
    BY <1>1, <2>2
  <2>. QED  BY <2>1, <2>2, <2>3
<1>5. ASSUME NEW i \in DOMAIN b, NEW f \in Needs(b[i])
      PROVE  \E j \in DOMAIN b : j > i /\ f \in Gives(b[j])
  <2>1. CASE i <= n
    <3>1. i \in 1..n /\ b[i] = new[i]
      BY <2>1, <1>1
    <3>2. CASE \E j \in DOMAIN new : j > i /\ f \in Gives(new[j])
      <4>1. PICK j \in DOMAIN new : j > i /\ f \in Gives(new[j])
        BY <3>2
      <4>2. j \in DOMAIN b /\ b[j] = new[j]
        BY <4>1, <1>1
      <4>. QED  BY <4>1, <4>2
    <3>3. CASE \E k \in DOMAIN old : f \in Needs(old[k])
      <4>1. PICK k \in DOMAIN old : f \in Needs(old[k])
        BY <3>3
      <4>2. k \in DOMAIN a /\ a[k] = old[k] /\ k >= m
        BY <4>1, <1>1, <1>3
      <4>3. PICK j \in 1..Len(rest) : f \in Gives(rest[j])
        BY <4>1, <4>2, <1>4
      <4>4. n + j \in DOMAIN b /\ n + j > i /\ b[n + j] = rest[j]
        BY <1>1, <3>1, <4>3
      <4>. QED  BY <4>3, <4>4
    <3>. QED  BY <3>1, <3>2, <3>3, <1>1
  <2>2. CASE ~(i <= n)
    <3>1. i - n \in 1..Len(rest) /\ n + (i - n) = i
      BY <2>2, <1>1
    <3>2. /\ b[i] = rest[i - n] /\ a[m + (i - n)] = rest[i - n]
          /\ m + (i - n) \in DOMAIN a /\ m + (i - n) >= m
      BY <3>1, <1>1
    <3>3. PICK j \in 1..Len(rest) : m + j > m + (i - n) /\ f \in Gives(rest[j])
      BY <3>2, <1>4
    <3>4. n + j \in DOMAIN b /\ n + j > i /\ b[n + j] = rest[j]
      BY <1>1, <3>1, <3>3
    <3>. QED  BY <3>3, <3>4
  <2>. QED  BY <2>1, <2>2, <1>1
<1>6. Backed(b)
  BY <1>5 DEF Backed
<1>. QED  BY <1>6 DEF b

(* A stack changes at its top.                                              *)
LEMMA StackStep ==
  ASSUME FdInv, ~hurt, NEW p \in Proc,
         NEW old \in Seq(Frames), NEW new \in Seq(Frames), NEW rest \in Seq(Frames),
         stack[p] = old \o rest, stack' = [stack EXCEPT ![p] = new \o rest],
         Len(old) <= 1, NEW before,
         \A f \in before : \E k \in DOMAIN old : f \in Needs(old[k]),
         Fit(new, before)
  PROVE  StackMoved(old, new)
<1>1. FdTypes /\ stack \in [Proc -> Seq(Frames)] /\ \A q \in Proc : Backed(stack[q])
  BY DEF FdInv, FdTypes
<1>2. /\ stack'[p] = new \o rest
      /\ \A q \in Proc \ {p} : stack'[q] = stack[q]
  BY <1>1
<1>3. Backed(new \o rest)
  <2>1. \A i \in DOMAIN new : \A f \in Needs(new[i]) :
          \/ \E k \in DOMAIN old : f \in Needs(old[k])
          \/ \E j \in DOMAIN new : j > i /\ f \in Gives(new[j])
    BY DEF Fit
  <2>. QED  BY <1>1, <2>1, ShapeMoved
<1>4. \A q \in Proc : Backed(stack'[q])
  BY <1>1, <1>2, <1>3
<1>5. SweepsSockets'
  <2>1. SUFFICES ASSUME ~hurt', NEW q \in Proc, NEW i \in DOMAIN stack'[q],
                        stack'[q][i].op = "sweep"
                 PROVE  stack'[q][i].arg \subseteq Sock
    BY DEF SweepsSockets
  <2>2. \A r \in Proc : \A k \in DOMAIN stack[r] :
          stack[r][k].op = "sweep" => stack[r][k].arg \subseteq Sock
    BY DEF FdInv, SweepsSockets
  <2>3. CASE q # p
    BY <2>1, <2>2, <2>3, <1>2
  <2>4. CASE q = p
    <3> DEFINE a == old \o rest
               b == new \o rest
               m == Len(old)
               n == Len(new)
    <3>1. /\ DOMAIN new = 1..n
          /\ m \in Nat /\ n \in Nat /\ Len(rest) \in Nat
          /\ DOMAIN a = 1..(m + Len(rest)) /\ DOMAIN b = 1..(n + Len(rest))
          /\ \A k \in 1..n : b[k] = new[k]
          /\ \A k \in 1..Len(rest) : a[m + k] = rest[k] /\ b[n + k] = rest[k]
      OBVIOUS
    <3>2. a = stack[p] /\ b = stack'[q] /\ i \in DOMAIN b
      BY <1>2, <2>4
    <3> HIDE DEF a, b, m, n
    <3>3. CASE i <= n
      <4>1. i \in DOMAIN new /\ b[i] = new[i]
        BY <3>1, <3>2, <3>3
      <4>. QED  BY <4>1, <3>2, <2>1 DEF Fit
    <3>4. CASE ~(i <= n)
      <4>1. PICK k \in 1..Len(rest) : n + k = i
        <5>1. i - n \in 1..Len(rest) /\ n + (i - n) = i
          BY <3>1, <3>2, <3>4
        <5>. QED  BY <5>1
      <4>2. b[i] = rest[k] /\ a[m + k] = rest[k]
        BY <4>1, <3>1
      <4>3. m + k \in DOMAIN a
        BY <3>1
      <4>4. stack[p][m + k] = stack'[q][i]
        BY <4>2, <3>2
      <4>. QED  BY <4>3, <4>4, <3>2, <2>1, <2>2
    <3>. QED  BY <3>1, <3>2, <3>3, <3>4
  <2>. QED  BY <2>3, <2>4
<1>6. /\ stack' \in [Proc -> Seq(Frames)]
      /\ \A f \in File :
           /\ InHand(f)' \in Nat /\ ToClose(f)' \in Nat /\ ToFree(f)' \in Nat
           /\ InHand(f)' = InHand(f) + InFrames(new, f) - InFrames(old, f)
           /\ ToClose(f)' = ToClose(f) + Closed(new, f) - Closed(old, f)
           /\ ToFree(f)' = ToFree(f) + Freed(new, f) - Freed(old, f)
  <2>1. FdTypes
    BY <1>1
  <2>. QED  BY <2>1, NumbersMoved, Zenon
<1>. QED  BY <1>4, <1>5, <1>6 DEF StackMoved

(* A process that was not in the kernel enters it.                          *)
LEMMA EnterStep ==
  ASSUME FdInv, ~hurt, NEW p \in Proc, NEW new \in Seq(Frames),
         ~Busy(p), Enter(p, new), Fit(new, {})
  PROVE  StackMoved(<<>>, new)
<1> DEFINE none == <<>>
<1>1. none \in Seq(Frames) /\ Len(none) = 0
  OBVIOUS
<1>2. stack[p] = none \o none /\ new \o none = new
  BY DEF Busy
<1>3. stack' = [stack EXCEPT ![p] = new \o none]
  BY <1>2 DEF Enter
<1> HIDE DEF none
<1>4. Fit(new, {}) /\ Len(none) <= 1
  BY <1>1
<1>5. StackMoved(none, new)
  BY <1>1, <1>2, <1>3, <1>4, StackStep
<1>. QED  BY <1>5 DEF none

(* The innermost frame is done, and others take its place.                  *)
LEMMA GoStep ==
  ASSUME FdInv, ~hurt, NEW p \in Proc, NEW new \in Seq(Frames),
         Busy(p), Go(p, new), Fit(new, Needs(Top(p)))
  PROVE  Top(p) \in Frames /\ StackMoved(<<Top(p)>>, new)
<1>1. stack[p] \in Seq(Frames) /\ stack[p] # <<>>
  BY DEF FdInv, FdTypes, Busy
<1> DEFINE old == <<Top(p)>>
           rest == Tail(stack[p])
<1>2. /\ Top(p) \in Frames /\ rest \in Seq(Frames) /\ stack[p] = old \o rest
  BY <1>1 DEF Top
<1>3. old \in Seq(Frames) /\ Len(old) = 1 /\ DOMAIN old = {1} /\ old[1] = Top(p)
  BY <1>2
<1>4. stack' = [stack EXCEPT ![p] = new \o rest]
  BY DEF Go
<1> HIDE DEF old, rest
<1>5. \A f \in Needs(Top(p)) : \E k \in DOMAIN old : f \in Needs(old[k])
  BY <1>3
<1>6. Len(old) <= 1
  BY <1>3
<1>7. StackMoved(old, new)
  <2> DEFINE before == Needs(Top(p))
  <2>1. Fit(new, before) /\ \A f \in before : \E k \in DOMAIN old : f \in Needs(old[k])
    BY <1>5
  <2> HIDE DEF before
  <2>. QED  BY <1>2, <1>3, <1>4, <1>6, <2>1, StackStep
<1>. QED  BY <1>2, <1>7 DEF old

(* A step that leaves the stacks alone.                                    *)
LEMMA StackSame ==
  ASSUME FdInv, UNCHANGED stack, ~hurt \/ UNCHANGED hurt
  PROVE  StackMoved(<<>>, <<>>)
<1>1. /\ stack' = stack /\ stack' \in [Proc -> Seq(Frames)]
      /\ \A q \in Proc : Backed(stack'[q])
  BY DEF FdInv, FdTypes
<1>2. SweepsSockets'
  <2>1. ~hurt => \A q \in Proc : \A i \in DOMAIN stack[q] :
                   stack[q][i].op = "sweep" => stack[q][i].arg \subseteq Sock
    BY DEF FdInv, SweepsSockets
  <2>2. ~hurt' => ~hurt
    OBVIOUS
  <2>. QED  BY <1>1, <2>1, <2>2 DEF SweepsSockets
<1>3. \A f \in File : InHand(f)' = InHand(f) /\ ToClose(f)' = ToClose(f)
                       /\ ToFree(f)' = ToFree(f)
  <2> SUFFICES ASSUME NEW f \in File
               PROVE  InHand(f)' = InHand(f) /\ ToClose(f)' = ToClose(f)
                      /\ ToFree(f)' = ToFree(f)
    OBVIOUS
  <2>1. InHand(f)' = Total([p \in Proc |-> Times(f, Hand(stack'[p]))])
    BY Zenon DEF InHand, Total, FoldFunction, FoldFunctionOnSet, MapThenFoldSet
  <2>2. InHand(f) = Total([p \in Proc |-> Times(f, Hand(stack[p]))])
    BY Zenon DEF InHand, Total
  <2>3. ToClose(f)' = Total([p \in Proc |-> Closings(stack'[p], f)])
    BY Zenon DEF ToClose, Total, FoldFunction, FoldFunctionOnSet, MapThenFoldSet
  <2>4. ToClose(f) = Total([p \in Proc |-> Closings(stack[p], f)])
    BY Zenon DEF ToClose, Total
  <2>5. ToFree(f)' = ToFree(f)
    BY <1>1, Zenon DEF ToFree
  <2>. QED  BY <1>1, <2>1, <2>2, <2>3, <2>4, <2>5
<1>4. \A f \in File : InHand(f) \in Nat /\ ToClose(f) \in Nat /\ ToFree(f) \in Nat
  BY SumsCount DEF FdInv
<1>5. \A f \in File : InFrames(<<>>, f) = 0 /\ Closed(<<>>, f) = 0 /\ Freed(<<>>, f) = 0
  BY FramesNone
<1>. QED  BY <1>1, <1>2, <1>3, <1>4, <1>5 DEF StackMoved

(* The queues as they are counted.                                         *)
LEMMA QueueStep ==
  ASSUME FdTypes, NEW s \in Sock, NEW q \in Seq(Seq(File)),
         queue' = [queue EXCEPT ![s] = q]
  PROVE  /\ queue' \in [Sock -> Seq(Seq(File))]
         /\ \A f \in File :
              /\ InQueues(f)' \in Nat
              /\ InQueues(f)' = InQueues(f) + Times(f, FlattenSeq(q))
                                  - Times(f, FlattenSeq(queue[s]))
<1>1. queue' \in [Sock -> Seq(Seq(File))]
  BY Requeued
<1>2. SUFFICES ASSUME NEW f \in File
               PROVE  /\ InQueues(f)' \in Nat
                      /\ InQueues(f)' = InQueues(f) + Times(f, FlattenSeq(q))
                                          - Times(f, FlattenSeq(queue[s]))
  BY <1>1
<1> DEFINE x == [t \in Sock |-> Times(f, FlattenSeq(queue'[t]))]
<1>3. x \in [Sock -> Nat]
  <2>1. \A t \in Sock : FlattenSeq(queue'[t]) \in Seq(File)
    BY <1>1, FlatType
  <2>. QED  BY <2>1, TimesType
<1>4. InQueues(f)' = Total(x)
  BY Zenon DEF InQueues, Total, FoldFunction, FoldFunctionOnSet, MapThenFoldSet
<1>5. Total(x) = InQueues(f) + Times(f, FlattenSeq(q)) - Times(f, FlattenSeq(queue[s]))
  BY Requeued
<1> HIDE DEF x
<1>6. Total(x) \in Nat
  BY <1>3, TotalIsNumber, ProcsFinite
<1>. QED  BY <1>4, <1>5, <1>6

(* The queues stay as they are.                                             *)
LEMMA QueueSame ==
  ASSUME FdTypes, UNCHANGED queue
  PROVE  /\ queue' \in [Sock -> Seq(Seq(File))]
         /\ \A f \in File : InQueues(f)' \in Nat /\ InQueues(f)' = InQueues(f)
<1>1. ASSUME NEW f \in File
      PROVE  InQueues(f)' = InQueues(f)
  <2>1. InQueues(f)' = Total([s \in Sock |-> Times(f, FlattenSeq(queue'[s]))])
    BY Zenon DEF InQueues, Total, FoldFunction, FoldFunctionOnSet, MapThenFoldSet
  <2>2. InQueues(f) = Total([s \in Sock |-> Times(f, FlattenSeq(queue[s]))])
    BY Zenon DEF InQueues, Total
  <2>. QED  BY <2>1, <2>2
<1>. QED  BY <1>1, SumsCount DEF FdTypes

(* The descriptor table of one process is another one.                     *)
LEMMA TableStep ==
  ASSUME FdTypes, NEW p \in Proc, NEW t \in [File -> Nat],
         fds' = [fds EXCEPT ![p] = t]
  PROVE  /\ fds' \in [Proc -> [File -> Nat]]
         /\ \A f \in File :
              /\ InTables(f)' \in Nat
              /\ InTables(f)' = InTables(f) + t[f] - fds[p][f]
<1>1. /\ fds \in [Proc -> [File -> Nat]] /\ fds' \in [Proc -> [File -> Nat]]
      /\ fds'[p] = t /\ \A q \in Proc \ {p} : fds'[q] = fds[q]
  BY DEF FdTypes
<1>2. SUFFICES ASSUME NEW f \in File
               PROVE  /\ InTables(f)' \in Nat
                      /\ InTables(f)' = InTables(f) + t[f] - fds[p][f]
  BY <1>1
<1> DEFINE a == [q \in Proc |-> fds[q][f]]
           x == [q \in Proc |-> fds'[q][f]]
<1>3. /\ a \in [Proc -> Nat] /\ x \in [Proc -> Nat]
      /\ \A q \in Proc \ {p} : x[q] = a[q]
      /\ x[p] = t[f] /\ a[p] = fds[p][f]
  BY <1>1
<1>4. InTables(f) = Total(a) /\ InTables(f)' = Total(x)
  BY DEF InTables
<1> HIDE DEF a, x
<1>5. Total(x) \in Nat /\ Total(x) = Total(a) + x[p] - a[p]
  BY <1>3, TotalChanged, ProcsFinite
<1>. QED  BY <1>3, <1>4, <1>5

(* The descriptor tables stay as they are.                                  *)
LEMMA TableSame ==
  ASSUME FdTypes, UNCHANGED fds
  PROVE  /\ fds' \in [Proc -> [File -> Nat]]
         /\ \A f \in File : InTables(f)' \in Nat /\ InTables(f)' = InTables(f)
<1>1. \A f \in File : InTables(f)' = InTables(f)
  BY Zenon DEF InTables
<1>. QED  BY <1>1, SumsCount DEF FdTypes

(* The rights of one message are counted.                                  *)
LEMMA FilesAdded ==
  ASSUME NEW g \in [File -> Nat], NEW h \in [File -> Nat], NEW k \in [File -> Nat],
         \A f \in File : k[f] = g[f] + h[f]
  PROVE  Total(g) \in Nat /\ Total(k) = Total(g) + Total(h)
BY ProcsFinite, TotalAdded

(* The rights of one message more.                                          *)
LEMMA RightsAdded ==
  ASSUME NEW g \in [File -> Nat], NEW k \in [File -> Nat], NEW m \in Seq(File),
         \A f \in File : k[f] = g[f] + Times(f, m)
  PROVE  Total(g) \in Nat /\ Total(k) = Total(g) + Len(m)
<1> DEFINE h == [f \in File |-> Times(f, m)]
<1>1. h \in [File -> Nat] /\ Total(h) = Len(m)
  BY TimesType, TimesTotal, ProcsFinite
<1>2. \A f \in File : k[f] = g[f] + h[f]
  OBVIOUS
<1> HIDE DEF h
<1>3. Total(g) \in Nat /\ Total(k) = Total(g) + Total(h)
  BY <1>1, <1>2, FilesAdded, Zenon
<1>. QED  BY <1>1, <1>3

-----------------------------------------------------------------------------
(* What the frames of a stack say of the files in them.                    *)

(* What a frame on a stack refers to is live.                               *)
LEMMA FrameLive ==
  ASSUME FdInv, NEW p \in Proc, NEW i \in DOMAIN stack[p]
  PROVE  /\ stack[p][i] \in Frames
         /\ \A f \in File : Closes(stack[p][i], f) => f \in live /\ count[f] > 0
         /\ \A f \in File : stack[p][i] \in Freers(f) => f \in live /\ count[f] = 0
         /\ \A f \in Needs(stack[p][i]) : f \in live
<1>1. FdTypes /\ stack[p] \in Seq(Frames) /\ \A f \in File : CountOK(f)
  BY DEF FdInv, FdTypes
<1>2. ASSUME NEW k \in DOMAIN stack[p], NEW f \in File
      PROVE  /\ stack[p][k] \in Frames
             /\ Closes(stack[p][k], f) => f \in live /\ count[f] > 0
             /\ stack[p][k] \in Freers(f) => f \in live /\ count[f] = 0
  <2>1. stack[p][k] \in Frames
    BY <1>1
  <2>2. CASE Closes(stack[p][k], f)
    <3>1. stack[p][k] \in Closers(f)
      BY <2>1, <2>2 DEF Closers
    <3>2. Closed(stack[p], f) \in Nat /\ Closed(stack[p], f) > 0
      <4>1. Among(stack[p], Closers(f)) >= 1
        BY <1>1, <3>1, AmongSome
      <4>2. Closed(stack[p], f) \in Nat
        BY <1>1, FramesCount
      <4>. QED  BY <4>1, <4>2 DEF Closed
    <3>3. ToClose(f) > 0
      BY <1>1, <3>2, SumsCount
    <3>4. count[f] > 0
      <4>1. count[f] = InTables(f) + msgcount[f] + ToClose(f)
        BY <1>1 DEF CountOK
      <4>2. InTables(f) \in Nat /\ ToClose(f) \in Nat /\ msgcount[f] \in Nat
        BY <1>1, SumsCount DEF FdTypes
      <4>. QED  BY <4>1, <4>2, <3>3
    <3>5. stack[p][k] \notin Freers(f)
      BY <2>2 DEF Closes, Freers
    <3>. QED  BY <2>1, <3>4, <3>5, <1>1 DEF CountOK
  <2>3. CASE stack[p][k] \in Freers(f)
    <3>1. Freed(stack[p], f) \in Nat /\ Freed(stack[p], f) > 0
      <4>1. Among(stack[p], Freers(f)) >= 1
        BY <1>1, <2>3, AmongSome
      <4>2. Freed(stack[p], f) \in Nat
        BY <1>1, FramesCount
      <4>. QED  BY <4>1, <4>2 DEF Freed
    <3>2. ToFree(f) > 0
      BY <1>1, <3>1, SumsCount
    <3>3. ~Closes(stack[p][k], f)
      BY <2>3 DEF Closes, Freers
    <3>. QED  BY <2>1, <3>2, <3>3, <1>1 DEF CountOK
  <2>. QED  BY <2>1, <2>2, <2>3
<1>3. ASSUME NEW f \in Needs(stack[p][i])
      PROVE  f \in live
  <2>1. PICK j \in DOMAIN stack[p] : f \in Gives(stack[p][j])
    BY DEF FdInv, Backed
  <2>2. stack[p][j] \in Frames
    BY <1>1
  <2>3. f \in File /\ (Closes(stack[p][j], f) \/ stack[p][j] \in Freers(f))
    <3>1. CASE stack[p][j].op = "free"
      BY <2>1, <2>2, <3>1, FrameOps DEF Gives, Freers, File
    <3>2. CASE stack[p][j].op = "drop"
      BY <2>1, <2>2, <3>2, FrameOps DEF Gives, Closes
    <3>. QED  BY <2>1, <3>1, <3>2 DEF Gives
  <2>. QED  BY <2>3, <1>2
<1>4. stack[p][i] \in Frames
  BY <1>1
<1>. QED  BY <1>2, <1>3, <1>4

(* The first frame of a stack.                                             *)
LEMMA TopLive ==
  ASSUME FdInv, NEW p \in Proc, Busy(p)
  PROVE  /\ Top(p) \in Frames
         /\ \A f \in File : Closes(Top(p), f) => f \in live /\ count[f] > 0
         /\ \A f \in File : Top(p) \in Freers(f) => f \in live /\ count[f] = 0
         /\ \A f \in Needs(Top(p)) : f \in live
         /\ ~hurt /\ Top(p).op = "sweep" => Top(p).arg \subseteq Sock
<1>1. stack[p] \in Seq(Frames) /\ stack[p] # <<>>
  BY DEF FdInv, FdTypes, Busy
<1>2. 1 \in DOMAIN stack[p] /\ Top(p) = stack[p][1]
  BY <1>1 DEF Top
<1>3. ~hurt /\ Top(p).op = "sweep" => Top(p).arg \subseteq Sock
  BY <1>2 DEF FdInv, SweepsSockets
<1>. QED  BY <1>2, <1>3, FrameLive

-----------------------------------------------------------------------------
(* Frames that take the place of others.                                   *)

(* No frame needs nothing.                                                  *)
LEMMA FitNone ==
  ASSUME NEW before
  PROVE  Fit(<<>>, before)
BY DEF Fit

(* A frame is put in front of others that give what it needs.               *)
LEMMA FitMore ==
  ASSUME NEW x, NEW a \in Seq(Frames), NEW before, Fit(a, before),
         <<x>> \in Seq(Frames),
         \A f \in Needs(x) : f \in before \/ \E j \in DOMAIN a : f \in Gives(a[j]),
         hurt' \/ x.op # "sweep" \/ x.arg \subseteq Sock
  PROVE  Fit(<<x>> \o a, before)
<1> DEFINE b == <<x>> \o a
           n == Len(a)
<1>1. /\ n \in Nat /\ DOMAIN a = 1..n /\ DOMAIN b = 1..(n + 1)
      /\ b[1] = x /\ \A j \in 1..n : b[j + 1] = a[j]
  OBVIOUS
<1> HIDE DEF b, n
<1>2. ASSUME NEW i \in DOMAIN b
      PROVE  i = 1 \/ \E k \in DOMAIN a : i = k + 1 /\ b[i] = a[k]
  <2>1. CASE i # 1
    <3>1. i - 1 \in DOMAIN a /\ i = (i - 1) + 1
      BY <1>1, <2>1
    <3>. QED  BY <1>1, <3>1
  <2>. QED  BY <2>1
<1>3. ASSUME NEW i \in DOMAIN b, NEW f \in Needs(b[i])
      PROVE  f \in before \/ \E j \in DOMAIN b : j > i /\ f \in Gives(b[j])
  <2>1. \A k \in DOMAIN a : k + 1 \in DOMAIN b /\ b[k + 1] = a[k] /\ k + 1 > 1
    BY <1>1
  <2>2. CASE i = 1
    BY <2>1, <2>2, <1>1
  <2>3. CASE \E k \in DOMAIN a : i = k + 1 /\ b[i] = a[k]
    <3>1. PICK k \in DOMAIN a : i = k + 1 /\ b[i] = a[k]
      BY <2>3
    <3>2. CASE \E j \in DOMAIN a : j > k /\ f \in Gives(a[j])
      <4>1. PICK j \in DOMAIN a : j > k /\ f \in Gives(a[j])
        BY <3>2
      <4>2. j + 1 > i
        BY <1>1, <3>1, <4>1
      <4>. QED  BY <2>1, <4>1, <4>2
    <3>. QED  BY <3>1, <3>2 DEF Fit
  <2>. QED  BY <1>2, <2>2, <2>3
<1>4. hurt' \/ \A i \in DOMAIN b : b[i].op = "sweep" => b[i].arg \subseteq Sock
  BY <1>1, <1>2 DEF Fit
<1>5. Fit(b, before)
  BY <1>3, <1>4 DEF Fit
<1>. QED  BY <1>5 DEF b

(* Two frames are one and one.                                              *)
LEMMA Pair ==
  ASSUME NEW X, NEW x \in X, NEW y \in X
  PROVE  <<x, y>> = <<x>> \o <<y>>
<1> DEFINE a == <<x>>
           b == <<y>>
           c == <<x, y>>
<1>1. /\ a \in Seq(X) /\ Len(a) = 1 /\ a[1] = x
      /\ b \in Seq(X) /\ Len(b) = 1 /\ b[1] = y
      /\ c \in Seq(X) /\ Len(c) = 2 /\ c[1] = x /\ c[2] = y
  OBVIOUS
<1> HIDE DEF a, b, c
<1>2. \A n \in 1..Len(c) : c[n] = IF n <= Len(a) THEN a[n] ELSE b[n - Len(a)]
  BY <1>1
<1>3. c = a \o b
  <2>1. a \in Seq(X) /\ b \in Seq(X) /\ c \in Seq(X) /\ Len(c) = Len(a) + Len(b)
    BY <1>1
  <2>. QED  BY <2>1, <1>2, JoinedIs
<1>. QED  BY <1>3 DEF a, b, c

(* Three frames are one and two.                                            *)
LEMMA Triple ==
  ASSUME NEW X, NEW x \in X, NEW y \in X, NEW z \in X
  PROVE  <<x, y, z>> = <<x>> \o (<<y>> \o <<z>>)
<1>1. <<x, y, z>> = <<x>> \o <<y, z>>
  OBVIOUS
<1>2. <<y, z>> = <<y>> \o <<z>>
  BY Pair
<1>. QED  BY <1>1, <1>2

(* A single frame that needs nothing.                                       *)
LEMMA FitOne ==
  ASSUME NEW x, <<x>> \in Seq(Frames), NEW before, Needs(x) \subseteq before,
         hurt' \/ x.op # "sweep" \/ x.arg \subseteq Sock
  PROVE  Fit(<<x>>, before)
<1> DEFINE none == <<>>
<1>1. none \in Seq(Frames) /\ Fit(none, before)
  BY FitNone
<1>2. \A a \in Seq(Frames) : a \o none = a
  OBVIOUS
<1>3. \A j \in DOMAIN none : FALSE
  OBVIOUS
<1> HIDE DEF none
<1>4. Fit(<<x>> \o none, before)
  BY <1>1, <1>3, FitMore
<1>5. <<x>> \o none = <<x>>
  BY <1>2
<1>. QED  BY <1>4, <1>5

(* A step that has done all this keeps the invariant.                      *)
LEMMA Assembled ==
  ASSUME FdTypes', NEW a, NEW b, StackMoved(a, b), \A f \in File : CountOK(f)',
         rights' = Total(msgcount')
  PROVE  FdInv'
BY DEF FdInv, StackMoved

(* The numbers of one file.                                                *)
LEMMA Numbers ==
  ASSUME FdInv, NEW f \in File
  PROVE  /\ InQueues(f) \in Nat /\ InHand(f) \in Nat /\ leaked[f] \in Nat
         /\ InTables(f) \in Nat /\ ToClose(f) \in Nat /\ ToFree(f) \in Nat
         /\ msgcount[f] \in Nat /\ count[f] \in Nat
         /\ msgcount[f] = InQueues(f) + InHand(f) + leaked[f]
         /\ count[f] = InTables(f) + msgcount[f] + ToClose(f)
         /\ count[f] > 0 => f \in live
         /\ ToFree(f) <= 1
         /\ ToFree(f) > 0 => f \in live /\ count[f] = 0
         /\ \A p \in Proc : fds[p][f] \in Nat /\ InTables(f) >= fds[p][f]
<1>1. FdTypes /\ CountOK(f)
  BY DEF FdInv
<1>2. leaked[f] \in Nat /\ msgcount[f] \in Nat /\ count[f] \in Nat
      /\ \A p \in Proc : fds[p][f] \in Nat
  BY <1>1 DEF FdTypes
<1>. QED  BY <1>1, <1>2, SumsCount DEF CountOK

-----------------------------------------------------------------------------
(* Steps that change neither a count nor a descriptor: rights may come off *)
(* a queue, and a file may be freed.                                       *)

Balanced(a, b, f) ==
  /\ InQueues(f)' + InFrames(b, f) = InQueues(f) + InFrames(a, f)
  /\ InQueues(f)' \in Nat
  /\ Closed(b, f) = Closed(a, f)
  /\ Freed(b, f) <= Freed(a, f)
  /\ f \in live' <=> f \in live /\ Freed(a, f) = Freed(b, f)

(* What is taken away is no less than what is put in its place.            *)
LEMMA NoMore ==
  ASSUME NEW x \in Nat, NEW i \in Nat, NEW j \in Nat, NEW y, y = x + i - j, i <= j
  PROVE  y <= x
OBVIOUS

(* Rights move between queues and hands, and a file may be freed.           *)
LEMMA Rearranged ==
  ASSUME FdInv, UNCHANGED <<count, msgcount, fds, peer, rights, leaked>>,
         NEW a \in Seq(Frames), NEW b \in Seq(Frames), StackMoved(a, b),
         hurt' \in BOOLEAN, queue' \in [Sock -> Seq(Seq(File))],
         live' \subseteq File, \A f \in File : Balanced(a, b, f)
  PROVE  FdInv'
<1>1. FdTypes'
  BY DEF FdInv, FdTypes, StackMoved
<1>2. ASSUME NEW f \in File
      PROVE  CountOK(f)'
  <2> DEFINE ha == InFrames(a, f)
             hb == InFrames(b, f)
             ca == Closed(a, f)
             cb == Closed(b, f)
             ra == Freed(a, f)
             rb == Freed(b, f)
  <2>1. /\ ha \in Nat /\ hb \in Nat /\ ca \in Nat /\ cb \in Nat
        /\ ra \in Nat /\ rb \in Nat
    BY FramesCount
  <2>2. /\ InHand(f)' \in Nat /\ ToClose(f)' \in Nat /\ ToFree(f)' \in Nat
        /\ InHand(f)' = InHand(f) + hb - ha
        /\ ToClose(f)' = ToClose(f) + cb - ca
        /\ ToFree(f)' = ToFree(f) + rb - ra
    BY DEF StackMoved
  <2>3. /\ InQueues(f)' + hb = InQueues(f) + ha /\ InQueues(f)' \in Nat
        /\ cb = ca /\ rb <= ra
        /\ f \in live' <=> f \in live /\ ra = rb
    BY DEF Balanced
  <2>4. InTables(f)' = InTables(f)
    BY TableSame DEF FdInv
  <2>5. count'[f] = count[f] /\ msgcount'[f] = msgcount[f] /\ leaked'[f] = leaked[f]
    OBVIOUS
  <2> HIDE DEF ha, hb, ca, cb, ra, rb
  <2>0. /\ InQueues(f) \in Nat /\ InHand(f) \in Nat /\ leaked[f] \in Nat
        /\ InTables(f) \in Nat /\ ToClose(f) \in Nat /\ ToFree(f) \in Nat
        /\ msgcount[f] \in Nat /\ count[f] \in Nat
        /\ msgcount[f] = InQueues(f) + InHand(f) + leaked[f]
        /\ count[f] = InTables(f) + msgcount[f] + ToClose(f)
        /\ ToFree(f) <= 1
    BY Numbers
  <2>6. msgcount'[f] = InQueues(f)' + InHand(f)' + leaked'[f]
    <3>1. /\ InQueues(f) \in Nat /\ InHand(f) \in Nat /\ InQueues(f)' \in Nat
          /\ InHand(f)' \in Nat /\ ha \in Nat /\ hb \in Nat
      BY <2>0, <2>1, <2>2, <2>3
    <3>2. InQueues(f)' = InQueues(f) + ha - hb
      BY <3>1, <2>3
    <3>3. InHand(f) = InHand(f)' + ha - hb
      BY <3>1, <2>2
    <3>4. InQueues(f) + InHand(f) = InQueues(f)' + InHand(f)'
      BY <3>1, <3>2, <3>3
    <3>. QED  BY <3>1, <3>4, <2>0, <2>5
  <2>7. count'[f] = InTables(f)' + msgcount'[f] + ToClose(f)'
    BY <2>0, <2>1, <2>2, <2>3, <2>4, <2>5
  <2>8. /\ ToFree(f)' = ToFree(f) + rb - ra /\ rb <= ra
        /\ ToFree(f)' <= ToFree(f) /\ ToFree(f)' <= 1
    <3>1. ToFree(f)' = ToFree(f) + rb - ra /\ rb <= ra /\ ToFree(f)' \in Nat
      BY <2>2, <2>3
    <3>2. ToFree(f) \in Nat /\ ToFree(f) <= 1
      BY <2>0
    <3>3. ToFree(f)' <= ToFree(f)
      BY <2>1, <3>1, <3>2, NoMore
    <3>. QED  BY <3>1, <3>2, <3>3
  <2>9. count'[f] > 0 => f \in live'
    <3>1. SUFFICES ASSUME count'[f] > 0
                   PROVE  f \in live'
      OBVIOUS
    <3>2. f \in live /\ ToFree(f) = 0
      BY <3>1, <2>5, Numbers
    <3>3. ra = rb
      BY <3>2, <2>1, <2>2, <2>3
    <3>. QED  BY <3>2, <3>3, <2>3
  <2>10. ToFree(f)' > 0 => f \in live' /\ count'[f] = 0
    <3>1. SUFFICES ASSUME ToFree(f)' > 0
                   PROVE  f \in live' /\ count'[f] = 0
      OBVIOUS
    <3>2. ToFree(f) > 0 /\ ra = rb
      <4>1. ToFree(f)' \in Nat /\ ToFree(f) \in Nat
        BY <2>0, <2>2
      <4>2. ToFree(f)' = ToFree(f) /\ ToFree(f) > 0
        BY <2>0, <2>8, <3>1, <4>1
      <4>. QED  BY <2>1, <2>8, <4>1, <4>2
    <3>3. f \in live /\ count[f] = 0
      BY <3>2, Numbers
    <3>. QED  BY <3>2, <3>3, <2>3, <2>5
  <2>. QED  BY <2>6, <2>7, <2>8, <2>9, <2>10 DEF CountOK
<1>3. rights' = Total(msgcount')
  BY DEF FdInv
<1>. QED  BY <1>1, <1>2, <1>3, Assembled

(* The innermost frame is done, and nothing takes its place.                *)
LEMMA Popped ==
  ASSUME FdInv, ~hurt, NEW p \in Proc, Busy(p), Go(p, <<>>)
  PROVE  /\ Top(p) \in Frames /\ <<Top(p)>> \in Seq(Frames) /\ <<>> \in Seq(Frames)
         /\ StackMoved(<<Top(p)>>, <<>>)
<1> DEFINE none == <<>>
<1>1. none \in Seq(Frames) /\ Fit(none, Needs(Top(p)))
  BY FitNone
<1>2. Go(p, none)
  OBVIOUS
<1> HIDE DEF none
<1>3. Top(p) \in Frames /\ StackMoved(<<Top(p)>>, none)
  BY <1>1, <1>2, GoStep
<1>. QED  BY <1>1, <1>3 DEF none

(* ffree() keeps the invariant.                                             *)
LEMMA FreeKeeps ==
  ASSUME FdInv, ~hurt, NEW p \in Proc, Free(p)
  PROVE  FdInv'
<1> DEFINE f == Top(p).arg
           old == <<Top(p)>>
           new == <<>>
<1>1. Busy(p) /\ Top(p).op \in {"free", "slow"} /\ Go(p, <<>>)
  BY DEF Free, At
<1>2. old \in Seq(Frames) /\ new \in Seq(Frames) /\ StackMoved(old, new)
  BY <1>1, Popped
<1>3. Top(p) \in Frames /\ f \in File
  BY <1>1, Popped, FrameOps DEF File
<1>4. \A g \in File : /\ InFrames(old, g) = 0 /\ Closed(old, g) = 0
                      /\ Freed(old, g) = IF f = g THEN 1 ELSE 0
  BY <1>1, <1>3, FramesOne DEF Closes
<1>5. \A g \in File : InFrames(new, g) = 0 /\ Closed(new, g) = 0 /\ Freed(new, g) = 0
  BY FramesNone
<1>6. /\ live' = live \ {f} /\ queue' = queue /\ hurt' = hurt
      /\ UNCHANGED <<count, msgcount, fds, peer, rights, leaked>>
  BY DEF Free
<1>7. /\ queue' \in [Sock -> Seq(Seq(File))] /\ live' \subseteq File /\ hurt' \in BOOLEAN
      /\ \A g \in File : InQueues(g)' \in Nat /\ InQueues(g)' = InQueues(g)
  BY <1>6, QueueSame DEF FdInv, FdTypes
<1> HIDE DEF f, old, new
<1>8. \A g \in File : Balanced(old, new, g)
  BY <1>3, <1>4, <1>5, <1>6, <1>7 DEF Balanced
<1>. QED  BY <1>2, <1>6, <1>7, <1>8, Rearranged

(* Frames give way to frames that count the same, and nothing else moves.  *)
Alike(a, b, f) == /\ InFrames(a, f) = InFrames(b, f)
                  /\ Closed(a, f) = Closed(b, f)
                  /\ Freed(a, f) = Freed(b, f)

(* Frames give way to frames that count alike, and nothing else moves.      *)
LEMMA Shifted ==
  ASSUME FdInv,
         UNCHANGED <<live, count, msgcount, fds, peer, queue, rights, leaked>>,
         NEW a \in Seq(Frames), NEW b \in Seq(Frames), StackMoved(a, b),
         hurt' \in BOOLEAN, \A f \in File : Alike(a, b, f)
  PROVE  FdInv'
<1>1. /\ queue' \in [Sock -> Seq(Seq(File))] /\ live' \subseteq File
      /\ \A f \in File : InQueues(f)' \in Nat /\ InQueues(f)' = InQueues(f)
  BY QueueSame DEF FdInv, FdTypes
<1>2. ASSUME NEW f \in File
      PROVE  Balanced(a, b, f)
  <2> DEFINE ra == Freed(a, f)
             rb == Freed(b, f)
  <2>1. ra = rb /\ ra \in Nat
    BY FramesCount DEF Alike
  <2>2. InFrames(a, f) = InFrames(b, f) /\ Closed(a, f) = Closed(b, f)
    BY DEF Alike
  <2>3. InQueues(f)' = InQueues(f) /\ InQueues(f)' \in Nat
    BY <1>1
  <2>4. f \in live' <=> f \in live
    OBVIOUS
  <2>5. rb <= ra
    BY <2>1
  <2>. QED  BY <2>1, <2>2, <2>3, <2>4, <2>5 DEF Balanced
<1>3. UNCHANGED <<count, msgcount, fds, peer, rights, leaked>>
  OBVIOUS
<1>. QED  BY <1>1, <1>2, <1>3, Rearranged

(* A frame that says nothing of any file is done.                          *)
LEMMA PoppedAlike ==
  ASSUME NEW fr \in Frames, fr.op \in {"spilt", "collect", "memory", "sweep", "done"}
  PROVE  \A f \in File : Alike(<<fr>>, <<>>, f)
<1>1. SUFFICES ASSUME NEW f \in File
               PROVE  Alike(<<fr>>, <<>>, f)
  OBVIOUS
<1>2. InFrames(<<fr>>, f) = 0 /\ Closed(<<fr>>, f) = 0 /\ Freed(<<fr>>, f) = 0
  BY FramesOne DEF Closes
<1>. QED  BY <1>2, FramesNone DEF Alike

(* The end of a discarded message keeps the invariant.                      *)
LEMMA SpiltKeeps ==
  ASSUME FdInv, ~hurt, NEW p \in Proc, Spilt(p)
  PROVE  FdInv'
<1>1. Busy(p) /\ Top(p).op = "spilt" /\ Go(p, <<>>)
  BY DEF Spilt, At
<1> DEFINE old == <<Top(p)>>
           new == <<>>
<1>2. old \in Seq(Frames) /\ new \in Seq(Frames) /\ StackMoved(old, new)
  BY <1>1, Popped
<1>3. \A f \in File : Alike(old, new, f)
  BY <1>1, Popped, PoppedAlike
<1>4. /\ UNCHANGED <<live, count, msgcount, fds, peer, queue, rights, leaked>>
      /\ hurt' \in BOOLEAN
  BY DEF Spilt, FdInv, FdTypes
<1> HIDE DEF old, new
<1>. QED  BY <1>2, <1>3, <1>4, Shifted

(* The end of the collector keeps the invariant.                            *)
LEMMA CollectedKeeps ==
  ASSUME FdInv, ~hurt, NEW p \in Proc, Collected(p)
  PROVE  FdInv'
<1>1. Busy(p) /\ Top(p).op = "done" /\ Go(p, <<>>)
  BY DEF Collected, At
<1> DEFINE old == <<Top(p)>>
           new == <<>>
<1>2. old \in Seq(Frames) /\ new \in Seq(Frames) /\ StackMoved(old, new)
  BY <1>1, Popped
<1>3. \A f \in File : Alike(old, new, f)
  BY <1>1, Popped, PoppedAlike
<1>4. /\ UNCHANGED <<live, count, msgcount, fds, peer, queue, rights, leaked>>
      /\ hurt' \in BOOLEAN
  BY DEF Collected, FdInv, FdTypes
<1> HIDE DEF old, new
<1>. QED  BY <1>2, <1>3, <1>4, Shifted

(* The start of the collector keeps the invariant.                          *)
LEMMA CollectKeeps ==
  ASSUME FdInv, ~hurt, NEW p \in Proc, Collect(p)
  PROVE  FdInv'
<1>1. Busy(p) /\ Top(p).op = "collect"
  BY DEF Collect, At
<1>2. Top(p) \in Frames
  BY <1>1, TopLive
<1>3. UNCHANGED <<live, count, msgcount, fds, peer, queue, rights, leaked>>
  BY DEF Collect
<1>4. hurt' \in BOOLEAN
  BY DEF Collect, InPieces, FdInv, FdTypes
<1> DEFINE old == <<Top(p)>>
           none == <<>>
           new == <<Frame("memory", None)>>
<1>5. \A f \in File : Alike(old, none, f)
  BY <1>1, <1>2, PoppedAlike
<1>6. CASE Go(p, none)
  <2>1. old \in Seq(Frames) /\ none \in Seq(Frames) /\ StackMoved(old, none)
    BY <1>1, <1>6, Popped
  <2> HIDE DEF old, none
  <2>. QED  BY <2>1, <1>3, <1>4, <1>5, Shifted
<1>7. CASE Go(p, new)
  <2>1. \A f \in File : Counts(new, f, 0, 0, 0)
    BY FrameCounts
  <2>2. \A f \in File : Alike(old, new, f)
    BY <1>5, <2>1, FramesNone DEF Alike, Counts
  <2>3. old \in Seq(Frames) /\ new \in Seq(Frames)
    BY <1>2, FramesOne, FrameIn
  <2>4. Fit(new, Needs(Top(p)))
    <3>1. Frame("memory", None).op = "memory"
      BY DEF Frame
    <3>2. Needs(Frame("memory", None)) = {}
      BY <3>1 DEF Needs
    <3>. QED  BY <2>3, <3>1, <3>2, FitOne
  <2> HIDE DEF new
  <2>5. StackMoved(old, new)
    BY <1>1, <1>7, <2>3, <2>4, GoStep
  <2> HIDE DEF old
  <2>. QED  BY <2>2, <2>3, <2>5, <1>3, <1>4, Shifted
<1>. QED  BY <1>6, <1>7 DEF Collect

(* A frame with a set of files is split in one for one of them and one for *)
(* the others.                                                             *)
LEMMA SplitAlike ==
  ASSUME NEW fr \in Frames, fr.op \in {"sweep", "drop"}, NEW f \in fr.arg,
         fr.op = "sweep" => f \in Sock
  PROVE  LET x == Frame(IF fr.op = "sweep" THEN "flush" ELSE "closef", f)
             y == Frame(fr.op, fr.arg \ {f})
         IN  /\ x \in Frames /\ y \in Frames
             /\ <<x, y>> \in Seq(Frames)
             /\ \A g \in File : Alike(<<fr>>, <<x, y>>, g)
<1> DEFINE S == fr.arg
           x == Frame(IF fr.op = "sweep" THEN "flush" ELSE "closef", f)
           y == Frame(fr.op, S \ {f})
<1>1. S \in SUBSET File /\ f \in File
  BY FrameOps
<1>2. S \ {f} \in SUBSET File
  BY <1>1
<1>3. /\ x.op = IF fr.op = "sweep" THEN "flush" ELSE "closef"
      /\ x.arg = f /\ y.op = fr.op /\ y.arg = S \ {f}
  BY DEF Frame
<1>4. x \in Frames
  <2>1. CASE fr.op = "sweep"
    BY <2>1, FrameIn
  <2>2. CASE fr.op # "sweep"
    BY <2>2, <1>1, FrameIn
  <2>. QED  BY <2>1, <2>2
<1>5. y \in Frames
  BY <1>2, FrameIn
<1> HIDE DEF x, y, S
<1>6. <<x>> \in Seq(Frames) /\ <<y>> \in Seq(Frames) /\ <<x, y>> = <<x>> \o <<y>>
  BY <1>4, <1>5, Pair
<1>7. ASSUME NEW g \in File
      PROVE  Alike(<<fr>>, <<x, y>>, g)
  <2>1. /\ InFrames(<<x>>, g) = 0 /\ InFrames(<<y>>, g) = 0 /\ InFrames(<<fr>>, g) = 0
        /\ Freed(<<x>>, g) = 0 /\ Freed(<<y>>, g) = 0 /\ Freed(<<fr>>, g) = 0
    <3>1. /\ x.op \notin {"discard", "grow", "free", "slow"}
          /\ y.op \notin {"discard", "grow", "free", "slow"}
          /\ fr.op \notin {"discard", "grow", "free", "slow"}
      BY <1>3
    <3>. QED  BY <3>1, <1>4, <1>5, FramesOne
  <2>2. Closed(<<fr>>, g) = IF fr.op = "drop" /\ g \in S THEN 1 ELSE 0
    BY FramesOne DEF Closes, S
  <2>3. Closed(<<x>>, g) = IF fr.op = "drop" /\ g = f THEN 1 ELSE 0
    <3>1. Closes(x, g) <=> fr.op = "drop" /\ g = f
      BY <1>3 DEF Closes
    <3>. QED  BY <3>1, <1>4, FramesOne
  <2>4. Closed(<<y>>, g) = IF fr.op = "drop" /\ g \in S \ {f} THEN 1 ELSE 0
    <3>1. Closes(y, g) <=> fr.op = "drop" /\ g \in S \ {f}
      BY <1>3 DEF Closes
    <3>. QED  BY <3>1, <1>5, FramesOne
  <2>5. f \in S
    BY DEF S
  <2>6. Closed(<<fr>>, g) = Closed(<<x>>, g) + Closed(<<y>>, g)
    BY <2>2, <2>3, <2>4, <2>5
  <2>7. /\ InFrames(<<x>> \o <<y>>, g) = InFrames(<<x>>, g) + InFrames(<<y>>, g)
        /\ Closed(<<x>> \o <<y>>, g) = Closed(<<x>>, g) + Closed(<<y>>, g)
        /\ Freed(<<x>> \o <<y>>, g) = Freed(<<x>>, g) + Freed(<<y>>, g)
    <3> DEFINE a == <<x>>
               b == <<y>>
    <3>1. a \in Seq(Frames) /\ b \in Seq(Frames)
      BY <1>6
    <3> HIDE DEF a, b
    <3>2. /\ InFrames(a \o b, g) = InFrames(a, g) + InFrames(b, g)
          /\ Closed(a \o b, g) = Closed(a, g) + Closed(b, g)
          /\ Freed(a \o b, g) = Freed(a, g) + Freed(b, g)
      BY <3>1, FramesJoined
    <3>. QED  BY <3>2 DEF a, b
  <2>8. InFrames(<<x, y>>, g) = 0 /\ Freed(<<x, y>>, g) = 0
    <3> DEFINE c == <<x>> \o <<y>>
    <3>1. InFrames(c, g) = 0 /\ Freed(c, g) = 0
      BY <2>1, <2>7
    <3>2. c = <<x, y>>
      BY <1>6
    <3> HIDE DEF c
    <3>. QED  BY <3>1, <3>2
  <2>9. Closed(<<x, y>>, g) = Closed(<<fr>>, g)
    <3> DEFINE c == <<x>> \o <<y>>
    <3>1. Closed(c, g) = Closed(<<fr>>, g)
      BY <2>6, <2>7
    <3>2. c = <<x, y>>
      BY <1>6
    <3> HIDE DEF c
    <3>. QED  BY <3>1, <3>2
  <2>. QED  BY <2>1, <2>8, <2>9 DEF Alike
<1>8. <<x, y>> \in Seq(Frames)
  BY <1>4, <1>5
<1>. QED  BY <1>4, <1>5, <1>7, <1>8 DEF x, y, S

(* The collector flushes or closes one of its files: the invariant is kept. *)
LEMMA EachUnrefKeeps ==
  ASSUME FdInv, ~hurt, NEW p \in Proc, EachUnref(p)
  PROVE  FdInv'
<1> DEFINE fr == Top(p)
           S == Top(p).arg
           op == IF At(p, "sweep") THEN "flush" ELSE "closef"
           old == <<Top(p)>>
           none == <<>>
<1>1. Busy(p) /\ fr.op \in {"sweep", "drop"}
  BY DEF EachUnref, At
<1>2. fr \in Frames /\ old \in Seq(Frames)
  BY <1>1, TopLive, FramesOne
<1>3. /\ UNCHANGED <<live, count, msgcount, fds, peer, queue, rights, leaked>>
      /\ hurt' \in BOOLEAN
  BY DEF EachUnref, FdInv, FdTypes
<1>4. CASE S = {} /\ Go(p, none)
  <2>1. none \in Seq(Frames) /\ StackMoved(old, none)
    BY <1>1, <1>4, Popped
  <2>2. ASSUME NEW f \in File
        PROVE  Alike(old, none, f)
    <3>1. InFrames(old, f) = 0 /\ Closed(old, f) = 0 /\ Freed(old, f) = 0
      BY <1>1, <1>2, <1>4, FramesOne DEF Closes
    <3>. QED  BY <3>1, FramesNone DEF Alike
  <2> HIDE DEF old, none
  <2>. QED  BY <2>1, <2>2, <1>2, <1>3, Shifted
<1>5. ASSUME NEW f \in S, Go(p, <<Frame(op, f), Frame(fr.op, S \ {f})>>)
      PROVE  FdInv'
  <2> DEFINE x == Frame(op, f)
             y == Frame(fr.op, S \ {f})
             new == <<x, y>>
  <2>1. fr.op = "sweep" => S \subseteq Sock
    BY <1>1, TopLive
  <2>2. op = IF fr.op = "sweep" THEN "flush" ELSE "closef"
    BY <1>1 DEF At
  <2>3. /\ x \in Frames /\ y \in Frames /\ new \in Seq(Frames)
        /\ \A g \in File : Alike(old, new, g)
    <3>1. fr.op = "sweep" => f \in Sock
      BY <2>1, <1>5
    <3>. QED  BY <1>1, <1>2, <1>5, <2>2, <3>1, SplitAlike
  <2>4. <<x>> \in Seq(Frames) /\ <<y>> \in Seq(Frames) /\ new = <<x>> \o <<y>>
    BY <2>3, Pair
  <2>5. /\ x.op = op /\ x.arg = f /\ y.op = fr.op /\ y.arg = S \ {f}
    BY DEF Frame
  <2>6. Needs(x) \subseteq Needs(fr) /\ Needs(y) \subseteq Needs(fr)
    BY <1>1, <1>5, <2>2, <2>5 DEF Needs
  <2>7. /\ x.op # "sweep"
        /\ hurt' \/ y.op # "sweep" \/ y.arg \subseteq Sock
    BY <2>1, <2>2, <2>5
  <2>8. Go(p, new)
    BY <1>5
  <2> HIDE DEF x, y, new, op
  <2>9. Fit(<<y>>, Needs(fr))
    BY <2>4, <2>6, <2>7, FitOne
  <2>10. Fit(new, Needs(fr))
    <3>1. Fit(<<x>> \o <<y>>, Needs(fr))
      BY <2>4, <2>6, <2>7, <2>9, FitMore
    <3>. QED  BY <3>1, <2>4
  <2>11. StackMoved(old, new)
    BY <1>1, <2>3, <2>8, <2>10, GoStep
  <2> HIDE DEF old
  <2>. QED  BY <2>3, <2>11, <1>2, <1>3, Shifted
<1>. QED  BY <1>4, <1>5 DEF EachUnref

(* sorflush() keeps the invariant.                                          *)
LEMMA FlushKeeps ==
  ASSUME FdInv, ~hurt, NEW p \in Proc, Flush(p)
  PROVE  FdInv'
<1> DEFINE s == Top(p).arg
           m == FlattenSeq(queue[s])
           x == Frame("discard", m)
           old == <<Top(p)>>
           new == <<x>>
           none == <<>>
<1>1. Busy(p) /\ Top(p).op = "flush"
  BY DEF Flush, At
<1>2. Top(p) \in Frames /\ s \in Sock /\ old \in Seq(Frames)
  BY <1>1, TopLive, FrameOps, FramesOne
<1>3. /\ UNCHANGED <<count, msgcount, fds, peer, rights, leaked>>
      /\ live' = live /\ hurt' \in BOOLEAN /\ live' \subseteq File
      /\ queue' = [queue EXCEPT ![s] = none] /\ Go(p, new)
  BY DEF Flush, FdInv, FdTypes
<1>4. queue[s] \in Seq(Seq(File)) /\ m \in Seq(File) /\ FdTypes
  BY <1>2, FlatType DEF FdInv, FdTypes
<1>5. x \in Frames /\ new \in Seq(Frames) /\ x.op = "discard"
  BY <1>4, FrameIn, FramesOne DEF Frame
<1>6. none \in Seq(Seq(File)) /\ FlattenSeq(none) = none
  <2>1. none \in Seq(Seq(File))
    OBVIOUS
  <2>. QED  BY <2>1, FlatIs
<1>7. \A f \in File : Counts(new, f, Times(f, m), 0, 0)
  BY <1>4, FrameCounts
<1>8. \A f \in File : InFrames(old, f) = 0 /\ Closed(old, f) = 0 /\ Freed(old, f) = 0
  BY <1>1, <1>2, FramesOne DEF Closes
<1>9. \A f \in File : Times(f, none) = 0 /\ Times(f, m) \in Nat
  BY <1>4, TimesNone, TimesType
<1> HIDE DEF none
<1>10. /\ queue' \in [Sock -> Seq(Seq(File))]
       /\ \A f \in File : /\ InQueues(f)' \in Nat
                          /\ InQueues(f)' = InQueues(f) + Times(f, none) - Times(f, m)
  <2>1. /\ queue' \in [Sock -> Seq(Seq(File))]
        /\ \A f \in File : /\ InQueues(f)' \in Nat
                           /\ InQueues(f)' = InQueues(f) + Times(f, FlattenSeq(none))
                                               - Times(f, FlattenSeq(queue[s]))
    BY <1>2, <1>3, <1>4, <1>6, QueueStep
  <2>. QED  BY <2>1, <1>6
<1>11. StackMoved(old, new)
  <2>1. Needs(x) = {} /\ x.op # "sweep"
    BY <1>5 DEF Needs
  <2> HIDE DEF x
  <2>2. Fit(new, Needs(Top(p)))
    BY <1>5, <2>1, FitOne
  <2> HIDE DEF new
  <2>. QED  BY <1>1, <1>3, <1>5, <2>2, GoStep
<1> HIDE DEF old, new, m, x
<1>12. ASSUME NEW f \in File
       PROVE  Balanced(old, new, f)
  <2>1. InFrames(new, f) = Times(f, m) /\ Closed(new, f) = 0 /\ Freed(new, f) = 0
    BY <1>7 DEF Counts
  <2>2. InQueues(f) \in Nat
    BY SumsCount, <1>4
  <2>3. InQueues(f)' + InFrames(new, f) = InQueues(f) + InFrames(old, f)
    BY <2>1, <2>2, <1>8, <1>9, <1>10
  <2>. QED  BY <2>1, <2>3, <1>3, <1>8, <1>10 DEF Balanced
<1>. QED  BY <1>2, <1>3, <1>5, <1>10, <1>11, <1>12, Rearranged

-----------------------------------------------------------------------------
(* Steps that change the counts. The numbers of a file stay in balance; no *)
(* file is to be freed that was not, and one whose count grows is live and *)
(* not to be freed.                                                        *)
InBalance(f) ==
  /\ InQueues(f)' \in Nat /\ InHand(f)' \in Nat /\ leaked'[f] \in Nat
  /\ InTables(f)' \in Nat /\ ToClose(f)' \in Nat
  /\ msgcount'[f] = msgcount[f] + (InQueues(f)' - InQueues(f))
                       + (InHand(f)' - InHand(f)) + (leaked'[f] - leaked[f])
  /\ count'[f] = count[f] + (msgcount'[f] - msgcount[f])
                    + (InTables(f)' - InTables(f)) + (ToClose(f)' - ToClose(f))

(* Three numbers and their sum.                                            *)
LEMMA SumMoved ==
  ASSUME NEW x \in Nat, NEW y \in Nat, NEW z \in Nat,
         NEW i \in Nat, NEW j \in Nat, NEW k \in Nat,
         NEW s, NEW t, s = x + y + z, t = s + (i - x) + (j - y) + (k - z)
  PROVE  t = i + j + k
OBVIOUS

(* What was in balance still is.                                           *)
LEMMA Balance ==
  ASSUME FdInv, NEW f \in File, InBalance(f)
  PROVE  /\ msgcount'[f] = InQueues(f)' + InHand(f)' + leaked'[f]
         /\ count'[f] = InTables(f)' + msgcount'[f] + ToClose(f)'
         /\ msgcount'[f] \in Nat /\ count'[f] \in Nat
<1>1. /\ InQueues(f) \in Nat /\ InHand(f) \in Nat /\ leaked[f] \in Nat
      /\ InTables(f) \in Nat /\ ToClose(f) \in Nat
      /\ msgcount[f] \in Nat /\ count[f] \in Nat
      /\ msgcount[f] = InQueues(f) + InHand(f) + leaked[f]
      /\ count[f] = InTables(f) + msgcount[f] + ToClose(f)
  BY Numbers
<1>2. /\ InQueues(f)' \in Nat /\ InHand(f)' \in Nat /\ leaked'[f] \in Nat
      /\ InTables(f)' \in Nat /\ ToClose(f)' \in Nat
      /\ msgcount'[f] = msgcount[f] + (InQueues(f)' - InQueues(f))
                           + (InHand(f)' - InHand(f)) + (leaked'[f] - leaked[f])
      /\ count'[f] = count[f] + (msgcount'[f] - msgcount[f])
                        + (InTables(f)' - InTables(f)) + (ToClose(f)' - ToClose(f))
  BY DEF InBalance
<1>3. msgcount'[f] = InQueues(f)' + InHand(f)' + leaked'[f]
  BY <1>1, <1>2, SumMoved
<1>4. msgcount'[f] \in Nat
  BY <1>2, <1>3
<1>5. count[f] = msgcount[f] + InTables(f) + ToClose(f)
  BY <1>1
<1>6. count'[f] = msgcount'[f] + InTables(f)' + ToClose(f)'
  BY <1>1, <1>2, <1>4, <1>5, SumMoved
<1>7. count'[f] = InTables(f)' + msgcount'[f] + ToClose(f)' /\ count'[f] \in Nat
  BY <1>2, <1>4, <1>6
<1>. QED  BY <1>3, <1>4, <1>7

(* The counts of a file after a step that changes them.                     *)
LEMMA Moved ==
  ASSUME FdInv, NEW f \in File, InBalance(f),
         ToFree(f)' = ToFree(f), f \in live => f \in live',
         count'[f] > count[f] => f \in live' /\ ToFree(f) = 0
  PROVE  CountOK(f)' /\ msgcount'[f] \in Nat /\ count'[f] \in Nat
<1>1. /\ msgcount'[f] = InQueues(f)' + InHand(f)' + leaked'[f]
      /\ count'[f] = InTables(f)' + msgcount'[f] + ToClose(f)'
      /\ msgcount'[f] \in Nat /\ count'[f] \in Nat
  BY Balance
<1>2. /\ count[f] \in Nat
      /\ count[f] > 0 => f \in live
      /\ ToFree(f) \in Nat /\ ToFree(f) <= 1
      /\ ToFree(f) > 0 => f \in live /\ count[f] = 0
  BY Numbers
<1>3. ASSUME count'[f] > 0
      PROVE  f \in live'
  <2>1. CASE count'[f] > count[f]
    BY <2>1
  <2>2. CASE ~(count'[f] > count[f])
    BY <2>2, <1>1, <1>2, <1>3
  <2>. QED  BY <2>1, <2>2
<1>4. ASSUME ToFree(f)' > 0
      PROVE  f \in live' /\ count'[f] = 0
  <2>1. ToFree(f) > 0
    BY <1>4
  <2>2. f \in live /\ count[f] = 0
    BY <2>1, <1>2
  <2>3. ~(count'[f] > count[f])
    BY <2>1
  <2>. QED  BY <2>2, <2>3, <1>1
<1>5. ToFree(f)' <= 1
  BY <1>2
<1>. QED  BY <1>1, <1>3, <1>4, <1>5 DEF CountOK

(* A file that is counted is live, and nobody is about to free it.         *)
LEMMA CountedIsLive ==
  ASSUME FdInv, NEW f \in File, count[f] > 0
  PROVE  f \in live /\ ToFree(f) = 0
<1>1. /\ count[f] \in Nat /\ ToFree(f) \in Nat
      /\ count[f] > 0 => f \in live
      /\ ToFree(f) > 0 => count[f] = 0
  BY Numbers
<1>. QED  BY <1>1

(* Nothing counts a file that is not live.                                 *)
LEMMA DeadIsUncounted ==
  ASSUME FdInv, NEW f \in File, f \notin live
  PROVE  /\ count[f] = 0 /\ ToFree(f) = 0
         /\ \A p \in Proc : fds[p][f] = 0
<1>1. count[f] = 0 /\ ToFree(f) = 0
  BY Numbers
<1>2. InTables(f) = 0
  BY <1>1, Numbers
<1>3. \A p \in Proc : fds[p][f] = 0
  BY <1>2, Numbers
<1>. QED  BY <1>1, <1>3

(* A step that leaves the stacks and the queues alone.                     *)
Entered(p, t, f) ==
  /\ count'[f] = count[f] + (t[f] - fds[p][f])
  /\ count'[f] > count[f] => f \in live' /\ ToFree(f) = 0

(* A step that changes descriptor tables and counts only.                   *)
LEMMA OnlyTables ==
  ASSUME FdInv, ~hurt, UNCHANGED <<msgcount, queue, rights, stack, leaked, hurt>>,
         NEW p \in Proc, NEW t \in [File -> Nat], fds' = [fds EXCEPT ![p] = t],
         peer' \in [Sock -> Sock \cup {None}], live' \subseteq File,
         live \subseteq live', count' \in [File -> Int],
         \A f \in File : Entered(p, t, f)
  PROVE  FdInv'
<1> DEFINE none == <<>>
<1>1. StackMoved(none, none)
  BY StackSame
<1>2. /\ fds' \in [Proc -> [File -> Nat]]
      /\ \A f \in File : /\ InTables(f)' \in Nat
                         /\ InTables(f)' = InTables(f) + t[f] - fds[p][f]
  BY TableStep DEF FdInv
<1>3. /\ queue' \in [Sock -> Seq(Seq(File))]
      /\ \A f \in File : InQueues(f)' \in Nat /\ InQueues(f)' = InQueues(f)
  BY QueueSame DEF FdInv
<1>4. \A f \in File : InFrames(none, f) = 0 /\ Closed(none, f) = 0 /\ Freed(none, f) = 0
  BY FramesNone
<1> HIDE DEF none
<1>5. ASSUME NEW f \in File
      PROVE  CountOK(f)' /\ count'[f] \in Nat
  <2>1. /\ InQueues(f) \in Nat /\ InHand(f) \in Nat /\ leaked[f] \in Nat
        /\ InTables(f) \in Nat /\ ToClose(f) \in Nat /\ ToFree(f) \in Nat
        /\ msgcount[f] \in Nat /\ count[f] \in Nat
        /\ t[f] \in Nat /\ fds[p][f] \in Nat
    BY Numbers
  <2>2. /\ InHand(f)' = InHand(f) /\ ToClose(f)' = ToClose(f)
        /\ ToFree(f)' = ToFree(f)
    BY <1>1, <1>4, <2>1 DEF StackMoved
  <2>3. InQueues(f)' = InQueues(f) /\ leaked'[f] = leaked[f] /\ msgcount'[f] = msgcount[f]
    BY <1>3
  <2>4. InTables(f)' \in Nat /\ InTables(f)' = InTables(f) + t[f] - fds[p][f]
    BY <1>2
  <2>5. count'[f] = count[f] + (t[f] - fds[p][f])
    BY DEF Entered
  <2>6. InTables(f)' - InTables(f) = t[f] - fds[p][f]
    BY <2>1, <2>4
  <2>7. InBalance(f)
    BY <2>1, <2>2, <2>3, <2>4, <2>5, <2>6 DEF InBalance
  <2>8. /\ f \in live => f \in live'
        /\ count'[f] > count[f] => f \in live' /\ ToFree(f) = 0
    BY DEF Entered
  <2>. QED  BY <2>2, <2>7, <2>8, Moved
<1>6. count' \in [File -> Nat]
  BY <1>5
<1>7. FdTypes'
  BY <1>1, <1>2, <1>3, <1>6 DEF FdInv, FdTypes, StackMoved
<1>8. rights' = Total(msgcount')
  BY DEF FdInv
<1>. QED  BY <1>1, <1>5, <1>7, <1>8, Assembled

(* socketpair() keeps the invariant.                                        *)
LEMMA SocketpairKeeps ==
  ASSUME FdInv, ~hurt, NEW p \in Proc, NEW a \in Sock, NEW b \in Sock,
         Socketpair(p, a, b)
  PROVE  FdInv'
<1> DEFINE t == [fds[p] EXCEPT ![a] = 1, ![b] = 1]
<1>1. FdTypes /\ a \in File /\ b \in File /\ a # b /\ a \notin live /\ b \notin live
  BY DEF FdInv, File, Socketpair
<1>2. t \in [File -> Nat] /\ fds' = [fds EXCEPT ![p] = t]
  BY <1>1 DEF Socketpair, FdTypes
<1>3. /\ UNCHANGED <<msgcount, queue, rights, stack, leaked, hurt>>
      /\ live' = live \cup {a, b}
      /\ count' = [count EXCEPT ![a] = 1, ![b] = 1]
      /\ peer' = [peer EXCEPT ![a] = b, ![b] = a]
  BY DEF Socketpair
<1>4. /\ peer' \in [Sock -> Sock \cup {None}] /\ live' \subseteq File
      /\ count' \in [File -> Nat] /\ live \subseteq live'
  BY <1>1, <1>3 DEF FdTypes
<1>5. count' \in [File -> Int]
  BY <1>4
<1>6. ASSUME NEW f \in File
      PROVE  Entered(p, t, f)
  <2>1. count[f] \in Nat /\ fds[p][f] \in Nat
    BY Numbers
  <2>2. CASE f \in {a, b}
    <3>1. count[f] = 0 /\ ToFree(f) = 0 /\ fds[p][f] = 0
      BY <1>1, <2>2, DeadIsUncounted
    <3>2. count'[f] = 1 /\ t[f] = 1 /\ f \in live'
      BY <1>1, <1>3, <2>2 DEF FdTypes
    <3>. QED  BY <3>1, <3>2 DEF Entered
  <2>3. CASE f \notin {a, b}
    <3>1. count'[f] = count[f] /\ t[f] = fds[p][f]
      BY <1>1, <1>3, <2>3 DEF FdTypes
    <3>. QED  BY <2>1, <3>1 DEF Entered
  <2>. QED  BY <2>2, <2>3
<1> HIDE DEF t
<1>. QED  BY <1>2, <1>3, <1>4, <1>5, <1>6, OnlyTables

(* open() keeps the invariant.                                              *)
LEMMA OpenKeeps ==
  ASSUME FdInv, ~hurt, NEW p \in Proc, NEW a \in File, Open(p, a)
  PROVE  FdInv'
<1> DEFINE t == [fds[p] EXCEPT ![a] = 1]
<1>1. FdTypes /\ a \notin live
  BY DEF FdInv, Open
<1>2. t \in [File -> Nat] /\ fds' = [fds EXCEPT ![p] = t]
  BY <1>1 DEF Open, FdTypes
<1>3. /\ UNCHANGED <<msgcount, queue, rights, stack, leaked, hurt>>
      /\ live' = live \cup {a} /\ peer' = peer
      /\ count' = [count EXCEPT ![a] = 1]
  BY DEF Open
<1>4. /\ peer' \in [Sock -> Sock \cup {None}] /\ live' \subseteq File
      /\ count' \in [File -> Nat] /\ live \subseteq live'
  BY <1>1, <1>3 DEF FdTypes
<1>5. count' \in [File -> Int]
  BY <1>4
<1>6. ASSUME NEW f \in File
      PROVE  Entered(p, t, f)
  <2>1. count[f] \in Nat /\ fds[p][f] \in Nat
    BY Numbers
  <2>2. CASE f = a
    <3>1. count[f] = 0 /\ ToFree(f) = 0 /\ fds[p][f] = 0
      BY <1>1, <2>2, DeadIsUncounted
    <3>2. count'[f] = 1 /\ t[f] = 1 /\ f \in live'
      BY <1>1, <1>3, <2>2 DEF FdTypes
    <3>. QED  BY <3>1, <3>2 DEF Entered
  <2>3. CASE f # a
    <3>1. count'[f] = count[f] /\ t[f] = fds[p][f]
      BY <1>1, <1>3, <2>3 DEF FdTypes
    <3>. QED  BY <2>1, <3>1 DEF Entered
  <2>. QED  BY <2>2, <2>3
<1> HIDE DEF t
<1>. QED  BY <1>2, <1>3, <1>4, <1>5, <1>6, OnlyTables

(* fork() keeps the invariant.                                              *)
LEMMA ForkKeeps ==
  ASSUME FdInv, ~hurt, NEW p \in Proc, NEW q \in Proc, Fork(p, q)
  PROVE  FdInv'
<1> DEFINE t == fds[p]
<1>1. FdTypes /\ t \in [File -> Nat] /\ fds[q] \in [File -> Nat]
  BY DEF FdInv, FdTypes
<1>2. fds' = [fds EXCEPT ![q] = t]
  BY DEF Fork
<1>3. /\ UNCHANGED <<msgcount, queue, rights, stack, leaked, hurt>>
      /\ live' = live /\ peer' = peer
      /\ count' = [f \in File |-> count[f] + fds[p][f]]
  BY DEF Fork
<1>4. /\ peer' \in [Sock -> Sock \cup {None}] /\ live' \subseteq File
      /\ live \subseteq live'
  BY <1>1, <1>3 DEF FdTypes
<1>5. count' \in [File -> Int]
  <2>1. \A f \in File : count[f] + fds[p][f] \in Int
    BY <1>1 DEF FdTypes
  <2>. QED  BY <1>3, <2>1
<1>6. \A f \in File : fds[q][f] = 0
  <2> DEFINE u == fds[q]
  <2>1. u \in [File -> Nat] /\ Total(u) = 0
    BY <1>1 DEF Fork, Fds, Total
  <2> HIDE DEF u
  <2>2. ASSUME NEW f \in File
        PROVE  u[f] = 0
    <3>1. u[f] \in Nat /\ Total(u) >= u[f]
      BY <2>1, ProcsFinite, TotalIsMore
    <3>. QED  BY <2>1, <3>1
  <2>. QED  BY <2>2 DEF u
<1>7. ASSUME NEW f \in File
      PROVE  Entered(q, t, f)
  <2>1. count[f] \in Nat /\ t[f] \in Nat /\ t[f] = fds[p][f]
    BY Numbers
  <2>2. count'[f] = count[f] + t[f]
    BY <1>3
  <2>3. ASSUME count'[f] > count[f]
        PROVE  f \in live' /\ ToFree(f) = 0
    <3>1. t[f] > 0
      BY <2>1, <2>2, <2>3
    <3>2. count[f] > 0
      BY <3>1, <2>1, Numbers
    <3>. QED  BY <3>2, <1>3, CountedIsLive
  <2>. QED  BY <2>1, <2>2, <2>3, <1>6 DEF Entered
<1> HIDE DEF t
<1>. QED  BY <1>1, <1>2, <1>3, <1>4, <1>5, <1>7, OnlyTables

(* close() keeps the invariant.                                             *)
LEMMA CloseKeeps ==
  ASSUME FdInv, ~hurt, NEW p \in Proc, NEW a \in File, Close(p, a)
  PROVE  FdInv'
<1> DEFINE t == [fds[p] EXCEPT ![a] = @ - 1]
           x == Frame("closef", a)
           none == <<>>
           new == <<x>>
<1>1. FdTypes /\ ~Busy(p) /\ fds[p][a] > 0 /\ Enter(p, new)
  BY DEF FdInv, Close, Idle
<1>2. t \in [File -> Nat] /\ fds' = [fds EXCEPT ![p] = t]
  BY <1>1 DEF Close, FdTypes
<1>3. UNCHANGED <<live, count, msgcount, peer, queue, rights, leaked, hurt>>
  BY DEF Close
<1>4. /\ x \in Frames /\ new \in Seq(Frames) /\ x.op = "closef"
      /\ \A f \in File : Counts(new, f, 0, IF a = f THEN 1 ELSE 0, 0)
  BY FrameIn, FramesOne, FrameCounts DEF Frame
<1>5. StackMoved(none, new)
  <2>1. Needs(x) = {} /\ x.op # "sweep"
    BY <1>4 DEF Needs
  <2> HIDE DEF x
  <2>2. Fit(new, {})
    BY <1>4, <2>1, FitOne
  <2> HIDE DEF new
  <2>. QED  BY <1>1, <1>4, <2>2, EnterStep
<1>6. \A f \in File : InFrames(none, f) = 0 /\ Closed(none, f) = 0 /\ Freed(none, f) = 0
  BY FramesNone
<1>7. /\ queue' \in [Sock -> Seq(Seq(File))]
      /\ \A f \in File : InQueues(f)' \in Nat /\ InQueues(f)' = InQueues(f)
  BY <1>1, <1>3, QueueSame
<1>8. /\ fds' \in [Proc -> [File -> Nat]]
      /\ \A f \in File : /\ InTables(f)' \in Nat
                         /\ InTables(f)' = InTables(f) + t[f] - fds[p][f]
  BY <1>1, <1>2, TableStep
<1>9. \A f \in File : t[f] = fds[p][f] - (IF a = f THEN 1 ELSE 0)
  BY <1>1, <1>2 DEF FdTypes
<1> HIDE DEF none, new, x, t
<1>10. ASSUME NEW f \in File
       PROVE  CountOK(f)' /\ msgcount'[f] \in Nat /\ count'[f] \in Nat
  <2> DEFINE n == IF a = f THEN 1 ELSE 0
  <2>1. /\ InQueues(f) \in Nat /\ InHand(f) \in Nat /\ leaked[f] \in Nat
        /\ InTables(f) \in Nat /\ ToClose(f) \in Nat /\ ToFree(f) \in Nat
        /\ msgcount[f] \in Nat /\ count[f] \in Nat
        /\ t[f] \in Nat /\ fds[p][f] \in Nat /\ n \in Nat
    BY <1>2, Numbers
  <2>2. InFrames(new, f) = 0 /\ Closed(new, f) = n /\ Freed(new, f) = 0
    BY <1>4 DEF Counts
  <2> HIDE DEF n
  <2>3. /\ InHand(f)' = InHand(f) /\ ToClose(f)' = ToClose(f) + n
        /\ ToFree(f)' = ToFree(f) /\ ToClose(f)' \in Nat
    BY <1>5, <1>6, <2>1, <2>2 DEF StackMoved
  <2>4. InTables(f)' - InTables(f) = 0 - n /\ InTables(f)' \in Nat
    <3>1. t[f] = fds[p][f] - n
      BY <1>9 DEF n
    <3>. QED  BY <1>8, <2>1, <3>1
  <2>5. ToClose(f)' - ToClose(f) = n
    BY <2>1, <2>3
  <2>6. count'[f] = count[f] /\ msgcount'[f] = msgcount[f] /\ leaked'[f] = leaked[f]
        /\ live' = live
    BY <1>3
  <2>7. InBalance(f)
    <3>1. InQueues(f)' \in Nat /\ InQueues(f)' - InQueues(f) = 0
      BY <1>7, <2>1
    <3>2. InHand(f)' \in Nat /\ InHand(f)' - InHand(f) = 0
      BY <2>1, <2>3
    <3>3. leaked'[f] \in Nat /\ leaked'[f] - leaked[f] = 0
      BY <2>1, <2>6
    <3>4. msgcount'[f] - msgcount[f] = 0 /\ msgcount'[f] = msgcount[f] + 0 + 0 + 0
      BY <2>1, <2>6
    <3>5. count'[f] = count[f] + 0 + (0 - n) + n
      BY <2>1, <2>6
    <3>. QED  BY <2>3, <2>4, <2>5, <3>1, <3>2, <3>3, <3>4, <3>5 DEF InBalance
  <2>8. ~(count'[f] > count[f])
    BY <2>1, <2>6
  <2>. QED  BY <2>3, <2>6, <2>7, <2>8, Moved
<1>11. FdTypes'
  BY <1>3, <1>5, <1>7, <1>8 DEF FdInv, FdTypes, StackMoved
<1>12. rights' = Total(msgcount')
  BY <1>3 DEF FdInv
<1>. QED  BY <1>5, <1>10, <1>11, <1>12, Assembled

(* The collector takes its references: the invariant is kept.               *)
LEMMA SweepKeeps ==
  ASSUME FdInv, ~hurt, NEW p \in Proc, Sweep(p)
  PROVE  FdInv'
<1> DEFINE unref == Unref
           x == Frame("sweep", unref)
           y == Frame("drop", unref)
           z == Frame("done", None)
           old == <<Top(p)>>
           new == <<x, y, z>>
           one(f) == IF f \in unref THEN 1 ELSE 0
<1>1. /\ FdTypes /\ Busy(p) /\ Top(p).op = "memory" /\ Go(p, new)
      /\ hurt' = (unref \cap (Plain \cup Marked(Roots \cup Growing)) # {})
      /\ count' = [f \in File |-> IF f \in unref THEN count[f] + 1 ELSE count[f]]
  BY DEF FdInv, Sweep, At
<1>2. UNCHANGED <<live, msgcount, fds, peer, queue, rights, leaked>>
  BY DEF Sweep
<1>3. unref \in SUBSET File /\ unref \subseteq live
  BY <1>1 DEF FdTypes, Unref
<1>4. Top(p) \in Frames /\ old \in Seq(Frames)
  BY <1>1, TopLive, FramesOne
<1>5. hurt' \in BOOLEAN /\ (hurt' \/ unref \subseteq Sock)
  BY <1>1, <1>3 DEF File
<1>6. \A f \in unref : count[f] > 0
  BY DEF Unref
<1> HIDE DEF unref
<1>7. /\ x \in Frames /\ y \in Frames /\ z \in Frames /\ new \in Seq(Frames)
      /\ <<x>> \in Seq(Frames) /\ <<y>> \in Seq(Frames) /\ <<z>> \in Seq(Frames)
      /\ x.op = "sweep" /\ x.arg = unref /\ y.op = "drop" /\ y.arg = unref
      /\ z.op = "done"
  BY <1>3, FrameIn, FramesOne DEF Frame
<1>8. new = <<x>> \o (<<y>> \o <<z>>)
  BY <1>7, Triple
<1>9. ASSUME NEW f \in File
      PROVE  Counts(new, f, 0, one(f), 0)
  <2>1. /\ Counts(<<x>>, f, 0, 0, 0) /\ Counts(<<y>>, f, 0, one(f), 0)
        /\ Counts(<<z>>, f, 0, 0, 0)
    BY <1>3, FrameCounts
  <2>2. one(f) \in Nat
    OBVIOUS
  <2> HIDE DEF x, y, z, new, one
  <2>3. Counts(<<y>> \o <<z>>, f, 0, one(f), 0)
    <3>1. Counts(<<y>> \o <<z>>, f, 0 + 0, one(f) + 0, 0 + 0)
      BY <2>1, CountsMore
    <3>. QED  BY <2>2, <3>1
  <2>4. Counts(<<x>> \o (<<y>> \o <<z>>), f, 0, one(f), 0)
    <3>1. Counts(<<x>> \o (<<y>> \o <<z>>), f, 0 + 0, 0 + one(f), 0 + 0)
      BY <2>1, <2>3, CountsMore
    <3>. QED  BY <2>2, <3>1
  <2>. QED  BY <2>4, <1>8
<1>10. \A f \in File : InFrames(old, f) = 0 /\ Closed(old, f) = 0 /\ Freed(old, f) = 0
  BY <1>1, <1>4, FramesOne DEF Closes
<1>11. StackMoved(old, new)
  <2> DEFINE before == Needs(Top(p))
             b == <<y>> \o <<z>>
  <2>1. /\ Needs(x) = unref /\ Needs(y) = {} /\ Needs(z) = {} /\ Gives(y) = unref
        /\ y.op # "sweep" /\ z.op # "sweep"
    BY <1>7 DEF Needs, Gives
  <2>2. b \in Seq(Frames) /\ 1 \in DOMAIN b /\ b[1] = y
    BY <1>7
  <2>3. hurt' \/ x.op # "sweep" \/ x.arg \subseteq Sock
    BY <1>5, <1>7
  <2> HIDE DEF x, y, z, before
  <2>4. Fit(<<z>>, before)
    BY <1>7, <2>1, FitOne
  <2>5. Fit(b, before)
    BY <1>7, <2>1, <2>4, FitMore
  <2>6. \A f \in Needs(x) : \E j \in DOMAIN b : f \in Gives(b[j])
    BY <2>1, <2>2
  <2> HIDE DEF b
  <2>7. Fit(<<x>> \o b, before)
    BY <1>7, <2>2, <2>3, <2>5, <2>6, FitMore
  <2>8. Fit(new, before)
    BY <2>7, <1>8 DEF b
  <2> HIDE DEF new
  <2>. QED  BY <1>1, <1>7, <2>8, GoStep DEF before
<1>12. /\ queue' \in [Sock -> Seq(Seq(File))]
       /\ \A f \in File : InQueues(f)' \in Nat /\ InQueues(f)' = InQueues(f)
  BY <1>1, <1>2, QueueSame
<1>13. /\ fds' \in [Proc -> [File -> Nat]]
       /\ \A f \in File : InTables(f)' \in Nat /\ InTables(f)' = InTables(f)
  BY <1>1, <1>2, TableSame
<1> HIDE DEF old, new, x, y, z
<1>14. ASSUME NEW f \in File
       PROVE  CountOK(f)' /\ msgcount'[f] \in Nat /\ count'[f] \in Nat
  <2> DEFINE n == one(f)
  <2>1. /\ InQueues(f) \in Nat /\ InHand(f) \in Nat /\ leaked[f] \in Nat
        /\ InTables(f) \in Nat /\ ToClose(f) \in Nat /\ ToFree(f) \in Nat
        /\ msgcount[f] \in Nat /\ count[f] \in Nat /\ n \in Nat
    BY Numbers
  <2>2. InFrames(new, f) = 0 /\ Closed(new, f) = n /\ Freed(new, f) = 0
    BY <1>9 DEF Counts
  <2>3. /\ count'[f] = count[f] + n
        /\ n > 0 => f \in live /\ ToFree(f) = 0
    <3>1. count'[f] = count[f] + n
      BY <1>1, <2>1
    <3>2. n > 0 => f \in unref
      OBVIOUS
    <3>. QED  BY <3>1, <3>2, <1>3, <1>6, Numbers
  <2> HIDE DEF n
  <2>4. /\ InHand(f)' = InHand(f) /\ ToClose(f)' = ToClose(f) + n
        /\ ToFree(f)' = ToFree(f) /\ ToClose(f)' \in Nat
    BY <1>10, <1>11, <2>1, <2>2 DEF StackMoved
  <2>5. ToClose(f)' - ToClose(f) = n
    BY <2>1, <2>4
  <2>6. msgcount'[f] = msgcount[f] /\ leaked'[f] = leaked[f] /\ live' = live
    BY <1>2
  <2>7. InBalance(f)
    <3>1. /\ InQueues(f)' \in Nat /\ InQueues(f)' - InQueues(f) = 0
          /\ InTables(f)' \in Nat /\ InTables(f)' - InTables(f) = 0
      BY <1>12, <1>13, <2>1
    <3>2. /\ InHand(f)' \in Nat /\ InHand(f)' - InHand(f) = 0
          /\ leaked'[f] \in Nat /\ leaked'[f] - leaked[f] = 0
      BY <2>1, <2>4, <2>6
    <3>3. msgcount'[f] - msgcount[f] = 0
      BY <2>1, <2>6
    <3>4. msgcount'[f] = msgcount[f] + 0 + 0 + 0
      BY <2>1, <2>6
    <3>5. count'[f] = count[f] + 0 + 0 + n
      BY <2>1, <2>3
    <3>. QED  BY <2>4, <2>5, <3>1, <3>2, <3>3, <3>4, <3>5 DEF InBalance
  <2>8. count'[f] > count[f] => f \in live' /\ ToFree(f) = 0
    BY <2>1, <2>3, <2>6
  <2>. QED  BY <2>4, <2>6, <2>7, <2>8, Moved
<1>15. count' \in [File -> Nat]
  BY <1>1, <1>14
<1>16. FdTypes'
  BY <1>1, <1>2, <1>5, <1>11, <1>12, <1>13, <1>15 DEF FdTypes, StackMoved
<1>17. rights' = Total(msgcount')
  BY <1>2 DEF FdInv
<1>. QED  BY <1>11, <1>14, <1>16, <1>17, Assembled

-----------------------------------------------------------------------------
(* What the last close of a file leads to.                                 *)

(* What closef() has to do for a socket fits on the stack.                  *)
LEMMA ClosingFits ==
  ASSUME NEW f \in Sock, NEW before
  PROVE  /\ Closing(f) \in Seq(Frames) /\ Fit(Closing(f), before)
         /\ \A g \in File : Counts(Closing(f), g, 0, 0, IF f = g THEN 1 ELSE 0)
<1> DEFINE x == Frame("flush", f)
           y == Frame("collect", None)
           w == Frame("free", f)
           one(g) == IF f = g THEN 1 ELSE 0
<1>1. /\ x \in Frames /\ y \in Frames /\ w \in Frames
      /\ <<x>> \in Seq(Frames) /\ <<y>> \in Seq(Frames) /\ <<w>> \in Seq(Frames)
      /\ x.op = "flush" /\ x.arg = f /\ y.op = "collect" /\ w.op = "free" /\ w.arg = f
  BY FrameIn, FramesOne DEF Frame
<1>2. \A g \in File : /\ Counts(<<x>>, g, 0, 0, 0) /\ Counts(<<y>>, g, 0, 0, 0)
                      /\ Counts(<<w>>, g, 0, 0, one(g)) /\ one(g) \in Nat
  BY FrameCounts
<1>3. /\ Closing(f) = (IF rights > 0 THEN <<x, y>> ELSE <<>>) \o <<x, w>>
      /\ <<x, y>> \o <<x, w>> = <<x>> \o (<<y>> \o (<<x>> \o <<w>>))
      /\ <<>> \o <<x, w>> = <<x>> \o <<w>>
  <2>1. Closing(f) = (IF rights > 0 THEN <<x, y>> ELSE <<>>) \o <<x, w>>
    BY DEF Closing
  <2> HIDE DEF x, y, w
  <2>2. <<x, y>> \o <<x, w>> = <<x>> \o (<<y>> \o (<<x>> \o <<w>>))
    <3> DEFINE i == <<x>>
               j == <<y>>
               k == <<w>>
               u == <<x, y>>
               v == <<x, w>>
    <3>1. i \in Seq(Frames) /\ j \in Seq(Frames) /\ i \o k \in Seq(Frames)
      BY <1>1
    <3>2. u = i \o j /\ v = i \o k
      BY <1>1, Pair
    <3>3. \A a, b, c \in Seq(Frames) : (a \o b) \o c = a \o (b \o c)
      OBVIOUS
    <3> HIDE DEF i, j, k, u, v
    <3>4. (i \o j) \o (i \o k) = i \o (j \o (i \o k))
      BY <3>1, <3>3, Zenon
    <3>5. u \o v = i \o (j \o (i \o k))
      BY <3>2, <3>4
    <3>. QED  BY <3>5 DEF i, j, k, u, v
  <2>3. <<>> \o <<x, w>> = <<x>> \o <<w>>
    <3>1. <<x, w>> = <<x>> \o <<w>>
      BY <1>1, Pair
    <3> DEFINE v == <<x, w>>
    <3>2. v \in Seq(Frames)
      BY <1>1
    <3> HIDE DEF v
    <3>3. <<>> \o v = v
      BY <3>2
    <3>. QED  BY <3>1, <3>3 DEF v
  <2>. QED  BY <2>1, <2>2, <2>3
<1>4. /\ Needs(x) = {f} /\ Needs(y) = {} /\ Needs(w) = {} /\ Gives(w) = {f}
      /\ x.op # "sweep" /\ y.op # "sweep" /\ w.op # "sweep"
  BY <1>1 DEF Needs, Gives
<1> HIDE DEF x, y, w, one
<1> DEFINE a == <<x>> \o <<w>>
           b == <<y>> \o a
           c == <<x>> \o b
<1>5. Fit(<<w>>, before)
  BY <1>1, <1>4, FitOne
<1>6. /\ a \in Seq(Frames) /\ b \in Seq(Frames) /\ c \in Seq(Frames)
      /\ a[2] = w /\ 2 \in DOMAIN a /\ b[3] = w /\ 3 \in DOMAIN b
  BY <1>1
<1>7. Fit(a, before)
  <2> DEFINE d == <<w>>
  <2>1. 1 \in DOMAIN d /\ d[1] = w
    OBVIOUS
  <2>2. \A g \in Needs(x) : \E j \in DOMAIN d : g \in Gives(d[j])
    BY <2>1, <1>4
  <2>3. d \in Seq(Frames) /\ Fit(d, before)
    BY <1>1, <1>5
  <2> HIDE DEF d
  <2>4. Fit(<<x>> \o d, before)
    BY <2>2, <2>3, <1>1, <1>4, FitMore
  <2>. QED  BY <2>4 DEF d
<1>8. ASSUME NEW g \in File
      PROVE  Counts(a, g, 0, 0, one(g)) /\ Counts(c, g, 0, 0, one(g))
  <2>0. one(g) \in Nat
    BY <1>2
  <2>1. Counts(a, g, 0, 0, one(g))
    <3>1. Counts(<<x>> \o <<w>>, g, 0 + 0, 0 + 0, 0 + one(g))
      BY <1>2, CountsMore
    <3>. QED  BY <2>0, <3>1
  <2> HIDE DEF a
  <2>2. Counts(b, g, 0, 0, one(g))
    <3>1. Counts(<<y>> \o a, g, 0 + 0, 0 + 0, 0 + one(g))
      BY <1>2, <2>1, CountsMore
    <3>. QED  BY <2>0, <3>1
  <2> HIDE DEF b
  <2>3. Counts(c, g, 0, 0, one(g))
    <3>1. Counts(<<x>> \o b, g, 0 + 0, 0 + 0, 0 + one(g))
      BY <1>2, <2>2, CountsMore
    <3>. QED  BY <2>0, <3>1
  <2>. QED  BY <2>1, <2>3
<1>9. Fit(b, before)
  <2>1. a \in Seq(Frames)
    BY <1>6
  <2> HIDE DEF a
  <2>. QED  BY <2>1, <1>1, <1>4, <1>7, FitMore
<1>10. Fit(c, before)
  <2>1. \A g \in Needs(x) : \E j \in DOMAIN b : g \in Gives(b[j])
    BY <1>4, <1>6
  <2>2. b \in Seq(Frames)
    BY <1>6
  <2> HIDE DEF b
  <2>. QED  BY <2>1, <2>2, <1>1, <1>4, <1>9, FitMore
<1>11. Closing(f) = IF rights > 0 THEN c ELSE a
  BY <1>3
<1> HIDE DEF a, b, c
<1>12. CASE rights > 0
  BY <1>6, <1>8, <1>10, <1>11, <1>12 DEF one
<1>13. CASE ~(rights > 0)
  BY <1>6, <1>7, <1>8, <1>11, <1>13 DEF one
<1>. QED  BY <1>12, <1>13

(* The frames that closef() puts in place of its own.                       *)
LEMMA ClosefMoves ==
  ASSUME FdInv, ~hurt, NEW p \in Proc, Closef(p)
  PROVE  \E new \in Seq(Frames) :
           /\ StackMoved(<<Top(p)>>, new)
           /\ \A g \in File :
                Counts(new, g, 0, 0,
                       IF count[Top(p).arg] <= 1 /\ Top(p).arg = g THEN 1 ELSE 0)
<1> DEFINE f == Top(p).arg
           last == count[f] <= 1
           none == <<>>
           slow == <<Frame("slow", f)>>
<1>1. Busy(p) /\ Top(p).op = "closef"
  BY DEF Closef, At
<1>2. f \in File
  BY <1>1, TopLive, FrameOps
<1>3. Go(p, CASE ~last -> none
              [] last /\ f \in Sock -> Closing(f)
              [] last /\ f \in Plain -> slow)
  BY DEF Closef
<1>4. f \in Sock <=> f \notin Plain
  BY <1>2, FdAssumption DEF File
<1>5. CASE ~last
  <2>1. none \in Seq(Frames) /\ StackMoved(<<Top(p)>>, none)
    BY <1>1, <1>3, <1>5, Popped
  <2>2. \A g \in File : Counts(none, g, 0, 0, 0)
    BY <2>1, FramesNone DEF Counts
  <2> HIDE DEF none
  <2>. QED  BY <2>1, <2>2, <1>5
<1>6. CASE last /\ f \in Sock
  <2> DEFINE new == Closing(f)
  <2>1. Go(p, new)
    BY <1>3, <1>4, <1>6
  <2>2. /\ new \in Seq(Frames) /\ Fit(new, Needs(Top(p)))
        /\ \A g \in File : Counts(new, g, 0, 0, IF f = g THEN 1 ELSE 0)
    BY <1>6, ClosingFits
  <2> HIDE DEF new
  <2>3. StackMoved(<<Top(p)>>, new)
    BY <1>1, <2>1, <2>2, GoStep
  <2>. QED  BY <2>2, <2>3, <1>6
<1>7. CASE last /\ f \in Plain
  <2>1. Go(p, slow)
    BY <1>3, <1>4, <1>7
  <2>2. /\ slow \in Seq(Frames)
        /\ \A g \in File : Counts(slow, g, 0, 0, IF f = g THEN 1 ELSE 0)
    BY <1>2, FrameIn, FramesOne, FrameCounts
  <2>3. Fit(slow, Needs(Top(p)))
    <3> DEFINE x == Frame("slow", f)
    <3>1. x.op = "slow"
      BY DEF Frame
    <3>2. Needs(x) = {}
      BY <3>1 DEF Needs
    <3> HIDE DEF x
    <3>3. <<x>> \in Seq(Frames)
      BY <2>2 DEF x
    <3>4. Fit(<<x>>, Needs(Top(p)))
      BY <3>1, <3>2, <3>3, FitOne
    <3>. QED  BY <3>4 DEF x
  <2> HIDE DEF slow
  <2>4. StackMoved(<<Top(p)>>, slow)
    BY <1>1, <2>1, <2>2, <2>3, GoStep
  <2>. QED  BY <2>2, <2>4, <1>7
<1>. QED  BY <1>4, <1>5, <1>6, <1>7

(* closef() keeps the invariant.                                            *)
LEMMA ClosefKeeps ==
  ASSUME FdInv, ~hurt, NEW p \in Proc, Closef(p)
  PROVE  FdInv'
<1> DEFINE f == Top(p).arg
           last == count[f] <= 1
           old == <<Top(p)>>
<1>1. FdTypes /\ Busy(p) /\ Top(p).op = "closef"
  BY DEF FdInv, Closef, At
<1>2. Top(p) \in Frames /\ f \in File /\ old \in Seq(Frames)
  BY <1>1, TopLive, FrameOps, FramesOne
<1>3. f \in live /\ count[f] > 0
  BY <1>1, <1>2, TopLive DEF Closes
<1>4. PICK new \in Seq(Frames) :
        /\ StackMoved(old, new)
        /\ \A g \in File : Counts(new, g, 0, 0, IF last /\ f = g THEN 1 ELSE 0)
  BY ClosefMoves
<1>5. \A g \in File : /\ InFrames(old, g) = 0 /\ Freed(old, g) = 0
                      /\ Closed(old, g) = IF f = g THEN 1 ELSE 0
  BY <1>1, <1>2, FramesOne DEF Closes
<1>6. /\ count' = [count EXCEPT ![f] = @ - 1]
      /\ UNCHANGED <<live, msgcount, fds, queue, rights, leaked, hurt>>
  BY DEF Closef
<1>7. peer' \in [Sock -> Sock \cup {None}]
  BY <1>1 DEF Closef, FdTypes
<1>8. /\ queue' \in [Sock -> Seq(Seq(File))]
      /\ \A g \in File : InQueues(g)' \in Nat /\ InQueues(g)' = InQueues(g)
  BY <1>1, <1>6, QueueSame
<1>9. /\ fds' \in [Proc -> [File -> Nat]]
      /\ \A g \in File : InTables(g)' \in Nat /\ InTables(g)' = InTables(g)
  BY <1>1, <1>6, TableSame
<1>10. \A g \in File : count'[g] = count[g] - (IF f = g THEN 1 ELSE 0)
  BY <1>1, <1>2, <1>6 DEF FdTypes
<1> HIDE DEF old, f, last
<1>11. ASSUME NEW g \in File
       PROVE  CountOK(g)' /\ msgcount'[g] \in Nat /\ count'[g] \in Nat
  <2> DEFINE n == IF f = g THEN 1 ELSE 0
             r == IF last /\ f = g THEN 1 ELSE 0
  <2>1. /\ InQueues(g) \in Nat /\ InHand(g) \in Nat /\ leaked[g] \in Nat
        /\ InTables(g) \in Nat /\ ToClose(g) \in Nat /\ ToFree(g) \in Nat
        /\ msgcount[g] \in Nat /\ count[g] \in Nat /\ n \in Nat /\ r \in Nat
    BY Numbers
  <2>2. InFrames(new, g) = 0 /\ Closed(new, g) = 0 /\ Freed(new, g) = r
    BY <1>4 DEF Counts
  <2>3. InFrames(old, g) = 0 /\ Closed(old, g) = n /\ Freed(old, g) = 0
    BY <1>5
  <2>4. count'[g] = count[g] - n
    BY <1>10
  <2>5. /\ f = g => n = 1
        /\ f # g => n = 0 /\ r = 0
        /\ ~last => r = 0
        /\ last /\ f = g => r = 1
    OBVIOUS
  <2> HIDE DEF n, r
  <2>6. /\ InHand(g)' = InHand(g) /\ ToClose(g)' = ToClose(g) - n
        /\ ToFree(g)' = ToFree(g) + r /\ ToClose(g)' \in Nat
    BY <1>4, <2>1, <2>2, <2>3 DEF StackMoved
  <2>7. ToClose(g)' - ToClose(g) = 0 - n
    BY <2>1, <2>6
  <2>8. msgcount'[g] = msgcount[g] /\ leaked'[g] = leaked[g] /\ live' = live
    BY <1>6
  <2>9. InBalance(g)
    <3>1. /\ InQueues(g)' \in Nat /\ InQueues(g)' - InQueues(g) = 0
          /\ InTables(g)' \in Nat /\ InTables(g)' - InTables(g) = 0
      BY <1>8, <1>9, <2>1
    <3>2. /\ InHand(g)' \in Nat /\ InHand(g)' - InHand(g) = 0
          /\ leaked'[g] \in Nat /\ leaked'[g] - leaked[g] = 0
      BY <2>1, <2>6, <2>8
    <3>3. msgcount'[g] - msgcount[g] = 0
      BY <2>1, <2>8
    <3>4. msgcount'[g] = msgcount[g] + 0 + 0 + 0
      BY <2>1, <2>8
    <3>5. count'[g] = count[g] + 0 + 0 + (0 - n)
      BY <2>1, <2>4
    <3>. QED  BY <2>6, <2>7, <3>1, <3>2, <3>3, <3>4, <3>5 DEF InBalance
  <2>10. ~(count'[g] > count[g])
    BY <2>1, <2>4
  <2>11. CASE ~(last /\ f = g)
    <3>1. ToFree(g)' = ToFree(g)
      BY <2>1, <2>5, <2>6, <2>11
    <3>. QED  BY <3>1, <2>8, <2>9, <2>10, Moved
  <2>12. CASE last /\ f = g
    <3>1. count[g] = 1 /\ n = 1 /\ r = 1 /\ g \in live
      BY <2>1, <2>5, <2>12, <1>3 DEF last
    <3>2. ToFree(g) = 0
      BY <3>1, Numbers
    <3>3. ToFree(g)' = 1 /\ count'[g] = 0
      BY <3>1, <3>2, <2>4, <2>6
    <3>4. /\ msgcount'[g] = InQueues(g)' + InHand(g)' + leaked'[g]
          /\ count'[g] = InTables(g)' + msgcount'[g] + ToClose(g)'
          /\ msgcount'[g] \in Nat /\ count'[g] \in Nat
      BY <2>9, Balance
    <3>. QED  BY <3>1, <3>3, <3>4, <2>8 DEF CountOK
  <2>. QED  BY <2>11, <2>12
<1>12. count' \in [File -> Nat]
  BY <1>1, <1>6, <1>11 DEF FdTypes
<1>13. FdTypes'
  BY <1>1, <1>4, <1>6, <1>7, <1>8, <1>9, <1>12 DEF FdTypes, StackMoved
<1>14. rights' = Total(msgcount')
  BY <1>6 DEF FdInv
<1>. QED  BY <1>4, <1>11, <1>13, <1>14, Assembled

-----------------------------------------------------------------------------
(* Rights that are taken out of messages.                                  *)

(* unp_discard() keeps the invariant.                                       *)
LEMMA DiscardKeeps ==
  ASSUME FdInv, ~hurt, NEW p \in Proc, Discard(p)
  PROVE  FdInv'
<1> DEFINE m == Top(p).arg
           old == <<Top(p)>>
           none == <<>>
           h == Head(m)
           x == Frame("closef", Head(m))
           y == Frame("discard", Tail(m))
           new == <<x, y>>
           one(f) == IF h = f THEN 1 ELSE 0
<1>1. FdTypes /\ Busy(p) /\ Top(p).op = "discard" /\ rights = Total(msgcount)
  BY DEF FdInv, Discard, At
<1>2. Top(p) \in Frames /\ m \in Seq(File) /\ old \in Seq(Frames)
  BY <1>1, TopLive, FrameOps, FramesOne
<1>3. UNCHANGED <<live, count, fds, peer, queue, leaked, hurt>>
  BY DEF Discard
<1>4. \A f \in File : /\ InFrames(old, f) = Times(f, m) /\ Closed(old, f) = 0
                      /\ Freed(old, f) = 0 /\ Times(f, m) \in Nat
  BY <1>1, <1>2, FramesOne, TimesType DEF Closes
<1>5. /\ queue' \in [Sock -> Seq(Seq(File))]
      /\ \A f \in File : InQueues(f)' \in Nat /\ InQueues(f)' = InQueues(f)
  BY <1>1, <1>3, QueueSame
<1>6. /\ fds' \in [Proc -> [File -> Nat]]
      /\ \A f \in File : InTables(f)' \in Nat /\ InTables(f)' = InTables(f)
  BY <1>1, <1>3, TableSame
<1>7. CASE m = none
  <2>1. Go(p, none) /\ UNCHANGED <<msgcount, rights>>
    BY <1>7 DEF Discard
  <2>2. none \in Seq(Frames) /\ StackMoved(old, none)
    BY <1>1, <2>1, Popped
  <2>3. ASSUME NEW f \in File
        PROVE  Alike(old, none, f)
    <3>1. Times(f, m) = 0
      BY <1>7, TimesNone
    <3>. QED  BY <3>1, <1>4, FramesNone DEF Alike
  <2>4. /\ UNCHANGED <<live, count, msgcount, fds, peer, queue, rights, leaked>>
        /\ hurt' \in BOOLEAN
    BY <1>1, <1>3, <2>1 DEF FdTypes
  <2> HIDE DEF old, none
  <2>. QED  BY <1>2, <2>2, <2>3, <2>4, Shifted
<1>8. CASE m # none
  <2>1. /\ msgcount' = [msgcount EXCEPT ![h] = @ - 1] /\ rights' = rights - 1
        /\ Go(p, new)
    BY <1>8 DEF Discard
  <2>2. /\ h \in File /\ Tail(m) \in Seq(File)
        /\ \A f \in File : Times(f, m) = one(f) + Times(f, Tail(m))
    BY <1>2, <1>8, TimesHead
  <2>3. /\ x \in Frames /\ y \in Frames /\ new \in Seq(Frames)
        /\ <<x>> \in Seq(Frames) /\ <<y>> \in Seq(Frames) /\ new = <<x>> \o <<y>>
        /\ x.op = "closef" /\ y.op = "discard"
    <3>1. x.op = "closef" /\ y.op = "discard"
      BY DEF Frame
    <3>2. x \in Frames /\ y \in Frames
      BY <2>2, FrameIn
    <3> HIDE DEF x, y
    <3>3. /\ new \in Seq(Frames) /\ <<x>> \in Seq(Frames) /\ <<y>> \in Seq(Frames)
          /\ new = <<x>> \o <<y>>
      BY <3>2, Pair
    <3>. QED  BY <3>1, <3>2, <3>3
  <2>4. ASSUME NEW f \in File
        PROVE  Counts(new, f, Times(f, Tail(m)), one(f), 0)
    <3>1. /\ Counts(<<x>>, f, 0, one(f), 0)
          /\ Counts(<<y>>, f, Times(f, Tail(m)), 0, 0)
      BY <2>2, FrameCounts
    <3>2. one(f) \in Nat /\ Times(f, Tail(m)) \in Nat
      BY <2>2, TimesType
    <3> DEFINE k == Times(f, Tail(m))
    <3> HIDE DEF x, y, one, k
    <3>3. Counts(<<x>> \o <<y>>, f, 0 + k, one(f) + 0, 0 + 0)
      BY <3>1, CountsMore DEF k
    <3>4. Counts(<<x>> \o <<y>>, f, k, one(f), 0)
      BY <3>2, <3>3 DEF k
    <3>. QED  BY <3>4, <2>3 DEF k
  <2>5. StackMoved(old, new)
    <3> DEFINE before == Needs(Top(p))
    <3>1. Needs(x) = {} /\ x.op # "sweep" /\ Needs(y) = {} /\ y.op # "sweep"
      BY <2>3 DEF Needs
    <3> HIDE DEF x, y, before
    <3>2. Fit(<<y>>, before)
      BY <2>3, <3>1, FitOne
    <3>3. Fit(<<x>> \o <<y>>, before)
      BY <2>3, <3>1, <3>2, FitMore
    <3>4. Fit(new, before)
      BY <2>3, <3>3
    <3> HIDE DEF new
    <3>. QED  BY <1>1, <2>1, <2>3, <3>4, GoStep DEF before
  <2>6. \A f \in File : msgcount'[f] = msgcount[f] - one(f)
    <3>1. msgcount \in [File -> Nat]
      BY <1>1 DEF FdTypes
    <3> HIDE DEF h
    <3>. QED  BY <3>1, <2>1, <2>2
  <2> HIDE DEF x, y, old, new, m, h
  <2>7. ASSUME NEW f \in File
        PROVE  CountOK(f)' /\ msgcount'[f] \in Nat /\ count'[f] \in Nat
    <3> DEFINE n == one(f)
               k == Times(f, Tail(m))
    <3>1. /\ InQueues(f) \in Nat /\ InHand(f) \in Nat /\ leaked[f] \in Nat
          /\ InTables(f) \in Nat /\ ToClose(f) \in Nat /\ ToFree(f) \in Nat
          /\ msgcount[f] \in Nat /\ count[f] \in Nat /\ n \in Nat /\ k \in Nat
      BY <2>2, Numbers, TimesType
    <3>2. InFrames(new, f) = k /\ Closed(new, f) = n /\ Freed(new, f) = 0
      BY <2>4 DEF Counts
    <3>3. InFrames(old, f) = n + k /\ Closed(old, f) = 0 /\ Freed(old, f) = 0
      BY <1>4, <2>2
    <3>4. msgcount'[f] = msgcount[f] - n
      BY <2>6
    <3> HIDE DEF n, k
    <3>5. /\ InHand(f)' = InHand(f) + k - (n + k) /\ ToClose(f)' = ToClose(f) + n
          /\ ToFree(f)' = ToFree(f)
          /\ InHand(f)' \in Nat /\ ToClose(f)' \in Nat
      BY <2>5, <3>1, <3>2, <3>3 DEF StackMoved
    <3>6. InHand(f)' - InHand(f) = 0 - n /\ ToClose(f)' - ToClose(f) = n
      BY <3>1, <3>5
    <3>7. count'[f] = count[f] /\ leaked'[f] = leaked[f] /\ live' = live
      BY <1>3
    <3>8. InBalance(f)
      <4>1. /\ InQueues(f)' \in Nat /\ InQueues(f)' - InQueues(f) = 0
            /\ InTables(f)' \in Nat /\ InTables(f)' - InTables(f) = 0
        BY <1>5, <1>6, <3>1
      <4>2. leaked'[f] \in Nat /\ leaked'[f] - leaked[f] = 0
        BY <3>1, <3>7
      <4>3. msgcount'[f] - msgcount[f] = 0 - n
        BY <3>1, <3>4
      <4>4. msgcount'[f] = msgcount[f] + 0 + (0 - n) + 0
        BY <3>1, <3>4
      <4>5. count'[f] = count[f] + (0 - n) + 0 + n
        BY <3>1, <3>7
      <4>. QED  BY <3>5, <3>6, <4>1, <4>2, <4>3, <4>4, <4>5 DEF InBalance
    <3>9. ~(count'[f] > count[f])
      BY <3>1, <3>7
    <3>. QED  BY <3>5, <3>7, <3>8, <3>9, Moved
  <2>8. msgcount \in [File -> Nat] /\ msgcount' \in [File -> Nat]
    BY <1>1, <2>1, <2>7 DEF FdTypes
  <2>9. rights' = Total(msgcount') /\ rights' \in Nat
    <3>1. \A f \in File \ {h} : msgcount'[f] = msgcount[f]
      BY <2>6, <2>8 DEF one
    <3>2. msgcount'[h] = msgcount[h] - 1 /\ msgcount[h] \in Nat
      BY <2>2, <2>6, <2>8 DEF one
    <3> DEFINE u == msgcount
               v == msgcount'
    <3>3. u \in [File -> Nat] /\ v \in [File -> Nat] /\ IsFiniteSet(File)
      BY <2>8, ProcsFinite
    <3>4. \A f \in File \ {h} : v[f] = u[f]
      BY <3>1
    <3> HIDE DEF u, v
    <3>5. /\ Total(v) = Total(u) + v[h] - u[h]
          /\ Total(u) \in Nat /\ Total(v) \in Nat
      BY <2>2, <3>3, <3>4, TotalChanged, TotalIsNumber
    <3>6. Total(v) = Total(u) - 1
      BY <3>2, <3>5 DEF u, v
    <3>. QED  BY <1>1, <2>1, <3>5, <3>6 DEF u, v
  <2>10. FdTypes'
    BY <1>1, <1>3, <1>5, <1>6, <2>5, <2>8, <2>9 DEF FdTypes, StackMoved
  <2>. QED  BY <2>5, <2>7, <2>9, <2>10, Assembled
<1>. QED  BY <1>7, <1>8

(* The first message of a queue, and one more at its end.                  *)
LEMMA QueueHead ==
  ASSUME NEW q \in Seq(Seq(File)), q # <<>>, NEW f
  PROVE  /\ Head(q) \in Seq(File) /\ Tail(q) \in Seq(Seq(File))
         /\ Times(f, FlattenSeq(q)) = Times(f, Head(q)) + Times(f, FlattenSeq(Tail(q)))
<1> DEFINE T == Seq(File)
           m == Head(q)
           r == Tail(q)
<1>1. m \in T /\ r \in Seq(T) /\ q = <<m>> \o r
  OBVIOUS
<1> DEFINE a == <<m>>
<1>2. a \in Seq(T)
  BY <1>1
<1>3. FlattenSeq(a) = m
  BY <1>1, FlatOne
<1>4. q = a \o r
  BY <1>1
<1> HIDE DEF m, r, a
<1>5. FlattenSeq(a \o r) = FlattenSeq(a) \o FlattenSeq(r)
  BY <1>1, <1>2, FlatJoined
<1>6. m \in Seq(File) /\ FlattenSeq(r) \in Seq(File)
  BY <1>1, FlatType
<1> DEFINE b == FlattenSeq(r)
<1>7. b \in Seq(File)
  BY <1>6
<1> HIDE DEF b
<1>8. Times(f, m \o b) = Times(f, m) + Times(f, b)
  BY <1>6, <1>7, TimesJoined
<1>9. Times(f, FlattenSeq(q)) = Times(f, m) + Times(f, FlattenSeq(r))
  BY <1>3, <1>4, <1>5, <1>8 DEF b
<1>. QED  BY <1>1, <1>9 DEF m, r

(* A message is put at the end of a queue.                                  *)
LEMMA QueueAppend ==
  ASSUME NEW q \in Seq(Seq(File)), NEW m \in Seq(File), NEW f
  PROVE  /\ Append(q, m) \in Seq(Seq(File))
         /\ Times(f, FlattenSeq(Append(q, m))) = Times(f, FlattenSeq(q)) + Times(f, m)
<1> DEFINE T == Seq(File)
           a == <<m>>
<1>1. a \in Seq(T) /\ q \in Seq(T)
  OBVIOUS
<1>2. Append(q, m) \in Seq(T) /\ Append(q, m) = q \o a
  <2>1. m \in T
    OBVIOUS
  <2> HIDE DEF T
  <2>. QED  BY <1>1, <2>1
<1>3. FlattenSeq(a) = m
  BY FlatOne
<1> HIDE DEF a
<1>4. FlattenSeq(q \o a) = FlattenSeq(q) \o FlattenSeq(a)
  BY <1>1, FlatJoined
<1> DEFINE b == FlattenSeq(q)
<1>5. b \in Seq(File)
  BY FlatType
<1> HIDE DEF b
<1>6. Times(f, b \o m) = Times(f, b) + Times(f, m)
  BY <1>5, TimesJoined
<1>7. Times(f, FlattenSeq(Append(q, m))) = Times(f, FlattenSeq(q)) + Times(f, m)
  BY <1>2, <1>3, <1>4, <1>6 DEF b
<1>. QED  BY <1>2, <1>7

(* What unp_externalize() does to the table and the counts.                *)
LEMMA TakenStep ==
  ASSUME FdInv, NEW p \in Proc, NEW m \in Seq(File), Taken(p, m)
  PROVE  /\ fds' \in [Proc -> [File -> Nat]]
         /\ \A f \in File : /\ InTables(f)' \in Nat
                            /\ InTables(f)' = InTables(f) + Times(f, m)
                            /\ msgcount'[f] = msgcount[f] - Times(f, m)
         /\ (\A f \in File : msgcount'[f] \in Nat) =>
              /\ msgcount' \in [File -> Nat]
              /\ rights' \in Nat /\ rights' = Total(msgcount')
<1> DEFINE t == [f \in File |-> fds[p][f] + Times(f, m)]
<1>1. FdTypes /\ rights = Total(msgcount) /\ msgcount \in [File -> Nat]
  BY DEF FdInv, FdTypes
<1>2. \A f \in File : fds[p][f] \in Nat /\ Times(f, m) \in Nat
  BY Numbers, TimesType
<1>3. t \in [File -> Nat]
  BY <1>2
<1>4. fds' = [fds EXCEPT ![p] = t]
  BY DEF Taken, Internalized
<1>5. msgcount' = [f \in File |-> msgcount[f] - Times(f, m)] /\ rights' = rights - Len(m)
  BY DEF Taken
<1>6. \A f \in File : t[f] = fds[p][f] + Times(f, m)
  OBVIOUS
<1> HIDE DEF t
<1>7. /\ fds' \in [Proc -> [File -> Nat]]
      /\ \A f \in File : /\ InTables(f)' \in Nat
                         /\ InTables(f)' = InTables(f) + t[f] - fds[p][f]
  BY <1>1, <1>3, <1>4, TableStep
<1>8. ASSUME NEW f \in File
      PROVE  /\ InTables(f)' \in Nat
             /\ InTables(f)' = InTables(f) + Times(f, m)
             /\ msgcount'[f] = msgcount[f] - Times(f, m)
  <2>1. InTables(f) \in Nat
    BY Numbers
  <2>2. InTables(f)' = InTables(f) + t[f] - fds[p][f] /\ InTables(f)' \in Nat
    BY <1>7
  <2>3. t[f] = fds[p][f] + Times(f, m) /\ fds[p][f] \in Nat /\ Times(f, m) \in Nat
    BY <1>2, <1>6
  <2>4. msgcount'[f] = msgcount[f] - Times(f, m)
    BY <1>5
  <2>. QED  BY <2>1, <2>2, <2>3, <2>4
<1>9. ASSUME \A f \in File : msgcount'[f] \in Nat
      PROVE  /\ msgcount' \in [File -> Nat]
             /\ rights' \in Nat /\ rights' = Total(msgcount')
  <2> DEFINE u == msgcount'
             v == msgcount
  <2>1. u \in [File -> Nat]
    BY <1>5, <1>9
  <2>2. v \in [File -> Nat] /\ Total(v) = rights
    BY <1>1
  <2>3. \A f \in File : v[f] = u[f] + Times(f, m)
    <3>1. ASSUME NEW f \in File
          PROVE  v[f] = u[f] + Times(f, m)
      <4>1. u[f] = v[f] - Times(f, m) /\ v[f] \in Nat /\ Times(f, m) \in Nat
        BY <1>2, <1>8, <2>2
      <4> HIDE DEF u, v
      <4>. QED  BY <4>1
    <3>. QED  BY <3>1
  <2> HIDE DEF u, v
  <2>4. Total(u) \in Nat /\ Total(v) = Total(u) + Len(m)
    BY <2>1, <2>2, <2>3, RightsAdded
  <2>5. Len(m) \in Nat
    OBVIOUS
  <2>6. rights' = Total(u)
    BY <1>5, <2>2, <2>4, <2>5
  <2>. QED  BY <2>1, <2>4, <2>6 DEF u
<1>. QED  BY <1>7, <1>8, <1>9

(* The rest of a message is received once the table has grown.              *)
LEMMA GrownKeeps ==
  ASSUME FdInv, ~hurt, NEW p \in Proc, Grown(p)
  PROVE  FdInv'
<1> DEFINE m == Top(p).arg
           old == <<Top(p)>>
           none == <<>>
<1>1. FdTypes /\ Busy(p) /\ Top(p).op = "grow" /\ Go(p, none) /\ Taken(p, m)
  BY DEF FdInv, Grown, At
<1>2. Top(p) \in Frames /\ m \in Seq(File) /\ old \in Seq(Frames)
  BY <1>1, TopLive, FrameOps, FramesOne
<1>3. UNCHANGED <<live, count, peer, queue, leaked, hurt>>
  BY DEF Grown
<1>4. \A f \in File : /\ InFrames(old, f) = Times(f, m) /\ Closed(old, f) = 0
                      /\ Freed(old, f) = 0 /\ Times(f, m) \in Nat
  BY <1>1, <1>2, FramesOne, TimesType DEF Closes
<1>5. \A f \in File : InFrames(none, f) = 0 /\ Closed(none, f) = 0 /\ Freed(none, f) = 0
  BY FramesNone
<1>6. StackMoved(old, none)
  BY <1>1, Popped
<1>7. /\ queue' \in [Sock -> Seq(Seq(File))]
      /\ \A f \in File : InQueues(f)' \in Nat /\ InQueues(f)' = InQueues(f)
  BY <1>1, <1>3, QueueSame
<1> HIDE DEF old, none, m
<1>8. ASSUME NEW f \in File
      PROVE  CountOK(f)' /\ msgcount'[f] \in Nat /\ count'[f] \in Nat
  <2> DEFINE n == Times(f, m)
  <2>1. /\ InQueues(f) \in Nat /\ InHand(f) \in Nat /\ leaked[f] \in Nat
        /\ InTables(f) \in Nat /\ ToClose(f) \in Nat /\ ToFree(f) \in Nat
        /\ msgcount[f] \in Nat /\ count[f] \in Nat /\ n \in Nat
    BY <1>4, Numbers
  <2>2. /\ InTables(f)' \in Nat /\ InTables(f)' = InTables(f) + n
        /\ msgcount'[f] = msgcount[f] - n
    BY <1>1, <1>2, TakenStep
  <2>3. InFrames(old, f) = n /\ Closed(old, f) = 0 /\ Freed(old, f) = 0
    BY <1>4
  <2> HIDE DEF n
  <2>4. /\ InHand(f)' = InHand(f) - n /\ ToClose(f)' = ToClose(f)
        /\ ToFree(f)' = ToFree(f) /\ InHand(f)' \in Nat
    BY <1>5, <1>6, <2>1, <2>3 DEF StackMoved
  <2>5. count'[f] = count[f] /\ leaked'[f] = leaked[f] /\ live' = live
    BY <1>3
  <2>6. InBalance(f)
    <3>1. InQueues(f)' \in Nat /\ InQueues(f)' - InQueues(f) = 0
      BY <1>7, <2>1
    <3>2. ToClose(f)' \in Nat /\ ToClose(f)' - ToClose(f) = 0
      BY <2>1, <2>4
    <3>3. leaked'[f] \in Nat /\ leaked'[f] - leaked[f] = 0
      BY <2>1, <2>5
    <3>4. InHand(f)' - InHand(f) = 0 - n /\ InTables(f)' - InTables(f) = n
      BY <2>1, <2>2, <2>4
    <3>5. msgcount'[f] - msgcount[f] = 0 - n
      BY <2>1, <2>2
    <3>6. msgcount'[f] = msgcount[f] + 0 + (0 - n) + 0
      BY <2>1, <2>2
    <3>7. count'[f] = count[f] + (0 - n) + n + 0
      BY <2>1, <2>5
    <3>. QED  BY <2>2, <2>4, <3>1, <3>2, <3>3, <3>4, <3>5, <3>6, <3>7 DEF InBalance
  <2>7. ~(count'[f] > count[f])
    BY <2>1, <2>5
  <2>. QED  BY <2>4, <2>5, <2>6, <2>7, Moved
<1>9. /\ fds' \in [Proc -> [File -> Nat]] /\ msgcount' \in [File -> Nat]
      /\ rights' \in Nat /\ rights' = Total(msgcount')
  BY <1>1, <1>2, <1>8, TakenStep
<1>10. FdTypes'
  BY <1>1, <1>3, <1>6, <1>7, <1>9 DEF FdTypes, StackMoved
<1>. QED  BY <1>6, <1>8, <1>9, <1>10, Assembled

(* The rights that did not fit are to be discarded.                        *)
LEMMA SpillMoves ==
  ASSUME FdInv, ~hurt, NEW p \in Proc, NEW m \in Seq(File), ~Busy(p),
         Enter(p, <<Frame("discard", m), Frame("spilt", None)>>)
  PROVE  \E new \in Seq(Frames) :
           StackMoved(<<>>, new) /\ \A f \in File : Counts(new, f, Times(f, m), 0, 0)
<1> DEFINE x == Frame("discard", m)
           y == Frame("spilt", None)
           new == <<x, y>>
           none == <<>>
<1>1. x \in Frames /\ y \in Frames /\ x.op = "discard" /\ y.op = "spilt"
  BY FrameIn DEF Frame
<1>2. \A f \in File : Counts(<<x>>, f, Times(f, m), 0, 0) /\ Counts(<<y>>, f, 0, 0, 0)
  BY FrameCounts
<1>3. Enter(p, new)
  OBVIOUS
<1> HIDE DEF x, y
<1>4. /\ new \in Seq(Frames) /\ new = <<x>> \o <<y>>
      /\ <<x>> \in Seq(Frames) /\ <<y>> \in Seq(Frames)
  BY <1>1, Pair
<1>5. ASSUME NEW f \in File
      PROVE  Counts(new, f, Times(f, m), 0, 0)
  <2> DEFINE k == Times(f, m)
  <2>1. k \in Nat /\ Counts(<<x>>, f, k, 0, 0) /\ Counts(<<y>>, f, 0, 0, 0)
    BY <1>2, TimesType
  <2> HIDE DEF k
  <2>2. Counts(<<x>> \o <<y>>, f, k + 0, 0 + 0, 0 + 0)
    BY <2>1, CountsMore
  <2>3. Counts(<<x>> \o <<y>>, f, k, 0, 0)
    BY <2>1, <2>2
  <2>. QED  BY <2>3, <1>4 DEF k
<1>6. Needs(x) = {} /\ x.op # "sweep" /\ Needs(y) = {} /\ y.op # "sweep"
  BY <1>1 DEF Needs
<1>7. Fit(new, {})
  <2>1. Fit(<<y>>, {})
    BY <1>4, <1>6, FitOne
  <2>2. Fit(<<x>> \o <<y>>, {})
    BY <1>4, <1>6, <2>1, FitMore
  <2>. QED  BY <1>4, <2>2
<1> HIDE DEF new
<1>8. StackMoved(<<>>, new)
  BY <1>3, <1>4, <1>7, EnterStep
<1>. QED  BY <1>4, <1>5, <1>8

(* Part of the rights are taken, and the others are in hand.               *)
LEMMA GrowMoves ==
  ASSUME FdInv, ~hurt, NEW p \in Proc, NEW m \in Seq(File), NEW n \in 1..Len(m),
         ~Busy(p),
         IF n = Len(m) THEN UNCHANGED stack
         ELSE Enter(p, <<Frame("grow", SubSeq(m, n + 1, Len(m)))>>)
  PROVE  /\ SubSeq(m, 1, n) \in Seq(File)
         /\ \E new \in Seq(Frames) :
              /\ StackMoved(<<>>, new)
              /\ \A f \in File : \E h \in Nat :
                   /\ Counts(new, f, h, 0, 0)
                   /\ Times(f, m) = Times(f, SubSeq(m, 1, n)) + h
<1> DEFINE a == SubSeq(m, 1, n)
           b == SubSeq(m, n + 1, Len(m))
           none == <<>>
<1>1. /\ a \in Seq(File) /\ b \in Seq(File) /\ (n = Len(m) => a = m)
      /\ \A f \in File : Times(f, m) = Times(f, a) + Times(f, b)
  BY TimesParts
<1>2. \A f \in File : Times(f, a) \in Nat /\ Times(f, b) \in Nat
  BY <1>1, TimesType
<1>3. CASE n = Len(m)
  <2>1. none \in Seq(Frames) /\ StackMoved(<<>>, none)
    BY <1>3, StackSame
  <2>2. \A f \in File : Counts(none, f, 0, 0, 0)
    BY <2>1, FramesNone DEF Counts
  <2>3. \A f \in File : Times(f, m) = Times(f, a) + 0
    <3>1. a = m
      BY <1>1, <1>3
    <3>2. \A f \in File : Times(f, a) \in Nat
      BY <1>2
    <3> HIDE DEF a
    <3>. QED  BY <3>1, <3>2
  <2> HIDE DEF a, none
  <2>4. 0 \in Nat
    OBVIOUS
  <2>5. \A f \in File : \E h \in Nat :
          Counts(none, f, h, 0, 0) /\ Times(f, m) = Times(f, a) + h
    BY <2>2, <2>3, <2>4
  <2>6. \E new \in Seq(Frames) :
           /\ StackMoved(<<>>, new)
           /\ \A f \in File : \E h \in Nat :
                Counts(new, f, h, 0, 0) /\ Times(f, m) = Times(f, a) + h
    BY <2>1, <2>5, Zenon
  <2>. QED  BY <1>1, <2>6 DEF a
<1>4. CASE n # Len(m)
  <2> DEFINE x == Frame("grow", b)
             new == <<x>>
  <2>1. Enter(p, new)
    BY <1>4
  <2>2. /\ x \in Frames /\ x.op = "grow" /\ new \in Seq(Frames)
        /\ \A f \in File : Counts(new, f, Times(f, b), 0, 0)
    BY <1>1, FrameIn, FramesOne, FrameCounts DEF Frame
  <2>3. Needs(x) = {} /\ x.op # "sweep"
    BY <2>2 DEF Needs
  <2> HIDE DEF x, a, b
  <2>4. Fit(new, {})
    BY <2>2, <2>3, FitOne
  <2> HIDE DEF new
  <2>5. StackMoved(<<>>, new)
    BY <2>1, <2>2, <2>4, EnterStep
  <2>6. \A f \in File : \E h \in Nat :
          Counts(new, f, h, 0, 0) /\ Times(f, m) = Times(f, a) + h
    BY <1>1, <1>2, <2>2
  <2>7. \E y \in Seq(Frames) :
           /\ StackMoved(<<>>, y)
           /\ \A f \in File : \E h \in Nat :
                Counts(y, f, h, 0, 0) /\ Times(f, m) = Times(f, a) + h
    BY <2>2, <2>5, <2>6, Zenon
  <2>. QED  BY <1>1, <2>7 DEF a
<1>. QED  BY <1>3, <1>4

(* recvmsg() keeps the invariant.                                           *)
LEMMA ReceiveKeeps ==
  ASSUME FdInv, ~hurt, NEW p \in Proc, NEW s \in Sock, Receive(p, s)
  PROVE  FdInv'
<1> DEFINE q == queue[s]
           m == Head(queue[s])
           none == <<>>
<1>1. FdTypes /\ ~Busy(p) /\ q # <<>> /\ queue' = [queue EXCEPT ![s] = Tail(@)]
  BY DEF FdInv, Receive, Idle
<1>2. q \in Seq(Seq(File)) /\ m \in Seq(File) /\ Tail(q) \in Seq(Seq(File))
  <2>1. q \in Seq(Seq(File))
    BY <1>1 DEF FdTypes
  <2>. QED  BY <1>1, <2>1, QueueHead
<1>3. /\ UNCHANGED <<live, count, peer, leaked, hurt>>
      /\ hurt' \in BOOLEAN /\ live' \subseteq File
  BY <1>1 DEF Receive, FdTypes
<1>4. queue' = [queue EXCEPT ![s] = Tail(q)]
  BY <1>1
<1>5. /\ queue' \in [Sock -> Seq(Seq(File))]
      /\ \A f \in File : /\ InQueues(f)' \in Nat
                         /\ InQueues(f)' = InQueues(f) - Times(f, m)
                         /\ Times(f, m) \in Nat
  <2>1. /\ queue' \in [Sock -> Seq(Seq(File))]
        /\ \A f \in File : /\ InQueues(f)' \in Nat
                           /\ InQueues(f)' = InQueues(f) + Times(f, FlattenSeq(Tail(q)))
                                               - Times(f, FlattenSeq(queue[s]))
    BY <1>1, <1>2, <1>4, QueueStep
  <2>2. ASSUME NEW f \in File
        PROVE  /\ InQueues(f)' \in Nat
               /\ InQueues(f)' = InQueues(f) - Times(f, m)
               /\ Times(f, m) \in Nat
    <3> DEFINE i == Times(f, FlattenSeq(Tail(q)))
               j == Times(f, FlattenSeq(queue[s]))
               k == Times(f, m)
    <3>1. i \in Nat /\ k \in Nat
      <4>1. FlattenSeq(Tail(q)) \in Seq(File)
        BY <1>2, FlatType
      <4>. QED  BY <4>1, <1>2, TimesType
    <3>2. j = k + i
      BY <1>1, <1>2, QueueHead
    <3>3. InQueues(f) \in Nat
      BY Numbers
    <3>4. InQueues(f)' \in Nat /\ InQueues(f)' = InQueues(f) + i - j
      BY <2>1
    <3> HIDE DEF i, j, k
    <3>5. InQueues(f)' = InQueues(f) - k
      BY <3>1, <3>2, <3>3, <3>4
    <3>. QED  BY <3>1, <3>4, <3>5 DEF k
  <2>. QED  BY <2>1, <2>2
<1>6. \A f \in File : InFrames(none, f) = 0 /\ Closed(none, f) = 0 /\ Freed(none, f) = 0
  BY FramesNone
<1>7. none \in Seq(Frames)
  OBVIOUS
<1>8. CASE /\ Enter(p, <<Frame("discard", m), Frame("spilt", None)>>)
           /\ UNCHANGED <<fds, msgcount, rights>>
  <2>1. PICK new \in Seq(Frames) :
          StackMoved(none, new) /\ \A f \in File : Counts(new, f, Times(f, m), 0, 0)
    BY <1>1, <1>2, <1>8, SpillMoves
  <2> HIDE DEF none, m
  <2>2. ASSUME NEW f \in File
        PROVE  Balanced(none, new, f)
    <3> DEFINE k == Times(f, m)
    <3>1. /\ InFrames(new, f) = k /\ Closed(new, f) = 0 /\ Freed(new, f) = 0
          /\ InFrames(none, f) = 0 /\ Closed(none, f) = 0 /\ Freed(none, f) = 0
      BY <1>6, <2>1 DEF Counts
    <3>2. /\ InQueues(f)' \in Nat /\ InQueues(f)' = InQueues(f) - k /\ k \in Nat
          /\ InQueues(f) \in Nat
      BY <1>5, Numbers
    <3> HIDE DEF k
    <3>3. InQueues(f)' + InFrames(new, f) = InQueues(f) + InFrames(none, f)
      BY <3>1, <3>2
    <3>4. f \in live' <=> f \in live
      BY <1>3
    <3>. QED  BY <3>1, <3>2, <3>3, <3>4 DEF Balanced
  <2>3. UNCHANGED <<count, msgcount, fds, peer, rights, leaked>>
    BY <1>3, <1>8
  <2>. QED  BY <1>3, <1>5, <1>7, <2>1, <2>2, <2>3, Rearranged
<1>9. ASSUME NEW n \in 1..Len(m), Taken(p, SubSeq(m, 1, n)),
             IF n = Len(m) THEN UNCHANGED stack
             ELSE Enter(p, <<Frame("grow", SubSeq(m, n + 1, Len(m)))>>)
      PROVE  FdInv'
  <2> DEFINE a == SubSeq(m, 1, n)
  <2>1. /\ a \in Seq(File)
        /\ \E new \in Seq(Frames) :
              /\ StackMoved(none, new)
              /\ \A f \in File : \E h \in Nat :
                   Counts(new, f, h, 0, 0) /\ Times(f, m) = Times(f, a) + h
    <3> HIDE DEF m
    <3>. QED  BY <1>1, <1>2, <1>9, GrowMoves
  <2>2. PICK new \in Seq(Frames) :
              /\ StackMoved(none, new)
              /\ \A f \in File : \E h \in Nat :
                   Counts(new, f, h, 0, 0) /\ Times(f, m) = Times(f, a) + h
    BY <2>1
  <2>3. Taken(p, a)
    BY <1>9
  <2> HIDE DEF m, a, none
  <2>4. ASSUME NEW f \in File
        PROVE  CountOK(f)' /\ msgcount'[f] \in Nat /\ count'[f] \in Nat
    <3>1. PICK h \in Nat : Counts(new, f, h, 0, 0) /\ Times(f, m) = Times(f, a) + h
      BY <2>2
    <3> DEFINE k == Times(f, a)
               i == Times(f, m)
    <3>2. /\ InQueues(f) \in Nat /\ InHand(f) \in Nat /\ leaked[f] \in Nat
          /\ InTables(f) \in Nat /\ ToClose(f) \in Nat /\ ToFree(f) \in Nat
          /\ msgcount[f] \in Nat /\ count[f] \in Nat /\ k \in Nat
      BY <2>1, Numbers, TimesType
    <3>3. /\ InFrames(new, f) = h /\ Closed(new, f) = 0 /\ Freed(new, f) = 0
          /\ InFrames(none, f) = 0 /\ Closed(none, f) = 0 /\ Freed(none, f) = 0
      BY <1>6, <3>1 DEF Counts
    <3>4. /\ InTables(f)' \in Nat /\ InTables(f)' = InTables(f) + k
          /\ msgcount'[f] = msgcount[f] - k
      BY <2>1, <2>3, TakenStep
    <3>5. InQueues(f)' \in Nat /\ InQueues(f)' = InQueues(f) - i /\ i = k + h
      BY <1>5, <3>1
    <3> HIDE DEF k, i
    <3>6. /\ InHand(f)' = InHand(f) + h /\ ToClose(f)' = ToClose(f)
          /\ ToFree(f)' = ToFree(f) /\ InHand(f)' \in Nat
      BY <2>2, <3>2, <3>3 DEF StackMoved
    <3>7. count'[f] = count[f] /\ leaked'[f] = leaked[f] /\ live' = live
      BY <1>3
    <3>8. InBalance(f)
      <4>1. InQueues(f)' - InQueues(f) = 0 - (k + h)
        BY <3>2, <3>5
      <4>2. ToClose(f)' \in Nat /\ ToClose(f)' - ToClose(f) = 0
        BY <3>2, <3>6
      <4>3. leaked'[f] \in Nat /\ leaked'[f] - leaked[f] = 0
        BY <3>2, <3>7
      <4>4. InHand(f)' - InHand(f) = h /\ InTables(f)' - InTables(f) = k
        <5>1. InHand(f)' - InHand(f) = h
          BY <3>2, <3>6
        <5>2. InTables(f)' - InTables(f) = k
          BY <3>2, <3>4
        <5>. QED  BY <5>1, <5>2
      <4>5. msgcount'[f] - msgcount[f] = 0 - k
        BY <3>2, <3>4
      <4>6. msgcount'[f] = msgcount[f] + (0 - (k + h)) + h + 0
        BY <3>2, <3>4
      <4>7. count'[f] = count[f] + (0 - k) + k + 0
        BY <3>2, <3>7
      <4>. QED  BY <3>4, <3>5, <3>6, <4>1, <4>2, <4>3, <4>4, <4>5, <4>6, <4>7 DEF InBalance
    <3>9. ~(count'[f] > count[f])
      BY <3>2, <3>7
    <3>. QED  BY <3>6, <3>7, <3>8, <3>9, Moved
  <2>5. /\ fds' \in [Proc -> [File -> Nat]] /\ msgcount' \in [File -> Nat]
        /\ rights' \in Nat /\ rights' = Total(msgcount')
    BY <2>1, <2>3, <2>4, TakenStep
  <2>6. FdTypes'
    BY <1>1, <1>3, <1>5, <2>2, <2>5 DEF FdTypes, StackMoved
  <2>. QED  BY <2>2, <2>4, <2>5, <2>6, Assembled
<1>10. \/ /\ Enter(p, <<Frame("discard", m), Frame("spilt", None)>>)
          /\ UNCHANGED <<fds, msgcount, rights>>
       \/ \E n \in 1 .. Len(m) :
            /\ Taken(p, SubSeq(m, 1, n))
            /\ IF n = Len(m) THEN UNCHANGED stack
               ELSE Enter(p, <<Frame("grow", SubSeq(m, n + 1, Len(m)))>>)
  BY Zenon DEF Receive
<1> HIDE DEF m
<1>. QED  BY <1>8, <1>9, <1>10

-----------------------------------------------------------------------------
(* Rights that are put in messages.                                        *)

(* Messages are sequences of rights.                                        *)
LEMMA MessageType ==
  Message \subseteq Seq(File)
<1>1. \A f \in File : <<f>> \in Seq(File)
  OBVIOUS
<1>2. \A f, g \in File : <<f, g>> \in Seq(File)
  OBVIOUS
<1>3. SUFFICES ASSUME NEW m \in Message
               PROVE  m \in Seq(File)
  OBVIOUS
<1>4. CASE m \in {<<f>> : f \in File}
  <2>1. PICK f \in File : m = <<f>>
    BY <1>4
  <2>. QED  BY <1>1, <2>1
<1>5. CASE m \in {<<f, g>> : f, g \in File}
  <2>1. PICK f \in File, g \in File : m = <<f, g>>
    BY <1>5
  <2>. QED  BY <1>2, <2>1
<1>. QED  BY <1>4, <1>5 DEF Message

(* sendmsg() keeps the invariant.                                           *)
LEMMA SendKeeps ==
  ASSUME FdInv, ~hurt, NEW p \in Proc, NEW s \in Sock, NEW m \in Seq(File),
         Send(p, s, m)
  PROVE  FdInv'
<1> DEFINE none == <<>>
<1>1. FdTypes /\ rights = Total(msgcount) /\ msgcount \in [File -> Nat]
  BY DEF FdInv, FdTypes
<1>2. /\ \A f \in ToSet(m) : fds[p][f] > 0
      /\ count' = [f \in File |-> count[f] + Times(f, m)]
      /\ msgcount' = [f \in File |-> msgcount[f] + Times(f, m)]
      /\ rights' = rights + Len(m)
      /\ UNCHANGED <<live, fds, peer, stack, hurt>>
  BY DEF Send, Internalized
<1>3. \A f \in File : Times(f, m) \in Nat
  BY TimesType
<1>4. StackMoved(none, none)
  BY <1>2, StackSame
<1>5. \A f \in File : InFrames(none, f) = 0 /\ Closed(none, f) = 0 /\ Freed(none, f) = 0
  BY FramesNone
<1>6. /\ fds' \in [Proc -> [File -> Nat]]
      /\ \A f \in File : InTables(f)' \in Nat /\ InTables(f)' = InTables(f)
  BY <1>1, <1>2, TableSame
<1>7. /\ queue' \in [Sock -> Seq(Seq(File))] /\ leaked' \in [File -> Nat]
      /\ \A f \in File :
           /\ InQueues(f)' \in Nat
           /\ (InQueues(f)' - InQueues(f)) + (leaked'[f] - leaked[f]) = Times(f, m)
  <2>1. CASE /\ peer[s] # None /\ queue' = [queue EXCEPT ![peer[s]] = Append(@, m)]
             /\ leaked' = leaked
    <3> DEFINE r == peer[s]
               q == Append(queue[r], m)
    <3>1. r \in Sock /\ queue[r] \in Seq(Seq(File))
      BY <1>1, <2>1 DEF FdTypes
    <3>2. q \in Seq(Seq(File)) /\ queue' = [queue EXCEPT ![r] = q]
      BY <2>1, <3>1, QueueAppend
    <3>3. \A f \in File : Times(f, FlattenSeq(q)) = Times(f, FlattenSeq(queue[r])) + Times(f, m)
      BY <3>1, QueueAppend
    <3> HIDE DEF r, q
    <3>4. /\ queue' \in [Sock -> Seq(Seq(File))]
          /\ \A f \in File : /\ InQueues(f)' \in Nat
                             /\ InQueues(f)' = InQueues(f) + Times(f, FlattenSeq(q))
                                                 - Times(f, FlattenSeq(queue[r]))
      BY <1>1, <3>1, <3>2, QueueStep
    <3>5. leaked' \in [File -> Nat]
      BY <1>1, <2>1 DEF FdTypes
    <3>6. ASSUME NEW f \in File
          PROVE  /\ InQueues(f)' \in Nat
                 /\ (InQueues(f)' - InQueues(f)) + (leaked'[f] - leaked[f]) = Times(f, m)
      <4> DEFINE i == Times(f, FlattenSeq(q))
                 j == Times(f, FlattenSeq(queue[r]))
                 k == Times(f, m)
      <4>1. InQueues(f) \in Nat /\ leaked[f] \in Nat
        BY Numbers
      <4>2. j \in Nat /\ k \in Nat
        <5>1. FlattenSeq(queue[r]) \in Seq(File)
          BY <3>1, FlatType
        <5>. QED  BY <1>3, <5>1, TimesType
      <4>3. i = j + k
        BY <3>3
      <4>4. InQueues(f)' \in Nat /\ InQueues(f)' = InQueues(f) + i - j
        BY <3>4
      <4>5. leaked'[f] - leaked[f] = 0
        BY <2>1, <4>1
      <4> HIDE DEF i, j, k
      <4>6. InQueues(f)' - InQueues(f) = k
        BY <4>1, <4>2, <4>3, <4>4
      <4>7. (InQueues(f)' - InQueues(f)) + (leaked'[f] - leaked[f]) = k
        BY <4>2, <4>5, <4>6
      <4>. QED  BY <4>4, <4>7 DEF k
    <3>. QED  BY <3>4, <3>5, <3>6
  <2>2. CASE /\ leaked' = [f \in File |-> leaked[f] + Times(f, m)] /\ queue' = queue
    <3>1. /\ queue' \in [Sock -> Seq(Seq(File))]
          /\ \A f \in File : InQueues(f)' \in Nat /\ InQueues(f)' = InQueues(f)
      BY <1>1, <2>2, QueueSame
    <3>2. \A f \in File : leaked[f] + Times(f, m) \in Nat
      BY <1>3, Numbers
    <3>3. leaked' \in [File -> Nat]
      BY <2>2, <3>2
    <3>4. ASSUME NEW f \in File
          PROVE  (InQueues(f)' - InQueues(f)) + (leaked'[f] - leaked[f]) = Times(f, m)
      <4> DEFINE k == Times(f, m)
      <4>1. InQueues(f) \in Nat /\ leaked[f] \in Nat /\ k \in Nat
        BY <1>3, Numbers
      <4>2. InQueues(f)' = InQueues(f) /\ leaked'[f] = leaked[f] + k
        BY <2>2, <3>1
      <4> HIDE DEF k
      <4>3. InQueues(f)' - InQueues(f) = 0 /\ leaked'[f] - leaked[f] = k
        BY <4>1, <4>2
      <4>4. (InQueues(f)' - InQueues(f)) + (leaked'[f] - leaked[f]) = k
        BY <4>1, <4>3
      <4>. QED  BY <4>4 DEF k
    <3>. QED  BY <3>1, <3>3, <3>4
  <2>. QED  BY <2>1, <2>2 DEF Send, Internalized
<1> HIDE DEF none
<1>8. ASSUME NEW f \in File
      PROVE  CountOK(f)' /\ msgcount'[f] \in Nat /\ count'[f] \in Nat
  <2> DEFINE k == Times(f, m)
  <2>1. /\ InQueues(f) \in Nat /\ InHand(f) \in Nat /\ leaked[f] \in Nat
        /\ InTables(f) \in Nat /\ ToClose(f) \in Nat /\ ToFree(f) \in Nat
        /\ msgcount[f] \in Nat /\ count[f] \in Nat /\ k \in Nat
    BY <1>3, Numbers
  <2>2. /\ InHand(f)' = InHand(f) /\ ToClose(f)' = ToClose(f)
        /\ ToFree(f)' = ToFree(f)
    BY <1>4, <1>5, <2>1 DEF StackMoved
  <2>3. count'[f] = count[f] + k /\ msgcount'[f] = msgcount[f] + k /\ live' = live
    BY <1>2
  <2>4. k > 0 => f \in live /\ ToFree(f) = 0
    <3>1. SUFFICES ASSUME k > 0
                   PROVE  f \in live /\ ToFree(f) = 0
      OBVIOUS
    <3>2. f \in ToSet(m)
      BY <3>1, TimesIn
    <3>3. fds[p][f] > 0
      BY <1>2, <3>2
    <3>4. InTables(f) > 0
      BY <3>3, Numbers
    <3>5. count[f] > 0
      BY <3>4, Numbers
    <3>. QED  BY <3>5, CountedIsLive
  <2>5. /\ InQueues(f)' \in Nat /\ leaked'[f] \in Nat
        /\ (InQueues(f)' - InQueues(f)) + (leaked'[f] - leaked[f]) = k
    BY <1>7
  <2> HIDE DEF k
  <2>6. InBalance(f)
    <3>1. InHand(f)' \in Nat /\ InHand(f)' - InHand(f) = 0
      BY <2>1, <2>2
    <3>2. ToClose(f)' \in Nat /\ ToClose(f)' - ToClose(f) = 0
      BY <2>1, <2>2
    <3>3. InTables(f)' \in Nat /\ InTables(f)' - InTables(f) = 0
      BY <1>6, <2>1
    <3>4. msgcount'[f] - msgcount[f] = k
      BY <2>1, <2>3
    <3>5. count'[f] = count[f] + k + 0 + 0
      BY <2>1, <2>3
    <3>6. msgcount'[f] = msgcount[f] + (InQueues(f)' - InQueues(f)) + 0
                           + (leaked'[f] - leaked[f])
      <4> DEFINE i == InQueues(f)' - InQueues(f)
                 j == leaked'[f] - leaked[f]
      <4>1. i \in Int /\ j \in Int /\ i + j = k
        BY <2>1, <2>5
      <4>2. msgcount'[f] = msgcount[f] + k
        BY <2>3
      <4> HIDE DEF i, j
      <4>3. msgcount'[f] = msgcount[f] + i + 0 + j
        BY <2>1, <4>1, <4>2
      <4>. QED  BY <4>3 DEF i, j
    <3>. QED  BY <2>5, <3>1, <3>2, <3>3, <3>4, <3>5, <3>6 DEF InBalance
  <2>7. count'[f] > count[f] => f \in live' /\ ToFree(f) = 0
    BY <2>1, <2>3, <2>4
  <2>. QED  BY <2>2, <2>3, <2>6, <2>7, Moved
<1>9. count' \in [File -> Nat] /\ msgcount' \in [File -> Nat]
  BY <1>2, <1>8
<1>10. rights' = Total(msgcount') /\ rights' \in Nat
  <2> DEFINE u == msgcount
             v == msgcount'
  <2>1. u \in [File -> Nat] /\ v \in [File -> Nat]
    BY <1>1, <1>9
  <2>2. \A f \in File : v[f] = u[f] + Times(f, m)
    BY <1>2
  <2>3. rights' = rights + Len(m) /\ rights = Total(u) /\ Len(m) \in Nat
    BY <1>1, <1>2
  <2> HIDE DEF u, v
  <2>4. Total(u) \in Nat /\ Total(v) = Total(u) + Len(m)
    BY <2>1, <2>2, RightsAdded
  <2>. QED  BY <2>3, <2>4 DEF v
<1>11. FdTypes'
  BY <1>1, <1>2, <1>4, <1>6, <1>7, <1>9, <1>10 DEF FdTypes, StackMoved
<1>. QED  BY <1>4, <1>8, <1>10, <1>11, Assembled

-----------------------------------------------------------------------------
(* The invariant holds at first, and every step keeps it.                  *)

(* FdInv holds at first.                                                    *)
LEMMA InitInv ==
  ASSUME Init
  PROVE  FdInv
<1> DEFINE none == <<>>
           zeroes == [f \in File |-> 0]
<1>1. none \in Seq(Frames) /\ none \in Seq(Seq(File))
  OBVIOUS
<1>2. /\ live = {} /\ count = zeroes /\ msgcount = zeroes /\ leaked = zeroes
      /\ fds = [p \in Proc |-> zeroes] /\ peer = [s \in Sock |-> None]
      /\ queue = [s \in Sock |-> none] /\ rights = 0
      /\ stack = [p \in Proc |-> none] /\ hurt = FALSE
  BY DEF Init
<1>3. FdTypes
  BY <1>1, <1>2 DEF FdTypes
<1>4. FlattenSeq(none) = none
  BY <1>1, FlatIs
<1>5. \A f \in File : /\ InFrames(none, f) = 0 /\ Closed(none, f) = 0
                      /\ Freed(none, f) = 0 /\ Times(f, none) = 0
  BY FramesNone, TimesNone
<1>6. \A S : IsFiniteSet(S) => Total([x \in S |-> 0]) = 0
  <2> SUFFICES ASSUME NEW S, IsFiniteSet(S)
               PROVE  Total([x \in S |-> 0]) = 0
    OBVIOUS
  <2>1. Total([x \in S |-> 0]) = 0 * Cardinality(S) /\ Cardinality(S) \in Nat
    BY TotalEqual, FS_CardinalityType
  <2>. QED  BY <2>1
<1>7. ASSUME NEW f \in File
      PROVE  CountOK(f)
  <2>1. /\ [p \in Proc |-> InFrames(stack[p], f)] = [p \in Proc |-> 0]
        /\ [p \in Proc |-> Closed(stack[p], f)] = [p \in Proc |-> 0]
        /\ [p \in Proc |-> Freed(stack[p], f)] = [p \in Proc |-> 0]
        /\ [s \in Sock |-> Times(f, FlattenSeq(queue[s]))] = [s \in Sock |-> 0]
        /\ [p \in Proc |-> fds[p][f]] = [p \in Proc |-> 0]
    BY <1>2, <1>4, <1>5
  <2>2. Total([p \in Proc |-> 0]) = 0 /\ Total([s \in Sock |-> 0]) = 0
    BY <1>6, ProcsFinite
  <2>3. /\ InHand(f) = Total([p \in Proc |-> 0])
        /\ ToClose(f) = Total([p \in Proc |-> 0])
        /\ ToFree(f) = Total([p \in Proc |-> 0])
        /\ InQueues(f) = Total([s \in Sock |-> 0])
    <3>1. /\ InHand(f) = Total([p \in Proc |-> InFrames(stack[p], f)])
          /\ ToClose(f) = Total([p \in Proc |-> Closed(stack[p], f)])
          /\ ToFree(f) = Total([p \in Proc |-> Freed(stack[p], f)])
          /\ InQueues(f) = Total([s \in Sock |-> Times(f, FlattenSeq(queue[s]))])
      BY <1>3, SumsAre
    <3>. QED  BY <2>1, <3>1, Zenon
  <2>4. InTables(f) = Total([p \in Proc |-> 0])
    BY <2>1, Zenon DEF InTables
  <2>5. /\ InHand(f) = 0 /\ ToClose(f) = 0 /\ ToFree(f) = 0 /\ InQueues(f) = 0
        /\ InTables(f) = 0
    BY <2>2, <2>3, <2>4
  <2>. QED  BY <1>2, <2>5 DEF CountOK
<1>8. rights = Total(msgcount)
  BY <1>2, <1>6, ProcsFinite
<1>9. \A p \in Proc : stack[p] = none
  BY <1>2
<1>10. \A i \in DOMAIN none : FALSE
  OBVIOUS
<1> HIDE DEF none
<1>11. (\A p \in Proc : Backed(stack[p])) /\ SweepsSockets
  BY <1>9, <1>10 DEF Backed, SweepsSockets
<1>. QED  BY <1>3, <1>7, <1>8, <1>11 DEF FdInv

(* Every step keeps FdInv.                                                  *)
LEMMA NextInv ==
  ASSUME FdInv, [Next]_vars
  PROVE  FdInv'
<1>1. CASE UNCHANGED vars
  <2> DEFINE none == <<>>
  <2>1. UNCHANGED <<live, count, msgcount, fds, peer, queue, rights, leaked, stack, hurt>>
    BY <1>1 DEF vars
  <2>2. StackMoved(none, none) /\ none \in Seq(Frames) /\ hurt' \in BOOLEAN
    BY <2>1, StackSame DEF FdInv, FdTypes
  <2>3. \A f \in File : Alike(none, none, f)
    BY DEF Alike
  <2> HIDE DEF none
  <2>. QED  BY <2>1, <2>2, <2>3, Shifted
<1>2. CASE Next
  <2>1. PICK p \in Proc : Step(p)
    BY <1>2 DEF Next
  <2>2. ~hurt
    BY <1>2 DEF Next
  <2>3. CASE \E a, b \in Sock : Socketpair(p, a, b)
    BY <2>2, <2>3, SocketpairKeeps
  <2>4. CASE \E f \in File : Open(p, f)
    BY <2>2, <2>4, OpenKeeps
  <2>5. CASE \E q \in Proc \ {p} : Fork(p, q)
    BY <2>2, <2>5, ForkKeeps
  <2>6. CASE \E f \in File : Close(p, f)
    BY <2>2, <2>6, CloseKeeps
  <2>7. CASE \E s \in Sock, m \in Message : Send(p, s, m)
    BY <2>2, <2>7, SendKeeps, MessageType
  <2>8. CASE \E s \in Sock : Receive(p, s)
    BY <2>2, <2>8, ReceiveKeeps
  <2>9. CASE Grown(p)
    BY <2>2, <2>9, GrownKeeps
  <2>10. CASE Closef(p)
    BY <2>2, <2>10, ClosefKeeps
  <2>11. CASE Free(p)
    BY <2>2, <2>11, FreeKeeps
  <2>12. CASE Flush(p)
    BY <2>2, <2>12, FlushKeeps
  <2>13. CASE Discard(p)
    BY <2>2, <2>13, DiscardKeeps
  <2>14. CASE Spilt(p)
    BY <2>2, <2>14, SpiltKeeps
  <2>15. CASE Collect(p)
    BY <2>2, <2>15, CollectKeeps
  <2>16. CASE Sweep(p)
    BY <2>2, <2>16, SweepKeeps
  <2>17. CASE EachUnref(p)
    BY <2>2, <2>17, EachUnrefKeeps
  <2>18. CASE Collected(p)
    BY <2>2, <2>18, CollectedKeeps
  <2>. QED  BY <2>1, <2>3, <2>4, <2>5, <2>6, <2>7, <2>8, <2>9, <2>10, <2>11,
               <2>12, <2>13, <2>14, <2>15, <2>16, <2>17, <2>18 DEF Step
<1>. QED  BY <1>1, <1>2

-----------------------------------------------------------------------------
(* FdInv is enough for CountsTrue.                                          *)
LEMMA InvIsTrue ==
  ASSUME FdInv
  PROVE  CountsTrue
<1>1. FdTypes
  BY DEF FdInv
<1>2. ASSUME NEW f \in File
      PROVE  /\ msgcount[f] = InQueues(f) + InHand(f) + leaked[f]
             /\ count[f] = FoldFunction(+, 0, [p \in Proc |-> fds[p][f]])
                           + msgcount[f] + ToClose(f)
             /\ count[f] > 0 => f \in live
  <2>1. InTables(f) = FoldFunction(+, 0, [p \in Proc |-> fds[p][f]])
    BY DEF InTables, Total
  <2>2. /\ msgcount[f] = InQueues(f) + InHand(f) + leaked[f]
        /\ count[f] = InTables(f) + msgcount[f] + ToClose(f)
        /\ count[f] > 0 => f \in live
    BY Numbers
  <2>. QED  BY <2>1, <2>2
<1>3. rights = FoldFunction(+, 0, msgcount)
  BY DEF FdInv, Total
<1>4. ASSUME NEW p \in Proc, NEW i \in DOMAIN stack[p]
      PROVE  LET fr == stack[p][i] IN
             /\ fr.op \in {"closef", "flush", "free", "slow"} => fr.arg \in live
             /\ fr.op \in {"sweep", "drop"} => fr.arg \subseteq live
             /\ fr.op \in {"free", "slow"} => count[fr.arg] = 0
  <2> DEFINE fr == stack[p][i]
  <2>1. /\ fr \in Frames
        /\ \A f \in File : Closes(fr, f) => f \in live
        /\ \A f \in File : fr \in Freers(f) => f \in live /\ count[f] = 0
        /\ \A f \in Needs(fr) : f \in live
    BY FrameLive
  <2> HIDE DEF fr
  <2>2. /\ fr.op = "closef" => fr.arg \in File /\ Closes(fr, fr.arg)
        /\ fr.op \in {"free", "slow"} => fr.arg \in File /\ fr \in Freers(fr.arg)
        /\ fr.op = "flush" => fr.arg \in Needs(fr)
        /\ fr.op = "sweep" => fr.arg \subseteq Needs(fr)
        /\ fr.op = "drop" => \A f \in fr.arg : f \in File /\ Closes(fr, f)
    BY <2>1, FrameOps DEF Closes, Freers, Needs, File
  <2>3. /\ fr.op \in {"closef", "flush", "free", "slow"} => fr.arg \in live
        /\ fr.op \in {"free", "slow"} => count[fr.arg] = 0
    BY <2>1, <2>2
  <2>4. fr.op \in {"sweep", "drop"} => fr.arg \subseteq live
    BY <2>1, <2>2
  <2>. QED  BY <2>3, <2>4 DEF fr
<1>. QED  BY <1>2, <1>3, <1>4 DEF CountsTrue

(* f_count and f_msgcount are true at every moment, whatever a close sets  *)
(* off: closef() never counts below 0, and nothing is freed that somebody  *)
(* refers to or has still to flush or to close.                            *)
THEOREM CountsAreTrue == Spec => []CountsTrue
<1>1. Init => FdInv
  BY InitInv
<1>2. FdInv /\ [Next]_vars => FdInv'
  BY NextInv
<1>3. FdInv => CountsTrue
  BY InvIsTrue
<1>. QED  BY <1>1, <1>2, <1>3, PTL DEF Spec

-----------------------------------------------------------------------------
(* Garbage goes: what the collector found unreferenced is cut off from     *)
(* every process, and stays so, while each queue that still has some of it *)
(* is flushed. GcInv says that of every state, with what it needs of the   *)
(* stacks and of the sockets that are being closed.                        *)

Running(p) == Busy(p) /\ ~Asleep(p)

Has(frames, ops) == \E fr \in ToSet(frames) : fr.op \in ops

Collector == {"memory", "done"}

(* What is left of a stack without its top: nobody is closing or growing   *)
(* in it, what the collector has to sweep and to drop comes before its end, *)
(* and there is one collection at most.                                    *)
Calm(frames) ==
  /\ ~Has(frames, {"closef", "grow"})
  /\ \A i \in DOMAIN frames : frames[i].op \in {"sweep", "drop"} =>
       \E j \in DOMAIN frames : j > i /\ frames[j].op = "done"
  /\ \A i, j \in DOMAIN frames :
       frames[i].op \in Collector /\ frames[j].op \in Collector => i = j

(* x may be on top of the frames.                                          *)
Above(x, frames) ==
  /\ x.op \in {"sweep", "drop"} => Has(frames, {"done"})
  /\ x.op \in Collector => ~Has(frames, Collector)

Tidy(frames) ==
  frames # <<>> => Calm(Tail(frames)) /\ Above(Head(frames), Tail(frames))

Collecting(p) == Has(stack[p], Collector)

(* One process runs, and one collects.                                     *)
Kernel ==
  /\ \A p, q \in Proc : Running(p) /\ Running(q) => p = q
  /\ \A p \in Proc : Tidy(stack[p])
  /\ \A p \in Proc : Collecting(p) => gcing /\ \A q \in Proc : Collecting(q) => q = p

Flushing(s) == \E q \in Proc : Busy(q) /\ Top(q) = Frame("flush", s)

Sweeping(s) == \E q \in Proc : \E fr \in ToSet(stack[q]) : fr.op = "sweep" /\ s \in fr.arg

Freeing(s) == \E q \in Proc : Frame("free", s) \in ToSet(stack[q])

(* Nobody is connected to a socket that is closed, its queue is flushed    *)
(* first of all, and it is freed.                                          *)
Sockets ==
  /\ \A s \in Sock : peer[s] # None => count[peer[s]] > 0
  /\ \A s \in Sock : count[s] = 0 /\ queue[s] # <<>> => Flushing(s)
  /\ \A s \in Sock : count[s] = 0 /\ s \in live => Freeing(s)

(* G is cut off: no descriptor, no hand and no queue but its own has it.   *)
Cut(G) ==
  /\ garbage \subseteq G
  /\ \A f \in G : f \notin Growing /\ \A p \in Proc : fds[p][f] = 0
  /\ \A s \in Sock \ G : Contents(queue[s]) \cap G = {}

Held(s) == s \in marked \/ Sweeping(s) \/ Flushing(s)

(* What the collector found cannot be reached any more, and the queues that *)
(* have it will be flushed, or are of marked sockets.                      *)
Found ==
  /\ garbage \subseteq live \cap Sock
  /\ ~gcing => garbage = {}
  /\ \E G \in SUBSET File : Cut(G)
  /\ \A s \in Sock : Contents(queue[s]) \cap garbage # {} => Held(s)

NoneDone == \A p \in Proc : ~At(p, "done")

GcInv == IF hurt THEN NoneDone ELSE Kernel /\ Sockets /\ Found

-----------------------------------------------------------------------------
(* Stacks.                                                                 *)

(* The elements of two sequences that are joined.                          *)
LEMMA SetJoined ==
  ASSUME NEW X, NEW a \in Seq(X), NEW b \in Seq(X)
  PROVE  ToSet(a \o b) = ToSet(a) \cup ToSet(b)
<1> DEFINE c == a \o b
<1>1. /\ DOMAIN a = 1..Len(a) /\ DOMAIN b = 1..Len(b) /\ DOMAIN c = 1..(Len(a) + Len(b))
      /\ Len(a) \in Nat /\ Len(b) \in Nat
      /\ \A i \in 1..Len(a) : c[i] = a[i]
      /\ \A i \in 1..Len(b) : c[Len(a) + i] = b[i]
  OBVIOUS
<1> HIDE DEF c
<1>2. ToSet(a) \subseteq ToSet(c)
  BY <1>1 DEF ToSet
<1>3. ToSet(b) \subseteq ToSet(c)
  <2> SUFFICES ASSUME NEW i \in 1..Len(b)
               PROVE  \E j \in DOMAIN c : c[j] = b[i]
    BY <1>1 DEF ToSet
  <2>1. Len(a) + i \in DOMAIN c
    BY <1>1
  <2>. QED  BY <2>1, <1>1
<1>4. ToSet(c) \subseteq ToSet(a) \cup ToSet(b)
  <2> SUFFICES ASSUME NEW i \in DOMAIN c
               PROVE  c[i] \in ToSet(a) \/ c[i] \in ToSet(b)
    BY DEF ToSet
  <2>1. CASE i \in 1..Len(a)
    BY <2>1, <1>1 DEF ToSet
  <2>2. CASE i \notin 1..Len(a)
    <3>1. i - Len(a) \in 1..Len(b) /\ Len(a) + (i - Len(a)) = i
      BY <2>2, <1>1
    <3>. QED  BY <3>1, <1>1 DEF ToSet
  <2>. QED  BY <2>1, <2>2
<1>. QED  BY <1>2, <1>3, <1>4 DEF c

(* A sequence is its first element and the others.                         *)
LEMMA OnTop ==
  ASSUME NEW X, NEW x \in X, NEW r \in Seq(X), NEW s, s = <<x>> \o r
  PROVE  /\ s \in Seq(X) /\ s # <<>> /\ Head(s) = x /\ Tail(s) = r
         /\ DOMAIN s = 1..(Len(r) + 1) /\ DOMAIN r = 1..Len(r) /\ Len(r) \in Nat
         /\ s[1] = x /\ \A i \in 1..Len(r) : s[i + 1] = r[i]
<1>1. /\ s \in Seq(X) /\ s # <<>> /\ Head(s) = x
      /\ Len(s) = Len(r) + 1
      /\ DOMAIN s = 1..(Len(r) + 1) /\ DOMAIN r = 1..Len(r) /\ Len(r) \in Nat
      /\ s[1] = x /\ \A i \in 1..Len(r) : s[i + 1] = r[i]
  OBVIOUS
<1>2. Tail(s) = r
  <2>1. /\ Tail(s) \in Seq(X) /\ Len(Tail(s)) = Len(r)
        /\ \A i \in 1..Len(r) : Tail(s)[i] = s[i + 1]
    BY <1>1
  <2>2. \A i \in 1..Len(r) : Tail(s)[i] = r[i]
    BY <1>1, <2>1
  <2> DEFINE t == Tail(s)
  <2> HIDE DEF t
  <2>3. t \in Seq(X) /\ Len(t) = Len(r) /\ \A i \in 1..Len(r) : t[i] = r[i]
    BY <2>1, <2>2 DEF t
  <2>4. t = r
    BY <2>3
  <2>. QED  BY <2>4 DEF t
<1>. QED  BY <1>1, <1>2

(* Its elements are that one and the others.                               *)
LEMMA OnTopSet ==
  ASSUME NEW X, NEW x \in X, NEW r \in Seq(X)
  PROVE  ToSet(<<x>> \o r) = {x} \cup ToSet(r)
<1> DEFINE h == <<x>>
<1>1. h \in Seq(X) /\ ToSet(h) = {x}
  BY DEF ToSet
<1> HIDE DEF h
<1>2. ToSet(h \o r) = ToSet(h) \cup ToSet(r)
  BY <1>1, SetJoined
<1>. QED  BY <1>1, <1>2 DEF h

(* The operations of one frame more.                                       *)
LEMMA HasMore ==
  ASSUME NEW x \in Frames, NEW r \in Seq(Frames), NEW ops
  PROVE  Has(<<x>> \o r, ops) <=> x.op \in ops \/ Has(r, ops)
<1>1. ToSet(<<x>> \o r) = {x} \cup ToSet(r)
  BY OnTopSet
<1>. QED  BY <1>1, Zenon DEF Has

(* An operation is at some place.                                          *)
LEMMA HasAt ==
  ASSUME NEW r \in Seq(Frames), NEW ops
  PROVE  Has(r, ops) <=> \E i \in DOMAIN r : r[i].op \in ops
BY DEF Has, ToSet

(* A calm stack stays so with a frame that may be above it.                *)
LEMMA CalmMore ==
  ASSUME NEW x \in Frames, NEW r \in Seq(Frames), Calm(r), Above(x, r),
         x.op \notin {"closef", "grow"}
  PROVE  Calm(<<x>> \o r)
<1> DEFINE s == <<x>> \o r
           n == Len(r)
<1>1. /\ s \in Seq(Frames) /\ DOMAIN s = 1..(n + 1) /\ DOMAIN r = 1..n /\ n \in Nat
      /\ s[1] = x /\ \A i \in 1..n : s[i + 1] = r[i]
  BY OnTop
<1>2. ~Has(s, {"closef", "grow"})
  BY HasMore DEF Calm
<1> HIDE DEF s, n
<1>3. \A i \in DOMAIN s : i = 1 \/ (i - 1 \in 1..n /\ s[i] = r[i - 1])
  <2> SUFFICES ASSUME NEW i \in DOMAIN s, i # 1
               PROVE  i - 1 \in 1..n /\ s[i] = r[i - 1]
    OBVIOUS
  <2>1. i - 1 \in 1..n /\ (i - 1) + 1 = i
    BY <1>1
  <2>. QED  BY <2>1, <1>1
<1>4. ASSUME NEW i \in DOMAIN s, s[i].op \in {"sweep", "drop"}
      PROVE  \E j \in DOMAIN s : j > i /\ s[j].op = "done"
  <2>1. \E j \in 1..n : j + 1 > i /\ r[j].op = "done"
    <3>1. CASE i = 1
      <4>1. Has(r, {"done"})
        BY <3>1, <1>1, <1>4 DEF Above
      <4>2. PICK j \in DOMAIN r : r[j].op \in {"done"}
        BY <4>1, HasAt
      <4>. QED  BY <3>1, <4>2, <1>1
    <3>2. CASE i # 1
      <4>1. i - 1 \in DOMAIN r /\ r[i - 1].op \in {"sweep", "drop"}
        BY <3>2, <1>1, <1>3, <1>4
      <4>2. PICK j \in DOMAIN r : j > i - 1 /\ r[j].op = "done"
        BY <4>1 DEF Calm
      <4>3. j + 1 > i
        BY <4>2, <1>1
      <4>. QED  BY <4>2, <4>3, <1>1
    <3>. QED  BY <3>1, <3>2
  <2>2. PICK j \in 1..n : j + 1 > i /\ r[j].op = "done"
    BY <2>1
  <2>3. j + 1 \in DOMAIN s /\ s[j + 1] = r[j]
    BY <1>1
  <2>. QED  BY <2>2, <2>3
<1>5. ASSUME NEW i \in DOMAIN s, NEW j \in DOMAIN s,
             s[i].op \in Collector, s[j].op \in Collector
      PROVE  i = j
  <2>1. x.op \in Collector => \A k \in 1..n : r[k].op \notin Collector
    BY <1>1, HasAt DEF Above
  <2>2. CASE i = 1 \/ j = 1
    BY <2>1, <2>2, <1>1, <1>3, <1>5
  <2>3. CASE i # 1 /\ j # 1
    <3>1. /\ i - 1 \in DOMAIN r /\ j - 1 \in DOMAIN r
          /\ r[i - 1].op \in Collector /\ r[j - 1].op \in Collector
      BY <2>3, <1>1, <1>3, <1>5
    <3>2. i - 1 = j - 1
      BY <3>1 DEF Calm
    <3>. QED  BY <3>2, <1>1
  <2>. QED  BY <2>2, <2>3
<1>6. Calm(s)
  BY <1>2, <1>4, <1>5 DEF Calm
<1>. QED  BY <1>6 DEF s

(* A calm stack is so without its top.                                     *)
LEMMA CalmLess ==
  ASSUME NEW x \in Frames, NEW r \in Seq(Frames), Calm(<<x>> \o r)
  PROVE  Calm(r) /\ Above(x, r)
<1> DEFINE s == <<x>> \o r
           n == Len(r)
<1>1. /\ s \in Seq(Frames) /\ DOMAIN s = 1..(n + 1) /\ DOMAIN r = 1..n /\ n \in Nat
      /\ s[1] = x /\ \A i \in 1..n : s[i + 1] = r[i]
  BY OnTop
<1>2. ~Has(r, {"closef", "grow"})
  BY HasMore DEF Calm
<1>0. Calm(s)
  OBVIOUS
<1> HIDE DEF s, n
<1>3. \A i \in 1..n : i + 1 \in DOMAIN s /\ s[i + 1] = r[i] /\ 1 \in DOMAIN s
  BY <1>1
<1>4. ASSUME NEW i \in DOMAIN s, s[i].op \in {"sweep", "drop"}
      PROVE  \E j \in DOMAIN r : j + 1 > i /\ r[j].op = "done"
  <2>1. PICK j \in DOMAIN s : j > i /\ s[j].op = "done"
    BY <1>0, <1>4 DEF Calm
  <2>2. j - 1 \in 1..n /\ (j - 1) + 1 = j
    BY <2>1, <1>1
  <2>3. s[j] = r[j - 1]
    BY <2>2, <1>1
  <2>. QED  BY <2>1, <2>2, <2>3, <1>1
<1>5. ASSUME NEW i \in DOMAIN r, r[i].op \in {"sweep", "drop"}
      PROVE  \E j \in DOMAIN r : j > i /\ r[j].op = "done"
  <2>1. i + 1 \in DOMAIN s /\ s[i + 1].op \in {"sweep", "drop"}
    BY <1>1, <1>3, <1>5
  <2>2. PICK j \in DOMAIN r : j + 1 > i + 1 /\ r[j].op = "done"
    BY <2>1, <1>4
  <2>3. j > i
    BY <2>2, <1>1
  <2>. QED  BY <2>2, <2>3
<1>6. ASSUME NEW i \in DOMAIN r, NEW j \in DOMAIN r,
             r[i].op \in Collector, r[j].op \in Collector
      PROVE  i = j
  <2>1. /\ i + 1 \in DOMAIN s /\ s[i + 1].op \in Collector
        /\ j + 1 \in DOMAIN s /\ s[j + 1].op \in Collector
    BY <1>1, <1>3, <1>6
  <2>2. i + 1 = j + 1
    BY <2>1, <1>0 DEF Calm
  <2>. QED  BY <2>2, <1>1
<1>7. x.op \in {"sweep", "drop"} => Has(r, {"done"})
  <2> SUFFICES ASSUME x.op \in {"sweep", "drop"}
               PROVE  Has(r, {"done"})
    OBVIOUS
  <2>1. 1 \in DOMAIN s
    BY <1>1
  <2>2. PICK j \in DOMAIN r : r[j].op = "done"
    BY <2>1, <1>1, <1>4
  <2>. QED  BY <2>2, HasAt
<1>8. x.op \in Collector => ~Has(r, Collector)
  <2> SUFFICES ASSUME x.op \in Collector, NEW j \in DOMAIN r, r[j].op \in Collector
               PROVE  FALSE
    BY HasAt
  <2>1. /\ 1 \in DOMAIN s /\ j + 1 \in DOMAIN s
        /\ s[1].op \in Collector /\ s[j + 1].op \in Collector
    BY <1>1, <1>3
  <2>2. 1 = j + 1
    BY <2>1, <1>0 DEF Calm
  <2>. QED  BY <2>2, <1>1
<1>. QED  BY <1>2, <1>5, <1>6, <1>7, <1>8 DEF Calm, Above

(* A calm stack is tidy.                                                   *)
LEMMA CalmTidy ==
  ASSUME NEW r \in Seq(Frames), Calm(r)
  PROVE  Tidy(r)
<1> SUFFICES ASSUME r # <<>>
             PROVE  Calm(Tail(r)) /\ Above(Head(r), Tail(r))
  BY DEF Tidy
<1> DEFINE h == Head(r)
           t == Tail(r)
<1>1. h \in Frames /\ t \in Seq(Frames) /\ r = <<h>> \o t
  OBVIOUS
<1> HIDE DEF h, t
<1>2. Calm(<<h>> \o t)
  BY <1>1
<1>3. Calm(t) /\ Above(h, t)
  BY <1>1, <1>2, CalmLess
<1>. QED  BY <1>3 DEF h, t

(* A stack is tidy if its top is on a calm one.                            *)
LEMMA TidyMore ==
  ASSUME NEW x \in Frames, NEW r \in Seq(Frames), Calm(r), Above(x, r)
  PROVE  Tidy(<<x>> \o r)
<1> DEFINE s == <<x>> \o r
<1>1. Head(s) = x /\ Tail(s) = r
  BY OnTop
<1> HIDE DEF s
<1>2. Tidy(s)
  BY <1>1 DEF Tidy
<1>. QED  BY <1>2 DEF s

(* No frame is left.                                                       *)
LEMMA CalmNone == Calm(<<>>) /\ \A ops : ~Has(<<>>, ops)
BY DEF Calm, Has, ToSet

-----------------------------------------------------------------------------
(* What a step leaves alone.                                               *)

(* All frames but the top of p are still there.                            *)
Kept(p) ==
  \A q \in Proc : \A fr \in ToSet(stack[q]) :
    fr \in ToSet(stack'[q]) \/ (q = p /\ Busy(p) /\ fr = Top(p))

Others(p) == \A q \in Proc \ {p} : stack'[q] = stack[q]

(* How the stack of p changes when its top gives way to other frames.      *)
Went(p, new) ==
  /\ Top(p) \in Frames /\ Tail(stack[p]) \in Seq(Frames)
  /\ stack[p] = <<Top(p)>> \o Tail(stack[p])
  /\ stack'[p] = new \o Tail(stack[p])
  /\ ToSet(stack[p]) = {Top(p)} \cup ToSet(Tail(stack[p]))
  /\ ToSet(stack'[p]) = ToSet(new) \cup ToSet(Tail(stack[p]))
  /\ Others(p) /\ Kept(p)

(* That is what happens.                                                   *)
LEMMA GoWent ==
  ASSUME FdTypes, NEW p \in Proc, Busy(p), NEW new \in Seq(Frames), Go(p, new)
  PROVE  Went(p, new)
<1> DEFINE top == Top(p)
           rest == Tail(stack[p])
<1>1. stack[p] \in Seq(Frames) /\ stack[p] # <<>>
  BY DEF FdTypes, Busy
<1>2. top \in Frames /\ rest \in Seq(Frames) /\ stack[p] = <<top>> \o rest
  BY <1>1 DEF Top
<1>3. stack' = [stack EXCEPT ![p] = new \o rest]
  BY DEF Go
<1> HIDE DEF top, rest
<1>4. stack'[p] = new \o rest /\ Others(p)
  BY <1>3 DEF FdTypes, Others
<1>5. ToSet(<<top>> \o rest) = {top} \cup ToSet(rest)
  BY <1>2, OnTopSet
<1>6. ToSet(new \o rest) = ToSet(new) \cup ToSet(rest)
  BY <1>2, SetJoined
<1>7. ToSet(stack[p]) = {top} \cup ToSet(rest)
  BY <1>2, <1>5
<1>8. ToSet(stack'[p]) = ToSet(new) \cup ToSet(rest)
  BY <1>4, <1>6
<1>9. Kept(p)
  <2> SUFFICES ASSUME NEW q \in Proc, NEW fr \in ToSet(stack[q])
               PROVE  fr \in ToSet(stack'[q]) \/ (q = p /\ Busy(p) /\ fr = Top(p))
    BY DEF Kept
  <2>1. CASE q = p
    BY <2>1, <1>7, <1>8 DEF top
  <2>2. CASE q # p
    BY <2>2, <1>4 DEF Others
  <2>. QED  BY <2>1, <2>2
<1>. QED  BY <1>2, <1>4, <1>7, <1>8, <1>9 DEF Went, top, rest

(* A process that enters the kernel.                                       *)
LEMMA EnterWent ==
  ASSUME FdTypes, NEW p \in Proc, ~Busy(p), NEW new, Enter(p, new)
  PROVE  stack'[p] = new /\ Others(p) /\ Kept(p)
<1>1. stack'[p] = new /\ Others(p)
  BY DEF Enter, FdTypes, Others
<1>2. stack[p] = <<>>
  BY DEF Busy
<1>3. Kept(p)
  BY <1>1, <1>2 DEF Kept, Others, ToSet
<1>. QED  BY <1>1, <1>3

(* No stack changes.                                                       *)
LEMMA SameWent ==
  ASSUME NEW p \in Proc, UNCHANGED stack
  PROVE  Others(p) /\ Kept(p)
BY DEF Others, Kept

(* What is left of the stack when its top is done.                         *)
LEMMA RestCalm ==
  ASSUME Kernel, NEW p \in Proc, Busy(p)
  PROVE  Calm(Tail(stack[p])) /\ Above(Top(p), Tail(stack[p]))
BY DEF Kernel, Tidy, Busy, Top

(* One process runs and one collects, after a step of p.                   *)
LEMMA KernelMoved ==
  ASSUME Kernel, NEW p \in Proc, Cpu(p), Others(p), Tidy(stack'[p]),
         gcing' = gcing, Collecting(p)' => Collecting(p)
  PROVE  Kernel'
<1>1. ASSUME NEW q \in Proc \ {p}
      PROVE  ~Running(q)' /\ Tidy(stack'[q]) /\ (Collecting(q)' <=> Collecting(q))
  <2>1. stack'[q] = stack[q]
    BY DEF Others
  <2>2. ~Running(q)
    BY DEF Cpu, Running
  <2>. QED  BY <2>1, <2>2 DEF Running, Busy, Asleep, Top, Kernel, Collecting
<1>2. \A q \in Proc : Collecting(q)' => Collecting(q)
  BY <1>1
<1>3. \A q, r \in Proc : Running(q)' /\ Running(r)' => q = r
  BY <1>1
<1>4. \A q \in Proc : Tidy(stack'[q])
  BY <1>1
<1>5. \A q \in Proc : Collecting(q)' => gcing' /\ \A r \in Proc : Collecting(r)' => r = q
  BY <1>2 DEF Kernel
<1>. QED  BY <1>3, <1>4, <1>5 DEF Kernel

(* While p runs nobody else is flushing.                                   *)
LEMMA FlushAlone ==
  ASSUME NEW p \in Proc, Cpu(p), NEW s, Flushing(s)
  PROVE  Busy(p) /\ Top(p) = Frame("flush", s)
<1>1. PICK q \in Proc : Busy(q) /\ Top(q) = Frame("flush", s)
  BY DEF Flushing
<1>2. Top(q).op = "flush"
  BY <1>1 DEF Frame
<1>3. q = p
  BY <1>1, <1>2 DEF Cpu, Asleep
<1>. QED  BY <1>1, <1>3

(* The sockets, when p does not flush or free one.                         *)
LEMMA SocketsKept ==
  ASSUME Sockets, NEW p \in Proc, Cpu(p), Kept(p), ~At(p, "flush"), ~At(p, "free"),
         peer' = peer,
         \A s \in Sock : count'[s] = 0 => count[s] = 0,
         FdTypes, FdTypes',
         \A s \in Sock : count[s] = 0 /\ queue[s] = <<>> => queue'[s] = <<>>,
         \A s \in Sock : count'[s] = 0 /\ s \in live' => s \in live
  PROVE  Sockets'
<1>1. ASSUME NEW s \in Sock, peer'[s] # None
      PROVE  count'[peer'[s]] > 0
  <2>1. peer[s] \in Sock /\ count[peer[s]] > 0 /\ count'[peer[s]] \in Nat
    BY <1>1 DEF Sockets, FdTypes, File
  <2>. QED  BY <2>1
<1>2. ASSUME NEW s \in Sock, count'[s] = 0, queue'[s] # <<>>
      PROVE  Flushing(s)'
  <2>1. count[s] = 0 /\ queue[s] # <<>>
    BY <1>2
  <2>2. Flushing(s)
    BY <2>1 DEF Sockets
  <2>3. At(p, "flush")
    BY <2>2, FlushAlone DEF At, Frame
  <2>. QED  BY <2>3
<1>3. ASSUME NEW s \in Sock, count'[s] = 0, s \in live'
      PROVE  Freeing(s)'
  <2>1. Freeing(s)
    BY <1>3 DEF Sockets
  <2>2. PICK q \in Proc : Frame("free", s) \in ToSet(stack[q])
    BY <2>1 DEF Freeing
  <2>3. ~(Busy(p) /\ Frame("free", s) = Top(p))
    BY DEF At, Frame
  <2>4. Frame("free", s) \in ToSet(stack'[q])
    BY <2>2, <2>3 DEF Kept
  <2>. QED  BY <2>4 DEF Freeing
<1>. QED  BY <1>1, <1>2, <1>3 DEF Sockets

(* What is cut off stays so.                                               *)
LEMMA CutKept ==
  ASSUME NEW G, Cut(G), garbage' \subseteq garbage,
         \A f \in G : (\A p \in Proc : fds[p][f] = 0) => \A p \in Proc : fds'[p][f] = 0,
         \A f \in G : f \notin Growing => f \notin Growing',
         \A s \in Sock \ G : Contents(queue'[s]) \cap G \subseteq Contents(queue[s])
  PROVE  Cut(G)'
<1>1. garbage' \subseteq G
  BY DEF Cut
<1>2. \A f \in G : f \notin Growing' /\ \A p \in Proc : fds'[p][f] = 0
  BY DEF Cut
<1>3. \A s \in Sock \ G : Contents(queue'[s]) \cap G = {}
  BY DEF Cut
<1>. QED  BY <1>1, <1>2, <1>3 DEF Cut

(* A queue is still held when its holder does not step.                    *)
LEMMA HeldKept ==
  ASSUME NEW p \in Proc, Cpu(p), Kept(p), ~At(p, "flush"), ~At(p, "sweep"),
         marked' = marked, NEW s, Held(s)
  PROVE  Held(s)'
<1>1. ~Flushing(s)
  BY FlushAlone DEF At, Frame
<1>2. CASE s \in marked
  BY <1>2 DEF Held
<1>3. CASE Sweeping(s)
  <2>1. PICK q \in Proc : \E fr \in ToSet(stack[q]) : fr.op = "sweep" /\ s \in fr.arg
    BY <1>3 DEF Sweeping
  <2>2. PICK fr \in ToSet(stack[q]) : fr.op = "sweep" /\ s \in fr.arg
    BY <2>1
  <2>3. fr \in ToSet(stack'[q])
    BY <2>2 DEF Kept, At
  <2>. QED  BY <2>2, <2>3 DEF Held, Sweeping
<1>. QED  BY <1>1, <1>2, <1>3 DEF Held

(* Most steps.                                                             *)
LEMMA OrdinaryStep ==
  ASSUME FdTypes, FdTypes', Kernel, Sockets, Found,
         NEW p \in Proc, Cpu(p), Kept(p), Others(p), Tidy(stack'[p]),
         Collecting(p)' => Collecting(p),
         ~At(p, "flush"), ~At(p, "free"), ~At(p, "sweep"),
         UNCHANGED <<gcing, marked, garbage, live, peer>>,
         \A s \in Sock : count'[s] = 0 => count[s] = 0,
         \A s \in Sock : count[s] = 0 /\ queue[s] = <<>> => queue'[s] = <<>>,
         \A G \in SUBSET File : Cut(G) =>
           /\ Cut(G)'
           /\ \A s \in Sock : Contents(queue'[s]) \cap G \subseteq Contents(queue[s])
  PROVE  Kernel' /\ Sockets' /\ Found'
<1>1. Kernel'
  BY KernelMoved
<1>2. Sockets'
  BY SocketsKept
<1>3. PICK G \in SUBSET File : Cut(G)
  BY DEF Found
<1>4. /\ garbage \subseteq G /\ Cut(G)'
      /\ \A s \in Sock : Contents(queue'[s]) \cap G \subseteq Contents(queue[s])
  BY <1>3 DEF Cut
<1>5. ASSUME NEW s \in Sock, Contents(queue'[s]) \cap garbage' # {}
      PROVE  Held(s)'
  <2>1. Contents(queue[s]) \cap garbage # {}
    BY <1>4, <1>5
  <2>2. Held(s)
    BY <2>1 DEF Found
  <2>. QED  BY <2>2, HeldKept
<1>6. garbage' \subseteq live' \cap Sock /\ (~gcing' => garbage' = {})
  BY DEF Found
<1>7. Found'
  BY <1>4, <1>5, <1>6 DEF Found
<1>. QED  BY <1>1, <1>2, <1>7

-----------------------------------------------------------------------------
(* Queues and hands.                                                       *)

(* What is in a queue.                                                     *)
LEMMA ContentsAt ==
  ASSUME NEW q, NEW f
  PROVE  f \in Contents(q) <=> \E i \in DOMAIN q : f \in ToSet(q[i])
BY DEF Contents

(* Nothing is in an empty queue.                                           *)
LEMMA ContentsNone == Contents(<<>>) = {}
BY DEF Contents

(* The first message, and the others.                                      *)
LEMMA ContentsHead ==
  ASSUME NEW q \in Seq(Seq(File)), q # <<>>
  PROVE  Contents(Tail(q)) \subseteq Contents(q) /\ ToSet(Head(q)) \subseteq Contents(q)
<1>1. /\ 1 \in DOMAIN q /\ Head(q) = q[1]
      /\ \A i \in DOMAIN Tail(q) : i + 1 \in DOMAIN q /\ Tail(q)[i] = q[i + 1]
  OBVIOUS
<1>2. ToSet(Head(q)) \subseteq Contents(q)
  BY <1>1, ContentsAt
<1> DEFINE t == Tail(q)
<1>3. \A i \in DOMAIN t : i + 1 \in DOMAIN q /\ t[i] = q[i + 1]
  BY <1>1
<1> HIDE DEF t
<1>4. Contents(t) \subseteq Contents(q)
  <2> SUFFICES ASSUME NEW f \in Contents(t)
               PROVE  f \in Contents(q)
    OBVIOUS
  <2>1. PICK i \in DOMAIN t : f \in ToSet(t[i])
    BY ContentsAt
  <2>. QED  BY <2>1, <1>3, ContentsAt
<1>. QED  BY <1>2, <1>4 DEF t

(* A message more.                                                         *)
LEMMA ContentsAppend ==
  ASSUME NEW q \in Seq(Seq(File)), NEW m \in Seq(File)
  PROVE  Contents(Append(q, m)) \subseteq Contents(q) \cup ToSet(m)
<1> DEFINE t == Append(q, m)
<1>1. \A i \in DOMAIN t : t[i] = m \/ (i \in DOMAIN q /\ t[i] = q[i])
  OBVIOUS
<1> HIDE DEF t
<1>2. \A f \in Contents(t) : f \in Contents(q) \cup ToSet(m)
  BY <1>1, ContentsAt
<1>. QED  BY <1>2 DEF t

(* A queue is of files.                                                    *)
LEMMA ContentsType ==
  ASSUME NEW q \in Seq(Seq(File))
  PROVE  Contents(q) \subseteq File
<1>1. \A i \in DOMAIN q : q[i] \in Seq(File)
  OBVIOUS
<1>2. \A i \in DOMAIN q : ToSet(q[i]) \subseteq File
  BY <1>1 DEF ToSet
<1>. QED  BY <1>2, ContentsAt

(* A right of a part of a message is one of the message.                   *)
LEMMA PartOf ==
  ASSUME NEW m \in Seq(File), NEW n \in 1..Len(m)
  PROVE  /\ ToSet(SubSeq(m, 1, n)) \subseteq ToSet(m)
         /\ ToSet(SubSeq(m, n + 1, Len(m))) \subseteq ToSet(m)
<1> DEFINE a == SubSeq(m, 1, n)
           b == SubSeq(m, n + 1, Len(m))
<1>1. a \in Seq(File) /\ b \in Seq(File) /\ m = a \o b
  OBVIOUS
<1> HIDE DEF a, b
<1>2. ToSet(a \o b) = ToSet(a) \cup ToSet(b)
  BY <1>1, SetJoined
<1>. QED  BY <1>1, <1>2 DEF a, b

(* What a receiver takes was in the message.                               *)
LEMMA TakenOf ==
  ASSUME FdTypes, NEW p \in Proc, NEW m \in Seq(File), Taken(p, m),
         NEW f \in File, f \notin ToSet(m), \A q \in Proc : fds[q][f] = 0
  PROVE  \A q \in Proc : fds'[q][f] = 0
<1>1. fds' = [fds EXCEPT ![p] = [g \in File |-> fds[p][g] + Times(g, m)]]
  BY DEF Taken, Internalized
<1>2. fds'[p][f] = fds[p][f] + Times(f, m) /\ \A q \in Proc \ {p} : fds'[q] = fds[q]
  BY <1>1 DEF FdTypes
<1>3. Times(f, m) = 0
  BY TimesIn
<1>. QED  BY <1>2, <1>3

(* The hands of the others.                                                *)
LEMMA GrowingLess ==
  ASSUME NEW p \in Proc, Others(p), ~At(p, "grow")'
  PROVE  Growing' \subseteq Growing
<1> SUFFICES ASSUME NEW f \in Growing'
             PROVE  f \in Growing
  OBVIOUS
<1>1. PICK q \in Proc : f \in ToSet(InGrow'[q])
  BY DEF Growing
<1>2. InGrow'[p] = <<>>
  BY DEF InGrow
<1>3. ToSet(<<>>) = {}
  BY DEF ToSet
<1>4. q # p
  BY <1>1, <1>2, <1>3
<1>5. InGrow'[q] = InGrow[q]
  BY <1>4 DEF Others, InGrow, At, Busy, Top
<1>. QED  BY <1>1, <1>5 DEF Growing

(* The hand of one.                                                        *)
LEMMA GrowingMore ==
  ASSUME NEW p \in Proc, Others(p), NEW f \in Growing', f \notin Growing
  PROVE  At(p, "grow")' /\ f \in ToSet(Top(p).arg)'
<1>1. PICK q \in Proc : f \in ToSet(InGrow'[q])
  BY DEF Growing
<1>2. CASE q # p
  <2>1. InGrow'[q] = InGrow[q]
    BY <1>2 DEF Others, InGrow, At, Busy, Top
  <2>. QED  BY <1>1, <2>1 DEF Growing
<1>3. CASE q = p
  <2>1. ToSet(<<>>) = {}
    BY DEF ToSet
  <2>. QED  BY <1>1, <1>3, <2>1 DEF InGrow
<1>. QED  BY <1>2, <1>3

(* A frame is put on top of what is left.                                  *)
LEMMA TopIs ==
  ASSUME NEW p \in Proc, NEW x \in Frames, NEW r \in Seq(Frames), stack'[p] = <<x>> \o r
  PROVE  Busy(p)' /\ Top(p)' = x
<1> DEFINE s == stack'[p]
<1>1. s = <<x>> \o r
  OBVIOUS
<1> HIDE DEF s
<1>2. s # <<>> /\ Head(s) = x
  BY <1>1, OnTop
<1>. QED  BY <1>2 DEF Busy, Top, s

(* A collection goes on where it was.                                      *)
LEMMA NoneCollects ==
  ASSUME NEW p \in Proc, NEW new, Went(p, new), ~Has(new, Collector), Collecting(p)'
  PROVE  Collecting(p)
BY DEF Collecting, Went, Has

(* The top of the stack is done.                                           *)
LEMMA Done ==
  ASSUME FdTypes, Kernel, NEW p \in Proc, Busy(p), Go(p, <<>>)
  PROVE  /\ Went(p, <<>>) /\ Tidy(stack'[p]) /\ ~At(p, "grow")'
         /\ Collecting(p)' => Collecting(p)
         /\ Top(p).op \in Collector => ~Collecting(p)'
<1> DEFINE none == <<>>
           rest == Tail(stack[p])
<1>1. none \in Seq(Frames) /\ Go(p, none)
  OBVIOUS
<1>2. ~Has(none, Collector) /\ ToSet(none) = {}
  BY DEF Has, ToSet
<1> HIDE DEF none
<1>3. Went(p, none)
  BY <1>1, GoWent
<1>4. Calm(rest) /\ Above(Top(p), rest)
  BY RestCalm
<1>5. stack'[p] = rest /\ rest \in Seq(Frames)
  BY <1>3 DEF Went, none
<1> HIDE DEF rest
<1>6. Tidy(stack'[p])
  BY <1>4, <1>5, CalmTidy
<1>7. ~At(p, "grow")'
  <2> SUFFICES ASSUME stack'[p] # <<>>, Head(stack'[p]).op = "grow"
               PROVE  FALSE
    BY DEF At, Busy, Top
  <2>1. 1 \in DOMAIN rest /\ rest[1].op = "grow"
    BY <1>5
  <2>2. Has(rest, {"closef", "grow"})
    BY <2>1, <1>5, HasAt
  <2>. QED  BY <2>2, <1>4 DEF Calm
<1>8. Collecting(p)' => Collecting(p)
  BY <1>2, <1>3, NoneCollects
<1>9. Top(p).op \in Collector => ~Collecting(p)'
  BY <1>4, <1>5 DEF Above, Collecting
<1>. QED  BY <1>3, <1>6, <1>7, <1>8, <1>9 DEF none

(* Lists are joined in any order.                                          *)
LEMMA JoinedTwice ==
  ASSUME NEW X, NEW a \in Seq(X), NEW b \in Seq(X), NEW c \in Seq(X)
  PROVE  (a \o b) \o c = a \o (b \o c)
OBVIOUS

(* Three frames on others.                                                 *)
LEMMA ThreeOn ==
  ASSUME NEW X, NEW x \in X, NEW y \in X, NEW z \in X, NEW r \in Seq(X)
  PROVE  /\ <<x, y, z>> \o r = <<x>> \o (<<y>> \o (<<z>> \o r))
         /\ <<z>> \o r \in Seq(X) /\ <<y>> \o (<<z>> \o r) \in Seq(X)
<1>1. <<x, y, z>> = <<x>> \o (<<y>> \o <<z>>)
  BY Triple
<1> DEFINE a == <<x>>
           b == <<y>>
           c == <<z>>
<1>2. a \in Seq(X) /\ b \in Seq(X) /\ c \in Seq(X) /\ b \o c \in Seq(X)
      /\ c \o r \in Seq(X) /\ b \o (c \o r) \in Seq(X)
  OBVIOUS
<1> HIDE DEF a, b, c
<1>3. (a \o (b \o c)) \o r = a \o ((b \o c) \o r)
  BY <1>2, JoinedTwice
<1>4. (b \o c) \o r = b \o (c \o r)
  BY <1>2, JoinedTwice
<1>. QED  BY <1>1, <1>2, <1>3, <1>4 DEF a, b, c

Simple == {"slow", "flush", "free", "discard", "spilt", "collect"}

(* What replaces the top of p, when it has nothing to do with a collection. *)
Put(p, new, x) ==
  /\ Went(p, new) /\ Tidy(stack'[p]) /\ Busy(p)' /\ Top(p)' = x
  /\ ~At(p, "grow")'
  /\ Collecting(p)' => Collecting(p)

(* One frame.                                                              *)
LEMMA PutOne ==
  ASSUME FdTypes, Kernel, NEW p \in Proc, Busy(p), NEW x \in Frames,
         x.op \in Simple \cup {"closef"}, Go(p, <<x>>)
  PROVE  Put(p, <<x>>, x)
<1> DEFINE new == <<x>>
           rest == Tail(stack[p])
<1>1. new \in Seq(Frames) /\ Go(p, new) /\ ToSet(new) = {x}
  BY DEF ToSet
<1>2. ~Has(new, Collector) /\ x.op # "grow"
  BY <1>1 DEF Has, Collector, Simple
<1> HIDE DEF new
<1>3. Went(p, new)
  BY <1>1, GoWent
<1>4. Calm(rest) /\ rest \in Seq(Frames) /\ stack'[p] = <<x>> \o rest
  BY <1>3, RestCalm DEF Went, new
<1>5. Above(x, rest)
  BY DEF Above, Collector, Simple
<1> HIDE DEF rest
<1>6. Tidy(stack'[p])
  BY <1>4, <1>5, TidyMore
<1>7. Busy(p)' /\ Top(p)' = x
  BY <1>4, TopIs
<1>8. Collecting(p)' => Collecting(p)
  BY <1>2, <1>3, NoneCollects
<1>9. ~At(p, "grow")'
  BY <1>2, <1>7 DEF At
<1>. QED  BY <1>3, <1>6, <1>7, <1>8, <1>9 DEF Put, new

(* Two frames, of which the second may be the rest of what the collector   *)
(* was at.                                                                 *)
LEMMA PutTwo ==
  ASSUME FdTypes, Kernel, NEW p \in Proc, Busy(p), NEW x \in Frames, NEW y \in Frames,
         x.op \in Simple \cup {"closef"},
         y.op \in Simple \/ (y.op = Top(p).op /\ y.op \in {"sweep", "drop"}),
         Go(p, <<x, y>>)
  PROVE  Put(p, <<x, y>>, x)
<1> DEFINE new == <<x, y>>
           a == <<x>>
           b == <<y>>
           rest == Tail(stack[p])
           r == b \o rest
<1>1. new \in Seq(Frames) /\ Go(p, new) /\ ToSet(new) = {x, y}
  BY DEF ToSet
<1>2. ~Has(new, Collector) /\ x.op # "grow"
  BY <1>1 DEF Has, Collector, Simple
<1>3. Went(p, new)
  <2> HIDE DEF new
  <2>. QED  BY <1>1, GoWent
<1>4. Calm(rest) /\ Above(Top(p), rest) /\ rest \in Seq(Frames)
  BY <1>3, RestCalm DEF Went
<1>5. stack'[p] = <<x>> \o r /\ r \in Seq(Frames)
  <2>1. stack'[p] = new \o rest
    BY <1>3 DEF Went
  <2>2. a \in Seq(Frames) /\ b \in Seq(Frames)
    OBVIOUS
  <2>3. new = a \o b
    BY Pair
  <2>4. rest \in Seq(Frames)
    BY <1>4
  <2> HIDE DEF rest, new, a, b
  <2>5. (a \o b) \o rest = a \o (b \o rest)
    BY <2>2, <2>4, JoinedTwice
  <2>6. b \o rest \in Seq(Frames)
    BY <2>2, <2>4
  <2>7. new \o rest = a \o (b \o rest) /\ b \o rest \in Seq(Frames)
    BY <2>3, <2>5, <2>6
  <2>8. stack'[p] = a \o r /\ r \in Seq(Frames)
    BY <2>1, <2>7
  <2>. QED  BY <2>8, Zenon DEF a
<1>6. Above(y, rest) /\ y.op \notin {"closef", "grow"}
  BY <1>4 DEF Above, Collector, Simple
<1>7. Calm(r)
  <2> HIDE DEF rest
  <2>1. Calm(<<y>> \o rest)
    BY <1>4, <1>6, CalmMore
  <2>. QED  BY <2>1, Zenon DEF r, b
<1> HIDE DEF new, a, b, rest, r
<1>8. Above(x, r)
  BY DEF Above, Collector, Simple
<1>9. Tidy(stack'[p])
  BY <1>5, <1>7, <1>8, TidyMore
<1>10. Busy(p)' /\ Top(p)' = x
  BY <1>5, TopIs
<1>11. Collecting(p)' => Collecting(p)
  BY <1>2, <1>3, NoneCollects
<1>12. ~At(p, "grow")'
  BY <1>2, <1>10 DEF At
<1>. QED  BY <1>3, <1>9, <1>10, <1>11, <1>12 DEF Put, new

(* What the last close of a socket leads to.                               *)
LEMMA PutClosing ==
  ASSUME FdTypes, Kernel, NEW p \in Proc, Busy(p), NEW f \in Sock, Go(p, Closing(f))
  PROVE  /\ Put(p, Closing(f), Frame("flush", f))
         /\ Frame("free", f) \in ToSet(stack'[p])
<1> DEFINE x == Frame("flush", f)
           y == Frame("collect", None)
           w == Frame("free", f)
           rest == Tail(stack[p])
           new == Closing(f)
           u == <<w>> \o rest
           v == <<x>> \o u
           t == <<y>> \o v
<1>1. /\ x \in Frames /\ y \in Frames /\ w \in Frames
      /\ x.op = "flush" /\ y.op = "collect" /\ w.op = "free"
  BY FrameIn DEF Frame
<1>2. new \in Seq(Frames) /\ Go(p, new)
  BY ClosingFits
<1>3. Went(p, new)
  <2> HIDE DEF new
  <2>. QED  BY <1>2, GoWent
<1>4. Calm(rest) /\ rest \in Seq(Frames) /\ stack'[p] = new \o rest
  BY <1>3, RestCalm DEF Went
<1> DEFINE a == <<x, y>>
           b == <<x, w>>
<1>5. a \in Seq(Frames) /\ b \in Seq(Frames) /\ (new = b \/ new = a \o b)
  <2>1. a \in Seq(Frames) /\ b \in Seq(Frames)
    BY <1>1
  <2>2. new = (IF rights > 0 THEN a ELSE <<>>) \o b
    BY DEF Closing
  <2> HIDE DEF a, b, new
  <2>3. <<>> \o b = b
    BY <2>1
  <2>. QED  BY <2>1, <2>2, <2>3
<1>14. ToSet(new) \subseteq {x, y, w} /\ w \in ToSet(new)
  <2>1. ToSet(a) = {x, y} /\ ToSet(b) = {x, w}
    BY DEF ToSet
  <2> HIDE DEF a, b, new, x, y, w
  <2>2. ToSet(a \o b) = ToSet(a) \cup ToSet(b)
    BY <1>5, SetJoined
  <2>. QED  BY <2>1, <2>2, <1>5
<1> HIDE DEF x, y, w, rest, a, b
<1>6. u \in Seq(Frames) /\ v \in Seq(Frames) /\ t \in Seq(Frames)
  <2>1. u \in Seq(Frames)
    BY <1>1, <1>4
  <2> HIDE DEF u
  <2>2. v \in Seq(Frames)
    BY <1>1, <2>1
  <2> HIDE DEF v
  <2>. QED  BY <1>1, <2>1, <2>2
<1>7. Calm(u)
  BY <1>1, <1>4, CalmMore DEF Above, Collector
<1>8. Above(x, u) /\ Above(y, v) /\ Above(x, t)
  BY <1>1 DEF Above, Collector
<1> HIDE DEF u
<1>9. Calm(v)
  BY <1>1, <1>6, <1>7, <1>8, CalmMore
<1> HIDE DEF v
<1>10. Calm(t)
  BY <1>1, <1>6, <1>8, <1>9, CalmMore
<1> HIDE DEF t
<1>11. stack'[p] = v \/ stack'[p] = <<x>> \o t
  <2> HIDE DEF new
  <2>1. (a \o b) \o rest = a \o (b \o rest)
    BY <1>4, <1>5, JoinedTwice
  <2>2. b \o rest = v
    <3> DEFINE h == <<x>>
               k == <<w>>
    <3>1. h \in Seq(Frames) /\ k \in Seq(Frames)
      BY <1>1
    <3>2. b = h \o k
      BY Pair DEF b
    <3>3. rest \in Seq(Frames)
      BY <1>4, <1>6
    <3> HIDE DEF h, k
    <3>4. (h \o k) \o rest = h \o (k \o rest)
      BY <3>1, <3>3, JoinedTwice
    <3>5. b \o rest = h \o (k \o rest)
      BY <3>2, <3>4
    <3>. QED  BY <3>5, Zenon DEF h, k, u, v
  <2>3. a \o v = <<x>> \o t
    <3> DEFINE h == <<x>>
               k == <<y>>
    <3>1. h \in Seq(Frames) /\ k \in Seq(Frames)
      BY <1>1
    <3>2. a = h \o k
      BY Pair DEF a
    <3>3. v \in Seq(Frames)
      BY <1>4, <1>6
    <3> HIDE DEF h, k
    <3>4. (h \o k) \o v = h \o (k \o v)
      BY <3>1, <3>3, JoinedTwice
    <3>5. a \o v = h \o (k \o v)
      BY <3>2, <3>4
    <3>. QED  BY <3>5, Zenon DEF h, k, t
  <2>. QED  BY <2>1, <2>2, <2>3, <1>4, <1>5
<1>12. Tidy(stack'[p])
  <2>1. Tidy(v)
    BY <1>6, <1>9, CalmTidy
  <2>2. Tidy(<<x>> \o t)
    BY <1>1, <1>6, <1>8, <1>10, TidyMore
  <2>. QED  BY <2>1, <2>2, <1>11
<1>13. Busy(p)' /\ Top(p)' = x
  <2>1. \E r \in Seq(Frames) : stack'[p] = <<x>> \o r
    BY <1>6, <1>11 DEF v
  <2>. QED  BY <2>1, <1>1, TopIs
<1>15. ~Has(new, Collector)
  BY <1>1, <1>14 DEF Has, Collector
<1> HIDE DEF new
<1>16. Collecting(p)' => Collecting(p)
  BY <1>3, <1>15, NoneCollects
<1>17. ~At(p, "grow")'
  BY <1>1, <1>13 DEF At
<1>18. w \in ToSet(stack'[p])
  BY <1>3, <1>14 DEF Went
<1>19. Put(p, new, x) /\ w \in ToSet(stack'[p])
  BY <1>3, <1>12, <1>13, <1>16, <1>17, <1>18 DEF Put
<1>. QED  BY <1>19 DEF new, x, w

(* What a process enters the kernel with.                                  *)
Begun(p, x) ==
  /\ Others(p) /\ Kept(p) /\ Tidy(stack'[p]) /\ Busy(p)' /\ Top(p)' = x
  /\ ~Collecting(p)'

(* One frame.                                                              *)
LEMMA EnterOne ==
  ASSUME FdTypes, NEW p \in Proc, ~Busy(p), NEW x \in Frames,
         x.op \in Simple \cup {"closef", "grow"}, Enter(p, <<x>>)
  PROVE  Begun(p, x)
<1> DEFINE new == <<x>>
           none == <<>>
<1>1. new \in Seq(Frames) /\ Enter(p, new) /\ ToSet(new) = {x} /\ none \in Seq(Frames)
      /\ new = <<x>> \o none
  BY DEF ToSet
<1>2. ~Has(new, Collector)
  BY <1>1 DEF Has, Collector, Simple
<1>3. Calm(none)
  BY CalmNone
<1>4. Above(x, none)
  BY DEF Above, Collector, Simple
<1> HIDE DEF new, none
<1>5. stack'[p] = new /\ Others(p) /\ Kept(p)
  BY <1>1, EnterWent
<1>6. Tidy(stack'[p])
  BY <1>1, <1>3, <1>4, <1>5, TidyMore
<1>7. Busy(p)' /\ Top(p)' = x
  BY <1>1, <1>5, TopIs
<1>. QED  BY <1>2, <1>5, <1>6, <1>7 DEF Begun, Collecting

(* Two frames.                                                             *)
LEMMA EnterTwo ==
  ASSUME FdTypes, NEW p \in Proc, ~Busy(p), NEW x \in Frames, NEW y \in Frames,
         x.op \in Simple, y.op \in Simple, Enter(p, <<x, y>>)
  PROVE  Begun(p, x)
<1> DEFINE new == <<x, y>>
           none == <<>>
           r == <<y>>
<1>1. /\ new \in Seq(Frames) /\ Enter(p, new) /\ ToSet(new) = {x, y}
      /\ none \in Seq(Frames) /\ r \in Seq(Frames) /\ r = <<y>> \o none
  BY DEF ToSet
<1>2. new = <<x>> \o r
  BY Pair
<1>3. ~Has(new, Collector)
  BY <1>1 DEF Has, Collector, Simple
<1>4. Calm(none)
  BY CalmNone
<1>5. Above(y, none) /\ y.op \notin {"closef", "grow"}
  BY DEF Above, Collector, Simple
<1> HIDE DEF new, none, r
<1>6. Calm(r)
  BY <1>1, <1>4, <1>5, CalmMore
<1>7. Above(x, r)
  BY DEF Above, Collector, Simple
<1>8. stack'[p] = new /\ Others(p) /\ Kept(p)
  BY <1>1, EnterWent
<1>9. Tidy(stack'[p])
  BY <1>1, <1>2, <1>6, <1>7, <1>8, TidyMore
<1>10. Busy(p)' /\ Top(p)' = x
  BY <1>1, <1>2, <1>8, TopIs
<1>. QED  BY <1>3, <1>8, <1>9, <1>10 DEF Begun, Collecting

-----------------------------------------------------------------------------
(* The steps that neither flush nor free a socket, nor are of a collection *)
(* that begins or ends.                                                    *)

(* What there is to keep as long as nothing is hurt.                       *)
Orderly == Kernel /\ Sockets /\ Found

(* A system call that leaves the stacks alone.                             *)
LEMMA IdleStep ==
  ASSUME FdTypes, FdTypes', Orderly, NEW p \in Proc, Idle(p),
         UNCHANGED <<stack, gcing, marked, garbage, live, peer>>,
         \A s \in Sock : count'[s] = 0 => count[s] = 0,
         \A s \in Sock : count[s] = 0 /\ queue[s] = <<>> => queue'[s] = <<>>,
         \A G \in SUBSET File : Cut(G) =>
           /\ Cut(G)'
           /\ \A s \in Sock : Contents(queue'[s]) \cap G \subseteq Contents(queue[s])
  PROVE  Orderly'
<1>1. Cpu(p) /\ ~At(p, "flush") /\ ~At(p, "free") /\ ~At(p, "sweep")
  BY DEF Idle, At
<1>2. Others(p) /\ Kept(p)
  BY SameWent
<1>3. Kernel /\ Sockets /\ Found
  BY DEF Orderly
<1>4. Tidy(stack'[p])
  BY <1>3 DEF Kernel
<1>5. Collecting(p)' => Collecting(p)
  BY DEF Collecting
<1>6. Kernel' /\ Sockets' /\ Found'
  BY <1>1, <1>2, <1>3, <1>4, <1>5, OrdinaryStep
<1>. QED  BY <1>6 DEF Orderly

(* Nothing changes in anybody's hand.                                      *)
LEMMA GrowingSame ==
  ASSUME UNCHANGED stack
  PROVE  Growing' = Growing
BY DEF Growing, InGrow, At, Busy, Top

(* fdcopy().                                                               *)
LEMMA ForkOrderly ==
  ASSUME FdTypes, FdTypes', Orderly, NEW p \in Proc, NEW q \in Proc \ {p}, Fork(p, q)
  PROVE  Orderly'
<1>1. /\ Idle(p) /\ UNCHANGED <<stack, gcing, marked, garbage, live, peer, queue>>
      /\ count' = [f \in File |-> count[f] + fds[p][f]]
      /\ fds' = [fds EXCEPT ![q] = fds[p]]
  BY DEF Fork
<1>2. \A s \in Sock : count'[s] = 0 => count[s] = 0
  <2> SUFFICES ASSUME NEW s \in Sock, count'[s] = 0
               PROVE  count[s] = 0
    OBVIOUS
  <2>1. count[s] \in Nat /\ fds[p][s] \in Nat /\ count'[s] = count[s] + fds[p][s]
    BY <1>1 DEF FdTypes, File
  <2>. QED  BY <2>1
<1>3. \A f \in File : (\A r \in Proc : fds[r][f] = 0) => \A r \in Proc : fds'[r][f] = 0
  <2>1. \A r \in Proc : fds'[r] = fds[r] \/ fds'[r] = fds[p]
    BY <1>1 DEF FdTypes
  <2>. QED  BY <2>1
<1>4. Growing' = Growing
  BY <1>1, GrowingSame
<1>5. ASSUME NEW G \in SUBSET File, Cut(G)
      PROVE  /\ Cut(G)'
             /\ \A s \in Sock : Contents(queue'[s]) \cap G \subseteq Contents(queue[s])
  <2>1. \A f \in G : (\A r \in Proc : fds[r][f] = 0) => \A r \in Proc : fds'[r][f] = 0
    BY <1>3
  <2>2. \A f \in G : f \notin Growing => f \notin Growing'
    BY <1>4
  <2>3. \A s \in Sock : Contents(queue'[s]) \cap G \subseteq Contents(queue[s])
    BY <1>1
  <2>4. garbage' \subseteq garbage
    BY <1>1
  <2>. QED  BY <1>5, <2>1, <2>2, <2>3, <2>4, CutKept
<1>. QED  BY <1>1, <1>2, <1>5, IdleStep

(* sendmsg(): what is cut off cannot be sent.                              *)
LEMMA SendOrderly ==
  ASSUME FdTypes, FdTypes', Orderly, NEW p \in Proc, NEW s \in Sock,
         NEW m \in Seq(File), Send(p, s, m)
  PROVE  Orderly'
<1>1. /\ Idle(p) /\ UNCHANGED <<stack, gcing, marked, garbage, live, peer, fds>>
      /\ \A f \in ToSet(m) : fds[p][f] > 0
      /\ count' = [f \in File |-> count[f] + Times(f, m)]
  BY DEF Send, Internalized
<1>2. \A t \in Sock : count'[t] = 0 => count[t] = 0
  <2> SUFFICES ASSUME NEW t \in Sock, count'[t] = 0
               PROVE  count[t] = 0
    OBVIOUS
  <2>1. count[t] \in Nat /\ Times(t, m) \in Nat /\ count'[t] = count[t] + Times(t, m)
    BY <1>1, TimesType DEF FdTypes, File
  <2>. QED  BY <2>1
<1>3. \A t \in Sock : queue'[t] = queue[t]
                      \/ (peer[s] = t /\ queue'[t] = Append(queue[t], m))
  <2>1. CASE peer[s] # None /\ Len(queue[peer[s]]) < MaxQueue
    BY <2>1 DEF Send, FdTypes
  <2>2. CASE ~(peer[s] # None /\ Len(queue[peer[s]]) < MaxQueue)
    BY <2>2 DEF Send
  <2>. QED  BY <2>1, <2>2
<1>4. \A t \in Sock : count[t] = 0 /\ queue[t] = <<>> => queue'[t] = <<>>
  <2> SUFFICES ASSUME NEW t \in Sock, count[t] = 0, queue[t] = <<>>, queue'[t] # queue[t]
               PROVE  FALSE
    OBVIOUS
  <2>1. peer[s] = t
    BY <1>3
  <2>2. t # None
    BY FdAssumption DEF File
  <2>. QED  BY <2>1, <2>2 DEF Orderly, Sockets
<1>5. Growing' = Growing
  BY <1>1, GrowingSame
<1>6. ASSUME NEW G \in SUBSET File, Cut(G)
      PROVE  /\ Cut(G)'
             /\ \A t \in Sock : Contents(queue'[t]) \cap G \subseteq Contents(queue[t])
  <2>1. ToSet(m) \cap G = {}
    <3> SUFFICES ASSUME NEW f \in ToSet(m), f \in G
                 PROVE  FALSE
      OBVIOUS
    <3>1. fds[p][f] > 0 /\ fds[p][f] = 0
      BY <1>1, <1>6 DEF Cut
    <3>. QED  BY <3>1
  <2>2. ASSUME NEW t \in Sock
        PROVE  Contents(queue'[t]) \cap G \subseteq Contents(queue[t])
    <3>1. queue[t] \in Seq(Seq(File))
      BY DEF FdTypes
    <3>2. Contents(Append(queue[t], m)) \subseteq Contents(queue[t]) \cup ToSet(m)
      BY <3>1, ContentsAppend
    <3>. QED  BY <2>1, <3>2, <1>3
  <2>3. \A f \in G : (\A r \in Proc : fds[r][f] = 0) => \A r \in Proc : fds'[r][f] = 0
    BY <1>1
  <2>4. \A f \in G : f \notin Growing => f \notin Growing'
    BY <1>5
  <2>5. garbage' \subseteq garbage
    BY <1>1
  <2>. QED  BY <1>6, <2>2, <2>3, <2>4, <2>5, CutKept
<1>. QED  BY <1>1, <1>2, <1>4, <1>6, IdleStep

(* close().                                                                *)
LEMMA CloseOrderly ==
  ASSUME FdTypes, FdTypes', Orderly, NEW p \in Proc, NEW a \in File, Close(p, a)
  PROVE  Orderly'
<1> DEFINE x == Frame("closef", a)
<1>1. /\ Cpu(p) /\ ~Busy(p) /\ Enter(p, <<x>>)
      /\ UNCHANGED <<live, count, peer, queue, gcing, marked, garbage>>
      /\ fds[p][a] > 0 /\ fds' = [fds EXCEPT ![p][a] = @ - 1]
  BY DEF Close, Idle
<1>2. x \in Frames /\ x.op = "closef"
  BY FrameIn DEF Frame
<1> HIDE DEF x
<1>3. Begun(p, x)
  BY <1>1, <1>2, EnterOne
<1>4. /\ Others(p) /\ Kept(p) /\ Tidy(stack'[p]) /\ (Collecting(p)' => Collecting(p))
      /\ ~At(p, "grow")'
  BY <1>2, <1>3 DEF Begun, At
<1>5. ~At(p, "flush") /\ ~At(p, "free") /\ ~At(p, "sweep")
  BY <1>1 DEF At
<1>6. \A r \in Proc, f \in File : fds[r][f] = 0 => fds'[r][f] = 0
  BY <1>1 DEF FdTypes
<1>7. Growing' \subseteq Growing
  BY <1>4, GrowingLess
<1>8. ASSUME NEW G \in SUBSET File, Cut(G)
      PROVE  /\ Cut(G)'
             /\ \A s \in Sock : Contents(queue'[s]) \cap G \subseteq Contents(queue[s])
  <2>1. \A f \in G : (\A r \in Proc : fds[r][f] = 0) => \A r \in Proc : fds'[r][f] = 0
    BY <1>6
  <2>2. \A f \in G : f \notin Growing => f \notin Growing'
    BY <1>7
  <2>3. \A s \in Sock : Contents(queue'[s]) \cap G \subseteq Contents(queue[s])
    BY <1>1
  <2>4. garbage' \subseteq garbage
    BY <1>1
  <2>. QED  BY <1>8, <2>1, <2>2, <2>3, <2>4, CutKept
<1>9. Kernel /\ Sockets /\ Found
  BY DEF Orderly
<1>10. Kernel' /\ Sockets' /\ Found'
  BY <1>1, <1>4, <1>5, <1>8, <1>9, OrdinaryStep
<1>. QED  BY <1>10 DEF Orderly

(* A step that only changes a stack and counts.                            *)
LEMMA BusyStep ==
  ASSUME FdTypes, FdTypes', Orderly, NEW p \in Proc, Cpu(p), Kept(p), Others(p),
         Tidy(stack'[p]), ~At(p, "grow")', Collecting(p)' => Collecting(p),
         ~At(p, "flush"), ~At(p, "free"), ~At(p, "sweep"),
         UNCHANGED <<gcing, marked, garbage, live, peer, queue, fds>>,
         \A s \in Sock : count'[s] = 0 => count[s] = 0
  PROVE  Orderly'
<1>1. Growing' \subseteq Growing
  BY GrowingLess
<1>2. ASSUME NEW G \in SUBSET File, Cut(G)
      PROVE  /\ Cut(G)'
             /\ \A s \in Sock : Contents(queue'[s]) \cap G \subseteq Contents(queue[s])
  <2>1. \A f \in G : f \notin Growing => f \notin Growing'
    BY <1>1
  <2>. QED  BY <1>2, <2>1, CutKept
<1>3. Kernel /\ Sockets /\ Found
  BY DEF Orderly
<1>4. Kernel' /\ Sockets' /\ Found'
  BY <1>2, <1>3, OrdinaryStep
<1>. QED  BY <1>4 DEF Orderly

(* The message that was taken apart is taken off.                          *)
LEMMA SpiltOrderly ==
  ASSUME FdTypes, FdTypes', Orderly, NEW p \in Proc, Spilt(p)
  PROVE  Orderly'
<1>1. /\ Cpu(p) /\ Busy(p) /\ Top(p).op = "spilt" /\ Go(p, <<>>)
      /\ UNCHANGED <<gcing, marked, garbage, live, peer, queue, fds, count>>
  BY DEF Spilt, At
<1>2. /\ Went(p, <<>>) /\ Tidy(stack'[p]) /\ ~At(p, "grow")'
      /\ Collecting(p)' => Collecting(p)
  BY <1>1, Done DEF Orderly
<1>3. ~At(p, "flush") /\ ~At(p, "free") /\ ~At(p, "sweep")
  BY <1>1 DEF At
<1>. QED  BY <1>1, <1>2, <1>3, BusyStep DEF Went

(* unp_discard().                                                          *)
LEMMA DiscardOrderly ==
  ASSUME FdTypes, FdTypes', Orderly, NEW p \in Proc, Discard(p)
  PROVE  Orderly'
<1> DEFINE m == Top(p).arg
           x == Frame("closef", Head(m))
           y == Frame("discard", Tail(m))
<1>1. /\ Cpu(p) /\ Busy(p) /\ Top(p).op = "discard"
      /\ UNCHANGED <<gcing, marked, garbage, live, peer, queue, fds, count>>
  BY DEF Discard, At
<1>2. ~At(p, "flush") /\ ~At(p, "free") /\ ~At(p, "sweep")
  BY <1>1 DEF At
<1>3. CASE m = <<>>
  <2>1. Go(p, <<>>)
    BY <1>3 DEF Discard
  <2>2. /\ Went(p, <<>>) /\ Tidy(stack'[p]) /\ ~At(p, "grow")'
        /\ Collecting(p)' => Collecting(p)
    BY <1>1, <2>1, Done DEF Orderly
  <2>. QED  BY <1>1, <1>2, <2>2, BusyStep DEF Went
<1>4. CASE m # <<>>
  <2>1. Go(p, <<x, y>>)
    BY <1>4 DEF Discard
  <2>2. Top(p) \in Frames
    BY <1>1 DEF FdTypes, Busy, Top
  <2>3. m \in Seq(File)
    BY <1>1, <2>2, FrameOps
  <2>4. x \in Frames /\ y \in Frames /\ x.op = "closef" /\ y.op = "discard"
    <3> HIDE DEF m
    <3>1. Head(m) \in File /\ Tail(m) \in Seq(File)
      BY <1>4, <2>3
    <3>. QED  BY <3>1, FrameIn DEF Frame
  <2> HIDE DEF m, x, y
  <2>5. Put(p, <<x, y>>, x)
    BY <1>1, <2>1, <2>4, PutTwo DEF Orderly, Simple
  <2>. QED  BY <1>1, <1>2, <2>5, BusyStep DEF Put, Went
<1>. QED  BY <1>3, <1>4

(* The receiver has its descriptors.                                       *)
LEMMA GrownOrderly ==
  ASSUME FdTypes, FdTypes', Orderly, NEW p \in Proc, Grown(p)
  PROVE  Orderly'
<1> DEFINE m == Top(p).arg
<1>1. /\ Cpu(p) /\ Busy(p) /\ Top(p).op = "grow" /\ Go(p, <<>>) /\ Taken(p, m)
      /\ UNCHANGED <<gcing, marked, garbage, live, peer, queue, count>>
  BY DEF Grown, At
<1>2. ~At(p, "flush") /\ ~At(p, "free") /\ ~At(p, "sweep")
  BY <1>1 DEF At
<1>3. /\ Went(p, <<>>) /\ Tidy(stack'[p]) /\ ~At(p, "grow")'
      /\ Collecting(p)' => Collecting(p)
  BY <1>1, Done DEF Orderly
<1>4. Others(p) /\ Kept(p)
  BY <1>3 DEF Went
<1>5. m \in Seq(File)
  BY <1>1, <1>3, FrameOps DEF Went
<1>6. ToSet(m) \subseteq Growing
  BY <1>1 DEF Growing, InGrow, At
<1>7. Growing' \subseteq Growing
  BY <1>3, <1>4, GrowingLess
<1> HIDE DEF m
<1>8. ASSUME NEW G \in SUBSET File, Cut(G)
      PROVE  /\ Cut(G)'
             /\ \A s \in Sock : Contents(queue'[s]) \cap G \subseteq Contents(queue[s])
  <2>1. \A f \in G : f \notin Growing /\ f \in File
    BY <1>8 DEF Cut
  <2>2. \A f \in G : (\A r \in Proc : fds[r][f] = 0) => \A r \in Proc : fds'[r][f] = 0
    BY <1>1, <1>5, <1>6, <2>1, TakenOf
  <2>3. \A f \in G : f \notin Growing => f \notin Growing'
    BY <1>7
  <2>4. \A s \in Sock : Contents(queue'[s]) \cap G \subseteq Contents(queue[s])
    BY <1>1
  <2>5. garbage' \subseteq garbage
    BY <1>1
  <2>. QED  BY <1>8, <2>2, <2>3, <2>4, <2>5, CutKept
<1>9. Kernel /\ Sockets /\ Found
  BY DEF Orderly
<1>10. Kernel' /\ Sockets' /\ Found'
  BY <1>1, <1>2, <1>3, <1>4, <1>8, <1>9, OrdinaryStep
<1>. QED  BY <1>10 DEF Orderly

(* recvmsg(): what is cut off is in no queue that somebody reads.          *)
LEMMA ReceiveOrderly ==
  ASSUME FdTypes, FdTypes', Orderly, NEW p \in Proc, NEW s \in Sock, Receive(p, s)
  PROVE  Orderly'
<1> DEFINE m == Head(queue[s])
           low == Fds(p) + Len(m) > MaxFds
           x == Frame("discard", m)
           y == Frame("spilt", None)
<1>1. /\ Cpu(p) /\ ~Busy(p) /\ fds[p][s] > 0 /\ queue[s] # <<>>
      /\ queue' = [queue EXCEPT ![s] = Tail(@)]
      /\ UNCHANGED <<live, count, peer, gcing, marked, garbage>>
      /\ low => Enter(p, <<x, y>>) /\ UNCHANGED fds
      /\ ~low => \E n \in 1..Len(m) :
                   /\ Taken(p, SubSeq(m, 1, n))
                   /\ IF n = Len(m) THEN UNCHANGED stack
                      ELSE Enter(p, <<Frame("grow", SubSeq(m, n + 1, Len(m)))>>)
  BY DEF Receive, Idle
<1>2. ~At(p, "flush") /\ ~At(p, "free") /\ ~At(p, "sweep")
  BY <1>1 DEF At
<1>3. queue[s] \in Seq(Seq(File)) /\ m \in Seq(File)
  <2>1. queue[s] \in Seq(Seq(File))
    BY DEF FdTypes
  <2> DEFINE T == Seq(File)
             q == queue[s]
  <2>2. q \in Seq(T) /\ q # <<>>
    BY <1>1, <2>1
  <2> HIDE DEF T, q
  <2>3. Head(q) \in T
    BY <2>2
  <2>. QED  BY <2>1, <2>3 DEF T, q
<1>4. /\ Contents(queue'[s]) \subseteq Contents(queue[s])
      /\ ToSet(m) \subseteq Contents(queue[s])
      /\ \A t \in Sock \ {s} : queue'[t] = queue[t]
  <2>1. queue'[s] = Tail(queue[s]) /\ \A t \in Sock \ {s} : queue'[t] = queue[t]
    BY <1>1 DEF FdTypes
  <2>. QED  BY <1>1, <1>3, <2>1, ContentsHead
<1>5. \A t \in Sock : count[t] = 0 /\ queue[t] = <<>> => queue'[t] = <<>>
  BY <1>1, <1>4
<1>6. Kernel /\ Sockets /\ Found
  BY DEF Orderly
<1>7. ASSUME NEW G \in SUBSET File, Cut(G)
      PROVE  /\ ToSet(m) \cap G = {}
             /\ \A t \in Sock : Contents(queue'[t]) \cap G \subseteq Contents(queue[t])
  <2>1. s \notin G
    BY <1>1, <1>7 DEF Cut
  <2>2. Contents(queue[s]) \cap G = {}
    BY <1>7, <2>1 DEF Cut
  <2>. QED  BY <1>4, <2>2
<1> HIDE DEF m, low
<1>8. CASE low
  <2>1. x \in Frames /\ y \in Frames /\ x.op = "discard" /\ y.op = "spilt"
    BY <1>3, FrameIn DEF Frame
  <2> HIDE DEF x, y
  <2>2. Begun(p, x)
    BY <1>1, <1>8, <2>1, EnterTwo DEF Simple
  <2>3. /\ Others(p) /\ Kept(p) /\ Tidy(stack'[p]) /\ (Collecting(p)' => Collecting(p))
        /\ ~At(p, "grow")'
    BY <2>1, <2>2 DEF Begun, At
  <2>4. Growing' \subseteq Growing
    BY <2>3, GrowingLess
  <2>5. ASSUME NEW G \in SUBSET File, Cut(G)
        PROVE  /\ Cut(G)'
               /\ \A t \in Sock : Contents(queue'[t]) \cap G \subseteq Contents(queue[t])
    <3>1. \A f \in G : f \notin Growing => f \notin Growing'
      BY <2>4
    <3>2. \A f \in G : (\A r \in Proc : fds[r][f] = 0) => \A r \in Proc : fds'[r][f] = 0
      BY <1>1, <1>8
    <3>3. \A t \in Sock : Contents(queue'[t]) \cap G \subseteq Contents(queue[t])
      BY <2>5, <1>7
    <3>4. garbage' \subseteq garbage
      BY <1>1
    <3>. QED  BY <2>5, <3>1, <3>2, <3>3, <3>4, CutKept
  <2>6. Kernel' /\ Sockets' /\ Found'
    BY <1>1, <1>2, <1>5, <1>6, <2>3, <2>5, OrdinaryStep
  <2>. QED  BY <2>6 DEF Orderly
<1>9. CASE ~low
  <2>1. PICK n \in 1..Len(m) :
          /\ Taken(p, SubSeq(m, 1, n))
          /\ IF n = Len(m) THEN UNCHANGED stack
             ELSE Enter(p, <<Frame("grow", SubSeq(m, n + 1, Len(m)))>>)
    BY <1>1, <1>9
  <2> DEFINE a == SubSeq(m, 1, n)
             b == SubSeq(m, n + 1, Len(m))
             z == Frame("grow", b)
  <2>2. /\ a \in Seq(File) /\ b \in Seq(File)
        /\ ToSet(a) \subseteq ToSet(m) /\ ToSet(b) \subseteq ToSet(m)
    BY <1>3, PartOf
  <2>3. Taken(p, a) /\ (n = Len(m) => UNCHANGED stack) /\ (n # Len(m) => Enter(p, <<z>>))
    BY <2>1
  <2>4. z \in Frames /\ z.op = "grow" /\ z.arg = b
    BY <2>2, FrameIn DEF Frame
  <2> HIDE DEF a, b, z
  <2>5. /\ Others(p) /\ Kept(p) /\ Tidy(stack'[p]) /\ (Collecting(p)' => Collecting(p))
        /\ At(p, "grow")' => ToSet(Top(p).arg)' \subseteq ToSet(m)
    <3>1. CASE n = Len(m)
      <4>1. stack' = stack
        BY <2>3, <3>1
      <4>2. Others(p) /\ Kept(p)
        BY <4>1, SameWent
      <4>3. Tidy(stack'[p]) /\ (Collecting(p)' => Collecting(p))
        BY <4>1, <1>6 DEF Kernel, Collecting
      <4>4. ~At(p, "grow")'
        BY <4>1, <1>1 DEF At, Busy
      <4>. QED  BY <4>2, <4>3, <4>4
    <3>2. CASE n # Len(m)
      <4>1. Begun(p, z)
        BY <1>1, <2>3, <2>4, <3>2, EnterOne
      <4>2. Top(p)' = z
        BY <4>1 DEF Begun
      <4>3. ToSet(Top(p).arg)' = ToSet(b)
        BY <4>2, <2>4
      <4>. QED  BY <4>1, <4>3, <2>2 DEF Begun
    <3>. QED  BY <3>1, <3>2
  <2>6. ASSUME NEW G \in SUBSET File, Cut(G)
        PROVE  /\ Cut(G)'
               /\ \A t \in Sock : Contents(queue'[t]) \cap G \subseteq Contents(queue[t])
    <3>1. ASSUME NEW f \in G, f \notin Growing, f \in Growing'
          PROVE  FALSE
      <4>1. At(p, "grow")' /\ f \in ToSet(Top(p).arg)'
        BY <2>5, <3>1, GrowingMore
      <4>. QED  BY <4>1, <2>5, <1>7, <2>6
    <3>2. ASSUME NEW f \in G, \A r \in Proc : fds[r][f] = 0
          PROVE  \A r \in Proc : fds'[r][f] = 0
      <4>1. f \in File /\ f \notin ToSet(a)
        BY <2>2, <2>6, <1>7
      <4>. QED  BY <4>1, <3>2, <2>2, <2>3, TakenOf
    <3>3. \A t \in Sock : Contents(queue'[t]) \cap G \subseteq Contents(queue[t])
      BY <2>6, <1>7
    <3>4. garbage' \subseteq garbage
      BY <1>1
    <3>. QED  BY <2>6, <3>1, <3>2, <3>3, <3>4, CutKept
  <2>7. Kernel' /\ Sockets' /\ Found'
    BY <1>1, <1>2, <1>5, <1>6, <2>5, <2>6, OrdinaryStep
  <2>. QED  BY <2>7 DEF Orderly
<1>. QED  BY <1>8, <1>9

-----------------------------------------------------------------------------
(* closef(), and the collector.                                            *)

(* What was found is still there, or gone.                                 *)
LEMMA FoundKept ==
  ASSUME Found, garbage' \subseteq garbage, garbage' \subseteq live', gcing' = gcing,
         \E G \in SUBSET File : Cut(G)',
         \A s \in Sock : Contents(queue'[s]) \cap garbage' \subseteq Contents(queue[s]),
         \A s \in Sock : Held(s) /\ Contents(queue'[s]) \cap garbage' # {} => Held(s)'
  PROVE  Found'
<1>1. garbage' \subseteq live' \cap Sock /\ (~gcing' => garbage' = {})
  BY DEF Found
<1>2. ASSUME NEW s \in Sock, Contents(queue'[s]) \cap garbage' # {}
      PROVE  Held(s)'
  <2>1. Contents(queue[s]) \cap garbage # {}
    BY <1>2
  <2>. QED  BY <1>2, <2>1 DEF Found
<1>. QED  BY <1>1, <1>2 DEF Found

(* closef().                                                               *)
LEMMA ClosefOrderly ==
  ASSUME FdInv, FdTypes', Orderly, NEW p \in Proc, Closef(p)
  PROVE  Orderly'
<1> DEFINE f == Top(p).arg
           last == count[f] <= 1
           x == Frame("flush", f)
           w == Frame("free", f)
           y == Frame("slow", f)
           none == <<>>
<1>1. /\ Cpu(p) /\ Busy(p) /\ Top(p).op = "closef" /\ FdTypes
      /\ UNCHANGED <<live, queue, gcing, marked, garbage, fds>>
      /\ count' = [count EXCEPT ![f] = @ - 1]
      /\ peer' = IF last /\ f \in Sock
                 THEN [s \in Sock |-> IF s = f \/ peer[s] = f THEN None
                                      ELSE peer[s]]
                 ELSE peer
  BY DEF Closef, At, FdInv
<1>2. /\ ~last => Go(p, none)
      /\ last /\ f \in Sock => Go(p, Closing(f))
      /\ last /\ f \in Plain => Go(p, <<y>>)
  <2>1. Sock \cap Plain = {}
    BY FdAssumption
  <2>. QED  BY <2>1 DEF Closef
<1>3. f \in File /\ count[f] \in Nat /\ count[f] > 0
  <2>1. Top(p) \in Frames
    BY <1>1, TopLive
  <2>2. f \in File
    BY <1>1, <2>1, FrameOps
  <2>3. count[f] > 0
    BY <1>1, <2>2, TopLive DEF Closes
  <2>. QED  BY <2>2, <2>3, <1>1 DEF FdTypes
<1>4. ~At(p, "flush") /\ ~At(p, "free") /\ ~At(p, "sweep")
  BY <1>1 DEF At
<1>5. /\ count'[f] = count[f] - 1
      /\ \A s \in Sock \ {f} : count'[s] = count[s]
  BY <1>1, <1>3 DEF FdTypes, File
<1>6. Kernel /\ Sockets /\ Found
  BY DEF Orderly
<1>7. f \in Sock \/ f \in Plain
  BY <1>3 DEF File
<1>8. y \in Frames /\ y.op = "slow" /\ (f \in Sock => x.op = "flush")
  BY <1>3, FrameIn DEF Frame
<1>9. CASE ~last
  <2>1. /\ Went(p, none) /\ Tidy(stack'[p]) /\ ~At(p, "grow")'
        /\ Collecting(p)' => Collecting(p)
    BY <1>1, <1>2, <1>6, <1>9, Done
  <2>2. \A s \in Sock : count'[s] = 0 => count[s] = 0
    BY <1>3, <1>5, <1>9
  <2>3. peer' = peer
    BY <1>1, <1>9
  <2> HIDE DEF f, last
  <2>. QED  BY <1>1, <1>4, <2>1, <2>2, <2>3, BusyStep DEF Went
<1>10. CASE last /\ f \in Plain
  <2>1. f \notin Sock
    BY <1>10, FdAssumption
  <2>2. peer' = peer
    BY <1>1, <2>1
  <2>3. Go(p, <<y>>)
    BY <1>2, <1>10
  <2> HIDE DEF y
  <2>4. Put(p, <<y>>, y)
    BY <1>1, <1>6, <1>8, <2>3, PutOne DEF Simple
  <2>5. \A s \in Sock : count'[s] = 0 => count[s] = 0
    BY <1>5, <2>1
  <2> HIDE DEF f, last
  <2>. QED  BY <1>1, <1>4, <2>2, <2>4, <2>5, BusyStep DEF Put, Went
<1>11. CASE last /\ f \in Sock
  <2>1. Put(p, Closing(f), x) /\ w \in ToSet(stack'[p])
    BY <1>1, <1>2, <1>6, <1>11, PutClosing
  <2>2. count'[f] = 0 /\ f \in Sock
        /\ \A s \in Sock : peer'[s] = IF s = f \/ peer[s] = f THEN None ELSE peer[s]
    BY <1>1, <1>3, <1>5, <1>11
  <2>10. f # None /\ \A s \in Sock : peer[s] \in Sock \cup {None}
    BY <1>1, <1>3, FdAssumption DEF FdTypes
  <2> HIDE DEF last
  <2>3. Others(p) /\ Kept(p) /\ Tidy(stack'[p]) /\ (Collecting(p)' => Collecting(p))
        /\ ~At(p, "grow")' /\ Busy(p)' /\ Top(p)' = x
    BY <2>1 DEF Put, Went
  <2>4. Kernel'
    BY <1>1, <1>6, <2>3, KernelMoved
  <2>5. Sockets'
    <3>1. ASSUME NEW s \in Sock, peer'[s] # None
          PROVE  count'[peer'[s]] > 0
      <4>1. peer'[s] = peer[s] /\ peer[s] # f /\ peer[s] \in Sock
        BY <2>2, <2>10, <3>1
      <4>2. count[peer[s]] > 0
        BY <1>6, <3>1, <4>1 DEF Sockets
      <4>. QED  BY <4>1, <4>2, <1>5
    <3>2. ASSUME NEW s \in Sock, count'[s] = 0, queue'[s] # <<>>
          PROVE  Flushing(s)'
      <4>1. CASE s = f
        <5>1. Busy(p)' /\ Top(p)' = Frame("flush", s)
          BY <4>1, <2>3
        <5>2. \E q \in Proc : Busy(q)' /\ Top(q)' = Frame("flush", s)
          BY <5>1
        <5>. QED  BY <5>2 DEF Flushing
      <4>2. CASE s # f
        <5>1. count[s] = 0 /\ queue[s] # <<>>
          BY <1>1, <1>5, <3>2, <4>2
        <5>2. Flushing(s)
          BY <5>1, <1>6 DEF Sockets
        <5>3. At(p, "flush")
          BY <1>1, <5>2, FlushAlone DEF At, Frame
        <5>. QED  BY <5>3, <1>4
      <4>. QED  BY <4>1, <4>2
    <3>3. ASSUME NEW s \in Sock, count'[s] = 0, s \in live'
          PROVE  Freeing(s)'
      <4>1. CASE s = f
        BY <4>1, <2>1 DEF Freeing
      <4>2. CASE s # f
        <5>1. Freeing(s)
          BY <1>1, <1>5, <1>6, <3>3, <4>2 DEF Sockets
        <5>2. PICK q \in Proc : Frame("free", s) \in ToSet(stack[q])
          BY <5>1 DEF Freeing
        <5>3. ~(Busy(p) /\ Frame("free", s) = Top(p))
          BY <1>4 DEF At, Frame
        <5>4. Frame("free", s) \in ToSet(stack'[q])
          BY <5>2, <5>3, <2>3 DEF Kept
        <5>. QED  BY <5>4 DEF Freeing
      <4>. QED  BY <4>1, <4>2
    <3>. QED  BY <3>1, <3>2, <3>3 DEF Sockets
  <2>6. Growing' \subseteq Growing
    BY <2>3, GrowingLess
  <2>7. PICK G \in SUBSET File : Cut(G)
    BY <1>6 DEF Found
  <2>8. Cut(G)'
    <3>1. \A g \in G : g \notin Growing => g \notin Growing'
      BY <2>6
    <3>2. fds' = fds /\ queue' = queue /\ garbage' = garbage
      BY <1>1
    <3>. QED  BY <2>7, <3>1, <3>2, CutKept
  <2>9. \A s \in Sock : Held(s) => Held(s)'
    BY <1>1, <1>4, <2>3, HeldKept
  <2>11. Found'
    <3>1. garbage' \subseteq garbage /\ garbage' \subseteq live' /\ gcing' = gcing
      BY <1>1, <1>6 DEF Found
    <3>2. \A s \in Sock : Contents(queue'[s]) \cap garbage' \subseteq Contents(queue[s])
      BY <1>1
    <3>. QED  BY <1>6, <2>8, <2>9, <3>1, <3>2, FoundKept
  <2>. QED  BY <2>4, <2>5, <2>11 DEF Orderly
<1>. QED  BY <1>7, <1>9, <1>10, <1>11

(* sorflush() for each socket, and closef().                               *)
LEMMA EachUnrefOrderly ==
  ASSUME FdInv, FdTypes', ~hurt, Orderly, NEW p \in Proc, EachUnref(p)
  PROVE  Orderly'
<1> DEFINE S == Top(p).arg
           op == IF At(p, "sweep") THEN "flush" ELSE "closef"
           none == <<>>
           x(f) == Frame(op, f)
           y(f) == Frame(Top(p).op, S \ {f})
<1>1. /\ Cpu(p) /\ Busy(p) /\ FdTypes /\ Kernel /\ Sockets /\ Found
      /\ Top(p).op \in {"sweep", "drop"} /\ Top(p) \in Frames
      /\ UNCHANGED <<live, queue, gcing, marked, garbage, fds, count, peer>>
  <2>1. Top(p) \in Frames
    BY TopLive DEF EachUnref, At
  <2>. QED  BY <2>1 DEF EachUnref, At, FdInv, Orderly
<1>2. \/ S = {} /\ Go(p, none)
      \/ \E f \in S : Go(p, <<x(f), y(f)>>)
  BY DEF EachUnref
<1>3. ~At(p, "flush") /\ ~At(p, "free") /\ S \in SUBSET File
      /\ (At(p, "sweep") => S \subseteq Sock /\ Top(p).op = "sweep" /\ op = "flush")
      /\ (~At(p, "sweep") => op = "closef")
  BY <1>1, FrameOps, TopLive DEF At
<1>4. ASSUME NEW f \in S
      PROVE  /\ x(f) \in Frames /\ y(f) \in Frames
             /\ x(f).op = op /\ y(f).op = Top(p).op /\ y(f).arg = S \ {f}
             /\ x(f).op \in Simple \cup {"closef"}
  <2>1. f \in File /\ (At(p, "sweep") => f \in Sock) /\ S \ {f} \in SUBSET File
    BY <1>3
  <2>2. x(f) \in Frames
    BY <1>3, <2>1, FrameIn
  <2>3. y(f) \in Frames
    BY <1>1, <2>1, FrameIn
  <2>4. x(f).op = op /\ y(f).op = Top(p).op /\ y(f).arg = S \ {f}
    BY DEF Frame
  <2>5. op \in Simple \cup {"closef"}
    BY DEF Simple
  <2>. QED  BY <2>2, <2>3, <2>4, <2>5
<1>5. ASSUME NEW f \in S, Go(p, <<x(f), y(f)>>)
      PROVE  Put(p, <<x(f), y(f)>>, x(f))
  <2> DEFINE a == x(f)
             b == y(f)
  <2>1. a \in Frames /\ b \in Frames /\ a.op \in Simple \cup {"closef"}
        /\ b.op = Top(p).op /\ b.op \in {"sweep", "drop"} /\ Go(p, <<a, b>>)
    BY <1>1, <1>4, <1>5
  <2> HIDE DEF a, b
  <2>2. Put(p, <<a, b>>, a)
    BY <1>1, <2>1, PutTwo
  <2>. QED  BY <2>2 DEF a, b
<1>6. /\ Others(p) /\ Kept(p) /\ Tidy(stack'[p]) /\ (Collecting(p)' => Collecting(p))
      /\ ~At(p, "grow")'
  <2>1. CASE S = {} /\ Go(p, none)
    <3>1. /\ Went(p, none) /\ Tidy(stack'[p]) /\ ~At(p, "grow")'
          /\ Collecting(p)' => Collecting(p)
      BY <1>1, <2>1, Done
    <3>. QED  BY <3>1 DEF Went
  <2>2. CASE \E f \in S : Go(p, <<x(f), y(f)>>)
    <3>1. PICK f \in S : Go(p, <<x(f), y(f)>>)
      BY <2>2
    <3> HIDE DEF x, y
    <3>2. Put(p, <<x(f), y(f)>>, x(f))
      BY <3>1, <1>5
    <3>. QED  BY <3>2 DEF Put, Went
  <2>. QED  BY <1>2, <2>1, <2>2
<1>7. CASE ~At(p, "sweep")
  <2>1. \A s \in Sock : count'[s] = 0 => count[s] = 0
    BY <1>1
  <2> HIDE DEF S, op, x, y
  <2>. QED  BY <1>1, <1>3, <1>6, <1>7, <2>1, BusyStep
<1>8. CASE At(p, "sweep")
  <2>1. ASSUME NEW s \in S
        PROVE  Held(s)'
    <3>1. PICK f \in S : Go(p, <<x(f), y(f)>>)
      BY <1>2, <2>1
    <3>2. Put(p, <<x(f), y(f)>>, x(f))
      BY <3>1, <1>5
    <3>3. CASE s = f
      <4>1. Busy(p)' /\ Top(p)' = x(f)
        BY <3>2 DEF Put
      <4>2. x(f) = Frame("flush", s)
        BY <1>3, <1>8, <3>3
      <4>3. \E q \in Proc : Busy(q)' /\ Top(q)' = Frame("flush", s)
        BY <4>1, <4>2
      <4>. QED  BY <4>3 DEF Held, Flushing
    <3>4. CASE s # f
      <4>1. y(f) \in ToSet(stack'[p])
        <5> DEFINE a == x(f)
                   b == y(f)
                   new == <<a, b>>
        <5> HIDE DEF a, b
        <5>1. b \in ToSet(new)
          BY DEF ToSet
        <5>2. Put(p, new, a)
          BY <3>2 DEF a, b
        <5> HIDE DEF new
        <5>. QED  BY <5>1, <5>2 DEF Put, Went, b
      <4>2. y(f).op = "sweep" /\ s \in y(f).arg
        BY <1>3, <1>4, <1>8, <3>4
      <4> HIDE DEF x, y
      <4>3. \E q \in Proc : \E fr \in ToSet(stack'[q]) : fr.op = "sweep" /\ s \in fr.arg
        BY <4>1, <4>2
      <4>. QED  BY <4>3 DEF Held, Sweeping
    <3>. QED  BY <3>3, <3>4
  <2> HIDE DEF x, y
  <2>2. ASSUME NEW s \in Sock, Held(s)
        PROVE  Held(s)'
    <3>1. ~Flushing(s)
      BY <1>1, <1>3, FlushAlone DEF At, Frame
    <3>2. CASE s \in marked
      BY <1>1, <3>2 DEF Held
    <3>3. CASE Sweeping(s)
      <4>1. PICK q \in Proc : \E fr \in ToSet(stack[q]) : fr.op = "sweep" /\ s \in fr.arg
        BY <3>3 DEF Sweeping
      <4>2. PICK fr \in ToSet(stack[q]) : fr.op = "sweep" /\ s \in fr.arg
        BY <4>1
      <4>3. CASE fr \in ToSet(stack'[q])
        BY <4>2, <4>3 DEF Held, Sweeping
      <4>4. CASE fr = Top(p)
        BY <2>1, <4>2, <4>4
      <4>. QED  BY <1>6, <4>3, <4>4 DEF Kept
    <3>. QED  BY <2>2, <3>1, <3>2, <3>3 DEF Held
  <2> HIDE DEF S, op, none
  <2>3. Kernel'
    BY <1>1, <1>6, KernelMoved
  <2>4. Sockets'
    BY <1>1, <1>3, <1>6, SocketsKept
  <2>5. Growing' \subseteq Growing
    BY <1>6, GrowingLess
  <2>6. PICK G \in SUBSET File : Cut(G)
    BY <1>1 DEF Found
  <2>7. Cut(G)'
    <3>1. \A g \in G : g \notin Growing => g \notin Growing'
      BY <2>5
    <3>2. fds' = fds /\ queue' = queue /\ garbage' = garbage
      BY <1>1
    <3>. QED  BY <2>6, <3>1, <3>2, CutKept
  <2>8. Found'
    <3>1. garbage' \subseteq garbage /\ garbage' \subseteq live' /\ gcing' = gcing
      BY <1>1 DEF Found
    <3>2. \A s \in Sock : Contents(queue'[s]) \cap garbage' \subseteq Contents(queue[s])
      BY <1>1
    <3>. QED  BY <1>1, <2>2, <2>7, <3>1, <3>2, FoundKept
  <2>. QED  BY <2>3, <2>4, <2>8 DEF Orderly
<1>. QED  BY <1>7, <1>8

(* A frame that is not on top stays.                                       *)
LEMMA FreeingKept ==
  ASSUME NEW p \in Proc, Kept(p), NEW s, Freeing(s), ~(Busy(p) /\ Top(p) = Frame("free", s))
  PROVE  Freeing(s)'
<1>1. PICK q \in Proc : Frame("free", s) \in ToSet(stack[q])
  BY DEF Freeing
<1>2. Frame("free", s) \in ToSet(stack'[q])
  BY <1>1 DEF Kept
<1>. QED  BY <1>2 DEF Freeing

(* And so does one that sweeps.                                            *)
LEMMA SweepingKept ==
  ASSUME NEW p \in Proc, Kept(p), NEW s, Sweeping(s), ~At(p, "sweep")
  PROVE  Sweeping(s)'
<1>1. PICK q \in Proc : \E fr \in ToSet(stack[q]) : fr.op = "sweep" /\ s \in fr.arg
  BY DEF Sweeping
<1>2. PICK fr \in ToSet(stack[q]) : fr.op = "sweep" /\ s \in fr.arg
  BY <1>1
<1>3. fr \in ToSet(stack'[q])
  BY <1>2 DEF Kept, At
<1>. QED  BY <1>2, <1>3 DEF Sweeping

(* ffree().                                                                *)
LEMMA FreeOrderly ==
  ASSUME FdTypes, FdTypes', Orderly, NEW p \in Proc, Free(p)
  PROVE  Orderly'
<1> DEFINE f == Top(p).arg
           none == <<>>
<1>1. /\ Cpu(p) /\ Busy(p) /\ Top(p).op \in {"free", "slow"} /\ Go(p, none)
      /\ live' = live \ {f} /\ garbage' = garbage \ {f}
      /\ UNCHANGED <<count, fds, peer, queue, gcing, marked>>
      /\ Kernel /\ Sockets /\ Found
  BY DEF Free, At, Orderly
<1>2. /\ Went(p, none) /\ Tidy(stack'[p]) /\ ~At(p, "grow")'
      /\ Collecting(p)' => Collecting(p)
  BY <1>1, Done
<1>3. Others(p) /\ Kept(p)
  BY <1>2 DEF Went
<1>4. ~At(p, "flush") /\ ~At(p, "sweep")
  BY <1>1 DEF At
<1>5. Kernel'
  BY <1>1, <1>2, <1>3, KernelMoved
<1>6. Sockets'
  <2>1. ASSUME NEW s \in Sock, count'[s] = 0, queue'[s] # <<>>
        PROVE  FALSE
    <3>1. Flushing(s)
      BY <1>1, <2>1 DEF Sockets
    <3>2. At(p, "flush")
      BY <1>1, <3>1, FlushAlone DEF At, Frame
    <3>. QED  BY <3>2, <1>4
  <2>2. ASSUME NEW s \in Sock, count'[s] = 0, s \in live'
        PROVE  Freeing(s)'
    <3>1. Freeing(s) /\ s # f
      BY <1>1, <2>2 DEF Sockets
    <3>2. Top(p) # Frame("free", s)
      BY <3>1 DEF Frame
    <3>. QED  BY <3>1, <3>2, <1>3, FreeingKept
  <2>3. \A s \in Sock : peer'[s] # None => count'[peer'[s]] > 0
    BY <1>1 DEF Sockets
  <2>. QED  BY <2>1, <2>2, <2>3 DEF Sockets
<1>7. Growing' \subseteq Growing
  BY <1>2, <1>3, GrowingLess
<1>8. PICK G \in SUBSET File : Cut(G)
  BY <1>1 DEF Found
<1>9. Cut(G)'
  <2>1. \A g \in G : g \notin Growing => g \notin Growing'
    BY <1>7
  <2>2. fds' = fds /\ queue' = queue /\ garbage' \subseteq garbage
    BY <1>1
  <2>. QED  BY <1>8, <2>1, <2>2, CutKept
<1>10. Found'
  <2>1. garbage' \subseteq garbage /\ garbage' \subseteq live' /\ gcing' = gcing
    BY <1>1 DEF Found
  <2>2. \A s \in Sock : Contents(queue'[s]) \cap garbage' \subseteq Contents(queue[s])
    BY <1>1
  <2>3. \A s \in Sock : Held(s) => Held(s)'
    BY <1>1, <1>3, <1>4, HeldKept
  <2>. QED  BY <1>1, <1>9, <2>1, <2>2, <2>3, FoundKept
<1>. QED  BY <1>5, <1>6, <1>10 DEF Orderly

(* sorflush().                                                             *)
LEMMA FlushOrderly ==
  ASSUME FdTypes, FdTypes', Orderly, NEW p \in Proc, Flush(p)
  PROVE  Orderly'
<1> DEFINE f == Top(p).arg
           x == Frame("discard", FlattenSeq(queue[f]))
<1>1. /\ Cpu(p) /\ Busy(p) /\ Top(p).op = "flush" /\ Go(p, <<x>>)
      /\ queue' = [queue EXCEPT ![f] = <<>>]
      /\ UNCHANGED <<live, count, fds, peer, gcing, marked, garbage>>
      /\ Kernel /\ Sockets /\ Found
  BY DEF Flush, At, Orderly
<1>2. f \in Sock /\ x \in Frames /\ x.op = "discard"
  <2>1. Top(p) \in Frames
    BY <1>1 DEF FdTypes, Busy, Top
  <2>2. f \in Sock
    BY <1>1, <2>1, FrameOps
  <2>3. queue[f] \in Seq(Seq(File))
    BY <2>2 DEF FdTypes
  <2>4. FlattenSeq(queue[f]) \in Seq(File)
    BY <2>3, FlatType
  <2>. QED  BY <2>2, <2>4, FrameIn DEF Frame
<1>3. queue'[f] = <<>> /\ \A s \in Sock \ {f} : queue'[s] = queue[s]
  BY <1>1, <1>2 DEF FdTypes
<1>4. Put(p, <<x>>, x)
  <2> HIDE DEF x
  <2>. QED  BY <1>1, <1>2, PutOne DEF Simple
<1>5. Others(p) /\ Kept(p) /\ Tidy(stack'[p]) /\ (Collecting(p)' => Collecting(p))
      /\ ~At(p, "grow")'
  BY <1>4 DEF Put, Went
<1>6. ~At(p, "free") /\ ~At(p, "sweep")
  BY <1>1 DEF At
<1>7. ASSUME NEW s, Flushing(s)
      PROVE  s = f
  BY <1>1, <1>7, FlushAlone DEF Frame
<1> HIDE DEF f, x
<1>8. Kernel'
  BY <1>1, <1>5, KernelMoved
<1>9. Sockets'
  <2>1. ASSUME NEW s \in Sock, count'[s] = 0, queue'[s] # <<>>
        PROVE  FALSE
    <3>1. s # f /\ queue[s] # <<>>
      BY <1>3, <2>1
    <3>2. Flushing(s)
      BY <1>1, <2>1, <3>1 DEF Sockets
    <3>. QED  BY <3>1, <3>2, <1>7
  <2>2. ASSUME NEW s \in Sock, count'[s] = 0, s \in live'
        PROVE  Freeing(s)'
    <3>1. Freeing(s)
      BY <1>1, <2>2 DEF Sockets
    <3>2. Top(p) # Frame("free", s)
      BY <1>1 DEF Frame
    <3>. QED  BY <3>1, <3>2, <1>5, FreeingKept
  <2>3. \A s \in Sock : peer'[s] # None => count'[peer'[s]] > 0
    BY <1>1 DEF Sockets
  <2>. QED  BY <2>1, <2>2, <2>3 DEF Sockets
<1>10. Growing' \subseteq Growing
  BY <1>5, GrowingLess
<1>11. PICK G \in SUBSET File : Cut(G)
  BY <1>1 DEF Found
<1>12. \A s \in Sock : Contents(queue'[s]) \subseteq Contents(queue[s])
  BY <1>3, ContentsNone
<1>13. Cut(G)'
  <2>1. \A g \in G : g \notin Growing => g \notin Growing'
    BY <1>10
  <2>2. fds' = fds /\ garbage' \subseteq garbage
    BY <1>1
  <2>. QED  BY <1>11, <1>12, <2>1, <2>2, CutKept
<1>14. Found'
  <2>1. garbage' \subseteq garbage /\ garbage' \subseteq live' /\ gcing' = gcing
    BY <1>1 DEF Found
  <2>2. \A s \in Sock : Contents(queue'[s]) \cap garbage' \subseteq Contents(queue[s])
    BY <1>12
  <2>3. ASSUME NEW s \in Sock, Held(s), Contents(queue'[s]) \cap garbage' # {}
        PROVE  Held(s)'
    <3>1. s # f
      BY <1>3, <2>3, ContentsNone
    <3>2. s \in marked \/ Sweeping(s)
      BY <2>3, <3>1, <1>7 DEF Held
    <3>3. s \in marked' \/ Sweeping(s)'
      BY <1>1, <1>5, <1>6, <3>2, SweepingKept
    <3>. QED  BY <3>3 DEF Held
  <2>. QED  BY <1>1, <1>13, <2>1, <2>2, <2>3, FoundKept
<1>. QED  BY <1>8, <1>9, <1>14 DEF Orderly

(* One process runs and one collects, when it is p that collects, if any.  *)
LEMMA KernelOfOne ==
  ASSUME Kernel, NEW p \in Proc, Cpu(p), Others(p), Tidy(stack'[p]),
         \A q \in Proc \ {p} : ~Collecting(q), Collecting(p)' => gcing'
  PROVE  Kernel'
<1>1. ASSUME NEW q \in Proc \ {p}
      PROVE  ~Running(q)' /\ Tidy(stack'[q]) /\ ~Collecting(q)'
  <2>1. stack'[q] = stack[q]
    BY DEF Others
  <2>2. ~Running(q)
    BY DEF Cpu, Running
  <2>. QED  BY <2>1, <2>2 DEF Running, Busy, Asleep, Top, Kernel, Collecting
<1>2. \A q, r \in Proc : Running(q)' /\ Running(r)' => q = r
  BY <1>1
<1>3. \A q \in Proc : Tidy(stack'[q])
  BY <1>1
<1>4. \A q \in Proc : Collecting(q)' => gcing' /\ \A r \in Proc : Collecting(r)' => r = q
  BY <1>1
<1>. QED  BY <1>2, <1>3, <1>4 DEF Kernel

(* There is nothing to be found.                                           *)
LEMMA NothingFound ==
  ASSUME garbage' = {}
  PROVE  Found'
<1>1. Cut({})'
  BY DEF Cut
<1>2. \E G \in SUBSET File : Cut(G)'
  <2>1. {} \in SUBSET File
    OBVIOUS
  <2>. QED  BY <1>1, <2>1
<1>. QED  BY <1>2 DEF Found

(* Nobody is done while p goes on.                                         *)
LEMMA NobodyDone ==
  ASSUME NEW p \in Proc, Cpu(p), Others(p), ~At(p, "done")'
  PROVE  NoneDone'
<1>1. ASSUME NEW q \in Proc \ {p}
      PROVE  ~At(q, "done")'
  <2>1. stack'[q] = stack[q]
    BY DEF Others
  <2>2. ~At(q, "done")
    BY DEF Cpu, Asleep, At
  <2>. QED  BY <2>1, <2>2 DEF At, Busy, Top
<1>. QED  BY <1>1 DEF NoneDone

(* What is on top of p is in its stack.                                    *)
LEMMA TopCollects ==
  ASSUME FdTypes, NEW p \in Proc, Busy(p), Top(p).op \in Collector
  PROVE  Collecting(p)
<1>1. stack[p] \in Seq(Frames) /\ stack[p] # <<>>
  BY DEF FdTypes, Busy
<1>2. 1 \in DOMAIN stack[p] /\ stack[p][1].op \in Collector
  BY <1>1 DEF Top
<1>. QED  BY <1>1, <1>2, HasAt DEF Collecting

(* The mark phase.                                                         *)
LEMMA CollectOrderly ==
  ASSUME FdTypes, FdTypes', ~hurt, Orderly, NEW p \in Proc, Collect(p)
  PROVE  GcInv'
<1> DEFINE x == Frame("memory", None)
           none == <<>>
           new == <<x>>
           rest == Tail(stack[p])
<1>1. /\ Cpu(p) /\ Busy(p) /\ Top(p).op = "collect"
      /\ UNCHANGED <<live, count, fds, peer, queue, garbage>>
      /\ gcing => Go(p, none) /\ UNCHANGED <<gcing, marked, hurt>>
      /\ ~gcing => gcing' = TRUE /\ Go(p, new)
      /\ Kernel /\ Sockets /\ Found
  BY DEF Collect, At, Orderly
<1>2. ~At(p, "flush") /\ ~At(p, "free") /\ ~At(p, "sweep")
  BY <1>1 DEF At
<1>3. CASE gcing
  <2>1. /\ Went(p, none) /\ Tidy(stack'[p]) /\ ~At(p, "grow")'
        /\ Collecting(p)' => Collecting(p)
    BY <1>1, <1>3, Done
  <2>2. Orderly'
    BY <1>1, <1>2, <1>3, <2>1, BusyStep DEF Went
  <2>3. ~hurt'
    BY <1>1, <1>3
  <2>. QED  BY <2>2, <2>3 DEF GcInv, Orderly
<1>4. CASE ~gcing
  <2>1. x \in Frames /\ x.op = "memory" /\ new \in Seq(Frames)
    BY FrameIn DEF Frame
  <2>2. Went(p, new)
    <3> HIDE DEF new
    <3>. QED  BY <1>1, <1>4, <2>1, GoWent
  <2>3. \A q \in Proc : ~Collecting(q)
    BY <1>1, <1>4 DEF Kernel
  <2>4. /\ Calm(rest) /\ rest \in Seq(Frames) /\ stack'[p] = <<x>> \o rest
        /\ ToSet(rest) \subseteq ToSet(stack[p])
    BY <1>1, <2>2, RestCalm DEF Went
  <2> HIDE DEF x, rest
  <2>5. ~Has(rest, Collector)
    BY <2>3, <2>4 DEF Has, Collecting
  <2>6. Above(x, rest)
    BY <2>1, <2>5 DEF Above
  <2>7. Tidy(stack'[p])
    BY <2>1, <2>4, <2>6, TidyMore
  <2>8. Busy(p)' /\ Top(p)' = x
    BY <2>1, <2>4, TopIs
  <2>9. Others(p) /\ Kept(p) /\ ~At(p, "done")'
    BY <2>1, <2>2, <2>8 DEF Went, At
  <2> HIDE DEF new
  <2>10. Kernel'
    BY <1>1, <1>4, <2>3, <2>7, <2>9, KernelOfOne
  <2>11. Sockets'
    BY <1>1, <1>2, <2>9, SocketsKept
  <2>12. Found'
    <3>1. garbage' = {}
      BY <1>1, <1>4 DEF Found
    <3>. QED  BY <3>1, NothingFound
  <2>13. NoneDone'
    BY <1>1, <2>9, NobodyDone
  <2>. QED  BY <2>10, <2>11, <2>12, <2>13 DEF GcInv
<1>. QED  BY <1>3, <1>4

(* The end of a collection.                                                *)
LEMMA CollectedOrderly ==
  ASSUME FdTypes, FdTypes', Orderly, NEW p \in Proc, Collected(p)
  PROVE  Orderly'
<1> DEFINE none == <<>>
<1>1. /\ Cpu(p) /\ Busy(p) /\ Top(p).op = "done" /\ Go(p, none) /\ garbage' = {}
      /\ UNCHANGED <<live, count, fds, peer, queue>>
      /\ Kernel /\ Sockets /\ Found
  BY DEF Collected, At, Orderly
<1>2. ~At(p, "flush") /\ ~At(p, "free")
  BY <1>1 DEF At
<1>3. Top(p).op \in Collector
  BY <1>1 DEF Collector
<1>4. Went(p, none) /\ Tidy(stack'[p]) /\ ~Collecting(p)'
  BY <1>1, <1>3, Done
<1>5. Others(p) /\ Kept(p)
  BY <1>4 DEF Went
<1>6. \A q \in Proc \ {p} : ~Collecting(q)
  <2>1. Collecting(p)
    BY <1>1, <1>3, TopCollects
  <2>. QED  BY <1>1, <2>1 DEF Kernel
<1>7. Kernel'
  BY <1>1, <1>4, <1>5, <1>6, KernelOfOne
<1>8. Sockets'
  BY <1>1, <1>2, <1>5, SocketsKept
<1>9. Found'
  BY <1>1, NothingFound
<1>. QED  BY <1>7, <1>8, <1>9 DEF Orderly

(* The queue of a socket that is not counted is empty, unless it is being  *)
(* flushed.                                                                *)
LEMMA DeadIsEmpty ==
  ASSUME FdInv, Sockets, NEW p \in Proc, Idle(p), NEW f \in File, f \notin live
  PROVE  count[f] = 0 /\ (f \in Sock => queue[f] = <<>>)
<1>1. count[f] = 0
  BY DeadIsUncounted
<1>2. ASSUME f \in Sock, queue[f] # <<>>
      PROVE  FALSE
  <2>1. Flushing(f)
    BY <1>1, <1>2 DEF Sockets
  <2>2. Busy(p)
    BY <2>1, FlushAlone DEF Idle
  <2>. QED  BY <2>2 DEF Idle
<1>. QED  BY <1>1, <1>2

(* Files that are opened.                                                  *)
LEMMA NewFiles ==
  ASSUME FdInv, FdTypes', Orderly, NEW p \in Proc, Idle(p), NEW N \in SUBSET File,
         N \cap live = {},
         UNCHANGED <<queue, gcing, stack, garbage>>,
         live' = live \cup N, marked' = marked \ N,
         \A f \in N : count'[f] > 0, \A f \in File \ N : count'[f] = count[f],
         \A q \in Proc, f \in File \ N : fds'[q][f] = fds[q][f],
         \A s \in Sock : peer'[s] = peer[s] \/ peer'[s] \in N
  PROVE  Orderly'
<1>1. Kernel /\ Sockets /\ Found /\ FdTypes /\ Cpu(p) /\ ~Busy(p)
  BY DEF Orderly, FdInv, Idle
<1>2. \A f \in N : count[f] = 0 /\ (f \in Sock => queue[f] = <<>>)
  BY <1>1, DeadIsEmpty
<1>3. Kernel'
  <2>1. Others(p) /\ Kept(p)
    BY SameWent
  <2>2. Tidy(stack'[p]) /\ (Collecting(p)' => Collecting(p))
    BY <1>1 DEF Kernel, Collecting
  <2>. QED  BY <1>1, <2>1, <2>2, KernelMoved
<1>4. Sockets'
  <2>1. ASSUME NEW s \in Sock, peer'[s] # None
        PROVE  count'[peer'[s]] > 0
    <3>1. CASE peer'[s] \in N
      BY <3>1
    <3>2. CASE peer'[s] = peer[s] /\ peer[s] \notin N
      <4>1. peer[s] \in Sock /\ count[peer[s]] > 0
        BY <1>1, <2>1, <3>2 DEF Sockets, FdTypes
      <4>2. peer[s] \in File \ N
        BY <4>1, <3>2 DEF File
      <4>. QED  BY <3>2, <4>1, <4>2
    <3>. QED  BY <3>1, <3>2
  <2>2. ASSUME NEW s \in Sock, count'[s] = 0
        PROVE  s \in File \ N /\ count[s] = 0
    <3>1. s \in File
      BY DEF File
    <3>2. s \notin N
      BY <2>2
    <3>. QED  BY <2>2, <3>1, <3>2
  <2>3. ASSUME NEW s \in Sock, count'[s] = 0, queue'[s] # <<>>
        PROVE  Flushing(s)'
    <3>1. Flushing(s)
      BY <1>1, <2>2, <2>3 DEF Sockets
    <3>. QED  BY <3>1 DEF Flushing, Busy, Top
  <2>4. ASSUME NEW s \in Sock, count'[s] = 0, s \in live'
        PROVE  Freeing(s)'
    <3>1. Freeing(s)
      BY <1>1, <2>2, <2>4 DEF Sockets
    <3>. QED  BY <3>1 DEF Freeing
  <2>. QED  BY <2>1, <2>3, <2>4 DEF Sockets
<1>5. PICK G \in SUBSET File : Cut(G)
  BY <1>1 DEF Found
<1>6. Cut(G \ N)'
  <2>1. garbage' \subseteq G \ N
    BY <1>1, <1>5 DEF Cut, Found
  <2>2. Growing' = Growing
    BY GrowingSame
  <2>3. \A f \in G \ N : f \notin Growing' /\ \A q \in Proc : fds'[q][f] = 0
    BY <1>5, <2>2 DEF Cut
  <2>4. ASSUME NEW s \in Sock \ (G \ N)
        PROVE  Contents(queue'[s]) \cap (G \ N) = {}
    <3>1. CASE s \in N
      BY <1>2, <3>1, ContentsNone
    <3>2. CASE s \notin N
      BY <1>5, <2>4, <3>2 DEF Cut
    <3>. QED  BY <3>1, <3>2
  <2>. QED  BY <2>1, <2>3, <2>4 DEF Cut
<1>7. \E H \in SUBSET File : Cut(H)'
  <2>1. G \ N \in SUBSET File
    OBVIOUS
  <2>. QED  BY <1>6, <2>1
<1>8. ASSUME NEW s \in Sock, Held(s), Contents(queue'[s]) \cap garbage' # {}
      PROVE  Held(s)'
  <2>1. s \notin N
    BY <1>2, <1>8, ContentsNone
  <2>. QED  BY <1>8, <2>1 DEF Held, Sweeping, Flushing, Busy, Top
<1>9. Found'
  <2>1. garbage' \subseteq live'
    BY <1>1 DEF Found
  <2>. QED  BY <1>1, <1>7, <1>8, <2>1, FoundKept
<1>. QED  BY <1>3, <1>4, <1>9 DEF Orderly

(* socketpair().                                                           *)
LEMMA SocketpairOrderly ==
  ASSUME FdInv, FdTypes', Orderly, NEW p \in Proc, NEW a \in Sock, NEW b \in Sock,
         Socketpair(p, a, b)
  PROVE  Orderly'
<1>1. /\ Idle(p) /\ a # b /\ {a, b} \cap live = {} /\ FdTypes /\ a \in File /\ b \in File
      /\ live' = live \cup {a, b} /\ marked' = marked \ {a, b}
      /\ count' = [count EXCEPT ![a] = 1, ![b] = 1]
      /\ fds' = [fds EXCEPT ![p][a] = 1, ![p][b] = 1]
      /\ peer' = [peer EXCEPT ![a] = b, ![b] = a]
      /\ UNCHANGED <<queue, gcing, stack, garbage>>
  BY DEF Socketpair, FdInv, File
<1> DEFINE N == {a, b}
<1>2. /\ \A f \in N : count'[f] > 0
      /\ \A f \in File \ N : count'[f] = count[f]
  BY <1>1 DEF FdTypes
<1>3. \A q \in Proc, f \in File \ N : fds'[q][f] = fds[q][f]
  BY <1>1 DEF FdTypes
<1>4. \A s \in Sock : peer'[s] = peer[s] \/ peer'[s] \in N
  BY <1>1 DEF FdTypes
<1>5. N \in SUBSET File /\ N \cap live = {} /\ live' = live \cup N /\ marked' = marked \ N
  BY <1>1
<1> HIDE DEF N
<1>. QED  BY <1>1, <1>2, <1>3, <1>4, <1>5, NewFiles

(* open(), and socket().                                                   *)
LEMMA OpenOrderly ==
  ASSUME FdInv, FdTypes', Orderly, NEW p \in Proc, NEW a \in File, Open(p, a)
  PROVE  Orderly'
<1>1. /\ Idle(p) /\ a \notin live /\ FdTypes
      /\ live' = live \cup {a} /\ marked' = marked \ {a}
      /\ count' = [count EXCEPT ![a] = 1]
      /\ fds' = [fds EXCEPT ![p][a] = 1]
      /\ UNCHANGED <<peer, queue, gcing, stack, garbage>>
  BY DEF Open, FdInv
<1> DEFINE N == {a}
<1>2. /\ \A f \in N : count'[f] > 0
      /\ \A f \in File \ N : count'[f] = count[f]
  BY <1>1 DEF FdTypes
<1>3. \A q \in Proc, f \in File \ N : fds'[q][f] = fds[q][f]
  BY <1>1 DEF FdTypes
<1>4. \A s \in Sock : peer'[s] = peer[s] \/ peer'[s] \in N
  BY <1>1
<1>5. N \in SUBSET File /\ N \cap live = {} /\ live' = live \cup N /\ marked' = marked \ N
  BY <1>1
<1> HIDE DEF N
<1>. QED  BY <1>1, <1>2, <1>3, <1>4, <1>5, NewFiles

-----------------------------------------------------------------------------
(* What the mark phase comes to.                                           *)

MarkAt(from, f, n) == IF n = 0 THEN from ELSE MarkOnce(f[n - 1])

MarkedTo(from, f, m) == f = [n \in 0..m |-> MarkAt(from, f, n)]

(* The function that marks step by step exists.                            *)
LEMMA MarkExists ==
  ASSUME NEW from, NEW m \in Nat
  PROVE  \E f : MarkedTo(from, f, m)
<1> DEFINE X == {n \in Nat : \E f : MarkedTo(from, f, n)}
<1>1. 0 \in X
  <2> DEFINE f == [n \in 0..0 |-> from]
  <2>1. \A n \in 0..0 : MarkAt(from, f, n) = from
    BY DEF MarkAt
  <2>2. f = [n \in 0..0 |-> MarkAt(from, f, n)]
    BY <2>1
  <2> HIDE DEF f
  <2>. QED  BY <2>2 DEF MarkedTo
<1>2. ASSUME NEW n \in Nat, n \in X
      PROVE  n + 1 \in X
  <2>1. PICK f : MarkedTo(from, f, n)
    BY <1>2
  <2> DEFINE top == MarkAt(from, f, n + 1)
             g == [i \in 0..(n + 1) |-> IF i <= n THEN f[i] ELSE top]
  <2>2. ASSUME NEW i \in 0..(n + 1)
        PROVE  MarkAt(from, g, i) = MarkAt(from, f, i)
    <3>1. CASE i = 0
      BY <3>1 DEF MarkAt
    <3>2. CASE i # 0
      <4>1. i - 1 \in 0..(n + 1) /\ i - 1 <= n
        BY <3>2
      <4>2. g[i - 1] = f[i - 1]
        BY <4>1
      <4> HIDE DEF g
      <4>. QED  BY <4>2 DEF MarkAt
    <3>. QED  BY <3>1, <3>2
  <2>3. ASSUME NEW i \in 0..(n + 1)
        PROVE  g[i] = MarkAt(from, g, i)
    <3>1. g[i] = MarkAt(from, f, i)
      <4>1. CASE i <= n
        <5>1. f[i] = MarkAt(from, f, i)
          <6>1. i \in 0..n
            BY <4>1
          <6>. QED  BY <6>1, <2>1, Zenon DEF MarkedTo
        <5>. QED  BY <4>1, <5>1
      <4>2. CASE ~(i <= n)
        <5>1. i = n + 1
          BY <4>2
        <5>. QED  BY <4>2, <5>1
      <4>. QED  BY <4>1, <4>2
    <3> HIDE DEF g
    <3>. QED  BY <3>1, <2>2
  <2>4. g = [i \in 0..(n + 1) |-> MarkAt(from, g, i)]
    <3> DEFINE h == [i \in 0..(n + 1) |-> MarkAt(from, g, i)]
    <3>1. \A i \in 0..(n + 1) : g[i] = h[i]
      BY <2>3
    <3>2. g = [i \in 0..(n + 1) |-> g[i]]
      OBVIOUS
    <3>3. h = [i \in 0..(n + 1) |-> h[i]]
      OBVIOUS
    <3> HIDE DEF g, h
    <3>4. g = h
      BY <3>1, <3>2, <3>3, Zenon
    <3>. QED  BY <3>4 DEF h
  <2> HIDE DEF g
  <2>5. \E u : MarkedTo(from, u, n + 1)
    BY <2>4 DEF MarkedTo
  <2>. QED  BY <2>5
<1>3. Nat \subseteq X
  <2> HIDE DEF X
  <2>. QED  BY <1>1, <1>2, EveryNumber
<1>. QED  BY <1>3

(* The mark phase is the last value of that function.                      *)
LEMMA MarkedIs ==
  ASSUME NEW from
  PROVE  \E f : MarkedTo(from, f, Cardinality(Sock)) /\ Marked(from) = f[Cardinality(Sock)]
<1> DEFINE f == CHOOSE u : MarkedTo(from, u, Cardinality(Sock))
<1>1. Cardinality(Sock) \in Nat
  BY ProcsFinite, FS_CardinalityType
<1>2. MarkedTo(from, f, Cardinality(Sock))
  BY <1>1, MarkExists
<1>3. Marked(from) = f[Cardinality(Sock)]
  BY Zenon DEF Marked, MarkedTo, MarkAt
<1> HIDE DEF f
<1>. QED  BY <1>2, <1>3

(* One mark after the other.                                               *)
LEMMA MarkStep ==
  ASSUME NEW from, NEW f, NEW m \in Nat, MarkedTo(from, f, m), NEW n \in 0..m
  PROVE  f[n] = IF n = 0 THEN from ELSE MarkOnce(f[n - 1])
<1>1. f[n] = MarkAt(from, f, n)
  BY Zenon DEF MarkedTo
<1>. QED  BY <1>1 DEF MarkAt

(* All that is in the queues of S is in S.                                 *)
Full(S) == MarkOnce(S) = S

(* A set of files with all that is in their queues, or one that grows by a *)
(* socket: what a mark more makes of it.                                   *)
LEMMA MarkGrows ==
  ASSUME NEW S
  PROVE  /\ S \subseteq MarkOnce(S)
         /\ \/ Full(MarkOnce(S))
            \/ Cardinality(MarkOnce(S) \cap Sock) > Cardinality(S \cap Sock)
<1> DEFINE T == MarkOnce(S)
           a == S \cap Sock
           b == T \cap Sock
<1>1. S \subseteq T
  BY DEF MarkOnce
<1>2. IsFiniteSet(b) /\ a \in SUBSET b
  <2>1. b \in SUBSET Sock
    OBVIOUS
  <2>2. IsFiniteSet(b)
    BY <2>1, ProcsFinite, FS_Subset
  <2>. QED  BY <1>1, <2>2
<1>3. CASE a = b
  <2>1. MarkOnce(T) = T \cup UNION {Contents(queue[s]) : s \in b}
    BY DEF MarkOnce
  <2>2. T = S \cup UNION {Contents(queue[s]) : s \in a}
    BY DEF MarkOnce
  <2> HIDE DEF T, a, b
  <2>3. MarkOnce(T) = T
    BY <1>3, <2>1, <2>2, Zenon
  <2>. QED  BY <1>1, <2>3 DEF Full, T
<1>4. CASE a # b
  <2> HIDE DEF a, b
  <2>1. Cardinality(a) <= Cardinality(b) /\ Cardinality(a) # Cardinality(b)
    BY <1>2, <1>4, FS_Subset
  <2>2. Cardinality(a) \in Nat /\ Cardinality(b) \in Nat
    BY <1>2, FS_Subset, FS_CardinalityType
  <2>3. Cardinality(b) > Cardinality(a)
    BY <2>1, <2>2
  <2>. QED  BY <1>1, <2>3 DEF a, b
<1>. QED  BY <1>3, <1>4

(* The mark phase comes to an end: it leaves out nothing that can be       *)
(* reached.                                                                *)
LEMMA MarkedCloses ==
  ASSUME NEW from
  PROVE  /\ from \subseteq Marked(from)
         /\ \A s \in Marked(from) \cap Sock : Contents(queue[s]) \subseteq Marked(from)
<1> DEFINE N == Cardinality(Sock)
<1>1. N \in Nat
  BY ProcsFinite, FS_CardinalityType
<1>2. PICK f : MarkedTo(from, f, N) /\ Marked(from) = f[N]
  BY MarkedIs
<1> HIDE DEF N
<1> DEFINE Good(n) == /\ from \subseteq f[n]
                      /\ Full(f[n]) \/ Cardinality(f[n] \cap Sock) > n
           X == {n \in Nat : n <= N => Good(n)}
<1>3. 0 \in X
  <2>1. f[0] = from
    BY <1>1, <1>2, MarkStep
  <2>2. IsFiniteSet(from \cap Sock)
    <3>1. from \cap Sock \in SUBSET Sock
      OBVIOUS
    <3>. QED  BY <3>1, ProcsFinite, FS_Subset
  <2>3. CASE from \cap Sock = {}
    <3>1. MarkOnce(from) = from
      BY <2>3 DEF MarkOnce
    <3>. QED  BY <2>1, <3>1 DEF Full
  <2>4. CASE from \cap Sock # {}
    <3>1. Cardinality(from \cap Sock) \in Nat /\ Cardinality(from \cap Sock) # 0
      BY <2>2, <2>4, FS_CardinalityType, FS_EmptySet
    <3>2. Cardinality(from \cap Sock) > 0
      BY <3>1
    <3>. QED  BY <2>1, <3>2
  <2>. QED  BY <2>3, <2>4
<1>4. ASSUME NEW n \in Nat, n \in X
      PROVE  n + 1 \in X
  <2> SUFFICES ASSUME n + 1 <= N
               PROVE  Good(n + 1)
    OBVIOUS
  <2>1. n <= N /\ n + 1 \in 0..N /\ n + 1 # 0 /\ (n + 1) - 1 = n
    BY <1>1
  <2>2. Good(n)
    BY <1>4, <2>1
  <2>3. f[n + 1] = MarkOnce(f[n])
    BY <1>1, <1>2, <2>1, MarkStep
  <2>4. from \subseteq f[n + 1]
    BY <2>2, <2>3, MarkGrows
  <2>5. CASE Full(f[n])
    <3>1. f[n + 1] = f[n]
      BY <2>3, <2>5 DEF Full
    <3>. QED  BY <2>4, <2>5, <3>1
  <2>6. CASE ~Full(f[n])
    <3> DEFINE a == Cardinality(f[n] \cap Sock)
               b == Cardinality(f[n + 1] \cap Sock)
    <3>1. a \in Nat /\ b \in Nat
      <4>1. f[n] \cap Sock \in SUBSET Sock /\ f[n + 1] \cap Sock \in SUBSET Sock
        OBVIOUS
      <4>. QED  BY <4>1, ProcsFinite, FS_Subset, FS_CardinalityType
    <3>2. a > n
      BY <2>2, <2>6
    <3>3. Full(f[n + 1]) \/ b > a
      BY <2>3, MarkGrows
    <3>4. b > a => b > n + 1
      <4> HIDE DEF a, b
      <4>. QED  BY <3>1, <3>2
    <3>. QED  BY <2>4, <3>3, <3>4
  <2>. QED  BY <2>5, <2>6
<1>5. Nat \subseteq X
  <2> HIDE DEF X
  <2>. QED  BY <1>3, <1>4, EveryNumber
<1>6. Good(N)
  BY <1>1, <1>5
<1>7. ~(Cardinality(f[N] \cap Sock) > N)
  <2>1. f[N] \cap Sock \in SUBSET Sock
    OBVIOUS
  <2>2. /\ Cardinality(f[N] \cap Sock) <= N
        /\ Cardinality(f[N] \cap Sock) \in Nat
    BY <2>1, ProcsFinite, FS_Subset, FS_CardinalityType DEF N
  <2>. QED  BY <2>2, <1>1
<1>8. from \subseteq f[N] /\ MarkOnce(f[N]) = f[N]
  BY <1>6, <1>7 DEF Full
<1>9. \A s \in f[N] \cap Sock : Contents(queue[s]) \subseteq MarkOnce(f[N])
  BY DEF MarkOnce
<1>. QED  BY <1>2, <1>8, <1>9

-----------------------------------------------------------------------------
(* The end of the mark phase.                                              *)

(* What a process has a descriptor for is a root.                          *)
LEMMA InTableIsRoot ==
  ASSUME FdInv, NEW f \in File, NEW p \in Proc, fds[p][f] # 0
  PROVE  f \in Roots
<1>1. /\ InTables(f) \in Nat /\ ToClose(f) \in Nat /\ msgcount[f] \in Nat
      /\ count[f] = InTables(f) + msgcount[f] + ToClose(f)
      /\ count[f] > 0 => f \in live
      /\ fds[p][f] \in Nat /\ InTables(f) >= fds[p][f]
  BY Numbers
<1> DEFINE a == InTables(f)
           b == ToClose(f)
           m == msgcount[f]
           n == fds[p][f]
<1>2. a \in Nat /\ b \in Nat /\ m \in Nat /\ n \in Nat /\ a >= n /\ n # 0
      /\ count[f] = a + m + b
  BY <1>1
<1> HIDE DEF a, b, m, n
<1>3. count[f] > 0 /\ count[f] # m
  BY <1>2
<1>. QED  BY <1>1, <1>3 DEF Roots, m

(* The end of the mark phase: a process that has found what is garbage.    *)
LEMMA SweepOrderly ==
  ASSUME FdInv, FdTypes', ~hurt, Orderly, NEW p \in Proc, Sweep(p)
  PROVE  GcInv'
<1> DEFINE U == Unref
           M == Marked(Roots \cup Growing)
           x == Frame("sweep", U)
           y == Frame("drop", U)
           z == Frame("done", None)
           new == <<x, y, z>>
           rest == Tail(stack[p])
           c == <<z>> \o rest
           b == <<y>> \o c
<1>1. /\ Cpu(p) /\ Busy(p) /\ Top(p).op = "memory" /\ Go(p, new)
      /\ garbage' = U /\ hurt' = (U \cap (Plain \cup M) # {})
      /\ count' = [f \in File |-> IF f \in U THEN count[f] + 1 ELSE count[f]]
      /\ UNCHANGED <<live, fds, peer, queue, gcing, marked>>
      /\ FdTypes /\ Kernel /\ Sockets /\ Found
  BY DEF Sweep, At, Orderly, FdInv
<1>2. U \in SUBSET File /\ U \subseteq live
  BY <1>1 DEF Unref, FdTypes
<1>3. /\ \A f \in live : count[f] > 0 /\ count[f] = msgcount[f] /\ f \notin marked => f \in U
      /\ Roots \cup Growing \subseteq M
      /\ \A s \in M \cap Sock : Contents(queue[s]) \subseteq M
  BY MarkedCloses DEF Unref
<1> HIDE DEF U, M
<1>4. /\ x \in Frames /\ y \in Frames /\ z \in Frames
      /\ x.op = "sweep" /\ y.op = "drop" /\ z.op = "done" /\ x.arg = U
  BY <1>2, FrameIn DEF Frame
<1> HIDE DEF x, y, z
<1>5. new \in Seq(Frames) /\ ToSet(new) = {x, y, z}
  BY <1>4 DEF ToSet
<1>6. Went(p, new)
  <2> HIDE DEF new
  <2>. QED  BY <1>1, <1>5, GoWent
<1>7. Calm(rest) /\ Above(Top(p), rest) /\ rest \in Seq(Frames)
  BY <1>1, <1>6, RestCalm DEF Went
<1>8. stack'[p] = <<x>> \o b /\ c \in Seq(Frames) /\ b \in Seq(Frames)
  <2>1. stack'[p] = <<x, y, z>> \o rest
    BY <1>6 DEF Went
  <2> HIDE DEF rest
  <2>2. /\ <<x, y, z>> \o rest = <<x>> \o (<<y>> \o (<<z>> \o rest))
        /\ <<z>> \o rest \in Seq(Frames) /\ <<y>> \o (<<z>> \o rest) \in Seq(Frames)
    BY <1>4, <1>7, ThreeOn
  <2>. QED  BY <2>1, <2>2
<1> HIDE DEF rest, new
<1>9. ~Has(rest, Collector)
  BY <1>1, <1>7 DEF Above, Collector
<1>10. Above(z, rest) /\ z.op \notin {"closef", "grow"}
  BY <1>4, <1>9 DEF Above
<1>11. Calm(c) /\ Has(c, {"done"})
  BY <1>4, <1>7, <1>10, CalmMore, HasMore
<1> HIDE DEF c
<1>12. Above(y, c) /\ y.op \notin {"closef", "grow"}
  BY <1>4, <1>11 DEF Above, Collector
<1>13. Calm(b) /\ Has(b, {"done"})
  BY <1>4, <1>8, <1>11, <1>12, CalmMore, HasMore
<1> HIDE DEF b
<1>14. Above(x, b)
  BY <1>4, <1>13 DEF Above, Collector
<1>15. Tidy(stack'[p])
  BY <1>4, <1>8, <1>13, <1>14, TidyMore
<1>16. Busy(p)' /\ Top(p)' = x
  BY <1>4, <1>8, TopIs
<1>17. Others(p) /\ Kept(p) /\ ~At(p, "grow")' /\ ~At(p, "done")' /\ x \in ToSet(stack'[p])
  BY <1>4, <1>5, <1>6, <1>16 DEF Went, At
<1>18. CASE hurt'
  BY <1>1, <1>17, <1>18, NobodyDone DEF GcInv
<1>19. CASE ~hurt'
  <2>1. U \cap M = {} /\ U \subseteq Sock
    BY <1>1, <1>2, <1>19 DEF File
  <2>2. Kernel'
    <3>1. Top(p).op \in Collector
      BY <1>1 DEF Collector
    <3>2. Collecting(p)
      BY <1>1, <3>1, TopCollects
    <3>3. gcing /\ \A q \in Proc \ {p} : ~Collecting(q)
      BY <1>1, <3>2 DEF Kernel
    <3>. QED  BY <1>1, <1>15, <1>17, <3>3, KernelOfOne
  <2>3. ~At(p, "flush") /\ ~At(p, "free")
    BY <1>1 DEF At
  <2>4. \A s \in Sock : count'[s] = 0 => count[s] = 0
    <3>1. ASSUME NEW s \in Sock, count'[s] = 0
          PROVE  count[s] = 0
      <4>1. s \in File /\ count[s] \in Nat
        BY <1>1 DEF FdTypes, File
      <4>2. count'[s] = count[s] \/ count'[s] = count[s] + 1
        BY <1>1, <4>1
      <4>. QED  BY <3>1, <4>1, <4>2
    <3>. QED  BY <3>1
  <2>5. Sockets'
    BY <1>1, <1>17, <2>3, <2>4, SocketsKept
  <2>6. gcing' /\ garbage' \subseteq live' \cap Sock
    <3>1. Top(p).op \in Collector
      BY <1>1 DEF Collector
    <3>2. gcing
      BY <1>1, <3>1, TopCollects DEF Kernel
    <3>. QED  BY <1>1, <1>2, <2>1, <3>2
  <2>7. PICK G \in SUBSET File : G = File \ M
    OBVIOUS
  <2>8. Cut(G)'
    <3>1. garbage' \subseteq G
      BY <1>1, <1>2, <2>1, <2>7
    <3>2. Growing' \subseteq Growing
      BY <1>17, GrowingLess
    <3>3. ASSUME NEW f \in G
          PROVE  f \notin Growing' /\ \A q \in Proc : fds'[q][f] = 0
      <4>1. f \notin Growing /\ f \notin Roots
        BY <1>3, <2>7
      <4>2. \A q \in Proc : fds[q][f] = 0
        BY <4>1, InTableIsRoot
      <4>. QED  BY <1>1, <3>2, <4>1, <4>2
    <3>4. ASSUME NEW s \in Sock \ (G)
          PROVE  Contents(queue'[s]) \cap (G) = {}
      <4>1. s \in M \cap Sock
        BY <2>7 DEF File
      <4>2. Contents(queue[s]) \subseteq M
        BY <4>1, <1>3
      <4>. QED  BY <4>2, <1>1, <2>7
    <3>. QED  BY <3>1, <3>3, <3>4 DEF Cut
  <2>9. ASSUME NEW s \in Sock, Contents(queue'[s]) \cap garbage' # {}
        PROVE  Held(s)'
    <3>1. Contents(queue[s]) \cap U # {}
      BY <1>1, <2>9
    <3>2. CASE s \in marked
      BY <3>2, <1>1 DEF Held
    <3>3. CASE s \in U
      <4>1. \E q \in Proc : \E fr \in ToSet(stack'[q]) : fr.op = "sweep" /\ s \in fr.arg
        BY <3>3, <1>4, <1>17
      <4>. QED  BY <4>1 DEF Held, Sweeping
    <3>4. CASE s \notin U /\ s \notin marked
      <4>1. queue[s] # <<>> /\ s \in File /\ count[s] \in Nat
        BY <1>1, <3>1, ContentsNone DEF FdTypes, File
      <4>2. count[s] # 0
        <5>1. ~Flushing(s)
          BY <1>1, <2>3, FlushAlone DEF At, Frame
        <5>. QED  BY <1>1, <4>1, <5>1 DEF Sockets
      <4>3. count[s] > 0
        BY <4>1, <4>2
      <4>4. s \in live
        BY <4>1, <4>3, CountedIsLive
      <4>5. s \in Roots
        BY <1>3, <3>4, <4>3, <4>4 DEF Roots
      <4>6. Contents(queue[s]) \subseteq M
        BY <1>3, <4>5
      <4>. QED  BY <2>1, <3>1, <4>6
    <3>. QED  BY <3>2, <3>3, <3>4
  <2>10. \E H \in SUBSET File : Cut(H)'
    BY <2>8
  <2>11. Found'
    BY <2>6, <2>9, <2>10 DEF Found
  <2>. QED  BY <1>19, <2>2, <2>5, <2>11 DEF GcInv
<1>. QED  BY <1>18, <1>19

-----------------------------------------------------------------------------
(* Every step keeps the order of the collection.                           *)

(* It is there at first.                                                   *)
LEMMA GcInit ==
  ASSUME Init
  PROVE  GcInv
<1>1. /\ live = {} /\ peer = [s \in Sock |-> None] /\ queue = [s \in Sock |-> <<>>]
      /\ fds = [p \in Proc |-> [f \in File |-> 0]] /\ stack = [p \in Proc |-> <<>>]
      /\ garbage = {} /\ ~hurt
  BY DEF Init
<1>2. \A p \in Proc : ~Busy(p) /\ Tidy(stack[p]) /\ ~Collecting(p)
  BY <1>1, CalmNone DEF Busy, Tidy, Collecting
<1>3. Kernel
  BY <1>2 DEF Kernel, Running
<1>4. Sockets
  BY <1>1 DEF Sockets
<1>5. Cut({})
  BY <1>1 DEF Cut
<1>6. \E G \in SUBSET File : Cut(G)
  <2>1. {} \in SUBSET File
    OBVIOUS
  <2>. QED  BY <1>5, <2>1
<1>7. Found
  BY <1>1, <1>6 DEF Found
<1>. QED  BY <1>1, <1>3, <1>4, <1>7 DEF GcInv

(* Nothing happens.                                                        *)
LEMMA GcStutter ==
  ASSUME GcInv, UNCHANGED vars
  PROVE  GcInv'
<1>1. UNCHANGED <<live, count, fds, peer, queue, gcing, marked, stack, garbage, hurt>>
  BY DEF vars
<1>2. /\ \A p : /\ Busy(p)' <=> Busy(p)
                /\ Top(p)' = Top(p)
  BY <1>1 DEF Busy, Top
<1>3. \A p : /\ Running(p)' <=> Running(p)
             /\ Collecting(p)' <=> Collecting(p)
             /\ At(p, "done")' <=> At(p, "done")
  BY <1>1, <1>2 DEF Running, Asleep, Collecting, At
<1>4. \A s : /\ Flushing(s)' <=> Flushing(s)
             /\ Sweeping(s)' <=> Sweeping(s)
             /\ Freeing(s)' <=> Freeing(s)
  BY <1>1, <1>2 DEF Flushing, Sweeping, Freeing
<1>5. Growing' = Growing
  BY <1>1, GrowingSame
<1>6. Kernel => Kernel'
  BY <1>1, <1>3 DEF Kernel
<1>7. Sockets => Sockets'
  BY <1>1, <1>4 DEF Sockets
<1>8. \A G : Cut(G) => Cut(G)'
  BY <1>1, <1>5 DEF Cut
<1>9. \A s : Held(s) => Held(s)'
  BY <1>1, <1>4 DEF Held
<1>10. Found => Found'
  <2> SUFFICES ASSUME Found
               PROVE  Found'
    OBVIOUS
  <2>1. \E G \in SUBSET File : Cut(G)'
    BY <1>8 DEF Found
  <2>2. garbage' \subseteq garbage /\ garbage' \subseteq live' /\ gcing' = gcing
    BY <1>1 DEF Found
  <2>3. \A s \in Sock : Contents(queue'[s]) \cap garbage' \subseteq Contents(queue[s])
    BY <1>1
  <2>. QED  BY <1>9, <2>1, <2>2, <2>3, FoundKept
<1>11. NoneDone => NoneDone'
  BY <1>3 DEF NoneDone
<1>. QED  BY <1>1, <1>6, <1>7, <1>10, <1>11 DEF GcInv

(* A step.                                                                 *)
LEMMA GcStep ==
  ASSUME FdInv, FdInv', GcInv, Next
  PROVE  GcInv'
<1>1. ~hurt /\ Orderly /\ FdTypes /\ FdTypes'
  BY DEF Next, GcInv, Orderly, FdInv
<1>2. PICK p \in Proc : Step(p)
  BY DEF Next
<1>3. Orderly' => GcInv' \/ hurt'
  BY DEF GcInv, Orderly
<1>4. CASE Collect(p)
  BY <1>1, <1>4, CollectOrderly
<1>5. CASE Sweep(p)
  BY <1>1, <1>5, SweepOrderly
<1>6. CASE ~Collect(p) /\ ~Sweep(p)
  <2>1. Orderly'
    <3>1. CASE \E a, b \in Sock : Socketpair(p, a, b)
      BY <1>1, <3>1, SocketpairOrderly
    <3>2. CASE \E f \in File : Open(p, f)
      BY <1>1, <3>2, OpenOrderly
    <3>3. CASE \E q \in Proc \ {p} : Fork(p, q)
      BY <1>1, <3>3, ForkOrderly
    <3>4. CASE \E f \in File : Close(p, f)
      BY <1>1, <3>4, CloseOrderly
    <3>5. CASE \E s \in Sock, m \in Message : Send(p, s, m)
      BY <1>1, <3>5, SendOrderly, MessageType
    <3>6. CASE \E s \in Sock : Receive(p, s)
      BY <1>1, <3>6, ReceiveOrderly
    <3>7. CASE Grown(p)
      BY <1>1, <3>7, GrownOrderly
    <3>8. CASE Closef(p)
      BY <1>1, <3>8, ClosefOrderly
    <3>9. CASE Free(p)
      BY <1>1, <3>9, FreeOrderly
    <3>10. CASE Flush(p)
      BY <1>1, <3>10, FlushOrderly
    <3>11. CASE Discard(p)
      BY <1>1, <3>11, DiscardOrderly
    <3>12. CASE Spilt(p)
      BY <1>1, <3>12, SpiltOrderly
    <3>13. CASE EachUnref(p)
      BY <1>1, <3>13, EachUnrefOrderly
    <3>14. CASE Collected(p)
      BY <1>1, <3>14, CollectedOrderly
    <3>. QED  BY <1>2, <1>6, <3>1, <3>2, <3>3, <3>4, <3>5, <3>6, <3>7, <3>8, <3>9,
                 <3>10, <3>11, <3>12, <3>13, <3>14 DEF Step
  <2>2. hurt' = hurt
    <3>1. \A a, b \in Sock : Socketpair(p, a, b) => hurt' = hurt
      BY DEF Socketpair
    <3>2. \A f \in File : Open(p, f) \/ Close(p, f) => hurt' = hurt
      BY DEF Open, Close
    <3>3. \A q \in Proc : Fork(p, q) => hurt' = hurt
      BY DEF Fork
    <3>4. \A s \in Sock, m \in Message : Send(p, s, m) => hurt' = hurt
      BY DEF Send
    <3>5. \A s \in Sock : Receive(p, s) => hurt' = hurt
      BY DEF Receive
    <3>6. Grown(p) \/ Closef(p) \/ Free(p) => hurt' = hurt
      BY DEF Grown, Closef, Free
    <3>7. Flush(p) \/ Discard(p) \/ Spilt(p) => hurt' = hurt
      BY DEF Flush, Discard, Spilt
    <3>8. EachUnref(p) \/ Collected(p) => hurt' = hurt
      BY DEF EachUnref, Collected
    <3>. QED  BY <1>2, <1>6, <3>1, <3>2, <3>3, <3>4, <3>5, <3>6, <3>7, <3>8 DEF Step
  <2>. QED  BY <1>1, <1>3, <2>1, <2>2
<1>. QED  BY <1>4, <1>5, <1>6

(* The invariant of a collection is kept.                                  *)
LEMMA GcNext ==
  ASSUME FdInv, GcInv, [Next]_vars
  PROVE  GcInv'
<1>1. FdInv'
  BY NextInv
<1>. QED  BY <1>1, GcStutter, GcStep

-----------------------------------------------------------------------------
(* What the order is good for.                                             *)

(* When a collection is through, nobody has anything to sweep or to close. *)
LEMMA AllSwept ==
  ASSUME FdTypes, Kernel, NEW p \in Proc, At(p, "done"), NEW q \in Proc,
         NEW i \in DOMAIN stack[q]
  PROVE  stack[q][i].op \notin {"sweep", "drop", "closef"}
<1> DEFINE r == Tail(stack[q])
<1>1. /\ stack[q] \in Seq(Frames) /\ stack[q] # <<>> /\ r \in Seq(Frames)
      /\ i = 1 \/ (i - 1 \in DOMAIN r /\ stack[q][i] = r[i - 1])
      /\ Head(stack[q]) = stack[q][1]
      /\ \A fr \in ToSet(r) : fr \in ToSet(stack[q])
  <2>1. stack[q] \in Seq(Frames)
    BY DEF FdTypes
  <2> DEFINE s == stack[q]
  <2>2. s \in Seq(Frames) /\ i \in DOMAIN s
    BY <2>1
  <2> HIDE DEF s
  <2>3. /\ s # <<>> /\ Tail(s) \in Seq(Frames)
        /\ i = 1 \/ (i - 1 \in DOMAIN Tail(s) /\ s[i] = Tail(s)[i - 1])
        /\ Head(s) = s[1]
        /\ \A k \in DOMAIN Tail(s) : k + 1 \in DOMAIN s /\ s[k + 1] = Tail(s)[k]
    BY <2>2
  <2>4. \A fr \in ToSet(Tail(s)) : fr \in ToSet(s)
    BY <2>3 DEF ToSet
  <2>. QED  BY <2>2, <2>3, <2>4 DEF s
<1>2. Busy(p) /\ Top(p).op = "done" /\ Running(p)
  BY DEF At, Running, Asleep
<1>3. Busy(q) /\ Top(q) = stack[q][1]
  BY <1>1 DEF Busy, Top
<1>4. q # p => Top(q).op \in {"memory", "slow", "grow"}
  BY <1>2, <1>3 DEF Kernel, Running, Asleep
<1>5. CASE i = 1
  BY <1>2, <1>3, <1>4, <1>5
<1>6. CASE i # 1
  <2>1. Calm(r) /\ Above(Top(q), r)
    BY <1>3, RestCalm
  <2>2. ~Has(r, {"done"})
    <3>1. CASE q = p
      <4>1. ~Has(r, Collector)
        BY <1>2, <2>1, <3>1 DEF Above, Collector
      <4>. QED  BY <4>1 DEF Has, Collector
    <3>2. CASE q # p
      <4>1. Collecting(p)
        BY <1>2, TopCollects DEF Collector
      <4>2. ~Collecting(q)
        BY <3>2, <4>1 DEF Kernel
      <4>. QED  BY <1>1, <4>2 DEF Collecting, Has, Collector
    <3>. QED  BY <3>1, <3>2
  <2> HIDE DEF r
  <2>3. \A j \in DOMAIN r : r[j].op # "done"
    BY <1>1, <2>2, HasAt
  <2>4. \A j \in DOMAIN r : r[j].op \notin {"sweep", "drop"}
    BY <2>1, <2>3 DEF Calm
  <2>5. \A j \in DOMAIN r : r[j].op # "closef"
    BY <1>1, <2>1, HasAt DEF Calm
  <2>. QED  BY <1>1, <1>6, <2>4, <2>5
<1>. QED  BY <1>5, <1>6

(* The sum of zeroes.                                                      *)
LEMMA TotalNone ==
  ASSUME NEW S, IsFiniteSet(S), NEW g, g = [x \in S |-> 0]
  PROVE  Total(g) = 0
<1>1. Total(g) = 0 * Cardinality(S) /\ Cardinality(S) \in Nat
  BY TotalEqual, FS_CardinalityType
<1>. QED  BY <1>1

(* Rights in the queues are in the queue of a socket.                      *)
LEMMA QueuedSomewhere ==
  ASSUME FdTypes, NEW f \in File, InQueues(f) # 0
  PROVE  \E s \in Sock : f \in Contents(queue[s])
<1> DEFINE g == [s \in Sock |-> Times(f, FlattenSeq(queue[s]))]
<1>1. InQueues(f) = Total(g)
  BY SumsAre
<1>2. PICK s \in Sock : Times(f, FlattenSeq(queue[s])) # 0
  <2>1. CASE \A s \in Sock : Times(f, FlattenSeq(queue[s])) = 0
    <3>1. g = [s \in Sock |-> 0]
      BY <2>1
    <3> HIDE DEF g
    <3>2. Total(g) = 0
      BY <3>1, ProcsFinite, TotalNone
    <3>. QED  BY <1>1, <3>2
  <2>. QED  BY <2>1
<1> DEFINE q == queue[s]
           t == FlattenSeq(q)
<1>3. q \in Seq(Seq(File))
  BY DEF FdTypes
<1>4. f \in ToSet(t)
  BY <1>2, TimesIn
<1>5. t \in Seq(File) /\ \E a, b : Spread(q, Len(q), t, a, b)
  <2> HIDE DEF q
  <2>. QED  BY <1>3, FlatSpread
<1> HIDE DEF q, t
<1>6. PICK a, b : Spread(q, Len(q), t, a, b)
  BY <1>5
<1>7. PICK n \in 1..Len(t) : f = t[n]
  BY <1>4, <1>5 DEF ToSet
<1>8. a[n] \in 1..Len(q) /\ b[n] \in 1..Len(q[a[n]]) /\ f = q[a[n]][b[n]]
  BY <1>6, <1>7 DEF Spread
<1>9. q[a[n]] \in Seq(File) /\ a[n] \in DOMAIN q
  BY <1>3, <1>8
<1>10. b[n] \in DOMAIN q[a[n]]
  BY <1>8, <1>9
<1>11. f \in ToSet(q[a[n]])
  BY <1>8, <1>10 DEF ToSet
<1>12. f \in Contents(q)
  BY <1>9, <1>11, ContentsAt
<1>. QED  BY <1>12 DEF q

(* Nobody gives up a reference when a collection is through.               *)
LEMMA NoneToClose ==
  ASSUME FdTypes, Kernel, NEW p \in Proc, At(p, "done"), NEW f \in File
  PROVE  ToClose(f) = 0
<1> DEFINE g == [q \in Proc |-> Closed(stack[q], f)]
<1>1. ASSUME NEW q \in Proc
      PROVE  Closed(stack[q], f) = 0
  <2>1. \A i \in DOMAIN stack[q] : ~Closes(stack[q][i], f)
    BY AllSwept DEF Closes
  <2>2. PlacesOf(stack[q], Closers(f)) = {}
    BY <2>1 DEF PlacesOf, Closers
  <2>. QED  BY <2>2, FS_EmptySet DEF Closed, Among
<1>2. g = [q \in Proc |-> 0]
  BY <1>1
<1>3. ToClose(f) = Total(g)
  BY SumsAre
<1> HIDE DEF g
<1>4. Total(g) = 0
  BY <1>2, ProcsFinite, TotalNone
<1>. QED  BY <1>3, <1>4

(* What the collector found has gone.                                      *)
LEMMA GcIsTrue ==
  ASSUME FdInv, GcInv
  PROVE  GarbageGone
<1> SUFFICES ASSUME NEW p \in Proc, At(p, "done"), NEW f \in garbage,
                    ~(leaked[f] + InHand(f) > 0),
                    ~ \E s \in marked \cap Sock : f \in Contents(queue[s]),
                    ~Freeing(f)
             PROVE  FALSE
  BY DEF GarbageGone, Freeing
<1>1. ~hurt /\ Kernel /\ Sockets /\ Found /\ FdTypes
  BY DEF GcInv, NoneDone, FdInv
<1>2. f \in live /\ f \in Sock /\ f \in File
  BY <1>1 DEF Found, File
<1>3. PICK G \in SUBSET File : Cut(G)
  BY <1>1 DEF Found
<1>4. InTables(f) = 0
  <2> DEFINE g == [q \in Proc |-> fds[q][f]]
  <2>1. \A q \in Proc : fds[q][f] = 0
    BY <1>3 DEF Cut
  <2>2. g = [q \in Proc |-> 0]
    BY <2>1
  <2>3. InTables(f) = Total(g)
    BY DEF InTables
  <2> HIDE DEF g
  <2>. QED  BY <2>2, <2>3, ProcsFinite, TotalNone
<1>5. ToClose(f) = 0
  BY <1>1, <1>2, NoneToClose
<1>6. leaked[f] = 0 /\ InHand(f) = 0
  <2>1. leaked[f] \in Nat /\ InHand(f) \in Nat
    BY <1>2, Numbers
  <2>. QED  BY <2>1
<1>7. count[f] = InQueues(f)
  <2>1. /\ InQueues(f) \in Nat /\ msgcount[f] \in Nat
        /\ msgcount[f] = InQueues(f) + InHand(f) + leaked[f]
        /\ count[f] = InTables(f) + msgcount[f] + ToClose(f)
    BY <1>2, Numbers
  <2>. QED  BY <2>1, <1>4, <1>5, <1>6
<1>8. CASE count[f] = 0
  BY <1>1, <1>2, <1>8 DEF Sockets
<1>9. CASE count[f] # 0
  <2>1. PICK s \in Sock : f \in Contents(queue[s])
    BY <1>1, <1>2, <1>7, <1>9, QueuedSomewhere
  <2>2. Held(s)
    BY <1>1, <2>1 DEF Found
  <2>3. s \notin marked
    BY <2>1
  <2>4. ~Flushing(s)
    <3>1. SUFFICES ASSUME NEW q \in Proc, Busy(q), Top(q) = Frame("flush", s)
                   PROVE  FALSE
      BY DEF Flushing
    <3>2. Top(q).op = "flush"
      BY <3>1 DEF Frame
    <3>3. Running(q) /\ Running(p)
      BY <3>1, <3>2 DEF Running, Asleep, At
    <3>4. q = p
      BY <1>1, <3>3 DEF Kernel
    <3>. QED  BY <3>2, <3>4 DEF At
  <2>5. ~Sweeping(s)
    <3>1. SUFFICES ASSUME NEW q \in Proc, NEW i \in DOMAIN stack[q],
                          stack[q][i].op = "sweep"
                   PROVE  FALSE
      BY DEF Sweeping, ToSet
    <3>2. stack[q][i].op \notin {"sweep", "drop", "closef"}
      BY <1>1, AllSwept
    <3>. QED  BY <3>1, <3>2
  <2>. QED  BY <2>2, <2>3, <2>4, <2>5 DEF Held
<1>. QED  BY <1>8, <1>9

(* When unp_gc() is through, what it found unreferenced is gone, but for   *)
(* rights that somebody has in hand, that leaked, or that were put on a    *)
(* marked socket while it slept, and what somebody is freeing just then.   *)
THEOREM GarbageGoes == Spec => []GarbageGone
<1>1. Init => FdInv /\ GcInv
  BY InitInv, GcInit
<1>2. FdInv /\ GcInv /\ [Next]_vars => (FdInv /\ GcInv)'
  BY NextInv, GcNext
<1>3. FdInv /\ GcInv => GarbageGone
  BY GcIsTrue
<1>. QED  BY <1>1, <1>2, <1>3, PTL DEF Spec

=============================================================================
