------------------------------- MODULE BufCache -------------------------------
(***************************************************************************)
(* The buffer cache of sys/kern/vfs_bio.c: getblk(), getnewbuf(),          *)
(* allocbuf(), bread(), read-ahead, bwrite(), bawrite(), bdwrite(),        *)
(* brelse(), biowait() and biodone().                                      *)
(*                                                                         *)
(* The kernel is not preemptive: a process runs from one sleep to the      *)
(* next, and only the completion of I/O, an interrupt, comes in between.   *)
(* An action is a piece of a routine; cpu is the process that goes on      *)
(* without having slept. A block stands for a vnode and a block number in  *)
(* it, and one size is asked for it. VOP_ISLOCKED() answers either way.    *)
(* B_LOCKED, B_NOCACHE, B_CALL, MNT_ASYNC, geteblk() and tapes are left    *)
(* out, and so are the flags that only count or trace.                     *)
(***************************************************************************)
EXTENDS Integers, SequencesExt

CONSTANTS
  Proc, Buf, Block,
  None,         \* no process, no buffer, no block, nothing read
  NeedBuffer,   \* the wait channel &needbuffer
  Val,          \* what a block can hold
  SizeOf,       \* the pages of a block
  Pages,        \* bufpages / nbuf: the pages of a buffer at the start
  ReadErrors,   \* reads may fail
  Sleepy        \* VOP_STRATEGY() may sleep

ASSUME BufCacheAssumption ==
  /\ None \notin Proc \cup Buf \cup Block \cup Val
  /\ NeedBuffer \notin Buf \cup {None}
  /\ IsFiniteSet(Buf) /\ SizeOf \in [Block -> Nat \ {0}] /\ Pages \in Nat \ {0}
  /\ ReadErrors \in BOOLEAN /\ Sleepy \in BOOLEAN

VARIABLES
  buf,          \* the buffers
  free,         \* the free lists BQ_LRU, BQ_AGE and BQ_EMPTY
  need,         \* needbuffer
  slp,          \* the channel each process sleeps on
  io,           \* the buffers that the driver has
  disk,         \* what is on the disk
  pc, want, how, held,
                \* where a process is, the block it works on, what it asks
                \* for, and its buffer
  cpu,          \* the process that has not slept since its last step
  content, seen \* what was last written to a block, and what the buffer
                \* that a process was given by bread() held

state == <<buf, free, need, slp>>
local == <<pc, want, how, held>>
vars == <<state, io, disk, local, cpu, content, seen>>

Flags == {"BUSY", "WANTED", "DELWRI", "DONE", "INVAL", "ERROR", "READ",
          "ASYNC", "AGE"}
Places == {"idle", "getblk", "newbuf", "alloc", "got", "biowait", "use",
           "bwrite"}

(* The types of the variables; a buffer whose pages are all gone is on no  *)
(* list that getnewbuf() searches (vfs_bio.c: BQ_EMPTY).                   *)
TypeOK ==
  /\ buf \in [Buf -> [block : Block \cup {None}, flags : SUBSET Flags,
                      size : Nat, data : Val]]
  /\ free \in [{"LRU", "AGE", "EMPTY"} -> Seq(Buf)]
  /\ \A bp \in ToSet(free["LRU"]) \cup ToSet(free["AGE"]) : buf[bp].size > 0
  /\ need \in BOOLEAN
  /\ slp \in [Proc -> Buf \cup {NeedBuffer, None}]
  /\ io \subseteq Buf
  /\ disk \in [Block -> Val] /\ content \in [Block -> Val]
  /\ pc \in [Proc -> Places]
  /\ want \in [Proc -> Block \cup {None}]
  /\ how \in [Proc -> {"bread", "getblk", "ahead", "none"}]
  /\ held \in [Proc -> Buf \cup {None}]
  /\ cpu \in Proc \cup {None}
  /\ seen \in [Proc -> Val \cup {None}]

-----------------------------------------------------------------------------
(* Changes of <<buf, free, need, slp>>, as functions of a record of the    *)
(* four. An operator named Bug... is a plausible slip in the definition    *)
(* after it; no behaviour uses it.                                         *)

Now == [buf |-> buf, free |-> free, need |-> need, slp |-> slp]

Becomes(S) == /\ buf' = S.buf
              /\ free' = S.free
              /\ need' = S.need
              /\ slp' = S.slp

Wakeup(S, chan) ==
  [S EXCEPT !.slp = [p \in Proc |-> IF @[p] = chan THEN None ELSE @[p]]]

SetFlags(S, bp, on, off) ==
  [S EXCEPT !.buf[bp].flags = (@ \ off) \cup on]

Bremfree(S, bp) ==
  [S EXCEPT !.free = [q \in DOMAIN @ |-> RemoveFirst(@[q], bp)]]

WakeForRelease(S, bp) ==
  LET S1 == IF "WANTED" \in S.buf[bp].flags THEN Wakeup(S, bp) ELSE S
  IN  IF S1.need THEN [Wakeup(S1, NeedBuffer) EXCEPT !.need = FALSE] ELSE S1

(* brelse() disassociates a buffer with an error, without memory or        *)
(* without information.                                                    *)
Dead(b) == b.size = 0 \/ b.flags \cap {"ERROR", "INVAL"} # {}

Disassociate(S, bp) ==
  IF ~Dead(S.buf[bp]) THEN S
  ELSE LET S1 == IF "ERROR" \in S.buf[bp].flags
                 THEN SetFlags(S, bp, {"INVAL"}, {}) ELSE S
       IN  [SetFlags(S1, bp, {}, {"DELWRI"}) EXCEPT !.buf[bp].block = None]

Requeue(S, bp) ==
  LET b == S.buf[bp]
  IN  CASE b.size = 0 -> [S EXCEPT !.free["EMPTY"] = <<bp>> \o @]
        [] b.size # 0 /\ Dead(b) -> [S EXCEPT !.free["AGE"] = <<bp>> \o @]
        [] ~Dead(b) /\ "AGE" \in b.flags ->
             [S EXCEPT !.free["AGE"] = Append(@, bp)]
        [] ~Dead(b) /\ "AGE" \notin b.flags ->
             [S EXCEPT !.free["LRU"] = Append(@, bp)]

Brelse(S, bp) ==
  SetFlags(Requeue(Disassociate(WakeForRelease(S, bp), bp), bp), bp,
           {}, {"WANTED", "BUSY", "ASYNC", "AGE"})

(* bwrite() up to VOP_STRATEGY(); of a delayed write that is asynchronous  *)
(* it sets B_AGE, here before and not after the driver has it: which list  *)
(* the buffer goes to is all that it decides.                              *)
StartWrite(S, bp) ==
  LET aged == {"ASYNC", "DELWRI"} \subseteq S.buf[bp].flags
  IN  SetFlags(S, bp, IF aged THEN {"AGE"} ELSE {},
               {"READ", "DONE", "ERROR", "DELWRI"})

Sleep(S, p, chan) == [S EXCEPT !.slp[p] = chan]

-----------------------------------------------------------------------------
Runs(p, where) == /\ pc[p] = where
                  /\ slp[p] = None
                  /\ cpu \in {None, p}

Goto(p, where) == pc' = [pc EXCEPT ![p] = where]

(* getnewbuf(): the buffers it may settle on, in the order of its search.  *)
(* It skips delayed writes of locked vnodes, and takes the first buffer if *)
(* it has skipped them all.                                                *)
Candidates ==
  LET q == free["AGE"] \o free["LRU"]
  IN  {q[i] : i \in {k \in DOMAIN q :
                       \A j \in 1 .. (k - 1) : "DELWRI" \in buf[q[j]].flags}}

(* No buffer is free: sleep until one is, and go back.                     *)
GetnewbufNone(p, back) ==
  /\ Becomes(Sleep([Now EXCEPT !.need = TRUE], p, NeedBuffer))
  /\ Goto(p, back) /\ cpu' = None
  /\ UNCHANGED <<io, want, how, held>>

(* A delayed write is started, and the search starts again; the strategy   *)
(* routine of a remote file system may sleep meanwhile.                    *)
GetnewbufDirty(p, bp) ==
  /\ Becomes(StartWrite(SetFlags(Bremfree(Now, bp), bp,
                                 {"BUSY", "ASYNC"}, {}), bp))
  /\ io' = io \cup {bp}
  /\ cpu' \in {p} \cup (IF Sleepy THEN {None} ELSE {})
  /\ UNCHANGED local

(* A clean buffer leaves its vnode and is the caller's.                    *)
Taken(S, bp) ==
  [Bremfree(S, bp) EXCEPT !.buf[bp].flags = {"BUSY"}, !.buf[bp].block = None]

-----------------------------------------------------------------------------
(* What processes do.                                                      *)

(* bread(), getblk() or the read-ahead of breadn(), which does nothing for *)
(* a block that is incore().                                               *)
Start(p, b, h) ==
  /\ Runs(p, "idle")
  /\ h = "ahead" => \A bp \in Buf : buf[bp].block # b
  /\ want' = [want EXCEPT ![p] = b]
  /\ how' = [how EXCEPT ![p] = h]
  /\ Goto(p, "getblk") /\ cpu' = p
  /\ UNCHANGED <<state, io, disk, held, content, seen>>

BugGetblkBusy(p, bp) ==
  /\ Becomes(Sleep(Now, p, bp))
  /\ cpu' = None
  /\ UNCHANGED local

GetblkBusy(p, bp) ==
  /\ Becomes(Sleep(SetFlags(Now, bp, {"WANTED"}, {}), p, bp))
  /\ cpu' = None
  /\ UNCHANGED local

(* getblk(): the search of the hash chain.                                 *)
Getblk(p) ==
  /\ Runs(p, "getblk")
  /\ \/ \E bp \in Buf : /\ buf[bp].block = want[p]
                        /\ "BUSY" \in buf[bp].flags
                        /\ GetblkBusy(p, bp)
     \/ \E bp \in Buf : /\ buf[bp].block = want[p]
                        /\ "BUSY" \notin buf[bp].flags
                        /\ Becomes(SetFlags(Bremfree(Now, bp), bp,
                                            {"BUSY"}, {}))
                        /\ held' = [held EXCEPT ![p] = bp]
                        /\ Goto(p, "got") /\ cpu' = p
                        /\ UNCHANGED <<want, how>>
     \/ /\ \A bp \in Buf : buf[bp].block # want[p]
        /\ Goto(p, "newbuf") /\ cpu' = p
        /\ UNCHANGED <<state, want, how, held>>
  /\ UNCHANGED <<io, disk, content, seen>>

BugRetry == "newbuf"

(* Where getblk() goes on after a sleep in getnewbuf().                    *)
Retry == "getblk"

(* getblk(): a buffer for a block that has none.                           *)
Newbuf(p) ==
  /\ Runs(p, "newbuf")
  /\ \/ Candidates = {} /\ GetnewbufNone(p, Retry)
     \/ \E bp \in Candidates :
          "DELWRI" \in buf[bp].flags /\ GetnewbufDirty(p, bp)
     \/ \E bp \in Candidates :
          /\ "DELWRI" \notin buf[bp].flags
          /\ Becomes([Taken(Now, bp) EXCEPT !.buf[bp].block = want[p]])
          /\ held' = [held EXCEPT ![p] = bp]
          /\ Goto(p, "alloc") /\ cpu' = p
          /\ UNCHANGED <<io, want, how>>
  /\ UNCHANGED <<disk, content, seen>>

BugShrink(p) ==
  /\ buf[held[p]].size > SizeOf[want[p]]
  /\ Becomes([Now EXCEPT !.buf[held[p]].size = SizeOf[want[p]]])
  /\ Goto(p, "got") /\ cpu' = p
  /\ UNCHANGED <<io, want, how, held>>

(* allocbuf(): the excess goes to a header of BQ_EMPTY, if there is one.   *)
Shrink(p) ==
  LET bp == held[p]
      size == SizeOf[want[p]]
      ep == Head(free["EMPTY"])
      S == [Bremfree(Now, ep) EXCEPT
              !.buf[ep].size = buf[bp].size - size,
              !.buf[ep].flags = @ \cup {"BUSY", "INVAL"},
              !.buf[bp].size = size]
  IN  /\ buf[bp].size > size
      /\ \/ free["EMPTY"] = <<>> /\ UNCHANGED state
         \/ free["EMPTY"] # <<>> /\ Becomes(Brelse(S, ep))
      /\ Goto(p, "got") /\ cpu' = p
      /\ UNCHANGED <<io, want, how, held>>

(* The pages that allocbuf() takes out of another buffer.                  *)
TakePages(p, bp) ==
  LET tp == held[p]
      take == Min({SizeOf[want[p]] - buf[tp].size, buf[bp].size})
      S == [Taken(Now, bp) EXCEPT !.buf[tp].size = @ + take,
                                  !.buf[bp].size = @ - take]
  IN  IF S.buf[bp].size = 0 THEN SetFlags(S, bp, {"INVAL"}, {}) ELSE S

Grow(p) ==
  /\ buf[held[p]].size < SizeOf[want[p]]
  /\ \/ Candidates = {} /\ GetnewbufNone(p, "alloc")
     \/ \E bp \in Candidates :
          "DELWRI" \in buf[bp].flags /\ GetnewbufDirty(p, bp)
     \/ \E bp \in Candidates :
          /\ "DELWRI" \notin buf[bp].flags
          /\ Becomes(Brelse(TakePages(p, bp), bp))
          /\ cpu' = p
          /\ UNCHANGED <<io, local>>

Allocbuf(p) ==
  /\ Runs(p, "alloc")
  /\ \/ Shrink(p)
     \/ Grow(p)
     \/ /\ buf[held[p]].size = SizeOf[want[p]]
        /\ Goto(p, "got") /\ cpu' = p
        /\ UNCHANGED <<state, io, want, how, held>>
  /\ UNCHANGED <<disk, content, seen>>

BugFilled(bp) == "INVAL" \notin buf[bp].flags

(* bread() need not read.                                                  *)
Filled(bp) == buf[bp].flags \cap {"DONE", "DELWRI"} # {}

(* The caller has the buffer, and bread() has its content.                 *)
Use(p) ==
  /\ Goto(p, "use") /\ cpu' = None
  /\ seen' = [seen EXCEPT ![p] = IF how[p] = "bread" THEN buf[held[p]].data
                                 ELSE @]
  /\ UNCHANGED <<want, how, held>>

Leave(p) == /\ Goto(p, "idle") /\ cpu' = None
            /\ held' = [held EXCEPT ![p] = None]
            /\ want' = [want EXCEPT ![p] = None]
            /\ how' = [how EXCEPT ![p] = "none"]
            /\ seen' = [seen EXCEPT ![p] = None]

(* getblk() has returned, to bread() or breadn() in two cases of three.    *)
Got(p) ==
  LET bp == held[p]
  IN  /\ Runs(p, "got")
      /\ \/ /\ how[p] = "getblk" \/ (how[p] = "bread" /\ Filled(bp))
            /\ Use(p)
            /\ UNCHANGED <<state, io>>
         \/ /\ how[p] = "bread" /\ ~Filled(bp)
            /\ Becomes(Sleep(SetFlags(Now, bp, {"READ"}, {}), p, bp))
            /\ io' = io \cup {bp}
            /\ Goto(p, "biowait") /\ cpu' = None
            /\ UNCHANGED <<want, how, held, seen>>
         \/ /\ how[p] = "ahead" /\ Filled(bp)
            /\ Becomes(Brelse(Now, bp))
            /\ Leave(p)
            /\ UNCHANGED io
         \/ /\ how[p] = "ahead" /\ ~Filled(bp)
            /\ Becomes(SetFlags(Now, bp, {"READ", "ASYNC"}, {}))
            /\ io' = io \cup {bp}
            /\ Leave(p)
      /\ UNCHANGED <<disk, content>>

(* biowait() in bread(): its caller releases a buffer with an error.       *)
Read(p) ==
  /\ Runs(p, "biowait") /\ "DONE" \in buf[held[p]].flags
  /\ \/ /\ "ERROR" \notin buf[held[p]].flags
        /\ Use(p)
        /\ UNCHANGED state
     \/ /\ "ERROR" \in buf[held[p]].flags
        /\ Becomes(Brelse(Now, held[p]))
        /\ Leave(p)
  /\ UNCHANGED <<io, disk, content>>

(* The caller is done with the buffer and has not changed it.              *)
Release(p) ==
  /\ Runs(p, "use")
  /\ Becomes(Brelse(Now, held[p]))
  /\ Leave(p)
  /\ UNCHANGED <<io, disk, content>>

(* It has filled the buffer with v.                                        *)
Fill(S, bp, v) == [S EXCEPT !.buf[bp].data = v]

Written(p, v) == content' = [content EXCEPT ![want[p]] = v]

Bdwrite(p, v) ==
  /\ Runs(p, "use")
  /\ Becomes(Brelse(SetFlags(Fill(Now, held[p], v), held[p],
                             {"DONE", "DELWRI"}, {}), held[p]))
  /\ Leave(p) /\ Written(p, v)
  /\ UNCHANGED <<io, disk>>

Bawrite(p, v) ==
  /\ Runs(p, "use")
  /\ Becomes(StartWrite(SetFlags(Fill(Now, held[p], v), held[p],
                                 {"ASYNC"}, {}), held[p]))
  /\ io' = io \cup {held[p]}
  /\ Leave(p) /\ Written(p, v)
  /\ UNCHANGED disk

Bwrite(p, v) ==
  /\ Runs(p, "use")
  /\ Becomes(Sleep(StartWrite(Fill(Now, held[p], v), held[p]), p, held[p]))
  /\ io' = io \cup {held[p]}
  /\ Goto(p, "bwrite") /\ cpu' = None /\ Written(p, v)
  /\ seen' = [seen EXCEPT ![p] = None]
  /\ UNCHANGED <<want, how, held, disk>>

(* bwrite() after biowait().                                               *)
BwriteDone(p) ==
  /\ Runs(p, "bwrite") /\ "DONE" \in buf[held[p]].flags
  /\ Becomes(Brelse(Now, held[p]))
  /\ Leave(p)
  /\ UNCHANGED <<io, disk, content>>

Complete(S, bp) ==
  IF "ASYNC" \in S.buf[bp].flags THEN Brelse(S, bp)
  ELSE Wakeup(SetFlags(S, bp, {}, {"WANTED"}), bp)

(* The driver has done a read or a write and calls biodone().              *)
Biodone(bp) ==
  LET read == "READ" \in buf[bp].flags
      b == buf[bp].block
  IN  /\ bp \in io
      /\ io' = io \ {bp}
      /\ \/ /\ read
            /\ Becomes(Complete(SetFlags(Fill(Now, bp, disk[b]), bp,
                                         {"DONE"}, {}), bp))
            /\ UNCHANGED disk
         \/ /\ read /\ ReadErrors
            /\ Becomes(Complete(SetFlags(Now, bp, {"DONE", "ERROR"}, {}), bp))
            /\ UNCHANGED disk
         \/ /\ ~read
            /\ Becomes(Complete(SetFlags(Now, bp, {"DONE"}, {}), bp))
            /\ disk' = [disk EXCEPT ![b] = buf[bp].data]
      /\ UNCHANGED <<local, cpu, content, seen>>

-----------------------------------------------------------------------------
(* bufinit(): every buffer at the head of BQ_AGE, without information.     *)
Init ==
  /\ \E v \in Val :
       /\ disk = [b \in Block |-> v] /\ content = disk
       /\ buf = [bp \in Buf |-> [block |-> None, flags |-> {"INVAL"},
                                 size |-> Pages, data |-> v]]
  /\ \E order \in SetToAllKPermutations(Buf) :
       /\ Len(order) = Cardinality(Buf)
       /\ free = [q \in {"LRU", "AGE", "EMPTY"} |->
                    IF q = "AGE" THEN order ELSE <<>>]
  /\ need = FALSE /\ io = {} /\ cpu = None
  /\ slp = [p \in Proc |-> None] /\ pc = [p \in Proc |-> "idle"]
  /\ want = [p \in Proc |-> None] /\ how = [p \in Proc |-> "none"]
  /\ held = [p \in Proc |-> None]
  /\ seen = [p \in Proc |-> None]

Next ==
  \/ \E bp \in Buf : Biodone(bp)
  \/ \E p \in Proc :
       \/ \E b \in Block, h \in {"bread", "getblk", "ahead"} : Start(p, b, h)
       \/ Getblk(p) \/ Newbuf(p) \/ Allocbuf(p) \/ Got(p) \/ Read(p)
       \/ Release(p) \/ BwriteDone(p)
       \/ \E v \in Val : Bdwrite(p, v) \/ Bawrite(p, v) \/ Bwrite(p, v)

Spec == Init /\ [][Next]_vars

-----------------------------------------------------------------------------
(* A block has one buffer: what getblk() finds on the hash chain is what   *)
(* everybody else has found there (vfs_bio.c: "there is a slight chance    *)
(* that more than one process will try and getnewbuf() for the same block  *)
(* concurrently").                                                         *)
OneBufferPerBlock ==
  \A a, b \in Buf : a # b /\ buf[a].block # None => buf[a].block # buf[b].block

(* The free lists have every buffer that is not busy, once.                *)
ListsExact ==
  LET all == free["LRU"] \o free["AGE"] \o free["EMPTY"]
  IN  /\ IsInjective(all)
      /\ ToSet(all) = {bp \in Buf : "BUSY" \notin buf[bp].flags}

(* Pages are moved between buffers and never lost.                         *)
PagesKept ==
  FoldFunction(+, 0, [bp \in Buf |-> buf[bp].size]) = Pages * Cardinality(Buf)

(* A busy buffer has one owner: a process, or the I/O that will release it.*)
OwnersExact ==
  /\ \A p, q \in Proc : p # q /\ held[p] # None => held[p] # held[q]
  /\ \A p \in Proc : held[p] # None =>
       {"BUSY", "ASYNC"} \cap buf[held[p]].flags = {"BUSY"}
  /\ \A bp \in Buf : "BUSY" \in buf[bp].flags =>
       \/ \E p \in Proc : held[p] = bp
       \/ bp \in io /\ "ASYNC" \in buf[bp].flags

(* A buffer is on exactly one free list or is busy: bremfree() panics if   *)
(* it is on none, and two would give it to two processes; and no buffer    *)
(* stays busy that nobody will release.                                    *)
FreeListsExact == TypeOK /\ ListsExact /\ PagesKept /\ OwnersExact

(* Who sleeps will be woken: for a buffer by its release or by the end of  *)
(* its I/O, for any buffer by the next release, and only while there is    *)
(* none that getnewbuf() would take.                                       *)
SleepersWillWake ==
  \A p \in Proc :
    /\ slp[p] = NeedBuffer => need /\ free["LRU"] = <<>> /\ free["AGE"] = <<>>
    /\ slp[p] \in Buf =>
         \/ slp[p] \in io /\ "ASYNC" \notin buf[slp[p]].flags
         \/ {"BUSY", "WANTED"} \subseteq buf[slp[p]].flags

(* The cache is the store that BlockStore describes: bread() gives what    *)
(* was last written, whatever was evicted, read ahead, flushed and         *)
(* resized on the way.                                                     *)
Store == INSTANCE BlockStore
ImplementsBlockStore == Store!Spec
=============================================================================
