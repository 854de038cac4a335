-------------------------------- MODULE Vnode --------------------------------
(***************************************************************************)
(* The life of a vnode, from sys/kern/vfs_subr.c, with what a file system  *)
(* does around it (ffs_vget(), the inode hash, ufs_inactive(),             *)
(* ufs_reclaim()) and the capability numbers of the name cache. A vnode    *)
(* nobody refers to goes to the free list with its inode, may be found     *)
(* again there, and may be cleaned out for another inode; one in use may   *)
(* be revoked. A process keeps the CPU until it sleeps: each action is     *)
(* what it does from one sleep to the next. The lock of an inode is what   *)
(* Lockmgr promises of an exclusive lock and of LK_DRAIN. A file has one   *)
(* name, in a directory of its own that is locked where ufs_lookup() and   *)
(* rmdir(2) lock it, and no inode number is given to another file.         *)
(* Definitions called Bug... are variants of the one that follows.         *)
(***************************************************************************)
EXTENDS Integers, SequencesExt, FiniteSets

CONSTANTS
  Proc,
  Vnode,      \* those there may ever be
  Inode,
  None,
  Desired     \* desiredvnodes

ASSUME VnodeAssumption ==
  /\ None \notin Proc \cup Vnode \cup Inode
  /\ IsFiniteSet(Proc)
  /\ Desired \in Nat

VARIABLES
  born,       \* vnodes that were ever allocated (numvnodes)
  use,        \* v_usecount
  xlock,      \* VXLOCK
  free,       \* vnode_free_list
  inode,      \* the inode of a vnode that is in the inode hash, else None
  link,       \* of a vnode's inode: "unread", with i_mode 0, "named", or
              \* "none", when its last name was removed
  named,      \* the inodes whose name is in its directory
  holder,     \* who holds the lock in the inode
  cached,     \* the vnode that the name of a file leads to in the name cache
  pc          \* what each process does

vars == <<born, use, xlock, free, inode, link, named, holder, cached, pc>>

(* A process does something (at) with a vnode, for an inode. `byname` says *)
(* that the name cache led it there, `fresh` that the capability number it *)
(* noted is still that of the vnode. `dir` says that it searched or still  *)
(* searches the directory for the name, `next` what follows when a vnode   *)
(* is clean, `active` whether vclean() found it in use.                    *)
Doing(at, v, i) ==
  [at |-> at, v |-> v, i |-> i, byname |-> FALSE, fresh |-> FALSE,
   dir |-> FALSE, next |-> "idle", active |-> FALSE]

Idle == Doing("idle", None, None)

At(p, at) == pc[p].at = at

(* The processes in the lock manager for v.                                *)
Waiting(v) == {p \in Proc : pc[p].at \in {"lock", "relock", "rele"} /\ pc[p].v = v}

Init ==
  /\ born = {} /\ free = <<>>
  /\ use = [v \in Vnode |-> 0] /\ xlock = [v \in Vnode |-> FALSE]
  /\ inode = [v \in Vnode |-> None] /\ link = [v \in Vnode |-> "unread"]
  /\ named = Inode
  /\ holder = [v \in Vnode |-> None]
  /\ cached = [i \in Inode |-> None]
  /\ pc = [p \in Proc |-> Idle]

-----------------------------------------------------------------------------
(* The directory of i's name is locked, by whoever looks the name up until *)
(* it has the vnode.                                                       *)
Searched(i) == \E p \in Proc : pc[p].dir /\ pc[p].i = i /\ ~At(p, "have")

(* A lookup in the directory finds i there; one by a file handle, or "..", *)
(* for which the directory is unlocked, comes without it.                  *)
Lookup(i, dir) == dir => i \in named /\ ~Searched(i)

(* vget(): sleep while the vnode is being cleaned, and fail then; else     *)
(* count the reference, take the vnode off the free list and lock it.      *)
Vget(p, v, do) ==
  /\ IF xlock[v]
     THEN /\ pc' = [pc EXCEPT ![p] = Doing("clean?", v, None)]
          /\ UNCHANGED <<use, free, holder>>
     ELSE /\ use' = [use EXCEPT ![v] = @ + 1]
          /\ free' = RemoveFirst(free, v)
          /\ IF holder[v] = None
             THEN /\ holder' = [holder EXCEPT ![v] = p]
                  /\ pc' = [pc EXCEPT ![p] = [do EXCEPT !.at = "have", !.fresh = FALSE]]
             ELSE /\ pc' = [pc EXCEPT ![p] = do]
                  /\ UNCHANGED holder
  /\ UNCHANGED <<born, xlock, inode, link, named, cached>>

(* A name that is in the cache: an entry for a vnode that was purged since *)
(* is none.                                                                *)
CacheLookup(p, i) ==
  /\ At(p, "idle") /\ cached[i] # None
  /\ \E dir \in BOOLEAN :
       /\ Lookup(i, dir)
       /\ Vget(p, cached[i],
               [Doing("lock", cached[i], i) EXCEPT !.byname = TRUE, !.fresh = TRUE,
                                                   !.dir = dir])

(* ffs_vget() of an inode that is in the hash.                             *)
HashLookup(p, i) ==
  /\ At(p, "idle")
  /\ \E dir \in BOOLEAN, v \in Vnode :
       /\ Lookup(i, dir) /\ inode[v] = i
       /\ Vget(p, v, [Doing("lock", v, i) EXCEPT !.dir = dir])

(* The lock is free, and p is the one who takes it. Who came by the name   *)
(* cache compares the capability numbers.                                  *)
BugGranted(do) == IF do.at = "rele" THEN "inactive" ELSE "have"

Granted(do) ==
  CASE do.at = "rele" -> "inactive"
    [] do.at = "lock" /\ do.byname /\ ~do.fresh -> "stale"
    [] OTHER -> "have"

Locked(p) ==
  /\ At(p, "lock") \/ At(p, "relock") \/ At(p, "rele")
  /\ holder[pc[p].v] = None
  /\ holder' = [holder EXCEPT ![pc[p].v] = p]
  /\ pc' = [pc EXCEPT ![p].at = Granted(pc[p]), ![p].fresh = FALSE]
  /\ UNCHANGED <<born, use, xlock, free, inode, link, named, cached>>

-----------------------------------------------------------------------------
(* Cleaning.                                                               *)

(* vgonel() with the start of vclean(), for p, which goes on with `next`.  *)
Vgonel(p, v, i, next, dir) ==
  IF xlock[v]
  THEN /\ pc' = [pc EXCEPT ![p] = [Doing("clean?", v, i) EXCEPT !.next = next,
                                                                !.dir = dir]]
       /\ UNCHANGED <<use, xlock>>
  ELSE /\ use' = [use EXCEPT ![v] = IF @ > 0 THEN @ + 1 ELSE @]
       /\ xlock' = [xlock EXCEPT ![v] = TRUE]
       /\ pc' = [pc EXCEPT ![p] = [Doing("drain", v, i) EXCEPT
                     !.next = next, !.dir = dir, !.active = use[v] > 0]]

(* LK_DRAIN: nobody holds the lock and nobody waits for it.                *)
BugDrained(v) == holder[v] = None

Drained(v) == holder[v] = None /\ Waiting(v) = {}

(* The lock is drained; the buffers are written and thrown away, and the   *)
(* file is closed and made inactive if it was in use: p sleeps.            *)
Drain(p) ==
  /\ At(p, "drain") /\ Drained(pc[p].v)
  /\ holder' = [holder EXCEPT ![pc[p].v] = p]
  /\ pc' = [pc EXCEPT ![p].at = "clean"]
  /\ UNCHANGED <<born, use, xlock, free, inode, link, named, cached>>

(* cache_purge(): another capability number, which leaves the entries of   *)
(* the cache and the numbers that processes noted behind.                  *)
Purged(v, c) == [i \in Inode |-> IF c[i] = v THEN None ELSE c[i]]

Outdated(v, ps) == [p \in Proc |-> IF ps[p].v = v THEN [ps[p] EXCEPT !.fresh = FALSE]
                                   ELSE ps[p]]

(* What a process that slept does when the vnode is clean: it fails, or    *)
(* goes on with what it wanted the vnode cleaned for.                      *)
After(do) ==
  CASE do.next = "fill" -> [Doing("fill", do.v, do.i) EXCEPT !.dir = do.dir]
    [] do.next = "ref" -> Doing("ref", do.v, do.i)
    [] do.next = "idle" -> Idle

(* An unused vnode goes to the head of the free list, but not one that     *)
(* getnewvnode() has taken off it.                                         *)
BugToHead(v) == IF use[v] = 0 THEN <<v>> \o RemoveFirst(free, v) ELSE free

ToHead(v) == IF v \in ToSet(free) THEN <<v>> \o RemoveFirst(free, v) ELSE free

(* Those who get on when p is through with v: VXWANT is set by whoever     *)
(* goes to sleep.                                                          *)
BugWoken(p, v) == {p}

Woken(p, v) == {p} \cup {q \in Proc : At(q, "clean?") /\ pc[q].v = v}

(* The end of vclean() and of vgonel(): the inode is reclaimed and its     *)
(* lock with it, the vnode is dead, and whoever waited for that is woken.  *)
(* The reference that vclean() took is given up before: if it is the last, *)
(* vrele() waits for the vnode to be clean.                                *)
Cleaned(p) ==
  LET v == pc[p].v
      last == pc[p].active /\ use[v] = 1
  IN /\ At(p, "clean")
     /\ holder' = [holder EXCEPT ![v] = None]
     /\ inode' = [inode EXCEPT ![v] = None]
     /\ link' = [link EXCEPT ![v] = "unread"]
     /\ cached' = Purged(v, cached)
     /\ IF pc[p].active THEN use' = [use EXCEPT ![v] = @ - 1] ELSE UNCHANGED use
     /\ IF last
        THEN /\ pc' = Outdated(v, [pc EXCEPT ![p] = Doing("itself", v, None)])
             /\ free' = Append(free, v)
             /\ UNCHANGED xlock
        ELSE /\ xlock' = [xlock EXCEPT ![v] = FALSE]
             /\ pc' = Outdated(v, [q \in Proc |->
                        IF q \in Woken(p, v) THEN After(pc[q]) ELSE pc[q]])
             /\ free' = ToHead(v)
     /\ UNCHANGED <<born, named>>

(* The vnodes of a mounted file system: getnewvnode() puts a vnode there   *)
(* before it has its inode, and vgonel() takes it away at its end.         *)
HalfMade(v) == \E p \in Proc : At(p, "new") /\ pc[p].v = v

OnMount(v) ==
  inode[v] # None \/ HalfMade(v) \/ \E p \in Proc : At(p, "itself") /\ pc[p].v = v

(* Anybody with a reference may revoke the file; unmount -f, or the        *)
(* unmounting of a file system whose files nobody uses, cleans them all.   *)
Revoke(p) ==
  /\ At(p, "ref") /\ use[pc[p].v] > 1 /\ inode[pc[p].v] # None
  /\ Vgonel(p, pc[p].v, pc[p].i, "ref", FALSE)
  /\ UNCHANGED <<born, free, inode, link, named, holder, cached>>

Vflush(p) ==
  /\ At(p, "idle")
  /\ \E v \in Vnode : OnMount(v) /\ Vgonel(p, v, None, "idle", FALSE)
  /\ UNCHANGED <<born, free, inode, link, named, holder, cached>>

(* vclean() is about to drain a lock in an inode that is not there, which  *)
(* is at address 0 then: there is no saying what the kernel does next, and *)
(* the model ends there.                                                   *)
Wild == \E p \in Proc : At(p, "drain") /\ inode[pc[p].v] = None

-----------------------------------------------------------------------------
(* ffs_vget() of an inode that is in no vnode. The hash was searched       *)
(* before, and is not searched again after the sleeps.                     *)

(* getnewvnode() allocates a vnode ("malloc"), or takes the first one of   *)
(* the free list and cleans it out if it is not dead.                      *)
Getnewvnode(p, i, dir) ==
  /\ At(p, "idle") /\ \A v \in Vnode : inode[v] # i
  /\ Lookup(i, dir)
  /\ \/ /\ \/ Cardinality(born) < Desired
           \/ free = <<>> /\ Cardinality(born) < 2 * Desired
        /\ pc' = [pc EXCEPT ![p] = [Doing("malloc", None, i) EXCEPT !.dir = dir]]
        /\ UNCHANGED <<use, xlock, free>>
     \/ /\ Cardinality(born) >= Desired /\ free # <<>>
        /\ free' = Tail(free)
        /\ IF inode[Head(free)] = None /\ ~xlock[Head(free)]
           THEN /\ pc' = [pc EXCEPT ![p] = [Doing("fill", Head(free), i) EXCEPT !.dir = dir]]
                /\ UNCHANGED <<use, xlock>>
           ELSE Vgonel(p, Head(free), i, "fill", dir)
  /\ UNCHANGED <<born, inode, link, named, holder, cached>>

Malloced(p) ==
  /\ At(p, "malloc")
  /\ \E v \in Vnode \ born : /\ born' = born \cup {v}
                             /\ pc' = [pc EXCEPT ![p].at = "fill", ![p].v = v]
  /\ UNCHANGED <<use, xlock, free, inode, link, named, holder, cached>>

(* The end of getnewvnode(): the vnode gets its mount and its reference,   *)
(* and p sleeps for the memory of the inode.                               *)
Fill(p) ==
  LET v == pc[p].v
  IN /\ At(p, "fill")
     /\ use' = [use EXCEPT ![v] = 1]
     /\ cached' = Purged(v, cached)
     /\ pc' = Outdated(v, [pc EXCEPT ![p].at = "new"])
     /\ UNCHANGED <<born, xlock, free, inode, link, named, holder>>

(* The inode goes to the hash and is locked, and is read from the disk     *)
(* then.                                                                   *)
Ihashins(p) ==
  LET v == pc[p].v
  IN /\ At(p, "new")
     /\ inode' = [inode EXCEPT ![v] = pc[p].i]
     /\ link' = [link EXCEPT ![v] = "unread"]
     /\ holder' = [holder EXCEPT ![v] = p]
     /\ pc' = [pc EXCEPT ![p].at = "read"]
     /\ UNCHANGED <<born, use, xlock, free, named, cached>>

Read(p) ==
  /\ At(p, "read")
  /\ link' = [link EXCEPT ![pc[p].v] = IF pc[p].i \in named THEN "named" ELSE "none"]
  /\ pc' = [pc EXCEPT ![p].at = "have"]
  /\ UNCHANGED <<born, use, xlock, free, inode, named, holder, cached>>

ReadFails(p) ==
  /\ At(p, "read")
  /\ pc' = [pc EXCEPT ![p].at = "stale"]
  /\ UNCHANGED <<born, use, xlock, free, inode, link, named, holder, cached>>

-----------------------------------------------------------------------------
(* What is done with a vnode, and giving it up.                            *)
HasLocked(p) == At(p, "have") /\ holder[pc[p].v] = p

(* The end of a lookup that found the name in the directory.               *)
CacheEnter(p) ==
  /\ HasLocked(p) /\ pc[p].dir /\ ~pc[p].byname
  /\ cached' = [cached EXCEPT ![pc[p].i] = pc[p].v]
  /\ UNCHANGED <<born, use, xlock, free, inode, link, named, holder, pc>>

(* rmdir(2) of a directory (v_type), by a lookup that left the one its     *)
(* name is in locked: the name goes, and what the cache knows of both.     *)
Rmdir(p) ==
  LET v == pc[p].v
      i == pc[p].i
  IN /\ HasLocked(p) /\ link[v] = "named" /\ pc[p].dir /\ ~Searched(i)
     /\ i \in named /\ named' = named \ {i}
     /\ link' = [link EXCEPT ![v] = "none"]
     /\ cached' = [Purged(v, cached) EXCEPT ![i] = None]
     /\ pc' = Outdated(v, [pc EXCEPT ![p].byname = FALSE, ![p].dir = FALSE])
     /\ UNCHANGED <<born, use, xlock, free, inode, holder>>

Released(v, p) == [holder EXCEPT ![v] = IF @ = p THEN None ELSE @]

Unlock(p) ==
  /\ At(p, "have")
  /\ holder' = Released(pc[p].v, p)
  /\ pc' = [pc EXCEPT ![p] = Doing("ref", pc[p].v, pc[p].i)]
  /\ UNCHANGED <<born, use, xlock, free, inode, link, named, cached>>

(* vn_lock() by somebody with a reference. A dead vnode has no lock.       *)
Relock(p) ==
  LET v == pc[p].v
  IN /\ At(p, "ref")
     /\ IF xlock[v]
        THEN /\ pc' = [pc EXCEPT ![p] = [Doing("clean?", v, pc[p].i) EXCEPT !.next = "ref"]]
             /\ UNCHANGED holder
        ELSE IF inode[v] # None /\ holder[v] # None
        THEN pc' = [pc EXCEPT ![p].at = "relock"] /\ UNCHANGED holder
        ELSE /\ pc' = [pc EXCEPT ![p].at = "have"]
             /\ holder' = IF inode[v] = None THEN holder ELSE [holder EXCEPT ![v] = p]
     /\ UNCHANGED <<born, use, xlock, free, inode, link, named, cached>>

(* vput(): with the last reference the vnode goes to the free list, and is *)
(* made inactive there, still locked.                                      *)
Vput(p) ==
  LET v == pc[p].v
  IN /\ At(p, "have") \/ At(p, "stale")
     /\ use' = [use EXCEPT ![v] = @ - 1]
     /\ IF use[v] = 1
        THEN /\ free' = Append(free, v)
             /\ pc' = [pc EXCEPT ![p] = IF inode[v] = None THEN Idle
                                        ELSE Doing("inactive", v, None)]
             /\ UNCHANGED holder
        ELSE /\ holder' = Released(v, p)
             /\ pc' = [pc EXCEPT ![p] = Idle]
             /\ UNCHANGED free
     /\ UNCHANGED <<born, xlock, inode, link, named, cached>>

(* vrele(): the same without the lock, which is taken only to make the     *)
(* vnode inactive, after it went to the free list. (It is not being        *)
(* cleaned: whoever cleans a vnode in use has a reference, CountsExact.)   *)
Vrele(p) ==
  LET v == pc[p].v
      last == use[v] = 1
  IN /\ At(p, "ref")
     /\ use' = [use EXCEPT ![v] = @ - 1]
     /\ free' = IF last THEN Append(free, v) ELSE free
     /\ holder' = IF last /\ inode[v] # None /\ holder[v] = None
                  THEN [holder EXCEPT ![v] = p] ELSE holder
     /\ pc' = [pc EXCEPT ![p] =
                 CASE ~last \/ inode[v] = None -> Idle
                   [] last /\ inode[v] # None /\ holder[v] = None -> Doing("inactive", v, None)
                   [] last /\ inode[v] # None /\ holder[v] # None -> Doing("rele", v, None)]
     /\ UNCHANGED <<born, xlock, inode, link, named, cached>>

(* ufs_inactive() is over. Without a name the inode is recycled, unless    *)
(* somebody got the vnode in the meantime.                                 *)
Inactive(p) ==
  LET v == pc[p].v
  IN /\ At(p, "inactive")
     /\ holder' = [holder EXCEPT ![v] = None]
     /\ IF link[v] # "named" /\ use[v] = 0
        THEN Vgonel(p, v, None, "idle", FALSE)
        ELSE pc' = [pc EXCEPT ![p] = Idle] /\ UNCHANGED <<use, xlock>>
     /\ UNCHANGED <<born, free, inode, link, named, cached>>

-----------------------------------------------------------------------------
(* What a process in the kernel goes on with by itself, and what is up to  *)
(* the processes.                                                          *)
Run(p) ==
  \/ Locked(p) \/ Drain(p) \/ Cleaned(p) \/ Malloced(p) \/ Fill(p) \/ Ihashins(p)
  \/ Read(p) \/ ReadFails(p) \/ Vput(p) \/ Unlock(p) \/ Inactive(p)

Call(p) ==
  \/ \E i \in Inode : \/ CacheLookup(p, i) \/ HashLookup(p, i)
                      \/ \E dir \in BOOLEAN : Getnewvnode(p, i, dir)
  \/ Revoke(p) \/ Vflush(p) \/ CacheEnter(p) \/ Rmdir(p)
  \/ Relock(p) \/ Vrele(p)

Next == ~Wild /\ \E p \in Proc : Run(p) \/ Call(p)

Spec == Init /\ [][Next]_vars

FairSpec == Spec /\ \A p \in Proc : WF_vars(Run(p))

-----------------------------------------------------------------------------
(* Who refers to a vnode: those who got it, and a vclean() that found it   *)
(* in use, beside the reference of who called for it.                      *)
Refers(p) ==
  \/ pc[p].at \in {"lock", "have", "stale", "ref", "relock", "new", "read"}
  \/ pc[p].next = "ref"

References(v) ==
  Cardinality({p \in Proc : pc[p].v = v /\ Refers(p)})
  + Cardinality({p \in Proc : pc[p].v = v /\ pc[p].active})

(* A vnode that getnewvnode() took from the free list, or allocated.       *)
Taken(v) == \E p \in Proc : pc[p].v = v /\ (At(p, "fill") \/ pc[p].next = "fill")

(* The use count is the number of references at every moment, the free     *)
(* list has just the unused vnodes that nobody took, and what a lookup can *)
(* find is in use or there ("free vnode isn't", "vget: not on queue").     *)
CountsExact ==
  /\ \A v \in Vnode :
       /\ use[v] = References(v)
       /\ v \in ToSet(free) <=> v \in born /\ use[v] = 0 /\ ~Taken(v)
       /\ inode[v] # None /\ ~xlock[v] => v \in born /\ ~Taken(v)
       /\ xlock[v] <=> \E p \in Proc : pc[p].v = v /\ pc[p].at \in {"drain", "clean", "itself"}
       /\ Taken(v) => use[v] = 0
  /\ IsInjective(free)

(* The lock of an inode goes with the inode: nobody holds it, waits for it *)
(* or drains it when it is reclaimed, or comes by afterwards; but whoever  *)
(* unmounts may drain one in an inode that is not there yet.               *)
LockAlive ==
  \A v \in Vnode :
    /\ holder[v] # None \/ Waiting(v) # {} => inode[v] # None
    /\ (\E p \in Proc : At(p, "drain") /\ pc[p].v = v) => inode[v] # None \/ HalfMade(v)

(* Whoever came to a vnode for an inode has a vnode of that inode as long  *)
(* as it keeps it, or a dead one; with the lock, one that is alive. What a *)
(* name leads to, by the cache or by the directory, still had it when it   *)
(* was locked, and so has what the cache holds, if it could be read.       *)
RightFile ==
  \A p \in Proc :
    LET v == pc[p].v IN
    /\ pc[p].at \in {"lock", "have", "ref", "relock"} => inode[v] \in {pc[p].i, None}
    /\ At(p, "have") /\ holder[v] = p => inode[v] = pc[p].i
    /\ At(p, "have") /\ (pc[p].byname \/ pc[p].dir) => link[v] # "none"
    /\ \A i \in Inode : cached[i] # None =>
         inode[cached[i]] = i /\ link[cached[i]] # "none"

(* Every wait is for somebody who gets on by himself: who waits for a      *)
(* clean vnode, for somebody who cleans it; who waits for the lock, for a  *)
(* holder who does not clean; who drains it, for such a holder or for      *)
(* those who wait for the lock.                                            *)
Works(p) == pc[p].at \in {"have", "stale", "read", "inactive"}

WaitsForSomebody ==
  \A p \in Proc :
    LET v == pc[p].v IN
    /\ At(p, "clean?") =>
         \E q \in Proc : pc[q].v = v /\ pc[q].at \in {"drain", "clean", "itself"}
    /\ p \in Waiting(v) => holder[v] = None \/ Works(holder[v])
    /\ At(p, "drain") => Drained(v) \/ Waiting(v) # {} \/ Works(holder[v])

(* "Prevent the vnode from being recycled or brought into use while we     *)
(* clean it out", "its count cannot fall to zero", "The process is         *)
(* awakened when the transition is completed" (vfs_subr.c): whoever cleans *)
(* a vnode, or waits for that, gets on, where the model does not end.      *)
CleaningEnds ==
  \A v \in Vnode : xlock[v] ~> ~xlock[v] \/ Wild

(* "For active vnodes, it ensures that no other activity can occur while   *)
(* the underlying object is being cleaned out" (vfs_subr.c:1107): vclean() *)
(* drains the lock of an inode that is there.                              *)
LockThere == \A p \in Proc : At(p, "drain") => inode[pc[p].v] # None

(* "The inode does not contain anything useful, so it would be misleading  *)
(* to leave it on its hash chain. With mode still zero, it will be         *)
(* unlinked and returned to the free list by vput()" (ffs_vfsops.c:798):   *)
(* nobody gets an inode that could not be read.                            *)
NobodyHasUnread == \A p \in Proc : HasLocked(p) => link[pc[p].v] # "unread"

(* "Put it onto its hash chain and lock it so that other requests for this *)
(* inode will block if they arrive while we are sleeping waiting for old   *)
(* data structures to be purged" (ffs_vfsops.c): one vnode for an inode.   *)
OneVnode ==
  \A v, w \in Vnode : inode[v] # None /\ inode[v] = inode[w] => v = w
=============================================================================
