# A TLA+ development of the 4.4BSD kernel (csrg)

The repository is the CSRG source tree: the 4.4BSD-Lite2 kernel under `src/sys`,
its userland, its documentation and what it borrowed. The program whose logic is
worth specifying is the machine-independent kernel, and the modules here are
about its core: sleeping and waking, locks, timeouts, and what is built on them:
the buffer cache, file locks, `select()`, passed descriptors, the life of vnodes
and the request cache of the NFS server. Each definition names in `PROJECT.json` the lines of C it
stands for; the modules are meant to be read with that C beside them.

Contents: [the system](#the-system), [the modules](#the-modules),
[runs and bounds](#runs-and-bounds), [fairness](#fairness),
[what is proved](#what-is-proved),
[where code and documentation disagree](#where-code-and-documentation-disagree),
[what is only model-checked](#what-is-only-model-checked),
[hazards without a property](#hazards-without-a-property),
[what is not modelled](#what-is-not-modelled),
[what could follow](#what-could-follow).

## The system

Everything in this kernel that waits, waits in `tsleep()`. The kernel is not
preemptive: a process in it runs until it sleeps or goes back to user mode, and
only interrupts come in between; code that shares state with interrupts raises
the priority level (`splhigh`, `splbio`, `splclock`). So the atomic step of nearly
every model is *the code from one sleep to the next*, and what goes wrong goes
wrong between two sleeps, when what was read before one is used after it.

| part | state | operations | hard behaviour | what makes it correct |
|---|---|---|---|---|
| sleep, wakeup, job control (`kern_synch.c`, `kern_sig.c`) | sleep chains, `p_stat`, `p_wchan`, `P_SINTR`, `P_TIMEOUT`, `p_siglist` | `tsleep`, `wakeup`, `endtsleep`, `unsleep`, `setrunnable`, `psignal`, `issignal`, `stop` | a process can be on a sleep queue *and* stopped; wakeup, timeout, signal and SIGCONT race for it | nobody is lost on a chain; a timeout belongs to one sleep; the result tells what ended the sleep; a stopped process stays so until SIGCONT or SIGKILL |
| callouts (`kern_clock.c`) | list of tick differences | `timeout`, `untimeout`, `hardclock`, `softclock` | late soft clock, overdue entries, changes while the list is walked | it behaves as a bag of independent timers |
| lock manager (`kern_lock.c`) | flags, counts and holder of `struct lock` | the requests of `lockmgr`, `lockstatus`, `lockinit` | wakeups are hints; upgrades, drains, recursion and failing sleeps overlap | grants exclude each other; counts are exact; waiters are woken |
| buffer cache (`vfs_bio.c`) | hash chains, free lists, buffer flags, `needbuffer` | `getblk`, `bread`, `breadn`, `bwrite`, `bawrite`, `bdwrite`, `brelse`, `biowait`, `biodone` | I/O completes by interrupt; buffers are reused, flushed and resized under waiters | one buffer per block; no write lost; no sleeper forgotten |
| byte-range locks (`ufs_lockf.c`) | list of ranges of an inode, blocked lists | `lf_setlock`, `lf_clearlock`, `lf_getlock` | ranges split while others wait for them; cycles of waiters | a map from bytes to owners; no undetected cycle |
| select (`sys_generic.c`) | `si_pid`, `SI_COLL`, `P_SELECT`, `nselcoll` | `select`, `selscan`, `selrecord`, `selwakeup` | readiness between scan and sleep; collisions; a stopped or timed out selector | no ready descriptor is slept over |
| files and passed descriptors (`kern_descrip.c`, `uipc_usrreq.c`) | `f_count`, `f_msgcount`, rights in messages, `unp_gcing` | `unp_internalize`, `unp_externalize`, `closef`, `unp_gc` | cycles of sockets that hold each other; reentrant collection; a collector that sleeps | counts are exact; nothing reachable is freed, all garbage is |
| vnodes (`vfs_subr.c`, `vfs_cache.c`, `ffs_vfsops.c`) | use counts, free list, `VXLOCK`, inode hash, name cache | `getnewvnode`, `vget`, `vref`, `vput`, `vrele`, `vclean`, `vgone`, `vflush`, revoke | recycling races with lookup; the lock is drained while others want it | nobody holds a vnode that became another file |
| NFS server cache (`nfs_srvcache.c`) | entries in hash chains and an LRU list, `RC_LOCKED`, `RC_WANTED` | `nfsrv_getcache`, `nfsrv_updatecache`, `nfsrv_cleancache` | retransmission, loss, reordering, crash; reuse of entries in use | a request is done once; a retransmission is not dropped for nothing |
| processes (`kern_fork.c`, `kern_exit.c`) | process tree, zombies, pids | `fork`, `vfork`, `exit`, `wait4` | parent and child exit together; reparenting | every zombie is collected once |
| resource maps, `malloc` (`subr_rmap.c`, `kern_malloc.c`) | free extents, buckets | `rmalloc`, `rmfree` | coalescing, full maps | free numbers are a set |
| sockets and TCP (`uipc_socket*.c`, `netinet`) | queues, TCP control block | user requests, segments, timers | loss, reordering, simultaneous open and close | connection states agree |
| NFS leases and client (`nfs`) | leases, cached attributes | `nqsrv_getlease`, `nqnfs_callback` | expiry races | leases exclude |
| VM (`vm`) | maps, objects, pages | faults, copies, collapse | shadow chains | pages are found where they were put |

The first nine rows are modelled; `PROJECT.json` says of each what is and what
is not.

How they interact. `lockmgr()`, `getblk()`, `biowait()`, `lf_setlock()`,
`select()`, `vget()`, `nfsrv_getcache()` and `wait4()` all wait by `tsleep()` on an address and are woken by
`wakeup()` on it, which wakes *all* that sleep there: every one of them has to look
again at what it waited for. `selwakeup()` also takes one chosen process off its queue.
`tsleep()` uses one callout per sleeper with a
timeout, whose function `endtsleep()` runs from `softclock()`. Signals reach a
sleeper through `psignal()`, which changes the sleep queues directly. The buffer
cache relies on `lockmgr()` through `VOP_ISLOCKED()`, and `vclean()` on its drain.
Closing the last descriptor of a socket discards messages, which closes files, which may
start the collector, which closes files.

The models meet at these calls and each takes the others at their promise:
`Vnode` uses of the lock what `RWLock` promises (exclusion and a drain that waits
for holder and waiters), and what `Lockmgr` shows to implement it; `Select`,
`BufCache`, `Lockf` and `NfsCache` use a sleep that ends by a wakeup of its
channel, which is `SleepQueue`; `SleepQueue` uses a timer that fires once, which is
`Timers`.

## The modules

* `RWLock` (abstract), `Lockmgr`, `MCLockmgr`, `LockmgrProofs`
* `SleepQueue`, `MCSleepQueue`, `SleepQueueProofs`
* `Timers` (abstract), `Callout`
* `BlockStore` (abstract), `BufCache`, `MCBufCache`, `BufCacheProofs`
* `ByteLocks` (abstract), `Lockf`, `MCLockf`, `LockfProofs`
* `Select`
* `PassedRights` (abstract), `FdPassing`, `MCFdPassing`, `FdPassingProofs`
* `Vnode`, `MCVnode`, `VnodeProofs`
* `NfsCache`
* `SelectNfsProofs`: the proofs of `Select` and of `NfsCache`, which have nothing else to do with each other
* `ListLemmas`: what the proofs need to know of lists without repetition (append, insert at the head,
  remove, join, map), of lists put together from a list of lists, of folds and of sums. Used by
  `SleepQueueProofs`, `BufCacheProofs`, `VnodeProofs`, `FdPassingProofs` and `LockfProofs`.

An operator `BugX` before a definition `X` is a slip somebody might make there (a
dropped guard, a missing reset). No behaviour uses it; it is kept so that one can
put it in X's place and see the property it was written for fail.

### Lockmgr

One action is one run of `lockmgr()` between two sleeps; the interlock, and on the
uniprocessors that every port of this tree configures (`NCPUS` 1) the
non-preemptive kernel, makes it atomic. `lk` is the `struct lock`; `pc[p]` is
"idle" or the wait the process is in: the `ACQUIRE` loops of a shared request
("shared"), of an upgrade ("upgrade"), the first and the second of an exclusive
request ("excl1", "excl2"), or the drain loop ("drain"). A request is `Shared`,
`Downgrade`, `Upgrade`, `Exclusive`, `Release` or `Drain`; what happens after a
sleep is the `Resume...` of the wait. `asleep` is the set of processes on the
lock's two channels: `wakeup(lkp)` empties it of all but drainers, who sleep on the
address of the flags. A sleep may fail when a timeout is configured or `PCATCH` is
given (`SleepFails`), at any time, also after a wakeup. `shares` and `excl` record what callers were
granted: the code does not store them, and the properties compare the counters
with them. Callers keep to what `lock.h` asks of them (they release what they
hold, and do not ask for a lock they hold shared); `Gated` adds that nobody
starts a request beside a drain, which `lock.h` leaves to the caller.

`RWLock` is the lock of `lock.h`: who holds it shared, who exclusively and how
often, who has an accepted upgrade, whether it is drained. `ImplementsRWLock` maps
`lk` to it (`Upgrader` is the process in its "upgrade" wait).

### SleepQueue

One hash chain with its `sq_tailp`, all channels on it; `stat`, `wchan`,
`siglist` and the flags are the fields of `struct proc`. `pc` says where in
`tsleep()` a process is: switched out asleep, stopped by the first or second
`CURSIG` of `tsleep()` ("stop1", "stop2") or by the one before user mode ("stopu"),
or past a switch it skipped ("awake"). `TSleep` runs up to the switch with its
first signal check (`CheckThenSleep`), `Finish` from `resume:` to the return with
the second one; `ResumeFirst`, `ResumeSecond` and `ResumeUser` take a check up
again where SIGCONT (or SIGKILL) found it. `issignal()`'s loop is `First` (the
signal it comes to), `Swept` (what it has discarded on the way) and `StopFor`.
`Psignal` follows the switch of `psignal()` on `p_stat`: `LeftPending`,
`SignalSleeper`, `SignalStopped`. `ToUser` is the `CURSIG`/`postsig` loop of
`userret()`, taken from the hp300 port; all ports have the same loop. `Walk` is the
loop of `wakeup()` along the chain, which takes those that wait for its channel out through the
pointer it came by.

Two history variables: `woken` (a `wakeup()` found the process in this sleep) and
`last` (which of a default stop and SIGCONT was sent last).

### Callout and Timers

`Callout` keeps the list as the code does: `c_time` is a difference, entries that
are due stand at the head with their (zero or negative) lateness. `Timers` keeps a
bag of functions with the ticks left to each. `softclock()` lowers the priority to
call a function, so one iteration is one action and everything may happen between
two. The refinement says that inserting and removing anywhere leaves all other
times alone, that every entry comes nearer by one tick per tick, however late, and that
functions run in order, one at a time, never early and each once: `running` is the function
that `softclock()` has called, so that an entry that leaves the list because its function is called (`Timers!Fire`)
is not taken for one that `untimeout()` took away (`Cancel`), for which nothing runs.

### BufCache and BlockStore

A process goes through `getblk` (search of the hash chain), `newbuf`
(`getnewbuf()`), `alloc` (`allocbuf()`), `got` (back in `bread()` or `breadn()`),
`biowait`, `use` (the caller has the buffer) and `bwrite`. `cpu` names the process
that has not slept since its last step: only `Biodone`, the interrupt, comes
between its steps. `VOP_ISLOCKED()` in `getnewbuf()` may answer either way, which
makes `Candidates` the buffers its search may settle on. Memory is counted in
pages: `allocbuf()` moves pages between buffers (`Shrink`, `Grow`), and a buffer
without pages goes to `BQ_EMPTY`. `BlockStore` is one value per block:
`bread()` gives what was last written, wherever the block was meanwhile.

### Lockf and ByteLocks

`list` is `i_lockf` of one inode, each lock with the queue of requests blocked on
it. `Overlap` is the case number of `lf_findoverlap()`, `Met` the own locks its
search comes to. What `lf_setlock()` and `lf_clearlock()` do case by case is put
together from three operators: `Left` and `Right` are what remains of a lock of
which a request takes a part, and `Cut` is the list with all these remains and the
new lock in its place. `Granted` and `Cleared` are the two results, with those who
wake (`Wakes`) or go on waiting for the new lock (`Swallowed`). A request comes in (`Call`, with the `MALLOC` of `ufs_advlock()`); it is
taken (`Take`), refused with EDEADLK (`Refuse`) or goes to sleep (`Sleep`), at
first (`SetLock`) and after each wakeup (`Retry`). `Unlock` does what `Release` says. `Verdicts` is the walk along the
sleepers. When a lock swallows another, its waiters' `lf_next` still points to the one
that is freed: they are `stale`; a walk through one may come to any verdict, and one that a
signal ends while it is the last of its queue writes to freed memory (`wild`),
after which nothing is said. With `SplitSleeps` the `MALLOC` of a split in three
sleeps ("split").

`ByteLocks` is the map of `fcntl(2)`: for each owner and byte no lock, a shared or
an exclusive one, with the request that each process has under way (`ask`). A lock request sets its type on
just its own bytes, for its owner (`Set`), or changes nothing (`Refuse`); an unlock frees just its own bytes (`Clear`), and always
ends so; `flock()` gives a shared lock up before it waits for an exclusive one (`GiveUp`). Bytes beyond all ranges are one byte, `End`. The split of a shared
lock by an upgrade is kept from sleeping in the run that shows the refinement,
because it breaks it (disagreement 8).

### Select

`select()` goes round: it sets `P_SELECT` and notes `nselcoll` (`StartScan`), tests
the descriptors one by one (`Scan`: the test and `selrecord()` are one step, as the
routines behind `fo_select` raise the priority around both), and then returns or
sleeps (`EndScan`). Events (`Event`, with `Selwakeup`) come at every moment of the scan;
other processes only run when nobody scans. `moved` is the set of the processes
that scan and whose note of `nselcoll` is out of date, which needs no counter. A
sleep ends by an event, a timeout (`TimePasses` for the time itself, `Endtsleep` for
the callout), a signal, or goes on after a stop (`Stop`, `Cont`), as `SleepQueue` says.

### FdPassing and PassedRights

`count` and `msgcount` are `f_count` and `f_msgcount`; a message is the sequence of
files in it. `closef()` of a socket may discard messages, which calls `closef()`,
which may call the collector, which calls `closef()`: `stack[p]` is what a process
has still to do, innermost first, and each frame is taken up by the action of its name. A
process keeps the CPU (`Cpu`) except in the three frames that sleep: the collector's
`malloc()` ("memory"), the close of a file that is no socket ("slow"), and the
growth of a descriptor table between two rights of a message ("grow"). `leaked` counts
what a failing `sendmsg()` leaves behind. `hurt` is set when the collector meets what the code does not
foresee (disagreements 18, 20 and 21); from there the kernel is in undefined
territory and the model stops.

`PassedRights` is what the feature promises: a right in a message that somebody can
still receive stays there, with its file, until it is received. What nobody can
reach may go at any time. So the refinement says that a collection, however it is interleaved
with sends and receives, takes nothing that is reachable; `GarbageGone` says that it does
take what is not (`garbage`, kept for that property only: what the sweep found, less what was freed since).

### Vnode

A process is doing one thing with one vnode (`Doing`): it waits for a vnode to be clean
("clean?"), for its lock ("lock", "relock", "rele"), has it ("have": with the lock or,
as "ref", without), fills a new one ("malloc", "fill", "new", "read"), or cleans it out: `Vgonel` up to
the drain, `Drain`, then `Cleaned`, with "itself" for the end of `vclean()` that waits for
itself. The file system around it is FFS: the inode hash is `inode`, `ufs_inactive()`
is `Inactive`, a file without links is recycled at once.

`ffs_vget()` sleeps three times on its way: `Fill` is the end of `getnewvnode()`, from which on the vnode is in use and on the
list of its mount without an inode (`HalfMade`), `Ihashins` enters the inode in the hash, locked and unread, and `Read`
or `ReadFails` ends. `Vflush` takes any vnode of the list (`OnMount`), a half-made one as well; then `vclean()` drains a lock at
address 0 (disagreement 2) and the model ends (`Wild`).

Names: a file has one name, in a directory of its own (`named`: it is there). `link` is what the vnode's inode knows of it: not read yet
(mode 0), named, or removed. `dir` says that a process has come by a search of the directory, which `ufs_lookup()` keeps locked
until it has the file (`Searched`); `..`, for which the directory is unlocked, is a lookup without it. `Rmdir` takes
the name away under the directory's lock, with the cache's entries. The name cache is `cached`, the vnode that
a name leads to; `CacheEnter` enters whatever a lookup in the directory got. The capability numbers are `fresh`: whether the one that a
lookup noted before it slept is still right.

### NfsCache

An nfsd takes a request (`Receive`: at any time, so that delay, duplication and
reordering need no network in the model), looks it up (`Getcache`: `Found` or `Miss`), sleeps in one of
the five places where it may (for a locked entry, "wait", "lruwait" and "updwait"; for memory, "malloc", "copy" and
"save"), executes it (`Doit`), and enters the result (`Updatecache`). `Send` delivers the reply or
loses it. `inserted` and `used` are the orders of the hash chains and of the LRU list as
relations: the search finds the newest entry of a request, and reuse takes the oldest.
Start-up (`start`, `modify_flag`, from which `notstarted` follows) lasts until `nqnfsstarttime` has come and
no write was served since the last look: what `nfsrv_getcache()` has already entered is then dropped, or an NQNFS client is told to try
again later (`Then`, `Trylater`). `Doit` of a request that cannot be parsed goes on as what an earlier request left in `mreq` says: with NULL the nfsd
breaks off without `nfsrv_updatecache()`. `Crash` restarts all this; `Cleancache` is the last nfsd that
terminates, after which the start-up is not repeated.
`runs` counts executions, and `lost` is what the cache was made to forget: entries reused or
lost in a crash, or entered twice. `left` are the requests whose entry was left in progress by start-up or for want of a reply. `Entry` must have at least
`Desired + |Nfsd| - 1` elements, because `numnfsrvcache` is compared before the `malloc()` and
all nfsds may be in it.

## Runs and bounds

| run | instance | shows |
|---|---|---|
| `lockmgr_core` | 3 processes; shared, exclusive, downgrade, release, drain; NOWAIT, CANRECURSE; no failing sleeps; drains gated | nobody sleeps for a condition that has come true, no panic; writers, sleepers and drainers get on |
| `lockmgr_all` | 3 processes, all requests, all flags, timeouts, signals, requests beside a drain | the inductive invariant, exclusion, upgrades and drains, refinement of `RWLock` |
| `sleepq_all` | 2 processes, 2 channels, INT (caught), KILL, STOP, CONT; with and without PCATCH and timeout | queue, timeouts, results, signals, stops |
| `sleepq_live` | 1 process, the same signals and a held USR1, PCATCH | timed sleeps end, a continued process that was woken runs, SIGKILL takes |
| `callout_all` | 2 functions, 4 entries, 0 to 3 ticks, 2 ticks late | the bag of timers |
| `bufcache_all` | 2 processes, 2 buffers of 2 pages, 3 blocks (one needs all 4 pages), 2 values, failing reads | one buffer per block, free lists and ownership, no lost sleeper, refinement of `BlockStore` (no lost write) |
| `lockf_all` | 3 processes, 3 bytes: one with ranges in every position to each other, two that meet them, and a `flock()` | refinement of `ByteLocks`, sleepers, circles of up to three |
| `select_all` | 2 processes, 2 descriptors, with and without a timeout, signals, stops | no sleep over a ready descriptor; calls return |
| `fdpass_all` | 2 processes, 3 sockets, 1 other file, messages of 1 or 2 rights, 2 rights in flight, queues of 1, tables of 3 | exact counts, garbage goes, refinement of `PassedRights` |
| `vnode_all` | 3 processes, 3 vnodes, 2 inodes, `desiredvnodes` 1 | counts and free list, locks and inodes, the right file and its name, no circle of waits |
| `vnode_itself` | 2 processes, 3 vnodes, 2 inodes, fair | counterexample: `vclean()` waits for itself |
| `nfs_all` | 2 nfsds, 3 requests (one a nonidempotent write, one that cannot be parsed; both of NQNFS clients), 2 entries, cache size 1, 1 crash or termination | once-only execution, no drop for nothing, replies and locks; what can be parsed is answered, but for start-up |

Why these are enough to be interesting. Three callers of the lock are a holder, one in the
second wait of an exclusive request and one that comes in between, which every
known interleaving of `lockmgr()` needs; recursion to two tells one count from
several; the bound on `shares` is that a waiter holds nothing. Two sleepers are
needed to have someone before and behind on a chain (a third adds no new way to
leave it: `Dequeue` looks at one neighbour); the four signals are one caught, one
fatal, one stop and SIGCONT, with SIGKILL below SIGSTOP below SIGCONT in number,
which is the order in which `issignal()` takes them. `sleepq_live` adds a signal
that is held. Four callout entries with overdue
ones give an insertion before, among and behind due entries. Two buffers for three
blocks force eviction, and the large block forces pages to move both ways. Three
bytes are the least for a split in three; the requests of `lockf_all` reach each of the
six overlaps with the types that tell them apart, and the third process closes
the longer circles. Two selecting processes collide; two descriptors let one be
found ready after the other was scanned. Three sockets give a socket that is in its own peer's queue, a
pair in each other's, and a message that only unreachable sockets hold;
queues of one make `sendmsg()` fail, and tables of three make `recvmsg()` fail. With one desired vnode and two
files every lookup of the other file recycles, and the third process comes in
between. Three vnodes are the two that `getnewvnode()` may allocate before it recycles, and one that a second
process allocates while it sleeps.
With a cache of one entry every second request reuses it, and two nfsds can enter a request twice.

The bounds are `MaxExcl` (recursion), `MaxLate` (ticks that `softclock()` is late;
`Hardclock` waits at the bound), `End` (the last byte that is told apart from its
successors), `MaxDepth` (the code's own, 50 there), `NCallout` (callers stay within the table, where
the code panics), `MaxFds` (the limit of a process, the code's own), `MaxQueue` (the
room in a receive buffer), `MaxRights` (rights in flight), `Desired` (`desiredvnodes`, `desirednfsrvcache`),
`MaxCrashes`, and the sizes of the constant sets. `runs` of `NfsCache` stops at 2, which
stands for more than once.

`CHECK_DEADLOCK FALSE` stands in the two `SleepQueue` runs because all processes
may have been killed; in `lockf_all` because of `wild`, in `lockmgr_all` because of the panic of
disagreement 5 and in `fdpass_all` because of `hurt`, after which nothing is said;
in the `Vnode` runs because everybody may end up waiting for the vnode of
disagreement 1, or the model ends with disagreement 2; and in `nfs_all`, where all may be answered and idle.

## Fairness

* `Lockmgr!FairSpec`: a runnable process is switched in (WF of `Resume`), and
  holders release (WF of `Unlock`; SF of releasing the last of several counts,
  because a holder could otherwise recurse for ever, which no code that takes a
  lock does). New requests are not fair.
* `SleepQueue!FairSpec`: a timeout that is armed fires (`hardclock` ticks), a
  runnable process is switched in (WF of `Finish`, `Resume...`), and a process that
  has a signal passes through user mode again and again (SF of `ToUser`): a system
  call returns. Wakeups, signals and new sleeps are not fair.
* `Select!FairSpec`: a process that scans goes on (WF of `Scan`, `EndScan`), one that was
  woken is switched in (SF of `Resume`, because somebody else may have the CPU
  between), time passes and the callout fires. Events, signals, stops and SIGCONT are
  not fair, and `SelectReturns` assumes that no other process scans for ever.
* `Vnode!FairSpec`: WF of what a process does once it runs or is woken (`Run`). New
  calls are not fair. A process that has a lock gives it up (`Unlock` is part of `Run`).
* `NfsCache!FairSpec`: nfsds get on (WF of `Work`). Of a request that is not answered
  some copy arrives at an idle nfsd, again and again (SF), because clients repeat it and idle nfsds take
  what comes; of replies that are sent again and again one gets through (SF).
  Without either the network may lose everything. That `nqnfsstarttime` comes and writes of NQNFS clients
  stop, so that start-up ends, is not assumed: `RequestAnswered` excepts a start-up that never ends.

Liveness is stated only where it follows from these. It says nothing about
priorities: the scheduler is assumed to run everybody eventually.

## What is proved

TLAPS checks these for every value of the constants. They assume what the ASSUMEs
of the modules say of constants (distinct sentinels, finitely many
processes or callers, the known signals, SIGKILL and SIGSTOP neither caught nor held), and where
it is said a restriction that is a hypothesis of the theorem.

`LockmgrProofs`: `LockInv` is an invariant, with `TypeOK`, `MutualExclusion`,
`UpgradeExcludes`, `DrainedIsFree` and the refinement `ImplementsRWLock`. `LockInv`
is inductive as it stands: the counters equal the grants (`CountsAgree`), each flag
is up exactly while one process is in the wait it announces (`FlagsAgree`), waiters
hold nothing, a draining lock is quiet. Exclusion alone is not inductive: the code
grants by its flags and counts, so they must be tied to the grants first. The proof
factors the lock through `Around(p, l, s, e)`: *the lock as it would be without
process p's place in it*. A process that runs takes its place out of the lock, what is left is
sound, and each way to end a run (granted, refused, asleep) puts a sound place back
in. The cardinality facts (`lk_waitcount` is the number of waiters) are proved there
once. The refinement follows case by case, given the invariant.

`LockmgrProofs` also has `NoStrandedSleeper` (whoever sleeps, sleeps for a condition that still
holds) and `NeverPanics`, under the hypothesis `Plain`: no upgrades among the requests, and no
sleep that fails (no timeout, no `PCATCH`, no `LK_SLEEPFAIL`). Each restriction is
needed, and TLC shows what happens without it: with upgrades a share is given up without a wakeup
and there is the panic of disagreement 5; with failing sleeps
`LK_WANT_EXCL` goes down without a wakeup (disagreements 5, 11 and 12). That requests beside
a drain are gated, as in `lockmgr_core`, is *not* needed, so the theorem says more than the run. The
invariant `WakeInv` adds that whoever is in the second wait of an exclusive request keeps everybody from the lock since a
moment when nobody held it exclusively, and that a sleeping drainer has left
`LK_WAITDRAIN` for the last user to find. `Sound(p, l, q)` says the same of all others
while p runs.

`SleepQueueProofs`: `TimeoutSound` (no `endtsleep()` and no `P_TIMEOUT` outlives its
`tsleep()`, and both never hold at once), `StoppedOnlyIfAsked` and the action
property `StopHolds`. The invariant `SQInv` is the types, the first two, and
`PendingStops`: a *pending* default stop is newer than the last SIGCONT. That is
what `psignal()`'s cancelling achieves, and without it a stop signal left in
`p_siglist` could stop a process that was told to continue. The argument goes by
one lemma per routine that sums up its effect on one process (`SleepEffect`,
`ReturnEffect`, `UserEffect`, `SignalEffect`), and one lemma, `OneProcess`, that a
step of one process disturbs no other.

`QueueSound` needs `Linked`: the chain has no repetition, `sq_tailp` points into its last entry, and
it holds just those that wait, which are asleep or stopped. `unsleep()` takes
out one entry and has to know whether it was the last; `wakeup()` takes out any number in one pass, and
`Walked` follows it entry by entry: what is behind is a list of those that stay, with the tail
pointer in its last. For all the other operations it is enough to say that the chain has gained or lost one process (`Moved`).

`NoDeafSleeper` is proved under `StopsComeLast`: no signal that must be taken has a higher number
than a stop that is obeyed. Without it there is disagreement 6. Its invariant (`Hears`) adds
that a process stopped in its sleep has nothing pending beside stops, which SIGCONT cancels.
`ReturnsTruth` is proved under `NoJobHandlers`: SIGTSTP and SIGCONT are not caught. Without it
there is disagreement 13. Its invariant (`Honest`) is that a process which is off the chain within its
`tsleep()` was found by `wakeup()`, or timed out, or has a signal pending that nothing can cancel any more (`Noted`).

`SelectNfsProofs` has two proofs. The first is `NoSleepOverReady` of `Select`. A sleeper is not simply registered with its
descriptors: another one may be recorded in its place. The invariant `SelectInv` says
that for each descriptor a sleeper looked at, an event reaches it (`Reaches`: it is the
recorded one, or there is a record and a collision), and that none of them is ready. It
says the same of a process that scans, for what it has looked at so far, if it is bound to sleep:
`P_SELECT` is still up and `nselcoll` has not moved. That is the lost wakeup that the two of them are there to prevent.

`BufCacheProofs`: `OneBufferPerBlock`, under `~Sleepy` (no strategy routine sleeps
in the `bawrite()` of `getnewbuf()`; disagreement 7 is what happens otherwise). From the moment
`getblk()` misses to the moment it enters its buffer nothing may enter a buffer for that
block. The invariant `CacheInv` says that a process on the way has not slept since its search (`cpu`
names it) and no buffer has its block; `Less(S, T)` (*T comes of S without putting a buffer on a chain*) is shown for every
operation of the cache, and composes, so that interrupts in between do no harm.

The second half of `BufCacheProofs` has `FreeListsExact`, `SleepersWillWake` and, under `~Sleepy`, the refinement
`ImplementsBlockStore`: no write is lost and no read is stale, whatever is evicted, read ahead, flushed or resized. The
inductive invariant of the first two is `Order`. It says of each buffer by itself how flags, size, vnode and
lists fit (`Fit`: on a list just when not busy, on `BQ_EMPTY` just when it has no memory), of each
process what it relies on where it is (`Holds`), that no two hold one buffer, that pages are only moved, and of each
sleeper what will wake it (`SleepOK`). The two properties alone are not inductive: that whoever waits for any buffer finds none
free is kept only because a busy buffer is on no list and each release that adds one wakes. Each operation of the code
(`bremfree()`, `brelse()`, `allocbuf()`...) has a lemma that says what it does to one buffer and to the lists, `Framed` does the rest once:
a step that changes one buffer so keeps what holds of the others. The refinement needs `Coherent`: a buffer that a write is
due of has what was last written, so has every buffer that `bread()` would not read, and where the disk
is behind there is a buffer that is due. With `OneBufferPerBlock` that is
inductive. Pages are counted by sums over the buffers, for any number of buffers: see *Induction* below.

`FdPassingProofs`: `CountsTrue` and `GarbageGone`, for any finite sets of processes, sockets and other files, and any limits
(a message has one right or two, as `Message` says; the lemma about `sendmsg()` is for any length). The inductive `FdInv` keeps three sums for each file beside the queues: the
rights in somebody's hands (`InHand`), the references that frames will still give up (`ToClose`) and the frames that will
free the entry (`ToFree`). The property alone is not inductive: that `closef()` may go on with an entry it has just taken
to 0 needs that nobody else is about to free it (`ToFree(f) <= 1`, and then `f_count` is 0); that the collector may
flush what it has put on its list needs that its extra reference is still to be dropped further down the same stack (`Backed`),
which is why `unp_gc()` takes it. A step takes frames off one stack and
puts others on (`Restacked`): for each operation there remains to say what its frames count (`FrameCounts`). Most
steps move rights or frames and no count (`Rearranged`); for those that count, the balance of each file
is one lemma (`Moved`). The theorem holds also for the steps up to the one where `hurt` is set, and says nothing of what
the kernel does after it, because there the model stops.

`GarbageGone` has a second inductive invariant, `GcInv`, beside `FdInv`. What was found is *cut off* (`Cut`): there is a set of files that has
all of it, that nobody has a descriptor for or in hand, and that no queue of a socket outside the set has. A system
call cannot undo that, because it sends only what the caller has and receives only where it has a descriptor; when the collector
starts to sweep, the set is what cannot be reached from the descriptors and the hands, and for that the marking has to be
closed: `MarkedCloses` says that as many passes as there are sockets suffice, because a pass that marks no new socket is the
last that marks anything, by an induction along the passes. A queue that still has some of what was found is *held* (`Held`): it is marked, or on
the list that is still to be flushed, or being flushed, or else its owner would have been a root, so that with the extra references dropped
(`AllSwept`) nothing is left to count the entry but rights that the property names. This rests on two things that are
not about the collector: how the stacks are built (`Kernel`: one process runs and one collects, `gcing` lets no second collection begin,
what is to be swept and dropped is above its own `done`), and that a socket that was closed is flushed before anybody
else runs and then freed, with no peer left that could fill its queue (`Sockets`). When `hurt` is set the invariant says only that no
collection is through (`NoneDone`).

`VnodeProofs`: `CountsExact`, `LockAlive`, `RightFile` and `WaitsForSomebody`, for any finite set of
processes and any vnodes, inodes and `Desired`, up to where the model ends (`Wild`). The inductive `Inv` is said vnode by vnode (`Local`): the
count is the number of references, the free list has what is unused and not taken, at most one process has
taken the vnode and at most one cleans it, a holder of the lock is somewhere where a process
has a lock, and `Place(p, v)`, what p relies on where it is. The four properties alone are not inductive: that
`vclean()` may take the lock away with the inode needs that nobody who is asleep elsewhere still counts on it (`CleanerAlone`: beside
the cleaner there are only those with a plain reference and those who wait for `VXLOCK`), and that `ffs_vget()` may write
`v_usecount` 1 over whatever is there needs that the vnode is all its own after its sleeps (`TakenAlone`).
A step at one vnode disturbs no other (`Here`), and one of a single process changes the number of
references by what this process counts (`AloneHere`, `Recount`); only the end of `vclean()`
is a step of several. `RightFile` has a second layer, `Names`, on top of `Inv`: who searches a directory
knows that the name is there until it has the file, whoever holds a vnode by a name has one that still has it, and so has
whatever the cache leads to. This is where the lock of the directory and the capability numbers are needed: `Rmdir` makes
every number that was noted of the vnode stale, and nobody is on the way by the directory. Disagreement 9 does not contradict it: two vnodes of one inode are each sound.

The second proof of `SelectNfsProofs`: `AtMostOnce`, `NoOrphan` and `CacheSound` of `NfsCache`, for any number of nfsds, requests, entries
and crashes, and through start-up. `NoOrphan` says nothing of the requests in `left`. The inductive `Inv` is the types, `CacheSound`, what an nfsd relies on while it sleeps
(`SleepSound`), the life of a nonidempotent request the cache has not forgotten (`Once`), and
`OrderSound`, which is not in sight in the code: entries for one request are in the LRU list
in the order of their hash chain, because every hit moves the one that is found
first. So reuse, which takes the oldest, never brings to light an entry that was
hidden behind another, whose nfsd may be gone. `NoOrphan` does not follow without it.

`LockfProofs`: `TypeOK`, `NobodySleepsForNothing` and `DeadlocksAreSeen`, for any finite set of processes, any
files, any ranges and any `maxlockdepth`; under the hypothesis that `"WR"` is not in `SplitSleeps`, also
`Exclusion` (of two owners with one byte, neither has it exclusively) and the refinement
`ImplementsByteLocks`. The hypothesis is that `lf_split()` does not sleep in a request for an exclusive
lock; disagreement 8 shows what happens if it does. It may sleep in requests for a shared lock and in unlocks.

The invariant `LockfInv` says that the locks of one owner are sorted and apart (`Listed`; the list as a whole is not), that nobody
is on two queues or twice on one and that each sleeper's lock conflicts with its request, or the
sleeper is `missed` (`Queues`), and that a process in `lf_split()` still has a lock around its request
(`Splitting`), so that what it found before its sleep holds after it. Order is what makes `lf_findoverlap()` right to stop at the
first lock behind the range. The property about sleepers alone is not inductive without it: a
lock that another one swallows would leave waiters where the walk does not come.

The change of the list is one walk in the code and one expression here (`Cut`), a list put together of what is left of
each lock that is met, the new lock, and what is left alone. The proof follows it lock by lock: `CutOf` says from which place each lock
of the new list comes, and `Lies` what it may be. From this follow order, queues and bytes, each once.
`Moves` sums up for the queues what every operation does: who is not woken waits on a lock of the same
owner that stands in its way.

The search for deadlocks follows only the *first* lock that blocks, up to `maxlockdepth` steps. The set of those from whom
`n` steps of it lead to nothing shrinks as `n` grows; were the circle closed without being seen,
a circle that has no room for so many steps would have to have it (`SearchFinds`). So the one who goes to sleep closes no circle
within reach (`NoCircle`), and no other step makes a sleeper wait for somebody else (`Keeps`): what is
moved from one lock to another stays with the owner.

For the refinement, `CutHolds`, `GrantedHolds` and `ClearedHolds` say what each owner has on each byte after a
change. The abstract step needs the bytes to be free of others: that is what `lf_getblock()` has just found, or, if
`lf_split()` has slept since for a shared request inside of the process's own exclusive lock, what `Exclusion` says of this lock.

## Where code and documentation disagree

With a run in `PROJECT.json`:

1. `vnode_itself`. `vclean()` references a vnode in use "so that its count cannot fall to
   zero" (`vfs_subr.c:1089`), and gives the reference up by `vrele()` (:1138) while `VXLOCK` is still set. If the
   other users let go while it slept, `vrele()` locks the vnode to make it inactive, and `vn_lock()`
   sleeps until `VXLOCK` is cleared, which this very process would do next.

Seen with the same modules, without a run of their own (the constants that show each one are named; those of
`vnode_itself` and `nfs_all` where none are):

2. `ffs_vfsops.c:774`. `vclean()` drains the lock so "that no other activity can occur while the underlying object is being
   cleaned out" (`vfs_subr.c:1107`). `getnewvnode()` puts a vnode on the list of its mount in use and with `v_data` 0, and `ffs_vget()`
   sleeps for the inode's memory; a forced unmount that comes then drains
   the lock in an inode at address 0. `LockThere` of `Vnode` shows it.
3. `ffs_vfsops.c:803`. An inode that could not be read "will be unlinked and returned to the free list by vput()"
   (:798). Whoever waited for its lock in `ufs_ihashget()` gets it from this `vput()`, with mode 0, as a success,
   and `cache_enter()` enters its name. `NobodyHasUnread` shows it.
4. `nfs_syscalls.c:563`. After start-up "the server simply services requests in a manner similar to NFS"
   (`share/doc/smm/06.nfs/2.t:170`). A request that came before has been entered as in progress and then
   dropped, so its copies are dropped at `nfs_srvcache.c:197` until the
   entry happens to be reused. `ServesAfterStartup` of `NfsCache` shows it.
5. `kern_lock.c:336`. The second `ACQUIRE` of an exclusive request
   waits for the shares and for `LK_WANT_UPGRADE`, not for `LK_HAVE_EXCL`. A writer
   that a release woke runs after the remaining sharer's upgrade was requested
   and granted: it falls into `panic("lockmgr: non-zero exclusive count")`.
   `NeverPanics` of `Lockmgr` with `UPGRADE` among `Types` shows it.
6. `kern_sig.c:817`. A process stopped in the first `CURSIG` of `tsleep()` has not looked at
   signals of higher numbers. SIGCONT sets it `SSLEEP` without running it,
   and it sleeps on with a signal pending that was there before
   the sleep. `NoDeafSleeper` with USR1 among `Signals` shows it.
7. `vfs_bio.c:709`. `getblk()` searches its hash chain again when
   `getnewbuf()` slept for a buffer, but not when it slept in the `bawrite()` of a
   delayed write (`nfs_strategy()` may do the I/O itself). `OneBufferPerBlock` with
   `Sleepy = TRUE` shows it.
8. `ufs_lockf.c:586`. `lf_split()` may sleep for memory after
   `lf_getblock()` found the way free; a shared lock taken meanwhile stays beside the
   exclusive one that the upgrade then enters (`fcntl.2:222`).
   `ImplementsByteLocks` with `Asks <- MCSplitAsks` and `WR` in `SplitSleeps` shows it.
9. `ffs_vfsops.c:792`. The comment above it says that the new inode is entered in the hash
   "so that other requests for this inode will block" while it sleeps; but it has already slept in
   `getnewvnode()` and `MALLOC` since its search and does not search again. `OneVnode` of `Vnode`
   shows two vnodes for one inode.
10. `kern_lock.c:273`: for an upgrade with `LK_NOWAIT` the count is compared with one after the
   caller's share was subtracted, so with exactly one other sharer the request sleeps (`lock.h:108`).
   `NoWaitNeverSleeps` with upgrades among `Types` shows it.
11. `kern_lock.c:248`: an `LK_EXCLUPGRADE` that loses gives up its share without the wakeup
   the `LK_UPGRADE` path does at :302; with the last share gone nobody wakes
   the accepted upgrade. `NoStrandedSleeper` with `EXCLUPGRADE` shows it.
12. `kern_lock.c:339`: a second `ACQUIRE` that fails clears `LK_WANT_EXCL` without a
   wakeup for those who wait for that flag. `NoStrandedSleeper` with failing sleeps shows it.
13. `kern_sig.c:711`: a caught SIGTSTP discards a pending SIGCONT and the reverse, so
    `setrunnable()` may already have taken a sleeper off its queue for a signal that
    `tsleep()` no longer finds: it returns 0 though nobody called `wakeup()`.
    `ReturnsTruth` with TSTP in `Signals` and `Caught` shows it.
14. `kern_sig.c:1015`: the signal a process stopped for is cleared after it runs again; a
    second SIGSTOP that came between is cleared with it. `StopObeyed` shows it.
15. `ufs_lockf.c:586` again: `lf_clearlock()` wakes the waiters before it splits; a request that
    comes while the split sleeps waits on a lock that no longer covers what it wants
    (`NobodySleepsForNothing` counts them out as `missed`).
16. `ufs_lockf.c:253`: the waiters that a lock takes over keep an `lf_next` to the freed
    one. `DeadlocksAreSeen` without its exception for `stale` shows a circle that `fcntl.2:329`
    says is detected; `wild` is reached too.
17. `ufs_lockf.c:109` says that `flock()` requests, being for the whole file, leave "no chance
    for deadlock"; two processes, one of which waits with `flock()` for the other's
    `fcntl()` range, can wait for each other.
18. `uipc_usrreq.c:751`: `unp_gc()` flushes every unreferenced file as a socket, though
    files of other types can be in flight (`hurt` of `FdPassing`).
19. `uipc_usrreq.c:202`: when a send fails after `unp_internalize()`, the message is freed but its
    rights stay counted in `f_count`, `f_msgcount` and `unp_rights`; `file.h:54` calls `f_msgcount`
    "references from message queue". `CountsTrue` counts them out as `leaked`.
20. `uipc_usrreq.c:759`: the collector's `malloc(M_WAITOK)` may sleep between mark and sweep, though
    the marks are of before; files that came to be or were moved meanwhile are
    not marked (`hurt`).
21. `uipc_usrreq.c:610`, `:619`: `unp_externalize()` discards or hands out the rights one by one
    while the message is still in `so_rcv`, with entries zeroed as it goes; a
    collection that starts meanwhile scans it, and one that was asleep takes a file that came to be since the
    marking, and is in the hand of such a receiver only, for unreferenced (`hurt`).
22. `nfs_srvcache.c:225`: `nfsrv_getcache()` does not search again after it slept for
    memory or for the head of the LRU list; a retransmission that another nfsd took meanwhile is entered and
    executed a second time, also when it is not idempotent. `AtMostOnce` counts them out as `lost`.
23. `nfs_srvcache.c:238`: entries are reused while their request is still executed, and
    then `nfsrv_updatecache()` finds none, or another one for the same request; a reply that is already there
    is overwritten without being freed.
24. `nfs_srvcache.c:154`: the comment's rule for a request "completed within DELAY"
    that is to be dropped has no code.

Also met: a server in start-up answers NQNFS clients with `NQNFS_TRYLATER`, 501 in `nqnfs.h:198`, while a client waits and repeats a request on `NFSERR_TRYLATER`, 10008; the `PAUSE` macro of `kern_lock.c` for `NCPUS > 1` has a `break` that leaves
its own loop, not the caller's; a `NULL` process is `LK_KERNPROC` for all such
callers alike; `ufs_lockf.c` uses a field `lf_spare` and a flag `HASBLOCK` that
`lockf.h` no longer declares, and `lockf.h:42` calls the list sorted, which it is only per
owner; `vget()` in `vfs_subr.c` has a brace too many (:734), and is read without it; the macro `sblock` of `socketvar.h` ends in a
comma expression that is always 0, so its error is lost; `soreceive()` is damaged around
`uipc_socket.c:556`; `sorflush()` waits for the buffer lock that a reader with
`MSG_WAITALL` keeps.

*Induction.* The library's induction theorem cannot be instantiated here, because it takes an operator
as its parameter. `ListLemmas` has it for sets of numbers instead (`EveryNumber`: a set with 0 that has n + 1 with each n has
every number), which is proved from the well-ordering that the prover knows. Sums, folds, lists of lists, the walk of `wakeup()`, the search for deadlocks and the marking of the collector go by it.

## What is only model-checked

* Liveness: the prover does not do fairness. That is `WriterAdvances`, `SleeperWakes`,
  `TimedSleepEnds`, `ContinuedRuns`, `KillTakes`, `SelectReturns`, `RequestAnswered`.
* The refinements of `Timers` and `PassedRights`.

The modules state a few more properties than the runs check. `OneVnode`, `LockThere`, `NobodyHasUnread`,
`ServesAfterStartup`, `StopObeyed` and `NoWaitNeverSleeps` fail for some constants as said above. `SelectInv`, `LockInv`'s parts and `Inv` of
`SelectNfsProofs` are there for the proofs. `DrainEnds` and `UpgradeReturns` are part of what `SleeperWakes`
says of all waits. That types are kept is part of the invariants of each run: proved for `Lockmgr`, `SleepQueue`,
`BufCache`, `Select`, `NfsCache`, `Vnode` and `Lockf`. `Exclusion` of `Lockf` is
part of what `ImplementsByteLocks` says.

## Hazards without a property

Four hazards in `PROJECT.json` have no property, each with its reason there.
Known and left out of it, because the code that bites is outside the modelled control:
`timeout()` panics when the table is full (`kern_clock.c:272`; `NCallout` keeps callers within
it); `hzto()` scales seconds to ticks in 32-bit arithmetic and clips (`kern_clock.c:348`); a
traced process stops in `issignal()` from `tsleep()` with `P_SINTR` set, and `ptrace()` continues
it by `setrunnable()` (`kern_sig.c:904`).

## What is not modelled

`PROJECT.json` lists every part with its reason. Within modelled parts: swapped-out,
traced and vforked processes; orphaned process groups; `NCPUS > 1`; `B_LOCKED`,
`B_NOCACHE` and `B_CALL` buffers, failing writes and asynchronous mounts;
descriptor numbers; device aliases, `v_holdcnt`, mount lists and layered file systems; of NFS
write gathering, the authentication detour, stream sockets (which bypass the cache), leases and
the client's cache; priorities. The interrupts' atomicity is an assumption: what runs at `splhigh` is
one step.

The tree is 2 million lines, most of them user programs, compilers, drivers for a dozen machines, superseded
versions and text; what is modelled is under a thousandth of it by lines, and most of the
waiting and waking of the machine-independent kernel.

## What could follow

1. `Process`: fork, exit, wait and reparenting, with zombies that two can collect.
2. `Sockets`: `sblock()`, the connection queues and `sbwait()`, composed with `FdPassing`; then a
   bounded TCP connection machine over a lossy channel.
3. `Rmap` and `malloc()`: free extents as a set of numbers, the limit that sleeps.
4. The leases of `nfs_nqlease.c`, with clocks that differ.
5. Proofs: the refinements of `Timers` and `PassedRights`.
