# Lock_Shielding in TLA+

Lock_Shielding puts a *shield* in front of a lock: a per-thread table that
counts how often each lock is held, lets nested acquisitions through without
touching the lock, and turns away calls that would unbalance it. The
repository brings three C++ shields, two in C, eight lock classes to put behind
them, and a benchmark. This directory specifies the shields, the hash table
under them, the lock classes and the benchmark, checks them with TLC, and proves
every safety property of them with TLAPS.

## The system

| Part | State | Operations | What makes it correct |
| --- | --- | --- | --- |
| `LS_ARRAY` (`shielding_array`) | thread_local array of (lock, count), number of cells in use | `LS_ACQUIRE`, `LS_RELEASE`, `lookup`, `IncrementRef`, `DecrementRef` | counts are exact; only unbalanced calls are turned away; the lock sees balanced calls only |
| `LS_HYBRID` (`shielding_hash`) | the same array, then for good a uthash table whose entries come from a thread_local pool, and from `malloc` when that is empty | the same, and the migration, `freelist_pop`, `freelist_push` | the same, across the migration; no pool entry lost or used twice, no malloced one leaked |
| `LS_INVOKE` (`shielding_invoke`) | the table of `LS_HYBRID` | the same, calling member functions | the same |
| `Clib` (`shield_hash.h`, `shield_arr.h`) | the tables of `LS_INVOKE` and of `LS_ARRAY` in C | wrappers that return a status instead of aborting, with or without a queue node that the caller brings | the same; the lock is released with the node it was acquired with |
| uthash | buckets, entries on two linked lists | find, add, delete, expansion of the bucket array | it is a map: what was added is found until it is deleted |
| lock classes (`tas`, `ticket`, `abql`, `mcs`, `clh`, `hem`, `k42`, `cna`) | one object per lock, and for most of them thread_local nodes or slots that serve all locks of the class | `Acquire`, `Release` | mutual exclusion, order of service, no lost wake-up, no node used by two |
| `lock_bench` | number of threads, a barrier used twice, each thread's share of the iterations | reading the arguments, starting and joining threads, warm-up, timed loop | no thread is timed while another warms up; each iteration is done once; the run ends |
| `lock_type.h`, `sanity_check.h` | none, compile-time choices | | |
| tests, Makefile, scripts | | | |

A caller (the benchmark, a test) calls `LS_ACQUIRE(l, reentrant, lock_fn)`; the
shield looks `l` up in the table of the calling thread and, if need be, calls
`lock_fn`, which is `Acquire` of the lock class that `lock_type.h` chose. The
tables are thread_local, so shields of different threads meet only in the lock.
Threads interact through the atomics of the lock classes.

The behaviours that are hard to get right and to test:

- a shielded call is not atomic: other threads run at `lock_fn`, at `unlock_fn`,
  and between either and the update of the table, which comes before
  `unlock_fn` in a reentrant release and after it in the other;
- long sequences of legal calls: holes in the array, the migration, the pool
  whose entries come back in another order, `malloc` in between and failing;
- unbalanced calls by one thread while others use the lock properly;
- the window between a thread's exchange on the tail of a queue and the link
  that makes it visible, in which the thread ahead releases;
- nodes that are reused, at another lock or by another thread, as soon as a
  call returns, and K42's nodes, which are deleted;
- counters that wrap around;
- CNA's two queues, with fairness left to a pseudo-random generator;
- a hash table that moves every entry when it expands, and gives up expanding;
- a division of work with a remainder, and one barrier used for two rounds.

`PROJECT.json` lists them with their lines, under "hazards".

## The modules

### Shields

- `RefCountedLock` is the promise: locks with a nesting depth per thread, in
  which each call takes, nests, unnests, frees or is rejected, atomically. It
  knows no table and no lock algorithm.
- `ShieldClient` is what every shield shares: the callers, the control flow of
  the two templates up to the table, and TASLock behind `lock_fn`. `pc[t]` says
  where a call is ("increment": `lock_fn` has returned, `IncrementRef` is
  next), `owner[l]` is TASLock's flag with the thread that raised it, and
  `depth` is history: the holds a thread has, by the calls and not by the table.
- `HybridShield` adds the table of `LS_HYBRID`: `lock_count` (MAX_LOCKS + 1
  marks hash mode, as in the code), `lock_table` with the stale cells past
  `lock_count`, `lock_hash` (uthash as the map it implements), `freelist`,
  `freelist_initialized`, and `heap`, the malloced entries that have not been freed.
  `IncrementRef` is the disjunction of the code's paths: adjust, append, migrate, add
  to the hash table, lose the record when `malloc` fails. `uthash_fatal` is uthash's
  exit when it has no memory for the table or, with enough entries to fill a bucket,
  for an expansion. Callers make *any* call, balanced or not.
- `ArrayShield` is `LS_ARRAY` in the same way. Its `IncrementRef` drops the
  record when the array is full, as the code does.
- `InvokeShield` is `LS_INVOKE` over the variables of `HybridShield` and one
  more: `entry`, the local in which a call keeps what `lookup` returned while
  `lock_fn` or `unlock_fn` runs. Its table updates go to that address (a cell or
  a hash entry) and never look the lock up again. `ImplementsHybrid` is
  `HybridShield`'s specification.
- `ClibShield` is `Clib/shield_hash.h` over `InvokeShield`, whose table functions
  it repeats in C: the four wrappers, two of which pass the caller's queue node
  to `lock_fn` and `unlock_fn`. `me[t]` is that argument; `taken_with` and
  `acquired` are history, the node a lock was locked with and the nodes of the
  acquisitions still to be released. Callers release in the reverse order of
  their acquisitions, each with its own node.
- `UtHash` is the part of `uthash.h` the shields use: the list of all entries
  (`next`, `prev`, `head`, `tail`) and those of the buckets (`hh_next`, `hh_prev`),
  by their pointers, the buckets' counts and `expand_mult`, the expansion,
  `noexpand`, and the exit when `malloc` fails. An operation is one step; so is each
  turn of the loops of `HASH_EXPAND_BUCKETS`, whose locals (`thh`, `bkt_i`,
  `new_buckets`) are variables, and during which nothing else happens to the table.
  `hashv`, the hash value of each entry, is a constant; `MCUtHash` gives it the
  shields' `HASH_FUNCTION`. `Walk` and `List` follow the links as a search does.
  `HybridShield` uses the table as a map from locks to entries; `PointerMap` is
  the promise it relies on, an entry added after a lookup that missed and
  deleted after one that found it.
- `ArrayTestScenario` makes the calls of one test of the repository.
- `MCHybridShield`, `MCArrayShield`, `MCInvokeShield` add the symmetry sets; the
  last one runs `ClibShield`, and with it `InvokeShield`.

### Benchmark

- `LockBench` is `lock_bench.cpp` over `HybridShield`: `main` reads its argument,
  starts and joins the threads; `place[t]` is the part of `test_thread` a thread
  is in, `arrived` and `round` are the barrier, `joined[t]` the round a waiting
  thread came for, so that threads of the first round that have not woken yet are
  told from those of the second. Its calls are `HybridShield`'s actions.
  `performed` is history.

### Proofs

- `ShieldClientProofs`: the calls and the lock, for any table;
  `HybridShieldProofs` and `ArrayShieldProofs`: the two tables, and the pool of the
  first; `ClibShieldProofs` (LS_INVOKE and Clib) and `LockBenchProofs`: the modules
  built on `HybridShield`; `UtHashProofs`: `UtHash`.
- `QueueLockProofs`: the lines of a lock, for any class, then `TicketLock`,
  `ABQLLock`, `MCSLock`, `CLHLock`, `HemLock`, `K42Lock`, and `MCLocks`, the program
  built with one of the six; `CNALockProofs`: `CNALock`.

### Lock classes

- `FifoLock` is the promise of the queue locks (the repository's README
  recommends Ticket and ABQL for "FIFO fairness" and "FIFO locking"): a line per
  lock, entered in the order in which threads reach the doorway.
- `LockCaller` is what the classes share: threads that call `Acquire` and
  `Release` and release what they hold, `pc`, `arg`, and the history variables
  `held` and `queue` (the line, in the order of the doorway steps). Its
  `KeepsFifo` is `FifoLock`'s specification under the mapping
  `holders[l] = {t : l \in held[t]}`.
- `MCSLock`, `CLHLock`, `HemLock`, `K42Lock`, `TicketLock`, `ABQLLock` and
  `CNALock` each have one action per atomic access of the two methods; accesses
  to a node that is not shared yet go with the next one. The window
  between exchange and link is thus a state of its own. In `K42Lock` the
  heap is a set of addresses, any of which a `new` may return. In `CNALock` the
  socket of a thread and the answer of `keep_lock_local` are choices, and the
  walk of `find_successor` along the links is one step: the main queue only
  grows at its end, so a walk sees what an atomic one at its last read sees.
  Locals that are dead, and node fields that will be written before they are
  read, are null in the model.
- `MCLocks` chooses one of the first six for the whole program, as `lock_type.h`
  does, and checks it; `MCCNALock` does so for CNA.

Steps of the lock classes are sequentially consistent: the memory orders of the
code are not modelled.

## The runs

| Run | Bounds | What it shows |
| --- | --- | --- |
| `hybrid` | 2 threads, 2 locks, depth 2, MAX_LOCKS 2, pool 2, misuse aborts or returns | the table is exact at every point of every call, no misuse reaches the lock, nobody is turned away wrongly, the entries are conserved, and LS_HYBRID implements RefCountedLock |
| `hybrid_table` | 1 thread, 4 locks, MAX_LOCKS 3, pool 3, malloc may fail | holes, migration with three cells, entries from the heap, which are freed and never pushed, lost records: what is recorded is right |
| `hybrid_mixed_flags` | as `hybrid`, callers pass `reentrant = false` to any release | finding: a release of a nested hold unlocks |
| `invoke` | 1 thread, 3 locks, one of which needs a node, 2 nodes, depth 2, MAX_LOCKS 3, pool 3, malloc may fail, misuse aborts or returns | Clib's wrappers, and with them LS_INVOKE, implement LS_HYBRID: one lookup per call is as good as two; a lock is released with the node it was acquired with |
| `array` | 2 threads, 3 locks, MAX_LOCKS 2, no more than 2 locks held | the array counts every hold exactly and LS_ARRAY implements RefCountedLock, as long as the array has room |
| `array_overflow` | the same, 3 locks held | finding: the record is dropped and the release panics |
| `array_test` | the seven calls of the test | finding: the test's assertion fails |
| `uthash` | 6 addresses, three of which share a bucket until there are 32, and two others likewise; 1 bucket, expansion at 2 entries; malloc may fail | the table is a map; the lists stay well linked through expansions, ineffective ones and the end of expansion; chains stay short while it may expand |
| `bench` | up to 4 threads or a bad argument, 6 iterations, 2 of warm-up | the parts of the run are kept apart, each iteration is done once, the benchmark ends |
| `locks` | 3 threads, 2 locks; CLH and K42: 3 threads at one lock or 2 at two; K42: 3 addresses; HEM, K42 and Ticket: both locks may be held; 3 tickets; 4 slots, 6 arrivals per lock | six classes are first come first served, all calls return, nodes are never shared, hem.h's assertions hold, K42 uses no deleted node, the counters survive their wrap-around |
| `abql_wrap` | int of 4 bits | finding: a negative slot |
| `cna` | 4 threads at one lock, or 3 at two; 2 sockets | mutual exclusion, the two queues keep the order of arrival and lose nobody, threads of a socket are served in order, all calls return |

Why the bounds are enough. A shield's table is thread-local and its locks are
independent but for the cells they share, so two threads show every race at a lock,
and MAX_LOCKS + 1 locks every state of the table (the real constants are larger, and
the proofs cover them). Depth 2 tells nested from outermost holds. In the queue locks
three threads are a holder, one that is linked and one that is in the window behind
it; a second lock lets a thread take its node elsewhere at once. CNA needs four: a
holder, a thread of its socket that it prefers, and two of the other socket in the
secondary queue, whose order then matters. The tickets are as few as the threads, the
least for which the class is meant to work. Six arrivals at four slots go once round
the array. `invoke` has one thread, as a table is thread_local, and as many locks as
cells, so that the migration happens. uthash's bucket array starts at 1 and expands at
2 entries a chain instead of 32 and 10, so that six entries drive it through effective
and ineffective expansions up to `noexpand`; the addresses are chosen for their hash
values, which the model computes as the code does. In the shields' runs, too,
`HASH_BKT_CAPACITY_THRESH` is 2, so that an addition to a table with one entry may be
the one that needs a larger bucket array. Four threads share six iterations
with a remainder, and one, two and three do so without. `MaxDepth`, `MaxHeld`,
`MaxTail`, `MaxThreads`, `TicketMod`, `IntMax`, `Few` and `use` are the bounds' names.
Symmetry is used in the shield runs only, which check no liveness.

Deadlock is not checked: the program stops when a call aborts, when a thread
that MixFlags lets unlock too early spins, when uthash exits, when the benchmark
returns, or when `MaxTail` is reached. That no call of a lock class hangs is
`CallsReturn`, that the benchmark does not is `BenchmarkEnds`.

Fairness. `CallsReturn` (every call of Acquire or Release returns) is checked
under weak fairness of each thread's next step inside a call, since spinning
threads are scheduled by the system; and of each release, since a lock whose
holder never releases it serves nobody. Where locks may be nested (HEM, K42, Ticket) the
release has strong fairness: a thread that holds one lock while it goes
round taking another is never continuously about to release the first. CNA
has strong fairness of the branch in which `keep_lock_local` is false:
`pseudo_rand` is a linear congruential generator of full period, so its low 16
bits are zero once in every 65536 calls of a thread. The shields alone have no
liveness property: TASLock does not promise that a given thread gets in.
The benchmark's `BenchmarkEnds` holds all the same, under weak fairness of `main` and of
each thread, which the system's scheduling gives: nothing is assumed of the
lock, but the threads that overtake another run out of iterations.

## What the runs found

- `LS_ARRAY` forgets a lock taken when all cells are in use and aborts on its
  balanced release (`array_overflow`).
- `LS_RELEASE` with `reentrant = false` on a nested hold runs `unlock_fn` with
  a hold left, and a second time later on a lock that may be someone else's
  (`hybrid_mixed_flags`).
- `test_array_reference_counting` takes lock1 three times, releases it twice
  and expects it to be free (`array_test`).
- `ABQLLock`'s slots are negative once `tail` has passed INT_MAX (`abql_wrap`).

## What is proved

`HybridShieldProofs` proves for any sets of threads and locks, any depth, any
MAX_LOCKS and any pool at least that large, that every behaviour of
`HybridShield` keeps

- `Invariance`: the inductive invariant `IInv`;
- `TypeCorrect`, `Exclusion` (MutualExclusion), `NothingPhantom`
  (NoPhantomRecord): whether or not malloc fails;
- `CountsExact` (RefCountExact), `MisuseStopped` (NoMisuseReachesLock),
  `PanicsDeserved` (NoFalsePanic): if malloc does not fail;
- `ImplementsRefCountedLock` (KeepsThePromise): if malloc does not fail.

They assume `~MixFlags`: callers pass `reentrant = false` to a release only for
an outermost hold. The code needs this, as `hybrid_mixed_flags` shows.
`~MallocFails` is needed by the second group: a lost record makes a
balanced release look unbalanced.

The argument. `RefCountExact` is not inductive: to know what a step does to a count
one must know that a lock is in at most one cell (the swap in `RemoveFromArray` would
otherwise leave a second one), that counts of recorded locks are positive, that
`lock_count` is never MAX_LOCKS between steps, and that the pool is untouched, and so
large enough, until the migration. `IInv` says this of the table, relates the table to
`depth` at each `pc` (`Expected`), and relates `owner` to `depth`: a lock is owned by
the one thread whose depth is positive. The lemmas `AdjustEffect` ...
`RemoveFromHashEffect` say what each change of the table does to `RefCount` and
`Recorded` of every lock; `IncrementRefEffect` and `DecrementRefEffect` put them
together; a lemma per action shows that it keeps `IInv`. The refinement maps `status`
to the status a call is bound to return, so a call takes effect when the table decides
it or when the lock is taken or freed, and its other steps stutter.

`PoolNeverLeaks` (PoolConserved) is proved from that invariant:
every entry of the pool is on the free list exactly once or is the entry of
exactly one lock, and the malloced entries that have not been freed are exactly those
in the hash table, whether or not malloc fails. The added invariant gives
each entry one place; the migration, which hands out the first MAX_LOCKS
entries, is where it takes work.

`ArrayShieldProofs` proves of `LS_ARRAY`, for any threads, locks and cells,
`Invariance`, `TypeCorrect` and `Exclusion` as they are, and, for callers that
hold no more locks than the array has cells (`Roomy`: MaxHeld <= MAX_LOCKS),
`CountsExact`, `MisuseStopped`, `PanicsDeserved` and
`ImplementsRefCountedLock`. `array_overflow` shows what goes wrong for others.
What is new in the argument is that there is room: the locks a thread holds or is taking
(`Burden`) are at most MaxHeld, the cells in use hold distinct ones of
them, and the lock being recorded is not among those (`RoomLeft`).

`ClibShieldProofs` proves `InvokeImplementsHybrid`: every behaviour of
`InvokeShield` is one of `HybridShield`, for all values of the constants, with
`MixFlags` and `MallocFails` or without, so everything above holds of LS_INVOKE
under the same assumptions. The invariant is `EntriesFresh`: while a call runs
`lock_fn` or `unlock_fn`, its `entry` is what `lookup` would return, because only
the thread itself touches its table (`OwnTableOnly`). Under it, `IncrementRefAt`
and `DecrementRefAt` are `IncrementRef` and `DecrementRef`.

It also proves that every behaviour of the C wrappers is one of
LS_INVOKE (`ClibRunsInvoke`), hence of LS_HYBRID (`ClibImplementsHybrid`), and
`NodeReturned` (SameNode, under `~MixFlags`): the invariant says that the
acquisitions a thread has not released are as many as its depth, and
that the oldest of them brought the node the lock was taken with.

`LockBenchProofs` proves, for any number of threads, iterations and warm-up
rounds, that the benchmark's calls are calls of LS_HYBRID
(`BenchRunsTheShield`), `BenchTypeCorrect`, `BarriersHold` (PartsKeptApart) and
`IterationsShared` (EachIterationOnce). The invariant counts the threads at
the barrier (`arrived` is the number of those that wait for the current round),
ties `round` to the places threads may be in, and says that iteration k has
been done exactly when the thread whose share it is in has passed it; the shares
are disjoint and cover all iterations because iterations_per_thread rounds down.

`QueueLockProofs` proves of the program that `lock_type.h` builds with one of six
classes (`MCLocks`), for any numbers of threads and locks,

- `FirstComeFirstServed` (KeepsFifo): it implements `FifoLock`, whichever class
  was picked, and `OneInside`, mutual exclusion, and `TypeCorrect` (TypeOK);
- `NodesInOrder` (NodesFollowQueue), `NodesNeverShared` (NodesNotShared),
  `AssertionsNeverFail` (AssertionsHold), `GrantNeverContended` (GrantHasOneTaker),
  `DeletedNodesUnused` (NoUseAfterDelete), `TicketsInOrder` (TicketsFollowQueue)
  and `FlagIsTheFirsts` (FlagFollowsQueue), each of its own class.

They assume what the code needs. `OneAtATime` (MaxHeld = 1) keeps the callers from
nesting locks of MCSLock, CLHLock and ABQLLock, whose one thread_local node or slot
serves one lock at a time. It says nothing of the other three, whose locks a thread
may all hold: HemLock's Grant serves every lock of its thread, K42Lock allocates its
node in Acquire and deletes it there, and TicketLock's ticket is a local. The theorems
about one of these three alone do not assume it. `NoWrap` is for ABQLLock, whose int
`tail` must not overflow, as `abql_wrap` shows. The constants are assumed to give as many tickets and slots
as there are threads, finitely many.

The argument has two halves. The first part of `QueueLockProofs` says how a line
changes when a thread arrives, goes in or leaves (`ArriveStep`, `TakeStep`,
`EnterStep`, `LeaveStep`): these are steps of `FifoLock` as long as nobody is in line
twice and who is inside is the first (`LineInv`), and as long as the class takes them
when it may: `Enter` by the first in line, while nobody is inside. That is what each
class's invariant shows (`TicketInv`, `ABQLInv`, `MCSInv`, `CLHInv`, `HemInv`,
`K42Inv`). What the runs check is not inductive; to be so the invariants also say

- who is in line, by where each thread is (`Places`): a thread is in one line at a
  time, but in HemLock, K42Lock and TicketLock, where it may hold others;
- TicketLock, ABQLLock: the ticket or slot of the i-th in line, by the counter and
  i, so that in a line no longer than the counter's range two are never the same
  (`PlusFacts`, `NoLap`);
- MCSLock: nodes are linked in the order of the line but for the windows between
  exchange and link, `locked` is up in all nodes but the first's, and the node of a
  thread in no line is ready to be enqueued;
- CLHLock: there are as many nodes as threads and locks together, each has one of
  its own (`CLHOwn`, a lock's tail), and each in line watches the node of the
  thread before it, of which only that of the first is not locked;
- HemLock: each in line waits for the one before it, which is at the same lock; the
  first, if it is not inside yet, for a thread that has left and that has granted
  this lock (`HemBehind`, `HemOneBehind`);
- K42Lock: which node stands for a thread in line, its own or the lock's
  (`K42Node`), that nodes are allocated for one thread each, and that the nodes of
  the line are linked, while the first goes through the steps in which the lock's
  node takes the place of its own. A thread that has entered has no node left, which
  is why it may be inside other locks while it waits for one.

The last part puts the six together (`PickedInv`): a step of the program is a
step of the class picked, with the fields of the others unused.

`CNALockProofs` proves of `CNALock`, for any number of threads, locks and processors,

- `CNATypes` (TypeOK) and `CNAOneInside` (MutualExclusion);
- `CNAQueuesInOrder` (QueuesKeepOrder): the secondary queue followed by the main
  queue is the line in the order of arrival, but for the owner;
- `CNAFifoOnSocket` (FifoOnSocket): nobody enters before a thread of its own socket
  that arrived earlier.

They assume `OneAtATime`, as a thread has one node for all locks, and of the
constants that there are finitely many threads, whose nodes have other addresses
than 0 and 1, and that processors have natural numbers.

What the run checks is not inductive here either. The invariant, `CNAInv`, says
who is in line by where each thread is (`Places`), and of each line that it is an
owner t and the others, behind, of whom the first k are the secondary queue
(`Queues`). It adds to QueuesKeepOrder

- what the owner has found out by the place it is at (`Found`): that the main queue
  is empty, or is not, or has a first thread that is linked already;
- why a thread is in the secondary queue (`PassedOver`): it is on another socket than
  the owner, whose socket is known and is the one the lock is passed to;
- that only threads of the secondary queue can be ahead of the owner in line
  (p <= k + 1), but for the moment in which they have become the main queue.

The last two give the order on each socket. Every step of the owner moves k or
takes the next owner out of behind, and every step of another thread changes the
end of behind or a link. That the walk of `find_successor` goes along behind, and
ends before it does, is shown of the least place where it would not.

`UtHashProofs` proves of `UtHash`, for any finite set of entries, any hash values,
any number of buckets to begin with and any threshold above 1, whether or not malloc
fails,

- `UtTypes` (TypeOK);
- `ListsWellLinked` (HASH_FSCK): the lists are well linked, the counts are right,
  `tail` is the last entry, each entry is in its own bucket and no other;
- `ChainsStayBounded` (ChainsBounded);
- `TableIsAMap` (ImplementsMap): the table implements `PointerMap`. The
  migration and hash mode of `HybridShield` rest on this.

The model computes what a list holds by walking along it (`Walk`), which is
recursive; the invariant does not. It states a list place by place: c[i] is the i-th
of its m entries, all different, c[i] links to c[i + 1] and back to c[i - 1]
(`Forward`, `Backward`). That a walk meets c[1], c[2], ... is shown of the least
place where it would not (`Walked`), so that no induction over lists is needed.
The lemmas that follow give the places anew when an entry goes to the front of a list,
behind its last, or out of it (`InFront`, `Appended`, `Unlinked`).

HASH_FSCK says nothing of the buckets' lists during an expansion, and is not
inductive there. `UtInv` adds, of each table, that there is a set D of its entries
such that the list of all entries is one of D and, while the loop runs, a set M of
those that have moved: M is threaded into the new buckets, with links both ways
(`Threaded`); the others wait on the old lists, from `thh` on in the bucket
`bkt_i` and in all of the buckets behind it (`Waiting`). Their links back are of no
account, as those of the last one moved have been overwritten. `MoveEntry` takes the
first that waits; `NextBucket` is possible because nobody waits in a bucket whose list
has ended; at the end nobody waits, and M is D. A count never goes below zero since a
bucket's count is the length of its list.

The bound on the chains was the one thing that had to change to be proved. "No more
than `expand_mult` + 1 times the threshold", which the comment at `UT_hash_bucket` gives
as the limit of a bucket, holds in small runs, but an expansion sets `expand_mult` by
the ideal chain length, and that may be above the threshold: when two thirds of a
table's buckets have come to a limit of 30 and nearly reach it, their entries,
divided by twice as many buckets, are more than 10 to each. A new bucket with as many
as the ideal then has `expand_mult` 0 and is over its limit at once. ChainsBounded
therefore has the ideal chain in a second disjunct; `Measured` is what the loop keeps
of it.

Only model-checked: liveness (`CallsReturn`, `BenchmarkEnds`). Liveness under
fairness and ENABLED are beyond the prover and stay with TLC. Every safety property,
action property and refinement of the passing runs is stated by a theorem.

## What is not modelled

- `Clib/shield_arr.h` does not compile (two calls lack an argument) and has no
  behaviour.
- What a lock function of the C library returns: both shields in C ignore it, as
  the C++ ones do, and `ClibShield`'s lock functions succeed.
- uthash's sorting, selecting, iteration, its other hash functions and its Bloom
  filter, which the shields do not use. Hash values have 32 bits in the code and the
  run's addresses fewer; locks that differ in higher bits only would share every
  bucket, as three of the run's addresses do up to 16 buckets, and a search tells them
  apart by their keys. The proofs take any natural numbers for hash values. Counters
  of 32 bits (`num_items`, `num_buckets`) do not overflow in the model.
- `lock_bench`: the clock readings are not numbers, `do_work` and
  `pin_thread_to_cpu` are not called by it, and threads can always be created.
- `sanity_check.h` and `lock_type.h` beyond the choice of one class: compile time.
- Callbacks that call the shield again, locks that are destroyed while held,
  overflow of `rec_count` after 2^31 nested acquisitions, memory orders weaker
  than sequential consistency, threads beyond ABQL's slots, and nesting of locks
  whose node or slot is thread_local and in one queue at a time (MCS, CLH, ABQL,
  CNA). The other classes (HEM, K42, Ticket) are nested, in one order.
- In hash mode LS_INVOKE's `rec_count++` (`shielding_invoke.cpp:101`) goes through an
  `LS_LockEntry*`, whose `rec_count` is a `long`, to an `LS_LockHashEntry`, whose
  `rec_count` is an `int`. `AdjustAt` increments the count: on a 64-bit little-endian
  machine the other half of the long is padding that stays 0. Elsewhere it need not be.
- The tests other than the one scenario; the Makefile and the scripts.

## How the parts were chosen, and what could be added

The order was: the promise and LS_HYBRID, its inductive invariant and its proofs;
LS_ARRAY and LS_INVOKE; the lock classes; the C wrappers, uthash and the benchmark;
the proofs of the queue locks, of `CNALock`, and then of uthash. What would extend
this is a shield over a queue lock, with `lock_fn` cut as in `MCSLock`, which would
carry liveness through the shield.
