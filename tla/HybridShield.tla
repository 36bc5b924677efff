---------------------------- MODULE HybridShield ----------------------------
(***************************************************************************)
(* LS_HYBRID (shielding_hash.cpp, shielding_hash.h): each thread counts    *)
(* its holds in a small array and, from its MAX_LOCKS-th lock on, for good *)
(* in a hash table whose entries come from a per-thread pool first and     *)
(* from malloc when the pool is empty.  LS_INVOKE and Clib's shield_hash.h *)
(* run the same table.                                                     *)
(*                                                                         *)
(* The table is thread_local: a thread reads and writes only its own       *)
(* component of the variables below.  uthash is the map it implements.     *)
(***************************************************************************)
EXTENDS ShieldClient, Integers, Sequences, FiniteSets

CONSTANTS
    MAX_LOCKS,          \* cells of the array
    MAX_HASH_ENTRIES,   \* entries of the pool
    HASH_BKT_CAPACITY_THRESH,   \* entries that make uthash expand
    MallocFails,        \* TRUE: malloc may return NULL
    NoLock              \* NULL

ASSUME TableAssumption ==
    /\ NoLock \notin Locks
    /\ MAX_LOCKS \in Nat \ {0}
    /\ MAX_HASH_ENTRIES \in Nat
    /\ MAX_HASH_ENTRIES >= MAX_LOCKS
    /\ HASH_BKT_CAPACITY_THRESH \in Nat
    /\ MallocFails \in BOOLEAN

VARIABLES
    lock_count,             \* cells in use; MAX_LOCKS + 1 in hash mode
    lock_table,             \* the array, cells past lock_count left as they are
    lock_hash,              \* the hash table: lock -> entry, NoEntry when absent
    freelist,               \* the pool entries from freelist_head on
    freelist_initialized,
    heap                    \* malloced entries not freed yet, by their lock_ptr

tableVars ==
    << lock_count, lock_table, lock_hash, freelist, freelist_initialized, heap >>

vars == << clientVars, tableVars >>

-----------------------------------------------------------------------------
(* Where a hash entry lives: in a cell of freelist_pool, or in the heap    *)
(* (dynamically_allocated).                                                *)
PoolSlots == 0 .. (MAX_HASH_ENTRIES - 1)
Heap == MAX_HASH_ENTRIES
NoSlot == -1

Entries == [rec_count : Nat, slot : PoolSlots \cup {Heap, NoSlot}]
NoEntry == [rec_count |-> 0, slot |-> NoSlot]

Cells == [lock_ptr : Locks \cup {NoLock}, rec_count : Nat]
Indices == 0 .. (MAX_LOCKS - 1)

ArrayMode(t) == lock_count[t] <= MAX_LOCKS

Used(t) == 0 .. (lock_count[t] - 1)

(* Mutant: the loop of lookup stops one cell early.                        *)
InArray_OffByOne(t, l) ==
    \E i \in 0 .. (lock_count[t] - 2) : lock_table[t][i].lock_ptr = l

InArray(t, l) == \E i \in Used(t) : lock_table[t][i].lock_ptr = l

(* The first cell with l, the one lookup's loop returns.                   *)
IndexOf(t, l) ==
    CHOOSE i \in Used(t) :
        /\ lock_table[t][i].lock_ptr = l
        /\ \A j \in Used(t) : lock_table[t][j].lock_ptr = l => i <= j

Hashed(t) == { l \in Locks : lock_hash[t][l].slot # NoSlot }

(* lookup(l) is not NULL.                                                  *)
Recorded(t, l) == IF ArrayMode(t) THEN InArray(t, l) ELSE l \in Hashed(t)

(* rec_count of the entry that lookup(l) returns, 0 when it returns NULL.  *)
RefCount(t, l) ==
    IF ArrayMode(t)
    THEN IF InArray(t, l) THEN lock_table[t][IndexOf(t, l)].rec_count ELSE 0
    ELSE lock_hash[t][l].rec_count

-----------------------------------------------------------------------------
(* freelist_pool[0] first, then by index.                                  *)
PoolInOrder == [i \in 1 .. MAX_HASH_ENTRIES |-> i - 1]

(* The freelist after init_freelist, which does its work once.             *)
FreelistReady(t) == IF freelist_initialized[t] THEN freelist[t] ELSE PoolInOrder

(* rec_count++ or rec_count-- of the entry of l, found by lookup.          *)
Adjust(t, l, change) ==
    /\ IF ArrayMode(t)
       THEN /\ lock_table' = [lock_table EXCEPT ![t][IndexOf(t, l)].rec_count = @ + change]
            /\ UNCHANGED lock_hash
       ELSE /\ lock_hash' = [lock_hash EXCEPT ![t][l].rec_count = @ + change]
            /\ UNCHANGED lock_table
    /\ UNCHANGED << lock_count, freelist, freelist_initialized, heap >>

(* A new entry in the next free cell.                                      *)
NextCell(t, l) ==
    [lock_table[t] EXCEPT ![lock_count[t]] = [lock_ptr |-> l, rec_count |-> 1]]

AppendToArray(t, l) ==
    /\ lock_count[t] + 1 < MAX_LOCKS
    /\ lock_table' = [lock_table EXCEPT ![t] = NextCell(t, l)]
    /\ lock_count' = [lock_count EXCEPT ![t] = @ + 1]
    /\ UNCHANGED << lock_hash, freelist, freelist_initialized, heap >>

(* Mutant: the migration copies the locks and starts their counts anew.    *)
MigratedHash_CountsReset(t, cells) ==
    [l \in Locks |->
        IF \E i \in Indices : cells[i].lock_ptr = l
        THEN LET i == CHOOSE j \in Indices : cells[j].lock_ptr = l
             IN [rec_count |-> 1, slot |-> FreelistReady(t)[i + 1]]
        ELSE lock_hash[t][l]]

(* Mutant: the migration forgets the cell that was filled last.            *)
MigratedHash_LastCellLost(t, cells) ==
    [l \in Locks |->
        IF \E i \in Indices \ {MAX_LOCKS - 1} : cells[i].lock_ptr = l
        THEN LET i == CHOOSE j \in Indices : cells[j].lock_ptr = l
             IN [rec_count |-> cells[i].rec_count,
                 slot |-> FreelistReady(t)[i + 1]]
        ELSE lock_hash[t][l]]

(* The last free cell is taken: every cell moves to the hash table, cell i *)
(* into the i-th entry of the freelist, and lock_count marks hash mode.    *)
MigratedHash(t, cells) ==
    [l \in Locks |->
        IF \E i \in Indices : cells[i].lock_ptr = l
        THEN LET i == CHOOSE j \in Indices : cells[j].lock_ptr = l
             IN [rec_count |-> cells[i].rec_count,
                 slot |-> FreelistReady(t)[i + 1]]
        ELSE lock_hash[t][l]]

MigrateToHash(t, l) ==
    /\ lock_count[t] + 1 = MAX_LOCKS
    /\ lock_table' = [lock_table EXCEPT ![t] = NextCell(t, l)]
    /\ lock_hash' = [lock_hash EXCEPT ![t] = MigratedHash(t, NextCell(t, l))]
    /\ freelist' = [freelist EXCEPT ![t] =
                       SubSeq(FreelistReady(t), MAX_LOCKS + 1, Len(FreelistReady(t)))]
    /\ freelist_initialized' = [freelist_initialized EXCEPT ![t] = TRUE]
    /\ lock_count' = [lock_count EXCEPT ![t] = MAX_LOCKS + 1]
    /\ UNCHANGED heap

(* Mutant: freelist_pop does not advance freelist_head.                    *)
AddToHash_HeadNotAdvanced(t, l) ==
    /\ lock_count[t] >= MAX_LOCKS
    /\ FreelistReady(t) # << >>
    /\ lock_hash' = [lock_hash EXCEPT ![t][l] =
                         [rec_count |-> 1, slot |-> Head(FreelistReady(t))]]
    /\ UNCHANGED << lock_count, lock_table, freelist, freelist_initialized, heap >>

(* freelist_pop, then HASH_ADD_PTR.                                        *)
AddToHash(t, l) ==
    /\ lock_count[t] >= MAX_LOCKS
    /\ IF FreelistReady(t) # << >>
       THEN /\ lock_hash' = [lock_hash EXCEPT ![t][l] =
                                [rec_count |-> 1, slot |-> Head(FreelistReady(t))]]
            /\ freelist' = [freelist EXCEPT ![t] = Tail(FreelistReady(t))]
            /\ UNCHANGED heap
       ELSE /\ lock_hash' = [lock_hash EXCEPT ![t][l] =
                                [rec_count |-> 1, slot |-> Heap]]
            /\ freelist' = [freelist EXCEPT ![t] = << >>]
            /\ heap' = [heap EXCEPT ![t] = @ \cup {l}]
    /\ freelist_initialized' = [freelist_initialized EXCEPT ![t] = TRUE]
    /\ UNCHANGED << lock_count, lock_table >>

(* malloc returns NULL to freelist_pop: IncrementRef returns, silently,    *)
(* with the lock unrecorded.                                               *)
LoseRecord(t, l) ==
    /\ MallocFails
    /\ lock_count[t] >= MAX_LOCKS
    /\ FreelistReady(t) = << >>
    /\ UNCHANGED tableVars

IncrementRef(t, l) ==
    \/ Recorded(t, l) /\ Adjust(t, l, 1)
    \/ ~Recorded(t, l) /\ ( \/ AppendToArray(t, l)
                            \/ MigrateToHash(t, l)
                            \/ AddToHash(t, l)
                            \/ LoseRecord(t, l) )

(* HASH_ADD_PTR exits the process when it needs memory and has none: for   *)
(* the table and its buckets when it adds the first entry, and for twice   *)
(* as many buckets when it adds one to a full bucket (HASH_ADD_TO_BKT,     *)
(* HASH_EXPAND_BUCKETS).  Which bucket an entry goes to is left open:      *)
(* enough entries may all be in one.                                       *)
uthash_fatal(t, l) ==
    /\ MallocFails
    /\ ~Recorded(t, l)
    /\ lock_count[t] + 1 >= MAX_LOCKS
    /\ \/ Hashed(t) = {}
       \/ Cardinality(Hashed(t)) + 1 >= HASH_BKT_CAPACITY_THRESH

(* Mutant: the array shrinks by its last cell, whichever cell was removed. *)
RemoveFromArray_NoSwap(t, l) ==
    /\ ArrayMode(t)
    /\ lock_count' = [lock_count EXCEPT ![t] = @ - 1]
    /\ UNCHANGED << lock_table, lock_hash, freelist, freelist_initialized, heap >>

(* lock_table[idx] = lock_table[--lock_count]                              *)
RemoveFromArray(t, l) ==
    /\ ArrayMode(t)
    /\ lock_table' = [lock_table EXCEPT ![t][IndexOf(t, l)] =
                         lock_table[t][lock_count[t] - 1]]
    /\ lock_count' = [lock_count EXCEPT ![t] = @ - 1]
    /\ UNCHANGED << lock_hash, freelist, freelist_initialized, heap >>

(* Mutant: freelist_push does not look at dynamically_allocated.           *)
RemoveFromHash_HeapPushed(t, l) ==
    /\ ~ArrayMode(t)
    /\ lock_hash' = [lock_hash EXCEPT ![t][l] = NoEntry]
    /\ freelist' = [freelist EXCEPT ![t] = << lock_hash[t][l].slot >> \o @]
    /\ UNCHANGED << lock_count, lock_table, freelist_initialized, heap >>

(* HASH_DEL, then freelist_push: a malloced entry is freed, another goes   *)
(* back to the pool.                                                       *)
RemoveFromHash(t, l) ==
    /\ ~ArrayMode(t)
    /\ lock_hash' = [lock_hash EXCEPT ![t][l] = NoEntry]
    /\ IF lock_hash[t][l].slot = Heap
       THEN /\ heap' = [heap EXCEPT ![t] = @ \ {l}]
            /\ UNCHANGED freelist
       ELSE /\ freelist' = [freelist EXCEPT ![t] = << lock_hash[t][l].slot >> \o @]
            /\ UNCHANGED heap
    /\ UNCHANGED << lock_count, lock_table, freelist_initialized >>

(* Mutant: DecrementRef never removes an entry.                            *)
DecrementRef_NeverRemoves(t, l) == Adjust(t, l, -1)

(* Mutant: any release of the lock is its last.                            *)
LastHold_Always(t, l) == TRUE

(* DecrementRef removes the entry and returns 0, not a smaller count.      *)
LastHold(t, l) == RefCount(t, l) <= 1

(* DecrementRef of a recorded lock.                                        *)
DecrementRef(t, l) ==
    \/ ~LastHold(t, l) /\ Adjust(t, l, -1)
    \/ LastHold(t, l) /\ (RemoveFromArray(t, l) \/ RemoveFromHash(t, l))

-----------------------------------------------------------------------------
Init ==
    /\ ClientInit
    /\ lock_count = [t \in Threads |-> 0]
    /\ lock_table = [t \in Threads |->
                        [i \in Indices |-> [lock_ptr |-> NoLock, rec_count |-> 0]]]
    /\ lock_hash = [t \in Threads |-> [l \in Locks |-> NoEntry]]
    /\ freelist = [t \in Threads |-> << >>]
    /\ freelist_initialized = [t \in Threads |-> FALSE]
    /\ heap = [t \in Threads |-> {}]

(* LS_ACQUIRE(l, reentrant, lock_fn), up to lock_fn when it is called.     *)
LS_ACQUIRE(t, l, reentrant) ==
    /\ Call(t)
    /\ reentrant => MayNest(t, l)
    /\ \/ /\ ~Recorded(t, l)
          /\ Proceed(t, l, "lock_fn")
          /\ UNCHANGED tableVars
       \/ /\ Recorded(t, l)
          /\ reentrant
          /\ IncrementRef(t, l)
          /\ Skip(t, l, depth[t][l] + 1, "LS_SKIP_ACQUISITION")
       \/ /\ Recorded(t, l)
          /\ ~reentrant
          /\ RejectMisuse(t, l, "LS_UNBALANCED_LOCK")
          /\ UNCHANGED tableVars

(* lock_fn has returned.                                                   *)
AfterLockFn(t, l) ==
    /\ At(t, l, "increment")
    /\ \/ /\ IncrementRef(t, l)
          /\ Return(t, l, "LS_ACQUIRE_NOW")
          /\ UNCHANGED << owner, depth >>
       \/ /\ uthash_fatal(t, l)
          /\ Exit(t, l)
          /\ UNCHANGED tableVars

(* LS_RELEASE(l, reentrant, unlock_fn), up to unlock_fn when it is called. *)
LS_RELEASE(t, l, reentrant) ==
    /\ Call(t)
    /\ MayRelease(t, l, reentrant)
    /\ \/ /\ ~Recorded(t, l)
          /\ RejectMisuse(t, l, "LS_UNBALANCED_UNLOCK")
          /\ UNCHANGED tableVars
       \/ /\ Recorded(t, l)
          /\ reentrant
          /\ DecrementRef(t, l)
          /\ IF LastHold(t, l)
             THEN Proceed(t, l, "unlock_fn")
             ELSE Skip(t, l, depth[t][l] - 1, "LS_SKIP_RELEASE")
       \/ /\ Recorded(t, l)
          /\ ~reentrant
          /\ Proceed(t, l, "unlock_first")
          /\ UNCHANGED tableVars

(* Mutant: a non-reentrant release leaves the table as it was.             *)
AfterUnlockFn_NoDecrement(t, l) ==
    /\ At(t, l, "decrement")
    /\ Return(t, l, "LS_RELEASE_NOW")
    /\ UNCHANGED << owner, depth, tableVars >>

(* unlock_fn of a non-reentrant release has returned.                      *)
AfterUnlockFn(t, l) ==
    /\ At(t, l, "decrement")
    /\ DecrementRef(t, l)
    /\ Return(t, l, "LS_RELEASE_NOW")
    /\ UNCHANGED << owner, depth >>

Next ==
    \E t \in Threads, l \in Locks :
        \/ \E reentrant \in BOOLEAN : LS_ACQUIRE(t, l, reentrant)
        \/ LockFn(t, l) /\ UNCHANGED tableVars
        \/ AfterLockFn(t, l)
        \/ \E reentrant \in BOOLEAN : LS_RELEASE(t, l, reentrant)
        \/ UnlockFn(t, l) /\ UNCHANGED tableVars
        \/ UnlockFirst(t, l) /\ UNCHANGED tableVars
        \/ AfterUnlockFn(t, l)

Spec == Init /\ [][Next]_vars

-----------------------------------------------------------------------------
TypeOK ==
    /\ ClientTypeOK
    /\ lock_count \in [Threads -> 0 .. (MAX_LOCKS + 1)]
    /\ lock_table \in [Threads -> [Indices -> Cells]]
    /\ lock_hash \in [Threads -> [Locks -> Entries]]
    /\ freelist \in [Threads -> Seq(PoolSlots)]
    /\ freelist_initialized \in [Threads -> BOOLEAN]
    /\ heap \in [Threads -> SUBSET Locks]

(***************************************************************************)
(* The table counts every hold, through the migration to the hash table,   *)
(* the swap that fills a hole in the array and the reuse of pool entries,  *)
(* at every point of a call and not only between calls.                    *)
(***************************************************************************)
RefCountExact ==
    \A t \in Threads, l \in Locks :
        /\ RefCount(t, l) = Expected(t, l)
        /\ Recorded(t, l) <=> Expected(t, l) > 0

(***************************************************************************)
(* With a malloc that fails, a record can be missing but none is ever      *)
(* wrong: a lock the table knows is held as often as the table says.       *)
(***************************************************************************)
NoPhantomRecord ==
    \A t \in Threads, l \in Locks :
        Recorded(t, l) => RefCount(t, l) = Expected(t, l)

(***************************************************************************)
(* The entries are conserved: each one of the pool is on the freelist once *)
(* or in the hash table once, never both, never lost, and a malloced one   *)
(* lives exactly as long as it is in the hash table (freelist_pop,         *)
(* HASH_DEL, freelist_push).                                               *)
(***************************************************************************)
PoolConserved ==
    \A t \in Threads :
        /\ heap[t] = { l \in Locks : lock_hash[t][l].slot = Heap }
        /\ freelist_initialized[t] =>
               \A s \in PoolSlots :
                   LET onList == { i \in 1 .. Len(freelist[t]) : freelist[t][i] = s }
                       inHash == { l \in Locks : lock_hash[t][l].slot = s }
                   IN  \/ inHash = {} /\ \E i \in onList : onList = {i}
                       \/ onList = {} /\ \E l \in inHash : inHash = {l}

(***************************************************************************)
(* LS_HYBRID keeps the shield's promise.                                   *)
(***************************************************************************)
Promise == INSTANCE RefCountedLock WITH status <- decided

KeepsThePromise == Promise!Spec
=============================================================================
