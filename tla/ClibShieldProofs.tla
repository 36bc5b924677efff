-------------------------- MODULE ClibShieldProofs --------------------------
(***************************************************************************)
(* LS_INVOKE implements LS_HYBRID, and Clib's shield makes the calls of    *)
(* LS_INVOKE; and, for any number of nodes, the node that Clib's hands to  *)
(* unlock_fn is the one it handed to lock_fn.                              *)
(***************************************************************************)
EXTENDS ClibShield, HybridShieldProofs

-----------------------------------------------------------------------------
(***************************************************************************)
(* LS_INVOKE implements LS_HYBRID, for every value of the constants and    *)
(* whatever flags the callers mix.                                         *)
(*                                                                         *)
(* The table is thread_local, so between the lookup of a call and the use  *)
(* of its entry nothing moves the entry: that is the invariant.  Under it, *)
(* every operation on the entry is the operation that looks it up again.   *)
(***************************************************************************)
(* Every thread has its own component of the variables, and its calls      *)
(* name a lock.                                                            *)
PerThread ==
    /\ DOMAIN lock_count = Threads
    /\ DOMAIN lock_table = Threads
    /\ DOMAIN lock_hash = Threads
    /\ DOMAIN entry = Threads
    /\ DOMAIN pc = Threads
    /\ arg \in [Threads -> Locks]

(* The entry a call goes on with is the one lookup would return now, and   *)
(* the call is on the branch that this lookup chose.                       *)
EntryFresh(t) ==
    /\ pc[t] \in {"lock_fn", "increment", "unlock_first", "decrement"}
           => entry[t] = lookup(t, arg[t])
    /\ pc[t] \in {"lock_fn", "increment"} => ~Recorded(t, arg[t])
    /\ pc[t] \in {"unlock_first", "decrement"} => Recorded(t, arg[t])

EntriesFresh == PerThread /\ \A t \in Threads : EntryFresh(t)

(* The table of thread s is not touched, as far as lookup reads it.        *)
SameLookup(s) ==
    /\ lock_count'[s] = lock_count[s]
    /\ lock_table'[s] = lock_table[s]
    /\ lock_hash'[s] = lock_hash[s]

(* The entries of the other threads' calls are not touched.                *)
OthersEntries(t) ==
    /\ DOMAIN entry' = Threads
    /\ \A s \in Threads \ {t} : entry'[s] = entry[s]

TableDomains ==
    /\ DOMAIN lock_count' = Threads
    /\ DOMAIN lock_table' = Threads
    /\ DOMAIN lock_hash' = Threads

-----------------------------------------------------------------------------
(***************************************************************************)
(* lookup returns NULL exactly for a lock that is not recorded.            *)
(***************************************************************************)
LEMMA NullIsNotRecorded ==
    \A t \in Threads, l \in Locks : lookup(t, l) = NULL <=> ~Recorded(t, l)
PROOF
    BY DEF lookup, NULL, Cell, HashEntry

(***************************************************************************)
(* The count behind the entry lookup returns is the count of the lock.     *)
(***************************************************************************)
LEMMA CountAtLookup ==
    \A t \in Threads, l \in Locks :
        Recorded(t, l) => CountAt(t, lookup(t, l)) = RefCount(t, l)
PROOF
    BY DEF CountAt, lookup, Cell, HashEntry, RefCount, Recorded

(***************************************************************************)
(* IncrementRef on the entry of a lookup is IncrementRef with its own.     *)
(***************************************************************************)
LEMMA IncrementRefAtLookup ==
    ASSUME NEW t \in Threads, NEW l \in Locks, IncrementRefAt(t, l, lookup(t, l))
    PROVE  IncrementRef(t, l)
PROOF
<1>1. CASE Recorded(t, l) /\ AdjustAt(t, lookup(t, l), 1)
    BY <1>1 DEF AdjustAt, Adjust, IncrementRef, lookup, Cell, HashEntry
<1>2. CASE ~Recorded(t, l)
    <2>1. lookup(t, l) = NULL
        BY <1>2, NullIsNotRecorded
    <2> QED
        BY <1>2, <2>1 DEF IncrementRefAt, IncrementRef
<1>3. Recorded(t, l) => lookup(t, l) # NULL
    BY NullIsNotRecorded
<1> QED
    BY <1>1, <1>2, <1>3 DEF IncrementRefAt

(***************************************************************************)
(* DecrementRef on the entry of a lookup is DecrementRef with its own.     *)
(***************************************************************************)
LEMMA DecrementRefAtLookup ==
    ASSUME NEW t \in Threads, NEW l \in Locks, Recorded(t, l),
           DecrementRefAt(t, lookup(t, l))
    PROVE  DecrementRef(t, l)
PROOF
<1>1. CountAt(t, lookup(t, l)) = RefCount(t, l)
    BY CountAtLookup
<1>2. CASE ~LastHold(t, l) /\ AdjustAt(t, lookup(t, l), -1)
    BY <1>2 DEF AdjustAt, Adjust, DecrementRef, lookup, Cell, HashEntry
<1>3. CASE LastHold(t, l) /\ RemoveAt(t, lookup(t, l))
    <2>1. CASE ArrayMode(t)
        <3>1. lookup(t, l).at = IndexOf(t, l)
            BY <2>1 DEF lookup, Cell
        <3>2. RemoveFromArray(t, l)
            BY <1>3, <2>1, <3>1 DEF RemoveAt, RemoveFromArray, RemoveFromHash
        <3> QED
            BY <1>3, <3>2 DEF DecrementRef
    <2>2. CASE ~ArrayMode(t)
        <3>1. lookup(t, l).at = l
            BY <2>2 DEF lookup, HashEntry
        <3>2. RemoveFromHash(t, l)
            BY <1>3, <2>2, <3>1 DEF RemoveAt
        <3> QED
            BY <1>3, <3>2 DEF DecrementRef
    <2> QED
        BY <2>1, <2>2
<1> QED
    BY <1>1, <1>2, <1>3 DEF DecrementRefAt, LastHold, LastHoldAt

-----------------------------------------------------------------------------
(***************************************************************************)
(* A table that is not touched gives the same answers.                     *)
(***************************************************************************)
LEMMA SameAnswers ==
    ASSUME NEW s \in Threads, SameLookup(s)
    PROVE  \A m \in Locks :
               /\ Recorded(s, m)' <=> Recorded(s, m)
               /\ lookup(s, m)' = lookup(s, m)
PROOF
<1> USE DEF SameLookup
<1>1. (ArrayMode(s)' <=> ArrayMode(s)) /\ Used(s)' = Used(s)
    BY DEF ArrayMode, Used
<1>2. ASSUME NEW m \in Locks
      PROVE  (InArray(s, m)' <=> InArray(s, m)) /\ IndexOf(s, m)' = IndexOf(s, m)
    BY <1>1 DEF InArray, IndexOf
<1>3. ASSUME NEW m \in Locks PROVE Recorded(s, m)' <=> Recorded(s, m)
    BY <1>1, <1>2 DEF Recorded, Hashed
<1> QED
    BY <1>1, <1>2, <1>3 DEF lookup, NULL, Cell, HashEntry

(***************************************************************************)
(* IncrementRef and DecrementRef of t work on the table of t alone.        *)
(***************************************************************************)
LEMMA OwnTableOnly ==
    ASSUME NEW t \in Threads, NEW l \in Locks, PerThread,
           IncrementRef(t, l) \/ DecrementRef(t, l)
    PROVE  TableDomains /\ \A s \in Threads \ {t} : SameLookup(s)
PROOF
<1> USE DEF PerThread, TableDomains, SameLookup
<1>1. ASSUME NEW change, Adjust(t, l, change)
      PROVE  TableDomains /\ \A s \in Threads \ {t} : SameLookup(s)
    BY <1>1 DEF Adjust
<1>2. CASE AppendToArray(t, l)
    BY <1>2 DEF AppendToArray
<1>3. CASE MigrateToHash(t, l)
    BY <1>3 DEF MigrateToHash
<1>4. CASE AddToHash(t, l)
    BY <1>4 DEF AddToHash
<1>5. CASE LoseRecord(t, l)
    BY <1>5 DEF LoseRecord, tableVars
<1>6. CASE RemoveFromArray(t, l)
    BY <1>6 DEF RemoveFromArray
<1>7. CASE RemoveFromHash(t, l)
    BY <1>7 DEF RemoveFromHash
<1> QED
    BY <1>1, <1>2, <1>3, <1>4, <1>5, <1>6, <1>7 DEF IncrementRef, DecrementRef

(* A step that leaves the tables alone leaves what lookup finds alone.     *)
LEMMA NoTableTouched ==
    ASSUME PerThread, UNCHANGED tableVars
    PROVE  TableDomains /\ \A s \in Threads : SameLookup(s)
PROOF
    BY DEF PerThread, TableDomains, SameLookup, tableVars

(***************************************************************************)
(* A call of one thread leaves the others' calls and entries in place.     *)
(***************************************************************************)
LEMMA OthersStayFresh ==
    ASSUME NEW t \in Threads, NEW l \in Locks, NEW place, EntriesFresh,
           Goto(t, l, place), OthersEntries(t),
           TableDomains, \A s \in Threads \ {t} : SameLookup(s),
           EntryFresh(t)'
    PROVE  EntriesFresh'
PROOF
<1>1. PerThread'
    BY DEF EntriesFresh, PerThread, TableDomains, OthersEntries, Goto
<1>2. ASSUME NEW s \in Threads \ {t} PROVE EntryFresh(s)'
    <2>1. /\ pc'[s] = pc[s] /\ arg'[s] = arg[s] /\ arg[s] \in Locks
          /\ entry'[s] = entry[s]
        BY DEF EntriesFresh, PerThread, OthersEntries, Goto
    <2>2. \A m \in Locks :
               /\ Recorded(s, m)' <=> Recorded(s, m)
               /\ lookup(s, m)' = lookup(s, m)
        BY SameAnswers
    <2> QED
        BY <2>1, <2>2 DEF EntriesFresh, EntryFresh
<1> QED
    BY <1>1, <1>2 DEF EntriesFresh

(***************************************************************************)
(* Where a call returns, or ends the process, its entry is not used again. *)
(***************************************************************************)
LEMMA CallOver ==
    ASSUME NEW t \in Threads, NEW l \in Locks, EntriesFresh,
           NEW place \in {"idle", "unlock_fn", "aborted", "exited"},
           Goto(t, l, place)
    PROVE  EntryFresh(t)'
PROOF
<1>1. pc'[t] = place
    BY DEF EntriesFresh, PerThread, Goto
<1> QED
    BY <1>1 DEF EntryFresh

(***************************************************************************)
(* Where a call goes on with what lookup has just returned, the entry is   *)
(* fresh if nothing has touched the table.                                 *)
(***************************************************************************)
LEMMA CallGoesOn ==
    ASSUME NEW t \in Threads, NEW l \in Locks, EntriesFresh, SameLookup(t),
           NEW place \in {"lock_fn", "increment", "unlock_first", "decrement"},
           Goto(t, l, place), entry'[t] = lookup(t, l),
           place \in {"lock_fn", "increment"} => ~Recorded(t, l),
           place \in {"unlock_first", "decrement"} => Recorded(t, l)
    PROVE  EntryFresh(t)'
PROOF
<1>1. pc'[t] = place /\ arg'[t] = l
    BY DEF EntriesFresh, PerThread, Goto
<1>2. (Recorded(t, l)' <=> Recorded(t, l)) /\ lookup(t, l)' = lookup(t, l)
    BY SameAnswers
<1> QED
    BY <1>1, <1>2 DEF EntryFresh

-----------------------------------------------------------------------------
(***************************************************************************)
(* LS_ACQUIRE with one lookup is LS_ACQUIRE, and leaves a fresh entry to   *)
(* the rest of the call.                                                   *)
(***************************************************************************)
LEMMA InvokeAcquireStep ==
    ASSUME EntriesFresh, NEW t \in Threads, NEW l \in Locks,
           NEW reentrant \in BOOLEAN, InvokeAcquire(t, l, reentrant)
    PROVE  LS_ACQUIRE(t, l, reentrant) /\ EntriesFresh'
PROOF
<1>1. Call(t) /\ (reentrant => MayNest(t, l)) /\ PerThread
    BY DEF InvokeAcquire, EntriesFresh
<1>2. CASE /\ lookup(t, l) = NULL /\ Proceed(t, l, "lock_fn") /\ Keep(t, NULL)
           /\ UNCHANGED tableVars
    <2>1. ~Recorded(t, l)
        BY <1>2, NullIsNotRecorded
    <2>2. TableDomains /\ \A s \in Threads : SameLookup(s)
        BY <1>1, <1>2, NoTableTouched
    <2>3. OthersEntries(t) /\ entry'[t] = lookup(t, l)
        BY <1>1, <1>2 DEF Keep, PerThread, OthersEntries
    <2>4. Goto(t, l, "lock_fn") /\ EntryFresh(t)'
        BY <1>2, <2>1, <2>2, <2>3, CallGoesOn DEF Proceed
    <2> QED
        BY <1>1, <1>2, <2>1, <2>2, <2>3, <2>4, OthersStayFresh DEF LS_ACQUIRE
<1>3. CASE /\ lookup(t, l) # NULL /\ reentrant
           /\ IncrementRefAt(t, l, lookup(t, l))
           /\ Skip(t, l, depth[t][l] + 1, "LS_SKIP_ACQUISITION")
           /\ UNCHANGED entry
    <2>1. Recorded(t, l) /\ IncrementRef(t, l)
        BY <1>3, NullIsNotRecorded, IncrementRefAtLookup
    <2>2. TableDomains /\ \A s \in Threads \ {t} : SameLookup(s)
        BY <1>1, <2>1, OwnTableOnly
    <2>3. Goto(t, l, "idle") /\ EntryFresh(t)'
        BY <1>3, CallOver DEF Skip, Return
    <2>4. OthersEntries(t)
        BY <1>1, <1>3 DEF PerThread, OthersEntries
    <2> QED
        BY <1>1, <1>3, <2>1, <2>2, <2>3, <2>4, OthersStayFresh DEF LS_ACQUIRE
<1>4. CASE /\ lookup(t, l) # NULL /\ ~reentrant
           /\ RejectMisuse(t, l, "LS_UNBALANCED_LOCK")
           /\ UNCHANGED << tableVars, entry >>
    <2>1. Recorded(t, l)
        BY <1>4, NullIsNotRecorded
    <2>2. TableDomains /\ \A s \in Threads : SameLookup(s)
        BY <1>1, <1>4, NoTableTouched
    <2>3. PICK place \in {"idle", "aborted"} : Goto(t, l, place)
        BY <1>4 DEF RejectMisuse
    <2>4. EntryFresh(t)'
        BY <2>3, CallOver
    <2>5. OthersEntries(t)
        BY <1>1, <1>4 DEF PerThread, OthersEntries
    <2> QED
        BY <1>1, <1>4, <2>1, <2>2, <2>3, <2>4, <2>5, OthersStayFresh DEF LS_ACQUIRE
<1> QED
    BY <1>2, <1>3, <1>4 DEF InvokeAcquire

(***************************************************************************)
(* lock_fn and unlock_fn touch neither the table nor the entry: what was   *)
(* looked up before them still holds after them, which is what LS_INVOKE   *)
(* relies on.                                                              *)
(***************************************************************************)
LEMMA LockFnKeepsEntry ==
    ASSUME EntriesFresh, NEW t \in Threads, NEW l \in Locks,
           \/ LockFn(t, l)
           \/ UnlockFn(t, l)
           \/ UnlockFirst(t, l),
           UNCHANGED << tableVars, entry >>
    PROVE  EntriesFresh'
PROOF
<1>1. PerThread /\ arg[t] = l /\ EntryFresh(t) /\ entry' = entry
    BY DEF EntriesFresh, LockFn, UnlockFn, UnlockFirst, At
<1>2. TableDomains /\ (\A s \in Threads : SameLookup(s)) /\ OthersEntries(t)
    BY <1>1, NoTableTouched DEF OthersEntries, PerThread
<1>3. CASE LockFn(t, l)
    <2>1. pc[t] = "lock_fn" /\ Goto(t, l, "increment")
        BY <1>3 DEF LockFn, At
    <2>2. entry[t] = lookup(t, l) /\ ~Recorded(t, l)
        BY <1>1, <2>1 DEF EntryFresh
    <2>3. EntryFresh(t)'
        BY <1>1, <1>2, <2>1, <2>2, CallGoesOn
    <2> QED
        BY <1>2, <2>1, <2>3, OthersStayFresh
<1>4. CASE UnlockFn(t, l)
    <2>1. Goto(t, l, "idle")
        BY <1>4 DEF UnlockFn, Return
    <2>2. EntryFresh(t)'
        BY <2>1, CallOver
    <2> QED
        BY <1>2, <2>1, <2>2, OthersStayFresh
<1>5. CASE UnlockFirst(t, l)
    <2>1. pc[t] = "unlock_first" /\ Goto(t, l, "decrement")
        BY <1>5 DEF UnlockFirst, At
    <2>2. entry[t] = lookup(t, l) /\ Recorded(t, l)
        BY <1>1, <2>1 DEF EntryFresh
    <2>3. EntryFresh(t)'
        BY <1>1, <1>2, <2>1, <2>2, CallGoesOn
    <2> QED
        BY <1>2, <2>1, <2>3, OthersStayFresh
<1> QED
    BY <1>3, <1>4, <1>5

(***************************************************************************)
(* IncrementRef after lock_fn, on the entry looked up before it.           *)
(***************************************************************************)
LEMMA InvokeAfterLockFnStep ==
    ASSUME EntriesFresh, NEW t \in Threads, NEW l \in Locks,
           InvokeAfterLockFn(t, l)
    PROVE  AfterLockFn(t, l) /\ EntriesFresh'
PROOF
<1>1. /\ At(t, l, "increment") /\ PerThread
      /\ entry[t] = lookup(t, l) /\ Keep(t, NULL)
    BY DEF InvokeAfterLockFn, EntriesFresh, EntryFresh, At
<1>2. OthersEntries(t)
    BY <1>1 DEF PerThread, Keep, OthersEntries
<1>3. CASE /\ IncrementRefAt(t, l, entry[t]) /\ Return(t, l, "LS_ACQUIRE_NOW")
           /\ UNCHANGED << owner, depth >>
    <2>1. IncrementRef(t, l)
        BY <1>1, <1>3, IncrementRefAtLookup
    <2>2. TableDomains /\ \A s \in Threads \ {t} : SameLookup(s)
        BY <1>1, <2>1, OwnTableOnly
    <2>3. Goto(t, l, "idle") /\ EntryFresh(t)'
        BY <1>3, CallOver DEF Return
    <2> QED
        BY <1>1, <1>2, <1>3, <2>1, <2>2, <2>3, OthersStayFresh DEF AfterLockFn
<1>4. CASE uthash_fatal(t, l) /\ Exit(t, l) /\ UNCHANGED tableVars
    <2>1. TableDomains /\ \A s \in Threads : SameLookup(s)
        BY <1>1, <1>4, NoTableTouched
    <2>2. Goto(t, l, "exited") /\ EntryFresh(t)'
        BY <1>4, CallOver DEF Exit, Proceed
    <2> QED
        BY <1>1, <1>2, <1>4, <2>1, <2>2, OthersStayFresh DEF AfterLockFn
<1> QED
    BY <1>3, <1>4 DEF InvokeAfterLockFn

(***************************************************************************)
(* LS_RELEASE with one lookup is LS_RELEASE.                               *)
(***************************************************************************)
LEMMA InvokeReleaseStep ==
    ASSUME EntriesFresh, NEW t \in Threads, NEW l \in Locks,
           NEW reentrant \in BOOLEAN, InvokeRelease(t, l, reentrant)
    PROVE  LS_RELEASE(t, l, reentrant) /\ EntriesFresh'
PROOF
<1>1. Call(t) /\ MayRelease(t, l, reentrant) /\ PerThread
    BY DEF InvokeRelease, EntriesFresh
<1>2. CASE /\ lookup(t, l) = NULL /\ RejectMisuse(t, l, "LS_UNBALANCED_UNLOCK")
           /\ UNCHANGED << tableVars, entry >>
    <2>1. ~Recorded(t, l)
        BY <1>2, NullIsNotRecorded
    <2>2. TableDomains /\ (\A s \in Threads : SameLookup(s)) /\ OthersEntries(t)
        BY <1>1, <1>2, NoTableTouched DEF OthersEntries, PerThread
    <2>3. PICK place \in {"idle", "aborted"} : Goto(t, l, place)
        BY <1>2 DEF RejectMisuse
    <2>4. EntryFresh(t)'
        BY <2>3, CallOver
    <2> QED
        BY <1>1, <1>2, <2>1, <2>2, <2>3, <2>4, OthersStayFresh DEF LS_RELEASE
<1>3. CASE /\ lookup(t, l) # NULL /\ reentrant
           /\ DecrementRefAt(t, lookup(t, l))
           /\ IF LastHoldAt(t, lookup(t, l))
              THEN Proceed(t, l, "unlock_fn")
              ELSE Skip(t, l, depth[t][l] - 1, "LS_SKIP_RELEASE")
           /\ UNCHANGED entry
    <2>1. Recorded(t, l)
        BY <1>3, NullIsNotRecorded
    <2>2. DecrementRef(t, l) /\ (LastHoldAt(t, lookup(t, l)) <=> LastHold(t, l))
        BY <1>3, <2>1, DecrementRefAtLookup, CountAtLookup DEF LastHoldAt, LastHold
    <2>3. /\ TableDomains /\ (\A s \in Threads \ {t} : SameLookup(s))
          /\ OthersEntries(t)
        BY <1>1, <1>3, <2>2, OwnTableOnly DEF OthersEntries, PerThread
    <2>4. PICK place \in {"idle", "unlock_fn"} : Goto(t, l, place)
        BY <1>3 DEF Proceed, Skip, Return
    <2>5. EntryFresh(t)'
        BY <2>4, CallOver
    <2>6. LS_RELEASE(t, l, reentrant)
        BY <1>1, <1>3, <2>1, <2>2 DEF LS_RELEASE
    <2> QED
        BY <2>3, <2>4, <2>5, <2>6, OthersStayFresh
<1>4. CASE /\ lookup(t, l) # NULL /\ ~reentrant
           /\ Proceed(t, l, "unlock_first") /\ Keep(t, lookup(t, l))
           /\ UNCHANGED tableVars
    <2>1. Recorded(t, l)
        BY <1>4, NullIsNotRecorded
    <2>2. TableDomains /\ \A s \in Threads : SameLookup(s)
        BY <1>1, <1>4, NoTableTouched
    <2>3. OthersEntries(t) /\ entry'[t] = lookup(t, l)
        BY <1>1, <1>4 DEF Keep, PerThread, OthersEntries
    <2>4. Goto(t, l, "unlock_first") /\ EntryFresh(t)'
        BY <1>4, <2>1, <2>2, <2>3, CallGoesOn DEF Proceed
    <2> QED
        BY <1>1, <1>4, <2>1, <2>2, <2>3, <2>4, OthersStayFresh DEF LS_RELEASE
<1> QED
    BY <1>2, <1>3, <1>4 DEF InvokeRelease

(***************************************************************************)
(* DecrementRef after unlock_fn, on the entry looked up before it.         *)
(***************************************************************************)
LEMMA InvokeAfterUnlockFnStep ==
    ASSUME EntriesFresh, NEW t \in Threads, NEW l \in Locks,
           InvokeAfterUnlockFn(t, l)
    PROVE  AfterUnlockFn(t, l) /\ EntriesFresh'
PROOF
<1>1. /\ At(t, l, "decrement") /\ PerThread
      /\ entry[t] = lookup(t, l) /\ Recorded(t, l)
    BY DEF InvokeAfterUnlockFn, EntriesFresh, EntryFresh, At
<1>2. DecrementRef(t, l)
    BY <1>1, DecrementRefAtLookup DEF InvokeAfterUnlockFn
<1>3. /\ TableDomains /\ (\A s \in Threads \ {t} : SameLookup(s))
      /\ OthersEntries(t)
    BY <1>1, <1>2, OwnTableOnly DEF InvokeAfterUnlockFn, Keep, PerThread, OthersEntries
<1>4. Goto(t, l, "idle") /\ EntryFresh(t)'
    BY CallOver DEF InvokeAfterUnlockFn, Return
<1>5. AfterUnlockFn(t, l)
    BY <1>2 DEF InvokeAfterUnlockFn, AfterUnlockFn
<1> QED
    BY <1>3, <1>4, <1>5, OthersStayFresh

-----------------------------------------------------------------------------
(***************************************************************************)
(* Every step of LS_INVOKE is one of LS_HYBRID and keeps entries fresh.    *)
(***************************************************************************)
LEMMA InvokeStep ==
    EntriesFresh /\ [InvokeNext]_invokeVars => [Next]_vars /\ EntriesFresh'
PROOF
<1> SUFFICES ASSUME EntriesFresh, [InvokeNext]_invokeVars
             PROVE  [Next]_vars /\ EntriesFresh'
    OBVIOUS
<1>1. CASE UNCHANGED invokeVars
    <2>1. UNCHANGED vars /\ UNCHANGED << tableVars, entry, pc, arg >>
        BY <1>1 DEF invokeVars, vars, clientVars
    <2>2. PerThread' /\ \A s \in Threads : SameLookup(s)
        BY <2>1 DEF EntriesFresh, PerThread, SameLookup, tableVars
    <2>3. ASSUME NEW s \in Threads PROVE EntryFresh(s)'
        <3>1. \A m \in Locks : /\ Recorded(s, m)' <=> Recorded(s, m)
                               /\ lookup(s, m)' = lookup(s, m)
            BY <2>2, SameAnswers
        <3>2. EntryFresh(s) /\ arg[s] \in Locks
            BY DEF EntriesFresh, PerThread
        <3> QED
            BY <2>1, <3>1, <3>2 DEF EntryFresh
    <2> QED
        BY <2>1, <2>2, <2>3 DEF EntriesFresh
<1>2. CASE InvokeNext
    <2>1. PICK t \in Threads, l \in Locks :
              \/ \E reentrant \in BOOLEAN : InvokeAcquire(t, l, reentrant)
              \/ LockFn(t, l) /\ UNCHANGED << tableVars, entry >>
              \/ InvokeAfterLockFn(t, l)
              \/ \E reentrant \in BOOLEAN : InvokeRelease(t, l, reentrant)
              \/ UnlockFn(t, l) /\ UNCHANGED << tableVars, entry >>
              \/ UnlockFirst(t, l) /\ UNCHANGED << tableVars, entry >>
              \/ InvokeAfterUnlockFn(t, l)
        BY <1>2 DEF InvokeNext
    <2>2. CASE \E reentrant \in BOOLEAN : InvokeAcquire(t, l, reentrant)
        BY <2>2, InvokeAcquireStep DEF Next
    <2>3. CASE InvokeAfterLockFn(t, l)
        BY <2>3, InvokeAfterLockFnStep DEF Next
    <2>4. CASE \E reentrant \in BOOLEAN : InvokeRelease(t, l, reentrant)
        BY <2>4, InvokeReleaseStep DEF Next
    <2>5. CASE InvokeAfterUnlockFn(t, l)
        BY <2>5, InvokeAfterUnlockFnStep DEF Next
    <2>6. CASE /\ LockFn(t, l) \/ UnlockFn(t, l) \/ UnlockFirst(t, l)
               /\ UNCHANGED << tableVars, entry >>
        <3>1. EntriesFresh'
            BY <2>6, LockFnKeepsEntry
        <3>2. UNCHANGED tableVars
            BY <2>6
        <3>3. Next
            BY <2>6, <3>2 DEF Next
        <3> QED
            BY <3>1, <3>3
    <2> QED
        BY <2>1, <2>2, <2>3, <2>4, <2>5, <2>6
<1> QED
    BY <1>1, <1>2

(* No call has looked anything up when the threads start.                  *)
LEMMA InvokeInitFresh == InvokeInit => Init /\ EntriesFresh
PROOF
    BY DEF InvokeInit, Init, ClientInit, EntriesFresh, PerThread, EntryFresh

(***************************************************************************)
(* LS_INVOKE implements LS_HYBRID: looking a lock up once per call, before *)
(* lock_fn or unlock_fn runs, comes to the same as looking it up again     *)
(* afterwards (IncrementRef and DecrementRef of shielding_invoke.cpp).     *)
(***************************************************************************)
THEOREM InvokeImplementsHybrid == InvokeSpec => ImplementsHybrid
PROOF
<1>1. InvokeInit => Init /\ EntriesFresh
    BY InvokeInitFresh
<1>2. EntriesFresh /\ [InvokeNext]_invokeVars => [Next]_vars /\ EntriesFresh'
    BY InvokeStep
<1> QED
    BY <1>1, <1>2, PTL DEF InvokeSpec, ImplementsHybrid, Spec

-----------------------------------------------------------------------------
(***************************************************************************)
(* Clib's shield.  That the node comes back needs LS_INVOKE to be right:   *)
(* that the release that unlocks is the one that takes the depth from 1 to *)
(* 0, whatever was skipped before it, is what the table is for, and is in  *)
(* the invariant of HybridShieldProofs.                                    *)
(***************************************************************************)
MaybeNode == Nodes \cup {NoNode}

NodeTypeOK ==
    /\ me \in [Threads -> MaybeNode]
    /\ taken_with \in [Locks -> MaybeNode]
    /\ acquired \in [Threads -> [Locks -> Seq(MaybeNode)]]

(* The call of t has given its node back and is about to unlock l.         *)
Unlocking(t, l) == arg[t] = l /\ pc[t] \in {"unlock_fn", "unlock_first"}

(* The acquisitions of l that t has not released.                          *)
Outstanding(t, l) == IF Unlocking(t, l) THEN depth[t][l] - 1 ELSE depth[t][l]

(* One node for each of them, and the earliest is the lock's.              *)
NodesInOrder(t, l) ==
    /\ Len(acquired[t][l]) = Outstanding(t, l)
    /\ acquired[t][l] # << >> =>
           acquired[t][l][Len(acquired[t][l])] = taken_with[l]
    /\ Unlocking(t, l) => me[t] = taken_with[l]

NodesKept ==
    /\ NodeTypeOK
    /\ \A t \in Threads, l \in Locks : NodesInOrder(t, l)

-----------------------------------------------------------------------------
(***************************************************************************)
(* Each step of Clib's shield is a step of LS_INVOKE (LS_ACQUIRE1 and      *)
(* LS_ACQUIRE2 differ in what they pass to the lock only).                 *)
(***************************************************************************)
LEMMA ClibStepIsInvokeStep == [ClibNext]_clibVars => [InvokeNext]_invokeVars
PROOF
<1> SUFFICES ASSUME [ClibNext]_clibVars PROVE [InvokeNext]_invokeVars
    OBVIOUS
<1>1. CASE UNCHANGED clibVars
    BY <1>1 DEF clibVars
<1>2. ASSUME NEW t \in Threads, NEW l \in Locks, NEW reentrant \in BOOLEAN,
             \/ LS_ACQUIRE1(t, l, reentrant)
             \/ \E node \in Nodes : LS_ACQUIRE2(t, l, node, reentrant)
      PROVE  InvokeNext
    <2>1. InvokeAcquire(t, l, reentrant)
        BY <1>2 DEF LS_ACQUIRE1, LS_ACQUIRE2, ClibAcquire
    <2> QED
        BY <2>1 DEF InvokeNext
<1>3. ASSUME NEW t \in Threads, NEW l \in Locks, NEW reentrant \in BOOLEAN,
             \/ LS_RELEASE1(t, l, reentrant)
             \/ \E node \in Nodes : LS_RELEASE2(t, l, node, reentrant)
      PROVE  InvokeNext
    <2>1. InvokeRelease(t, l, reentrant)
        BY <1>3 DEF LS_RELEASE1, LS_RELEASE2, ClibRelease
    <2> QED
        BY <2>1 DEF InvokeNext
<1>4. ASSUME NEW t \in Threads, NEW l \in Locks,
             ClibLockFn(t, l) \/ ClibUnlockFn(t, l)
      PROVE  InvokeNext
    <2>1. /\ LockFn(t, l) \/ UnlockFn(t, l) \/ UnlockFirst(t, l)
          /\ UNCHANGED << tableVars, entry >>
        BY <1>4 DEF ClibLockFn, ClibUnlockFn
    <2> QED
        BY <2>1 DEF InvokeNext
<1>5. ASSUME NEW t \in Threads, NEW l \in Locks,
             InvokeAfterLockFn(t, l) \/ InvokeAfterUnlockFn(t, l)
      PROVE  InvokeNext
    BY <1>5 DEF InvokeNext
<1> QED
    BY <1>1, <1>2, <1>3, <1>4, <1>5 DEF ClibNext

(* The wrappers of shield_hash.h, whatever node they pass on, take the     *)
(* steps of the LS_INVOKE shield: their table functions are the same code. *)
THEOREM ClibRunsInvoke == ClibSpec => InvokeSpec
PROOF
<1>1. ClibInit => InvokeInit
    BY DEF ClibInit
<1>2. [ClibNext]_clibVars => [InvokeNext]_invokeVars
    BY ClibStepIsInvokeStep
<1> QED
    BY <1>1, <1>2, PTL DEF ClibSpec, InvokeSpec

(***************************************************************************)
(* Clib's shield implements LS_HYBRID, by way of LS_INVOKE.                *)
(***************************************************************************)
THEOREM ClibImplementsHybrid == ClibSpec => ImplementsHybrid
PROOF
    BY ClibRunsInvoke, InvokeImplementsHybrid

-----------------------------------------------------------------------------
(***************************************************************************)
(* A step that leaves a thread's nodes for a lock, its depth and that      *)
(* lock's node alone changes nothing of what is known of them, unless the  *)
(* thread comes to the point of unlocking.                                 *)
(***************************************************************************)
LEMMA NodesUntouched ==
    ASSUME NEW u \in Threads, NEW m \in Locks, NodesInOrder(u, m),
           depth'[u][m] = depth[u][m], acquired'[u][m] = acquired[u][m],
           taken_with'[m] = taken_with[m],
           \/ pc'[u] = pc[u] /\ arg'[u] = arg[u] /\ me'[u] = me[u]
           \/ ~Unlocking(u, m) /\ ~Unlocking(u, m)'
    PROVE  NodesInOrder(u, m)'
PROOF
    BY DEF NodesInOrder, Outstanding, Unlocking

(* A thread that does not hold a lock does not care for the lock's node.   *)
LEMMA NotAHolder ==
    ASSUME NEW u \in Threads, NEW m \in Locks, NodesInOrder(u, m), IInv,
           depth[u][m] = 0, depth'[u][m] = 0, acquired'[u][m] = acquired[u][m],
           pc'[u] = pc[u], arg'[u] = arg[u], acquired[u][m] \in Seq(MaybeNode)
    PROVE  NodesInOrder(u, m)'
PROOF
<1>1. ~Unlocking(u, m)
    BY DEF Unlocking, IInv, ThreadInOrder, CallInOrder
<1>2. Len(acquired[u][m]) = 0
    BY <1>1 DEF NodesInOrder, Outstanding
<1>3. acquired[u][m] = << >>
    BY <1>2
<1> QED
    BY <1>1, <1>2, <1>3 DEF NodesInOrder, Outstanding, Unlocking

(***************************************************************************)
(* The effect of the client's moves on what the invariant looks at.        *)
(***************************************************************************)
LEMMA GotoMoves ==
    ASSUME IInv, NEW t \in Threads, NEW l \in Locks, NEW p, Goto(t, l, p)
    PROVE  /\ pc'[t] = p /\ arg'[t] = l
           /\ \A u \in Threads \ {t} : pc'[u] = pc[u] /\ arg'[u] = arg[u]
PROOF
    BY DEF IInv, TypeOK, ClientTypeOK, Goto

(* A call of t on l that does not unlock, and leaves depth and nodes.      *)
LEMMA QuietMove ==
    ASSUME IInv, NodesKept, NEW t \in Threads, NEW l \in Locks,
           pc[t] \notin {"unlock_fn", "unlock_first"},
           NEW p, p \notin {"unlock_fn", "unlock_first"}, Goto(t, l, p),
           depth' = depth, acquired' = acquired, taken_with' = taken_with,
           me' \in [Threads -> MaybeNode],
           \A u \in Threads \ {t} : me'[u] = me[u]
    PROVE  NodesKept'
PROOF
<1>1. NodeTypeOK'
    BY DEF NodesKept, NodeTypeOK
<1>2. ASSUME NEW u \in Threads, NEW m \in Locks PROVE NodesInOrder(u, m)'
    <2>1. NodesInOrder(u, m)
        BY DEF NodesKept
    <2>2. CASE u = t
        <3>1. ~Unlocking(t, m) /\ ~Unlocking(t, m)'
            BY GotoMoves DEF Unlocking
        <3> QED
            BY <2>1, <2>2, <3>1, NodesUntouched
    <2>3. CASE u # t
        BY <2>1, <2>3, GotoMoves, NodesUntouched
    <2> QED
        BY <2>2, <2>3
<1> QED
    BY <1>1, <1>2 DEF NodesKept

(***************************************************************************)
(* What holds of a node sequence when a node is put before it or its first *)
(* node is taken away.                                                     *)
(***************************************************************************)
LEMMA PutBefore ==
    ASSUME NEW S, NEW s \in Seq(S), NEW n \in S
    PROVE  /\ << n >> \o s \in Seq(S)
           /\ Len(<< n >> \o s) = Len(s) + 1
           /\ << n >> \o s # << >>
           /\ s # << >> => (<< n >> \o s)[Len(s) + 1] = s[Len(s)]
           /\ s = << >> => (<< n >> \o s)[Len(s) + 1] = n
PROOF
    OBVIOUS

(* Popping the newest node keeps the oldest, and the last one popped is the*)
(* oldest.                                                                 *)
LEMMA TakeAway ==
    ASSUME NEW S, NEW s \in Seq(S), s # << >>
    PROVE  /\ Tail(s) \in Seq(S)
           /\ Len(Tail(s)) = Len(s) - 1
           /\ Tail(s) # << >> => Tail(s)[Len(s) - 1] = s[Len(s)]
           /\ Len(s) = 1 => Head(s) = s[Len(s)]
PROOF
    OBVIOUS

(***************************************************************************)
(* A reentrant acquisition of a lock that is held: one more node, before   *)
(* the others.                                                             *)
(***************************************************************************)
LEMMA NestingKeepsNodes ==
    ASSUME IInv, NodesKept, NEW t \in Threads, NEW l \in Locks, NEW node \in MaybeNode,
           pc[t] = "idle", depth[t][l] > 0,
           Skip(t, l, depth[t][l] + 1, "LS_SKIP_ACQUISITION"),
           acquired' = Acquired(t, l, node), UNCHANGED << me, taken_with >>
    PROVE  NodesKept'
PROOF
<1> DEFINE s == acquired[t][l]
<1>1. /\ s \in Seq(MaybeNode) /\ NodeTypeOK /\ NodesInOrder(t, l)
      /\ depth \in [Threads -> [Locks -> Nat]]
    BY DEF NodesKept, NodeTypeOK, IInv, TypeOK, ClientTypeOK
<1>2. Goto(t, l, "idle") /\ depth' = [depth EXCEPT ![t][l] = depth[t][l] + 1]
    BY DEF Skip, Return
<1>3. /\ acquired'[t][l] = << node >> \o s
      /\ depth'[t][l] = depth[t][l] + 1
      /\ \A u \in Threads, m \in Locks :
             u # t \/ m # l => acquired'[u][m] = acquired[u][m] /\ depth'[u][m] = depth[u][m]
    BY <1>1, <1>2 DEF Acquired, NodeTypeOK
<1>4. /\ << node >> \o s \in Seq(MaybeNode)
      /\ Len(<< node >> \o s) = Len(s) + 1
      /\ s # << >> => (<< node >> \o s)[Len(s) + 1] = s[Len(s)]
    BY <1>1, PutBefore
<1>5. NodeTypeOK'
    BY <1>1, <1>4 DEF NodeTypeOK, Acquired
<1>6. ASSUME NEW u \in Threads, NEW m \in Locks PROVE NodesInOrder(u, m)'
    <2>1. NodesInOrder(u, m)
        BY DEF NodesKept
    <2>2. CASE u # t
        BY <1>2, <1>3, <2>1, <2>2, GotoMoves, NodesUntouched
    <2>3. ~Unlocking(t, m) /\ ~Unlocking(t, m)'
        BY <1>2, GotoMoves DEF Unlocking
    <2>4. CASE u = t /\ m # l
        BY <1>3, <2>1, <2>3, <2>4, NodesUntouched
    <2>5. CASE u = t /\ m = l
        <3>1. Len(s) = depth[t][l] /\ s # << >> /\ s[Len(s)] = taken_with[l]
            <4>1. Len(s) = depth[t][l]
                BY <1>1, <2>3, <2>5 DEF NodesInOrder, Outstanding
            <4> QED
                BY <1>1, <4>1 DEF NodesInOrder
        <3>2. /\ Len(acquired'[t][l]) = depth'[t][l]
              /\ acquired'[t][l][Len(acquired'[t][l])] = taken_with'[l]
            <4> HIDE DEF s
            <4> QED
                BY <1>3, <1>4, <3>1
        <3> QED
            BY <2>3, <2>5, <3>2 DEF NodesInOrder, Outstanding
    <2> QED
        BY <2>2, <2>4, <2>5
<1> QED
    BY <1>5, <1>6 DEF NodesKept

(***************************************************************************)
(* A release of a recorded lock: the latest node goes.  If the call goes   *)
(* on to unlock, it was the only one, and the caller has passed it.        *)
(***************************************************************************)
LEMMA ReleasingKeepsNodes ==
    ASSUME IInv, NodesKept, NEW t \in Threads, NEW l \in Locks, NEW node \in MaybeNode,
           pc[t] = "idle", depth[t][l] > 0,
           acquired[t][l] # << >> => node = Head(acquired[t][l]),
           acquired' = [acquired EXCEPT ![t][l] = Tail(@)], taken_with' = taken_with,
           \/ /\ Skip(t, l, depth[t][l] - 1, "LS_SKIP_RELEASE")
              /\ me' = me
           \/ /\ Proceed(t, l, "unlock_fn") \/ Proceed(t, l, "unlock_first")
              /\ depth[t][l] = 1
              /\ me' = [me EXCEPT ![t] = node]
    PROVE  NodesKept'
PROOF
<1> DEFINE s == acquired[t][l]
<1>1. /\ s \in Seq(MaybeNode) /\ NodeTypeOK /\ NodesInOrder(t, l)
      /\ depth \in [Threads -> [Locks -> Nat]]
    BY DEF NodesKept, NodeTypeOK, IInv, TypeOK, ClientTypeOK
<1>2. ~Unlocking(t, l)
    BY DEF Unlocking
<1>3. Len(s) = depth[t][l] /\ s # << >> /\ s[Len(s)] = taken_with[l]
    <2>1. Len(s) = depth[t][l]
        BY <1>1, <1>2 DEF NodesInOrder, Outstanding
    <2> QED
        BY <1>1, <2>1 DEF NodesInOrder
<1>4. /\ Tail(s) \in Seq(MaybeNode) /\ Len(Tail(s)) = Len(s) - 1
      /\ Tail(s) # << >> => Tail(s)[Len(s) - 1] = s[Len(s)]
      /\ Len(s) = 1 => Head(s) = s[Len(s)]
    BY <1>1, <1>3, TakeAway
<1>5. /\ acquired'[t][l] = Tail(s)
      /\ \A u \in Threads, m \in Locks :
             u # t \/ m # l => acquired'[u][m] = acquired[u][m]
    BY <1>1 DEF NodeTypeOK
<1>6. NodeTypeOK'
    BY <1>1, <1>4 DEF NodeTypeOK
<1>7. PICK p : /\ Goto(t, l, p)
               /\ \/ p = "idle" /\ depth' = [depth EXCEPT ![t][l] = depth[t][l] - 1]
                                /\ me' = me
                  \/ /\ p \in {"unlock_fn", "unlock_first"} /\ depth' = depth
                     /\ depth[t][l] = 1 /\ me' = [me EXCEPT ![t] = node]
    BY DEF Skip, Return, Proceed
<1>8. \A u \in Threads, m \in Locks : u # t \/ m # l => depth'[u][m] = depth[u][m]
    BY <1>1, <1>7
<1>9. ASSUME NEW u \in Threads, NEW m \in Locks PROVE NodesInOrder(u, m)'
    <2>1. NodesInOrder(u, m)
        BY DEF NodesKept
    <2>2. CASE u # t
        <3>1. me'[u] = me[u]
            BY <1>1, <1>7, <2>2 DEF NodeTypeOK
        <3> QED
            BY <1>5, <1>7, <1>8, <2>1, <2>2, <3>1, GotoMoves, NodesUntouched
    <2>3. CASE u = t /\ m # l
        <3>1. ~Unlocking(t, m) /\ ~Unlocking(t, m)'
            BY <1>7, <2>3, GotoMoves DEF Unlocking
        <3> QED
            BY <1>5, <1>8, <2>1, <2>3, <3>1, NodesUntouched
    <2>4. CASE u = t /\ m = l
        <3>1. /\ Len(acquired'[t][l]) = depth[t][l] - 1
              /\ acquired'[t][l] # << >> =>
                     acquired'[t][l][Len(acquired'[t][l])] = taken_with'[l]
            <4> HIDE DEF s
            <4> QED
                BY <1>3, <1>4, <1>5
        <3>2. CASE p = "idle"
            <4>1. ~Unlocking(t, l)' /\ depth'[t][l] = depth[t][l] - 1
                BY <1>1, <1>7, <3>2, GotoMoves DEF Unlocking
            <4> QED
                BY <2>4, <3>1, <4>1 DEF NodesInOrder, Outstanding
        <3>3. CASE p \in {"unlock_fn", "unlock_first"}
            <4>1. Unlocking(t, l)' /\ depth'[t][l] = depth[t][l] /\ me'[t] = node
                BY <1>1, <1>7, <3>3, GotoMoves DEF Unlocking, NodeTypeOK
            <4>2. node = taken_with[l]
                BY <1>3, <1>4, <1>7, <3>3
            <4> QED
                BY <2>4, <3>1, <4>1, <4>2 DEF NodesInOrder, Outstanding
        <3> QED
            BY <1>7, <3>2, <3>3
    <2> QED
        BY <2>2, <2>3, <2>4
<1> QED
    BY <1>6, <1>9 DEF NodesKept

-----------------------------------------------------------------------------
(* An acquisition, with or without a node, keeps the invariant on nodes.   *)
LEMMA ClibAcquireStep ==
    ASSUME IInv, NodesKept, NEW t \in Threads, NEW l \in Locks, NEW node \in MaybeNode,
           NEW reentrant \in BOOLEAN, ClibAcquire(t, l, node, reentrant)
    PROVE  NodesKept'
PROOF
<1>1. pc[t] = "idle" /\ taken_with' = taken_with /\ NodeTypeOK
    BY DEF ClibAcquire, InvokeAcquire, Call, NodesKept
<1>2. CASE lookup(t, l) = NULL
    <2>1. /\ Goto(t, l, "lock_fn") /\ depth' = depth /\ acquired' = acquired
          /\ me' = [me EXCEPT ![t] = node]
        BY <1>2 DEF ClibAcquire, InvokeAcquire, Proceed
    <2>2. me' \in [Threads -> MaybeNode] /\ \A u \in Threads \ {t} : me'[u] = me[u]
        BY <1>1, <2>1 DEF NodeTypeOK
    <2> QED
        BY <1>1, <2>1, <2>2, QuietMove
<1>3. CASE lookup(t, l) # NULL /\ reentrant
    <2>1. depth[t][l] > 0
        BY <1>1, <1>3, NullIsNotRecorded, IdleTable
    <2>2. /\ Skip(t, l, depth[t][l] + 1, "LS_SKIP_ACQUISITION")
          /\ acquired' = Acquired(t, l, node) /\ me' = me
        BY <1>3 DEF ClibAcquire, InvokeAcquire
    <2> QED
        BY <1>1, <2>1, <2>2, NestingKeepsNodes
<1>4. CASE lookup(t, l) # NULL /\ ~reentrant
    <2>1. /\ RejectMisuse(t, l, "LS_UNBALANCED_LOCK")
          /\ acquired' = acquired /\ me' = me
        BY <1>4 DEF ClibAcquire, InvokeAcquire
    <2>2. PICK p \in {"aborted", "idle"} : Goto(t, l, p) /\ depth' = depth
        BY <2>1 DEF RejectMisuse
    <2> QED
        BY <1>1, <2>1, <2>2, QuietMove DEF NodeTypeOK
<1> QED
    BY <1>2, <1>3, <1>4

(* A release, with or without a node, keeps it as long as callers pass the *)
(* flag as the shield needs it.                                            *)
LEMMA ClibReleaseStep ==
    ASSUME ~MixFlags, IInv, NodesKept, NEW t \in Threads, NEW l \in Locks,
           NEW node \in MaybeNode, NEW reentrant \in BOOLEAN,
           ClibRelease(t, l, node, reentrant)
    PROVE  NodesKept'
PROOF
<1>1. /\ pc[t] = "idle" /\ taken_with' = taken_with /\ NodeTypeOK
      /\ acquired[t][l] # << >> => node = Head(acquired[t][l])
      /\ reentrant \/ depth[t][l] <= 1
    BY DEF ClibRelease, InvokeRelease, Call, MayRelease, NodesKept
<1>2. CASE lookup(t, l) = NULL
    <2>1. /\ RejectMisuse(t, l, "LS_UNBALANCED_UNLOCK")
          /\ acquired' = acquired /\ me' = me
        BY <1>2 DEF ClibRelease, InvokeRelease
    <2>2. PICK p \in {"aborted", "idle"} : Goto(t, l, p) /\ depth' = depth
        BY <2>1 DEF RejectMisuse
    <2> QED
        BY <1>1, <2>1, <2>2, QuietMove DEF NodeTypeOK
<1>3. CASE lookup(t, l) # NULL
    <2>1. /\ Recorded(t, l) /\ depth[t][l] \in Nat /\ depth[t][l] > 0
          /\ RefCount(t, l) = depth[t][l]
        BY <1>1, <1>3, NullIsNotRecorded, IdleTable
    <2>2. CountAt(t, lookup(t, l)) = RefCount(t, l)
        BY <2>1, CountAtLookup
    <2>3. LastHoldAt(t, lookup(t, l)) <=> depth[t][l] = 1
        BY <2>1, <2>2 DEF LastHoldAt
    <2>4. acquired' = [acquired EXCEPT ![t][l] = Tail(@)]
        BY <1>3 DEF ClibRelease
    <2>5. CASE reentrant /\ ~LastHoldAt(t, lookup(t, l))
        <3>1. Skip(t, l, depth[t][l] - 1, "LS_SKIP_RELEASE") /\ me' = me
            BY <1>3, <2>5 DEF ClibRelease, InvokeRelease
        <3> QED
            BY <1>1, <2>1, <2>4, <3>1, ReleasingKeepsNodes
    <2>6. CASE ~(reentrant /\ ~LastHoldAt(t, lookup(t, l)))
        <3>1. /\ Proceed(t, l, "unlock_fn") \/ Proceed(t, l, "unlock_first")
              /\ me' = [me EXCEPT ![t] = node]
            BY <1>3, <2>6 DEF ClibRelease, InvokeRelease
        <3>2. depth[t][l] = 1
            BY <1>1, <2>1, <2>3, <2>6
        <3> QED
            BY <1>1, <2>1, <2>4, <3>1, <3>2, ReleasingKeepsNodes
    <2> QED
        BY <2>5, <2>6
<1> QED
    BY <1>2, <1>3

(***************************************************************************)
(* lock_fn takes the node the call has brought; nobody else holds the lock *)
(* whose node it becomes.                                                  *)
(***************************************************************************)
LEMMA ClibLockFnStep ==
    ASSUME IInv, NodesKept, NEW t \in Threads, NEW l \in Locks, ClibLockFn(t, l)
    PROVE  NodesKept'
PROOF
<1>1. /\ NodeTypeOK /\ owner[l] = NoThread /\ pc[t] = "lock_fn" /\ arg[t] = l
      /\ depth \in [Threads -> [Locks -> Nat]]
      /\ Goto(t, l, "increment")
      /\ depth' = [depth EXCEPT ![t][l] = depth[t][l] + 1]
      /\ taken_with' = [taken_with EXCEPT ![l] = me[t]]
      /\ acquired' = [acquired EXCEPT ![t][l] = << me[t] >> \o acquired[t][l]]
      /\ me' = [me EXCEPT ![t] = NoNode]
    BY DEF ClibLockFn, LockFn, At, NodesKept, IInv, TypeOK, ClientTypeOK, Acquired
<1>2. me[t] \in MaybeNode /\ acquired[t][l] \in Seq(MaybeNode)
    BY <1>1 DEF NodeTypeOK
<1>3. \A u \in Threads : depth[u][l] = 0
    BY <1>1, ClientAssumption DEF IInv, OwnerHolds
<1>4. acquired[t][l] = << >>
    <2>1. NodesInOrder(t, l) /\ ~Unlocking(t, l)
        BY <1>1 DEF NodesKept, Unlocking
    <2>2. Len(acquired[t][l]) = 0
        BY <1>3, <2>1 DEF NodesInOrder, Outstanding
    <2> QED
        BY <1>2, <2>2
<1>5. /\ << me[t] >> \o acquired[t][l] \in Seq(MaybeNode)
      /\ Len(<< me[t] >> \o acquired[t][l]) = 1
      /\ (<< me[t] >> \o acquired[t][l])[1] = me[t]
    BY <1>2, <1>4, PutBefore
<1>6. NodeTypeOK'
    <2>1. me' \in [Threads -> MaybeNode] /\ taken_with' \in [Locks -> MaybeNode]
        BY <1>1, <1>2 DEF NodeTypeOK, MaybeNode
    <2>2. acquired' \in [Threads -> [Locks -> Seq(MaybeNode)]]
        BY <1>1, <1>5 DEF NodeTypeOK
    <2> QED
        BY <2>1, <2>2 DEF NodeTypeOK
<1>7. /\ \A u \in Threads, m \in Locks :
             u # t \/ m # l => acquired'[u][m] = acquired[u][m] /\ depth'[u][m] = depth[u][m]
      /\ \A u \in Threads \ {t} : me'[u] = me[u]
      /\ \A m \in Locks \ {l} : taken_with'[m] = taken_with[m]
    BY <1>1 DEF NodeTypeOK
<1>8. ASSUME NEW u \in Threads, NEW m \in Locks PROVE NodesInOrder(u, m)'
    <2>1. NodesInOrder(u, m) /\ acquired[u][m] \in Seq(MaybeNode)
        BY <1>1 DEF NodesKept, NodeTypeOK
    <2>2. CASE u # t /\ m # l
        BY <1>1, <1>7, <2>1, <2>2, GotoMoves, NodesUntouched
    <2>3. CASE u # t /\ m = l
        BY <1>1, <1>3, <1>7, <2>1, <2>3, GotoMoves, NotAHolder
    <2>4. ~Unlocking(t, m) /\ ~Unlocking(t, m)'
        BY <1>1, GotoMoves DEF Unlocking
    <2>5. CASE u = t /\ m # l
        BY <1>7, <2>1, <2>4, <2>5, NodesUntouched
    <2>6. CASE u = t /\ m = l
        <3>1. /\ Len(acquired'[t][l]) = 1 /\ acquired'[t][l][1] = me[t]
              /\ depth'[t][l] = 1 /\ taken_with'[l] = me[t]
            BY <1>1, <1>3, <1>5 DEF NodeTypeOK
        <3> QED
            BY <2>4, <2>6, <3>1 DEF NodesInOrder, Outstanding
    <2> QED
        BY <2>2, <2>3, <2>5, <2>6
<1> QED
    BY <1>6, <1>8 DEF NodesKept

(* The lock is given back: the thread has no node of it left.              *)
LEMMA ClibUnlockFnStep ==
    ASSUME IInv, NodesKept, NEW t \in Threads, NEW l \in Locks, ClibUnlockFn(t, l)
    PROVE  NodesKept'
PROOF
<1>1. /\ NodeTypeOK /\ Unlocking(t, l)
      /\ depth \in [Threads -> [Locks -> Nat]]
      /\ depth' = [depth EXCEPT ![t][l] = depth[t][l] - 1]
      /\ taken_with' = [taken_with EXCEPT ![l] = NoNode]
      /\ acquired' = acquired
      /\ me' = [me EXCEPT ![t] = NoNode]
    BY DEF ClibUnlockFn, UnlockFn, UnlockFirst, ClearFlag, At, Unlocking, NodesKept,
           IInv, TypeOK, ClientTypeOK
<1>2. Goto(t, l, "idle") \/ Goto(t, l, "decrement")
    BY DEF ClibUnlockFn, UnlockFn, UnlockFirst, Return
<1>3. depth[t][l] = 1
    BY <1>1 DEF Unlocking, IInv, ThreadInOrder, CallInOrder
<1>4. owner[l] = t /\ \A u \in Threads \ {t} : depth[u][l] = 0
    BY <1>1, <1>3 DEF IInv, OwnerHolds
<1>5. NodeTypeOK'
    BY <1>1 DEF NodeTypeOK, MaybeNode
<1>6. /\ \A u \in Threads, m \in Locks : u # t \/ m # l => depth'[u][m] = depth[u][m]
      /\ \A u \in Threads \ {t} : me'[u] = me[u]
      /\ \A m \in Locks \ {l} : taken_with'[m] = taken_with[m]
    BY <1>1 DEF NodeTypeOK
<1>7. /\ arg'[t] = l /\ pc'[t] \notin {"unlock_fn", "unlock_first"}
      /\ \A u \in Threads \ {t} : pc'[u] = pc[u] /\ arg'[u] = arg[u]
    BY <1>2, GotoMoves
<1>8. ASSUME NEW u \in Threads, NEW m \in Locks PROVE NodesInOrder(u, m)'
    <2>1. NodesInOrder(u, m) /\ acquired[u][m] \in Seq(MaybeNode)
        BY <1>1 DEF NodesKept, NodeTypeOK
    <2>2. CASE u # t /\ m # l
        BY <1>1, <1>6, <1>7, <2>1, <2>2, NodesUntouched
    <2>3. CASE u # t /\ m = l
        BY <1>1, <1>4, <1>6, <1>7, <2>1, <2>3, NotAHolder
    <2>4. CASE u = t /\ m # l
        <3>1. ~Unlocking(t, m) /\ ~Unlocking(t, m)'
            BY <1>1, <1>7, <2>4 DEF Unlocking
        <3> QED
            BY <1>1, <1>6, <2>1, <2>4, <3>1, NodesUntouched
    <2>5. CASE u = t /\ m = l
        <3>1. Len(acquired[t][l]) = 0
            BY <1>1, <1>3, <2>1, <2>5 DEF NodesInOrder, Outstanding
        <3>2. acquired[t][l] = << >>
            BY <2>1, <2>5, <3>1
        <3>3. depth'[t][l] = 0 /\ ~Unlocking(t, l)'
            BY <1>1, <1>3, <1>7 DEF Unlocking
        <3> QED
            BY <1>1, <2>5, <3>1, <3>2, <3>3 DEF NodesInOrder, Outstanding
    <2> QED
        BY <2>2, <2>3, <2>4, <2>5
<1> QED
    BY <1>5, <1>8 DEF NodesKept

(* Nothing is held and no node is out when the threads start.              *)
LEMMA ClibInitInOrder == ClibInit => Init /\ NodesKept
PROOF
<1> SUFFICES ASSUME ClibInit PROVE Init /\ NodesKept
    OBVIOUS
<1>1. Init /\ ClientInit
    BY DEF ClibInit, InvokeInit, Init
<1>2. NodeTypeOK
    <2>1. << >> \in Seq(MaybeNode) /\ NoNode \in MaybeNode
        BY DEF MaybeNode
    <2> QED
        BY <2>1 DEF ClibInit, NodeTypeOK
<1>3. ASSUME NEW t \in Threads, NEW l \in Locks PROVE NodesInOrder(t, l)
    <2>1. ~Unlocking(t, l) /\ depth[t][l] = 0 /\ acquired[t][l] = << >>
        BY <1>1 DEF ClibInit, ClientInit, Unlocking
    <2> QED
        BY <2>1 DEF NodesInOrder, Outstanding
<1> QED
    BY <1>1, <1>2, <1>3 DEF NodesKept

(* Every step of a wrapper keeps the invariant on nodes.                   *)
LEMMA ClibNextKeepsNodes ==
    ASSUME ~MixFlags
    PROVE  IInv /\ NodesKept /\ [ClibNext]_clibVars => NodesKept'
PROOF
<1> SUFFICES ASSUME IInv, NodesKept, [ClibNext]_clibVars PROVE NodesKept'
    OBVIOUS
<1>1. CASE UNCHANGED clibVars
    BY <1>1 DEF clibVars, nodeVars, invokeVars, vars, clientVars, NodesKept, NodeTypeOK,
                NodesInOrder, Outstanding, Unlocking
<1>2. NoNode \in MaybeNode /\ Nodes \subseteq MaybeNode
    BY DEF MaybeNode
<1>3. ASSUME NEW t \in Threads, NEW l \in Locks, NEW reentrant \in BOOLEAN,
             \/ LS_ACQUIRE1(t, l, reentrant)
             \/ \E node \in Nodes : LS_ACQUIRE2(t, l, node, reentrant)
      PROVE  NodesKept'
    BY <1>2, <1>3, ClibAcquireStep DEF LS_ACQUIRE1, LS_ACQUIRE2
<1>4. ASSUME NEW t \in Threads, NEW l \in Locks, NEW reentrant \in BOOLEAN,
             \/ LS_RELEASE1(t, l, reentrant)
             \/ \E node \in Nodes : LS_RELEASE2(t, l, node, reentrant)
      PROVE  NodesKept'
    BY <1>2, <1>4, ClibReleaseStep DEF LS_RELEASE1, LS_RELEASE2
<1>5. ASSUME NEW t \in Threads, NEW l \in Locks, ClibLockFn(t, l)
      PROVE  NodesKept'
    BY <1>5, ClibLockFnStep
<1>6. ASSUME NEW t \in Threads, NEW l \in Locks, ClibUnlockFn(t, l)
      PROVE  NodesKept'
    BY <1>6, ClibUnlockFnStep
<1>7. ASSUME NEW t \in Threads, NEW l \in Locks,
             InvokeAfterLockFn(t, l) \/ InvokeAfterUnlockFn(t, l), UNCHANGED nodeVars
      PROVE  NodesKept'
    <2>1. /\ pc[t] \in {"increment", "decrement"} /\ depth' = depth
          /\ Goto(t, l, "idle") \/ Goto(t, l, "exited")
        BY <1>7 DEF InvokeAfterLockFn, InvokeAfterUnlockFn, At, Return, Exit, Proceed
    <2> QED
        BY <1>7, <2>1, QuietMove DEF nodeVars, NodesKept, NodeTypeOK
<1> QED
    BY <1>1, <1>3, <1>4, <1>5, <1>6, <1>7 DEF ClibNext

(***************************************************************************)
(* For any number of threads, locks, nodes and nested calls, unlock_fn     *)
(* gets the node lock_fn got (LS_RELEASE2).                                *)
(***************************************************************************)
THEOREM NodeReturned ==
    ASSUME ~MixFlags
    PROVE  ClibSpec => []SameNode
PROOF
<1>1. ClibInit => NodesKept
    BY ClibInitInOrder
<1>2. IInv /\ NodesKept /\ [ClibNext]_clibVars => NodesKept'
    BY ClibNextKeepsNodes
<1>3. ClibSpec => []IInv
    <2>1. ClibSpec => Spec
        BY ClibImplementsHybrid DEF ImplementsHybrid
    <2> QED
        BY <2>1, Invariance, PTL
<1>4. IInv /\ NodesKept => SameNode
    <2> SUFFICES ASSUME IInv, NodesKept, NEW t \in Threads,
                        pc[t] \in {"unlock_fn", "unlock_first"}
                 PROVE  me[t] = taken_with[arg[t]]
        BY DEF SameNode
    <2>1. arg[t] \in Locks /\ Unlocking(t, arg[t])
        BY DEF IInv, TypeOK, ClientTypeOK, Unlocking
    <2> QED
        BY <2>1 DEF NodesKept, NodesInOrder
<1> QED
    BY <1>1, <1>2, <1>3, <1>4, PTL DEF ClibSpec
=============================================================================
