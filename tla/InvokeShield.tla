---------------------------- MODULE InvokeShield ----------------------------
(***************************************************************************)
(* LS_INVOKE (shielding_invoke.cpp, shielding_invoke.h): the table of      *)
(* LS_HYBRID, updated through the entry that lookup returned at the        *)
(* beginning of the call.  IncrementRef and DecrementRef do not look the   *)
(* lock up again, although the lock function has run in between.           *)
(***************************************************************************)
EXTENDS HybridShield

VARIABLE
    entry       \* entry[t]: the local of t's call, NULL between calls

invokeVars == << vars, entry >>

(* The addresses lookup returns: a cell of the array, or the entry of a    *)
(* lock in the hash table.                                                 *)
Cell(i) == [in |-> "lock_table", at |-> i]
HashEntry(l) == [in |-> "lock_hash", at |-> l]
NULL == [in |-> "nowhere", at |-> NoLock]

EntryAddresses ==
    { Cell(i) : i \in Indices } \cup { HashEntry(l) : l \in Locks } \cup {NULL}

lookup(t, l) ==
    IF ~Recorded(t, l) THEN NULL
    ELSE IF ArrayMode(t) THEN Cell(IndexOf(t, l))
    ELSE HashEntry(l)

-----------------------------------------------------------------------------
CountAt(t, e) ==
    IF e.in = "lock_table" THEN lock_table[t][e.at].rec_count
    ELSE lock_hash[t][e.at].rec_count

(* rec_count++ or rec_count-- of the entry.  The increment in hash mode    *)
(* goes through an LS_LockEntry* that points to an LS_LockHashEntry: it    *)
(* writes a long where the entry has an int and four bytes of padding.     *)
(* They stay 0, and on the 64-bit little-endian machines the code is built *)
(* for the int is the low half of that long: the int is incremented.       *)
AdjustAt(t, e, change) ==
    /\ IF e.in = "lock_table"
       THEN /\ lock_table' = [lock_table EXCEPT ![t][e.at].rec_count = @ + change]
            /\ UNCHANGED lock_hash
       ELSE /\ lock_hash' = [lock_hash EXCEPT ![t][e.at].rec_count = @ + change]
            /\ UNCHANGED lock_table
    /\ UNCHANGED << lock_count, freelist, freelist_initialized, heap >>

(* Mutant: an acquisition that is skipped is not counted.                  *)
IncrementRefAt_NotCounted(t, l, e) ==
    \/ e # NULL /\ UNCHANGED tableVars
    \/ e = NULL /\ ( \/ AppendToArray(t, l)
                     \/ MigrateToHash(t, l)
                     \/ AddToHash(t, l)
                     \/ LoseRecord(t, l) )

IncrementRefAt(t, l, e) ==
    \/ e # NULL /\ AdjustAt(t, e, 1)
    \/ e = NULL /\ ( \/ AppendToArray(t, l)
                     \/ MigrateToHash(t, l)
                     \/ AddToHash(t, l)
                     \/ LoseRecord(t, l) )

(* Mutant: the last cell moves into the first.                             *)
RemoveAt_FirstCell(t, e) ==
    \/ /\ ArrayMode(t)
       /\ lock_table' = [lock_table EXCEPT ![t][0] =
                            lock_table[t][lock_count[t] - 1]]
       /\ lock_count' = [lock_count EXCEPT ![t] = @ - 1]
       /\ UNCHANGED << lock_hash, freelist, freelist_initialized, heap >>
    \/ RemoveFromHash(t, e.at)

(* lock_table[idx] = lock_table[--lock_count] with idx = entry -           *)
(* lock_table, or HASH_DEL and freelist_push.                              *)
RemoveAt(t, e) ==
    \/ /\ ArrayMode(t)
       /\ lock_table' = [lock_table EXCEPT ![t][e.at] =
                            lock_table[t][lock_count[t] - 1]]
       /\ lock_count' = [lock_count EXCEPT ![t] = @ - 1]
       /\ UNCHANGED << lock_hash, freelist, freelist_initialized, heap >>
    \/ RemoveFromHash(t, e.at)

(* DecrementRef removes the entry and returns 0, not a smaller count.      *)
LastHoldAt(t, e) == CountAt(t, e) <= 1

(* DecrementRef with an entry that is not NULL.                            *)
DecrementRefAt(t, e) ==
    \/ ~LastHoldAt(t, e) /\ AdjustAt(t, e, -1)
    \/ LastHoldAt(t, e) /\ RemoveAt(t, e)

-----------------------------------------------------------------------------
InvokeInit ==
    /\ Init
    /\ entry = [t \in Threads |-> NULL]

Keep(t, e) == entry' = [entry EXCEPT ![t] = e]

(* LS_ACQUIRE(l, reentrant, fn), up to fn when it is called.               *)
InvokeAcquire(t, l, reentrant) ==
    /\ Call(t)
    /\ reentrant => MayNest(t, l)
    /\ \/ /\ lookup(t, l) = NULL
          /\ Proceed(t, l, "lock_fn")
          /\ Keep(t, NULL)
          /\ UNCHANGED tableVars
       \/ /\ lookup(t, l) # NULL
          /\ reentrant
          /\ IncrementRefAt(t, l, lookup(t, l))
          /\ Skip(t, l, depth[t][l] + 1, "LS_SKIP_ACQUISITION")
          /\ UNCHANGED entry
       \/ /\ lookup(t, l) # NULL
          /\ ~reentrant
          /\ RejectMisuse(t, l, "LS_UNBALANCED_LOCK")
          /\ UNCHANGED << tableVars, entry >>

(* fn has returned.                                                        *)
InvokeAfterLockFn(t, l) ==
    /\ At(t, l, "increment")
    /\ \/ /\ IncrementRefAt(t, l, entry[t])
          /\ Return(t, l, "LS_ACQUIRE_NOW")
          /\ UNCHANGED << owner, depth >>
       \/ /\ uthash_fatal(t, l)
          /\ Exit(t, l)
          /\ UNCHANGED tableVars
    /\ Keep(t, NULL)

(* LS_RELEASE(l, reentrant, fn), up to fn when it is called.               *)
InvokeRelease(t, l, reentrant) ==
    /\ Call(t)
    /\ MayRelease(t, l, reentrant)
    /\ \/ /\ lookup(t, l) = NULL
          /\ RejectMisuse(t, l, "LS_UNBALANCED_UNLOCK")
          /\ UNCHANGED << tableVars, entry >>
       \/ /\ lookup(t, l) # NULL
          /\ reentrant
          /\ DecrementRefAt(t, lookup(t, l))
          /\ IF LastHoldAt(t, lookup(t, l))
             THEN Proceed(t, l, "unlock_fn")
             ELSE Skip(t, l, depth[t][l] - 1, "LS_SKIP_RELEASE")
          /\ UNCHANGED entry
       \/ /\ lookup(t, l) # NULL
          /\ ~reentrant
          /\ Proceed(t, l, "unlock_first")
          /\ Keep(t, lookup(t, l))
          /\ UNCHANGED tableVars

(* fn of a non-reentrant release has returned.                             *)
InvokeAfterUnlockFn(t, l) ==
    /\ At(t, l, "decrement")
    /\ DecrementRefAt(t, entry[t])
    /\ Return(t, l, "LS_RELEASE_NOW")
    /\ Keep(t, NULL)
    /\ UNCHANGED << owner, depth >>

InvokeNext ==
    \E t \in Threads, l \in Locks :
        \/ \E reentrant \in BOOLEAN : InvokeAcquire(t, l, reentrant)
        \/ LockFn(t, l) /\ UNCHANGED << tableVars, entry >>
        \/ InvokeAfterLockFn(t, l)
        \/ \E reentrant \in BOOLEAN : InvokeRelease(t, l, reentrant)
        \/ UnlockFn(t, l) /\ UNCHANGED << tableVars, entry >>
        \/ UnlockFirst(t, l) /\ UNCHANGED << tableVars, entry >>
        \/ InvokeAfterUnlockFn(t, l)

InvokeSpec == InvokeInit /\ [][InvokeNext]_invokeVars

-----------------------------------------------------------------------------
(***************************************************************************)
(* LS_INVOKE implements LS_HYBRID: looking a lock up once per call comes   *)
(* to the same as looking it up again before each update, so that all that *)
(* is said of HybridShield holds of it (IncrementRef, DecrementRef).       *)
(***************************************************************************)
ImplementsHybrid == Spec
=============================================================================
