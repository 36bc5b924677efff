----------------------------- MODULE ArrayShield -----------------------------
(***************************************************************************)
(* LS_ARRAY (shielding_array.cpp, shielding_array.h; Clib's shield_arr.h   *)
(* means the same): each thread counts its holds in a thread_local array   *)
(* of MAX_LOCKS cells, and that is all the room there is.                  *)
(***************************************************************************)
EXTENDS ShieldClient, Integers, FiniteSets

CONSTANTS
    MAX_LOCKS,  \* cells of the array
    MaxHeld,    \* bound on how many locks a caller holds at once
    NoLock      \* NULL

ASSUME ArrayAssumption ==
    /\ MAX_LOCKS \in Nat \ {0}
    /\ MaxHeld \in Nat
    /\ NoLock \notin Locks

VARIABLES
    lock_count,     \* cells in use
    lock_table      \* the array, cells past lock_count left as they are

tableVars == << lock_count, lock_table >>

vars == << clientVars, tableVars >>

Cells == [lock_ptr : Locks \cup {NoLock}, rec_count : Nat]
Indices == 0 .. (MAX_LOCKS - 1)

Used(t) == 0 .. (lock_count[t] - 1)

(* Mutant: the loop of lookup stops one cell early.                        *)
Recorded_OffByOne(t, l) ==
    \E i \in 0 .. (lock_count[t] - 2) : lock_table[t][i].lock_ptr = l

(* lookup(l) is not NULL.                                                  *)
Recorded(t, l) == \E i \in Used(t) : lock_table[t][i].lock_ptr = l

(* The first cell with l, the one lookup's loop returns.                   *)
IndexOf(t, l) ==
    CHOOSE i \in Used(t) :
        /\ lock_table[t][i].lock_ptr = l
        /\ \A j \in Used(t) : lock_table[t][j].lock_ptr = l => i <= j

RefCount(t, l) ==
    IF Recorded(t, l) THEN lock_table[t][IndexOf(t, l)].rec_count ELSE 0

Adjust(t, l, change) ==
    /\ lock_table' = [lock_table EXCEPT ![t][IndexOf(t, l)].rec_count = @ + change]
    /\ UNCHANGED lock_count

-----------------------------------------------------------------------------
(* Mutant: the last cell is never used.                                    *)
IncrementRef_CellUnused(t, l) ==
    \/ /\ Recorded(t, l)
       /\ Adjust(t, l, 1)
    \/ /\ ~Recorded(t, l)
       /\ lock_count[t] < MAX_LOCKS - 1
       /\ lock_table' = [lock_table EXCEPT ![t][lock_count[t]] =
                            [lock_ptr |-> l, rec_count |-> 1]]
       /\ lock_count' = [lock_count EXCEPT ![t] = @ + 1]
    \/ /\ ~Recorded(t, l)
       /\ lock_count[t] >= MAX_LOCKS - 1
       /\ UNCHANGED tableVars

(* A lock that finds the array full is left out, silently.                 *)
IncrementRef(t, l) ==
    \/ /\ Recorded(t, l)
       /\ Adjust(t, l, 1)
    \/ /\ ~Recorded(t, l)
       /\ lock_count[t] < MAX_LOCKS
       /\ lock_table' = [lock_table EXCEPT ![t][lock_count[t]] =
                            [lock_ptr |-> l, rec_count |-> 1]]
       /\ lock_count' = [lock_count EXCEPT ![t] = @ + 1]
    \/ /\ ~Recorded(t, l)
       /\ lock_count[t] >= MAX_LOCKS
       /\ UNCHANGED tableVars

(* Mutant: any release of the lock is its last.                            *)
LastHold_Always(t, l) == TRUE

(* DecrementRef removes the cell and returns 0, not a smaller count.       *)
LastHold(t, l) == RefCount(t, l) <= 1

(* Mutant: DecrementRef never removes a cell.                              *)
DecrementRef_NeverRemoves(t, l) == Adjust(t, l, -1)

(* Mutant: the array shrinks by its last cell, whichever cell was removed. *)
DecrementRef_NoSwap(t, l) ==
    \/ /\ ~LastHold(t, l)
       /\ Adjust(t, l, -1)
    \/ /\ LastHold(t, l)
       /\ lock_count' = [lock_count EXCEPT ![t] = @ - 1]
       /\ UNCHANGED lock_table

(* lock_table[idx] = lock_table[--lock_count] when the count runs out.     *)
DecrementRef(t, l) ==
    \/ /\ ~LastHold(t, l)
       /\ Adjust(t, l, -1)
    \/ /\ LastHold(t, l)
       /\ lock_table' = [lock_table EXCEPT ![t][IndexOf(t, l)] =
                            lock_table[t][lock_count[t] - 1]]
       /\ lock_count' = [lock_count EXCEPT ![t] = @ - 1]

-----------------------------------------------------------------------------
(* The callers hold at most MaxHeld locks at once.                         *)
MayHold(t, l) ==
    depth[t][l] > 0 \/ Cardinality({m \in Locks : depth[t][m] > 0}) < MaxHeld

Init ==
    /\ ClientInit
    /\ lock_count = [t \in Threads |-> 0]
    /\ lock_table = [t \in Threads |->
                        [i \in Indices |-> [lock_ptr |-> NoLock, rec_count |-> 0]]]

(* LS_ACQUIRE(l, reentrant, lock_fn), up to lock_fn when it is called.     *)
LS_ACQUIRE(t, l, reentrant) ==
    /\ Call(t)
    /\ MayHold(t, l)
    /\ reentrant => MayNest(t, l)
    /\ \/ /\ ~Recorded(t, l)
          /\ Proceed(t, l, "lock_fn")
          /\ UNCHANGED tableVars
       \/ /\ Recorded(t, l)
          /\ reentrant
          /\ IncrementRef(t, l)
          /\ Skip(t, l, depth[t][l] + 1, "LS_SKIP_ACQUISITION")
       \/ /\ Recorded(t, l)
          /\ ~reentrant
          /\ RejectMisuse(t, l, "LS_UNBALANCED_LOCK")
          /\ UNCHANGED tableVars

(* lock_fn has returned.                                                   *)
AfterLockFn(t, l) ==
    /\ At(t, l, "increment")
    /\ IncrementRef(t, l)
    /\ Return(t, l, "LS_ACQUIRE_NOW")
    /\ UNCHANGED << owner, depth >>

(* LS_RELEASE(l, reentrant, unlock_fn), up to unlock_fn when it is called. *)
LS_RELEASE(t, l, reentrant) ==
    /\ Call(t)
    /\ MayRelease(t, l, reentrant)
    /\ \/ /\ ~Recorded(t, l)
          /\ RejectMisuse(t, l, "LS_UNBALANCED_UNLOCK")
          /\ UNCHANGED tableVars
       \/ /\ Recorded(t, l)
          /\ reentrant
          /\ DecrementRef(t, l)
          /\ IF LastHold(t, l)
             THEN Proceed(t, l, "unlock_fn")
             ELSE Skip(t, l, depth[t][l] - 1, "LS_SKIP_RELEASE")
       \/ /\ Recorded(t, l)
          /\ ~reentrant
          /\ Proceed(t, l, "unlock_first")
          /\ UNCHANGED tableVars

(* Mutant: a non-reentrant release leaves the table as it was.             *)
AfterUnlockFn_NoDecrement(t, l) ==
    /\ At(t, l, "decrement")
    /\ Return(t, l, "LS_RELEASE_NOW")
    /\ UNCHANGED << owner, depth, tableVars >>

(* unlock_fn of a non-reentrant release has returned.                      *)
AfterUnlockFn(t, l) ==
    /\ At(t, l, "decrement")
    /\ DecrementRef(t, l)
    /\ Return(t, l, "LS_RELEASE_NOW")
    /\ UNCHANGED << owner, depth >>

Next ==
    \E t \in Threads, l \in Locks :
        \/ \E reentrant \in BOOLEAN : LS_ACQUIRE(t, l, reentrant)
        \/ LockFn(t, l) /\ UNCHANGED tableVars
        \/ AfterLockFn(t, l)
        \/ \E reentrant \in BOOLEAN : LS_RELEASE(t, l, reentrant)
        \/ UnlockFn(t, l) /\ UNCHANGED tableVars
        \/ UnlockFirst(t, l) /\ UNCHANGED tableVars
        \/ AfterUnlockFn(t, l)

Spec == Init /\ [][Next]_vars

-----------------------------------------------------------------------------
TypeOK ==
    /\ ClientTypeOK
    /\ lock_count \in [Threads -> 0 .. MAX_LOCKS]
    /\ lock_table \in [Threads -> [Indices -> Cells]]

(***************************************************************************)
(* While no caller holds more than MAX_LOCKS locks, the array counts every *)
(* hold, through the swap that fills the hole of a removed cell, at every  *)
(* point of a call and not only between calls.                             *)
(***************************************************************************)
RefCountExact ==
    \A t \in Threads, l \in Locks :
        /\ RefCount(t, l) = Expected(t, l)
        /\ Recorded(t, l) <=> Expected(t, l) > 0

(***************************************************************************)
(* While no caller holds more than MAX_LOCKS locks, LS_ARRAY keeps the     *)
(* shield's promise.                                                       *)
(***************************************************************************)
Promise == INSTANCE RefCountedLock WITH status <- decided

KeepsThePromise == Promise!Spec
=============================================================================
