------------------------------ MODULE ABQLLock ------------------------------
(***************************************************************************)
(* ABQLLock (abql.h): an array of flags, in which each thread that comes   *)
(* takes the next slot and waits for the flag of that slot.  The slot a    *)
(* thread has is one thread_local variable for all of the program's locks. *)
(***************************************************************************)
EXTENDS LockCaller

CONSTANTS
    ABQL_MAX_THREADS,   \* the slots of a lock
    IntMax,             \* the largest int
    MaxTail             \* bound: a lock whose tail is MaxTail is not acquired
                        \* again; IntMax + 1 is no bound

ABQLAssumption ==
    /\ IsFiniteSet(Threads)
    /\ ABQL_MAX_THREADS \in Nat \ {0}
    /\ IntMax \in Nat
    /\ (IntMax + 1) % ABQL_MAX_THREADS = 0
    /\ Cardinality(Threads) <= ABQL_MAX_THREADS

VARIABLES
    flags,      \* flags[l][i]
    tail,       \* tail[l]: the number of Acquires of l so far, as an int
    slot        \* slot[t]: thread_local

abqlVars == << flags, tail, slot >>

vars == << callerVars, abqlVars >>

Slots == 0 .. ABQL_MAX_THREADS - 1

ABQLInit ==
    /\ flags = [l \in Locks |-> [i \in Slots |-> i = 0]]
    /\ tail = [l \in Locks |-> 0]
    /\ slot = [t \in Threads |-> 0]

(* fetch_add(1) wraps around.                                              *)
Increment(n) == IF n = IntMax THEN -(IntMax + 1) ELSE n + 1

(* n % ABQL_MAX_THREADS in C++ has the sign of n.                          *)
SlotOf(n) ==
    IF n >= 0 THEN n % ABQL_MAX_THREADS ELSE -((-n) % ABQL_MAX_THREADS)

NextSlot(i) == (i + 1) % ABQL_MAX_THREADS

-----------------------------------------------------------------------------
(* slot = tail.fetch_add(1) % ABQL_MAX_THREADS: the doorway.               *)
StartAcquire(t, l) ==
    /\ BeginAcquire(t, l, "spin")
    /\ tail[l] # MaxTail
    /\ tail' = [tail EXCEPT ![l] = Increment(@)]
    /\ slot' = [slot EXCEPT ![t] = SlotOf(tail[l])]
    /\ Arrive(t, l)
    /\ UNCHANGED flags

(* What a slot outside the array reads is undefined: nothing follows it.   *)
Spin(t, l) ==
    /\ At(t, l, "spin")
    /\ slot[t] \in Slots
    /\ flags[l][slot[t]]
    /\ Enter(t, l)
    /\ Return(t)
    /\ UNCHANGED abqlVars

(* Mutant: Release leaves its own flag up.                                 *)
StartRelease_FlagKept(t, l) ==
    /\ BeginRelease(t, l, "wake")
    /\ Stay
    /\ UNCHANGED abqlVars

(* flags[slot].store(false)                                                *)
StartRelease(t, l) ==
    /\ BeginRelease(t, l, "wake")
    /\ flags' = [flags EXCEPT ![l][slot[t]] = FALSE]
    /\ Stay
    /\ UNCHANGED << tail, slot >>

(* flags[(slot + 1) % ABQL_MAX_THREADS].store(true)                        *)
Wake(t, l) ==
    /\ At(t, l, "wake")
    /\ flags' = [flags EXCEPT ![l][NextSlot(slot[t])] = TRUE]
    /\ Leave(t, l)
    /\ Return(t)
    /\ UNCHANGED << tail, slot >>

-----------------------------------------------------------------------------
Init == CallerInit /\ ABQLInit

(* The rest of a call that has begun.                                      *)
Continue(t, l) == Spin(t, l) \/ Wake(t, l)

Next ==
    \E t \in Threads, l \in Locks :
        StartAcquire(t, l) \/ StartRelease(t, l) \/ Continue(t, l)

Spec == Init /\ [][Next]_vars

-----------------------------------------------------------------------------
TypeOK ==
    /\ CallerTypeOK
    /\ pc \in [Threads -> {"idle", "spin", "wake"}]
    /\ flags \in [Locks -> [Slots -> BOOLEAN]]
    /\ tail \in [Locks -> -(IntMax + 1) .. IntMax]
    /\ slot \in [Threads -> Slots]

(***************************************************************************)
(* "Each thread gets its own slot index" (abql.h:13): the threads in line  *)
(* at a lock have slots of its array, no two of them the same.             *)
(***************************************************************************)
OwnSlot ==
    \A l \in Locks :
        \A i, j \in DOMAIN queue[l] :
            /\ slot[queue[l][i]] \in Slots
            /\ i # j => slot[queue[l][i]] # slot[queue[l][j]]

(***************************************************************************)
(* The slots of the threads in line follow each other round the array up   *)
(* to the next free one, and at most one flag is up: that of the first in  *)
(* line, or of the next to come if nobody is, and none only between the    *)
(* two stores of Release.                                                  *)
(***************************************************************************)
FlagFollowsQueue ==
    \A l \in Locks :
        LET first == IF queue[l] = << >> THEN SlotOf(tail[l])
                     ELSE slot[Head(queue[l])]
            waking == \E t \in Threads : At(t, l, "wake")
        IN  /\ { i \in Slots : flags[l][i] } = IF waking THEN {} ELSE {first}
            /\ \A i \in DOMAIN queue[l] :
                   slot[queue[l][i]] = (first + i - 1) % ABQL_MAX_THREADS
            /\ SlotOf(tail[l]) = (first + Len(queue[l])) % ABQL_MAX_THREADS
=============================================================================
