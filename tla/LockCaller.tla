----------------------------- MODULE LockCaller -----------------------------
(***************************************************************************)
(* The callers of a lock class, as lock_bench.cpp and the tests are:       *)
(* threads that call Acquire and Release of a few locks, releasing what    *)
(* they hold and nothing else.  The module of each lock class extends this *)
(* one with the class's fields and with the steps of its two methods, one  *)
(* atomic access to shared memory each, taken in a sequentially consistent *)
(* order.                                                                  *)
(*                                                                         *)
(* The memory of a class that is thread_local serves every lock of the     *)
(* class, so there is more than one lock even where a thread holds one at  *)
(* a time.                                                                 *)
(***************************************************************************)
EXTENDS Integers, Sequences, FiniteSets

CONSTANTS
    Threads,    \* the threads of the program
    Locks,      \* its locks of one class, numbered in locking order
    Nil,        \* nullptr
    MaxHeld     \* how many locks a thread may hold at once

ASSUME CallerAssumption ==
    /\ Locks \subseteq Nat
    /\ Threads \cap Locks = {}
    /\ Nil \notin Threads
    /\ Nil \notin Locks
    /\ MaxHeld \in Nat \ {0}

VARIABLES
    pc,         \* pc[t]: the next step of t's call, "idle" between calls
    arg,        \* arg[t]: the lock t's call is on, Nil between calls
    held,       \* held[t]: the locks that Acquire has given to t and Release
                \* has not passed on yet (history)
    queue       \* queue[l]: the threads that passed l's doorway, in order,
                \* and have not passed l on (history)

callerVars == << pc, arg, held, queue >>

CallerInit ==
    /\ pc = [t \in Threads |-> "idle"]
    /\ arg = [t \in Threads |-> Nil]
    /\ held = [t \in Threads |-> {}]
    /\ queue = [l \in Locks |-> << >>]

-----------------------------------------------------------------------------
At(t, l, place) == pc[t] = place /\ arg[t] = l

Goto(t, place) == pc' = [pc EXCEPT ![t] = place] /\ UNCHANGED arg

Return(t) ==
    /\ pc' = [pc EXCEPT ![t] = "idle"]
    /\ arg' = [arg EXCEPT ![t] = Nil]

(* A step that neither passes the doorway nor takes nor gives up the lock. *)
Stay == UNCHANGED << held, queue >>

(* Locks are nested in one order, so the callers do not deadlock.          *)
MayAcquire(t, l) ==
    /\ Cardinality(held[t]) < MaxHeld
    /\ \A m \in held[t] : m < l

BeginAcquire(t, l, place) ==
    /\ pc[t] = "idle"
    /\ MayAcquire(t, l)
    /\ pc' = [pc EXCEPT ![t] = place]
    /\ arg' = [arg EXCEPT ![t] = l]

BeginRelease(t, l, place) ==
    /\ pc[t] = "idle"
    /\ l \in held[t]
    /\ pc' = [pc EXCEPT ![t] = place]
    /\ arg' = [arg EXCEPT ![t] = l]

Arrive(t, l) == queue' = [queue EXCEPT ![l] = Append(@, t)] /\ UNCHANGED held

Enter(t, l) == held' = [held EXCEPT ![t] = @ \cup {l}] /\ UNCHANGED queue

(* The doorway of a free lock leads straight in.                           *)
Take(t, l) ==
    /\ queue' = [queue EXCEPT ![l] = Append(@, t)]
    /\ held' = [held EXCEPT ![t] = @ \cup {l}]

(* The lock is open to the next thread from here on: t gives up its place  *)
(* in line, wherever that is.                                              *)
Leave(t, l) ==
    /\ \E i \in DOMAIN queue[l] :
           /\ queue[l][i] = t
           /\ queue' = [queue EXCEPT ![l] =
                            SubSeq(@, 1, i - 1) \o SubSeq(@, i + 1, Len(@))]
    /\ held' = [held EXCEPT ![t] = @ \ {l}]

-----------------------------------------------------------------------------
CallerTypeOK ==
    /\ arg \in [Threads -> Locks \cup {Nil}]
    /\ held \in [Threads -> SUBSET Locks]
    /\ queue \in [Locks -> Seq(Threads)]

holders == [l \in Locks |-> { t \in Threads : l \in held[t] }]

Fifo == INSTANCE FifoLock

(***************************************************************************)
(* The lock is a first-come first-served mutual-exclusion lock: Acquire    *)
(* and Release of the class take the steps of FifoLock.                    *)
(***************************************************************************)
KeepsFifo == Fifo!Spec

(***************************************************************************)
(* Every call of Acquire and of Release returns, if holders do not keep    *)
(* their locks for ever: nobody starves, no wake-up is lost and no two     *)
(* threads wait for each other.                                            *)
(***************************************************************************)
CallsReturn == \A t \in Threads : pc[t] # "idle" ~> pc[t] = "idle"
=============================================================================
