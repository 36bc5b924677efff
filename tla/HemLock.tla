------------------------------ MODULE HemLock ------------------------------
(***************************************************************************)
(* HemLock (hem.h): the queue is implicit.  A thread waits until the Grant *)
(* field of the thread before it is the address of the lock, clears the    *)
(* field, and is in.  One Grant serves all the locks of a thread, which    *)
(* may hold several.                                                       *)
(***************************************************************************)
EXTENDS LockCaller

VARIABLES
    tail,       \* tail[l] (Tail): the thread that came last, or Nil
    Grant,      \* Grant[t]: the lock that t passes on, or Nil
    pred        \* pred[t]: the local of Acquire, Nil outside it

hemVars == << tail, Grant, pred >>

vars == << callerVars, hemVars >>

HemInit ==
    /\ tail = [l \in Locks |-> Nil]
    /\ Grant = [t \in Threads |-> Nil]
    /\ pred = [t \in Threads |-> Nil]

-----------------------------------------------------------------------------
(* pred = tail.exchange(Self): the doorway.                                *)
StartAcquire(t, l) ==
    /\ \/ /\ tail[l] = Nil
          /\ pc[t] = "idle"
          /\ MayAcquire(t, l)
          /\ Take(t, l)
          /\ UNCHANGED << pc, arg, pred >>
       \/ /\ tail[l] # Nil
          /\ BeginAcquire(t, l, "spin")
          /\ Arrive(t, l)
          /\ pred' = [pred EXCEPT ![t] = tail[l]]
    /\ tail' = [tail EXCEPT ![l] = t]
    /\ UNCHANGED Grant

(* Mutant: the wait ends when the thread before grants any lock.           *)
Spin_AnyGrant(t, l) ==
    /\ At(t, l, "spin")
    /\ Grant[pred[t]] # Nil
    /\ Goto(t, "clear")
    /\ Stay
    /\ UNCHANGED hemVars

(* pred->Grant.load() == this                                              *)
Spin(t, l) ==
    /\ At(t, l, "spin")
    /\ Grant[pred[t]] = l
    /\ Goto(t, "clear")
    /\ Stay
    /\ UNCHANGED hemVars

(* pred->Grant.store(nullptr)                                              *)
Clear(t, l) ==
    /\ At(t, l, "clear")
    /\ Grant' = [Grant EXCEPT ![pred[t]] = Nil]
    /\ pred' = [pred EXCEPT ![t] = Nil]
    /\ Enter(t, l)
    /\ Return(t)
    /\ UNCHANGED tail

-----------------------------------------------------------------------------
(* tail.compare_exchange_strong(Self, nullptr)                             *)
StartRelease(t, l) ==
    /\ \/ /\ tail[l] = t
          /\ pc[t] = "idle"
          /\ l \in held[t]
          /\ tail' = [tail EXCEPT ![l] = Nil]
          /\ Leave(t, l)
          /\ UNCHANGED << pc, arg >>
       \/ /\ tail[l] # t
          /\ BeginRelease(t, l, "grant")
          /\ Stay
          /\ UNCHANGED tail
    /\ UNCHANGED << Grant, pred >>

(* Mutant: Release does not wait for its Grant to be taken.                *)
PassOn_NoDrain(t, l) ==
    /\ At(t, l, "grant")
    /\ Grant' = [Grant EXCEPT ![t] = l]
    /\ Leave(t, l)
    /\ Return(t)
    /\ UNCHANGED << tail, pred >>

(* Self->Grant.store(this)                                                 *)
PassOn(t, l) ==
    /\ At(t, l, "grant")
    /\ Grant' = [Grant EXCEPT ![t] = l]
    /\ Leave(t, l)
    /\ Goto(t, "drain")
    /\ UNCHANGED << tail, pred >>

(* Self->Grant.load() == nullptr                                           *)
Drain(t, l) ==
    /\ At(t, l, "drain")
    /\ Grant[t] = Nil
    /\ Return(t)
    /\ Stay
    /\ UNCHANGED hemVars

-----------------------------------------------------------------------------
Init == CallerInit /\ HemInit

(* The rest of a call that has begun.                                      *)
Continue(t, l) ==
    \/ Spin(t, l)
    \/ Clear(t, l)
    \/ PassOn(t, l)
    \/ Drain(t, l)

Next ==
    \E t \in Threads, l \in Locks :
        StartAcquire(t, l) \/ StartRelease(t, l) \/ Continue(t, l)

Spec == Init /\ [][Next]_vars

-----------------------------------------------------------------------------
TypeOK ==
    /\ CallerTypeOK
    /\ pc \in [Threads -> {"idle", "spin", "clear", "grant", "drain"}]
    /\ tail \in [Locks -> Threads \cup {Nil}]
    /\ Grant \in [Threads -> Locks \cup {Nil}]
    /\ pred \in [Threads -> Threads \cup {Nil}]

(***************************************************************************)
(* The assertions of hem.h: Grant is null when Acquire and Release begin   *)
(* (lines 29 and 48), and tail is not while the lock is held (lines 44 and *)
(* 61), whatever other locks the thread holds or waits for.                *)
(***************************************************************************)
AssertionsHold ==
    \A t \in Threads :
        /\ pc[t] = "idle" => Grant[t] = Nil
        /\ \A l \in held[t] : tail[l] # Nil

(***************************************************************************)
(* A grant has one taker: the first in line at the lock granted, the only  *)
(* thread there that waits behind the granter.  Threads that wait behind   *)
(* it for its other locks leave the field alone.                           *)
(***************************************************************************)
GrantHasOneTaker ==
    \A t \in Threads :
        LET behind(l) == { u \in Threads : arg[u] = l /\ pred[u] = t } IN
        /\ \A l \in Locks : Cardinality(behind(l)) <= 1
        /\ Grant[t] # Nil => behind(Grant[t]) = { Head(queue[Grant[t]]) }
        /\ \A u \in Threads : pred[u] = t /\ pc[u] = "clear" => Grant[t] = arg[u]
=============================================================================
