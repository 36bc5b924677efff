------------------------------ MODULE CLHLock ------------------------------
(***************************************************************************)
(* CLHLock (clh.h): a thread spins on the node of the thread before it and *)
(* takes that node over when it releases.  The nodes are the first myNode  *)
(* of each thread and the first tail of each lock; from then on they       *)
(* travel, also from one lock to another (thread_local myNode).            *)
(***************************************************************************)
EXTENDS LockCaller

VARIABLES
    tail,           \* tail[l]: the node enqueued last
    locked,         \* locked[n]: the field of node n
    myNode,         \* myNode[t], myPred[t]: the thread_local pointers; myPred
    myPred          \* is Nil when it is of no more use

clhVars == << tail, locked, myNode, myPred >>

vars == << callerVars, clhVars >>

(* A node is named after the thread or the lock that it is allocated for.  *)
Nodes == Threads \cup Locks

(* Mutant: a thread has no node to begin with.                             *)
CLHInit_NoNode ==
    /\ tail = [l \in Locks |-> l]
    /\ locked = [n \in Nodes |-> FALSE]
    /\ myNode = [t \in Threads |-> Nil]
    /\ myPred = [t \in Threads |-> Nil]

CLHInit ==
    /\ tail = [l \in Locks |-> l]
    /\ locked = [n \in Nodes |-> FALSE]
    /\ myNode = [t \in Threads |-> t]
    /\ myPred = [t \in Threads |-> Nil]

-----------------------------------------------------------------------------
(* myNode->locked.store(true)                                              *)
StartAcquire(t, l) ==
    /\ BeginAcquire(t, l, "exchange")
    /\ locked' = [locked EXCEPT ![myNode[t]] = TRUE]
    /\ Stay
    /\ UNCHANGED << tail, myNode, myPred >>

(* myPred = tail.exchange(myNode): the doorway.                            *)
Exchange(t, l) ==
    /\ At(t, l, "exchange")
    /\ myPred' = [myPred EXCEPT ![t] = tail[l]]
    /\ tail' = [tail EXCEPT ![l] = myNode[t]]
    /\ Arrive(t, l)
    /\ Goto(t, "spin")
    /\ UNCHANGED << locked, myNode >>

Spin(t, l) ==
    /\ At(t, l, "spin")
    /\ ~locked[myPred[t]]
    /\ Enter(t, l)
    /\ Return(t)
    /\ UNCHANGED clhVars

-----------------------------------------------------------------------------
(* myNode->locked.store(false)                                             *)
StartRelease(t, l) ==
    /\ BeginRelease(t, l, "swap")
    /\ locked' = [locked EXCEPT ![myNode[t]] = FALSE]
    /\ Leave(t, l)
    /\ UNCHANGED << tail, myNode, myPred >>

(* Mutant: Release keeps its node for the next Acquire.                    *)
Swap_NodeKept(t, l) ==
    /\ At(t, l, "swap")
    /\ Return(t)
    /\ Stay
    /\ UNCHANGED clhVars

(* std::swap(myNode, myPred).  What myPred is left with is never read: the *)
(* next Acquire overwrites it.                                             *)
Swap(t, l) ==
    /\ At(t, l, "swap")
    /\ myNode' = [myNode EXCEPT ![t] = myPred[t]]
    /\ myPred' = [myPred EXCEPT ![t] = Nil]
    /\ Return(t)
    /\ Stay
    /\ UNCHANGED << tail, locked >>

-----------------------------------------------------------------------------
Init == CallerInit /\ CLHInit

(* The rest of a call that has begun.                                      *)
Continue(t, l) ==
    \/ Exchange(t, l)
    \/ Spin(t, l)
    \/ Swap(t, l)

Next ==
    \E t \in Threads, l \in Locks :
        StartAcquire(t, l) \/ StartRelease(t, l) \/ Continue(t, l)

Spec == Init /\ [][Next]_vars

-----------------------------------------------------------------------------
TypeOK ==
    /\ CallerTypeOK
    /\ tail \in [Locks -> Nodes]
    /\ locked \in [Nodes -> BOOLEAN]
    /\ myNode \in [Threads -> Nodes]
    /\ myPred \in [Threads -> Nodes \cup {Nil}]

(* The node that t enqueues next, or has enqueued for its current hold.    *)
InHand(t) == IF pc[t] = "swap" THEN myPred[t] ELSE myNode[t]

(* The nodes that others may still read: a tail, and what a waiter spins on. *)
Watched ==
    { tail[l] : l \in Locks } \cup
    { myPred[t] : t \in { u \in Threads : pc[u] = "spin" } }

(***************************************************************************)
(* A node is never in two hands.  No two threads hold one node, and the    *)
(* node that a thread will mark locked in its next Acquire is neither the  *)
(* tail of a lock nor watched by a spinning thread, however many locks it  *)
(* has travelled through (StartAcquire, Swap).                             *)
(***************************************************************************)
NodesNotShared ==
    \A t \in Threads :
        /\ \A u \in Threads \ {t} : InHand(t) # InHand(u)
        /\ pc[t] \in {"idle", "swap"} /\ held[t] = {} => InHand(t) \notin Watched
=============================================================================
