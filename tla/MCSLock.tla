------------------------------ MODULE MCSLock ------------------------------
(***************************************************************************)
(* MCSLock (mcs.h): a queue of nodes, one node per thread for all of the   *)
(* program's MCS locks (thread_local myNode).  The node of thread t is t   *)
(* itself.                                                                 *)
(***************************************************************************)
EXTENDS LockCaller

VARIABLES
    tail,       \* tail[l]: the node enqueued last, or Nil
    next,       \* next[t], locked[t]: the fields of t's myNode
    locked,
    prev        \* prev[t]: the local of Acquire, Nil when it is of no more use

mcsVars == << tail, next, locked, prev >>

vars == << callerVars, mcsVars >>

MCSInit ==
    /\ tail = [l \in Locks |-> Nil]
    /\ next = [t \in Threads |-> Nil]
    /\ locked = [t \in Threads |-> TRUE]
    /\ prev = [t \in Threads |-> Nil]

-----------------------------------------------------------------------------
(* Mutant: Acquire leaves next as the previous Release left it.            *)
StartAcquire_NextKept(t, l) ==
    /\ BeginAcquire(t, l, "exchange")
    /\ Stay
    /\ locked' = [locked EXCEPT ![t] = TRUE]
    /\ UNCHANGED << tail, next, prev >>

(* myNode.next.store(nullptr), myNode.locked.store(true)                   *)
StartAcquire(t, l) ==
    /\ BeginAcquire(t, l, "exchange")
    /\ Stay
    /\ next' = [next EXCEPT ![t] = Nil]
    /\ locked' = [locked EXCEPT ![t] = TRUE]
    /\ UNCHANGED << tail, prev >>

(* prev = tail.exchange(&myNode): the doorway.                             *)
Exchange(t, l) ==
    /\ At(t, l, "exchange")
    /\ prev' = [prev EXCEPT ![t] = tail[l]]
    /\ tail' = [tail EXCEPT ![l] = t]
    /\ \/ tail[l] = Nil /\ Take(t, l) /\ Return(t)
       \/ tail[l] # Nil /\ Arrive(t, l) /\ Goto(t, "link")
    /\ UNCHANGED << next, locked >>

(* prev->next.store(&myNode)                                               *)
Link(t, l) ==
    /\ At(t, l, "link")
    /\ next' = [next EXCEPT ![prev[t]] = t]
    /\ prev' = [prev EXCEPT ![t] = Nil]
    /\ Goto(t, "spin")
    /\ Stay
    /\ UNCHANGED << tail, locked >>

Spin(t, l) ==
    /\ At(t, l, "spin")
    /\ ~locked[t]
    /\ Enter(t, l)
    /\ Return(t)
    /\ UNCHANGED mcsVars

-----------------------------------------------------------------------------
(* Is there a successor?                                                   *)
StartRelease(t, l) ==
    /\ BeginRelease(t, l, IF next[t] = Nil THEN "cas" ELSE "handoff")
    /\ Stay
    /\ UNCHANGED mcsVars

(* Mutant: a Release whose compare_exchange fails returns.                 *)
CompareExchange_NoWait(t, l) ==
    /\ At(t, l, "cas")
    /\ Leave(t, l)
    /\ Return(t)
    /\ tail' = [tail EXCEPT ![l] = IF @ = t THEN Nil ELSE @]
    /\ UNCHANGED << next, locked, prev >>

(* tail.compare_exchange_strong(&myNode, nullptr)                          *)
CompareExchange(t, l) ==
    /\ At(t, l, "cas")
    /\ \/ /\ tail[l] = t
          /\ tail' = [tail EXCEPT ![l] = Nil]
          /\ Leave(t, l)
          /\ Return(t)
       \/ /\ tail[l] # t
          /\ Goto(t, "await")
          /\ Stay
          /\ UNCHANGED tail
    /\ UNCHANGED << next, locked, prev >>

(* Somebody is between its exchange and its link.                          *)
AwaitSuccessor(t, l) ==
    /\ At(t, l, "await")
    /\ next[t] # Nil
    /\ Goto(t, "handoff")
    /\ Stay
    /\ UNCHANGED mcsVars

(* myNode.next.load()->locked.store(false)                                 *)
HandOff(t, l) ==
    /\ At(t, l, "handoff")
    /\ locked' = [locked EXCEPT ![next[t]] = FALSE]
    /\ Leave(t, l)
    /\ Return(t)
    /\ UNCHANGED << tail, next, prev >>

-----------------------------------------------------------------------------
Init == CallerInit /\ MCSInit

(* The rest of a call that has begun.                                      *)
Continue(t, l) ==
    \/ Exchange(t, l)
    \/ Link(t, l)
    \/ Spin(t, l)
    \/ CompareExchange(t, l)
    \/ AwaitSuccessor(t, l)
    \/ HandOff(t, l)

Next ==
    \E t \in Threads, l \in Locks :
        StartAcquire(t, l) \/ StartRelease(t, l) \/ Continue(t, l)

Spec == Init /\ [][Next]_vars

-----------------------------------------------------------------------------
TypeOK ==
    /\ CallerTypeOK
    /\ tail \in [Locks -> Threads \cup {Nil}]
    /\ next \in [Threads -> Threads \cup {Nil}]
    /\ locked \in [Threads -> BOOLEAN]
    /\ prev \in [Threads -> Threads \cup {Nil}]

(***************************************************************************)
(* The nodes spell out the line.  Each node but the last is linked to the  *)
(* node of the thread behind it or is about to be, and tail is the last:   *)
(* although one node serves all locks and is enqueued again as soon as     *)
(* Release returns, no thread links behind a node that has moved on, and   *)
(* no Release wakes a thread that waits elsewhere (Link, HandOff).         *)
(***************************************************************************)
NodesFollowQueue ==
    \A l \in Locks :
        LET n == Len(queue[l]) IN
        /\ tail[l] = IF n = 0 THEN Nil ELSE queue[l][n]
        /\ \A i \in 1 .. n :
               LET t == queue[l][i]
                   u == queue[l][i + 1]
               IN  IF i = n THEN next[t] = Nil
                   ELSE \/ next[t] = u /\ ~At(u, l, "link")
                        \/ next[t] = Nil /\ At(u, l, "link") /\ prev[u] = t
=============================================================================
