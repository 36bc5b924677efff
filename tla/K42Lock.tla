------------------------------ MODULE K42Lock ------------------------------
(***************************************************************************)
(* K42Lock (k42.h): the MCS lock with the lock's own node, lock_head, in   *)
(* the place of the holder's.  Acquire allocates a node, waits on it, puts *)
(* lock_head where the node is in the queue, and deletes it.               *)
(***************************************************************************)
EXTENDS LockCaller

CONSTANT
    Addresses       \* the addresses that new returns (external: the heap)

K42Assumption ==
    /\ Addresses \cap Locks = {}
    /\ Nil \notin Addresses

VARIABLES
    tail,       \* tail[l]: lock_head.tail, a node, l for &lock_head, or Nil
    next,       \* next[n]: the field of node n, next[l]: lock_head.next
    locked,     \* locked[n]
    live,       \* the nodes that are allocated (external)
    I,          \* I[t], predecessor[t]: the locals of Acquire, Nil when they
    predecessor \* are of no more use

k42Vars == << tail, next, locked, live, I, predecessor >>

vars == << callerVars, k42Vars >>

K42Init ==
    /\ tail = [l \in Locks |-> Nil]
    /\ next = [n \in Addresses \cup Locks |-> Nil]
    /\ locked = [n \in Addresses |-> FALSE]
    /\ live = {}
    /\ I = [t \in Threads |-> Nil]
    /\ predecessor = [t \in Threads |-> Nil]

-----------------------------------------------------------------------------
(* I = new Node(): any address that is free.  Its fields are those of a new *)
(* node already (Delete).                                                  *)
StartAcquire(t, l) ==
    /\ BeginAcquire(t, l, "exchange")
    /\ Stay
    /\ \E n \in Addresses \ live :
           /\ live' = live \cup {n}
           /\ I' = [I EXCEPT ![t] = n]
    /\ UNCHANGED << tail, next, locked, predecessor >>

(* predecessor = lock_head.tail.exchange(I): the doorway.                  *)
Exchange(t, l) ==
    /\ At(t, l, "exchange")
    /\ tail' = [tail EXCEPT ![l] = I[t]]
    /\ predecessor' = [predecessor EXCEPT ![t] = tail[l]]
    /\ \/ tail[l] = Nil /\ Take(t, l) /\ Goto(t, "check")
       \/ tail[l] # Nil /\ Arrive(t, l) /\ Goto(t, "mark")
    /\ UNCHANGED << next, locked, live, I >>

(* Mutant: the node is not marked.                                         *)
Mark_Skipped(t, l) ==
    /\ At(t, l, "mark")
    /\ Goto(t, "link")
    /\ Stay
    /\ UNCHANGED k42Vars

(* I->locked.store(true)                                                   *)
Mark(t, l) ==
    /\ At(t, l, "mark")
    /\ locked' = [locked EXCEPT ![I[t]] = TRUE]
    /\ Goto(t, "link")
    /\ Stay
    /\ UNCHANGED << tail, next, live, I, predecessor >>

(* predecessor->next.store(I)                                              *)
Link(t, l) ==
    /\ At(t, l, "link")
    /\ next' = [next EXCEPT ![predecessor[t]] = I[t]]
    /\ predecessor' = [predecessor EXCEPT ![t] = Nil]
    /\ Goto(t, "spin")
    /\ Stay
    /\ UNCHANGED << tail, locked, live, I >>

Spin(t, l) ==
    /\ At(t, l, "spin")
    /\ ~locked[I[t]]
    /\ Enter(t, l)
    /\ Goto(t, "check")
    /\ UNCHANGED k42Vars

(* Inside.  successor = I->next.load(), which does not change once it is   *)
(* not null, so the model reads I->next again wherever successor is used.  *)
Check(t, l) ==
    /\ At(t, l, "check")
    /\ Goto(t, IF next[I[t]] = Nil THEN "clear" ELSE "adopt")
    /\ Stay
    /\ UNCHANGED k42Vars

(* lock_head.next.store(nullptr)                                           *)
ClearHead(t, l) ==
    /\ At(t, l, "clear")
    /\ next' = [next EXCEPT ![l] = Nil]
    /\ Goto(t, "settle")
    /\ Stay
    /\ UNCHANGED << tail, locked, live, I, predecessor >>

(* Mutant: a failed compare_exchange goes on to delete the node.           *)
Settle_NoWait(t, l) ==
    /\ At(t, l, "settle")
    /\ tail' = [tail EXCEPT ![l] = IF @ = I[t] THEN l ELSE @]
    /\ Goto(t, "delete")
    /\ Stay
    /\ UNCHANGED << next, locked, live, I, predecessor >>

(* lock_head.tail.compare_exchange_strong(I, &lock_head)                   *)
Settle(t, l) ==
    /\ At(t, l, "settle")
    /\ \/ /\ tail[l] = I[t]
          /\ tail' = [tail EXCEPT ![l] = l]
          /\ Goto(t, "delete")
       \/ /\ tail[l] # I[t]
          /\ Goto(t, "await")
          /\ UNCHANGED tail
    /\ Stay
    /\ UNCHANGED << next, locked, live, I, predecessor >>

(* Somebody is between its exchange and its link.                          *)
AwaitLink(t, l) ==
    /\ At(t, l, "await")
    /\ next[I[t]] # Nil
    /\ Goto(t, "adopt")
    /\ Stay
    /\ UNCHANGED k42Vars

(* lock_head.next.store(successor)                                         *)
Adopt(t, l) ==
    /\ At(t, l, "adopt")
    /\ next' = [next EXCEPT ![l] = next[I[t]]]
    /\ Goto(t, "delete")
    /\ Stay
    /\ UNCHANGED << tail, locked, live, I, predecessor >>

(* delete I.  Nothing reads the memory of a node that is not live, so the   *)
(* model has it be as new at once.                                         *)
Delete(t, l) ==
    /\ At(t, l, "delete")
    /\ live' = live \ {I[t]}
    /\ next' = [next EXCEPT ![I[t]] = Nil]
    /\ locked' = [locked EXCEPT ![I[t]] = FALSE]
    /\ I' = [I EXCEPT ![t] = Nil]
    /\ predecessor' = [predecessor EXCEPT ![t] = Nil]
    /\ Return(t)
    /\ Stay
    /\ UNCHANGED tail

-----------------------------------------------------------------------------
(* lock_head.next.load()                                                   *)
StartRelease(t, l) ==
    /\ BeginRelease(t, l, IF next[l] = Nil THEN "cas" ELSE "wake")
    /\ Stay
    /\ UNCHANGED k42Vars

(* lock_head.tail.compare_exchange_strong(&lock_head, nullptr)             *)
CompareExchange(t, l) ==
    /\ At(t, l, "cas")
    /\ \/ /\ tail[l] = l
          /\ tail' = [tail EXCEPT ![l] = Nil]
          /\ Leave(t, l)
          /\ Return(t)
       \/ /\ tail[l] # l
          /\ Goto(t, "awaitSuccessor")
          /\ Stay
          /\ UNCHANGED tail
    /\ UNCHANGED << next, locked, live, I, predecessor >>

AwaitSuccessor(t, l) ==
    /\ At(t, l, "awaitSuccessor")
    /\ next[l] # Nil
    /\ Goto(t, "wake")
    /\ Stay
    /\ UNCHANGED k42Vars

(* successor->locked.store(false), with the successor just read, which is  *)
(* in lock_head.next until the lock is passed on.                          *)
Wake(t, l) ==
    /\ At(t, l, "wake")
    /\ locked' = [locked EXCEPT ![next[l]] = FALSE]
    /\ Leave(t, l)
    /\ Return(t)
    /\ UNCHANGED << tail, next, live, I, predecessor >>

-----------------------------------------------------------------------------
Init == CallerInit /\ K42Init

(* The rest of a call that has begun.                                      *)
Continue(t, l) ==
    \/ Exchange(t, l)
    \/ Mark(t, l)
    \/ Link(t, l)
    \/ Spin(t, l)
    \/ Check(t, l)
    \/ ClearHead(t, l)
    \/ Settle(t, l)
    \/ AwaitLink(t, l)
    \/ Adopt(t, l)
    \/ Delete(t, l)
    \/ CompareExchange(t, l)
    \/ AwaitSuccessor(t, l)
    \/ Wake(t, l)

Next ==
    \E t \in Threads, l \in Locks :
        StartAcquire(t, l) \/ StartRelease(t, l) \/ Continue(t, l)

Spec == Init /\ [][Next]_vars

-----------------------------------------------------------------------------
TypeOK ==
    /\ CallerTypeOK
    /\ tail \in [Locks -> Addresses \cup Locks \cup {Nil}]
    /\ next \in [Addresses \cup Locks -> Addresses \cup {Nil}]
    /\ locked \in [Addresses -> BOOLEAN]
    /\ live \subseteq Addresses
    /\ I \in [Threads -> Addresses \cup {Nil}]
    /\ predecessor \in [Threads -> Addresses \cup Locks \cup {Nil}]

(***************************************************************************)
(* No node is used after its delete, although threads that come later      *)
(* write to it and its address may be given out again: the node to link    *)
(* behind is lock_head of the lock arrived at, or still belongs to the     *)
(* thread ahead in the line, and the node to wake belongs to the thread    *)
(* that is next.                                                           *)
(***************************************************************************)
NoUseAfterDelete ==
    /\ live = { I[t] : t \in Threads } \ {Nil}
    /\ \A t, u \in Threads : t # u /\ I[t] # Nil => I[t] # I[u]
    /\ \A l \in Locks : \A i \in DOMAIN queue[l] :
           LET t == queue[l][i] IN
           /\ i > 1 /\ pc[t] \in {"mark", "link"} =>
                  predecessor[t] \in {l, I[queue[l][i - 1]]}
           /\ At(t, l, "wake") => i = 1 /\ next[l] = I[queue[l][2]]
=============================================================================
