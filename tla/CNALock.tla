------------------------------ MODULE CNALock ------------------------------
(***************************************************************************)
(* CNALock (cna.h): MCS queues that prefer the socket they are on.  The    *)
(* holder may move the threads of other sockets from the main queue to a   *)
(* secondary one, of which it keeps the head in its spin field, and passes *)
(* that on with the lock.  A thread has one node for all of the program's  *)
(* CNA locks (cna_thread_node); the node of thread t is t itself.          *)
(*                                                                         *)
(* The node of the holder and the nodes behind it that are linked already  *)
(* are the holder's alone, so its walks along them and its changes to them *)
(* go with the access to shared memory that they lead up to.               *)
(***************************************************************************)
EXTENDS LockCaller, SequencesExt

CONSTANT
    Cpus        \* the processors a thread may be on

VARIABLES
    tail,       \* tail[l]: the node enqueued last, or Nil
    next,       \* next[t], spin[t], socket[t], secTail[t]: the fields of t's
    spin,       \* node; spin is 0, 1 or the first node of the secondary queue
    socket,
    secTail,
    succ        \* succ[t]: the node before t's in Acquire, the next holder in
                \* Release
\* What will be written before it is read again is Nil, 0 or NoSocket.

(* The address of a node is neither 0 nor 1, and sched_getcpu() returns    *)
(* the number of a processor.                                              *)
ASSUME CNAAssumption ==
    /\ IsFiniteSet(Threads)
    /\ Threads \cap {0, 1} = {}
    /\ Cpus \subseteq Nat

cnaVars == << tail, next, spin, socket, secTail, succ >>

vars == << callerVars, cnaVars >>

NoSocket == -1

Sockets == { c \div 2 : c \in Cpus }

(* Mutant: the processor is taken for the socket.                          *)
current_numa_node_Cpu == Cpus

(* The socket that the calling thread may be on.                           *)
current_numa_node == Sockets

CNAInit ==
    /\ tail = [l \in Locks |-> Nil]
    /\ next = [t \in Threads |-> Nil]
    /\ spin = [t \in Threads |-> 0]
    /\ socket = [t \in Threads |-> NoSocket]
    /\ secTail = [t \in Threads |-> Nil]
    /\ succ = [t \in Threads |-> Nil]

-----------------------------------------------------------------------------
StartAcquire(t, l) ==
    /\ BeginAcquire(t, l, "exchange")
    /\ Stay
    /\ next' = [next EXCEPT ![t] = Nil]
    /\ socket' = [socket EXCEPT ![t] = NoSocket]
    /\ spin' = [spin EXCEPT ![t] = 0]
    /\ UNCHANGED << tail, secTail, succ >>

(* tail_node = tail.exchange(me): the doorway.                             *)
Exchange(t, l) ==
    /\ At(t, l, "exchange")
    /\ tail' = [tail EXCEPT ![l] = t]
    /\ \/ /\ tail[l] = Nil
          /\ spin' = [spin EXCEPT ![t] = 1]
          /\ Take(t, l)
          /\ Return(t)
          /\ UNCHANGED succ
       \/ /\ tail[l] # Nil
          /\ succ' = [succ EXCEPT ![t] = tail[l]]
          /\ Arrive(t, l)
          /\ Goto(t, "link")
          /\ UNCHANGED spin
    /\ UNCHANGED << next, socket, secTail >>

(* me->socket = current_numa_node(), tail_node->next.store(me)             *)
Link(t, l) ==
    /\ At(t, l, "link")
    /\ \E s \in current_numa_node : socket' = [socket EXCEPT ![t] = s]
    /\ next' = [next EXCEPT ![succ[t]] = t]
    /\ succ' = [succ EXCEPT ![t] = Nil]
    /\ Goto(t, "spin")
    /\ Stay
    /\ UNCHANGED << tail, spin, secTail >>

Spin(t, l) ==
    /\ At(t, l, "spin")
    /\ spin[t] # 0
    /\ Enter(t, l)
    /\ Return(t)
    /\ UNCHANGED cnaVars

-----------------------------------------------------------------------------
SecondaryEmpty(t) == spin[t] = 1

(* Is there a successor in the main queue, or else in the secondary one?   *)
StartRelease(t, l) ==
    /\ BeginRelease(t, l, IF next[t] # Nil THEN "decide"
                          ELSE IF SecondaryEmpty(t) THEN "close" ELSE "requeue")
    /\ Stay
    /\ UNCHANGED cnaVars

(* Release leaves the node of its thread as it is.  The model resets it at *)
(* the end of Release already, as the next Acquire does before anybody     *)
(* reads it.                                                               *)
(* u->spin.store(value) passes the lock on to u.                           *)
PassTo(u, t, l, value) ==
    /\ spin' = [spin EXCEPT ![u] = value, ![t] = 0]
    /\ socket' = [socket EXCEPT ![t] = NoSocket]
    /\ Leave(t, l)
    /\ Return(t)

(* tail.compare_exchange_strong(me, nullptr)                               *)
Close(t, l) ==
    /\ At(t, l, "close")
    /\ \/ /\ tail[l] = t
          /\ tail' = [tail EXCEPT ![l] = Nil]
          /\ Leave(t, l)
          /\ Return(t)
          /\ spin' = [spin EXCEPT ![t] = 0]
          /\ socket' = [socket EXCEPT ![t] = NoSocket]
       \/ /\ tail[l] # t
          /\ Goto(t, "await")
          /\ Stay
          /\ UNCHANGED << tail, spin, socket >>
    /\ UNCHANGED << next, secTail, succ >>

(* tail.compare_exchange_strong(me, secHead->secTail)                      *)
Requeue(t, l) ==
    /\ At(t, l, "requeue")
    /\ \/ /\ tail[l] = t
          /\ tail' = [tail EXCEPT ![l] = secTail[spin[t]]]
          /\ Goto(t, "wakeSecondary")
       \/ /\ tail[l] # t
          /\ Goto(t, "await")
          /\ UNCHANGED tail
    /\ Stay
    /\ UNCHANGED << next, spin, socket, secTail, succ >>

(* secHead->spin.store(1)                                                  *)
WakeSecondary(t, l) ==
    /\ At(t, l, "wakeSecondary")
    /\ PassTo(spin[t], t, l, 1)
    /\ secTail' = [secTail EXCEPT ![spin[t]] = Nil]
    /\ UNCHANGED << tail, next, succ >>

(* Somebody is between its exchange and its link.                          *)
AwaitSuccessor(t, l) ==
    /\ At(t, l, "await")
    /\ next[t] # Nil
    /\ Goto(t, "decide")
    /\ Stay
    /\ UNCHANGED cnaVars

(* keep_lock_local()                                                       *)
KeepLocal(t, l) ==
    /\ At(t, l, "decide")
    /\ Goto(t, "find")
    /\ Stay
    /\ UNCHANGED cnaVars

GoGlobal(t, l) ==
    /\ At(t, l, "decide")
    /\ Goto(t, "pass")
    /\ Stay
    /\ UNCHANGED cnaVars

(* Mutant: the threads moved replace the secondary queue.                  *)
MoveToSecondary_Replaces(t, first, last) ==
    /\ spin' = [spin EXCEPT ![t] = first]
    /\ next' = [next EXCEPT ![last] = Nil]
    /\ secTail' = [secTail EXCEPT ![first] = last]

(* Mutant: the threads moved go in front of the secondary queue.           *)
MoveToSecondary_InFront(t, first, last) ==
    /\ spin' = [spin EXCEPT ![t] = first]
    /\ next' = [next EXCEPT ![last] = IF SecondaryEmpty(t) THEN Nil ELSE spin[t]]
    /\ secTail' = [secTail EXCEPT ![first] = IF SecondaryEmpty(t) THEN last
                                             ELSE secTail[spin[t]]]

(* The main queue from first to last goes behind the secondary queue.      *)
MoveToSecondary(t, first, last) ==
    LET secHead == IF SecondaryEmpty(t) THEN first ELSE spin[t] IN
    /\ spin' = [spin EXCEPT ![t] = secHead]
    /\ next' = IF SecondaryEmpty(t)
               THEN [next EXCEPT ![last] = Nil]
               ELSE [next EXCEPT ![secTail[secHead]] = first, ![last] = Nil]
    /\ secTail' = [secTail EXCEPT ![secHead] = last]

(* find_successor(me): path is the part of the main queue that the walk    *)
(* goes along, up to the first node on socket s or to the end.  The main   *)
(* queue only grows at its end, so the walk sees it as it is when the walk *)
(* ends.                                                                   *)
FindSuccessor(t, l) ==
    /\ At(t, l, "find")
    /\ \E s \in IF socket[t] = NoSocket THEN current_numa_node ELSE {socket[t]},
         last \in 1 .. Cardinality(Threads) :
       \E path \in [1 .. last -> Threads] :
           /\ path[1] = next[t]
           /\ \A i \in 2 .. last : path[i] = next[path[i - 1]]
           /\ \A i \in 1 .. last - 1 : socket[path[i]] # s
           /\ \/ /\ socket[path[last]] # s
                 /\ next[path[last]] = Nil
                 /\ Goto(t, "pass")
                 /\ UNCHANGED << next, spin, secTail, succ >>
              \/ /\ socket[path[last]] = s
                 /\ succ' = [succ EXCEPT ![t] = path[last]]
                 /\ Goto(t, "passLocal")
                 /\ IF last = 1 THEN UNCHANGED << next, spin, secTail >>
                    ELSE MoveToSecondary(t, path[1], path[last - 1])
    /\ Stay
    /\ UNCHANGED << tail, socket >>

(* succ->spin.store(me->spin)                                              *)
PassLocal(t, l) ==
    /\ At(t, l, "passLocal")
    /\ PassTo(succ[t], t, l, spin[t])
    /\ next' = [next EXCEPT ![t] = Nil]
    /\ succ' = [succ EXCEPT ![t] = Nil]
    /\ UNCHANGED << tail, secTail >>

(* Mutant: the secondary queue is not put in front of the main queue.      *)
PassSecondary_NoSplice(t, l) ==
    /\ At(t, l, "pass")
    /\ ~SecondaryEmpty(t)
    /\ PassTo(spin[t], t, l, 1)
    /\ next' = [next EXCEPT ![t] = Nil]
    /\ secTail' = [secTail EXCEPT ![spin[t]] = Nil]
    /\ UNCHANGED << tail, succ >>

(* Mutant: Release goes on to wake the head of the main queue as well.     *)
PassSecondary_NoElse(t, l) ==
    /\ At(t, l, "pass")
    /\ ~SecondaryEmpty(t)
    /\ Leave(t, l)
    /\ Return(t)
    /\ spin' = [spin EXCEPT ![spin[t]] = 1, ![next[t]] = 1, ![t] = 0]
    /\ socket' = [socket EXCEPT ![t] = NoSocket]
    /\ next' = [next EXCEPT ![secTail[spin[t]]] = next[t], ![t] = Nil]
    /\ secTail' = [secTail EXCEPT ![spin[t]] = Nil]
    /\ UNCHANGED << tail, succ >>

(* The secondary queue goes in front of the main queue, its head inside.   *)
PassSecondary(t, l) ==
    /\ At(t, l, "pass")
    /\ ~SecondaryEmpty(t)
    /\ PassTo(spin[t], t, l, 1)
    /\ next' = [next EXCEPT ![secTail[spin[t]]] = next[t], ![t] = Nil]
    /\ secTail' = [secTail EXCEPT ![spin[t]] = Nil]
    /\ UNCHANGED << tail, succ >>

(* me->next->spin.store(1)                                                 *)
PassMain(t, l) ==
    /\ At(t, l, "pass")
    /\ SecondaryEmpty(t)
    /\ PassTo(next[t], t, l, 1)
    /\ next' = [next EXCEPT ![t] = Nil]
    /\ UNCHANGED << tail, secTail, succ >>

-----------------------------------------------------------------------------
Init == CallerInit /\ CNAInit

(* The rest of a call that has begun.                                      *)
Continue(t, l) ==
    \/ Exchange(t, l)
    \/ Link(t, l)
    \/ Spin(t, l)
    \/ Close(t, l)
    \/ Requeue(t, l)
    \/ WakeSecondary(t, l)
    \/ AwaitSuccessor(t, l)
    \/ KeepLocal(t, l)
    \/ GoGlobal(t, l)
    \/ FindSuccessor(t, l)
    \/ PassLocal(t, l)
    \/ PassSecondary(t, l)
    \/ PassMain(t, l)

Next ==
    \E t \in Threads, l \in Locks :
        StartAcquire(t, l) \/ StartRelease(t, l) \/ Continue(t, l)

(* Threads are scheduled and critical sections end.  pseudo_rand is a      *)
(* linear congruential generator of full period: a thread's calls of       *)
(* keep_lock_local are false once in every THRESHOLD + 1.                  *)
Fairness ==
    \A t \in Threads :
        /\ WF_vars(\E l \in Locks : Continue(t, l))
        /\ \A l \in Locks : WF_vars(StartRelease(t, l))
        /\ SF_vars(\E l \in Locks : GoGlobal(t, l))

Spec == Init /\ [][Next]_vars /\ Fairness

-----------------------------------------------------------------------------
TypeOK ==
    /\ CallerTypeOK
    /\ tail \in [Locks -> Threads \cup {Nil}]
    /\ next \in [Threads -> Threads \cup {Nil}]
    /\ spin \in [Threads -> {0, 1} \cup Threads]
    /\ socket \in [Threads -> Sockets \cup {NoSocket}]
    /\ secTail \in [Threads -> Threads \cup {Nil}]
    /\ succ \in [Threads -> Threads \cup {Nil}]

(* No two threads are inside the lock.                                     *)
MutualExclusion == \A l \in Locks : Cardinality(holders[l]) <= 1

(* The node of u is linked to that of t, or u is about to store the link.  *)
Linked(t, u, l) ==
    \/ next[t] = u /\ ~At(u, l, "link")
    \/ next[t] = Nil /\ At(u, l, "link") /\ succ[u] = t

(* The first k threads of behind are the secondary queue of the owner t.   *)
(* When the tail has been moved to them they are the main queue.           *)
SecondaryIs(t, behind, k) ==
    IF k > 0
    THEN /\ spin[t] = behind[1]
         /\ secTail[behind[1]] = behind[k]
         /\ next[behind[k]] = Nil
         /\ pc[t] # "wakeSecondary"
    ELSE spin[t] = IF pc[t] = "wakeSecondary" THEN behind[1] ELSE 1

(* The threads of behind after the first k are the main queue.             *)
MainIs(l, t, behind, k) ==
    IF k = Len(behind)
    THEN tail[l] = t /\ next[t] = Nil
    ELSE /\ tail[l] = behind[Len(behind)]
         /\ next[behind[Len(behind)]] = Nil
         /\ \/ pc[t] = "wakeSecondary" /\ next[t] = Nil
            \/ pc[t] = "passLocal" /\ succ[t] = behind[k + 1]
            \/ pc[t] \notin {"wakeSecondary", "passLocal"} /\ Linked(t, behind[k + 1], l)

(***************************************************************************)
(* The secondary queue followed by the main queue is the line in the order *)
(* of arrival, whatever was moved and spliced, but for the owner, whom the *)
(* lock was passed to: no waiting thread is lost, none is in both queues,  *)
(* and who is not linked yet is about to link itself to the one before it. *)
(***************************************************************************)
QueuesKeepOrder ==
    \A l \in Locks : queue[l] # << >> =>
        \E p \in DOMAIN queue[l] :
            LET owner  == queue[l][p]
                behind == RemoveAt(queue[l], p)
            IN  /\ spin[owner] # 0
                /\ \A i \in DOMAIN behind : spin[behind[i]] = 0
                /\ \E k \in 0 .. Len(behind) :
                       /\ SecondaryIs(owner, behind, k)
                       /\ MainIs(l, owner, behind, k)
                       /\ \A i \in 1 .. Len(behind) - 1 :
                              i # k => Linked(behind[i], behind[i + 1], l)

(***************************************************************************)
(* Among the threads of one socket the lock is first come, first served:   *)
(* nobody enters before a thread of its own socket that arrived earlier.   *)
(***************************************************************************)
FifoOnSocket ==
    [][\A l \in Locks : \A j \in DOMAIN queue'[l] :
           LET t == queue'[l][j] IN
           l \in held'[t] \ held[t] =>
               \A i \in 1 .. j - 1 : socket'[queue'[l][i]] # socket'[t]]_vars
=============================================================================
