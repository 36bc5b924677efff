------------------------------ MODULE FifoLock ------------------------------
(***************************************************************************)
(* What the queue locks of src/src promise, with no nodes, slots or        *)
(* tickets: threads that call Acquire line up behind the lock in the order *)
(* in which they reach its doorway, the first one in line enters when      *)
(* nobody is inside, and whoever is inside leaves the line when it leaves. *)
(***************************************************************************)
EXTENDS Sequences

CONSTANTS
    Threads,
    Locks

VARIABLES
    queue,      \* queue[l]: the threads at lock l, the one inside included
    holders     \* holders[l]: the threads inside lock l

vars == << queue, holders >>

Init ==
    /\ queue = [l \in Locks |-> << >>]
    /\ holders = [l \in Locks |-> {}]

InLine(t, l) == \E i \in DOMAIN queue[l] : queue[l][i] = t

(* t passes the doorway.                                                   *)
Arrive(t, l) ==
    /\ ~InLine(t, l)
    /\ queue' = [queue EXCEPT ![l] = Append(@, t)]
    /\ UNCHANGED holders

(* t passes the doorway of a free lock, and has it at once.                *)
Take(t, l) ==
    /\ queue[l] = << >>
    /\ holders[l] = {}
    /\ queue' = [queue EXCEPT ![l] = << t >>]
    /\ holders' = [holders EXCEPT ![l] = {t}]

(* The first in line goes in once the one before it has left.              *)
Enter(t, l) ==
    /\ queue[l] # << >>
    /\ Head(queue[l]) = t
    /\ holders[l] = {}
    /\ holders' = [holders EXCEPT ![l] = {t}]
    /\ UNCHANGED queue

Leave(t, l) ==
    /\ holders[l] = {t}
    /\ Head(queue[l]) = t
    /\ queue' = [queue EXCEPT ![l] = Tail(@)]
    /\ holders' = [holders EXCEPT ![l] = {}]

Next ==
    \E t \in Threads, l \in Locks :
        Arrive(t, l) \/ Take(t, l) \/ Enter(t, l) \/ Leave(t, l)

Spec == Init /\ [][Next]_vars
=============================================================================
