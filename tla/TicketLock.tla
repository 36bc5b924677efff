----------------------------- MODULE TicketLock -----------------------------
(***************************************************************************)
(* TicketLock (ticket.h): a thread draws a ticket and waits until it is    *)
(* served.  Both counters are ints that wrap around; only their equality   *)
(* matters, so they count modulo TicketMod, 2^32 in the code.              *)
(***************************************************************************)
EXTENDS LockCaller

CONSTANT
    TicketMod       \* how many tickets there are before they repeat

TicketAssumption ==
    /\ IsFiniteSet(Threads)
    /\ TicketMod \in Nat \ {0}
    /\ Cardinality(Threads) <= TicketMod

VARIABLES
    next_ticket,
    now_serving,
    my_ticket       \* my_ticket[t]: the local of Acquire, 0 outside it

ticketVars == << next_ticket, now_serving, my_ticket >>

vars == << callerVars, ticketVars >>

TicketInit ==
    /\ next_ticket = [l \in Locks |-> 0]
    /\ now_serving = [l \in Locks |-> 0]
    /\ my_ticket = [t \in Threads |-> 0]

Plus(n, i) == (n + i) % TicketMod

-----------------------------------------------------------------------------
(* Mutant: fetch_add is taken to return the new value.                     *)
StartAcquire_NewValue(t, l) ==
    /\ BeginAcquire(t, l, "spin")
    /\ my_ticket' = [my_ticket EXCEPT ![t] = Plus(next_ticket[l], 1)]
    /\ next_ticket' = [next_ticket EXCEPT ![l] = Plus(@, 1)]
    /\ Arrive(t, l)
    /\ UNCHANGED now_serving

(* my_ticket = next_ticket.fetch_add(1): the doorway.                      *)
StartAcquire(t, l) ==
    /\ BeginAcquire(t, l, "spin")
    /\ my_ticket' = [my_ticket EXCEPT ![t] = next_ticket[l]]
    /\ next_ticket' = [next_ticket EXCEPT ![l] = Plus(@, 1)]
    /\ Arrive(t, l)
    /\ UNCHANGED now_serving

Spin(t, l) ==
    /\ At(t, l, "spin")
    /\ now_serving[l] = my_ticket[t]
    /\ my_ticket' = [my_ticket EXCEPT ![t] = 0]
    /\ Enter(t, l)
    /\ Return(t)
    /\ UNCHANGED << next_ticket, now_serving >>

(* now_serving.fetch_add(1) is all of Release.                             *)
StartRelease(t, l) ==
    /\ pc[t] = "idle"
    /\ l \in held[t]
    /\ now_serving' = [now_serving EXCEPT ![l] = Plus(@, 1)]
    /\ Leave(t, l)
    /\ UNCHANGED << pc, arg, next_ticket, my_ticket >>

-----------------------------------------------------------------------------
Init == CallerInit /\ TicketInit

(* The rest of a call that has begun.                                      *)
Continue(t, l) == Spin(t, l)

Next ==
    \E t \in Threads, l \in Locks :
        StartAcquire(t, l) \/ StartRelease(t, l) \/ Continue(t, l)

Spec == Init /\ [][Next]_vars

-----------------------------------------------------------------------------
Tickets == 0 .. TicketMod - 1

TypeOK ==
    /\ CallerTypeOK
    /\ pc \in [Threads -> {"idle", "spin"}]
    /\ next_ticket \in [Locks -> Tickets]
    /\ now_serving \in [Locks -> Tickets]
    /\ my_ticket \in [Threads -> Tickets]

(***************************************************************************)
(* The tickets out are those of the threads in line, in their order, and   *)
(* the one served is that of the first: also after the counters have       *)
(* wrapped around, no ticket is out twice and none is skipped.             *)
(***************************************************************************)
TicketsFollowQueue ==
    \A l \in Locks :
        /\ next_ticket[l] = Plus(now_serving[l], Len(queue[l]))
        /\ \A i \in DOMAIN queue[l] :
               queue[l][i] \in holders[l]
               \/ my_ticket[queue[l][i]] = Plus(now_serving[l], i - 1)
=============================================================================
