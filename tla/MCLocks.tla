------------------------------ MODULE MCLocks ------------------------------
(***************************************************************************)
(* lock_type.h picks one lock class for the whole program.  Here the       *)
(* choice is between the fair classes but CNALock: those whose waiting     *)
(* threads form a list, MCSLock, CLHLock, HemLock and K42Lock, and those   *)
(* that count arrivals, TicketLock and ABQLLock.                           *)
(***************************************************************************)
EXTENDS LockCaller

CONSTANTS
    Addresses,      \* the addresses of K42Lock's nodes
    Few,            \* some of the threads
    TicketMod,
    ABQL_MAX_THREADS,
    IntMax,
    MaxTail

VARIABLES
    LockType,       \* the class picked
    use,            \* which threads use which locks
    mcsTail, mcsNext, mcsLocked, mcsPrev,
    clhTail, clhLocked, clhMyNode, clhMyPred,
    hemTail, hemGrant, hemPred,
    k42Tail, k42Next, k42Locked, k42Live, k42I, k42Predecessor,
    next_ticket, now_serving, my_ticket,
    flags, abqlTail, slot

MCS == INSTANCE MCSLock WITH
           tail <- mcsTail, next <- mcsNext, locked <- mcsLocked, prev <- mcsPrev

CLH == INSTANCE CLHLock WITH
           tail <- clhTail, locked <- clhLocked, myNode <- clhMyNode, myPred <- clhMyPred

(* MaxHeld is for the classes with one node or slot per thread, which      *)
(* serves one lock at a time.  A thread may nest the locks of the other    *)
(* three: its Grant serves them all in HemLock, K42Lock has a node only    *)
(* while Acquire runs, and the ticket is a local in TicketLock.            *)
Hem == INSTANCE HemLock WITH
           MaxHeld <- Cardinality(Locks),
           tail <- hemTail, Grant <- hemGrant, pred <- hemPred

K42 == INSTANCE K42Lock WITH
           MaxHeld <- Cardinality(Locks),
           tail <- k42Tail, next <- k42Next, locked <- k42Locked, live <- k42Live,
           I <- k42I, predecessor <- k42Predecessor

Ticket == INSTANCE TicketLock WITH MaxHeld <- Cardinality(Locks)

ABQL == INSTANCE ABQLLock WITH tail <- abqlTail

ASSUME LocksAssumption ==
    /\ K42!K42Assumption
    /\ Ticket!TicketAssumption
    /\ ABQL!ABQLAssumption
    /\ Few \subseteq Threads

mcsFields == << mcsTail, mcsNext, mcsLocked, mcsPrev >>

clhFields == << clhTail, clhLocked, clhMyNode, clhMyPred >>

hemFields == << hemTail, hemGrant, hemPred >>

k42Fields == << k42Tail, k42Next, k42Locked, k42Live, k42I, k42Predecessor >>

ticketFields == << next_ticket, now_serving, my_ticket >>

abqlFields == << flags, abqlTail, slot >>

vars ==
    << LockType, use, callerVars, mcsFields, clhFields, hemFields, k42Fields,
       ticketFields, abqlFields >>

(* Bound: the nodes of CLHLock and K42Lock come in every permutation, so   *)
(* with these either all threads use one lock or a few of them use all.    *)
Uses(type) ==
    IF type \in {"CLHLock", "K42Lock"}
    THEN { Threads \X {CHOOSE l \in Locks : TRUE}, Few \X Locks }
    ELSE { Threads \X Locks }

Init ==
    /\ LockType \in {"MCSLock", "CLHLock", "HemLock", "K42Lock",
                    "TicketLock", "ABQLLock"}
    /\ use \in Uses(LockType)
    /\ CallerInit
    /\ MCS!MCSInit
    /\ CLH!CLHInit
    /\ Hem!HemInit
    /\ K42!K42Init
    /\ Ticket!TicketInit
    /\ ABQL!ABQLInit

IsMCS ==
    /\ LockType = "MCSLock"
    /\ UNCHANGED << LockType, use, clhFields, hemFields, k42Fields,
                    ticketFields, abqlFields >>

IsCLH ==
    /\ LockType = "CLHLock"
    /\ UNCHANGED << LockType, use, mcsFields, hemFields, k42Fields,
                    ticketFields, abqlFields >>

IsHem ==
    /\ LockType = "HemLock"
    /\ UNCHANGED << LockType, use, mcsFields, clhFields, k42Fields,
                    ticketFields, abqlFields >>

IsK42 ==
    /\ LockType = "K42Lock"
    /\ UNCHANGED << LockType, use, mcsFields, clhFields, hemFields,
                    ticketFields, abqlFields >>

IsTicket ==
    /\ LockType = "TicketLock"
    /\ UNCHANGED << LockType, use, mcsFields, clhFields, hemFields,
                    k42Fields, abqlFields >>

IsABQL ==
    /\ LockType = "ABQLLock"
    /\ UNCHANGED << LockType, use, mcsFields, clhFields, hemFields,
                    k42Fields, ticketFields >>

StartAcquire(t, l) ==
    /\ << t, l >> \in use
    /\ \/ IsMCS /\ MCS!StartAcquire(t, l)
       \/ IsCLH /\ CLH!StartAcquire(t, l)
       \/ IsHem /\ Hem!StartAcquire(t, l)
       \/ IsK42 /\ K42!StartAcquire(t, l)
       \/ IsTicket /\ Ticket!StartAcquire(t, l)
       \/ IsABQL /\ ABQL!StartAcquire(t, l)

StartRelease(t, l) ==
    \/ IsMCS /\ MCS!StartRelease(t, l)
    \/ IsCLH /\ CLH!StartRelease(t, l)
    \/ IsHem /\ Hem!StartRelease(t, l)
    \/ IsK42 /\ K42!StartRelease(t, l)
    \/ IsTicket /\ Ticket!StartRelease(t, l)
    \/ IsABQL /\ ABQL!StartRelease(t, l)

Continue(t, l) ==
    \/ IsMCS /\ MCS!Continue(t, l)
    \/ IsCLH /\ CLH!Continue(t, l)
    \/ IsHem /\ Hem!Continue(t, l)
    \/ IsK42 /\ K42!Continue(t, l)
    \/ IsTicket /\ Ticket!Continue(t, l)
    \/ IsABQL /\ ABQL!Continue(t, l)

Next ==
    \E t \in Threads, l \in Locks :
        StartAcquire(t, l) \/ StartRelease(t, l) \/ Continue(t, l)

(* Threads are scheduled, and critical sections end, those too in which a  *)
(* thread goes on taking and releasing other locks.                        *)
Fairness ==
    \A t \in Threads :
        /\ WF_vars(\E l \in Locks : Continue(t, l))
        /\ \A l \in Locks : SF_vars(StartRelease(t, l))

Spec == Init /\ [][Next]_vars /\ Fairness

TypeOK ==
    /\ LockType = "MCSLock" => MCS!TypeOK
    /\ LockType = "CLHLock" => CLH!TypeOK
    /\ LockType = "HemLock" => Hem!TypeOK
    /\ LockType = "K42Lock" => K42!TypeOK
    /\ LockType = "TicketLock" => Ticket!TypeOK
    /\ LockType = "ABQLLock" => ABQL!TypeOK

NodesFollowQueue == LockType = "MCSLock" => MCS!NodesFollowQueue

NodesNotShared == LockType = "CLHLock" => CLH!NodesNotShared

AssertionsHold == LockType = "HemLock" => Hem!AssertionsHold

GrantHasOneTaker == LockType = "HemLock" => Hem!GrantHasOneTaker

NoUseAfterDelete == LockType = "K42Lock" => K42!NoUseAfterDelete

TicketsFollowQueue == LockType = "TicketLock" => Ticket!TicketsFollowQueue

FlagFollowsQueue == LockType = "ABQLLock" => ABQL!FlagFollowsQueue
=============================================================================
