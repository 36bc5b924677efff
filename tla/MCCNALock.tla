----------------------------- MODULE MCCNALock -----------------------------
(***************************************************************************)
(* CNALock with all threads at one lock, so that the queues get long, or   *)
(* with a few threads that go from lock to lock with the same node.        *)
(***************************************************************************)
EXTENDS CNALock

CONSTANT
    Few             \* some of the threads

VARIABLE
    use             \* bound: which threads use which locks

mcVars == << vars, use >>

Uses == { Threads \X {CHOOSE l \in Locks : TRUE}, Few \X Locks }

MCInit == Init /\ use \in Uses

MCNext ==
    \E t \in Threads, l \in Locks :
        /\ \/ << t, l >> \in use /\ StartAcquire(t, l)
           \/ StartRelease(t, l)
           \/ Continue(t, l)
        /\ UNCHANGED use

MCSpec == MCInit /\ [][MCNext]_mcVars /\ Fairness
=============================================================================
