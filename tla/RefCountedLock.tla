--------------------------- MODULE RefCountedLock ---------------------------
(***************************************************************************)
(* What the shield promises its callers, with no table, no hash and no     *)
(* lock algorithm: a set of mutual-exclusion locks, each with a per-thread *)
(* nesting depth, in which every call that would unbalance a lock is       *)
(* turned away with a status and changes nothing else.                     *)
(*                                                                         *)
(* It is the intent of the LS_Status values of shielding_hash.h and the    *)
(* target of the refinements of the concrete shields.                      *)
(***************************************************************************)
EXTENDS Naturals

CONSTANTS
    Threads,    \* the callers
    Locks       \* the shielded locks

VARIABLES
    depth,      \* depth[t][l]: how many times t holds l
    status      \* status[t]: the LS_Status t's latest call was decided with

vars == << depth, status >>

Statuses ==
    { "none",
      "LS_ACQUIRE_NOW", "LS_SKIP_ACQUISITION", "LS_UNBALANCED_LOCK",
      "LS_RELEASE_NOW", "LS_SKIP_RELEASE", "LS_UNBALANCED_UNLOCK" }

Held(l) == \E t \in Threads : depth[t][l] > 0

Init ==
    /\ depth = [t \in Threads |-> [l \in Locks |-> 0]]
    /\ status = [t \in Threads |-> "none"]

Decide(t, l, change, s) ==
    /\ depth' = [depth EXCEPT ![t][l] = @ + change]
    /\ status' = [status EXCEPT ![t] = s]

Reject(t, s) ==
    /\ status' = [status EXCEPT ![t] = s]
    /\ UNCHANGED depth

(* The lock itself is taken only when nobody, the caller included, has it. *)
Grant(t, l) == ~Held(l) /\ Decide(t, l, 1, "LS_ACQUIRE_NOW")

(* A reentrant acquisition by the holder.                                  *)
Nest(t, l) == depth[t][l] > 0 /\ Decide(t, l, 1, "LS_SKIP_ACQUISITION")

(* A release that leaves the caller with the lock.                         *)
Unnest(t, l) ==
    /\ depth[t][l] > 1
    /\ depth' = [depth EXCEPT ![t][l] = @ - 1]
    /\ status' = [status EXCEPT ![t] = "LS_SKIP_RELEASE"]

(* The release that gives the lock up: the last one, by the holder.        *)
Free(t, l) ==
    /\ depth[t][l] = 1
    /\ depth' = [depth EXCEPT ![t][l] = 0]
    /\ status' = [status EXCEPT ![t] = "LS_RELEASE_NOW"]

(* A non-reentrant acquisition of a lock the caller holds.                 *)
RejectLock(t, l) == depth[t][l] > 0 /\ Reject(t, "LS_UNBALANCED_LOCK")

(* A release of a lock the caller does not hold.                           *)
RejectUnlock(t, l) == depth[t][l] = 0 /\ Reject(t, "LS_UNBALANCED_UNLOCK")

Next ==
    \E t \in Threads, l \in Locks :
        \/ Grant(t, l)
        \/ Nest(t, l)
        \/ Unnest(t, l)
        \/ Free(t, l)
        \/ RejectLock(t, l)
        \/ RejectUnlock(t, l)

Spec == Init /\ [][Next]_vars
=============================================================================
