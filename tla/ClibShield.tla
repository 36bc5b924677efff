----------------------------- MODULE ClibShield -----------------------------
(***************************************************************************)
(* Clib/shield_hash.h: the shield for C.  Its table, its freelist and its  *)
(* two-part calls are those of LS_INVOKE; misuse is always answered with a *)
(* status.  Locks that need a queue node take one from the caller, `me`,   *)
(* on every call (LS_ACQUIRE2, LS_RELEASE2); the others do not             *)
(* (LS_ACQUIRE1, LS_RELEASE1).                                             *)
(*                                                                         *)
(* The shield keeps no node: unlock_fn gets the one of the call that       *)
(* happens to be the last.  Callers are taken to release in the reverse    *)
(* order of their acquisitions, each with the node it acquired with.       *)
(***************************************************************************)
EXTENDS InvokeShield

CONSTANTS
    Nodes,          \* the callers' queue nodes
    NoNode,         \* `me` of a call that has none
    NodeLocks       \* the locks that need a node

ASSUME NodeAssumption ==
    /\ NoNode \notin Nodes
    /\ NodeLocks \subseteq Locks

VARIABLES
    me,             \* me[t]: the argument of t's call, until the lock's own
                    \* function has had it
    taken_with,     \* taken_with[l]: the node that l was locked with (history)
    acquired        \* acquired[t][l]: the nodes of t's acquisitions of l that
                    \* it has not released, the latest first (history)

nodeVars == << me, taken_with, acquired >>

clibVars == << invokeVars, nodeVars >>


-----------------------------------------------------------------------------
ClibInit ==
    /\ InvokeInit
    /\ me = [t \in Threads |-> NoNode]
    /\ taken_with = [l \in Locks |-> NoNode]
    /\ acquired = [t \in Threads |-> [l \in Locks |-> << >>]]

Acquired(t, l, node) == [acquired EXCEPT ![t][l] = << node >> \o @]

ClibAcquire(t, l, node, reentrant) ==
    /\ InvokeAcquire(t, l, reentrant)
    /\ \/ /\ lookup(t, l) = NULL
          /\ me' = [me EXCEPT ![t] = node]
          /\ UNCHANGED acquired
       \/ /\ lookup(t, l) # NULL
          /\ acquired' = IF reentrant THEN Acquired(t, l, node) ELSE acquired
          /\ UNCHANGED me
    /\ UNCHANGED taken_with

ClibRelease(t, l, node, reentrant) ==
    /\ acquired[t][l] # << >> => node = Head(acquired[t][l])
    /\ InvokeRelease(t, l, reentrant)
    /\ \/ /\ lookup(t, l) = NULL
          /\ UNCHANGED << me, acquired >>
       \/ /\ lookup(t, l) # NULL
          /\ acquired' = [acquired EXCEPT ![t][l] = Tail(@)]
          /\ me' = IF reentrant /\ ~LastHoldAt(t, lookup(t, l))
                   THEN me ELSE [me EXCEPT ![t] = node]
    /\ UNCHANGED taken_with

LS_ACQUIRE1(t, l, reentrant) ==
    l \notin NodeLocks /\ ClibAcquire(t, l, NoNode, reentrant)

LS_ACQUIRE2(t, l, node, reentrant) ==
    l \in NodeLocks /\ ClibAcquire(t, l, node, reentrant)

LS_RELEASE1(t, l, reentrant) ==
    l \notin NodeLocks /\ ClibRelease(t, l, NoNode, reentrant)

LS_RELEASE2(t, l, node, reentrant) ==
    l \in NodeLocks /\ ClibRelease(t, l, node, reentrant)

(* __lock_fn(l, me); its result is not looked at.                          *)
ClibLockFn(t, l) ==
    /\ LockFn(t, l)
    /\ taken_with' = [taken_with EXCEPT ![l] = me[t]]
    /\ acquired' = Acquired(t, l, me[t])
    /\ me' = [me EXCEPT ![t] = NoNode]
    /\ UNCHANGED << tableVars, entry >>

(* __unlock_fn(l, me), after the table update or before it.                *)
ClibUnlockFn(t, l) ==
    /\ UnlockFn(t, l) \/ UnlockFirst(t, l)
    /\ taken_with' = [taken_with EXCEPT ![l] = NoNode]
    /\ me' = [me EXCEPT ![t] = NoNode]
    /\ UNCHANGED << tableVars, entry, acquired >>

ClibNext ==
    \E t \in Threads, l \in Locks :
        \/ \E reentrant \in BOOLEAN :
               \/ LS_ACQUIRE1(t, l, reentrant)
               \/ LS_RELEASE1(t, l, reentrant)
               \/ \E node \in Nodes :
                      \/ LS_ACQUIRE2(t, l, node, reentrant)
                      \/ LS_RELEASE2(t, l, node, reentrant)
        \/ ClibLockFn(t, l)
        \/ InvokeAfterLockFn(t, l) /\ UNCHANGED nodeVars
        \/ ClibUnlockFn(t, l)
        \/ InvokeAfterUnlockFn(t, l) /\ UNCHANGED nodeVars

ClibSpec == ClibInit /\ [][ClibNext]_clibVars

-----------------------------------------------------------------------------
(***************************************************************************)
(* unlock_fn gets the node that lock_fn got, though calls in between were  *)
(* skipped with nodes of their own: a queue lock released with another     *)
(* node would wake nobody, or somebody else's successor (LS_RELEASE2).     *)
(***************************************************************************)
SameNode ==
    \A t \in Threads :
        pc[t] \in {"unlock_fn", "unlock_first"} => me[t] = taken_with[arg[t]]
=============================================================================
