---------------------------- MODULE ShieldClient ----------------------------
(***************************************************************************)
(* The part every shield shares: threads that call LS_ACQUIRE and          *)
(* LS_RELEASE on a few locks, the control flow of those two templates up   *)
(* to the table of reference counts, and the locks themselves.             *)
(*                                                                         *)
(* A shielded call is cut where other threads can run: at lock_fn, at      *)
(* unlock_fn and between either of them and the table update that follows. *)
(* Everything else a call does is on thread-local data.                    *)
(*                                                                         *)
(* The lock behind lock_fn and unlock_fn is TASLock: one flag, taken by    *)
(* whoever finds it clear and cleared by whoever calls Release.            *)
(***************************************************************************)
EXTENDS Naturals

CONSTANTS
    Threads,        \* the threads of the program
    Locks,          \* the locks it shields, by address
    NoThread,       \* the owner of a free lock
    MaxDepth,       \* bound on nesting: the callers never hold a lock deeper
    MisusePanics,   \* subset of BOOLEAN: TRUE, misuse aborts (the C++ headers);
                    \* FALSE, it returns its status (Clib)
    MixFlags        \* TRUE: callers pass any reentrant flag to LS_RELEASE;
                    \* FALSE: they pass false only for the outermost hold

ASSUME ClientAssumption ==
    /\ NoThread \notin Threads
    /\ MaxDepth \in Nat \ {0}
    /\ MisusePanics \in SUBSET BOOLEAN
    /\ MixFlags \in BOOLEAN

VARIABLES
    owner,      \* owner[l]: who raised l's flag, NoThread when it is clear
    depth,      \* depth[t][l]: lock_fn and skipped acquisitions of l by t,
                \* less its unlock_fn and skipped releases (history)
    pc,         \* pc[t]: where t's current call is, "idle" between calls
    arg,        \* arg[t]: the lock of t's latest call
    status      \* status[t]: the LS_Status of t's latest finished call

clientVars == << owner, depth, pc, arg, status >>

Statuses ==
    { "none",
      "LS_ACQUIRE_NOW", "LS_SKIP_ACQUISITION", "LS_UNBALANCED_LOCK",
      "LS_RELEASE_NOW", "LS_SKIP_RELEASE", "LS_UNBALANCED_UNLOCK" }

(***************************************************************************)
(* "lock_fn": about to run lock_fn; "increment": it returned, IncrementRef *)
(* is next.  "unlock_fn": a reentrant release whose count reached zero.    *)
(* "unlock_first": a non-reentrant release, which unlocks before it        *)
(* updates the table; "decrement": it did, DecrementRef is next.           *)
(***************************************************************************)
PCs ==
    { "idle", "lock_fn", "increment", "unlock_fn", "unlock_first",
      "decrement", "aborted", "exited" }

ClientInit ==
    /\ owner = [l \in Locks |-> NoThread]
    /\ depth = [t \in Threads |-> [l \in Locks |-> 0]]
    /\ pc = [t \in Threads |-> "idle"]
    /\ arg \in [Threads -> Locks]
    /\ status = [t \in Threads |-> "none"]

-----------------------------------------------------------------------------
(* abort() and exit() end the process, so every thread.                    *)
Running == \A t \in Threads : pc[t] \notin {"aborted", "exited"}

At(t, l, place) == Running /\ pc[t] = place /\ arg[t] = l

(* t starts a call on l, any call: there is no restriction but the bound.  *)
Call(t) == Running /\ pc[t] = "idle"

MayNest(t, l) == depth[t][l] < MaxDepth

MayRelease(t, l, reentrant) ==
    reentrant \/ MixFlags \/ depth[t][l] <= 1

Goto(t, l, place) ==
    /\ pc' = [pc EXCEPT ![t] = place]
    /\ arg' = [arg EXCEPT ![t] = l]

(* The call goes on: at `place`, with no status yet and no lock touched.   *)
Proceed(t, l, place) ==
    /\ Goto(t, l, place)
    /\ UNCHANGED << owner, depth, status >>

Return(t, l, s) ==
    /\ Goto(t, l, "idle")
    /\ status' = [status EXCEPT ![t] = s]

(* A call that the table answers alone: it skips lock_fn or unlock_fn.     *)
Skip(t, l, newDepth, s) ==
    /\ Return(t, l, s)
    /\ depth' = [depth EXCEPT ![t][l] = newDepth]
    /\ UNCHANGED owner

(* UNBALANCED_LOCK and UNBALANCED_UNLOCK.                                  *)
RejectMisuse(t, l, s) ==
    /\ \E panics \in MisusePanics :
           Goto(t, l, IF panics THEN "aborted" ELSE "idle")
    /\ status' = [status EXCEPT ![t] = s]
    /\ UNCHANGED << owner, depth >>

(* exit(-1) from inside a call: uthash cannot allocate.                    *)
Exit(t, l) == Proceed(t, l, "exited")

-----------------------------------------------------------------------------
(* TASLock::Acquire: the spin ends when test_and_set finds the flag clear. *)
LockFn(t, l) ==
    /\ At(t, l, "lock_fn")
    /\ owner[l] = NoThread
    /\ owner' = [owner EXCEPT ![l] = t]
    /\ depth' = [depth EXCEPT ![t][l] = @ + 1]
    /\ Goto(t, l, "increment")
    /\ UNCHANGED status

(* TASLock::Release: clears the flag, whoever raised it.                   *)
ClearFlag(t, l) ==
    /\ owner' = [owner EXCEPT ![l] = NoThread]
    /\ depth' = [depth EXCEPT ![t][l] = @ - 1]

(* unlock_fn of a reentrant release: the table is already up to date.      *)
UnlockFn(t, l) ==
    /\ At(t, l, "unlock_fn")
    /\ ClearFlag(t, l)
    /\ Return(t, l, "LS_RELEASE_NOW")

(* unlock_fn of a non-reentrant release: the table still counts the hold.  *)
UnlockFirst(t, l) ==
    /\ At(t, l, "unlock_first")
    /\ ClearFlag(t, l)
    /\ Goto(t, l, "decrement")
    /\ UNCHANGED status

-----------------------------------------------------------------------------
ClientTypeOK ==
    /\ owner \in [Locks -> Threads \cup {NoThread}]
    /\ depth \in [Threads -> [Locks -> Nat]]
    /\ pc \in [Threads -> PCs]
    /\ arg \in [Threads -> Locks]
    /\ status \in [Threads -> Statuses]

(***************************************************************************)
(* No two threads hold a lock at once, whatever unbalanced calls they      *)
(* make: what shielding the lock is for (LS_ACQUIRE, LS_RELEASE).          *)
(***************************************************************************)
MutualExclusion ==
    \A l \in Locks : \A t, u \in Threads :
        depth[t][l] > 0 /\ depth[u][l] > 0 => t = u

(***************************************************************************)
(* No misuse reaches the lock.  unlock_fn runs only in the thread that     *)
(* raised the flag (an unbalanced unlock would clear somebody else's), and *)
(* lock_fn never runs in it (a thread that locks a TASLock twice spins     *)
(* for ever).                                                              *)
(***************************************************************************)
NoMisuseReachesLock ==
    \A t \in Threads :
        /\ pc[t] \in {"unlock_fn", "unlock_first"} => owner[arg[t]] = t
        /\ pc[t] = "lock_fn" => owner[arg[t]] # t

(***************************************************************************)
(* No false panic: a call is turned away as UNBALANCED_LOCK only when its  *)
(* thread does hold the lock, as UNBALANCED_UNLOCK only when it does not.  *)
(***************************************************************************)
NoFalsePanic ==
    \A t \in Threads :
        pc[t] \in {"idle", "aborted"} =>
            /\ status[t] = "LS_UNBALANCED_LOCK" => depth[t][arg[t]] > 0
            /\ status[t] = "LS_UNBALANCED_UNLOCK" => depth[t][arg[t]] = 0

(* The status of a call that has taken or given up the lock but has not    *)
(* returned: the value it is bound to return.                              *)
decided ==
    [t \in Threads |->
        CASE pc[t] = "increment" -> "LS_ACQUIRE_NOW"
          [] pc[t] = "decrement" -> "LS_RELEASE_NOW"
          [] OTHER -> status[t]]

(* The count t's table should hold for l: its depth, but for the window    *)
(* between lock_fn or unlock_fn and the table update on either side.       *)
Expected(t, l) ==
    IF arg[t] # l THEN depth[t][l]
    ELSE CASE pc[t] \in {"increment", "unlock_fn", "exited"} -> depth[t][l] - 1
           [] pc[t] = "decrement" -> depth[t][l] + 1
           [] OTHER -> depth[t][l]
=============================================================================
