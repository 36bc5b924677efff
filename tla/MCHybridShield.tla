--------------------------- MODULE MCHybridShield ---------------------------
(***************************************************************************)
(* HybridShield for TLC.  With two threads and two locks MAX_LOCKS and     *)
(* MAX_HASH_ENTRIES are 2: a thread that takes its second lock migrates,   *)
(* and entries come back to the pool in any order.  With one thread and    *)
(* four locks they are 3: the array has holes to fill, and a fourth lock   *)
(* needs an entry from malloc.                                             *)
(***************************************************************************)
EXTENDS HybridShield, TLC

(* Neither the threads nor the locks are told apart by any definition.     *)
Symmetry == Permutations(Threads) \cup Permutations(Locks)
=============================================================================
