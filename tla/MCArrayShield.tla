---------------------------- MODULE MCArrayShield ----------------------------
(***************************************************************************)
(* ArrayShield for TLC: MAX_LOCKS is 2 and there are three locks, so that  *)
(* an array can be full, a hole in it can be filled by a swap, and, when   *)
(* MaxHeld allows, a lock can find no room.                                *)
(***************************************************************************)
EXTENDS ArrayShield, TLC

(* Neither the threads nor the locks are told apart by any definition.     *)
Symmetry == Permutations(Threads) \cup Permutations(Locks)
=============================================================================
