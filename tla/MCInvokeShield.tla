--------------------------- MODULE MCInvokeShield ---------------------------
(***************************************************************************)
(* LS_INVOKE and Clib's shield for TLC: one thread and three locks, one of *)
(* them with queue nodes, and an array of three cells, so that entries of  *)
(* both kinds are removed out of order.  The table is thread_local, and    *)
(* between a lookup and the use of its entry only the thread's own calls   *)
(* could touch it.  Misuse may panic, as in LS_INVOKE, or not, as in Clib. *)
(***************************************************************************)
EXTENDS ClibShield, TLC

(* No definition tells the threads, the nodes or the locks without nodes   *)
(* apart.                                                                  *)
Symmetry ==
    Permutations(Threads) \cup Permutations(Nodes)
        \cup Permutations(Locks \ NodeLocks)
=============================================================================
