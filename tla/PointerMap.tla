----------------------------- MODULE PointerMap -----------------------------
(***************************************************************************)
(* What the shields need of a hash table: a set of entries, that an entry  *)
(* joins when a lookup missed it and leaves when a lookup found it.        *)
(* HybridShield uses the table through this interface; UtHash implements   *)
(* it.                                                                     *)
(***************************************************************************)
CONSTANT Entries    \* the entries, named by their keys

VARIABLE stored     \* the entries in the table

Init == stored = {}

Add(e) == e \notin stored /\ stored' = stored \cup {e}

Delete(e) == e \in stored /\ stored' = stored \ {e}

Next == \E e \in Entries : Add(e) \/ Delete(e)

Spec == Init /\ [][Next]_stored
=============================================================================
