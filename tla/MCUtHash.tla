------------------------------ MODULE MCUtHash ------------------------------
(***************************************************************************)
(* UtHash with the shields' own hash function.                             *)
(***************************************************************************)
EXTENDS UtHash, Bitwise

(* HASH_FUNCTION of shielding_hash.h: (k >> 4) ^ k.                        *)
HashValue == [e \in Entries |-> (e \div 16) ^^ e]
=============================================================================
