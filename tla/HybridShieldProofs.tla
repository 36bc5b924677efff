------------------------- MODULE HybridShieldProofs -------------------------
(***************************************************************************)
(* Proofs about HybridShield, for every value of its constants.            *)
(*                                                                         *)
(* The first part says what each table operation does to the shape of a    *)
(* thread's table and to what lookup finds in it; the second carries an    *)
(* inductive invariant through the calls; the third draws the properties   *)
(* from it; the fourth is about the entries of the hash table.             *)
(***************************************************************************)
EXTENDS HybridShield, ShieldClientProofs

TableTypeOK ==
    /\ lock_count \in [Threads -> 0 .. (MAX_LOCKS + 1)]
    /\ lock_table \in [Threads -> [Indices -> Cells]]
    /\ lock_hash \in [Threads -> [Locks -> Entries]]
    /\ freelist \in [Threads -> Seq(PoolSlots)]
    /\ freelist_initialized \in [Threads -> BOOLEAN]
    /\ heap \in [Threads -> SUBSET Locks]

(* In array mode the cells in use are the distinct locks the thread holds, *)
(* there is room for one more, and the hash table has never been used.     *)
ArrayShape(t) ==
    /\ lock_count[t] < MAX_LOCKS
    /\ ~freelist_initialized[t]
    /\ \A i \in Used(t) :
           lock_table[t][i].lock_ptr \in Locks /\ lock_table[t][i].rec_count >= 1
    /\ \A i, j \in Used(t) :
           lock_table[t][i].lock_ptr = lock_table[t][j].lock_ptr => i = j
    /\ \A l \in Locks : lock_hash[t][l] = NoEntry

(* In hash mode a lock has an entry exactly when its count is positive.    *)
HashShape(t) ==
    /\ freelist_initialized[t]
    /\ \A l \in Locks :
           /\ lock_hash[t][l].slot = NoSlot => lock_hash[t][l].rec_count = 0
           /\ lock_hash[t][l].slot # NoSlot => lock_hash[t][l].rec_count >= 1

Shape(t) == IF ArrayMode(t) THEN ArrayShape(t) ELSE HashShape(t)

(* The table of thread s is not touched.                                   *)
SameTable(s) ==
    /\ lock_count'[s] = lock_count[s]
    /\ lock_table'[s] = lock_table[s]
    /\ lock_hash'[s] = lock_hash[s]
    /\ freelist_initialized'[s] = freelist_initialized[s]

(* What a table operation of t on l may do to the rest.                    *)
OthersUntouched(t, l) ==
    /\ \A s \in Threads \ {t} : SameTable(s)
    /\ \A m \in Locks \ {l} :
           (Recorded(t, m)' <=> Recorded(t, m)) /\ RefCount(t, m)' = RefCount(t, m)

-----------------------------------------------------------------------------
(***************************************************************************)
(* lookup in an array of the right shape: a lock is in one cell only, and  *)
(* that cell is the one found (the loop of lookup).                        *)
(***************************************************************************)
LEMMA CellFound ==
    \A t \in Threads, l \in Locks, i \in Int :
        ArrayMode(t) /\ ArrayShape(t) /\ i \in Used(t) /\ lock_table[t][i].lock_ptr = l
            => /\ Recorded(t, l)
               /\ IndexOf(t, l) = i
               /\ RefCount(t, l) = lock_table[t][i].rec_count
PROOF
<1> SUFFICES ASSUME NEW t \in Threads, NEW l \in Locks, NEW i \in Int,
                    ArrayMode(t), ArrayShape(t), i \in Used(t),
                    lock_table[t][i].lock_ptr = l
             PROVE  /\ Recorded(t, l)
                    /\ IndexOf(t, l) = i
                    /\ RefCount(t, l) = lock_table[t][i].rec_count
    OBVIOUS
<1>1. \A j \in Used(t) : lock_table[t][j].lock_ptr = l => j = i
    BY DEF ArrayShape
<1>2. i <= i
    OBVIOUS
<1>3. IndexOf(t, l) = i
    BY <1>1, <1>2 DEF IndexOf
<1>4. InArray(t, l)
    BY DEF InArray
<1> QED
    BY <1>3, <1>4 DEF Recorded, RefCount

(***************************************************************************)
(* A lock that lookup does not find counts nothing; one that it finds      *)
(* counts something (lookup's NULL).                                       *)
(***************************************************************************)
LEMMA CountWhenRecorded ==
    \A t \in Threads, l \in Locks :
        TableTypeOK /\ Shape(t) =>
            /\ RefCount(t, l) \in Nat
            /\ Recorded(t, l) <=> RefCount(t, l) > 0
PROOF
<1> SUFFICES ASSUME NEW t \in Threads, NEW l \in Locks, TableTypeOK, Shape(t)
             PROVE  /\ RefCount(t, l) \in Nat
                    /\ Recorded(t, l) <=> RefCount(t, l) > 0
    OBVIOUS
<1>1. CASE ArrayMode(t) /\ InArray(t, l)
    <2>1. PICK i \in Used(t) : lock_table[t][i].lock_ptr = l
        BY <1>1 DEF InArray
    <2>2. i \in Indices /\ i \in Int
        BY <1>1, TableAssumption DEF Shape, ArrayShape, Used, Indices, TableTypeOK
    <2>3. lock_table[t][i].rec_count \in Nat /\ lock_table[t][i].rec_count >= 1
        BY <1>1, <2>2 DEF Shape, ArrayShape, TableTypeOK, Cells
    <2> QED
        BY <1>1, <2>1, <2>2, <2>3, CellFound DEF Shape, Recorded
<1>2. CASE ArrayMode(t) /\ ~InArray(t, l)
    BY <1>2 DEF Recorded, RefCount
<1>3. CASE ~ArrayMode(t)
    <2>1. lock_hash[t][l].rec_count \in Nat
        BY DEF TableTypeOK, Entries
    <2> QED
        BY <1>3, <2>1 DEF Shape, HashShape, Recorded, RefCount, Hashed
<1> QED
    BY <1>1, <1>2, <1>3

(***************************************************************************)
(* A thread whose table is not touched finds in it what it found.          *)
(***************************************************************************)
LEMMA UntouchedTable ==
    ASSUME NEW s \in Threads, SameTable(s)
    PROVE  /\ Shape(s)' <=> Shape(s)
           /\ \A m \in Locks :
                  (Recorded(s, m)' <=> Recorded(s, m)) /\ RefCount(s, m)' = RefCount(s, m)
PROOF
<1> USE DEF SameTable
<1>1. (ArrayMode(s)' <=> ArrayMode(s)) /\ Used(s)' = Used(s)
    BY DEF ArrayMode, Used
<1>2. Shape(s)' <=> Shape(s)
    BY <1>1 DEF Shape, ArrayShape, HashShape
<1>3. ASSUME NEW m \in Locks
      PROVE  /\ InArray(s, m)' <=> InArray(s, m)
             /\ IndexOf(s, m)' = IndexOf(s, m)
    BY <1>1 DEF InArray, IndexOf
<1>4. ASSUME NEW m \in Locks
      PROVE  (Recorded(s, m)' <=> Recorded(s, m)) /\ RefCount(s, m)' = RefCount(s, m)
    BY <1>1, <1>3 DEF Recorded, RefCount, Hashed
<1> QED
    BY <1>2, <1>4

-----------------------------------------------------------------------------
(***************************************************************************)
(* rec_count++ and rec_count-- of the entry that lookup returned, in       *)
(* either mode.                                                            *)
(***************************************************************************)
LEMMA AdjustEffect ==
    ASSUME NEW t \in Threads, NEW l \in Locks, NEW change \in {1, -1},
           TableTypeOK, Shape(t),
           Recorded(t, l), RefCount(t, l) + change > 0, Adjust(t, l, change)
    PROVE  /\ TableTypeOK' /\ Shape(t)'
           /\ RefCount(t, l)' = RefCount(t, l) + change
           /\ OthersUntouched(t, l)
PROOF
<1>1. /\ lock_count' = lock_count /\ freelist' = freelist
      /\ freelist_initialized' = freelist_initialized /\ heap' = heap
    BY DEF Adjust
<1>2. (ArrayMode(t)' <=> ArrayMode(t)) /\ Used(t)' = Used(t)
    BY <1>1 DEF ArrayMode, Used
<1>3. CASE ArrayMode(t)
    <2>1. PICK i \in Used(t) : lock_table[t][i].lock_ptr = l
        BY <1>3 DEF Recorded, InArray
    <2>2. i \in Indices /\ i \in Int /\ Used(t) \subseteq Indices /\ Used(t) \subseteq Int
        BY <1>3, TableAssumption DEF Shape, ArrayShape, Used, Indices, TableTypeOK
    <2>3. IndexOf(t, l) = i /\ RefCount(t, l) = lock_table[t][i].rec_count
        BY <1>3, <2>1, <2>2, CellFound DEF Shape
    <2>4. /\ lock_table' = [lock_table EXCEPT ![t][i].rec_count = @ + change]
          /\ lock_hash' = lock_hash
        BY <1>3, <2>3 DEF Adjust
    <2>5. lock_table[t][i] \in Cells /\ lock_table[t][i].rec_count + change \in Nat
        BY <2>2, <2>3 DEF TableTypeOK, Cells
    <2>6. /\ lock_table'[t][i] = [lock_ptr |-> l, rec_count |-> lock_table[t][i].rec_count + change]
          /\ \A j \in Indices \ {i} : lock_table'[t][j] = lock_table[t][j]
          /\ \A s \in Threads \ {t} : lock_table'[s] = lock_table[s]
        BY <2>1, <2>2, <2>4, <2>5 DEF TableTypeOK, Cells
    <2>7. TableTypeOK'
        BY <1>1, <2>2, <2>4, <2>5 DEF TableTypeOK, Cells
    <2>8. ArrayShape(t)'
        <3>1. lock_count'[t] < MAX_LOCKS /\ ~freelist_initialized'[t]
            BY <1>1, <1>3 DEF Shape, ArrayShape
        <3>2. \A j \in Indices : lock_table'[t][j].lock_ptr = lock_table[t][j].lock_ptr
            BY <2>1, <2>6
        <3>3. lock_table'[t][i].rec_count >= 1
            BY <2>3, <2>5, <2>6
        <3>4. \A j \in Used(t) : lock_table'[t][j].rec_count >= 1
            BY <1>3, <2>2, <2>6, <3>3 DEF Shape, ArrayShape
        <3> QED
            BY <1>2, <1>3, <2>2, <2>4, <3>1, <3>2, <3>4 DEF Shape, ArrayShape
    <2>9. Shape(t)'
        BY <1>2, <1>3, <2>8 DEF Shape
    <2>10. ASSUME NEW m \in Locks, NEW j \in Used(t), lock_table[t][j].lock_ptr = m
           PROVE  /\ Recorded(t, m) /\ Recorded(t, m)'
                  /\ RefCount(t, m) = lock_table[t][j].rec_count
                  /\ RefCount(t, m)' = lock_table'[t][j].rec_count
        <3>1. CellFound'
            BY CellFound, PTL
        <3>2. j \in Used(t)' /\ lock_table'[t][j].lock_ptr = m
            BY <1>2, <2>1, <2>2, <2>6, <2>10
        <3>3. Recorded(t, m)' /\ RefCount(t, m)' = lock_table'[t][j].rec_count
            BY <1>2, <1>3, <2>2, <2>8, <2>10, <3>1, <3>2
        <3> QED
            BY <1>3, <2>2, <2>10, <3>3, CellFound DEF Shape
    <2>11. RefCount(t, l)' = RefCount(t, l) + change
        BY <2>1, <2>6, <2>10
    <2>12. ASSUME NEW m \in Locks \ {l}
           PROVE  (Recorded(t, m)' <=> Recorded(t, m)) /\ RefCount(t, m)' = RefCount(t, m)
        <3>1. CASE InArray(t, m)
            BY <2>1, <2>2, <2>6, <2>10, <3>1 DEF InArray
        <3>2. CASE ~InArray(t, m)
            <4>1. ~InArray(t, m)'
                BY <1>2, <2>1, <2>2, <2>6, <3>2 DEF InArray
            <4> QED
                BY <1>2, <1>3, <3>2, <4>1 DEF Recorded, RefCount
        <3> QED
            BY <3>1, <3>2
    <2> QED
        BY <1>1, <2>4, <2>6, <2>7, <2>9, <2>11, <2>12 DEF OthersUntouched, SameTable
<1>4. CASE ~ArrayMode(t)
    <2>1. /\ lock_hash' = [lock_hash EXCEPT ![t][l].rec_count = @ + change]
          /\ lock_table' = lock_table
        BY <1>4 DEF Adjust
    <2>2. lock_hash[t][l] \in Entries /\ lock_hash[t][l].slot # NoSlot
        BY <1>4 DEF TableTypeOK, Recorded, Hashed
    <2>3. RefCount(t, l) = lock_hash[t][l].rec_count
        BY <1>4 DEF RefCount
    <2>4. lock_hash[t][l].rec_count + change \in Nat
        BY <2>2, <2>3 DEF Entries
    <2>5. /\ lock_hash'[t][l].rec_count = lock_hash[t][l].rec_count + change
          /\ lock_hash'[t][l].slot = lock_hash[t][l].slot
          /\ \A m \in Locks \ {l} : lock_hash'[t][m] = lock_hash[t][m]
          /\ \A s \in Threads \ {t} : lock_hash'[s] = lock_hash[s]
        BY <2>1, <2>2 DEF TableTypeOK, Entries
    <2>6. TableTypeOK'
        BY <1>1, <2>1, <2>2, <2>4 DEF TableTypeOK, Entries
    <2>7. Shape(t)'
        <3>1. lock_hash'[t][l].rec_count >= 1
            BY <2>2, <2>3, <2>4, <2>5 DEF Entries
        <3> QED
            BY <1>1, <1>2, <1>4, <2>2, <2>5, <3>1 DEF Shape, HashShape
    <2> QED
        BY <1>1, <1>2, <1>4, <2>1, <2>2, <2>3, <2>5, <2>6, <2>7
           DEF OthersUntouched, SameTable, Recorded, RefCount, Hashed
<1> QED
    BY <1>3, <1>4

(***************************************************************************)
(* A new entry at lock_count (IncrementRef while the array has room).      *)
(***************************************************************************)
LEMMA AppendEffect ==
    ASSUME NEW t \in Threads, NEW l \in Locks,
           TableTypeOK, Shape(t), ~Recorded(t, l), ArrayMode(t), AppendToArray(t, l)
    PROVE  /\ TableTypeOK' /\ Shape(t)'
           /\ Recorded(t, l)' /\ RefCount(t, l)' = 1
           /\ OthersUntouched(t, l)
PROOF
<1> DEFINE n == lock_count[t]
<1>1. /\ n \in Indices /\ n \in Int /\ n + 1 < MAX_LOCKS
      /\ Used(t) \subseteq Indices /\ Used(t) \subseteq Int /\ n \notin Used(t)
    BY TableAssumption DEF Shape, ArrayShape, Used, Indices, TableTypeOK, AppendToArray
<1>2. /\ lock_count' = [lock_count EXCEPT ![t] = n + 1]
      /\ lock_table' = [lock_table EXCEPT ![t] = NextCell(t, l)]
      /\ lock_hash' = lock_hash /\ freelist' = freelist
      /\ freelist_initialized' = freelist_initialized /\ heap' = heap
    BY DEF AppendToArray
<1>3. lock_count'[t] = n + 1 /\ ArrayMode(t)'
    BY <1>1, <1>2, TableAssumption DEF TableTypeOK, ArrayMode
<1>4. Used(t)' = Used(t) \cup {n}
    BY <1>1, <1>3 DEF Used, TableTypeOK
<1>5. /\ lock_table'[t][n] = [lock_ptr |-> l, rec_count |-> 1]
      /\ \A j \in Used(t) : lock_table'[t][j] = lock_table[t][j]
      /\ \A s \in Threads \ {t} : lock_table'[s] = lock_table[s] /\ lock_count'[s] = lock_count[s]
    BY <1>1, <1>2 DEF TableTypeOK, NextCell
<1>6. TableTypeOK'
    <2>1. NextCell(t, l) \in [Indices -> Cells]
        BY <1>1 DEF TableTypeOK, NextCell, Cells
    <2> QED
        BY <1>1, <1>2, <2>1, TableAssumption DEF TableTypeOK
<1>7. \A j \in Used(t) : lock_table[t][j].lock_ptr # l
    BY DEF Recorded, InArray
<1>8. ArrayShape(t)'
    <2>1. lock_count'[t] < MAX_LOCKS /\ ~freelist_initialized'[t]
        BY <1>1, <1>2, <1>3 DEF Shape, ArrayShape
    <2>2. \A j \in Used(t)' :
              lock_table'[t][j].lock_ptr \in Locks /\ lock_table'[t][j].rec_count >= 1
        BY <1>4, <1>5 DEF Shape, ArrayShape
    <2>3. \A i, j \in Used(t)' :
              lock_table'[t][i].lock_ptr = lock_table'[t][j].lock_ptr => i = j
        BY <1>4, <1>5, <1>7 DEF Shape, ArrayShape
    <2> QED
        BY <1>2, <2>1, <2>2, <2>3 DEF Shape, ArrayShape
<1>9. CellFound'
    BY CellFound, PTL
<1>10. Recorded(t, l)' /\ RefCount(t, l)' = 1
    BY <1>1, <1>3, <1>4, <1>5, <1>8, <1>9
<1>11. ASSUME NEW m \in Locks \ {l}
       PROVE  (Recorded(t, m)' <=> Recorded(t, m)) /\ RefCount(t, m)' = RefCount(t, m)
    <2>1. CASE InArray(t, m)
        <3>1. PICK j \in Used(t) : lock_table[t][j].lock_ptr = m
            BY <2>1 DEF InArray
        <3>2. Recorded(t, m) /\ RefCount(t, m) = lock_table[t][j].rec_count
            BY <1>1, <3>1, CellFound DEF Shape
        <3>3. Recorded(t, m)' /\ RefCount(t, m)' = lock_table'[t][j].rec_count
            BY <1>1, <1>3, <1>4, <1>5, <1>8, <1>9, <3>1
        <3> QED
            BY <1>5, <3>2, <3>3
    <2>2. CASE ~InArray(t, m)
        <3>1. ~InArray(t, m)'
            BY <1>4, <1>5, <2>2 DEF InArray
        <3> QED
            BY <1>3, <2>2, <3>1 DEF Recorded, RefCount
    <2> QED
        BY <2>1, <2>2
<1> QED
    BY <1>2, <1>3, <1>5, <1>6, <1>8, <1>10, <1>11 DEF Shape, OthersUntouched, SameTable

(***************************************************************************)
(* The last cell is filled and every entry moves to the hash table: no     *)
(* lock is forgotten and no count changes (the migration in IncrementRef). *)
(***************************************************************************)
LEMMA MigrateEffect ==
    ASSUME NEW t \in Threads, NEW l \in Locks,
           TableTypeOK, Shape(t), ~Recorded(t, l), ArrayMode(t), MigrateToHash(t, l)
    PROVE  /\ TableTypeOK' /\ Shape(t)'
           /\ Recorded(t, l)' /\ RefCount(t, l)' = 1
           /\ OthersUntouched(t, l)
PROOF
<1> DEFINE n == lock_count[t]
           cells == NextCell(t, l)
           hash == MigratedHash(t, cells)
<1>1. /\ n = MAX_LOCKS - 1 /\ n \in Indices /\ n \in Int
      /\ Indices = Used(t) \cup {n} /\ n \notin Used(t) /\ Indices \subseteq Int
    BY TableAssumption DEF Used, Indices, TableTypeOK, MigrateToHash
<1>2. /\ lock_count' = [lock_count EXCEPT ![t] = MAX_LOCKS + 1]
      /\ lock_table' = [lock_table EXCEPT ![t] = cells]
      /\ lock_hash' = [lock_hash EXCEPT ![t] = hash]
      /\ freelist' = [freelist EXCEPT ![t] =
             SubSeq(FreelistReady(t), MAX_LOCKS + 1, Len(FreelistReady(t)))]
      /\ freelist_initialized' = [freelist_initialized EXCEPT ![t] = TRUE]
      /\ heap' = heap
    BY DEF MigrateToHash
<1>3. /\ cells[n] = [lock_ptr |-> l, rec_count |-> 1]
      /\ \A j \in Used(t) : cells[j] = lock_table[t][j]
      /\ cells \in [Indices -> Cells]
    BY <1>1 DEF TableTypeOK, NextCell, Cells
<1>4. FreelistReady(t) = PoolInOrder
    BY DEF FreelistReady, Shape, ArrayShape
<1>5. /\ PoolInOrder \in Seq(PoolSlots) /\ Len(PoolInOrder) = MAX_HASH_ENTRIES
      /\ \A i \in Indices : PoolInOrder[i + 1] \in PoolSlots
    <2>1. \A i \in 1 .. MAX_HASH_ENTRIES : PoolInOrder[i] \in PoolSlots
        BY TableAssumption DEF PoolInOrder, PoolSlots
    <2>2. \A i \in Indices : i + 1 \in 1 .. MAX_HASH_ENTRIES
        BY TableAssumption DEF Indices
    <2> QED
        BY <2>1, <2>2, TableAssumption DEF PoolInOrder
<1>6. \A i, j \in Indices : cells[i].lock_ptr = cells[j].lock_ptr => i = j
    <2>1. \A j \in Used(t) : cells[j].lock_ptr # l
        BY <1>3 DEF Recorded, InArray
    <2> QED
        BY <1>1, <1>3, <2>1 DEF Shape, ArrayShape
<1>7. ASSUME NEW i \in Indices
      PROVE  /\ cells[i].lock_ptr \in Locks /\ cells[i].rec_count \in Nat
             /\ cells[i].rec_count >= 1
    BY <1>1, <1>3 DEF Shape, ArrayShape, Cells
<1>8. ASSUME NEW i \in Indices
      PROVE  /\ hash[cells[i].lock_ptr].rec_count = cells[i].rec_count
             /\ hash[cells[i].lock_ptr].slot \in PoolSlots
    <2> DEFINE m == cells[i].lock_ptr
               k == CHOOSE j \in Indices : cells[j].lock_ptr = m
    <2>1. m \in Locks
        BY <1>7
    <2>2. k = i
        BY <1>6
    <2>3. hash[m] = [rec_count |-> cells[k].rec_count, slot |-> FreelistReady(t)[k + 1]]
        BY <2>1 DEF MigratedHash
    <2>4. PoolInOrder[i + 1] \in PoolSlots
        BY <1>5
    <2> HIDE DEF m, k
    <2>5. hash[m] = [rec_count |-> cells[i].rec_count, slot |-> PoolInOrder[i + 1]]
        BY <1>4, <2>2, <2>3
    <2>6. hash[m].rec_count = cells[i].rec_count /\ hash[m].slot \in PoolSlots
        BY <2>4, <2>5
    <2> QED
        BY <2>6 DEF m
<1>9. ASSUME NEW m \in Locks, \A i \in Indices : cells[i].lock_ptr # m
      PROVE  hash[m] = NoEntry
    BY <1>9 DEF MigratedHash, Shape, ArrayShape
<1>10. ASSUME NEW m \in Locks PROVE hash[m] \in Entries
    <2>1. CASE \E i \in Indices : cells[i].lock_ptr = m
        <3> DEFINE k == CHOOSE j \in Indices : cells[j].lock_ptr = m
        <3>1. k \in Indices
            BY <2>1
        <3>2. hash[m] = [rec_count |-> cells[k].rec_count, slot |-> FreelistReady(t)[k + 1]]
            BY <2>1 DEF MigratedHash
        <3>3. cells[k].rec_count \in Nat /\ FreelistReady(t)[k + 1] \in PoolSlots
            BY <1>4, <1>5, <1>7, <3>1
        <3> QED
            BY <3>2, <3>3 DEF Entries
    <2>2. CASE \A i \in Indices : cells[i].lock_ptr # m
        BY <1>9, <2>2 DEF NoEntry, Entries
    <2> QED
        BY <2>1, <2>2
<1>11. TableTypeOK'
    <2>1. hash \in [Locks -> Entries]
        BY <1>10 DEF MigratedHash
    <2>2. SubSeq(FreelistReady(t), MAX_LOCKS + 1, Len(FreelistReady(t))) \in Seq(PoolSlots)
        BY <1>4, <1>5, TableAssumption
    <2> QED
        BY <1>2, <1>3, <2>1, <2>2, TableAssumption DEF TableTypeOK
<1>12. /\ ~ArrayMode(t)' /\ freelist_initialized'[t] /\ lock_hash'[t] = hash
       /\ \A s \in Threads \ {t} : SameTable(s)
    BY <1>2, TableAssumption DEF TableTypeOK, ArrayMode, SameTable
<1>13. \A i \in PoolSlots : i # NoSlot
    BY DEF PoolSlots, NoSlot
<1>14. Shape(t)'
    <2>1. ASSUME NEW m \in Locks
          PROVE  /\ hash[m].slot = NoSlot => hash[m].rec_count = 0
                 /\ hash[m].slot # NoSlot => hash[m].rec_count >= 1
        <3>1. CASE \E i \in Indices : cells[i].lock_ptr = m
            BY <1>7, <1>8, <1>13, <3>1
        <3>2. CASE \A i \in Indices : cells[i].lock_ptr # m
            BY <1>9, <3>2 DEF NoEntry
        <3> QED
            BY <3>1, <3>2
    <2> QED
        BY <1>12, <2>1 DEF Shape, HashShape
<1>15. ASSUME NEW m \in Locks
       PROVE  /\ Recorded(t, m)' <=> hash[m].slot # NoSlot
              /\ RefCount(t, m)' = hash[m].rec_count
    BY <1>12 DEF Recorded, RefCount, Hashed
<1>16. Recorded(t, l)' /\ RefCount(t, l)' = 1
    BY <1>1, <1>3, <1>8, <1>13, <1>15
<1>17. ASSUME NEW m \in Locks \ {l}
       PROVE  (Recorded(t, m)' <=> Recorded(t, m)) /\ RefCount(t, m)' = RefCount(t, m)
    <2>1. CASE InArray(t, m)
        <3>1. PICK j \in Used(t) : lock_table[t][j].lock_ptr = m
            BY <2>1 DEF InArray
        <3>2. Recorded(t, m) /\ RefCount(t, m) = lock_table[t][j].rec_count
            BY <1>1, <3>1, CellFound DEF Shape
        <3> QED
            BY <1>1, <1>3, <1>8, <1>13, <1>15, <3>1, <3>2
    <2>2. CASE ~InArray(t, m)
        <3>1. \A i \in Indices : cells[i].lock_ptr # m
            BY <1>1, <1>3, <2>2 DEF InArray
        <3> QED
            BY <1>9, <1>15, <2>2, <3>1 DEF NoEntry, Recorded, RefCount
    <2> QED
        BY <2>1, <2>2
<1> QED
    BY <1>11, <1>12, <1>14, <1>16, <1>17 DEF OthersUntouched

(***************************************************************************)
(* An entry from the pool or the heap (IncrementRef in hash mode).         *)
(***************************************************************************)
LEMMA AddEffect ==
    ASSUME NEW t \in Threads, NEW l \in Locks,
           TableTypeOK, Shape(t), ~Recorded(t, l), ~ArrayMode(t), AddToHash(t, l)
    PROVE  /\ TableTypeOK' /\ Shape(t)'
           /\ Recorded(t, l)' /\ RefCount(t, l)' = 1
           /\ OthersUntouched(t, l)
PROOF
<1>1. /\ lock_count' = lock_count /\ lock_table' = lock_table
      /\ freelist_initialized' = [freelist_initialized EXCEPT ![t] = TRUE]
      /\ freelist_initialized[t]
    BY DEF AddToHash, Shape, HashShape
<1>2. FreelistReady(t) = freelist[t] /\ freelist[t] \in Seq(PoolSlots)
    BY <1>1 DEF FreelistReady, TableTypeOK
<1>3. PICK place \in PoolSlots \cup {Heap} :
          lock_hash' = [lock_hash EXCEPT ![t][l] = [rec_count |-> 1, slot |-> place]]
    <2>1. CASE freelist[t] # << >>
        BY <1>2, <2>1 DEF AddToHash
    <2>2. CASE freelist[t] = << >>
        BY <1>2, <2>2 DEF AddToHash
    <2> QED
        BY <2>1, <2>2
<1>4. freelist' \in [Threads -> Seq(PoolSlots)]
    <2>1. CASE freelist[t] # << >>
        <3>1. Tail(freelist[t]) \in Seq(PoolSlots)
            BY <1>2, <2>1
        <3>2. freelist' = [freelist EXCEPT ![t] = Tail(freelist[t])]
            BY <1>2, <2>1 DEF AddToHash
        <3> QED
            BY <3>1, <3>2 DEF TableTypeOK
    <2>2. CASE freelist[t] = << >>
        <3>1. freelist' = [freelist EXCEPT ![t] = << >>]
            BY <1>2, <2>2 DEF AddToHash
        <3>2. << >> \in Seq(PoolSlots)
            OBVIOUS
        <3> QED
            BY <3>1, <3>2 DEF TableTypeOK
    <2> QED
        BY <2>1, <2>2
<1>11. heap' \in [Threads -> SUBSET Locks]
    <2>1. CASE freelist[t] # << >>
        BY <1>2, <2>1 DEF AddToHash, TableTypeOK
    <2>2. CASE freelist[t] = << >>
        <3>1. heap' = [heap EXCEPT ![t] = heap[t] \cup {l}]
            BY <1>2, <2>2 DEF AddToHash
        <3>2. heap[t] \cup {l} \in SUBSET Locks
            BY DEF TableTypeOK
        <3> QED
            BY <3>1, <3>2 DEF TableTypeOK
    <2> QED
        BY <2>1, <2>2
<1>5. place # NoSlot
    BY TableAssumption DEF PoolSlots, Heap, NoSlot
<1>6. /\ lock_hash'[t][l] = [rec_count |-> 1, slot |-> place]
      /\ \A m \in Locks \ {l} : lock_hash'[t][m] = lock_hash[t][m]
      /\ \A s \in Threads \ {t} : lock_hash'[s] = lock_hash[s]
    BY <1>3 DEF TableTypeOK
<1>7. TableTypeOK'
    <2>1. [rec_count |-> 1, slot |-> place] \in Entries
        BY DEF Entries
    <2> QED
        BY <1>1, <1>3, <1>4, <1>11, <2>1 DEF TableTypeOK
<1>8. ~ArrayMode(t)'
    BY <1>1 DEF ArrayMode
<1>9. freelist_initialized'[t] /\ \A s \in Threads \ {t} : SameTable(s)
    BY <1>1, <1>6 DEF TableTypeOK, SameTable
<1>10. Shape(t)'
    BY <1>5, <1>6, <1>8, <1>9 DEF Shape, HashShape
<1> QED
    BY <1>5, <1>6, <1>7, <1>8, <1>9, <1>10
       DEF OthersUntouched, Recorded, RefCount, Hashed

(***************************************************************************)
(* The hole left by a removed cell is filled with the last one, and no     *)
(* other lock is lost (DecrementRef in array mode).                        *)
(***************************************************************************)
LEMMA RemoveFromArrayEffect ==
    ASSUME NEW t \in Threads, NEW l \in Locks,
           TableTypeOK, Shape(t), Recorded(t, l), RemoveFromArray(t, l)
    PROVE  /\ TableTypeOK' /\ Shape(t)' /\ ~Recorded(t, l)'
           /\ OthersUntouched(t, l)
PROOF
<1> DEFINE n == lock_count[t]
           last == n - 1
<1>1. ArrayMode(t) /\ ArrayShape(t)
    BY DEF RemoveFromArray, Shape
<1>2. PICK i \in Used(t) : lock_table[t][i].lock_ptr = l
    BY <1>1 DEF Recorded, InArray
<1>3. /\ n \in Nat /\ n > 0 /\ n < MAX_LOCKS
      /\ Used(t) = 0 .. last /\ Used(t) \subseteq Indices /\ Used(t) \subseteq Int
      /\ last \in Used(t) /\ i \in Int
    BY <1>1, <1>2, TableAssumption DEF ArrayShape, Used, Indices, TableTypeOK
<1>4. IndexOf(t, l) = i
    BY <1>1, <1>2, <1>3, CellFound
<1>5. /\ lock_table' = [lock_table EXCEPT ![t][i] = lock_table[t][last]]
      /\ lock_count' = [lock_count EXCEPT ![t] = last]
      /\ lock_hash' = lock_hash /\ freelist' = freelist
      /\ freelist_initialized' = freelist_initialized /\ heap' = heap
    BY <1>4 DEF RemoveFromArray
<1>6. /\ lock_count'[t] = last /\ Used(t)' = Used(t) \ {last} /\ ArrayMode(t)'
    BY <1>3, <1>5, TableAssumption DEF TableTypeOK, Used, ArrayMode
<1>7. /\ lock_table'[t][i] = lock_table[t][last]
      /\ \A j \in Indices \ {i} : lock_table'[t][j] = lock_table[t][j]
      /\ \A s \in Threads \ {t} : SameTable(s)
    BY <1>2, <1>3, <1>5 DEF TableTypeOK, SameTable
<1>8. TableTypeOK'
    <2>1. lock_table[t][last] \in Cells /\ i \in Indices
        BY <1>2, <1>3 DEF TableTypeOK
    <2>2. last \in 0 .. (MAX_LOCKS + 1)
        BY <1>3, TableAssumption
    <2> HIDE DEF last
    <2> QED
        BY <1>5, <2>1, <2>2 DEF TableTypeOK
<1>9. \A j \in Used(t) : lock_table[t][j].lock_ptr = l => j = i
    BY <1>1, <1>2 DEF ArrayShape
(* Where the cell that is now in j came from.                              *)
<1>10. ASSUME NEW j \in Used(t)'
       PROVE  \E k \in Used(t) \ {i} :
                  /\ lock_table'[t][j] = lock_table[t][k]
                  /\ k = IF j = i THEN last ELSE j
    BY <1>2, <1>3, <1>6, <1>7
<1>11. ArrayShape(t)'
    <2>1. lock_count'[t] < MAX_LOCKS /\ ~freelist_initialized'[t]
        BY <1>1, <1>3, <1>5, <1>6, TableAssumption DEF ArrayShape
    <2>2. \A j \in Used(t)' :
              lock_table'[t][j].lock_ptr \in Locks /\ lock_table'[t][j].rec_count >= 1
        BY <1>1, <1>10 DEF ArrayShape
    <2>3. \A j, k \in Used(t)' :
              lock_table'[t][j].lock_ptr = lock_table'[t][k].lock_ptr => j = k
        <3> SUFFICES ASSUME NEW j \in Used(t)', NEW k \in Used(t)',
                            lock_table'[t][j].lock_ptr = lock_table'[t][k].lock_ptr
                     PROVE  j = k
            OBVIOUS
        <3>1. PICK p \in Used(t) : /\ lock_table'[t][j] = lock_table[t][p]
                                   /\ p = IF j = i THEN last ELSE j
            BY <1>10
        <3>2. PICK q \in Used(t) : /\ lock_table'[t][k] = lock_table[t][q]
                                   /\ q = IF k = i THEN last ELSE k
            BY <1>10
        <3>3. p = q
            BY <1>1, <3>1, <3>2 DEF ArrayShape
        <3>4. j # last /\ k # last
            BY <1>6
        <3> QED
            BY <3>1, <3>2, <3>3, <3>4
    <2> QED
        BY <1>1, <1>5, <2>1, <2>2, <2>3 DEF ArrayShape
<1>12. ~Recorded(t, l)'
    BY <1>6, <1>9, <1>10 DEF Recorded, InArray
<1>13. CellFound'
    BY CellFound, PTL
<1>14. ASSUME NEW m \in Locks \ {l}
       PROVE  (Recorded(t, m)' <=> Recorded(t, m)) /\ RefCount(t, m)' = RefCount(t, m)
    <2>1. CASE InArray(t, m)
        <3>1. PICK k \in Used(t) : lock_table[t][k].lock_ptr = m
            BY <2>1 DEF InArray
        <3>2. Recorded(t, m) /\ RefCount(t, m) = lock_table[t][k].rec_count
            BY <1>1, <1>3, <3>1, CellFound
        <3>3. k # i
            BY <1>2, <3>1
        <3>4. PICK j \in Used(t)' : lock_table'[t][j] = lock_table[t][k]
            <4>1. CASE k = last
                BY <1>2, <1>3, <1>6, <1>7, <3>3, <4>1
            <4>2. CASE k # last
                BY <1>3, <1>6, <1>7, <3>3, <4>2
            <4> QED
                BY <4>1, <4>2
        <3>5. Recorded(t, m)' /\ RefCount(t, m)' = lock_table'[t][j].rec_count
            BY <1>3, <1>6, <1>11, <1>13, <3>1, <3>4
        <3> QED
            BY <3>2, <3>4, <3>5
    <2>2. CASE ~InArray(t, m)
        <3>1. ~InArray(t, m)'
            BY <1>10, <2>2 DEF InArray
        <3> QED
            BY <1>1, <1>6, <2>2, <3>1 DEF Recorded, RefCount
    <2> QED
        BY <2>1, <2>2
<1> QED
    BY <1>6, <1>7, <1>8, <1>11, <1>12, <1>14 DEF Shape, OthersUntouched

(***************************************************************************)
(* An entry leaves the hash table for the pool or the heap (DecrementRef   *)
(* in hash mode).                                                          *)
(***************************************************************************)
LEMMA RemoveFromHashEffect ==
    ASSUME NEW t \in Threads, NEW l \in Locks,
           TableTypeOK, Shape(t), Recorded(t, l), RemoveFromHash(t, l)
    PROVE  /\ TableTypeOK' /\ Shape(t)' /\ ~Recorded(t, l)'
           /\ OthersUntouched(t, l)
PROOF
<1>1. /\ ~ArrayMode(t) /\ lock_count' = lock_count /\ lock_table' = lock_table
      /\ freelist_initialized' = freelist_initialized
      /\ lock_hash' = [lock_hash EXCEPT ![t][l] = NoEntry]
    BY DEF RemoveFromHash
<1>2. ~ArrayMode(t)'
    BY <1>1 DEF ArrayMode
<1>3. /\ lock_hash'[t][l] = NoEntry
      /\ \A m \in Locks \ {l} : lock_hash'[t][m] = lock_hash[t][m]
      /\ \A s \in Threads \ {t} : SameTable(s)
    BY <1>1 DEF TableTypeOK, SameTable
<1>4. TableTypeOK'
    <2>1. NoEntry \in Entries
        BY DEF NoEntry, Entries
    <2>2. lock_hash[t][l].slot \in PoolSlots \cup {Heap}
        BY <1>1 DEF TableTypeOK, Entries, Recorded, Hashed
    <2>3. freelist' \in [Threads -> Seq(PoolSlots)]
        <3>1. freelist[t] \in Seq(PoolSlots)
            BY DEF TableTypeOK
        <3>2. CASE lock_hash[t][l].slot = Heap
            BY <3>1, <3>2 DEF RemoveFromHash, TableTypeOK
        <3>3. CASE lock_hash[t][l].slot # Heap
            <4> DEFINE pushed == << lock_hash[t][l].slot >> \o freelist[t]
            <4>1. pushed \in Seq(PoolSlots)
                BY <2>2, <3>1, <3>3
            <4>2. freelist' = [freelist EXCEPT ![t] = pushed]
                BY <3>3 DEF RemoveFromHash
            <4> HIDE DEF pushed
            <4> QED
                BY <4>1, <4>2 DEF TableTypeOK
        <3> QED
            BY <3>2, <3>3
    <2>4. heap' \in [Threads -> SUBSET Locks]
        <3>1. CASE lock_hash[t][l].slot = Heap
            BY <3>1 DEF RemoveFromHash, TableTypeOK
        <3>2. CASE lock_hash[t][l].slot # Heap
            BY <3>2 DEF RemoveFromHash, TableTypeOK
        <3> QED
            BY <3>1, <3>2
    <2> QED
        BY <1>1, <2>1, <2>3, <2>4 DEF TableTypeOK
<1>5. Shape(t)'
    BY <1>1, <1>2, <1>3 DEF Shape, HashShape, NoEntry
<1> QED
    BY <1>1, <1>2, <1>3, <1>4, <1>5
       DEF OthersUntouched, Recorded, RefCount, Hashed, NoEntry

-----------------------------------------------------------------------------
(***************************************************************************)
(* IncrementRef adds one to the count of its lock alone; only a malloc     *)
(* that fails lets it leave a lock unrecorded.                             *)
(***************************************************************************)
LEMMA IncrementRefEffect ==
    ASSUME NEW t \in Threads, NEW l \in Locks,
           TableTypeOK, Shape(t), IncrementRef(t, l)
    PROVE  /\ TableTypeOK' /\ Shape(t)' /\ OthersUntouched(t, l)
           /\ \/ Recorded(t, l)' /\ RefCount(t, l)' = RefCount(t, l) + 1
              \/ MallocFails /\ ~Recorded(t, l) /\ ~Recorded(t, l)'
PROOF
<1>1. RefCount(t, l) \in Nat /\ (Recorded(t, l) <=> RefCount(t, l) > 0)
    BY CountWhenRecorded
<1>2. CASE Recorded(t, l) /\ Adjust(t, l, 1)
    <2>1. /\ TableTypeOK' /\ Shape(t)' /\ OthersUntouched(t, l)
          /\ RefCount(t, l)' = RefCount(t, l) + 1
        BY <1>1, <1>2, AdjustEffect
    <2>2. CountWhenRecorded'
        BY CountWhenRecorded, PTL
    <2>3. Recorded(t, l)'
        BY <1>1, <2>1, <2>2
    <2> QED
        BY <2>1, <2>3
<1>3. CASE ~Recorded(t, l) /\ AppendToArray(t, l)
    <2>1. ArrayMode(t)
        BY <1>3, TableAssumption DEF AppendToArray, ArrayMode, TableTypeOK
    <2> QED
        BY <1>1, <1>3, <2>1, AppendEffect
<1>4. CASE ~Recorded(t, l) /\ MigrateToHash(t, l)
    <2>1. ArrayMode(t)
        BY <1>4, TableAssumption DEF MigrateToHash, ArrayMode, TableTypeOK
    <2> QED
        BY <1>1, <1>4, <2>1, MigrateEffect
<1>5. CASE ~Recorded(t, l) /\ AddToHash(t, l)
    <2>1. ~ArrayMode(t)
        BY <1>5, TableAssumption DEF AddToHash, Shape, ArrayShape, TableTypeOK
    <2> QED
        BY <1>1, <1>5, <2>1, AddEffect
<1>6. CASE ~Recorded(t, l) /\ LoseRecord(t, l)
    <2>1. MallocFails /\ \A s \in Threads : SameTable(s)
        BY <1>6 DEF LoseRecord, tableVars, SameTable
    <2>2. TableTypeOK'
        BY <1>6 DEF LoseRecord, tableVars, TableTypeOK
    <2> QED
        BY <1>6, <2>1, <2>2, UntouchedTable DEF OthersUntouched
<1> QED
    BY <1>2, <1>3, <1>4, <1>5, <1>6 DEF IncrementRef

(***************************************************************************)
(* DecrementRef takes one from the count of its lock alone, and removes    *)
(* the entry when that was the last hold.                                  *)
(***************************************************************************)
LEMMA DecrementRefEffect ==
    ASSUME NEW t \in Threads, NEW l \in Locks,
           TableTypeOK, Shape(t), Recorded(t, l), DecrementRef(t, l)
    PROVE  /\ TableTypeOK' /\ Shape(t)' /\ OthersUntouched(t, l)
           /\ RefCount(t, l)' = RefCount(t, l) - 1
           /\ Recorded(t, l)' <=> ~LastHold(t, l)
PROOF
<1>1. RefCount(t, l) \in Nat /\ RefCount(t, l) > 0
    BY CountWhenRecorded
<1>2. CountWhenRecorded'
    BY CountWhenRecorded, PTL
<1>3. CASE ~LastHold(t, l) /\ Adjust(t, l, -1)
    <2>1. RefCount(t, l) + (-1) > 0
        BY <1>1, <1>3 DEF LastHold
    <2>2. /\ TableTypeOK' /\ Shape(t)' /\ OthersUntouched(t, l)
          /\ RefCount(t, l)' = RefCount(t, l) - 1
        BY <1>1, <1>3, <2>1, AdjustEffect
    <2> QED
        BY <1>1, <1>2, <1>3, <2>1, <2>2
<1>4. CASE LastHold(t, l) /\ (RemoveFromArray(t, l) \/ RemoveFromHash(t, l))
    <2>1. /\ TableTypeOK' /\ Shape(t)' /\ OthersUntouched(t, l)
          /\ ~Recorded(t, l)'
        BY <1>4, RemoveFromArrayEffect, RemoveFromHashEffect
    <2>2. RefCount(t, l) = 1
        BY <1>1, <1>4 DEF LastHold
    <2>3. RefCount(t, l)' = 0
        BY <1>2, <2>1
    <2> QED
        BY <1>4, <2>1, <2>2, <2>3
<1> QED
    BY <1>3, <1>4 DEF DecrementRef

-----------------------------------------------------------------------------
(***************************************************************************)
(* The inductive invariant.  RefCountExact and MutualExclusion are not     *)
(* inductive: that a thread's count never reaches zero while it owns the   *)
(* flag, nor stays positive when it does not, depends on where its call    *)
(* is, and what lookup returns depends on the shape of the table.          *)
(***************************************************************************)

(* What the table of t says of l; a record is missing only where malloc    *)
(* may fail.                                                               *)
Agrees(t, l) ==
    /\ Recorded(t, l) => RefCount(t, l) = Expected(t, l)
    /\ ~MallocFails /\ Expected(t, l) > 0 => Recorded(t, l)

(* What t can rely on in the middle of a call on l.                        *)
CallInOrder(t, l) ==
    /\ pc[t] = "lock_fn" => ~Recorded(t, l)
    /\ pc[t] \in {"increment", "unlock_fn", "exited"} => depth[t][l] = 1
    /\ pc[t] = "unlock_first" => depth[t][l] = 1 /\ Recorded(t, l)
    /\ pc[t] = "decrement" => depth[t][l] = 0 /\ Recorded(t, l)

PanicInOrder(t) ==
    ~MallocFails /\ pc[t] \in {"idle", "aborted"} =>
        /\ status[t] = "LS_UNBALANCED_LOCK" => depth[t][arg[t]] > 0
        /\ status[t] = "LS_UNBALANCED_UNLOCK" => depth[t][arg[t]] = 0

ThreadInOrder(t) ==
    /\ Shape(t)
    /\ \A l \in Locks : Agrees(t, l)
    /\ \A l \in Locks : arg[t] = l => CallInOrder(t, l)
    /\ PanicInOrder(t)

IInv ==
    /\ TypeOK
    /\ OwnerHolds
    /\ \A t \in Threads : ThreadInOrder(t)

(***************************************************************************)
(* Another thread's call and table change nothing of what a thread relies  *)
(* on: the table is thread_local.                                          *)
(***************************************************************************)
LEMMA OtherThread ==
    ASSUME NEW t \in Threads, ClientFrame(t),
           NEW s \in Threads \ {t}, SameTable(s), ThreadInOrder(s)
    PROVE  ThreadInOrder(s)'
PROOF
<1>2. /\ Shape(s)'
      /\ \A m \in Locks :
             (Recorded(s, m)' <=> Recorded(s, m)) /\ RefCount(s, m)' = RefCount(s, m)
    BY UntouchedTable DEF ThreadInOrder
<1>3. depth'[s] = depth[s] /\ pc'[s] = pc[s] /\ arg'[s] = arg[s] /\ status'[s] = status[s]
    BY DEF ClientFrame
<1>4. \A m \in Locks : Expected(s, m)' = Expected(s, m)
    BY <1>3 DEF Expected
<1>5. \A m \in Locks : Agrees(s, m)'
    BY <1>2, <1>4 DEF Agrees, ThreadInOrder
<1>6. \A m \in Locks : arg'[s] = m => CallInOrder(s, m)'
    BY <1>2, <1>3 DEF CallInOrder, ThreadInOrder
<1>7. PanicInOrder(s)'
    BY <1>3 DEF PanicInOrder, ThreadInOrder
<1> QED
    BY <1>2, <1>5, <1>6, <1>7 DEF ThreadInOrder

(* Between calls, what lookup answers is the thread's depth; a lock is     *)
(* missing only where a record can have been lost.                         *)
LEMMA IdleTable ==
    ASSUME NEW t \in Threads, NEW l \in Locks, IInv, pc[t] = "idle"
    PROVE  /\ depth[t][l] \in Nat
           /\ RefCount(t, l) \in Nat /\ (Recorded(t, l) <=> RefCount(t, l) > 0)
           /\ Recorded(t, l) => RefCount(t, l) = depth[t][l] /\ depth[t][l] > 0
           /\ ~MallocFails /\ depth[t][l] > 0 => Recorded(t, l)
PROOF
<1>1. TableTypeOK /\ Shape(t) /\ Agrees(t, l) /\ depth[t][l] \in Nat
    BY DEF IInv, TypeOK, TableTypeOK, ThreadInOrder, ClientTypeOK
<1>2. Expected(t, l) = depth[t][l]
    BY ExpectedByPlace
<1>3. RefCount(t, l) \in Nat /\ (Recorded(t, l) <=> RefCount(t, l) > 0)
    BY <1>1, CountWhenRecorded
<1> QED
    BY <1>1, <1>2, <1>3 DEF Agrees

(* The thread_local tables start empty, in order.                          *)
THEOREM InitEstablishes == Init => IInv
PROOF
<1> SUFFICES ASSUME Init PROVE IInv
    OBVIOUS
<1>1. TypeOK
    <2> USE TableAssumption DEF Init, ClientInit
    <2>1. ClientTypeOK
        BY DEF ClientTypeOK, PCs, Statuses
    <2>2. NoEntry \in Entries /\ << >> \in Seq(PoolSlots)
        BY DEF NoEntry, Entries
    <2>3. lock_table \in [Threads -> [Indices -> Cells]]
        BY DEF Cells
    <2>4. lock_count \in [Threads -> 0 .. (MAX_LOCKS + 1)]
        OBVIOUS
    <2> QED
        BY <2>1, <2>2, <2>3, <2>4 DEF TypeOK
<1>2. OwnerHolds
    <2> SUFFICES ASSUME NEW l \in Locks, NEW t \in Threads
                 PROVE  owner[l] = t <=> depth[t][l] > 0
        BY DEF OwnerHolds
    <2>1. owner[l] = NoThread /\ depth[t][l] = 0
        BY DEF Init, ClientInit
    <2>2. t # NoThread
        BY ClientAssumption
    <2> QED
        BY <2>1, <2>2
<1>3. ASSUME NEW t \in Threads PROVE ThreadInOrder(t)
    <2> USE TableAssumption DEF Init, ClientInit
    <2>1. ArrayMode(t) /\ Used(t) = {}
        BY DEF ArrayMode, Used
    <2>2. Shape(t)
        BY <2>1 DEF Shape, ArrayShape
    <2>3. \A l \in Locks : ~Recorded(t, l) /\ Expected(t, l) = 0
        BY <2>1 DEF Recorded, InArray, Expected
    <2> QED
        BY <2>2, <2>3 DEF ThreadInOrder, Agrees, CallInOrder, PanicInOrder
<1> QED
    BY <1>1, <1>2, <1>3 DEF IInv

-----------------------------------------------------------------------------
(***************************************************************************)
(* The pieces every step is put together from.                             *)
(***************************************************************************)
LEMMA TableUnchanged ==
    ASSUME TableTypeOK, UNCHANGED tableVars
    PROVE  /\ TableTypeOK'
           /\ \A s \in Threads : SameTable(s)
           /\ \A s \in Threads :
                  /\ Shape(s)' <=> Shape(s)
                  /\ \A m \in Locks :
                         /\ Recorded(s, m)' <=> Recorded(s, m)
                         /\ RefCount(s, m)' = RefCount(s, m)
PROOF
<1>1. TableTypeOK' /\ \A s \in Threads : SameTable(s)
    BY DEF tableVars, TableTypeOK, SameTable
<1> QED
    BY <1>1, UntouchedTable

(* A step of one thread keeps the invariant when it leaves that thread in  *)
(* order: nobody else's call or table is touched (thread_local).           *)
LEMMA StepOfOneThread ==
    ASSUME IInv, NEW t \in Threads,
           ClientTypeOK', TableTypeOK', OwnerHolds', ThreadInOrder(t)',
           ClientFrame(t), \A s \in Threads \ {t} : SameTable(s)
    PROVE  IInv'
PROOF
<1>1. ASSUME NEW s \in Threads \ {t} PROVE ThreadInOrder(s)'
    BY OtherThread DEF IInv
<1> QED
    BY <1>1 DEF IInv, TypeOK, TableTypeOK

(***************************************************************************)
(* LS_ACQUIRE up to lock_fn: lookup, and the two answers it gives alone.   *)
(***************************************************************************)
LEMMA LS_ACQUIREStep ==
    ASSUME IInv, NEW t \in Threads, NEW l \in Locks, NEW reentrant \in BOOLEAN,
           LS_ACQUIRE(t, l, reentrant)
    PROVE  IInv'
PROOF
<1>1. /\ ClientTypeOK /\ TableTypeOK /\ OwnerHolds /\ Shape(t) /\ pc[t] = "idle"
      /\ \A m \in Locks : depth[t][m] \in Nat
    BY DEF IInv, TypeOK, TableTypeOK, ClientTypeOK, ThreadInOrder, LS_ACQUIRE, Call
<1>2. ExpectedByPlace'
    BY ExpectedByPlace, PTL
<1>3. \A m \in Locks :
          /\ Recorded(t, m) => RefCount(t, m) = depth[t][m] /\ depth[t][m] > 0
          /\ ~MallocFails /\ depth[t][m] > 0 => Recorded(t, m)
    BY <1>1, IdleTable
<1>4. CASE ~Recorded(t, l) /\ Proceed(t, l, "lock_fn") /\ UNCHANGED tableVars
    <2>1. /\ pc' \in [Threads -> PCs] /\ arg' \in [Threads -> Locks]
          /\ pc'[t] = "lock_fn" /\ arg'[t] = l
          /\ \A s \in Threads \ {t} : pc'[s] = pc[s] /\ arg'[s] = arg[s]
        BY <1>1, <1>4, GotoEffect DEF Proceed, PCs
    <2>2. owner' = owner /\ depth' = depth /\ status' = status
        BY <1>4 DEF Proceed
    <2>3. ClientTypeOK' /\ OwnerHolds' /\ ClientFrame(t)
        BY <1>1, <2>1, <2>2 DEF ClientTypeOK, OwnerHolds, ClientFrame
    <2>4. /\ TableTypeOK' /\ Shape(t)' /\ \A s \in Threads : SameTable(s)
          /\ \A m \in Locks : (Recorded(t, m)' <=> Recorded(t, m))
                              /\ RefCount(t, m)' = RefCount(t, m)
        BY <1>1, <1>4, TableUnchanged
    <2>5. \A m \in Locks : Expected(t, m)' = depth[t][m]
        BY <1>2, <2>1, <2>2
    <2>6. ThreadInOrder(t)'
        BY <1>3, <1>4, <2>1, <2>4, <2>5
           DEF ThreadInOrder, Agrees, CallInOrder, PanicInOrder
    <2> QED
        BY <2>3, <2>4, <2>6, StepOfOneThread
<1>5. CASE /\ Recorded(t, l) /\ IncrementRef(t, l)
           /\ Skip(t, l, depth[t][l] + 1, "LS_SKIP_ACQUISITION")
    <2>1. /\ pc' \in [Threads -> PCs] /\ arg' \in [Threads -> Locks]
          /\ status' \in [Threads -> Statuses]
          /\ pc'[t] = "idle" /\ arg'[t] = l /\ status'[t] = "LS_SKIP_ACQUISITION"
          /\ \A u \in Threads \ {t} :
                 pc'[u] = pc[u] /\ arg'[u] = arg[u] /\ status'[u] = status[u]
        BY <1>1, <1>5, ReturnEffect DEF Skip, Statuses
    <2>2. /\ owner' = owner /\ depth' \in [Threads -> [Locks -> Nat]]
          /\ depth'[t][l] = depth[t][l] + 1
          /\ \A m \in Locks \ {l} : depth'[t][m] = depth[t][m]
          /\ \A s \in Threads \ {t} : depth'[s] = depth[s]
        BY <1>1, <1>5 DEF Skip, ClientTypeOK
    <2>3. ClientTypeOK' /\ ClientFrame(t)
        BY <1>1, <2>1, <2>2 DEF ClientTypeOK, ClientFrame
    <2>4. OwnerHolds'
        <3> SUFFICES ASSUME NEW m \in Locks, NEW s \in Threads
                     PROVE  owner[m] = s <=> depth'[s][m] > 0
            BY <2>2 DEF OwnerHolds
        <3>1. (owner[m] = s <=> depth[s][m] > 0) /\ depth[t][l] > 0 /\ depth[t][l] \in Nat
            BY <1>1, <1>3, <1>5 DEF OwnerHolds
        <3>2. CASE s = t /\ m = l
            BY <2>2, <3>1, <3>2
        <3>3. CASE ~(s = t /\ m = l)
            BY <2>2, <3>1, <3>3
        <3> QED
            BY <3>2, <3>3
    <2>5. /\ TableTypeOK' /\ Shape(t)' /\ OthersUntouched(t, l)
          /\ Recorded(t, l)' /\ RefCount(t, l)' = RefCount(t, l) + 1
        BY <1>1, <1>5, IncrementRefEffect
    <2>6. \A m \in Locks : Expected(t, m)' = depth'[t][m]
        BY <1>2, <2>1
    <2>7. \A m \in Locks : Agrees(t, m)'
        BY <1>3, <1>5, <2>2, <2>5, <2>6 DEF Agrees, OthersUntouched
    <2>8. ThreadInOrder(t)'
        BY <2>1, <2>5, <2>7 DEF ThreadInOrder, CallInOrder, PanicInOrder
    <2> QED
        BY <2>3, <2>4, <2>5, <2>8, StepOfOneThread DEF OthersUntouched
<1>6. CASE /\ Recorded(t, l) /\ RejectMisuse(t, l, "LS_UNBALANCED_LOCK")
           /\ UNCHANGED tableVars
    <2>1. PICK place \in {"idle", "aborted"} : Goto(t, l, place)
        BY <1>6 DEF RejectMisuse
    <2>2. /\ pc' \in [Threads -> PCs] /\ arg' \in [Threads -> Locks]
          /\ pc'[t] = place /\ arg'[t] = l
          /\ \A s \in Threads \ {t} : pc'[s] = pc[s] /\ arg'[s] = arg[s]
        BY <1>1, <2>1, GotoEffect DEF PCs
    <2>3. /\ owner' = owner /\ depth' = depth
          /\ status' = [status EXCEPT ![t] = "LS_UNBALANCED_LOCK"]
        BY <1>6 DEF RejectMisuse
    <2>4. ClientTypeOK' /\ OwnerHolds' /\ ClientFrame(t)
        BY <1>1, <2>2, <2>3 DEF ClientTypeOK, OwnerHolds, ClientFrame, Statuses
    <2>5. /\ TableTypeOK' /\ Shape(t)' /\ \A s \in Threads : SameTable(s)
          /\ \A m \in Locks : (Recorded(t, m)' <=> Recorded(t, m))
                              /\ RefCount(t, m)' = RefCount(t, m)
        BY <1>1, <1>6, TableUnchanged
    <2>6. \A m \in Locks : Expected(t, m)' = depth[t][m]
        BY <1>2, <2>2, <2>3
    <2>7. PanicInOrder(t)'
        BY <1>1, <1>3, <1>6, <2>2, <2>3 DEF PanicInOrder, ClientTypeOK
    <2>8. ThreadInOrder(t)'
        BY <1>3, <2>2, <2>5, <2>6, <2>7 DEF ThreadInOrder, Agrees, CallInOrder
    <2> QED
        BY <2>4, <2>5, <2>8, StepOfOneThread
<1> QED
    BY <1>4, <1>5, <1>6 DEF LS_ACQUIRE

(***************************************************************************)
(* Inside a call, the table and the depth of its lock are as the place of  *)
(* the call says.                                                          *)
(***************************************************************************)
LEMMA CallUnderWay ==
    ASSUME NEW t \in Threads, NEW l \in Locks, NEW place \in PCs,
           IInv, At(t, l, place)
    PROVE  /\ ClientTypeOK /\ TableTypeOK /\ OwnerHolds /\ Shape(t)
           /\ \A m \in Locks : depth[t][m] \in Nat /\ Agrees(t, m)
           /\ pc[t] = place /\ arg[t] = l /\ CallInOrder(t, l)
           /\ \A m \in Locks \ {l} : Expected(t, m) = depth[t][m]
           /\ \A m \in Locks :
                  RefCount(t, m) \in Nat /\ (Recorded(t, m) <=> RefCount(t, m) > 0)
PROOF
<1>1. /\ ClientTypeOK /\ TableTypeOK /\ OwnerHolds /\ Shape(t)
      /\ \A m \in Locks : depth[t][m] \in Nat /\ Agrees(t, m)
      /\ pc[t] = place /\ arg[t] = l /\ CallInOrder(t, l)
    BY DEF IInv, TypeOK, TableTypeOK, ClientTypeOK, ThreadInOrder, At
<1>2. \A m \in Locks \ {l} : Expected(t, m) = depth[t][m]
    BY <1>1, ExpectedByPlace
<1>3. \A m \in Locks :
          RefCount(t, m) \in Nat /\ (Recorded(t, m) <=> RefCount(t, m) > 0)
    BY <1>1, CountWhenRecorded
<1> QED
    BY <1>1, <1>2, <1>3

(* lock_fn returns: the thread owns the lock, which nobody owned, and      *)
(* IncrementRef is still to come.                                          *)
LEMMA LockFnStep ==
    ASSUME IInv, NEW t \in Threads, NEW l \in Locks,
           LockFn(t, l), UNCHANGED tableVars
    PROVE  IInv'
PROOF
<1>1. /\ ClientTypeOK /\ TableTypeOK /\ OwnerHolds /\ Shape(t)
      /\ \A m \in Locks : depth[t][m] \in Nat /\ Agrees(t, m)
      /\ pc[t] = "lock_fn" /\ arg[t] = l /\ CallInOrder(t, l)
      /\ \A m \in Locks \ {l} : Expected(t, m) = depth[t][m]
    BY CallUnderWay DEF LockFn, PCs
<1>2. ExpectedByPlace'
    BY ExpectedByPlace, PTL
<1>3. /\ pc' \in [Threads -> PCs] /\ arg' \in [Threads -> Locks]
      /\ pc'[t] = "increment" /\ arg'[t] = l
      /\ \A s \in Threads \ {t} : pc'[s] = pc[s] /\ arg'[s] = arg[s]
    BY <1>1, GotoEffect DEF LockFn, PCs
<1>4. /\ owner' \in [Locks -> Threads \cup {NoThread}]
      /\ depth' \in [Threads -> [Locks -> Nat]] /\ depth'[t][l] = 1
      /\ \A m \in Locks \ {l} : depth'[t][m] = depth[t][m]
      /\ \A s \in Threads \ {t} : depth'[s] = depth[s]
      /\ OwnerHolds'
    BY <1>1, FlagRaised DEF LockFn
<1>5. ClientTypeOK' /\ ClientFrame(t)
    BY <1>1, <1>3, <1>4 DEF ClientTypeOK, ClientFrame, LockFn
<1>6. /\ TableTypeOK' /\ Shape(t)' /\ \A s \in Threads : SameTable(s)
      /\ \A m \in Locks : (Recorded(t, m)' <=> Recorded(t, m))
                          /\ RefCount(t, m)' = RefCount(t, m)
    BY <1>1, TableUnchanged
<1>7. /\ Expected(t, l)' = 0 /\ ~Recorded(t, l)
      /\ \A m \in Locks \ {l} : Expected(t, m)' = Expected(t, m)
    BY <1>1, <1>2, <1>3, <1>4 DEF CallInOrder
<1>8. \A m \in Locks : Agrees(t, m)'
    BY <1>1, <1>6, <1>7 DEF Agrees
<1>9. ThreadInOrder(t)'
    BY <1>3, <1>4, <1>6, <1>8 DEF ThreadInOrder, CallInOrder, PanicInOrder
<1> QED
    BY <1>4, <1>5, <1>6, <1>9, StepOfOneThread

(* IncrementRef after lock_fn: the table catches up with the depth.        *)
LEMMA AfterLockFnStep ==
    ASSUME IInv, NEW t \in Threads, NEW l \in Locks, AfterLockFn(t, l)
    PROVE  IInv'
PROOF
<1>1. /\ ClientTypeOK /\ TableTypeOK /\ OwnerHolds /\ Shape(t)
      /\ \A m \in Locks : depth[t][m] \in Nat /\ Agrees(t, m)
      /\ pc[t] = "increment" /\ arg[t] = l /\ CallInOrder(t, l)
      /\ \A m \in Locks \ {l} : Expected(t, m) = depth[t][m]
      /\ \A m \in Locks :
             RefCount(t, m) \in Nat /\ (Recorded(t, m) <=> RefCount(t, m) > 0)
    BY CallUnderWay DEF AfterLockFn, PCs
<1>2. ExpectedByPlace'
    BY ExpectedByPlace, PTL
<1>3. depth[t][l] = 1 /\ Expected(t, l) = 0 /\ ~Recorded(t, l) /\ RefCount(t, l) = 0
    BY <1>1, ExpectedByPlace DEF CallInOrder, Agrees
<1>4. CASE /\ IncrementRef(t, l) /\ Return(t, l, "LS_ACQUIRE_NOW")
           /\ UNCHANGED << owner, depth >>
    <2>1. /\ pc' \in [Threads -> PCs] /\ arg' \in [Threads -> Locks]
          /\ status' \in [Threads -> Statuses]
          /\ pc'[t] = "idle" /\ arg'[t] = l /\ status'[t] = "LS_ACQUIRE_NOW"
          /\ \A u \in Threads \ {t} :
                 pc'[u] = pc[u] /\ arg'[u] = arg[u] /\ status'[u] = status[u]
        BY <1>1, <1>4, ReturnEffect DEF Statuses
    <2>2. ClientTypeOK' /\ OwnerHolds' /\ ClientFrame(t)
        BY <1>1, <1>4, <2>1 DEF ClientTypeOK, OwnerHolds, ClientFrame
    <2>3. /\ TableTypeOK' /\ Shape(t)' /\ OthersUntouched(t, l)
          /\ \/ Recorded(t, l)' /\ RefCount(t, l)' = RefCount(t, l) + 1
             \/ MallocFails /\ ~Recorded(t, l)'
        BY <1>1, <1>4, IncrementRefEffect
    <2>4. /\ Expected(t, l)' = 1
          /\ \A m \in Locks \ {l} : Expected(t, m)' = Expected(t, m)
        BY <1>1, <1>2, <1>3, <1>4, <2>1
    <2>5. Agrees(t, l)'
        BY <1>3, <2>3, <2>4 DEF Agrees
    <2>6. \A m \in Locks : Agrees(t, m)'
        BY <1>1, <2>3, <2>4, <2>5 DEF Agrees, OthersUntouched
    <2>7. ThreadInOrder(t)'
        BY <2>1, <2>3, <2>6 DEF ThreadInOrder, CallInOrder, PanicInOrder
    <2> QED
        BY <2>2, <2>3, <2>7, StepOfOneThread DEF OthersUntouched
<1>5. CASE uthash_fatal(t, l) /\ Exit(t, l) /\ UNCHANGED tableVars
    <2>1. /\ pc' \in [Threads -> PCs] /\ arg' \in [Threads -> Locks]
          /\ pc'[t] = "exited" /\ arg'[t] = l
          /\ \A s \in Threads \ {t} : pc'[s] = pc[s] /\ arg'[s] = arg[s]
        BY <1>1, <1>5, GotoEffect DEF Exit, Proceed, PCs
    <2>2. owner' = owner /\ depth' = depth /\ status' = status
        BY <1>5 DEF Exit, Proceed
    <2>3. ClientTypeOK' /\ OwnerHolds' /\ ClientFrame(t)
        BY <1>1, <2>1, <2>2 DEF ClientTypeOK, OwnerHolds, ClientFrame
    <2>4. /\ TableTypeOK' /\ Shape(t)' /\ \A s \in Threads : SameTable(s)
          /\ \A m \in Locks : (Recorded(t, m)' <=> Recorded(t, m))
                              /\ RefCount(t, m)' = RefCount(t, m)
        BY <1>1, <1>5, TableUnchanged
    <2>5. \A m \in Locks : Expected(t, m)' = Expected(t, m)
        BY <1>1, <1>2, <1>3, <2>1, <2>2
    <2>6. \A m \in Locks : Agrees(t, m)'
        BY <1>1, <2>4, <2>5 DEF Agrees
    <2>7. ThreadInOrder(t)'
        BY <1>3, <2>1, <2>2, <2>4, <2>6 DEF ThreadInOrder, CallInOrder, PanicInOrder
    <2> QED
        BY <2>3, <2>4, <2>7, StepOfOneThread
<1> QED
    BY <1>4, <1>5 DEF AfterLockFn

(***************************************************************************)
(* LS_RELEASE up to unlock_fn.  Only here is it needed that callers keep   *)
(* the reentrant flag for nested holds: a non-reentrant release of a lock  *)
(* held twice runs unlock_fn with a hold left (MixFlags).                  *)
(***************************************************************************)
LEMMA LS_RELEASEStep ==
    ASSUME IInv, ~MixFlags,
           NEW t \in Threads, NEW l \in Locks, NEW reentrant \in BOOLEAN,
           LS_RELEASE(t, l, reentrant)
    PROVE  IInv'
PROOF
<1>1. /\ ClientTypeOK /\ TableTypeOK /\ OwnerHolds /\ Shape(t) /\ pc[t] = "idle"
      /\ \A m \in Locks : depth[t][m] \in Nat
    BY DEF IInv, TypeOK, TableTypeOK, ClientTypeOK, ThreadInOrder, LS_RELEASE, Call
<1>2. ExpectedByPlace'
    BY ExpectedByPlace, PTL
<1>3. \A m \in Locks :
          /\ RefCount(t, m) \in Nat
          /\ Recorded(t, m) => RefCount(t, m) = depth[t][m] /\ depth[t][m] > 0
          /\ ~MallocFails /\ depth[t][m] > 0 => Recorded(t, m)
    BY <1>1, IdleTable
<1>4. CASE /\ ~Recorded(t, l) /\ RejectMisuse(t, l, "LS_UNBALANCED_UNLOCK")
           /\ UNCHANGED tableVars
    <2>1. PICK place \in {"idle", "aborted"} : Goto(t, l, place)
        BY <1>4 DEF RejectMisuse
    <2>2. /\ pc' \in [Threads -> PCs] /\ arg' \in [Threads -> Locks]
          /\ pc'[t] = place /\ arg'[t] = l
          /\ \A s \in Threads \ {t} : pc'[s] = pc[s] /\ arg'[s] = arg[s]
        BY <1>1, <2>1, GotoEffect DEF PCs
    <2>3. /\ owner' = owner /\ depth' = depth
          /\ status' = [status EXCEPT ![t] = "LS_UNBALANCED_UNLOCK"]
        BY <1>4 DEF RejectMisuse
    <2>4. ClientTypeOK' /\ OwnerHolds' /\ ClientFrame(t)
        BY <1>1, <2>2, <2>3 DEF ClientTypeOK, OwnerHolds, ClientFrame, Statuses
    <2>5. /\ TableTypeOK' /\ Shape(t)' /\ \A s \in Threads : SameTable(s)
          /\ \A m \in Locks : (Recorded(t, m)' <=> Recorded(t, m))
                              /\ RefCount(t, m)' = RefCount(t, m)
        BY <1>1, <1>4, TableUnchanged
    <2>6. \A m \in Locks : Expected(t, m)' = depth[t][m]
        BY <1>2, <2>2, <2>3
    <2>7. PanicInOrder(t)'
        BY <1>1, <1>3, <1>4, <2>2, <2>3 DEF PanicInOrder, ClientTypeOK
    <2>8. ThreadInOrder(t)'
        BY <1>3, <2>2, <2>5, <2>6, <2>7 DEF ThreadInOrder, Agrees, CallInOrder
    <2> QED
        BY <2>4, <2>5, <2>8, StepOfOneThread
<1>5. CASE /\ Recorded(t, l) /\ DecrementRef(t, l) /\ LastHold(t, l)
           /\ Proceed(t, l, "unlock_fn")
    <2>1. /\ pc' \in [Threads -> PCs] /\ arg' \in [Threads -> Locks]
          /\ pc'[t] = "unlock_fn" /\ arg'[t] = l
          /\ \A s \in Threads \ {t} : pc'[s] = pc[s] /\ arg'[s] = arg[s]
        BY <1>1, <1>5, GotoEffect DEF Proceed, PCs
    <2>2. owner' = owner /\ depth' = depth /\ status' = status
        BY <1>5 DEF Proceed
    <2>3. ClientTypeOK' /\ OwnerHolds' /\ ClientFrame(t)
        BY <1>1, <2>1, <2>2 DEF ClientTypeOK, OwnerHolds, ClientFrame
    <2>4. /\ TableTypeOK' /\ Shape(t)' /\ OthersUntouched(t, l) /\ ~Recorded(t, l)'
        BY <1>1, <1>5, DecrementRefEffect
    <2>5. depth[t][l] = 1
        BY <1>1, <1>3, <1>5 DEF LastHold
    <2>6. /\ Expected(t, l)' = 0
          /\ \A m \in Locks \ {l} : Expected(t, m)' = depth[t][m]
        BY <1>2, <2>1, <2>2, <2>5
    <2>7. \A m \in Locks : Agrees(t, m)'
        BY <1>3, <2>4, <2>6 DEF Agrees, OthersUntouched
    <2>8. ThreadInOrder(t)'
        BY <2>1, <2>2, <2>4, <2>5, <2>7
           DEF ThreadInOrder, CallInOrder, PanicInOrder
    <2> QED
        BY <2>3, <2>4, <2>8, StepOfOneThread DEF OthersUntouched
<1>6. CASE /\ Recorded(t, l) /\ DecrementRef(t, l) /\ ~LastHold(t, l)
           /\ Skip(t, l, depth[t][l] - 1, "LS_SKIP_RELEASE")
    <2>1. /\ pc' \in [Threads -> PCs] /\ arg' \in [Threads -> Locks]
          /\ status' \in [Threads -> Statuses]
          /\ pc'[t] = "idle" /\ arg'[t] = l /\ status'[t] = "LS_SKIP_RELEASE"
          /\ \A u \in Threads \ {t} :
                 pc'[u] = pc[u] /\ arg'[u] = arg[u] /\ status'[u] = status[u]
        BY <1>1, <1>6, ReturnEffect DEF Skip, Statuses
    <2>2. depth[t][l] > 1
        BY <1>1, <1>3, <1>6 DEF LastHold
    <2>3. /\ owner' = owner /\ depth' \in [Threads -> [Locks -> Nat]]
          /\ depth'[t][l] = depth[t][l] - 1
          /\ \A m \in Locks \ {l} : depth'[t][m] = depth[t][m]
          /\ \A s \in Threads \ {t} : depth'[s] = depth[s]
        BY <1>1, <1>6, <2>2 DEF Skip, ClientTypeOK
    <2>4. ClientTypeOK' /\ ClientFrame(t)
        BY <1>1, <2>1, <2>3 DEF ClientTypeOK, ClientFrame
    <2>5. OwnerHolds'
        <3> SUFFICES ASSUME NEW m \in Locks, NEW s \in Threads
                     PROVE  owner[m] = s <=> depth'[s][m] > 0
            BY <2>3 DEF OwnerHolds
        <3>1. (owner[m] = s <=> depth[s][m] > 0) /\ depth[t][l] \in Nat
            BY <1>1 DEF OwnerHolds
        <3>2. CASE s = t /\ m = l
            BY <2>2, <2>3, <3>1, <3>2
        <3>3. CASE ~(s = t /\ m = l)
            BY <2>3, <3>1, <3>3
        <3> QED
            BY <3>2, <3>3
    <2>6. /\ TableTypeOK' /\ Shape(t)' /\ OthersUntouched(t, l)
          /\ Recorded(t, l)' /\ RefCount(t, l)' = RefCount(t, l) - 1
        BY <1>1, <1>6, DecrementRefEffect
    <2>7. \A m \in Locks : Expected(t, m)' = depth'[t][m]
        BY <1>2, <2>1
    <2>8. \A m \in Locks : Agrees(t, m)'
        BY <1>3, <1>6, <2>3, <2>6, <2>7 DEF Agrees, OthersUntouched
    <2>9. ThreadInOrder(t)'
        BY <2>1, <2>6, <2>8 DEF ThreadInOrder, CallInOrder, PanicInOrder
    <2> QED
        BY <2>4, <2>5, <2>6, <2>9, StepOfOneThread DEF OthersUntouched
<1>7. CASE /\ Recorded(t, l) /\ ~reentrant /\ Proceed(t, l, "unlock_first")
           /\ UNCHANGED tableVars
    <2>1. /\ pc' \in [Threads -> PCs] /\ arg' \in [Threads -> Locks]
          /\ pc'[t] = "unlock_first" /\ arg'[t] = l
          /\ \A s \in Threads \ {t} : pc'[s] = pc[s] /\ arg'[s] = arg[s]
        BY <1>1, <1>7, GotoEffect DEF Proceed, PCs
    <2>2. owner' = owner /\ depth' = depth /\ status' = status
        BY <1>7 DEF Proceed
    <2>3. ClientTypeOK' /\ OwnerHolds' /\ ClientFrame(t)
        BY <1>1, <2>1, <2>2 DEF ClientTypeOK, OwnerHolds, ClientFrame
    <2>4. /\ TableTypeOK' /\ Shape(t)' /\ \A s \in Threads : SameTable(s)
          /\ \A m \in Locks : (Recorded(t, m)' <=> Recorded(t, m))
                              /\ RefCount(t, m)' = RefCount(t, m)
        BY <1>1, <1>7, TableUnchanged
    <2>5. MayRelease(t, l, reentrant)
        BY DEF LS_RELEASE
    <2>6. depth[t][l] = 1
        BY <1>1, <1>3, <1>7, <2>5 DEF MayRelease
    <2>7. \A m \in Locks : Expected(t, m)' = depth[t][m]
        BY <1>2, <2>1, <2>2
    <2>8. \A m \in Locks : Agrees(t, m)'
        BY <1>3, <2>4, <2>7 DEF Agrees
    <2>9. ThreadInOrder(t)'
        BY <1>7, <2>1, <2>2, <2>4, <2>6, <2>8
           DEF ThreadInOrder, CallInOrder, PanicInOrder
    <2> QED
        BY <2>3, <2>4, <2>9, StepOfOneThread
<1> QED
    BY <1>4, <1>5, <1>6, <1>7 DEF LS_RELEASE

(* unlock_fn of a reentrant release: the table has already forgotten the   *)
(* lock.                                                                   *)
LEMMA UnlockFnStep ==
    ASSUME IInv, NEW t \in Threads, NEW l \in Locks,
           UnlockFn(t, l), UNCHANGED tableVars
    PROVE  IInv'
PROOF
<1>1. /\ ClientTypeOK /\ TableTypeOK /\ OwnerHolds /\ Shape(t)
      /\ \A m \in Locks : depth[t][m] \in Nat /\ Agrees(t, m)
      /\ pc[t] = "unlock_fn" /\ arg[t] = l /\ CallInOrder(t, l)
      /\ \A m \in Locks \ {l} : Expected(t, m) = depth[t][m]
    BY CallUnderWay DEF UnlockFn, PCs
<1>2. ExpectedByPlace'
    BY ExpectedByPlace, PTL
<1>3. depth[t][l] = 1 /\ Expected(t, l) = 0
    BY <1>1, ExpectedByPlace DEF CallInOrder
<1>4. /\ pc' \in [Threads -> PCs] /\ arg' \in [Threads -> Locks]
      /\ status' \in [Threads -> Statuses]
      /\ pc'[t] = "idle" /\ arg'[t] = l /\ status'[t] = "LS_RELEASE_NOW"
      /\ \A u \in Threads \ {t} :
             pc'[u] = pc[u] /\ arg'[u] = arg[u] /\ status'[u] = status[u]
    BY <1>1, ReturnEffect DEF UnlockFn, Statuses
<1>5. /\ owner' \in [Locks -> Threads \cup {NoThread}]
      /\ depth' \in [Threads -> [Locks -> Nat]] /\ depth'[t][l] = 0
      /\ \A m \in Locks \ {l} : depth'[t][m] = depth[t][m]
      /\ \A s \in Threads \ {t} : depth'[s] = depth[s]
      /\ OwnerHolds'
    BY <1>1, <1>3, FlagCleared DEF UnlockFn
<1>6. ClientTypeOK' /\ ClientFrame(t)
    BY <1>4, <1>5 DEF ClientTypeOK, ClientFrame
<1>7. /\ TableTypeOK' /\ Shape(t)' /\ \A s \in Threads : SameTable(s)
      /\ \A m \in Locks : (Recorded(t, m)' <=> Recorded(t, m))
                          /\ RefCount(t, m)' = RefCount(t, m)
    BY <1>1, TableUnchanged
<1>8. \A m \in Locks : Expected(t, m)' = Expected(t, m)
    BY <1>1, <1>2, <1>3, <1>4, <1>5
<1>9. \A m \in Locks : Agrees(t, m)'
    BY <1>1, <1>7, <1>8 DEF Agrees
<1>10. ThreadInOrder(t)'
    BY <1>4, <1>7, <1>9 DEF ThreadInOrder, CallInOrder, PanicInOrder
<1> QED
    BY <1>5, <1>6, <1>7, <1>10, StepOfOneThread

(* unlock_fn of a non-reentrant release: the table still counts a lock that*)
(* others may take from now on.                                            *)
LEMMA UnlockFirstStep ==
    ASSUME IInv, NEW t \in Threads, NEW l \in Locks,
           UnlockFirst(t, l), UNCHANGED tableVars
    PROVE  IInv'
PROOF
<1>1. /\ ClientTypeOK /\ TableTypeOK /\ OwnerHolds /\ Shape(t)
      /\ \A m \in Locks : depth[t][m] \in Nat /\ Agrees(t, m)
      /\ pc[t] = "unlock_first" /\ arg[t] = l /\ CallInOrder(t, l)
      /\ \A m \in Locks \ {l} : Expected(t, m) = depth[t][m]
    BY CallUnderWay DEF UnlockFirst, PCs
<1>2. ExpectedByPlace'
    BY ExpectedByPlace, PTL
<1>3. depth[t][l] = 1 /\ Expected(t, l) = 1 /\ Recorded(t, l)
    BY <1>1, ExpectedByPlace DEF CallInOrder
<1>4. /\ pc' \in [Threads -> PCs] /\ arg' \in [Threads -> Locks]
      /\ pc'[t] = "decrement" /\ arg'[t] = l
      /\ \A s \in Threads \ {t} : pc'[s] = pc[s] /\ arg'[s] = arg[s]
    BY <1>1, GotoEffect DEF UnlockFirst, PCs
<1>5. /\ owner' \in [Locks -> Threads \cup {NoThread}]
      /\ depth' \in [Threads -> [Locks -> Nat]] /\ depth'[t][l] = 0
      /\ \A m \in Locks \ {l} : depth'[t][m] = depth[t][m]
      /\ \A s \in Threads \ {t} : depth'[s] = depth[s]
      /\ OwnerHolds'
    BY <1>1, <1>3, FlagCleared DEF UnlockFirst
<1>6. ClientTypeOK' /\ ClientFrame(t)
    BY <1>1, <1>4, <1>5 DEF ClientTypeOK, ClientFrame, UnlockFirst
<1>7. /\ TableTypeOK' /\ Shape(t)' /\ \A s \in Threads : SameTable(s)
      /\ \A m \in Locks : (Recorded(t, m)' <=> Recorded(t, m))
                          /\ RefCount(t, m)' = RefCount(t, m)
    BY <1>1, TableUnchanged
<1>8. \A m \in Locks : Expected(t, m)' = Expected(t, m)
    BY <1>1, <1>2, <1>3, <1>4, <1>5
<1>9. \A m \in Locks : Agrees(t, m)'
    BY <1>1, <1>7, <1>8 DEF Agrees
<1>10. ThreadInOrder(t)'
    BY <1>3, <1>4, <1>5, <1>7, <1>9 DEF ThreadInOrder, CallInOrder, PanicInOrder
<1> QED
    BY <1>5, <1>6, <1>7, <1>10, StepOfOneThread

(* DecrementRef after unlock_fn: the table catches up with the depth.      *)
LEMMA AfterUnlockFnStep ==
    ASSUME IInv, NEW t \in Threads, NEW l \in Locks, AfterUnlockFn(t, l)
    PROVE  IInv'
PROOF
<1>1. /\ ClientTypeOK /\ TableTypeOK /\ OwnerHolds /\ Shape(t)
      /\ \A m \in Locks : depth[t][m] \in Nat /\ Agrees(t, m)
      /\ pc[t] = "decrement" /\ arg[t] = l /\ CallInOrder(t, l)
      /\ \A m \in Locks \ {l} : Expected(t, m) = depth[t][m]
      /\ \A m \in Locks :
             RefCount(t, m) \in Nat /\ (Recorded(t, m) <=> RefCount(t, m) > 0)
    BY CallUnderWay DEF AfterUnlockFn, PCs
<1>2. ExpectedByPlace'
    BY ExpectedByPlace, PTL
<1>3. depth[t][l] = 0 /\ Recorded(t, l) /\ RefCount(t, l) = 1 /\ LastHold(t, l)
    BY <1>1, ExpectedByPlace DEF CallInOrder, Agrees, LastHold
<1>4. owner' = owner /\ depth' = depth
    BY DEF AfterUnlockFn
<1>5. /\ pc' \in [Threads -> PCs] /\ arg' \in [Threads -> Locks]
      /\ status' \in [Threads -> Statuses]
      /\ pc'[t] = "idle" /\ arg'[t] = l /\ status'[t] = "LS_RELEASE_NOW"
      /\ \A u \in Threads \ {t} :
             pc'[u] = pc[u] /\ arg'[u] = arg[u] /\ status'[u] = status[u]
    BY <1>1, ReturnEffect DEF AfterUnlockFn, Statuses
<1>6. ClientTypeOK' /\ OwnerHolds' /\ ClientFrame(t)
    BY <1>1, <1>4, <1>5 DEF ClientTypeOK, OwnerHolds, ClientFrame
<1>7. TableTypeOK' /\ Shape(t)' /\ OthersUntouched(t, l) /\ ~Recorded(t, l)'
    BY <1>1, <1>3, DecrementRefEffect DEF AfterUnlockFn
<1>8. \A m \in Locks : Expected(t, m)' = depth[t][m]
    BY <1>2, <1>4, <1>5
<1>9. \A m \in Locks : Agrees(t, m)'
    BY <1>1, <1>3, <1>7, <1>8 DEF Agrees, OthersUntouched
<1>10. ThreadInOrder(t)'
    BY <1>5, <1>7, <1>9 DEF ThreadInOrder, CallInOrder, PanicInOrder
<1> QED
    BY <1>6, <1>7, <1>10, StepOfOneThread DEF OthersUntouched

-----------------------------------------------------------------------------
(***************************************************************************)
(* Every step keeps the invariant.                                         *)
(***************************************************************************)
LEMMA NextKeepsIInv ==
    ASSUME ~MixFlags, IInv, [Next]_vars
    PROVE  IInv'
PROOF
<1>1. CASE UNCHANGED vars
    <2>1. /\ owner' = owner /\ depth' = depth /\ pc' = pc /\ arg' = arg
          /\ status' = status /\ UNCHANGED tableVars
        BY <1>1 DEF vars, clientVars
    <2>2. TypeOK /\ ClientTypeOK /\ TableTypeOK
        BY DEF IInv, TypeOK, TableTypeOK
    <2>3. TableTypeOK' /\ \A s \in Threads : SameTable(s)
        BY <2>1, <2>2, TableUnchanged
    <2>4. ClientTypeOK' /\ OwnerHolds'
        BY <2>1 DEF IInv, TypeOK, ClientTypeOK, OwnerHolds
    <2>5. ASSUME NEW s \in Threads PROVE ThreadInOrder(s)'
        <3>1. /\ Shape(s)'
              /\ \A m \in Locks : (Recorded(s, m)' <=> Recorded(s, m))
                                  /\ RefCount(s, m)' = RefCount(s, m)
            BY <2>3, UntouchedTable DEF IInv, ThreadInOrder
        <3>2. \A m \in Locks : Expected(s, m)' = Expected(s, m)
            BY <2>1 DEF Expected
        <3> QED
            BY <2>1, <3>1, <3>2
               DEF IInv, ThreadInOrder, Agrees, CallInOrder, PanicInOrder
    <2> QED
        BY <2>3, <2>4, <2>5 DEF IInv, TypeOK, TableTypeOK
<1>2. CASE Next
    <2>1. PICK t \in Threads, l \in Locks :
              \/ \E reentrant \in BOOLEAN : LS_ACQUIRE(t, l, reentrant)
              \/ LockFn(t, l) /\ UNCHANGED tableVars
              \/ AfterLockFn(t, l)
              \/ \E reentrant \in BOOLEAN : LS_RELEASE(t, l, reentrant)
              \/ UnlockFn(t, l) /\ UNCHANGED tableVars
              \/ UnlockFirst(t, l) /\ UNCHANGED tableVars
              \/ AfterUnlockFn(t, l)
        BY <1>2 DEF Next
    <2> QED
        BY <2>1, LS_ACQUIREStep, LockFnStep, AfterLockFnStep, LS_RELEASEStep,
           UnlockFnStep, UnlockFirstStep, AfterUnlockFnStep
<1> QED
    BY <1>1, <1>2

(***************************************************************************)
(* The invariant holds as long as callers keep reentrant = false for the   *)
(* release of their only hold: whatever else they call, in whatever order. *)
(***************************************************************************)
THEOREM Invariance ==
    ASSUME ~MixFlags
    PROVE  Spec => []IInv
PROOF
<1>1. Init => IInv
    BY InitEstablishes
<1>2. IInv /\ [Next]_vars => IInv'
    BY NextKeepsIInv
<1> QED
    BY <1>1, <1>2, PTL DEF Spec

(***************************************************************************)
(* Every variable keeps its type: lock_count never passes MAX_LOCKS + 1,   *)
(* no count or depth goes below zero.                                      *)
(***************************************************************************)
THEOREM TypeCorrect ==
    ASSUME ~MixFlags
    PROVE  Spec => []TypeOK
PROOF
<1>1. IInv => TypeOK
    BY DEF IInv
<1> QED
    BY <1>1, Invariance, PTL

(***************************************************************************)
(* Two threads never hold a shielded lock at once, whatever unbalanced     *)
(* calls they make and even when malloc fails (LS_ACQUIRE, LS_RELEASE).    *)
(***************************************************************************)
THEOREM Exclusion ==
    ASSUME ~MixFlags
    PROVE  Spec => []MutualExclusion
PROOF
<1>1. IInv => MutualExclusion
    <2> SUFFICES ASSUME IInv, NEW l \in Locks, NEW t \in Threads, NEW u \in Threads,
                        depth[t][l] > 0, depth[u][l] > 0
                 PROVE  t = u
        BY DEF MutualExclusion
    <2>1. owner[l] = t /\ owner[l] = u
        BY DEF IInv, OwnerHolds
    <2> QED
        BY <2>1
<1> QED
    BY <1>1, Invariance, PTL

(***************************************************************************)
(* Where malloc may fail, records may be lost but none is ever wrong       *)
(* (IncrementRef returns silently when freelist_pop returns NULL).         *)
(***************************************************************************)
THEOREM NothingPhantom ==
    ASSUME ~MixFlags
    PROVE  Spec => []NoPhantomRecord
PROOF
<1>1. IInv => NoPhantomRecord
    BY DEF IInv, ThreadInOrder, Agrees, NoPhantomRecord
<1> QED
    BY <1>1, Invariance, PTL

(***************************************************************************)
(* As long as malloc succeeds, the table counts every hold exactly, at     *)
(* every point of every call, through migration, removal and reuse.        *)
(***************************************************************************)
THEOREM CountsExact ==
    ASSUME ~MixFlags, ~MallocFails
    PROVE  Spec => []RefCountExact
PROOF
<1>1. IInv => RefCountExact
    <2> SUFFICES ASSUME IInv, NEW t \in Threads, NEW l \in Locks
                 PROVE  /\ RefCount(t, l) = Expected(t, l)
                        /\ Recorded(t, l) <=> Expected(t, l) > 0
        BY DEF RefCountExact
    <2>1. /\ Agrees(t, l) /\ Shape(t) /\ TableTypeOK /\ depth[t][l] \in Nat
          /\ arg[t] = l => CallInOrder(t, l)
        BY DEF IInv, ThreadInOrder, TypeOK, TableTypeOK, ClientTypeOK
    <2>2. RefCount(t, l) \in Nat /\ (Recorded(t, l) <=> RefCount(t, l) > 0)
        BY <2>1, CountWhenRecorded
    <2>3. Expected(t, l) \in Nat
        BY <2>1 DEF Expected, CallInOrder
    <2> QED
        BY <2>1, <2>2, <2>3 DEF Agrees
<1> QED
    BY <1>1, Invariance, PTL

(***************************************************************************)
(* As long as malloc succeeds, unlock_fn runs only in the thread that      *)
(* holds the lock and lock_fn never does (LS_ACQUIRE, LS_RELEASE).         *)
(***************************************************************************)
THEOREM MisuseStopped ==
    ASSUME ~MixFlags, ~MallocFails
    PROVE  Spec => []NoMisuseReachesLock
PROOF
<1>1. IInv => NoMisuseReachesLock
    <2> SUFFICES ASSUME IInv, NEW t \in Threads
                 PROVE  /\ pc[t] \in {"unlock_fn", "unlock_first"} => owner[arg[t]] = t
                        /\ pc[t] = "lock_fn" => owner[arg[t]] # t
        BY DEF NoMisuseReachesLock
    <2> DEFINE l == arg[t]
    <2>1. /\ l \in Locks /\ depth[t][l] \in Nat /\ Agrees(t, l) /\ CallInOrder(t, l)
          /\ owner[l] = t <=> depth[t][l] > 0
        BY DEF IInv, ThreadInOrder, TypeOK, ClientTypeOK, OwnerHolds
    <2>2. pc[t] \in {"unlock_fn", "unlock_first"} => depth[t][l] = 1
        BY <2>1 DEF CallInOrder
    <2>3. pc[t] = "lock_fn" => depth[t][l] = 0
        BY <2>1, ExpectedByPlace DEF CallInOrder, Agrees
    <2> QED
        BY <2>1, <2>2, <2>3
<1> QED
    BY <1>1, Invariance, PTL

(***************************************************************************)
(* As long as malloc succeeds, no balanced call is turned away: a panic    *)
(* is always the caller's doing (the abort branches of LS_ACQUIRE and      *)
(* LS_RELEASE).                                                            *)
(***************************************************************************)
THEOREM PanicsDeserved ==
    ASSUME ~MixFlags, ~MallocFails
    PROVE  Spec => []NoFalsePanic
PROOF
<1>1. IInv => NoFalsePanic
    BY DEF IInv, ThreadInOrder, PanicInOrder, NoFalsePanic
<1> QED
    BY <1>1, Invariance, PTL

-----------------------------------------------------------------------------
(***************************************************************************)
(* LS_HYBRID implements RefCountedLock.  A call takes its abstract step    *)
(* where the table answers it or where lock_fn or unlock_fn runs; its      *)
(* other steps stutter.                                                    *)
(***************************************************************************)
LEMMA Stutters ==
    ASSUME NEW t \in Threads, depth' = depth, decided'[t] = decided[t],
           \A u \in Threads \ {t} : pc'[u] = pc[u] /\ status'[u] = status[u]
    PROVE  UNCHANGED Promise!vars
PROOF
<1>1. decided' = [decided EXCEPT ![t] = decided'[t]]
    BY DecidedElsewhere
<1>2. decided' = decided
    BY <1>1 DEF decided
<1> QED
    BY <1>2 DEF Promise!vars

(* A call starts or ends with no abstract step of its own.                 *)
LEMMA ProceedStutters ==
    ASSUME NEW t \in Threads, NEW l \in Locks,
           NEW place \in {"lock_fn", "unlock_fn", "unlock_first"},
           ClientTypeOK, pc[t] = "idle", Proceed(t, l, place)
    PROVE  UNCHANGED Promise!vars
PROOF
<1>1. place \in PCs
    BY DEF PCs
<1>2. pc'[t] = place /\ \A s \in Threads \ {t} : pc'[s] = pc[s]
    BY <1>1, GotoEffect DEF Proceed
<1>3. depth' = depth /\ status' = status
    BY DEF Proceed
<1>4. decided'[t] = decided[t]
    BY <1>2, <1>3 DEF decided
<1> QED
    BY <1>2, <1>3, <1>4, Stutters

(* The panic paths of LS_ACQUIRE and LS_RELEASE: the promise rejects the   *)
(* call.                                                                   *)
LEMMA RejectMisuseDecides ==
    ASSUME NEW t \in Threads, NEW l \in Locks, NEW s \in Statuses,
           ClientTypeOK, RejectMisuse(t, l, s)
    PROVE  Promise!Reject(t, s)
PROOF
<1>1. PICK place \in {"idle", "aborted"} : Goto(t, l, place)
    BY DEF RejectMisuse
<1>2. pc'[t] = place /\ \A u \in Threads \ {t} : pc'[u] = pc[u]
    BY <1>1, GotoEffect DEF PCs
<1>3. depth' = depth /\ status' = [status EXCEPT ![t] = s]
    BY DEF RejectMisuse
<1>4. decided'[t] = s
    BY <1>2, <1>3 DEF decided, ClientTypeOK
<1>5. decided' = [decided EXCEPT ![t] = s]
    BY <1>2, <1>3, <1>4, DecidedElsewhere DEF ClientTypeOK
<1> QED
    BY <1>3, <1>5 DEF Promise!Reject

(* The paths that touch neither the lock nor unlock_fn: they decide the    *)
(* call at once.                                                           *)
LEMMA SkipDecides ==
    ASSUME NEW t \in Threads, NEW l \in Locks, NEW s \in Statuses, NEW n,
           ClientTypeOK, Skip(t, l, n, s)
    PROVE  /\ depth' = [depth EXCEPT ![t][l] = n]
           /\ decided' = [decided EXCEPT ![t] = s]
PROOF
<1>1. /\ pc'[t] = "idle" /\ status'[t] = s
      /\ \A u \in Threads \ {t} : pc'[u] = pc[u] /\ status'[u] = status[u]
    BY ReturnEffect DEF Skip
<1>2. decided'[t] = s
    BY <1>1 DEF decided
<1> QED
    BY <1>1, <1>2, DecidedElsewhere DEF Skip

(* The return of a call that has already decided.                          *)
LEMMA ReturnStutters ==
    ASSUME NEW t \in Threads, NEW l \in Locks, NEW s \in Statuses,
           ClientTypeOK, decided[t] = s, Return(t, l, s), depth' = depth
    PROVE  UNCHANGED Promise!vars
PROOF
<1>1. /\ pc'[t] = "idle" /\ status'[t] = s
      /\ \A u \in Threads \ {t} : pc'[u] = pc[u] /\ status'[u] = status[u]
    BY ReturnEffect
<1>2. decided'[t] = s
    BY <1>1 DEF decided
<1> QED
    BY <1>1, <1>2, Stutters

(* LS_ACQUIRE up to lock_fn: a rejection, a nested hold, or a stutter.     *)
LEMMA AcquireKeepsPromise ==
    ASSUME ~MallocFails, IInv,
           NEW t \in Threads, NEW l \in Locks, NEW reentrant \in BOOLEAN,
           LS_ACQUIRE(t, l, reentrant)
    PROVE  [Promise!Next]_Promise!vars
PROOF
<1>1. ClientTypeOK /\ pc[t] = "idle"
    BY DEF IInv, TypeOK, LS_ACQUIRE, Call
<1>2. Recorded(t, l) => depth[t][l] > 0
    BY <1>1, IdleTable
<1>3. CASE Proceed(t, l, "lock_fn")
    BY <1>1, <1>3, ProceedStutters
<1>4. CASE Recorded(t, l) /\ Skip(t, l, depth[t][l] + 1, "LS_SKIP_ACQUISITION")
    <2>1. /\ depth' = [depth EXCEPT ![t][l] = depth[t][l] + 1]
          /\ decided' = [decided EXCEPT ![t] = "LS_SKIP_ACQUISITION"]
        BY <1>1, <1>4, SkipDecides DEF Statuses
    <2>2. Promise!Decide(t, l, 1, "LS_SKIP_ACQUISITION")
        BY <1>1, <2>1 DEF Promise!Decide, ClientTypeOK
    <2>3. Promise!Nest(t, l)
        BY <1>2, <1>4, <2>2 DEF Promise!Nest
    <2> QED
        BY <2>3 DEF Promise!Next
<1>5. CASE Recorded(t, l) /\ RejectMisuse(t, l, "LS_UNBALANCED_LOCK")
    <2>1. Promise!RejectLock(t, l)
        BY <1>1, <1>2, <1>5, RejectMisuseDecides DEF Statuses, Promise!RejectLock
    <2> QED
        BY <2>1 DEF Promise!Next
<1> QED
    BY <1>3, <1>4, <1>5 DEF LS_ACQUIRE

(* LS_RELEASE up to unlock_fn: a rejection, a nested release, or a stutter.*)
LEMMA ReleaseKeepsPromise ==
    ASSUME ~MallocFails, IInv,
           NEW t \in Threads, NEW l \in Locks, NEW reentrant \in BOOLEAN,
           LS_RELEASE(t, l, reentrant)
    PROVE  [Promise!Next]_Promise!vars
PROOF
<1>1. ClientTypeOK /\ pc[t] = "idle"
    BY DEF IInv, TypeOK, LS_RELEASE, Call
<1>2. /\ Recorded(t, l) => RefCount(t, l) = depth[t][l]
      /\ depth[t][l] \in Nat /\ (depth[t][l] > 0 => Recorded(t, l))
    BY <1>1, IdleTable
<1>3. CASE ~Recorded(t, l) /\ RejectMisuse(t, l, "LS_UNBALANCED_UNLOCK")
    <2>1. depth[t][l] = 0
        BY <1>2, <1>3
    <2>2. Promise!RejectUnlock(t, l)
        BY <1>1, <1>3, <2>1, RejectMisuseDecides DEF Statuses, Promise!RejectUnlock
    <2> QED
        BY <2>2 DEF Promise!Next
<1>4. CASE Proceed(t, l, "unlock_fn") \/ Proceed(t, l, "unlock_first")
    BY <1>1, <1>4, ProceedStutters
<1>5. CASE /\ Recorded(t, l) /\ ~LastHold(t, l)
           /\ Skip(t, l, depth[t][l] - 1, "LS_SKIP_RELEASE")
    <2>1. /\ depth' = [depth EXCEPT ![t][l] = depth[t][l] - 1]
          /\ decided' = [decided EXCEPT ![t] = "LS_SKIP_RELEASE"]
        BY <1>1, <1>5, SkipDecides DEF Statuses
    <2>2. depth[t][l] > 1
        BY <1>2, <1>5 DEF LastHold
    <2>3. Promise!Unnest(t, l)
        BY <1>1, <2>1, <2>2 DEF Promise!Unnest, ClientTypeOK
    <2> QED
        BY <2>3 DEF Promise!Next
<1> QED
    BY <1>3, <1>4, <1>5 DEF LS_RELEASE

(* The step in which TASLock's flag is raised is the promise's Grant.      *)
LEMMA LockFnGrants ==
    ASSUME IInv, NEW t \in Threads, NEW l \in Locks, LockFn(t, l)
    PROVE  Promise!Grant(t, l)
PROOF
<1>1. ClientTypeOK /\ OwnerHolds /\ pc[t] = "lock_fn" /\ owner[l] = NoThread
    BY DEF IInv, TypeOK, LockFn, At
<1>2. \A s \in Threads : ~(depth[s][l] > 0)
    BY <1>1, ClientAssumption DEF OwnerHolds
<1>3. pc'[t] = "increment" /\ \A s \in Threads \ {t} : pc'[s] = pc[s]
    BY <1>1, GotoEffect DEF LockFn, PCs
<1>4. depth' = [depth EXCEPT ![t][l] = @ + 1] /\ status' = status
    BY DEF LockFn
<1>5. decided' = [decided EXCEPT ![t] = "LS_ACQUIRE_NOW"]
    BY <1>3, <1>4, DecidedElsewhere DEF decided
<1> QED
    BY <1>2, <1>4, <1>5 DEF Promise!Grant, Promise!Held, Promise!Decide

(* The step in which TASLock's flag is cleared is the promise's Free.      *)
LEMMA UnlockFrees ==
    ASSUME IInv, NEW t \in Threads, NEW l \in Locks,
           UnlockFn(t, l) \/ UnlockFirst(t, l)
    PROVE  Promise!Free(t, l)
PROOF
<1>1. ClientTypeOK /\ depth[t][l] = 1
    <2>1. CASE UnlockFn(t, l)
        BY <2>1, CallUnderWay DEF UnlockFn, CallInOrder, PCs
    <2>2. CASE UnlockFirst(t, l)
        BY <2>2, CallUnderWay DEF UnlockFirst, CallInOrder, PCs
    <2> QED
        BY <2>1, <2>2
<1>2. depth' = [depth EXCEPT ![t][l] = 0]
    BY <1>1 DEF UnlockFn, UnlockFirst, ClearFlag, ClientTypeOK
<1>3. CASE UnlockFn(t, l)
    <2>1. /\ pc'[t] = "idle" /\ status'[t] = "LS_RELEASE_NOW"
          /\ \A u \in Threads \ {t} : pc'[u] = pc[u] /\ status'[u] = status[u]
        BY <1>1, <1>3, ReturnEffect DEF UnlockFn, Statuses
    <2>2. decided' = [decided EXCEPT ![t] = "LS_RELEASE_NOW"]
        BY <2>1, DecidedElsewhere DEF decided
    <2> QED
        BY <1>1, <1>2, <2>2 DEF Promise!Free
<1>4. CASE UnlockFirst(t, l)
    <2>1. /\ pc'[t] = "decrement" /\ status' = status
          /\ \A s \in Threads \ {t} : pc'[s] = pc[s]
        BY <1>1, <1>4, GotoEffect DEF UnlockFirst, PCs
    <2>2. decided' = [decided EXCEPT ![t] = "LS_RELEASE_NOW"]
        BY <2>1, DecidedElsewhere DEF decided
    <2> QED
        BY <1>1, <1>2, <2>2 DEF Promise!Free
<1> QED
    BY <1>3, <1>4

(* IncrementRef and DecrementRef after the callback change nothing the     *)
(* promise can see.                                                        *)
LEMMA AfterwardsStutters ==
    ASSUME ~MallocFails, IInv, NEW t \in Threads, NEW l \in Locks,
           AfterLockFn(t, l) \/ AfterUnlockFn(t, l)
    PROVE  UNCHANGED Promise!vars
PROOF
<1>1. ClientTypeOK
    BY DEF IInv, TypeOK
<1>2. CASE AfterLockFn(t, l)
    <2>1. pc[t] = "increment" /\ Return(t, l, "LS_ACQUIRE_NOW") /\ depth' = depth
        BY <1>2 DEF AfterLockFn, At, uthash_fatal
    <2>2. decided[t] = "LS_ACQUIRE_NOW"
        BY <2>1 DEF decided
    <2> QED
        BY <1>1, <2>1, <2>2, ReturnStutters DEF Statuses
<1>3. CASE AfterUnlockFn(t, l)
    <2>1. pc[t] = "decrement" /\ Return(t, l, "LS_RELEASE_NOW") /\ depth' = depth
        BY <1>3 DEF AfterUnlockFn, At
    <2>2. decided[t] = "LS_RELEASE_NOW"
        BY <2>1 DEF decided
    <2> QED
        BY <1>1, <2>1, <2>2, ReturnStutters DEF Statuses
<1> QED
    BY <1>2, <1>3

(***************************************************************************)
(* LS_HYBRID keeps the shield's promise: with a malloc that succeeds and   *)
(* callers that keep reentrant = false for their only hold, every call     *)
(* takes, nests, gives up or rejects exactly as RefCountedLock allows.     *)
(***************************************************************************)
THEOREM ImplementsRefCountedLock ==
    ASSUME ~MixFlags, ~MallocFails
    PROVE  Spec => KeepsThePromise
PROOF
<1>1. Init => Promise!Init
    BY DEF Init, ClientInit, Promise!Init, decided
<1>2. IInv /\ [Next]_vars => [Promise!Next]_Promise!vars
    <2> SUFFICES ASSUME IInv, [Next]_vars
                 PROVE  [Promise!Next]_Promise!vars
        OBVIOUS
    <2>1. CASE UNCHANGED vars
        BY <2>1 DEF vars, clientVars, Promise!vars, decided
    <2>2. CASE Next
        <3>1. PICK t \in Threads, l \in Locks :
                  \/ \E reentrant \in BOOLEAN : LS_ACQUIRE(t, l, reentrant)
                  \/ LockFn(t, l) /\ UNCHANGED tableVars
                  \/ AfterLockFn(t, l)
                  \/ \E reentrant \in BOOLEAN : LS_RELEASE(t, l, reentrant)
                  \/ UnlockFn(t, l) /\ UNCHANGED tableVars
                  \/ UnlockFirst(t, l) /\ UNCHANGED tableVars
                  \/ AfterUnlockFn(t, l)
            BY <2>2 DEF Next
        <3>2. CASE LockFn(t, l)
            BY <3>2, LockFnGrants DEF Promise!Next
        <3>3. CASE UnlockFn(t, l) \/ UnlockFirst(t, l)
            BY <3>3, UnlockFrees DEF Promise!Next
        <3>4. CASE AfterLockFn(t, l) \/ AfterUnlockFn(t, l)
            BY <3>4, AfterwardsStutters
        <3>5. CASE \E reentrant \in BOOLEAN :
                       \/ LS_ACQUIRE(t, l, reentrant)
                       \/ LS_RELEASE(t, l, reentrant)
            BY <3>5, AcquireKeepsPromise, ReleaseKeepsPromise
        <3> QED
            BY <3>1, <3>2, <3>3, <3>4, <3>5
    <2> QED
        BY <2>1, <2>2
<1> QED
    BY <1>1, <1>2, Invariance, PTL DEF Spec, Promise!Spec, KeepsThePromise

-----------------------------------------------------------------------------
(***************************************************************************)
(* The hash entries are conserved.  The lemmas that come first are         *)
(* about a list of pool entries and a hash table alone; they are then      *)
(* found in IncrementRef and DecrementRef.                                 *)
(***************************************************************************)

(* The pool entry s is in the list, once, and in no hash entry.            *)
OnList(list, hash, s) ==
    /\ \A m \in Locks : hash[m].slot # s
    /\ \E i \in 1 .. Len(list) :
           list[i] = s /\ \A j \in 1 .. Len(list) : list[j] = s => j = i

(* It is in use for one lock and not in the list.                          *)
InUse(list, hash, s) ==
    /\ \A i \in 1 .. Len(list) : list[i] # s
    /\ \E m \in Locks :
           hash[m].slot = s /\ \A k \in Locks : hash[k].slot = s => k = m

Conserved(list, hash) ==
    \A s \in PoolSlots : OnList(list, hash, s) \/ InUse(list, hash, s)

-----------------------------------------------------------------------------
(* The heap and no slot are not in the pool.                               *)
LEMMA OutsideThePool ==
    Heap \notin PoolSlots /\ NoSlot \notin PoolSlots /\ Heap # NoSlot
PROOF
    BY TableAssumption DEF PoolSlots, Heap, NoSlot

(* A table whose entries stay where they are conserves what it conserved.  *)
LEMMA SlotsKept ==
    ASSUME NEW list, NEW hash, NEW new, Conserved(list, hash),
           \A m \in Locks : \A s \in PoolSlots : new[m].slot = s <=> hash[m].slot = s
    PROVE  Conserved(list, new)
PROOF
<1> SUFFICES ASSUME NEW s \in PoolSlots
             PROVE  OnList(list, new, s) \/ InUse(list, new, s)
    BY DEF Conserved
<1>1. CASE OnList(list, hash, s)
    BY <1>1 DEF OnList
<1>2. CASE InUse(list, hash, s)
    BY <1>2 DEF InUse
<1> QED
    BY <1>1, <1>2 DEF Conserved

(***************************************************************************)
(* freelist_pop and HASH_ADD_PTR: the head of the list goes to a lock that *)
(* had no entry.                                                           *)
(***************************************************************************)
LEMMA Popped ==
    ASSUME NEW list \in Seq(PoolSlots), list # << >>, NEW hash, NEW new, NEW l \in Locks,
           Conserved(list, hash), hash[l].slot = NoSlot, new[l].slot = Head(list),
           \A m \in Locks \ {l} : new[m] = hash[m]
    PROVE  Conserved(Tail(list), new)
PROOF
<1> DEFINE rest == Tail(list)
           p == Head(list)
<1>1. /\ Len(list) \in Nat /\ Len(list) > 0 /\ Len(rest) = Len(list) - 1
      /\ p = list[1] /\ p \in PoolSlots
      /\ \A i \in 1 .. Len(rest) : i + 1 \in 1 .. Len(list) /\ rest[i] = list[i + 1]
    OBVIOUS
<1>2. \A s \in PoolSlots : s # NoSlot
    BY OutsideThePool
<1> HIDE DEF rest, p
<1> SUFFICES ASSUME NEW s \in PoolSlots
             PROVE  OnList(rest, new, s) \/ InUse(rest, new, s)
    BY DEF Conserved, rest
<1>3. CASE s = p
    <2>1. OnList(list, hash, s)
        BY <1>1, <1>3 DEF Conserved, InUse
    <2>2. \A m \in Locks : hash[m].slot # s
        BY <2>1 DEF OnList
    <2>3. \A i \in 1 .. Len(list) : list[i] = s => i = 1
        BY <1>1, <1>3, <2>1 DEF OnList
    <2>4. \A i \in 1 .. Len(rest) : rest[i] # s
        BY <1>1, <2>3
    <2>5. new[l].slot = s
        BY <1>3 DEF p
    <2> QED
        BY <2>2, <2>4, <2>5 DEF InUse
<1>4. CASE s # p /\ OnList(list, hash, s)
    <2>1. PICK i \in 1 .. Len(list) :
              list[i] = s /\ \A j \in 1 .. Len(list) : list[j] = s => j = i
        BY <1>4 DEF OnList
    <2>2. i # 1
        BY <1>1, <1>4, <2>1
    <2>3. i - 1 \in 1 .. Len(rest) /\ rest[i - 1] = s
        BY <1>1, <2>1, <2>2
    <2>4. \A j \in 1 .. Len(rest) : rest[j] = s => j = i - 1
        BY <1>1, <2>1
    <2>5. \A m \in Locks : new[m].slot # s
        BY <1>4 DEF OnList, p
    <2> QED
        BY <2>3, <2>4, <2>5 DEF OnList
<1>5. CASE s # p /\ InUse(list, hash, s)
    <2>1. \A i \in 1 .. Len(rest) : rest[i] # s
        BY <1>1, <1>5 DEF InUse
    <2>2. PICK m \in Locks :
              hash[m].slot = s /\ \A k \in Locks : hash[k].slot = s => k = m
        BY <1>5 DEF InUse
    <2>3. m # l
        BY <1>2, <2>2
    <2>4. new[m].slot = s /\ \A k \in Locks : new[k].slot = s => k = m
        BY <1>5, <2>2, <2>3 DEF p
    <2> QED
        BY <2>1, <2>4 DEF InUse
<1> QED
    BY <1>3, <1>4, <1>5 DEF Conserved

(***************************************************************************)
(* HASH_DEL and freelist_push: the entry of a lock goes back to the head.  *)
(***************************************************************************)
LEMMA Pushed ==
    ASSUME NEW list \in Seq(PoolSlots), NEW hash, NEW new, NEW l \in Locks,
           Conserved(list, hash), hash[l].slot \in PoolSlots, new[l].slot = NoSlot,
           \A m \in Locks \ {l} : new[m] = hash[m]
    PROVE  Conserved(<< hash[l].slot >> \o list, new)
PROOF
<1> DEFINE p == hash[l].slot
           longer == << p >> \o list
<1>1. /\ Len(list) \in Nat /\ Len(longer) = Len(list) + 1 /\ longer[1] = p
      /\ \A i \in 2 .. Len(longer) : i - 1 \in 1 .. Len(list) /\ longer[i] = list[i - 1]
      /\ \A i \in 1 .. Len(list) : i + 1 \in 1 .. Len(longer) /\ longer[i + 1] = list[i]
    OBVIOUS
<1>2. \A s \in PoolSlots : s # NoSlot
    BY OutsideThePool
<1> HIDE DEF longer
<1> SUFFICES ASSUME NEW s \in PoolSlots
             PROVE  OnList(longer, new, s) \/ InUse(longer, new, s)
    BY DEF Conserved, longer
<1>3. CASE s = p
    <2>1. InUse(list, hash, s)
        BY <1>3 DEF Conserved, OnList
    <2>2. /\ \A i \in 1 .. Len(list) : list[i] # s
          /\ \A k \in Locks : hash[k].slot = s => k = l
        BY <1>3, <2>1 DEF InUse
    <2>3. 1 \in 1 .. Len(longer) /\ longer[1] = s
        BY <1>1, <1>3
    <2>4. \A j \in 1 .. Len(longer) : longer[j] = s => j = 1
        BY <1>1, <2>2
    <2>5. \A m \in Locks : new[m].slot # s
        BY <1>2, <2>2
    <2> QED
        BY <2>3, <2>4, <2>5 DEF OnList
<1>4. CASE s # p /\ OnList(list, hash, s)
    <2>1. PICK i \in 1 .. Len(list) :
              list[i] = s /\ \A j \in 1 .. Len(list) : list[j] = s => j = i
        BY <1>4 DEF OnList
    <2>2. i + 1 \in 1 .. Len(longer) /\ longer[i + 1] = s
        BY <1>1, <2>1
    <2>3. ASSUME NEW j \in 1 .. Len(longer), longer[j] = s
          PROVE  j = i + 1
        <3>1. j \in 2 .. Len(longer)
            BY <1>1, <1>4, <2>3
        <3>2. j - 1 \in 1 .. Len(list) /\ list[j - 1] = s
            BY <1>1, <2>3, <3>1
        <3>3. j - 1 = i
            BY <2>1, <3>2
        <3> QED
            BY <3>1, <3>3
    <2>4. \A m \in Locks : new[m].slot # s
        BY <1>2, <1>4 DEF OnList
    <2> QED
        BY <2>2, <2>3, <2>4 DEF OnList
<1>5. CASE s # p /\ InUse(list, hash, s)
    <2>1. \A i \in 1 .. Len(longer) : longer[i] # s
        BY <1>1, <1>5 DEF InUse
    <2>2. PICK m \in Locks :
              hash[m].slot = s /\ \A k \in Locks : hash[k].slot = s => k = m
        BY <1>5 DEF InUse
    <2>3. m # l
        BY <1>5, <2>2
    <2>4. new[m].slot = s /\ \A k \in Locks : new[k].slot = s => k = m
        BY <1>2, <2>2, <2>3
    <2> QED
        BY <2>1, <2>4 DEF InUse
<1> QED
    BY <1>3, <1>4, <1>5 DEF Conserved

-----------------------------------------------------------------------------
(* The malloced entries that live are those in the hash table.             *)
HeapInOrderOf(t) == heap[t] = { m \in Locks : lock_hash[t][m].slot = Heap }

PoolInOrderOf(t) ==
    /\ HeapInOrderOf(t)
    /\ freelist_initialized[t] => Conserved(freelist[t], lock_hash[t])

(* The pool is handed out from its first cell on (init_freelist).          *)
LEMMA FreshPool == \A i \in Indices : PoolInOrder[i + 1] = i
PROOF
<1> SUFFICES ASSUME NEW i \in Indices PROVE PoolInOrder[i + 1] = i
    OBVIOUS
<1>1. \A k \in 1 .. MAX_HASH_ENTRIES : PoolInOrder[k] = k - 1
    BY DEF PoolInOrder
<1> DEFINE m == i + 1
<1>2. m \in 1 .. MAX_HASH_ENTRIES /\ m - 1 = i
    BY TableAssumption DEF Indices
<1>3. m = i + 1
    OBVIOUS
<1> HIDE DEF m
<1>4. PoolInOrder[m] = i
    BY <1>1, <1>2
<1> QED
    BY <1>3, <1>4

(***************************************************************************)
(* The migration hands out the first MAX_LOCKS entries of the fresh pool,  *)
(* one per cell, and leaves the others on the list (IncrementRef).         *)
(***************************************************************************)
LEMMA MigrateConserves ==
    ASSUME NEW t \in Threads, NEW l \in Locks,
           TableTypeOK, Shape(t), HeapInOrderOf(t), ~Recorded(t, l), MigrateToHash(t, l)
    PROVE  PoolInOrderOf(t)'
PROOF
<1> DEFINE n == lock_count[t]
           cells == NextCell(t, l)
           hash == MigratedHash(t, cells)
           rest == SubSeq(PoolInOrder, MAX_LOCKS + 1, MAX_HASH_ENTRIES)
<1>1. /\ n = MAX_LOCKS - 1 /\ n \in Indices /\ n \in Int
      /\ Indices = Used(t) \cup {n} /\ n \notin Used(t) /\ Indices \subseteq Int
    BY TableAssumption DEF Used, Indices, TableTypeOK, MigrateToHash
<1>0. ArrayMode(t)
    BY TableAssumption DEF MigrateToHash, ArrayMode, TableTypeOK
<1>2. /\ cells[n] = [lock_ptr |-> l, rec_count |-> 1]
      /\ \A j \in Used(t) : cells[j] = lock_table[t][j]
    BY <1>1 DEF TableTypeOK, NextCell, Cells
<1>3. FreelistReady(t) = PoolInOrder /\ Len(PoolInOrder) = MAX_HASH_ENTRIES
    <2>1. FreelistReady(t) = PoolInOrder
        BY <1>0 DEF FreelistReady, Shape, ArrayShape
    <2>2. Len(PoolInOrder) = MAX_HASH_ENTRIES
        BY TableAssumption DEF PoolInOrder
    <2> QED
        BY <2>1, <2>2
<1>4. lock_hash'[t] = hash /\ freelist'[t] = rest
    BY <1>3 DEF MigrateToHash, TableTypeOK
<1>5. \A i, j \in Indices : cells[i].lock_ptr = cells[j].lock_ptr => i = j
    <2>1. \A j \in Used(t) : cells[j].lock_ptr # l
        BY <1>0, <1>2 DEF Recorded, InArray
    <2> QED
        BY <1>0, <1>1, <1>2, <2>1 DEF Shape, ArrayShape
<1>6. \A i \in Indices : cells[i].lock_ptr \in Locks
    BY <1>0, <1>1, <1>2 DEF Shape, ArrayShape
<1>7. ASSUME NEW i \in Indices
      PROVE  hash[cells[i].lock_ptr].slot = i
    <2> DEFINE m == cells[i].lock_ptr
               k == CHOOSE j \in Indices : cells[j].lock_ptr = m
    <2>1. m \in Locks
        BY <1>6
    <2>2. k = i
        BY <1>5
    <2>3. hash[m] = [rec_count |-> cells[k].rec_count, slot |-> FreelistReady(t)[k + 1]]
        BY <2>1 DEF MigratedHash
    <2>4. PoolInOrder[i + 1] = i
        BY FreshPool
    <2> HIDE DEF m, k
    <2>5. hash[m].slot = i
        BY <1>3, <2>2, <2>3, <2>4
    <2> QED
        BY <2>5 DEF m
<1>8. ASSUME NEW m \in Locks, \A i \in Indices : cells[i].lock_ptr # m
      PROVE  hash[m].slot = NoSlot
    BY <1>0, <1>8 DEF MigratedHash, Shape, ArrayShape, NoEntry
<1>9. /\ Len(rest) = MAX_HASH_ENTRIES - MAX_LOCKS
      /\ \A i \in 1 .. Len(rest) : rest[i] = MAX_LOCKS + i - 1
    <2>1. PoolInOrder \in Seq(Nat) /\ MAX_LOCKS + 1 \in 1 .. (MAX_HASH_ENTRIES + 1)
        BY TableAssumption DEF PoolInOrder
    <2>2. \A i \in 1 .. MAX_HASH_ENTRIES : PoolInOrder[i] = i - 1
        BY DEF PoolInOrder
    <2>3. /\ Len(rest) = MAX_HASH_ENTRIES - MAX_LOCKS
          /\ \A i \in 1 .. Len(rest) : rest[i] = PoolInOrder[MAX_LOCKS + i]
        BY <1>3, <2>1, TableAssumption
    <2> QED
        BY <2>2, <2>3, TableAssumption
<1> HIDE DEF rest, hash, cells
<1>10. \A s \in PoolSlots : s # NoSlot
    BY OutsideThePool
<1>11. ASSUME NEW s \in PoolSlots
       PROVE  OnList(rest, hash, s) \/ InUse(rest, hash, s)
    <2>1. s \in Nat /\ s < MAX_HASH_ENTRIES
        BY TableAssumption DEF PoolSlots
    <2>2. CASE s < MAX_LOCKS
        <3>1. s \in Indices
            BY <2>1, <2>2, TableAssumption DEF Indices
        <3>2. \A i \in 1 .. Len(rest) : rest[i] # s
            BY <1>9, <2>1, <2>2, TableAssumption
        <3> DEFINE m == cells[s].lock_ptr
        <3>3. m \in Locks /\ hash[m].slot = s
            BY <1>6, <1>7, <3>1
        <3>4. \A k \in Locks : hash[k].slot = s => k = m
            BY <1>7, <1>8, <1>10, <3>1
        <3> QED
            BY <3>2, <3>3, <3>4 DEF InUse
    <2>3. CASE s >= MAX_LOCKS
        <3> DEFINE i == s - MAX_LOCKS + 1
        <3>1. i \in 1 .. Len(rest) /\ rest[i] = s
            BY <1>9, <2>1, <2>3, TableAssumption
        <3>2. \A j \in 1 .. Len(rest) : rest[j] = s => j = i
            BY <1>9, <2>1, TableAssumption
        <3>3. \A k \in Locks : hash[k].slot # s
            <4>1. \A j \in Indices : j # s
                BY <2>1, <2>3, TableAssumption DEF Indices
            <4> QED
                BY <1>7, <1>8, <1>10, <4>1
        <3> QED
            BY <3>1, <3>2, <3>3 DEF OnList
    <2> QED
        BY <2>1, <2>2, <2>3, TableAssumption
<1>12. HeapInOrderOf(t)'
    <2>1. \A m \in Locks : lock_hash[t][m].slot # Heap
        BY <1>0, OutsideThePool DEF Shape, ArrayShape, NoEntry
    <2>2. \A m \in Locks : hash[m].slot # Heap
        <3>1. \A i \in Indices : i # Heap
            BY TableAssumption DEF Indices, Heap
        <3> QED
            BY <1>7, <1>8, <3>1, OutsideThePool
    <2>3. heap' = heap
        BY DEF MigrateToHash
    <2> QED
        BY <1>4, <2>1, <2>2, <2>3 DEF HeapInOrderOf
<1> QED
    BY <1>4, <1>11, <1>12 DEF PoolInOrderOf, Conserved

(* Counting up or down moves no entry.                                     *)
LEMMA AdjustKeepsSlots ==
    ASSUME NEW t \in Threads, NEW l \in Locks, NEW change, TableTypeOK, Adjust(t, l, change)
    PROVE  \A m \in Locks : lock_hash'[t][m].slot = lock_hash[t][m].slot
PROOF
<1>1. CASE ArrayMode(t)
    BY <1>1 DEF Adjust
<1>2. CASE ~ArrayMode(t)
    <2>1. lock_hash' = [lock_hash EXCEPT ![t][l].rec_count = @ + change]
        BY <1>2 DEF Adjust
    <2>2. lock_hash[t] \in [Locks -> Entries] /\ lock_hash[t][l] \in Entries
        BY DEF TableTypeOK
    <2>3. lock_hash'[t] = [lock_hash[t] EXCEPT ![l].rec_count = @ + change]
        BY <2>1 DEF TableTypeOK
    <2>4. lock_hash'[t][l].slot = lock_hash[t][l].slot
        BY <2>2, <2>3 DEF Entries
    <2>5. \A m \in Locks \ {l} : lock_hash'[t][m] = lock_hash[t][m]
        BY <2>2, <2>3
    <2> QED
        BY <2>4, <2>5
<1> QED
    BY <1>1, <1>2

(* IncrementRef takes entries from the list for locks that have none.      *)
LEMMA IncrementRefConserves ==
    ASSUME NEW t \in Threads, NEW l \in Locks,
           TableTypeOK, Shape(t), PoolInOrderOf(t), IncrementRef(t, l)
    PROVE  PoolInOrderOf(t)'
PROOF
<1>1. CASE Adjust(t, l, 1)
    <2>1. /\ freelist' = freelist /\ freelist_initialized' = freelist_initialized
          /\ heap' = heap
        BY <1>1 DEF Adjust
    <2>2. \A m \in Locks : lock_hash'[t][m].slot = lock_hash[t][m].slot
        BY <1>1, AdjustKeepsSlots
    <2> QED
        BY <2>1, <2>2, SlotsKept DEF PoolInOrderOf, HeapInOrderOf
<1>2. CASE AppendToArray(t, l) \/ LoseRecord(t, l)
    BY <1>2 DEF AppendToArray, LoseRecord, tableVars, PoolInOrderOf, HeapInOrderOf
<1>3. CASE ~Recorded(t, l) /\ MigrateToHash(t, l)
    BY <1>3, MigrateConserves DEF PoolInOrderOf
<1>4. CASE ~Recorded(t, l) /\ AddToHash(t, l)
    <2>1. freelist_initialized[t] /\ ~ArrayMode(t)
        BY <1>4, TableAssumption DEF AddToHash, Shape, ArrayShape, HashShape, TableTypeOK
    <2>2. /\ FreelistReady(t) = freelist[t] /\ freelist[t] \in Seq(PoolSlots)
          /\ Conserved(freelist[t], lock_hash[t]) /\ lock_hash[t][l].slot = NoSlot
        BY <1>4, <2>1 DEF FreelistReady, TableTypeOK, PoolInOrderOf, Recorded, Hashed
    <2>3. CASE freelist[t] # << >>
        <3>1. /\ lock_hash'[t][l].slot = Head(freelist[t])
              /\ \A m \in Locks \ {l} : lock_hash'[t][m] = lock_hash[t][m]
              /\ freelist'[t] = Tail(freelist[t])
            <4>1. /\ lock_hash' = [lock_hash EXCEPT ![t][l] =
                         [rec_count |-> 1, slot |-> Head(freelist[t])]]
                  /\ freelist' = [freelist EXCEPT ![t] = Tail(freelist[t])]
                BY <1>4, <2>2, <2>3 DEF AddToHash
            <4> DEFINE entry == [rec_count |-> 1, slot |-> Head(freelist[t])]
                       rest == Tail(freelist[t])
            <4>2. entry.slot = Head(freelist[t])
                OBVIOUS
            <4>3. /\ lock_hash' = [lock_hash EXCEPT ![t][l] = entry]
                  /\ freelist' = [freelist EXCEPT ![t] = rest]
                BY <4>1
            <4> HIDE DEF entry, rest
            <4>4. /\ lock_hash'[t][l] = entry /\ freelist'[t] = rest
                  /\ \A m \in Locks \ {l} : lock_hash'[t][m] = lock_hash[t][m]
                BY <4>3 DEF TableTypeOK
            <4> QED
                BY <4>2, <4>4 DEF rest
        <3>2. Conserved(Tail(freelist[t]), lock_hash'[t])
            <4> DEFINE list == freelist[t]
                       hash == lock_hash[t]
                       new == lock_hash'[t]
            <4>1. /\ list \in Seq(PoolSlots) /\ list # << >> /\ Conserved(list, hash)
                  /\ hash[l].slot = NoSlot /\ new[l].slot = Head(list)
                  /\ \A m \in Locks \ {l} : new[m] = hash[m]
                BY <2>2, <2>3, <3>1
            <4> HIDE DEF list, hash, new
            <4>2. Conserved(Tail(list), new)
                BY <4>1, Popped
            <4> QED
                BY <4>2 DEF list, new
        <3>3. HeapInOrderOf(t)'
            <4>1. heap' = heap
                BY <1>4, <2>2, <2>3 DEF AddToHash
            <4>2. Head(freelist[t]) # Heap
                BY <2>2, <2>3, OutsideThePool
            <4>3. \A m \in Locks : lock_hash'[t][m].slot = Heap <=> lock_hash[t][m].slot = Heap
                BY <2>2, <3>1, <4>2, OutsideThePool
            <4> QED
                BY <4>1, <4>3 DEF HeapInOrderOf, PoolInOrderOf
        <3> QED
            BY <3>1, <3>2, <3>3 DEF PoolInOrderOf
    <2>4. CASE freelist[t] = << >>
        <3>1. /\ lock_hash'[t][l].slot = Heap
              /\ \A m \in Locks \ {l} : lock_hash'[t][m] = lock_hash[t][m]
              /\ freelist'[t] = freelist[t]
            BY <1>4, <2>2, <2>4 DEF AddToHash, TableTypeOK
        <3>2. Conserved(freelist[t], lock_hash'[t])
            BY <2>2, <3>1, SlotsKept, OutsideThePool
        <3>3. HeapInOrderOf(t)'
            <4>1. heap'[t] = heap[t] \cup {l}
                BY <1>4, <2>2, <2>4 DEF AddToHash, TableTypeOK
            <4> QED
                BY <3>1, <4>1 DEF HeapInOrderOf, PoolInOrderOf
        <3> QED
            BY <3>1, <3>2, <3>3 DEF PoolInOrderOf
    <2> QED
        BY <2>3, <2>4
<1> QED
    BY <1>1, <1>2, <1>3, <1>4 DEF IncrementRef

(* DecrementRef gives them back, except to the heap.                       *)
LEMMA DecrementRefConserves ==
    ASSUME NEW t \in Threads, NEW l \in Locks,
           TableTypeOK, Shape(t), Recorded(t, l), PoolInOrderOf(t), DecrementRef(t, l)
    PROVE  PoolInOrderOf(t)'
PROOF
<1>1. CASE Adjust(t, l, -1)
    <2>1. /\ freelist' = freelist /\ freelist_initialized' = freelist_initialized
          /\ heap' = heap
        BY <1>1 DEF Adjust
    <2>2. \A m \in Locks : lock_hash'[t][m].slot = lock_hash[t][m].slot
        BY <1>1, AdjustKeepsSlots
    <2> QED
        BY <2>1, <2>2, SlotsKept DEF PoolInOrderOf, HeapInOrderOf
<1>2. CASE RemoveFromArray(t, l)
    BY <1>2 DEF RemoveFromArray, PoolInOrderOf, HeapInOrderOf
<1>3. CASE RemoveFromHash(t, l)
    <2>1. freelist_initialized[t] /\ freelist[t] \in Seq(PoolSlots)
        BY <1>3 DEF RemoveFromHash, Shape, HashShape, TableTypeOK
    <2>2. /\ Conserved(freelist[t], lock_hash[t])
          /\ lock_hash[t][l].slot \in PoolSlots \cup {Heap}
        BY <1>3, <2>1 DEF RemoveFromHash, PoolInOrderOf, TableTypeOK, Entries, Recorded, Hashed
    <2>3. /\ lock_hash'[t][l].slot = NoSlot
          /\ \A m \in Locks \ {l} : lock_hash'[t][m] = lock_hash[t][m]
        BY <1>3 DEF RemoveFromHash, TableTypeOK, NoEntry
    <2>4. CASE lock_hash[t][l].slot = Heap
        <3>1. freelist'[t] = freelist[t]
            BY <1>3, <2>4 DEF RemoveFromHash, TableTypeOK
        <3>2. Conserved(freelist[t], lock_hash'[t])
            BY <2>2, <2>3, <2>4, SlotsKept, OutsideThePool
        <3>3. HeapInOrderOf(t)'
            <4>1. heap'[t] = heap[t] \ {l}
                BY <1>3, <2>4 DEF RemoveFromHash, TableTypeOK
            <4> QED
                BY <2>3, <4>1, OutsideThePool DEF HeapInOrderOf, PoolInOrderOf
        <3> QED
            BY <3>1, <3>2, <3>3 DEF PoolInOrderOf
    <2>5. CASE lock_hash[t][l].slot # Heap
        <3>1. freelist'[t] = << lock_hash[t][l].slot >> \o freelist[t]
            BY <1>3, <2>5 DEF RemoveFromHash, TableTypeOK
        <3>2. Conserved(<< lock_hash[t][l].slot >> \o freelist[t], lock_hash'[t])
            BY <2>1, <2>2, <2>3, <2>5, Pushed
        <3>3. HeapInOrderOf(t)'
            <4>1. heap' = heap
                BY <1>3, <2>5 DEF RemoveFromHash
            <4>2. \A m \in Locks : lock_hash'[t][m].slot = Heap <=> lock_hash[t][m].slot = Heap
                BY <2>3, <2>5, OutsideThePool
            <4> QED
                BY <4>1, <4>2 DEF HeapInOrderOf, PoolInOrderOf
        <3> QED
            BY <3>1, <3>2, <3>3 DEF PoolInOrderOf
    <2> QED
        BY <2>4, <2>5
<1> QED
    BY <1>1, <1>2, <1>3 DEF DecrementRef

(* A thread's table and freelist are its own.                              *)
LEMMA OthersPoolUntouched ==
    ASSUME NEW t \in Threads, NEW l \in Locks, TableTypeOK,
           IncrementRef(t, l) \/ DecrementRef(t, l), NEW s \in Threads \ {t}
    PROVE  PoolInOrderOf(s)' <=> PoolInOrderOf(s)
PROOF
<1>1. /\ freelist'[s] = freelist[s] /\ lock_hash'[s] = lock_hash[s]
      /\ freelist_initialized'[s] = freelist_initialized[s] /\ heap'[s] = heap[s]
    BY DEF IncrementRef, DecrementRef, Adjust, AppendToArray, MigrateToHash, AddToHash,
           LoseRecord, RemoveFromArray, RemoveFromHash, tableVars, TableTypeOK
<1> QED
    BY <1>1 DEF PoolInOrderOf, HeapInOrderOf

(* Every step conserves every pool.                                        *)
LEMMA NextConserves ==
    ASSUME IInv, [Next]_vars, \A u \in Threads : PoolInOrderOf(u), NEW s \in Threads
    PROVE  PoolInOrderOf(s)'
PROOF
<1>1. TableTypeOK
    BY DEF IInv, TypeOK, TableTypeOK
<1>2. CASE UNCHANGED tableVars
    BY <1>2 DEF tableVars, PoolInOrderOf, HeapInOrderOf
<1>3. CASE \E t \in Threads, l \in Locks : IncrementRef(t, l)
    <2>1. PICK t \in Threads, l \in Locks : IncrementRef(t, l)
        BY <1>3
    <2>2. Shape(t)
        BY DEF IInv, ThreadInOrder
    <2> QED
        BY <1>1, <2>1, <2>2, IncrementRefConserves, OthersPoolUntouched
<1>4. CASE \E t \in Threads, l \in Locks : Recorded(t, l) /\ DecrementRef(t, l)
    <2>1. PICK t \in Threads, l \in Locks : Recorded(t, l) /\ DecrementRef(t, l)
        BY <1>4
    <2>2. Shape(t)
        BY DEF IInv, ThreadInOrder
    <2> QED
        BY <1>1, <2>1, <2>2, DecrementRefConserves, OthersPoolUntouched
<1>5. ASSUME NEW t \in Threads, NEW l \in Locks, AfterUnlockFn(t, l)
      PROVE  Recorded(t, l)
    BY <1>5, CallUnderWay DEF AfterUnlockFn, CallInOrder, PCs
<1> QED
    BY <1>2, <1>3, <1>4, <1>5
       DEF Next, vars, LS_ACQUIRE, AfterLockFn, LS_RELEASE, AfterUnlockFn

-----------------------------------------------------------------------------
(***************************************************************************)
(* No entry of the pool is ever lost or in use twice, and a malloced one   *)
(* is freed when it leaves the hash table and not before, whatever calls   *)
(* are made and whether or not malloc fails (freelist_pop, HASH_DEL,       *)
(* freelist_push, the migration in IncrementRef).                          *)
(***************************************************************************)
THEOREM PoolNeverLeaks ==
    ASSUME ~MixFlags
    PROVE  Spec => []PoolConserved
PROOF
<1> DEFINE PoolInv == \A t \in Threads : PoolInOrderOf(t)
<1>1. Init => PoolInv
    <2> SUFFICES ASSUME Init, NEW t \in Threads PROVE PoolInOrderOf(t)
        OBVIOUS
    <2>1. ~freelist_initialized[t] /\ heap[t] = {}
        BY DEF Init
    <2>2. \A m \in Locks : lock_hash[t][m].slot # Heap
        BY OutsideThePool DEF Init, NoEntry
    <2> QED
        BY <2>1, <2>2 DEF PoolInOrderOf, HeapInOrderOf
<1>2. IInv /\ PoolInv /\ [Next]_vars => PoolInv'
    BY NextConserves
<1>3. PoolInv => PoolConserved
    <2> SUFFICES ASSUME PoolInv, NEW t \in Threads, freelist_initialized[t],
                        NEW s \in PoolSlots
                 PROVE  LET onList == { i \in 1 .. Len(freelist[t]) : freelist[t][i] = s }
                            inHash == { l \in Locks : lock_hash[t][l].slot = s }
                        IN  \/ inHash = {} /\ \E i \in onList : onList = {i}
                            \/ onList = {} /\ \E l \in inHash : inHash = {l}
        BY DEF PoolConserved, PoolInOrderOf, HeapInOrderOf
    <2> DEFINE onList == { i \in 1 .. Len(freelist[t]) : freelist[t][i] = s }
               inHash == { l \in Locks : lock_hash[t][l].slot = s }
    <2>1. OnList(freelist[t], lock_hash[t], s) \/ InUse(freelist[t], lock_hash[t], s)
        BY DEF PoolInOrderOf, Conserved
    <2>2. CASE OnList(freelist[t], lock_hash[t], s)
        <3>1. inHash = {}
            BY <2>2 DEF OnList
        <3>2. PICK i \in 1 .. Len(freelist[t]) :
                  /\ freelist[t][i] = s
                  /\ \A j \in 1 .. Len(freelist[t]) : freelist[t][j] = s => j = i
            BY <2>2 DEF OnList
        <3>3. i \in onList /\ onList = {i}
            BY <3>2
        <3> QED
            BY <3>1, <3>3
    <2>3. CASE InUse(freelist[t], lock_hash[t], s)
        <3>1. onList = {}
            BY <2>3 DEF InUse
        <3>2. PICK m \in Locks :
                  /\ lock_hash[t][m].slot = s
                  /\ \A k \in Locks : lock_hash[t][k].slot = s => k = m
            BY <2>3 DEF InUse
        <3>3. m \in inHash /\ inHash = {m}
            BY <3>2
        <3> QED
            BY <3>1, <3>3
    <2> QED
        BY <2>1, <2>2, <2>3
<1> QED
    BY <1>1, <1>2, <1>3, Invariance, PTL DEF Spec
=============================================================================
