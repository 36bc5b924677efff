-------------------------- MODULE ArrayShieldProofs --------------------------
(***************************************************************************)
(* Proofs about ArrayShield, for every value of its constants.             *)
(*                                                                         *)
(* The argument is HybridShieldProofs', with one array and no hash table.  *)
(* What is new is the room: a lock that finds the array full is left out   *)
(* of it, so what depends on complete records is proved for callers that   *)
(* hold no more locks at once than the array has cells (Roomy).            *)
(***************************************************************************)
EXTENDS ArrayShield, ShieldClientProofs, FiniteSetTheorems

(* The callers hold no more locks than the array has cells.                *)
Roomy == MaxHeld <= MAX_LOCKS

TableTypeOK ==
    /\ lock_count \in [Threads -> 0 .. MAX_LOCKS]
    /\ lock_table \in [Threads -> [Indices -> Cells]]

(* The cells in use hold distinct locks, each counted at least once.       *)
Shape(t) ==
    /\ \A i \in Used(t) :
           lock_table[t][i].lock_ptr \in Locks /\ lock_table[t][i].rec_count >= 1
    /\ \A i, j \in Used(t) :
           lock_table[t][i].lock_ptr = lock_table[t][j].lock_ptr => i = j

(* The table of thread s is not touched.                                   *)
SameTable(s) ==
    lock_count'[s] = lock_count[s] /\ lock_table'[s] = lock_table[s]

(* What a table operation of t on l may do to the rest.                    *)
OthersUntouched(t, l) ==
    /\ \A s \in Threads \ {t} : SameTable(s)
    /\ \A m \in Locks \ {l} :
           (Recorded(t, m)' <=> Recorded(t, m)) /\ RefCount(t, m)' = RefCount(t, m)

-----------------------------------------------------------------------------
(***************************************************************************)
(* lookup in an array of the right shape: a lock is in one cell only, and  *)
(* that cell is the one found (the loop of lookup).                        *)
(***************************************************************************)
LEMMA CellFound ==
    \A t \in Threads, l \in Locks, i \in Int :
        Shape(t) /\ i \in Used(t) /\ lock_table[t][i].lock_ptr = l
            => /\ Recorded(t, l)
               /\ IndexOf(t, l) = i
               /\ RefCount(t, l) = lock_table[t][i].rec_count
PROOF
<1> SUFFICES ASSUME NEW t \in Threads, NEW l \in Locks, NEW i \in Int,
                    Shape(t), i \in Used(t), lock_table[t][i].lock_ptr = l
             PROVE  /\ Recorded(t, l)
                    /\ IndexOf(t, l) = i
                    /\ RefCount(t, l) = lock_table[t][i].rec_count
    OBVIOUS
<1>1. \A j \in Used(t) : lock_table[t][j].lock_ptr = l => j = i
    BY DEF Shape
<1>2. i <= i
    OBVIOUS
<1>3. IndexOf(t, l) = i
    BY <1>1, <1>2 DEF IndexOf
<1>4. Recorded(t, l)
    BY DEF Recorded
<1> QED
    BY <1>3, <1>4 DEF RefCount

(* The cells in use are cells of the array.                                *)
LEMMA UsedCells ==
    ASSUME NEW t \in Threads, TableTypeOK
    PROVE  /\ lock_count[t] \in 0 .. MAX_LOCKS
           /\ Used(t) \subseteq Indices /\ Used(t) \subseteq Int
PROOF
    BY ArrayAssumption DEF TableTypeOK, Used, Indices

(***************************************************************************)
(* A lock that lookup does not find counts nothing; one that it finds      *)
(* counts something (lookup's NULL).                                       *)
(***************************************************************************)
LEMMA CountWhenRecorded ==
    \A t \in Threads, l \in Locks :
        TableTypeOK /\ Shape(t) =>
            /\ RefCount(t, l) \in Nat
            /\ Recorded(t, l) <=> RefCount(t, l) > 0
PROOF
<1> SUFFICES ASSUME NEW t \in Threads, NEW l \in Locks, TableTypeOK, Shape(t)
             PROVE  /\ RefCount(t, l) \in Nat
                    /\ Recorded(t, l) <=> RefCount(t, l) > 0
    OBVIOUS
<1>1. CASE Recorded(t, l)
    <2>1. PICK i \in Used(t) : lock_table[t][i].lock_ptr = l
        BY <1>1 DEF Recorded
    <2>2. i \in Indices /\ i \in Int
        BY UsedCells
    <2>3. lock_table[t][i].rec_count \in Nat /\ lock_table[t][i].rec_count >= 1
        BY <2>2 DEF Shape, TableTypeOK, Cells
    <2> QED
        BY <2>1, <2>2, <2>3, CellFound
<1>2. CASE ~Recorded(t, l)
    BY <1>2 DEF RefCount
<1> QED
    BY <1>1, <1>2

(***************************************************************************)
(* A thread whose table is not touched finds in it what it found.          *)
(***************************************************************************)
LEMMA UntouchedTable ==
    ASSUME NEW s \in Threads, SameTable(s)
    PROVE  /\ Shape(s)' <=> Shape(s)
           /\ \A m \in Locks :
                  (Recorded(s, m)' <=> Recorded(s, m)) /\ RefCount(s, m)' = RefCount(s, m)
PROOF
<1>1. Used(s)' = Used(s)
    BY DEF SameTable, Used
<1>2. Shape(s)' <=> Shape(s)
    BY <1>1 DEF SameTable, Shape
<1>3. ASSUME NEW m \in Locks
      PROVE  (Recorded(s, m)' <=> Recorded(s, m)) /\ IndexOf(s, m)' = IndexOf(s, m)
    BY <1>1 DEF SameTable, Recorded, IndexOf
<1> QED
    BY <1>2, <1>3 DEF SameTable, RefCount

-----------------------------------------------------------------------------
(***************************************************************************)
(* rec_count++ and rec_count-- of the cell that lookup returned.           *)
(***************************************************************************)
LEMMA AdjustEffect ==
    ASSUME NEW t \in Threads, NEW l \in Locks, NEW change \in {1, -1},
           TableTypeOK, Shape(t),
           Recorded(t, l), RefCount(t, l) + change > 0, Adjust(t, l, change)
    PROVE  /\ TableTypeOK' /\ Shape(t)'
           /\ RefCount(t, l)' = RefCount(t, l) + change
           /\ OthersUntouched(t, l)
PROOF
<1>1. lock_count' = lock_count /\ Used(t)' = Used(t)
    BY DEF Adjust, Used
<1>2. PICK i \in Used(t) : lock_table[t][i].lock_ptr = l
    BY DEF Recorded
<1>3. i \in Indices /\ i \in Int /\ Used(t) \subseteq Indices /\ Used(t) \subseteq Int
    BY UsedCells
<1>4. IndexOf(t, l) = i /\ RefCount(t, l) = lock_table[t][i].rec_count
    BY <1>2, <1>3, CellFound
<1>5. lock_table' = [lock_table EXCEPT ![t][i].rec_count = @ + change]
    BY <1>4 DEF Adjust
<1>6. lock_table[t][i] \in Cells /\ lock_table[t][i].rec_count + change \in Nat
    BY <1>3, <1>4 DEF TableTypeOK, Cells
<1>7. /\ lock_table'[t][i] = [lock_ptr |-> l, rec_count |-> lock_table[t][i].rec_count + change]
      /\ \A j \in Indices \ {i} : lock_table'[t][j] = lock_table[t][j]
      /\ \A s \in Threads \ {t} : lock_table'[s] = lock_table[s]
    BY <1>2, <1>3, <1>5, <1>6 DEF TableTypeOK, Cells
<1>8. TableTypeOK'
    BY <1>1, <1>3, <1>5, <1>6 DEF TableTypeOK, Cells
<1>9. Shape(t)'
    <2>1. \A j \in Indices : lock_table'[t][j].lock_ptr = lock_table[t][j].lock_ptr
        BY <1>2, <1>7
    <2>2. lock_table'[t][i].rec_count >= 1
        BY <1>4, <1>6, <1>7
    <2>3. \A j \in Used(t) : lock_table'[t][j].rec_count >= 1
        BY <1>3, <1>7, <2>2 DEF Shape
    <2> QED
        BY <1>1, <1>3, <2>1, <2>3 DEF Shape
<1>10. ASSUME NEW m \in Locks, NEW j \in Used(t), lock_table[t][j].lock_ptr = m
       PROVE  /\ Recorded(t, m) /\ Recorded(t, m)'
              /\ RefCount(t, m) = lock_table[t][j].rec_count
              /\ RefCount(t, m)' = lock_table'[t][j].rec_count
    <2>1. CellFound'
        BY CellFound, PTL
    <2>2. j \in Used(t)' /\ lock_table'[t][j].lock_ptr = m
        BY <1>1, <1>2, <1>3, <1>7, <1>10
    <2>3. Recorded(t, m)' /\ RefCount(t, m)' = lock_table'[t][j].rec_count
        BY <1>3, <1>9, <2>1, <2>2
    <2> QED
        BY <1>3, <1>10, <2>3, CellFound
<1>11. RefCount(t, l)' = RefCount(t, l) + change
    BY <1>2, <1>7, <1>10
<1>12. ASSUME NEW m \in Locks \ {l}
       PROVE  (Recorded(t, m)' <=> Recorded(t, m)) /\ RefCount(t, m)' = RefCount(t, m)
    <2>1. CASE Recorded(t, m)
        BY <1>2, <1>3, <1>7, <1>10, <2>1 DEF Recorded
    <2>2. CASE ~Recorded(t, m)
        <3>1. ~Recorded(t, m)'
            BY <1>1, <1>2, <1>3, <1>7, <2>2 DEF Recorded
        <3> QED
            BY <2>2, <3>1 DEF RefCount
    <2> QED
        BY <2>1, <2>2
<1> QED
    BY <1>1, <1>7, <1>8, <1>9, <1>11, <1>12 DEF OthersUntouched, SameTable

(* A new cell at lock_count (IncrementRef while the array has room).       *)
Append(t, l) ==
    /\ lock_count[t] < MAX_LOCKS
    /\ lock_table' = [lock_table EXCEPT ![t][lock_count[t]] =
                         [lock_ptr |-> l, rec_count |-> 1]]
    /\ lock_count' = [lock_count EXCEPT ![t] = @ + 1]

(* It records the lock, held once, and disturbs no other.                  *)
LEMMA AppendEffect ==
    ASSUME NEW t \in Threads, NEW l \in Locks,
           TableTypeOK, Shape(t), ~Recorded(t, l), Append(t, l)
    PROVE  /\ TableTypeOK' /\ Shape(t)'
           /\ Recorded(t, l)' /\ RefCount(t, l)' = 1
           /\ OthersUntouched(t, l)
PROOF
<1> DEFINE n == lock_count[t]
<1>1. /\ n \in Indices /\ n \in Int /\ n + 1 \in 0 .. MAX_LOCKS
      /\ Used(t) \subseteq Indices /\ Used(t) \subseteq Int /\ n \notin Used(t)
    BY UsedCells, ArrayAssumption DEF Used, Indices, Append
<1>2. /\ lock_count' = [lock_count EXCEPT ![t] = n + 1]
      /\ lock_table' = [lock_table EXCEPT ![t][n] = [lock_ptr |-> l, rec_count |-> 1]]
    BY DEF Append
<1>3. lock_count'[t] = n + 1
    BY <1>2 DEF TableTypeOK
<1>4. Used(t)' = Used(t) \cup {n}
    BY <1>1, <1>3, UsedCells DEF Used
<1>5. /\ lock_table'[t][n] = [lock_ptr |-> l, rec_count |-> 1]
      /\ \A j \in Used(t) : lock_table'[t][j] = lock_table[t][j]
      /\ \A s \in Threads \ {t} : lock_table'[s] = lock_table[s] /\ lock_count'[s] = lock_count[s]
    BY <1>1, <1>2 DEF TableTypeOK
<1>6. TableTypeOK'
    <2>1. [lock_ptr |-> l, rec_count |-> 1] \in Cells
        BY DEF Cells
    <2> HIDE DEF n
    <2> QED
        BY <1>1, <1>2, <2>1 DEF TableTypeOK
<1>7. \A j \in Used(t) : lock_table[t][j].lock_ptr # l
    BY DEF Recorded
<1>8. Shape(t)'
    <2>1. \A j \in Used(t)' :
              lock_table'[t][j].lock_ptr \in Locks /\ lock_table'[t][j].rec_count >= 1
        BY <1>4, <1>5 DEF Shape
    <2>2. \A i, j \in Used(t)' :
              lock_table'[t][i].lock_ptr = lock_table'[t][j].lock_ptr => i = j
        BY <1>4, <1>5, <1>7 DEF Shape
    <2> QED
        BY <2>1, <2>2 DEF Shape
<1>9. CellFound'
    BY CellFound, PTL
<1>10. Recorded(t, l)' /\ RefCount(t, l)' = 1
    BY <1>1, <1>4, <1>5, <1>8, <1>9
<1>11. ASSUME NEW m \in Locks \ {l}
       PROVE  (Recorded(t, m)' <=> Recorded(t, m)) /\ RefCount(t, m)' = RefCount(t, m)
    <2>1. CASE Recorded(t, m)
        <3>1. PICK j \in Used(t) : lock_table[t][j].lock_ptr = m
            BY <2>1 DEF Recorded
        <3>2. RefCount(t, m) = lock_table[t][j].rec_count
            BY <1>1, <3>1, CellFound
        <3>3. Recorded(t, m)' /\ RefCount(t, m)' = lock_table'[t][j].rec_count
            BY <1>1, <1>4, <1>5, <1>8, <1>9, <3>1
        <3> QED
            BY <1>5, <2>1, <3>2, <3>3
    <2>2. CASE ~Recorded(t, m)
        <3>1. ~Recorded(t, m)'
            BY <1>4, <1>5, <2>2 DEF Recorded
        <3> QED
            BY <2>2, <3>1 DEF RefCount
    <2> QED
        BY <2>1, <2>2
<1> QED
    BY <1>5, <1>6, <1>8, <1>10, <1>11 DEF OthersUntouched, SameTable

(* lock_table[idx] = lock_table[--lock_count]                              *)
Remove(t, l) ==
    /\ lock_table' = [lock_table EXCEPT ![t][IndexOf(t, l)] =
                         lock_table[t][lock_count[t] - 1]]
    /\ lock_count' = [lock_count EXCEPT ![t] = @ - 1]

(***************************************************************************)
(* The hole left by a removed cell is filled with the last one, and no     *)
(* other lock is lost (DecrementRef).                                      *)
(***************************************************************************)
LEMMA RemoveEffect ==
    ASSUME NEW t \in Threads, NEW l \in Locks,
           TableTypeOK, Shape(t), Recorded(t, l), Remove(t, l)
    PROVE  /\ TableTypeOK' /\ Shape(t)' /\ ~Recorded(t, l)'
           /\ OthersUntouched(t, l)
PROOF
<1> DEFINE n == lock_count[t]
           last == n - 1
<1>1. PICK i \in Used(t) : lock_table[t][i].lock_ptr = l
    BY DEF Recorded
<1>2. /\ n \in 0 .. MAX_LOCKS /\ last \in 0 .. MAX_LOCKS
      /\ Used(t) = 0 .. last /\ Used(t) \subseteq Indices /\ Used(t) \subseteq Int
      /\ last \in Used(t) /\ i \in Int
    BY <1>1, UsedCells, ArrayAssumption DEF Used, Indices
<1>3. IndexOf(t, l) = i
    BY <1>1, <1>2, CellFound
<1>4. /\ lock_table' = [lock_table EXCEPT ![t][i] = lock_table[t][last]]
      /\ lock_count' = [lock_count EXCEPT ![t] = last]
    BY <1>3 DEF Remove
<1>5. lock_count'[t] = last /\ Used(t)' = Used(t) \ {last}
    BY <1>2, <1>4 DEF TableTypeOK, Used
<1>6. /\ lock_table'[t][i] = lock_table[t][last]
      /\ \A j \in Indices \ {i} : lock_table'[t][j] = lock_table[t][j]
      /\ \A s \in Threads \ {t} : SameTable(s)
    BY <1>1, <1>2, <1>4 DEF TableTypeOK, SameTable
<1>7. TableTypeOK'
    <2>1. lock_table[t][last] \in Cells /\ i \in Indices
        BY <1>1, <1>2 DEF TableTypeOK
    <2> HIDE DEF last
    <2> QED
        BY <1>2, <1>4, <2>1 DEF TableTypeOK
<1>8. \A j \in Used(t) : lock_table[t][j].lock_ptr = l => j = i
    BY <1>1 DEF Shape
(* Where the cell that is now in j came from.                              *)
<1>9. ASSUME NEW j \in Used(t)'
      PROVE  \E k \in Used(t) \ {i} :
                 /\ lock_table'[t][j] = lock_table[t][k]
                 /\ k = IF j = i THEN last ELSE j
    BY <1>1, <1>2, <1>5, <1>6
<1>10. Shape(t)'
    <2>1. \A j \in Used(t)' :
              lock_table'[t][j].lock_ptr \in Locks /\ lock_table'[t][j].rec_count >= 1
        BY <1>9 DEF Shape
    <2>2. ASSUME NEW j \in Used(t)', NEW k \in Used(t)',
                 lock_table'[t][j].lock_ptr = lock_table'[t][k].lock_ptr
          PROVE  j = k
        <3>1. PICK p \in Used(t) : /\ lock_table'[t][j] = lock_table[t][p]
                                   /\ p = IF j = i THEN last ELSE j
            BY <1>9
        <3>2. PICK q \in Used(t) : /\ lock_table'[t][k] = lock_table[t][q]
                                   /\ q = IF k = i THEN last ELSE k
            BY <1>9
        <3>3. p = q
            BY <2>2, <3>1, <3>2 DEF Shape
        <3>4. j # last /\ k # last
            BY <1>5
        <3> QED
            BY <3>1, <3>2, <3>3, <3>4
    <2> QED
        BY <2>1, <2>2 DEF Shape
<1>11. ~Recorded(t, l)'
    BY <1>8, <1>9 DEF Recorded
<1>12. CellFound'
    BY CellFound, PTL
<1>13. ASSUME NEW m \in Locks \ {l}
       PROVE  (Recorded(t, m)' <=> Recorded(t, m)) /\ RefCount(t, m)' = RefCount(t, m)
    <2>1. CASE Recorded(t, m)
        <3>1. PICK k \in Used(t) : lock_table[t][k].lock_ptr = m
            BY <2>1 DEF Recorded
        <3>2. RefCount(t, m) = lock_table[t][k].rec_count /\ k # i
            BY <1>1, <1>2, <3>1, CellFound
        <3>3. PICK j \in Used(t)' : lock_table'[t][j] = lock_table[t][k]
            <4>1. CASE k = last
                BY <1>1, <1>2, <1>5, <1>6, <3>2, <4>1
            <4>2. CASE k # last
                BY <1>2, <1>5, <1>6, <3>2, <4>2
            <4> QED
                BY <4>1, <4>2
        <3>4. Recorded(t, m)' /\ RefCount(t, m)' = lock_table'[t][j].rec_count
            BY <1>2, <1>5, <1>10, <1>12, <3>1, <3>3
        <3> QED
            BY <2>1, <3>2, <3>3, <3>4
    <2>2. CASE ~Recorded(t, m)
        <3>1. ~Recorded(t, m)'
            BY <1>9, <2>2 DEF Recorded
        <3> QED
            BY <2>2, <3>1 DEF RefCount
    <2> QED
        BY <2>1, <2>2
<1> QED
    BY <1>6, <1>7, <1>10, <1>11, <1>13 DEF OthersUntouched

-----------------------------------------------------------------------------
(***************************************************************************)
(* IncrementRef adds one to the count of its lock alone; only a full array *)
(* lets it leave a lock unrecorded.                                        *)
(***************************************************************************)
LEMMA IncrementRefEffect ==
    ASSUME NEW t \in Threads, NEW l \in Locks,
           TableTypeOK, Shape(t), IncrementRef(t, l)
    PROVE  /\ TableTypeOK' /\ Shape(t)' /\ OthersUntouched(t, l)
           /\ \/ Recorded(t, l)' /\ RefCount(t, l)' = RefCount(t, l) + 1
              \/ lock_count[t] >= MAX_LOCKS /\ ~Recorded(t, l) /\ ~Recorded(t, l)'
PROOF
<1>1. RefCount(t, l) \in Nat /\ (Recorded(t, l) <=> RefCount(t, l) > 0)
    BY CountWhenRecorded
<1>2. CASE Recorded(t, l) /\ Adjust(t, l, 1)
    <2>1. /\ TableTypeOK' /\ Shape(t)' /\ OthersUntouched(t, l)
          /\ RefCount(t, l)' = RefCount(t, l) + 1
        BY <1>1, <1>2, AdjustEffect
    <2>2. CountWhenRecorded'
        BY CountWhenRecorded, PTL
    <2>3. Recorded(t, l)'
        BY <1>1, <2>1, <2>2
    <2> QED
        BY <2>1, <2>3
<1>3. CASE ~Recorded(t, l) /\ Append(t, l)
    BY <1>1, <1>3, AppendEffect
<1>4. CASE ~Recorded(t, l) /\ lock_count[t] >= MAX_LOCKS /\ UNCHANGED tableVars
    <2>1. TableTypeOK' /\ \A s \in Threads : SameTable(s)
        BY <1>4 DEF tableVars, SameTable, TableTypeOK
    <2> QED
        BY <1>4, <2>1, UntouchedTable DEF OthersUntouched
<1> QED
    BY <1>2, <1>3, <1>4 DEF IncrementRef, Append

(***************************************************************************)
(* DecrementRef takes one from the count of its lock alone, and removes    *)
(* the cell when that was the last hold.                                   *)
(***************************************************************************)
LEMMA DecrementRefEffect ==
    ASSUME NEW t \in Threads, NEW l \in Locks,
           TableTypeOK, Shape(t), Recorded(t, l), DecrementRef(t, l)
    PROVE  /\ TableTypeOK' /\ Shape(t)' /\ OthersUntouched(t, l)
           /\ RefCount(t, l)' = RefCount(t, l) - 1
           /\ Recorded(t, l)' <=> ~LastHold(t, l)
PROOF
<1>1. RefCount(t, l) \in Nat /\ RefCount(t, l) > 0
    BY CountWhenRecorded
<1>2. CountWhenRecorded'
    BY CountWhenRecorded, PTL
<1>3. CASE ~LastHold(t, l) /\ Adjust(t, l, -1)
    <2>1. RefCount(t, l) + (-1) > 0
        BY <1>1, <1>3 DEF LastHold
    <2>2. /\ TableTypeOK' /\ Shape(t)' /\ OthersUntouched(t, l)
          /\ RefCount(t, l)' = RefCount(t, l) - 1
        BY <1>1, <1>3, <2>1, AdjustEffect
    <2> QED
        BY <1>1, <1>2, <1>3, <2>1, <2>2
<1>4. CASE LastHold(t, l) /\ Remove(t, l)
    <2>1. TableTypeOK' /\ Shape(t)' /\ OthersUntouched(t, l) /\ ~Recorded(t, l)'
        BY <1>4, RemoveEffect
    <2>2. RefCount(t, l) = 1
        BY <1>1, <1>4 DEF LastHold
    <2>3. RefCount(t, l)' = 0
        BY <1>2, <2>1
    <2> QED
        BY <1>4, <2>1, <2>2, <2>3
<1> QED
    BY <1>3, <1>4 DEF DecrementRef, Remove

-----------------------------------------------------------------------------
(***************************************************************************)
(* The inductive invariant.  RefCountExact and MutualExclusion are not     *)
(* inductive: that a thread's count never reaches zero while it owns the   *)
(* flag, nor stays positive when it does not, depends on where its call    *)
(* is, and what lookup returns depends on the shape of the table.          *)
(***************************************************************************)

(* What the table of t says of l; a record is missing only where the array *)
(* may be full.                                                            *)
Agrees(t, l) ==
    /\ Recorded(t, l) => RefCount(t, l) = Expected(t, l)
    /\ Roomy /\ Expected(t, l) > 0 => Recorded(t, l)

(* What t can rely on in the middle of a call on l.                        *)
CallInOrder(t, l) ==
    /\ pc[t] = "lock_fn" => ~Recorded(t, l)
    /\ pc[t] \in {"increment", "unlock_fn", "exited"} => depth[t][l] = 1
    /\ pc[t] = "unlock_first" => depth[t][l] = 1 /\ Recorded(t, l)
    /\ pc[t] = "decrement" => depth[t][l] = 0 /\ Recorded(t, l)

PanicInOrder(t) ==
    Roomy /\ pc[t] \in {"idle", "aborted"} =>
        /\ status[t] = "LS_UNBALANCED_LOCK" => depth[t][arg[t]] > 0
        /\ status[t] = "LS_UNBALANCED_UNLOCK" => depth[t][arg[t]] = 0

ThreadInOrder(t) ==
    /\ Shape(t)
    /\ \A l \in Locks : Agrees(t, l)
    /\ \A l \in Locks : arg[t] = l => CallInOrder(t, l)
    /\ PanicInOrder(t)

InOrder ==
    /\ TypeOK
    /\ OwnerHolds
    /\ \A t \in Threads : ThreadInOrder(t)

(***************************************************************************)
(* Another thread's call and table change nothing of what a thread relies  *)
(* on: the table is thread_local.                                          *)
(***************************************************************************)
LEMMA OtherThread ==
    ASSUME NEW t \in Threads, ClientFrame(t),
           NEW s \in Threads \ {t}, SameTable(s), ThreadInOrder(s)
    PROVE  ThreadInOrder(s)'
PROOF
<1>2. /\ Shape(s)'
      /\ \A m \in Locks :
             (Recorded(s, m)' <=> Recorded(s, m)) /\ RefCount(s, m)' = RefCount(s, m)
    BY UntouchedTable DEF ThreadInOrder
<1>3. depth'[s] = depth[s] /\ pc'[s] = pc[s] /\ arg'[s] = arg[s] /\ status'[s] = status[s]
    BY DEF ClientFrame
<1>4. \A m \in Locks : Expected(s, m)' = Expected(s, m)
    BY <1>3 DEF Expected
<1>5. \A m \in Locks : Agrees(s, m)'
    BY <1>2, <1>4 DEF Agrees, ThreadInOrder
<1>6. \A m \in Locks : arg'[s] = m => CallInOrder(s, m)'
    BY <1>2, <1>3 DEF CallInOrder, ThreadInOrder
<1>7. PanicInOrder(s)'
    BY <1>3 DEF PanicInOrder, ThreadInOrder
<1> QED
    BY <1>2, <1>5, <1>6, <1>7 DEF ThreadInOrder

(* Between calls, what lookup answers is the thread's depth; a lock is     *)
(* missing only where a record can have been lost.                         *)
LEMMA IdleTable ==
    ASSUME NEW t \in Threads, NEW l \in Locks, InOrder, pc[t] = "idle"
    PROVE  /\ depth[t][l] \in Nat
           /\ RefCount(t, l) \in Nat /\ (Recorded(t, l) <=> RefCount(t, l) > 0)
           /\ Recorded(t, l) => RefCount(t, l) = depth[t][l] /\ depth[t][l] > 0
           /\ Roomy /\ depth[t][l] > 0 => Recorded(t, l)
PROOF
<1>1. TableTypeOK /\ Shape(t) /\ Agrees(t, l) /\ depth[t][l] \in Nat
    BY DEF InOrder, TypeOK, TableTypeOK, ThreadInOrder, ClientTypeOK
<1>2. Expected(t, l) = depth[t][l]
    BY ExpectedByPlace
<1>3. RefCount(t, l) \in Nat /\ (Recorded(t, l) <=> RefCount(t, l) > 0)
    BY <1>1, CountWhenRecorded
<1> QED
    BY <1>1, <1>2, <1>3 DEF Agrees

(* The thread_local arrays start empty, in order.                          *)
LEMMA InitInOrder == Init => InOrder
PROOF
<1> SUFFICES ASSUME Init PROVE InOrder
    OBVIOUS
<1>1. TypeOK
    <2> USE ArrayAssumption DEF Init, ClientInit
    <2>1. ClientTypeOK
        BY DEF ClientTypeOK, PCs, Statuses
    <2>3. lock_table \in [Threads -> [Indices -> Cells]]
        BY DEF Cells
    <2>4. lock_count \in [Threads -> 0 .. MAX_LOCKS]
        OBVIOUS
    <2> QED
        BY <2>1, <2>3, <2>4 DEF TypeOK
<1>2. OwnerHolds
    <2> SUFFICES ASSUME NEW l \in Locks, NEW t \in Threads
                 PROVE  owner[l] = t <=> depth[t][l] > 0
        BY DEF OwnerHolds
    <2>1. owner[l] = NoThread /\ depth[t][l] = 0
        BY DEF Init, ClientInit
    <2>2. t # NoThread
        BY ClientAssumption
    <2> QED
        BY <2>1, <2>2
<1>3. ASSUME NEW t \in Threads PROVE ThreadInOrder(t)
    <2> USE ArrayAssumption DEF Init, ClientInit
    <2>1. Used(t) = {}
        BY DEF Used
    <2>2. Shape(t)
        BY <2>1 DEF Shape
    <2>3. \A l \in Locks : ~Recorded(t, l) /\ Expected(t, l) = 0
        BY <2>1 DEF Recorded, Expected
    <2> QED
        BY <2>2, <2>3 DEF ThreadInOrder, Agrees, CallInOrder, PanicInOrder
<1> QED
    BY <1>1, <1>2, <1>3 DEF InOrder

-----------------------------------------------------------------------------
(***************************************************************************)
(* The pieces every step is put together from.                             *)
(***************************************************************************)
LEMMA TableUnchanged ==
    ASSUME TableTypeOK, UNCHANGED tableVars
    PROVE  /\ TableTypeOK'
           /\ \A s \in Threads : SameTable(s)
           /\ \A s \in Threads :
                  /\ Shape(s)' <=> Shape(s)
                  /\ \A m \in Locks :
                         /\ Recorded(s, m)' <=> Recorded(s, m)
                         /\ RefCount(s, m)' = RefCount(s, m)
PROOF
<1>1. TableTypeOK' /\ \A s \in Threads : SameTable(s)
    BY DEF tableVars, TableTypeOK, SameTable
<1> QED
    BY <1>1, UntouchedTable

(* A step of one thread keeps the invariant when it leaves that thread in  *)
(* order: nobody else's call or table is touched (thread_local).           *)
LEMMA StepOfOneThread ==
    ASSUME InOrder, NEW t \in Threads,
           ClientTypeOK', TableTypeOK', OwnerHolds', ThreadInOrder(t)',
           ClientFrame(t), \A s \in Threads \ {t} : SameTable(s)
    PROVE  InOrder'
PROOF
<1>1. ASSUME NEW s \in Threads \ {t} PROVE ThreadInOrder(s)'
    BY OtherThread DEF InOrder
<1> QED
    BY <1>1 DEF InOrder, TypeOK, TableTypeOK

(***************************************************************************)
(* LS_ACQUIRE up to lock_fn: lookup, and the two answers it gives alone.   *)
(***************************************************************************)
LEMMA LS_ACQUIREStep ==
    ASSUME InOrder, NEW t \in Threads, NEW l \in Locks, NEW reentrant \in BOOLEAN,
           LS_ACQUIRE(t, l, reentrant)
    PROVE  InOrder'
PROOF
<1>1. /\ ClientTypeOK /\ TableTypeOK /\ OwnerHolds /\ Shape(t) /\ pc[t] = "idle"
      /\ \A m \in Locks : depth[t][m] \in Nat
    BY DEF InOrder, TypeOK, TableTypeOK, ClientTypeOK, ThreadInOrder, LS_ACQUIRE, Call
<1>2. ExpectedByPlace'
    BY ExpectedByPlace, PTL
<1>3. \A m \in Locks :
          /\ Recorded(t, m) => RefCount(t, m) = depth[t][m] /\ depth[t][m] > 0
          /\ Roomy /\ depth[t][m] > 0 => Recorded(t, m)
    BY <1>1, IdleTable
<1>4. CASE ~Recorded(t, l) /\ Proceed(t, l, "lock_fn") /\ UNCHANGED tableVars
    <2>1. /\ pc' \in [Threads -> PCs] /\ arg' \in [Threads -> Locks]
          /\ pc'[t] = "lock_fn" /\ arg'[t] = l
          /\ \A s \in Threads \ {t} : pc'[s] = pc[s] /\ arg'[s] = arg[s]
        BY <1>1, <1>4, GotoEffect DEF Proceed, PCs
    <2>2. owner' = owner /\ depth' = depth /\ status' = status
        BY <1>4 DEF Proceed
    <2>3. ClientTypeOK' /\ OwnerHolds' /\ ClientFrame(t)
        BY <1>1, <2>1, <2>2 DEF ClientTypeOK, OwnerHolds, ClientFrame
    <2>4. /\ TableTypeOK' /\ Shape(t)' /\ \A s \in Threads : SameTable(s)
          /\ \A m \in Locks : (Recorded(t, m)' <=> Recorded(t, m))
                              /\ RefCount(t, m)' = RefCount(t, m)
        BY <1>1, <1>4, TableUnchanged
    <2>5. \A m \in Locks : Expected(t, m)' = depth[t][m]
        BY <1>2, <2>1, <2>2
    <2>6. ThreadInOrder(t)'
        BY <1>3, <1>4, <2>1, <2>4, <2>5
           DEF ThreadInOrder, Agrees, CallInOrder, PanicInOrder
    <2> QED
        BY <2>3, <2>4, <2>6, StepOfOneThread
<1>5. CASE /\ Recorded(t, l) /\ IncrementRef(t, l)
           /\ Skip(t, l, depth[t][l] + 1, "LS_SKIP_ACQUISITION")
    <2>1. /\ pc' \in [Threads -> PCs] /\ arg' \in [Threads -> Locks]
          /\ status' \in [Threads -> Statuses]
          /\ pc'[t] = "idle" /\ arg'[t] = l /\ status'[t] = "LS_SKIP_ACQUISITION"
          /\ \A u \in Threads \ {t} :
                 pc'[u] = pc[u] /\ arg'[u] = arg[u] /\ status'[u] = status[u]
        BY <1>1, <1>5, ReturnEffect DEF Skip, Statuses
    <2>2. /\ owner' = owner /\ depth' \in [Threads -> [Locks -> Nat]]
          /\ depth'[t][l] = depth[t][l] + 1
          /\ \A m \in Locks \ {l} : depth'[t][m] = depth[t][m]
          /\ \A s \in Threads \ {t} : depth'[s] = depth[s]
        BY <1>1, <1>5 DEF Skip, ClientTypeOK
    <2>3. ClientTypeOK' /\ ClientFrame(t)
        BY <1>1, <2>1, <2>2 DEF ClientTypeOK, ClientFrame
    <2>4. OwnerHolds'
        <3> SUFFICES ASSUME NEW m \in Locks, NEW s \in Threads
                     PROVE  owner[m] = s <=> depth'[s][m] > 0
            BY <2>2 DEF OwnerHolds
        <3>1. (owner[m] = s <=> depth[s][m] > 0) /\ depth[t][l] > 0 /\ depth[t][l] \in Nat
            BY <1>1, <1>3, <1>5 DEF OwnerHolds
        <3>2. CASE s = t /\ m = l
            BY <2>2, <3>1, <3>2
        <3>3. CASE ~(s = t /\ m = l)
            BY <2>2, <3>1, <3>3
        <3> QED
            BY <3>2, <3>3
    <2>5. /\ TableTypeOK' /\ Shape(t)' /\ OthersUntouched(t, l)
          /\ Recorded(t, l)' /\ RefCount(t, l)' = RefCount(t, l) + 1
        BY <1>1, <1>5, IncrementRefEffect
    <2>6. \A m \in Locks : Expected(t, m)' = depth'[t][m]
        BY <1>2, <2>1
    <2>7. \A m \in Locks : Agrees(t, m)'
        BY <1>3, <1>5, <2>2, <2>5, <2>6 DEF Agrees, OthersUntouched
    <2>8. ThreadInOrder(t)'
        BY <2>1, <2>5, <2>7 DEF ThreadInOrder, CallInOrder, PanicInOrder
    <2> QED
        BY <2>3, <2>4, <2>5, <2>8, StepOfOneThread DEF OthersUntouched
<1>6. CASE /\ Recorded(t, l) /\ RejectMisuse(t, l, "LS_UNBALANCED_LOCK")
           /\ UNCHANGED tableVars
    <2>1. PICK place \in {"idle", "aborted"} : Goto(t, l, place)
        BY <1>6 DEF RejectMisuse
    <2>2. /\ pc' \in [Threads -> PCs] /\ arg' \in [Threads -> Locks]
          /\ pc'[t] = place /\ arg'[t] = l
          /\ \A s \in Threads \ {t} : pc'[s] = pc[s] /\ arg'[s] = arg[s]
        BY <1>1, <2>1, GotoEffect DEF PCs
    <2>3. /\ owner' = owner /\ depth' = depth
          /\ status' = [status EXCEPT ![t] = "LS_UNBALANCED_LOCK"]
        BY <1>6 DEF RejectMisuse
    <2>4. ClientTypeOK' /\ OwnerHolds' /\ ClientFrame(t)
        BY <1>1, <2>2, <2>3 DEF ClientTypeOK, OwnerHolds, ClientFrame, Statuses
    <2>5. /\ TableTypeOK' /\ Shape(t)' /\ \A s \in Threads : SameTable(s)
          /\ \A m \in Locks : (Recorded(t, m)' <=> Recorded(t, m))
                              /\ RefCount(t, m)' = RefCount(t, m)
        BY <1>1, <1>6, TableUnchanged
    <2>6. \A m \in Locks : Expected(t, m)' = depth[t][m]
        BY <1>2, <2>2, <2>3
    <2>7. PanicInOrder(t)'
        BY <1>1, <1>3, <1>6, <2>2, <2>3 DEF PanicInOrder, ClientTypeOK
    <2>8. ThreadInOrder(t)'
        BY <1>3, <2>2, <2>5, <2>6, <2>7 DEF ThreadInOrder, Agrees, CallInOrder
    <2> QED
        BY <2>4, <2>5, <2>8, StepOfOneThread
<1> QED
    BY <1>4, <1>5, <1>6 DEF LS_ACQUIRE

(***************************************************************************)
(* Inside a call, the table and the depth of its lock are as the place of  *)
(* the call says.                                                          *)
(***************************************************************************)
LEMMA CallUnderWay ==
    ASSUME NEW t \in Threads, NEW l \in Locks, NEW place \in PCs,
           InOrder, At(t, l, place)
    PROVE  /\ ClientTypeOK /\ TableTypeOK /\ OwnerHolds /\ Shape(t)
           /\ \A m \in Locks : depth[t][m] \in Nat /\ Agrees(t, m)
           /\ pc[t] = place /\ arg[t] = l /\ CallInOrder(t, l)
           /\ \A m \in Locks \ {l} : Expected(t, m) = depth[t][m]
           /\ \A m \in Locks :
                  RefCount(t, m) \in Nat /\ (Recorded(t, m) <=> RefCount(t, m) > 0)
PROOF
<1>1. /\ ClientTypeOK /\ TableTypeOK /\ OwnerHolds /\ Shape(t)
      /\ \A m \in Locks : depth[t][m] \in Nat /\ Agrees(t, m)
      /\ pc[t] = place /\ arg[t] = l /\ CallInOrder(t, l)
    BY DEF InOrder, TypeOK, TableTypeOK, ClientTypeOK, ThreadInOrder, At
<1>2. \A m \in Locks \ {l} : Expected(t, m) = depth[t][m]
    BY <1>1, ExpectedByPlace
<1>3. \A m \in Locks :
          RefCount(t, m) \in Nat /\ (Recorded(t, m) <=> RefCount(t, m) > 0)
    BY <1>1, CountWhenRecorded
<1> QED
    BY <1>1, <1>2, <1>3

-----------------------------------------------------------------------------
(***************************************************************************)
(* What t holds or is about to take.  MayHold bounds it when a call starts *)
(* and no later step of the call adds to it.                               *)
(***************************************************************************)
Burden(t) ==
    {m \in Locks : depth[t][m] > 0} \cup (IF pc[t] = "lock_fn" THEN {arg[t]} ELSE {})

InReach(t) == IsFiniteSet(Burden(t)) /\ Cardinality(Burden(t)) <= MaxHeld

IInv == InOrder /\ \A t \in Threads : InReach(t)

(***************************************************************************)
(* When IncrementRef comes to record a lock that callers within Roomy have *)
(* just taken, there is a cell for it: every cell in use holds another     *)
(* lock that the thread holds.                                             *)
(***************************************************************************)
LEMMA RoomLeft ==
    ASSUME Roomy, InOrder, NEW t \in Threads, NEW l \in Locks, InReach(t),
           At(t, l, "increment")
    PROVE  lock_count[t] < MAX_LOCKS
PROOF
<1> DEFINE others == Burden(t) \ {l}
           cell == [i \in Used(t) |-> lock_table[t][i].lock_ptr]
<1>1. /\ TableTypeOK /\ Shape(t) /\ pc[t] = "increment" /\ arg[t] = l
      /\ depth[t][l] = 1
      /\ \A m \in Locks : depth[t][m] \in Nat /\ Agrees(t, m)
    BY CallUnderWay DEF CallInOrder, PCs
<1>2. ~Recorded(t, l)
    <2>1. Expected(t, l) = 0
        BY <1>1, ExpectedByPlace
    <2>2. RefCount(t, l) \in Nat /\ (Recorded(t, l) <=> RefCount(t, l) > 0)
        BY <1>1, CountWhenRecorded
    <2> QED
        BY <1>1, <2>1, <2>2 DEF Agrees
<1>3. ASSUME NEW i \in Used(t)
      PROVE  cell[i] \in others
    <2>1. lock_table[t][i].lock_ptr \in Locks /\ i \in Int
        BY <1>1, UsedCells DEF Shape
    <2> DEFINE m == lock_table[t][i].lock_ptr
    <2>2. Recorded(t, m)
        BY DEF Recorded
    <2>3. m # l
        BY <1>2, <2>2
    <2>4. RefCount(t, m) > 0 /\ RefCount(t, m) = Expected(t, m)
        BY <1>1, <2>1, <2>2, CountWhenRecorded DEF Agrees
    <2>5. Expected(t, m) = depth[t][m]
        BY <1>1, <2>1, <2>3, ExpectedByPlace
    <2>6. m \in Burden(t)
        BY <2>1, <2>4, <2>5 DEF Burden
    <2> QED
        BY <2>3, <2>6
<1>4. cell \in Injection(Used(t), others)
    <2>1. cell \in [Used(t) -> others]
        BY <1>3
    <2>2. \A i, j \in Used(t) : cell[i] = cell[j] => i = j
        BY <1>1 DEF Shape
    <2> QED
        BY <2>1, <2>2 DEF Injection, IsInjective
<1>5. l \in Burden(t)
    BY <1>1 DEF Burden
<1>6. IsFiniteSet(others) /\ Cardinality(others) = Cardinality(Burden(t)) - 1
    BY <1>5, FS_RemoveElement DEF InReach
<1>7. Cardinality(Used(t)) <= Cardinality(others)
    BY <1>4, <1>6, FS_Injection
<1>8. lock_count[t] \in Nat /\ Cardinality(Used(t)) = lock_count[t]
    <2>1. lock_count[t] \in Nat
        BY <1>1, UsedCells
    <2>2. Cardinality(0 .. (lock_count[t] - 1)) =
              IF 0 > lock_count[t] - 1 THEN 0 ELSE lock_count[t] - 1 - 0 + 1
        BY <2>1, FS_Interval
    <2> QED
        BY <2>1, <2>2 DEF Used
<1>9. Cardinality(Burden(t)) \in Nat /\ Cardinality(Burden(t)) <= MaxHeld
    BY FS_CardinalityType DEF InReach
<1> QED
    BY <1>6, <1>7, <1>8, <1>9, ArrayAssumption DEF Roomy

(* lock_fn returns: the thread owns the lock, which nobody owned, and      *)
(* IncrementRef is still to come.                                          *)
LEMMA LockFnStep ==
    ASSUME InOrder, NEW t \in Threads, NEW l \in Locks,
           LockFn(t, l), UNCHANGED tableVars
    PROVE  InOrder'
PROOF
<1>1. /\ ClientTypeOK /\ TableTypeOK /\ OwnerHolds /\ Shape(t)
      /\ \A m \in Locks : depth[t][m] \in Nat /\ Agrees(t, m)
      /\ pc[t] = "lock_fn" /\ arg[t] = l /\ CallInOrder(t, l)
      /\ \A m \in Locks \ {l} : Expected(t, m) = depth[t][m]
    BY CallUnderWay DEF LockFn, PCs
<1>2. ExpectedByPlace'
    BY ExpectedByPlace, PTL
<1>3. /\ pc' \in [Threads -> PCs] /\ arg' \in [Threads -> Locks]
      /\ pc'[t] = "increment" /\ arg'[t] = l
      /\ \A s \in Threads \ {t} : pc'[s] = pc[s] /\ arg'[s] = arg[s]
    BY <1>1, GotoEffect DEF LockFn, PCs
<1>4. /\ owner' \in [Locks -> Threads \cup {NoThread}]
      /\ depth' \in [Threads -> [Locks -> Nat]] /\ depth'[t][l] = 1
      /\ \A m \in Locks \ {l} : depth'[t][m] = depth[t][m]
      /\ \A s \in Threads \ {t} : depth'[s] = depth[s]
      /\ OwnerHolds'
    BY <1>1, FlagRaised DEF LockFn
<1>5. ClientTypeOK' /\ ClientFrame(t)
    BY <1>1, <1>3, <1>4 DEF ClientTypeOK, ClientFrame, LockFn
<1>6. /\ TableTypeOK' /\ Shape(t)' /\ \A s \in Threads : SameTable(s)
      /\ \A m \in Locks : (Recorded(t, m)' <=> Recorded(t, m))
                          /\ RefCount(t, m)' = RefCount(t, m)
    BY <1>1, TableUnchanged
<1>7. /\ Expected(t, l)' = 0 /\ ~Recorded(t, l)
      /\ \A m \in Locks \ {l} : Expected(t, m)' = Expected(t, m)
    BY <1>1, <1>2, <1>3, <1>4 DEF CallInOrder
<1>8. \A m \in Locks : Agrees(t, m)'
    BY <1>1, <1>6, <1>7 DEF Agrees
<1>9. ThreadInOrder(t)'
    BY <1>3, <1>4, <1>6, <1>8 DEF ThreadInOrder, CallInOrder, PanicInOrder
<1> QED
    BY <1>4, <1>5, <1>6, <1>9, StepOfOneThread

(* IncrementRef after lock_fn: the table catches up with the depth.        *)
LEMMA AfterLockFnStep ==
    ASSUME InOrder, NEW t \in Threads, NEW l \in Locks, InReach(t), AfterLockFn(t, l)
    PROVE  InOrder'
PROOF
<1>1. /\ ClientTypeOK /\ TableTypeOK /\ OwnerHolds /\ Shape(t)
      /\ \A m \in Locks : depth[t][m] \in Nat /\ Agrees(t, m)
      /\ pc[t] = "increment" /\ arg[t] = l /\ CallInOrder(t, l)
      /\ \A m \in Locks \ {l} : Expected(t, m) = depth[t][m]
      /\ \A m \in Locks :
             RefCount(t, m) \in Nat /\ (Recorded(t, m) <=> RefCount(t, m) > 0)
    BY CallUnderWay DEF AfterLockFn, PCs
<1>2. ExpectedByPlace'
    BY ExpectedByPlace, PTL
<1>3. depth[t][l] = 1 /\ Expected(t, l) = 0 /\ ~Recorded(t, l) /\ RefCount(t, l) = 0
    BY <1>1, ExpectedByPlace DEF CallInOrder, Agrees
<1>4. CASE /\ IncrementRef(t, l) /\ Return(t, l, "LS_ACQUIRE_NOW")
           /\ UNCHANGED << owner, depth >>
    <2>1. /\ pc' \in [Threads -> PCs] /\ arg' \in [Threads -> Locks]
          /\ status' \in [Threads -> Statuses]
          /\ pc'[t] = "idle" /\ arg'[t] = l /\ status'[t] = "LS_ACQUIRE_NOW"
          /\ \A u \in Threads \ {t} :
                 pc'[u] = pc[u] /\ arg'[u] = arg[u] /\ status'[u] = status[u]
        BY <1>1, <1>4, ReturnEffect DEF Statuses
    <2>2. ClientTypeOK' /\ OwnerHolds' /\ ClientFrame(t)
        BY <1>1, <1>4, <2>1 DEF ClientTypeOK, OwnerHolds, ClientFrame
    <2>3. /\ TableTypeOK' /\ Shape(t)' /\ OthersUntouched(t, l)
          /\ \/ Recorded(t, l)' /\ RefCount(t, l)' = RefCount(t, l) + 1
             \/ ~Roomy /\ ~Recorded(t, l)'
        <3>1. Roomy => lock_count[t] < MAX_LOCKS
            BY RoomLeft DEF AfterLockFn
        <3>2. lock_count[t] \in Nat
            BY <1>1, UsedCells
        <3> QED
            BY <1>1, <1>4, <3>1, <3>2, ArrayAssumption, IncrementRefEffect
    <2>4. /\ Expected(t, l)' = 1
          /\ \A m \in Locks \ {l} : Expected(t, m)' = Expected(t, m)
        BY <1>1, <1>2, <1>3, <1>4, <2>1
    <2>5. Agrees(t, l)'
        BY <1>3, <2>3, <2>4 DEF Agrees
    <2>6. \A m \in Locks : Agrees(t, m)'
        BY <1>1, <2>3, <2>4, <2>5 DEF Agrees, OthersUntouched
    <2>7. ThreadInOrder(t)'
        BY <2>1, <2>3, <2>6 DEF ThreadInOrder, CallInOrder, PanicInOrder
    <2> QED
        BY <2>2, <2>3, <2>7, StepOfOneThread DEF OthersUntouched
<1> QED
    BY <1>4 DEF AfterLockFn

(***************************************************************************)
(* LS_RELEASE up to unlock_fn.  Only here is it needed that callers keep   *)
(* the reentrant flag for nested holds: a non-reentrant release of a lock  *)
(* held twice runs unlock_fn with a hold left (MixFlags).                  *)
(***************************************************************************)
LEMMA LS_RELEASEStep ==
    ASSUME InOrder, ~MixFlags,
           NEW t \in Threads, NEW l \in Locks, NEW reentrant \in BOOLEAN,
           LS_RELEASE(t, l, reentrant)
    PROVE  InOrder'
PROOF
<1>1. /\ ClientTypeOK /\ TableTypeOK /\ OwnerHolds /\ Shape(t) /\ pc[t] = "idle"
      /\ \A m \in Locks : depth[t][m] \in Nat
    BY DEF InOrder, TypeOK, TableTypeOK, ClientTypeOK, ThreadInOrder, LS_RELEASE, Call
<1>2. ExpectedByPlace'
    BY ExpectedByPlace, PTL
<1>3. \A m \in Locks :
          /\ RefCount(t, m) \in Nat
          /\ Recorded(t, m) => RefCount(t, m) = depth[t][m] /\ depth[t][m] > 0
          /\ Roomy /\ depth[t][m] > 0 => Recorded(t, m)
    BY <1>1, IdleTable
<1>4. CASE /\ ~Recorded(t, l) /\ RejectMisuse(t, l, "LS_UNBALANCED_UNLOCK")
           /\ UNCHANGED tableVars
    <2>1. PICK place \in {"idle", "aborted"} : Goto(t, l, place)
        BY <1>4 DEF RejectMisuse
    <2>2. /\ pc' \in [Threads -> PCs] /\ arg' \in [Threads -> Locks]
          /\ pc'[t] = place /\ arg'[t] = l
          /\ \A s \in Threads \ {t} : pc'[s] = pc[s] /\ arg'[s] = arg[s]
        BY <1>1, <2>1, GotoEffect DEF PCs
    <2>3. /\ owner' = owner /\ depth' = depth
          /\ status' = [status EXCEPT ![t] = "LS_UNBALANCED_UNLOCK"]
        BY <1>4 DEF RejectMisuse
    <2>4. ClientTypeOK' /\ OwnerHolds' /\ ClientFrame(t)
        BY <1>1, <2>2, <2>3 DEF ClientTypeOK, OwnerHolds, ClientFrame, Statuses
    <2>5. /\ TableTypeOK' /\ Shape(t)' /\ \A s \in Threads : SameTable(s)
          /\ \A m \in Locks : (Recorded(t, m)' <=> Recorded(t, m))
                              /\ RefCount(t, m)' = RefCount(t, m)
        BY <1>1, <1>4, TableUnchanged
    <2>6. \A m \in Locks : Expected(t, m)' = depth[t][m]
        BY <1>2, <2>2, <2>3
    <2>7. PanicInOrder(t)'
        BY <1>1, <1>3, <1>4, <2>2, <2>3 DEF PanicInOrder, ClientTypeOK
    <2>8. ThreadInOrder(t)'
        BY <1>3, <2>2, <2>5, <2>6, <2>7 DEF ThreadInOrder, Agrees, CallInOrder
    <2> QED
        BY <2>4, <2>5, <2>8, StepOfOneThread
<1>5. CASE /\ Recorded(t, l) /\ DecrementRef(t, l) /\ LastHold(t, l)
           /\ Proceed(t, l, "unlock_fn")
    <2>1. /\ pc' \in [Threads -> PCs] /\ arg' \in [Threads -> Locks]
          /\ pc'[t] = "unlock_fn" /\ arg'[t] = l
          /\ \A s \in Threads \ {t} : pc'[s] = pc[s] /\ arg'[s] = arg[s]
        BY <1>1, <1>5, GotoEffect DEF Proceed, PCs
    <2>2. owner' = owner /\ depth' = depth /\ status' = status
        BY <1>5 DEF Proceed
    <2>3. ClientTypeOK' /\ OwnerHolds' /\ ClientFrame(t)
        BY <1>1, <2>1, <2>2 DEF ClientTypeOK, OwnerHolds, ClientFrame
    <2>4. /\ TableTypeOK' /\ Shape(t)' /\ OthersUntouched(t, l) /\ ~Recorded(t, l)'
        BY <1>1, <1>5, DecrementRefEffect
    <2>5. depth[t][l] = 1
        BY <1>1, <1>3, <1>5 DEF LastHold
    <2>6. /\ Expected(t, l)' = 0
          /\ \A m \in Locks \ {l} : Expected(t, m)' = depth[t][m]
        BY <1>2, <2>1, <2>2, <2>5
    <2>7. \A m \in Locks : Agrees(t, m)'
        BY <1>3, <2>4, <2>6 DEF Agrees, OthersUntouched
    <2>8. ThreadInOrder(t)'
        BY <2>1, <2>2, <2>4, <2>5, <2>7
           DEF ThreadInOrder, CallInOrder, PanicInOrder
    <2> QED
        BY <2>3, <2>4, <2>8, StepOfOneThread DEF OthersUntouched
<1>6. CASE /\ Recorded(t, l) /\ DecrementRef(t, l) /\ ~LastHold(t, l)
           /\ Skip(t, l, depth[t][l] - 1, "LS_SKIP_RELEASE")
    <2>1. /\ pc' \in [Threads -> PCs] /\ arg' \in [Threads -> Locks]
          /\ status' \in [Threads -> Statuses]
          /\ pc'[t] = "idle" /\ arg'[t] = l /\ status'[t] = "LS_SKIP_RELEASE"
          /\ \A u \in Threads \ {t} :
                 pc'[u] = pc[u] /\ arg'[u] = arg[u] /\ status'[u] = status[u]
        BY <1>1, <1>6, ReturnEffect DEF Skip, Statuses
    <2>2. depth[t][l] > 1
        BY <1>1, <1>3, <1>6 DEF LastHold
    <2>3. /\ owner' = owner /\ depth' \in [Threads -> [Locks -> Nat]]
          /\ depth'[t][l] = depth[t][l] - 1
          /\ \A m \in Locks \ {l} : depth'[t][m] = depth[t][m]
          /\ \A s \in Threads \ {t} : depth'[s] = depth[s]
        BY <1>1, <1>6, <2>2 DEF Skip, ClientTypeOK
    <2>4. ClientTypeOK' /\ ClientFrame(t)
        BY <1>1, <2>1, <2>3 DEF ClientTypeOK, ClientFrame
    <2>5. OwnerHolds'
        <3> SUFFICES ASSUME NEW m \in Locks, NEW s \in Threads
                     PROVE  owner[m] = s <=> depth'[s][m] > 0
            BY <2>3 DEF OwnerHolds
        <3>1. (owner[m] = s <=> depth[s][m] > 0) /\ depth[t][l] \in Nat
            BY <1>1 DEF OwnerHolds
        <3>2. CASE s = t /\ m = l
            BY <2>2, <2>3, <3>1, <3>2
        <3>3. CASE ~(s = t /\ m = l)
            BY <2>3, <3>1, <3>3
        <3> QED
            BY <3>2, <3>3
    <2>6. /\ TableTypeOK' /\ Shape(t)' /\ OthersUntouched(t, l)
          /\ Recorded(t, l)' /\ RefCount(t, l)' = RefCount(t, l) - 1
        BY <1>1, <1>6, DecrementRefEffect
    <2>7. \A m \in Locks : Expected(t, m)' = depth'[t][m]
        BY <1>2, <2>1
    <2>8. \A m \in Locks : Agrees(t, m)'
        BY <1>3, <1>6, <2>3, <2>6, <2>7 DEF Agrees, OthersUntouched
    <2>9. ThreadInOrder(t)'
        BY <2>1, <2>6, <2>8 DEF ThreadInOrder, CallInOrder, PanicInOrder
    <2> QED
        BY <2>4, <2>5, <2>6, <2>9, StepOfOneThread DEF OthersUntouched
<1>7. CASE /\ Recorded(t, l) /\ ~reentrant /\ Proceed(t, l, "unlock_first")
           /\ UNCHANGED tableVars
    <2>1. /\ pc' \in [Threads -> PCs] /\ arg' \in [Threads -> Locks]
          /\ pc'[t] = "unlock_first" /\ arg'[t] = l
          /\ \A s \in Threads \ {t} : pc'[s] = pc[s] /\ arg'[s] = arg[s]
        BY <1>1, <1>7, GotoEffect DEF Proceed, PCs
    <2>2. owner' = owner /\ depth' = depth /\ status' = status
        BY <1>7 DEF Proceed
    <2>3. ClientTypeOK' /\ OwnerHolds' /\ ClientFrame(t)
        BY <1>1, <2>1, <2>2 DEF ClientTypeOK, OwnerHolds, ClientFrame
    <2>4. /\ TableTypeOK' /\ Shape(t)' /\ \A s \in Threads : SameTable(s)
          /\ \A m \in Locks : (Recorded(t, m)' <=> Recorded(t, m))
                              /\ RefCount(t, m)' = RefCount(t, m)
        BY <1>1, <1>7, TableUnchanged
    <2>5. MayRelease(t, l, reentrant)
        BY DEF LS_RELEASE
    <2>6. depth[t][l] = 1
        BY <1>1, <1>3, <1>7, <2>5 DEF MayRelease
    <2>7. \A m \in Locks : Expected(t, m)' = depth[t][m]
        BY <1>2, <2>1, <2>2
    <2>8. \A m \in Locks : Agrees(t, m)'
        BY <1>3, <2>4, <2>7 DEF Agrees
    <2>9. ThreadInOrder(t)'
        BY <1>7, <2>1, <2>2, <2>4, <2>6, <2>8
           DEF ThreadInOrder, CallInOrder, PanicInOrder
    <2> QED
        BY <2>3, <2>4, <2>9, StepOfOneThread
<1> QED
    BY <1>4, <1>5, <1>6, <1>7 DEF LS_RELEASE

(* unlock_fn of a reentrant release: the table has already forgotten the   *)
(* lock.                                                                   *)
LEMMA UnlockFnStep ==
    ASSUME InOrder, NEW t \in Threads, NEW l \in Locks,
           UnlockFn(t, l), UNCHANGED tableVars
    PROVE  InOrder'
PROOF
<1>1. /\ ClientTypeOK /\ TableTypeOK /\ OwnerHolds /\ Shape(t)
      /\ \A m \in Locks : depth[t][m] \in Nat /\ Agrees(t, m)
      /\ pc[t] = "unlock_fn" /\ arg[t] = l /\ CallInOrder(t, l)
      /\ \A m \in Locks \ {l} : Expected(t, m) = depth[t][m]
    BY CallUnderWay DEF UnlockFn, PCs
<1>2. ExpectedByPlace'
    BY ExpectedByPlace, PTL
<1>3. depth[t][l] = 1 /\ Expected(t, l) = 0
    BY <1>1, ExpectedByPlace DEF CallInOrder
<1>4. /\ pc' \in [Threads -> PCs] /\ arg' \in [Threads -> Locks]
      /\ status' \in [Threads -> Statuses]
      /\ pc'[t] = "idle" /\ arg'[t] = l /\ status'[t] = "LS_RELEASE_NOW"
      /\ \A u \in Threads \ {t} :
             pc'[u] = pc[u] /\ arg'[u] = arg[u] /\ status'[u] = status[u]
    BY <1>1, ReturnEffect DEF UnlockFn, Statuses
<1>5. /\ owner' \in [Locks -> Threads \cup {NoThread}]
      /\ depth' \in [Threads -> [Locks -> Nat]] /\ depth'[t][l] = 0
      /\ \A m \in Locks \ {l} : depth'[t][m] = depth[t][m]
      /\ \A s \in Threads \ {t} : depth'[s] = depth[s]
      /\ OwnerHolds'
    BY <1>1, <1>3, FlagCleared DEF UnlockFn
<1>6. ClientTypeOK' /\ ClientFrame(t)
    BY <1>4, <1>5 DEF ClientTypeOK, ClientFrame
<1>7. /\ TableTypeOK' /\ Shape(t)' /\ \A s \in Threads : SameTable(s)
      /\ \A m \in Locks : (Recorded(t, m)' <=> Recorded(t, m))
                          /\ RefCount(t, m)' = RefCount(t, m)
    BY <1>1, TableUnchanged
<1>8. \A m \in Locks : Expected(t, m)' = Expected(t, m)
    BY <1>1, <1>2, <1>3, <1>4, <1>5
<1>9. \A m \in Locks : Agrees(t, m)'
    BY <1>1, <1>7, <1>8 DEF Agrees
<1>10. ThreadInOrder(t)'
    BY <1>4, <1>7, <1>9 DEF ThreadInOrder, CallInOrder, PanicInOrder
<1> QED
    BY <1>5, <1>6, <1>7, <1>10, StepOfOneThread

(* unlock_fn of a non-reentrant release: the table still counts a lock that*)
(* others may take from now on.                                            *)
LEMMA UnlockFirstStep ==
    ASSUME InOrder, NEW t \in Threads, NEW l \in Locks,
           UnlockFirst(t, l), UNCHANGED tableVars
    PROVE  InOrder'
PROOF
<1>1. /\ ClientTypeOK /\ TableTypeOK /\ OwnerHolds /\ Shape(t)
      /\ \A m \in Locks : depth[t][m] \in Nat /\ Agrees(t, m)
      /\ pc[t] = "unlock_first" /\ arg[t] = l /\ CallInOrder(t, l)
      /\ \A m \in Locks \ {l} : Expected(t, m) = depth[t][m]
    BY CallUnderWay DEF UnlockFirst, PCs
<1>2. ExpectedByPlace'
    BY ExpectedByPlace, PTL
<1>3. depth[t][l] = 1 /\ Expected(t, l) = 1 /\ Recorded(t, l)
    BY <1>1, ExpectedByPlace DEF CallInOrder
<1>4. /\ pc' \in [Threads -> PCs] /\ arg' \in [Threads -> Locks]
      /\ pc'[t] = "decrement" /\ arg'[t] = l
      /\ \A s \in Threads \ {t} : pc'[s] = pc[s] /\ arg'[s] = arg[s]
    BY <1>1, GotoEffect DEF UnlockFirst, PCs
<1>5. /\ owner' \in [Locks -> Threads \cup {NoThread}]
      /\ depth' \in [Threads -> [Locks -> Nat]] /\ depth'[t][l] = 0
      /\ \A m \in Locks \ {l} : depth'[t][m] = depth[t][m]
      /\ \A s \in Threads \ {t} : depth'[s] = depth[s]
      /\ OwnerHolds'
    BY <1>1, <1>3, FlagCleared DEF UnlockFirst
<1>6. ClientTypeOK' /\ ClientFrame(t)
    BY <1>1, <1>4, <1>5 DEF ClientTypeOK, ClientFrame, UnlockFirst
<1>7. /\ TableTypeOK' /\ Shape(t)' /\ \A s \in Threads : SameTable(s)
      /\ \A m \in Locks : (Recorded(t, m)' <=> Recorded(t, m))
                          /\ RefCount(t, m)' = RefCount(t, m)
    BY <1>1, TableUnchanged
<1>8. \A m \in Locks : Expected(t, m)' = Expected(t, m)
    BY <1>1, <1>2, <1>3, <1>4, <1>5
<1>9. \A m \in Locks : Agrees(t, m)'
    BY <1>1, <1>7, <1>8 DEF Agrees
<1>10. ThreadInOrder(t)'
    BY <1>3, <1>4, <1>5, <1>7, <1>9 DEF ThreadInOrder, CallInOrder, PanicInOrder
<1> QED
    BY <1>5, <1>6, <1>7, <1>10, StepOfOneThread

(* DecrementRef after unlock_fn: the table catches up with the depth.      *)
LEMMA AfterUnlockFnStep ==
    ASSUME InOrder, NEW t \in Threads, NEW l \in Locks, AfterUnlockFn(t, l)
    PROVE  InOrder'
PROOF
<1>1. /\ ClientTypeOK /\ TableTypeOK /\ OwnerHolds /\ Shape(t)
      /\ \A m \in Locks : depth[t][m] \in Nat /\ Agrees(t, m)
      /\ pc[t] = "decrement" /\ arg[t] = l /\ CallInOrder(t, l)
      /\ \A m \in Locks \ {l} : Expected(t, m) = depth[t][m]
      /\ \A m \in Locks :
             RefCount(t, m) \in Nat /\ (Recorded(t, m) <=> RefCount(t, m) > 0)
    BY CallUnderWay DEF AfterUnlockFn, PCs
<1>2. ExpectedByPlace'
    BY ExpectedByPlace, PTL
<1>3. depth[t][l] = 0 /\ Recorded(t, l) /\ RefCount(t, l) = 1 /\ LastHold(t, l)
    BY <1>1, ExpectedByPlace DEF CallInOrder, Agrees, LastHold
<1>4. owner' = owner /\ depth' = depth
    BY DEF AfterUnlockFn
<1>5. /\ pc' \in [Threads -> PCs] /\ arg' \in [Threads -> Locks]
      /\ status' \in [Threads -> Statuses]
      /\ pc'[t] = "idle" /\ arg'[t] = l /\ status'[t] = "LS_RELEASE_NOW"
      /\ \A u \in Threads \ {t} :
             pc'[u] = pc[u] /\ arg'[u] = arg[u] /\ status'[u] = status[u]
    BY <1>1, ReturnEffect DEF AfterUnlockFn, Statuses
<1>6. ClientTypeOK' /\ OwnerHolds' /\ ClientFrame(t)
    BY <1>1, <1>4, <1>5 DEF ClientTypeOK, OwnerHolds, ClientFrame
<1>7. TableTypeOK' /\ Shape(t)' /\ OthersUntouched(t, l) /\ ~Recorded(t, l)'
    BY <1>1, <1>3, DecrementRefEffect DEF AfterUnlockFn
<1>8. \A m \in Locks : Expected(t, m)' = depth[t][m]
    BY <1>2, <1>4, <1>5
<1>9. \A m \in Locks : Agrees(t, m)'
    BY <1>1, <1>3, <1>7, <1>8 DEF Agrees, OthersUntouched
<1>10. ThreadInOrder(t)'
    BY <1>5, <1>7, <1>9 DEF ThreadInOrder, CallInOrder, PanicInOrder
<1> QED
    BY <1>6, <1>7, <1>10, StepOfOneThread DEF OthersUntouched

-----------------------------------------------------------------------------
(***************************************************************************)
(* Every step keeps the invariant.                                         *)
(***************************************************************************)
LEMMA NextKeepsInOrder ==
    ASSUME ~MixFlags, IInv, [Next]_vars
    PROVE  InOrder'
PROOF
<1>1. CASE UNCHANGED vars
    <2>1. /\ owner' = owner /\ depth' = depth /\ pc' = pc /\ arg' = arg
          /\ status' = status /\ UNCHANGED tableVars
        BY <1>1 DEF vars, clientVars
    <2>2. TypeOK /\ ClientTypeOK /\ TableTypeOK
        BY DEF IInv, InOrder, TypeOK, TableTypeOK
    <2>3. TableTypeOK' /\ \A s \in Threads : SameTable(s)
        BY <2>1, <2>2, TableUnchanged
    <2>4. ClientTypeOK' /\ OwnerHolds'
        BY <2>1 DEF IInv, InOrder, TypeOK, ClientTypeOK, OwnerHolds
    <2>5. ASSUME NEW s \in Threads PROVE ThreadInOrder(s)'
        <3>1. /\ Shape(s)'
              /\ \A m \in Locks : (Recorded(s, m)' <=> Recorded(s, m))
                                  /\ RefCount(s, m)' = RefCount(s, m)
            BY <2>3, UntouchedTable DEF IInv, InOrder, ThreadInOrder
        <3>2. \A m \in Locks : Expected(s, m)' = Expected(s, m)
            BY <2>1 DEF Expected
        <3> QED
            BY <2>1, <3>1, <3>2
               DEF IInv, InOrder, ThreadInOrder, Agrees, CallInOrder, PanicInOrder
    <2> QED
        BY <2>3, <2>4, <2>5 DEF IInv, InOrder, TypeOK, TableTypeOK
<1>2. CASE Next
    <2>1. PICK t \in Threads, l \in Locks :
              \/ \E reentrant \in BOOLEAN : LS_ACQUIRE(t, l, reentrant)
              \/ LockFn(t, l) /\ UNCHANGED tableVars
              \/ AfterLockFn(t, l)
              \/ \E reentrant \in BOOLEAN : LS_RELEASE(t, l, reentrant)
              \/ UnlockFn(t, l) /\ UNCHANGED tableVars
              \/ UnlockFirst(t, l) /\ UNCHANGED tableVars
              \/ AfterUnlockFn(t, l)
        BY <1>2 DEF Next
    <2> QED
        BY <2>1, LS_ACQUIREStep, LockFnStep, AfterLockFnStep, LS_RELEASEStep,
           UnlockFnStep, UnlockFirstStep, AfterUnlockFnStep DEF IInv
<1> QED
    BY <1>1, <1>2

(* A thread that takes on nothing stays within its reach.                  *)
LEMMA NothingTaken ==
    ASSUME NEW t \in Threads, InReach(t), Burden(t)' \subseteq Burden(t)
    PROVE  InReach(t)'
PROOF
<1>1. IsFiniteSet(Burden(t)') /\ Cardinality(Burden(t)') <= Cardinality(Burden(t))
    BY FS_Subset DEF InReach
<1>2. Cardinality(Burden(t)) \in Nat /\ Cardinality(Burden(t)') \in Nat
    BY <1>1, FS_CardinalityType DEF InReach
<1> QED
    BY <1>1, <1>2, ArrayAssumption DEF InReach

(* LS_ACQUIRE takes on a lock only where MayHold lets it.                  *)
LEMMA LS_ACQUIREReach ==
    ASSUME IInv, NEW t \in Threads, NEW l \in Locks, NEW reentrant \in BOOLEAN,
           LS_ACQUIRE(t, l, reentrant)
    PROVE  InReach(t)'
PROOF
<1>1. /\ ClientTypeOK /\ pc[t] = "idle" /\ MayHold(t, l) /\ InReach(t)
      /\ Recorded(t, l) => depth[t][l] > 0
    BY IdleTable DEF IInv, InOrder, TypeOK, LS_ACQUIRE, Call
<1> DEFINE held == {m \in Locks : depth[t][m] > 0}
<1>2. Burden(t) = held
    BY <1>1 DEF Burden
<1>3. CASE Proceed(t, l, "lock_fn")
    <2>1. pc'[t] = "lock_fn" /\ arg'[t] = l /\ depth' = depth
        BY <1>1, <1>3, GotoEffect DEF Proceed, PCs
    <2>2. Burden(t)' = held \cup {l}
        BY <2>1 DEF Burden
    <2>3. CASE depth[t][l] > 0
        BY <1>1, <1>2, <2>2, <2>3, NothingTaken
    <2>4. CASE Cardinality(held) < MaxHeld
        <3>1. IsFiniteSet(held) /\ Cardinality(held) \in Nat
            BY <1>1, <1>2, FS_CardinalityType DEF InReach
        <3>2. /\ IsFiniteSet(held \cup {l})
              /\ Cardinality(held \cup {l}) =
                     IF l \in held THEN Cardinality(held) ELSE Cardinality(held) + 1
            BY <3>1, FS_AddElement
        <3> HIDE DEF held
        <3> QED
            BY <2>2, <2>4, <3>1, <3>2, ArrayAssumption DEF InReach
    <2> QED
        BY <1>1, <2>3, <2>4 DEF MayHold
<1>4. CASE Recorded(t, l) /\ Skip(t, l, depth[t][l] + 1, "LS_SKIP_ACQUISITION")
    <2>1. pc'[t] = "idle"
        BY <1>1, <1>4, ReturnEffect DEF Skip, Statuses
    <2>2. \A m \in Locks : m # l => depth'[t][m] = depth[t][m]
        BY <1>1, <1>4 DEF Skip, ClientTypeOK
    <2>3. Burden(t)' \subseteq Burden(t)
        BY <1>1, <1>2, <1>4, <2>1, <2>2 DEF Burden
    <2> QED
        BY <1>1, <2>3, NothingTaken
<1>5. CASE RejectMisuse(t, l, "LS_UNBALANCED_LOCK")
    <2>1. PICK place \in {"idle", "aborted"} : Goto(t, l, place)
        BY <1>5 DEF RejectMisuse
    <2>2. pc'[t] = place /\ depth' = depth
        BY <1>1, <1>5, <2>1, GotoEffect DEF PCs, RejectMisuse
    <2>3. Burden(t)' \subseteq Burden(t)
        BY <1>2, <2>2 DEF Burden
    <2> QED
        BY <1>1, <2>3, NothingTaken
<1> QED
    BY <1>3, <1>4, <1>5 DEF LS_ACQUIRE

(* The later steps of an acquisition and the steps of a release take on    *)
(* nothing new.                                                            *)
LEMMA OtherReach ==
    ASSUME IInv, NEW t \in Threads, NEW l \in Locks,
           \/ LockFn(t, l) \/ AfterLockFn(t, l)
           \/ \E reentrant \in BOOLEAN : LS_RELEASE(t, l, reentrant)
           \/ UnlockFn(t, l) \/ UnlockFirst(t, l) \/ AfterUnlockFn(t, l)
    PROVE  InReach(t)'
PROOF
<1>1. ClientTypeOK /\ InReach(t)
    BY DEF IInv, InOrder, TypeOK
<1>2. \A m \in Locks : depth[t][m] \in Nat
    BY <1>1 DEF ClientTypeOK
<1> SUFFICES Burden(t)' \subseteq Burden(t)
    BY <1>1, NothingTaken
<1>3. CASE LockFn(t, l)
    <2>1. pc[t] = "lock_fn" /\ arg[t] = l /\ pc'[t] = "increment"
        BY <1>1, <1>3, GotoEffect DEF LockFn, At, PCs
    <2>2. \A m \in Locks : m # l => depth'[t][m] = depth[t][m]
        BY <1>1, <1>3 DEF LockFn, ClientTypeOK
    <2> QED
        BY <2>1, <2>2 DEF Burden
<1>4. CASE AfterLockFn(t, l) \/ AfterUnlockFn(t, l)
    <2>1. depth' = depth
        BY <1>4 DEF AfterLockFn, AfterUnlockFn
    <2>2. pc'[t] = "idle"
        BY <1>1, <1>4, ReturnEffect DEF AfterLockFn, AfterUnlockFn, Statuses
    <2> QED
        BY <2>1, <2>2 DEF Burden
<1>5. CASE UnlockFn(t, l) \/ UnlockFirst(t, l)
    <2>1. depth[t][l] = 1
        BY <1>5, CallUnderWay DEF IInv, UnlockFn, UnlockFirst, CallInOrder, PCs
    <2>2. depth' = [depth EXCEPT ![t][l] = 0]
        BY <1>1, <1>5, <2>1 DEF UnlockFn, UnlockFirst, ClearFlag, ClientTypeOK
    <2>4. \A m \in Locks : depth'[t][m] > 0 => depth[t][m] > 0
        BY <1>1, <2>1, <2>2 DEF ClientTypeOK
    <2>3. pc'[t] # "lock_fn"
        BY <1>1, <1>5, GotoEffect DEF UnlockFn, UnlockFirst, Return, PCs
    <2> QED
        BY <2>3, <2>4 DEF Burden
<1>6. ASSUME NEW reentrant \in BOOLEAN, LS_RELEASE(t, l, reentrant)
      PROVE  Burden(t)' \subseteq Burden(t)
    <2>1. \A m \in Locks : depth'[t][m] > 0 => depth[t][m] > 0
        <3>1. CASE depth' = depth
            BY <3>1
        <3>2. CASE Skip(t, l, depth[t][l] - 1, "LS_SKIP_RELEASE")
            BY <1>1, <1>2, <3>2 DEF Skip, ClientTypeOK
        <3> QED
            BY <1>6, <3>1, <3>2 DEF LS_RELEASE, RejectMisuse, Proceed
    <2>2. PICK place \in {"idle", "aborted", "unlock_fn", "unlock_first"} :
              Goto(t, l, place)
        BY <1>6 DEF LS_RELEASE, RejectMisuse, Proceed, Skip, Return
    <2>3. pc'[t] # "lock_fn"
        BY <1>1, <2>2, GotoEffect DEF PCs
    <2> QED
        BY <2>1, <2>3 DEF Burden
<1> QED
    BY <1>3, <1>4, <1>5, <1>6

(* What a thread may hold is its own affair: no other thread's step counts.*)
LEMMA NextKeepsReach ==
    ASSUME IInv, [Next]_vars, NEW s \in Threads
    PROVE  InReach(s)'
PROOF
<1>1. InReach(s) /\ ClientTypeOK
    BY DEF IInv, InOrder, TypeOK
<1>2. CASE UNCHANGED vars
    <2>1. Burden(s)' = Burden(s)
        BY <1>2 DEF vars, clientVars, Burden
    <2> QED
        BY <1>1, <2>1, NothingTaken
<1>3. CASE Next
    <2>1. PICK t \in Threads, l \in Locks :
              \/ \E reentrant \in BOOLEAN : LS_ACQUIRE(t, l, reentrant)
              \/ LockFn(t, l) /\ UNCHANGED tableVars
              \/ AfterLockFn(t, l)
              \/ \E reentrant \in BOOLEAN : LS_RELEASE(t, l, reentrant)
              \/ UnlockFn(t, l) /\ UNCHANGED tableVars
              \/ UnlockFirst(t, l) /\ UNCHANGED tableVars
              \/ AfterUnlockFn(t, l)
        BY <1>3 DEF Next
    <2>2. CASE s = t
        BY <2>1, <2>2, LS_ACQUIREReach, OtherReach
    <2>3. CASE s # t
        <3>1. \E place \in PCs : Goto(t, l, place)
            BY <2>1 DEF LS_ACQUIRE, LockFn, AfterLockFn, LS_RELEASE, UnlockFn, UnlockFirst,
                        AfterUnlockFn, Proceed, Skip, Return, RejectMisuse, PCs
        <3>2. pc'[s] = pc[s] /\ arg'[s] = arg[s]
            BY <1>1, <2>3, <3>1, GotoEffect
        <3>3. depth'[s] = depth[s]
            BY <1>1, <2>1, <2>3 DEF LS_ACQUIRE, LockFn, AfterLockFn, LS_RELEASE, UnlockFn,
               UnlockFirst, AfterUnlockFn, Proceed, Skip, RejectMisuse, ClearFlag, ClientTypeOK
        <3>4. Burden(s)' = Burden(s)
            BY <3>2, <3>3 DEF Burden
        <3> QED
            BY <1>1, <3>4, NothingTaken
    <2> QED
        BY <2>2, <2>3
<1> QED
    BY <1>2, <1>3

(***************************************************************************)
(* The invariant holds as long as callers keep reentrant = false for the   *)
(* release of their only hold, whether or not their locks fit the array.   *)
(***************************************************************************)
THEOREM Invariance ==
    ASSUME ~MixFlags
    PROVE  Spec => []IInv
PROOF
<1>1. Init => IInv
    <2> SUFFICES ASSUME Init PROVE IInv
        OBVIOUS
    <2>1. ASSUME NEW t \in Threads PROVE InReach(t)
        <3>1. Burden(t) = {}
            BY DEF Init, ClientInit, Burden
        <3> QED
            BY <3>1, FS_EmptySet, ArrayAssumption DEF InReach
    <2> QED
        BY <2>1, InitInOrder DEF IInv
<1>2. IInv /\ [Next]_vars => IInv'
    BY NextKeepsInOrder, NextKeepsReach DEF IInv
<1> QED
    BY <1>1, <1>2, PTL DEF Spec

(***************************************************************************)
(* Every variable keeps its type: lock_count never passes MAX_LOCKS, no    *)
(* count or depth goes below zero.                                         *)
(***************************************************************************)
THEOREM TypeCorrect ==
    ASSUME ~MixFlags
    PROVE  Spec => []TypeOK
PROOF
<1>1. IInv => TypeOK
    BY DEF IInv, InOrder
<1> QED
    BY <1>1, Invariance, PTL

(***************************************************************************)
(* Two threads never hold a shielded lock at once, whatever unbalanced     *)
(* calls they make and even when the array is full (LS_ACQUIRE).           *)
(***************************************************************************)
THEOREM Exclusion ==
    ASSUME ~MixFlags
    PROVE  Spec => []MutualExclusion
PROOF
<1>1. IInv => MutualExclusion
    <2> SUFFICES ASSUME IInv, NEW l \in Locks, NEW t \in Threads, NEW u \in Threads,
                        depth[t][l] > 0, depth[u][l] > 0
                 PROVE  t = u
        BY DEF MutualExclusion
    <2>1. owner[l] = t /\ owner[l] = u
        BY DEF IInv, InOrder, OwnerHolds
    <2> QED
        BY <2>1
<1> QED
    BY <1>1, Invariance, PTL

(***************************************************************************)
(* As long as the locks fit, the array counts every hold exactly, at every *)
(* point of every call, through the swap that fills a hole.                *)
(***************************************************************************)
THEOREM CountsExact ==
    ASSUME ~MixFlags, Roomy
    PROVE  Spec => []RefCountExact
PROOF
<1>1. IInv => RefCountExact
    <2> SUFFICES ASSUME IInv, NEW t \in Threads, NEW l \in Locks
                 PROVE  /\ RefCount(t, l) = Expected(t, l)
                        /\ Recorded(t, l) <=> Expected(t, l) > 0
        BY DEF RefCountExact
    <2>1. /\ Agrees(t, l) /\ Shape(t) /\ TableTypeOK /\ depth[t][l] \in Nat
          /\ arg[t] = l => CallInOrder(t, l)
        BY DEF IInv, InOrder, ThreadInOrder, TypeOK, TableTypeOK, ClientTypeOK
    <2>2. RefCount(t, l) \in Nat /\ (Recorded(t, l) <=> RefCount(t, l) > 0)
        BY <2>1, CountWhenRecorded
    <2>3. Expected(t, l) \in Nat
        BY <2>1 DEF Expected, CallInOrder
    <2> QED
        BY <2>1, <2>2, <2>3 DEF Agrees
<1> QED
    BY <1>1, Invariance, PTL

(***************************************************************************)
(* As long as the locks fit, unlock_fn runs only in the thread that        *)
(* holds the lock and lock_fn never does (LS_ACQUIRE, LS_RELEASE).         *)
(***************************************************************************)
THEOREM MisuseStopped ==
    ASSUME ~MixFlags, Roomy
    PROVE  Spec => []NoMisuseReachesLock
PROOF
<1>1. IInv => NoMisuseReachesLock
    <2> SUFFICES ASSUME IInv, NEW t \in Threads
                 PROVE  /\ pc[t] \in {"unlock_fn", "unlock_first"} => owner[arg[t]] = t
                        /\ pc[t] = "lock_fn" => owner[arg[t]] # t
        BY DEF NoMisuseReachesLock
    <2> DEFINE l == arg[t]
    <2>1. /\ l \in Locks /\ depth[t][l] \in Nat /\ Agrees(t, l) /\ CallInOrder(t, l)
          /\ owner[l] = t <=> depth[t][l] > 0
        BY DEF IInv, InOrder, ThreadInOrder, TypeOK, ClientTypeOK, OwnerHolds
    <2>2. pc[t] \in {"unlock_fn", "unlock_first"} => depth[t][l] = 1
        BY <2>1 DEF CallInOrder
    <2>3. pc[t] = "lock_fn" => depth[t][l] = 0
        BY <2>1, ExpectedByPlace DEF CallInOrder, Agrees
    <2> QED
        BY <2>1, <2>2, <2>3
<1> QED
    BY <1>1, Invariance, PTL

(***************************************************************************)
(* As long as the locks fit, no balanced call is turned away: a panic      *)
(* is always the caller's doing (the abort branches of LS_ACQUIRE and      *)
(* LS_RELEASE).                                                            *)
(***************************************************************************)
THEOREM PanicsDeserved ==
    ASSUME ~MixFlags, Roomy
    PROVE  Spec => []NoFalsePanic
PROOF
<1>1. IInv => NoFalsePanic
    BY DEF IInv, InOrder, ThreadInOrder, PanicInOrder, NoFalsePanic
<1> QED
    BY <1>1, Invariance, PTL

-----------------------------------------------------------------------------
(***************************************************************************)
(* LS_ARRAY implements RefCountedLock.  A call takes its abstract step     *)
(* where the table answers it or where lock_fn or unlock_fn runs; its      *)
(* other steps stutter.                                                    *)
(***************************************************************************)
LEMMA Stutters ==
    ASSUME NEW t \in Threads, depth' = depth, decided'[t] = decided[t],
           \A u \in Threads \ {t} : pc'[u] = pc[u] /\ status'[u] = status[u]
    PROVE  UNCHANGED Promise!vars
PROOF
<1>1. decided' = [decided EXCEPT ![t] = decided'[t]]
    BY DecidedElsewhere
<1>2. decided' = decided
    BY <1>1 DEF decided
<1> QED
    BY <1>2 DEF Promise!vars

(* A call starts or ends with no abstract step of its own.                 *)
LEMMA ProceedStutters ==
    ASSUME NEW t \in Threads, NEW l \in Locks,
           NEW place \in {"lock_fn", "unlock_fn", "unlock_first"},
           ClientTypeOK, pc[t] = "idle", Proceed(t, l, place)
    PROVE  UNCHANGED Promise!vars
PROOF
<1>1. place \in PCs
    BY DEF PCs
<1>2. pc'[t] = place /\ \A s \in Threads \ {t} : pc'[s] = pc[s]
    BY <1>1, GotoEffect DEF Proceed
<1>3. depth' = depth /\ status' = status
    BY DEF Proceed
<1>4. decided'[t] = decided[t]
    BY <1>2, <1>3 DEF decided
<1> QED
    BY <1>2, <1>3, <1>4, Stutters

(* The panic paths of LS_ACQUIRE and LS_RELEASE: the promise rejects the   *)
(* call.                                                                   *)
LEMMA RejectMisuseDecides ==
    ASSUME NEW t \in Threads, NEW l \in Locks, NEW s \in Statuses,
           ClientTypeOK, RejectMisuse(t, l, s)
    PROVE  Promise!Reject(t, s)
PROOF
<1>1. PICK place \in {"idle", "aborted"} : Goto(t, l, place)
    BY DEF RejectMisuse
<1>2. pc'[t] = place /\ \A u \in Threads \ {t} : pc'[u] = pc[u]
    BY <1>1, GotoEffect DEF PCs
<1>3. depth' = depth /\ status' = [status EXCEPT ![t] = s]
    BY DEF RejectMisuse
<1>4. decided'[t] = s
    BY <1>2, <1>3 DEF decided, ClientTypeOK
<1>5. decided' = [decided EXCEPT ![t] = s]
    BY <1>2, <1>3, <1>4, DecidedElsewhere DEF ClientTypeOK
<1> QED
    BY <1>3, <1>5 DEF Promise!Reject

(* The paths that touch neither the lock nor unlock_fn: they decide the    *)
(* call at once.                                                           *)
LEMMA SkipDecides ==
    ASSUME NEW t \in Threads, NEW l \in Locks, NEW s \in Statuses, NEW n,
           ClientTypeOK, Skip(t, l, n, s)
    PROVE  /\ depth' = [depth EXCEPT ![t][l] = n]
           /\ decided' = [decided EXCEPT ![t] = s]
PROOF
<1>1. /\ pc'[t] = "idle" /\ status'[t] = s
      /\ \A u \in Threads \ {t} : pc'[u] = pc[u] /\ status'[u] = status[u]
    BY ReturnEffect DEF Skip
<1>2. decided'[t] = s
    BY <1>1 DEF decided
<1> QED
    BY <1>1, <1>2, DecidedElsewhere DEF Skip

(* The return of a call that has already decided.                          *)
LEMMA ReturnStutters ==
    ASSUME NEW t \in Threads, NEW l \in Locks, NEW s \in Statuses,
           ClientTypeOK, decided[t] = s, Return(t, l, s), depth' = depth
    PROVE  UNCHANGED Promise!vars
PROOF
<1>1. /\ pc'[t] = "idle" /\ status'[t] = s
      /\ \A u \in Threads \ {t} : pc'[u] = pc[u] /\ status'[u] = status[u]
    BY ReturnEffect
<1>2. decided'[t] = s
    BY <1>1 DEF decided
<1> QED
    BY <1>1, <1>2, Stutters

(* LS_ACQUIRE up to lock_fn: a rejection, a nested hold, or a stutter.     *)
LEMMA AcquireKeepsPromise ==
    ASSUME Roomy, IInv,
           NEW t \in Threads, NEW l \in Locks, NEW reentrant \in BOOLEAN,
           LS_ACQUIRE(t, l, reentrant)
    PROVE  [Promise!Next]_Promise!vars
PROOF
<1>1. ClientTypeOK /\ pc[t] = "idle"
    BY DEF IInv, InOrder, TypeOK, LS_ACQUIRE, Call
<1>2. Recorded(t, l) => depth[t][l] > 0
    BY <1>1, IdleTable DEF IInv
<1>3. CASE Proceed(t, l, "lock_fn")
    BY <1>1, <1>3, ProceedStutters
<1>4. CASE Recorded(t, l) /\ Skip(t, l, depth[t][l] + 1, "LS_SKIP_ACQUISITION")
    <2>1. /\ depth' = [depth EXCEPT ![t][l] = depth[t][l] + 1]
          /\ decided' = [decided EXCEPT ![t] = "LS_SKIP_ACQUISITION"]
        BY <1>1, <1>4, SkipDecides DEF Statuses
    <2>2. Promise!Decide(t, l, 1, "LS_SKIP_ACQUISITION")
        BY <1>1, <2>1 DEF Promise!Decide, ClientTypeOK
    <2>3. Promise!Nest(t, l)
        BY <1>2, <1>4, <2>2 DEF Promise!Nest
    <2> QED
        BY <2>3 DEF Promise!Next
<1>5. CASE Recorded(t, l) /\ RejectMisuse(t, l, "LS_UNBALANCED_LOCK")
    <2>1. Promise!RejectLock(t, l)
        BY <1>1, <1>2, <1>5, RejectMisuseDecides DEF Statuses, Promise!RejectLock
    <2> QED
        BY <2>1 DEF Promise!Next
<1> QED
    BY <1>3, <1>4, <1>5 DEF LS_ACQUIRE

(* LS_RELEASE up to unlock_fn: a rejection, a nested release, or a stutter.*)
LEMMA ReleaseKeepsPromise ==
    ASSUME Roomy, IInv,
           NEW t \in Threads, NEW l \in Locks, NEW reentrant \in BOOLEAN,
           LS_RELEASE(t, l, reentrant)
    PROVE  [Promise!Next]_Promise!vars
PROOF
<1>1. ClientTypeOK /\ pc[t] = "idle"
    BY DEF IInv, InOrder, TypeOK, LS_RELEASE, Call
<1>2. /\ Recorded(t, l) => RefCount(t, l) = depth[t][l]
      /\ depth[t][l] \in Nat /\ (depth[t][l] > 0 => Recorded(t, l))
    BY <1>1, IdleTable DEF IInv
<1>3. CASE ~Recorded(t, l) /\ RejectMisuse(t, l, "LS_UNBALANCED_UNLOCK")
    <2>1. depth[t][l] = 0
        BY <1>2, <1>3
    <2>2. Promise!RejectUnlock(t, l)
        BY <1>1, <1>3, <2>1, RejectMisuseDecides DEF Statuses, Promise!RejectUnlock
    <2> QED
        BY <2>2 DEF Promise!Next
<1>4. CASE Proceed(t, l, "unlock_fn") \/ Proceed(t, l, "unlock_first")
    BY <1>1, <1>4, ProceedStutters
<1>5. CASE /\ Recorded(t, l) /\ ~LastHold(t, l)
           /\ Skip(t, l, depth[t][l] - 1, "LS_SKIP_RELEASE")
    <2>1. /\ depth' = [depth EXCEPT ![t][l] = depth[t][l] - 1]
          /\ decided' = [decided EXCEPT ![t] = "LS_SKIP_RELEASE"]
        BY <1>1, <1>5, SkipDecides DEF Statuses
    <2>2. depth[t][l] > 1
        BY <1>2, <1>5 DEF LastHold
    <2>3. Promise!Unnest(t, l)
        BY <1>1, <2>1, <2>2 DEF Promise!Unnest, ClientTypeOK
    <2> QED
        BY <2>3 DEF Promise!Next
<1> QED
    BY <1>3, <1>4, <1>5 DEF LS_RELEASE

(* The step in which TASLock's flag is raised is the promise's Grant.      *)
LEMMA LockFnGrants ==
    ASSUME IInv, NEW t \in Threads, NEW l \in Locks, LockFn(t, l)
    PROVE  Promise!Grant(t, l)
PROOF
<1>1. ClientTypeOK /\ OwnerHolds /\ pc[t] = "lock_fn" /\ owner[l] = NoThread
    BY DEF IInv, InOrder, TypeOK, LockFn, At
<1>2. \A s \in Threads : ~(depth[s][l] > 0)
    BY <1>1, ClientAssumption DEF OwnerHolds
<1>3. pc'[t] = "increment" /\ \A s \in Threads \ {t} : pc'[s] = pc[s]
    BY <1>1, GotoEffect DEF LockFn, PCs
<1>4. depth' = [depth EXCEPT ![t][l] = @ + 1] /\ status' = status
    BY DEF LockFn
<1>5. decided' = [decided EXCEPT ![t] = "LS_ACQUIRE_NOW"]
    BY <1>3, <1>4, DecidedElsewhere DEF decided
<1> QED
    BY <1>2, <1>4, <1>5 DEF Promise!Grant, Promise!Held, Promise!Decide

(* The step in which TASLock's flag is cleared is the promise's Free.      *)
LEMMA UnlockFrees ==
    ASSUME IInv, NEW t \in Threads, NEW l \in Locks,
           UnlockFn(t, l) \/ UnlockFirst(t, l)
    PROVE  Promise!Free(t, l)
PROOF
<1>1. ClientTypeOK /\ depth[t][l] = 1
    <2>1. CASE UnlockFn(t, l)
        BY <2>1, CallUnderWay DEF IInv, UnlockFn, CallInOrder, PCs
    <2>2. CASE UnlockFirst(t, l)
        BY <2>2, CallUnderWay DEF IInv, UnlockFirst, CallInOrder, PCs
    <2> QED
        BY <2>1, <2>2
<1>2. depth' = [depth EXCEPT ![t][l] = 0]
    BY <1>1 DEF UnlockFn, UnlockFirst, ClearFlag, ClientTypeOK
<1>3. CASE UnlockFn(t, l)
    <2>1. /\ pc'[t] = "idle" /\ status'[t] = "LS_RELEASE_NOW"
          /\ \A u \in Threads \ {t} : pc'[u] = pc[u] /\ status'[u] = status[u]
        BY <1>1, <1>3, ReturnEffect DEF UnlockFn, Statuses
    <2>2. decided' = [decided EXCEPT ![t] = "LS_RELEASE_NOW"]
        BY <2>1, DecidedElsewhere DEF decided
    <2> QED
        BY <1>1, <1>2, <2>2 DEF Promise!Free
<1>4. CASE UnlockFirst(t, l)
    <2>1. /\ pc'[t] = "decrement" /\ status' = status
          /\ \A s \in Threads \ {t} : pc'[s] = pc[s]
        BY <1>1, <1>4, GotoEffect DEF UnlockFirst, PCs
    <2>2. decided' = [decided EXCEPT ![t] = "LS_RELEASE_NOW"]
        BY <2>1, DecidedElsewhere DEF decided
    <2> QED
        BY <1>1, <1>2, <2>2 DEF Promise!Free
<1> QED
    BY <1>3, <1>4

(* IncrementRef and DecrementRef after the callback change nothing the     *)
(* promise can see.                                                        *)
LEMMA AfterwardsStutters ==
    ASSUME Roomy, IInv, NEW t \in Threads, NEW l \in Locks,
           AfterLockFn(t, l) \/ AfterUnlockFn(t, l)
    PROVE  UNCHANGED Promise!vars
PROOF
<1>1. ClientTypeOK
    BY DEF IInv, InOrder, TypeOK
<1>2. CASE AfterLockFn(t, l)
    <2>1. pc[t] = "increment" /\ Return(t, l, "LS_ACQUIRE_NOW") /\ depth' = depth
        BY <1>2 DEF AfterLockFn, At
    <2>2. decided[t] = "LS_ACQUIRE_NOW"
        BY <2>1 DEF decided
    <2> QED
        BY <1>1, <2>1, <2>2, ReturnStutters DEF Statuses
<1>3. CASE AfterUnlockFn(t, l)
    <2>1. pc[t] = "decrement" /\ Return(t, l, "LS_RELEASE_NOW") /\ depth' = depth
        BY <1>3 DEF AfterUnlockFn, At
    <2>2. decided[t] = "LS_RELEASE_NOW"
        BY <2>1 DEF decided
    <2> QED
        BY <1>1, <2>1, <2>2, ReturnStutters DEF Statuses
<1> QED
    BY <1>2, <1>3

(***************************************************************************)
(* LS_ARRAY keeps the shield's promise: with locks that fit the array and  *)
(* callers that keep reentrant = false for their only hold, every call     *)
(* takes, nests, gives up or rejects exactly as RefCountedLock allows.     *)
(***************************************************************************)
THEOREM ImplementsRefCountedLock ==
    ASSUME ~MixFlags, Roomy
    PROVE  Spec => KeepsThePromise
PROOF
<1>1. Init => Promise!Init
    BY DEF Init, ClientInit, Promise!Init, decided
<1>2. IInv /\ [Next]_vars => [Promise!Next]_Promise!vars
    <2> SUFFICES ASSUME IInv, [Next]_vars
                 PROVE  [Promise!Next]_Promise!vars
        OBVIOUS
    <2>1. CASE UNCHANGED vars
        BY <2>1 DEF vars, clientVars, Promise!vars, decided
    <2>2. CASE Next
        <3>1. PICK t \in Threads, l \in Locks :
                  \/ \E reentrant \in BOOLEAN : LS_ACQUIRE(t, l, reentrant)
                  \/ LockFn(t, l) /\ UNCHANGED tableVars
                  \/ AfterLockFn(t, l)
                  \/ \E reentrant \in BOOLEAN : LS_RELEASE(t, l, reentrant)
                  \/ UnlockFn(t, l) /\ UNCHANGED tableVars
                  \/ UnlockFirst(t, l) /\ UNCHANGED tableVars
                  \/ AfterUnlockFn(t, l)
            BY <2>2 DEF Next
        <3>2. CASE LockFn(t, l)
            BY <3>2, LockFnGrants DEF Promise!Next
        <3>3. CASE UnlockFn(t, l) \/ UnlockFirst(t, l)
            BY <3>3, UnlockFrees DEF Promise!Next
        <3>4. CASE AfterLockFn(t, l) \/ AfterUnlockFn(t, l)
            BY <3>4, AfterwardsStutters
        <3>5. CASE \E reentrant \in BOOLEAN :
                       \/ LS_ACQUIRE(t, l, reentrant)
                       \/ LS_RELEASE(t, l, reentrant)
            BY <3>5, AcquireKeepsPromise, ReleaseKeepsPromise
        <3> QED
            BY <3>1, <3>2, <3>3, <3>4, <3>5
    <2> QED
        BY <2>1, <2>2
<1> QED
    BY <1>1, <1>2, Invariance, PTL DEF Spec, Promise!Spec, KeepsThePromise
=============================================================================
