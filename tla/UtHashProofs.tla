---------------------------- MODULE UtHashProofs ----------------------------
(***************************************************************************)
(* The table of uthash for any set of entries, hash function and size:     *)
(* its lists are well linked, no chain outgrows its limit, and it is the   *)
(* map that the shields take it for.                                       *)
(*                                                                         *)
(* A list is stated place by place: c[i] is the i-th of its m entries.     *)
(* The lemmas of the first part say what the walks along the links find    *)
(* on such a list, and what adding and removing an entry make of it; the   *)
(* invariant, UtInv, says that the table has such lists, also while the    *)
(* entries move from the old buckets to the new ones.                      *)
(***************************************************************************)
EXTENDS UtHash, FiniteSetTheorems, WellFoundedInduction, NaturalsInduction, TLAPS

(* The entries in D, in the order c, are the list that first begins.       *)
Forward(m, c, D, first, link) ==
    /\ m \in Nat
    /\ c \in [1 .. m -> D]
    /\ \A i, j \in 1 .. m : c[i] = c[j] => i = j
    /\ \A e \in D : \E i \in 1 .. m : c[i] = e
    /\ first = IF m = 0 THEN NULL ELSE c[1]
    /\ \A i \in 1 .. m : link[c[i]] = IF i = m THEN NULL ELSE c[i + 1]

(* Each of them points back to the one before it.                          *)
Backward(m, c, back) ==
    \A i \in 1 .. m : back[c[i]] = IF i = 1 THEN NULL ELSE c[i - 1]

(* The entries in D, m of them, are such a list in some order.             *)
IsList(m, D, first, link, back) ==
    \E c \in [1 .. m -> D] : Forward(m, c, D, first, link) /\ Backward(m, c, back)

(* The last entry of a list that is not empty.                             *)
Ending(m, c, last) == m # 0 => last = c[m]

(* A list that is not empty, with its first and its last entry.            *)
EndsWith(m, D, first, last, link, back) ==
    \E c \in [1 .. m -> D] :
        /\ Forward(m, c, D, first, link)
        /\ Backward(m, c, back)
        /\ m # 0
        /\ Ending(m, c, last)

(* A list of which nothing is known but the links forward.                 *)
Loose(D, first, link) ==
    \E m \in 0 .. Cardinality(Entries) :
        \E c \in [1 .. m -> D] : Forward(m, c, D, first, link)

(* Those of the entries in D that n buckets have in bucket b.              *)
InBucket(D, b, n) == { e \in D : ToBucket(e, n) = b }

(* The entries in D are on the lists of the n buckets bkts.                *)
Threaded(bkts, n, D, link, back) ==
    \A b \in 0 .. n - 1 :
        IsList(bkts[b].count, InBucket(D, b, n), bkts[b].hh_head, link, back)

(* The entries in U are still on the lists of the n old buckets bkts, from *)
(* the place first of bucket i on.                                         *)
Waiting(U, n, bkts, i, first, link) ==
    /\ \A e \in U : ToBucket(e, n) >= i
    /\ \A b \in i .. n - 1 :
           Loose(InBucket(U, b, n), IF b = i THEN first ELSE bkts[b].hh_head, link)

(* The limit of a new bucket.                                              *)
Measured(B, ideal) ==
    /\ B.expand_mult <= B.count
    /\ B.count <= (B.expand_mult + 1) * ideal

(* In HASH_EXPAND_BUCKETS the entries in M have moved, others in D have    *)
(* not.                                                                    *)
Moving(D, M) ==
    /\ ~noexpand
    /\ ideal_chain_maxlen # 0
    /\ nonideal_items <= Cardinality(M)
    /\ Waiting(D \ M, num_buckets, buckets, bkt_i, thh, hh_next)
    /\ Threaded(new_buckets, 2 * num_buckets, M, hh_next, hh_prev)
    /\ \A b \in 0 .. 2 * num_buckets - 1 : Measured(new_buckets[b], ideal_chain_maxlen)

(* A table of the entries in D.                                            *)
Table(D) ==
    /\ num_buckets # 0
    /\ EndsWith(num_items, D, head, tail, next, prev)
    /\ \/ expanding /\ \E M \in SUBSET D : Moving(D, M)
       \/ ~expanding /\ Threaded(buckets, num_buckets, D, hh_next, hh_prev)

(* The fields of a table that was never made, or was freed.                *)
NoTable ==
    /\ num_items = 0
    /\ num_buckets = 0
    /\ ~expanding

(***************************************************************************)
(* There is no table, or one of some entries, whose lists they are on; the *)
(* chains are bounded, and two ineffective expansions in a row have set    *)
(* noexpand.                                                               *)
(***************************************************************************)
UtInv ==
    /\ TypeOK
    /\ ~noexpand => ineff_expands < 2
    /\ ChainsBounded
    /\ \/ head = NULL /\ NoTable
       \/ head # NULL /\ \E D \in SUBSET Entries : Table(D)

-----------------------------------------------------------------------------
(* A set of natural numbers has a least element.                           *)
LEMMA Least ==
    ASSUME NEW S \in SUBSET Nat, S # {}
    PROVE  \E x \in S : \A y \in S : x <= y
PROOF
<1>1. PICK x \in S : \A y \in S : ~(<< y, x >> \in OpToRel(<, Nat))
    BY NatLessThanWellFounded, WFMin
<1>2. \A y \in S : ~(y < x)
    BY <1>1 DEF OpToRel
<1> QED
    BY <1>2

(* A list is no longer than the number of entries.                         *)
LEMMA Fits ==
    ASSUME NEW D, NEW m, NEW c, NEW first, NEW link,
           Forward(m, c, D, first, link),
           D \in SUBSET Entries
    PROVE  /\ Cardinality(Entries) \in Nat
           /\ m \in 0 .. Cardinality(Entries)
PROOF
<1>1. /\ m \in Nat /\ c \in [1 .. m -> Entries]
      /\ \A i, j \in 1 .. m : c[i] = c[j] => i = j
    BY DEF Forward
<1>2. c \in Injection(1 .. m, Entries)
    BY <1>1 DEF Injection, IsInjective
<1>3. Cardinality(1 .. m) <= Cardinality(Entries)
    BY <1>2, FS_Injection, HashAssumption
<1>4. Cardinality(1 .. m) = m
    BY <1>1, FS_Interval
<1>5. Cardinality(Entries) \in Nat
    BY FS_CardinalityType, HashAssumption
<1> QED
    BY <1>1, <1>3, <1>4, <1>5

(* What a walk along a list meets.                                         *)
LEMMA Walked ==
    ASSUME NEW D, NEW m, NEW c, NEW first, NEW link,
           Forward(m, c, D, first, link),
           D \in SUBSET Entries
    PROVE  \A n \in 0 .. Cardinality(Entries) :
               Walk(link, first)[n] = IF n < m THEN c[n + 1] ELSE NULL
PROOF
<1> DEFINE N == Cardinality(Entries)
           Step(f, n) == IF n = 0 THEN first ELSE Follow(link, f[n - 1])
           met == [n \in 0 .. N |-> IF n < m THEN c[n + 1] ELSE NULL]
           at == Walk(link, first)
<1>1. N \in Nat /\ m \in 0 .. N
    BY Fits
<1>2. /\ c \in [1 .. m -> Entries]
      /\ first = IF m = 0 THEN NULL ELSE c[1]
      /\ \A i \in 1 .. m : link[c[i]] = IF i = m THEN NULL ELSE c[i + 1]
      /\ \A i \in 1 .. m : c[i] # NULL
    BY HashAssumption DEF Forward
<1> HIDE DEF N
<1>3. ASSUME NEW n \in 0 .. N
      PROVE  met[n] = Step(met, n)
    <2>1. CASE n = 0
        BY <1>1, <1>2, <2>1
    <2>2. CASE n # 0 /\ n - 1 < m
        <3>1. n - 1 \in 0 .. N /\ n \in 1 .. m /\ (n < m <=> n # m)
            BY <1>1, <2>2
        <3>2. met[n - 1] = c[n] /\ c[n] # NULL
            BY <1>1, <1>2, <2>2, <3>1
        <3>3. Step(met, n) = link[c[n]]
            BY <2>2, <3>2 DEF Follow
        <3> QED
            BY <1>1, <1>2, <3>1, <3>3
    <2>3. CASE n # 0 /\ ~(n - 1 < m)
        <3>1. n - 1 \in 0 .. N /\ ~(n < m)
            BY <1>1, <2>3
        <3>2. met[n - 1] = NULL
            BY <2>3, <3>1
        <3> QED
            BY <2>3, <3>1, <3>2 DEF Follow
    <2> QED
        BY <2>1, <2>2, <2>3
<1>4. met = [n \in 0 .. N |-> Step(met, n)]
    BY <1>3
<1> HIDE DEF met
<1>5. at = CHOOSE f : f = [n \in 0 .. N |-> Step(f, n)]
    BY DEF Walk, N
<1>6. at = [n \in 0 .. N |-> Step(at, n)]
    BY <1>4, <1>5
<1> HIDE DEF at
<1>7. \A n \in 0 .. N : at[n] = Step(at, n)
    BY <1>6
<1> DEFINE Strays == { n \in 0 .. N : at[n] # met[n] }
<1>8. Strays = {}
    <2> SUFFICES ASSUME Strays # {} PROVE FALSE
        OBVIOUS
    <2>1. Strays \in SUBSET Nat
        BY <1>1
    <2>2. PICK n \in Strays : \A k \in Strays : n <= k
        BY <2>1, Least
    <2>3. n \in 0 .. N /\ at[n] # met[n]
        BY <2>2
    <2>4. n # 0
        BY <1>3, <1>7, <2>3
    <2>5. n - 1 \in 0 .. N /\ n - 1 \notin Strays
        BY <1>1, <2>2, <2>3, <2>4
    <2>6. at[n - 1] = met[n - 1]
        BY <2>5
    <2>7. Step(at, n) = Step(met, n)
        BY <2>4, <2>6
    <2> QED
        BY <1>3, <1>7, <2>3, <2>7
<1> QED
    BY <1>8 DEF met, at, N

(* The walks find the entries of a list and no others.                     *)
LEMMA Listed ==
    ASSUME NEW D, NEW m, NEW c, NEW first, NEW link,
           Forward(m, c, D, first, link),
           D \in SUBSET Entries
    PROVE  List(link, first) = D
PROOF
<1> DEFINE N == Cardinality(Entries)
           at == Walk(link, first)
<1>1. N \in Nat /\ m \in 0 .. N
    BY Fits
<1>2. \A n \in 0 .. N : at[n] = IF n < m THEN c[n + 1] ELSE NULL
    BY Walked
<1>3. /\ c \in [1 .. m -> D] /\ NULL \notin D
      /\ \A e \in D : \E i \in 1 .. m : c[i] = e
    BY HashAssumption DEF Forward
<1>4. List(link, first) = { at[n] : n \in 0 .. N } \ {NULL}
    BY DEF List
<1> HIDE DEF N, at
<1>5. ASSUME NEW n \in 0 .. N, at[n] # NULL
      PROVE  at[n] \in D
    <2>1. n < m /\ n + 1 \in 1 .. m
        BY <1>1, <1>2, <1>5
    <2> QED
        BY <1>2, <1>3, <2>1
<1>6. ASSUME NEW e \in D
      PROVE  e # NULL /\ \E n \in 0 .. N : at[n] = e
    <2>1. PICK i \in 1 .. m : c[i] = e
        BY <1>3
    <2>2. i - 1 \in 0 .. N /\ i - 1 < m /\ (i - 1) + 1 = i
        BY <1>1
    <2> QED
        BY <1>2, <1>3, <2>1, <2>2
<1> QED
    BY <1>4, <1>5, <1>6

(* The walk along a list, and back, is what HASH_FSCK asks for.            *)
LEMMA ListWellLinked ==
    ASSUME NEW D, NEW m, NEW c, NEW first, NEW link, NEW back,
           Forward(m, c, D, first, link), Backward(m, c, back),
           D \in SUBSET Entries
    PROVE  WellLinked(link, back, first, m)
PROOF
<1> DEFINE at == Walk(link, first)
<1>1. /\ Cardinality(Entries) \in Nat /\ m \in 0 .. Cardinality(Entries)
      /\ \A n \in 0 .. Cardinality(Entries) : at[n] = IF n < m THEN c[n + 1] ELSE NULL
    BY Fits, Walked
<1>2. at[m] = NULL
    BY <1>1
<1>3. ASSUME NEW i \in 0 .. m - 1
      PROVE  /\ at[i] # NULL
             /\ back[at[i]] = IF i = 0 THEN NULL ELSE at[i - 1]
    <2>1. i + 1 \in 1 .. m /\ at[i] = c[i + 1]
        BY <1>1
    <2>2. c[i + 1] # NULL
        BY <2>1, HashAssumption DEF Forward
    <2>3. i # 0 => at[i - 1] = c[i]
        BY <1>1
    <2>4. back[c[i + 1]] = IF i + 1 = 1 THEN NULL ELSE c[(i + 1) - 1]
        BY <2>1 DEF Backward
    <2> QED
        BY <1>1, <2>1, <2>2, <2>3, <2>4
<1> QED
    BY <1>1, <1>2, <1>3 DEF WellLinked

(* The empty list.                                                         *)
LEMMA NoEntries ==
    ASSUME NEW link, NEW back
    PROVE  \E c : Forward(0, c, {}, NULL, link) /\ Backward(0, c, back)
PROOF
<1>1. [i \in 1 .. 0 |-> NULL] \in [1 .. 0 -> {}] /\ 1 .. 0 = {}
    OBVIOUS
<1> QED
    BY <1>1 DEF Forward, Backward

(* Links of other entries do not matter to a list.                         *)
LEMMA Framed ==
    ASSUME NEW D, NEW m, NEW c, NEW first, NEW link, NEW link2,
           Forward(m, c, D, first, link),
           \A e \in D : link2[e] = link[e]
    PROVE  Forward(m, c, D, first, link2)
PROOF
    BY DEF Forward

(* The same for the links back.                                            *)
LEMMA FramedBack ==
    ASSUME NEW D, NEW m, NEW c, NEW first, NEW link, NEW back, NEW back2,
           Forward(m, c, D, first, link), Backward(m, c, back),
           \A e \in D : back2[e] = back[e]
    PROVE  Backward(m, c, back2)
PROOF
    BY DEF Forward, Backward

(* An entry goes to the front of a list.                                   *)
LEMMA InFront ==
    ASSUME NEW D, NEW m, NEW c, NEW first, NEW link, NEW back,
           NEW e \in Entries, e \notin D, link \in Links,
           Forward(m, c, D, first, link), Backward(m, c, back),
           D \in SUBSET Entries
    PROVE  \E d : /\ Forward(m + 1, d, D \cup {e}, e, [link EXCEPT ![e] = first])
                  /\ Backward(m + 1, d, Relinked(back, first, e, e))
PROOF
<1> DEFINE d == [i \in 1 .. m + 1 |-> IF i = 1 THEN e ELSE c[i - 1]]
           link2 == [link EXCEPT ![e] = first]
           back2 == Relinked(back, first, e, e)
<1>1. /\ m \in Nat /\ c \in [1 .. m -> D] /\ e # NULL
      /\ \A i, j \in 1 .. m : c[i] = c[j] => i = j
      /\ \A x \in D : \E i \in 1 .. m : c[i] = x
      /\ first = IF m = 0 THEN NULL ELSE c[1]
      /\ \A i \in 1 .. m : link[c[i]] = IF i = m THEN NULL ELSE c[i + 1]
    BY HashAssumption DEF Forward
<1>2. /\ d[1] = e
      /\ \A i \in 2 .. m + 1 : i - 1 \in 1 .. m /\ d[i] = c[i - 1]
      /\ \A i \in 1 .. m + 1 : i = 1 \/ i \in 2 .. m + 1
    BY <1>1
<1>3. d \in [1 .. m + 1 -> D \cup {e}]
    BY <1>1
<1> HIDE DEF d
<1>4. \A i, j \in 1 .. m + 1 : d[i] = d[j] => i = j
    <2> SUFFICES ASSUME NEW i \in 1 .. m + 1, NEW j \in 1 .. m + 1, d[i] = d[j]
                 PROVE  i = j
        OBVIOUS
    <2>1. CASE i = 1 /\ j = 1
        BY <2>1
    <2>2. CASE i = 1 /\ j # 1
        BY <1>1, <1>2, <2>2
    <2>3. CASE i # 1 /\ j = 1
        BY <1>1, <1>2, <2>3
    <2>4. CASE i # 1 /\ j # 1
        <3>1. /\ i - 1 \in 1 .. m /\ j - 1 \in 1 .. m
              /\ d[i] = c[i - 1] /\ d[j] = c[j - 1]
            BY <1>2, <2>4
        <3>2. i - 1 = j - 1
            BY <1>1, <3>1
        <3> QED
            BY <1>1, <3>2
    <2> QED
        BY <2>1, <2>2, <2>3, <2>4
<1>5. \A x \in D \cup {e} : \E i \in 1 .. m + 1 : d[i] = x
    <2>1. 1 \in 1 .. m + 1
        BY <1>1
    <2>2. ASSUME NEW x \in D
          PROVE  \E i \in 1 .. m + 1 : d[i] = x
        <3>1. PICK i \in 1 .. m : c[i] = x
            BY <1>1
        <3>2. i + 1 \in 2 .. m + 1 /\ i + 1 \in 1 .. m + 1 /\ (i + 1) - 1 = i
            BY <1>1
        <3> QED
            BY <1>2, <3>1, <3>2
    <2> QED
        BY <1>2, <2>1, <2>2
<1>6. \A x \in Entries : link2[x] = IF x = e THEN first ELSE link[x]
    BY DEF Links
<1>7. \A x \in Entries :
          back2[x] = IF x = e THEN NULL ELSE IF x = first THEN e ELSE back[x]
    BY DEF Relinked
<1> HIDE DEF link2, back2
<1>8. ASSUME NEW i \in 1 .. m + 1
      PROVE  link2[d[i]] = IF i = m + 1 THEN NULL ELSE d[i + 1]
    <2>1. CASE i = 1
        <3>1. link2[d[i]] = first
            BY <1>2, <1>6, <2>1
        <3>2. m # 0 => d[i + 1] = c[1]
            BY <1>1, <1>2, <2>1
        <3> QED
            BY <1>1, <2>1, <3>1, <3>2
    <2>2. CASE i # 1
        <3>1. i - 1 \in 1 .. m /\ d[i] = c[i - 1]
            BY <1>2, <2>2
        <3>2. c[i - 1] \in D
            BY <1>1, <3>1
        <3>3. link2[d[i]] = link[c[i - 1]]
            BY <1>6, <3>1, <3>2
        <3>4. i # m + 1 => i + 1 \in 2 .. m + 1 /\ (i + 1) - 1 = (i - 1) + 1
            BY <1>1
        <3>5. i # m + 1 => d[i + 1] = c[(i - 1) + 1]
            BY <1>2, <3>4
        <3> QED
            BY <1>1, <3>1, <3>3, <3>5
    <2> QED
        BY <2>1, <2>2
<1>9. ASSUME NEW i \in 1 .. m + 1
      PROVE  back2[d[i]] = IF i = 1 THEN NULL ELSE d[i - 1]
    <2>1. CASE i = 1
        BY <1>2, <1>7, <2>1
    <2>2. CASE i # 1
        <3>1. i - 1 \in 1 .. m /\ d[i] = c[i - 1]
            BY <1>2, <2>2
        <3>2. c[i - 1] \in D /\ c[i - 1] # e /\ m # 0 /\ first = c[1]
            BY <1>1, <3>1
        <3>3. back2[d[i]] = IF c[i - 1] = first THEN e ELSE back[c[i - 1]]
            BY <1>7, <3>1, <3>2
        <3>4. c[i - 1] = first <=> i - 1 = 1
            BY <1>1, <3>1, <3>2
        <3>5. back[c[i - 1]] = IF i - 1 = 1 THEN NULL ELSE c[(i - 1) - 1]
            BY <3>1 DEF Backward
        <3>6. i - 1 # 1 => i - 1 \in 2 .. m + 1
            BY <1>1, <3>1
        <3>7. i - 1 # 1 => d[i - 1] = c[(i - 1) - 1]
            BY <1>2, <3>6
        <3> QED
            BY <1>2, <2>2, <3>3, <3>4, <3>5, <3>7
    <2> QED
        BY <2>1, <2>2
<1>10. e = IF m + 1 = 0 THEN NULL ELSE d[1]
    BY <1>1, <1>2
<1>11. Forward(m + 1, d, D \cup {e}, e, link2)
    BY <1>1, <1>3, <1>4, <1>5, <1>8, <1>10 DEF Forward
<1>12. Backward(m + 1, d, back2)
    BY <1>9 DEF Backward
<1> QED
    BY <1>11, <1>12 DEF link2, back2

(* An entry goes behind the last one of a list.                            *)
LEMMA Appended ==
    ASSUME NEW D, NEW m \in Nat \ {0}, NEW c, NEW first, NEW last,
           NEW link \in Links, NEW back \in Links,
           NEW e \in Entries, e \notin D,
           Forward(m, c, D, first, link), Backward(m, c, back), Ending(m, c, last),
           D \in SUBSET Entries
    PROVE  \E d : /\ Forward(m + 1, d, D \cup {e}, first,
                              [link EXCEPT ![e] = NULL, ![last] = e])
                  /\ Backward(m + 1, d, [back EXCEPT ![e] = last])
                  /\ Ending(m + 1, d, e)
PROOF
<1> DEFINE d == [i \in 1 .. m + 1 |-> IF i = m + 1 THEN e ELSE c[i]]
           link2 == [link EXCEPT ![e] = NULL, ![last] = e]
           back2 == [back EXCEPT ![e] = last]
<1>1. /\ c \in [1 .. m -> D] /\ m \in 1 .. m /\ 1 \in 1 .. m
      /\ \A i, j \in 1 .. m : c[i] = c[j] => i = j
      /\ \A x \in D : \E i \in 1 .. m : c[i] = x
      /\ first = c[1] /\ last = c[m]
      /\ \A i \in 1 .. m : link[c[i]] = IF i = m THEN NULL ELSE c[i + 1]
      /\ \A i \in 1 .. m : back[c[i]] = IF i = 1 THEN NULL ELSE c[i - 1]
    BY DEF Forward, Backward, Ending
<1>2. /\ d[m + 1] = e
      /\ \A i \in 1 .. m : i \in 1 .. m + 1 /\ i # m + 1 /\ d[i] = c[i]
      /\ \A i \in 1 .. m : c[i] \in D /\ c[i] # e
      /\ \A i \in 1 .. m + 1 : i = m + 1 \/ i \in 1 .. m
    BY <1>1
<1>3. d \in [1 .. m + 1 -> D \cup {e}]
    BY <1>1
<1> HIDE DEF d
<1>4. \A i, j \in 1 .. m + 1 : d[i] = d[j] => i = j
    <2> SUFFICES ASSUME NEW i \in 1 .. m + 1, NEW j \in 1 .. m + 1, d[i] = d[j]
                 PROVE  i = j
        OBVIOUS
    <2>1. CASE i \in 1 .. m /\ j \in 1 .. m
        BY <1>1, <1>2, <2>1
    <2>2. CASE i \in 1 .. m /\ j = m + 1
        BY <1>2, <2>2
    <2>3. CASE i = m + 1 /\ j \in 1 .. m
        BY <1>2, <2>3
    <2>4. CASE i = m + 1 /\ j = m + 1
        BY <2>4
    <2> QED
        BY <1>2, <2>1, <2>2, <2>3, <2>4
<1>5. \A x \in D \cup {e} : \E i \in 1 .. m + 1 : d[i] = x
    <2>1. m + 1 \in 1 .. m + 1
        OBVIOUS
    <2> QED
        BY <1>1, <1>2, <2>1
<1>6. \A x \in Entries : link2[x] = IF x = c[m] THEN e ELSE IF x = e THEN NULL ELSE link[x]
    BY <1>1 DEF Links
<1>7. \A x \in Entries : back2[x] = IF x = e THEN c[m] ELSE back[x]
    BY <1>1 DEF Links
<1> HIDE DEF link2, back2
<1>8. ASSUME NEW i \in 1 .. m + 1
      PROVE  link2[d[i]] = IF i = m + 1 THEN NULL ELSE d[i + 1]
    <2>1. CASE i = m + 1
        BY <1>1, <1>2, <1>6, <2>1
    <2>2. CASE i = m
        <3>1. link2[c[m]] = e
            BY <1>1, <1>6
        <3> QED
            BY <1>2, <2>2, <3>1
    <2>3. CASE i \in 1 .. m /\ i # m
        <3>1. i + 1 \in 1 .. m /\ i # m + 1
            BY <2>3
        <3>2. c[i] # c[m] /\ c[i] # e /\ c[i] \in Entries
            BY <1>1, <1>2, <2>3
        <3>3. link2[c[i]] = c[i + 1]
            BY <1>1, <1>6, <2>3, <3>2
        <3> QED
            BY <1>2, <2>3, <3>1, <3>3
    <2> QED
        BY <1>2, <2>1, <2>2, <2>3
<1>9. ASSUME NEW i \in 1 .. m + 1
      PROVE  back2[d[i]] = IF i = 1 THEN NULL ELSE d[i - 1]
    <2>1. CASE i = m + 1
        <3>1. i # 1 /\ i - 1 = m
            BY <2>1
        <3> QED
            BY <1>1, <1>2, <1>7, <2>1, <3>1
    <2>2. CASE i \in 1 .. m
        <3>1. i # 1 => i - 1 \in 1 .. m
            BY <2>2
        <3>2. back2[c[i]] = back[c[i]]
            BY <1>2, <1>7, <2>2
        <3> QED
            BY <1>1, <1>2, <2>2, <3>1, <3>2
    <2> QED
        BY <1>2, <2>1, <2>2
<1>10. m + 1 \in Nat /\ first = IF m + 1 = 0 THEN NULL ELSE d[1]
    BY <1>1, <1>2
<1>11. Forward(m + 1, d, D \cup {e}, first, link2)
    BY <1>3, <1>4, <1>5, <1>8, <1>10 DEF Forward
<1>12. Backward(m + 1, d, back2)
    BY <1>9 DEF Backward
<1> QED
    BY <1>2, <1>11, <1>12 DEF link2, back2, Ending

(* Who is before an entry of a list and who is behind it.                  *)
Around(e, m, D, first, link, back) ==
    /\ m \in Nat \ {0}
    /\ link[e] \in D \cup {NULL} /\ back[e] \in D \cup {NULL}
    /\ back[e] = NULL <=> first = e
    /\ (back[e] = NULL /\ link[e] = NULL) <=> m = 1
    /\ m = 1 => D = {e}

(* So it is with every entry of a list.                                    *)
LEMMA Neighbours ==
    ASSUME NEW D, NEW m, NEW c, NEW first, NEW link, NEW back, NEW e,
           Forward(m, c, D, first, link), Backward(m, c, back),
           D \in SUBSET Entries, e \in D
    PROVE  Around(e, m, D, first, link, back)
PROOF
<1>1. /\ m \in Nat /\ c \in [1 .. m -> D] /\ NULL \notin D
      /\ \A i, j \in 1 .. m : c[i] = c[j] => i = j
      /\ \A x \in D : \E i \in 1 .. m : c[i] = x
      /\ first = IF m = 0 THEN NULL ELSE c[1]
      /\ \A i \in 1 .. m : link[c[i]] = IF i = m THEN NULL ELSE c[i + 1]
      /\ \A i \in 1 .. m : back[c[i]] = IF i = 1 THEN NULL ELSE c[i - 1]
    BY HashAssumption DEF Forward, Backward
<1>2. PICK k \in 1 .. m : c[k] = e
    BY <1>1
<1>3. m \in Nat \ {0} /\ 1 \in 1 .. m /\ m \in 1 .. m /\ first = c[1]
    BY <1>1, <1>2
<1>4. /\ k # m => k + 1 \in 1 .. m
      /\ k # 1 => k - 1 \in 1 .. m
    BY <1>1, <1>2
<1>5. link[e] = IF k = m THEN NULL ELSE c[k + 1]
    BY <1>1, <1>2
<1>6. back[e] = IF k = 1 THEN NULL ELSE c[k - 1]
    BY <1>1, <1>2
<1>7. /\ link[e] \in D \cup {NULL}
      /\ link[e] = NULL <=> k = m
      /\ back[e] \in D \cup {NULL}
      /\ back[e] = NULL <=> k = 1
    BY <1>1, <1>4, <1>5, <1>6
<1>8. first = e <=> k = 1
    BY <1>1, <1>2, <1>3
<1>9. m = 1 <=> (k = 1 /\ k = m)
    BY <1>2
<1>10. m = 1 => D = {e}
    BY <1>1, <1>2
<1> QED
    BY <1>3, <1>7, <1>8, <1>9, <1>10 DEF Around

(* An entry leaves a list.                                                 *)
LEMMA Unlinked ==
    ASSUME NEW D, NEW m, NEW c, NEW first, NEW last, NEW link,
           NEW back,
           NEW e,
           Forward(m, c, D, first, link), Backward(m, c, back), Ending(m, c, last),
           D \in SUBSET Entries, e \in D
    PROVE  \E d : /\ Forward(m - 1, d, D \ {e}, IF first = e THEN link[e] ELSE first,
                              Relinked(link, back[e], link[e], e))
                  /\ Backward(m - 1, d, Relinked(back, link[e], back[e], e))
                  /\ Ending(m - 1, d, IF e = last THEN back[e] ELSE last)
PROOF
<1>1. /\ m \in Nat /\ c \in [1 .. m -> D] /\ NULL \notin D
      /\ \A i, j \in 1 .. m : c[i] = c[j] => i = j
      /\ \A x \in D : \E i \in 1 .. m : c[i] = x
      /\ first = IF m = 0 THEN NULL ELSE c[1]
      /\ \A i \in 1 .. m : link[c[i]] = IF i = m THEN NULL ELSE c[i + 1]
      /\ \A i \in 1 .. m : back[c[i]] = IF i = 1 THEN NULL ELSE c[i - 1]
    BY HashAssumption DEF Forward, Backward
<1>2. PICK k \in 1 .. m : c[k] = e
    BY <1>1
<1> DEFINE d == [i \in 1 .. m - 1 |-> IF i < k THEN c[i] ELSE c[i + 1]]
           first2 == IF first = e THEN link[e] ELSE first
           link2 == Relinked(link, back[e], link[e], e)
           back2 == Relinked(back, link[e], back[e], e)
<1>3. /\ m \in Nat \ {0} /\ 1 \in 1 .. m /\ m \in 1 .. m /\ first = c[1]
      /\ k # m => k + 1 \in 1 .. m
      /\ k # 1 => k - 1 \in 1 .. m
      /\ first = e <=> k = 1
      /\ c[m] = e <=> k = m
    BY <1>1, <1>2
<1>4. /\ link[e] = IF k = m THEN NULL ELSE c[k + 1]
      /\ back[e] = IF k = 1 THEN NULL ELSE c[k - 1]
    BY <1>1, <1>2
<1>5. \A i \in 1 .. m - 1 :
          /\ i < k => i \in 1 .. m /\ i # k /\ d[i] = c[i]
          /\ ~(i < k) => i + 1 \in 1 .. m /\ i + 1 # k /\ d[i] = c[i + 1]
    BY <1>2, <1>3
<1>6. \A i \in 1 .. m : i # k => c[i] \in D \ {e}
    BY <1>1, <1>2
<1>7. d \in [1 .. m - 1 -> D \ {e}]
    <2>1. \A i \in 1 .. m - 1 : d[i] \in D \ {e}
        BY <1>5, <1>6
    <2> QED
        BY <2>1
<1> HIDE DEF d
<1>8. \A i, j \in 1 .. m - 1 : d[i] = d[j] => i = j
    <2> SUFFICES ASSUME NEW i \in 1 .. m - 1, NEW j \in 1 .. m - 1, d[i] = d[j]
                 PROVE  i = j
        OBVIOUS
    <2> DEFINE at(n) == IF n < k THEN n ELSE n + 1
    <2>1. at(i) \in 1 .. m /\ at(j) \in 1 .. m /\ d[i] = c[at(i)] /\ d[j] = c[at(j)]
        BY <1>5
    <2>2. at(i) = at(j)
        <3> HIDE DEF at
        <3> QED
            BY <1>1, <2>1
    <2> QED
        BY <1>2, <1>3, <2>2
<1>9. \A x \in D \ {e} : \E i \in 1 .. m - 1 : d[i] = x
    <2> SUFFICES ASSUME NEW x \in D \ {e}
                 PROVE  \E i \in 1 .. m - 1 : d[i] = x
        OBVIOUS
    <2>1. PICK j \in 1 .. m : c[j] = x
        BY <1>1
    <2>2. j # k
        BY <1>2, <2>1
    <2>3. CASE j < k
        <3>1. j \in 1 .. m - 1
            BY <1>2, <1>3, <2>3
        <3> QED
            BY <1>5, <2>1, <2>3, <3>1
    <2>4. CASE j > k
        <3>1. j - 1 \in 1 .. m - 1 /\ ~(j - 1 < k) /\ (j - 1) + 1 = j
            BY <1>2, <1>3, <2>4
        <3>2. d[j - 1] = c[(j - 1) + 1]
            BY <1>5, <3>1
        <3> QED
            BY <2>1, <3>1, <3>2
    <2> QED
        BY <1>2, <2>2, <2>3, <2>4
<1>10. \A x \in D \ {e} :
           /\ link2[x] = IF x = back[e] THEN link[e] ELSE link[x]
           /\ back2[x] = IF x = link[e] THEN back[e] ELSE back[x]
    BY DEF Relinked
<1> HIDE DEF link2, back2
<1>11. ASSUME NEW i \in 1 .. m - 1
       PROVE  link2[d[i]] = IF i = m - 1 THEN NULL ELSE d[i + 1]
    <2>1. CASE i < k /\ i # k - 1
        <3>1. /\ i + 1 \in 1 .. m - 1 /\ i + 1 < k /\ i # m - 1 /\ i \in 1 .. m /\ i # m
              /\ k # 1
            BY <1>2, <1>3, <2>1
        <3>2. d[i] = c[i] /\ d[i + 1] = c[i + 1] /\ c[i] \in D \ {e}
            BY <1>5, <1>6, <2>1, <3>1
        <3>3. c[i] # back[e]
            <4>1. k - 1 \in 1 .. m /\ back[e] = c[k - 1]
                BY <1>3, <1>4, <3>1
            <4> QED
                BY <1>1, <2>1, <3>1, <4>1
        <3> QED
            BY <1>1, <1>10, <3>1, <3>2, <3>3
    <2>2. CASE i = k - 1
        <3>1. k # 1 /\ i < k /\ i + 1 = k /\ (i = m - 1 <=> k = m)
            BY <1>2, <1>3, <2>2
        <3>2. d[i] = c[k - 1] /\ c[k - 1] \in D \ {e} /\ back[e] = c[k - 1]
            BY <1>4, <1>5, <1>6, <2>2, <3>1
        <3>3. link2[d[i]] = link[e]
            BY <1>10, <3>2
        <3>4. k # m => k \in 1 .. m - 1
            BY <1>2, <1>3
        <3>5. k # m => d[k] = c[k + 1]
            BY <1>5, <3>4
        <3> QED
            BY <1>4, <3>1, <3>3, <3>5
    <2>3. CASE ~(i < k)
        <3>1. i + 1 \in 1 .. m /\ i + 1 # k /\ d[i] = c[i + 1] /\ c[i + 1] \in D \ {e}
            BY <1>5, <1>6, <2>3
        <3>2. k # 1 => i + 1 # k - 1
            BY <1>2, <2>3
        <3>3. c[i + 1] # back[e]
            <4>1. CASE k = 1
                BY <1>1, <1>4, <3>1, <4>1
            <4>2. CASE k # 1
                <5>1. k - 1 \in 1 .. m /\ back[e] = c[k - 1]
                    BY <1>3, <1>4, <4>2
                <5> QED
                    BY <1>1, <3>1, <3>2, <4>2, <5>1
            <4> QED
                BY <4>1, <4>2
        <3>4. link2[d[i]] = IF i + 1 = m THEN NULL ELSE c[(i + 1) + 1]
            BY <1>1, <1>10, <3>1, <3>3
        <3>5. i # m - 1 => i + 1 \in 1 .. m - 1 /\ ~(i + 1 < k)
            BY <1>2, <1>3, <2>3
        <3>6. i # m - 1 => d[i + 1] = c[(i + 1) + 1]
            BY <1>5, <3>5
        <3>7. i + 1 = m <=> i = m - 1
            BY <1>3
        <3> QED
            BY <3>4, <3>6, <3>7
    <2> QED
        BY <1>2, <2>1, <2>2, <2>3
<1>12. ASSUME NEW i \in 1 .. m - 1
       PROVE  back2[d[i]] = IF i = 1 THEN NULL ELSE d[i - 1]
    <2>1. CASE i < k
        <3>1. i \in 1 .. m /\ i # k /\ d[i] = c[i] /\ c[i] \in D \ {e}
            BY <1>5, <1>6, <2>1
        <3>2. k # m => i # k + 1
            BY <1>2, <2>1
        <3>3. c[i] # link[e]
            <4>1. CASE k = m
                BY <1>1, <1>4, <3>1, <4>1
            <4>2. CASE k # m
                <5>1. k + 1 \in 1 .. m /\ link[e] = c[k + 1]
                    BY <1>3, <1>4, <4>2
                <5> QED
                    BY <1>1, <3>1, <3>2, <4>2, <5>1
            <4> QED
                BY <4>1, <4>2
        <3>4. back2[d[i]] = IF i = 1 THEN NULL ELSE c[i - 1]
            BY <1>1, <1>10, <3>1, <3>3
        <3>5. i # 1 => i - 1 \in 1 .. m - 1 /\ i - 1 < k
            BY <1>2, <1>3, <2>1
        <3>6. i # 1 => d[i - 1] = c[i - 1]
            BY <1>5, <3>5
        <3> QED
            BY <3>4, <3>6
    <2>2. CASE i = k
        <3>1. k # m /\ ~(i < k)
            BY <1>2, <1>3, <2>2
        <3>2. d[i] = c[k + 1] /\ c[k + 1] \in D \ {e} /\ link[e] = c[k + 1]
            BY <1>4, <1>5, <1>6, <2>2, <3>1
        <3>3. back2[d[i]] = back[e]
            BY <1>10, <3>2
        <3>4. k # 1 => k - 1 \in 1 .. m - 1 /\ k - 1 < k
            BY <1>2, <1>3
        <3>5. k # 1 => d[k - 1] = c[k - 1]
            BY <1>5, <3>4
        <3> QED
            BY <1>4, <2>2, <3>3, <3>5
    <2>3. CASE i > k
        <3>1. ~(i < k) /\ i # 1 /\ i - 1 \in 1 .. m - 1 /\ ~(i - 1 < k)
            BY <1>2, <1>3, <2>3
        <3>2. i + 1 \in 1 .. m /\ i + 1 # k /\ d[i] = c[i + 1] /\ c[i + 1] \in D \ {e}
            BY <1>5, <1>6, <3>1
        <3>3. d[i - 1] = c[i]
            <4>1. d[i - 1] = c[(i - 1) + 1] /\ (i - 1) + 1 = i
                BY <1>5, <3>1
            <4> QED
                BY <4>1
        <3>4. k # m => i + 1 # k + 1
            BY <1>2, <2>3
        <3>5. c[i + 1] # link[e]
            <4>1. CASE k = m
                BY <1>1, <1>4, <3>2, <4>1
            <4>2. CASE k # m
                <5>1. k + 1 \in 1 .. m /\ link[e] = c[k + 1]
                    BY <1>3, <1>4, <4>2
                <5> QED
                    BY <1>1, <3>2, <3>4, <4>2, <5>1
            <4> QED
                BY <4>1, <4>2
        <3>6. back[c[i + 1]] = c[i]
            <4>1. i + 1 # 1 /\ (i + 1) - 1 = i
                OBVIOUS
            <4> QED
                BY <1>1, <3>2, <4>1
        <3> QED
            BY <1>10, <3>1, <3>2, <3>3, <3>5, <3>6
    <2> QED
        BY <1>2, <2>1, <2>2, <2>3
<1>13. first2 = IF m - 1 = 0 THEN NULL ELSE d[1]
    <2>1. CASE k = 1
        <3>1. first2 = IF m = 1 THEN NULL ELSE c[2]
            BY <1>3, <1>4, <2>1
        <3>2. m # 1 => 1 \in 1 .. m - 1 /\ ~(1 < k) /\ 1 + 1 = 2
            BY <1>3, <2>1
        <3>3. m # 1 => d[1] = c[2]
            BY <1>5, <3>2
        <3>4. m = 1 <=> m - 1 = 0
            BY <1>3
        <3> QED
            BY <3>1, <3>3, <3>4
    <2>2. CASE k # 1
        <3>1. first2 = c[1]
            BY <1>3, <2>2
        <3>2. 1 \in 1 .. m - 1 /\ 1 < k /\ m - 1 # 0
            BY <1>2, <1>3, <2>2
        <3> QED
            BY <1>5, <3>1, <3>2
    <2> QED
        BY <2>1, <2>2
<1>14. Ending(m - 1, d, IF e = last THEN back[e] ELSE last)
    <2> SUFFICES ASSUME m - 1 # 0
                 PROVE  d[m - 1] = IF c[m] = e THEN back[e] ELSE c[m]
        BY <1>3 DEF Ending
    <2>1. m - 1 \in 1 .. m - 1 /\ (m - 1 < k <=> k = m) /\ (m - 1) + 1 = m
        BY <1>2, <1>3
    <2>2. d[m - 1] = IF k = m THEN c[m - 1] ELSE c[m]
        BY <1>5, <2>1
    <2> QED
        BY <1>3, <1>4, <2>2
<1>15. m - 1 \in Nat
    BY <1>3
<1> HIDE DEF first2
<1>16. Forward(m - 1, d, D \ {e}, first2, link2)
    BY <1>7, <1>8, <1>9, <1>11, <1>13, <1>15 DEF Forward
<1>17. Backward(m - 1, d, back2)
    BY <1>12 DEF Backward
<1> QED
    BY <1>14, <1>16, <1>17 DEF first2, link2, back2

-----------------------------------------------------------------------------
(* Buckets.  The lemmas above, for a list whose order does not matter.     *)

(* Every entry has a bucket.                                               *)
LEMMA BucketOf ==
    ASSUME NEW e \in Entries, NEW n \in Nat \ {0}
    PROVE  ToBucket(e, n) \in 0 .. n - 1
PROOF
<1>1. hashv[e] \in Nat
    BY HashAssumption
<1>2. \A h \in Nat : h % n \in 0 .. n - 1
    OBVIOUS
<1> QED
    BY <1>1, <1>2 DEF ToBucket

(* As NoEntries.                                                           *)
LEMMA ListEmpty ==
    ASSUME NEW link, NEW back
    PROVE  IsList(0, {}, NULL, link, back)
PROOF
<1>1. PICK c : Forward(0, c, {}, NULL, link) /\ Backward(0, c, back)
    BY NoEntries
<1>2. c \in [1 .. 0 -> {}]
    BY <1>1 DEF Forward
<1> QED
    BY <1>1, <1>2 DEF IsList

(* As Framed.                                                              *)
LEMMA ListFramed ==
    ASSUME NEW D, NEW m, NEW first, NEW link, NEW back, NEW link2, NEW back2,
           IsList(m, D, first, link, back),
           \A e \in D : link2[e] = link[e] /\ back2[e] = back[e]
    PROVE  IsList(m, D, first, link2, back2)
PROOF
<1>1. PICK c \in [1 .. m -> D] :
          Forward(m, c, D, first, link) /\ Backward(m, c, back)
    BY DEF IsList
<1>2. Forward(m, c, D, first, link2)
    BY <1>1, Framed
<1>3. Backward(m, c, back2)
    BY <1>1, FramedBack
<1> QED
    BY <1>2, <1>3 DEF IsList

(* As InFront.                                                             *)
LEMMA ListInFront ==
    ASSUME NEW D, NEW m, NEW first, NEW link, NEW back,
           NEW e \in Entries, e \notin D, link \in Links,
           IsList(m, D, first, link, back),
           D \in SUBSET Entries
    PROVE  IsList(m + 1, D \cup {e}, e, [link EXCEPT ![e] = first],
                  Relinked(back, first, e, e))
PROOF
<1>1. PICK c \in [1 .. m -> D] :
          Forward(m, c, D, first, link) /\ Backward(m, c, back)
    BY DEF IsList
<1>2. PICK d : /\ Forward(m + 1, d, D \cup {e}, e, [link EXCEPT ![e] = first])
               /\ Backward(m + 1, d, Relinked(back, first, e, e))
    BY <1>1, InFront
<1>3. d \in [1 .. m + 1 -> D \cup {e}]
    BY <1>2 DEF Forward
<1> QED
    BY <1>2, <1>3 DEF IsList

(* As Unlinked.                                                            *)
LEMMA ListUnlinked ==
    ASSUME NEW D, NEW m, NEW first, NEW link, NEW back,
           NEW e,
           IsList(m, D, first, link, back),
           D \in SUBSET Entries, e \in D
    PROVE  IsList(m - 1, D \ {e}, IF first = e THEN link[e] ELSE first,
                  Relinked(link, back[e], link[e], e),
                  Relinked(back, link[e], back[e], e))
PROOF
<1>1. PICK c \in [1 .. m -> D] :
          Forward(m, c, D, first, link) /\ Backward(m, c, back)
    BY DEF IsList
<1> PICK last : Ending(m, c, last)
    BY DEF Ending
<1>2. PICK d : /\ Forward(m - 1, d, D \ {e}, IF first = e THEN link[e] ELSE first,
                          Relinked(link, back[e], link[e], e))
               /\ Backward(m - 1, d, Relinked(back, link[e], back[e], e))
    BY <1>1, Unlinked
<1>3. d \in [1 .. m - 1 -> D \ {e}]
    BY <1>2 DEF Forward
<1> QED
    BY <1>2, <1>3 DEF IsList

(* As Neighbours.                                                          *)
LEMMA ListAround ==
    ASSUME NEW D, NEW m, NEW first, NEW link, NEW back, NEW e,
           IsList(m, D, first, link, back),
           D \in SUBSET Entries, e \in D
    PROVE  Around(e, m, D, first, link, back)
PROOF
<1>1. PICK c \in [1 .. m -> D] :
          Forward(m, c, D, first, link) /\ Backward(m, c, back)
    BY DEF IsList
<1> QED
    BY <1>1, Neighbours

(* What a list says of its length, its first entry and its neighbours.     *)
LEMMA ListFacts ==
    ASSUME NEW D, NEW m, NEW first, NEW link, NEW back,
           IsList(m, D, first, link, back),
           D \in SUBSET Entries
    PROVE  /\ Cardinality(Entries) \in Nat /\ m \in 0 .. Cardinality(Entries)
           /\ first \in D \cup {NULL}
           /\ m = 0 <=> first = NULL
           /\ m = 0 <=> D = {}
           /\ List(link, first) = D
           /\ WellLinked(link, back, first, m)
           /\ \A e \in D : link[e] \in D \cup {NULL} /\ back[e] \in D \cup {NULL}
PROOF
<1>1. PICK c \in [1 .. m -> D] :
          Forward(m, c, D, first, link) /\ Backward(m, c, back)
    BY DEF IsList
<1>2. /\ Cardinality(Entries) \in Nat /\ m \in 0 .. Cardinality(Entries)
      /\ List(link, first) = D
      /\ WellLinked(link, back, first, m)
    BY <1>1, Fits, Listed, ListWellLinked
<1>3. \A e \in D : link[e] \in D \cup {NULL} /\ back[e] \in D \cup {NULL}
    <2>1. \A e \in D : Around(e, m, D, first, link, back)
        BY ListAround
    <2> QED
        BY <2>1 DEF Around
<1>4. /\ first = IF m = 0 THEN NULL ELSE c[1]
      /\ \A e \in D : \E i \in 1 .. m : c[i] = e
      /\ NULL \notin D
    BY <1>1, HashAssumption DEF Forward
<1>5. CASE m = 0
    BY <1>2, <1>3, <1>4, <1>5
<1>6. CASE m # 0
    <2>1. 1 \in 1 .. m
        BY <1>2, <1>6
    <2>2. c[1] \in D
        BY <2>1
    <2> QED
        BY <1>2, <1>3, <1>4, <1>6, <2>2
<1> QED
    BY <1>5, <1>6

(* The list of all entries is one whose last entry is known.               *)
LEMMA EndIsList ==
    ASSUME NEW D, NEW m, NEW first, NEW last, NEW link, NEW back,
           EndsWith(m, D, first, last, link, back),
           D \in SUBSET Entries
    PROVE  /\ IsList(m, D, first, link, back)
           /\ m # 0 /\ last \in D
           /\ last = Walk(link, first)[m - 1]
PROOF
<1>1. PICK c \in [1 .. m -> D] :
          /\ Forward(m, c, D, first, link)
          /\ Backward(m, c, back)
          /\ m # 0
          /\ Ending(m, c, last)
    BY DEF EndsWith
<1>2. Cardinality(Entries) \in Nat /\ m \in 1 .. Cardinality(Entries)
    BY <1>1, Fits DEF Ending
<1>3. m \in 1 .. m /\ m - 1 \in 0 .. Cardinality(Entries) /\ m - 1 < m /\ (m - 1) + 1 = m
    BY <1>2
<1>4. Walk(link, first)[m - 1] = c[m]
    <2>1. \A n \in 0 .. Cardinality(Entries) :
              Walk(link, first)[n] = IF n < m THEN c[n + 1] ELSE NULL
        BY <1>1, Walked
    <2> QED
        BY <1>3, <2>1
<1> QED
    BY <1>1, <1>3, <1>4 DEF IsList, Ending

(* The first entry of a list leaves it, and no link changes.               *)
LEMMA Rest ==
    ASSUME NEW D, NEW first, NEW link,
           Loose(D, first, link), first # NULL,
           D \in SUBSET Entries
    PROVE  /\ first \in D
           /\ Loose(D \ {first}, link[first], link)
PROOF
<1>0. PICK m \in 0 .. Cardinality(Entries) :
          \E c \in [1 .. m -> D] : Forward(m, c, D, first, link)
    BY DEF Loose
<1>1. PICK c \in [1 .. m -> D] : Forward(m, c, D, first, link)
    BY <1>0
<1>2. /\ m \in Nat \ {0} /\ first = c[1]
      /\ \A i, j \in 1 .. m : c[i] = c[j] => i = j
      /\ \A x \in D : \E i \in 1 .. m : c[i] = x
      /\ \A i \in 1 .. m : link[c[i]] = IF i = m THEN NULL ELSE c[i + 1]
    BY <1>1 DEF Forward
<1>3. 1 \in 1 .. m /\ c[1] \in D
    BY <1>2
<1> DEFINE d == [i \in 1 .. m - 1 |-> c[i + 1]]
<1>4. /\ m - 1 \in Nat
      /\ \A i \in 1 .. m - 1 : i + 1 \in 1 .. m /\ i + 1 # 1 /\ d[i] = c[i + 1]
    BY <1>2
<1>5. d \in [1 .. m - 1 -> D \ {first}]
    <2>1. \A i \in 1 .. m - 1 : c[i + 1] \in D \ {first}
        BY <1>2, <1>3, <1>4
    <2> QED
        BY <2>1
<1> HIDE DEF d
<1>6. \A i, j \in 1 .. m - 1 : d[i] = d[j] => i = j
    <2> SUFFICES ASSUME NEW i \in 1 .. m - 1, NEW j \in 1 .. m - 1, d[i] = d[j]
                 PROVE  i = j
        OBVIOUS
    <2>1. i + 1 = j + 1
        BY <1>2, <1>4
    <2> QED
        BY <2>1
<1>7. \A x \in D \ {first} : \E i \in 1 .. m - 1 : d[i] = x
    <2> SUFFICES ASSUME NEW x \in D \ {first}
                 PROVE  \E i \in 1 .. m - 1 : d[i] = x
        OBVIOUS
    <2>1. PICK i \in 1 .. m : c[i] = x
        BY <1>2
    <2>2. i - 1 \in 1 .. m - 1 /\ (i - 1) + 1 = i
        BY <1>2, <2>1
    <2>3. d[i - 1] = c[(i - 1) + 1]
        BY <1>4, <2>2
    <2> QED
        BY <2>1, <2>2, <2>3
<1>8. link[first] = IF m - 1 = 0 THEN NULL ELSE d[1]
    <2>1. link[first] = IF 1 = m THEN NULL ELSE c[2]
        BY <1>2, <1>3
    <2>2. m # 1 => 1 \in 1 .. m - 1 /\ 1 + 1 = 2
        BY <1>2
    <2>3. m # 1 => d[1] = c[2]
        BY <1>4, <2>2
    <2>4. m = 1 <=> m - 1 = 0
        BY <1>2
    <2> QED
        BY <2>1, <2>3, <2>4
<1>9. ASSUME NEW i \in 1 .. m - 1
      PROVE  link[d[i]] = IF i = m - 1 THEN NULL ELSE d[i + 1]
    <2>1. link[d[i]] = IF i + 1 = m THEN NULL ELSE c[(i + 1) + 1]
        BY <1>2, <1>4
    <2>2. i # m - 1 => i + 1 \in 1 .. m - 1
        BY <1>2
    <2>3. i # m - 1 => d[i + 1] = c[(i + 1) + 1]
        BY <1>4, <2>2
    <2>4. i + 1 = m <=> i = m - 1
        BY <1>2
    <2> QED
        BY <2>1, <2>3, <2>4
<1>10. Forward(m - 1, d, D \ {first}, link[first], link)
    BY <1>4, <1>5, <1>6, <1>7, <1>8, <1>9 DEF Forward
<1>11. m - 1 \in 0 .. Cardinality(Entries)
    <2>1. Cardinality(Entries) \in Nat
        BY FS_CardinalityType, HashAssumption
    <2> QED
        BY <1>2, <2>1
<1> QED
    BY <1>2, <1>3, <1>5, <1>10, <1>11 DEF Loose

(* Framed, for the links forward.                                          *)
LEMMA LooseFramed ==
    ASSUME NEW D, NEW first, NEW link, NEW link2,
           Loose(D, first, link), \A e \in D : link2[e] = link[e]
    PROVE  Loose(D, first, link2)
PROOF
<1>0. PICK m \in 0 .. Cardinality(Entries) :
          \E c \in [1 .. m -> D] : Forward(m, c, D, first, link)
    BY DEF Loose
<1>1. PICK c \in [1 .. m -> D] : Forward(m, c, D, first, link)
    BY <1>0
<1>2. Forward(m, c, D, first, link2)
    BY <1>1, Framed
<1> QED
    BY <1>2 DEF Loose

(* A list without a first entry has none.                                  *)
LEMMA LooseEmpty ==
    ASSUME NEW D, NEW link, Loose(D, NULL, link),
           D \in SUBSET Entries
    PROVE  D = {}
PROOF
<1>0. PICK m \in 0 .. Cardinality(Entries) :
          \E c \in [1 .. m -> D] : Forward(m, c, D, NULL, link)
    BY DEF Loose
<1>1. PICK c \in [1 .. m -> D] : Forward(m, c, D, NULL, link)
    BY <1>0
<1>2. /\ m \in Nat
      /\ NULL = IF m = 0 THEN NULL ELSE c[1]
      /\ \A e \in D : \E i \in 1 .. m : c[i] = e
      /\ NULL \notin D
    BY <1>1, HashAssumption DEF Forward
<1>3. m = 0
    <2>1. m # 0 => 1 \in 1 .. m
        BY <1>2
    <2> QED
        BY <1>2, <2>1
<1> QED
    BY <1>2, <1>3

(* A list is one by its links forward, too.                                *)
LEMMA ListIsLoose ==
    ASSUME NEW D, NEW m, NEW first, NEW link, NEW back,
           IsList(m, D, first, link, back),
           D \in SUBSET Entries
    PROVE  Loose(D, first, link)
PROOF
<1>1. m \in 0 .. Cardinality(Entries)
    BY ListFacts
<1> QED
    BY <1>1 DEF IsList, Loose

(* The lists of the buckets when an entry goes to the front of its own.    *)
LEMMA ThreadedPush ==
    ASSUME NEW n \in Nat \ {0}, NEW D, NEW e \in Entries, e \notin D,
           NEW bkts, NEW bkts2, NEW link \in Links, NEW back, NEW b,
           b = ToBucket(e, n),
           Threaded(bkts, n, D, link, back),
           bkts2[b].count = bkts[b].count + 1,
           bkts2[b].hh_head = e,
           \A a \in (0 .. n - 1) \ {b} :
               bkts2[a].count = bkts[a].count /\ bkts2[a].hh_head = bkts[a].hh_head,
           D \in SUBSET Entries
    PROVE  Threaded(bkts2, n, D \cup {e}, [link EXCEPT ![e] = bkts[b].hh_head],
                    Relinked(back, bkts[b].hh_head, e, e))
PROOF
<1> DEFINE first == bkts[b].hh_head
           link2 == [link EXCEPT ![e] = first]
           back2 == Relinked(back, first, e, e)
<1>1. b \in 0 .. n - 1
    BY BucketOf
<1>2. \A a \in 0 .. n - 1 :
          /\ InBucket(D, a, n) \in SUBSET Entries /\ e \notin InBucket(D, a, n)
          /\ IsList(bkts[a].count, InBucket(D, a, n), bkts[a].hh_head, link, back)
    BY DEF Threaded, InBucket
<1>3. first \in InBucket(D, b, n) \cup {NULL}
    <2>1. IsList(bkts[b].count, InBucket(D, b, n), first, link, back)
        BY <1>1, <1>2
    <2>2. InBucket(D, b, n) \in SUBSET Entries
        BY <1>1, <1>2
    <2> HIDE DEF first
    <2> QED
        BY <2>1, <2>2, ListFacts
<1>4. /\ InBucket(D \cup {e}, b, n) = InBucket(D, b, n) \cup {e}
      /\ \A a \in (0 .. n - 1) \ {b} : InBucket(D \cup {e}, a, n) = InBucket(D, a, n)
    BY DEF InBucket
<1>5. \A x \in Entries : x # e =>
          /\ link2[x] = link[x]
          /\ x # first => back2[x] = back[x]
    BY DEF Links, Relinked
<1> HIDE DEF first, link2, back2
<1>6. ASSUME NEW a \in 0 .. n - 1
      PROVE  IsList(bkts2[a].count, InBucket(D \cup {e}, a, n), bkts2[a].hh_head,
                    link2, back2)
    <2>1. CASE a = b
        <3>1. IsList(bkts[b].count + 1, InBucket(D, b, n) \cup {e}, e,
                     [link EXCEPT ![e] = first], Relinked(back, first, e, e))
            BY <1>1, <1>2, ListInFront DEF first
        <3> QED
            BY <1>4, <2>1, <3>1 DEF link2, back2
    <2>2. CASE a # b
        <3>1. \A x \in InBucket(D, a, n) :
                  x \in Entries /\ x # NULL /\ x # e /\ x \notin InBucket(D, b, n)
            BY <2>2, HashAssumption DEF InBucket
        <3>2. \A x \in InBucket(D, a, n) : link2[x] = link[x] /\ back2[x] = back[x]
            BY <1>3, <1>5, <3>1
        <3>3. IsList(bkts[a].count, InBucket(D, a, n), bkts[a].hh_head, link2, back2)
            BY <1>2, <3>2, ListFramed
        <3>4. a \in (0 .. n - 1) \ {b}
            BY <2>2
        <3> QED
            BY <1>4, <3>3, <3>4
    <2> QED
        BY <2>1, <2>2
<1> QED
    BY <1>6 DEF Threaded, first, link2, back2

(* The lists of the buckets when an entry leaves its own.                  *)
LEMMA ThreadedUnlink ==
    ASSUME NEW n \in Nat \ {0}, NEW D, NEW e,
           NEW bkts, NEW bkts2, NEW link, NEW back, NEW b,
           b = ToBucket(e, n),
           Threaded(bkts, n, D, link, back),
           bkts2[b].count = bkts[b].count - 1,
           bkts2[b].hh_head = IF bkts[b].hh_head = e THEN link[e] ELSE bkts[b].hh_head,
           \A a \in (0 .. n - 1) \ {b} :
               bkts2[a].count = bkts[a].count /\ bkts2[a].hh_head = bkts[a].hh_head,
           D \in SUBSET Entries, e \in D
    PROVE  Threaded(bkts2, n, D \ {e}, Relinked(link, back[e], link[e], e),
                    Relinked(back, link[e], back[e], e))
PROOF
<1> DEFINE link2 == Relinked(link, back[e], link[e], e)
           back2 == Relinked(back, link[e], back[e], e)
<1>1. b \in 0 .. n - 1
    BY BucketOf
<1>2. \A a \in 0 .. n - 1 :
          /\ InBucket(D, a, n) \in SUBSET Entries
          /\ IsList(bkts[a].count, InBucket(D, a, n), bkts[a].hh_head, link, back)
    BY DEF Threaded, InBucket
<1>3. e \in InBucket(D, b, n)
    BY DEF InBucket
<1>4. /\ link[e] \in InBucket(D, b, n) \cup {NULL}
      /\ back[e] \in InBucket(D, b, n) \cup {NULL}
    BY <1>1, <1>2, <1>3, ListFacts
<1>5. /\ InBucket(D \ {e}, b, n) = InBucket(D, b, n) \ {e}
      /\ \A a \in (0 .. n - 1) \ {b} : InBucket(D \ {e}, a, n) = InBucket(D, a, n)
    BY DEF InBucket
<1>6. \A x \in Entries : x # e =>
          /\ x # back[e] => link2[x] = link[x]
          /\ x # link[e] => back2[x] = back[x]
    BY DEF Relinked
<1> HIDE DEF link2, back2
<1>7. ASSUME NEW a \in 0 .. n - 1
      PROVE  IsList(bkts2[a].count, InBucket(D \ {e}, a, n), bkts2[a].hh_head,
                    link2, back2)
    <2>1. CASE a = b
        <3>1. IsList(bkts[b].count - 1, InBucket(D, b, n) \ {e},
                     IF bkts[b].hh_head = e THEN link[e] ELSE bkts[b].hh_head,
                     Relinked(link, back[e], link[e], e),
                     Relinked(back, link[e], back[e], e))
            BY <1>1, <1>2, <1>3, ListUnlinked
        <3> QED
            BY <1>5, <2>1, <3>1 DEF link2, back2
    <2>2. CASE a # b
        <3>1. \A x \in InBucket(D, a, n) :
                  x \in Entries /\ x # NULL /\ x # e /\ x \notin InBucket(D, b, n)
            BY <2>2, HashAssumption DEF InBucket
        <3>2. \A x \in InBucket(D, a, n) : link2[x] = link[x] /\ back2[x] = back[x]
            BY <1>4, <1>6, <3>1
        <3>3. IsList(bkts[a].count, InBucket(D, a, n), bkts[a].hh_head, link2, back2)
            BY <1>2, <3>2, ListFramed
        <3>4. a \in (0 .. n - 1) \ {b}
            BY <2>2
        <3> QED
            BY <1>5, <3>3, <3>4
    <2> QED
        BY <2>1, <2>2
<1> QED
    BY <1>7 DEF Threaded, link2, back2

(* New buckets hold no entries.                                            *)
LEMMA ThreadedEmpty ==
    ASSUME NEW n \in Nat, NEW link, NEW back
    PROVE  Threaded(EmptyBuckets(n), n, {}, link, back)
PROOF
<1>1. \A b \in 0 .. n - 1 : InBucket({}, b, n) = {}
    BY DEF InBucket
<1>2. \A b \in 0 .. n - 1 :
          EmptyBuckets(n)[b].count = 0 /\ EmptyBuckets(n)[b].hh_head = NULL
    BY DEF EmptyBuckets
<1>3. IsList(0, {}, NULL, link, back)
    BY ListEmpty
<1> QED
    BY <1>1, <1>2, <1>3 DEF Threaded

(* What the buckets' lists say of their lengths, entries and neighbours.   *)
LEMMA ThreadedFacts ==
    ASSUME NEW n \in Nat, NEW D, NEW bkts, NEW link, NEW back,
           Threaded(bkts, n, D, link, back),
           D \in SUBSET Entries
    PROVE  \A b \in 0 .. n - 1 :
               /\ bkts[b].count \in 0 .. Cardinality(Entries)
               /\ bkts[b].hh_head \in Pointers
               /\ List(link, bkts[b].hh_head) = InBucket(D, b, n)
               /\ WellLinked(link, back, bkts[b].hh_head, bkts[b].count)
PROOF
<1> SUFFICES ASSUME NEW b \in 0 .. n - 1
             PROVE  /\ bkts[b].count \in 0 .. Cardinality(Entries)
                    /\ bkts[b].hh_head \in Pointers
                    /\ List(link, bkts[b].hh_head) = InBucket(D, b, n)
                    /\ WellLinked(link, back, bkts[b].hh_head, bkts[b].count)
    OBVIOUS
<1>1. /\ InBucket(D, b, n) \in SUBSET Entries
      /\ IsList(bkts[b].count, InBucket(D, b, n), bkts[b].hh_head, link, back)
    BY DEF Threaded, InBucket
<1>2. PICK m, first, S :
          m = bkts[b].count /\ first = bkts[b].hh_head /\ S = InBucket(D, b, n)
    OBVIOUS
<1>3. S \in SUBSET Entries /\ IsList(m, S, first, link, back)
    BY <1>1, <1>2
<1>4. /\ m \in 0 .. Cardinality(Entries)
      /\ first \in S \cup {NULL}
      /\ List(link, first) = S
      /\ WellLinked(link, back, first, m)
    BY <1>3, ListFacts
<1> QED
    BY <1>2, <1>3, <1>4 DEF Pointers

(* The list of all entries with one more behind the last.                  *)
LEMMA EndsAppended ==
    ASSUME NEW D, NEW m, NEW first, NEW last,
           NEW link \in Links, NEW back \in Links,
           NEW e \in Entries, e \notin D,
           EndsWith(m, D, first, last, link, back),
           D \in SUBSET Entries
    PROVE  EndsWith(m + 1, D \cup {e}, first, e, [link EXCEPT ![e] = NULL, ![last] = e],
                    [back EXCEPT ![e] = last])
PROOF
<1>0. PICK c \in [1 .. m -> D] :
          /\ Forward(m, c, D, first, link)
          /\ Backward(m, c, back)
          /\ m # 0
          /\ Ending(m, c, last)
    BY DEF EndsWith
<1>1. Forward(m, c, D, first, link) /\ Backward(m, c, back) /\ Ending(m, c, last)
    BY <1>0
<1>2. m \in Nat \ {0}
    BY <1>0 DEF Forward
<1>3. PICK d : /\ Forward(m + 1, d, D \cup {e}, first,
                          [link EXCEPT ![e] = NULL, ![last] = e])
               /\ Backward(m + 1, d, [back EXCEPT ![e] = last])
               /\ Ending(m + 1, d, e)
    BY <1>1, <1>2, Appended
<1>4. d \in [1 .. m + 1 -> D \cup {e}] /\ m + 1 # 0
    BY <1>2, <1>3 DEF Forward
<1> QED
    BY <1>3, <1>4 DEF EndsWith

(* And one of several entries less.                                        *)
LEMMA EndsUnlinked ==
    ASSUME NEW D, NEW m, NEW first, NEW last, NEW link, NEW back,
           NEW e,
           EndsWith(m, D, first, last, link, back),
           D \in SUBSET Entries, e \in D
    PROVE  (back[e] # NULL \/ link[e] # NULL) =>
               EndsWith(m - 1, D \ {e}, IF back[e] = NULL THEN link[e] ELSE first,
                        IF e = last THEN back[e] ELSE last,
                        Relinked(link, back[e], link[e], e),
                        Relinked(back, link[e], back[e], e))
PROOF
<1>0. PICK c \in [1 .. m -> D] :
          /\ Forward(m, c, D, first, link)
          /\ Backward(m, c, back)
          /\ m # 0
          /\ Ending(m, c, last)
    BY DEF EndsWith
<1>1. Forward(m, c, D, first, link) /\ Backward(m, c, back) /\ Ending(m, c, last)
    BY <1>0
<1>2. /\ m \in Nat \ {0}
      /\ (back[e] = NULL /\ link[e] = NULL) <=> m = 1
      /\ back[e] = NULL <=> first = e
    <2>1. Around(e, m, D, first, link, back)
        BY <1>1, Neighbours
    <2> QED
        BY <2>1 DEF Around
<1>3. PICK d : /\ Forward(m - 1, d, D \ {e}, IF first = e THEN link[e] ELSE first,
                          Relinked(link, back[e], link[e], e))
               /\ Backward(m - 1, d, Relinked(back, link[e], back[e], e))
               /\ Ending(m - 1, d, IF e = last THEN back[e] ELSE last)
    BY <1>1, Unlinked
<1> SUFFICES ASSUME m # 1
             PROVE  EndsWith(m - 1, D \ {e}, IF back[e] = NULL THEN link[e] ELSE first,
                             IF e = last THEN back[e] ELSE last,
                             Relinked(link, back[e], link[e], e),
                             Relinked(back, link[e], back[e], e))
    BY <1>2
<1>4. d \in [1 .. m - 1 -> D \ {e}] /\ m - 1 # 0
    BY <1>2, <1>3 DEF Forward
<1>5. (IF first = e THEN link[e] ELSE first) = IF back[e] = NULL THEN link[e] ELSE first
    BY <1>2
<1> QED
    BY <1>3, <1>4, <1>5 DEF EndsWith

(* A ceiling of items / bkts is positive when there are items.             *)
LEMMA IdealPositive ==
    ASSUME NEW items \in Nat \ {0}, NEW bkts \in Nat \ {0}
    PROVE  IdealChain(items, bkts) \in Nat \ {0}
PROOF
<1>1. items \div bkts \in Nat /\ items % bkts \in Nat
    OBVIOUS
<1>2. items \div bkts = 0 => items % bkts # 0
    OBVIOUS
<1> QED
    BY <1>1, <1>2 DEF IdealChain

(* A list of one entry.                                                    *)
LEMMA EndsSingle ==
    ASSUME NEW e \in Entries, NEW link, NEW back, link[e] = NULL, back[e] = NULL
    PROVE  EndsWith(1, {e}, e, e, link, back)
PROOF
<1> DEFINE c == [i \in 1 .. 1 |-> e]
<1>1. c \in [1 .. 1 -> {e}] /\ 1 .. 1 = {1} /\ c[1] = e
    OBVIOUS
<1> HIDE DEF c
<1>2. Forward(1, c, {e}, e, link)
    BY <1>1 DEF Forward
<1>3. Backward(1, c, back)
    BY <1>1 DEF Backward
<1> QED
    BY <1>1, <1>2, <1>3 DEF EndsWith, Ending

-----------------------------------------------------------------------------
(* The loop of HASH_EXPAND_BUCKETS.                                        *)

(* It begins with all the entries on the old lists.                        *)
LEMMA WaitStart ==
    ASSUME NEW n \in Nat \ {0}, NEW D, NEW bkts, NEW link, NEW back,
           Threaded(bkts, n, D, link, back),
           D \in SUBSET Entries
    PROVE  Waiting(D, n, bkts, 0, bkts[0].hh_head, link)
PROOF
<1>1. \A e \in D : ToBucket(e, n) >= 0
    BY BucketOf
<1>2. ASSUME NEW b \in 0 .. n - 1
      PROVE  Loose(InBucket(D, b, n),
                   IF b = 0 THEN bkts[0].hh_head ELSE bkts[b].hh_head, link)
    <2>1. PICK m, first, S :
              m = bkts[b].count /\ first = bkts[b].hh_head /\ S = InBucket(D, b, n)
        OBVIOUS
    <2>2. S \in SUBSET Entries /\ IsList(m, S, first, link, back)
        BY <2>1 DEF Threaded, InBucket
    <2>3. Loose(S, first, link)
        BY <2>2, ListIsLoose
    <2> QED
        BY <2>1, <2>3
<1> QED
    BY <1>1, <1>2 DEF Waiting

(* The entry at thh is one that waits, and the next one follows.           *)
LEMMA WaitMove ==
    ASSUME NEW n \in Nat \ {0}, NEW U, NEW bkts, NEW i \in 0 .. n - 1, NEW first,
           NEW link, NEW link2,
           Waiting(U, n, bkts, i, first, link), first # NULL,
           U \in SUBSET Entries,
           \A e \in U \ {first} : link2[e] = link[e]
    PROVE  /\ first \in U
           /\ Waiting(U \ {first}, n, bkts, i, link[first], link2)
PROOF
<1>1. i \in i .. n - 1
    OBVIOUS
<1>2. Loose(InBucket(U, i, n), first, link)
    BY <1>1 DEF Waiting
<1>3. first \in InBucket(U, i, n) /\ Loose(InBucket(U, i, n) \ {first}, link[first], link)
    <2>1. PICK S : S = InBucket(U, i, n)
        OBVIOUS
    <2>2. Loose(S, first, link) /\ S \in SUBSET Entries
        BY <1>2, <2>1 DEF InBucket
    <2>3. first \in S
        BY <2>2, Rest
    <2>4. Loose(S \ {first}, link[first], link)
        BY <2>2, Rest
    <2> QED
        BY <2>1, <2>3, <2>4
<1>4. first \in U /\ ToBucket(first, n) = i
    BY <1>3 DEF InBucket
<1>5. /\ InBucket(U \ {first}, i, n) = InBucket(U, i, n) \ {first}
      /\ \A b \in i .. n - 1 : b # i => InBucket(U \ {first}, b, n) = InBucket(U, b, n)
    BY <1>4 DEF InBucket
<1>6. \A e \in U \ {first} : ToBucket(e, n) >= i
    BY DEF Waiting
<1>7. ASSUME NEW b \in i .. n - 1
      PROVE  Loose(InBucket(U \ {first}, b, n),
                   IF b = i THEN link[first] ELSE bkts[b].hh_head, link2)
    <2>1. \A e \in InBucket(U \ {first}, b, n) : link2[e] = link[e]
        BY DEF InBucket
    <2>2. Loose(InBucket(U \ {first}, b, n),
                IF b = i THEN link[first] ELSE bkts[b].hh_head, link)
        <3>1. CASE b = i
            BY <1>3, <1>5, <3>1
        <3>2. CASE b # i
            <4>1. Loose(InBucket(U, b, n), bkts[b].hh_head, link)
                BY <3>2 DEF Waiting
            <4> QED
                BY <1>5, <3>2, <4>1
        <3> QED
            BY <3>1, <3>2
    <2> QED
        BY <2>1, <2>2, LooseFramed
<1> QED
    BY <1>4, <1>6, <1>7 DEF Waiting

(* No entry of a bucket waits after the end of its list.                   *)
LEMMA WaitBucketDone ==
    ASSUME NEW n \in Nat \ {0}, NEW U, NEW bkts, NEW i \in 0 .. n - 1, NEW link,
           Waiting(U, n, bkts, i, NULL, link),
           U \in SUBSET Entries
    PROVE  \A e \in U : ToBucket(e, n) \in i + 1 .. n - 1
PROOF
<1>1. i \in i .. n - 1 /\ InBucket(U, i, n) \in SUBSET Entries
    BY DEF InBucket
<1>2. Loose(InBucket(U, i, n), NULL, link)
    BY <1>1 DEF Waiting
<1>3. InBucket(U, i, n) = {}
    BY <1>1, <1>2, LooseEmpty
<1>4. ASSUME NEW e \in U
      PROVE  ToBucket(e, n) \in i + 1 .. n - 1
    <2>1. ToBucket(e, n) \in 0 .. n - 1
        BY BucketOf
    <2>2. ToBucket(e, n) >= i
        BY DEF Waiting
    <2>3. ToBucket(e, n) # i
        BY <1>3 DEF InBucket
    <2> HIDE DEF ToBucket
    <2> QED
        BY <2>1, <2>2, <2>3
<1> QED
    BY <1>4

(* At the end of a list the loop may go on with the next bucket.           *)
LEMMA WaitNext ==
    ASSUME NEW n \in Nat \ {0}, NEW U, NEW bkts, NEW i \in 0 .. n - 1, NEW link,
           Waiting(U, n, bkts, i, NULL, link), i + 1 # n,
           U \in SUBSET Entries
    PROVE  Waiting(U, n, bkts, i + 1, bkts[i + 1].hh_head, link)
PROOF
<1>1. \A e \in U : ToBucket(e, n) \in i + 1 .. n - 1
    BY WaitBucketDone
<1>2. \A e \in U : ToBucket(e, n) >= i + 1
    BY <1>1
<1>3. \A b \in i + 1 .. n - 1 : b \in i .. n - 1 /\ b # i
    OBVIOUS
<1>4. \A b \in i + 1 .. n - 1 : Loose(InBucket(U, b, n), bkts[b].hh_head, link)
    BY <1>3 DEF Waiting
<1> QED
    BY <1>2, <1>4 DEF Waiting

(* At the end of the last list nobody waits.                               *)
LEMMA WaitEnd ==
    ASSUME NEW n \in Nat \ {0}, NEW U, NEW bkts, NEW i \in 0 .. n - 1, NEW link,
           Waiting(U, n, bkts, i, NULL, link), i + 1 = n,
           U \in SUBSET Entries
    PROVE  U = {}
PROOF
<1>1. \A e \in U : ToBucket(e, n) \in i + 1 .. n - 1
    BY WaitBucketDone
<1>2. i + 1 .. n - 1 = {}
    OBVIOUS
<1> QED
    BY <1>1, <1>2

-----------------------------------------------------------------------------
(* The invariant.                                                          *)

(* A bucket, but for the bound of its count.                               *)
LooseBucket == [hh_head : Pointers, count : Nat, expand_mult : 0 .. Cardinality(Entries)]

(* Buckets have their type when their lists are ones of entries.           *)
LEMMA Tight ==
    ASSUME NEW n \in Nat, NEW D, NEW bkts \in [0 .. n - 1 -> LooseBucket],
           NEW link, NEW back,
           Threaded(bkts, n, D, link, back),
           D \in SUBSET Entries
    PROVE  bkts \in [0 .. n - 1 -> Bucket]
PROOF
<1>1. \A b \in 0 .. n - 1 : bkts[b].count \in 0 .. Cardinality(Entries)
    BY ThreadedFacts
<1>2. \A b \in 0 .. n - 1 :
          /\ bkts[b] = [hh_head |-> bkts[b].hh_head, count |-> bkts[b].count,
                        expand_mult |-> bkts[b].expand_mult]
          /\ bkts[b].hh_head \in Pointers
          /\ bkts[b].expand_mult \in 0 .. Cardinality(Entries)
    BY DEF LooseBucket
<1>3. \A b \in 0 .. n - 1 : bkts[b] \in Bucket
    BY <1>1, <1>2 DEF Bucket
<1> QED
    BY <1>3

(* An entry that goes to the front of a bucket's list, in its fields.      *)
LEMMA PushedFields ==
    ASSUME NEW n \in Nat, NEW bkts \in [0 .. n - 1 -> Bucket], NEW b \in 0 .. n - 1,
           NEW e \in Entries
    PROVE  /\ Pushed(bkts, b, e) \in [0 .. n - 1 -> LooseBucket]
           /\ Pushed(bkts, b, e)[b].count = bkts[b].count + 1
           /\ Pushed(bkts, b, e)[b].hh_head = e
           /\ \A a \in 0 .. n - 1 :
                  Pushed(bkts, b, e)[a].expand_mult = bkts[a].expand_mult
           /\ \A a \in (0 .. n - 1) \ {b} :
                  /\ Pushed(bkts, b, e)[a].count = bkts[a].count
                  /\ Pushed(bkts, b, e)[a].hh_head = bkts[a].hh_head
PROOF
<1> DEFINE P == Pushed(bkts, b, e)
<1>1. Cardinality(Entries) \in Nat
    BY FS_CardinalityType, HashAssumption
<1>2. \A a \in 0 .. n - 1 :
          /\ bkts[a].hh_head \in Pointers
          /\ bkts[a].count \in 0 .. Cardinality(Entries)
          /\ bkts[a].expand_mult \in 0 .. Cardinality(Entries)
          /\ bkts[a] = [hh_head |-> bkts[a].hh_head, count |-> bkts[a].count,
                        expand_mult |-> bkts[a].expand_mult]
    BY DEF Bucket
<1>3. P = [a \in 0 .. n - 1 |->
              IF a = b THEN [hh_head |-> e, count |-> bkts[b].count + 1,
                             expand_mult |-> bkts[b].expand_mult]
              ELSE bkts[a]]
    BY DEF Pushed
<1> HIDE DEF P
<1>4. /\ P[b] = [hh_head |-> e, count |-> bkts[b].count + 1,
                 expand_mult |-> bkts[b].expand_mult]
      /\ \A a \in (0 .. n - 1) \ {b} : P[a] = bkts[a]
    BY <1>3
<1>5. e \in Pointers /\ bkts[b].count + 1 \in Nat
    BY <1>1, <1>2 DEF Pointers
<1>6. P[b] \in LooseBucket
    BY <1>2, <1>4, <1>5 DEF LooseBucket
<1>7. \A a \in (0 .. n - 1) \ {b} : P[a] \in LooseBucket
    <2>1. Bucket \in SUBSET LooseBucket
        BY <1>1 DEF Bucket, LooseBucket
    <2> QED
        BY <1>4, <2>1
<1>8. P \in [0 .. n - 1 -> LooseBucket]
    BY <1>3, <1>6, <1>7
<1> QED
    BY <1>4, <1>8 DEF P

(* Empty buckets are buckets.                                              *)
LEMMA EmptyType ==
    ASSUME NEW n \in Nat
    PROVE  EmptyBuckets(n) \in [0 .. n - 1 -> Bucket]
PROOF
<1>1. 0 \in 0 .. Cardinality(Entries) /\ NULL \in Pointers
    BY FS_CardinalityType, HashAssumption DEF Pointers
<1>2. [hh_head |-> NULL, count |-> 0, expand_mult |-> 0] \in Bucket
    BY <1>1 DEF Bucket
<1> QED
    BY <1>2 DEF EmptyBuckets

(* What the invariant says of a table.                                     *)
LEMMA TableFacts ==
    ASSUME TypeOK, head # NULL, NEW D, Table(D), D \in SUBSET Entries
    PROVE  /\ num_buckets \in Nat \ {0}
           /\ num_items \in Nat \ {0}
           /\ List(next, head) = D
           /\ tail \in D
           /\ ~expanding => \A e \in Entries : HASH_FIND(e) = IF e \in D THEN e ELSE NULL
PROOF
<1>1. num_buckets \in Nat \ {0} /\ EndsWith(num_items, D, head, tail, next, prev)
    BY DEF Table, TypeOK
<1>2. IsList(num_items, D, head, next, prev) /\ num_items # 0 /\ tail \in D
    BY <1>1, EndIsList
<1>3. List(next, head) = D /\ num_items \in Nat
    BY <1>2, ListFacts
<1>4. ASSUME ~expanding, NEW e \in Entries
      PROVE  HASH_FIND(e) = IF e \in D THEN e ELSE NULL
    <2>1. Threaded(buckets, num_buckets, D, hh_next, hh_prev)
        BY <1>4 DEF Table
    <2>2. ToBucket(e, num_buckets) \in 0 .. num_buckets - 1
        BY <1>1, BucketOf
    <2>3. Chain(ToBucket(e, num_buckets)) = InBucket(D, ToBucket(e, num_buckets), num_buckets)
        BY <1>1, <2>1, <2>2, ThreadedFacts DEF Chain
    <2>4. e \in Chain(ToBucket(e, num_buckets)) <=> e \in D
        BY <2>3 DEF InBucket
    <2> QED
        BY <2>4 DEF HASH_FIND
<1> QED
    BY <1>1, <1>2, <1>3, <1>4

(* Initially there is no table.                                            *)
LEMMA InitInv == Init => UtInv
PROOF
<1> SUFFICES ASSUME Init PROVE UtInv
    OBVIOUS
<1>1. EmptyBuckets(0) \in [0 .. 0 - 1 -> Bucket]
    BY EmptyType
<1>2. 0 \in 0 .. Cardinality(Entries) /\ NULL \in Pointers
    BY FS_CardinalityType, HashAssumption DEF Pointers
<1>3. NoLinks \in Links
    BY <1>2 DEF NoLinks, Links
<1>4. TypeOK
    <2>1. buckets \in [Buckets -> Bucket]
        BY <1>1 DEF Init, Buckets
    <2>2. new_buckets \in [0 .. (IF expanding THEN 2 * num_buckets ELSE 0) - 1 -> Bucket]
        BY <1>1 DEF Init
    <2>3. bkt_i \in IF expanding THEN Buckets ELSE {0}
        BY DEF Init
    <2>4. ideal_chain_maxlen \in Nat /\ ineff_expands \in 0 .. 2 /\ num_buckets \in Nat
        BY DEF Init
    <2>5. /\ noexpand \in BOOLEAN /\ expanding \in BOOLEAN /\ exited \in BOOLEAN
          /\ num_items \in 0 .. Cardinality(Entries)
          /\ nonideal_items \in 0 .. Cardinality(Entries)
        BY <1>2 DEF Init
    <2>6. /\ head \in Pointers /\ tail \in Pointers /\ thh \in Pointers
          /\ next \in Links /\ prev \in Links /\ hh_next \in Links /\ hh_prev \in Links
        BY <1>2, <1>3 DEF Init
    <2> QED
        BY <2>1, <2>2, <2>3, <2>4, <2>5, <2>6 DEF TypeOK
<1>5. ChainsBounded /\ NoTable
    BY DEF Init, ChainsBounded, NoTable
<1> QED
    BY <1>4, <1>5 DEF UtInv, Init

(* Nothing changes but exited.                                             *)
LEMMA FatalInv == UtInv /\ uthash_fatal => UtInv'
PROOF
<1> SUFFICES ASSUME UtInv, uthash_fatal PROVE UtInv'
    OBVIOUS
<1> USE DEF uthash_fatal, loopVars
<1>1. TypeOK'
    BY DEF UtInv, TypeOK, Buckets
<1>2. ChainsBounded'
    BY DEF UtInv, ChainsBounded, Buckets
<1>3. (~noexpand => ineff_expands < 2)'
    BY DEF UtInv
<1>4. CASE head = NULL
    BY <1>1, <1>2, <1>3, <1>4 DEF UtInv, NoTable
<1>5. CASE head # NULL
    <2>1. PICK D \in SUBSET Entries : Table(D)
        BY <1>5 DEF UtInv
    <2>2. Table(D)'
        BY <2>1 DEF Table, Moving
    <2> QED
        BY <1>1, <1>2, <1>3, <1>5, <2>2 DEF UtInv
<1> QED
    BY <1>4, <1>5

(* A table of one entry.                                                   *)
LEMMA AddFirstInv ==
    ASSUME UtInv, NEW e \in Entries, AddFirst(e), ~expanding, UNCHANGED exited
    PROVE  UtInv'
PROOF
<1> DEFINE n == HASH_INITIAL_NUM_BUCKETS
           b == ToBucket(e, n)
           new == Pushed(EmptyBuckets(n), b, e)
<1>1. n \in Nat \ {0} /\ e # NULL /\ e \in Pointers
    BY HashAssumption DEF Pointers
<1>2. b \in 0 .. n - 1
    BY <1>1, BucketOf
<1>3. /\ head' = e /\ tail' = e /\ num_items' = 1 /\ num_buckets' = n /\ buckets' = new
      /\ next' = [next EXCEPT ![e] = NULL] /\ prev' = [prev EXCEPT ![e] = NULL]
      /\ hh_next' = [hh_next EXCEPT ![e] = NULL]
      /\ hh_prev' = Relinked(hh_prev, NULL, e, e)
      /\ UNCHANGED << ideal_chain_maxlen, ineff_expands, noexpand, expanding,
                      new_buckets, bkt_i, thh, nonideal_items >>
    BY DEF AddFirst, LinkInFront, loopVars
<1>4. TypeOK /\ head = NULL /\ NoTable
    BY DEF UtInv, AddFirst
<1>5. next \in Links /\ prev \in Links /\ hh_next \in Links /\ hh_prev \in Links
    BY <1>4 DEF TypeOK
<1>6. EmptyBuckets(n) \in [0 .. n - 1 -> Bucket]
    BY <1>1, EmptyType
<1>7. /\ new \in [0 .. n - 1 -> LooseBucket]
      /\ new[b].count = EmptyBuckets(n)[b].count + 1
      /\ new[b].hh_head = e
      /\ \A a \in 0 .. n - 1 : new[a].expand_mult = EmptyBuckets(n)[a].expand_mult
      /\ \A a \in (0 .. n - 1) \ {b} :
             /\ new[a].count = EmptyBuckets(n)[a].count
             /\ new[a].hh_head = EmptyBuckets(n)[a].hh_head
    BY <1>1, <1>2, <1>6, PushedFields
<1>8. \A a \in 0 .. n - 1 : EmptyBuckets(n)[a] =
                            [hh_head |-> NULL, count |-> 0, expand_mult |-> 0]
    BY DEF EmptyBuckets
<1> HIDE DEF new, n, b
<1>9. Threaded(new, n, {e}, hh_next', hh_prev')
    <2>1. Threaded(EmptyBuckets(n), n, {}, hh_next, hh_prev)
        BY <1>1, ThreadedEmpty
    <2>2. Threaded(new, n, {} \cup {e}, [hh_next EXCEPT ![e] = EmptyBuckets(n)[b].hh_head],
                   Relinked(hh_prev, EmptyBuckets(n)[b].hh_head, e, e))
        <3>1. b = ToBucket(e, n)
            BY DEF b
        <3> QED
            BY <1>1, <1>5, <1>7, <2>1, <3>1, ThreadedPush
    <2>3. EmptyBuckets(n)[b].hh_head = NULL /\ {} \cup {e} = {e}
        BY <1>2, <1>8
    <2> QED
        BY <1>3, <2>2, <2>3
<1>10. EndsWith(1, {e}, e, e, next', prev')
    <2>1. next'[e] = NULL /\ prev'[e] = NULL
        BY <1>3, <1>5 DEF Links
    <2> QED
        BY <2>1, EndsSingle
<1>11. Table({e})'
    BY <1>1, <1>3, <1>4, <1>9, <1>10 DEF Table, NoTable
<1>12. next' \in Links /\ prev' \in Links /\ hh_next' \in Links /\ hh_prev' \in Links
    BY <1>1, <1>3, <1>5, HashAssumption DEF Links, Pointers, Relinked
<1>13. new \in [0 .. n - 1 -> Bucket]
    BY <1>1, <1>7, <1>9, Tight
<1>14. num_items' \in 0 .. Cardinality(Entries)
    <2>1. IsList(1, {e}, e, next', prev')
        BY <1>10, EndIsList
    <2> QED
        BY <1>3, <2>1, ListFacts
<1>15. TypeOK'
    BY <1>1, <1>3, <1>4, <1>12, <1>13, <1>14 DEF TypeOK, NoTable, Buckets
<1>16. ChainsBounded'
    <2>1. \A a \in 0 .. n - 1 : new[a].count <= 1 /\ new[a].count \in Nat
                                /\ new[a].expand_mult = 0
        BY <1>2, <1>7, <1>8
    <2>2. \A a \in 0 .. n - 1 :
              new[a].count <= (new[a].expand_mult + 1) * HASH_BKT_CAPACITY_THRESH
        BY <2>1, HashAssumption
    <2> QED
        BY <1>3, <2>2 DEF ChainsBounded, Buckets
<1> QED
    BY <1>1, <1>3, <1>11, <1>15, <1>16 DEF UtInv

(* An entry goes behind the others and to the front of its bucket's list.  *)
LEMMA Added ==
    ASSUME UtInv, NEW e \in Entries, AddToTable(e), ~expanding,
           NEW D, Table(D), D \in SUBSET Entries, e \notin D
    PROVE  /\ num_buckets \in Nat \ {0}
           /\ EndsWith(num_items', D \cup {e}, head', tail', next', prev')
           /\ Threaded(buckets', num_buckets, D \cup {e}, hh_next', hh_prev')
           /\ buckets' \in [Buckets -> Bucket]
           /\ \A a \in Buckets :
                  /\ buckets'[a].expand_mult = buckets[a].expand_mult
                  /\ a # ToBucket(e, num_buckets) => buckets'[a].count = buckets[a].count
           /\ buckets' = Pushed(buckets, ToBucket(e, num_buckets), e)
           /\ num_items' \in Nat \ {0} /\ num_items' \in 0 .. Cardinality(Entries)
           /\ next' \in Links /\ prev' \in Links /\ hh_next' \in Links /\ hh_prev' \in Links
           /\ head' = head /\ head # NULL /\ tail' \in Pointers
PROOF
<1> DEFINE n == num_buckets
           b == ToBucket(e, n)
<1>1. TypeOK /\ head # NULL
    BY DEF UtInv, AddToTable
<1>2. n \in Nat \ {0} /\ num_items \in Nat \ {0} /\ tail \in D
    BY <1>1, TableFacts
<1>3. b \in 0 .. n - 1
    BY <1>2, BucketOf
<1>4. /\ next' = [next EXCEPT ![e] = NULL, ![tail] = e]
      /\ prev' = [prev EXCEPT ![e] = tail]
      /\ tail' = e /\ head' = head
      /\ num_items' = num_items + 1
      /\ buckets' = Pushed(buckets, b, e)
      /\ hh_next' = [hh_next EXCEPT ![e] = buckets[b].hh_head]
      /\ hh_prev' = Relinked(hh_prev, buckets[b].hh_head, e, e)
    BY DEF AddToTable, LinkInFront
<1>5. /\ next \in Links /\ prev \in Links /\ hh_next \in Links /\ hh_prev \in Links
      /\ buckets \in [0 .. n - 1 -> Bucket]
    BY <1>1 DEF TypeOK, Buckets
<1>6. EndsWith(num_items', D \cup {e}, head', tail', next', prev')
    <2>1. EndsWith(num_items, D, head, tail, next, prev)
        BY DEF Table
    <2>2. EndsWith(num_items + 1, D \cup {e}, head, e, [next EXCEPT ![e] = NULL, ![tail] = e],
                   [prev EXCEPT ![e] = tail])
        BY <1>5, <2>1, EndsAppended
    <2> QED
        BY <1>4, <2>2
<1>7. /\ buckets' \in [0 .. n - 1 -> LooseBucket]
      /\ buckets'[b].count = buckets[b].count + 1
      /\ buckets'[b].hh_head = e
      /\ \A a \in 0 .. n - 1 : buckets'[a].expand_mult = buckets[a].expand_mult
      /\ \A a \in (0 .. n - 1) \ {b} :
             buckets'[a].count = buckets[a].count /\ buckets'[a].hh_head = buckets[a].hh_head
    <2> HIDE DEF n, b
    <2>1. /\ Pushed(buckets, b, e) \in [0 .. n - 1 -> LooseBucket]
          /\ Pushed(buckets, b, e)[b].count = buckets[b].count + 1
          /\ Pushed(buckets, b, e)[b].hh_head = e
          /\ \A a \in 0 .. n - 1 :
                 Pushed(buckets, b, e)[a].expand_mult = buckets[a].expand_mult
          /\ \A a \in (0 .. n - 1) \ {b} :
                 /\ Pushed(buckets, b, e)[a].count = buckets[a].count
                 /\ Pushed(buckets, b, e)[a].hh_head = buckets[a].hh_head
        BY <1>2, <1>3, <1>5, PushedFields
    <2> QED
        BY <1>4, <2>1
<1>8. Threaded(buckets', n, D \cup {e}, hh_next', hh_prev')
    <2>1. Threaded(buckets, n, D, hh_next, hh_prev)
        BY DEF Table
    <2>2. b = ToBucket(e, n)
        OBVIOUS
    <2> HIDE DEF n, b
    <2>3. Threaded(buckets', n, D \cup {e}, [hh_next EXCEPT ![e] = buckets[b].hh_head],
                   Relinked(hh_prev, buckets[b].hh_head, e, e))
        BY <1>2, <1>5, <1>7, <2>1, <2>2, ThreadedPush
    <2> QED
        BY <1>4, <2>3
<1>9. D \cup {e} \in SUBSET Entries
    OBVIOUS
<1>10. buckets' \in [0 .. n - 1 -> Bucket]
    <2> HIDE DEF n, b
    <2> QED
        BY <1>2, <1>7, <1>8, <1>9, Tight
<1>11. num_items' \in 0 .. Cardinality(Entries)
    <2>1. IsList(num_items', D \cup {e}, head', next', prev')
        BY <1>6, <1>9, EndIsList
    <2> QED
        BY <1>9, <2>1, ListFacts
<1>12. next' \in Links /\ prev' \in Links
    <2>1. tail \in Entries /\ tail \in Pointers /\ e \in Pointers /\ NULL \in Pointers
        BY <1>2 DEF Pointers
    <2> QED
        BY <1>4, <1>5, <2>1 DEF Links
<1>13. hh_next' \in Links /\ hh_prev' \in Links
    <2>1. PICK first : first = buckets[b].hh_head
        OBVIOUS
    <2>2. first \in Pointers /\ e \in Pointers /\ NULL \in Pointers
        <3>1. buckets[b] \in Bucket
            BY <1>3, <1>5
        <3> QED
            BY <2>1, <3>1 DEF Bucket, Pointers
    <2>3. hh_next' = [hh_next EXCEPT ![e] = first] /\ hh_prev' = Relinked(hh_prev, first, e, e)
        BY <1>4, <2>1
    <2> QED
        BY <1>5, <2>2, <2>3 DEF Links, Relinked
<1> QED
    BY <1>1, <1>2, <1>4, <1>6, <1>7, <1>8, <1>10, <1>11, <1>12, <1>13 DEF Buckets, Pointers

(* An entry is added, and an expansion may begin.                          *)
LEMMA AddInv ==
    ASSUME UtInv, NEW e \in Entries, AddToTable(e), ~expanding, HASH_FIND(e) = NULL,
           UNCHANGED exited
    PROVE  UtInv'
PROOF
<1>1. TypeOK /\ head # NULL
    BY DEF UtInv, AddToTable
<1>2. PICK D \in SUBSET Entries : Table(D)
    BY <1>1 DEF UtInv
<1>3. e \notin D
    <2>1. HASH_FIND(e) = IF e \in D THEN e ELSE NULL
        BY <1>1, <1>2, TableFacts
    <2> QED
        BY <2>1, HashAssumption
<1> DEFINE E == D \cup {e}
<1>4. E \in SUBSET Entries
    OBVIOUS
<1>5. /\ num_buckets \in Nat \ {0}
      /\ EndsWith(num_items', E, head', tail', next', prev')
      /\ Threaded(buckets', num_buckets, E, hh_next', hh_prev')
      /\ buckets' \in [Buckets -> Bucket]
      /\ \A a \in Buckets :
             /\ buckets'[a].expand_mult = buckets[a].expand_mult
             /\ a # ToBucket(e, num_buckets) => buckets'[a].count = buckets[a].count
      /\ buckets' = Pushed(buckets, ToBucket(e, num_buckets), e)
      /\ num_items' \in Nat \ {0} /\ num_items' \in 0 .. Cardinality(Entries)
      /\ next' \in Links /\ prev' \in Links /\ hh_next' \in Links /\ hh_prev' \in Links
      /\ head' = head /\ head # NULL /\ tail' \in Pointers
    BY <1>2, <1>3, Added
<1>6. UNCHANGED << head, num_buckets, ineff_expands, noexpand, exited >>
    BY DEF AddToTable
<1>7. (~noexpand => ineff_expands < 2)'
    BY <1>6 DEF UtInv
<1> HIDE DEF E
<1>8. CASE Expands(e)
    <2>1. StartExpansion
        BY <1>8 DEF AddToTable
    <2>2. /\ expanding' = TRUE
          /\ new_buckets' = EmptyBuckets(2 * num_buckets)
          /\ ideal_chain_maxlen' = IdealChain(num_items', 2 * num_buckets)
          /\ nonideal_items' = 0
          /\ bkt_i' = 0
          /\ thh' = buckets'[0].hh_head
        BY <2>1 DEF StartExpansion
    <2>3. 2 * num_buckets \in Nat \ {0} /\ 0 \in Buckets
        BY <1>5 DEF Buckets
    <2>4. ideal_chain_maxlen' \in Nat \ {0}
        BY <1>5, <2>2, <2>3, IdealPositive
    <2>5. Waiting(E, num_buckets, buckets', 0, buckets'[0].hh_head, hh_next')
        BY <1>4, <1>5, WaitStart
    <2>6. Threaded(new_buckets', 2 * num_buckets, {}, hh_next', hh_prev')
        BY <2>2, <2>3, ThreadedEmpty
    <2>7. \A b \in 0 .. 2 * num_buckets - 1 : Measured(new_buckets'[b], ideal_chain_maxlen')
        <3>1. \A b \in 0 .. 2 * num_buckets - 1 :
                  new_buckets'[b] = [hh_head |-> NULL, count |-> 0, expand_mult |-> 0]
            BY <2>2 DEF EmptyBuckets
        <3> QED
            BY <2>4, <3>1 DEF Measured
    <2>8. nonideal_items' <= Cardinality({})
        BY <2>2, FS_EmptySet
    <2>9. Moving(E, {})'
        <3>1. E \ {} = E
            OBVIOUS
        <3>2. ~noexpand' /\ ideal_chain_maxlen' # 0
            BY <1>6, <1>8, <2>4 DEF Expands
        <3> QED
            BY <1>6, <2>2, <2>5, <2>6, <2>7, <2>8, <3>1, <3>2 DEF Moving
    <2>10. Table(E)'
        BY <1>5, <1>6, <2>2, <2>9 DEF Table
    <2>11. TypeOK'
        <3>1. new_buckets' \in [0 .. 2 * num_buckets' - 1 -> Bucket]
            BY <1>6, <2>2, <2>3, EmptyType
        <3>2. thh' \in Pointers
            <4>1. buckets'[0] \in Bucket
                BY <1>5, <2>3
            <4> QED
                BY <2>2, <4>1 DEF Bucket
        <3>3. buckets' \in [Buckets' -> Bucket] /\ bkt_i' \in Buckets'
            BY <1>5, <1>6, <2>2, <2>3 DEF Buckets
        <3>4. nonideal_items' \in 0 .. Cardinality(Entries)
            BY <2>2, FS_CardinalityType, HashAssumption
        <3> QED
            BY <1>1, <1>5, <1>6, <2>2, <2>4, <3>1, <3>2, <3>3, <3>4 DEF TypeOK
    <2>12. ChainsBounded'
        BY <2>2 DEF ChainsBounded
    <2> QED
        BY <1>4, <1>5, <1>7, <2>10, <2>11, <2>12 DEF UtInv
<1>9. CASE ~Expands(e)
    <2>1. UNCHANGED << ideal_chain_maxlen, expanding,
                       new_buckets, bkt_i, thh, nonideal_items >>
        BY <1>9 DEF AddToTable, loopVars
    <2>2. Table(E)'
        BY <1>5, <1>6, <2>1 DEF Table
    <2>3. TypeOK'
        <3>1. new_buckets' \in
                  [0 .. (IF expanding' THEN 2 * num_buckets' ELSE 0) - 1 -> Bucket]
            BY <1>1, <1>6, <2>1 DEF TypeOK
        <3>2. buckets' \in [Buckets' -> Bucket]
            BY <1>5, <1>6 DEF Buckets
        <3>3. bkt_i' \in IF expanding' THEN Buckets' ELSE {0}
            BY <1>1, <1>6, <2>1 DEF TypeOK, Buckets
        <3> QED
            BY <1>1, <1>5, <1>6, <2>1, <3>1, <3>2, <3>3 DEF TypeOK
    <2>4. ChainsBounded'
        <3> SUFFICES ASSUME ~noexpand, NEW b \in Buckets
                     PROVE  \/ buckets'[b].count
                               <= (buckets'[b].expand_mult + 1) * HASH_BKT_CAPACITY_THRESH
                            \/ buckets'[b].count
                               <= (buckets'[b].expand_mult + 1) * ideal_chain_maxlen
            BY <1>6, <2>1 DEF ChainsBounded, Buckets
        <3>1. CASE b = ToBucket(e, num_buckets)
            <4>1. ~Full(buckets'[b])
                BY <1>1, <1>5, <1>9, <3>1 DEF Expands
            <4>2. buckets'[b] \in Bucket
                BY <1>5
            <4>3. /\ buckets'[b].count \in Nat
                  /\ (buckets'[b].expand_mult + 1) * HASH_BKT_CAPACITY_THRESH \in Nat
                <5>1. buckets'[b].count \in Nat /\ buckets'[b].expand_mult + 1 \in Nat
                    BY <4>2, FS_CardinalityType, HashAssumption DEF Bucket
                <5>2. \A x, y \in Nat : x * y \in Nat
                    OBVIOUS
                <5> QED
                    BY <5>1, <5>2, HashAssumption
            <4> QED
                BY <4>1, <4>3 DEF Full
        <3>2. CASE b # ToBucket(e, num_buckets)
            <4>1. /\ buckets'[b].count = buckets[b].count
                  /\ buckets'[b].expand_mult = buckets[b].expand_mult
                BY <1>5, <3>2
            <4>2. \/ buckets[b].count
                     <= (buckets[b].expand_mult + 1) * HASH_BKT_CAPACITY_THRESH
                  \/ buckets[b].count <= (buckets[b].expand_mult + 1) * ideal_chain_maxlen
                BY <1>1 DEF UtInv, ChainsBounded
            <4> QED
                BY <4>1, <4>2
        <3> QED
            BY <3>1, <3>2
    <2> QED
        BY <1>4, <1>5, <1>7, <2>2, <2>3, <2>4 DEF UtInv
<1> QED
    BY <1>8, <1>9

(* The last entry goes, and the table with it.                             *)
LEMMA DeleteTableInv ==
    ASSUME UtInv, NEW e \in Entries, DeleteTable(e), ~expanding,
           UNCHANGED << expanding, new_buckets, bkt_i, thh, nonideal_items, exited >>
    PROVE  UtInv'
PROOF
<1>1. TypeOK
    BY DEF UtInv
<1>2. /\ head' = NULL /\ tail' = NULL /\ num_buckets' = 0 /\ buckets' = EmptyBuckets(0)
      /\ num_items' = 0 /\ ideal_chain_maxlen' = 0 /\ ineff_expands' = 0 /\ noexpand' = FALSE
      /\ UNCHANGED << next, prev, hh_next, hh_prev >>
    BY DEF DeleteTable
<1>3. TypeOK'
    <2>1. buckets' \in [Buckets' -> Bucket]
        <3>1. EmptyBuckets(0) \in [0 .. 0 - 1 -> Bucket]
            BY EmptyType
        <3> QED
            BY <1>2, <3>1 DEF Buckets
    <2>2. new_buckets' \in [0 .. (IF expanding' THEN 2 * num_buckets' ELSE 0) - 1 -> Bucket]
        BY <1>1 DEF TypeOK
    <2>3. bkt_i' \in IF expanding' THEN Buckets' ELSE {0}
        BY <1>1 DEF TypeOK
    <2>4. 0 \in 0 .. Cardinality(Entries) /\ NULL \in Pointers
        BY FS_CardinalityType, HashAssumption DEF Pointers
    <2>5. /\ head' \in Pointers /\ tail' \in Pointers
          /\ num_items' \in 0 .. Cardinality(Entries)
          /\ num_buckets' \in Nat /\ ideal_chain_maxlen' \in Nat
        BY <1>2, <2>4
    <2>7. ineff_expands' \in 0 .. 2
        BY <1>2
    <2>8. noexpand' \in BOOLEAN
        BY <1>2, Zenon
    <2>6. /\ next' \in Links /\ prev' \in Links /\ hh_next' \in Links /\ hh_prev' \in Links
          /\ nonideal_items' \in 0 .. Cardinality(Entries)
          /\ expanding' \in BOOLEAN /\ thh' \in Pointers /\ exited' \in BOOLEAN
        BY <1>1, <1>2 DEF TypeOK
    <2> QED
        BY <2>1, <2>2, <2>3, <2>5, <2>6, <2>7, <2>8 DEF TypeOK
<1>4. ChainsBounded' /\ NoTable'
    BY <1>2 DEF ChainsBounded, NoTable
<1> QED
    BY <1>2, <1>3, <1>4 DEF UtInv

(* One of several entries goes.                                            *)
LEMMA DeleteEntryInv ==
    ASSUME UtInv, NEW e \in Entries, DeleteEntry(e), ~expanding, HASH_FIND(e) # NULL,
           UNCHANGED << expanding, new_buckets, bkt_i, thh, nonideal_items, exited >>
    PROVE  UtInv'
PROOF
<1> DEFINE n == num_buckets
           b == ToBucket(e, n)
<1>1. TypeOK /\ head # NULL
    BY DEF UtInv, HASH_FIND
<1>2. PICK D \in SUBSET Entries : Table(D)
    BY <1>1 DEF UtInv
<1>3. /\ n \in Nat \ {0} /\ num_items \in Nat \ {0} /\ e \in D
    BY <1>1, <1>2, TableFacts
<1>4. b \in 0 .. n - 1
    BY <1>3, BucketOf
<1>5. /\ prev[e] # NULL \/ next[e] # NULL
      /\ tail' = IF e = tail THEN prev[e] ELSE tail
      /\ head' = IF prev[e] = NULL THEN next[e] ELSE head
      /\ next' = Relinked(next, prev[e], next[e], e)
      /\ prev' = Relinked(prev, next[e], prev[e], e)
      /\ num_items' = num_items - 1
      /\ buckets' = [buckets EXCEPT ![b] =
                        [hh_head |-> IF @.hh_head = e THEN hh_next[e] ELSE @.hh_head,
                         count |-> @.count - 1,
                         expand_mult |-> @.expand_mult]]
      /\ hh_next' = Relinked(hh_next, hh_prev[e], hh_next[e], e)
      /\ hh_prev' = Relinked(hh_prev, hh_next[e], hh_prev[e], e)
      /\ UNCHANGED << num_buckets, ideal_chain_maxlen, ineff_expands, noexpand >>
    BY DEF DeleteEntry, Unlist, HASH_DEL_IN_BKT
<1>6. /\ next \in Links /\ prev \in Links /\ hh_next \in Links /\ hh_prev \in Links
      /\ buckets \in [0 .. n - 1 -> Bucket]
    BY <1>1 DEF TypeOK, Buckets
<1> DEFINE E == D \ {e}
<1>7. E \in SUBSET Entries
    OBVIOUS
<1>8. EndsWith(num_items', E, head', tail', next', prev')
    <2>1. EndsWith(num_items, D, head, tail, next, prev)
        BY <1>2 DEF Table
    <2>2. EndsWith(num_items - 1, D \ {e}, IF prev[e] = NULL THEN next[e] ELSE head,
                   IF e = tail THEN prev[e] ELSE tail,
                   Relinked(next, prev[e], next[e], e),
                   Relinked(prev, next[e], prev[e], e))
        BY <1>3, <1>5, <2>1, EndsUnlinked
    <2> QED
        BY <1>5, <2>2
<1>9. buckets[b].count - 1 \in Nat
    <2>1. PICK m, S, first :
              m = buckets[b].count /\ S = InBucket(D, b, n) /\ first = buckets[b].hh_head
        OBVIOUS
    <2>2. IsList(m, S, first, hh_next, hh_prev) /\ S \in SUBSET Entries /\ e \in S
        BY <1>2, <1>3, <1>4, <2>1 DEF Table, Threaded, InBucket
    <2>3. m \in 0 .. Cardinality(Entries) /\ (m = 0 <=> S = {})
        BY <2>2, ListFacts
    <2>4. m \in Nat /\ m # 0
        BY <2>2, <2>3, FS_CardinalityType, HashAssumption
    <2> QED
        BY <2>1, <2>4
<1>10. buckets' = [a \in 0 .. n - 1 |->
                      IF a = b
                      THEN [hh_head |-> IF buckets[b].hh_head = e THEN hh_next[e]
                                        ELSE buckets[b].hh_head,
                            count |-> buckets[b].count - 1,
                            expand_mult |-> buckets[b].expand_mult]
                      ELSE buckets[a]]
    BY <1>5, <1>6
<1>11. /\ buckets'[b].count = buckets[b].count - 1
       /\ buckets'[b].hh_head = IF buckets[b].hh_head = e THEN hh_next[e]
                                ELSE buckets[b].hh_head
       /\ buckets'[b].expand_mult = buckets[b].expand_mult
       /\ \A a \in (0 .. n - 1) \ {b} : buckets'[a] = buckets[a]
    BY <1>4, <1>10
<1>12. \A x \in Entries : hh_next[x] \in Pointers
    BY <1>6 DEF Links
<1>13. buckets' \in [0 .. n - 1 -> LooseBucket]
    <2>1. buckets[b] \in Bucket
        BY <1>4, <1>6
    <2>2. buckets'[b] \in LooseBucket
        <3>1. buckets'[b] = [hh_head |-> IF buckets[b].hh_head = e THEN hh_next[e]
                                         ELSE buckets[b].hh_head,
                             count |-> buckets[b].count - 1,
                             expand_mult |-> buckets[b].expand_mult]
            BY <1>4, <1>10
        <3>2. buckets[b].hh_head \in Pointers
              /\ buckets[b].expand_mult \in 0 .. Cardinality(Entries)
            BY <2>1 DEF Bucket
        <3> QED
            BY <1>9, <1>12, <3>1, <3>2 DEF LooseBucket
    <2>3. Bucket \in SUBSET LooseBucket
        BY FS_CardinalityType, HashAssumption DEF Bucket, LooseBucket
    <2>4. \A a \in (0 .. n - 1) \ {b} : buckets'[a] \in LooseBucket
        BY <1>6, <1>11, <2>3
    <2>5. \A a \in 0 .. n - 1 : buckets'[a] \in LooseBucket
        BY <2>2, <2>4
    <2> HIDE DEF n, b
    <2> QED
        BY <1>10, <2>5
<1>14. Threaded(buckets', n, E, hh_next', hh_prev')
    <2>1. Threaded(buckets, n, D, hh_next, hh_prev)
        BY <1>2 DEF Table
    <2>2. b = ToBucket(e, n)
        OBVIOUS
    <2> HIDE DEF n, b
    <2>3. Threaded(buckets', n, D \ {e}, Relinked(hh_next, hh_prev[e], hh_next[e], e),
                   Relinked(hh_prev, hh_next[e], hh_prev[e], e))
        BY <1>3, <1>11, <2>1, <2>2, ThreadedUnlink
    <2> QED
        BY <1>5, <2>3
<1> HIDE DEF E
<1>15. buckets' \in [0 .. n - 1 -> Bucket]
    <2> HIDE DEF n, b
    <2> QED
        BY <1>3, <1>7, <1>13, <1>14, Tight
<1>16. IsList(num_items', E, head', next', prev') /\ num_items' # 0 /\ tail' \in E
    BY <1>7, <1>8, EndIsList
<1>17. num_items' \in 0 .. Cardinality(Entries) /\ head' \in E \cup {NULL} /\ head' # NULL
    BY <1>7, <1>16, ListFacts
<1>18. Table(E)'
    BY <1>3, <1>5, <1>8, <1>14 DEF Table
<1>19. next' \in Links /\ prev' \in Links /\ hh_next' \in Links /\ hh_prev' \in Links
    <2>1. \A x \in Entries : /\ next[x] \in Pointers /\ prev[x] \in Pointers
                             /\ hh_next[x] \in Pointers /\ hh_prev[x] \in Pointers
        BY <1>6 DEF Links
    <2>2. NULL \in Pointers
        BY DEF Pointers
    <2> QED
        BY <1>5, <2>1, <2>2 DEF Links, Relinked
<1>20. TypeOK'
    <2>1. head' \in Pointers /\ tail' \in Pointers
        BY <1>7, <1>16, <1>17 DEF Pointers
    <2>2. buckets' \in [Buckets' -> Bucket]
        BY <1>5, <1>15 DEF Buckets
    <2>3. new_buckets' \in [0 .. (IF expanding' THEN 2 * num_buckets' ELSE 0) - 1 -> Bucket]
        BY <1>1, <1>5 DEF TypeOK
    <2>4. bkt_i' \in IF expanding' THEN Buckets' ELSE {0}
        BY <1>1 DEF TypeOK
    <2> QED
        BY <1>1, <1>5, <1>17, <1>19, <2>1, <2>2, <2>3, <2>4 DEF TypeOK
<1>21. ChainsBounded'
    <2> SUFFICES ASSUME ~noexpand, NEW a \in Buckets
                 PROVE  \/ buckets'[a].count
                           <= (buckets'[a].expand_mult + 1) * HASH_BKT_CAPACITY_THRESH
                        \/ buckets'[a].count
                           <= (buckets'[a].expand_mult + 1) * ideal_chain_maxlen
        BY <1>5 DEF ChainsBounded, Buckets
    <2>1. \/ buckets[a].count <= (buckets[a].expand_mult + 1) * HASH_BKT_CAPACITY_THRESH
          \/ buckets[a].count <= (buckets[a].expand_mult + 1) * ideal_chain_maxlen
        BY <1>1 DEF UtInv, ChainsBounded
    <2>2. CASE a # b
        <3>1. buckets'[a] = buckets[a]
            BY <1>11, <2>2 DEF Buckets
        <3> QED
            BY <2>1, <3>1
    <2>3. CASE a = b
        <3>1. \A t \in Nat : buckets[a].count <= (buckets[a].expand_mult + 1) * t =>
                             buckets[a].count - 1 <= (buckets[a].expand_mult + 1) * t
            <4>1. buckets[a] \in Bucket
                BY <1>6 DEF Buckets
            <4>2. buckets[a].count \in Nat /\ buckets[a].expand_mult + 1 \in Nat
                BY <4>1, FS_CardinalityType, HashAssumption DEF Bucket
            <4>3. \A x, y \in Nat : x * y \in Nat
                OBVIOUS
            <4>4. \A t \in Nat : (buckets[a].expand_mult + 1) * t \in Nat
                BY <4>2, <4>3
            <4> QED
                BY <4>2, <4>4
        <3>2. HASH_BKT_CAPACITY_THRESH \in Nat /\ ideal_chain_maxlen \in Nat
            BY <1>1, HashAssumption DEF TypeOK
        <3>3. /\ buckets'[a].count = buckets[a].count - 1
              /\ buckets'[a].expand_mult = buckets[a].expand_mult
            BY <1>11, <2>3
        <3> QED
            BY <2>1, <3>1, <3>2, <3>3
    <2> QED
        BY <2>2, <2>3
<1>22. (~noexpand => ineff_expands < 2)'
    BY <1>5 DEF UtInv
<1> QED
    BY <1>7, <1>17, <1>18, <1>20, <1>21, <1>22 DEF UtInv

(* The limit of the bucket that an entry moves to.                         *)
LEMMA CountedFields ==
    ASSUME NEW B0, NEW B, ideal_chain_maxlen \in Nat \ {0},
           B0.count \in Nat, B0.expand_mult \in Nat, Measured(B0, ideal_chain_maxlen),
           B = [hh_head |-> B.hh_head, count |-> B0.count + 1, expand_mult |-> B0.expand_mult]
    PROVE  /\ Counted(B) = [hh_head |-> B.hh_head, count |-> B0.count + 1,
                            expand_mult |-> Counted(B).expand_mult]
           /\ Counted(B).expand_mult \in Nat
           /\ Measured(Counted(B), ideal_chain_maxlen)
PROOF
<1> DEFINE t == ideal_chain_maxlen
           k == B0.expand_mult
           c == B0.count
<1>1. /\ t \in Nat \ {0} /\ k \in Nat /\ c \in Nat
      /\ k <= c /\ c <= (k + 1) * t
    BY DEF Measured
<1>2. B.count = c + 1 /\ B.expand_mult = k
    OBVIOUS
<1>3. /\ (k + 1) * t = k * t + t /\ k * t \in Nat
      /\ (k + 2) * t = (k + 1) * t + t /\ (k + 1) * t \in Nat
    <2>1. \A x, y \in Nat : x * y \in Nat /\ (x + 1) * y = x * y + y
                            /\ (x + 2) * y = (x + 1) * y + y
        OBVIOUS
    <2> HIDE DEF t, k
    <2>2. k + 1 \in Nat
        BY <1>1
    <2> QED
        BY <1>1, <2>1, <2>2
<1> HIDE DEF t, k, c
<1>4. CASE B.count > t /\ B.count > B.expand_mult * t
    <2>1. Counted(B) = [B EXCEPT !.expand_mult = @ + 1]
        BY <1>4 DEF Counted, t
    <2>2. Counted(B) = [hh_head |-> B.hh_head, count |-> c + 1, expand_mult |-> k + 1]
        BY <2>1 DEF c, k
    <2>3. k + 1 <= c + 1 /\ c + 1 <= (k + 2) * t /\ (k + 1) + 1 = k + 2
        BY <1>1, <1>3
    <2>4. Measured(Counted(B), t)
        BY <2>2, <2>3 DEF Measured
    <2> QED
        BY <1>1, <2>2, <2>4 DEF t, c, k
<1>5. CASE ~(B.count > t /\ B.count > B.expand_mult * t)
    <2>1. Counted(B) = B
        BY <1>5 DEF Counted, t
    <2>2. c + 1 <= t \/ c + 1 <= k * t
        BY <1>1, <1>2, <1>3, <1>5
    <2>3. k <= c + 1 /\ c + 1 <= (k + 1) * t
        BY <1>1, <1>3, <2>2
    <2>4. Measured(B, t)
        BY <1>2, <2>3 DEF Measured
    <2> QED
        BY <1>1, <1>2, <2>1, <2>4 DEF t, c, k
<1> QED
    BY <1>4, <1>5

(* An entry moves from an old bucket to a new one.                         *)
LEMMA MoveInv == UtInv /\ MoveEntry => UtInv'
PROOF
<1> SUFFICES ASSUME UtInv, MoveEntry PROVE UtInv'
    OBVIOUS
<1> DEFINE n == 2 * num_buckets
           b == ToBucket(thh, n)
           new == Pushed(new_buckets, b, thh)
           B == new[b]
<1>1. TypeOK /\ expanding /\ thh # NULL /\ head # NULL
    BY DEF UtInv, MoveEntry, NoTable
<1>2. PICK D \in SUBSET Entries : Table(D)
    BY <1>1 DEF UtInv
<1>3. PICK M \in SUBSET D : Moving(D, M)
    BY <1>1, <1>2 DEF Table
<1>4. num_buckets \in Nat \ {0} /\ bkt_i \in 0 .. num_buckets - 1
    BY <1>1, <1>2 DEF TypeOK, Table, Buckets
<1>5. n \in Nat \ {0}
    BY <1>4
<1>6. /\ new_buckets' = [new_buckets EXCEPT ![b] = Counted(B)]
      /\ nonideal_items' = nonideal_items + (IF B.count > ideal_chain_maxlen THEN 1 ELSE 0)
      /\ hh_next' = [hh_next EXCEPT ![thh] = new_buckets[b].hh_head]
      /\ hh_prev' = Relinked(hh_prev, new_buckets[b].hh_head, thh, thh)
      /\ thh' = hh_next[thh]
      /\ UNCHANGED << head, tail, next, prev, num_buckets, buckets, num_items,
                      ideal_chain_maxlen, ineff_expands, noexpand, expanding,
                      bkt_i, exited >>
    BY DEF MoveEntry, LinkInFront
<1>7. /\ hh_next \in Links /\ hh_prev \in Links
      /\ new_buckets \in [0 .. n - 1 -> Bucket]
      /\ ideal_chain_maxlen \in Nat \ {0}
    BY <1>1, <1>3 DEF TypeOK, Moving
<1> DEFINE U == D \ M
<1>8. /\ Waiting(U, num_buckets, buckets, bkt_i, thh, hh_next)
      /\ U \in SUBSET Entries
      /\ \A x \in U \ {thh} : hh_next'[x] = hh_next[x]
    BY <1>3, <1>6, <1>7 DEF Moving, Links
<1>9. thh \in U /\ Waiting(U \ {thh}, num_buckets, buckets, bkt_i, hh_next[thh], hh_next')
    <2> HIDE DEF U
    <2> QED
        BY <1>1, <1>4, <1>8, WaitMove
<1>10. thh \in Entries /\ thh \in D /\ thh \notin M
    BY <1>9
<1>11. b \in 0 .. n - 1
    BY <1>5, <1>10, BucketOf
<1>12. b = ToBucket(thh, n)
    OBVIOUS
<1> PICK N : N = M \cup {thh}
    OBVIOUS
<1>13. N \in SUBSET D /\ N \in SUBSET Entries /\ D \ N = U \ {thh}
    BY <1>10
<1> HIDE DEF n, b
<1>14. /\ new \in [0 .. n - 1 -> LooseBucket]
       /\ new[b].count = new_buckets[b].count + 1
       /\ new[b].hh_head = thh
       /\ new[b].expand_mult = new_buckets[b].expand_mult
    BY <1>5, <1>7, <1>10, <1>11, PushedFields
<1> HIDE DEF new, U
<1>15. /\ new_buckets[b].count \in Nat /\ new_buckets[b].expand_mult \in Nat
       /\ Measured(new_buckets[b], ideal_chain_maxlen)
    <2>1. new_buckets[b] \in Bucket
        BY <1>7, <1>11
    <2>2. Measured(new_buckets[b], ideal_chain_maxlen)
        BY <1>3, <1>11 DEF Moving, n
    <2> QED
        BY <2>1, <2>2, FS_CardinalityType, HashAssumption DEF Bucket
<1>16. B = [hh_head |-> B.hh_head, count |-> new_buckets[b].count + 1,
            expand_mult |-> new_buckets[b].expand_mult]
    <2>1. B \in LooseBucket
        BY <1>11, <1>14
    <2>2. B = [hh_head |-> B.hh_head, count |-> B.count, expand_mult |-> B.expand_mult]
        BY <2>1 DEF LooseBucket
    <2> QED
        BY <1>14, <2>2
<1>17. B.hh_head = thh
    BY <1>14
<1> HIDE DEF B
<1>18. /\ Counted(B) = [hh_head |-> thh, count |-> new_buckets[b].count + 1,
                        expand_mult |-> Counted(B).expand_mult]
       /\ Counted(B).expand_mult \in Nat
       /\ Measured(Counted(B), ideal_chain_maxlen)
    BY <1>7, <1>15, <1>16, <1>17, CountedFields
<1>19. /\ new_buckets'[b] = Counted(B)
       /\ \A a \in (0 .. n - 1) \ {b} : new_buckets'[a] = new_buckets[a]
       /\ new_buckets' = [a \in 0 .. n - 1 |-> IF a = b THEN Counted(B) ELSE new_buckets[a]]
    BY <1>6, <1>7, <1>11
<1>20. new_buckets'[b].count = new_buckets[b].count + 1 /\ new_buckets'[b].hh_head = thh
    BY <1>18, <1>19
<1>21. Threaded(new_buckets', n, N, hh_next', hh_prev')
    <2>1. Threaded(new_buckets, n, M, hh_next, hh_prev)
        BY <1>3 DEF Moving, n
    <2>2. Threaded(new_buckets', n, M \cup {thh},
                   [hh_next EXCEPT ![thh] = new_buckets[b].hh_head],
                   Relinked(hh_prev, new_buckets[b].hh_head, thh, thh))
        <3>1. M \in SUBSET Entries
            OBVIOUS
        <3> QED
            BY <1>5, <1>7, <1>10, <1>12, <1>19, <1>20, <2>1, <3>1, ThreadedPush
    <2> QED
        BY <1>6, <2>2
<1>22. \A a \in 0 .. n - 1 : Measured(new_buckets'[a], ideal_chain_maxlen')
    <2>1. \A a \in 0 .. n - 1 : Measured(new_buckets[a], ideal_chain_maxlen)
        BY <1>3 DEF Moving, n
    <2> QED
        BY <1>6, <1>18, <1>19, <2>1
<1>23. /\ Cardinality(Entries) \in Nat /\ Cardinality(N) \in Nat
       /\ Cardinality(N) <= Cardinality(Entries)
       /\ Cardinality(N) = Cardinality(M) + 1
       /\ Cardinality(M) \in Nat
    <2>1. IsFiniteSet(M) /\ IsFiniteSet(N)
        BY <1>13, FS_Subset, HashAssumption
    <2>2. Cardinality(N) = Cardinality(M) + 1
        BY <1>10, <2>1, FS_AddElement
    <2>3. Cardinality(N) <= Cardinality(Entries)
        BY <1>13, FS_Subset, HashAssumption
    <2> QED
        BY <2>1, <2>2, <2>3, FS_CardinalityType, HashAssumption
<1>24. nonideal_items' <= Cardinality(N) /\ nonideal_items' \in 0 .. Cardinality(Entries)
    <2>1. nonideal_items \in Nat /\ nonideal_items <= Cardinality(M)
        BY <1>1, <1>3, <1>23 DEF TypeOK, Moving
    <2>2. nonideal_items' = nonideal_items \/ nonideal_items' = nonideal_items + 1
        BY <1>6, <2>1
    <2> QED
        BY <1>23, <2>1, <2>2
<1>25. Moving(D, N)'
    <2>1. ~noexpand' /\ ideal_chain_maxlen' # 0
        BY <1>3, <1>6 DEF Moving
    <2>2. Waiting(D \ N, num_buckets', buckets', bkt_i', thh', hh_next')
        BY <1>6, <1>9, <1>13
    <2> QED
        BY <1>6, <1>21, <1>22, <1>24, <2>1, <2>2 DEF Moving, n
<1>26. Table(D)'
    <2>1. num_buckets # 0 /\ EndsWith(num_items, D, head, tail, next, prev)
        BY <1>2 DEF Table
    <2> QED
        BY <1>1, <1>6, <1>13, <1>25, <2>1 DEF Table
<1>27. new_buckets' \in [0 .. n - 1 -> Bucket]
    <2>1. \A a \in 0 .. n - 1 :
              /\ new_buckets'[a].count \in 0 .. Cardinality(Entries)
              /\ new_buckets'[a].hh_head \in Pointers
        BY <1>5, <1>13, <1>21, ThreadedFacts
    <2>2. new_buckets'[b] \in Bucket
        <3>1. PICK k : k = Counted(B).expand_mult
            OBVIOUS
        <3>2. new_buckets'[b] = [hh_head |-> thh, count |-> new_buckets[b].count + 1,
                                 expand_mult |-> k]
            BY <1>18, <1>19, <3>1
        <3>3. k \in Nat /\ k <= new_buckets[b].count + 1
            <4>1. Measured(new_buckets'[b], ideal_chain_maxlen)
                BY <1>18, <1>19
            <4> QED
                BY <1>18, <3>1, <3>2, <4>1 DEF Measured
        <3>4. new_buckets[b].count + 1 \in 0 .. Cardinality(Entries)
            BY <1>11, <1>20, <2>1
        <3>5. k \in 0 .. Cardinality(Entries)
            BY <1>23, <3>3, <3>4
        <3>6. thh \in Pointers
            BY <1>10 DEF Pointers
        <3> QED
            BY <3>2, <3>4, <3>5, <3>6 DEF Bucket
    <2> QED
        BY <1>7, <1>19, <2>2
<1>28. TypeOK'
    <2>1. /\ hh_next' \in Links /\ hh_prev' \in Links /\ thh' \in Pointers
        <3>1. PICK first : first = new_buckets[b].hh_head
            OBVIOUS
        <3>2. first \in Pointers /\ thh \in Pointers /\ NULL \in Pointers
            <4>1. new_buckets[b] \in Bucket
                BY <1>7, <1>11
            <4> QED
                BY <1>10, <3>1, <4>1 DEF Bucket, Pointers
        <3>3. /\ hh_next' = [hh_next EXCEPT ![thh] = first]
              /\ hh_prev' = Relinked(hh_prev, first, thh, thh)
            BY <1>6, <3>1
        <3> QED
            BY <1>6, <1>7, <1>10, <3>2, <3>3 DEF Links, Relinked
    <2>2. new_buckets' \in [0 .. (IF expanding' THEN 2 * num_buckets' ELSE 0) - 1 -> Bucket]
        BY <1>1, <1>6, <1>27 DEF n
    <2>3. buckets' \in [Buckets' -> Bucket] /\ bkt_i' \in IF expanding' THEN Buckets' ELSE {0}
        BY <1>1, <1>6 DEF TypeOK, Buckets
    <2> QED
        BY <1>1, <1>6, <1>24, <2>1, <2>2, <2>3 DEF TypeOK
<1>29. ChainsBounded'
    BY <1>1, <1>6 DEF ChainsBounded
<1>30. (~noexpand => ineff_expands < 2)'
    BY <1>6 DEF UtInv
<1> QED
    BY <1>1, <1>6, <1>26, <1>28, <1>29, <1>30 DEF UtInv

(* The loop goes on with the next old bucket.                              *)
LEMMA NextBucketInv == UtInv /\ NextBucket => UtInv'
PROOF
<1> SUFFICES ASSUME UtInv, NextBucket PROVE UtInv'
    OBVIOUS
<1>1. TypeOK /\ expanding /\ thh = NULL /\ head # NULL /\ bkt_i + 1 # num_buckets
    BY DEF UtInv, NextBucket, NoTable, LastBucket
<1>2. PICK D \in SUBSET Entries : Table(D)
    BY <1>1 DEF UtInv
<1>3. PICK M \in SUBSET D : Moving(D, M)
    BY <1>1, <1>2 DEF Table
<1>4. /\ num_buckets \in Nat \ {0} /\ bkt_i \in 0 .. num_buckets - 1
      /\ buckets \in [0 .. num_buckets - 1 -> Bucket]
    BY <1>1, <1>2 DEF TypeOK, Table, Buckets
<1>5. bkt_i + 1 \in 0 .. num_buckets - 1
    BY <1>1, <1>4
<1>6. /\ bkt_i' = bkt_i + 1
      /\ thh' = buckets[bkt_i + 1].hh_head
      /\ UNCHANGED << head, tail, next, prev, num_buckets, buckets, hh_next, hh_prev,
                      num_items, ideal_chain_maxlen, ineff_expands, noexpand,
                      expanding, new_buckets, nonideal_items, exited >>
    BY DEF NextBucket
<1>7. Waiting(D \ M, num_buckets, buckets, bkt_i + 1, buckets[bkt_i + 1].hh_head, hh_next)
    <2>1. PICK U : U = D \ M
        OBVIOUS
    <2>2. Waiting(U, num_buckets, buckets, bkt_i, NULL, hh_next) /\ U \in SUBSET Entries
        BY <1>1, <1>3, <2>1 DEF Moving
    <2>3. Waiting(U, num_buckets, buckets, bkt_i + 1, buckets[bkt_i + 1].hh_head, hh_next)
        BY <1>1, <1>4, <2>2, WaitNext
    <2> QED
        BY <2>1, <2>3
<1>8. Moving(D, M)'
    BY <1>3, <1>6, <1>7 DEF Moving
<1>9. Table(D)'
    <2>1. num_buckets # 0 /\ EndsWith(num_items, D, head, tail, next, prev)
        BY <1>2 DEF Table
    <2> QED
        BY <1>1, <1>6, <1>8, <2>1 DEF Table
<1>10. TypeOK'
    <2>1. thh' \in Pointers
        <3>1. buckets[bkt_i + 1] \in Bucket
            BY <1>4, <1>5
        <3> QED
            BY <1>6, <3>1 DEF Bucket
    <2>2. buckets' \in [Buckets' -> Bucket]
        BY <1>4, <1>6 DEF Buckets
    <2>3. bkt_i' \in IF expanding' THEN Buckets' ELSE {0}
        BY <1>1, <1>5, <1>6 DEF Buckets
    <2>4. new_buckets' \in [0 .. (IF expanding' THEN 2 * num_buckets' ELSE 0) - 1 -> Bucket]
        BY <1>1, <1>6 DEF TypeOK
    <2> QED
        BY <1>1, <1>6, <2>1, <2>2, <2>3, <2>4 DEF TypeOK
<1>11. ChainsBounded' /\ (~noexpand => ineff_expands < 2)'
    BY <1>1, <1>6 DEF ChainsBounded, UtInv
<1> QED
    BY <1>1, <1>6, <1>9, <1>10, <1>11 DEF UtInv

(* The new buckets replace the old ones.                                   *)
LEMMA EndInv == UtInv /\ EndExpansion => UtInv'
PROOF
<1> SUFFICES ASSUME UtInv, EndExpansion PROVE UtInv'
    OBVIOUS
<1> DEFINE n == 2 * num_buckets
<1>1. TypeOK /\ expanding /\ thh = NULL /\ head # NULL /\ bkt_i + 1 = num_buckets
    BY DEF UtInv, EndExpansion, NoTable, LastBucket
<1>2. PICK D \in SUBSET Entries : Table(D)
    BY <1>1 DEF UtInv
<1>3. PICK M \in SUBSET D : Moving(D, M)
    BY <1>1, <1>2 DEF Table
<1>4. num_buckets \in Nat \ {0} /\ bkt_i \in 0 .. num_buckets - 1 /\ n \in Nat \ {0}
    BY <1>1, <1>2 DEF TypeOK, Table, Buckets
<1>5. /\ num_buckets' = n
      /\ buckets' = new_buckets
      /\ ineff_expands' = IF nonideal_items > num_items \div 2 THEN ineff_expands + 1 ELSE 0
      /\ noexpand' = (noexpand \/ ineff_expands' > 1)
      /\ expanding' = FALSE
      /\ new_buckets' = EmptyBuckets(0)
      /\ bkt_i' = 0
      /\ nonideal_items' = 0
      /\ UNCHANGED << head, tail, next, prev, hh_next, hh_prev, num_items,
                      ideal_chain_maxlen, thh, exited >>
    BY DEF EndExpansion
<1>6. M = D
    <2>1. PICK U : U = D \ M
        OBVIOUS
    <2>2. Waiting(U, num_buckets, buckets, bkt_i, NULL, hh_next) /\ U \in SUBSET Entries
        BY <1>1, <1>3, <2>1 DEF Moving
    <2>3. U = {}
        BY <1>1, <1>4, <2>2, WaitEnd
    <2> QED
        BY <2>1, <2>3
<1>7. Threaded(new_buckets, n, D, hh_next, hh_prev)
    BY <1>3, <1>6 DEF Moving
<1>8. Table(D)'
    <2>1. EndsWith(num_items, D, head, tail, next, prev)
        BY <1>2 DEF Table
    <2> HIDE DEF n
    <2> QED
        BY <1>4, <1>5, <1>7, <2>1 DEF Table
<1>9. ineff_expands \in 0 .. 1 /\ ~noexpand
    BY <1>1, <1>3 DEF UtInv, Moving, TypeOK
<1>10. ineff_expands' \in 0 .. 2 /\ noexpand' \in BOOLEAN /\ (~noexpand' => ineff_expands' < 2)
    <2>1. ineff_expands' \in 0 .. 2
        BY <1>5, <1>9
    <2>2. CASE ineff_expands' > 1
        <3>1. noexpand' = TRUE
            BY <1>5, <2>2
        <3> QED
            BY <2>1, <3>1
    <2>3. CASE ~(ineff_expands' > 1)
        <3>1. noexpand' = FALSE
            BY <1>5, <1>9, <2>3
        <3>2. ineff_expands' < 2
            BY <2>1, <2>3
        <3> QED
            BY <2>1, <3>1, <3>2, Zenon
    <2> QED
        BY <2>2, <2>3
<1>11. TypeOK'
    <2>1. buckets' \in [Buckets' -> Bucket]
        BY <1>1, <1>5 DEF TypeOK, Buckets
    <2>2. new_buckets' \in [0 .. (IF expanding' THEN 2 * num_buckets' ELSE 0) - 1 -> Bucket]
        <3>1. EmptyBuckets(0) \in [0 .. 0 - 1 -> Bucket]
            BY EmptyType
        <3> QED
            BY <1>5, <3>1
    <2>3. bkt_i' \in IF expanding' THEN Buckets' ELSE {0}
        BY <1>5
    <2>4. num_buckets' \in Nat /\ nonideal_items' \in 0 .. Cardinality(Entries)
        BY <1>4, <1>5, FS_CardinalityType, HashAssumption
    <2>5. expanding' \in BOOLEAN
        BY <1>5
    <2> HIDE DEF n
    <2> QED
        BY <1>1, <1>5, <1>10, <2>1, <2>2, <2>3, <2>4, <2>5 DEF TypeOK
<1>12. ChainsBounded'
    <2>1. \A b \in 0 .. n - 1 : Measured(new_buckets[b], ideal_chain_maxlen)
        BY <1>3 DEF Moving
    <2> HIDE DEF n
    <2> QED
        BY <1>5, <2>1 DEF ChainsBounded, Buckets, Measured
<1> QED
    BY <1>1, <1>5, <1>8, <1>10, <1>11, <1>12 DEF UtInv

-----------------------------------------------------------------------------
(* Every step keeps the invariant, and is one of the map or none.          *)
LEMMA StepInv == UtInv /\ [Next]_vars => UtInv'
PROOF
<1> SUFFICES ASSUME UtInv, [Next]_vars PROVE UtInv'
    OBVIOUS
<1>1. CASE HASH_EXPAND_BUCKETS
    BY <1>1, MoveInv, NextBucketInv, EndInv DEF HASH_EXPAND_BUCKETS
<1>2. ASSUME NEW e \in Entries, HASH_ADD(e)
      PROVE  UtInv'
    <2>1. ~expanding /\ HASH_FIND(e) = NULL
        BY <1>2 DEF HASH_ADD
    <2>2. CASE AddFirst(e) /\ UNCHANGED exited
        BY <2>1, <2>2, AddFirstInv
    <2>3. CASE AddToTable(e) /\ UNCHANGED exited
        BY <2>1, <2>3, AddInv
    <2>4. CASE uthash_fatal
        BY <2>4, FatalInv
    <2> QED
        BY <1>2, <2>2, <2>3, <2>4 DEF HASH_ADD
<1>3. ASSUME NEW e \in Entries, HASH_DEL(e)
      PROVE  UtInv'
    <2>1. /\ ~expanding /\ HASH_FIND(e) # NULL
          /\ UNCHANGED << expanding, new_buckets, bkt_i, thh, nonideal_items, exited >>
        BY <1>3 DEF HASH_DEL, loopVars
    <2>2. CASE DeleteTable(e)
        BY <2>1, <2>2, DeleteTableInv
    <2>3. CASE DeleteEntry(e)
        BY <2>1, <2>3, DeleteEntryInv
    <2> QED
        BY <1>3, <2>2, <2>3 DEF HASH_DEL
<1>4. CASE UNCHANGED vars
    <2> USE <1>4 DEF vars, loopVars
    <2>1. TypeOK'
        BY DEF UtInv, TypeOK, Buckets
    <2>2. ChainsBounded'
        BY DEF UtInv, ChainsBounded, Buckets
    <2>3. CASE head = NULL
        BY <2>1, <2>2, <2>3 DEF UtInv, NoTable
    <2>4. CASE head # NULL
        <3>1. PICK D \in SUBSET Entries : Table(D)
            BY <2>4 DEF UtInv
        <3>2. Table(D)'
            BY <3>1 DEF Table, Moving
        <3> QED
            BY <2>1, <2>2, <2>4, <3>2 DEF UtInv
    <2> QED
        BY <2>3, <2>4
<1> QED
    BY <1>1, <1>2, <1>3, <1>4 DEF Next

(* The table has the invariant at all times.                               *)
LEMMA UtInvHolds == Spec => []UtInv
PROOF
<1> QED
    BY InitInv, StepInv, PTL DEF Spec

(* Two lists and the fields of a table make a map of its entries.          *)
LEMMA StoredIs ==
    ASSUME UtInv
    PROVE  /\ head = NULL => List(next, head) = {}
           /\ \A D \in SUBSET Entries : head # NULL /\ Table(D) => List(next, head) = D
PROOF
<1>1. ASSUME head = NULL PROVE List(next, head) = {}
    <2>1. PICK c : Forward(0, c, {}, NULL, next)
        BY NoEntries
    <2> QED
        BY <1>1, <2>1, Listed
<1>2. ASSUME NEW D \in SUBSET Entries, head # NULL, Table(D)
      PROVE  List(next, head) = D
    BY <1>2, TableFacts DEF UtInv
<1> QED
    BY <1>1, <1>2

(* The fields keep their types, through every expansion.                   *)
THEOREM UtTypes == Spec => []TypeOK
PROOF
<1>1. UtInv => TypeOK
    BY DEF UtInv
<1> QED
    BY <1>1, UtInvHolds, PTL

(***************************************************************************)
(* HASH_FSCK never finds anything: whatever entries come, go and move      *)
(* between buckets, both kinds of lists are well linked, the counts are    *)
(* right, tail is the last entry and each entry is in its own bucket.      *)
(***************************************************************************)
THEOREM ListsWellLinked == Spec => []HASH_FSCK
PROOF
<1>1. UtInv => HASH_FSCK
    <2> SUFFICES ASSUME UtInv PROVE HASH_FSCK
        OBVIOUS
    <2>1. CASE head = NULL
        BY <2>1 DEF UtInv, NoTable, HASH_FSCK
    <2>2. CASE head # NULL
        <3>1. PICK D \in SUBSET Entries : Table(D)
            BY <2>2 DEF UtInv
        <3>2. EndsWith(num_items, D, head, tail, next, prev)
            BY <3>1 DEF Table
        <3>3. /\ IsList(num_items, D, head, next, prev)
              /\ tail = Walk(next, head)[num_items - 1]
            BY <3>2, EndIsList
        <3>4. WellLinked(next, prev, head, num_items) /\ List(next, head) = D
            BY <3>3, ListFacts
        <3>5. ASSUME ~expanding, NEW b \in Buckets
              PROVE  /\ WellLinked(hh_next, hh_prev, buckets[b].hh_head, buckets[b].count)
                     /\ Chain(b) = InBucket(D, b, num_buckets)
            <4>1. Threaded(buckets, num_buckets, D, hh_next, hh_prev) /\ num_buckets \in Nat
                BY <3>1, <3>5 DEF Table, UtInv, TypeOK
            <4> QED
                BY <3>5, <4>1, ThreadedFacts DEF Chain, Buckets
        <3> QED
            BY <2>2, <3>3, <3>4, <3>5 DEF HASH_FSCK, InBucket
    <2> QED
        BY <2>1, <2>2
<1> QED
    BY <1>1, UtInvHolds, PTL

(***************************************************************************)
(* As long as the table may expand no chain outgrows its limit, a multiple *)
(* of the threshold or of the ideal chain of the last expansion            *)
(* (HASH_ADD_TO_BKT, HASH_EXPAND_BUCKETS, expand_mult), for any hash       *)
(* function, threshold and order of additions and deletions.               *)
(***************************************************************************)
THEOREM ChainsStayBounded == Spec => []ChainsBounded
PROOF
<1>1. UtInv => ChainsBounded
    BY DEF UtInv
<1> QED
    BY <1>1, UtInvHolds, PTL

(* What is added joins the entries stored.                                 *)
LEMMA AddsToMap ==
    ASSUME UtInv, NEW e \in Entries, AddFirst(e) \/ AddToTable(e), ~expanding,
           HASH_FIND(e) = NULL
    PROVE  Map!Add(e)
PROOF
<1>1. TypeOK
    BY DEF UtInv
<1>2. CASE AddFirst(e)
    <2>1. List(next, head) = {}
        BY <1>2, StoredIs DEF AddFirst
    <2>2. /\ head' = e /\ next' = [next EXCEPT ![e] = NULL]
          /\ prev' = [prev EXCEPT ![e] = NULL]
        BY <1>2 DEF AddFirst
    <2>3. next'[e] = NULL /\ prev'[e] = NULL
        BY <1>1, <2>2 DEF TypeOK, Links
    <2>4. EndsWith(1, {e}, e, e, next', prev')
        BY <2>3, EndsSingle
    <2>5. IsList(1, {e}, e, next', prev')
        BY <2>4, EndIsList
    <2>6. List(next', head') = {e}
        BY <2>2, <2>5, ListFacts
    <2> QED
        BY <2>1, <2>6 DEF Map!Add
<1>3. CASE AddToTable(e)
    <2>1. head # NULL
        BY <1>3 DEF AddToTable
    <2>2. PICK D \in SUBSET Entries : Table(D)
        BY <2>1 DEF UtInv
    <2>3. List(next, head) = D
        BY <2>1, <2>2, StoredIs
    <2>4. e \notin D
        <3>1. HASH_FIND(e) = IF e \in D THEN e ELSE NULL
            BY <1>1, <2>1, <2>2, TableFacts
        <3> QED
            BY <3>1, HashAssumption
    <2>5. PICK E : E = D \cup {e}
        OBVIOUS
    <2>6. EndsWith(num_items', E, head', tail', next', prev') /\ E \in SUBSET Entries
        BY <1>3, <2>2, <2>4, <2>5, Added
    <2>7. IsList(num_items', E, head', next', prev')
        BY <2>6, EndIsList
    <2>8. List(next', head') = E
        BY <2>6, <2>7, ListFacts
    <2> QED
        BY <2>3, <2>4, <2>5, <2>8 DEF Map!Add
<1> QED
    BY <1>2, <1>3

(* What is deleted leaves them.                                            *)
LEMMA DeletesFromMap ==
    ASSUME UtInv, NEW e \in Entries, DeleteTable(e) \/ DeleteEntry(e), ~expanding,
           HASH_FIND(e) # NULL
    PROVE  Map!Delete(e)
PROOF
<1>1. TypeOK /\ head # NULL
    BY DEF UtInv, HASH_FIND
<1>2. PICK D \in SUBSET Entries : Table(D)
    BY <1>1 DEF UtInv
<1>3. e \in D /\ List(next, head) = D
    BY <1>1, <1>2, TableFacts
<1>4. EndsWith(num_items, D, head, tail, next, prev)
    BY <1>2 DEF Table
<1>5. CASE DeleteTable(e)
    <2>1. prev[e] = NULL /\ next[e] = NULL /\ head' = NULL
        BY <1>5 DEF DeleteTable
    <2>2. D = {e}
        <3>1. IsList(num_items, D, head, next, prev)
            BY <1>4, EndIsList
        <3>2. Around(e, num_items, D, head, next, prev)
            BY <1>3, <3>1, ListAround
        <3> QED
            BY <2>1, <3>2 DEF Around
    <2>3. PICK c : Forward(0, c, {}, NULL, next')
        BY NoEntries
    <2>4. List(next', head') = {}
        BY <2>1, <2>3, Listed
    <2> QED
        BY <1>3, <2>2, <2>4 DEF Map!Delete
<1>6. CASE DeleteEntry(e)
    <2>1. /\ prev[e] # NULL \/ next[e] # NULL
          /\ head' = IF prev[e] = NULL THEN next[e] ELSE head
          /\ next' = Relinked(next, prev[e], next[e], e)
        BY <1>6 DEF DeleteEntry, Unlist
    <2>2. EndsWith(num_items - 1, D \ {e}, IF prev[e] = NULL THEN next[e] ELSE head,
                   IF e = tail THEN prev[e] ELSE tail,
                   Relinked(next, prev[e], next[e], e),
                   Relinked(prev, next[e], prev[e], e))
        BY <1>3, <1>4, <2>1, EndsUnlinked
    <2>3. PICK E, last, back :
              /\ E = D \ {e} /\ last = (IF e = tail THEN prev[e] ELSE tail)
              /\ back = Relinked(prev, next[e], prev[e], e)
        OBVIOUS
    <2>4. EndsWith(num_items - 1, E, head', last, next', back) /\ E \in SUBSET Entries
        BY <2>1, <2>2, <2>3
    <2>5. IsList(num_items - 1, E, head', next', back)
        BY <2>4, EndIsList
    <2>6. List(next', head') = E
        BY <2>4, <2>5, ListFacts
    <2> QED
        BY <1>3, <2>3, <2>6 DEF Map!Delete
<1> QED
    BY <1>5, <1>6

(***************************************************************************)
(* The table is the map of PointerMap, which the shields take it for: an   *)
(* addition stores an entry that was not stored and a deletion removes one *)
(* that was, and the moves of an expansion do not show.                    *)
(***************************************************************************)
THEOREM TableIsAMap == Spec => ImplementsMap
PROOF
<1>1. Init => Map!Init
    <2> SUFFICES ASSUME Init PROVE List(next, head) = {}
        BY DEF Map!Init
    <2>1. UtInv
        BY InitInv
    <2> QED
        BY <2>1, StoredIs DEF Init
<1>2. UtInv /\ [Next]_vars => [Map!Next]_(List(next, head))
    <2> SUFFICES ASSUME UtInv, [Next]_vars
                 PROVE  Map!Next \/ List(next, head)' = List(next, head)
        OBVIOUS
    <2>1. CASE next' = next /\ head' = head
        BY <2>1
    <2>2. CASE HASH_EXPAND_BUCKETS
        <3>1. next' = next /\ head' = head
            BY <2>2 DEF HASH_EXPAND_BUCKETS, MoveEntry, NextBucket, EndExpansion
        <3> QED
            BY <2>1, <3>1
    <2>3. ASSUME NEW e \in Entries, HASH_ADD(e)
          PROVE  Map!Next \/ List(next, head)' = List(next, head)
        <3>1. ~expanding /\ HASH_FIND(e) = NULL
            BY <2>3 DEF HASH_ADD
        <3>2. CASE AddFirst(e) \/ AddToTable(e)
            BY <3>1, <3>2, AddsToMap DEF Map!Next
        <3>3. CASE uthash_fatal
            <4>1. next' = next /\ head' = head
                BY <3>3 DEF uthash_fatal
            <4> QED
                BY <2>1, <4>1
        <3> QED
            BY <2>3, <3>2, <3>3 DEF HASH_ADD
    <2>4. ASSUME NEW e \in Entries, HASH_DEL(e)
          PROVE  Map!Next \/ List(next, head)' = List(next, head)
        <3>1. /\ ~expanding /\ HASH_FIND(e) # NULL
              /\ DeleteTable(e) \/ DeleteEntry(e)
            BY <2>4 DEF HASH_DEL
        <3> QED
            BY <3>1, DeletesFromMap DEF Map!Next
    <2>5. CASE UNCHANGED vars
        <3>1. next' = next /\ head' = head
            BY <2>5 DEF vars
        <3> QED
            BY <2>1, <3>1
    <2> QED
        BY <2>2, <2>3, <2>4, <2>5 DEF Next
<1> QED
    BY <1>1, <1>2, UtInvHolds, PTL DEF Spec, Map!Spec, ImplementsMap
=============================================================================
