--------------------------- MODULE CNALockProofs ---------------------------
(***************************************************************************)
(* CNALock, for any number of threads, locks and sockets.  The inductive   *)
(* invariant, CNAInv, says of every line that is not empty who its owner   *)
(* is, which of the others are the owner's secondary queue and which the   *)
(* main queue: behind are the others in the order of arrival, the first k  *)
(* of them the secondary queue.  Every step of the owner moves k or takes  *)
(* the next owner out of behind, and every step of another thread changes  *)
(* the end of behind or a link.                                            *)
(***************************************************************************)
EXTENDS CNALock, SequenceTheorems, FiniteSetTheorems, WellFoundedInduction,
        NaturalsInduction, TLAPS

(* The callers do not nest locks: a thread has one node.                   *)
OneAtATime == MaxHeld = 1

InLine(t, l) == \E i \in 1 .. Len(queue[l]) : queue[l][i] = t

(* Where a thread is in Acquire and in Release.                            *)
Coming == {"exchange", "link", "spin"}
Leaving ==
    {"close", "requeue", "wakeSecondary", "await", "decide", "find", "pass", "passLocal"}

(* Who has passed the exchange on the tail of a lock is in its line, once, *)
(* and nobody else.                                                        *)
Places ==
    /\ pc \in [Threads -> {"idle"} \cup Coming \cup Leaving]
    /\ arg \in [Threads -> Locks \cup {Nil}]
    /\ held \in [Threads -> SUBSET Locks]
    /\ queue \in [Locks -> Seq(Threads)]
    /\ \A l \in Locks : \A i, j \in 1 .. Len(queue[l]) :
           queue[l][i] = queue[l][j] => i = j
    /\ \A t \in Threads :
           /\ arg[t] = Nil <=> pc[t] = "idle"
           /\ held[t] = {} \/ \E l \in Locks : held[t] = {l}
           /\ pc[t] \in Coming => held[t] = {}
           /\ pc[t] \in Leaving => arg[t] \in held[t]
    /\ \A t \in Threads, l \in Locks :
           InLine(t, l) <=> At(t, l, "link") \/ At(t, l, "spin") \/ l \in held[t]

(* The fields of the nodes.                                                *)
NodesTyped ==
    /\ tail \in [Locks -> Threads \cup {Nil}]
    /\ next \in [Threads -> Threads \cup {Nil}]
    /\ spin \in [Threads -> {0, 1} \cup Threads]
    /\ socket \in [Threads -> Sockets \cup {NoSocket}]
    /\ secTail \in [Threads -> Threads \cup {Nil}]
    /\ succ \in [Threads -> Threads \cup {Nil}]

(* A line that is empty has no tail, and a node that is enqueued is reset. *)
Fields ==
    /\ NodesTyped
    /\ \A l \in Locks : Len(queue[l]) = 0 => tail[l] = Nil
    /\ \A t \in Threads : pc[t] = "exchange" => next[t] = Nil /\ spin[t] = 0

(* The socket that the owner's queues are sorted by.                       *)
SortedBy(t) == IF pc[t] = "passLocal" THEN socket[succ[t]] ELSE socket[t]

(* What the owner t has found out by the place it is at still holds.       *)
Found(t, behind, k) ==
    /\ pc[t] # "link"
    /\ pc[t] = "close" => k = 0
    /\ pc[t] = "requeue" => k > 0
    /\ pc[t] = "wakeSecondary" => k < Len(behind)
    /\ pc[t] = "await" => k < Len(behind)
    /\ pc[t] \in {"decide", "find", "pass", "passLocal"} => k < Len(behind) /\ next[t] # Nil

(* Those in the secondary queue have been passed over by a thread of       *)
(* another socket, and only they may be ahead of the owner in line.        *)
PassedOver(t, behind, k) ==
    /\ \A i \in 1 .. Len(behind) : pc[behind[i]] = "spin" => socket[behind[i]] # NoSocket
    /\ \A i \in 1 .. Len(behind) : i <= k =>
           pc[behind[i]] = "spin" /\ socket[behind[i]] # SortedBy(t)
    /\ k > 0 => SortedBy(t) # NoSocket
    /\ pc[t] = "passLocal" => pc[succ[t]] = "spin"
    /\ pc[t] = "wakeSecondary" => pc[behind[1]] = "spin"

Queues(l, t, behind, k) ==
    /\ spin[t] # 0
    /\ \A i \in 1 .. Len(behind) : spin[behind[i]] = 0 /\ l \notin held[behind[i]]
    /\ SecondaryIs(t, behind, k)
    /\ MainIs(l, t, behind, k)
    /\ \A i \in 1 .. Len(behind) :
           i < Len(behind) /\ i # k => Linked(behind[i], behind[i + 1], l)
    /\ Found(t, behind, k)
    /\ PassedOver(t, behind, k)

(* The line at l is t at the place p, and behind are the others in order.  *)
Splits(l, p, t, behind) ==
    /\ p \in 1 .. Len(queue[l])
    /\ queue[l][p] = t
    /\ Len(queue[l]) = Len(behind) + 1
    /\ \A i \in 1 .. Len(behind) :
           /\ i < p => behind[i] = queue[l][i]
           /\ i >= p => behind[i] = queue[l][i + 1]

(* Who is in line is its owner or in one of the owner's two queues, which  *)
(* follow one another in the order of the line.                            *)
Line(l) ==
    Len(queue[l]) > 0 =>
        \E t \in Threads, behind \in Seq(Threads) :
            \E p \in 1 .. Len(queue[l]), k \in 0 .. Len(behind) :
                /\ Splits(l, p, t, behind)
                /\ Queues(l, t, behind, k)
                /\ p <= k + 1 \/ pc[t] = "wakeSecondary"

Order == \A l \in Locks : Line(l)

CNAInv == Places /\ Fields /\ Order

-----------------------------------------------------------------------------
(* A line is a sequence of threads.                                        *)
LEMMA LineType ==
    ASSUME Places, NEW l \in Locks
    PROVE  /\ queue[l] \in Seq(Threads)
           /\ Len(queue[l]) \in Nat
           /\ DOMAIN queue[l] = 1 .. Len(queue[l])
           /\ \A i \in 1 .. Len(queue[l]) : queue[l][i] \in Threads /\ InLine(queue[l][i], l)
PROOF
<1>1. queue[l] \in Seq(Threads)
    BY DEF Places
<1> QED
    BY <1>1, LenProperties, ElementOfSeq DEF InLine

(* A sequence without one of its places.                                   *)
LEMMA Removed ==
    ASSUME NEW S, NEW seq \in Seq(S), NEW j \in 1 .. Len(seq)
    PROVE  /\ RemoveAt(seq, j) \in Seq(S)
           /\ Len(seq) = Len(RemoveAt(seq, j)) + 1
           /\ Len(RemoveAt(seq, j)) \in Nat
           /\ \A i \in 1 .. Len(RemoveAt(seq, j)) :
                  /\ i < j => RemoveAt(seq, j)[i] = seq[i]
                  /\ i >= j => RemoveAt(seq, j)[i] = seq[i + 1]
PROOF
<1> DEFINE front == SubSeq(seq, 1, j - 1)
           back == SubSeq(seq, j + 1, Len(seq))
<1>1. Len(seq) \in Nat /\ \A i \in 1 .. Len(seq) : seq[i] \in S
    BY LenProperties, ElementOfSeq
<1>2. j \in Nat /\ 1 <= j /\ j <= Len(seq)
    BY <1>1
<1>3. \A i \in 1 .. j - 1 : seq[i] \in S
    BY <1>1, <1>2
<1>4. \A i \in j + 1 .. Len(seq) : seq[i] \in S
    BY <1>1, <1>2
<1>5. /\ front \in Seq(S)
      /\ Len(front) = IF 1 <= j - 1 THEN j - 1 - 1 + 1 ELSE 0
      /\ \A i \in 1 .. j - 1 - 1 + 1 : front[i] = seq[1 + i - 1]
    BY <1>2, <1>3, SubSeqProperties
<1>6. Len(front) = j - 1 /\ \A i \in 1 .. j - 1 : front[i] = seq[i]
    BY <1>2, <1>5
<1>7. /\ back \in Seq(S)
      /\ Len(back) = IF j + 1 <= Len(seq) THEN Len(seq) - (j + 1) + 1 ELSE 0
      /\ \A i \in 1 .. Len(seq) - (j + 1) + 1 : back[i] = seq[j + 1 + i - 1]
    BY <1>1, <1>2, <1>4, SubSeqProperties
<1>8. Len(back) = Len(seq) - j /\ \A i \in 1 .. Len(seq) - j : back[i] = seq[j + i]
    BY <1>1, <1>2, <1>7
<1>9. /\ front \o back \in Seq(S)
      /\ Len(front \o back) = Len(front) + Len(back)
      /\ \A i \in 1 .. Len(front) + Len(back) :
             (front \o back)[i] = IF i <= Len(front) THEN front[i] ELSE back[i - Len(front)]
    BY <1>5, <1>7, ConcatProperties
<1>10. RemoveAt(seq, j) = front \o back
    BY DEF RemoveAt
<1> HIDE DEF front, back
<1>11. Len(front \o back) = Len(seq) - 1
    BY <1>1, <1>2, <1>6, <1>8, <1>9
<1>12. ASSUME NEW i \in 1 .. Len(seq) - 1
       PROVE  /\ i < j => (front \o back)[i] = seq[i]
              /\ i >= j => (front \o back)[i] = seq[i + 1]
    <2>1. i < j => i \in 1 .. j - 1
        BY <1>1, <1>2
    <2>2. i >= j => /\ i - (j - 1) \in 1 .. Len(seq) - j
                    /\ j + (i - (j - 1)) = i + 1 /\ ~(i <= j - 1)
        BY <1>1, <1>2
    <2>3. i \in 1 .. Len(front) + Len(back)
        BY <1>1, <1>2, <1>6, <1>8
    <2> QED
        BY <1>2, <1>6, <1>8, <1>9, <2>1, <2>2, <2>3
<1>13. /\ RemoveAt(seq, j) \in Seq(S)
       /\ Len(RemoveAt(seq, j)) = Len(seq) - 1
    BY <1>9, <1>10, <1>11
<1>14. \A i \in 1 .. Len(RemoveAt(seq, j)) :
           /\ i < j => RemoveAt(seq, j)[i] = seq[i]
           /\ i >= j => RemoveAt(seq, j)[i] = seq[i + 1]
    BY <1>10, <1>12, <1>13
<1>15. Len(RemoveAt(seq, j)) \in Nat /\ Len(seq) = Len(RemoveAt(seq, j)) + 1
    BY <1>1, <1>2, <1>13
<1> QED
    BY <1>13, <1>14, <1>15

(* Those behind are in line, once each, and so is everybody in line but t. *)
LEMMA Behind ==
    ASSUME Places, NEW l \in Locks, NEW t \in Threads, NEW behind \in Seq(Threads),
           NEW p \in 1 .. Len(queue[l]), Splits(l, p, t, behind)
    PROVE  /\ Len(behind) \in Nat
           /\ InLine(t, l)
           /\ \A i \in 1 .. Len(behind) :
                  behind[i] \in Threads /\ behind[i] # t /\ InLine(behind[i], l)
           /\ \A i, j \in 1 .. Len(behind) : behind[i] = behind[j] => i = j
           /\ \A u \in Threads :
                  InLine(u, l) => u = t \/ \E i \in 1 .. Len(behind) : behind[i] = u
PROOF
<1>1. /\ Len(behind) \in Nat /\ Len(queue[l]) \in Nat /\ p \in Nat /\ 1 <= p
      /\ Len(queue[l]) = Len(behind) + 1 /\ queue[l][p] = t
    BY LineType, LenProperties DEF Splits
<1>2. \A i, j \in 1 .. Len(queue[l]) : queue[l][i] = queue[l][j] => i = j
    BY DEF Places
<1>3. ASSUME NEW i \in 1 .. Len(behind)
      PROVE  \E j \in 1 .. Len(queue[l]) :
                 behind[i] = queue[l][j] /\ j # p /\ j = IF i < p THEN i ELSE i + 1
    <2>1. CASE i < p
        <3>1. i \in 1 .. Len(queue[l]) /\ i # p /\ behind[i] = queue[l][i]
            BY <1>1, <2>1 DEF Splits
        <3> QED
            BY <2>1, <3>1
    <2>2. CASE ~(i < p)
        <3>1. i + 1 \in 1 .. Len(queue[l]) /\ i + 1 # p /\ i >= p
            BY <1>1, <2>2
        <3>2. behind[i] = queue[l][i + 1]
            BY <3>1 DEF Splits
        <3> QED
            BY <2>2, <3>1, <3>2
    <2> QED
        BY <2>1, <2>2
<1>4. ASSUME NEW i \in 1 .. Len(behind)
      PROVE  behind[i] \in Threads /\ behind[i] # t /\ InLine(behind[i], l)
    <2>1. PICK j \in 1 .. Len(queue[l]) : behind[i] = queue[l][j] /\ j # p
        BY <1>3
    <2>2. behind[i] # t
        BY <1>1, <1>2, <2>1
    <2> QED
        BY <2>1, <2>2, LineType
<1>5. ASSUME NEW i \in 1 .. Len(behind), NEW j \in 1 .. Len(behind), behind[i] = behind[j]
      PROVE  i = j
    <2>1. PICK x \in 1 .. Len(queue[l]) :
              behind[i] = queue[l][x] /\ x = IF i < p THEN i ELSE i + 1
        BY <1>3
    <2>2. PICK y \in 1 .. Len(queue[l]) :
              behind[j] = queue[l][y] /\ y = IF j < p THEN j ELSE j + 1
        BY <1>3
    <2>3. x = y
        BY <1>2, <1>5, <2>1, <2>2
    <2> QED
        BY <1>1, <2>1, <2>2, <2>3
<1>6. ASSUME NEW u \in Threads, InLine(u, l), u # t
      PROVE  \E i \in 1 .. Len(behind) : behind[i] = u
    <2>1. PICK j \in 1 .. Len(queue[l]) : queue[l][j] = u
        BY <1>6 DEF InLine
    <2>2. j # p
        BY <1>1, <1>6, <2>1
    <2>3. CASE j < p
        <3>1. j \in 1 .. Len(behind)
            BY <1>1, <2>3
        <3> QED
            BY <2>1, <2>3, <3>1 DEF Splits
    <2>4. CASE j > p
        <3>1. j - 1 \in 1 .. Len(behind) /\ (j - 1) + 1 = j /\ j - 1 >= p
            BY <1>1, <2>4
        <3>2. behind[j - 1] = queue[l][j]
            BY <3>1 DEF Splits
        <3> QED
            BY <2>1, <3>1, <3>2
    <2> QED
        BY <1>1, <2>2, <2>3, <2>4
<1>7. InLine(t, l)
    BY <1>1 DEF InLine
<1> QED
    BY <1>1, <1>4, <1>5, <1>6, <1>7

(* A line grows at its end.                                                *)
Grown(t, l) ==
    /\ queue' \in [Locks -> Seq(Threads)]
    /\ \A m \in Locks \ {l} : queue'[m] = queue[m]
    /\ Len(queue'[l]) = Len(queue[l]) + 1
    /\ \A i \in 1 .. Len(queue[l]) : queue'[l][i] = queue[l][i]
    /\ queue'[l][Len(queue[l]) + 1] = t
    /\ \A m \in Locks : \A i, j \in 1 .. Len(queue'[m]) :
           queue'[m][i] = queue'[m][j] => i = j
    /\ \A u \in Threads, m \in Locks :
           InLine(u, m)' <=> InLine(u, m) \/ (u = t /\ m = l)

LEMMA Grows ==
    ASSUME Places, NEW t \in Threads, NEW l \in Locks, ~InLine(t, l),
           queue' = [queue EXCEPT ![l] = Append(@, t)]
    PROVE  Grown(t, l)
PROOF
<1>1. queue'[l] = Append(queue[l], t) /\ \A m \in Locks \ {l} : queue'[m] = queue[m]
    BY DEF Places
<1>2. /\ Append(queue[l], t) \in Seq(Threads)
      /\ Len(Append(queue[l], t)) = Len(queue[l]) + 1
      /\ \A i \in 1 .. Len(queue[l]) : Append(queue[l], t)[i] = queue[l][i]
      /\ Append(queue[l], t)[Len(queue[l]) + 1] = t
    BY LineType, AppendProperties
<1>3. queue' \in [Locks -> Seq(Threads)]
    BY <1>2 DEF Places
<1>4. Len(queue[l]) \in Nat
    BY LineType
<1>5. /\ \A i \in 1 .. Len(queue'[l]) : i \in 1 .. Len(queue[l]) \/ i = Len(queue[l]) + 1
      /\ \A i \in 1 .. Len(queue[l]) : i \in 1 .. Len(queue'[l])
      /\ Len(queue[l]) + 1 \in 1 .. Len(queue'[l])
    BY <1>1, <1>2, <1>4
<1>6. \A i, j \in 1 .. Len(queue'[l]) : queue'[l][i] = queue'[l][j] => i = j
    <2>1. \A i \in 1 .. Len(queue[l]) : queue'[l][i] # t
        BY <1>1, <1>2 DEF InLine
    <2> QED
        BY <1>1, <1>2, <1>5, <2>1 DEF Places
<1>7. \A m \in Locks : \A i, j \in 1 .. Len(queue'[m]) :
          queue'[m][i] = queue'[m][j] => i = j
    BY <1>1, <1>6 DEF Places
<1>8. ASSUME NEW u \in Threads
      PROVE  InLine(u, l)' <=> InLine(u, l) \/ u = t
    <2>1. InLine(u, l)' => InLine(u, l) \/ u = t
        BY <1>1, <1>2, <1>5 DEF InLine
    <2>2. InLine(u, l) => InLine(u, l)'
        BY <1>1, <1>2, <1>5 DEF InLine
    <2>3. InLine(t, l)'
        BY <1>1, <1>2, <1>5 DEF InLine
    <2> QED
        BY <2>1, <2>2, <2>3
<1>9. ASSUME NEW u \in Threads, NEW m \in Locks \ {l}
      PROVE  InLine(u, m)' <=> InLine(u, m)
    BY <1>1 DEF InLine
<1> QED
    BY <1>1, <1>2, <1>3, <1>7, <1>8, <1>9 DEF Grown

(* Those behind are the line without its owner.                            *)
LEMMA Rest ==
    ASSUME Places, NEW l \in Locks, NEW t \in Threads, NEW behind \in Seq(Threads),
           NEW p \in 1 .. Len(queue[l]), Splits(l, p, t, behind)
    PROVE  RemoveAt(queue[l], p) = behind
PROOF
<1> DEFINE rest == RemoveAt(queue[l], p)
<1>1. /\ rest \in Seq(Threads)
      /\ Len(queue[l]) = Len(rest) + 1 /\ Len(rest) \in Nat
      /\ \A j \in 1 .. Len(rest) : /\ j < p => rest[j] = queue[l][j]
                                   /\ j >= p => rest[j] = queue[l][j + 1]
    BY LineType, Removed
<1> HIDE DEF rest
<1>2. Len(behind) \in Nat /\ Len(rest) = Len(behind) /\ p \in Nat
    BY <1>1, LenProperties, LineType DEF Splits
<1>3. \A j \in 1 .. Len(rest) : rest[j] = behind[j]
    BY <1>1, <1>2 DEF Splits
<1>4. rest = behind
    BY <1>1, <1>2, <1>3, SeqEqual
<1> QED
    BY <1>4 DEF rest

(* Who leaves leaves those behind it, in their order.                      *)
LEMMA Shrinks ==
    ASSUME Places, NEW l \in Locks, NEW t \in Threads, NEW behind \in Seq(Threads),
           NEW p \in 1 .. Len(queue[l]), Splits(l, p, t, behind), Leave(t, l)
    PROVE  /\ queue' \in [Locks -> Seq(Threads)]
           /\ queue'[l] = behind
           /\ \A m \in Locks \ {l} : queue'[m] = queue[m]
           /\ \A m \in Locks : \A i, j \in 1 .. Len(queue'[m]) :
                  queue'[m][i] = queue'[m][j] => i = j
           /\ \A u \in Threads, m \in Locks :
                  InLine(u, m)' <=> InLine(u, m) /\ ~(u = t /\ m = l)
PROOF
<1>1. PICK i \in 1 .. Len(queue[l]) :
          /\ queue[l][i] = t
          /\ queue' = [queue EXCEPT ![l] =
                          SubSeq(@, 1, i - 1) \o SubSeq(@, i + 1, Len(@))]
    BY LineType DEF Leave
<1>2. i = p
    BY <1>1 DEF Places, Splits
<1>3. queue' = [queue EXCEPT ![l] = RemoveAt(queue[l], p)]
    BY <1>1, <1>2 DEF RemoveAt, Places
<1>4. RemoveAt(queue[l], p) = behind
    BY Rest
<1>5. queue' = [queue EXCEPT ![l] = behind]
    BY <1>3, <1>4
<1>6. /\ queue' \in [Locks -> Seq(Threads)]
      /\ queue'[l] = behind
      /\ \A m \in Locks \ {l} : queue'[m] = queue[m]
    BY <1>5 DEF Places
<1>7. /\ \A j \in 1 .. Len(behind) : behind[j] # t /\ InLine(behind[j], l)
      /\ \A j, k \in 1 .. Len(behind) : behind[j] = behind[k] => j = k
      /\ \A u \in Threads : InLine(u, l) => u = t \/ \E j \in 1 .. Len(behind) : behind[j] = u
    BY Behind
<1>8. \A m \in Locks : \A j, k \in 1 .. Len(queue'[m]) :
           queue'[m][j] = queue'[m][k] => j = k
    <2>1. \A m \in Locks \ {l} : \A j, k \in 1 .. Len(queue'[m]) :
              queue'[m][j] = queue'[m][k] => j = k
        BY <1>6 DEF Places
    <2> QED
        BY <1>6, <1>7, <2>1
<1>9. ASSUME NEW u \in Threads
      PROVE  InLine(u, l)' <=> InLine(u, l) /\ u # t
    <2>1. InLine(u, l)' <=> \E j \in 1 .. Len(behind) : behind[j] = u
        BY <1>6 DEF InLine
    <2>2. ASSUME NEW j \in 1 .. Len(behind), behind[j] = u
          PROVE  InLine(u, l) /\ u # t
        BY <1>7, <2>2
    <2>3. InLine(u, l) => u = t \/ \E j \in 1 .. Len(behind) : behind[j] = u
        BY <1>7
    <2> QED
        BY <2>1, <2>2, <2>3
<1>10. \A u \in Threads, m \in Locks \ {l} : InLine(u, m)' <=> InLine(u, m)
    BY <1>6 DEF InLine
<1> QED
    BY <1>6, <1>8, <1>9, <1>10

(* The line that is left, with the one at j behind the leaver as its owner.*)
LEMMA SplitsBehind ==
    ASSUME NEW l \in Locks, NEW behind \in Seq(Threads), NEW j \in 1 .. Len(behind),
           queue'[l] = behind
    PROVE  /\ Splits(l, j, behind[j], RemoveAt(behind, j))'
           /\ j \in 1 .. Len(queue'[l])
PROOF
    BY Removed DEF Splits

(* A thread is in one line at a time, which its call is on unless it has   *)
(* the lock.                                                               *)
LEMMA OneLine ==
    ASSUME Places
    PROVE  /\ \A t \in Threads, l, m \in Locks : InLine(t, l) /\ InLine(t, m) => l = m
           /\ \A t \in Threads, l \in Locks :
                  InLine(t, l) /\ l \notin held[t] =>
                      pc[t] \in {"link", "spin"} /\ arg[t] = l /\ held[t] = {}
           /\ \A t \in Threads : pc[t] \in {"link", "spin"} => InLine(t, arg[t])
           /\ \A t \in Threads, l \in Locks :
                  l \in held[t] => held[t] = {l} /\ InLine(t, l) /\ pc[t] \in {"idle"} \cup Leaving
PROOF
<1>1. \A t \in Threads, l \in Locks :
          InLine(t, l) /\ l \notin held[t] =>
              pc[t] \in {"link", "spin"} /\ arg[t] = l /\ held[t] = {}
    BY DEF Places, At, Coming
<1>2. \A t \in Threads, l \in Locks :
          l \in held[t] => held[t] = {l} /\ InLine(t, l) /\ pc[t] \in {"idle"} \cup Leaving
    BY DEF Places
<1>3. \A t \in Threads, l, m \in Locks : InLine(t, l) /\ InLine(t, m) => l = m
    BY <1>1, <1>2
<1>4. \A t \in Threads : pc[t] \in {"link", "spin"} => InLine(t, arg[t])
    BY DEF Places, At
<1> QED
    BY <1>1, <1>2, <1>3, <1>4

-----------------------------------------------------------------------------
(* A step of t, which is then at this place of its call on a and holds the *)
(* locks h.                                                                *)
Moves(t, place, a, h) ==
    /\ pc' = [pc EXCEPT ![t] = place]
    /\ arg' = [arg EXCEPT ![t] = a]
    /\ held' = [held EXCEPT ![t] = h]
    /\ place \in {"idle"} \cup Coming \cup Leaving
    /\ a \in Locks \cup {Nil}
    /\ a = Nil <=> place = "idle"
    /\ h = {} \/ \E l \in Locks : h = {l}
    /\ place \in Coming => h = {}
    /\ place \in Leaving => a \in h

(* The lines keep up with that, and t alone moves.                         *)
LinesMove(t, place, a, h) ==
    /\ queue' \in [Locks -> Seq(Threads)]
    /\ \A m \in Locks : \A i, j \in 1 .. Len(queue'[m]) :
           queue'[m][i] = queue'[m][j] => i = j
    /\ \A u \in Threads \ {t}, m \in Locks : InLine(u, m)' <=> InLine(u, m)
    /\ \A m \in Locks : InLine(t, m)' <=> (place \in {"link", "spin"} /\ a = m) \/ m \in h

(* Then who is in line is still who waits or has the lock.                 *)
LEMMA PlacesMove ==
    ASSUME Places, NEW t \in Threads, NEW place, NEW a, NEW h,
           Moves(t, place, a, h), LinesMove(t, place, a, h)
    PROVE  Places'
PROOF
<1>0. /\ queue' \in [Locks -> Seq(Threads)]
      /\ \A m \in Locks : \A i, j \in 1 .. Len(queue'[m]) :
             queue'[m][i] = queue'[m][j] => i = j
      /\ \A u \in Threads \ {t}, m \in Locks : InLine(u, m)' <=> InLine(u, m)
      /\ \A m \in Locks : InLine(t, m)' <=> (place \in {"link", "spin"} /\ a = m) \/ m \in h
    BY DEF LinesMove
<1>1. /\ pc' = [pc EXCEPT ![t] = place]
      /\ arg' = [arg EXCEPT ![t] = a]
      /\ held' = [held EXCEPT ![t] = h]
      /\ place \in {"idle"} \cup Coming \cup Leaving
      /\ a \in Locks \cup {Nil}
      /\ a = Nil <=> place = "idle"
      /\ h = {} \/ \E l \in Locks : h = {l}
      /\ place \in Coming => h = {}
      /\ place \in Leaving => a \in h
    BY DEF Moves
<1>2. /\ pc'[t] = place /\ arg'[t] = a /\ held'[t] = h
      /\ \A u \in Threads \ {t} : pc'[u] = pc[u] /\ arg'[u] = arg[u] /\ held'[u] = held[u]
    BY <1>1 DEF Places
<1>3. /\ pc' \in [Threads -> {"idle"} \cup Coming \cup Leaving]
      /\ arg' \in [Threads -> Locks \cup {Nil}]
    BY <1>1 DEF Places
<1>4. held' \in [Threads -> SUBSET Locks]
    <2>1. h \in SUBSET Locks
        BY <1>1
    <2> QED
        BY <1>1, <2>1 DEF Places
<1>5. ASSUME NEW u \in Threads
      PROVE  /\ arg'[u] = Nil <=> pc'[u] = "idle"
             /\ held'[u] = {} \/ \E l \in Locks : held'[u] = {l}
             /\ pc'[u] \in Coming => held'[u] = {}
             /\ pc'[u] \in Leaving => arg'[u] \in held'[u]
    <2>1. CASE u = t
        BY <1>1, <1>2, <2>1
    <2>2. CASE u # t
        <3>1. /\ arg[u] = Nil <=> pc[u] = "idle"
              /\ held[u] = {} \/ \E l \in Locks : held[u] = {l}
              /\ pc[u] \in Coming => held[u] = {}
              /\ pc[u] \in Leaving => arg[u] \in held[u]
            BY DEF Places
        <3> QED
            BY <1>2, <2>2, <3>1
    <2> QED
        BY <2>1, <2>2
<1>6. ASSUME NEW u \in Threads, NEW m \in Locks
      PROVE  InLine(u, m)' <=>
                 \/ pc'[u] = "link" /\ arg'[u] = m
                 \/ pc'[u] = "spin" /\ arg'[u] = m
                 \/ m \in held'[u]
    <2>1. CASE u = t
        BY <1>0, <1>2, <2>1
    <2>2. CASE u # t
        BY <1>0, <1>2, <2>2 DEF Places, At
    <2> QED
        BY <2>1, <2>2
<1> QED
    BY <1>0, <1>3, <1>4, <1>5, <1>6 DEF Places, At

(* A step that leaves the lines alone.                                     *)
LEMMA LinesStay ==
    ASSUME Places, queue' = queue
    PROVE  /\ queue' \in [Locks -> Seq(Threads)]
           /\ \A m \in Locks : \A i, j \in 1 .. Len(queue'[m]) :
                  queue'[m][i] = queue'[m][j] => i = j
           /\ \A u \in Threads, m \in Locks : InLine(u, m)' <=> InLine(u, m)
PROOF
<1>1. \A u \in Threads, m \in Locks : InLine(u, m)' <=> InLine(u, m)
    BY DEF InLine
<1>2. \A m \in Locks : \A i, j \in 1 .. Len(queue'[m]) :
          queue'[m][i] = queue'[m][j] => i = j
    BY DEF Places
<1> QED
    BY <1>1, <1>2 DEF Places

(* A step that x does not see.                                             *)
Same(x) ==
    /\ next'[x] = next[x] /\ spin'[x] = spin[x] /\ socket'[x] = socket[x]
    /\ secTail'[x] = secTail[x] /\ succ'[x] = succ[x]
    /\ pc'[x] = pc[x] /\ arg'[x] = arg[x] /\ held'[x] = held[x]

(* If nobody in line sees a step, the line's queues stay as they are.      *)
LEMMA LineStays ==
    ASSUME Places, NEW m \in Locks, Line(m), queue'[m] = queue[m], tail'[m] = tail[m],
           \A x \in Threads : InLine(x, m) => Same(x)
    PROVE  Line(m)'
PROOF
<1> SUFFICES ASSUME Len(queue'[m]) > 0
             PROVE  \E t \in Threads, behind \in Seq(Threads) :
                        \E p \in 1 .. Len(queue'[m]), k \in 0 .. Len(behind) :
                            /\ Splits(m, p, t, behind)'
                            /\ Queues(m, t, behind, k)'
                            /\ p <= k + 1 \/ pc'[t] = "wakeSecondary"
    BY DEF Line
<1>1. PICK t \in Threads, behind \in Seq(Threads) :
          \E p \in 1 .. Len(queue[m]), k \in 0 .. Len(behind) :
              /\ Splits(m, p, t, behind)
              /\ Queues(m, t, behind, k)
              /\ p <= k + 1 \/ pc[t] = "wakeSecondary"
    BY DEF Line
<1>2. PICK p \in 1 .. Len(queue[m]), k \in 0 .. Len(behind) :
          /\ Splits(m, p, t, behind)
          /\ Queues(m, t, behind, k)
          /\ p <= k + 1 \/ pc[t] = "wakeSecondary"
    BY <1>1
<1>3. /\ Len(behind) \in Nat /\ Same(t)
      /\ \A i \in 1 .. Len(behind) : behind[i] \in Threads /\ Same(behind[i])
    BY <1>2, Behind
<1>4. Splits(m, p, t, behind)'
    BY <1>2 DEF Splits
<1>5. \A i \in 1 .. Len(behind) : spin'[behind[i]] = 0 /\ m \notin held'[behind[i]]
    BY <1>2, <1>3 DEF Queues, Same
<1>6. SecondaryIs(t, behind, k)'
    BY <1>2, <1>3 DEF Queues, Same, SecondaryIs
<1>7. \A i \in 1 .. Len(behind) :
          i < Len(behind) /\ i # k => Linked(behind[i], behind[i + 1], m)'
    BY <1>2, <1>3 DEF Queues, Same, Linked, At
<1>8. MainIs(m, t, behind, k)'
    BY <1>2, <1>3 DEF Queues, Same, MainIs, Linked, At
<1>9. Found(t, behind, k)'
    BY <1>2, <1>3 DEF Queues, Same, Found
<1>10. PassedOver(t, behind, k)'
    <2>1. pc[t] = "passLocal" => k + 1 \in 1 .. Len(behind) /\ succ[t] = behind[k + 1]
        BY <1>2, <1>3 DEF Queues, Found, MainIs
    <2>2. pc[t] = "passLocal" => Same(succ[t])
        BY <1>3, <2>1
    <2>3. pc[t] = "wakeSecondary" => 1 \in 1 .. Len(behind)
        BY <1>2, <1>3 DEF Queues, Found
    <2>4. SortedBy(t)' = SortedBy(t)
        BY <1>3, <2>2 DEF Same, SortedBy
    <2>5. PassedOver(t, behind, k)
        BY <1>2 DEF Queues
    <2>6. /\ pc'[t] = pc[t] /\ succ'[t] = succ[t]
          /\ \A i \in 1 .. Len(behind) :
                 pc'[behind[i]] = pc[behind[i]] /\ socket'[behind[i]] = socket[behind[i]]
        BY <1>3 DEF Same
    <2>7. pc[t] = "passLocal" => pc'[succ[t]] = pc[succ[t]]
        BY <2>2 DEF Same
    <2> QED
        BY <2>3, <2>4, <2>5, <2>6, <2>7 DEF PassedOver
<1>11. spin'[t] # 0
    BY <1>2, <1>3 DEF Queues, Same
<1>12. Queues(m, t, behind, k)'
    BY <1>5, <1>6, <1>7, <1>8, <1>9, <1>10, <1>11 DEF Queues
<1> QED
    BY <1>2, <1>3, <1>4, <1>12 DEF Same

(* A step on one line is seen in no other.                                 *)
LEMMA Elsewhere ==
    ASSUME Places, Order, NEW t \in Threads, NEW l \in Locks,
           \A m \in Locks \ {l} : queue'[m] = queue[m] /\ tail'[m] = tail[m] /\ ~InLine(t, m),
           \A x \in Threads : ~InLine(x, l) /\ x # t => Same(x)
    PROVE  \A m \in Locks \ {l} : Line(m)'
PROOF
<1> SUFFICES ASSUME NEW m \in Locks \ {l}
             PROVE  Line(m)'
    OBVIOUS
<1>1. \A x \in Threads : InLine(x, m) => Same(x)
    BY OneLine
<1>2. Line(m)
    BY DEF Order
<1> QED
    BY <1>1, <1>2, LineStays

-----------------------------------------------------------------------------
(* A step of t on a line that it is in, if in any, changes no other.       *)
OnlyOn(t, l) ==
    /\ \A m \in Locks \ {l} : queue'[m] = queue[m] /\ tail'[m] = tail[m] /\ ~InLine(t, m)
    /\ \A x \in Threads : ~InLine(x, l) /\ x # t => Same(x)
    /\ pc'[t] # "exchange"
    /\ \A x \in Threads \ {t} : pc'[x] = pc[x]
    /\ Len(queue'[l]) = 0 => tail'[l] = Nil

LEMMA LineOnly ==
    ASSUME CNAInv, NEW t \in Threads, NEW l \in Locks, OnlyOn(t, l),
           Places', NodesTyped', Line(l)'
    PROVE  CNAInv'
PROOF
<1>0. Places /\ Fields /\ Order
    BY DEF CNAInv
<1>1. /\ \A m \in Locks \ {l} : queue'[m] = queue[m] /\ tail'[m] = tail[m] /\ ~InLine(t, m)
      /\ \A x \in Threads : ~InLine(x, l) /\ x # t => Same(x)
      /\ pc'[t] # "exchange"
      /\ \A x \in Threads \ {t} : pc'[x] = pc[x]
      /\ Len(queue'[l]) = 0 => tail'[l] = Nil
    BY DEF OnlyOn
<1>2. \A m \in Locks \ {l} : Line(m)'
    BY <1>0, <1>1, Elsewhere
<1>3. \A x \in Threads : pc'[x] = "exchange" => next'[x] = Nil /\ spin'[x] = 0
    <2> SUFFICES ASSUME NEW x \in Threads, pc'[x] = "exchange"
                 PROVE  next'[x] = Nil /\ spin'[x] = 0
        OBVIOUS
    <2>1. x # t /\ pc[x] = "exchange"
        BY <1>1
    <2>2. ~InLine(x, l)
        BY <1>0, <2>1, OneLine DEF Leaving
    <2>3. Same(x)
        BY <1>1, <2>1, <2>2
    <2> QED
        BY <1>0, <2>1, <2>3 DEF Fields, Same
<1>4. \A m \in Locks : Len(queue'[m]) = 0 => tail'[m] = Nil
    BY <1>0, <1>1 DEF Fields
<1>5. Fields'
    BY <1>3, <1>4 DEF Fields
<1> QED
    BY <1>2, <1>5 DEF CNAInv, Order

-----------------------------------------------------------------------------
(* Who may acquire a lock has none.                                        *)
LEMMA HoldsNone ==
    ASSUME OneAtATime, NEW t \in Threads, NEW l \in Locks, MayAcquire(t, l),
           held[t] = {} \/ \E m \in Locks : held[t] = {m}
    PROVE  held[t] = {}
PROOF
<1> SUFFICES ASSUME NEW m \in Locks, held[t] = {m} PROVE FALSE
    OBVIOUS
<1>1. Cardinality(held[t]) = 1
    BY FS_Singleton
<1> QED
    BY <1>1 DEF MayAcquire, OneAtATime

(* No thread is in line to begin with.                                     *)
LEMMA CNAInitially ==
    ASSUME Init
    PROVE  CNAInv
PROOF
<1>1. \A l \in Locks : queue[l] = << >> /\ Len(queue[l]) = 0
    BY DEF Init, CallerInit
<1>2. \A t \in Threads, l \in Locks : ~InLine(t, l)
    BY <1>1 DEF InLine
<1>3. \A t \in Threads : pc[t] = "idle" /\ arg[t] = Nil /\ held[t] = {}
    BY DEF Init, CallerInit
<1>4. Places
    <2>1. /\ pc \in [Threads -> {"idle"} \cup Coming \cup Leaving]
          /\ arg \in [Threads -> Locks \cup {Nil}]
          /\ held \in [Threads -> SUBSET Locks]
        BY DEF Init, CallerInit
    <2>2. queue \in [Locks -> Seq(Threads)]
        BY EmptySeq DEF Init, CallerInit
    <2>3. "idle" \notin Coming /\ "idle" \notin Leaving
        BY DEF Coming, Leaving
    <2>4. \A l \in Locks : \A i, j \in 1 .. Len(queue[l]) : queue[l][i] = queue[l][j] => i = j
        BY <1>1
    <2> QED
        BY <1>2, <1>3, <2>1, <2>2, <2>3, <2>4 DEF Places, At
<1>5. Fields
    BY <1>3 DEF Init, CNAInit, Fields, NodesTyped
<1>6. Order
    BY <1>1 DEF Order, Line
<1> QED
    BY <1>4, <1>5, <1>6 DEF CNAInv

(* Who has the lock, or has been passed it, has the queues.                *)
LEMMA OwnerOf ==
    ASSUME CNAInv, NEW t \in Threads, NEW l \in Locks, InLine(t, l),
           l \in held[t] \/ spin[t] # 0
    PROVE  \E behind \in Seq(Threads) : \E p \in 1 .. Len(queue[l]), k \in 0 .. Len(behind) :
               /\ Splits(l, p, t, behind)
               /\ Queues(l, t, behind, k)
               /\ p <= k + 1 \/ pc[t] = "wakeSecondary"
PROOF
<1>1. Places /\ Line(l)
    BY DEF CNAInv, Order
<1>2. Len(queue[l]) > 0
    BY <1>1, LineType DEF InLine
<1>3. PICK o \in Threads, behind \in Seq(Threads) :
          \E p \in 1 .. Len(queue[l]), k \in 0 .. Len(behind) :
              /\ Splits(l, p, o, behind)
              /\ Queues(l, o, behind, k)
              /\ p <= k + 1 \/ pc[o] = "wakeSecondary"
    BY <1>1, <1>2 DEF Line
<1>4. PICK p \in 1 .. Len(queue[l]), k \in 0 .. Len(behind) :
          /\ Splits(l, p, o, behind)
          /\ Queues(l, o, behind, k)
          /\ p <= k + 1 \/ pc[o] = "wakeSecondary"
    BY <1>3
<1>5. t = o \/ \E i \in 1 .. Len(behind) : behind[i] = t
    BY <1>1, <1>4, Behind
<1>6. \A i \in 1 .. Len(behind) : spin[behind[i]] = 0 /\ l \notin held[behind[i]]
    BY <1>4 DEF Queues
<1>7. t = o
    BY <1>5, <1>6
<1> QED
    BY <1>4, <1>7

(* The steps of Release that only look, and go on.                         *)
Quiet == {"close", "requeue", "await", "decide", "find", "pass"}

LEMMA GoesOn ==
    ASSUME CNAInv, NEW t \in Threads, NEW l \in Locks, NEW place \in Quiet,
           l \in held[t], pc[t] \in {"idle"} \cup Quiet,
           pc' = [pc EXCEPT ![t] = place], arg' = [arg EXCEPT ![t] = l], Stay,
           UNCHANGED cnaVars,
           place = "close" => spin[t] = 1,
           place = "requeue" => spin[t] # 1,
           place = "await" => tail[l] # t,
           place \in {"decide", "find", "pass"} => next[t] # Nil
    PROVE  CNAInv'
PROOF
<1>0. Places /\ Fields /\ Order
    BY DEF CNAInv
<1>1. /\ held' = held /\ queue' = queue
      /\ tail' = tail /\ next' = next /\ spin' = spin /\ socket' = socket
      /\ secTail' = secTail /\ succ' = succ
    BY DEF Stay, cnaVars
<1>2. held[t] = {l} /\ InLine(t, l)
    BY <1>0, OneLine
<1>3. Places'
    <2>1. Moves(t, place, l, {l})
        <3>1. held' = [held EXCEPT ![t] = {l}]
            BY <1>0, <1>1, <1>2 DEF Places
        <3>2. place \in Leaving /\ place \notin Coming /\ place # "idle" /\ l # Nil
            BY CallerAssumption DEF Quiet, Coming, Leaving
        <3> QED
            BY <3>1, <3>2 DEF Moves
    <2>2. place \notin {"link", "spin"}
        BY DEF Quiet
    <2>3. LinesMove(t, place, l, {l})
        BY <1>0, <1>1, <1>2, <2>2, LinesStay, OneLine DEF LinesMove
    <2> QED
        BY <1>0, <2>1, <2>3, PlacesMove
<1>4. pc'[t] = place /\ \A u \in Threads \ {t} : pc'[u] = pc[u] /\ arg'[u] = arg[u]
    BY <1>0 DEF Places
<1>5. Fields'
    BY <1>0, <1>1, <1>4 DEF Fields, NodesTyped, Quiet
<1>6. \A m \in Locks \ {l} : Line(m)'
    <2>1. \A m \in Locks \ {l} : queue'[m] = queue[m] /\ tail'[m] = tail[m] /\ ~InLine(t, m)
        BY <1>0, <1>1, <1>2, OneLine
    <2>2. \A x \in Threads : ~InLine(x, l) /\ x # t => Same(x)
        BY <1>1, <1>4 DEF Same
    <2> QED
        BY <1>0, <2>1, <2>2, Elsewhere
<1>7. PICK behind \in Seq(Threads) : \E p \in 1 .. Len(queue[l]), k \in 0 .. Len(behind) :
          /\ Splits(l, p, t, behind)
          /\ Queues(l, t, behind, k)
          /\ p <= k + 1 \/ pc[t] = "wakeSecondary"
    BY <1>2, OwnerOf
<1>8. PICK p \in 1 .. Len(queue[l]), k \in 0 .. Len(behind) :
          /\ Splits(l, p, t, behind)
          /\ Queues(l, t, behind, k)
          /\ p <= k + 1 \/ pc[t] = "wakeSecondary"
    BY <1>7
<1>9. /\ Len(behind) \in Nat /\ k \in Nat
      /\ \A i \in 1 .. Len(behind) : behind[i] \in Threads /\ behind[i] # t
    BY <1>0, <1>8, Behind
<1>10. Line(l)'
    <2>1. Splits(l, p, t, behind)'
        BY <1>1, <1>8 DEF Splits
    <2>2. /\ pc[t] \notin {"wakeSecondary", "passLocal"}
          /\ place \notin {"wakeSecondary", "passLocal", "link"}
        BY DEF Quiet
    <2>3. \A i \in 1 .. Len(behind) :
              pc'[behind[i]] = pc[behind[i]] /\ arg'[behind[i]] = arg[behind[i]]
        BY <1>4, <1>9
    <2>4. SecondaryIs(t, behind, k)'
        BY <1>1, <1>4, <1>8, <2>2 DEF Queues, SecondaryIs
    <2>5. MainIs(l, t, behind, k)'
        BY <1>1, <1>4, <1>8, <1>9, <2>2, <2>3 DEF Queues, MainIs, Linked, At
    <2>6. \A i \in 1 .. Len(behind) :
              i < Len(behind) /\ i # k => Linked(behind[i], behind[i + 1], l)'
        BY <1>1, <1>8, <1>9, <2>3 DEF Queues, Linked, At
    <2>7. Found(t, behind, k)'
        <3>1. k = 0 <=> spin[t] = 1
            <4>1. k > 0 => spin[t] \in Threads
                BY <1>8, <1>9 DEF Queues, SecondaryIs
            <4>2. k = 0 => spin[t] = 1
                BY <1>8, <2>2 DEF Queues, SecondaryIs
            <4> QED
                BY <1>9, <4>1, <4>2, CNAAssumption
        <3>2. k = Len(behind) => tail[l] = t /\ next[t] = Nil
            BY <1>8 DEF Queues, MainIs
        <3>3. k <= Len(behind)
            BY <1>9
        <3> QED
            BY <1>1, <1>4, <1>9, <2>2, <3>1, <3>2, <3>3 DEF Found
    <2>8. PassedOver(t, behind, k)'
        BY <1>1, <1>4, <1>8, <2>2, <2>3 DEF Queues, PassedOver, SortedBy
    <2>9. Queues(l, t, behind, k)'
        BY <1>1, <1>8, <2>4, <2>5, <2>6, <2>7, <2>8 DEF Queues
    <2> QED
        BY <1>1, <1>8, <2>1, <2>2, <2>9 DEF Line
<1> QED
    BY <1>3, <1>5, <1>6, <1>10 DEF CNAInv, Order

(* The steps of Release that find out where it goes on.                    *)
LEMMA Looks ==
    ASSUME CNAInv, NEW t \in Threads, NEW l \in Locks,
           \/ StartRelease(t, l)
           \/ Close(t, l) /\ tail[l] # t
           \/ Requeue(t, l) /\ tail[l] # t
           \/ AwaitSuccessor(t, l)
           \/ KeepLocal(t, l)
           \/ GoGlobal(t, l)
    PROVE  CNAInv'
PROOF
<1>0. Places
    BY DEF CNAInv
<1>1. ASSUME NEW from \in Leaving, At(t, l, from)
      PROVE  l \in held[t] /\ [arg EXCEPT ![t] = l] = arg /\ pc[t] = from
    BY <1>0, <1>1 DEF Places, At
<1>2. CASE StartRelease(t, l)
    <2> DEFINE place == IF next[t] # Nil THEN "decide"
                        ELSE IF SecondaryEmpty(t) THEN "close" ELSE "requeue"
    <2>1. /\ pc[t] = "idle" /\ l \in held[t] /\ pc' = [pc EXCEPT ![t] = place]
          /\ arg' = [arg EXCEPT ![t] = l] /\ Stay /\ UNCHANGED cnaVars
        BY <1>2 DEF StartRelease, BeginRelease
    <2>2. /\ place \in Quiet
          /\ place = "close" => spin[t] = 1
          /\ place = "requeue" => spin[t] # 1
          /\ place # "await"
          /\ place \in {"decide", "find", "pass"} => next[t] # Nil
        BY DEF Quiet, SecondaryEmpty
    <2> HIDE DEF place
    <2> QED
        BY <2>1, <2>2, GoesOn
<1>3. CASE Close(t, l) /\ tail[l] # t
    <2>1. /\ At(t, l, "close") /\ pc' = [pc EXCEPT ![t] = "await"] /\ arg' = arg
          /\ Stay /\ UNCHANGED cnaVars
        BY <1>3 DEF Close, Goto, cnaVars
    <2>2. "close" \in Leaving /\ "close" \in Quiet /\ "await" \in Quiet
        BY DEF Leaving, Quiet
    <2> QED
        BY <1>1, <1>3, <2>1, <2>2, GoesOn
<1>4. CASE Requeue(t, l) /\ tail[l] # t
    <2>1. /\ At(t, l, "requeue") /\ pc' = [pc EXCEPT ![t] = "await"] /\ arg' = arg
          /\ Stay /\ UNCHANGED cnaVars
        BY <1>4 DEF Requeue, Goto, cnaVars
    <2>2. "requeue" \in Leaving /\ "requeue" \in Quiet /\ "await" \in Quiet
        BY DEF Leaving, Quiet
    <2> QED
        BY <1>1, <1>4, <2>1, <2>2, GoesOn
<1>5. CASE AwaitSuccessor(t, l)
    <2>1. /\ At(t, l, "await") /\ pc' = [pc EXCEPT ![t] = "decide"] /\ arg' = arg
          /\ next[t] # Nil /\ Stay /\ UNCHANGED cnaVars
        BY <1>5 DEF AwaitSuccessor, Goto
    <2>2. "await" \in Leaving /\ "await" \in Quiet /\ "decide" \in Quiet
        BY DEF Leaving, Quiet
    <2> QED
        BY <1>1, <2>1, <2>2, GoesOn
<1>6. ASSUME NEW place \in {"find", "pass"}, At(t, l, "decide"),
             Goto(t, place), Stay, UNCHANGED cnaVars
      PROVE  CNAInv'
    <2>1. pc' = [pc EXCEPT ![t] = place] /\ arg' = arg
        BY <1>6 DEF Goto
    <2>2. "decide" \in Leaving /\ "decide" \in Quiet /\ place \in Quiet
        BY DEF Leaving, Quiet
    <2>3. l \in held[t] /\ [arg EXCEPT ![t] = l] = arg /\ pc[t] = "decide"
        BY <1>1, <1>6, <2>2
    <2>4. InLine(t, l)
        BY <1>0, <2>3, OneLine
    <2>5. next[t] # Nil
        BY <2>3, <2>4, OwnerOf DEF Queues, Found
    <2> QED
        BY <1>6, <2>1, <2>2, <2>3, <2>5, GoesOn
<1>7. CASE KeepLocal(t, l)
    BY <1>6, <1>7 DEF KeepLocal
<1>8. CASE GoGlobal(t, l)
    BY <1>6, <1>8 DEF GoGlobal
<1> QED
    BY <1>2, <1>3, <1>4, <1>5, <1>7, <1>8

-----------------------------------------------------------------------------
(* A thread that begins to acquire a lock is in no line.                   *)
LEMMA Begins ==
    ASSUME OneAtATime, CNAInv, NEW t \in Threads, NEW l \in Locks, StartAcquire(t, l)
    PROVE  CNAInv'
PROOF
<1>0. Places /\ Fields /\ Order
    BY DEF CNAInv
<1>1. /\ pc[t] = "idle" /\ MayAcquire(t, l)
      /\ pc' = [pc EXCEPT ![t] = "exchange"] /\ arg' = [arg EXCEPT ![t] = l]
      /\ held' = held /\ queue' = queue
      /\ next' = [next EXCEPT ![t] = Nil]
      /\ socket' = [socket EXCEPT ![t] = NoSocket]
      /\ spin' = [spin EXCEPT ![t] = 0]
      /\ tail' = tail /\ secTail' = secTail /\ succ' = succ
    BY DEF StartAcquire, BeginAcquire, Stay
<1>2. held[t] = {}
    BY <1>0, <1>1, HoldsNone DEF Places
<1>3. \A m \in Locks : ~InLine(t, m)
    BY <1>0, <1>1, <1>2, OneLine
<1>4. Places'
    <2>1. Moves(t, "exchange", l, {})
        <3>1. held' = [held EXCEPT ![t] = {}]
            BY <1>0, <1>1, <1>2 DEF Places
        <3> QED
            BY <1>1, <3>1, CallerAssumption DEF Moves, Coming, Leaving
    <2>2. LinesMove(t, "exchange", l, {})
        BY <1>0, <1>1, <1>3, LinesStay DEF LinesMove
    <2> QED
        BY <1>0, <2>1, <2>2, PlacesMove
<1>5. /\ next'[t] = Nil /\ spin'[t] = 0
      /\ \A u \in Threads \ {t} : /\ next'[u] = next[u] /\ spin'[u] = spin[u]
                                  /\ socket'[u] = socket[u]
                                  /\ pc'[u] = pc[u] /\ arg'[u] = arg[u]
    BY <1>0, <1>1 DEF Fields, NodesTyped, Places
<1>6. Fields'
    <2>1. /\ next' \in [Threads -> Threads \cup {Nil}]
          /\ spin' \in [Threads -> {0, 1} \cup Threads]
          /\ socket' \in [Threads -> Sockets \cup {NoSocket}]
        BY <1>0, <1>1 DEF Fields, NodesTyped
    <2>2. \A u \in Threads : pc'[u] = "exchange" => next'[u] = Nil /\ spin'[u] = 0
        BY <1>0, <1>5 DEF Fields, NodesTyped
    <2> QED
        BY <1>0, <1>1, <2>1, <2>2 DEF Fields, NodesTyped
<1>7. ASSUME NEW m \in Locks
      PROVE  Line(m)'
    <2>1. \A x \in Threads : InLine(x, m) => Same(x)
        BY <1>1, <1>3, <1>5 DEF Same
    <2>2. Line(m) /\ queue'[m] = queue[m] /\ tail'[m] = tail[m]
        BY <1>0, <1>1 DEF Order
    <2> QED
        BY <1>0, <2>1, <2>2, LineStays
<1> QED
    BY <1>4, <1>6, <1>7 DEF CNAInv, Order

(* The tail of a line that is not empty is a node in it.                   *)
LEMMA TailIsLast ==
    ASSUME CNAInv, NEW l \in Locks, tail[l] = Nil
    PROVE  Len(queue[l]) = 0
PROOF
<1>1. Places /\ Line(l)
    BY DEF CNAInv, Order
<1> SUFFICES ASSUME Len(queue[l]) > 0 PROVE FALSE
    BY <1>1, LineType
<1>2. PICK o \in Threads, behind \in Seq(Threads) :
          \E p \in 1 .. Len(queue[l]), k \in 0 .. Len(behind) :
              Splits(l, p, o, behind) /\ Queues(l, o, behind, k)
    BY <1>1 DEF Line
<1>3. PICK p \in 1 .. Len(queue[l]), k \in 0 .. Len(behind) :
          Splits(l, p, o, behind) /\ Queues(l, o, behind, k)
    BY <1>2
<1>4. Len(behind) \in Nat /\ \A i \in 1 .. Len(behind) : behind[i] \in Threads
    BY <1>1, <1>3, Behind
<1>5. CASE k = Len(behind)
    BY <1>3, <1>5, CallerAssumption DEF Queues, MainIs
<1>6. CASE k # Len(behind)
    <2>1. Len(behind) \in 1 .. Len(behind)
        BY <1>4, <1>6
    <2> QED
        BY <1>3, <1>4, <1>6, <2>1, CallerAssumption DEF Queues, MainIs
<1> QED
    BY <1>5, <1>6

(* The doorway of a free lock leads straight in.                           *)
LEMMA TakesFree ==
    ASSUME CNAInv, NEW t \in Threads, NEW l \in Locks, Exchange(t, l), tail[l] = Nil
    PROVE  CNAInv'
PROOF
<1>0. Places /\ Fields /\ Order
    BY DEF CNAInv
<1>1. /\ pc[t] = "exchange" /\ arg[t] = l
      /\ tail' = [tail EXCEPT ![l] = t]
      /\ spin' = [spin EXCEPT ![t] = 1]
      /\ queue' = [queue EXCEPT ![l] = Append(@, t)]
      /\ held' = [held EXCEPT ![t] = @ \cup {l}]
      /\ pc' = [pc EXCEPT ![t] = "idle"]
      /\ arg' = [arg EXCEPT ![t] = Nil]
      /\ next' = next /\ socket' = socket /\ secTail' = secTail /\ succ' = succ
    BY DEF Exchange, At, Take, Return
<1>2. /\ \A m \in Locks : ~InLine(t, m)
      /\ held[t] = {}
    BY <1>0, <1>1, OneLine DEF Places, Coming, Leaving
<1>3. Len(queue[l]) = 0
    BY <1>1, TailIsLast
<1>4. Grown(t, l)
    BY <1>0, <1>1, <1>2, Grows
<1>5. Len(queue'[l]) = 1 /\ queue'[l][1] = t
    BY <1>3, <1>4 DEF Grown
<1>6. Places'
    <2>1. held' = [held EXCEPT ![t] = {l}]
        BY <1>0, <1>1, <1>2 DEF Places
    <2>2. Moves(t, "idle", Nil, {l})
        BY <1>1, <2>1 DEF Moves, Coming, Leaving
    <2>3. LinesMove(t, "idle", Nil, {l})
        BY <1>2, <1>4 DEF LinesMove, Grown
    <2> QED
        BY <1>0, <2>2, <2>3, PlacesMove
<1>7. /\ tail'[l] = t /\ spin'[t] = 1 /\ next'[t] = Nil /\ pc'[t] = "idle"
      /\ \A m \in Locks \ {l} : tail'[m] = tail[m]
      /\ \A x \in Threads \ {t} : Same(x) /\ pc'[x] = pc[x]
    BY <1>0, <1>1 DEF Fields, NodesTyped, Places, Same
<1>8. NodesTyped'
    BY <1>0, <1>1 DEF Fields, NodesTyped
<1>9. Line(l)'
    <2>1. << >> \in Seq(Threads) /\ Len(<< >>) = 0
        BY EmptySeq
    <2>2. Splits(l, 1, t, << >>)'
        BY <1>5, <2>1 DEF Splits
    <2>3. SecondaryIs(t, << >>, 0)' /\ MainIs(l, t, << >>, 0)'
        BY <1>7, <2>1 DEF SecondaryIs, MainIs
    <2>4. Found(t, << >>, 0)' /\ PassedOver(t, << >>, 0)'
        BY <1>7, <2>1 DEF Found, PassedOver
    <2>5. Queues(l, t, << >>, 0)'
        BY <1>7, <2>1, <2>3, <2>4 DEF Queues
    <2> QED
        <3>1. /\ 1 \in 1 .. Len(queue'[l]) /\ 0 \in 0 .. Len(<< >>)
              /\ 1 <= 0 + 1
            BY <1>5, <2>1
        <3> QED
            BY <2>1, <2>2, <2>5, <3>1 DEF Line
<1>10. OnlyOn(t, l)
    BY <1>2, <1>4, <1>7, <1>5 DEF OnlyOn, Grown
<1> QED
    BY <1>6, <1>8, <1>9, <1>10, LineOnly

(* Else the thread is the last of the main queue, and not linked yet.      *)
LEMMA Arrives ==
    ASSUME CNAInv, NEW t \in Threads, NEW l \in Locks, Exchange(t, l), tail[l] # Nil
    PROVE  CNAInv'
PROOF
<1>0. Places /\ Fields /\ Order
    BY DEF CNAInv
<1>1. /\ pc[t] = "exchange" /\ arg[t] = l
      /\ tail' = [tail EXCEPT ![l] = t]
      /\ succ' = [succ EXCEPT ![t] = tail[l]]
      /\ queue' = [queue EXCEPT ![l] = Append(@, t)]
      /\ pc' = [pc EXCEPT ![t] = "link"]
      /\ arg' = arg /\ held' = held
      /\ next' = next /\ spin' = spin /\ socket' = socket /\ secTail' = secTail
    BY DEF Exchange, At, Arrive, Goto
<1>2. /\ \A m \in Locks : ~InLine(t, m)
      /\ held[t] = {}
    BY <1>0, <1>1, OneLine DEF Places, Coming, Leaving
<1>3. Len(queue[l]) > 0
    BY <1>0, LineType DEF Fields
<1>4. Grown(t, l)
    BY <1>0, <1>1, <1>2, Grows
<1>5. Places'
    <2>1. held' = [held EXCEPT ![t] = {}] /\ arg' = [arg EXCEPT ![t] = l]
        BY <1>0, <1>1, <1>2 DEF Places
    <2>2. Moves(t, "link", l, {})
        BY <1>1, <2>1, CallerAssumption DEF Moves, Coming, Leaving
    <2>3. LinesMove(t, "link", l, {})
        BY <1>2, <1>4 DEF LinesMove, Grown
    <2> QED
        BY <1>0, <2>2, <2>3, PlacesMove
<1>6. /\ tail'[l] = t /\ succ'[t] = tail[l] /\ pc'[t] = "link" /\ arg'[t] = l
      /\ spin'[t] = 0 /\ next'[t] = Nil
      /\ \A m \in Locks \ {l} : tail'[m] = tail[m]
      /\ \A x \in Threads \ {t} : Same(x) /\ pc'[x] = pc[x]
    BY <1>0, <1>1 DEF Fields, NodesTyped, Places, Same
<1>7. NodesTyped'
    BY <1>0, <1>1 DEF Fields, NodesTyped
<1>8. PICK o \in Threads, behind \in Seq(Threads) :
          \E p \in 1 .. Len(queue[l]), k \in 0 .. Len(behind) :
              /\ Splits(l, p, o, behind)
              /\ Queues(l, o, behind, k)
              /\ p <= k + 1 \/ pc[o] = "wakeSecondary"
    BY <1>0, <1>3 DEF Order, Line
<1>9. PICK p \in 1 .. Len(queue[l]), k \in 0 .. Len(behind) :
          /\ Splits(l, p, o, behind)
          /\ Queues(l, o, behind, k)
          /\ p <= k + 1 \/ pc[o] = "wakeSecondary"
    BY <1>8
<1> DEFINE n == Len(behind)
<1>10. /\ n \in Nat /\ k \in 0 .. n /\ InLine(o, l)
       /\ \A i \in 1 .. n : behind[i] \in Threads /\ behind[i] # o /\ InLine(behind[i], l)
    BY <1>0, <1>9, Behind
<1>11. /\ o # t /\ Same(o)
       /\ \A i \in 1 .. n : behind[i] # t /\ Same(behind[i])
    BY <1>2, <1>6, <1>10
<1>12. PICK longer \in Seq(Threads) :
           /\ Len(longer) = n + 1
           /\ \A i \in 1 .. n : longer[i] = behind[i]
           /\ longer[n + 1] = t
    BY AppendProperties
<1>13. /\ spin[o] # 0
       /\ \A i \in 1 .. n : spin[behind[i]] = 0 /\ l \notin held[behind[i]]
       /\ SecondaryIs(o, behind, k)
       /\ MainIs(l, o, behind, k)
       /\ \A i \in 1 .. n : i < n /\ i # k => Linked(behind[i], behind[i + 1], l)
       /\ Found(o, behind, k)
       /\ PassedOver(o, behind, k)
    BY <1>9 DEF Queues
<1> HIDE DEF n
<1>14. /\ \A i \in 1 .. n + 1 : i \in 1 .. n \/ i = n + 1
       /\ n + 1 \in 1 .. n + 1 /\ ~(n + 1 <= n) /\ k \in 0 .. n + 1 /\ k # n + 1
    BY <1>10
<1>15. /\ pc'[o] = pc[o] /\ spin'[o] = spin[o] /\ next'[o] = next[o]
       /\ socket'[o] = socket[o] /\ succ'[o] = succ[o]
    BY <1>11 DEF Same
<1>16. \A i \in 1 .. n :
           /\ pc'[behind[i]] = pc[behind[i]] /\ arg'[behind[i]] = arg[behind[i]]
           /\ spin'[behind[i]] = spin[behind[i]] /\ next'[behind[i]] = next[behind[i]]
           /\ socket'[behind[i]] = socket[behind[i]] /\ succ'[behind[i]] = succ[behind[i]]
           /\ secTail'[behind[i]] = secTail[behind[i]] /\ held'[behind[i]] = held[behind[i]]
    BY <1>11 DEF Same
<1>17. Splits(l, p, o, longer)'
    <2>1. /\ p \in 1 .. Len(queue[l]) /\ queue[l][p] = o /\ Len(queue[l]) = n + 1
          /\ \A i \in 1 .. n : /\ i < p => behind[i] = queue[l][i]
                               /\ i >= p => behind[i] = queue[l][i + 1]
        BY <1>9 DEF Splits, n
    <2>2. \A i \in 1 .. n : i \in 1 .. n + 1 /\ i + 1 \in 1 .. n + 1
        BY <1>10
    <2>3. p \in 1 .. n + 1 + 1
        BY <1>10, <2>1
    <2>4. /\ Len(queue'[l]) = n + 1 + 1
          /\ \A i \in 1 .. n + 1 : queue'[l][i] = queue[l][i]
          /\ queue'[l][n + 1 + 1] = t
        BY <1>4, <2>1 DEF Grown
    <2>5. ASSUME NEW i \in 1 .. n + 1
          PROVE  /\ i < p => longer[i] = queue'[l][i]
                 /\ i >= p => longer[i] = queue'[l][i + 1]
        <3>1. CASE i \in 1 .. n
            BY <1>12, <2>1, <2>2, <2>4, <3>1
        <3>2. CASE i = n + 1
            <4>1. ~(i < p)
                BY <1>10, <2>1, <3>2
            <4> QED
                BY <1>12, <2>4, <3>2, <4>1
        <3> QED
            BY <1>14, <3>1, <3>2
    <2>6. queue'[l][p] = o
        BY <2>1, <2>4
    <2> QED
        BY <1>12, <2>3, <2>4, <2>5, <2>6 DEF Splits
<1>18. SecondaryIs(o, longer, k)'
    <2>1. CASE k > 0
        <3>1. k \in 1 .. n /\ 1 \in 1 .. n
            BY <1>10, <2>1
        <3> QED
            BY <1>12, <1>13, <1>15, <1>16, <2>1, <3>1 DEF SecondaryIs
    <2>2. CASE ~(k > 0)
        <3>1. pc[o] = "wakeSecondary" => 1 \in 1 .. n
            BY <1>10, <1>13 DEF Found, n
        <3> QED
            BY <1>12, <1>13, <1>15, <2>2, <3>1 DEF SecondaryIs
    <2> QED
        BY <2>1, <2>2
<1>19. MainIs(l, o, longer, k)'
    <2>1. tail'[l] = longer[n + 1] /\ next'[longer[n + 1]] = Nil
        BY <1>6, <1>12
    <2>2. CASE k = n
        <3>1. tail[l] = o /\ next[o] = Nil
            BY <1>13, <2>2 DEF MainIs, n
        <3>2. pc[o] \notin {"wakeSecondary", "passLocal"}
            BY <1>10, <1>13, <2>2 DEF Found, n
        <3>3. longer[k + 1] = t
            BY <1>12, <2>2
        <3>4. Linked(o, longer[k + 1], l)'
            BY <1>6, <1>15, <3>1, <3>3 DEF Linked, At
        <3> QED
            BY <1>12, <1>14, <1>15, <2>1, <3>2, <3>4 DEF MainIs
    <2>3. CASE k # n
        <3>1. k + 1 \in 1 .. n
            BY <1>10, <2>3
        <3>2. longer[k + 1] = behind[k + 1]
            BY <1>12, <3>1
        <3>3. \/ pc[o] = "wakeSecondary" /\ next[o] = Nil
              \/ pc[o] = "passLocal" /\ succ[o] = behind[k + 1]
              \/ pc[o] \notin {"wakeSecondary", "passLocal"} /\ Linked(o, behind[k + 1], l)
            BY <1>13, <2>3 DEF MainIs, n
        <3>4. Linked(o, behind[k + 1], l) => Linked(o, longer[k + 1], l)'
            BY <1>15, <1>16, <3>1, <3>2 DEF Linked, At
        <3> QED
            BY <1>12, <1>14, <1>15, <2>1, <3>2, <3>3, <3>4 DEF MainIs
    <2> QED
        BY <2>2, <2>3
<1>20. ASSUME NEW i \in 1 .. n + 1, i < n + 1, i # k
       PROVE  Linked(longer[i], longer[i + 1], l)'
    <2>1. i \in 1 .. n /\ longer[i] = behind[i]
        BY <1>10, <1>12, <1>14, <1>20
    <2>2. CASE i < n
        <3>1. i + 1 \in 1 .. n
            BY <1>10, <2>2
        <3>2. longer[i + 1] = behind[i + 1]
            BY <1>12, <3>1
        <3>3. Linked(behind[i], behind[i + 1], l)
            BY <1>13, <1>20, <2>1, <2>2
        <3> QED
            BY <1>16, <2>1, <3>1, <3>2, <3>3 DEF Linked, At
    <2>3. CASE ~(i < n)
        <3>1. i = n /\ longer[i + 1] = t /\ k # n
            BY <1>10, <1>12, <1>20, <2>1, <2>3
        <3>2. tail[l] = behind[n] /\ next[behind[n]] = Nil
            BY <1>13, <3>1 DEF MainIs, n
        <3> QED
            BY <1>6, <1>16, <2>1, <3>1, <3>2 DEF Linked, At
    <2> QED
        BY <2>2, <2>3
<1>21. Found(o, longer, k)'
    <2>1. k < Len(behind) => k < Len(longer)
        BY <1>10, <1>12 DEF n
    <2> QED
        BY <1>13, <1>15, <2>1 DEF Found
<1>22. PassedOver(o, longer, k)'
    <2>1. \A i \in 1 .. n + 1 : pc'[longer[i]] = "spin" => socket'[longer[i]] # NoSocket
        <3>1. \A i \in 1 .. n : pc[behind[i]] = "spin" => socket[behind[i]] # NoSocket
            BY <1>13 DEF PassedOver, n
        <3>2. \A i \in 1 .. n : pc'[longer[i]] = "spin" => socket'[longer[i]] # NoSocket
            <4>1. \A i \in 1 .. n :
                      /\ longer[i] = behind[i]
                      /\ pc'[behind[i]] = pc[behind[i]]
                      /\ socket'[behind[i]] = socket[behind[i]]
                BY <1>12, <1>16
            <4> QED
                BY <3>1, <4>1
        <3> QED
            BY <1>6, <1>12, <1>14, <3>2
    <2>2. SortedBy(o)' = SortedBy(o) /\ (pc[o] = "passLocal" => pc'[succ'[o]] = "spin")
        <3>1. pc[o] = "passLocal" => k + 1 \in 1 .. n /\ succ[o] = behind[k + 1]
            BY <1>10, <1>13 DEF Found, MainIs, n
        <3> QED
            BY <1>13, <1>15, <1>16, <3>1 DEF SortedBy, PassedOver
    <2>3. \A i \in 1 .. n + 1 : i <= k => i \in 1 .. n
        BY <1>10
    <2>4. pc[o] = "wakeSecondary" => 1 \in 1 .. n
        BY <1>10, <1>13 DEF Found, n
    <2> QED
        BY <1>12, <1>13, <1>15, <1>16, <2>1, <2>2, <2>3, <2>4 DEF PassedOver, n
<1>23. \A i \in 1 .. n + 1 : spin'[longer[i]] = 0 /\ l \notin held'[longer[i]]
    BY <1>1, <1>2, <1>6, <1>12, <1>13, <1>14, <1>16
<1>24. Queues(l, o, longer, k)'
    BY <1>12, <1>13, <1>15, <1>18, <1>19, <1>20, <1>21, <1>22, <1>23 DEF Queues
<1>25. Line(l)'
    <2>1. p \in 1 .. Len(queue'[l]) /\ k \in 0 .. Len(longer)
        BY <1>12, <1>14, <1>17 DEF Splits
    <2> QED
        BY <1>9, <1>15, <1>17, <1>24, <2>1 DEF Line
<1>26. OnlyOn(t, l)
    <2>1. Len(queue'[l]) # 0
        BY <1>0, <1>4, LineType DEF Grown
    <2> QED
        BY <1>2, <1>4, <1>6, <2>1 DEF OnlyOn, Grown
<1> QED
    BY <1>5, <1>7, <1>25, <1>26, LineOnly

(* Who has been passed the lock takes its queues over.                     *)
LEMMA Enters ==
    ASSUME CNAInv, NEW t \in Threads, NEW l \in Locks, Spin(t, l)
    PROVE  CNAInv'
PROOF
<1>0. Places /\ Fields /\ Order
    BY DEF CNAInv
<1>1. /\ pc[t] = "spin" /\ arg[t] = l /\ spin[t] # 0
      /\ pc' = [pc EXCEPT ![t] = "idle"]
      /\ arg' = [arg EXCEPT ![t] = Nil]
      /\ held' = [held EXCEPT ![t] = @ \cup {l}]
      /\ queue' = queue
      /\ tail' = tail /\ next' = next /\ spin' = spin /\ socket' = socket
      /\ secTail' = secTail /\ succ' = succ
    BY DEF Spin, At, Enter, Return, cnaVars
<1>2. /\ InLine(t, l) /\ held[t] = {}
      /\ \A m \in Locks \ {l} : ~InLine(t, m)
    BY <1>0, <1>1, OneLine DEF Places, Coming, Leaving
<1>3. Places'
    <2>1. held' = [held EXCEPT ![t] = {l}]
        BY <1>0, <1>1, <1>2 DEF Places
    <2>2. Moves(t, "idle", Nil, {l})
        BY <1>1, <2>1 DEF Moves, Coming, Leaving
    <2>3. LinesMove(t, "idle", Nil, {l})
        BY <1>0, <1>1, <1>2, LinesStay DEF LinesMove
    <2> QED
        BY <1>0, <2>2, <2>3, PlacesMove
<1>4. /\ pc'[t] = "idle"
      /\ \A x \in Threads \ {t} : Same(x) /\ pc'[x] = pc[x]
    BY <1>0, <1>1 DEF Places, Same
<1>5. NodesTyped'
    BY <1>0, <1>1 DEF Fields, NodesTyped
<1>6. OnlyOn(t, l)
    BY <1>0, <1>1, <1>2, <1>4 DEF OnlyOn, Fields
<1>7. PICK behind \in Seq(Threads) : \E p \in 1 .. Len(queue[l]), k \in 0 .. Len(behind) :
          /\ Splits(l, p, t, behind)
          /\ Queues(l, t, behind, k)
          /\ p <= k + 1 \/ pc[t] = "wakeSecondary"
    BY <1>1, <1>2, OwnerOf
<1>8. PICK p \in 1 .. Len(queue[l]), k \in 0 .. Len(behind) :
          /\ Splits(l, p, t, behind)
          /\ Queues(l, t, behind, k)
          /\ p <= k + 1 \/ pc[t] = "wakeSecondary"
    BY <1>7
<1>9. \A i \in 1 .. Len(behind) : behind[i] \in Threads /\ Same(behind[i])
    BY <1>0, <1>4, <1>8, Behind
<1>10. Queues(l, t, behind, k)'
    <2>1. \A i \in 1 .. Len(behind) :
              /\ pc'[behind[i]] = pc[behind[i]] /\ arg'[behind[i]] = arg[behind[i]]
              /\ held'[behind[i]] = held[behind[i]]
        BY <1>9 DEF Same
    <2>2. SecondaryIs(t, behind, k)'
        BY <1>1, <1>4, <1>8 DEF Queues, SecondaryIs
    <2>3. MainIs(l, t, behind, k)'
        <3>1. k # Len(behind) => k + 1 \in 1 .. Len(behind)
            BY <1>0, <1>8, Behind
        <3>2. k # Len(behind) => Linked(t, behind[k + 1], l)
            BY <1>1, <1>8 DEF Queues, MainIs
        <3>3. k # Len(behind) => Linked(t, behind[k + 1], l)'
            BY <1>1, <2>1, <3>1, <3>2 DEF Linked, At
        <3> QED
            BY <1>1, <1>4, <1>8, <3>3 DEF Queues, MainIs
    <2>4. \A i \in 1 .. Len(behind) :
              i < Len(behind) /\ i # k => Linked(behind[i], behind[i + 1], l)'
        <3>1. \A i \in 1 .. Len(behind) : i < Len(behind) => i + 1 \in 1 .. Len(behind)
            BY <1>0, <1>8, Behind
        <3> QED
            BY <1>1, <1>8, <2>1, <3>1 DEF Queues, Linked, At
    <2>5. Found(t, behind, k)' /\ PassedOver(t, behind, k)'
        BY <1>1, <1>4, <1>8, <2>1 DEF Queues, Found, PassedOver, SortedBy
    <2> QED
        BY <1>1, <1>8, <2>1, <2>2, <2>3, <2>4, <2>5 DEF Queues
<1>11. Line(l)'
    <2>1. Splits(l, p, t, behind)' /\ p \in 1 .. Len(queue'[l]) /\ p <= k + 1
        BY <1>1, <1>8 DEF Splits
    <2> QED
        BY <1>8, <1>10, <2>1 DEF Line
<1> QED
    BY <1>3, <1>5, <1>6, <1>11, LineOnly

(* Who leaves gives up its place, and those behind stay in line.           *)
LEMMA Leaves ==
    ASSUME CNAInv, NEW t \in Threads, NEW l \in Locks, l \in held[t], Leave(t, l), Return(t),
           NEW behind \in Seq(Threads), NEW p \in 1 .. Len(queue[l]), Splits(l, p, t, behind)
    PROVE  /\ Places'
           /\ queue'[l] = behind
           /\ \A m \in Locks \ {l} : queue'[m] = queue[m] /\ ~InLine(t, m)
           /\ pc'[t] = "idle"
           /\ \A x \in Threads \ {t} :
                  pc'[x] = pc[x] /\ arg'[x] = arg[x] /\ held'[x] = held[x]
PROOF
<1>0. Places
    BY DEF CNAInv
<1>1. /\ pc' = [pc EXCEPT ![t] = "idle"]
      /\ arg' = [arg EXCEPT ![t] = Nil]
      /\ held' = [held EXCEPT ![t] = @ \ {l}]
    BY DEF Return, Leave
<1>2. /\ held[t] = {l}
      /\ \A m \in Locks \ {l} : ~InLine(t, m)
    BY <1>0, OneLine
<1>3. held' = [held EXCEPT ![t] = {}]
    <2>1. held[t] \ {l} = {}
        BY <1>2
    <2> QED
        BY <1>1, <2>1
<1>4. /\ queue' \in [Locks -> Seq(Threads)]
      /\ queue'[l] = behind
      /\ \A m \in Locks \ {l} : queue'[m] = queue[m]
      /\ \A m \in Locks : \A i, j \in 1 .. Len(queue'[m]) :
             queue'[m][i] = queue'[m][j] => i = j
      /\ \A u \in Threads, m \in Locks :
             InLine(u, m)' <=> InLine(u, m) /\ ~(u = t /\ m = l)
    BY <1>0, Shrinks
<1>5. Places'
    <2>1. Moves(t, "idle", Nil, {})
        BY <1>1, <1>3 DEF Moves, Coming, Leaving
    <2>2. LinesMove(t, "idle", Nil, {})
        BY <1>2, <1>4 DEF LinesMove
    <2> QED
        BY <1>0, <2>1, <2>2, PlacesMove
<1>6. /\ pc'[t] = "idle"
      /\ \A x \in Threads \ {t} :
             pc'[x] = pc[x] /\ arg'[x] = arg[x] /\ held'[x] = held[x]
    BY <1>0, <1>1 DEF Places
<1> QED
    BY <1>2, <1>4, <1>5, <1>6

(* What the owner of a line may rely on.                                   *)
LEMMA Owner ==
    ASSUME CNAInv, NEW t \in Threads, NEW l \in Locks, NEW place \in Leaving, At(t, l, place)
    PROVE  /\ l \in held[t]
           /\ pc[t] = place
           /\ InLine(t, l)
           /\ \A m \in Locks \ {l} : ~InLine(t, m)
           /\ \E behind \in Seq(Threads) : \E p \in 1 .. Len(queue[l]), k \in 0 .. Len(behind) :
                  /\ Splits(l, p, t, behind)
                  /\ Queues(l, t, behind, k)
                  /\ p <= k + 1 \/ pc[t] = "wakeSecondary"
PROOF
<1>1. Places
    BY DEF CNAInv
<1>2. l \in held[t] /\ pc[t] = place
    BY <1>1 DEF Places, At
<1>3. InLine(t, l) /\ \A m \in Locks \ {l} : ~InLine(t, m)
    BY <1>1, <1>2, OneLine
<1> QED
    BY <1>2, <1>3, OwnerOf

(* Nobody is in line, and the line is closed.                              *)
LEMMA Closes ==
    ASSUME CNAInv, NEW t \in Threads, NEW l \in Locks, Close(t, l), tail[l] = t
    PROVE  CNAInv'
PROOF
<1>0. Places /\ Fields /\ Order
    BY DEF CNAInv
<1>1. /\ At(t, l, "close")
      /\ tail' = [tail EXCEPT ![l] = Nil]
      /\ Leave(t, l) /\ Return(t)
      /\ spin' = [spin EXCEPT ![t] = 0]
      /\ socket' = [socket EXCEPT ![t] = NoSocket]
      /\ next' = next /\ secTail' = secTail /\ succ' = succ
    BY DEF Close
<1>2. "close" \in Leaving
    BY DEF Leaving
<1>3. l \in held[t] /\ pc[t] = "close"
    BY <1>1, <1>2, Owner
<1>4. PICK behind \in Seq(Threads) : \E p \in 1 .. Len(queue[l]), k \in 0 .. Len(behind) :
          Splits(l, p, t, behind) /\ Queues(l, t, behind, k)
    BY <1>1, <1>2, Owner
<1>5. PICK p \in 1 .. Len(queue[l]), k \in 0 .. Len(behind) :
          Splits(l, p, t, behind) /\ Queues(l, t, behind, k)
    BY <1>4
<1>6. Len(behind) \in Nat /\ \A i \in 1 .. Len(behind) : behind[i] # t
    BY <1>0, <1>5, Behind
<1>7. k = 0
    BY <1>3, <1>5 DEF Queues, Found
<1>8. Len(behind) = 0
    <2> SUFFICES ASSUME Len(behind) # 0 PROVE FALSE
        OBVIOUS
    <2>1. Len(behind) \in 1 .. Len(behind) /\ k # Len(behind)
        BY <1>6, <1>7
    <2>2. tail[l] = behind[Len(behind)]
        BY <1>5, <2>1 DEF Queues, MainIs
    <2> QED
        BY <1>6, <2>1, <2>2
<1>9. /\ Places'
      /\ queue'[l] = behind
      /\ \A m \in Locks \ {l} : queue'[m] = queue[m] /\ ~InLine(t, m)
      /\ pc'[t] = "idle"
      /\ \A x \in Threads \ {t} :
             pc'[x] = pc[x] /\ arg'[x] = arg[x] /\ held'[x] = held[x]
    BY <1>1, <1>3, <1>5, Leaves
<1>10. NodesTyped'
    BY <1>0, <1>1 DEF Fields, NodesTyped
<1>11. Line(l)'
    BY <1>8, <1>9 DEF Line
<1>12. OnlyOn(t, l)
    <2>1. tail'[l] = Nil /\ \A m \in Locks \ {l} : tail'[m] = tail[m]
        BY <1>0, <1>1 DEF Fields, NodesTyped
    <2>2. \A x \in Threads \ {t} : Same(x)
        BY <1>0, <1>1, <1>9 DEF Fields, NodesTyped, Same
    <2> QED
        BY <1>9, <2>1, <2>2 DEF OnlyOn
<1> QED
    BY <1>9, <1>10, <1>11, <1>12, LineOnly

(* The secondary queue is all that is left, and becomes the main queue.    *)
LEMMA Requeues ==
    ASSUME CNAInv, NEW t \in Threads, NEW l \in Locks, Requeue(t, l), tail[l] = t
    PROVE  CNAInv'
PROOF
<1>0. Places /\ Fields /\ Order
    BY DEF CNAInv
<1>1. /\ At(t, l, "requeue")
      /\ tail' = [tail EXCEPT ![l] = secTail[spin[t]]]
      /\ pc' = [pc EXCEPT ![t] = "wakeSecondary"]
      /\ arg' = arg /\ held' = held /\ queue' = queue
      /\ spin' = spin /\ socket' = socket
      /\ next' = next /\ secTail' = secTail /\ succ' = succ
    BY DEF Requeue, Goto, Stay
<1>2. "requeue" \in Leaving
    BY DEF Leaving
<1>3. /\ l \in held[t] /\ pc[t] = "requeue" /\ InLine(t, l)
      /\ \A m \in Locks \ {l} : ~InLine(t, m)
    BY <1>1, <1>2, Owner
<1>4. PICK behind \in Seq(Threads) : \E p \in 1 .. Len(queue[l]), k \in 0 .. Len(behind) :
          Splits(l, p, t, behind) /\ Queues(l, t, behind, k)
    BY <1>1, <1>2, Owner
<1>5. PICK p \in 1 .. Len(queue[l]), k \in 0 .. Len(behind) :
          Splits(l, p, t, behind) /\ Queues(l, t, behind, k)
    BY <1>4
<1>6. /\ Len(behind) \in Nat /\ k \in Nat
      /\ \A i \in 1 .. Len(behind) : behind[i] \in Threads /\ behind[i] # t
    BY <1>0, <1>5, Behind
<1>7. k > 0
    BY <1>3, <1>5 DEF Queues, Found
<1>8. k = Len(behind)
    <2> SUFFICES ASSUME k # Len(behind) PROVE FALSE
        OBVIOUS
    <2>1. Len(behind) \in 1 .. Len(behind)
        BY <1>6, <1>7
    <2>2. tail[l] = behind[Len(behind)]
        BY <1>5 DEF Queues, MainIs
    <2> QED
        BY <1>6, <2>1, <2>2
<1>9. /\ 1 \in 1 .. Len(behind) /\ k \in 1 .. Len(behind) /\ 0 \in 0 .. Len(behind)
      /\ 0 # Len(behind) /\ ~(0 > 0) /\ 0 < Len(behind)
    BY <1>6, <1>7, <1>8
<1>10. /\ spin[t] = behind[1] /\ secTail[behind[1]] = behind[k] /\ next[behind[k]] = Nil
       /\ next[t] = Nil
    BY <1>5, <1>7, <1>8 DEF Queues, SecondaryIs, MainIs
<1>11. /\ pc'[t] = "wakeSecondary" /\ tail'[l] = behind[Len(behind)]
       /\ \A x \in Threads \ {t} : pc'[x] = pc[x]
       /\ \A m \in Locks \ {l} : tail'[m] = tail[m]
    BY <1>0, <1>1, <1>8, <1>10 DEF Places, Fields, NodesTyped
<1>12. Places'
    <2>1. arg' = [arg EXCEPT ![t] = l] /\ held' = [held EXCEPT ![t] = {l}]
        BY <1>0, <1>1, <1>3, OneLine DEF Places, At
    <2>2. Moves(t, "wakeSecondary", l, {l})
        BY <1>1, <2>1, CallerAssumption DEF Moves, Coming, Leaving
    <2>3. LinesMove(t, "wakeSecondary", l, {l})
        BY <1>0, <1>1, <1>3, LinesStay DEF LinesMove
    <2> QED
        BY <1>0, <2>2, <2>3, PlacesMove
<1>13. NodesTyped'
    <2>1. secTail[spin[t]] \in Threads
        BY <1>6, <1>9, <1>10
    <2> QED
        BY <1>0, <1>1, <2>1 DEF Fields, NodesTyped
<1>14. OnlyOn(t, l)
    <2>1. Len(queue'[l]) # 0
        BY <1>1, <1>3, <1>0, LineType DEF InLine
    <2> QED
        BY <1>1, <1>3, <1>11, <2>1 DEF OnlyOn, Same
<1>15. Queues(l, t, behind, 0)'
    <2>1. \A i \in 1 .. Len(behind) : pc'[behind[i]] = pc[behind[i]]
        BY <1>6, <1>11
    <2>2. SecondaryIs(t, behind, 0)'
        BY <1>1, <1>9, <1>10, <1>11 DEF SecondaryIs
    <2>3. MainIs(l, t, behind, 0)'
        BY <1>1, <1>8, <1>9, <1>10, <1>11 DEF MainIs
    <2>4. \A i \in 1 .. Len(behind) :
              i < Len(behind) /\ i # 0 => Linked(behind[i], behind[i + 1], l)'
        <3>1. \A i \in 1 .. Len(behind) :
                  i < Len(behind) => i # k /\ i + 1 \in 1 .. Len(behind)
            BY <1>6, <1>8
        <3> QED
            BY <1>1, <1>5, <2>1, <3>1 DEF Queues, Linked, At
    <2>5. Found(t, behind, 0)'
        BY <1>9, <1>11 DEF Found
    <2>6. PassedOver(t, behind, 0)'
        <3>1. \A i \in 1 .. Len(behind) : ~(i <= 0)
            BY <1>6
        <3> QED
            BY <1>1, <1>5, <1>9, <1>11, <2>1, <3>1, <1>7 DEF Queues, PassedOver
    <2> QED
        BY <1>1, <1>5, <2>2, <2>3, <2>4, <2>5, <2>6 DEF Queues
<1>16. Line(l)'
    <2>1. Splits(l, p, t, behind)' /\ p \in 1 .. Len(queue'[l])
        BY <1>1, <1>5 DEF Splits
    <2> QED
        BY <1>9, <1>11, <1>15, <2>1 DEF Line
<1> QED
    BY <1>12, <1>13, <1>14, <1>16, LineOnly

(* The node before it in line is the one that a thread links itself to.    *)
LEMMA Links ==
    ASSUME CNAInv, NEW t \in Threads, NEW l \in Locks, Link(t, l)
    PROVE  CNAInv'
PROOF
<1>0. Places /\ Fields /\ Order
    BY DEF CNAInv
<1>1. PICK s \in Sockets : socket' = [socket EXCEPT ![t] = s]
    BY DEF Link, current_numa_node
<1>2. /\ pc[t] = "link" /\ arg[t] = l
      /\ next' = [next EXCEPT ![succ[t]] = t]
      /\ succ' = [succ EXCEPT ![t] = Nil]
      /\ pc' = [pc EXCEPT ![t] = "spin"]
      /\ arg' = arg /\ held' = held /\ queue' = queue
      /\ tail' = tail /\ spin' = spin /\ secTail' = secTail
    BY DEF Link, At, Goto, Stay
<1>3. s # NoSocket
    <2>1. \A c \in Nat : c \div 2 # -1
        OBVIOUS
    <2> QED
        BY <2>1, CNAAssumption DEF Sockets, NoSocket
<1>4. /\ InLine(t, l) /\ held[t] = {}
      /\ \A m \in Locks \ {l} : ~InLine(t, m)
    BY <1>0, <1>2, OneLine DEF Places, Coming, Leaving
<1>5. Places'
    <2>1. held' = [held EXCEPT ![t] = {}] /\ arg' = [arg EXCEPT ![t] = l]
        BY <1>0, <1>2, <1>4 DEF Places
    <2>2. Moves(t, "spin", l, {})
        BY <1>2, <2>1, CallerAssumption DEF Moves, Coming, Leaving
    <2>3. LinesMove(t, "spin", l, {})
        BY <1>0, <1>2, <1>4, LinesStay DEF LinesMove
    <2> QED
        BY <1>0, <2>2, <2>3, PlacesMove
<1>6. Len(queue[l]) > 0
    BY <1>0, <1>4, LineType DEF InLine
<1>7. PICK o \in Threads, behind \in Seq(Threads) :
          \E p \in 1 .. Len(queue[l]), k \in 0 .. Len(behind) :
              /\ Splits(l, p, o, behind)
              /\ Queues(l, o, behind, k)
              /\ p <= k + 1 \/ pc[o] = "wakeSecondary"
    BY <1>0, <1>6 DEF Order, Line
<1>8. PICK p \in 1 .. Len(queue[l]), k \in 0 .. Len(behind) :
          /\ Splits(l, p, o, behind)
          /\ Queues(l, o, behind, k)
          /\ p <= k + 1 \/ pc[o] = "wakeSecondary"
    BY <1>7
<1> DEFINE n == Len(behind)
<1>9. /\ spin[o] # 0
      /\ \A i \in 1 .. n : spin[behind[i]] = 0 /\ l \notin held[behind[i]]
      /\ SecondaryIs(o, behind, k)
      /\ MainIs(l, o, behind, k)
      /\ \A i \in 1 .. n : i < n /\ i # k => Linked(behind[i], behind[i + 1], l)
      /\ Found(o, behind, k)
      /\ PassedOver(o, behind, k)
    BY <1>8 DEF Queues
<1>10. /\ n \in Nat /\ k \in 0 .. n /\ k \in Nat /\ InLine(o, l)
       /\ \A i \in 1 .. n : behind[i] \in Threads /\ behind[i] # o /\ InLine(behind[i], l)
       /\ \A i, j \in 1 .. n : behind[i] = behind[j] => i = j
       /\ t = o \/ \E i \in 1 .. n : behind[i] = t
    <2>1. /\ Len(behind) \in Nat /\ InLine(o, l)
          /\ \A i \in 1 .. Len(behind) :
                 behind[i] \in Threads /\ behind[i] # o /\ InLine(behind[i], l)
          /\ \A i, j \in 1 .. Len(behind) : behind[i] = behind[j] => i = j
          /\ \A u \in Threads :
                 InLine(u, l) => u = o \/ \E i \in 1 .. Len(behind) : behind[i] = u
        BY <1>0, <1>8, Behind
    <2>2. k \in Nat
        BY <2>1
    <2>3. t = o \/ \E i \in 1 .. n : behind[i] = t
        BY <1>4, <2>1
    <2> QED
        BY <2>1, <2>2, <2>3
<1>11. t # o
    BY <1>2, <1>9 DEF Found
<1>12. PICK i \in 1 .. n : behind[i] = t
    BY <1>10, <1>11
<1>13. k < i /\ k < n /\ k # n /\ i \in Nat
    <2>1. ~(i <= k)
        BY <1>2, <1>9, <1>12 DEF PassedOver, n
    <2> QED
        BY <1>10, <2>1
<1>14. k + 1 \in 1 .. n /\ n \in 1 .. n
    BY <1>10, <1>13
<1>15. \/ i = k + 1 /\ next[o] = Nil /\ succ[t] = o /\ pc[o] # "wakeSecondary"
       \/ i # k + 1 /\ i - 1 \in 1 .. n /\ i - 1 > k /\ succ[t] = behind[i - 1]
                    /\ next[behind[i - 1]] = Nil
    <2>1. CASE i = k + 1
        <3>1. \/ pc[o] = "wakeSecondary"
              \/ pc[o] = "passLocal" /\ succ[o] = behind[k + 1]
              \/ Linked(o, behind[k + 1], l)
            BY <1>9, <1>13 DEF MainIs, n
        <3>2. pc[o] # "passLocal" \/ succ[o] # behind[k + 1]
            BY <1>2, <1>9, <1>12, <2>1 DEF PassedOver
        <3>3. pc[o] # "wakeSecondary"
            <4>1. pc[o] = "wakeSecondary" => i = 1
                BY <1>9, <1>10, <2>1 DEF SecondaryIs
            <4> QED
                BY <1>2, <1>9, <1>12, <4>1 DEF PassedOver
        <3> QED
            BY <1>2, <1>12, <2>1, <3>1, <3>2, <3>3 DEF Linked, At
    <2>2. CASE i # k + 1
        <3>1. i - 1 \in 1 .. n /\ i - 1 > k /\ i - 1 < n /\ i - 1 # k /\ i - 1 + 1 = i
            BY <1>10, <1>12, <1>13, <2>2
        <3>2. Linked(behind[i - 1], behind[i], l)
            BY <1>9, <3>1
        <3> QED
            BY <1>2, <1>12, <2>2, <3>1, <3>2 DEF Linked, At
    <2> QED
        BY <2>1, <2>2
<1>16. /\ succ[t] \in Threads /\ InLine(succ[t], l) /\ next[succ[t]] = Nil
    BY <1>10, <1>15
<1>17. /\ next'[succ[t]] = t
       /\ \A x \in Threads : x # succ[t] => next'[x] = next[x]
       /\ socket'[t] = s /\ succ'[t] = Nil /\ pc'[t] = "spin"
       /\ \A x \in Threads \ {t} :
              socket'[x] = socket[x] /\ succ'[x] = succ[x] /\ pc'[x] = pc[x]
    BY <1>0, <1>1, <1>2, <1>16 DEF Fields, NodesTyped, Places
<1>18. NodesTyped'
    BY <1>0, <1>1, <1>2, <1>16 DEF Fields, NodesTyped
<1>19. OnlyOn(t, l)
    <2>1. Len(queue'[l]) # 0
        BY <1>0, <1>2, <1>6, LineType
    <2> QED
        BY <1>2, <1>4, <1>16, <1>17, <2>1 DEF OnlyOn, Same
<1> HIDE DEF n
<1>20. \A j \in 1 .. n : j # i => behind[j] # t
    BY <1>10, <1>12
<1>21. ASSUME NEW j \in 1 .. n, j < n, j # k
       PROVE  Linked(behind[j], behind[j + 1], l)'
    <2>1. /\ Linked(behind[j], behind[j + 1], l)
          /\ j + 1 \in 1 .. n /\ behind[j] \in Threads
        BY <1>9, <1>10, <1>21
    <2>2. CASE j + 1 = i
        <3>1. j = i - 1 /\ i # k + 1
            BY <1>10, <1>21, <2>2
        <3>2. succ[t] = behind[j] /\ behind[j + 1] = t
            BY <1>12, <1>15, <2>2, <3>1
        <3> QED
            BY <1>17, <3>2 DEF Linked, At
    <2>3. CASE j + 1 # i
        <3>1. behind[j + 1] \in Threads /\ behind[j + 1] # t
            BY <1>10, <1>20, <2>1, <2>3
        <3>2. behind[j] # succ[t]
            <4>1. j # i - 1
                BY <1>10, <2>3
            <4> QED
                BY <1>10, <1>15, <4>1
        <3> QED
            BY <1>2, <1>17, <2>1, <3>1, <3>2 DEF Linked, At
    <2> QED
        BY <2>2, <2>3
<1>22. succ[t] # behind[n]
    <2>1. i - 1 # n
        BY <1>10, <1>12
    <2> QED
        BY <1>10, <1>14, <1>15, <2>1
<1>23. k > 0 => k \in 1 .. n /\ 1 \in 1 .. n /\ succ[t] # behind[k]
    <2>1. k > 0 => k \in 1 .. n /\ 1 \in 1 .. n
        BY <1>10
    <2>2. i - 1 > k => i - 1 # k
        BY <1>10, <1>12
    <2> QED
        BY <1>10, <1>15, <2>1, <2>2
<1>24. SecondaryIs(o, behind, k)'
    BY <1>2, <1>9, <1>10, <1>11, <1>17, <1>23 DEF SecondaryIs
<1>25. MainIs(l, o, behind, k)'
    <2>1. tail[l] = behind[n] /\ next[behind[n]] = Nil
        BY <1>9, <1>13 DEF MainIs, n
    <2>2. tail'[l] = behind[n] /\ next'[behind[n]] = Nil
        BY <1>2, <1>10, <1>14, <1>17, <1>22, <2>1
    <2>3. CASE i = k + 1
        <3>1. pc[o] \notin {"wakeSecondary", "passLocal"} /\ succ[t] = o
            BY <1>2, <1>9, <1>12, <1>13, <1>15, <2>3 DEF PassedOver, MainIs, n
        <3>2. Linked(o, behind[k + 1], l)'
            BY <1>11, <1>12, <1>17, <2>3, <3>1 DEF Linked, At
        <3> QED
            BY <1>11, <1>13, <1>17, <2>2, <3>1, <3>2 DEF MainIs, n
    <2>4. CASE i # k + 1
        <3>1. o # succ[t] /\ behind[k + 1] # t /\ behind[k + 1] \in Threads
            BY <1>10, <1>14, <1>15, <1>20, <2>4
        <3>2. \/ pc[o] = "wakeSecondary" /\ next[o] = Nil
              \/ pc[o] = "passLocal" /\ succ[o] = behind[k + 1]
              \/ pc[o] \notin {"wakeSecondary", "passLocal"} /\ Linked(o, behind[k + 1], l)
            BY <1>9, <1>13 DEF MainIs, n
        <3>3. Linked(o, behind[k + 1], l) => Linked(o, behind[k + 1], l)'
            BY <1>2, <1>17, <3>1 DEF Linked, At
        <3> QED
            BY <1>11, <1>13, <1>17, <2>2, <3>1, <3>2, <3>3 DEF MainIs, n
    <2> QED
        BY <2>3, <2>4
<1>26. Found(o, behind, k)'
    <2>1. next'[o] = next[o] \/ next'[o] = t
        BY <1>17
    <2> QED
        BY <1>9, <1>11, <1>17, <2>1, CallerAssumption DEF Found
<1>27. PassedOver(o, behind, k)'
    <2>1. \A j \in 1 .. n : pc'[behind[j]] = "spin" => socket'[behind[j]] # NoSocket
        BY <1>3, <1>9, <1>10, <1>12, <1>17, <1>20 DEF PassedOver, n
    <2>2. pc[o] = "passLocal" => succ[o] \in Threads /\ succ[o] # t
        BY <1>2, <1>9, <1>10, <1>13, <1>14 DEF PassedOver, MainIs, n
    <2>3. SortedBy(o)' = SortedBy(o)
        BY <1>11, <1>17, <2>2 DEF SortedBy
    <2>4. \A j \in 1 .. n : j <= k => j # i
        BY <1>10, <1>13
    <2>5. \A j \in 1 .. n : j <= k =>
              pc'[behind[j]] = pc[behind[j]] /\ socket'[behind[j]] = socket[behind[j]]
        BY <1>10, <1>17, <1>20, <2>4
    <2>6. pc[o] = "wakeSecondary" => behind[1] # t /\ behind[1] \in Threads
        <3>1. pc[o] = "wakeSecondary" => 1 \in 1 .. n
            BY <1>10, <1>13
        <3> QED
            BY <1>2, <1>9, <1>10, <3>1 DEF PassedOver
    <2>7. pc'[o] = pc[o] /\ succ'[o] = succ[o]
        BY <1>11, <1>17
    <2>8. pc[o] = "passLocal" => pc'[succ[o]] = "spin"
        BY <1>9, <1>17, <2>2 DEF PassedOver
    <2>9. pc[o] = "wakeSecondary" => pc'[behind[1]] = "spin"
        BY <1>9, <1>17, <2>6 DEF PassedOver
    <2> QED
        BY <1>9, <2>1, <2>3, <2>5, <2>7, <2>8, <2>9 DEF PassedOver, n
<1>28. Queues(l, o, behind, k)'
    BY <1>2, <1>9, <1>21, <1>24, <1>25, <1>26, <1>27 DEF Queues, n
<1>29. Line(l)'
    <2>1. Splits(l, p, o, behind)' /\ p \in 1 .. Len(queue'[l]) /\ pc'[o] = pc[o]
        BY <1>2, <1>8, <1>11, <1>17 DEF Splits
    <2> QED
        BY <1>8, <1>28, <2>1 DEF Line
<1> QED
    BY <1>5, <1>18, <1>19, <1>29, LineOnly

(* t passes the lock, with the first c of those behind it as the secondary *)
(* queue, to the next one, who is on a socket that they are not on.        *)
Passing(l, t, behind, c, value) ==
    /\ c \in 0 .. Len(behind) /\ c < Len(behind)
    /\ PassTo(behind[c + 1], t, l, value)
    /\ tail' = tail
    /\ \A x \in Threads : ~InLine(x, l) =>
           next'[x] = next[x] /\ secTail'[x] = secTail[x] /\ succ'[x] = succ[x]
    /\ pc[behind[c + 1]] = "spin"
    /\ value = IF c > 0 THEN behind[1] ELSE 1
    /\ c > 0 => /\ secTail'[behind[1]] = behind[c]
                /\ next'[behind[c]] = Nil
                /\ socket[behind[c + 1]] # NoSocket
    /\ \A i \in 1 .. Len(behind) : i <= c =>
           pc[behind[i]] = "spin" /\ socket[behind[i]] # socket[behind[c + 1]]
    /\ tail[l] = behind[Len(behind)] /\ next'[behind[Len(behind)]] = Nil
    /\ \A i \in 1 .. Len(behind) :
           i < Len(behind) /\ i # c => Linked(behind[i], behind[i + 1], l)'

LEMMA Passed ==
    ASSUME CNAInv, NEW t \in Threads, NEW l \in Locks, l \in held[t],
           NEW behind \in Seq(Threads), NEW p \in 1 .. Len(queue[l]),
           NEW k \in 0 .. Len(behind),
           Splits(l, p, t, behind), Queues(l, t, behind, k),
           NEW c, NEW value, Passing(l, t, behind, c, value), NodesTyped'
    PROVE  CNAInv'
PROOF
<1>0. Places /\ Fields /\ Order
    BY DEF CNAInv
<1>2. /\ Len(behind) \in Nat
      /\ InLine(t, l)
      /\ \A i \in 1 .. Len(behind) : behind[i] \in Threads /\ behind[i] # t /\ InLine(behind[i], l)
      /\ \A i, j \in 1 .. Len(behind) : behind[i] = behind[j] => i = j
    BY <1>0, Behind
<1> DEFINE n == Len(behind)
           u == behind[c + 1]
<1>1. /\ c \in 0 .. n /\ c < n
      /\ PassTo(u, t, l, value)
      /\ tail' = tail
      /\ \A x \in Threads : ~InLine(x, l) =>
             next'[x] = next[x] /\ secTail'[x] = secTail[x] /\ succ'[x] = succ[x]
      /\ pc[u] = "spin"
      /\ value = IF c > 0 THEN behind[1] ELSE 1
      /\ c > 0 => /\ secTail'[behind[1]] = behind[c]
                  /\ next'[behind[c]] = Nil
                  /\ socket[u] # NoSocket
      /\ \A i \in 1 .. n : i <= c => pc[behind[i]] = "spin" /\ socket[behind[i]] # socket[u]
      /\ tail[l] = behind[n] /\ next'[behind[n]] = Nil
      /\ \A i \in 1 .. n : i < n /\ i # c => Linked(behind[i], behind[i + 1], l)'
    BY DEF Passing
<1>3. c \in Nat /\ c + 1 \in 1 .. n
    BY <1>1, <1>2
<1>4. /\ spin' = [spin EXCEPT ![u] = value, ![t] = 0]
      /\ socket' = [socket EXCEPT ![t] = NoSocket]
      /\ Leave(t, l) /\ Return(t)
    BY <1>1 DEF PassTo
<1>5. /\ Places'
      /\ queue'[l] = behind
      /\ \A m \in Locks \ {l} : queue'[m] = queue[m] /\ ~InLine(t, m)
      /\ pc'[t] = "idle"
      /\ \A x \in Threads \ {t} :
             pc'[x] = pc[x] /\ arg'[x] = arg[x] /\ held'[x] = held[x]
    BY <1>4, Leaves
<1>6. /\ spin'[u] = value
      /\ \A x \in Threads : x # u /\ x # t => spin'[x] = spin[x]
      /\ \A x \in Threads : x # t => socket'[x] = socket[x]
    BY <1>0, <1>2, <1>3, <1>4 DEF Fields, NodesTyped
<1>7. value # 0
    <2>1. c > 0 => 1 \in 1 .. n
        BY <1>1, <1>2
    <2> QED
        BY <1>1, <1>2, <2>1, CNAAssumption
<1>8. PICK rest \in Seq(Threads) :
          /\ rest = RemoveAt(behind, c + 1)
          /\ n = Len(rest) + 1 /\ Len(rest) \in Nat
          /\ \A i \in 1 .. Len(rest) : /\ i < c + 1 => rest[i] = behind[i]
                                       /\ i >= c + 1 => rest[i] = behind[i + 1]
    BY <1>3, Removed
<1> DEFINE m == Len(rest)
<1>9. Splits(l, c + 1, u, rest)' /\ c + 1 \in 1 .. Len(queue'[l])
    BY <1>3, <1>5, <1>8, SplitsBehind
<1>10. /\ spin[t] # 0
       /\ \A i \in 1 .. n : spin[behind[i]] = 0 /\ l \notin held[behind[i]]
       /\ \A i \in 1 .. n : pc[behind[i]] = "spin" => socket[behind[i]] # NoSocket
    BY DEF Queues, PassedOver
<1> HIDE DEF n, u, m
<1>11. /\ n = m + 1 /\ m \in Nat /\ c <= m
       /\ \A i \in 1 .. m : i <= c => rest[i] = behind[i]
       /\ \A i \in 1 .. m : i > c => rest[i] = behind[i + 1]
    BY <1>1, <1>3, <1>8 DEF m
<1>12. \A i \in 1 .. m : \E j \in 1 .. n : j # c + 1 /\ rest[i] = behind[j]
    <2> SUFFICES ASSUME NEW i \in 1 .. m
                 PROVE  \E j \in 1 .. n : j # c + 1 /\ rest[i] = behind[j]
        OBVIOUS
    <2>1. CASE i <= c
        <3>1. i \in 1 .. n /\ i # c + 1
            BY <1>3, <1>11, <2>1
        <3> QED
            BY <1>11, <2>1, <3>1
    <2>2. CASE i > c
        <3>1. i + 1 \in 1 .. n /\ i + 1 # c + 1
            BY <1>3, <1>11, <2>2
        <3> QED
            BY <1>11, <2>2, <3>1
    <2> QED
        BY <1>3, <2>1, <2>2
<1>13. \A i \in 1 .. m : rest[i] \in Threads /\ rest[i] # u /\ rest[i] # t
    BY <1>2, <1>3, <1>12 DEF n, u
<1>14. \A i \in 1 .. m : spin'[rest[i]] = 0 /\ l \notin held'[rest[i]]
    <2> SUFFICES ASSUME NEW i \in 1 .. m
                 PROVE  spin'[rest[i]] = 0 /\ l \notin held'[rest[i]]
        OBVIOUS
    <2>1. spin[rest[i]] = 0 /\ l \notin held[rest[i]]
        BY <1>10, <1>12
    <2> QED
        BY <1>5, <1>6, <1>13, <2>1
<1>15. u \in Threads /\ u # t /\ InLine(u, l)
    BY <1>2, <1>3 DEF n, u
<1>16. pc'[u] = "spin"
    BY <1>1, <1>5, <1>15
<1>17. SecondaryIs(u, rest, c)'
    <2>1. CASE c > 0
        <3>1. 1 \in 1 .. m /\ c \in 1 .. m /\ 1 <= c /\ c <= c
            BY <1>3, <1>11, <2>1
        <3>2. rest[1] = behind[1] /\ rest[c] = behind[c]
            BY <1>11, <3>1
        <3> QED
            BY <1>1, <1>6, <1>16, <2>1, <3>2 DEF SecondaryIs
    <2>2. CASE ~(c > 0)
        BY <1>1, <1>6, <1>16, <2>2 DEF SecondaryIs
    <2> QED
        BY <2>1, <2>2
<1>18. MainIs(l, u, rest, c)'
    <2>1. tail'[l] = behind[n] /\ next'[behind[n]] = Nil
        BY <1>1
    <2>2. CASE c = m
        <3>1. behind[n] = u
            BY <1>11, <2>2 DEF u
        <3> QED
            BY <2>1, <2>2, <3>1 DEF MainIs, m
    <2>3. CASE c # m
        <3>1. m \in 1 .. m /\ m > c /\ c + 1 \in 1 .. m /\ c + 1 > c /\ c + 1 < n /\ c + 1 # c
            BY <1>3, <1>11, <2>3
        <3>2. rest[m] = behind[n] /\ rest[c + 1] = behind[c + 1 + 1]
            BY <1>11, <3>1
        <3>3. Linked(behind[c + 1], behind[c + 1 + 1], l)'
            BY <1>1, <1>3, <3>1
        <3>4. Linked(u, rest[c + 1], l)'
            BY <3>2, <3>3 DEF u
        <3> QED
            BY <1>16, <2>1, <2>3, <3>2, <3>4 DEF MainIs, m
    <2> QED
        BY <2>2, <2>3
<1>19. ASSUME NEW i \in 1 .. m, i < m, i # c
       PROVE  Linked(rest[i], rest[i + 1], l)'
    <2>1. CASE i < c
        <3>1. i \in 1 .. n /\ i < n /\ i <= c /\ i + 1 \in 1 .. m /\ i + 1 <= c
            BY <1>3, <1>11, <1>19, <2>1
        <3>2. rest[i] = behind[i] /\ rest[i + 1] = behind[i + 1]
            BY <1>11, <3>1
        <3>3. Linked(behind[i], behind[i + 1], l)'
            BY <1>1, <1>19, <3>1
        <3> QED
            BY <3>2, <3>3
    <2>2. CASE i > c
        <3>1. /\ i + 1 \in 1 .. n /\ i + 1 < n /\ i + 1 # c
              /\ i + 1 \in 1 .. m /\ i + 1 > c
            BY <1>3, <1>11, <1>19, <2>2
        <3>2. rest[i] = behind[i + 1] /\ rest[i + 1] = behind[i + 1 + 1]
            BY <1>11, <2>2, <3>1
        <3>3. Linked(behind[i + 1], behind[i + 1 + 1], l)'
            BY <1>1, <3>1
        <3> QED
            BY <3>2, <3>3
    <2> QED
        BY <1>3, <1>19, <2>1, <2>2
<1>20. PassedOver(u, rest, c)'
    <2>1. \A i \in 1 .. m : pc'[rest[i]] = pc[rest[i]] /\ socket'[rest[i]] = socket[rest[i]]
        BY <1>5, <1>6, <1>13
    <2>2. \A i \in 1 .. m : pc[rest[i]] = "spin" => socket[rest[i]] # NoSocket
        BY <1>10, <1>12
    <2>3. \A i \in 1 .. m : i <= c => i \in 1 .. n
        BY <1>11
    <2>4. \A i \in 1 .. m : i <= c => pc[rest[i]] = "spin" /\ socket[rest[i]] # socket[u]
        BY <1>1, <1>11, <2>3
    <2>5. SortedBy(u)' = socket[u]
        BY <1>6, <1>15, <1>16 DEF SortedBy
    <2> QED
        BY <1>1, <1>16, <2>1, <2>2, <2>4, <2>5 DEF PassedOver, m
<1>21. Queues(l, u, rest, c)'
    <2>1. Found(u, rest, c)'
        BY <1>16 DEF Found
    <2>2. spin'[u] # 0
        BY <1>6, <1>7
    <2> QED
        BY <1>14, <1>17, <1>18, <1>19, <1>20, <2>1, <2>2 DEF Queues, m
<1>22. Line(l)'
    <2>1. c \in 0 .. Len(rest) /\ c + 1 <= c + 1
        BY <1>3, <1>11 DEF m
    <2> QED
        BY <1>9, <1>15, <1>21, <2>1 DEF Line
<1>23. OnlyOn(t, l)
    <2>1. Len(queue'[l]) # 0
        BY <1>2, <1>3, <1>5 DEF n
    <2>2. \A x \in Threads : ~InLine(x, l) /\ x # t => Same(x)
        BY <1>1, <1>5, <1>6, <1>15 DEF Same
    <2> QED
        BY <1>1, <1>5, <2>1, <2>2 DEF OnlyOn
<1> QED
    BY <1>5, <1>22, <1>23, LineOnly

(* Who is in line, linked and not inside is waiting for the lock.          *)
LEMMA Waits ==
    ASSUME Places, NEW u \in Threads, NEW l \in Locks, InLine(u, l), l \notin held[u],
           ~At(u, l, "link")
    PROVE  pc[u] = "spin"
PROOF
    BY OneLine DEF At

(* The socket of those moved to the secondary queue is not the successor's.*)
LEMMA PassesLocal ==
    ASSUME CNAInv, NEW t \in Threads, NEW l \in Locks, PassLocal(t, l)
    PROVE  CNAInv'
PROOF
<1>0. Places /\ Fields /\ Order
    BY DEF CNAInv
<1>1. /\ At(t, l, "passLocal")
      /\ PassTo(succ[t], t, l, spin[t])
      /\ next' = [next EXCEPT ![t] = Nil]
      /\ succ' = [succ EXCEPT ![t] = Nil]
      /\ tail' = tail /\ secTail' = secTail
    BY DEF PassLocal
<1>2. "passLocal" \in Leaving
    BY DEF Leaving
<1>3. /\ l \in held[t] /\ pc[t] = "passLocal" /\ InLine(t, l)
    BY <1>1, <1>2, Owner
<1>4. PICK behind \in Seq(Threads) : \E p \in 1 .. Len(queue[l]), k \in 0 .. Len(behind) :
          Splits(l, p, t, behind) /\ Queues(l, t, behind, k)
    BY <1>1, <1>2, Owner
<1>5. PICK p \in 1 .. Len(queue[l]), k \in 0 .. Len(behind) :
          Splits(l, p, t, behind) /\ Queues(l, t, behind, k)
    BY <1>4
<1>6. /\ Len(behind) \in Nat
      /\ \A i \in 1 .. Len(behind) : behind[i] \in Threads /\ behind[i] # t
    BY <1>0, <1>5, Behind
<1>7. k < Len(behind) /\ k # Len(behind)
    BY <1>3, <1>5, <1>6 DEF Queues, Found
<1>8. /\ k + 1 \in 1 .. Len(behind) /\ Len(behind) \in 1 .. Len(behind)
      /\ k > 0 => k \in 1 .. Len(behind) /\ 1 \in 1 .. Len(behind)
      /\ \A i \in 1 .. Len(behind) : i < Len(behind) => i + 1 \in 1 .. Len(behind)
    BY <1>6, <1>7
<1>9. succ[t] = behind[k + 1] /\ pc[behind[k + 1]] = "spin"
    BY <1>3, <1>5, <1>7 DEF Queues, MainIs, PassedOver
<1>10. /\ next'[t] = Nil /\ \A x \in Threads \ {t} : next'[x] = next[x]
       /\ \A x \in Threads \ {t} : succ'[x] = succ[x] /\ pc'[x] = pc[x] /\ arg'[x] = arg[x]
    BY <1>0, <1>1 DEF Fields, NodesTyped, Places, PassTo, Return
<1>11. NodesTyped'
    BY <1>0, <1>1, <1>6, <1>8, <1>9 DEF Fields, NodesTyped, PassTo
<1>12. /\ tail[l] = behind[Len(behind)] /\ next[behind[Len(behind)]] = Nil
       /\ spin[t] = IF k > 0 THEN behind[1] ELSE 1
       /\ k > 0 => secTail[behind[1]] = behind[k] /\ next[behind[k]] = Nil
       /\ k > 0 => socket[behind[k + 1]] # NoSocket
       /\ \A i \in 1 .. Len(behind) : i <= k =>
              pc[behind[i]] = "spin" /\ socket[behind[i]] # socket[behind[k + 1]]
       /\ \A i \in 1 .. Len(behind) :
              i < Len(behind) /\ i # k => Linked(behind[i], behind[i + 1], l)
    BY <1>3, <1>5, <1>7, <1>9 DEF Queues, MainIs, SecondaryIs, PassedOver, SortedBy
<1>13. ASSUME NEW i \in 1 .. Len(behind), i < Len(behind), i # k
       PROVE  Linked(behind[i], behind[i + 1], l)'
    <2>1. behind[i] \in Threads \ {t} /\ behind[i + 1] \in Threads \ {t}
        BY <1>6, <1>8, <1>13
    <2>2. Linked(behind[i], behind[i + 1], l)
        BY <1>12, <1>13
    <2> QED
        BY <1>10, <2>1, <2>2 DEF Linked, At
<1>14. Passing(l, t, behind, k, spin[t])
    <2>1. \A x \in Threads : ~InLine(x, l) =>
              next'[x] = next[x] /\ secTail'[x] = secTail[x] /\ succ'[x] = succ[x]
        BY <1>1, <1>3, <1>10
    <2> QED
        BY <1>1, <1>6, <1>7, <1>8, <1>9, <1>10, <1>12, <1>13, <2>1 DEF Passing
<1> QED
    BY <1>3, <1>5, <1>11, <1>14, Passed

(* The secondary queue has become the main queue, and its head is next.    *)
LEMMA WakesSecondary ==
    ASSUME CNAInv, NEW t \in Threads, NEW l \in Locks, WakeSecondary(t, l)
    PROVE  CNAInv'
PROOF
<1>0. Places /\ Fields /\ Order
    BY DEF CNAInv
<1>1. /\ At(t, l, "wakeSecondary")
      /\ PassTo(spin[t], t, l, 1)
      /\ secTail' = [secTail EXCEPT ![spin[t]] = Nil]
      /\ tail' = tail /\ next' = next /\ succ' = succ
    BY DEF WakeSecondary
<1>2. "wakeSecondary" \in Leaving
    BY DEF Leaving
<1>3. /\ l \in held[t] /\ pc[t] = "wakeSecondary" /\ InLine(t, l)
    BY <1>1, <1>2, Owner
<1>4. PICK behind \in Seq(Threads) : \E p \in 1 .. Len(queue[l]), k \in 0 .. Len(behind) :
          Splits(l, p, t, behind) /\ Queues(l, t, behind, k)
    BY <1>1, <1>2, Owner
<1>5. PICK p \in 1 .. Len(queue[l]), k \in 0 .. Len(behind) :
          Splits(l, p, t, behind) /\ Queues(l, t, behind, k)
    BY <1>4
<1>6. /\ Len(behind) \in Nat
      /\ \A i \in 1 .. Len(behind) :
             behind[i] \in Threads /\ behind[i] # t /\ InLine(behind[i], l)
    BY <1>0, <1>5, Behind
<1>7. k < Len(behind) /\ k = 0
    BY <1>3, <1>5, <1>6 DEF Queues, Found, SecondaryIs
<1>8. /\ 0 + 1 = 1 /\ ~(0 > 0)
      /\ 1 \in 1 .. Len(behind) /\ Len(behind) \in 1 .. Len(behind)
      /\ 0 \in 0 .. Len(behind) /\ 0 < Len(behind)
      /\ \A i \in 1 .. Len(behind) : ~(i <= 0)
      /\ \A i \in 1 .. Len(behind) : i < Len(behind) => i + 1 \in 1 .. Len(behind)
    BY <1>6, <1>7
<1>9. spin[t] = behind[1] /\ pc[behind[1]] = "spin"
    BY <1>3, <1>5, <1>7 DEF Queues, SecondaryIs, PassedOver
<1>10. /\ \A x \in Threads \ {t} : pc'[x] = pc[x] /\ arg'[x] = arg[x]
       /\ \A x \in Threads : x # behind[1] => secTail'[x] = secTail[x]
    BY <1>0, <1>1, <1>9 DEF Fields, NodesTyped, Places, PassTo, Return
<1>11. NodesTyped'
    BY <1>0, <1>1, <1>6, <1>8, <1>9 DEF Fields, NodesTyped, PassTo
<1>12. tail[l] = behind[Len(behind)] /\ next[behind[Len(behind)]] = Nil
    BY <1>5, <1>7 DEF Queues, MainIs
<1>13. \A i \in 1 .. Len(behind) :
           i < Len(behind) /\ i # 0 => Linked(behind[i], behind[i + 1], l)'
    <2>1. \A i \in 1 .. Len(behind) :
              i < Len(behind) /\ i # 0 => Linked(behind[i], behind[i + 1], l)
        BY <1>5, <1>7 DEF Queues
    <2> QED
        BY <1>1, <1>6, <1>8, <1>10, <2>1 DEF Linked, At
<1>14. Passing(l, t, behind, 0, 1)
    <2>1. \A x \in Threads : ~InLine(x, l) =>
              next'[x] = next[x] /\ secTail'[x] = secTail[x] /\ succ'[x] = succ[x]
        BY <1>1, <1>6, <1>8, <1>10
    <2> QED
        BY <1>1, <1>8, <1>9, <1>12, <1>13, <2>1 DEF Passing
<1> QED
    BY <1>3, <1>5, <1>11, <1>14, Passed

(* The head of the secondary queue is next, and the main queue is linked   *)
(* to its tail; without one the head of the main queue is next.            *)
LEMMA PassesGlobal ==
    ASSUME CNAInv, NEW t \in Threads, NEW l \in Locks, PassSecondary(t, l) \/ PassMain(t, l)
    PROVE  CNAInv'
PROOF
<1>0. Places /\ Fields /\ Order
    BY DEF CNAInv
<1>1. At(t, l, "pass") /\ tail' = tail /\ succ' = succ
    BY DEF PassSecondary, PassMain
<1>2. "pass" \in Leaving
    BY DEF Leaving
<1>3. /\ l \in held[t] /\ pc[t] = "pass" /\ InLine(t, l)
    BY <1>1, <1>2, Owner
<1>4. PICK behind \in Seq(Threads) : \E p \in 1 .. Len(queue[l]), k \in 0 .. Len(behind) :
          Splits(l, p, t, behind) /\ Queues(l, t, behind, k)
    BY <1>1, <1>2, Owner
<1>5. PICK p \in 1 .. Len(queue[l]), k \in 0 .. Len(behind) :
          Splits(l, p, t, behind) /\ Queues(l, t, behind, k)
    BY <1>4
<1>6. /\ Len(behind) \in Nat /\ k \in Nat
      /\ \A i \in 1 .. Len(behind) :
             behind[i] \in Threads /\ behind[i] # t /\ InLine(behind[i], l)
      /\ \A i, j \in 1 .. Len(behind) : behind[i] = behind[j] => i = j
    BY <1>0, <1>5, Behind
<1>7. k < Len(behind) /\ k # Len(behind) /\ next[t] # Nil
    BY <1>3, <1>5, <1>6 DEF Queues, Found
<1>8. /\ 0 + 1 = 1 /\ ~(0 > 0)
      /\ 1 \in 1 .. Len(behind) /\ Len(behind) \in 1 .. Len(behind)
      /\ 0 \in 0 .. Len(behind) /\ 0 < Len(behind)
      /\ k + 1 \in 1 .. Len(behind) /\ (k > 0 => k \in 1 .. Len(behind))
      /\ \A i \in 1 .. Len(behind) : ~(i <= 0)
      /\ \A i \in 1 .. Len(behind) : i < Len(behind) => i + 1 \in 1 .. Len(behind)
    BY <1>6, <1>7
<1>9. next[t] = behind[k + 1] /\ ~At(behind[k + 1], l, "link")
    BY <1>3, <1>5, <1>7 DEF Queues, MainIs, Linked
<1>10. /\ SecondaryEmpty(t) <=> k = 0
       /\ k > 0 => spin[t] = behind[1] /\ secTail[behind[1]] = behind[k] /\ next[behind[k]] = Nil
    <2>1. k > 0 => spin[t] = behind[1] /\ secTail[behind[1]] = behind[k] /\ next[behind[k]] = Nil
        BY <1>5 DEF Queues, SecondaryIs
    <2>2. k = 0 => spin[t] = 1
        BY <1>3, <1>5 DEF Queues, SecondaryIs
    <2>3. k > 0 => spin[t] # 1
        BY <1>6, <1>8, <2>1, CNAAssumption
    <2> QED
        BY <1>6, <2>1, <2>2, <2>3 DEF SecondaryEmpty
<1>11. tail[l] = behind[Len(behind)] /\ next[behind[Len(behind)]] = Nil
    BY <1>5, <1>7 DEF Queues, MainIs
<1>12. /\ PassTo(behind[1], t, l, 1)
       /\ pc[behind[1]] = "spin"
    <2>1. CASE k = 0
        <3>1. PassTo(behind[1], t, l, 1)
            BY <1>9, <1>10, <2>1 DEF PassSecondary, PassMain
        <3>2. InLine(behind[1], l) /\ l \notin held[behind[1]] /\ ~At(behind[1], l, "link")
            BY <1>5, <1>6, <1>8, <1>9, <2>1 DEF Queues
        <3> QED
            BY <1>0, <1>6, <1>8, <3>1, <3>2, Waits
    <2>2. CASE k # 0
        <3>1. PassTo(behind[1], t, l, 1)
            BY <1>6, <1>10, <2>2 DEF PassSecondary, PassMain
        <3>2. pc[behind[1]] = "spin"
            BY <1>5, <1>6, <1>8, <2>2 DEF Queues, PassedOver
        <3> QED
            BY <3>1, <3>2
    <2> QED
        BY <2>1, <2>2
<1>13. \A x \in Threads \ {t} : pc'[x] = pc[x] /\ arg'[x] = arg[x]
    BY <1>0, <1>12 DEF Places, PassTo, Return
<1>14. /\ NodesTyped'
       /\ \A x \in Threads : x # behind[1] => secTail'[x] = secTail[x]
       /\ k > 0 => next'[behind[k]] = behind[k + 1]
       /\ \A x \in Threads : x # t /\ (k = 0 \/ x # behind[k]) => next'[x] = next[x]
    <2>1. CASE k = 0
        <3>1. next' = [next EXCEPT ![t] = Nil] /\ secTail' = secTail
            BY <1>10, <2>1 DEF PassSecondary, PassMain
        <3> QED
            BY <1>0, <1>1, <1>6, <1>8, <1>12, <2>1, <3>1 DEF Fields, NodesTyped, PassTo
    <2>2. CASE k > 0
        <3>1. /\ next' = [next EXCEPT ![behind[k]] = behind[k + 1], ![t] = Nil]
              /\ secTail' = [secTail EXCEPT ![behind[1]] = Nil]
            BY <1>9, <1>10, <2>2 DEF PassSecondary, PassMain
        <3>2. behind[k] \in Threads /\ behind[k] # t /\ behind[k + 1] \in Threads
            BY <1>6, <1>8, <2>2
        <3>3. NodesTyped'
            BY <1>0, <1>1, <1>6, <1>8, <1>12, <3>1, <3>2 DEF Fields, NodesTyped, PassTo
        <3> QED
            BY <1>0, <2>2, <3>1, <3>2, <3>3 DEF Fields, NodesTyped
    <2> QED
        BY <1>6, <2>1, <2>2
<1>15. next'[behind[Len(behind)]] = Nil
    <2>1. k > 0 => behind[k] # behind[Len(behind)]
        BY <1>6, <1>7, <1>8
    <2> QED
        BY <1>6, <1>8, <1>11, <1>14, <2>1
<1>16. ASSUME NEW i \in 1 .. Len(behind), i < Len(behind)
       PROVE  Linked(behind[i], behind[i + 1], l)'
    <2>1. behind[i] \in Threads \ {t} /\ behind[i + 1] \in Threads \ {t}
        BY <1>6, <1>8, <1>16
    <2>2. CASE i = k
        <3>1. k > 0
            BY <1>6, <2>2
        <3> QED
            BY <1>9, <1>13, <1>14, <2>1, <2>2, <3>1 DEF Linked, At
    <2>3. CASE i # k
        <3>1. Linked(behind[i], behind[i + 1], l)
            BY <1>5, <1>16, <2>3 DEF Queues
        <3>2. k = 0 \/ behind[i] # behind[k]
            BY <1>6, <1>8, <2>3
        <3>3. next'[behind[i]] = next[behind[i]]
            BY <1>14, <2>1, <3>2
        <3> QED
            BY <1>1, <1>13, <2>1, <3>1, <3>3 DEF Linked, At
    <2> QED
        BY <2>2, <2>3
<1>17. Passing(l, t, behind, 0, 1)
    <2>1. \A x \in Threads : ~InLine(x, l) =>
              next'[x] = next[x] /\ secTail'[x] = secTail[x] /\ succ'[x] = succ[x]
        <3>1. k > 0 => InLine(behind[k], l)
            BY <1>6, <1>8
        <3>2. k = 0 \/ k > 0
            BY <1>6
        <3>3. InLine(behind[1], l)
            BY <1>6, <1>8
        <3> QED
            BY <1>1, <1>3, <1>14, <3>1, <3>2, <3>3
    <2> QED
        BY <1>1, <1>8, <1>11, <1>12, <1>15, <1>16, <2>1 DEF Passing
<1> QED
    BY <1>3, <1>5, <1>14, <1>17, Passed

(* A set of natural numbers has a least element.                           *)
LEMMA Least ==
    ASSUME NEW S \in SUBSET Nat, S # {}
    PROVE  \E x \in S : \A y \in S : x <= y
PROOF
<1>1. PICK x \in S : \A y \in S : ~(<< y, x >> \in OpToRel(<, Nat))
    BY NatLessThanWellFounded, WFMin
<1>2. \A y \in S : ~(y < x)
    BY <1>1 DEF OpToRel
<1> QED
    BY <1>2

(* The walk of find_successor goes along the main queue.                   *)
Walk(t, last, path) ==
    /\ last \in Nat \ {0}
    /\ path \in [1 .. last -> Threads]
    /\ path[1] = next[t]
    /\ \A i \in 2 .. last : path[i] = next[path[i - 1]]

LEMMA Walks ==
    ASSUME CNAInv, NEW t \in Threads, NEW l \in Locks, At(t, l, "find"),
           NEW behind \in Seq(Threads), NEW p \in 1 .. Len(queue[l]),
           NEW k \in 0 .. Len(behind),
           Splits(l, p, t, behind), Queues(l, t, behind, k),
           NEW last, NEW path, Walk(t, last, path)
    PROVE  \A i \in 1 .. last :
               /\ k + i \in 1 .. Len(behind)
               /\ path[i] = behind[k + i]
               /\ pc[behind[k + i]] = "spin"
PROOF
<1>0. Places
    BY DEF CNAInv
<1>1. /\ Len(behind) \in Nat /\ k \in Nat
      /\ \A i \in 1 .. Len(behind) : behind[i] \in Threads /\ InLine(behind[i], l)
    BY <1>0, Behind
<1>2. pc[t] = "find"
    BY DEF At
<1>3. k < Len(behind) /\ k # Len(behind) /\ next[t] # Nil
    BY <1>1, <1>2 DEF Queues, Found
<1>4. next[behind[Len(behind)]] = Nil
    BY <1>3 DEF Queues, MainIs
<1>5. \A i \in 1 .. Len(behind) : l \notin held[behind[i]]
    BY DEF Queues
<1>6. \A i \in 1 .. Len(behind) : ~At(behind[i], l, "link") => pc[behind[i]] = "spin"
    BY <1>0, <1>1, <1>5, Waits
<1>7. /\ last \in Nat \ {0}
      /\ path \in [1 .. last -> Threads]
      /\ path[1] = next[t]
      /\ \A i \in 2 .. last : path[i] = next[path[i - 1]]
    BY DEF Walk
<1> DEFINE Follows(i) == /\ k + i \in 1 .. Len(behind)
                         /\ path[i] = behind[k + i]
                         /\ pc[behind[k + i]] = "spin"
           Strays == { i \in 1 .. last : ~Follows(i) }
<1>8. Follows(1)
    <2>1. Linked(t, behind[k + 1], l)
        BY <1>2, <1>3 DEF Queues, MainIs
    <2>2. k + 1 \in 1 .. Len(behind)
        BY <1>1, <1>3
    <2> QED
        BY <1>3, <1>6, <1>7, <2>1, <2>2 DEF Linked
<1>9. ASSUME NEW i \in 2 .. last, Follows(i - 1)
      PROVE  Follows(i)
    <2>1. /\ k + (i - 1) \in 1 .. Len(behind) /\ k + (i - 1) # k
          /\ k + (i - 1) + 1 = k + i /\ i \in 1 .. last
        BY <1>1, <1>9, <1>7
    <2>2. path[i] = next[behind[k + (i - 1)]] /\ path[i] # Nil
        BY <1>9, <1>7, <2>1, CallerAssumption
    <2>3. k + (i - 1) < Len(behind)
        BY <1>1, <1>4, <2>1, <2>2
    <2>4. k + i \in 1 .. Len(behind)
        BY <1>1, <1>9, <2>3
    <2>5. Linked(behind[k + (i - 1)], behind[k + i], l)
        BY <2>1, <2>3 DEF Queues
    <2> QED
        BY <1>6, <2>2, <2>4, <2>5 DEF Linked
<1> HIDE DEF Follows
<1>10. Strays = {}
    <2> SUFFICES ASSUME Strays # {} PROVE FALSE
        OBVIOUS
    <2>1. Strays \in SUBSET Nat
        BY <1>7
    <2>2. PICK x \in Strays : \A y \in Strays : x <= y
        BY <2>1, Least
    <2>3. x \in 1 .. last /\ ~Follows(x) /\ x # 1
        BY <1>8, <1>7, <2>2
    <2>4. x \in 2 .. last /\ x - 1 \in 1 .. last /\ ~(x <= x - 1)
        BY <1>7, <2>3
    <2>5. Follows(x - 1)
        BY <2>2, <2>4
    <2> QED
        BY <1>9, <2>3, <2>4, <2>5
<1> QED
    BY <1>10 DEF Follows

(* No thread on the main queue is on the socket.                           *)
LEMMA FindsNone ==
    ASSUME CNAInv, NEW t \in Threads, NEW l \in Locks, At(t, l, "find"),
           Goto(t, "pass"), Stay, UNCHANGED cnaVars
    PROVE  CNAInv'
PROOF
<1>0. Places
    BY DEF CNAInv
<1>1. "find" \in Leaving /\ "find" \in Quiet /\ "pass" \in Quiet
    BY DEF Leaving, Quiet
<1>2. l \in held[t] /\ pc[t] = "find" /\ InLine(t, l)
    BY <1>1, Owner
<1>3. next[t] # Nil
    BY <1>2, OwnerOf DEF Queues, Found
<1>4. pc' = [pc EXCEPT ![t] = "pass"] /\ arg' = [arg EXCEPT ![t] = l]
    BY <1>0 DEF Goto, At, Places
<1> QED
    BY <1>1, <1>2, <1>3, <1>4, GoesOn

(* What find_successor does to the nodes when the last of the path is on   *)
(* the socket s.                                                           *)
Finds(t, l, s, last, path) ==
    /\ At(t, l, "find")
    /\ s \in IF socket[t] = NoSocket THEN current_numa_node ELSE {socket[t]}
    /\ Walk(t, last, path)
    /\ \A i \in 1 .. last - 1 : socket[path[i]] # s
    /\ socket[path[last]] = s
    /\ succ' = [succ EXCEPT ![t] = path[last]]
    /\ Goto(t, "passLocal")
    /\ IF last = 1 THEN UNCHANGED << next, spin, secTail >>
       ELSE MoveToSecondary(t, path[1], path[last - 1])
    /\ Stay
    /\ UNCHANGED << tail, socket >>

(* The nodes moved are linked behind the secondary queue of the first k.   *)
LEMMA Moved ==
    ASSUME CNAInv, NEW t \in Threads, NEW l \in Locks, NEW s, NEW last, NEW path,
           Finds(t, l, s, last, path),
           NEW behind \in Seq(Threads), NEW p \in 1 .. Len(queue[l]),
           NEW k \in 0 .. Len(behind),
           Splits(l, p, t, behind), Queues(l, t, behind, k)
    PROVE  /\ NodesTyped'
           /\ \A x \in Threads : ~InLine(x, l) =>
                  next'[x] = next[x] /\ spin'[x] = spin[x] /\ secTail'[x] = secTail[x]
           /\ spin'[t] # 0
           /\ \A i \in 1 .. Len(behind) : spin'[behind[i]] = 0
           /\ next'[t] = next[t]
           /\ next'[behind[Len(behind)]] = Nil
           /\ k + last - 1 > 0 => /\ spin'[t] = behind[1]
                                  /\ secTail'[behind[1]] = behind[k + last - 1]
                                  /\ next'[behind[k + last - 1]] = Nil
           /\ ~(k + last - 1 > 0) => spin'[t] = 1
           /\ \A i \in 1 .. Len(behind) : i < Len(behind) /\ i # k + last - 1 =>
                  \/ next'[behind[i]] = next[behind[i]] /\ Linked(behind[i], behind[i + 1], l)
                  \/ next'[behind[i]] = behind[i + 1] /\ pc[behind[i + 1]] = "spin"
PROOF
<1>0. Places /\ Fields
    BY DEF CNAInv
<1>1. /\ Len(behind) \in Nat /\ k \in Nat /\ InLine(t, l)
      /\ \A i \in 1 .. Len(behind) :
             behind[i] \in Threads /\ behind[i] # t /\ InLine(behind[i], l)
      /\ \A i, j \in 1 .. Len(behind) : behind[i] = behind[j] => i = j
    BY <1>0, Behind
<1>2. pc[t] = "find"
    BY DEF Finds, At
<1>3. /\ last \in Nat \ {0}
      /\ \A i \in 1 .. last :
             /\ k + i \in 1 .. Len(behind)
             /\ path[i] = behind[k + i]
             /\ pc[behind[k + i]] = "spin"
    <2>1. At(t, l, "find") /\ Walk(t, last, path)
        BY DEF Finds
    <2>2. \A i \in 1 .. last :
              /\ k + i \in 1 .. Len(behind)
              /\ path[i] = behind[k + i]
              /\ pc[behind[k + i]] = "spin"
        BY <2>1, Walks
    <2>3. last \in Nat \ {0}
        BY <2>1 DEF Walk
    <2> QED
        BY <2>2, <2>3
<1>4. /\ k + last \in 1 .. Len(behind) /\ k + 1 \in 1 .. Len(behind)
      /\ pc[behind[k + 1]] = "spin"
      /\ k # Len(behind) /\ Len(behind) \in 1 .. Len(behind)
      /\ k > 0 => k \in 1 .. Len(behind) /\ 1 \in 1 .. Len(behind)
    BY <1>1, <1>3
<1>5. /\ spin[t] # 0
      /\ \A i \in 1 .. Len(behind) : spin[behind[i]] = 0
      /\ next[behind[Len(behind)]] = Nil
      /\ k > 0 => /\ spin[t] = behind[1]
                  /\ secTail[behind[1]] = behind[k] /\ next[behind[k]] = Nil
      /\ ~(k > 0) => spin[t] = 1
      /\ \A i \in 1 .. Len(behind) :
             i < Len(behind) /\ i # k => Linked(behind[i], behind[i + 1], l)
    BY <1>2, <1>4 DEF Queues, SecondaryIs, MainIs
<1>6. /\ path[last] \in Threads /\ succ' = [succ EXCEPT ![t] = path[last]]
      /\ tail' = tail /\ socket' = socket
    BY <1>3 DEF Finds, Walk
<1>7. CASE last = 1
    <2>1. next' = next /\ spin' = spin /\ secTail' = secTail
        BY <1>7 DEF Finds
    <2>2. k + last - 1 = k
        BY <1>1, <1>7
    <2>3. NodesTyped'
        BY <1>0, <1>6, <2>1 DEF Fields, NodesTyped
    <2> QED
        BY <1>5, <2>1, <2>2, <2>3
<1>8. CASE last # 1
    <2> DEFINE c == k + last - 1
    <2>1. /\ last - 1 \in 1 .. last /\ 1 \in 1 .. last
          /\ k + (last - 1) = c /\ c \in 1 .. Len(behind) /\ c > 0 /\ c > k /\ c < Len(behind)
          /\ 1 \in 1 .. Len(behind)
        BY <1>1, <1>3, <1>4, <1>8
    <2>2. path[1] = behind[k + 1] /\ path[last - 1] = behind[c]
        BY <1>3, <2>1
    <2> HIDE DEF c
    <2>3. MoveToSecondary(t, behind[k + 1], behind[c])
        BY <1>8, <2>2 DEF Finds
    <2>4. SecondaryEmpty(t) <=> k = 0
        BY <1>1, <1>4, <1>5, CNAAssumption DEF SecondaryEmpty
    <2>5. /\ behind[c] \in Threads /\ behind[c] # t /\ InLine(behind[c], l)
          /\ behind[1] \in Threads /\ behind[1] # t /\ InLine(behind[1], l)
          /\ behind[k + 1] \in Threads
          /\ behind[c] # behind[Len(behind)]
          /\ \A i \in 1 .. Len(behind) : i # c => behind[i] # behind[c]
        BY <1>1, <1>4, <2>1
    <2>6. CASE k = 0
        <3>1. /\ spin' = [spin EXCEPT ![t] = behind[1]]
              /\ next' = [next EXCEPT ![behind[c]] = Nil]
              /\ secTail' = [secTail EXCEPT ![behind[1]] = behind[c]]
            BY <2>3, <2>4, <2>6 DEF MoveToSecondary
        <3>2. NodesTyped'
            BY <1>0, <1>6, <2>5, <3>1 DEF Fields, NodesTyped
        <3>3. /\ spin'[t] = behind[1] /\ \A x \in Threads \ {t} : spin'[x] = spin[x]
              /\ next'[behind[c]] = Nil
              /\ \A x \in Threads : x # behind[c] => next'[x] = next[x]
              /\ secTail'[behind[1]] = behind[c]
              /\ \A x \in Threads : x # behind[1] => secTail'[x] = secTail[x]
            BY <1>0, <2>5, <3>1 DEF Fields, NodesTyped
        <3>4. behind[1] # 0
            BY <2>5, CNAAssumption
        <3>5. ASSUME NEW i \in 1 .. Len(behind), i < Len(behind), i # c
              PROVE  next'[behind[i]] = next[behind[i]] /\ Linked(behind[i], behind[i + 1], l)
            <4>1. i # k
                BY <1>1, <2>6
            <4> QED
                BY <1>1, <1>5, <2>5, <3>3, <3>5, <4>1
        <3>6. /\ next'[behind[Len(behind)]] = Nil
              /\ \A i \in 1 .. Len(behind) : spin'[behind[i]] = 0
            <4>1. next'[behind[Len(behind)]] = Nil
                BY <1>1, <1>4, <1>5, <2>5, <3>3
            <4>2. \A i \in 1 .. Len(behind) : spin'[behind[i]] = 0
                BY <1>1, <1>5, <3>3
            <4> QED
                BY <4>1, <4>2
        <3>7. \A x \in Threads : ~InLine(x, l) =>
                  next'[x] = next[x] /\ spin'[x] = spin[x] /\ secTail'[x] = secTail[x]
            BY <1>1, <2>5, <3>3
        <3>8. next'[t] = next[t]
            BY <2>5, <3>3
        <3> QED
            BY <2>1, <3>2, <3>3, <3>4, <3>5, <3>6, <3>7, <3>8 DEF c
    <2>7. CASE k # 0
        <3>1. /\ k > 0 /\ k # c /\ behind[k] \in Threads /\ behind[k] # t
              /\ InLine(behind[k], l)
              /\ behind[k] # behind[c] /\ behind[k] # behind[Len(behind)]
              /\ \A i \in 1 .. Len(behind) : i # k => behind[i] # behind[k]
            <4>1. k > 0 /\ k # c /\ k \in 1 .. Len(behind)
                BY <1>1, <1>4, <2>1, <2>7
            <4>2. \A i \in 1 .. Len(behind) : i # k => behind[i] # behind[k]
                BY <1>1, <4>1
            <4> QED
                BY <1>1, <1>4, <2>1, <4>1, <4>2
        <3>2. /\ spin' = [spin EXCEPT ![t] = behind[1]]
              /\ next' = [next EXCEPT ![behind[k]] = behind[k + 1], ![behind[c]] = Nil]
              /\ secTail' = [secTail EXCEPT ![behind[1]] = behind[c]]
            BY <1>5, <2>3, <2>4, <2>7, <3>1 DEF MoveToSecondary
        <3>3. NodesTyped'
            BY <1>0, <1>6, <2>5, <3>1, <3>2 DEF Fields, NodesTyped
        <3>4. /\ spin'[t] = behind[1] /\ \A x \in Threads \ {t} : spin'[x] = spin[x]
              /\ next'[behind[c]] = Nil /\ next'[behind[k]] = behind[k + 1]
              /\ \A x \in Threads : x # behind[c] /\ x # behind[k] => next'[x] = next[x]
              /\ secTail'[behind[1]] = behind[c]
              /\ \A x \in Threads : x # behind[1] => secTail'[x] = secTail[x]
            BY <1>0, <2>5, <3>1, <3>2 DEF Fields, NodesTyped
        <3>5. behind[1] # 0
            BY <2>5, CNAAssumption
        <3>6. ASSUME NEW i \in 1 .. Len(behind), i < Len(behind), i # c
              PROVE  \/ next'[behind[i]] = next[behind[i]] /\ Linked(behind[i], behind[i + 1], l)
                     \/ next'[behind[i]] = behind[i + 1] /\ pc[behind[i + 1]] = "spin"
            <4>1. CASE i = k
                BY <1>4, <3>4, <4>1
            <4>2. CASE i # k
                BY <1>1, <1>5, <2>5, <3>1, <3>4, <3>6, <4>2
            <4> QED
                BY <4>1, <4>2
        <3>7. /\ next'[behind[Len(behind)]] = Nil
              /\ \A i \in 1 .. Len(behind) : spin'[behind[i]] = 0
            BY <1>1, <1>4, <1>5, <2>5, <3>1, <3>4
        <3>8. \A x \in Threads : ~InLine(x, l) =>
                  next'[x] = next[x] /\ spin'[x] = spin[x] /\ secTail'[x] = secTail[x]
            BY <1>1, <2>5, <3>1, <3>4
        <3>9. next'[t] = next[t]
            BY <2>5, <3>1, <3>4
        <3> QED
            BY <2>1, <3>3, <3>4, <3>5, <3>6, <3>7, <3>8, <3>9 DEF c
    <2> QED
        BY <2>6, <2>7
<1> QED
    BY <1>7, <1>8

(* The first thread on the socket is next; those before it in the main     *)
(* queue are the end of the secondary queue.                               *)
LEMMA FindsOne ==
    ASSUME CNAInv, NEW t \in Threads, NEW l \in Locks, NEW s, NEW last, NEW path,
           Finds(t, l, s, last, path)
    PROVE  CNAInv'
PROOF
<1>0. Places /\ Fields /\ Order
    BY DEF CNAInv
<1>1. /\ At(t, l, "find") /\ Walk(t, last, path)
      /\ s \in IF socket[t] = NoSocket THEN current_numa_node ELSE {socket[t]}
      /\ \A i \in 1 .. last - 1 : socket[path[i]] # s
      /\ socket[path[last]] = s
      /\ succ' = [succ EXCEPT ![t] = path[last]]
      /\ pc' = [pc EXCEPT ![t] = "passLocal"] /\ arg' = arg
      /\ held' = held /\ queue' = queue
      /\ tail' = tail /\ socket' = socket
    BY DEF Finds, Goto, Stay
<1>2. "find" \in Leaving
    BY DEF Leaving
<1>3. /\ l \in held[t] /\ pc[t] = "find" /\ InLine(t, l)
      /\ \A m \in Locks \ {l} : ~InLine(t, m)
    BY <1>1, <1>2, Owner
<1>4. PICK behind \in Seq(Threads) : \E p \in 1 .. Len(queue[l]), k \in 0 .. Len(behind) :
          /\ Splits(l, p, t, behind)
          /\ Queues(l, t, behind, k)
          /\ p <= k + 1 \/ pc[t] = "wakeSecondary"
    BY <1>1, <1>2, Owner
<1>5. PICK p \in 1 .. Len(queue[l]), k \in 0 .. Len(behind) :
          /\ Splits(l, p, t, behind)
          /\ Queues(l, t, behind, k)
          /\ p <= k + 1 \/ pc[t] = "wakeSecondary"
    BY <1>4
<1>6. /\ Len(behind) \in Nat /\ k \in Nat
      /\ \A i \in 1 .. Len(behind) : behind[i] \in Threads /\ behind[i] # t
    BY <1>0, <1>5, Behind
<1>7. p \in Nat /\ p <= k + 1
    BY <1>0, <1>3, <1>5, LineType
<1>8. last \in Nat \ {0}
    BY <1>1 DEF Walk
<1>9. \A i \in 1 .. last :
          /\ k + i \in 1 .. Len(behind)
          /\ path[i] = behind[k + i]
          /\ pc[behind[k + i]] = "spin"
    BY <1>1, <1>5, Walks
<1>10. /\ NodesTyped'
       /\ \A x \in Threads : ~InLine(x, l) =>
              next'[x] = next[x] /\ spin'[x] = spin[x] /\ secTail'[x] = secTail[x]
       /\ spin'[t] # 0
       /\ \A i \in 1 .. Len(behind) : spin'[behind[i]] = 0
       /\ next'[t] = next[t]
       /\ next'[behind[Len(behind)]] = Nil
       /\ k + last - 1 > 0 => /\ spin'[t] = behind[1]
                              /\ secTail'[behind[1]] = behind[k + last - 1]
                              /\ next'[behind[k + last - 1]] = Nil
       /\ ~(k + last - 1 > 0) => spin'[t] = 1
       /\ \A i \in 1 .. Len(behind) : i < Len(behind) /\ i # k + last - 1 =>
              \/ next'[behind[i]] = next[behind[i]] /\ Linked(behind[i], behind[i + 1], l)
              \/ next'[behind[i]] = behind[i + 1] /\ pc[behind[i + 1]] = "spin"
    BY <1>5, Moved
<1> DEFINE c == k + last - 1
<1>11. /\ c \in 0 .. Len(behind) /\ c < Len(behind) /\ c # Len(behind) /\ c + 1 = k + last
       /\ k <= c /\ last \in 1 .. last
       /\ \A i \in 1 .. Len(behind) : i < Len(behind) => i + 1 \in 1 .. Len(behind)
       /\ \A i \in 1 .. Len(behind) : i <= c /\ ~(i <= k) =>
              i - k \in 1 .. last - 1 /\ i - k \in 1 .. last
    BY <1>6, <1>8, <1>9
<1>12. /\ path[last] = behind[c + 1] /\ pc[behind[c + 1]] = "spin"
       /\ behind[c + 1] \in Threads /\ behind[c + 1] # t
    BY <1>6, <1>9, <1>11
<1>13. /\ succ'[t] = behind[c + 1] /\ pc'[t] = "passLocal"
       /\ \A x \in Threads \ {t} : succ'[x] = succ[x] /\ pc'[x] = pc[x]
    BY <1>0, <1>1, <1>12 DEF Fields, NodesTyped, Places
<1>14. Places'
    <2>1. held' = [held EXCEPT ![t] = {l}] /\ arg' = [arg EXCEPT ![t] = l]
        BY <1>0, <1>1, <1>3, OneLine DEF Places, At
    <2>2. Moves(t, "passLocal", l, {l})
        BY <1>1, <2>1, CallerAssumption DEF Moves, Coming, Leaving
    <2>3. LinesMove(t, "passLocal", l, {l})
        BY <1>0, <1>1, <1>3, LinesStay DEF LinesMove
    <2> QED
        BY <1>0, <2>2, <2>3, PlacesMove
<1>15. OnlyOn(t, l)
    <2>1. Len(queue'[l]) # 0
        BY <1>0, <1>1, <1>3, LineType DEF InLine
    <2> QED
        BY <1>1, <1>3, <1>10, <1>13, <2>1 DEF OnlyOn, Same
<1> HIDE DEF c
<1>16. Queues(l, t, behind, c)'
    <2>1. \A i \in 1 .. Len(behind) : l \notin held'[behind[i]]
        BY <1>1, <1>5 DEF Queues
    <2>2. SecondaryIs(t, behind, c)'
        BY <1>10, <1>13 DEF SecondaryIs, c
    <2>3. MainIs(l, t, behind, c)'
        <3>1. tail[l] = behind[Len(behind)]
            BY <1>5, <1>6, <1>11 DEF Queues, MainIs
        <3> QED
            BY <1>1, <1>10, <1>11, <1>13, <3>1 DEF MainIs
    <2>4. ASSUME NEW i \in 1 .. Len(behind), i < Len(behind), i # c
          PROVE  Linked(behind[i], behind[i + 1], l)'
        <3>1. behind[i] \in Threads \ {t} /\ behind[i + 1] \in Threads \ {t}
            BY <1>6, <1>11, <2>4
        <3>2. \/ next'[behind[i]] = next[behind[i]] /\ Linked(behind[i], behind[i + 1], l)
              \/ next'[behind[i]] = behind[i + 1] /\ pc[behind[i + 1]] = "spin"
            BY <1>10, <2>4 DEF c
        <3> QED
            BY <1>1, <1>13, <3>1, <3>2 DEF Linked, At
    <2>5. Found(t, behind, c)'
        <3>1. next[t] # Nil
            BY <1>3, <1>5 DEF Queues, Found
        <3> QED
            BY <1>10, <1>11, <1>13, <3>1 DEF Found
    <2>6. PassedOver(t, behind, c)'
        <3>1. SortedBy(t)' = s
            BY <1>1, <1>12, <1>13 DEF SortedBy
        <3>2. /\ \A i \in 1 .. Len(behind) : pc[behind[i]] = "spin" => socket[behind[i]] # NoSocket
              /\ \A i \in 1 .. Len(behind) : i <= k =>
                     pc[behind[i]] = "spin" /\ socket[behind[i]] # socket[t]
              /\ k > 0 => socket[t] # NoSocket
            BY <1>3, <1>5 DEF Queues, PassedOver, SortedBy
        <3>3. s # NoSocket
            <4>1. c + 1 \in 1 .. Len(behind)
                BY <1>6, <1>11
            <4> QED
                BY <1>1, <1>12, <3>2, <4>1
        <3>4. ASSUME NEW i \in 1 .. Len(behind), i <= c
              PROVE  pc[behind[i]] = "spin" /\ socket[behind[i]] # s
            <4>1. CASE i <= k
                <5>1. k > 0
                    BY <1>6, <4>1
                <5> QED
                    BY <1>1, <3>2, <4>1, <5>1
            <4>2. CASE ~(i <= k)
                <5>1. i - k \in 1 .. last - 1 /\ i - k \in 1 .. last
                    BY <1>11, <3>4, <4>2
                <5>2. k + (i - k) = i
                    BY <1>6
                <5>3. path[i - k] = behind[i] /\ pc[behind[i]] = "spin"
                    BY <1>9, <5>1, <5>2
                <5> QED
                    BY <1>1, <5>1, <5>3
            <4> QED
                BY <4>1, <4>2
        <3>5. \A i \in 1 .. Len(behind) : pc'[behind[i]] = pc[behind[i]]
            BY <1>6, <1>13
        <3>6. pc'[succ'[t]] = "spin"
            BY <1>12, <1>13
        <3> QED
            BY <1>1, <1>13, <3>1, <3>2, <3>3, <3>4, <3>5, <3>6 DEF PassedOver
    <2> QED
        BY <1>10, <2>1, <2>2, <2>3, <2>4, <2>5, <2>6 DEF Queues
<1>17. Line(l)'
    <2>1. Splits(l, p, t, behind)' /\ p \in 1 .. Len(queue'[l])
        BY <1>1, <1>5 DEF Splits
    <2>2. p <= c + 1
        BY <1>6, <1>7, <1>8, <1>11
    <2> QED
        BY <1>11, <1>16, <2>1, <2>2 DEF Line
<1> QED
    BY <1>10, <1>14, <1>15, <1>17, LineOnly

-----------------------------------------------------------------------------
(* Every step of a thread keeps the queues in order.                       *)
LEMMA CNASteps ==
    ASSUME OneAtATime, CNAInv, NEW t \in Threads, NEW l \in Locks,
           StartAcquire(t, l) \/ StartRelease(t, l) \/ Continue(t, l)
    PROVE  CNAInv'
PROOF
<1>1. CASE StartAcquire(t, l)
    BY <1>1, Begins
<1>2. CASE StartRelease(t, l)
    BY <1>2, Looks
<1>3. CASE Exchange(t, l)
    BY <1>3, TakesFree, Arrives
<1>4. CASE Link(t, l)
    BY <1>4, Links
<1>5. CASE Spin(t, l)
    BY <1>5, Enters
<1>6. CASE Close(t, l)
    BY <1>6, Closes, Looks
<1>7. CASE Requeue(t, l)
    BY <1>7, Requeues, Looks
<1>8. CASE WakeSecondary(t, l)
    BY <1>8, WakesSecondary
<1>9. CASE AwaitSuccessor(t, l)
    BY <1>9, Looks
<1>10. CASE KeepLocal(t, l)
    BY <1>10, Looks
<1>11. CASE GoGlobal(t, l)
    BY <1>11, Looks
<1>12. CASE FindSuccessor(t, l)
    <2>1. PICK s \in IF socket[t] = NoSocket THEN current_numa_node ELSE {socket[t]},
               last \in 1 .. Cardinality(Threads) :
              \E path \in [1 .. last -> Threads] :
                  /\ path[1] = next[t]
                  /\ \A i \in 2 .. last : path[i] = next[path[i - 1]]
                  /\ \A i \in 1 .. last - 1 : socket[path[i]] # s
                  /\ \/ /\ socket[path[last]] # s
                        /\ next[path[last]] = Nil
                        /\ Goto(t, "pass")
                        /\ UNCHANGED << next, spin, secTail, succ >>
                     \/ /\ socket[path[last]] = s
                        /\ succ' = [succ EXCEPT ![t] = path[last]]
                        /\ Goto(t, "passLocal")
                        /\ IF last = 1 THEN UNCHANGED << next, spin, secTail >>
                           ELSE MoveToSecondary(t, path[1], path[last - 1])
        BY <1>12 DEF FindSuccessor
    <2>2. At(t, l, "find") /\ Stay /\ UNCHANGED << tail, socket >>
        BY <1>12 DEF FindSuccessor
    <2>3. PICK path \in [1 .. last -> Threads] :
              /\ path[1] = next[t]
              /\ \A i \in 2 .. last : path[i] = next[path[i - 1]]
              /\ \A i \in 1 .. last - 1 : socket[path[i]] # s
              /\ \/ /\ socket[path[last]] # s
                    /\ next[path[last]] = Nil
                    /\ Goto(t, "pass")
                    /\ UNCHANGED << next, spin, secTail, succ >>
                 \/ /\ socket[path[last]] = s
                    /\ succ' = [succ EXCEPT ![t] = path[last]]
                    /\ Goto(t, "passLocal")
                    /\ IF last = 1 THEN UNCHANGED << next, spin, secTail >>
                       ELSE MoveToSecondary(t, path[1], path[last - 1])
        BY <2>1
    <2>4. CASE Goto(t, "pass") /\ UNCHANGED << next, spin, secTail, succ >>
        BY <2>2, <2>4, FindsNone DEF cnaVars
    <2>5. CASE ~(Goto(t, "pass") /\ UNCHANGED << next, spin, secTail, succ >>)
        <3>1. last \in Nat \ {0}
            BY FS_CardinalityType, CNAAssumption
        <3>2. Walk(t, last, path)
            BY <2>3, <3>1 DEF Walk
        <3>3. Finds(t, l, s, last, path)
            BY <2>2, <2>3, <2>5, <3>2 DEF Finds
        <3> QED
            BY <3>3, FindsOne
    <2> QED
        BY <2>4, <2>5
<1>13. CASE PassLocal(t, l)
    BY <1>13, PassesLocal
<1>14. CASE PassSecondary(t, l) \/ PassMain(t, l)
    BY <1>14, PassesGlobal
<1> QED
    BY <1>1, <1>2, <1>3, <1>4, <1>5, <1>6, <1>7, <1>8, <1>9, <1>10, <1>11, <1>12, <1>13,
       <1>14 DEF Continue

(* The invariant of the specification.                                     *)
LEMMA CNAInvariance ==
    ASSUME OneAtATime
    PROVE  Spec => []CNAInv
PROOF
<1>1. Init => CNAInv
    BY CNAInitially
<1>2. ASSUME CNAInv, [Next]_vars PROVE CNAInv'
    <2>1. CASE Next
        BY <1>2, <2>1, CNASteps DEF Next
    <2>2. CASE UNCHANGED vars
        <3>1. /\ pc' = pc /\ arg' = arg /\ held' = held /\ queue' = queue
              /\ tail' = tail /\ next' = next /\ spin' = spin /\ socket' = socket
              /\ secTail' = secTail /\ succ' = succ
            BY <2>2 DEF vars, callerVars, cnaVars
        <3>2. Places /\ Fields /\ Order
            BY <1>2 DEF CNAInv
        <3>3. Places'
            BY <3>1, <3>2 DEF Places, InLine, At
        <3>4. Fields'
            BY <3>1, <3>2 DEF Fields, NodesTyped
        <3>5. \A m \in Locks : Line(m)'
            BY <3>1, <3>2, LineStays DEF Order, Same
        <3> QED
            BY <3>3, <3>4, <3>5 DEF CNAInv, Order
    <2> QED
        BY <1>2, <2>1, <2>2
<1> QED
    BY <1>1, <1>2, PTL DEF Spec

(* The caller's state and the fields of every node have their types.       *)
THEOREM CNATypes ==
    ASSUME OneAtATime
    PROVE  Spec => []TypeOK
PROOF
<1>1. CNAInv => TypeOK
    BY DEF CNAInv, Places, Fields, NodesTyped, TypeOK, CallerTypeOK
<1> QED
    BY <1>1, CNAInvariance, PTL

(* No two threads are inside a CNALock, however the lock was passed on:    *)
(* to the successor, to the one that find_successor found or to the head   *)
(* of the secondary queue.                                                 *)
THEOREM CNAOneInside ==
    ASSUME OneAtATime
    PROVE  Spec => []MutualExclusion
PROOF
<1>1. CNAInv => MutualExclusion
    <2> SUFFICES ASSUME CNAInv, NEW l \in Locks PROVE Cardinality(holders[l]) <= 1
        BY DEF MutualExclusion
    <2>1. holders[l] = { t \in Threads : l \in held[t] }
        BY DEF holders
    <2>2. ASSUME NEW t \in Threads, NEW u \in Threads, l \in held[t], l \in held[u]
          PROVE  u = t
        <3>1. Places /\ InLine(t, l) /\ InLine(u, l)
            BY <2>2, OneLine DEF CNAInv
        <3>2. PICK behind \in Seq(Threads) :
                  \E p \in 1 .. Len(queue[l]), k \in 0 .. Len(behind) :
                      Splits(l, p, t, behind) /\ Queues(l, t, behind, k)
            BY <2>2, <3>1, OwnerOf
        <3>3. PICK p \in 1 .. Len(queue[l]), k \in 0 .. Len(behind) :
                  Splits(l, p, t, behind) /\ Queues(l, t, behind, k)
            BY <3>2
        <3>4. u = t \/ \E i \in 1 .. Len(behind) : behind[i] = u
            BY <3>1, <3>3, Behind
        <3> QED
            BY <2>2, <3>3, <3>4 DEF Queues
    <2>3. CASE holders[l] = {}
        BY <2>3, FS_EmptySet
    <2>4. CASE holders[l] # {}
        <3>1. PICK t \in Threads : holders[l] = {t}
            BY <2>1, <2>2, <2>4
        <3> QED
            BY <3>1, FS_Singleton
    <2> QED
        BY <2>3, <2>4
<1> QED
    BY <1>1, CNAInvariance, PTL

(* The secondary queue and the main queue, one after the other, are the    *)
(* line in the order of arrival, but for the owner: the moves and splices  *)
(* of the links lose no waiting thread and enqueue none twice.             *)
THEOREM CNAQueuesInOrder ==
    ASSUME OneAtATime
    PROVE  Spec => []QueuesKeepOrder
PROOF
<1>1. CNAInv => QueuesKeepOrder
    <2> SUFFICES ASSUME CNAInv, NEW l \in Locks, queue[l] # << >>
                 PROVE  \E p \in DOMAIN queue[l] :
                            LET owner  == queue[l][p]
                                behind == RemoveAt(queue[l], p)
                            IN  /\ spin[owner] # 0
                                /\ \A i \in DOMAIN behind : spin[behind[i]] = 0
                                /\ \E k \in 0 .. Len(behind) :
                                       /\ SecondaryIs(owner, behind, k)
                                       /\ MainIs(l, owner, behind, k)
                                       /\ \A i \in 1 .. Len(behind) - 1 :
                                              i # k => Linked(behind[i], behind[i + 1], l)
        BY DEF QueuesKeepOrder
    <2>1. Places /\ Line(l)
        BY DEF CNAInv, Order
    <2>2. /\ queue[l] \in Seq(Threads) /\ Len(queue[l]) \in Nat
          /\ DOMAIN queue[l] = 1 .. Len(queue[l])
        BY <2>1, LineType
    <2>3. Len(queue[l]) > 0
        BY <2>2, EmptySeq
    <2>4. PICK t \in Threads, behind \in Seq(Threads) :
              \E p \in 1 .. Len(queue[l]), k \in 0 .. Len(behind) :
                  Splits(l, p, t, behind) /\ Queues(l, t, behind, k)
        BY <2>1, <2>3 DEF Line
    <2>5. PICK p \in 1 .. Len(queue[l]), k \in 0 .. Len(behind) :
              Splits(l, p, t, behind) /\ Queues(l, t, behind, k)
        BY <2>4
    <2>6. RemoveAt(queue[l], p) = behind
        BY <2>1, <2>5, Rest
    <2>7. queue[l][p] = t /\ p \in DOMAIN queue[l]
        BY <2>2, <2>5 DEF Splits
    <2>8. DOMAIN behind = 1 .. Len(behind) /\ Len(behind) \in Nat
        BY LenProperties
    <2>9. \A i \in 1 .. Len(behind) - 1 : i # k => Linked(behind[i], behind[i + 1], l)
        <3>1. \A i \in 1 .. Len(behind) - 1 : i \in 1 .. Len(behind) /\ i < Len(behind)
            BY <2>8
        <3> QED
            BY <2>5, <3>1 DEF Queues
    <2>10. /\ spin[t] # 0
           /\ \A i \in DOMAIN behind : spin[behind[i]] = 0
           /\ SecondaryIs(t, behind, k) /\ MainIs(l, t, behind, k)
        BY <2>5, <2>8 DEF Queues
    <2> QED
        BY <2>6, <2>7, <2>9, <2>10
<1> QED
    BY <1>1, CNAInvariance, PTL

(* Who is given the lock by a step.                                        *)
LEMMA Given ==
    ASSUME CNAInv, NEW t \in Threads, NEW l \in Locks,
           StartAcquire(t, l) \/ StartRelease(t, l) \/ Continue(t, l),
           NEW u \in Threads, NEW m \in Locks, m \in held'[u], m \notin held[u]
    PROVE  /\ u = t /\ m = l
           /\ Spin(t, l) \/ (Exchange(t, l) /\ tail[l] = Nil)
PROOF
<1>1. held \in [Threads -> SUBSET Locks]
    BY DEF CNAInv, Places
<1>2. ~Stay /\ held' # held
    BY DEF Stay
<1>3. ~Leave(t, l)
    BY <1>1 DEF Leave
<1>4. \/ Spin(t, l) /\ Enter(t, l)
      \/ Exchange(t, l) /\ tail[l] = Nil /\ Take(t, l)
    BY <1>2, <1>3
       DEF StartAcquire, StartRelease, Continue, Exchange, Link, Spin, Close, Requeue,
           WakeSecondary, AwaitSuccessor, KeepLocal, GoGlobal, FindSuccessor, PassLocal,
           PassSecondary, PassMain, PassTo, Arrive
<1>5. held' = [held EXCEPT ![t] = @ \cup {l}]
    BY <1>4 DEF Enter, Take
<1>6. u = t /\ m = l
    BY <1>1, <1>5
<1> QED
    BY <1>4, <1>6

(* Nobody enters before a thread of its own socket that arrived earlier,   *)
(* however long the secondary queue and however often it was spliced.      *)
THEOREM CNAFifoOnSocket ==
    ASSUME OneAtATime
    PROVE  Spec => FifoOnSocket
PROOF
<1> DEFINE InTurn == \A l \in Locks : \A j \in DOMAIN queue'[l] :
                         LET t == queue'[l][j] IN
                         l \in held'[t] \ held[t] =>
                             \A i \in 1 .. j - 1 : socket'[queue'[l][i]] # socket'[t]
<1>1. ASSUME CNAInv, CNAInv', [Next]_vars PROVE InTurn
    <2> SUFFICES ASSUME NEW m \in Locks, NEW j \in DOMAIN queue'[m],
                        m \in held'[queue'[m][j]], m \notin held[queue'[m][j]],
                        NEW i \in 1 .. j - 1
                 PROVE  socket'[queue'[m][i]] # socket'[queue'[m][j]]
        OBVIOUS
    <2> DEFINE u == queue'[m][j]
    <2>1. u \in Threads /\ DOMAIN queue'[m] = 1 .. Len(queue'[m]) /\ Len(queue'[m]) \in Nat
        <3>1. queue' \in [Locks -> Seq(Threads)]
            BY <1>1 DEF CNAInv, Places
        <3>2. queue'[m] \in Seq(Threads)
            BY <3>1
        <3> QED
            BY <3>2, LenProperties, ElementOfSeq
    <2>2. Places /\ Fields
        BY <1>1 DEF CNAInv
    <2>3. held' # held
        OBVIOUS
    <2>4. PICK t \in Threads, l \in Locks :
              StartAcquire(t, l) \/ StartRelease(t, l) \/ Continue(t, l)
        BY <1>1, <2>3 DEF Next, vars, callerVars
    <2>5. /\ u = t /\ m = l
          /\ Spin(t, l) \/ (Exchange(t, l) /\ tail[l] = Nil)
        BY <1>1, <2>1, <2>4, Given
    <2> HIDE DEF u
    <2>6. CASE Exchange(t, l) /\ tail[l] = Nil
        <3>1. Len(queue[l]) = 0
            BY <1>1, <2>6, TailIsLast
        <3>2. ~InLine(t, l) /\ queue' = [queue EXCEPT ![l] = Append(@, t)]
            BY <2>6, <3>1 DEF InLine, Exchange, Take, Arrive
        <3>3. Grown(t, l)
            BY <2>2, <3>2, Grows
        <3>4. Len(queue'[l]) = 1
            BY <3>1, <3>3 DEF Grown
        <3> QED
            BY <2>1, <2>5, <3>4
    <2>7. CASE Spin(t, l)
        <3>1. /\ pc[t] = "spin" /\ arg[t] = l /\ spin[t] # 0
              /\ queue' = queue /\ socket' = socket
            BY <2>7 DEF Spin, At, Enter, cnaVars
        <3>2. InLine(t, l)
            BY <2>2, <3>1, OneLine
        <3>3. PICK behind \in Seq(Threads) :
                  \E p \in 1 .. Len(queue[l]), k \in 0 .. Len(behind) :
                      /\ Splits(l, p, t, behind)
                      /\ Queues(l, t, behind, k)
                      /\ p <= k + 1 \/ pc[t] = "wakeSecondary"
            BY <1>1, <3>1, <3>2, OwnerOf
        <3>4. PICK p \in 1 .. Len(queue[l]), k \in 0 .. Len(behind) :
                  /\ Splits(l, p, t, behind)
                  /\ Queues(l, t, behind, k)
                  /\ p <= k + 1
            BY <3>1, <3>3
        <3>5. j \in 1 .. Len(queue[l]) /\ queue[l][j] = t
            BY <2>1, <2>5, <3>1 DEF u
        <3>6. j = p
            BY <2>2, <3>4, <3>5 DEF Places, Splits
        <3>7. Len(behind) \in Nat /\ Len(queue[l]) = Len(behind) + 1 /\ k \in Nat /\ p \in Nat
            BY <2>2, <3>4, LineType, LenProperties DEF Splits
        <3>8. i \in 1 .. Len(behind) /\ i < p /\ i <= k
            BY <3>4, <3>6, <3>7
        <3>9. behind[i] = queue[l][i]
            BY <3>4, <3>8 DEF Splits
        <3>10. socket[behind[i]] # socket[t]
            BY <3>1, <3>4, <3>8 DEF Queues, PassedOver, SortedBy
        <3> QED
            BY <2>5, <3>1, <3>9, <3>10 DEF u
    <2> QED
        BY <2>5, <2>6, <2>7
<1>2. ASSUME CNAInv, CNAInv', [Next]_vars PROVE [InTurn]_vars
    BY <1>1, <1>2
<1> QED
    BY <1>2, CNAInvariance, PTL DEF Spec, FifoOnSocket
=============================================================================
