-------------------------- MODULE QueueLockProofs --------------------------
(***************************************************************************)
(* The six classes that MCLocks chooses from, for any number of threads    *)
(* and locks: an inductive invariant each, which ties the fields of the    *)
(* class to the line, and under it every step is one of FifoLock, or one   *)
(* that FifoLock does not see; and then the program that lock_type.h       *)
(* builds with one of them: its locks are first come first served          *)
(* whichever class was picked, and each class keeps what the run checks    *)
(* of it.                                                                  *)
(*                                                                         *)
(* XInv is the invariant of class X: XPlaces says who is in line by where  *)
(* the threads are, XOrder what the fields are by the line.  XInitially,   *)
(* a lemma for each method step, and XNext show it; XFollows draws from it *)
(* what the runs check.                                                    *)
(***************************************************************************)
EXTENDS MCLocks, SequenceTheorems, FiniteSetTheorems, TLAPS

-----------------------------------------------------------------------------
(***************************************************************************)
(* What the classes share: how a line changes when a thread passes the     *)
(* doorway, goes in, or leaves, and that these are the steps of FifoLock   *)
(* when the class calls them at the right moment.                          *)
(***************************************************************************)
InLine(t, l) == \E i \in 1 .. Len(queue[l]) : queue[l][i] = t

(* Nobody is in a line twice, and who has a lock is the first in its line. *)
LineInv ==
    /\ held \in [Threads -> SUBSET Locks]
    /\ queue \in [Locks -> Seq(Threads)]
    /\ \A l \in Locks : \A i, j \in 1 .. Len(queue[l]) :
           queue[l][i] = queue[l][j] => i = j
    /\ \A t \in Threads, l \in Locks :
           l \in held[t] => Len(queue[l]) > 0 /\ queue[l][1] = t

-----------------------------------------------------------------------------
(* A line is a sequence of threads, with a length and places.              *)
LEMMA LineType ==
    ASSUME LineInv, NEW l \in Locks
    PROVE  /\ queue[l] \in Seq(Threads)
           /\ Len(queue[l]) \in Nat
           /\ DOMAIN queue[l] = 1 .. Len(queue[l])
           /\ \A i \in 1 .. Len(queue[l]) : queue[l][i] \in Threads
           /\ queue[l] = << >> <=> Len(queue[l]) = 0
           /\ Len(queue[l]) > 0 => Head(queue[l]) = queue[l][1]
PROOF
<1>1. queue[l] \in Seq(Threads)
    BY DEF LineInv
<1>2. /\ Len(queue[l]) \in Nat /\ DOMAIN queue[l] = 1 .. Len(queue[l])
      /\ \A i \in 1 .. Len(queue[l]) : queue[l][i] \in Threads
    BY <1>1, LenProperties, ElementOfSeq
<1>3. queue[l] = << >> <=> Len(queue[l]) = 0
    BY <1>1, EmptySeq
<1>4. Len(queue[l]) > 0 => Head(queue[l]) = queue[l][1]
    BY <1>1, <1>2
<1> QED
    BY <1>1, <1>2, <1>3, <1>4

(* Whoever has a place in a line is in it.                                 *)
LEMMA Members ==
    ASSUME LineInv, NEW l \in Locks, NEW i \in 1 .. Len(queue[l])
    PROVE  queue[l][i] \in Threads /\ InLine(queue[l][i], l)
PROOF
    BY LineType DEF InLine

(* A lock is with one thread at most.                                      *)
LEMMA OneHolder ==
    ASSUME LineInv, NEW t \in Threads, NEW u \in Threads, NEW l \in Locks,
           l \in held[t], l \in held[u]
    PROVE  t = u
PROOF
    BY DEF LineInv

(* All lines are empty to begin with.                                      *)
LEMMA LinesEmpty ==
    ASSUME CallerInit
    PROVE  /\ LineInv
           /\ Fifo!Init
           /\ \A l \in Locks : Len(queue[l]) = 0
           /\ \A t \in Threads, l \in Locks : ~InLine(t, l)
PROOF
<1>1. /\ queue = [l \in Locks |-> << >>]
      /\ held = [t \in Threads |-> {}]
    BY DEF CallerInit
<1>2. \A l \in Locks : queue[l] = << >> /\ Len(queue[l]) = 0
    BY <1>1
<1>3. LineInv
    BY <1>1, <1>2 DEF LineInv
<1>4. Fifo!Init
    BY <1>1 DEF Fifo!Init, holders
<1> QED
    BY <1>2, <1>3, <1>4 DEF InLine

(* A step that no line is concerned with.                                  *)
LEMMA StayStep ==
    ASSUME LineInv, Stay
    PROVE  /\ LineInv'
           /\ UNCHANGED Fifo!vars
           /\ \A t \in Threads, l \in Locks : InLine(t, l)' <=> InLine(t, l)
PROOF
<1>1. held' = held /\ queue' = queue
    BY DEF Stay
<1>2. LineInv'
    BY <1>1 DEF LineInv
<1>3. UNCHANGED Fifo!vars
    BY <1>1 DEF Fifo!vars, holders
<1>4. \A t \in Threads, l \in Locks : InLine(t, l)' <=> InLine(t, l)
    BY <1>1 DEF InLine
<1> QED
    BY <1>2, <1>3, <1>4

(* How a line grows.                                                       *)
LEMMA LineGrows ==
    ASSUME LineInv, NEW t \in Threads, NEW l \in Locks, ~InLine(t, l),
           queue' = [queue EXCEPT ![l] = Append(@, t)]
    PROVE  /\ queue' \in [Locks -> Seq(Threads)]
           /\ \A m \in Locks \ {l} : queue'[m] = queue[m]
           /\ Len(queue'[l]) = Len(queue[l]) + 1
           /\ \A i \in 1 .. Len(queue[l]) : queue'[l][i] = queue[l][i]
           /\ queue'[l][Len(queue[l]) + 1] = t
           /\ \A m \in Locks : \A i, j \in 1 .. Len(queue'[m]) :
                  queue'[m][i] = queue'[m][j] => i = j
           /\ \A u \in Threads, m \in Locks :
                  InLine(u, m)' <=> InLine(u, m) \/ (u = t /\ m = l)
PROOF
<1>1. queue'[l] = Append(queue[l], t) /\ \A m \in Locks \ {l} : queue'[m] = queue[m]
    BY DEF LineInv
<1>2. /\ Append(queue[l], t) \in Seq(Threads)
      /\ Len(Append(queue[l], t)) = Len(queue[l]) + 1
      /\ \A i \in 1 .. Len(queue[l]) : Append(queue[l], t)[i] = queue[l][i]
      /\ Append(queue[l], t)[Len(queue[l]) + 1] = t
    BY LineType, AppendProperties
<1>3. queue' \in [Locks -> Seq(Threads)]
    BY <1>2 DEF LineInv
<1>4. Len(queue[l]) \in Nat
    BY LineType
<1>5. \A i, j \in 1 .. Len(queue'[l]) : queue'[l][i] = queue'[l][j] => i = j
    <2>1. \A i \in 1 .. Len(queue'[l]) : i \in 1 .. Len(queue[l]) \/ i = Len(queue[l]) + 1
        BY <1>1, <1>2, <1>4
    <2>2. \A i \in 1 .. Len(queue[l]) : queue'[l][i] # t
        BY <1>1, <1>2 DEF InLine
    <2> QED
        BY <1>1, <1>2, <2>1, <2>2 DEF LineInv
<1>6. \A m \in Locks : \A i, j \in 1 .. Len(queue'[m]) :
          queue'[m][i] = queue'[m][j] => i = j
    BY <1>1, <1>5 DEF LineInv
<1>7. ASSUME NEW u \in Threads
      PROVE  InLine(u, l)' <=> InLine(u, l) \/ u = t
    <2>1. \A i \in 1 .. Len(queue'[l]) : i \in 1 .. Len(queue[l]) \/ i = Len(queue[l]) + 1
        BY <1>1, <1>2, <1>4
    <2>2. /\ \A i \in 1 .. Len(queue[l]) : i \in 1 .. Len(queue'[l])
          /\ Len(queue[l]) + 1 \in 1 .. Len(queue'[l])
        BY <1>1, <1>2, <1>4
    <2>3. InLine(u, l)' => InLine(u, l) \/ u = t
        BY <1>1, <1>2, <2>1 DEF InLine
    <2>4. InLine(u, l) => InLine(u, l)'
        BY <1>1, <1>2, <2>2 DEF InLine
    <2>5. InLine(t, l)'
        BY <1>1, <1>2, <2>2 DEF InLine
    <2> QED
        BY <2>3, <2>4, <2>5
<1>8. ASSUME NEW u \in Threads, NEW m \in Locks \ {l}
      PROVE  InLine(u, m)' <=> InLine(u, m)
    BY <1>1 DEF InLine
<1> QED
    BY <1>1, <1>2, <1>3, <1>6, <1>7, <1>8

(* How a line shrinks when the first in it leaves.                         *)
LEMMA LineShrinks ==
    ASSUME LineInv, NEW t \in Threads, NEW l \in Locks, l \in held[t], Leave(t, l)
    PROVE  /\ Len(queue[l]) > 0 /\ queue[l][1] = t
           /\ queue' = [queue EXCEPT ![l] = Tail(@)]
           /\ queue' \in [Locks -> Seq(Threads)]
           /\ \A m \in Locks \ {l} : queue'[m] = queue[m]
           /\ Len(queue'[l]) = Len(queue[l]) - 1
           /\ \A i \in 1 .. Len(queue'[l]) : queue'[l][i] = queue[l][i + 1]
           /\ \A m \in Locks : \A i, j \in 1 .. Len(queue'[m]) :
                  queue'[m][i] = queue'[m][j] => i = j
           /\ \A u \in Threads, m \in Locks :
                  InLine(u, m)' <=> InLine(u, m) /\ ~(u = t /\ m = l)
PROOF
<1>1. /\ Len(queue[l]) > 0 /\ queue[l][1] = t
      /\ queue[l] \in Seq(Threads) /\ queue[l] # << >>
      /\ Len(queue[l]) \in Nat
    BY LineType DEF LineInv
<1>2. PICK i \in 1 .. Len(queue[l]) :
          /\ queue[l][i] = t
          /\ queue' = [queue EXCEPT ![l] =
                          SubSeq(@, 1, i - 1) \o SubSeq(@, i + 1, Len(@))]
    BY LineType DEF Leave
<1>3. i = 1
    BY <1>1, <1>2 DEF LineInv
<1>4. SubSeq(queue[l], 1, 1 - 1) \o SubSeq(queue[l], 1 + 1, Len(queue[l])) = Tail(queue[l])
    <2>1. SubSeq(queue[l], 1, 0) = << >>
        BY SubSeqEmpty
    <2>2. SubSeq(queue[l], 2, Len(queue[l])) = Tail(queue[l])
        BY <1>1, TailIsSubSeq
    <2>3. Tail(queue[l]) \in Seq(Threads)
        BY <1>1, HeadTailProperties
    <2> QED
        BY <2>1, <2>2, <2>3, ConcatEmptySeq
<1>5. queue' = [queue EXCEPT ![l] = Tail(@)]
    BY <1>2, <1>3, <1>4
<1>6. queue'[l] = Tail(queue[l]) /\ \A m \in Locks \ {l} : queue'[m] = queue[m]
    BY <1>5 DEF LineInv
<1>7. /\ Tail(queue[l]) \in Seq(Threads)
      /\ Len(Tail(queue[l])) = Len(queue[l]) - 1
      /\ \A j \in 1 .. Len(Tail(queue[l])) : Tail(queue[l])[j] = queue[l][j + 1]
    BY <1>1, HeadTailProperties
<1>8. queue' \in [Locks -> Seq(Threads)]
    BY <1>5, <1>7 DEF LineInv
<1>9. \A j \in 1 .. Len(queue'[l]) : j + 1 \in 1 .. Len(queue[l]) /\ j + 1 # 1
    BY <1>1, <1>6, <1>7
<1>10. \A j, k \in 1 .. Len(queue'[l]) : queue'[l][j] = queue'[l][k] => j = k
    <2> SUFFICES ASSUME NEW j \in 1 .. Len(queue'[l]), NEW k \in 1 .. Len(queue'[l]),
                        queue'[l][j] = queue'[l][k]
                 PROVE  j = k
        OBVIOUS
    <2>1. j + 1 = k + 1
        BY <1>6, <1>7, <1>9 DEF LineInv
    <2> QED
        BY <2>1
<1>11. \A m \in Locks : \A j, k \in 1 .. Len(queue'[m]) :
           queue'[m][j] = queue'[m][k] => j = k
    BY <1>6, <1>10 DEF LineInv
<1>12. ASSUME NEW u \in Threads
       PROVE  InLine(u, l)' <=> InLine(u, l) /\ u # t
    <2>1. InLine(u, l)' => InLine(u, l) /\ u # t
        <3> SUFFICES ASSUME NEW j \in 1 .. Len(queue'[l]), queue'[l][j] = u
                     PROVE  InLine(u, l) /\ u # t
            BY DEF InLine
        <3>1. queue[l][j + 1] = u /\ j + 1 \in 1 .. Len(queue[l]) /\ j + 1 # 1
            BY <1>6, <1>7, <1>9
        <3>2. 1 \in 1 .. Len(queue[l])
            BY <1>1
        <3> QED
            BY <1>1, <3>1, <3>2 DEF InLine, LineInv
    <2>2. InLine(u, l) /\ u # t => InLine(u, l)'
        <3> SUFFICES ASSUME NEW j \in 1 .. Len(queue[l]), queue[l][j] = u, u # t
                     PROVE  InLine(u, l)'
            BY DEF InLine
        <3>1. j - 1 \in 1 .. Len(queue'[l]) /\ (j - 1) + 1 = j
            BY <1>1, <1>6, <1>7
        <3>2. queue'[l][j - 1] = u
            BY <1>6, <1>7, <3>1
        <3> QED
            BY <3>1, <3>2 DEF InLine
    <2> QED
        BY <2>1, <2>2
<1>13. ASSUME NEW u \in Threads, NEW m \in Locks \ {l}
       PROVE  InLine(u, m)' <=> InLine(u, m)
    BY <1>6 DEF InLine
<1>14. /\ Len(queue'[l]) = Len(queue[l]) - 1
       /\ \A j \in 1 .. Len(queue'[l]) : queue'[l][j] = queue[l][j + 1]
    BY <1>6, <1>7
<1>15. \A u \in Threads, m \in Locks :
           InLine(u, m)' <=> InLine(u, m) /\ ~(u = t /\ m = l)
    BY <1>12, <1>13
<1> QED
    BY <1>1, <1>5, <1>6, <1>8, <1>11, <1>14, <1>15

-----------------------------------------------------------------------------
(* A thread lines up.                                                      *)
LEMMA ArriveStep ==
    ASSUME LineInv, NEW t \in Threads, NEW l \in Locks, ~InLine(t, l), Arrive(t, l)
    PROVE  LineInv' /\ Fifo!Arrive(t, l)
PROOF
<1>1. /\ queue' = [queue EXCEPT ![l] = Append(@, t)]
      /\ held' = held
    BY DEF Arrive
<1>2. ASSUME NEW u \in Threads, NEW m \in Locks, m \in held'[u]
      PROVE  Len(queue'[m]) > 0 /\ queue'[m][1] = u
    <2>1. Len(queue[m]) > 0 /\ queue[m][1] = u /\ Len(queue[m]) \in Nat
        BY <1>1, <1>2, LineType DEF LineInv
    <2>2. CASE m = l
        <3>1. 1 \in 1 .. Len(queue[l])
            BY <2>1, <2>2
        <3>2. /\ Len(queue'[l]) = Len(queue[l]) + 1
              /\ \A i \in 1 .. Len(queue[l]) : queue'[l][i] = queue[l][i]
            BY <1>1, LineGrows
        <3> QED
            BY <2>1, <2>2, <3>1, <3>2
    <2>3. CASE m # l
        <3>1. queue'[m] = queue[m]
            BY <1>1, <2>3, LineGrows
        <3> QED
            BY <2>1, <3>1
    <2> QED
        BY <2>2, <2>3
<1>3. LineInv'
    BY <1>1, <1>2, LineGrows DEF LineInv
<1>4. ~Fifo!InLine(t, l)
    BY LineType DEF Fifo!InLine, InLine
<1>5. UNCHANGED holders
    BY <1>1 DEF holders
<1>6. Fifo!Arrive(t, l)
    BY <1>1, <1>4, <1>5 DEF Fifo!Arrive
<1> QED
    BY <1>3, <1>6

(* The set of threads that have a lock, after one goes in or comes out.    *)
LEMMA HoldersChange ==
    ASSUME held \in [Threads -> SUBSET Locks], NEW t \in Threads, NEW l \in Locks,
           \A u \in Threads : l \in held[u] => u = t,
           \A u \in Threads : l \in held'[u] => u = t,
           \A u \in Threads, m \in Locks \ {l} : m \in held'[u] <=> m \in held[u]
    PROVE  holders' = [holders EXCEPT ![l] = IF l \in held'[t] THEN {t} ELSE {}]
PROOF
<1>1. ASSUME NEW m \in Locks \ {l}
      PROVE  { u \in Threads : m \in held'[u] } = { u \in Threads : m \in held[u] }
    OBVIOUS
<1>2. { u \in Threads : l \in held'[u] } = IF l \in held'[t] THEN {t} ELSE {}
    OBVIOUS
<1>3. holders = [m \in Locks |-> { u \in Threads : m \in held[u] }]
    BY DEF holders
<1>4. holders' = [m \in Locks |-> { u \in Threads : m \in held'[u] }]
    BY DEF holders
<1>5. ASSUME NEW m \in Locks
      PROVE  { u \in Threads : m \in held'[u] } =
             [holders EXCEPT ![l] = IF l \in held'[t] THEN {t} ELSE {}][m]
    <2>1. CASE m = l
        BY <1>2, <1>3, <2>1
    <2>2. CASE m # l
        BY <1>1, <1>3, <2>2
    <2> QED
        BY <2>1, <2>2
<1> QED
    BY <1>3, <1>4, <1>5

(* A thread goes in that is first in its line, when nobody is inside.      *)
LEMMA EnterStep ==
    ASSUME LineInv, NEW t \in Threads, NEW l \in Locks, l \notin held[t],
           Len(queue[l]) > 0, queue[l][1] = t, Enter(t, l)
    PROVE  /\ LineInv' /\ Fifo!Enter(t, l)
           /\ \A u \in Threads, m \in Locks :
                  /\ InLine(u, m)' <=> InLine(u, m)
                  /\ m \in held'[u] <=> m \in held[u] \/ (u = t /\ m = l)
PROOF
<1>1. /\ queue' = queue
      /\ held' = [held EXCEPT ![t] = @ \cup {l}]
    BY DEF Enter
<1>2. \A u \in Threads, m \in Locks :
          m \in held'[u] <=> m \in held[u] \/ (u = t /\ m = l)
    BY <1>1 DEF LineInv
<1>3. held' \in [Threads -> SUBSET Locks]
    BY <1>1 DEF LineInv
<1>4. LineInv'
    BY <1>1, <1>2, <1>3 DEF LineInv
<1>5. \A u \in Threads : l \notin held[u]
    BY DEF LineInv
<1>6. holders' = [holders EXCEPT ![l] = {t}]
    BY <1>2, <1>5, HoldersChange DEF LineInv
<1>7. holders[l] = {}
    BY <1>5 DEF holders
<1>8. Fifo!Enter(t, l)
    BY <1>1, <1>6, <1>7, LineType DEF Fifo!Enter
<1>9. \A u \in Threads, m \in Locks : InLine(u, m)' <=> InLine(u, m)
    BY <1>1 DEF InLine
<1> QED
    BY <1>2, <1>4, <1>8, <1>9

(* A thread takes a free lock at the doorway.                              *)
LEMMA TakeStep ==
    ASSUME LineInv, NEW t \in Threads, NEW l \in Locks, Len(queue[l]) = 0, Take(t, l)
    PROVE  /\ LineInv' /\ Fifo!Take(t, l)
           /\ ~InLine(t, l)
           /\ queue' = [queue EXCEPT ![l] = Append(@, t)]
           /\ \A u \in Threads, m \in Locks :
                  m \in held'[u] <=> m \in held[u] \/ (u = t /\ m = l)
PROOF
<1>1. /\ queue' = [queue EXCEPT ![l] = Append(@, t)]
      /\ held' = [held EXCEPT ![t] = @ \cup {l}]
    BY DEF Take
<1>2. ~InLine(t, l)
    BY DEF InLine
<1>3. \A u \in Threads, m \in Locks :
          m \in held'[u] <=> m \in held[u] \/ (u = t /\ m = l)
    BY <1>1 DEF LineInv
<1>4. held' \in [Threads -> SUBSET Locks]
    BY <1>1 DEF LineInv
<1>5. \A u \in Threads : l \notin held[u]
    BY DEF LineInv
<1>6. /\ \A m \in Locks \ {l} : queue'[m] = queue[m]
      /\ Len(queue'[l]) = 1 /\ queue'[l][1] = t
    <2>1. /\ \A m \in Locks \ {l} : queue'[m] = queue[m]
          /\ Len(queue'[l]) = Len(queue[l]) + 1
          /\ queue'[l][Len(queue[l]) + 1] = t
        BY <1>1, <1>2, LineGrows
    <2> QED
        BY <2>1
<1>7. \A u \in Threads, m \in Locks :
          m \in held'[u] => Len(queue'[m]) > 0 /\ queue'[m][1] = u
    BY <1>3, <1>5, <1>6 DEF LineInv
<1>8. LineInv'
    BY <1>1, <1>2, <1>4, <1>7, LineGrows DEF LineInv
<1>9. holders' = [holders EXCEPT ![l] = {t}]
    BY <1>3, <1>5, HoldersChange DEF LineInv
<1>10. holders[l] = {} /\ queue[l] = << >>
    BY <1>5, LineType DEF holders
<1>11. queue' = [queue EXCEPT ![l] = << t >>]
    BY <1>1, <1>10
<1>12. Fifo!Take(t, l)
    BY <1>9, <1>10, <1>11 DEF Fifo!Take
<1> QED
    BY <1>1, <1>2, <1>3, <1>8, <1>12

(* The holder leaves, and the line with it.                                *)
LEMMA LeaveStep ==
    ASSUME LineInv, NEW t \in Threads, NEW l \in Locks, l \in held[t], Leave(t, l)
    PROVE  /\ LineInv' /\ Fifo!Leave(t, l)
           /\ \A u \in Threads, m \in Locks :
                  m \in held'[u] <=> m \in held[u] /\ ~(u = t /\ m = l)
PROOF
<1>1. held' = [held EXCEPT ![t] = @ \ {l}]
    BY DEF Leave
<1>2. \A u \in Threads, m \in Locks :
          m \in held'[u] <=> m \in held[u] /\ ~(u = t /\ m = l)
    BY <1>1 DEF LineInv
<1>3. held' \in [Threads -> SUBSET Locks]
    BY <1>1 DEF LineInv
<1>4. \A u \in Threads : l \in held[u] => u = t
    BY OneHolder
<1>5. \A u \in Threads, m \in Locks :
          m \in held'[u] => Len(queue'[m]) > 0 /\ queue'[m][1] = u
    <2> SUFFICES ASSUME NEW u \in Threads, NEW m \in Locks, m \in held'[u]
                 PROVE  Len(queue'[m]) > 0 /\ queue'[m][1] = u
        OBVIOUS
    <2>1. m \in held[u] /\ m # l
        BY <1>2, <1>4
    <2> QED
        BY <2>1, LineShrinks DEF LineInv
<1>6. LineInv'
    BY <1>3, <1>5, LineShrinks DEF LineInv
<1>7. holders' = [holders EXCEPT ![l] = {}]
    BY <1>2, <1>4, HoldersChange DEF LineInv
<1>8. holders[l] = {t}
    BY <1>4 DEF holders
<1>9. Head(queue[l]) = t /\ queue' = [queue EXCEPT ![l] = Tail(@)]
    BY LineShrinks, LineType
<1>10. Fifo!Leave(t, l)
    BY <1>7, <1>8, <1>9 DEF Fifo!Leave
<1> QED
    BY <1>2, <1>6, <1>10

(* Where the callers do not nest locks, a thread that may acquire one has  *)
(* none.                                                                   *)
LEMMA HoldsNone ==
    ASSUME MaxHeld = 1, NEW t \in Threads, NEW l \in Locks, MayAcquire(t, l),
           held[t] = {} \/ \E m \in Locks : held[t] = {m}
    PROVE  held[t] = {}
PROOF
<1> SUFFICES ASSUME NEW m \in Locks, held[t] = {m} PROVE FALSE
    OBVIOUS
<1>1. Cardinality(held[t]) = 1
    BY FS_Singleton
<1> QED
    BY <1>1 DEF MayAcquire

(* A line in which nobody is twice is no longer than there are threads.    *)
LEMMA LineLength ==
    ASSUME IsFiniteSet(Threads), NEW line \in Seq(Threads),
           \A i, j \in 1 .. Len(line) : line[i] = line[j] => i = j
    PROVE  Len(line) <= Cardinality(Threads) /\ Cardinality(Threads) \in Nat
PROOF
<1>1. Len(line) \in Nat
    BY LenProperties
<1>2. line \in [1 .. Len(line) -> Threads]
    BY LenProperties
<1>3. line \in Injection(1 .. Len(line), Threads)
    BY <1>2 DEF Injection, IsInjective
<1>4. Cardinality(1 .. Len(line)) <= Cardinality(Threads)
    BY <1>3, FS_Injection
<1>5. Cardinality(1 .. Len(line)) = Len(line)
    <2>1. \A n \in Nat : Cardinality(1 .. n) = n
        BY FS_Interval
    <2> QED
        BY <1>1, <2>1
<1>6. Cardinality(Threads) \in Nat
    BY FS_CardinalityType
<1> QED
    BY <1>4, <1>5, <1>6

-----------------------------------------------------------------------------
(* Division by a natural number.                                           *)
LEMMA Division ==
    ASSUME NEW M \in Nat \ {0}, NEW a \in Nat
    PROVE  /\ a \div M \in Nat
           /\ a % M \in 0 .. M - 1
           /\ a = M * (a \div M) + (a % M)
PROOF
    OBVIOUS

(* The remainder is the number that is left over.                          *)
LEMMA Remainder ==
    ASSUME NEW M \in Nat \ {0}, NEW q \in Nat, NEW r \in 0 .. M - 1
    PROVE  (M * q + r) % M = r
PROOF
<1> DEFINE a == M * q + r
           p == a \div M
           s == a % M
<1>1. a \in Nat
    OBVIOUS
<1>2. p \in Nat /\ s \in 0 .. M - 1 /\ a = M * p + s
    BY <1>1, Division
<1>3. M * q + r = M * p + s
    BY <1>2
<1> HIDE DEF p, s, a
<1>4. p = q
    <2>1. CASE p > q
        <3>1. M * p >= M * (q + 1)
            BY <2>1, <1>2
        <3>2. M * (q + 1) = M * q + M
            OBVIOUS
        <3> QED
            BY <1>2, <1>3, <3>1, <3>2
    <2>2. CASE p < q
        <3>1. M * q >= M * (p + 1)
            BY <2>2, <1>2
        <3>2. M * (p + 1) = M * p + M
            BY <1>2
        <3> QED
            BY <1>2, <1>3, <3>1, <3>2
    <2> QED
        BY <1>2, <2>1, <2>2
<1>5. s = r
    BY <1>2, <1>3, <1>4
<1> QED
    BY <1>5 DEF s, a

(* A number below twice the modulus is reduced once at most.               *)
LEMMA ReducedOnce ==
    ASSUME NEW M \in Nat \ {0}, NEW a \in Nat, a < 2 * M
    PROVE  a % M = IF a < M THEN a ELSE a - M
PROOF
<1>1. CASE a < M
    <2>1. (M * 0 + a) % M = a
        BY <1>1, Remainder
    <2> QED
        BY <1>1, <2>1
<1>2. CASE ~(a < M)
    <2>1. (M * 1 + (a - M)) % M = a - M
        BY <1>2, Remainder
    <2> QED
        BY <1>2, <2>1
<1> QED
    BY <1>1, <1>2

(* Counting on from a remainder.                                           *)
LEMMA OneMore ==
    ASSUME NEW M \in Nat \ {0}, NEW a \in Nat
    PROVE  (a + 1) % M = ((a % M) + 1) % M
PROOF
<1> DEFINE q == a \div M
           r == a % M
<1>1. q \in Nat /\ r \in 0 .. M - 1 /\ a = M * q + r
    BY Division
<1> HIDE DEF q, r
<1>2. CASE r + 1 < M
    <2>1. (M * q + (r + 1)) % M = r + 1
        BY <1>1, <1>2, Remainder
    <2>2. (r + 1) % M = r + 1
        <3>1. r + 1 \in Nat /\ r + 1 < 2 * M
            BY <1>1, <1>2
        <3>2. \A b \in Nat : b < M => b % M = b
            BY ReducedOnce
        <3> QED
            BY <1>2, <3>1, <3>2
    <2>3. a + 1 = M * q + (r + 1)
        BY <1>1
    <2> QED
        BY <2>1, <2>2, <2>3 DEF r
<1>3. CASE r + 1 = M
    <2>1. (M * (q + 1) + 0) % M = 0
        BY <1>1, Remainder
    <2>2. (r + 1) % M = 0
        BY <1>1, <1>3, ReducedOnce
    <2>3. a + 1 = M * (q + 1) + 0
        BY <1>1, <1>3
    <2> QED
        BY <2>1, <2>2, <2>3 DEF r
<1> QED
    BY <1>1, <1>2, <1>3

(* A number may be reduced before another is added.                        *)
LEMMA ReducedFirst ==
    ASSUME NEW M \in Nat \ {0}, NEW a \in Nat, NEW k \in Nat
    PROVE  ((a % M) + k) % M = (a + k) % M
PROOF
<1> DEFINE q == a \div M
           r == a % M
           p == (r + k) \div M
           s == (r + k) % M
<1>1. q \in Nat /\ r \in 0 .. M - 1 /\ a = M * q + r
    BY Division
<1>2. r + k \in Nat
    BY <1>1
<1>3. p \in Nat /\ s \in 0 .. M - 1 /\ r + k = M * p + s
    BY <1>2, Division
<1> HIDE DEF q, r, p, s
<1>4. q + p \in Nat /\ a + k = M * (q + p) + s
    BY <1>1, <1>3
<1>5. (M * (q + p) + s) % M = s
    BY <1>3, <1>4, Remainder
<1> QED
    BY <1>4, <1>5 DEF r, s

(* Going on from a number by less than once round leads somewhere else.    *)
LEMMA NoLap ==
    ASSUME NEW M \in Nat \ {0}, NEW a \in Nat, NEW k \in 0 .. M - 1,
           (a + k) % M = a % M
    PROVE  k = 0
PROOF
<1> DEFINE r == a % M
<1>1. r \in 0 .. M - 1
    BY Division
<1>2. (r + k) % M = r
    <2>1. k \in Nat
        OBVIOUS
    <2>2. (r + k) % M = (a + k) % M
        BY <2>1, ReducedFirst
    <2> QED
        BY <2>2
<1> HIDE DEF r
<1>3. PICK b \in Nat : b = r + k
    BY <1>1
<1>4. b % M = IF b < M THEN b ELSE b - M
    <2>1. b < 2 * M
        BY <1>1, <1>3
    <2> QED
        BY <2>1, ReducedOnce
<1>5. b % M = r
    BY <1>2, <1>3
<1> QED
    BY <1>1, <1>3, <1>4, <1>5

-----------------------------------------------------------------------------

(* The callers do not nest locks of MCSLock, CLHLock and ABQLLock, whose   *)
(* thread_local node or slot serves one lock at a time.  The other three   *)
(* have a MaxHeld of their own in MCLocks: their locks may all be held.    *)
OneAtATime == MaxHeld = 1

(* No lock is acquired so often that the int which counts it overflows.    *)
NoWrap == MaxTail \in 0 .. IntMax

-----------------------------------------------------------------------------
(***************************************************************************)
(* TicketLock.                                                             *)
(***************************************************************************)

(* Who waits for a TicketLock or has it is in its line, and nobody else.   *)
TicketPlaces ==
    /\ pc \in [Threads -> {"idle", "spin"}]
    /\ arg \in [Threads -> Locks \cup {Nil}]
    /\ LineInv
    /\ \A t \in Threads : arg[t] = Nil <=> pc[t] = "idle"
    /\ \A t \in Threads, l \in Locks :
           /\ InLine(t, l) <=> At(t, l, "spin") \/ l \in held[t]
           /\ At(t, l, "spin") => l \notin held[t]

(* The place of a thread in the line and the number served say what its    *)
(* ticket is; numbers go round, but not past the line.                     *)
TicketOrder ==
    /\ next_ticket \in [Locks -> Ticket!Tickets]
    /\ now_serving \in [Locks -> Ticket!Tickets]
    /\ my_ticket \in [Threads -> Ticket!Tickets]
    /\ \A l \in Locks : next_ticket[l] = Ticket!Plus(now_serving[l], Len(queue[l]))
    /\ \A l \in Locks : \A i \in 1 .. Len(queue[l]) :
           pc[queue[l][i]] = "spin" /\ arg[queue[l][i]] = l =>
               my_ticket[queue[l][i]] = Ticket!Plus(now_serving[l], i - 1)

TicketInv == TicketPlaces /\ TicketOrder

(* Adding to a ticket, once round at most.                                 *)
LEMMA PlusFacts ==
    ASSUME NEW n \in Ticket!Tickets, NEW i \in 0 .. TicketMod
    PROVE  /\ Ticket!Plus(n, i) \in Ticket!Tickets
           /\ Ticket!Plus(n, i) = IF n + i < TicketMod THEN n + i ELSE n + i - TicketMod
PROOF
<1>1. TicketMod \in Nat \ {0}
    BY LocksAssumption DEF Ticket!TicketAssumption
<1>2. n \in 0 .. TicketMod - 1 /\ n + i \in Nat /\ n + i < 2 * TicketMod
    BY <1>1 DEF Ticket!Tickets
<1>3. (n + i) % TicketMod = IF n + i < TicketMod THEN n + i ELSE n + i - TicketMod
    <2>1. \A a \in Nat : a < 2 * TicketMod =>
              a % TicketMod = IF a < TicketMod THEN a ELSE a - TicketMod
        BY <1>1, ReducedOnce
    <2>2. PICK a \in Nat : a = n + i
        BY <1>2
    <2>3. a % TicketMod = IF a < TicketMod THEN a ELSE a - TicketMod
        BY <1>2, <2>1, <2>2
    <2> QED
        BY <1>1, <1>2, <2>2, <2>3
<1> QED
    BY <1>1, <1>2, <1>3 DEF Ticket!Plus, Ticket!Tickets

(* Tickets that are drawn one after the other.                             *)
LEMMA PlusPlus ==
    ASSUME NEW n \in Ticket!Tickets, NEW i \in 0 .. TicketMod - 1
    PROVE  /\ Ticket!Plus(n, 0) = n
           /\ Ticket!Plus(n, i) = n => i = 0
           /\ Ticket!Plus(Ticket!Plus(n, i), 1) = Ticket!Plus(n, i + 1)
           /\ Ticket!Plus(Ticket!Plus(n, 1), i) = Ticket!Plus(n, i + 1)
PROOF
<1>1. TicketMod \in Nat \ {0}
    BY LocksAssumption DEF Ticket!TicketAssumption
<1>2. /\ 0 \in 0 .. TicketMod /\ 1 \in 0 .. TicketMod /\ i \in 0 .. TicketMod
      /\ i + 1 \in 0 .. TicketMod /\ n \in 0 .. TicketMod - 1
    BY <1>1 DEF Ticket!Tickets
<1>3. /\ Ticket!Plus(n, i) \in Ticket!Tickets
      /\ Ticket!Plus(n, 1) \in Ticket!Tickets
    BY <1>2, PlusFacts
<1>4. Ticket!Plus(n, 0) = n /\ (Ticket!Plus(n, i) = n => i = 0)
    BY <1>1, <1>2, PlusFacts
<1>5. Ticket!Plus(Ticket!Plus(n, i), 1) = Ticket!Plus(n, i + 1)
    BY <1>1, <1>2, <1>3, PlusFacts
<1>6. Ticket!Plus(Ticket!Plus(n, 1), i) = Ticket!Plus(n, i + 1)
    BY <1>1, <1>2, <1>3, PlusFacts
<1> QED
    BY <1>4, <1>5, <1>6

(* There is a ticket for everybody in line.                                *)
LEMMA EnoughTickets ==
    ASSUME NEW line \in Seq(Threads),
           \A i, j \in 1 .. Len(line) : line[i] = line[j] => i = j
    PROVE  Len(line) \in 0 .. TicketMod /\ TicketMod \in Nat \ {0}
PROOF
<1>1. /\ IsFiniteSet(Threads) /\ TicketMod \in Nat \ {0}
      /\ Cardinality(Threads) <= TicketMod
    BY LocksAssumption DEF Ticket!TicketAssumption, Ticket!Cardinality, Ticket!IsFiniteSet,
                           Cardinality, IsFiniteSet
<1>2. Len(line) \in Nat
    BY LenProperties
<1> QED
    BY <1>1, <1>2, LineLength

(* No thread is in line to begin with, and the tickets are equal.          *)
LEMMA TicketInitially ==
    ASSUME CallerInit, Ticket!TicketInit
    PROVE  TicketInv
PROOF
<1>0. TicketMod \in Nat \ {0}
    BY LocksAssumption DEF Ticket!TicketAssumption
<1>1. TicketPlaces
    BY LinesEmpty, CallerAssumption DEF TicketPlaces, CallerInit, At
<1>2. TicketOrder
    <2>1. 0 \in Ticket!Tickets /\ Ticket!Plus(0, 0) = 0
        BY <1>0, PlusFacts DEF Ticket!Tickets
    <2> QED
        BY <2>1, LinesEmpty DEF TicketOrder, Ticket!TicketInit
<1> QED
    BY <1>1, <1>2 DEF TicketInv

(* A thread that draws a ticket draws the one that nobody in line has.     *)
LEMMA TicketStartAcquire ==
    ASSUME TicketInv, NEW t \in Threads, NEW l \in Locks, Ticket!StartAcquire(t, l)
    PROVE  TicketInv' /\ Fifo!Arrive(t, l)
PROOF
<1>0. TicketPlaces /\ TicketOrder /\ LineInv
    BY DEF TicketInv, TicketPlaces
<1>1. /\ pc[t] = "idle" /\ \A m \in held[t] : m < l
      /\ pc' = [pc EXCEPT ![t] = "spin"] /\ arg' = [arg EXCEPT ![t] = l]
      /\ my_ticket' = [my_ticket EXCEPT ![t] = next_ticket[l]]
      /\ next_ticket' = [next_ticket EXCEPT ![l] = Ticket!Plus(@, 1)]
      /\ queue' = [queue EXCEPT ![l] = Append(@, t)]
      /\ held' = held
      /\ now_serving' = now_serving
    BY DEF Ticket!StartAcquire, Ticket!BeginAcquire, Ticket!MayAcquire, Ticket!Arrive
<1>2. ~InLine(t, l) /\ l \notin held[t]
    BY <1>0, <1>1, CallerAssumption DEF TicketPlaces, At
<1>3. LineInv' /\ Fifo!Arrive(t, l)
    BY <1>0, <1>1, <1>2, ArriveStep DEF Arrive
<1>4. TicketPlaces'
    <2>1. \A u \in Threads : /\ pc'[u] = IF u = t THEN "spin" ELSE pc[u]
                             /\ arg'[u] = IF u = t THEN l ELSE arg[u]
        BY <1>0, <1>1 DEF TicketPlaces
    <2>2. \A u \in Threads, m \in Locks :
              InLine(u, m)' <=> InLine(u, m) \/ (u = t /\ m = l)
        BY <1>0, <1>1, <1>2, LineGrows
    <2>3. /\ pc' \in [Threads -> {"idle", "spin"}]
          /\ arg' \in [Threads -> Locks \cup {Nil}]
        BY <1>0, <1>1 DEF TicketPlaces
    <2>4. \A u \in Threads, m \in Locks :
              /\ InLine(u, m)' <=> At(u, m, "spin")' \/ m \in held'[u]
              /\ At(u, m, "spin")' => m \notin held'[u]
        BY <1>0, <1>1, <1>2, <2>1, <2>2 DEF TicketPlaces, At
    <2>5. \A u \in Threads : arg'[u] = Nil <=> pc'[u] = "idle"
        BY <1>0, <2>1, CallerAssumption DEF TicketPlaces
    <2> QED
        BY <1>3, <2>3, <2>4, <2>5 DEF TicketPlaces
<1>5. /\ next_ticket[l] \in Ticket!Tickets /\ now_serving[l] \in Ticket!Tickets
      /\ next_ticket[l] = Ticket!Plus(now_serving[l], Len(queue[l]))
    BY <1>0 DEF TicketOrder
<1>6. Len(queue[l]) \in 0 .. TicketMod - 1 /\ Len(queue'[l]) = Len(queue[l]) + 1
    <2>1. Len(queue'[l]) = Len(queue[l]) + 1
        BY <1>0, <1>1, <1>2, LineGrows
    <2>2. Len(queue'[l]) \in 0 .. TicketMod /\ TicketMod \in Nat
        BY <1>3, EnoughTickets DEF LineInv
    <2>3. Len(queue[l]) \in Nat
        BY <1>0, LineType
    <2> QED
        BY <2>1, <2>2, <2>3
<1>7. next_ticket'[l] = Ticket!Plus(now_serving[l], Len(queue'[l]))
    <2>1. next_ticket'[l] = Ticket!Plus(next_ticket[l], 1)
        BY <1>0, <1>1 DEF TicketOrder
    <2> QED
        BY <1>5, <1>6, <2>1, PlusPlus
<1>8. /\ next_ticket' \in [Locks -> Ticket!Tickets]
      /\ now_serving' \in [Locks -> Ticket!Tickets]
      /\ my_ticket' \in [Threads -> Ticket!Tickets]
    <2>1. Ticket!Plus(next_ticket[l], 1) \in Ticket!Tickets
        <3>1. 1 \in 0 .. TicketMod
            BY LocksAssumption DEF Ticket!TicketAssumption
        <3> QED
            BY <1>5, <3>1, PlusFacts
    <2> QED
        BY <1>0, <1>1, <1>5, <2>1 DEF TicketOrder
<1>9. ASSUME NEW m \in Locks
      PROVE  next_ticket'[m] = Ticket!Plus(now_serving'[m], Len(queue'[m]))
    BY <1>0, <1>1, <1>2, <1>7, LineGrows DEF TicketOrder
<1>10. ASSUME NEW m \in Locks, NEW i \in 1 .. Len(queue'[m]),
              pc'[queue'[m][i]] = "spin", arg'[queue'[m][i]] = m
       PROVE  my_ticket'[queue'[m][i]] = Ticket!Plus(now_serving'[m], i - 1)
    <2>1. CASE m = l /\ i = Len(queue[l]) + 1
        <3>1. queue'[m][i] = t /\ i - 1 = Len(queue[l])
            BY <1>0, <1>1, <1>2, <1>6, <2>1, LineGrows
        <3> QED
            BY <1>0, <1>1, <1>5, <2>1, <3>1 DEF TicketOrder
    <2>2. CASE ~(m = l /\ i = Len(queue[l]) + 1)
        <3>1. i \in 1 .. Len(queue[m]) /\ queue'[m][i] = queue[m][i]
            <4>1. CASE m = l
                <5>1. /\ Len(queue'[l]) = Len(queue[l]) + 1
                      /\ \A j \in 1 .. Len(queue[l]) : queue'[l][j] = queue[l][j]
                    BY <1>0, <1>1, <1>2, LineGrows
                <5> QED
                    BY <1>6, <2>2, <4>1, <5>1
            <4>2. CASE m # l
                <5>1. queue'[m] = queue[m]
                    BY <1>0, <1>1, <1>2, <4>2, LineGrows
                <5> QED
                    BY <5>1
            <4> QED
                BY <4>1, <4>2
        <3>2. queue[m][i] \in Threads /\ InLine(queue[m][i], m)
            BY <1>0, <3>1, LineType DEF InLine
        <3>3. queue[m][i] # t
            <4> SUFFICES ASSUME queue[m][i] = t PROVE FALSE
                OBVIOUS
            <4>1. m = l
                BY <1>0, <1>1, <1>10, <3>1 DEF TicketPlaces
            <4> QED
                BY <1>2, <3>2, <4>1
        <3>4. pc[queue[m][i]] = "spin" /\ arg[queue[m][i]] = m
            BY <1>0, <1>1, <1>10, <3>1, <3>2, <3>3 DEF TicketPlaces
        <3>5. my_ticket[queue[m][i]] = Ticket!Plus(now_serving[m], i - 1)
            BY <1>0, <3>1, <3>4 DEF TicketOrder
        <3> QED
            BY <1>0, <1>1, <3>1, <3>2, <3>3, <3>5 DEF TicketOrder
    <2> QED
        BY <2>1, <2>2
<1>11. TicketOrder'
    BY <1>8, <1>9, <1>10 DEF TicketOrder
<1> QED
    BY <1>3, <1>4, <1>11 DEF TicketInv

(* Who is served is the first in line, and finds nobody inside.            *)
LEMMA TicketSpin ==
    ASSUME TicketInv, NEW t \in Threads, NEW l \in Locks, Ticket!Spin(t, l)
    PROVE  TicketInv' /\ Fifo!Enter(t, l)
PROOF
<1>0. TicketPlaces /\ TicketOrder /\ LineInv
    BY DEF TicketInv, TicketPlaces
<1>1. /\ pc[t] = "spin" /\ arg[t] = l /\ now_serving[l] = my_ticket[t]
      /\ pc' = [pc EXCEPT ![t] = "idle"] /\ arg' = [arg EXCEPT ![t] = Nil]
      /\ my_ticket' = [my_ticket EXCEPT ![t] = 0]
      /\ Enter(t, l)
      /\ queue' = queue /\ next_ticket' = next_ticket /\ now_serving' = now_serving
    BY DEF Ticket!Spin, Ticket!At, Ticket!Enter, Ticket!Return, Enter
<1>2. InLine(t, l) /\ l \notin held[t]
    BY <1>0, <1>1 DEF TicketPlaces, At
<1>3. PICK i \in 1 .. Len(queue[l]) : queue[l][i] = t
    BY <1>2 DEF InLine
<1>4. i = 1
    <2>1. now_serving[l] = Ticket!Plus(now_serving[l], i - 1)
        BY <1>0, <1>1, <1>3 DEF TicketOrder
    <2>2. Len(queue[l]) \in 0 .. TicketMod /\ TicketMod \in Nat
        BY <1>0, EnoughTickets DEF LineInv
    <2>3. i - 1 \in 0 .. TicketMod - 1
        BY <2>2
    <2>4. i - 1 = 0
        BY <1>0, <2>1, <2>3, PlusPlus DEF TicketOrder
    <2> QED
        BY <2>4
<1>5. Len(queue[l]) > 0 /\ queue[l][1] = t
    BY <1>0, <1>3, <1>4, LineType
<1>6. /\ LineInv' /\ Fifo!Enter(t, l)
      /\ \A u \in Threads, m \in Locks :
             /\ InLine(u, m)' <=> InLine(u, m)
             /\ m \in held'[u] <=> m \in held[u] \/ (u = t /\ m = l)
    BY <1>0, <1>1, <1>2, <1>5, EnterStep
<1>7. TicketPlaces'
    <2>1. \A u \in Threads : /\ pc'[u] = IF u = t THEN "idle" ELSE pc[u]
                             /\ arg'[u] = IF u = t THEN Nil ELSE arg[u]
        BY <1>0, <1>1 DEF TicketPlaces
    <2>2. /\ pc' \in [Threads -> {"idle", "spin"}]
          /\ arg' \in [Threads -> Locks \cup {Nil}]
        BY <1>0, <1>1 DEF TicketPlaces
    <2>3. \A u \in Threads, m \in Locks :
              /\ InLine(u, m)' <=> At(u, m, "spin")' \/ m \in held'[u]
              /\ At(u, m, "spin")' => m \notin held'[u]
        BY <1>0, <1>1, <1>2, <1>6, <2>1 DEF TicketPlaces, At
    <2>4. \A u \in Threads : arg'[u] = Nil <=> pc'[u] = "idle"
        BY <1>0, <2>1 DEF TicketPlaces
    <2> QED
        BY <1>6, <2>2, <2>3, <2>4 DEF TicketPlaces
<1>8. TicketOrder'
    <2>1. 0 \in Ticket!Tickets
        BY LocksAssumption DEF Ticket!TicketAssumption, Ticket!Tickets
    <2>2. my_ticket' \in [Threads -> Ticket!Tickets]
        BY <1>0, <1>1, <2>1 DEF TicketOrder
    <2>3. ASSUME NEW m \in Locks, NEW j \in 1 .. Len(queue[m]),
                 pc'[queue[m][j]] = "spin", arg'[queue[m][j]] = m
          PROVE  my_ticket'[queue[m][j]] = Ticket!Plus(now_serving[m], j - 1)
        <3>1. queue[m][j] \in Threads
            BY <1>0, LineType
        <3>2. /\ queue[m][j] # t
              /\ pc[queue[m][j]] = "spin" /\ arg[queue[m][j]] = m
              /\ my_ticket'[queue[m][j]] = my_ticket[queue[m][j]]
            BY <1>0, <1>1, <2>3, <3>1 DEF TicketPlaces, TicketOrder
        <3> QED
            BY <1>0, <3>2 DEF TicketOrder
    <2> QED
        BY <1>0, <1>1, <2>2, <2>3 DEF TicketOrder
<1> QED
    BY <1>6, <1>7, <1>8 DEF TicketInv

(* The next ticket is that of the next in line.                            *)
LEMMA TicketStartRelease ==
    ASSUME TicketInv, NEW t \in Threads, NEW l \in Locks, Ticket!StartRelease(t, l)
    PROVE  TicketInv' /\ Fifo!Leave(t, l)
PROOF
<1>0. TicketPlaces /\ TicketOrder /\ LineInv
    BY DEF TicketInv, TicketPlaces
<1>1. /\ pc[t] = "idle" /\ l \in held[t]
      /\ now_serving' = [now_serving EXCEPT ![l] = Ticket!Plus(@, 1)]
      /\ Leave(t, l)
      /\ pc' = pc /\ arg' = arg /\ next_ticket' = next_ticket /\ my_ticket' = my_ticket
    BY DEF Ticket!StartRelease, Ticket!Leave, Leave
<1>2. /\ LineInv' /\ Fifo!Leave(t, l)
      /\ \A u \in Threads, m \in Locks :
             m \in held'[u] <=> m \in held[u] /\ ~(u = t /\ m = l)
    BY <1>0, <1>1, LeaveStep
<1>3. \A u \in Threads, m \in Locks :
          InLine(u, m)' <=> InLine(u, m) /\ ~(u = t /\ m = l)
    BY <1>0, <1>1, LineShrinks
<1>4. TicketPlaces'
    <2>1. \A u \in Threads, m \in Locks :
              /\ InLine(u, m)' <=> At(u, m, "spin")' \/ m \in held'[u]
              /\ At(u, m, "spin")' => m \notin held'[u]
        BY <1>0, <1>1, <1>2, <1>3 DEF TicketPlaces, At
    <2> QED
        BY <1>0, <1>1, <1>2, <2>1 DEF TicketPlaces
<1>5. /\ Len(queue[l]) > 0 /\ queue[l][1] = t
      /\ \A m \in Locks \ {l} : queue'[m] = queue[m]
      /\ Len(queue'[l]) = Len(queue[l]) - 1
      /\ \A i \in 1 .. Len(queue'[l]) : queue'[l][i] = queue[l][i + 1]
    BY <1>0, <1>1, LineShrinks
<1>6. Len(queue[l]) \in 1 .. TicketMod /\ TicketMod \in Nat
    <2>1. Len(queue[l]) \in 0 .. TicketMod /\ TicketMod \in Nat
        BY <1>0, EnoughTickets DEF LineInv
    <2> QED
        BY <1>5, <2>1
<1>7. now_serving[l] \in Ticket!Tickets /\ now_serving'[l] = Ticket!Plus(now_serving[l], 1)
    BY <1>0, <1>1 DEF TicketOrder
<1>8. now_serving' \in [Locks -> Ticket!Tickets]
    <2>1. 1 \in 0 .. TicketMod
        BY <1>6
    <2>2. Ticket!Plus(now_serving[l], 1) \in Ticket!Tickets
        BY <1>7, <2>1, PlusFacts
    <2> QED
        BY <1>0, <1>1, <2>2 DEF TicketOrder
<1>9. next_ticket'[l] = Ticket!Plus(now_serving'[l], Len(queue'[l]))
    <2>1. next_ticket[l] = Ticket!Plus(now_serving[l], Len(queue[l]))
        BY <1>0 DEF TicketOrder
    <2>2. Len(queue'[l]) \in 0 .. TicketMod - 1 /\ Len(queue'[l]) + 1 = Len(queue[l])
        BY <1>5, <1>6
    <2>3. Ticket!Plus(now_serving'[l], Len(queue'[l])) =
          Ticket!Plus(now_serving[l], Len(queue'[l]) + 1)
        BY <1>7, <2>2, PlusPlus
    <2> QED
        BY <1>1, <2>1, <2>2, <2>3
<1>10. ASSUME NEW m \in Locks \ {l}
       PROVE  /\ next_ticket'[m] = Ticket!Plus(now_serving'[m], Len(queue'[m]))
              /\ \A i \in 1 .. Len(queue'[m]) :
                     pc'[queue'[m][i]] = "spin" /\ arg'[queue'[m][i]] = m =>
                         my_ticket'[queue'[m][i]] = Ticket!Plus(now_serving'[m], i - 1)
    BY <1>0, <1>1, <1>5, SMTT(20) DEF TicketOrder
<1>11. ASSUME NEW i \in 1 .. Len(queue'[l]),
              pc'[queue'[l][i]] = "spin", arg'[queue'[l][i]] = l
       PROVE  my_ticket'[queue'[l][i]] = Ticket!Plus(now_serving'[l], i - 1)
    <2> DEFINE j == i + 1
    <2>1. j \in 1 .. Len(queue[l]) /\ i - 1 \in 0 .. TicketMod - 1
          /\ i = j - 1 /\ (i - 1) + 1 = j - 1
        BY <1>5, <1>6
    <2>2. queue'[l][i] = queue[l][j]
        BY <1>5
    <2> HIDE DEF j
    <2>3. my_ticket[queue[l][j]] = Ticket!Plus(now_serving[l], j - 1)
        BY <1>0, <1>1, <1>11, <2>1, <2>2 DEF TicketOrder
    <2>4. Ticket!Plus(now_serving'[l], i - 1) = Ticket!Plus(now_serving[l], (i - 1) + 1)
        BY <1>7, <2>1, PlusPlus
    <2> QED
        BY <1>1, <2>1, <2>2, <2>3, <2>4
<1>12. TicketOrder'
    BY <1>0, <1>1, <1>8, <1>9, <1>10, <1>11 DEF TicketOrder
<1> QED
    BY <1>2, <1>4, <1>12 DEF TicketInv

(* What the invariant says.                                                *)
LEMMA TicketFollows == TicketInv => Ticket!TypeOK /\ Ticket!TicketsFollowQueue
PROOF
<1> SUFFICES ASSUME TicketInv PROVE Ticket!TypeOK /\ Ticket!TicketsFollowQueue
    OBVIOUS
<1>0. TicketPlaces /\ TicketOrder /\ LineInv
    BY DEF TicketInv, TicketPlaces
<1>1. Ticket!TypeOK
    BY <1>0 DEF Ticket!TypeOK, Ticket!CallerTypeOK, TicketPlaces, TicketOrder, LineInv
<1>2. ASSUME NEW l \in Locks, NEW i \in DOMAIN queue[l],
             queue[l][i] \notin Ticket!holders[l]
      PROVE  my_ticket[queue[l][i]] = Ticket!Plus(now_serving[l], i - 1)
    <2>1. i \in 1 .. Len(queue[l]) /\ queue[l][i] \in Threads
        BY <1>0, LineType
    <2>2. InLine(queue[l][i], l)
        BY <2>1 DEF InLine
    <2>3. l \notin held[queue[l][i]]
        BY <1>2, <2>1 DEF Ticket!holders
    <2>4. pc[queue[l][i]] = "spin" /\ arg[queue[l][i]] = l
        BY <1>0, <2>1, <2>2, <2>3 DEF TicketPlaces, At
    <2> QED
        BY <1>0, <2>1, <2>4 DEF TicketOrder
<1>3. Ticket!TicketsFollowQueue
    BY <1>0, <1>2 DEF Ticket!TicketsFollowQueue, TicketOrder
<1> QED
    BY <1>1, <1>3

(* Every step of TicketLock keeps the invariant, and is a step of FifoLock *)
(* or one that FifoLock does not see.                                      *)
LEMMA TicketNext ==
    ASSUME TicketInv, [Ticket!Next]_(Ticket!vars)
    PROVE  TicketInv' /\ [Fifo!Next]_(Fifo!vars)
PROOF
<1>1. CASE UNCHANGED Ticket!vars
    <2>1. UNCHANGED << pc, arg, held, queue >> /\ UNCHANGED Ticket!ticketVars
        BY <1>1 DEF Ticket!vars, Ticket!callerVars
    <2>2. UNCHANGED Fifo!vars
        BY <2>1 DEF Fifo!vars, holders
    <2>3. TicketInv'
        BY <2>1 DEF TicketInv, TicketPlaces, TicketOrder, LineInv, InLine, At, Ticket!ticketVars
    <2> QED
        BY <2>2, <2>3
<1>2. ASSUME NEW t \in Threads, NEW l \in Locks,
             Ticket!StartAcquire(t, l) \/ Ticket!StartRelease(t, l) \/ Ticket!Continue(t, l)
      PROVE  TicketInv' /\ [Fifo!Next]_(Fifo!vars)
    <2>1. TicketInv' /\ (\/ Fifo!Arrive(t, l) \/ Fifo!Take(t, l) \/ Fifo!Enter(t, l) \/ Fifo!Leave(t, l)
                         \/ UNCHANGED Fifo!vars)
        <3>1. CASE Ticket!StartAcquire(t, l)
            BY <3>1, TicketStartAcquire
        <3>2. CASE Ticket!StartRelease(t, l)
            BY <3>2, TicketStartRelease
        <3>3. CASE Ticket!Spin(t, l)
            BY <3>3, TicketSpin
        <3> QED
            BY <1>2, <3>1, <3>2, <3>3 DEF Ticket!Continue
    <2> QED
        BY <2>1 DEF Fifo!Next
<1> QED
    BY <1>1, <1>2 DEF Ticket!Next

-----------------------------------------------------------------------------
(***************************************************************************)
(* ABQLLock.                                                               *)
(***************************************************************************)

(* Who waits for an ABQLLock or has it is in its line; the holder is,      *)
(* until it raises the next flag.                                          *)
ABQLPlaces ==
    /\ pc \in [Threads -> {"idle", "spin", "wake"}]
    /\ arg \in [Threads -> Locks \cup {Nil}]
    /\ LineInv
    /\ \A t \in Threads :
           /\ arg[t] = Nil <=> pc[t] = "idle"
           /\ held[t] = {} \/ \E l \in Locks : held[t] = {l}
           /\ pc[t] = "spin" => held[t] = {}
           /\ pc[t] = "wake" => arg[t] \in held[t]
    /\ \A t \in Threads, l \in Locks : InLine(t, l) <=> At(t, l, "spin") \/ l \in held[t]

(* How many have passed lock l on.                                         *)
Passed(l) == abqlTail[l] - Len(queue[l])

(* The holder is between its two stores.                                   *)
Waking(l) == \E t \in Threads : At(t, l, "wake")

(* The slots of the line follow one another, from that of the first, whose *)
(* flag is the one that is up.                                             *)
ABQLOrder ==
    /\ flags \in [Locks -> [ABQL!Slots -> BOOLEAN]]
    /\ abqlTail \in [Locks -> 0 .. MaxTail]
    /\ slot \in [Threads -> ABQL!Slots]
    /\ \A l \in Locks :
           /\ Passed(l) >= 0
           /\ \A i \in ABQL!Slots :
                  flags[l][i] <=> i = Passed(l) % ABQL_MAX_THREADS /\ ~Waking(l)
           /\ \A i \in 1 .. Len(queue[l]) :
                  slot[queue[l][i]] = (Passed(l) + (i - 1)) % ABQL_MAX_THREADS

ABQLInv == ABQLPlaces /\ ABQLOrder

(* The slots of a lock, and the int that counts its arrivals.              *)
LEMMA SlotFacts ==
    /\ ABQL_MAX_THREADS \in Nat \ {0}
    /\ IntMax \in Nat
    /\ \A n \in Nat : /\ n % ABQL_MAX_THREADS \in ABQL!Slots
                      /\ ABQL!SlotOf(n) = n % ABQL_MAX_THREADS
PROOF
<1>1. ABQL_MAX_THREADS \in Nat \ {0} /\ IntMax \in Nat
    BY LocksAssumption DEF ABQL!ABQLAssumption
<1>2. \A n \in Nat : n % ABQL_MAX_THREADS \in 0 .. ABQL_MAX_THREADS - 1
    BY <1>1, Division
<1> QED
    BY <1>1, <1>2 DEF ABQL!Slots, ABQL!SlotOf

(* There is a slot for everybody in line.                                  *)
LEMMA EnoughSlots ==
    ASSUME LineInv, NEW l \in Locks
    PROVE  Len(queue[l]) \in 0 .. ABQL_MAX_THREADS
PROOF
<1>1. /\ IsFiniteSet(Threads) /\ ABQL_MAX_THREADS \in Nat \ {0}
      /\ Cardinality(Threads) <= ABQL_MAX_THREADS
    BY LocksAssumption DEF ABQL!ABQLAssumption, ABQL!Cardinality, ABQL!IsFiniteSet,
                           Cardinality, IsFiniteSet
<1>2. Len(queue[l]) \in Nat /\ Len(queue[l]) <= Cardinality(Threads)
      /\ Cardinality(Threads) \in Nat
    BY <1>1, LineType, LineLength DEF LineInv
<1> QED
    BY <1>1, <1>2

(* The first slot is up to begin with, and nobody is in line.              *)
LEMMA ABQLInitially ==
    ASSUME NoWrap, CallerInit, ABQL!ABQLInit
    PROVE  ABQLInv
PROOF
<1>1. ABQLPlaces
    BY LinesEmpty, CallerAssumption DEF ABQLPlaces, CallerInit, At
<1>2. 0 \in ABQL!Slots /\ 0 \in 0 .. MaxTail /\ 0 % ABQL_MAX_THREADS = 0
    <2>1. \A n \in Nat : n < ABQL_MAX_THREADS => n % ABQL_MAX_THREADS = n
        BY SlotFacts, ReducedOnce
    <2> QED
        BY <2>1, SlotFacts DEF ABQL!Slots, NoWrap
<1>3. \A l \in Locks : Passed(l) = 0 /\ Len(queue[l]) = 0 /\ ~Waking(l)
    BY LinesEmpty DEF Passed, Waking, ABQL!ABQLInit, CallerInit, At
<1>4. ABQLOrder
    BY <1>2, <1>3 DEF ABQLOrder, ABQL!ABQLInit
<1> QED
    BY <1>1, <1>4 DEF ABQLInv

(* The next slot is taken: those before it belong to the line.             *)
LEMMA ABQLStartAcquire ==
    ASSUME OneAtATime, NoWrap, ABQLInv,
           NEW t \in Threads, NEW l \in Locks, ABQL!StartAcquire(t, l)
    PROVE  ABQLInv' /\ Fifo!Arrive(t, l)
PROOF
<1>0. ABQLPlaces /\ ABQLOrder /\ LineInv
    BY DEF ABQLInv, ABQLPlaces
<1>1. /\ pc[t] = "idle" /\ MayAcquire(t, l) /\ abqlTail[l] # MaxTail
      /\ pc' = [pc EXCEPT ![t] = "spin"] /\ arg' = [arg EXCEPT ![t] = l]
      /\ abqlTail' = [abqlTail EXCEPT ![l] = ABQL!Increment(@)]
      /\ slot' = [slot EXCEPT ![t] = ABQL!SlotOf(abqlTail[l])]
      /\ queue' = [queue EXCEPT ![l] = Append(@, t)]
      /\ held' = held /\ flags' = flags
    BY DEF ABQL!StartAcquire, ABQL!BeginAcquire, ABQL!MayAcquire, ABQL!Arrive, MayAcquire,
           ABQL!Cardinality, Cardinality
<1>2. held[t] = {} /\ ~InLine(t, l) /\ \A m \in Locks : ~InLine(t, m)
    <2>1. held[t] = {}
        BY <1>0, <1>1, HoldsNone DEF ABQLPlaces, OneAtATime
    <2> QED
        BY <1>0, <1>1, <2>1 DEF ABQLPlaces, At
<1>3. LineInv' /\ Fifo!Arrive(t, l)
    BY <1>0, <1>1, <1>2, ArriveStep DEF Arrive
<1>4. /\ \A m \in Locks \ {l} : queue'[m] = queue[m]
      /\ Len(queue'[l]) = Len(queue[l]) + 1
      /\ \A i \in 1 .. Len(queue[l]) : queue'[l][i] = queue[l][i]
      /\ queue'[l][Len(queue[l]) + 1] = t
    BY <1>0, <1>1, <1>2, LineGrows
<1>5. \A u \in Threads : /\ pc'[u] = IF u = t THEN "spin" ELSE pc[u]
                         /\ arg'[u] = IF u = t THEN l ELSE arg[u]
    BY <1>0, <1>1 DEF ABQLPlaces
<1>6. ABQLPlaces'
    <2>1. \A u \in Threads, m \in Locks :
              InLine(u, m)' <=> InLine(u, m) \/ (u = t /\ m = l)
        BY <1>0, <1>1, <1>2, LineGrows
    <2>2. /\ pc' \in [Threads -> {"idle", "spin", "wake"}]
          /\ arg' \in [Threads -> Locks \cup {Nil}]
        BY <1>0, <1>1 DEF ABQLPlaces
    <2>3. \A u \in Threads, m \in Locks :
              InLine(u, m)' <=> At(u, m, "spin")' \/ m \in held'[u]
        BY <1>0, <1>1, <1>2, <1>5, <2>1 DEF ABQLPlaces, At
    <2>4. \A u \in Threads :
              /\ arg'[u] = Nil <=> pc'[u] = "idle"
              /\ held'[u] = {} \/ \E m \in Locks : held'[u] = {m}
              /\ pc'[u] = "spin" => held'[u] = {}
              /\ pc'[u] = "wake" => arg'[u] \in held'[u]
        BY <1>0, <1>1, <1>2, <1>5, CallerAssumption DEF ABQLPlaces
    <2> QED
        BY <1>3, <2>2, <2>3, <2>4 DEF ABQLPlaces
<1>7. abqlTail[l] \in 0 .. MaxTail /\ MaxTail \in 0 .. IntMax /\ Len(queue[l]) \in Nat
    BY <1>0, LineType DEF ABQLOrder, NoWrap
<1>8. /\ abqlTail'[l] = abqlTail[l] + 1 /\ abqlTail'[l] \in 0 .. MaxTail
      /\ \A m \in Locks \ {l} : abqlTail'[m] = abqlTail[m]
    <2>1. IntMax \in Nat
        BY SlotFacts
    <2>2. abqlTail' = [abqlTail EXCEPT ![l] = abqlTail[l] + 1]
        <3>1. abqlTail[l] # IntMax /\ abqlTail[l] + 1 \in 0 .. MaxTail
            BY <1>1, <1>7, <2>1
        <3>2. ABQL!Increment(abqlTail[l]) = abqlTail[l] + 1
            BY <3>1 DEF ABQL!Increment
        <3>3. abqlTail' = [abqlTail EXCEPT ![l] = ABQL!Increment(abqlTail[l])]
            BY <1>1
        <3> QED
            BY <3>2, <3>3
    <2> QED
        BY <1>0, <1>1, <1>7, <2>2 DEF ABQLOrder
<1>9. \A m \in Locks : Passed(m)' = Passed(m) /\ (Waking(m)' <=> Waking(m))
    <2>1. Passed(l)' = Passed(l)
        BY <1>4, <1>7, <1>8 DEF Passed
    <2>2. \A m \in Locks \ {l} : Passed(m)' = Passed(m)
        BY <1>4, <1>8 DEF Passed
    <2>3. \A m \in Locks : Waking(m)' <=> Waking(m)
        BY <1>1, <1>5 DEF Waking, At
    <2> QED
        BY <2>1, <2>2, <2>3
<1>10. /\ slot'[t] = abqlTail[l] % ABQL_MAX_THREADS
       /\ slot'[t] \in ABQL!Slots
       /\ \A u \in Threads \ {t} : slot'[u] = slot[u]
    BY <1>0, <1>1, <1>7, SlotFacts DEF ABQLOrder
<1>11. ASSUME NEW m \in Locks, NEW i \in 1 .. Len(queue'[m])
       PROVE  slot'[queue'[m][i]] = (Passed(m) + (i - 1)) % ABQL_MAX_THREADS
    <2>1. CASE m = l /\ i = Len(queue[l]) + 1
        <3>1. queue'[m][i] = t /\ Passed(m) + (i - 1) = abqlTail[l]
            BY <1>4, <1>7, <2>1 DEF Passed
        <3> QED
            BY <1>10, <3>1
    <2>2. CASE ~(m = l /\ i = Len(queue[l]) + 1)
        <3>1. i \in 1 .. Len(queue[m]) /\ queue'[m][i] = queue[m][i]
            BY <1>4, <1>7, <2>2
        <3>2. queue[m][i] \in Threads /\ queue[m][i] # t
            BY <1>0, <1>2, <3>1, LineType DEF InLine
        <3>3. slot'[queue'[m][i]] = slot[queue[m][i]]
            BY <1>10, <3>1, <3>2
        <3>4. slot[queue[m][i]] = (Passed(m) + (i - 1)) % ABQL_MAX_THREADS
            BY <1>0, <3>1 DEF ABQLOrder
        <3> QED
            BY <3>3, <3>4
    <2> QED
        BY <2>1, <2>2
<1>12. ABQLOrder'
    <2>1. /\ flags' \in [Locks -> [ABQL!Slots -> BOOLEAN]]
          /\ abqlTail' \in [Locks -> 0 .. MaxTail]
          /\ slot' \in [Threads -> ABQL!Slots]
        BY <1>0, <1>1, <1>8, <1>10 DEF ABQLOrder
    <2> QED
        BY <1>0, <1>1, <1>9, <1>11, <2>1 DEF ABQLOrder
<1> QED
    BY <1>3, <1>6, <1>12 DEF ABQLInv

(* The flag that is up is that of the first in line, who enters.           *)
LEMMA ABQLSpin ==
    ASSUME ABQLInv, NEW t \in Threads, NEW l \in Locks, ABQL!Spin(t, l)
    PROVE  ABQLInv' /\ Fifo!Enter(t, l)
PROOF
<1>0. ABQLPlaces /\ ABQLOrder /\ LineInv
    BY DEF ABQLInv, ABQLPlaces
<1>1. /\ pc[t] = "spin" /\ arg[t] = l /\ slot[t] \in ABQL!Slots /\ flags[l][slot[t]]
      /\ pc' = [pc EXCEPT ![t] = "idle"] /\ arg' = [arg EXCEPT ![t] = Nil]
      /\ Enter(t, l)
      /\ held' = [held EXCEPT ![t] = @ \cup {l}] /\ queue' = queue
      /\ flags' = flags /\ abqlTail' = abqlTail /\ slot' = slot
    BY DEF ABQL!Spin, ABQL!At, ABQL!Enter, ABQL!Return, ABQL!abqlVars, Enter
<1>2. InLine(t, l) /\ held[t] = {}
    BY <1>0, <1>1 DEF ABQLPlaces, At
<1>3. PICK k \in 1 .. Len(queue[l]) : queue[l][k] = t
    BY <1>2 DEF InLine
<1>4. k = 1
    <2>1. Passed(l) \in Nat
        BY <1>0, LineType DEF ABQLOrder, Passed
    <2>2. /\ slot[t] = (Passed(l) + (k - 1)) % ABQL_MAX_THREADS
          /\ slot[t] = Passed(l) % ABQL_MAX_THREADS
        BY <1>0, <1>1, <1>3 DEF ABQLOrder
    <2>3. k - 1 \in 0 .. ABQL_MAX_THREADS - 1 /\ ABQL_MAX_THREADS \in Nat \ {0}
        BY <1>0, EnoughSlots, SlotFacts
    <2>4. k - 1 = 0
        BY <2>1, <2>2, <2>3, NoLap
    <2> QED
        BY <2>4
<1>5. Len(queue[l]) > 0 /\ queue[l][1] = t
    BY <1>0, <1>3, <1>4, LineType
<1>6. /\ LineInv' /\ Fifo!Enter(t, l)
      /\ \A u \in Threads, m \in Locks :
             /\ InLine(u, m)' <=> InLine(u, m)
             /\ m \in held'[u] <=> m \in held[u] \/ (u = t /\ m = l)
    BY <1>0, <1>1, <1>2, <1>5, EnterStep
<1>7. \A u \in Threads : /\ pc'[u] = IF u = t THEN "idle" ELSE pc[u]
                         /\ arg'[u] = IF u = t THEN Nil ELSE arg[u]
                         /\ held'[u] = IF u = t THEN {l} ELSE held[u]
    BY <1>0, <1>1, <1>2 DEF ABQLPlaces, LineInv
<1>8. ABQLPlaces'
    <2>1. /\ pc' \in [Threads -> {"idle", "spin", "wake"}]
          /\ arg' \in [Threads -> Locks \cup {Nil}]
        BY <1>0, <1>1 DEF ABQLPlaces
    <2>2. \A u \in Threads, m \in Locks :
              InLine(u, m)' <=> At(u, m, "spin")' \/ m \in held'[u]
        BY <1>0, <1>1, <1>2, <1>6, <1>7 DEF ABQLPlaces, At
    <2>3. \A u \in Threads :
              /\ arg'[u] = Nil <=> pc'[u] = "idle"
              /\ held'[u] = {} \/ \E m \in Locks : held'[u] = {m}
              /\ pc'[u] = "spin" => held'[u] = {}
              /\ pc'[u] = "wake" => arg'[u] \in held'[u]
        BY <1>0, <1>7 DEF ABQLPlaces
    <2> QED
        BY <1>6, <2>1, <2>2, <2>3 DEF ABQLPlaces
<1>9. ABQLOrder'
    <2>1. \A m \in Locks : Passed(m)' = Passed(m)
        BY <1>1 DEF Passed
    <2>2. \A m \in Locks : Waking(m)' <=> Waking(m)
        BY <1>1, <1>7 DEF Waking, At
    <2>3. /\ flags' \in [Locks -> [ABQL!Slots -> BOOLEAN]]
          /\ abqlTail' \in [Locks -> 0 .. MaxTail]
          /\ slot' \in [Threads -> ABQL!Slots]
        BY <1>0, <1>1 DEF ABQLOrder
    <2>4. \A m \in Locks, i \in ABQL!Slots :
              flags'[m][i] <=> i = Passed(m)' % ABQL_MAX_THREADS /\ ~Waking(m)'
        BY <1>0, <1>1, <2>1, <2>2 DEF ABQLOrder
    <2>5. \A m \in Locks :
              /\ Passed(m)' >= 0
              /\ \A i \in 1 .. Len(queue'[m]) :
                     slot'[queue'[m][i]] = (Passed(m)' + (i - 1)) % ABQL_MAX_THREADS
        BY <1>0, <1>1, <2>1 DEF ABQLOrder
    <2> QED
        BY <2>3, <2>4, <2>5 DEF ABQLOrder
<1> QED
    BY <1>6, <1>8, <1>9 DEF ABQLInv

(* The holder of a lock has the slot whose flag is up.                     *)
LEMMA HolderSlot ==
    ASSUME ABQLInv, NEW t \in Threads, NEW l \in Locks, l \in held[t]
    PROVE  slot[t] = Passed(l) % ABQL_MAX_THREADS /\ Passed(l) \in Nat
PROOF
<1>0. ABQLPlaces /\ ABQLOrder /\ LineInv
    BY DEF ABQLInv, ABQLPlaces
<1>1. Len(queue[l]) > 0 /\ queue[l][1] = t /\ Len(queue[l]) \in Nat
    BY <1>0, LineType DEF LineInv
<1>2. Passed(l) \in Nat
    BY <1>0, <1>1 DEF ABQLOrder, Passed
<1>3. 1 \in 1 .. Len(queue[l]) /\ Passed(l) + (1 - 1) = Passed(l)
    BY <1>1, <1>2
<1>4. slot[queue[l][1]] = (Passed(l) + (1 - 1)) % ABQL_MAX_THREADS
    BY <1>0, <1>3 DEF ABQLOrder
<1> QED
    BY <1>1, <1>2, <1>3, <1>4

(* No flag is up while the holder is between its two stores.               *)
LEMMA ABQLStartRelease ==
    ASSUME ABQLInv, NEW t \in Threads, NEW l \in Locks, ABQL!StartRelease(t, l)
    PROVE  ABQLInv' /\ UNCHANGED Fifo!vars
PROOF
<1>0. ABQLPlaces /\ ABQLOrder /\ LineInv
    BY DEF ABQLInv, ABQLPlaces
<1>1. /\ pc[t] = "idle" /\ l \in held[t]
      /\ pc' = [pc EXCEPT ![t] = "wake"] /\ arg' = [arg EXCEPT ![t] = l]
      /\ flags' = [flags EXCEPT ![l][slot[t]] = FALSE]
      /\ Stay /\ held' = held /\ queue' = queue
      /\ abqlTail' = abqlTail /\ slot' = slot
    BY DEF ABQL!StartRelease, ABQL!BeginRelease, ABQL!Stay, Stay
<1>2. /\ LineInv' /\ UNCHANGED Fifo!vars
      /\ \A u \in Threads, m \in Locks : InLine(u, m)' <=> InLine(u, m)
    BY <1>0, <1>1, StayStep
<1>3. \A u \in Threads : /\ pc'[u] = IF u = t THEN "wake" ELSE pc[u]
                         /\ arg'[u] = IF u = t THEN l ELSE arg[u]
    BY <1>0, <1>1 DEF ABQLPlaces
<1>4. ABQLPlaces'
    <2>1. /\ pc' \in [Threads -> {"idle", "spin", "wake"}]
          /\ arg' \in [Threads -> Locks \cup {Nil}]
        BY <1>0, <1>1 DEF ABQLPlaces
    <2>2. \A u \in Threads, m \in Locks :
              InLine(u, m)' <=> At(u, m, "spin")' \/ m \in held'[u]
        BY <1>0, <1>1, <1>2, <1>3 DEF ABQLPlaces, At
    <2>3. \A u \in Threads :
              /\ arg'[u] = Nil <=> pc'[u] = "idle"
              /\ held'[u] = {} \/ \E m \in Locks : held'[u] = {m}
              /\ pc'[u] = "spin" => held'[u] = {}
              /\ pc'[u] = "wake" => arg'[u] \in held'[u]
        BY <1>0, <1>1, <1>3, CallerAssumption DEF ABQLPlaces
    <2> QED
        BY <1>2, <2>1, <2>2, <2>3 DEF ABQLPlaces
<1>5. ABQLOrder'
    <2>1. \A m \in Locks : Passed(m)' = Passed(m)
        BY <1>1 DEF Passed
    <2>2. Waking(l)' /\ \A m \in Locks \ {l} : Waking(m)' <=> Waking(m)
        BY <1>1, <1>3 DEF Waking, At
    <2>3. slot[t] \in ABQL!Slots /\ slot[t] = Passed(l) % ABQL_MAX_THREADS
        BY <1>0, <1>1, HolderSlot DEF ABQLOrder
    <2>4. /\ flags' \in [Locks -> [ABQL!Slots -> BOOLEAN]]
          /\ \A m \in Locks \ {l} : flags'[m] = flags[m]
          /\ \A i \in ABQL!Slots : flags'[l][i] <=> flags[l][i] /\ i # slot[t]
        BY <1>0, <1>1, <2>3 DEF ABQLOrder
    <2>5. \A m \in Locks, i \in ABQL!Slots :
              flags'[m][i] <=> i = Passed(m) % ABQL_MAX_THREADS /\ ~Waking(m)'
        BY <1>0, <2>2, <2>3, <2>4 DEF ABQLOrder
    <2> QED
        BY <1>0, <1>1, <2>1, <2>4, <2>5 DEF ABQLOrder
<1> QED
    BY <1>2, <1>4, <1>5 DEF ABQLInv

(* The flag of the next slot goes up when its holder is first in line.     *)
LEMMA ABQLWake ==
    ASSUME ABQLInv, NEW t \in Threads, NEW l \in Locks, ABQL!Wake(t, l)
    PROVE  ABQLInv' /\ Fifo!Leave(t, l)
PROOF
<1>0. ABQLPlaces /\ ABQLOrder /\ LineInv
    BY DEF ABQLInv, ABQLPlaces
<1>1. /\ pc[t] = "wake" /\ arg[t] = l
      /\ pc' = [pc EXCEPT ![t] = "idle"] /\ arg' = [arg EXCEPT ![t] = Nil]
      /\ flags' = [flags EXCEPT ![l][ABQL!NextSlot(slot[t])] = TRUE]
      /\ Leave(t, l) /\ held' = [held EXCEPT ![t] = @ \ {l}]
      /\ abqlTail' = abqlTail /\ slot' = slot
    BY DEF ABQL!Wake, ABQL!At, ABQL!Return, ABQL!Leave, Leave
<1>2. l \in held[t] /\ held[t] = {l}
    BY <1>0, <1>1 DEF ABQLPlaces
<1>3. /\ LineInv' /\ Fifo!Leave(t, l)
      /\ \A u \in Threads, m \in Locks :
             m \in held'[u] <=> m \in held[u] /\ ~(u = t /\ m = l)
    BY <1>0, <1>1, <1>2, LeaveStep
<1>4. \A u \in Threads, m \in Locks :
          InLine(u, m)' <=> InLine(u, m) /\ ~(u = t /\ m = l)
    BY <1>0, <1>1, <1>2, LineShrinks
<1>5. /\ Len(queue[l]) > 0
      /\ \A m \in Locks \ {l} : queue'[m] = queue[m]
      /\ Len(queue'[l]) = Len(queue[l]) - 1
      /\ \A i \in 1 .. Len(queue'[l]) : queue'[l][i] = queue[l][i + 1]
    BY <1>0, <1>1, <1>2, LineShrinks
<1>6. \A u \in Threads : /\ pc'[u] = IF u = t THEN "idle" ELSE pc[u]
                         /\ arg'[u] = IF u = t THEN Nil ELSE arg[u]
                         /\ held'[u] = IF u = t THEN {} ELSE held[u]
    <2>1. \A u \in Threads : /\ pc'[u] = IF u = t THEN "idle" ELSE pc[u]
                             /\ arg'[u] = IF u = t THEN Nil ELSE arg[u]
        BY <1>0, <1>1 DEF ABQLPlaces
    <2>2. held'[t] = {} /\ \A u \in Threads \ {t} : held'[u] = held[u]
        BY <1>0, <1>1, <1>2 DEF LineInv
    <2> QED
        BY <2>1, <2>2
<1>7. ABQLPlaces'
    <2>1. /\ pc' \in [Threads -> {"idle", "spin", "wake"}]
          /\ arg' \in [Threads -> Locks \cup {Nil}]
        BY <1>0, <1>1 DEF ABQLPlaces
    <2>2. \A u \in Threads, m \in Locks :
              InLine(u, m)' <=> At(u, m, "spin")' \/ m \in held'[u]
        BY <1>0, <1>1, <1>2, <1>3, <1>4, <1>6 DEF ABQLPlaces, At
    <2>3. \A u \in Threads :
              /\ arg'[u] = Nil <=> pc'[u] = "idle"
              /\ held'[u] = {} \/ \E m \in Locks : held'[u] = {m}
              /\ pc'[u] = "spin" => held'[u] = {}
              /\ pc'[u] = "wake" => arg'[u] \in held'[u]
        BY <1>0, <1>6 DEF ABQLPlaces
    <2> QED
        BY <1>3, <2>1, <2>2, <2>3 DEF ABQLPlaces
<1>8. Waking(l) /\ ~Waking(l)' /\ \A m \in Locks \ {l} : Waking(m)' <=> Waking(m)
    <2>1. Waking(l)
        BY <1>1 DEF Waking, At
    <2>2. \A u \in Threads \ {t} : ~At(u, l, "wake")
        BY <1>0, <1>2, OneHolder DEF At, ABQLPlaces
    <2>3. ~Waking(l)'
        BY <1>6, <2>2 DEF Waking, At
    <2>4. \A m \in Locks \ {l} : Waking(m)' <=> Waking(m)
        BY <1>1, <1>6 DEF Waking, At
    <2> QED
        BY <2>1, <2>3, <2>4
<1>9. /\ Passed(l) \in Nat /\ Passed(l)' = Passed(l) + 1
      /\ \A m \in Locks \ {l} : Passed(m)' = Passed(m)
    <2>1. Passed(l) \in Nat
        BY <1>0, <1>2, HolderSlot
    <2>2. abqlTail[l] \in Int /\ Len(queue[l]) \in Int
        BY <1>0, LineType DEF ABQLOrder
    <2> QED
        BY <1>1, <1>5, <2>1, <2>2 DEF Passed
<1>10. ABQL!NextSlot(slot[t]) = (Passed(l) + 1) % ABQL_MAX_THREADS
    <2>1. slot[t] = Passed(l) % ABQL_MAX_THREADS
        BY <1>0, <1>2, HolderSlot
    <2>2. (Passed(l) + 1) % ABQL_MAX_THREADS =
          ((Passed(l) % ABQL_MAX_THREADS) + 1) % ABQL_MAX_THREADS
        BY <1>9, SlotFacts, OneMore
    <2> QED
        BY <2>1, <2>2 DEF ABQL!NextSlot
<1>11. ABQLOrder'
    <2> DEFINE next == ABQL!NextSlot(slot[t])
    <2>1. next \in ABQL!Slots
        BY <1>9, <1>10, SlotFacts
    <2> HIDE DEF next
    <2>2. /\ flags' \in [Locks -> [ABQL!Slots -> BOOLEAN]]
          /\ \A m \in Locks \ {l} : flags'[m] = flags[m]
          /\ \A i \in ABQL!Slots : flags'[l][i] <=> flags[l][i] \/ i = next
        BY <1>0, <1>1, <2>1 DEF ABQLOrder, next
    <2>3. \A i \in ABQL!Slots : flags'[l][i] <=> i = next
        BY <1>0, <1>8, <2>2 DEF ABQLOrder
    <2>4. \A m \in Locks, i \in ABQL!Slots :
              flags'[m][i] <=> i = Passed(m)' % ABQL_MAX_THREADS /\ ~Waking(m)'
        <3>1. \A i \in ABQL!Slots :
                  flags'[l][i] <=> i = Passed(l)' % ABQL_MAX_THREADS /\ ~Waking(l)'
            BY <1>8, <1>9, <1>10, <2>3 DEF next
        <3>2. \A m \in Locks \ {l}, i \in ABQL!Slots :
                  flags'[m][i] <=> i = Passed(m)' % ABQL_MAX_THREADS /\ ~Waking(m)'
            BY <1>0, <1>8, <1>9, <2>2 DEF ABQLOrder
        <3> QED
            BY <3>1, <3>2
    <2>5. ASSUME NEW i \in 1 .. Len(queue'[l])
          PROVE  slot'[queue'[l][i]] = (Passed(l)' + (i - 1)) % ABQL_MAX_THREADS
        <3> DEFINE j == i + 1
        <3>1. j \in 1 .. Len(queue[l]) /\ Passed(l) + (j - 1) = Passed(l)' + (i - 1)
            BY <1>0, <1>5, <1>9, LineType, SMTT(20)
        <3>2. queue'[l][i] = queue[l][j]
            BY <1>5
        <3> HIDE DEF j
        <3>3. slot[queue[l][j]] = (Passed(l) + (j - 1)) % ABQL_MAX_THREADS
            BY <1>0, <3>1 DEF ABQLOrder
        <3> QED
            BY <1>1, <3>1, <3>2, <3>3
    <2>6. \A m \in Locks \ {l} : \A i \in 1 .. Len(queue'[m]) :
              slot'[queue'[m][i]] = (Passed(m)' + (i - 1)) % ABQL_MAX_THREADS
        BY <1>0, <1>1, <1>5, <1>9 DEF ABQLOrder
    <2>7. \A m \in Locks : Passed(m)' >= 0
        BY <1>0, <1>9 DEF ABQLOrder
    <2>8. /\ abqlTail' \in [Locks -> 0 .. MaxTail]
          /\ slot' \in [Threads -> ABQL!Slots]
        BY <1>0, <1>1 DEF ABQLOrder
    <2> QED
        BY <2>2, <2>4, <2>5, <2>6, <2>7, <2>8 DEF ABQLOrder
<1> QED
    BY <1>3, <1>7, <1>11 DEF ABQLInv

(* What the runs check of ABQLLock.                                        *)
LEMMA ABQLFollows ==
    ASSUME NoWrap, ABQLInv
    PROVE  ABQL!TypeOK /\ ABQL!FlagFollowsQueue
PROOF
<1>0. ABQLPlaces /\ ABQLOrder /\ LineInv
    BY DEF ABQLInv, ABQLPlaces
<1>1. ABQL!TypeOK
    <2>1. ABQL!CallerTypeOK
        BY <1>0 DEF ABQL!CallerTypeOK, ABQLPlaces, LineInv
    <2>2. abqlTail \in [Locks -> -(IntMax + 1) .. IntMax]
        <3>1. \A n \in 0 .. MaxTail : n \in -(IntMax + 1) .. IntMax
            BY SlotFacts DEF NoWrap
        <3> QED
            BY <1>0, <3>1 DEF ABQLOrder
    <2> QED
        BY <1>0, <2>1, <2>2 DEF ABQL!TypeOK, ABQLPlaces, ABQLOrder
<1>2. ASSUME NEW l \in Locks
      PROVE  /\ Passed(l) \in Nat /\ abqlTail[l] \in Nat /\ Len(queue[l]) \in Nat
             /\ abqlTail[l] = Passed(l) + Len(queue[l])
             /\ ABQL!SlotOf(abqlTail[l]) = abqlTail[l] % ABQL_MAX_THREADS
    <2>1. abqlTail[l] \in Nat /\ Len(queue[l]) \in Nat /\ Passed(l) >= 0
        BY <1>0, LineType DEF ABQLOrder, NoWrap
    <2>2. Passed(l) \in Nat /\ abqlTail[l] = Passed(l) + Len(queue[l])
        BY <2>1 DEF Passed
    <2> QED
        BY <2>1, <2>2, SlotFacts
<1>3. ASSUME NEW l \in Locks
      PROVE  LET first == IF queue[l] = << >> THEN ABQL!SlotOf(abqlTail[l])
                          ELSE slot[Head(queue[l])]
                 waking == \E t \in Threads : ABQL!At(t, l, "wake")
             IN  /\ { i \in ABQL!Slots : flags[l][i] } = IF waking THEN {} ELSE {first}
                 /\ \A i \in DOMAIN queue[l] :
                        slot[queue[l][i]] = (first + i - 1) % ABQL_MAX_THREADS
                 /\ ABQL!SlotOf(abqlTail[l]) =
                        (first + Len(queue[l])) % ABQL_MAX_THREADS
    <2> DEFINE first == IF queue[l] = << >> THEN ABQL!SlotOf(abqlTail[l])
                        ELSE slot[Head(queue[l])]
               waking == \E t \in Threads : ABQL!At(t, l, "wake")
    <2>1. first = Passed(l) % ABQL_MAX_THREADS
        <3>1. CASE queue[l] = << >>
            <4>1. Len(queue[l]) = 0
                BY <3>1
            <4>2. abqlTail[l] = Passed(l)
                BY <1>2, <4>1
            <4> QED
                BY <1>2, <3>1, <4>2
        <3>2. CASE queue[l] # << >>
            <4>1. /\ Head(queue[l]) = queue[l][1] /\ 1 \in 1 .. Len(queue[l])
                  /\ Passed(l) + (1 - 1) = Passed(l)
                BY <1>0, <1>2, <3>2, LineType
            <4>2. slot[queue[l][1]] = (Passed(l) + (1 - 1)) % ABQL_MAX_THREADS
                BY <1>0, <4>1 DEF ABQLOrder
            <4> QED
                BY <3>2, <4>1, <4>2
        <3> QED
            BY <3>1, <3>2
    <2>2. waking <=> Waking(l)
        BY DEF Waking, ABQL!At, At
    <2> HIDE DEF first, waking
    <2>3. first \in ABQL!Slots /\ first \in Nat
        <3>1. first \in ABQL!Slots
            BY <1>2, <2>1, SlotFacts
        <3>2. \A i \in 0 .. ABQL_MAX_THREADS - 1 : i \in Nat
            OBVIOUS
        <3> QED
            BY <3>1, <3>2 DEF ABQL!Slots
    <2>4. { i \in ABQL!Slots : flags[l][i] } = IF waking THEN {} ELSE {first}
        <3>1. \A i \in ABQL!Slots : flags[l][i] <=> i = first /\ ~waking
            BY <1>0, <2>1, <2>2 DEF ABQLOrder
        <3> QED
            BY <2>3, <3>1
    <2>5. \A n \in Nat : (Passed(l) + n) % ABQL_MAX_THREADS = (first + n) % ABQL_MAX_THREADS
        BY <1>2, <2>1, ReducedFirst, SlotFacts
    <2>6. ASSUME NEW i \in DOMAIN queue[l]
          PROVE  slot[queue[l][i]] = (first + i - 1) % ABQL_MAX_THREADS
        <3>1. i \in 1 .. Len(queue[l]) /\ i - 1 \in Nat /\ first + i - 1 = first + (i - 1)
            BY <1>0, <1>2, <2>3, LineType
        <3>2. slot[queue[l][i]] = (Passed(l) + (i - 1)) % ABQL_MAX_THREADS
            BY <1>0, <3>1 DEF ABQLOrder
        <3>3. (Passed(l) + (i - 1)) % ABQL_MAX_THREADS = (first + (i - 1)) % ABQL_MAX_THREADS
            BY <2>5, <3>1
        <3> QED
            BY <3>1, <3>2, <3>3
    <2>7. ABQL!SlotOf(abqlTail[l]) = (first + Len(queue[l])) % ABQL_MAX_THREADS
        BY <1>2, <2>5
    <2> QED
        BY <2>4, <2>6, <2>7 DEF first, waking
<1> QED
    BY <1>1, <1>3 DEF ABQL!FlagFollowsQueue

(* Every step of ABQLLock keeps the invariant, and is a step of FifoLock   *)
(* or one that FifoLock does not see.                                      *)
LEMMA ABQLNext ==
    ASSUME OneAtATime, NoWrap, ABQLInv, [ABQL!Next]_(ABQL!vars)
    PROVE  ABQLInv' /\ [Fifo!Next]_(Fifo!vars)
PROOF
<1>1. CASE UNCHANGED ABQL!vars
    <2>1. UNCHANGED << pc, arg, held, queue >> /\ UNCHANGED ABQL!abqlVars
        BY <1>1 DEF ABQL!vars, ABQL!callerVars
    <2>2. UNCHANGED Fifo!vars
        BY <2>1 DEF Fifo!vars, holders
    <2>3. ABQLInv'
        <3>1. ABQLPlaces'
            BY <2>1 DEF ABQLInv, ABQLPlaces, LineInv, InLine, At
        <3>2. /\ flags' = flags /\ abqlTail' = abqlTail /\ slot' = slot
              /\ \A l \in Locks : Passed(l)' = Passed(l) /\ (Waking(l)' <=> Waking(l))
            BY <2>1 DEF ABQL!abqlVars, Passed, Waking, At
        <3>3. ABQLOrder'
            BY <2>1, <3>2 DEF ABQLInv, ABQLOrder, ABQL!Slots
        <3> QED
            BY <3>1, <3>3 DEF ABQLInv
    <2> QED
        BY <2>2, <2>3
<1>2. ASSUME NEW t \in Threads, NEW l \in Locks,
             ABQL!StartAcquire(t, l) \/ ABQL!StartRelease(t, l) \/ ABQL!Continue(t, l)
      PROVE  ABQLInv' /\ [Fifo!Next]_(Fifo!vars)
    <2>1. ABQLInv' /\ (\/ Fifo!Arrive(t, l) \/ Fifo!Take(t, l) \/ Fifo!Enter(t, l) \/ Fifo!Leave(t, l)
                       \/ UNCHANGED Fifo!vars)
        <3>1. CASE ABQL!StartAcquire(t, l)
            BY <3>1, ABQLStartAcquire
        <3>2. CASE ABQL!StartRelease(t, l)
            BY <3>2, ABQLStartRelease
        <3>3. CASE ABQL!Spin(t, l)
            BY <3>3, ABQLSpin
        <3>4. CASE ABQL!Wake(t, l)
            BY <3>4, ABQLWake
        <3> QED
            BY <1>2, <3>1, <3>2, <3>3, <3>4 DEF ABQL!Continue
    <2> QED
        BY <2>1 DEF Fifo!Next
<1> QED
    BY <1>1, <1>2 DEF ABQL!Next

-----------------------------------------------------------------------------
(***************************************************************************)
(* MCSLock.                                                                *)
(***************************************************************************)

(* Who has passed the exchange on the tail of an MCSLock is in its line,   *)
(* and nobody else.                                                        *)
MCSPlaces ==
    /\ pc \in [Threads -> {"idle", "exchange", "link", "spin", "cas", "await", "handoff"}]
    /\ arg \in [Threads -> Locks \cup {Nil}]
    /\ LineInv
    /\ \A t \in Threads :
           /\ arg[t] = Nil <=> pc[t] = "idle"
           /\ held[t] = {} \/ \E l \in Locks : held[t] = {l}
           /\ pc[t] \in {"exchange", "link", "spin"} => held[t] = {}
           /\ pc[t] \in {"cas", "await", "handoff"} => arg[t] \in held[t]
    /\ \A t \in Threads, l \in Locks :
           InLine(t, l) <=> At(t, l, "link") \/ At(t, l, "spin") \/ l \in held[t]

(* The node of t is linked to that of u behind it, or about to be.         *)
MCSLinked(t, u, l) ==
    \/ mcsNext[t] = u /\ ~At(u, l, "link")
    \/ mcsNext[t] = Nil /\ At(u, l, "link") /\ mcsPrev[u] = t

(* The nodes are linked in the order of the line, up to the windows        *)
(* between an exchange and a link, and only the first in line may have     *)
(* been woken.                                                             *)
MCSOrder ==
    /\ mcsTail \in [Locks -> Threads \cup {Nil}]
    /\ mcsNext \in [Threads -> Threads \cup {Nil}]
    /\ mcsLocked \in [Threads -> BOOLEAN]
    /\ mcsPrev \in [Threads -> Threads \cup {Nil}]
    /\ \A t \in Threads :
           /\ pc[t] = "exchange" => mcsNext[t] = Nil
           /\ pc[t] \in {"exchange", "link"} => mcsLocked[t]
           /\ pc[t] = "handoff" => mcsNext[t] # Nil
    /\ \A l \in Locks : Len(queue[l]) = 0 => mcsTail[l] = Nil
    /\ \A l \in Locks : \A i \in 1 .. Len(queue[l]) :
           /\ i = Len(queue[l]) => mcsTail[l] = queue[l][i] /\ mcsNext[queue[l][i]] = Nil
           /\ i + 1 \in 1 .. Len(queue[l]) => MCSLinked(queue[l][i], queue[l][i + 1], l)
           /\ At(queue[l][i], l, "link") => i # 1
           /\ At(queue[l][i], l, "spin") /\ ~mcsLocked[queue[l][i]] => i = 1

MCSInv == MCSPlaces /\ MCSOrder

(* A thread is in one line at a time.                                      *)
LEMMA MCSOneLine ==
    ASSUME MCSPlaces, NEW t \in Threads, NEW l \in Locks, NEW m \in Locks,
           InLine(t, l), InLine(t, m)
    PROVE  l = m
PROOF
    BY DEF MCSPlaces, At

(* No thread is in line to begin with.                                     *)
LEMMA MCSInitially ==
    ASSUME CallerInit, MCS!MCSInit
    PROVE  MCSInv
PROOF
<1>1. MCSPlaces
    BY LinesEmpty, CallerAssumption DEF MCSPlaces, CallerInit, At
<1>2. MCSOrder
    <2>1. \A l \in Locks : Len(queue[l]) = 0 /\ mcsTail[l] = Nil
        BY LinesEmpty DEF MCS!MCSInit
    <2>2. \A t \in Threads : pc[t] = "idle"
        BY DEF CallerInit
    <2> QED
        BY <2>1, <2>2 DEF MCSOrder, MCS!MCSInit
<1> QED
    BY <1>1, <1>2 DEF MCSInv

(* The node of a thread that is in no line is made ready for one.          *)
LEMMA MCSStartAcquire ==
    ASSUME OneAtATime, MCSInv, NEW t \in Threads, NEW l \in Locks, MCS!StartAcquire(t, l)
    PROVE  MCSInv' /\ UNCHANGED Fifo!vars
PROOF
<1>0. MCSPlaces /\ MCSOrder /\ LineInv
    BY DEF MCSInv, MCSPlaces
<1>1. /\ pc[t] = "idle" /\ MayAcquire(t, l)
      /\ pc' = [pc EXCEPT ![t] = "exchange"] /\ arg' = [arg EXCEPT ![t] = l]
      /\ mcsNext' = [mcsNext EXCEPT ![t] = Nil]
      /\ mcsLocked' = [mcsLocked EXCEPT ![t] = TRUE]
      /\ Stay /\ held' = held /\ queue' = queue
      /\ mcsTail' = mcsTail /\ mcsPrev' = mcsPrev
    BY DEF MCS!StartAcquire, MCS!BeginAcquire, MCS!MayAcquire, MayAcquire, MCS!Stay, Stay,
           MCS!Cardinality, Cardinality
<1>2. held[t] = {} /\ \A m \in Locks : ~InLine(t, m)
    <2>1. held[t] = {}
        BY <1>0, <1>1, HoldsNone DEF MCSPlaces, OneAtATime
    <2> QED
        BY <1>0, <1>1, <2>1 DEF MCSPlaces, At
<1>3. /\ LineInv' /\ UNCHANGED Fifo!vars
      /\ \A u \in Threads, m \in Locks : InLine(u, m)' <=> InLine(u, m)
    BY <1>0, <1>1, StayStep
<1>4. \A u \in Threads : /\ pc'[u] = IF u = t THEN "exchange" ELSE pc[u]
                         /\ arg'[u] = IF u = t THEN l ELSE arg[u]
    BY <1>0, <1>1 DEF MCSPlaces
<1>5. MCSPlaces'
    <2>1. /\ pc' \in [Threads -> {"idle", "exchange", "link", "spin", "cas", "await", "handoff"}]
          /\ arg' \in [Threads -> Locks \cup {Nil}]
        BY <1>0, <1>1 DEF MCSPlaces
    <2>2. \A u \in Threads :
              /\ arg'[u] = Nil <=> pc'[u] = "idle"
              /\ held'[u] = {} \/ \E m \in Locks : held'[u] = {m}
              /\ pc'[u] \in {"exchange", "link", "spin"} => held'[u] = {}
              /\ pc'[u] \in {"cas", "await", "handoff"} => arg'[u] \in held'[u]
        BY <1>0, <1>1, <1>2, <1>4, CallerAssumption DEF MCSPlaces
    <2>3. \A u \in Threads, m \in Locks :
              InLine(u, m)' <=> At(u, m, "link")' \/ At(u, m, "spin")' \/ m \in held'[u]
        BY <1>0, <1>1, <1>2, <1>3, <1>4 DEF MCSPlaces, At
    <2> QED
        BY <1>3, <2>1, <2>2, <2>3 DEF MCSPlaces
<1>6. /\ mcsNext'[t] = Nil /\ mcsLocked'[t]
      /\ \A u \in Threads \ {t} : mcsNext'[u] = mcsNext[u] /\ mcsLocked'[u] = mcsLocked[u]
    BY <1>0, <1>1 DEF MCSOrder
<1>7. MCSOrder'
    <2>1. /\ mcsTail' \in [Locks -> Threads \cup {Nil}]
          /\ mcsNext' \in [Threads -> Threads \cup {Nil}]
          /\ mcsLocked' \in [Threads -> BOOLEAN]
          /\ mcsPrev' \in [Threads -> Threads \cup {Nil}]
        BY <1>0, <1>1 DEF MCSOrder
    <2>2. \A u \in Threads :
              /\ pc'[u] = "exchange" => mcsNext'[u] = Nil
              /\ pc'[u] \in {"exchange", "link"} => mcsLocked'[u]
              /\ pc'[u] = "handoff" => mcsNext'[u] # Nil
        BY <1>0, <1>4, <1>6 DEF MCSOrder
    <2>3. ASSUME NEW m \in Locks, NEW i \in 1 .. Len(queue[m])
          PROVE  /\ i = Len(queue[m]) => mcsTail'[m] = queue[m][i] /\ mcsNext'[queue[m][i]] = Nil
                 /\ i + 1 \in 1 .. Len(queue[m]) =>
                        MCSLinked(queue[m][i], queue[m][i + 1], m)'
                 /\ At(queue[m][i], m, "link")' => i # 1
                 /\ At(queue[m][i], m, "spin")' /\ ~mcsLocked'[queue[m][i]] => i = 1
        <3>1. \A j \in 1 .. Len(queue[m]) : queue[m][j] \in Threads \ {t}
            BY <1>0, <1>2, Members
        <3>2. i + 1 \in 1 .. Len(queue[m]) => MCSLinked(queue[m][i], queue[m][i + 1], m)'
            BY <1>0, <1>1, <1>4, <1>6, <3>1 DEF MCSOrder, MCSLinked, At
        <3>3. i = Len(queue[m]) => mcsTail'[m] = queue[m][i] /\ mcsNext'[queue[m][i]] = Nil
            BY <1>0, <1>1, <1>6, <3>1 DEF MCSOrder
        <3>4. /\ At(queue[m][i], m, "link")' => i # 1
              /\ At(queue[m][i], m, "spin")' /\ ~mcsLocked'[queue[m][i]] => i = 1
            <4>1. /\ At(queue[m][i], m, "link") => i # 1
                  /\ At(queue[m][i], m, "spin") /\ ~mcsLocked[queue[m][i]] => i = 1
                BY <1>0 DEF MCSOrder
            <4>2. queue[m][i] \in Threads \ {t}
                BY <3>1
            <4> QED
                BY <1>1, <1>4, <1>6, <4>1, <4>2 DEF At
        <3> QED
            BY <3>2, <3>3, <3>4
    <2>4. \A m \in Locks : Len(queue[m]) = 0 => mcsTail'[m] = Nil
        BY <1>0, <1>1 DEF MCSOrder
    <2> QED
        BY <1>1, <2>1, <2>2, <2>3, <2>4, SMTT(20) DEF MCSOrder, MCSLinked, At
<1> QED
    BY <1>3, <1>5, <1>7 DEF MCSInv

(* The doorway: a thread that finds nobody there goes in, and another has  *)
(* the last in line before it.                                             *)
LEMMA MCSExchange ==
    ASSUME MCSInv, NEW t \in Threads, NEW l \in Locks, MCS!Exchange(t, l)
    PROVE  MCSInv' /\ (Fifo!Take(t, l) \/ Fifo!Arrive(t, l))
PROOF
<1> DEFINE free == Len(queue[l]) = 0
           last == queue[l][Len(queue[l])]
<1>0. MCSPlaces /\ MCSOrder /\ LineInv
    BY DEF MCSInv, MCSPlaces
<1>1. /\ pc[t] = "exchange" /\ arg[t] = l
      /\ mcsPrev' = [mcsPrev EXCEPT ![t] = mcsTail[l]]
      /\ mcsTail' = [mcsTail EXCEPT ![l] = t]
      /\ mcsNext' = mcsNext /\ mcsLocked' = mcsLocked
      /\ \/ /\ mcsTail[l] = Nil /\ Take(t, l)
            /\ pc' = [pc EXCEPT ![t] = "idle"] /\ arg' = [arg EXCEPT ![t] = Nil]
         \/ /\ mcsTail[l] # Nil /\ Arrive(t, l)
            /\ pc' = [pc EXCEPT ![t] = "link"] /\ arg' = arg
    BY DEF MCS!Exchange, MCS!At, MCS!Goto, MCS!Return, MCS!Take, Take, MCS!Arrive, Arrive
<1>2. held[t] = {} /\ \A m \in Locks : ~InLine(t, m)
    BY <1>0, <1>1 DEF MCSPlaces, At
<1>3. /\ Len(queue[l]) \in Nat
      /\ free => mcsTail[l] = Nil
      /\ ~free => /\ Len(queue[l]) \in 1 .. Len(queue[l]) /\ last \in Threads /\ last # t
                  /\ mcsTail[l] = last /\ mcsTail[l] # Nil /\ mcsNext[last] = Nil
    <2>1. Len(queue[l]) \in Nat
        BY <1>0, LineType
    <2>2. ~free => Len(queue[l]) \in 1 .. Len(queue[l])
        BY <2>1
    <2>3. ~free => last \in Threads /\ last # t
        BY <1>0, <1>2, <2>2, Members
    <2> QED
        BY <1>0, <2>1, <2>2, <2>3, CallerAssumption DEF MCSOrder
<1>4. /\ free => Take(t, l)
      /\ ~free => Arrive(t, l)
      /\ queue' = [queue EXCEPT ![l] = Append(@, t)]
      /\ pc' = [pc EXCEPT ![t] = IF free THEN "idle" ELSE "link"]
      /\ arg' = [arg EXCEPT ![t] = IF free THEN Nil ELSE l]
    <2>1. arg = [arg EXCEPT ![t] = l]
        BY <1>0, <1>1 DEF MCSPlaces
    <2> QED
        BY <1>1, <1>3, <2>1 DEF Take, Arrive
<1>5. /\ LineInv' /\ (Fifo!Take(t, l) \/ Fifo!Arrive(t, l))
      /\ \A u \in Threads, m \in Locks :
             m \in held'[u] <=> m \in held[u] \/ (free /\ u = t /\ m = l)
    <2>1. CASE free
        BY <1>0, <1>4, <2>1, TakeStep
    <2>2. CASE ~free
        <3>1. LineInv' /\ Fifo!Arrive(t, l)
            BY <1>0, <1>2, <1>4, <2>2, ArriveStep
        <3> QED
            BY <1>4, <2>2, <3>1 DEF Arrive
    <2> QED
        BY <2>1, <2>2
<1>6. /\ \A m \in Locks \ {l} : queue'[m] = queue[m]
      /\ Len(queue'[l]) = Len(queue[l]) + 1
      /\ \A i \in 1 .. Len(queue[l]) : queue'[l][i] = queue[l][i]
      /\ queue'[l][Len(queue[l]) + 1] = t
      /\ \A u \in Threads, m \in Locks : InLine(u, m)' <=> InLine(u, m) \/ (u = t /\ m = l)
    BY <1>0, <1>2, <1>4, LineGrows
<1> HIDE DEF free, last
<1>7. \A u \in Threads :
          /\ pc'[u] = IF u = t THEN (IF free THEN "idle" ELSE "link") ELSE pc[u]
          /\ arg'[u] = IF u = t THEN (IF free THEN Nil ELSE l) ELSE arg[u]
    BY <1>0, <1>4 DEF MCSPlaces
<1>8. held'[t] = (IF free THEN {l} ELSE {}) /\ \A u \in Threads \ {t} : held'[u] = held[u]
    BY <1>0, <1>2, <1>4 DEF Take, Arrive, LineInv
<1>9. MCSPlaces'
    <2>1. /\ pc' \in [Threads -> {"idle", "exchange", "link", "spin", "cas", "await", "handoff"}]
          /\ arg' \in [Threads -> Locks \cup {Nil}]
        BY <1>0, <1>4 DEF MCSPlaces
    <2>2. \A u \in Threads :
              /\ arg'[u] = Nil <=> pc'[u] = "idle"
              /\ held'[u] = {} \/ \E m \in Locks : held'[u] = {m}
              /\ pc'[u] \in {"exchange", "link", "spin"} => held'[u] = {}
              /\ pc'[u] \in {"cas", "await", "handoff"} => arg'[u] \in held'[u]
        BY <1>0, <1>7, <1>8, CallerAssumption DEF MCSPlaces
    <2>3. \A u \in Threads, m \in Locks :
              InLine(u, m)' <=> At(u, m, "link")' \/ At(u, m, "spin")' \/ m \in held'[u]
        BY <1>0, <1>2, <1>5, <1>6, <1>7 DEF MCSPlaces, At
    <2> QED
        BY <1>5, <2>1, <2>2, <2>3 DEF MCSPlaces
<1>10. /\ mcsPrev'[t] = mcsTail[l] /\ \A u \in Threads \ {t} : mcsPrev'[u] = mcsPrev[u]
       /\ mcsTail'[l] = t /\ \A m \in Locks \ {l} : mcsTail'[m] = mcsTail[m]
       /\ mcsNext'[t] = Nil
    BY <1>0, <1>1 DEF MCSOrder
<1>11. \A m \in Locks : \A i \in 1 .. Len(queue[m]) :
           queue'[m][i] = queue[m][i] /\ queue[m][i] \in Threads \ {t}
    BY <1>0, <1>2, <1>6, Members
<1>12. ASSUME NEW m \in Locks, NEW i \in 1 .. Len(queue'[m]), ~(m = l /\ i = Len(queue[l]) + 1)
       PROVE  /\ i \in 1 .. Len(queue[m]) /\ queue'[m][i] = queue[m][i]
              /\ At(queue[m][i], m, "link")' => i # 1
              /\ At(queue[m][i], m, "spin")' /\ ~mcsLocked'[queue'[m][i]] => i = 1
              /\ i = Len(queue'[m]) =>
                     mcsTail'[m] = queue'[m][i] /\ mcsNext'[queue'[m][i]] = Nil
              /\ i + 1 \in 1 .. Len(queue'[m]) =>
                     MCSLinked(queue[m][i], queue[m][i + 1], m)'
    <2>1. i \in 1 .. Len(queue[m]) /\ queue'[m][i] = queue[m][i]
        BY <1>3, <1>6, <1>11, <1>12
    <2>2. queue[m][i] \in Threads \ {t}
        BY <1>11, <2>1
    <2>3. /\ At(queue[m][i], m, "link") => i # 1
          /\ At(queue[m][i], m, "spin") /\ ~mcsLocked[queue[m][i]] => i = 1
        BY <1>0, <2>1 DEF MCSOrder
    <2>4. /\ At(queue[m][i], m, "link")' => i # 1
          /\ At(queue[m][i], m, "spin")' /\ ~mcsLocked'[queue'[m][i]] => i = 1
        BY <1>1, <1>7, <2>1, <2>2, <2>3 DEF At
    <2>5. ASSUME i = Len(queue'[m])
          PROVE  mcsTail'[m] = queue'[m][i] /\ mcsNext'[queue'[m][i]] = Nil
        <3>1. m # l
            BY <1>6, <1>12, <2>5
        <3> QED
            BY <1>0, <1>1, <1>6, <1>10, <2>1, <2>5, <3>1 DEF MCSOrder
    <2>6. ASSUME i + 1 \in 1 .. Len(queue'[m])
          PROVE  MCSLinked(queue[m][i], queue[m][i + 1], m)'
        <3>1. CASE m = l /\ i = Len(queue[l])
            <4>1. ~free /\ queue[l][i] = last /\ queue'[m][i + 1] = t
                BY <1>3, <1>6, <2>1, <3>1 DEF free, last
            <4>2. mcsNext'[last] = Nil /\ mcsPrev'[t] = last /\ At(t, l, "link")'
                BY <1>1, <1>3, <1>7, <1>10, <4>1 DEF At
            <4> QED
                BY <2>1, <3>1, <4>1, <4>2 DEF MCSLinked
        <3>2. CASE ~(m = l /\ i = Len(queue[l]))
            <4> DEFINE j == i + 1
            <4>1. j \in 1 .. Len(queue[m])
                BY <1>3, <1>6, <2>1, <2>6, <3>2
            <4>2. MCSLinked(queue[m][i], queue[m][j], m)
                BY <1>0, <2>1, <4>1 DEF MCSOrder
            <4> HIDE DEF j
            <4>3. queue'[m][j] = queue[m][j] /\ queue[m][j] \in Threads \ {t}
                BY <1>11, <4>1
            <4>4. MCSLinked(queue[m][i], queue[m][j], m)'
                BY <1>1, <1>7, <1>10, <2>1, <2>2, <4>2, <4>3 DEF MCSLinked, At
            <4> QED
                BY <4>4 DEF j
        <3> QED
            BY <3>1, <3>2
    <2> QED
        BY <2>1, <2>4, <2>5, <2>6
<1>13. ASSUME NEW m \in Locks, NEW i \in 1 .. Len(queue'[m]), m = l, i = Len(queue[l]) + 1
       PROVE  /\ queue'[m][i] = t /\ i = Len(queue'[m]) /\ ~(i + 1 \in 1 .. Len(queue'[m]))
              /\ At(t, m, "link")' => i # 1
              /\ ~At(t, m, "spin")'
              /\ mcsTail'[m] = t /\ mcsNext'[t] = Nil
    BY <1>3, <1>6, <1>7, <1>10, <1>13 DEF At, free
<1>14. MCSOrder'
    <2>1. /\ mcsTail' \in [Locks -> Threads \cup {Nil}]
          /\ mcsNext' \in [Threads -> Threads \cup {Nil}]
          /\ mcsLocked' \in [Threads -> BOOLEAN]
          /\ mcsPrev' \in [Threads -> Threads \cup {Nil}]
        BY <1>0, <1>1 DEF MCSOrder
    <2>2. \A u \in Threads :
              /\ pc'[u] = "exchange" => mcsNext'[u] = Nil
              /\ pc'[u] \in {"exchange", "link"} => mcsLocked'[u]
              /\ pc'[u] = "handoff" => mcsNext'[u] # Nil
        BY <1>0, <1>1, <1>7 DEF MCSOrder
    <2>3. \A m \in Locks : \A i \in 1 .. Len(queue'[m]) :
              /\ At(queue[m][i], m, "link")' => i # 1
              /\ At(queue[m][i], m, "spin")' /\ ~mcsLocked'[queue'[m][i]] => i = 1
              /\ i = Len(queue'[m]) =>
                     mcsTail'[m] = queue'[m][i] /\ mcsNext'[queue'[m][i]] = Nil
              /\ i + 1 \in 1 .. Len(queue'[m]) =>
                     MCSLinked(queue[m][i], queue[m][i + 1], m)'
        BY <1>12, <1>13
    <2>4. \A m \in Locks : Len(queue'[m]) = 0 => mcsTail'[m] = Nil
        BY <1>0, <1>3, <1>6, <1>10 DEF MCSOrder
    <2> QED
        BY <2>1, <2>2, <2>3, <2>4, SMTT(20) DEF MCSOrder, MCSLinked, At
<1> QED
    BY <1>5, <1>9, <1>14 DEF MCSInv

(* A step that changes no node, and where nobody lines up.                 *)
LEMMA MCSNodesStay ==
    ASSUME LineInv, MCSOrder, queue' = queue,
           mcsTail' = mcsTail, mcsNext' = mcsNext, mcsLocked' = mcsLocked, mcsPrev' = mcsPrev,
           \A u \in Threads :
               /\ pc'[u] \in {"exchange", "link"} => pc'[u] = pc[u]
               /\ pc'[u] = "handoff" => mcsNext[u] # Nil
               /\ \A m \in Locks : At(u, m, "link")' <=> At(u, m, "link")
               /\ \A m \in Locks : At(u, m, "spin")' => At(u, m, "spin")
    PROVE  MCSOrder'
PROOF
<1>1. ASSUME NEW m \in Locks, NEW i \in 1 .. Len(queue[m])
      PROVE  /\ i = Len(queue[m]) => mcsTail'[m] = queue[m][i] /\ mcsNext'[queue[m][i]] = Nil
             /\ i + 1 \in 1 .. Len(queue[m]) => MCSLinked(queue[m][i], queue[m][i + 1], m)'
             /\ At(queue[m][i], m, "link")' => i # 1
             /\ At(queue[m][i], m, "spin")' /\ ~mcsLocked'[queue[m][i]] => i = 1
    <2>1. queue[m][i] \in Threads /\ (i + 1 \in 1 .. Len(queue[m]) => queue[m][i + 1] \in Threads)
        BY Members
    <2>2. i + 1 \in 1 .. Len(queue[m]) => MCSLinked(queue[m][i], queue[m][i + 1], m)
        BY DEF MCSOrder
    <2>3. i + 1 \in 1 .. Len(queue[m]) => MCSLinked(queue[m][i], queue[m][i + 1], m)'
        BY <2>1, <2>2 DEF MCSLinked, At
    <2>4. /\ At(queue[m][i], m, "link") => i # 1
          /\ At(queue[m][i], m, "spin") /\ ~mcsLocked[queue[m][i]] => i = 1
        BY DEF MCSOrder
    <2>5. /\ At(queue[m][i], m, "link")' => i # 1
          /\ At(queue[m][i], m, "spin")' /\ ~mcsLocked'[queue[m][i]] => i = 1
        BY <2>1, <2>4 DEF At
    <2> QED
        BY <2>3, <2>5 DEF MCSOrder
<1>2. \A u \in Threads :
          /\ pc'[u] = "exchange" => mcsNext'[u] = Nil
          /\ pc'[u] \in {"exchange", "link"} => mcsLocked'[u]
          /\ pc'[u] = "handoff" => mcsNext'[u] # Nil
    BY DEF MCSOrder
<1>3. /\ mcsTail' \in [Locks -> Threads \cup {Nil}]
      /\ mcsNext' \in [Threads -> Threads \cup {Nil}]
      /\ mcsLocked' \in [Threads -> BOOLEAN]
      /\ mcsPrev' \in [Threads -> Threads \cup {Nil}]
      /\ \A m \in Locks : Len(queue[m]) = 0 => mcsTail'[m] = Nil
    BY DEF MCSOrder
<1> QED
    BY <1>1, <1>2, <1>3 DEF MCSOrder, MCSLinked, At

(* The node before is linked to that of a thread that has come.            *)
LEMMA MCSLink ==
    ASSUME MCSInv, NEW t \in Threads, NEW l \in Locks, MCS!Link(t, l)
    PROVE  MCSInv' /\ UNCHANGED Fifo!vars
PROOF
<1>0. MCSPlaces /\ MCSOrder /\ LineInv
    BY DEF MCSInv, MCSPlaces
<1>1. /\ pc[t] = "link" /\ arg[t] = l
      /\ pc' = [pc EXCEPT ![t] = "spin"] /\ arg' = arg
      /\ mcsNext' = [mcsNext EXCEPT ![mcsPrev[t]] = t]
      /\ mcsPrev' = [mcsPrev EXCEPT ![t] = Nil]
      /\ Stay /\ held' = held /\ queue' = queue
      /\ mcsTail' = mcsTail /\ mcsLocked' = mcsLocked
    BY DEF MCS!Link, MCS!At, MCS!Goto, MCS!Stay, Stay
<1>2. InLine(t, l) /\ held[t] = {}
    BY <1>0, <1>1 DEF MCSPlaces, At
<1>3. PICK k \in 1 .. Len(queue[l]) : queue[l][k] = t
    BY <1>2 DEF InLine
<1>4. PICK j \in 1 .. Len(queue[l]) : j + 1 = k
    <2>1. k # 1
        BY <1>0, <1>1, <1>3 DEF MCSOrder, At
    <2>2. k - 1 \in 1 .. Len(queue[l]) /\ (k - 1) + 1 = k
        BY <1>0, <2>1, LineType
    <2> QED
        BY <2>2
<1> DEFINE p == queue[l][j]
<1>5. p \in Threads /\ InLine(p, l) /\ mcsNext[p] = Nil /\ mcsPrev[t] = p
    <2>1. MCSLinked(queue[l][j], queue[l][j + 1], l)
        BY <1>0, <1>4 DEF MCSOrder
    <2> QED
        BY <1>0, <1>1, <1>3, <1>4, <2>1, Members DEF MCSLinked, At
<1>6. /\ mcsNext'[p] = t /\ \A u \in Threads \ {p} : mcsNext'[u] = mcsNext[u]
      /\ \A u \in Threads \ {t} : mcsPrev'[u] = mcsPrev[u]
    BY <1>0, <1>1, <1>5 DEF MCSOrder
<1>7. \A m \in Locks : \A i \in 1 .. Len(queue[m]) :
          /\ queue[m][i] \in Threads
          /\ queue[m][i] = p => m = l /\ i = j
          /\ queue[m][i] = t => m = l /\ i = j + 1
    <2>1. \A m \in Locks : \A i \in 1 .. Len(queue[m]) :
              queue[m][i] \in Threads /\ InLine(queue[m][i], m)
        BY <1>0, Members
    <2>2. \A i \in 1 .. Len(queue[l]) :
              /\ queue[l][i] = p => i = j
              /\ queue[l][i] = t => i = j + 1
        BY <1>0, <1>3, <1>4 DEF LineInv
    <2> QED
        BY <1>0, <1>2, <1>5, <2>1, <2>2, MCSOneLine
<1>8. /\ LineInv' /\ UNCHANGED Fifo!vars
      /\ \A u \in Threads, m \in Locks : InLine(u, m)' <=> InLine(u, m)
    BY <1>0, <1>1, StayStep
<1>9. \A u \in Threads : pc'[u] = IF u = t THEN "spin" ELSE pc[u]
    BY <1>0, <1>1 DEF MCSPlaces
<1>10. MCSPlaces'
    <2>1. pc' \in [Threads -> {"idle", "exchange", "link", "spin", "cas", "await", "handoff"}]
        BY <1>0, <1>1 DEF MCSPlaces
    <2>2. \A u \in Threads :
              /\ arg'[u] = Nil <=> pc'[u] = "idle"
              /\ held'[u] = {} \/ \E m \in Locks : held'[u] = {m}
              /\ pc'[u] \in {"exchange", "link", "spin"} => held'[u] = {}
              /\ pc'[u] \in {"cas", "await", "handoff"} => arg'[u] \in held'[u]
        BY <1>0, <1>1, <1>2, <1>9 DEF MCSPlaces
    <2>3. \A u \in Threads, m \in Locks :
              InLine(u, m)' <=> At(u, m, "link")' \/ At(u, m, "spin")' \/ m \in held'[u]
        BY <1>0, <1>1, <1>2, <1>8, <1>9 DEF MCSPlaces, At
    <2> QED
        BY <1>0, <1>1, <1>8, <2>1, <2>2, <2>3 DEF MCSPlaces
<1>11. p # t /\ pc[p] # "exchange" /\ mcsLocked[t] /\ mcsLocked'[t]
    <2>1. p # t
        BY <1>0, <1>3, <1>4 DEF LineInv
    <2>2. pc[p] # "exchange"
        BY <1>0, <1>5 DEF MCSPlaces, At
    <2> QED
        BY <1>0, <1>1, <2>1, <2>2 DEF MCSOrder
<1>12. ASSUME NEW m \in Locks, NEW i \in 1 .. Len(queue[m])
       PROVE  /\ i = Len(queue[m]) => mcsTail'[m] = queue[m][i] /\ mcsNext'[queue[m][i]] = Nil
              /\ i + 1 \in 1 .. Len(queue[m]) => MCSLinked(queue[m][i], queue[m][i + 1], m)'
              /\ At(queue[m][i], m, "link")' => i # 1
              /\ At(queue[m][i], m, "spin")' /\ ~mcsLocked'[queue[m][i]] => i = 1
    <2>1. i = Len(queue[m]) => mcsTail'[m] = queue[m][i] /\ mcsNext'[queue[m][i]] = Nil
        <3> SUFFICES ASSUME i = Len(queue[m])
                     PROVE  mcsTail'[m] = queue[m][i] /\ mcsNext'[queue[m][i]] = Nil
            OBVIOUS
        <3>1. ~(m = l /\ i = j)
            BY <1>0, <1>4, LineType
        <3>2. queue[m][i] \in Threads \ {p}
            BY <1>7, <3>1
        <3> QED
            BY <1>0, <1>1, <1>6, <3>2 DEF MCSOrder
    <2>2. ASSUME i + 1 \in 1 .. Len(queue[m])
          PROVE  MCSLinked(queue[m][i], queue[m][i + 1], m)'
        <3>1. CASE m = l /\ i = j
            BY <1>1, <1>3, <1>4, <1>6, <1>9, <3>1 DEF MCSLinked, At
        <3>2. CASE ~(m = l /\ i = j)
            <4> DEFINE x == queue[m][i]
                       y == queue[m][i + 1]
            <4>1. x \in Threads \ {p} /\ y \in Threads \ {t}
                BY <1>7, <2>2, <3>2
            <4>2. MCSLinked(x, y, m)
                BY <1>0, <2>2 DEF MCSOrder
            <4>3. queue'[m][i] = x /\ queue'[m][i + 1] = y
                BY <1>1
            <4> HIDE DEF x, y
            <4>4. mcsNext'[x] = mcsNext[x] /\ mcsPrev'[y] = mcsPrev[y] /\ pc'[y] = pc[y]
                BY <1>6, <1>9, <4>1
            <4> QED
                BY <1>1, <4>2, <4>3, <4>4 DEF MCSLinked, At
        <3> QED
            BY <3>1, <3>2
    <2>3. /\ At(queue[m][i], m, "link")' => i # 1
          /\ At(queue[m][i], m, "spin")' /\ ~mcsLocked'[queue[m][i]] => i = 1
        <3>1. /\ At(queue[m][i], m, "link") => i # 1
              /\ At(queue[m][i], m, "spin") /\ ~mcsLocked[queue[m][i]] => i = 1
            BY <1>0 DEF MCSOrder
        <3> QED
            BY <1>1, <1>7, <1>9, <1>11, <3>1 DEF At
    <2> QED
        BY <2>1, <2>2, <2>3
<1>13. MCSOrder'
    <2>1. /\ mcsTail' \in [Locks -> Threads \cup {Nil}]
          /\ mcsNext' \in [Threads -> Threads \cup {Nil}]
          /\ mcsLocked' \in [Threads -> BOOLEAN]
          /\ mcsPrev' \in [Threads -> Threads \cup {Nil}]
        BY <1>0, <1>1 DEF MCSOrder
    <2>2. \A u \in Threads :
              /\ pc'[u] = "exchange" => mcsNext'[u] = Nil
              /\ pc'[u] \in {"exchange", "link"} => mcsLocked'[u]
              /\ pc'[u] = "handoff" => mcsNext'[u] # Nil
        <3>1. t # Nil
            BY CallerAssumption
        <3> QED
            BY <1>0, <1>1, <1>6, <1>9, <1>11, <3>1 DEF MCSOrder
    <2>3. \A m \in Locks : Len(queue[m]) = 0 => mcsTail'[m] = Nil
        BY <1>0, <1>1 DEF MCSOrder
    <2> QED
        BY <1>1, <1>12, <2>1, <2>2, <2>3, SMTT(20) DEF MCSOrder, MCSLinked, At
<1> QED
    BY <1>8, <1>10, <1>13 DEF MCSInv

(* Only the first in line has been woken.                                  *)
LEMMA MCSSpin ==
    ASSUME MCSInv, NEW t \in Threads, NEW l \in Locks, MCS!Spin(t, l)
    PROVE  MCSInv' /\ Fifo!Enter(t, l)
PROOF
<1>0. MCSPlaces /\ MCSOrder /\ LineInv
    BY DEF MCSInv, MCSPlaces
<1>1. /\ pc[t] = "spin" /\ arg[t] = l /\ ~mcsLocked[t]
      /\ pc' = [pc EXCEPT ![t] = "idle"] /\ arg' = [arg EXCEPT ![t] = Nil]
      /\ Enter(t, l)
      /\ held' = [held EXCEPT ![t] = @ \cup {l}] /\ queue' = queue
      /\ mcsTail' = mcsTail /\ mcsNext' = mcsNext
      /\ mcsLocked' = mcsLocked /\ mcsPrev' = mcsPrev
    BY DEF MCS!Spin, MCS!At, MCS!Return, MCS!Enter, Enter, MCS!mcsVars
<1>2. InLine(t, l) /\ held[t] = {}
    BY <1>0, <1>1 DEF MCSPlaces, At
<1>3. PICK k \in 1 .. Len(queue[l]) : queue[l][k] = t
    BY <1>2 DEF InLine
<1>4. Len(queue[l]) > 0 /\ queue[l][1] = t
    <2>1. k = 1
        BY <1>0, <1>1, <1>3 DEF MCSOrder, At
    <2> QED
        BY <1>0, <1>3, <2>1, LineType
<1>5. /\ LineInv' /\ Fifo!Enter(t, l)
      /\ \A u \in Threads, m \in Locks : InLine(u, m)' <=> InLine(u, m)
    BY <1>0, <1>1, <1>2, <1>4, EnterStep
<1>6. \A u \in Threads : /\ pc'[u] = IF u = t THEN "idle" ELSE pc[u]
                         /\ arg'[u] = IF u = t THEN Nil ELSE arg[u]
    BY <1>0, <1>1 DEF MCSPlaces
<1>7. held'[t] = {l} /\ \A u \in Threads \ {t} : held'[u] = held[u]
    BY <1>0, <1>1, <1>2 DEF LineInv
<1>8. MCSPlaces'
    <2>1. /\ pc' \in [Threads -> {"idle", "exchange", "link", "spin", "cas", "await", "handoff"}]
          /\ arg' \in [Threads -> Locks \cup {Nil}]
        BY <1>0, <1>1 DEF MCSPlaces
    <2>2. \A u \in Threads :
              /\ arg'[u] = Nil <=> pc'[u] = "idle"
              /\ held'[u] = {} \/ \E m \in Locks : held'[u] = {m}
              /\ pc'[u] \in {"exchange", "link", "spin"} => held'[u] = {}
              /\ pc'[u] \in {"cas", "await", "handoff"} => arg'[u] \in held'[u]
        BY <1>0, <1>6, <1>7 DEF MCSPlaces
    <2>3. \A u \in Threads, m \in Locks :
              InLine(u, m)' <=> At(u, m, "link")' \/ At(u, m, "spin")' \/ m \in held'[u]
        BY <1>0, <1>1, <1>2, <1>5, <1>6, <1>7 DEF MCSPlaces, At
    <2> QED
        BY <1>5, <2>1, <2>2, <2>3 DEF MCSPlaces
<1>9. MCSOrder'
    <2>1. \A u \in Threads :
              /\ pc'[u] \in {"exchange", "link"} => pc'[u] = pc[u]
              /\ pc'[u] = "handoff" => mcsNext[u] # Nil
        BY <1>0, <1>1, <1>6 DEF MCSOrder
    <2>2. \A u \in Threads, m \in Locks :
              /\ At(u, m, "link")' <=> At(u, m, "link")
              /\ At(u, m, "spin")' => At(u, m, "spin")
        BY <1>0, <1>1, <1>6 DEF At
    <2> QED
        BY <1>0, <1>1, <2>1, <2>2, MCSNodesStay
<1> QED
    BY <1>5, <1>8, <1>9 DEF MCSInv

(* A holder that goes from one place of Release to another.                *)
LEMMA MCSHolderGoes ==
    ASSUME MCSInv, NEW t \in Threads, NEW l \in held[t], NEW place, Stay,
           pc[t] \in {"idle", "cas", "await"}, place \in {"cas", "await", "handoff"},
           place = "handoff" => mcsNext[t] # Nil,
           pc' = [pc EXCEPT ![t] = place], arg' = [arg EXCEPT ![t] = l],
           mcsTail' = mcsTail, mcsNext' = mcsNext, mcsLocked' = mcsLocked, mcsPrev' = mcsPrev
    PROVE  MCSInv' /\ UNCHANGED Fifo!vars
PROOF
<1>0. MCSPlaces /\ MCSOrder /\ LineInv
    BY DEF MCSInv, MCSPlaces
<1>1. /\ LineInv' /\ UNCHANGED Fifo!vars /\ l \in Locks
      /\ held' = held /\ queue' = queue
      /\ \A u \in Threads, m \in Locks : InLine(u, m)' <=> InLine(u, m)
    BY <1>0, StayStep DEF Stay, LineInv
<1>2. \A u \in Threads : /\ pc'[u] = IF u = t THEN place ELSE pc[u]
                         /\ arg'[u] = IF u = t THEN l ELSE arg[u]
    BY <1>0 DEF MCSPlaces
<1>3. MCSPlaces'
    <2>1. /\ pc' \in [Threads -> {"idle", "exchange", "link", "spin", "cas", "await", "handoff"}]
          /\ arg' \in [Threads -> Locks \cup {Nil}]
        BY <1>0, <1>1 DEF MCSPlaces
    <2>2. \A u \in Threads :
              /\ arg'[u] = Nil <=> pc'[u] = "idle"
              /\ held'[u] = {} \/ \E m \in Locks : held'[u] = {m}
              /\ pc'[u] \in {"exchange", "link", "spin"} => held'[u] = {}
              /\ pc'[u] \in {"cas", "await", "handoff"} => arg'[u] \in held'[u]
        BY <1>0, <1>1, <1>2, CallerAssumption DEF MCSPlaces
    <2>3. \A u \in Threads, m \in Locks :
              InLine(u, m)' <=> At(u, m, "link")' \/ At(u, m, "spin")' \/ m \in held'[u]
        BY <1>0, <1>1, <1>2 DEF MCSPlaces, At
    <2> QED
        BY <1>1, <2>1, <2>2, <2>3 DEF MCSPlaces
<1>4. MCSOrder'
    <2>1. \A u \in Threads :
              /\ pc'[u] \in {"exchange", "link"} => pc'[u] = pc[u]
              /\ pc'[u] = "handoff" => mcsNext[u] # Nil
        BY <1>0, <1>1, <1>2 DEF MCSOrder
    <2>2. \A u \in Threads, m \in Locks :
              /\ At(u, m, "link")' <=> At(u, m, "link")
              /\ At(u, m, "spin")' => At(u, m, "spin")
        BY <1>0, <1>1, <1>2 DEF At
    <2> QED
        BY <1>0, <1>1, <2>1, <2>2, MCSNodesStay
<1> QED
    BY <1>1, <1>3, <1>4 DEF MCSInv

(* Release sees a successor, or none that is linked yet.                   *)
LEMMA MCSStartRelease ==
    ASSUME MCSInv, NEW t \in Threads, NEW l \in Locks, MCS!StartRelease(t, l)
    PROVE  MCSInv' /\ UNCHANGED Fifo!vars
PROOF
<1> DEFINE place == IF mcsNext[t] = Nil THEN "cas" ELSE "handoff"
<1>1. /\ pc[t] = "idle" /\ l \in held[t] /\ Stay
      /\ pc' = [pc EXCEPT ![t] = place] /\ arg' = [arg EXCEPT ![t] = l]
      /\ mcsTail' = mcsTail /\ mcsNext' = mcsNext
      /\ mcsLocked' = mcsLocked /\ mcsPrev' = mcsPrev
    BY DEF MCS!StartRelease, MCS!BeginRelease, MCS!Stay, Stay, MCS!mcsVars
<1>2. place \in {"cas", "await", "handoff"} /\ (place = "handoff" => mcsNext[t] # Nil)
    OBVIOUS
<1> HIDE DEF place
<1> QED
    BY <1>1, <1>2, MCSHolderGoes

(* The successor has linked itself.                                        *)
LEMMA MCSAwaitSuccessor ==
    ASSUME MCSInv, NEW t \in Threads, NEW l \in Locks, MCS!AwaitSuccessor(t, l)
    PROVE  MCSInv' /\ UNCHANGED Fifo!vars
PROOF
<1>1. /\ pc[t] = "await" /\ arg[t] = l /\ mcsNext[t] # Nil /\ Stay
      /\ pc' = [pc EXCEPT ![t] = "handoff"] /\ arg' = arg
      /\ mcsTail' = mcsTail /\ mcsNext' = mcsNext
      /\ mcsLocked' = mcsLocked /\ mcsPrev' = mcsPrev
    BY DEF MCS!AwaitSuccessor, MCS!At, MCS!Goto, MCS!Stay, Stay, MCS!mcsVars
<1>2. l \in held[t] /\ arg' = [arg EXCEPT ![t] = l]
    BY <1>1 DEF MCSInv, MCSPlaces
<1> QED
    BY <1>1, <1>2, MCSHolderGoes

(* The first in line leaves, and its node with it.                         *)
LEMMA MCSPlacesLeave ==
    ASSUME MCSInv, NEW t \in Threads, NEW l \in Locks, Leave(t, l),
           pc[t] \in {"cas", "handoff"}, arg[t] = l,
           pc' = [pc EXCEPT ![t] = "idle"], arg' = [arg EXCEPT ![t] = Nil]
    PROVE  /\ MCSPlaces' /\ Fifo!Leave(t, l)
           /\ Len(queue[l]) \in Nat \ {0} /\ queue[l][1] = t /\ InLine(t, l)
           /\ \A m \in Locks \ {l} : queue'[m] = queue[m]
           /\ Len(queue'[l]) = Len(queue[l]) - 1
           /\ \A i \in 1 .. Len(queue'[l]) : queue'[l][i] = queue[l][i + 1]
           /\ \A u \in Threads : /\ pc'[u] = IF u = t THEN "idle" ELSE pc[u]
                                 /\ arg'[u] = IF u = t THEN Nil ELSE arg[u]
PROOF
<1>0. MCSPlaces /\ LineInv
    BY DEF MCSInv, MCSPlaces
<1>1. held[t] = {l} /\ l \in held[t] /\ InLine(t, l)
    BY <1>0 DEF MCSPlaces
<1>2. /\ LineInv' /\ Fifo!Leave(t, l)
      /\ Len(queue[l]) \in Nat \ {0} /\ queue[l][1] = t
      /\ \A m \in Locks \ {l} : queue'[m] = queue[m]
      /\ Len(queue'[l]) = Len(queue[l]) - 1
      /\ \A i \in 1 .. Len(queue'[l]) : queue'[l][i] = queue[l][i + 1]
      /\ \A u \in Threads, m \in Locks : InLine(u, m)' <=> InLine(u, m) /\ ~(u = t /\ m = l)
    BY <1>0, <1>1, LeaveStep, LineShrinks, LineType
<1>3. \A u \in Threads : /\ pc'[u] = IF u = t THEN "idle" ELSE pc[u]
                         /\ arg'[u] = IF u = t THEN Nil ELSE arg[u]
    BY <1>0 DEF MCSPlaces
<1>4. held'[t] = {} /\ \A u \in Threads \ {t} : held'[u] = held[u]
    BY <1>0, <1>1 DEF LineInv, Leave
<1>5. MCSPlaces'
    <2>1. /\ pc' \in [Threads -> {"idle", "exchange", "link", "spin", "cas", "await", "handoff"}]
          /\ arg' \in [Threads -> Locks \cup {Nil}]
        BY <1>0 DEF MCSPlaces
    <2>2. \A u \in Threads :
              /\ arg'[u] = Nil <=> pc'[u] = "idle"
              /\ held'[u] = {} \/ \E m \in Locks : held'[u] = {m}
              /\ pc'[u] \in {"exchange", "link", "spin"} => held'[u] = {}
              /\ pc'[u] \in {"cas", "await", "handoff"} => arg'[u] \in held'[u]
        BY <1>0, <1>3, <1>4 DEF MCSPlaces
    <2>3. \A u \in Threads, m \in Locks :
              InLine(u, m)' <=> At(u, m, "link")' \/ At(u, m, "spin")' \/ m \in held'[u]
        BY <1>0, <1>1, <1>2, <1>3, <1>4 DEF MCSPlaces, At
    <2> QED
        BY <1>2, <2>1, <2>2, <2>3 DEF MCSPlaces
<1> QED
    BY <1>1, <1>2, <1>3, <1>5

(* A node that is still the last is the only one: the lock is free.        *)
LEMMA MCSCompareExchange ==
    ASSUME MCSInv, NEW t \in Threads, NEW l \in Locks, MCS!CompareExchange(t, l)
    PROVE  MCSInv' /\ (Fifo!Leave(t, l) \/ UNCHANGED Fifo!vars)
PROOF
<1>0. MCSPlaces /\ MCSOrder /\ LineInv
    BY DEF MCSInv, MCSPlaces
<1>1. /\ pc[t] = "cas" /\ arg[t] = l
      /\ mcsNext' = mcsNext /\ mcsLocked' = mcsLocked /\ mcsPrev' = mcsPrev
      /\ \/ /\ mcsTail[l] = t /\ mcsTail' = [mcsTail EXCEPT ![l] = Nil] /\ Leave(t, l)
            /\ pc' = [pc EXCEPT ![t] = "idle"] /\ arg' = [arg EXCEPT ![t] = Nil]
         \/ /\ mcsTail' = mcsTail /\ Stay
            /\ pc' = [pc EXCEPT ![t] = "await"] /\ arg' = arg
    BY DEF MCS!CompareExchange, MCS!At, MCS!Goto, MCS!Return, MCS!Leave, Leave, MCS!Stay, Stay
<1>2. CASE pc' = [pc EXCEPT ![t] = "await"] /\ arg' = arg /\ Stay /\ mcsTail' = mcsTail
    <2>1. l \in held[t] /\ arg' = [arg EXCEPT ![t] = l]
        BY <1>0, <1>1, <1>2 DEF MCSPlaces
    <2> QED
        BY <1>1, <1>2, <2>1, MCSHolderGoes
<1>3. CASE /\ mcsTail[l] = t /\ mcsTail' = [mcsTail EXCEPT ![l] = Nil] /\ Leave(t, l)
           /\ pc' = [pc EXCEPT ![t] = "idle"] /\ arg' = [arg EXCEPT ![t] = Nil]
    <2>1. /\ MCSPlaces' /\ Fifo!Leave(t, l)
          /\ Len(queue[l]) \in Nat \ {0} /\ queue[l][1] = t /\ InLine(t, l)
          /\ \A m \in Locks \ {l} : queue'[m] = queue[m]
          /\ Len(queue'[l]) = Len(queue[l]) - 1
          /\ \A u \in Threads : /\ pc'[u] = IF u = t THEN "idle" ELSE pc[u]
                                /\ arg'[u] = IF u = t THEN Nil ELSE arg[u]
        <3>1. pc[t] \in {"cas", "handoff"} /\ arg[t] = l
            BY <1>1
        <3>2. /\ Leave(t, l)
              /\ pc' = [pc EXCEPT ![t] = "idle"] /\ arg' = [arg EXCEPT ![t] = Nil]
            BY <1>3
        <3> QED
            BY <3>1, <3>2, MCSPlacesLeave, ZenonT(40)
    <2>2. Len(queue'[l]) = 0
        <3>1. 1 \in 1 .. Len(queue[l]) /\ Len(queue[l]) \in 1 .. Len(queue[l])
            BY <2>1
        <3>2. queue[l][Len(queue[l])] = t
            BY <1>0, <1>3, <3>1 DEF MCSOrder
        <3>3. Len(queue[l]) = 1
            <4>1. \A i, j \in 1 .. Len(queue[l]) : queue[l][i] = queue[l][j] => i = j
                BY <1>0 DEF LineInv
            <4>2. queue[l][1] = t
                BY <2>1
            <4> QED
                BY <3>1, <3>2, <4>1, <4>2
        <3> QED
            BY <2>1, <3>3
    <2>3. mcsTail'[l] = Nil /\ \A m \in Locks \ {l} : mcsTail'[m] = mcsTail[m]
        BY <1>0, <1>3 DEF MCSOrder
    <2>4. ASSUME NEW m \in Locks, NEW i \in 1 .. Len(queue'[m])
          PROVE  /\ i = Len(queue'[m]) =>
                        mcsTail'[m] = queue'[m][i] /\ mcsNext'[queue'[m][i]] = Nil
                 /\ i + 1 \in 1 .. Len(queue'[m]) => MCSLinked(queue[m][i], queue[m][i + 1], m)'
                 /\ At(queue[m][i], m, "link")' => i # 1
                 /\ At(queue[m][i], m, "spin")' /\ ~mcsLocked'[queue'[m][i]] => i = 1
        <3>1. m # l
            BY <2>2
        <3>2. queue'[m] = queue[m] /\ i \in 1 .. Len(queue[m]) /\ mcsTail'[m] = mcsTail[m]
            BY <2>1, <2>3, <3>1
        <3>3. \A j \in 1 .. Len(queue[m]) : queue[m][j] \in Threads \ {t}
            BY <1>0, <2>1, <3>1, Members, MCSOneLine
        <3>4. i + 1 \in 1 .. Len(queue[m]) => MCSLinked(queue[m][i], queue[m][i + 1], m)'
            BY <1>0, <1>1, <2>1, <3>2, <3>3 DEF MCSOrder, MCSLinked, At
        <3>5. /\ At(queue[m][i], m, "link")' => i # 1
              /\ At(queue[m][i], m, "spin")' /\ ~mcsLocked'[queue'[m][i]] => i = 1
            <4>1. /\ At(queue[m][i], m, "link") => i # 1
                  /\ At(queue[m][i], m, "spin") /\ ~mcsLocked[queue[m][i]] => i = 1
                BY <1>0, <3>2 DEF MCSOrder
            <4> QED
                BY <1>1, <2>1, <3>2, <3>3, <4>1 DEF At
        <3> QED
            BY <1>0, <1>1, <3>2, <3>4, <3>5 DEF MCSOrder
    <2>5. MCSOrder'
        <3>1. /\ mcsTail' \in [Locks -> Threads \cup {Nil}]
              /\ mcsNext' \in [Threads -> Threads \cup {Nil}]
              /\ mcsLocked' \in [Threads -> BOOLEAN]
              /\ mcsPrev' \in [Threads -> Threads \cup {Nil}]
            BY <1>0, <1>1, <1>3 DEF MCSOrder
        <3>2. \A u \in Threads :
                  /\ pc'[u] = "exchange" => mcsNext'[u] = Nil
                  /\ pc'[u] \in {"exchange", "link"} => mcsLocked'[u]
                  /\ pc'[u] = "handoff" => mcsNext'[u] # Nil
            BY <1>0, <1>1, <2>1 DEF MCSOrder
        <3>3. \A m \in Locks : Len(queue'[m]) = 0 => mcsTail'[m] = Nil
            BY <1>0, <2>1, <2>3 DEF MCSOrder
        <3> QED
            BY <2>4, <3>1, <3>2, <3>3 DEF MCSOrder, MCSLinked, At
    <2> QED
        BY <2>1, <2>5 DEF MCSInv
<1> QED
    BY <1>1, <1>2, <1>3

(* The thread that is woken is the next in line.                           *)
LEMMA MCSHandOff ==
    ASSUME MCSInv, NEW t \in Threads, NEW l \in Locks, MCS!HandOff(t, l)
    PROVE  MCSInv' /\ Fifo!Leave(t, l)
PROOF
<1>0. MCSPlaces /\ MCSOrder /\ LineInv
    BY DEF MCSInv, MCSPlaces
<1>1. /\ pc[t] = "handoff" /\ arg[t] = l /\ Leave(t, l)
      /\ pc' = [pc EXCEPT ![t] = "idle"] /\ arg' = [arg EXCEPT ![t] = Nil]
      /\ mcsLocked' = [mcsLocked EXCEPT ![mcsNext[t]] = FALSE]
      /\ mcsTail' = mcsTail /\ mcsNext' = mcsNext /\ mcsPrev' = mcsPrev
    BY DEF MCS!HandOff, MCS!At, MCS!Return, MCS!Leave, Leave
<1>2. /\ MCSPlaces' /\ Fifo!Leave(t, l)
      /\ Len(queue[l]) \in Nat \ {0} /\ queue[l][1] = t /\ InLine(t, l)
      /\ \A m \in Locks \ {l} : queue'[m] = queue[m]
      /\ Len(queue'[l]) = Len(queue[l]) - 1
      /\ \A i \in 1 .. Len(queue'[l]) : queue'[l][i] = queue[l][i + 1]
      /\ \A u \in Threads : /\ pc'[u] = IF u = t THEN "idle" ELSE pc[u]
                            /\ arg'[u] = IF u = t THEN Nil ELSE arg[u]
    BY <1>1, MCSPlacesLeave, ZenonT(40)
<1> DEFINE n == queue[l][2]
<1>3. /\ 2 \in 1 .. Len(queue[l]) /\ n \in Threads /\ InLine(n, l)
      /\ mcsNext[t] = n /\ ~At(n, l, "link")
    <2>1. mcsNext[t] # Nil
        BY <1>0, <1>1 DEF MCSOrder
    <2>2. 1 \in 1 .. Len(queue[l]) /\ 1 # Len(queue[l])
        BY <1>0, <1>2, <2>1 DEF MCSOrder
    <2>3. 2 \in 1 .. Len(queue[l]) /\ 1 + 1 = 2
        <3>1. Len(queue[l]) \in Nat \ {0}
            BY <1>2
        <3>2. 2 \in 1 .. Len(queue[l])
            <4>1. \A k \in Nat \ {0} : 1 # k => 2 \in 1 .. k
                OBVIOUS
            <4> QED
                BY <2>2, <3>1, <4>1
        <3>3. 1 + 1 = 2
            OBVIOUS
        <3> QED
            BY <3>2, <3>3
    <2>4. MCSLinked(queue[l][1], queue[l][1 + 1], l)
        BY <1>0, <2>2, <2>3 DEF MCSOrder
    <2>5. n \in Threads /\ InLine(n, l)
        BY <1>0, <2>3, Members
    <2> QED
        BY <1>2, <2>1, <2>3, <2>4, <2>5 DEF MCSLinked
<1>4. \A m \in Locks : \A i \in 1 .. Len(queue[m]) :
          /\ queue[m][i] \in Threads
          /\ queue[m][i] = n => m = l /\ i = 2
          /\ queue[m][i] = t => m = l /\ i = 1
    <2>1. \A m \in Locks : \A i \in 1 .. Len(queue[m]) :
              queue[m][i] \in Threads /\ InLine(queue[m][i], m)
        BY <1>0, Members
    <2>2. \A i \in 1 .. Len(queue[l]) :
              /\ queue[l][i] = n => i = 2
              /\ queue[l][i] = t => i = 1
        BY <1>0, <1>2, <1>3 DEF LineInv
    <2> QED
        BY <1>0, <1>2, <1>3, <2>1, <2>2, MCSOneLine
<1> HIDE DEF n
<1>5. pc[n] \notin {"exchange", "link"}
    BY <1>0, <1>3 DEF MCSPlaces, At
<1>6. ~mcsLocked'[n] /\ \A u \in Threads \ {n} : mcsLocked'[u] = mcsLocked[u]
    BY <1>0, <1>1, <1>3 DEF MCSOrder
<1>7. ASSUME NEW m \in Locks, NEW i \in 1 .. Len(queue'[m])
      PROVE  \E k \in 1 .. Len(queue[m]) :
                 /\ queue'[m][i] = queue[m][k] /\ queue[m][k] \in Threads \ {t}
                 /\ m = l => k = i + 1
                 /\ m # l => k = i
                 /\ i = Len(queue'[m]) <=> k = Len(queue[m])
                 /\ i + 1 \in 1 .. Len(queue'[m]) =>
                        /\ k + 1 \in 1 .. Len(queue[m])
                        /\ queue'[m][i + 1] = queue[m][k + 1]
                        /\ queue[m][k + 1] \in Threads \ {t}
    <2>1. CASE m = l
        <3> DEFINE k == i + 1
        <3>1. /\ k \in 1 .. Len(queue[l]) /\ k # 1
              /\ i = Len(queue'[l]) <=> k = Len(queue[l])
              /\ i + 1 \in 1 .. Len(queue'[l]) => k + 1 \in 1 .. Len(queue[l]) /\ k + 1 # 1
            BY <1>2, <2>1, SMTT(20)
        <3>2. /\ queue'[l][i] = queue[l][k]
              /\ i + 1 \in 1 .. Len(queue'[l]) => queue'[l][i + 1] = queue[l][k + 1]
            BY <1>2, <2>1
        <3> HIDE DEF k
        <3>3. /\ queue[l][k] \in Threads \ {t}
              /\ i + 1 \in 1 .. Len(queue'[l]) => queue[l][k + 1] \in Threads \ {t}
            BY <1>4, <3>1
        <3> QED
            BY <2>1, <3>1, <3>2, <3>3 DEF k
    <2>2. CASE m # l
        BY <1>2, <1>4, <2>2
    <2> QED
        BY <2>1, <2>2
<1>8. ASSUME NEW m \in Locks, NEW i \in 1 .. Len(queue'[m])
      PROVE  /\ i = Len(queue'[m]) =>
                    mcsTail'[m] = queue'[m][i] /\ mcsNext'[queue'[m][i]] = Nil
             /\ i + 1 \in 1 .. Len(queue'[m]) => MCSLinked(queue[m][i], queue[m][i + 1], m)'
             /\ At(queue[m][i], m, "link")' => i # 1
             /\ At(queue[m][i], m, "spin")' /\ ~mcsLocked'[queue'[m][i]] => i = 1
    <2>1. PICK k \in 1 .. Len(queue[m]) :
                 /\ queue'[m][i] = queue[m][k] /\ queue[m][k] \in Threads \ {t}
                 /\ m = l => k = i + 1
                 /\ m # l => k = i
                 /\ i = Len(queue'[m]) <=> k = Len(queue[m])
                 /\ i + 1 \in 1 .. Len(queue'[m]) =>
                        /\ k + 1 \in 1 .. Len(queue[m])
                        /\ queue'[m][i + 1] = queue[m][k + 1]
                        /\ queue[m][k + 1] \in Threads \ {t}
        BY <1>7
    <2> DEFINE x == queue[m][k]
    <2>2. i = Len(queue'[m]) => mcsTail'[m] = x /\ mcsNext'[x] = Nil
        BY <1>0, <1>1, <2>1 DEF MCSOrder
    <2>3. i + 1 \in 1 .. Len(queue'[m]) => MCSLinked(queue[m][i], queue[m][i + 1], m)'
        <3>1. k + 1 \in 1 .. Len(queue[m]) => MCSLinked(queue[m][k], queue[m][k + 1], m)
            BY <1>0 DEF MCSOrder
        <3> QED
            BY <1>1, <1>2, <2>1, <3>1 DEF MCSLinked, At
    <2>4. /\ At(x, m, "link") => k # 1
          /\ At(x, m, "spin") /\ ~mcsLocked[x] => k = 1
        BY <1>0 DEF MCSOrder
    <2>5. pc'[x] = pc[x] /\ arg'[x] = arg[x] /\ (x # n => mcsLocked'[x] = mcsLocked[x])
        BY <1>2, <1>6, <2>1
    <2>6. At(queue[m][i], m, "link")' => i # 1
        <3>1. CASE m = l /\ k = 2
            <4>1. x = n
                BY <3>1 DEF n
            <4> QED
                BY <1>5, <2>1, <2>5, <4>1 DEF At
        <3>2. CASE ~(m = l /\ k = 2)
            <4>1. i = 1 => k = 1
                BY <2>1, <3>2
            <4> QED
                BY <2>1, <2>4, <2>5, <4>1 DEF At
        <3> QED
            BY <3>1, <3>2
    <2>7. At(queue[m][i], m, "spin")' /\ ~mcsLocked'[queue'[m][i]] => i = 1
        <3>1. CASE x = n
            <4>1. m = l /\ k = 2
                BY <1>4, <3>1
            <4> QED
                BY <2>1, <4>1
        <3>2. CASE x # n
            <4>1. k = 1 => i = 1
                BY <2>1
            <4> QED
                BY <2>1, <2>4, <2>5, <3>2, <4>1 DEF At
        <3> QED
            BY <3>1, <3>2
    <2> QED
        BY <2>1, <2>2, <2>3, <2>6, <2>7
<1>9. MCSOrder'
    <2>1. /\ mcsTail' \in [Locks -> Threads \cup {Nil}]
          /\ mcsNext' \in [Threads -> Threads \cup {Nil}]
          /\ mcsLocked' \in [Threads -> BOOLEAN]
          /\ mcsPrev' \in [Threads -> Threads \cup {Nil}]
        BY <1>0, <1>1 DEF MCSOrder
    <2>2. \A u \in Threads :
              /\ pc'[u] = "exchange" => mcsNext'[u] = Nil
              /\ pc'[u] \in {"exchange", "link"} => mcsLocked'[u]
              /\ pc'[u] = "handoff" => mcsNext'[u] # Nil
        <3> SUFFICES ASSUME NEW u \in Threads
                     PROVE  /\ pc'[u] = "exchange" => mcsNext'[u] = Nil
                            /\ pc'[u] \in {"exchange", "link"} => mcsLocked'[u]
                            /\ pc'[u] = "handoff" => mcsNext'[u] # Nil
            OBVIOUS
        <3>1. pc'[u] = IF u = t THEN "idle" ELSE pc[u]
            BY <1>2
        <3>2. /\ pc[u] = "exchange" => mcsNext[u] = Nil
              /\ pc[u] \in {"exchange", "link"} => mcsLocked[u] /\ u # n
              /\ pc[u] = "handoff" => mcsNext[u] # Nil
            BY <1>0, <1>5 DEF MCSOrder
        <3>3. mcsNext'[u] = mcsNext[u] /\ (u # n => mcsLocked'[u] = mcsLocked[u])
            BY <1>1, <1>6
        <3> QED
            BY <3>1, <3>2, <3>3
    <2>3. \A m \in Locks : Len(queue'[m]) = 0 => mcsTail'[m] = Nil
        <3>1. Len(queue'[l]) # 0
            BY <1>2, <1>3
        <3> QED
            BY <1>0, <1>1, <1>2, <3>1 DEF MCSOrder
    <2> QED
        BY <1>8, <2>1, <2>2, <2>3 DEF MCSOrder, MCSLinked, At
<1> QED
    BY <1>2, <1>9 DEF MCSInv

(* What the runs check of MCSLock.                                         *)
LEMMA MCSFollows ==
    ASSUME MCSInv
    PROVE  MCS!TypeOK /\ MCS!NodesFollowQueue
PROOF
<1>0. MCSPlaces /\ MCSOrder /\ LineInv
    BY DEF MCSInv, MCSPlaces
<1>1. MCS!TypeOK
    BY <1>0 DEF MCS!TypeOK, MCS!CallerTypeOK, MCSPlaces, MCSOrder, LineInv
<1>2. ASSUME NEW l \in Locks
      PROVE  mcsTail[l] = IF Len(queue[l]) = 0 THEN Nil ELSE queue[l][Len(queue[l])]
    <2>1. Len(queue[l]) # 0 => Len(queue[l]) \in 1 .. Len(queue[l])
        BY <1>0, LineType
    <2> QED
        BY <1>0, <2>1 DEF MCSOrder
<1>3. ASSUME NEW l \in Locks, NEW i \in 1 .. Len(queue[l]), i # Len(queue[l])
      PROVE  MCSLinked(queue[l][i], queue[l][i + 1], l)
    <2>1. i + 1 \in 1 .. Len(queue[l])
        BY <1>0, <1>3, LineType
    <2> QED
        BY <1>0, <2>1 DEF MCSOrder
<1>4. ASSUME NEW l \in Locks, NEW i \in 1 .. Len(queue[l]), i = Len(queue[l])
      PROVE  mcsNext[queue[l][i]] = Nil
    BY <1>0, <1>4 DEF MCSOrder
<1> QED
    BY <1>1, <1>2, <1>3, <1>4 DEF MCS!NodesFollowQueue, MCSLinked, MCS!At, At

(* Every step of MCSLock keeps the invariant, and is a step of FifoLock or *)
(* one that FifoLock does not see.                                         *)
LEMMA MCSNext ==
    ASSUME OneAtATime, MCSInv, [MCS!Next]_(MCS!vars)
    PROVE  MCSInv' /\ [Fifo!Next]_(Fifo!vars)
PROOF
<1>1. CASE UNCHANGED MCS!vars
    <2>1. UNCHANGED << pc, arg, held, queue >> /\ UNCHANGED MCS!mcsVars
        BY <1>1 DEF MCS!vars, MCS!callerVars
    <2>2. UNCHANGED Fifo!vars
        BY <2>1 DEF Fifo!vars, holders
    <2>3. MCSInv'
        BY <2>1 DEF MCSInv, MCSPlaces, MCSOrder, MCSLinked, LineInv, InLine, At, MCS!mcsVars
    <2> QED
        BY <2>2, <2>3
<1>2. ASSUME NEW t \in Threads, NEW l \in Locks,
             MCS!StartAcquire(t, l) \/ MCS!StartRelease(t, l) \/ MCS!Continue(t, l)
      PROVE  MCSInv' /\ [Fifo!Next]_(Fifo!vars)
    <2>1. MCSInv' /\ (\/ Fifo!Arrive(t, l) \/ Fifo!Take(t, l) \/ Fifo!Enter(t, l) \/ Fifo!Leave(t, l)
                      \/ UNCHANGED Fifo!vars)
        <3>1. CASE MCS!StartAcquire(t, l)
            BY <3>1, MCSStartAcquire
        <3>2. CASE MCS!StartRelease(t, l)
            BY <3>2, MCSStartRelease
        <3>3. CASE MCS!Exchange(t, l)
            BY <3>3, MCSExchange
        <3>4. CASE MCS!Link(t, l)
            BY <3>4, MCSLink
        <3>5. CASE MCS!Spin(t, l)
            BY <3>5, MCSSpin
        <3>6. CASE MCS!CompareExchange(t, l)
            BY <3>6, MCSCompareExchange
        <3>7. CASE MCS!AwaitSuccessor(t, l)
            BY <3>7, MCSAwaitSuccessor
        <3>8. CASE MCS!HandOff(t, l)
            BY <3>8, MCSHandOff
        <3> QED
            BY <1>2, <3>1, <3>2, <3>3, <3>4, <3>5, <3>6, <3>7, <3>8 DEF MCS!Continue
    <2> QED
        BY <2>1 DEF Fifo!Next
<1> QED
    BY <1>1, <1>2 DEF MCS!Next

-----------------------------------------------------------------------------
(***************************************************************************)
(* CLHLock.                                                                *)
(***************************************************************************)

(* Who waits for a CLHLock or has it is in its line, and nobody else.      *)
CLHPlaces ==
    /\ pc \in [Threads -> {"idle", "exchange", "spin", "swap"}]
    /\ arg \in [Threads -> Locks \cup {Nil}]
    /\ LineInv
    /\ \A t \in Threads :
           /\ arg[t] = Nil <=> pc[t] = "idle"
           /\ held[t] = {} \/ \E l \in Locks : held[t] = {l}
           /\ pc[t] # "idle" => held[t] = {}
    /\ \A t \in Threads, l \in Locks : InLine(t, l) <=> At(t, l, "spin") \/ l \in held[t]

(* t has enqueued its node and has not taken another one over.             *)
CLHEnqueued(t) == pc[t] \in {"spin", "swap"} \/ held[t] # {}

(* The node that is nobody's but t's.                                      *)
CLHOwn(t) == IF CLHEnqueued(t) THEN clhMyPred[t] ELSE clhMyNode[t]

(* As many nodes as threads and locks: each has one for itself.            *)
CLHOwners ==
    /\ clhTail \in [Locks -> CLH!Nodes]
    /\ clhLocked \in [CLH!Nodes -> BOOLEAN]
    /\ clhMyNode \in [Threads -> CLH!Nodes]
    /\ clhMyPred \in [Threads -> CLH!Nodes \cup {Nil}]
    /\ \A t \in Threads : CLHEnqueued(t) => clhMyPred[t] \in CLH!Nodes
    /\ \A t, u \in Threads : CLHOwn(t) = CLHOwn(u) => t = u
    /\ \A l, m \in Locks : clhTail[l] = clhTail[m] => l = m
    /\ \A t \in Threads, l \in Locks : CLHOwn(t) # clhTail[l]

(* Each in line watches the node of the one before it, and only the first  *)
(* watches one that is not locked.                                         *)
CLHOrder ==
    /\ \A t \in Threads : pc[t] = "exchange" => clhLocked[clhMyNode[t]]
    /\ \A l \in Locks : Len(queue[l]) = 0 => ~clhLocked[clhTail[l]]
    /\ \A l \in Locks : \A i \in 1 .. Len(queue[l]) :
           /\ clhLocked[clhMyNode[queue[l][i]]]
           /\ i = Len(queue[l]) => clhTail[l] = clhMyNode[queue[l][i]]
           /\ i + 1 \in 1 .. Len(queue[l]) =>
                  clhMyPred[queue[l][i + 1]] = clhMyNode[queue[l][i]]
           /\ i = 1 => ~clhLocked[clhMyPred[queue[l][i]]]

CLHInv == CLHPlaces /\ CLHOwners /\ CLHOrder

(* Every node is somebody's own to begin with, and none is locked.         *)
LEMMA CLHInitially ==
    ASSUME CallerInit, CLH!CLHInit
    PROVE  CLHInv
PROOF
<1>1. \A l \in Locks : Len(queue[l]) = 0
    BY LinesEmpty
<1>2. \A t \in Threads : pc[t] = "idle" /\ arg[t] = Nil /\ held[t] = {} /\ clhMyNode[t] = t
    BY DEF CallerInit, CLH!CLHInit
<1>3. \A l \in Locks : clhTail[l] = l /\ ~clhLocked[l]
    BY DEF CLH!CLHInit, CLH!Nodes
<1>4. CLHPlaces
    <2>1. pc \in [Threads -> {"idle", "exchange", "spin", "swap"}]
          /\ arg \in [Threads -> Locks \cup {Nil}]
        BY DEF CallerInit
    <2> QED
        BY <1>2, <2>1, LinesEmpty DEF CLHPlaces, At
<1>5. CLHOwners
    <2>1. \A t \in Threads : ~CLHEnqueued(t) /\ CLHOwn(t) = t
        BY <1>2 DEF CLHEnqueued, CLHOwn
    <2>2. /\ clhTail \in [Locks -> CLH!Nodes]
          /\ clhLocked \in [CLH!Nodes -> BOOLEAN]
          /\ clhMyNode \in [Threads -> CLH!Nodes]
          /\ clhMyPred \in [Threads -> CLH!Nodes \cup {Nil}]
        BY DEF CLH!CLHInit, CLH!Nodes
    <2> QED
        BY <1>3, <2>1, <2>2, CallerAssumption DEF CLHOwners
<1>6. CLHOrder
    BY <1>1, <1>2, <1>3 DEF CLHOrder
<1> QED
    BY <1>4, <1>5, <1>6 DEF CLHInv

(* The node that a thread has enqueued is the tail of its line, or is      *)
(* watched by the next in line, and is no node to anybody else.            *)
LEMMA CLHDoor ==
    ASSUME CLHInv, NEW l \in Locks, NEW i \in 1 .. Len(queue[l])
    PROVE  /\ clhMyNode[queue[l][i]] \in CLH!Nodes
           /\ \A m \in Locks : \A j \in 1 .. Len(queue[m]) :
                  clhMyNode[queue[l][i]] = clhMyNode[queue[m][j]] => m = l /\ j = i
           /\ \A u \in Threads :
                  clhMyNode[queue[l][i]] = CLHOwn(u) =>
                      i + 1 \in 1 .. Len(queue[l]) /\ u = queue[l][i + 1]
PROOF
<1>0. CLHPlaces /\ CLHOwners /\ CLHOrder /\ LineInv
    BY DEF CLHInv, CLHPlaces
<1>1. ASSUME NEW m \in Locks, NEW j \in 1 .. Len(queue[m])
      PROVE  \/ j = Len(queue[m]) /\ clhMyNode[queue[m][j]] = clhTail[m]
             \/ /\ j + 1 \in 1 .. Len(queue[m])
                /\ queue[m][j + 1] \in Threads
                /\ InLine(queue[m][j + 1], m)
                /\ clhMyNode[queue[m][j]] = CLHOwn(queue[m][j + 1])
    <2>1. CASE j = Len(queue[m])
        BY <1>0, <2>1 DEF CLHOrder
    <2>2. CASE j # Len(queue[m])
        <3>1. j + 1 \in 1 .. Len(queue[m])
            BY <1>0, <2>2, LineType
        <3>2. clhMyPred[queue[m][j + 1]] = clhMyNode[queue[m][j]]
            BY <1>0, <3>1 DEF CLHOrder
        <3> DEFINE k == j + 1
        <3> HIDE DEF k
        <3>3. k \in 1 .. Len(queue[m])
            BY <3>1 DEF k
        <3>4. PICK u \in Threads : u = queue[m][k] /\ InLine(u, m)
            BY <1>0, <3>3, Members
        <3>5. CLHEnqueued(u)
            BY <1>0, <3>4 DEF CLHPlaces, CLHEnqueued, At
        <3>6. CLHOwn(u) = clhMyPred[u]
            BY <3>5 DEF CLHOwn
        <3> QED
            BY <3>1, <3>2, <3>4, <3>6 DEF k
    <2> QED
        BY <2>1, <2>2
<1>2. clhMyNode[queue[l][i]] \in CLH!Nodes
    BY <1>0, Members DEF CLHOwners
<1>3. ASSUME NEW m \in Locks, NEW j \in 1 .. Len(queue[m]),
             clhMyNode[queue[l][i]] = clhMyNode[queue[m][j]]
      PROVE  m = l /\ j = i
    <2>1. CASE j = Len(queue[m]) /\ clhMyNode[queue[m][j]] = clhTail[m]
        <3>1. i = Len(queue[l]) /\ clhMyNode[queue[l][i]] = clhTail[l]
            <4>1. \/ i = Len(queue[l]) /\ clhMyNode[queue[l][i]] = clhTail[l]
                  \/ /\ queue[l][i + 1] \in Threads
                     /\ clhMyNode[queue[l][i]] = CLHOwn(queue[l][i + 1])
                BY <1>1
            <4>2. clhMyNode[queue[l][i]] = clhTail[m]
                BY <1>3, <2>1
            <4>3. \A u \in Threads : CLHOwn(u) # clhTail[m]
                BY <1>0 DEF CLHOwners
            <4> QED
                BY <4>1, <4>2, <4>3
        <3>2. m = l
            BY <1>0, <1>3, <2>1, <3>1 DEF CLHOwners
        <3> QED
            BY <2>1, <3>1, <3>2
    <2>2. CASE /\ j + 1 \in 1 .. Len(queue[m])
               /\ queue[m][j + 1] \in Threads
               /\ InLine(queue[m][j + 1], m)
               /\ clhMyNode[queue[m][j]] = CLHOwn(queue[m][j + 1])
        <3>1. /\ i + 1 \in 1 .. Len(queue[l])
              /\ queue[l][i + 1] \in Threads
              /\ InLine(queue[l][i + 1], l)
              /\ clhMyNode[queue[l][i]] = CLHOwn(queue[l][i + 1])
            BY <1>0, <1>1, <1>3, <2>2 DEF CLHOwners
        <3>2. queue[l][i + 1] = queue[m][j + 1]
            BY <1>0, <1>3, <2>2, <3>1 DEF CLHOwners
        <3>3. m = l
            <4>1. \A u \in Threads : InLine(u, m) /\ InLine(u, l) => m = l
                BY <1>0 DEF CLHPlaces, At
            <4> QED
                BY <2>2, <3>1, <3>2, <4>1
        <3>4. i + 1 = j + 1
            BY <1>0, <2>2, <3>1, <3>2, <3>3 DEF LineInv
        <3> QED
            BY <3>3, <3>4
    <2> QED
        BY <1>1, <2>1, <2>2
<1>4. ASSUME NEW u \in Threads, clhMyNode[queue[l][i]] = CLHOwn(u)
      PROVE  i + 1 \in 1 .. Len(queue[l]) /\ u = queue[l][i + 1]
    BY <1>0, <1>1, <1>4 DEF CLHOwners
<1> QED
    BY <1>2, <1>3, <1>4

(* A thread that is in no line marks its own node.                         *)
LEMMA CLHStartAcquire ==
    ASSUME OneAtATime, CLHInv, NEW t \in Threads, NEW l \in Locks, CLH!StartAcquire(t, l)
    PROVE  CLHInv' /\ UNCHANGED Fifo!vars
PROOF
<1>0. CLHPlaces /\ CLHOwners /\ CLHOrder /\ LineInv
    BY DEF CLHInv, CLHPlaces
<1>1. /\ pc[t] = "idle" /\ MayAcquire(t, l)
      /\ pc' = [pc EXCEPT ![t] = "exchange"] /\ arg' = [arg EXCEPT ![t] = l]
      /\ clhLocked' = [clhLocked EXCEPT ![clhMyNode[t]] = TRUE]
      /\ Stay /\ held' = held /\ queue' = queue
      /\ clhTail' = clhTail /\ clhMyNode' = clhMyNode /\ clhMyPred' = clhMyPred
    BY DEF CLH!StartAcquire, CLH!BeginAcquire, CLH!MayAcquire, MayAcquire, CLH!Stay, Stay,
           CLH!Cardinality, Cardinality
<1>2. held[t] = {} /\ \A m \in Locks : ~InLine(t, m)
    <2>1. held[t] = {}
        BY <1>0, <1>1, HoldsNone DEF CLHPlaces, OneAtATime
    <2> QED
        BY <1>0, <1>1, <2>1 DEF CLHPlaces, At
<1>3. /\ LineInv' /\ UNCHANGED Fifo!vars
      /\ \A u \in Threads, m \in Locks : InLine(u, m)' <=> InLine(u, m)
    BY <1>0, <1>1, StayStep
<1>4. \A u \in Threads : /\ pc'[u] = IF u = t THEN "exchange" ELSE pc[u]
                         /\ arg'[u] = IF u = t THEN l ELSE arg[u]
    BY <1>0, <1>1 DEF CLHPlaces
<1>5. CLHPlaces'
    <2>1. /\ pc' \in [Threads -> {"idle", "exchange", "spin", "swap"}]
          /\ arg' \in [Threads -> Locks \cup {Nil}]
        BY <1>0, <1>1 DEF CLHPlaces
    <2>2. \A u \in Threads :
              /\ arg'[u] = Nil <=> pc'[u] = "idle"
              /\ held'[u] = {} \/ \E m \in Locks : held'[u] = {m}
              /\ pc'[u] # "idle" => held'[u] = {}
        BY <1>0, <1>1, <1>2, <1>4, CallerAssumption DEF CLHPlaces
    <2>3. \A u \in Threads, m \in Locks :
              InLine(u, m)' <=> At(u, m, "spin")' \/ m \in held'[u]
        BY <1>0, <1>1, <1>2, <1>3, <1>4 DEF CLHPlaces, At
    <2> QED
        BY <1>3, <2>1, <2>2, <2>3 DEF CLHPlaces
<1>6. \A u \in Threads : /\ CLHEnqueued(u)' <=> CLHEnqueued(u)
                         /\ CLHOwn(u)' = CLHOwn(u)
    BY <1>1, <1>2, <1>4 DEF CLHEnqueued, CLHOwn
<1>7. CLHOwn(t) = clhMyNode[t] /\ clhMyNode[t] \in CLH!Nodes
    BY <1>0, <1>1, <1>2 DEF CLHOwn, CLHEnqueued, CLHOwners
<1>8. /\ clhLocked' \in [CLH!Nodes -> BOOLEAN]
      /\ \A n \in CLH!Nodes : clhLocked'[n] <=> clhLocked[n] \/ n = clhMyNode[t]
    BY <1>0, <1>1, <1>7 DEF CLHOwners
<1>9. CLHOwners'
    BY <1>0, <1>1, <1>6, <1>8 DEF CLHOwners, CLH!Nodes
<1>10. CLHOrder'
    <2>1. \A u \in Threads : pc'[u] = "exchange" => clhLocked'[clhMyNode'[u]]
        BY <1>0, <1>1, <1>4, <1>8 DEF CLHOrder, CLHOwners
    <2>2. \A m \in Locks : Len(queue'[m]) = 0 => ~clhLocked'[clhTail'[m]]
        BY <1>0, <1>1, <1>7, <1>8 DEF CLHOrder, CLHOwners
    <2>3. ASSUME NEW m \in Locks, NEW i \in 1 .. Len(queue[m])
          PROVE  /\ clhLocked'[clhMyNode[queue[m][i]]]
                 /\ i = 1 => ~clhLocked'[clhMyPred[queue[m][i]]]
        <3>1. PICK u \in Threads : u = queue[m][i] /\ InLine(u, m)
            BY <1>0, Members
        <3>2. clhLocked[clhMyNode[u]] /\ (i = 1 => ~clhLocked[clhMyPred[u]])
            BY <1>0, <3>1 DEF CLHOrder
        <3>3. u # t /\ CLHEnqueued(u)
            BY <1>0, <1>2, <3>1 DEF CLHPlaces, CLHEnqueued, At
        <3>4. clhMyPred[u] \in CLH!Nodes /\ clhMyPred[u] # clhMyNode[t]
            BY <1>0, <1>7, <3>3 DEF CLHOwners, CLHOwn
        <3>5. clhMyNode[u] \in CLH!Nodes
            BY <1>0 DEF CLHOwners
        <3> QED
            BY <1>8, <3>1, <3>2, <3>4, <3>5
    <2> QED
        BY <1>0, <1>1, <2>1, <2>2, <2>3 DEF CLHOrder
<1> QED
    BY <1>3, <1>5, <1>9, <1>10 DEF CLHInv

(* The doorway: a thread gives its node for that of the last in line.      *)
LEMMA CLHExchange ==
    ASSUME CLHInv, NEW t \in Threads, NEW l \in Locks, CLH!Exchange(t, l)
    PROVE  CLHInv' /\ Fifo!Arrive(t, l)
PROOF
<1>0. CLHPlaces /\ CLHOwners /\ CLHOrder /\ LineInv
    BY DEF CLHInv, CLHPlaces
<1>1. /\ pc[t] = "exchange" /\ arg[t] = l /\ Arrive(t, l) /\ held' = held
      /\ pc' = [pc EXCEPT ![t] = "spin"] /\ arg' = arg
      /\ clhMyPred' = [clhMyPred EXCEPT ![t] = clhTail[l]]
      /\ clhTail' = [clhTail EXCEPT ![l] = clhMyNode[t]]
      /\ clhLocked' = clhLocked /\ clhMyNode' = clhMyNode
      /\ queue' = [queue EXCEPT ![l] = Append(@, t)]
    BY DEF CLH!Exchange, CLH!At, CLH!Goto, CLH!Arrive, Arrive
<1>2. held[t] = {} /\ \A m \in Locks : ~InLine(t, m)
    BY <1>0, <1>1 DEF CLHPlaces, At
<1>3. LineInv' /\ Fifo!Arrive(t, l)
    BY <1>0, <1>1, <1>2, ArriveStep
<1>4. /\ \A m \in Locks \ {l} : queue'[m] = queue[m]
      /\ Len(queue'[l]) = Len(queue[l]) + 1
      /\ \A i \in 1 .. Len(queue[l]) : queue'[l][i] = queue[l][i]
      /\ queue'[l][Len(queue[l]) + 1] = t
      /\ \A u \in Threads, m \in Locks : InLine(u, m)' <=> InLine(u, m) \/ (u = t /\ m = l)
    <2>1. LineInv /\ ~InLine(t, l) /\ queue' = [queue EXCEPT ![l] = Append(@, t)]
        BY <1>0, <1>1, <1>2
    <2> QED
        BY <2>1, LineGrows
<1>5. \A u \in Threads : pc'[u] = IF u = t THEN "spin" ELSE pc[u]
    BY <1>0, <1>1 DEF CLHPlaces
<1>6. CLHPlaces'
    <2>1. pc' \in [Threads -> {"idle", "exchange", "spin", "swap"}]
        BY <1>0, <1>1 DEF CLHPlaces
    <2>2. \A u \in Threads :
              /\ arg'[u] = Nil <=> pc'[u] = "idle"
              /\ held'[u] = {} \/ \E m \in Locks : held'[u] = {m}
              /\ pc'[u] # "idle" => held'[u] = {}
        BY <1>0, <1>1, <1>2, <1>5, CallerAssumption DEF CLHPlaces
    <2>3. \A u \in Threads, m \in Locks :
              InLine(u, m)' <=> At(u, m, "spin")' \/ m \in held'[u]
        BY <1>0, <1>1, <1>2, <1>4, <1>5 DEF CLHPlaces, At
    <2> QED
        BY <1>0, <1>1, <1>3, <2>1, <2>2, <2>3 DEF CLHPlaces
<1>7. /\ CLHOwn(t) = clhMyNode[t] /\ CLHOwn(t)' = clhTail[l] /\ clhTail'[l] = clhMyNode[t]
      /\ \A m \in Locks \ {l} : clhTail'[m] = clhTail[m]
      /\ clhMyPred'[t] = clhTail[l] /\ \A u \in Threads \ {t} : clhMyPred'[u] = clhMyPred[u]
      /\ \A u \in Threads \ {t} : CLHOwn(u)' = CLHOwn(u) /\ (CLHEnqueued(u)' <=> CLHEnqueued(u))
    BY <1>0, <1>1, <1>2, <1>5 DEF CLHOwn, CLHEnqueued, CLHOwners
<1>8. CLHOwners'
    <2>1. /\ clhTail' \in [Locks -> CLH!Nodes]
          /\ clhMyPred' \in [Threads -> CLH!Nodes \cup {Nil}]
        BY <1>0, <1>1 DEF CLHOwners
    <2>2. \A u \in Threads : CLHEnqueued(u)' => clhMyPred'[u] \in CLH!Nodes
        BY <1>0, <1>7 DEF CLHOwners
    <2>3. /\ \A u, v \in Threads : CLHOwn(u)' = CLHOwn(v)' => u = v
          /\ \A k, m \in Locks : clhTail'[k] = clhTail'[m] => k = m
          /\ \A u \in Threads, m \in Locks : CLHOwn(u)' # clhTail'[m]
        BY <1>0, <1>7 DEF CLHOwners
    <2> QED
        BY <1>0, <1>1, <2>1, <2>2, <2>3 DEF CLHOwners, CLH!Nodes
<1>9. Len(queue[l]) \in Nat
    BY <1>0, LineType
<1>10. \A m \in Locks : \A i \in 1 .. Len(queue[m]) :
           queue'[m][i] = queue[m][i] /\ queue[m][i] \in Threads \ {t}
    BY <1>0, <1>2, <1>4, Members
<1>11. ASSUME NEW m \in Locks, NEW i \in 1 .. Len(queue'[m]), ~(m = l /\ i = Len(queue[l]) + 1)
       PROVE  /\ clhLocked'[clhMyNode'[queue'[m][i]]]
              /\ i = Len(queue'[m]) => clhTail'[m] = clhMyNode'[queue'[m][i]]
              /\ i + 1 \in 1 .. Len(queue'[m]) =>
                     clhMyPred'[queue'[m][i + 1]] = clhMyNode'[queue'[m][i]]
              /\ i = 1 => ~clhLocked'[clhMyPred'[queue'[m][i]]]
    <2>1. i \in 1 .. Len(queue[m])
        BY <1>4, <1>9, <1>11
    <2>2. queue'[m][i] = queue[m][i] /\ queue[m][i] \in Threads \ {t}
        BY <1>10, <2>1
    <2>3. /\ clhLocked[clhMyNode[queue[m][i]]]
          /\ i = Len(queue[m]) => clhTail[m] = clhMyNode[queue[m][i]]
          /\ i + 1 \in 1 .. Len(queue[m]) => clhMyPred[queue[m][i + 1]] = clhMyNode[queue[m][i]]
          /\ i = 1 => ~clhLocked[clhMyPred[queue[m][i]]]
        BY <1>0, <2>1 DEF CLHOrder
    <2>4. i = Len(queue'[m]) => clhTail'[m] = clhMyNode'[queue'[m][i]]
        <3>1. i = Len(queue'[m]) => m # l
            BY <1>4, <1>11
        <3> QED
            BY <1>1, <1>4, <1>7, <2>2, <2>3, <3>1
    <2>5. ASSUME i + 1 \in 1 .. Len(queue'[m])
          PROVE  clhMyPred'[queue'[m][i + 1]] = clhMyNode'[queue'[m][i]]
        <3>1. CASE m = l /\ i = Len(queue[l])
            BY <1>1, <1>4, <1>7, <2>2, <2>3, <3>1
        <3>2. CASE ~(m = l /\ i = Len(queue[l]))
            <4>1. i + 1 \in 1 .. Len(queue[m])
                BY <1>4, <1>9, <2>1, <2>5, <3>2
            <4>2. queue'[m][i + 1] = queue[m][i + 1] /\ queue[m][i + 1] \in Threads \ {t}
                BY <1>10, <4>1
            <4> QED
                BY <1>1, <1>7, <2>2, <2>3, <4>1, <4>2
        <3> QED
            BY <3>1, <3>2
    <2> QED
        BY <1>1, <1>7, <2>2, <2>3, <2>4, <2>5
<1>12. ASSUME NEW m \in Locks, NEW i \in 1 .. Len(queue'[m]), m = l, i = Len(queue[l]) + 1
       PROVE  /\ clhLocked'[clhMyNode'[queue'[m][i]]]
              /\ i = Len(queue'[m]) => clhTail'[m] = clhMyNode'[queue'[m][i]]
              /\ ~(i + 1 \in 1 .. Len(queue'[m]))
              /\ i = 1 => ~clhLocked'[clhMyPred'[queue'[m][i]]]
    <2>1. queue'[m][i] = t /\ ~(i + 1 \in 1 .. Len(queue'[m]))
        BY <1>4, <1>9, <1>12
    <2>2. i = 1 => Len(queue[l]) = 0
        BY <1>9, <1>12
    <2> QED
        BY <1>0, <1>1, <1>7, <1>12, <2>1, <2>2 DEF CLHOrder
<1>13. CLHOrder'
    <2>1. \A u \in Threads : pc'[u] = "exchange" => clhLocked'[clhMyNode'[u]]
        BY <1>0, <1>1, <1>5 DEF CLHOrder
    <2>2. \A m \in Locks : Len(queue'[m]) = 0 => ~clhLocked'[clhTail'[m]]
        BY <1>0, <1>1, <1>4, <1>7, <1>9 DEF CLHOrder
    <2>3. \A m \in Locks : \A i \in 1 .. Len(queue'[m]) :
              /\ clhLocked'[clhMyNode'[queue'[m][i]]]
              /\ i = Len(queue'[m]) => clhTail'[m] = clhMyNode'[queue'[m][i]]
              /\ i + 1 \in 1 .. Len(queue'[m]) =>
                     clhMyPred'[queue'[m][i + 1]] = clhMyNode'[queue'[m][i]]
              /\ i = 1 => ~clhLocked'[clhMyPred'[queue'[m][i]]]
        <3> TAKE m \in Locks
        <3> TAKE i \in 1 .. Len(queue'[m])
        <3>1. CASE m = l /\ i = Len(queue[l]) + 1
            BY <1>12, <3>1
        <3>2. CASE ~(m = l /\ i = Len(queue[l]) + 1)
            BY <1>11, <3>2
        <3> QED
            BY <3>1, <3>2
    <2> QED
        BY <2>1, <2>2, <2>3 DEF CLHOrder
<1> QED
    BY <1>3, <1>6, <1>8, <1>13 DEF CLHInv

(* Only the first in line watches a node that is not locked.               *)
LEMMA CLHSpin ==
    ASSUME CLHInv, NEW t \in Threads, NEW l \in Locks, CLH!Spin(t, l)
    PROVE  CLHInv' /\ Fifo!Enter(t, l)
PROOF
<1>0. CLHPlaces /\ CLHOwners /\ CLHOrder /\ LineInv
    BY DEF CLHInv, CLHPlaces
<1>1. /\ pc[t] = "spin" /\ arg[t] = l /\ ~clhLocked[clhMyPred[t]]
      /\ Enter(t, l) /\ queue' = queue
      /\ pc' = [pc EXCEPT ![t] = "idle"] /\ arg' = [arg EXCEPT ![t] = Nil]
      /\ clhTail' = clhTail /\ clhLocked' = clhLocked
      /\ clhMyNode' = clhMyNode /\ clhMyPred' = clhMyPred
    BY DEF CLH!Spin, CLH!At, CLH!Enter, Enter, CLH!Return, CLH!clhVars
<1>2. held[t] = {} /\ InLine(t, l)
    BY <1>0, <1>1 DEF CLHPlaces, At
<1>3. Len(queue[l]) > 0 /\ queue[l][1] = t
    <2>1. PICK j \in 1 .. Len(queue[l]) : queue[l][j] = t
        BY <1>2 DEF InLine
    <2>2. ASSUME j # 1
          PROVE  FALSE
        <3>1. PICK i \in 1 .. Len(queue[l]) : i + 1 = j
            <4>1. Len(queue[l]) \in Nat
                BY <1>0, LineType
            <4>2. j - 1 \in 1 .. Len(queue[l]) /\ (j - 1) + 1 = j
                BY <2>2, <4>1
            <4> QED
                BY <4>2
        <3>2. /\ clhLocked[clhMyNode[queue[l][i]]]
              /\ clhMyPred[queue[l][i + 1]] = clhMyNode[queue[l][i]]
            BY <1>0, <3>1 DEF CLHOrder
        <3> QED
            BY <1>1, <2>1, <3>1, <3>2
    <2> QED
        BY <2>1, <2>2
<1>4. /\ LineInv' /\ Fifo!Enter(t, l)
      /\ \A u \in Threads, m \in Locks :
             /\ InLine(u, m)' <=> InLine(u, m)
             /\ m \in held'[u] <=> m \in held[u] \/ (u = t /\ m = l)
    BY <1>0, <1>1, <1>2, <1>3, EnterStep
<1>5. \A u \in Threads : /\ pc'[u] = IF u = t THEN "idle" ELSE pc[u]
                         /\ arg'[u] = IF u = t THEN Nil ELSE arg[u]
    BY <1>0, <1>1 DEF CLHPlaces
<1>6. held'[t] = {l} /\ \A u \in Threads \ {t} : held'[u] = held[u]
    BY <1>0, <1>1, <1>2 DEF Enter, LineInv
<1>7. CLHPlaces'
    <2>1. /\ pc' \in [Threads -> {"idle", "exchange", "spin", "swap"}]
          /\ arg' \in [Threads -> Locks \cup {Nil}]
        BY <1>0, <1>1 DEF CLHPlaces
    <2>2. \A u \in Threads :
              /\ arg'[u] = Nil <=> pc'[u] = "idle"
              /\ held'[u] = {} \/ \E m \in Locks : held'[u] = {m}
              /\ pc'[u] # "idle" => held'[u] = {}
        BY <1>0, <1>5, <1>6, CallerAssumption DEF CLHPlaces
    <2>3. \A u \in Threads, m \in Locks :
              InLine(u, m)' <=> At(u, m, "spin")' \/ m \in held'[u]
        BY <1>0, <1>1, <1>2, <1>4, <1>5 DEF CLHPlaces, At
    <2> QED
        BY <1>4, <2>1, <2>2, <2>3 DEF CLHPlaces
<1>8. \A u \in Threads : /\ CLHEnqueued(u)' <=> CLHEnqueued(u)
                         /\ CLHOwn(u)' = CLHOwn(u)
    BY <1>1, <1>5, <1>6 DEF CLHEnqueued, CLHOwn
<1>9. CLHOwners'
    BY <1>0, <1>1, <1>8 DEF CLHOwners, CLH!Nodes
<1>10. CLHOrder'
    BY <1>0, <1>1, <1>5 DEF CLHOrder
<1> QED
    BY <1>4, <1>7, <1>9, <1>10 DEF CLHInv

(* The holder unlocks its node and leaves: the next in line, or whoever    *)
(* comes to an empty line, may go in.                                      *)
LEMMA CLHStartRelease ==
    ASSUME CLHInv, NEW t \in Threads, NEW l \in Locks, CLH!StartRelease(t, l)
    PROVE  CLHInv' /\ Fifo!Leave(t, l)
PROOF
<1>0. CLHPlaces /\ CLHOwners /\ CLHOrder /\ LineInv
    BY DEF CLHInv, CLHPlaces
<1>1. /\ pc[t] = "idle" /\ l \in held[t] /\ Leave(t, l)
      /\ pc' = [pc EXCEPT ![t] = "swap"] /\ arg' = [arg EXCEPT ![t] = l]
      /\ clhLocked' = [clhLocked EXCEPT ![clhMyNode[t]] = FALSE]
      /\ clhTail' = clhTail /\ clhMyNode' = clhMyNode /\ clhMyPred' = clhMyPred
    BY DEF CLH!StartRelease, CLH!BeginRelease, CLH!Leave, Leave
<1>2. held[t] = {l} /\ InLine(t, l)
    BY <1>0, <1>1 DEF CLHPlaces
<1>3. /\ LineInv' /\ Fifo!Leave(t, l)
      /\ Len(queue[l]) \in Nat \ {0} /\ queue[l][1] = t
      /\ \A m \in Locks \ {l} : queue'[m] = queue[m]
      /\ Len(queue'[l]) = Len(queue[l]) - 1
      /\ \A i \in 1 .. Len(queue'[l]) : queue'[l][i] = queue[l][i + 1]
      /\ \A u \in Threads, m \in Locks : InLine(u, m)' <=> InLine(u, m) /\ ~(u = t /\ m = l)
    BY <1>0, <1>1, LeaveStep, LineShrinks, LineType
<1>4. \A u \in Threads : /\ pc'[u] = IF u = t THEN "swap" ELSE pc[u]
                         /\ arg'[u] = IF u = t THEN l ELSE arg[u]
    BY <1>0, <1>1 DEF CLHPlaces
<1>5. held'[t] = {} /\ \A u \in Threads \ {t} : held'[u] = held[u]
    BY <1>0, <1>1, <1>2 DEF LineInv, Leave
<1>6. CLHPlaces'
    <2>1. /\ pc' \in [Threads -> {"idle", "exchange", "spin", "swap"}]
          /\ arg' \in [Threads -> Locks \cup {Nil}]
        BY <1>0, <1>1 DEF CLHPlaces
    <2>2. \A u \in Threads :
              /\ arg'[u] = Nil <=> pc'[u] = "idle"
              /\ held'[u] = {} \/ \E m \in Locks : held'[u] = {m}
              /\ pc'[u] # "idle" => held'[u] = {}
        BY <1>0, <1>4, <1>5, CallerAssumption DEF CLHPlaces
    <2>3. \A u \in Threads, m \in Locks :
              InLine(u, m)' <=> At(u, m, "spin")' \/ m \in held'[u]
        BY <1>0, <1>1, <1>2, <1>3, <1>4, <1>5 DEF CLHPlaces, At
    <2> QED
        BY <1>3, <2>1, <2>2, <2>3 DEF CLHPlaces
<1>7. \A u \in Threads : /\ CLHEnqueued(u)' <=> CLHEnqueued(u)
                         /\ CLHOwn(u)' = CLHOwn(u)
    BY <1>1, <1>2, <1>4, <1>5 DEF CLHEnqueued, CLHOwn
<1>8. /\ clhMyNode[t] \in CLH!Nodes /\ clhLocked' \in [CLH!Nodes -> BOOLEAN]
      /\ ~clhLocked'[clhMyNode[t]]
      /\ \A n \in CLH!Nodes : n # clhMyNode[t] => clhLocked'[n] = clhLocked[n]
    BY <1>0, <1>1 DEF CLHOwners
<1>9. CLHOwners'
    BY <1>0, <1>1, <1>7, <1>8 DEF CLHOwners, CLH!Nodes
<1>10. 1 \in 1 .. Len(queue[l])
    BY <1>3
<1>11. /\ \A m \in Locks : \A j \in 1 .. Len(queue[m]) :
              clhMyNode[t] = clhMyNode[queue[m][j]] => m = l /\ j = 1
       /\ \A u \in Threads :
              clhMyNode[t] = CLHOwn(u) => 1 + 1 \in 1 .. Len(queue[l]) /\ u = queue[l][1 + 1]
    BY <1>3, <1>10, CLHDoor
<1>12. ASSUME NEW m \in Locks, NEW i \in 1 .. Len(queue'[m])
       PROVE  /\ clhLocked'[clhMyNode'[queue'[m][i]]]
              /\ i = Len(queue'[m]) => clhTail'[m] = clhMyNode'[queue'[m][i]]
              /\ i + 1 \in 1 .. Len(queue'[m]) =>
                     clhMyPred'[queue'[m][i + 1]] = clhMyNode'[queue'[m][i]]
              /\ i = 1 => ~clhLocked'[clhMyPred'[queue'[m][i]]]
    <2>1. PICK k \in 1 .. Len(queue[m]) :
              /\ queue'[m][i] = queue[m][k]
              /\ m = l => k = i + 1
              /\ m # l => k = i
              /\ i = Len(queue'[m]) => k = Len(queue[m])
              /\ i + 1 \in 1 .. Len(queue'[m]) =>
                     k + 1 \in 1 .. Len(queue[m]) /\ queue'[m][i + 1] = queue[m][k + 1]
        <3>1. CASE m = l
            <4>1. /\ i + 1 \in 1 .. Len(queue[l])
                  /\ i = Len(queue'[l]) => i + 1 = Len(queue[l])
                  /\ i + 1 \in 1 .. Len(queue'[l]) => (i + 1) + 1 \in 1 .. Len(queue[l])
                BY <1>3, <3>1
            <4>2. /\ queue'[l][i] = queue[l][i + 1]
                  /\ i + 1 \in 1 .. Len(queue'[l]) => queue'[l][i + 1] = queue[l][(i + 1) + 1]
                BY <1>3, <3>1
            <4> QED
                BY <3>1, <4>1, <4>2
        <3>2. CASE m # l
            BY <1>3, <3>2
        <3> QED
            BY <3>1, <3>2
    <2>2. /\ clhLocked[clhMyNode[queue[m][k]]]
          /\ k = Len(queue[m]) => clhTail[m] = clhMyNode[queue[m][k]]
          /\ k + 1 \in 1 .. Len(queue[m]) => clhMyPred[queue[m][k + 1]] = clhMyNode[queue[m][k]]
          /\ k = 1 => ~clhLocked[clhMyPred[queue[m][k]]]
        BY <1>0 DEF CLHOrder
    <2>3. clhMyNode[queue[m][k]] \in CLH!Nodes /\ clhMyNode[queue[m][k]] # clhMyNode[t]
        <3>1. ~(m = l /\ k = 1)
            BY <2>1
        <3>2. clhMyNode[queue[m][k]] \in CLH!Nodes
            BY CLHDoor
        <3> QED
            BY <1>11, <3>1, <3>2
    <2>4. i = 1 => ~clhLocked'[clhMyPred'[queue'[m][i]]]
        <3>1. CASE m = l /\ i = 1
            <4>1. 1 + 1 \in 1 .. Len(queue[l]) /\ queue'[m][i] = queue[l][1 + 1]
                BY <2>1, <3>1
            <4>2. clhMyPred[queue[l][1 + 1]] = clhMyNode[queue[l][1]]
                BY <1>0, <1>10, <4>1 DEF CLHOrder
            <4> QED
                BY <1>1, <1>3, <1>8, <4>1, <4>2
        <3>2. CASE m # l /\ i = 1
            <4>1. PICK u \in Threads : u = queue[m][k] /\ InLine(u, m)
                BY <1>0, Members
            <4>2. CLHEnqueued(u) /\ ~InLine(u, l)
                BY <1>0, <3>2, <4>1 DEF CLHPlaces, CLHEnqueued, At
            <4>3. clhMyPred[u] \in CLH!Nodes /\ CLHOwn(u) = clhMyPred[u]
                BY <1>0, <4>2 DEF CLHOwners, CLHOwn
            <4>4. clhMyPred[u] # clhMyNode[t]
                <5>1. 1 + 1 \in 1 .. Len(queue[l]) => u # queue[l][1 + 1]
                    BY <1>0, <4>2, Members
                <5> QED
                    BY <1>11, <4>3, <5>1
            <4>5. ~clhLocked[clhMyPred[u]]
                BY <2>1, <2>2, <3>2, <4>1
            <4> QED
                BY <1>1, <1>8, <2>1, <4>1, <4>3, <4>4, <4>5
        <3> QED
            BY <3>1, <3>2
    <2> QED
        BY <1>1, <1>8, <2>1, <2>2, <2>3, <2>4
<1>13. \A u \in Threads : pc'[u] = "exchange" => clhLocked'[clhMyNode'[u]]
    <2> SUFFICES ASSUME NEW u \in Threads, pc'[u] = "exchange"
                 PROVE  clhLocked'[clhMyNode'[u]]
        OBVIOUS
    <2>1. pc[u] = "exchange" /\ clhLocked[clhMyNode[u]] /\ clhMyNode[u] \in CLH!Nodes
        BY <1>0, <1>4 DEF CLHOrder, CLHOwners
    <2>2. CLHOwn(u) = clhMyNode[u] /\ ~InLine(u, l)
        BY <1>0, <2>1 DEF CLHPlaces, CLHOwn, CLHEnqueued, At
    <2>3. 1 + 1 \in 1 .. Len(queue[l]) => u # queue[l][1 + 1]
        BY <1>0, <2>2, Members
    <2>4. clhMyNode[u] # clhMyNode[t]
        BY <1>11, <2>2, <2>3
    <2> QED
        BY <1>1, <1>8, <2>1, <2>4
<1>14. ASSUME NEW m \in Locks, Len(queue'[m]) = 0
       PROVE  ~clhLocked'[clhTail'[m]]
    <2>1. CASE m = l
        <3>1. 1 = Len(queue[l])
            <4>1. \A k \in Nat \ {0} : k - 1 = 0 => 1 = k
                OBVIOUS
            <4>2. Len(queue[l]) \in Nat \ {0} /\ Len(queue[l]) - 1 = 0
                BY <1>3, <1>14, <2>1
            <4> QED
                BY <4>1, <4>2
        <3>2. clhTail[l] = clhMyNode[queue[l][1]]
            BY <1>0, <1>10, <3>1 DEF CLHOrder
        <3> QED
            BY <1>1, <1>3, <1>8, <2>1, <3>2
    <2>2. CASE m # l
        <3>1. ~clhLocked[clhTail[m]] /\ clhTail[m] \in CLH!Nodes
            BY <1>0, <1>3, <1>14, <2>2 DEF CLHOrder, CLHOwners
        <3>2. clhTail[m] # clhMyNode[t]
            <4>1. CASE 1 = Len(queue[l])
                <5>1. clhTail[l] = clhMyNode[queue[l][1]]
                    BY <1>0, <1>10, <4>1 DEF CLHOrder
                <5> QED
                    BY <1>0, <1>3, <2>2, <5>1 DEF CLHOwners
            <4>2. CASE 1 # Len(queue[l])
                <5>1. 1 + 1 \in 1 .. Len(queue[l])
                    <6>1. \A k \in Nat \ {0} : 1 # k => 1 + 1 \in 1 .. k
                        OBVIOUS
                    <6> QED
                        BY <1>3, <4>2, <6>1
                <5>2. clhMyPred[queue[l][1 + 1]] = clhMyNode[t]
                    BY <1>0, <1>3, <1>10, <5>1 DEF CLHOrder
                <5>3. PICK n \in Threads : n = queue[l][1 + 1] /\ InLine(n, l)
                    BY <1>0, <5>1, Members
                <5>4. CLHOwn(n) = clhMyPred[n]
                    BY <1>0, <5>3 DEF CLHPlaces, CLHOwn, CLHEnqueued, At
                <5> QED
                    BY <1>0, <5>2, <5>3, <5>4 DEF CLHOwners
            <4> QED
                BY <4>1, <4>2
        <3> QED
            BY <1>1, <1>8, <3>1, <3>2
    <2> QED
        BY <2>1, <2>2
<1>15. CLHOrder'
    BY <1>12, <1>13, <1>14 DEF CLHOrder
<1> QED
    BY <1>3, <1>6, <1>9, <1>15 DEF CLHInv

(* A thread that left takes over the node that it watched.                 *)
LEMMA CLHSwap ==
    ASSUME CLHInv, NEW t \in Threads, NEW l \in Locks, CLH!Swap(t, l)
    PROVE  CLHInv' /\ UNCHANGED Fifo!vars
PROOF
<1>0. CLHPlaces /\ CLHOwners /\ CLHOrder /\ LineInv
    BY DEF CLHInv, CLHPlaces
<1>1. /\ pc[t] = "swap" /\ arg[t] = l
      /\ pc' = [pc EXCEPT ![t] = "idle"] /\ arg' = [arg EXCEPT ![t] = Nil]
      /\ clhMyNode' = [clhMyNode EXCEPT ![t] = clhMyPred[t]]
      /\ clhMyPred' = [clhMyPred EXCEPT ![t] = Nil]
      /\ clhTail' = clhTail /\ clhLocked' = clhLocked
      /\ Stay /\ held' = held /\ queue' = queue
    BY DEF CLH!Swap, CLH!At, CLH!Return, CLH!Stay, Stay
<1>2. held[t] = {} /\ \A m \in Locks : ~InLine(t, m)
    BY <1>0, <1>1 DEF CLHPlaces, At
<1>3. /\ LineInv' /\ UNCHANGED Fifo!vars
      /\ \A u \in Threads, m \in Locks : InLine(u, m)' <=> InLine(u, m)
    BY <1>0, <1>1, StayStep
<1>4. \A u \in Threads : /\ pc'[u] = IF u = t THEN "idle" ELSE pc[u]
                         /\ arg'[u] = IF u = t THEN Nil ELSE arg[u]
    BY <1>0, <1>1 DEF CLHPlaces
<1>5. CLHPlaces'
    <2>1. /\ pc' \in [Threads -> {"idle", "exchange", "spin", "swap"}]
          /\ arg' \in [Threads -> Locks \cup {Nil}]
        BY <1>0, <1>1 DEF CLHPlaces
    <2>2. \A u \in Threads :
              /\ arg'[u] = Nil <=> pc'[u] = "idle"
              /\ held'[u] = {} \/ \E m \in Locks : held'[u] = {m}
              /\ pc'[u] # "idle" => held'[u] = {}
        BY <1>0, <1>1, <1>4, CallerAssumption DEF CLHPlaces
    <2>3. \A u \in Threads, m \in Locks :
              InLine(u, m)' <=> At(u, m, "spin")' \/ m \in held'[u]
        BY <1>0, <1>1, <1>2, <1>3, <1>4 DEF CLHPlaces, At
    <2> QED
        BY <1>3, <2>1, <2>2, <2>3 DEF CLHPlaces
<1>6. /\ clhMyPred[t] \in CLH!Nodes
      /\ clhMyNode'[t] = clhMyPred[t]
      /\ \A u \in Threads \ {t} : clhMyNode'[u] = clhMyNode[u] /\ clhMyPred'[u] = clhMyPred[u]
    BY <1>0, <1>1 DEF CLHOwners, CLHEnqueued
<1>7. \A u \in Threads : /\ CLHEnqueued(u)' <=> CLHEnqueued(u) /\ u # t
                         /\ CLHOwn(u)' = CLHOwn(u)
    BY <1>1, <1>2, <1>4, <1>6 DEF CLHEnqueued, CLHOwn
<1>8. CLHOwners'
    <2>1. /\ clhMyNode' \in [Threads -> CLH!Nodes]
          /\ clhMyPred' \in [Threads -> CLH!Nodes \cup {Nil}]
        BY <1>0, <1>1, <1>6 DEF CLHOwners
    <2>2. \A u \in Threads : CLHEnqueued(u)' => clhMyPred'[u] \in CLH!Nodes
        BY <1>0, <1>6, <1>7 DEF CLHOwners
    <2> QED
        BY <1>0, <1>1, <1>7, <2>1, <2>2 DEF CLHOwners, CLH!Nodes
<1>9. CLHOrder'
    <2>1. \A u \in Threads : pc'[u] = "exchange" => clhLocked'[clhMyNode'[u]]
        BY <1>0, <1>1, <1>4, <1>6 DEF CLHOrder
    <2>2. \A m \in Locks : \A i \in 1 .. Len(queue[m]) : queue[m][i] \in Threads \ {t}
        BY <1>0, <1>2, Members
    <2>3. ASSUME NEW m \in Locks, NEW i \in 1 .. Len(queue[m])
          PROVE  /\ clhLocked'[clhMyNode'[queue[m][i]]]
                 /\ i = Len(queue[m]) => clhTail'[m] = clhMyNode'[queue[m][i]]
                 /\ i + 1 \in 1 .. Len(queue[m]) =>
                        clhMyPred'[queue[m][i + 1]] = clhMyNode'[queue[m][i]]
                 /\ i = 1 => ~clhLocked'[clhMyPred'[queue[m][i]]]
        <3>1. /\ clhLocked[clhMyNode[queue[m][i]]]
              /\ i = Len(queue[m]) => clhTail[m] = clhMyNode[queue[m][i]]
              /\ i + 1 \in 1 .. Len(queue[m]) =>
                     clhMyPred[queue[m][i + 1]] = clhMyNode[queue[m][i]]
              /\ i = 1 => ~clhLocked[clhMyPred[queue[m][i]]]
            BY <1>0 DEF CLHOrder
        <3>2. /\ queue[m][i] \in Threads \ {t}
              /\ i + 1 \in 1 .. Len(queue[m]) => queue[m][i + 1] \in Threads \ {t}
            BY <2>2
        <3> QED
            BY <1>1, <1>6, <3>1, <3>2
    <2> QED
        BY <1>0, <1>1, <2>1, <2>3 DEF CLHOrder
<1> QED
    BY <1>3, <1>5, <1>8, <1>9 DEF CLHInv

(* What the runs check of CLHLock.                                         *)
LEMMA CLHFollows ==
    ASSUME CLHInv
    PROVE  CLH!TypeOK /\ CLH!NodesNotShared
PROOF
<1>0. CLHPlaces /\ CLHOwners /\ CLHOrder /\ LineInv
    BY DEF CLHInv, CLHPlaces
<1>1. CLH!TypeOK
    BY <1>0 DEF CLH!TypeOK, CLH!CallerTypeOK, CLH!Nodes, CLHPlaces, CLHOwners, LineInv
<1>2. ASSUME NEW t \in Threads
      PROVE  \/ /\ CLH!InHand(t) = CLHOwn(t) /\ pc[t] # "spin"
                /\ \A l \in Locks : ~InLine(t, l)
             \/ /\ CLH!InHand(t) = clhMyNode[t] /\ (held[t] # {} \/ pc[t] = "spin")
                /\ \E l \in Locks : \E i \in 1 .. Len(queue[l]) : queue[l][i] = t
    <2>1. CASE \E l \in Locks : InLine(t, l)
        BY <1>0, <2>1 DEF CLHPlaces, CLH!InHand, At, InLine
    <2>2. CASE ~\E l \in Locks : InLine(t, l)
        <3>1. pc[t] # "spin" /\ held[t] = {}
            BY <1>0, <2>2 DEF CLHPlaces, At
        <3> QED
            BY <2>2, <3>1 DEF CLH!InHand, CLHOwn, CLHEnqueued
    <2> QED
        BY <2>1, <2>2
<1>3. ASSUME NEW t \in Threads, NEW u \in Threads, NEW l \in Locks,
             NEW i \in 1 .. Len(queue[l]), queue[l][i] = t, clhMyNode[t] = CLHOwn(u)
      PROVE  InLine(u, l)
    <2>1. i + 1 \in 1 .. Len(queue[l]) /\ u = queue[l][i + 1]
        BY <1>3, CLHDoor
    <2> QED
        BY <2>1 DEF InLine
<1>4. ASSUME NEW t \in Threads, NEW u \in Threads \ {t}, CLH!InHand(t) = CLH!InHand(u)
      PROVE  FALSE
    <2>1. CASE CLH!InHand(t) = CLHOwn(t) /\ CLH!InHand(u) = CLHOwn(u)
        BY <1>0, <1>4, <2>1 DEF CLHOwners
    <2>2. CASE /\ CLH!InHand(t) = CLHOwn(t) /\ \A l \in Locks : ~InLine(t, l)
               /\ CLH!InHand(u) = clhMyNode[u]
               /\ \E l \in Locks : \E i \in 1 .. Len(queue[l]) : queue[l][i] = u
        BY <1>3, <1>4, <2>2
    <2>3. CASE /\ CLH!InHand(u) = CLHOwn(u) /\ \A l \in Locks : ~InLine(u, l)
               /\ CLH!InHand(t) = clhMyNode[t]
               /\ \E l \in Locks : \E i \in 1 .. Len(queue[l]) : queue[l][i] = t
        BY <1>3, <1>4, <2>3
    <2>4. CASE /\ CLH!InHand(t) = clhMyNode[t] /\ CLH!InHand(u) = clhMyNode[u]
               /\ \E l \in Locks : \E i \in 1 .. Len(queue[l]) : queue[l][i] = t
               /\ \E l \in Locks : \E i \in 1 .. Len(queue[l]) : queue[l][i] = u
        <3>1. PICK l \in Locks : \E i \in 1 .. Len(queue[l]) : queue[l][i] = t
            BY <2>4
        <3>2. PICK i \in 1 .. Len(queue[l]) : queue[l][i] = t
            BY <3>1
        <3>3. PICK m \in Locks : \E j \in 1 .. Len(queue[m]) : queue[m][j] = u
            BY <2>4
        <3>4. PICK j \in 1 .. Len(queue[m]) : queue[m][j] = u
            BY <3>3
        <3>5. clhMyNode[queue[l][i]] = clhMyNode[queue[m][j]]
            BY <1>4, <2>4, <3>2, <3>4
        <3>6. m = l /\ j = i
            BY <3>5, CLHDoor
        <3> QED
            BY <3>2, <3>4, <3>6
    <2> QED
        BY <1>2, <2>1, <2>2, <2>3, <2>4
<1>5. ASSUME NEW t \in Threads, pc[t] \in {"idle", "swap"}, held[t] = {},
             CLH!InHand(t) \in CLH!Watched
      PROVE  FALSE
    <2>1. CLH!InHand(t) = CLHOwn(t)
        BY <1>2, <1>5
    <2>2. \A u \in Threads : pc[u] = "spin" => clhMyPred[u] = CLHOwn(u) /\ u # t
        BY <1>5 DEF CLHOwn, CLHEnqueued
    <2> QED
        BY <1>0, <1>5, <2>1, <2>2 DEF CLH!Watched, CLHOwners
<1> QED
    BY <1>1, <1>4, <1>5 DEF CLH!NodesNotShared

(* Every step of CLHLock keeps the invariant, and is a step of FifoLock or *)
(* one that FifoLock does not see.                                         *)
LEMMA CLHNext ==
    ASSUME OneAtATime, CLHInv, [CLH!Next]_(CLH!vars)
    PROVE  CLHInv' /\ [Fifo!Next]_(Fifo!vars)
PROOF
<1>1. CASE UNCHANGED CLH!vars
    <2>1. UNCHANGED << pc, arg, held, queue >> /\ UNCHANGED CLH!clhVars
        BY <1>1 DEF CLH!vars, CLH!callerVars
    <2>2. UNCHANGED Fifo!vars
        BY <2>1 DEF Fifo!vars, holders
    <2>3. CLHInv'
        <3>1. CLHPlaces'
            BY <2>1 DEF CLHInv, CLHPlaces, LineInv, InLine, At
        <3>2. /\ clhTail' = clhTail /\ clhLocked' = clhLocked
              /\ clhMyNode' = clhMyNode /\ clhMyPred' = clhMyPred
              /\ \A t \in Threads : /\ CLHEnqueued(t)' <=> CLHEnqueued(t)
                                    /\ CLHOwn(t)' = CLHOwn(t)
            BY <2>1 DEF CLH!clhVars, CLHOwn, CLHEnqueued
        <3>3. CLHOwners'
            BY <3>2 DEF CLHInv, CLHOwners, CLH!Nodes
        <3>4. CLHOrder'
            BY <2>1, <3>2 DEF CLHInv, CLHOrder
        <3> QED
            BY <3>1, <3>3, <3>4 DEF CLHInv
    <2> QED
        BY <2>2, <2>3
<1>2. ASSUME NEW t \in Threads, NEW l \in Locks,
             CLH!StartAcquire(t, l) \/ CLH!StartRelease(t, l) \/ CLH!Continue(t, l)
      PROVE  CLHInv' /\ [Fifo!Next]_(Fifo!vars)
    <2>1. CLHInv' /\ (\/ Fifo!Arrive(t, l) \/ Fifo!Take(t, l) \/ Fifo!Enter(t, l) \/ Fifo!Leave(t, l)
                      \/ UNCHANGED Fifo!vars)
        <3>1. CASE CLH!StartAcquire(t, l)
            BY <3>1, CLHStartAcquire
        <3>2. CASE CLH!StartRelease(t, l)
            BY <3>2, CLHStartRelease
        <3>3. CASE CLH!Exchange(t, l)
            BY <3>3, CLHExchange
        <3>4. CASE CLH!Spin(t, l)
            BY <3>4, CLHSpin
        <3>5. CASE CLH!Swap(t, l)
            BY <3>5, CLHSwap
        <3> QED
            BY <1>2, <3>1, <3>2, <3>3, <3>4, <3>5 DEF CLH!Continue
    <2> QED
        BY <2>1 DEF Fifo!Next
<1> QED
    BY <1>1, <1>2 DEF CLH!Next

-----------------------------------------------------------------------------
(***************************************************************************)
(* HemLock.                                                                *)
(***************************************************************************)

(* Who has passed the exchange on the tail of a HemLock is in its line,    *)
(* also while it has other locks, and nobody else.                         *)
HemPlaces ==
    /\ pc \in [Threads -> {"idle", "spin", "clear", "grant", "drain"}]
    /\ arg \in [Threads -> Locks \cup {Nil}]
    /\ hemPred \in [Threads -> Threads \cup {Nil}]
    /\ LineInv
    /\ \A t \in Threads :
           /\ arg[t] = Nil <=> pc[t] = "idle"
           /\ hemPred[t] # Nil <=> pc[t] \in {"spin", "clear"}
           /\ pc[t] \in {"spin", "clear", "drain"} => arg[t] \notin held[t]
           /\ pc[t] = "grant" => arg[t] \in held[t]
    /\ \A t \in Threads, l \in Locks :
           InLine(t, l) <=> At(t, l, "spin") \/ At(t, l, "clear") \/ l \in held[t]

(* Each in line waits for the one before it, and the first, if it is not   *)
(* inside, has been granted the lock by one that waits for it to take it.  *)
HemOrder ==
    /\ hemTail \in [Locks -> Threads \cup {Nil}]
    /\ hemGrant \in [Threads -> Locks \cup {Nil}]
    /\ \A l \in Locks : Len(queue[l]) = 0 => hemTail[l] = Nil
    /\ \A l \in Locks : \A i \in 1 .. Len(queue[l]) :
           /\ i = Len(queue[l]) => hemTail[l] = queue[l][i]
           /\ i + 1 \in 1 .. Len(queue[l]) =>
                  /\ At(queue[l][i + 1], l, "spin")
                  /\ hemPred[queue[l][i + 1]] = queue[l][i]
           /\ i = 1 /\ l \notin held[queue[l][i]] =>
                  /\ At(hemPred[queue[l][i]], l, "drain")
                  /\ hemGrant[hemPred[queue[l][i]]] = l
    /\ \A t \in Threads :
           hemGrant[t] # Nil =>
               /\ pc[t] = "drain" /\ hemGrant[t] = arg[t]
               /\ Len(queue[arg[t]]) > 0
               /\ hemPred[queue[arg[t]][1]] = t
               /\ arg[t] \notin held[queue[arg[t]][1]]
    /\ \A t \in Threads : pc[t] = "grant" => hemTail[arg[t]] # t

HemInv == HemPlaces /\ HemOrder

(* A waiting thread is the first in line and has been granted the lock by  *)
(* the thread before it, or that thread is still in line.                  *)
LEMMA HemBehind ==
    ASSUME HemInv, NEW t \in Threads, NEW l \in Locks,
           At(t, l, "spin") \/ At(t, l, "clear")
    PROVE  \E i \in 1 .. Len(queue[l]) :
               /\ queue[l][i] = t /\ l \notin held[t] /\ hemPred[t] \in Threads
               /\ i = 1 => At(hemPred[t], l, "drain") /\ hemGrant[hemPred[t]] = l
               /\ i # 1 => /\ pc[t] = "spin" /\ InLine(hemPred[t], l)
                           /\ ~At(hemPred[t], l, "drain") /\ hemGrant[hemPred[t]] # l
                           /\ \E j \in 1 .. Len(queue[l]) :
                                  i = j + 1 /\ queue[l][j] = hemPred[t]
PROOF
<1>0. HemPlaces /\ HemOrder /\ LineInv
    BY DEF HemInv, HemPlaces
<1>1. InLine(t, l) /\ l \notin held[t] /\ hemPred[t] \in Threads /\ arg[t] = l
    BY <1>0 DEF HemPlaces, At
<1>2. PICK i \in 1 .. Len(queue[l]) : queue[l][i] = t
    BY <1>1 DEF InLine
<1>3. i = 1 => At(hemPred[t], l, "drain") /\ hemGrant[hemPred[t]] = l
    BY <1>0, <1>1, <1>2 DEF HemOrder
<1>4. ASSUME i # 1
      PROVE  /\ pc[t] = "spin" /\ InLine(hemPred[t], l)
             /\ ~At(hemPred[t], l, "drain") /\ hemGrant[hemPred[t]] # l
             /\ \E j \in 1 .. Len(queue[l]) : i = j + 1 /\ queue[l][j] = hemPred[t]
    <2>1. PICK j \in 1 .. Len(queue[l]) : j + 1 = i
        <3>1. i - 1 \in 1 .. Len(queue[l]) /\ (i - 1) + 1 = i
            BY <1>0, <1>4, LineType
        <3> QED
            BY <3>1
    <2>2. At(t, l, "spin") /\ hemPred[t] = queue[l][j]
        BY <1>0, <1>2, <2>1 DEF HemOrder
    <2>3. InLine(hemPred[t], l)
        BY <2>2 DEF InLine
    <2>4. ~At(hemPred[t], l, "drain")
        BY <1>0, <1>1, <2>3 DEF HemPlaces, At
    <2>5. hemGrant[hemPred[t]] # l
        BY <1>0, <1>1, <2>4, CallerAssumption DEF HemOrder, At
    <2> QED
        BY <2>1, <2>2, <2>3, <2>4, <2>5 DEF At
<1> QED
    BY <1>1, <1>2, <1>3, <1>4

(* Two threads do not wait behind the same one at the same lock.           *)
LEMMA HemOneBehind ==
    ASSUME HemInv, NEW l \in Locks, NEW t \in Threads, NEW u \in Threads,
           At(t, l, "spin") \/ At(t, l, "clear"), At(u, l, "spin") \/ At(u, l, "clear"),
           hemPred[t] = hemPred[u]
    PROVE  t = u
PROOF
<1>1. PICK i \in 1 .. Len(queue[l]) :
               /\ queue[l][i] = t
               /\ i = 1 => hemGrant[hemPred[t]] = l
               /\ i # 1 => /\ hemGrant[hemPred[t]] # l
                           /\ \E j \in 1 .. Len(queue[l]) :
                                  i = j + 1 /\ queue[l][j] = hemPred[t]
    BY HemBehind
<1>2. PICK k \in 1 .. Len(queue[l]) :
               /\ queue[l][k] = u
               /\ k = 1 => hemGrant[hemPred[u]] = l
               /\ k # 1 => /\ hemGrant[hemPred[u]] # l
                           /\ \E j \in 1 .. Len(queue[l]) :
                                  k = j + 1 /\ queue[l][j] = hemPred[u]
    BY HemBehind
<1>3. CASE i = 1
    <2>1. k = 1
        BY <1>1, <1>2, <1>3
    <2> QED
        BY <1>1, <1>2, <1>3, <2>1
<1>4. CASE i # 1
    <2>1. k # 1
        BY <1>1, <1>2, <1>4
    <2>2. PICK j \in 1 .. Len(queue[l]) : i = j + 1 /\ queue[l][j] = hemPred[t]
        BY <1>1, <1>4
    <2>3. PICK h \in 1 .. Len(queue[l]) : k = h + 1 /\ queue[l][h] = hemPred[u]
        BY <1>2, <2>1
    <2>4. j = h
        BY <2>2, <2>3 DEF HemInv, HemPlaces, LineInv
    <2> QED
        BY <1>1, <1>2, <2>2, <2>3, <2>4
<1> QED
    BY <1>3, <1>4

(* The lock that is granted is nobody's, and the first in line waits for   *)
(* the grant.                                                              *)
LEMMA HemGranted ==
    ASSUME HemInv, NEW t \in Threads, NEW l \in Locks, hemGrant[t] = l
    PROVE  /\ pc[t] = "drain" /\ arg[t] = l /\ ~InLine(t, l)
           /\ 1 \in 1 .. Len(queue[l]) /\ queue[l][1] \in Threads
           /\ hemPred[queue[l][1]] = t
           /\ At(queue[l][1], l, "spin") \/ At(queue[l][1], l, "clear")
           /\ \A u \in Threads : l \notin held[u]
PROOF
<1>0. HemPlaces /\ HemOrder /\ LineInv
    BY DEF HemInv, HemPlaces
<1>1. /\ pc[t] = "drain" /\ arg[t] = l /\ Len(queue[l]) > 0
      /\ hemPred[queue[l][1]] = t /\ l \notin held[queue[l][1]]
    BY <1>0, CallerAssumption DEF HemOrder
<1>2. 1 \in 1 .. Len(queue[l]) /\ queue[l][1] \in Threads /\ InLine(queue[l][1], l)
    <2>1. 1 \in 1 .. Len(queue[l])
        BY <1>0, <1>1, LineType
    <2> QED
        BY <1>0, <2>1, Members
<1>3. At(queue[l][1], l, "spin") \/ At(queue[l][1], l, "clear")
    BY <1>0, <1>1, <1>2 DEF HemPlaces
<1>4. ~InLine(t, l)
    BY <1>0, <1>1 DEF HemPlaces, At
<1>5. \A u \in Threads : l \notin held[u]
    BY <1>0, <1>1 DEF LineInv
<1> QED
    BY <1>1, <1>2, <1>3, <1>4, <1>5

(* No thread is in line to begin with, and none has granted anything.      *)
LEMMA HemInitially ==
    ASSUME CallerInit, Hem!HemInit
    PROVE  HemInv
PROOF
<1>1. HemPlaces
    BY LinesEmpty, CallerAssumption DEF HemPlaces, CallerInit, Hem!HemInit, At
<1>2. HemOrder
    <2>1. \A l \in Locks : Len(queue[l]) = 0 /\ hemTail[l] = Nil
        BY LinesEmpty DEF Hem!HemInit
    <2>2. \A t \in Threads : pc[t] = "idle" /\ hemGrant[t] = Nil
        BY DEF CallerInit, Hem!HemInit
    <2> QED
        BY <2>1, <2>2 DEF HemOrder, Hem!HemInit
<1> QED
    BY <1>1, <1>2 DEF HemInv

(* A step in which nobody comes, goes in or leaves.                        *)
LEMMA HemNodesStay ==
    ASSUME HemInv, queue' = queue, held' = held,
           hemTail' = hemTail, hemGrant' = hemGrant, hemPred' = hemPred,
           \A u \in Threads, m \in Locks :
               At(u, m, "spin") /\ ~At(u, m, "spin")' => queue[m][1] = u,
           \A u \in Threads : hemGrant[u] # Nil => pc'[u] = pc[u] /\ arg'[u] = arg[u],
           \A u \in Threads : pc'[u] = "grant" => hemTail[arg'[u]] # u
    PROVE  HemOrder'
PROOF
<1>0. HemPlaces /\ HemOrder /\ LineInv
    BY DEF HemInv, HemPlaces
<1>1. ASSUME NEW m \in Locks, NEW i \in 1 .. Len(queue[m])
      PROVE  /\ i = Len(queue[m]) => hemTail'[m] = queue[m][i]
             /\ i + 1 \in 1 .. Len(queue[m]) =>
                    At(queue[m][i + 1], m, "spin")' /\ hemPred'[queue[m][i + 1]] = queue[m][i]
             /\ i = 1 /\ m \notin held'[queue[m][i]] =>
                    /\ At(hemPred[queue[m][i]], m, "drain")'
                    /\ hemGrant'[hemPred'[queue[m][i]]] = m
    <2>1. i = Len(queue[m]) => hemTail'[m] = queue[m][i]
        BY <1>0 DEF HemOrder
    <2>2. ASSUME i + 1 \in 1 .. Len(queue[m])
          PROVE  At(queue[m][i + 1], m, "spin")' /\ hemPred'[queue[m][i + 1]] = queue[m][i]
        <3>0. PICK u \in Threads : u = queue[m][i + 1]
            BY <1>0, <2>2, Members
        <3>1. At(u, m, "spin") /\ hemPred[u] = queue[m][i]
            BY <1>0, <2>2, <3>0 DEF HemOrder
        <3>2. queue[m][1] # u
            <4>1. 1 \in 1 .. Len(queue[m]) /\ i + 1 # 1
                BY <2>2
            <4> QED
                BY <1>0, <2>2, <3>0, <4>1 DEF LineInv
        <3>3. At(u, m, "spin")' /\ hemPred'[u] = queue[m][i]
            BY <3>1, <3>2
        <3> QED
            BY <3>0, <3>3 DEF At
    <2>3. ASSUME i = 1, m \notin held'[queue[m][i]]
          PROVE  /\ At(hemPred[queue[m][i]], m, "drain")'
                 /\ hemGrant'[hemPred'[queue[m][i]]] = m
        <3> DEFINE p == hemPred[queue[m][i]]
        <3>1. At(p, m, "drain") /\ hemGrant[p] = m
            BY <1>0, <2>3 DEF HemOrder
        <3>2. p \in Threads
            <4>1. queue[m][i] \in Threads /\ InLine(queue[m][i], m)
                BY <1>0, Members
            <4> QED
                BY <1>0, <2>3, <4>1 DEF HemPlaces, At
        <3>3. pc'[p] = pc[p] /\ arg'[p] = arg[p]
            BY <3>1, <3>2, CallerAssumption
        <3> QED
            BY <3>1, <3>3 DEF At
    <2> QED
        BY <2>1, <2>2, <2>3
<1>2. \A u \in Threads :
          hemGrant'[u] # Nil =>
              /\ pc'[u] = "drain" /\ hemGrant'[u] = arg'[u]
              /\ Len(queue'[arg'[u]]) > 0
              /\ hemPred'[queue'[arg'[u]][1]] = u
              /\ arg'[u] \notin held'[queue'[arg'[u]][1]]
    BY <1>0 DEF HemOrder
<1>3. /\ hemTail' \in [Locks -> Threads \cup {Nil}]
      /\ hemGrant' \in [Threads -> Locks \cup {Nil}]
      /\ \A m \in Locks : Len(queue[m]) = 0 => hemTail'[m] = Nil
    BY <1>0 DEF HemOrder
<1>4. \A u \in Threads : pc'[u] = "grant" => hemTail'[arg'[u]] # u
    OBVIOUS
<1> QED
    BY <1>1, <1>2, <1>3, <1>4 DEF HemOrder, At

(* The thread that sees the grant of its lock is the first in line.        *)
LEMMA HemSpin ==
    ASSUME HemInv, NEW t \in Threads, NEW l \in Locks, Hem!Spin(t, l)
    PROVE  HemInv' /\ UNCHANGED Fifo!vars
PROOF
<1>0. HemPlaces /\ HemOrder /\ LineInv
    BY DEF HemInv, HemPlaces
<1>1. /\ pc[t] = "spin" /\ arg[t] = l /\ hemGrant[hemPred[t]] = l
      /\ pc' = [pc EXCEPT ![t] = "clear"] /\ arg' = arg
      /\ Stay /\ held' = held /\ queue' = queue
      /\ hemTail' = hemTail /\ hemGrant' = hemGrant /\ hemPred' = hemPred
    BY DEF Hem!Spin, Hem!At, Hem!Goto, Hem!Stay, Stay, Hem!hemVars
<1>2. queue[l][1] = t /\ hemGrant[t] = Nil
    <2>1. At(t, l, "spin")
        BY <1>1 DEF At
    <2>2. queue[l][1] = t
        BY <1>1, <2>1, HemBehind
    <2>3. hemGrant[t] = Nil
        BY <1>0, <1>1 DEF HemOrder
    <2> QED
        BY <2>2, <2>3
<1>3. /\ LineInv' /\ UNCHANGED Fifo!vars
      /\ \A u \in Threads, m \in Locks : InLine(u, m)' <=> InLine(u, m)
    BY <1>0, <1>1, StayStep
<1>4. \A u \in Threads : pc'[u] = IF u = t THEN "clear" ELSE pc[u]
    BY <1>0, <1>1 DEF HemPlaces
<1>5. HemPlaces'
    <2>1. pc' \in [Threads -> {"idle", "spin", "clear", "grant", "drain"}]
        BY <1>0, <1>1 DEF HemPlaces
    <2>2. \A u \in Threads :
              /\ arg'[u] = Nil <=> pc'[u] = "idle"
              /\ hemPred'[u] # Nil <=> pc'[u] \in {"spin", "clear"}
              /\ pc'[u] \in {"spin", "clear", "drain"} => arg'[u] \notin held'[u]
              /\ pc'[u] = "grant" => arg'[u] \in held'[u]
        BY <1>0, <1>1, <1>4 DEF HemPlaces
    <2>3. \A u \in Threads, m \in Locks :
              InLine(u, m)' <=> At(u, m, "spin")' \/ At(u, m, "clear")' \/ m \in held'[u]
        BY <1>0, <1>1, <1>3, <1>4 DEF HemPlaces, At
    <2> QED
        BY <1>0, <1>1, <1>3, <2>1, <2>2, <2>3 DEF HemPlaces
<1>6. HemOrder'
    <2>1. \A u \in Threads, m \in Locks :
              At(u, m, "spin") /\ ~At(u, m, "spin")' => queue[m][1] = u
        BY <1>1, <1>2, <1>4 DEF At
    <2>2. \A u \in Threads : hemGrant[u] # Nil => pc'[u] = pc[u] /\ arg'[u] = arg[u]
        BY <1>1, <1>2, <1>4
    <2>3. \A u \in Threads : pc'[u] = "grant" => hemTail[arg'[u]] # u
        BY <1>0, <1>1, <1>4 DEF HemOrder
    <2> QED
        BY <1>1, <2>1, <2>2, <2>3, HemNodesStay
<1> QED
    BY <1>3, <1>5, <1>6 DEF HemInv

(* The grant has been taken, and Release returns.                          *)
LEMMA HemDrain ==
    ASSUME HemInv, NEW t \in Threads, NEW l \in Locks, Hem!Drain(t, l)
    PROVE  HemInv' /\ UNCHANGED Fifo!vars
PROOF
<1>0. HemPlaces /\ HemOrder /\ LineInv
    BY DEF HemInv, HemPlaces
<1>1. /\ pc[t] = "drain" /\ arg[t] = l /\ hemGrant[t] = Nil
      /\ pc' = [pc EXCEPT ![t] = "idle"] /\ arg' = [arg EXCEPT ![t] = Nil]
      /\ Stay /\ held' = held /\ queue' = queue
      /\ hemTail' = hemTail /\ hemGrant' = hemGrant /\ hemPred' = hemPred
    BY DEF Hem!Drain, Hem!At, Hem!Return, Hem!Stay, Stay, Hem!hemVars
<1>2. /\ LineInv' /\ UNCHANGED Fifo!vars
      /\ \A u \in Threads, m \in Locks : InLine(u, m)' <=> InLine(u, m)
    BY <1>0, <1>1, StayStep
<1>3. \A u \in Threads : /\ pc'[u] = IF u = t THEN "idle" ELSE pc[u]
                         /\ arg'[u] = IF u = t THEN Nil ELSE arg[u]
    BY <1>0, <1>1 DEF HemPlaces
<1>4. HemPlaces'
    <2>1. /\ pc' \in [Threads -> {"idle", "spin", "clear", "grant", "drain"}]
          /\ arg' \in [Threads -> Locks \cup {Nil}]
        BY <1>0, <1>1 DEF HemPlaces
    <2>2. \A u \in Threads :
              /\ arg'[u] = Nil <=> pc'[u] = "idle"
              /\ hemPred'[u] # Nil <=> pc'[u] \in {"spin", "clear"}
              /\ pc'[u] \in {"spin", "clear", "drain"} => arg'[u] \notin held'[u]
              /\ pc'[u] = "grant" => arg'[u] \in held'[u]
        BY <1>0, <1>1, <1>3 DEF HemPlaces
    <2>3. \A u \in Threads, m \in Locks :
              InLine(u, m)' <=> At(u, m, "spin")' \/ At(u, m, "clear")' \/ m \in held'[u]
        BY <1>0, <1>1, <1>2, <1>3 DEF HemPlaces, At
    <2> QED
        BY <1>0, <1>1, <1>2, <2>1, <2>2, <2>3 DEF HemPlaces
<1>5. HemOrder'
    <2>1. \A u \in Threads, m \in Locks :
              At(u, m, "spin") /\ ~At(u, m, "spin")' => queue[m][1] = u
        BY <1>1, <1>3 DEF At
    <2>2. \A u \in Threads : hemGrant[u] # Nil => pc'[u] = pc[u] /\ arg'[u] = arg[u]
        BY <1>1, <1>3
    <2>3. \A u \in Threads : pc'[u] = "grant" => hemTail[arg'[u]] # u
        BY <1>0, <1>1, <1>3 DEF HemOrder
    <2> QED
        BY <1>1, <2>1, <2>2, <2>3, HemNodesStay
<1> QED
    BY <1>2, <1>4, <1>5 DEF HemInv

(* The field of the thread before is cleared, and no other thread waits    *)
(* for it.                                                                 *)
LEMMA HemClear ==
    ASSUME HemInv, NEW t \in Threads, NEW l \in Locks, Hem!Clear(t, l)
    PROVE  HemInv' /\ Fifo!Enter(t, l)
PROOF
<1> DEFINE p == hemPred[t]
<1>0. HemPlaces /\ HemOrder /\ LineInv
    BY DEF HemInv, HemPlaces
<1>1. /\ pc[t] = "clear" /\ arg[t] = l
      /\ pc' = [pc EXCEPT ![t] = "idle"] /\ arg' = [arg EXCEPT ![t] = Nil]
      /\ hemGrant' = [hemGrant EXCEPT ![p] = Nil]
      /\ hemPred' = [hemPred EXCEPT ![t] = Nil]
      /\ Enter(t, l)
      /\ held' = [held EXCEPT ![t] = @ \cup {l}] /\ queue' = queue
      /\ hemTail' = hemTail
    BY DEF Hem!Clear, Hem!At, Hem!Return, Hem!Enter, Enter
<1>2. /\ 1 \in 1 .. Len(queue[l]) /\ Len(queue[l]) > 0 /\ queue[l][1] = t
      /\ l \notin held[t] /\ InLine(t, l)
      /\ p \in Threads /\ At(p, l, "drain") /\ hemGrant[p] = l /\ p # t
    <2>1. At(t, l, "clear")
        BY <1>1 DEF At
    <2>2. PICK i \in 1 .. Len(queue[l]) :
               /\ queue[l][i] = t /\ l \notin held[t] /\ p \in Threads
               /\ i = 1 => At(p, l, "drain") /\ hemGrant[p] = l
               /\ i # 1 => pc[t] = "spin"
        BY <2>1, HemBehind
    <2>3. i = 1
        BY <1>1, <2>2
    <2> QED
        BY <1>0, <1>1, <2>2, <2>3, LineType DEF InLine, At
<1> HIDE DEF p
<1>3. /\ LineInv' /\ Fifo!Enter(t, l)
      /\ \A u \in Threads, m \in Locks :
             /\ InLine(u, m)' <=> InLine(u, m)
             /\ m \in held'[u] <=> m \in held[u] \/ (u = t /\ m = l)
    BY <1>0, <1>1, <1>2, EnterStep
<1>4. \A u \in Threads : /\ pc'[u] = IF u = t THEN "idle" ELSE pc[u]
                         /\ arg'[u] = IF u = t THEN Nil ELSE arg[u]
                         /\ hemPred'[u] = IF u = t THEN Nil ELSE hemPred[u]
                         /\ hemGrant'[u] = IF u = p THEN Nil ELSE hemGrant[u]
    BY <1>0, <1>1, <1>2 DEF HemPlaces, HemOrder
<1>5. HemPlaces'
    <2>1. /\ pc' \in [Threads -> {"idle", "spin", "clear", "grant", "drain"}]
          /\ arg' \in [Threads -> Locks \cup {Nil}]
          /\ hemPred' \in [Threads -> Threads \cup {Nil}]
        BY <1>0, <1>1 DEF HemPlaces
    <2>2. \A u \in Threads :
              /\ arg'[u] = Nil <=> pc'[u] = "idle"
              /\ hemPred'[u] # Nil <=> pc'[u] \in {"spin", "clear"}
              /\ pc'[u] \in {"spin", "clear", "drain"} => arg'[u] \notin held'[u]
              /\ pc'[u] = "grant" => arg'[u] \in held'[u]
        BY <1>0, <1>1, <1>3, <1>4 DEF HemPlaces
    <2>3. \A u \in Threads, m \in Locks :
              InLine(u, m)' <=> At(u, m, "spin")' \/ At(u, m, "clear")' \/ m \in held'[u]
        BY <1>0, <1>1, <1>2, <1>3, <1>4 DEF HemPlaces, At
    <2> QED
        BY <1>3, <2>1, <2>2, <2>3 DEF HemPlaces
<1>6. ASSUME NEW m \in Locks, NEW i \in 1 .. Len(queue[m])
      PROVE  /\ i = Len(queue[m]) => hemTail'[m] = queue[m][i]
             /\ i + 1 \in 1 .. Len(queue[m]) =>
                    /\ At(queue[m][i + 1], m, "spin")'
                    /\ hemPred'[queue[m][i + 1]] = queue[m][i]
             /\ i = 1 /\ m \notin held'[queue[m][i]] =>
                    /\ At(hemPred[queue[m][i]], m, "drain")'
                    /\ hemGrant'[hemPred'[queue[m][i]]] = m
    <2>1. i = Len(queue[m]) => hemTail'[m] = queue[m][i]
        BY <1>0, <1>1 DEF HemOrder
    <2>2. ASSUME i + 1 \in 1 .. Len(queue[m])
          PROVE  /\ At(queue[m][i + 1], m, "spin")'
                 /\ hemPred'[queue[m][i + 1]] = queue[m][i]
        <3>1. PICK u \in Threads : u = queue[m][i + 1]
            BY <1>0, <2>2, Members
        <3>2. At(u, m, "spin") /\ hemPred[u] = queue[m][i]
            BY <1>0, <2>2, <3>1 DEF HemOrder
        <3>3. At(u, m, "spin")' /\ hemPred'[u] = queue[m][i]
            BY <1>1, <1>4, <3>2 DEF At
        <3> QED
            BY <1>1, <3>1, <3>3 DEF At
    <2>3. ASSUME i = 1, m \notin held'[queue[m][i]]
          PROVE  /\ At(hemPred[queue[m][i]], m, "drain")'
                 /\ hemGrant'[hemPred'[queue[m][i]]] = m
        <3>1. PICK u \in Threads : u = queue[m][i] /\ InLine(u, m)
            BY <1>0, Members
        <3>2. u # t /\ m \notin held[u]
            BY <1>0, <1>1, <1>3, <2>3, <3>1 DEF HemPlaces, At
        <3>3. PICK q \in Threads : q = hemPred[u] /\ At(q, m, "drain") /\ hemGrant[q] = m
            <4>1. At(hemPred[u], m, "drain") /\ hemGrant[hemPred[u]] = m
                BY <1>0, <2>3, <3>1, <3>2 DEF HemOrder
            <4>2. hemPred[u] \in Threads
                BY <1>0, <3>1, <3>2 DEF HemPlaces, At
            <4> QED
                BY <4>1, <4>2
        <3>4. q # p /\ q # t
            BY <1>1, <1>2, <2>3, <3>1, <3>2, <3>3 DEF At
        <3>5. At(q, m, "drain")' /\ hemGrant'[q] = m /\ hemPred'[u] = q
            BY <1>4, <3>2, <3>3, <3>4 DEF At
        <3> QED
            BY <1>1, <3>1, <3>5 DEF At
    <2> QED
        BY <2>1, <2>2, <2>3
<1>7. ASSUME NEW u \in Threads, hemGrant'[u] # Nil
      PROVE  /\ pc'[u] = "drain" /\ hemGrant'[u] = arg'[u]
             /\ Len(queue'[arg'[u]]) > 0
             /\ hemPred'[queue'[arg'[u]][1]] = u
             /\ arg'[u] \notin held'[queue'[arg'[u]][1]]
    <2>1. u # p /\ hemGrant'[u] = hemGrant[u]
        BY <1>4, <1>7
    <2>2. PICK m \in Locks : hemGrant[u] = m
        BY <1>0, <1>7, <2>1 DEF HemOrder
    <2>3. /\ pc[u] = "drain" /\ arg[u] = m
          /\ 1 \in 1 .. Len(queue[m]) /\ queue[m][1] \in Threads
          /\ hemPred[queue[m][1]] = u
          /\ \A x \in Threads : m \notin held[x]
        BY <2>2, HemGranted
    <2>4. u # t /\ queue[m][1] # t
        BY <1>1, <2>1, <2>3 DEF p
    <2>5. /\ pc'[u] = "drain" /\ arg'[u] = m /\ hemPred'[queue[m][1]] = u
          /\ m \notin held'[queue[m][1]]
        BY <1>3, <1>4, <2>3, <2>4
    <2> QED
        BY <1>1, <2>1, <2>2, <2>3, <2>5
<1>8. HemOrder'
    <2>1. /\ hemTail' \in [Locks -> Threads \cup {Nil}]
          /\ hemGrant' \in [Threads -> Locks \cup {Nil}]
          /\ \A m \in Locks : Len(queue[m]) = 0 => hemTail'[m] = Nil
        BY <1>0, <1>1 DEF HemOrder
    <2>2. \A u \in Threads : pc'[u] = "grant" => hemTail'[arg'[u]] # u
        BY <1>0, <1>1, <1>4 DEF HemOrder
    <2> QED
        BY <1>1, <1>6, <1>7, <2>1, <2>2 DEF HemOrder, At
<1> QED
    BY <1>3, <1>5, <1>8 DEF HemInv

(* A free lock is taken at the doorway.                                    *)
LEMMA HemTake ==
    ASSUME HemInv, NEW t \in Threads, NEW l \in Locks,
           hemTail[l] = Nil, pc[t] = "idle", Take(t, l),
           pc' = pc, arg' = arg, hemPred' = hemPred, hemGrant' = hemGrant,
           hemTail' = [hemTail EXCEPT ![l] = t]
    PROVE  HemInv' /\ Fifo!Take(t, l)
PROOF
<1>0. HemPlaces /\ HemOrder /\ LineInv
    BY DEF HemInv, HemPlaces
<1>1. Len(queue[l]) = 0
    <2>1. Len(queue[l]) # 0 => Len(queue[l]) \in 1 .. Len(queue[l])
        BY <1>0, LineType
    <2> QED
        BY <1>0, <2>1, Members, CallerAssumption DEF HemOrder
<1>2. /\ LineInv' /\ Fifo!Take(t, l) /\ ~InLine(t, l)
      /\ queue' = [queue EXCEPT ![l] = Append(@, t)]
      /\ \A u \in Threads, m \in Locks :
             m \in held'[u] <=> m \in held[u] \/ (u = t /\ m = l)
    BY <1>0, <1>1, TakeStep
<1>3. /\ \A m \in Locks \ {l} : queue'[m] = queue[m]
      /\ Len(queue'[l]) = 1 /\ queue'[l][1] = t
      /\ \A u \in Threads, m \in Locks : InLine(u, m)' <=> InLine(u, m) \/ (u = t /\ m = l)
    <2>1. /\ \A m \in Locks \ {l} : queue'[m] = queue[m]
          /\ Len(queue'[l]) = Len(queue[l]) + 1
          /\ queue'[l][Len(queue[l]) + 1] = t
          /\ \A u \in Threads, m \in Locks :
                 InLine(u, m)' <=> InLine(u, m) \/ (u = t /\ m = l)
        BY <1>0, <1>2, LineGrows
    <2> QED
        BY <1>1, <2>1
<1>4. HemPlaces'
    <2>1. /\ pc' \in [Threads -> {"idle", "spin", "clear", "grant", "drain"}]
          /\ arg' \in [Threads -> Locks \cup {Nil}]
          /\ hemPred' \in [Threads -> Threads \cup {Nil}]
        BY <1>0 DEF HemPlaces
    <2>2. \A u \in Threads :
              /\ arg'[u] = Nil <=> pc'[u] = "idle"
              /\ hemPred'[u] # Nil <=> pc'[u] \in {"spin", "clear"}
              /\ pc'[u] \in {"spin", "clear", "drain"} => arg'[u] \notin held'[u]
              /\ pc'[u] = "grant" => arg'[u] \in held'[u]
        BY <1>0, <1>2 DEF HemPlaces
    <2>3. \A u \in Threads, m \in Locks :
              InLine(u, m)' <=> At(u, m, "spin")' \/ At(u, m, "clear")' \/ m \in held'[u]
        BY <1>0, <1>2, <1>3 DEF HemPlaces, At
    <2> QED
        BY <1>2, <2>1, <2>2, <2>3 DEF HemPlaces
<1>5. hemTail'[l] = t /\ \A m \in Locks \ {l} : hemTail'[m] = hemTail[m]
    BY <1>0 DEF HemOrder
<1>6. ASSUME NEW m \in Locks, NEW i \in 1 .. Len(queue'[m])
      PROVE  /\ i = Len(queue'[m]) => hemTail'[m] = queue'[m][i]
             /\ i + 1 \in 1 .. Len(queue'[m]) =>
                    /\ At(queue[m][i + 1], m, "spin")'
                    /\ hemPred'[queue'[m][i + 1]] = queue'[m][i]
             /\ i = 1 /\ m \notin held'[queue'[m][i]] =>
                    /\ At(hemPred[queue[m][i]], m, "drain")'
                    /\ hemGrant'[hemPred'[queue'[m][i]]] = m
    <2>1. CASE m = l
        <3>1. i = 1 /\ queue'[m][i] = t /\ m \in held'[t] /\ Len(queue'[m]) = 1
            BY <1>2, <1>3, <2>1
        <3> QED
            BY <1>5, <2>1, <3>1
    <2>2. CASE m # l
        <3>1. /\ queue'[m] = queue[m] /\ i \in 1 .. Len(queue[m]) /\ hemTail'[m] = hemTail[m]
              /\ queue[m][i] \in Threads
              /\ m \notin held'[queue[m][i]] => m \notin held[queue[m][i]]
            BY <1>0, <1>2, <1>3, <1>5, <2>2, Members
        <3>2. /\ i = Len(queue'[m]) => hemTail'[m] = queue'[m][i]
              /\ i + 1 \in 1 .. Len(queue'[m]) =>
                     /\ At(queue[m][i + 1], m, "spin")'
                     /\ hemPred'[queue'[m][i + 1]] = queue'[m][i]
            <4>1. /\ i = Len(queue[m]) => hemTail[m] = queue[m][i]
                  /\ i + 1 \in 1 .. Len(queue[m]) =>
                         /\ At(queue[m][i + 1], m, "spin")
                         /\ hemPred[queue[m][i + 1]] = queue[m][i]
                BY <1>0, <3>1 DEF HemOrder
            <4> QED
                BY <1>0, <3>1, <4>1 DEF At
        <3>3. i = 1 /\ m \notin held'[queue'[m][i]] =>
                  /\ At(hemPred[queue[m][i]], m, "drain")'
                  /\ hemGrant'[hemPred'[queue'[m][i]]] = m
            BY <1>0, <3>1 DEF HemOrder, At
        <3> QED
            BY <3>2, <3>3
    <2> QED
        BY <2>1, <2>2
<1>7. ASSUME NEW u \in Threads, hemGrant'[u] # Nil
      PROVE  /\ pc'[u] = "drain" /\ hemGrant'[u] = arg'[u]
             /\ Len(queue'[arg'[u]]) > 0
             /\ hemPred'[queue'[arg'[u]][1]] = u
             /\ arg'[u] \notin held'[queue'[arg'[u]][1]]
    <2>1. PICK m \in Locks : hemGrant[u] = m
        BY <1>0, <1>7 DEF HemOrder
    <2>2. /\ pc[u] = "drain" /\ arg[u] = m
          /\ 1 \in 1 .. Len(queue[m]) /\ queue[m][1] \in Threads
          /\ hemPred[queue[m][1]] = u
          /\ \A x \in Threads : m \notin held[x]
        BY <2>1, HemGranted
    <2>3. m # l /\ queue'[m] = queue[m] /\ m \notin held'[queue[m][1]]
        BY <1>1, <1>2, <1>3, <2>2
    <2> QED
        BY <2>1, <2>2, <2>3
<1>8. HemOrder'
    <2>1. /\ hemTail' \in [Locks -> Threads \cup {Nil}]
          /\ hemGrant' \in [Threads -> Locks \cup {Nil}]
        BY <1>0 DEF HemOrder
    <2>2. \A m \in Locks : Len(queue'[m]) = 0 => hemTail'[m] = Nil
        BY <1>0, <1>3, <1>5 DEF HemOrder
    <2>3. \A u \in Threads : pc'[u] = "grant" => hemTail'[arg'[u]] # u
        <3>1. \A u \in Threads : pc[u] = "grant" => u # t /\ arg[u] \in Locks
            BY <1>0 DEF HemPlaces
        <3> QED
            BY <1>0, <1>5, <3>1 DEF HemOrder
    <2> QED
        BY <1>6, <1>7, <2>1, <2>2, <2>3 DEF HemOrder, At
<1> QED
    BY <1>2, <1>4, <1>8 DEF HemInv

(* A thread that finds the lock taken waits behind the last in line.       *)
LEMMA HemArrive ==
    ASSUME HemInv, NEW t \in Threads, NEW l \in Locks,
           hemTail[l] # Nil, pc[t] = "idle", l \notin held[t], Arrive(t, l),
           pc' = [pc EXCEPT ![t] = "spin"], arg' = [arg EXCEPT ![t] = l],
           hemPred' = [hemPred EXCEPT ![t] = hemTail[l]], hemGrant' = hemGrant,
           hemTail' = [hemTail EXCEPT ![l] = t]
    PROVE  HemInv' /\ Fifo!Arrive(t, l)
PROOF
<1> DEFINE n == Len(queue[l])
<1>0. HemPlaces /\ HemOrder /\ LineInv
    BY DEF HemInv, HemPlaces
<1>1. ~InLine(t, l) /\ \A m \in Locks : InLine(t, m) => m \in held[t]
    BY <1>0 DEF HemPlaces, At
<1>2. n \in 1 .. Len(queue[l]) /\ queue[l][n] \in Threads /\ hemTail[l] = queue[l][n]
    <2>1. n \in 1 .. Len(queue[l])
        BY <1>0, LineType DEF HemOrder
    <2> QED
        BY <1>0, <2>1, Members DEF HemOrder
<1>3. LineInv' /\ Fifo!Arrive(t, l)
    BY <1>0, <1>1, ArriveStep
<1>4. /\ held' = held /\ queue' = [queue EXCEPT ![l] = Append(@, t)]
      /\ \A m \in Locks \ {l} : queue'[m] = queue[m]
      /\ Len(queue'[l]) = n + 1 /\ queue'[l][n + 1] = t
      /\ \A i \in 1 .. Len(queue[l]) : queue'[l][i] = queue[l][i]
      /\ \A u \in Threads, m \in Locks : InLine(u, m)' <=> InLine(u, m) \/ (u = t /\ m = l)
    BY <1>0, <1>1, LineGrows DEF Arrive
<1>5. \A u \in Threads : /\ pc'[u] = IF u = t THEN "spin" ELSE pc[u]
                         /\ arg'[u] = IF u = t THEN l ELSE arg[u]
                         /\ hemPred'[u] = IF u = t THEN queue[l][n] ELSE hemPred[u]
    BY <1>0, <1>2 DEF HemPlaces
<1>6. hemTail'[l] = t /\ \A m \in Locks \ {l} : hemTail'[m] = hemTail[m]
    BY <1>0 DEF HemOrder
<1> HIDE DEF n
<1>7. HemPlaces'
    <2>1. /\ pc' \in [Threads -> {"idle", "spin", "clear", "grant", "drain"}]
          /\ arg' \in [Threads -> Locks \cup {Nil}]
          /\ hemPred' \in [Threads -> Threads \cup {Nil}]
        BY <1>0, <1>2 DEF HemPlaces
    <2>2. \A u \in Threads :
              /\ arg'[u] = Nil <=> pc'[u] = "idle"
              /\ hemPred'[u] # Nil <=> pc'[u] \in {"spin", "clear"}
              /\ pc'[u] \in {"spin", "clear", "drain"} => arg'[u] \notin held'[u]
              /\ pc'[u] = "grant" => arg'[u] \in held'[u]
        BY <1>0, <1>2, <1>4, <1>5, CallerAssumption DEF HemPlaces
    <2>3. \A u \in Threads, m \in Locks :
              InLine(u, m)' <=> At(u, m, "spin")' \/ At(u, m, "clear")' \/ m \in held'[u]
        BY <1>0, <1>1, <1>4, <1>5 DEF HemPlaces, At
    <2> QED
        BY <1>3, <2>1, <2>2, <2>3 DEF HemPlaces
<1>8. ASSUME NEW m \in Locks, NEW i \in 1 .. Len(queue'[m])
      PROVE  /\ i = Len(queue'[m]) => hemTail'[m] = queue'[m][i]
             /\ i + 1 \in 1 .. Len(queue'[m]) =>
                    /\ At(queue[m][i + 1], m, "spin")'
                    /\ hemPred'[queue'[m][i + 1]] = queue'[m][i]
             /\ i = 1 /\ m \notin held'[queue'[m][i]] =>
                    /\ At(hemPred[queue[m][i]], m, "drain")'
                    /\ hemGrant'[hemPred'[queue'[m][i]]] = m
    <2>1. CASE m = l /\ i = n + 1
        <3>1. /\ queue'[m][i] = t /\ ~(i + 1 \in 1 .. Len(queue'[m])) /\ i # 1
              /\ hemTail'[m] = t
            BY <1>2, <1>4, <1>6, <2>1
        <3> QED
            BY <3>1
    <2>2. CASE ~(m = l /\ i = n + 1)
        <3>1. i \in 1 .. Len(queue[m]) /\ queue'[m][i] = queue[m][i]
            BY <1>2, <1>4, <2>2 DEF n
        <3>2. PICK u \in Threads : u = queue[m][i] /\ InLine(u, m)
            BY <1>0, <3>1, Members
        <3>3. i = Len(queue'[m]) => hemTail'[m] = queue'[m][i]
            <4>1. i = Len(queue'[m]) => m # l
                BY <1>4, <2>2
            <4> QED
                BY <1>0, <1>4, <1>6, <3>1, <4>1 DEF HemOrder
        <3>4. ASSUME i + 1 \in 1 .. Len(queue'[m])
              PROVE  /\ At(queue[m][i + 1], m, "spin")'
                     /\ hemPred'[queue'[m][i + 1]] = queue'[m][i]
            <4>1. CASE m = l /\ i = n
                <5>1. queue'[m][i + 1] = t /\ hemPred'[t] = queue'[m][i]
                    BY <1>4, <1>5, <3>1, <4>1
                <5> QED
                    BY <1>5, <4>1, <5>1 DEF At
            <4>2. CASE ~(m = l /\ i = n)
                <5> DEFINE j == i + 1
                <5>1. j \in 1 .. Len(queue[m])
                    BY <1>2, <1>4, <3>1, <3>4, <4>2 DEF n
                <5>2. PICK v \in Threads : v = queue[m][j] /\ InLine(v, m)
                    BY <1>0, <5>1, Members
                <5>3. At(v, m, "spin") /\ hemPred[v] = u
                    BY <1>0, <3>1, <3>2, <5>1, <5>2 DEF HemOrder
                <5> HIDE DEF j
                <5>4. queue'[m][j] = v
                    BY <1>4, <5>1, <5>2
                <5>5. v # t
                    BY <5>3 DEF At
                <5>6. At(v, m, "spin")' /\ hemPred'[v] = u
                    BY <1>5, <5>3, <5>5 DEF At
                <5> QED
                    BY <3>1, <3>2, <5>4, <5>6 DEF j, At
            <4> QED
                BY <4>1, <4>2
        <3>5. ASSUME i = 1, m \notin held'[queue'[m][i]]
              PROVE  /\ At(hemPred[queue[m][i]], m, "drain")'
                     /\ hemGrant'[hemPred'[queue'[m][i]]] = m
            <4>1. m \notin held[u] /\ u # t
                BY <1>1, <1>4, <3>1, <3>2, <3>5
            <4>2. PICK q \in Threads : q = hemPred[u] /\ At(q, m, "drain") /\ hemGrant[q] = m
                <5>1. At(hemPred[u], m, "drain") /\ hemGrant[hemPred[u]] = m
                    BY <1>0, <3>1, <3>2, <3>5, <4>1 DEF HemOrder
                <5>2. hemPred[u] \in Threads
                    BY <1>0, <3>2, <4>1 DEF HemPlaces, At
                <5> QED
                    BY <5>1, <5>2
            <4>3. At(q, m, "drain")' /\ hemGrant'[q] = m /\ hemPred'[u] = q
                <5>1. q # t
                    BY <4>2 DEF At
                <5> QED
                    BY <1>5, <4>1, <4>2, <5>1 DEF At
            <4> QED
                BY <3>1, <3>2, <4>3 DEF At
        <3> QED
            BY <3>3, <3>4, <3>5
    <2> QED
        BY <2>1, <2>2
<1>9. ASSUME NEW u \in Threads, hemGrant'[u] # Nil
      PROVE  /\ pc'[u] = "drain" /\ hemGrant'[u] = arg'[u]
             /\ Len(queue'[arg'[u]]) > 0
             /\ hemPred'[queue'[arg'[u]][1]] = u
             /\ arg'[u] \notin held'[queue'[arg'[u]][1]]
    <2>1. PICK m \in Locks : hemGrant[u] = m
        BY <1>0, <1>9 DEF HemOrder
    <2>2. /\ pc[u] = "drain" /\ arg[u] = m
          /\ 1 \in 1 .. Len(queue[m]) /\ queue[m][1] \in Threads
          /\ hemPred[queue[m][1]] = u
          /\ At(queue[m][1], m, "spin") \/ At(queue[m][1], m, "clear")
          /\ \A x \in Threads : m \notin held[x]
        BY <2>1, HemGranted
    <2>3. queue'[m][1] = queue[m][1] /\ Len(queue'[m]) > 0
        BY <1>2, <1>4, <2>2
    <2>4. u # t /\ queue[m][1] # t
        BY <2>2 DEF At
    <2> QED
        BY <1>4, <1>5, <2>1, <2>2, <2>3, <2>4
<1>10. HemOrder'
    <2>1. /\ hemTail' \in [Locks -> Threads \cup {Nil}]
          /\ hemGrant' \in [Threads -> Locks \cup {Nil}]
        BY <1>0 DEF HemOrder
    <2>2. \A m \in Locks : Len(queue'[m]) = 0 => hemTail'[m] = Nil
        BY <1>0, <1>2, <1>4, <1>6 DEF HemOrder
    <2>3. \A u \in Threads : pc'[u] = "grant" => hemTail'[arg'[u]] # u
        <3>1. \A u \in Threads : pc'[u] = "grant" => u # t /\ arg[u] \in Locks
            BY <1>0, <1>5 DEF HemPlaces
        <3> QED
            BY <1>0, <1>5, <1>6, <3>1 DEF HemOrder
    <2> QED
        BY <1>8, <1>9, <2>1, <2>2, <2>3 DEF HemOrder, At
<1> QED
    BY <1>3, <1>7, <1>10 DEF HemInv

(* The doorway of HemLock.                                                 *)
LEMMA HemStartAcquire ==
    ASSUME HemInv, NEW t \in Threads, NEW l \in Locks, Hem!StartAcquire(t, l)
    PROVE  HemInv' /\ (Fifo!Take(t, l) \/ Fifo!Arrive(t, l))
PROOF
<1>1. \/ /\ hemTail[l] = Nil /\ pc[t] = "idle" /\ Take(t, l)
         /\ pc' = pc /\ arg' = arg /\ hemPred' = hemPred
         /\ hemTail' = [hemTail EXCEPT ![l] = t] /\ hemGrant' = hemGrant
      \/ /\ hemTail[l] # Nil /\ pc[t] = "idle" /\ l \notin held[t] /\ Arrive(t, l)
         /\ pc' = [pc EXCEPT ![t] = "spin"] /\ arg' = [arg EXCEPT ![t] = l]
         /\ hemPred' = [hemPred EXCEPT ![t] = hemTail[l]]
         /\ hemTail' = [hemTail EXCEPT ![l] = t] /\ hemGrant' = hemGrant
    <2>1. Hem!MayAcquire(t, l) => l \notin held[t]
        BY CallerAssumption DEF Hem!MayAcquire
    <2> QED
        BY <2>1 DEF Hem!StartAcquire, Hem!BeginAcquire, Hem!Take, Take, Hem!Arrive, Arrive
<1> QED
    BY <1>1, HemTake, HemArrive

(* The holder that came last leaves the lock free.                         *)
LEMMA HemFree ==
    ASSUME HemInv, NEW t \in Threads, NEW l \in Locks,
           hemTail[l] = t, pc[t] = "idle", l \in held[t], Leave(t, l),
           pc' = pc, arg' = arg, hemPred' = hemPred, hemGrant' = hemGrant,
           hemTail' = [hemTail EXCEPT ![l] = Nil]
    PROVE  HemInv' /\ Fifo!Leave(t, l)
PROOF
<1>0. HemPlaces /\ HemOrder /\ LineInv
    BY DEF HemInv, HemPlaces
<1>1. /\ LineInv' /\ Fifo!Leave(t, l)
      /\ \A u \in Threads, m \in Locks :
             m \in held'[u] <=> m \in held[u] /\ ~(u = t /\ m = l)
    BY <1>0, LeaveStep
<1>2. /\ Len(queue[l]) > 0 /\ queue[l][1] = t
      /\ \A m \in Locks \ {l} : queue'[m] = queue[m]
      /\ Len(queue'[l]) = Len(queue[l]) - 1
      /\ \A u \in Threads, m \in Locks : InLine(u, m)' <=> InLine(u, m) /\ ~(u = t /\ m = l)
    BY <1>0, LineShrinks
<1>3. Len(queue'[l]) = 0
    <2>1. 1 \in 1 .. Len(queue[l]) /\ Len(queue[l]) \in 1 .. Len(queue[l])
        BY <1>0, <1>2, LineType
    <2>2. queue[l][Len(queue[l])] = t
        BY <1>0, <2>1 DEF HemOrder
    <2>3. \A i, j \in 1 .. Len(queue[l]) : queue[l][i] = queue[l][j] => i = j
        BY <1>0 DEF LineInv
    <2>4. Len(queue[l]) = 1
        BY <1>2, <2>1, <2>2, <2>3
    <2> QED
        BY <1>2, <2>4
<1>4. HemPlaces'
    <2>1. /\ pc' \in [Threads -> {"idle", "spin", "clear", "grant", "drain"}]
          /\ arg' \in [Threads -> Locks \cup {Nil}]
          /\ hemPred' \in [Threads -> Threads \cup {Nil}]
        BY <1>0 DEF HemPlaces
    <2>2. \A u \in Threads :
              /\ arg'[u] = Nil <=> pc'[u] = "idle"
              /\ hemPred'[u] # Nil <=> pc'[u] \in {"spin", "clear"}
              /\ pc'[u] \in {"spin", "clear", "drain"} => arg'[u] \notin held'[u]
              /\ pc'[u] = "grant" => arg'[u] \in held'[u]
        BY <1>0, <1>1 DEF HemPlaces
    <2>3. \A u \in Threads, m \in Locks :
              InLine(u, m)' <=> At(u, m, "spin")' \/ At(u, m, "clear")' \/ m \in held'[u]
        BY <1>0, <1>1, <1>2 DEF HemPlaces, At
    <2> QED
        BY <1>1, <2>1, <2>2, <2>3 DEF HemPlaces
<1>5. hemTail'[l] = Nil /\ \A m \in Locks \ {l} : hemTail'[m] = hemTail[m]
    BY <1>0 DEF HemOrder
<1>6. ASSUME NEW m \in Locks, NEW i \in 1 .. Len(queue'[m])
      PROVE  /\ i = Len(queue'[m]) => hemTail'[m] = queue'[m][i]
             /\ i + 1 \in 1 .. Len(queue'[m]) =>
                    /\ At(queue[m][i + 1], m, "spin")'
                    /\ hemPred'[queue'[m][i + 1]] = queue'[m][i]
             /\ i = 1 /\ m \notin held'[queue'[m][i]] =>
                    /\ At(hemPred[queue[m][i]], m, "drain")'
                    /\ hemGrant'[hemPred'[queue'[m][i]]] = m
    <2>1. m # l
        BY <1>3
    <2>2. /\ queue'[m] = queue[m] /\ i \in 1 .. Len(queue[m]) /\ hemTail'[m] = hemTail[m]
          /\ queue[m][i] \in Threads
          /\ m \notin held'[queue[m][i]] => m \notin held[queue[m][i]]
        BY <1>0, <1>1, <1>2, <1>5, <2>1, Members
    <2>3. /\ i = Len(queue'[m]) => hemTail'[m] = queue'[m][i]
          /\ i + 1 \in 1 .. Len(queue'[m]) =>
                 /\ At(queue[m][i + 1], m, "spin")'
                 /\ hemPred'[queue'[m][i + 1]] = queue'[m][i]
        BY <1>0, <2>2 DEF HemOrder, At
    <2>4. i = 1 /\ m \notin held'[queue'[m][i]] =>
              /\ At(hemPred[queue[m][i]], m, "drain")'
              /\ hemGrant'[hemPred'[queue'[m][i]]] = m
        BY <1>0, <2>2 DEF HemOrder, At
    <2> QED
        BY <2>3, <2>4
<1>7. ASSUME NEW u \in Threads, hemGrant'[u] # Nil
      PROVE  /\ pc'[u] = "drain" /\ hemGrant'[u] = arg'[u]
             /\ Len(queue'[arg'[u]]) > 0
             /\ hemPred'[queue'[arg'[u]][1]] = u
             /\ arg'[u] \notin held'[queue'[arg'[u]][1]]
    <2>1. PICK m \in Locks : hemGrant[u] = m
        BY <1>0, <1>7 DEF HemOrder
    <2>2. /\ pc[u] = "drain" /\ arg[u] = m
          /\ 1 \in 1 .. Len(queue[m]) /\ queue[m][1] \in Threads
          /\ hemPred[queue[m][1]] = u
          /\ \A x \in Threads : m \notin held[x]
        BY <2>1, HemGranted
    <2>3. m # l
        BY <2>2
    <2> QED
        BY <1>1, <1>2, <2>1, <2>2, <2>3
<1>8. HemOrder'
    <2>1. /\ hemTail' \in [Locks -> Threads \cup {Nil}]
          /\ hemGrant' \in [Threads -> Locks \cup {Nil}]
        BY <1>0 DEF HemOrder
    <2>2. \A m \in Locks : Len(queue'[m]) = 0 => hemTail'[m] = Nil
        BY <1>0, <1>2, <1>5 DEF HemOrder
    <2>3. \A u \in Threads : pc'[u] = "grant" => hemTail'[arg'[u]] # u
        <3>1. \A u \in Threads : pc[u] = "grant" => u # Nil /\ arg[u] \in Locks
            BY <1>0, CallerAssumption DEF HemPlaces
        <3> QED
            BY <1>0, <1>5, <3>1 DEF HemOrder
    <2> QED
        BY <1>6, <1>7, <2>1, <2>2, <2>3 DEF HemOrder, At
<1> QED
    BY <1>1, <1>4, <1>8 DEF HemInv

(* Release frees the lock, or finds that somebody has come.                *)
LEMMA HemStartRelease ==
    ASSUME HemInv, NEW t \in Threads, NEW l \in Locks, Hem!StartRelease(t, l)
    PROVE  HemInv' /\ (Fifo!Leave(t, l) \/ UNCHANGED Fifo!vars)
PROOF
<1>0. HemPlaces /\ HemOrder /\ LineInv
    BY DEF HemInv, HemPlaces
<1>1. /\ pc[t] = "idle" /\ l \in held[t] /\ hemPred' = hemPred /\ hemGrant' = hemGrant
      /\ \/ /\ hemTail[l] = t /\ Leave(t, l) /\ pc' = pc /\ arg' = arg
            /\ hemTail' = [hemTail EXCEPT ![l] = Nil]
         \/ /\ hemTail[l] # t /\ Stay /\ hemTail' = hemTail
            /\ pc' = [pc EXCEPT ![t] = "grant"] /\ arg' = [arg EXCEPT ![t] = l]
    BY DEF Hem!StartRelease, Hem!BeginRelease, Hem!Leave, Leave, Hem!Stay, Stay
<1>2. CASE /\ hemTail[l] # t /\ Stay /\ hemTail' = hemTail
           /\ pc' = [pc EXCEPT ![t] = "grant"] /\ arg' = [arg EXCEPT ![t] = l]
    <2>1. /\ LineInv' /\ UNCHANGED Fifo!vars /\ held' = held /\ queue' = queue
          /\ \A u \in Threads, m \in Locks : InLine(u, m)' <=> InLine(u, m)
        BY <1>0, <1>2, StayStep DEF Stay
    <2>2. \A u \in Threads : /\ pc'[u] = IF u = t THEN "grant" ELSE pc[u]
                             /\ arg'[u] = IF u = t THEN l ELSE arg[u]
        BY <1>0, <1>2 DEF HemPlaces
    <2>3. HemPlaces'
        <3>1. /\ pc' \in [Threads -> {"idle", "spin", "clear", "grant", "drain"}]
              /\ arg' \in [Threads -> Locks \cup {Nil}]
              /\ hemPred' \in [Threads -> Threads \cup {Nil}]
            BY <1>0, <1>1, <1>2 DEF HemPlaces
        <3>2. \A u \in Threads :
                  /\ arg'[u] = Nil <=> pc'[u] = "idle"
                  /\ hemPred'[u] # Nil <=> pc'[u] \in {"spin", "clear"}
                  /\ pc'[u] \in {"spin", "clear", "drain"} => arg'[u] \notin held'[u]
                  /\ pc'[u] = "grant" => arg'[u] \in held'[u]
            BY <1>0, <1>1, <2>1, <2>2, CallerAssumption DEF HemPlaces
        <3>3. \A u \in Threads, m \in Locks :
                  InLine(u, m)' <=> At(u, m, "spin")' \/ At(u, m, "clear")' \/ m \in held'[u]
            BY <1>0, <1>1, <2>1, <2>2 DEF HemPlaces, At
        <3> QED
            BY <2>1, <3>1, <3>2, <3>3 DEF HemPlaces
    <2>4. HemOrder'
        <3>1. \A u \in Threads, m \in Locks :
                  At(u, m, "spin") /\ ~At(u, m, "spin")' => queue[m][1] = u
            BY <1>1, <2>2 DEF At
        <3>2. \A u \in Threads : hemGrant[u] # Nil => pc'[u] = pc[u] /\ arg'[u] = arg[u]
            BY <1>0, <1>1, <2>2 DEF HemOrder
        <3>3. \A u \in Threads : pc'[u] = "grant" => hemTail[arg'[u]] # u
            BY <1>0, <1>2, <2>2 DEF HemOrder
        <3> QED
            BY <1>1, <1>2, <2>1, <3>1, <3>2, <3>3, HemNodesStay
    <2> QED
        BY <2>1, <2>3, <2>4 DEF HemInv
<1>3. CASE /\ hemTail[l] = t /\ Leave(t, l) /\ pc' = pc /\ arg' = arg
           /\ hemTail' = [hemTail EXCEPT ![l] = Nil]
    BY <1>1, <1>3, HemFree
<1> QED
    BY <1>1, <1>2, <1>3

(* The lock is granted to the thread that waits behind the holder.         *)
LEMMA HemPassOn ==
    ASSUME HemInv, NEW t \in Threads, NEW l \in Locks, Hem!PassOn(t, l)
    PROVE  HemInv' /\ Fifo!Leave(t, l)
PROOF
<1>0. HemPlaces /\ HemOrder /\ LineInv
    BY DEF HemInv, HemPlaces
<1>1. /\ pc[t] = "grant" /\ arg[t] = l /\ l \in held[t] /\ Leave(t, l)
      /\ pc' = [pc EXCEPT ![t] = "drain"] /\ arg' = arg
      /\ hemGrant' = [hemGrant EXCEPT ![t] = l]
      /\ hemTail' = hemTail /\ hemPred' = hemPred
    <2>1. /\ pc[t] = "grant" /\ arg[t] = l /\ Leave(t, l)
          /\ pc' = [pc EXCEPT ![t] = "drain"] /\ arg' = arg
          /\ hemGrant' = [hemGrant EXCEPT ![t] = l]
          /\ hemTail' = hemTail /\ hemPred' = hemPred
        BY DEF Hem!PassOn, Hem!At, Hem!Goto, Hem!Leave, Leave
    <2> QED
        BY <1>0, <2>1 DEF HemPlaces
<1>2. /\ LineInv' /\ Fifo!Leave(t, l)
      /\ \A u \in Threads, m \in Locks :
             m \in held'[u] <=> m \in held[u] /\ ~(u = t /\ m = l)
    BY <1>0, <1>1, LeaveStep
<1>3. /\ Len(queue[l]) \in Nat \ {0} /\ queue[l][1] = t
      /\ \A m \in Locks \ {l} : queue'[m] = queue[m]
      /\ Len(queue'[l]) = Len(queue[l]) - 1
      /\ \A i \in 1 .. Len(queue'[l]) : queue'[l][i] = queue[l][i + 1]
      /\ \A u \in Threads, m \in Locks : InLine(u, m)' <=> InLine(u, m) /\ ~(u = t /\ m = l)
    BY <1>0, <1>1, LineShrinks, LineType
<1>4. 1 \in 1 .. Len(queue[l]) /\ 1 # Len(queue[l])
    <2>1. 1 \in 1 .. Len(queue[l]) /\ hemTail[l] # t
        BY <1>0, <1>1, <1>3 DEF HemOrder
    <2> QED
        BY <1>0, <1>3, <2>1 DEF HemOrder
<1>5. Len(queue'[l]) > 0
    <2>1. \A k \in Nat \ {0} : 1 # k => k - 1 > 0
        OBVIOUS
    <2> QED
        BY <1>3, <1>4, <2>1
<1>6. \A u \in Threads : /\ pc'[u] = IF u = t THEN "drain" ELSE pc[u]
                         /\ hemGrant'[u] = IF u = t THEN l ELSE hemGrant[u]
    BY <1>0, <1>1 DEF HemPlaces, HemOrder
<1>7. HemPlaces'
    <2>1. /\ pc' \in [Threads -> {"idle", "spin", "clear", "grant", "drain"}]
          /\ arg' \in [Threads -> Locks \cup {Nil}]
          /\ hemPred' \in [Threads -> Threads \cup {Nil}]
        BY <1>0, <1>1 DEF HemPlaces
    <2>2. \A u \in Threads :
              /\ arg'[u] = Nil <=> pc'[u] = "idle"
              /\ hemPred'[u] # Nil <=> pc'[u] \in {"spin", "clear"}
              /\ pc'[u] \in {"spin", "clear", "drain"} => arg'[u] \notin held'[u]
              /\ pc'[u] = "grant" => arg'[u] \in held'[u]
        BY <1>0, <1>1, <1>2, <1>6 DEF HemPlaces
    <2>3. \A u \in Threads, m \in Locks :
              InLine(u, m)' <=> At(u, m, "spin")' \/ At(u, m, "clear")' \/ m \in held'[u]
        BY <1>0, <1>1, <1>2, <1>3, <1>6 DEF HemPlaces, At
    <2> QED
        BY <1>2, <2>1, <2>2, <2>3 DEF HemPlaces
<1>8. /\ queue'[l][1] \in Threads \ {t}
      /\ hemPred[queue'[l][1]] = t
      /\ \A u \in Threads : l \notin held'[u]
    <2> DEFINE j == 1 + 1
    <2>1. 1 \in 1 .. Len(queue'[l]) /\ j \in 1 .. Len(queue[l]) /\ j # 1
        BY <1>3, <1>5
    <2>2. queue'[l][1] = queue[l][j]
        BY <1>3, <2>1
    <2>3. hemPred[queue[l][j]] = t /\ At(queue[l][j], l, "spin")
        BY <1>0, <1>3, <1>4, <2>1 DEF HemOrder
    <2> HIDE DEF j
    <2>4. queue[l][j] \in Threads /\ queue[l][j] # t
        BY <1>0, <1>1, <2>1, <2>3, Members DEF At
    <2>5. \A u \in Threads : l \in held[u] => u = t
        BY <1>0, <1>1, OneHolder
    <2> QED
        BY <1>2, <2>2, <2>3, <2>4, <2>5
<1>9. ASSUME NEW m \in Locks, NEW i \in 1 .. Len(queue'[m])
      PROVE  /\ i = Len(queue'[m]) => hemTail'[m] = queue'[m][i]
             /\ i + 1 \in 1 .. Len(queue'[m]) =>
                    /\ At(queue[m][i + 1], m, "spin")'
                    /\ hemPred'[queue'[m][i + 1]] = queue'[m][i]
             /\ i = 1 /\ m \notin held'[queue'[m][i]] =>
                    /\ At(hemPred[queue[m][i]], m, "drain")'
                    /\ hemGrant'[hemPred'[queue'[m][i]]] = m
    <2>1. CASE m = l
        <3> DEFINE k == i + 1
        <3>1. k \in 1 .. Len(queue[l]) /\ (i = Len(queue'[l]) <=> k = Len(queue[l]))
            BY <1>3, <2>1
        <3>2. queue'[l][i] = queue[l][k]
            BY <1>3, <2>1
        <3>3. ASSUME i + 1 \in 1 .. Len(queue'[l])
              PROVE  k + 1 \in 1 .. Len(queue[l]) /\ queue'[l][i + 1] = queue[l][k + 1]
            BY <1>3, <3>3
        <3> HIDE DEF k
        <3>4. i = Len(queue'[m]) => hemTail'[m] = queue'[m][i]
            BY <1>0, <1>1, <2>1, <3>1, <3>2 DEF HemOrder
        <3>5. ASSUME i + 1 \in 1 .. Len(queue'[m])
              PROVE  /\ At(queue[m][i + 1], m, "spin")'
                     /\ hemPred'[queue'[m][i + 1]] = queue'[m][i]
            <4>1. PICK u \in Threads : u = queue[l][k + 1]
                BY <1>0, <2>1, <3>3, <3>5, Members
            <4>2. At(u, l, "spin") /\ hemPred[u] = queue[l][k]
                BY <1>0, <2>1, <3>1, <3>3, <3>5, <4>1 DEF HemOrder
            <4>3. At(u, l, "spin")' /\ hemPred'[u] = queue'[l][i]
                BY <1>1, <1>6, <3>2, <4>2 DEF At
            <4> QED
                BY <2>1, <3>3, <3>5, <4>1, <4>3 DEF At
        <3>6. i = 1 => /\ At(hemPred[queue[m][i]], m, "drain")'
                       /\ hemGrant'[hemPred'[queue'[m][i]]] = m
            BY <1>1, <1>6, <1>8, <2>1 DEF At
        <3> QED
            BY <3>4, <3>5, <3>6
    <2>2. CASE m # l
        <3>1. /\ queue'[m] = queue[m] /\ i \in 1 .. Len(queue[m])
              /\ queue[m][i] \in Threads /\ InLine(queue[m][i], m)
              /\ m \notin held'[queue[m][i]] => m \notin held[queue[m][i]]
            BY <1>0, <1>2, <1>3, <2>2, Members
        <3>2. i = Len(queue'[m]) => hemTail'[m] = queue'[m][i]
            BY <1>0, <1>1, <3>1 DEF HemOrder
        <3>3. ASSUME i + 1 \in 1 .. Len(queue'[m])
              PROVE  /\ At(queue[m][i + 1], m, "spin")'
                     /\ hemPred'[queue'[m][i + 1]] = queue'[m][i]
            <4>1. PICK u \in Threads : u = queue[m][i + 1]
                BY <1>0, <3>1, <3>3, Members
            <4>2. At(u, m, "spin") /\ hemPred[u] = queue[m][i]
                BY <1>0, <3>1, <3>3, <4>1 DEF HemOrder
            <4>3. At(u, m, "spin")' /\ hemPred'[u] = queue'[m][i]
                BY <1>1, <1>6, <3>1, <4>2 DEF At
            <4> QED
                BY <3>1, <4>1, <4>3 DEF At
        <3>4. ASSUME i = 1, m \notin held'[queue'[m][i]]
              PROVE  /\ At(hemPred[queue[m][i]], m, "drain")'
                     /\ hemGrant'[hemPred'[queue'[m][i]]] = m
            <4>1. PICK u \in Threads : u = queue[m][i] /\ InLine(u, m) /\ m \notin held[u]
                BY <3>1, <3>4
            <4>2. PICK q \in Threads : q = hemPred[u] /\ At(q, m, "drain") /\ hemGrant[q] = m
                <5>1. At(hemPred[u], m, "drain") /\ hemGrant[hemPred[u]] = m
                    BY <1>0, <3>1, <3>4, <4>1 DEF HemOrder
                <5>2. hemPred[u] \in Threads
                    BY <1>0, <4>1 DEF HemPlaces, At
                <5> QED
                    BY <5>1, <5>2
            <4>3. At(q, m, "drain")' /\ hemGrant'[q] = m
                <5>1. q # t
                    BY <1>1, <4>2 DEF At
                <5> QED
                    BY <1>1, <1>6, <4>2, <5>1 DEF At
            <4> QED
                BY <1>1, <3>1, <4>1, <4>2, <4>3 DEF At
        <3> QED
            BY <3>2, <3>3, <3>4
    <2> QED
        BY <2>1, <2>2
<1>10. ASSUME NEW u \in Threads, hemGrant'[u] # Nil
      PROVE  /\ pc'[u] = "drain" /\ hemGrant'[u] = arg'[u]
             /\ Len(queue'[arg'[u]]) > 0
             /\ hemPred'[queue'[arg'[u]][1]] = u
             /\ arg'[u] \notin held'[queue'[arg'[u]][1]]
    <2>1. CASE u = t
        BY <1>1, <1>5, <1>6, <1>8, <2>1
    <2>2. CASE u # t
        <3>1. PICK m \in Locks : hemGrant[u] = m
            BY <1>0, <1>6, <1>10, <2>2 DEF HemOrder
        <3>2. /\ pc[u] = "drain" /\ arg[u] = m
              /\ 1 \in 1 .. Len(queue[m]) /\ queue[m][1] \in Threads
              /\ hemPred[queue[m][1]] = u
              /\ \A x \in Threads : m \notin held[x]
            BY <3>1, HemGranted
        <3>3. m # l
            BY <1>1, <3>2
        <3> QED
            BY <1>1, <1>2, <1>3, <1>6, <2>2, <3>1, <3>2, <3>3
    <2> QED
        BY <2>1, <2>2
<1>11. HemOrder'
    <2>1. /\ hemTail' \in [Locks -> Threads \cup {Nil}]
          /\ hemGrant' \in [Threads -> Locks \cup {Nil}]
        BY <1>0, <1>1 DEF HemOrder
    <2>2. \A m \in Locks : Len(queue'[m]) = 0 => hemTail'[m] = Nil
        BY <1>0, <1>1, <1>3, <1>5 DEF HemOrder
    <2>3. \A u \in Threads : pc'[u] = "grant" => hemTail'[arg'[u]] # u
        BY <1>0, <1>1, <1>6 DEF HemOrder
    <2> QED
        BY <1>9, <1>10, <2>1, <2>2, <2>3 DEF HemOrder, At
<1> QED
    BY <1>2, <1>7, <1>11 DEF HemInv

(* What the runs check of HemLock.                                         *)
LEMMA HemFollows ==
    ASSUME HemInv
    PROVE  Hem!TypeOK /\ Hem!AssertionsHold /\ Hem!GrantHasOneTaker
PROOF
<1>0. HemPlaces /\ HemOrder /\ LineInv
    BY DEF HemInv, HemPlaces
<1>1. Hem!TypeOK
    BY <1>0 DEF Hem!TypeOK, Hem!CallerTypeOK, HemPlaces, HemOrder, LineInv
<1>2. Hem!AssertionsHold
    <2>1. \A t \in Threads : pc[t] = "idle" => hemGrant[t] = Nil
        BY <1>0 DEF HemOrder
    <2>2. ASSUME NEW t \in Threads, NEW l \in held[t]
          PROVE  hemTail[l] # Nil
        <3>1. l \in Locks /\ Len(queue[l]) > 0
            BY <1>0 DEF LineInv
        <3>2. Len(queue[l]) \in 1 .. Len(queue[l])
            BY <1>0, <3>1, LineType
        <3> QED
            BY <1>0, <3>1, <3>2, Members, CallerAssumption DEF HemOrder
    <2> QED
        BY <2>1, <2>2 DEF Hem!AssertionsHold
<1>3. ASSUME NEW t \in Threads, NEW u \in Threads, hemPred[u] = t
      PROVE  /\ arg[u] \in Locks
             /\ At(u, arg[u], "spin") \/ At(u, arg[u], "clear")
             /\ pc[u] = "clear" => hemGrant[t] = arg[u]
    <2>1. pc[u] \in {"spin", "clear"} /\ arg[u] \in Locks
        BY <1>0, <1>3, CallerAssumption DEF HemPlaces
    <2>2. At(u, arg[u], "spin") \/ At(u, arg[u], "clear")
        BY <2>1 DEF At
    <2>3. pc[u] = "clear" => hemGrant[t] = arg[u]
        BY <1>3, <2>1, <2>2, HemBehind
    <2> QED
        BY <2>1, <2>2, <2>3
<1>4. ASSUME NEW t \in Threads, NEW l \in Locks
      PROVE  Cardinality({ u \in Threads : arg[u] = l /\ hemPred[u] = t }) <= 1
    <2> DEFINE behind == { u \in Threads : arg[u] = l /\ hemPred[u] = t }
    <2>1. \A u, v \in behind : u = v
        BY <1>3, HemOneBehind
    <2>2. CASE behind = {}
        BY <2>2, FS_EmptySet
    <2>3. ASSUME NEW u \in behind
          PROVE  Cardinality(behind) <= 1
        <3>1. behind = {u}
            BY <2>1
        <3> HIDE DEF behind
        <3>2. Cardinality(behind) = 1
            BY <3>1, FS_Singleton
        <3> QED
            BY <3>2
    <2> QED
        BY <2>2, <2>3
<1>5. ASSUME NEW t \in Threads, hemGrant[t] # Nil
      PROVE  { u \in Threads : arg[u] = hemGrant[t] /\ hemPred[u] = t }
                 = { Head(queue[hemGrant[t]]) }
    <2>1. PICK l \in Locks : hemGrant[t] = l
        BY <1>0, <1>5 DEF HemOrder
    <2>2. /\ 1 \in 1 .. Len(queue[l]) /\ queue[l][1] \in Threads
          /\ hemPred[queue[l][1]] = t
          /\ At(queue[l][1], l, "spin") \/ At(queue[l][1], l, "clear")
        BY <2>1, HemGranted
    <2>3. Head(queue[l]) = queue[l][1]
        BY <1>0, <2>2, LineType
    <2>4. \A u \in Threads : arg[u] = l /\ hemPred[u] = t => u = queue[l][1]
        BY <1>3, <2>2, HemOneBehind
    <2>5. { u \in Threads : arg[u] = l /\ hemPred[u] = t } = { queue[l][1] }
        BY <2>2, <2>4 DEF At
    <2> QED
        BY <2>1, <2>3, <2>5
<1>6. Hem!GrantHasOneTaker
    BY <1>3, <1>4, <1>5 DEF Hem!GrantHasOneTaker, Hem!Cardinality, Cardinality
<1> QED
    BY <1>1, <1>2, <1>6

(* Every step of HemLock keeps the invariant, and is a step of FifoLock or *)
(* one that FifoLock does not see.                                         *)
LEMMA HemNext ==
    ASSUME HemInv, [Hem!Next]_(Hem!vars)
    PROVE  HemInv' /\ [Fifo!Next]_(Fifo!vars)
PROOF
<1>1. CASE UNCHANGED Hem!vars
    <2>1. UNCHANGED << pc, arg, held, queue >> /\ UNCHANGED Hem!hemVars
        BY <1>1 DEF Hem!vars, Hem!callerVars
    <2>2. UNCHANGED Fifo!vars
        BY <2>1 DEF Fifo!vars, holders
    <2>3. HemInv'
        BY <2>1 DEF HemInv, HemPlaces, HemOrder, LineInv, InLine, At, Hem!hemVars
    <2> QED
        BY <2>2, <2>3
<1>2. ASSUME NEW t \in Threads, NEW l \in Locks,
             Hem!StartAcquire(t, l) \/ Hem!StartRelease(t, l) \/ Hem!Continue(t, l)
      PROVE  HemInv' /\ [Fifo!Next]_(Fifo!vars)
    <2>1. HemInv' /\ (\/ Fifo!Arrive(t, l) \/ Fifo!Take(t, l) \/ Fifo!Enter(t, l) \/ Fifo!Leave(t, l)
                      \/ UNCHANGED Fifo!vars)
        <3>1. CASE Hem!StartAcquire(t, l)
            BY <3>1, HemStartAcquire
        <3>2. CASE Hem!StartRelease(t, l)
            BY <3>2, HemStartRelease
        <3>3. CASE Hem!Spin(t, l)
            BY <3>3, HemSpin
        <3>4. CASE Hem!Clear(t, l)
            BY <3>4, HemClear
        <3>5. CASE Hem!PassOn(t, l)
            BY <3>5, HemPassOn
        <3>6. CASE Hem!Drain(t, l)
            BY <3>6, HemDrain
        <3> QED
            BY <1>2, <3>1, <3>2, <3>3, <3>4, <3>5, <3>6 DEF Hem!Continue
    <2> QED
        BY <2>1 DEF Fifo!Next
<1> QED
    BY <1>1, <1>2 DEF Hem!Next

-----------------------------------------------------------------------------
(***************************************************************************)
(* K42Lock.                                                                *)
(***************************************************************************)

(* Where a thread of K42Lock is before it has the lock, has it but not yet *)
(* put lock_head in the place of its node, and has done so.                *)
K42Coming == {"exchange", "mark", "link", "spin"}
K42Settling == {"check", "clear", "settle", "await", "adopt"}
K42Inside == K42Settling \cup {"delete", "cas", "awaitSuccessor", "wake"}
K42Owning == K42Coming \cup K42Settling \cup {"delete"}

(* Who has passed the exchange on the tail of a K42Lock is in its line,    *)
(* and nobody else.                                                        *)
K42Places ==
    /\ pc \in [Threads -> {"idle"} \cup K42Coming \cup K42Inside]
    /\ arg \in [Threads -> Locks \cup {Nil}]
    /\ LineInv
    /\ \A t \in Threads :
           /\ arg[t] = Nil <=> pc[t] = "idle"
           /\ pc[t] \in K42Coming => arg[t] \notin held[t]
           /\ pc[t] \in K42Inside => arg[t] \in held[t]
    /\ \A t \in Threads, l \in Locks :
           InLine(t, l) <=>
               At(t, l, "mark") \/ At(t, l, "link") \/ At(t, l, "spin") \/ l \in held[t]

(* Who has a node of its own, and which: a thread may have several locks,  *)
(* but a node only while it acquires one.                                  *)
K42Owners ==
    /\ k42I \in [Threads -> Addresses \cup {Nil}]
    /\ \A t \in Threads :
           k42I[t] # Nil <=> pc[t] \in K42Owning
    /\ k42Live = { k42I[t] : t \in Threads } \ {Nil}
    /\ \A t, u \in Threads : k42I[t] # Nil /\ k42I[t] = k42I[u] => t = u

(* t has the lock, and lock_head in the place of its node.                 *)
K42Settled(t, l) == l \in held[t] /\ ~(arg[t] = l /\ pc[t] \in K42Settling)

(* The node that stands for t in the line at l.                            *)
K42Node(t, l) == IF K42Settled(t, l) THEN l ELSE k42I[t]

(* The node of t is linked to that of u behind it, or about to be.         *)
K42Linked(t, u, l) ==
    \/ k42Next[K42Node(t, l)] = k42I[u] /\ pc[u] \notin {"mark", "link"}
    \/ /\ k42Next[K42Node(t, l)] = Nil /\ pc[u] \in {"mark", "link"}
       /\ k42Predecessor[u] = K42Node(t, l)

(* The memory: a node that is not allocated has no link.                   *)
K42Memories ==
    /\ k42Tail \in [Locks -> Addresses \cup Locks \cup {Nil}]
    /\ k42Next \in [Addresses \cup Locks -> Addresses \cup {Nil}]
    /\ k42Locked \in [Addresses -> BOOLEAN]
    /\ k42Predecessor \in [Threads -> Addresses \cup Locks \cup {Nil}]
    /\ \A n \in Addresses \ k42Live : k42Next[n] = Nil

(* What t has found out by the place it is at still holds.                 *)
K42Knows(t) ==
    /\ pc[t] = "exchange" => k42Next[k42I[t]] = Nil
    /\ pc[t] = "link" => k42Locked[k42I[t]]
    /\ pc[t] = "settle" => k42Next[arg[t]] = Nil
    /\ pc[t] = "adopt" => k42Next[k42I[t]] # Nil
    /\ pc[t] = "wake" => k42Next[arg[t]] # Nil

K42Found == \A t \in Threads : K42Knows(t)

(* The nodes that stand for the threads in line, lock_head among them once *)
(* the first has settled, are linked in the order of the line up to the    *)
(* windows; only the first may find its node unlocked.                     *)
K42InOrder(l, i) ==
    /\ i = Len(queue[l]) =>
           /\ k42Tail[l] = K42Node(queue[l][i], l)
           /\ k42Next[K42Node(queue[l][i], l)] = Nil
    /\ i + 1 \in 1 .. Len(queue[l]) => K42Linked(queue[l][i], queue[l][i + 1], l)
    /\ arg[queue[l][i]] = l /\ pc[queue[l][i]] \in {"mark", "link"} => i # 1
    /\ arg[queue[l][i]] = l /\ pc[queue[l][i]] = "spin" /\ i # 1 =>
           k42Locked[k42I[queue[l][i]]]

K42Line(l) ==
    /\ Len(queue[l]) = 0 => k42Tail[l] = Nil
    /\ \A i \in 1 .. Len(queue[l]) : K42InOrder(l, i)

(* What the fields of K42Lock are by the line and by the places the        *)
(* threads are at.                                                         *)
K42Order == K42Memories /\ K42Found /\ \A l \in Locks : K42Line(l)

K42Inv == K42Places /\ K42Owners /\ K42Order

(* Nobody is anywhere to begin with.                                       *)
LEMMA K42Initially ==
    ASSUME CallerInit, K42!K42Init
    PROVE  K42Inv
PROOF
<1>1. \A t \in Threads : pc[t] = "idle" /\ arg[t] = Nil /\ held[t] = {} /\ k42I[t] = Nil
    BY DEF CallerInit, K42!K42Init
<1>2. \A l \in Locks : Len(queue[l]) = 0
    BY LinesEmpty
<1>3. K42Places
    <2>1. pc \in [Threads -> {"idle"} \cup K42Coming \cup K42Inside]
        BY DEF CallerInit
    <2>2. arg \in [Threads -> Locks \cup {Nil}]
        BY DEF CallerInit
    <2>3. \A t \in Threads : pc[t] \notin K42Coming /\ pc[t] \notin K42Inside
        BY <1>1 DEF K42Coming, K42Inside, K42Settling
    <2> QED
        BY <1>1, <2>1, <2>2, <2>3, LinesEmpty DEF K42Places, At
<1>4. K42Owners
    BY <1>1 DEF K42Owners, K42!K42Init, K42Owning, K42Coming, K42Settling
<1>5. K42Memories
    BY <1>1, <1>4 DEF K42Memories, K42Owners, K42!K42Init
<1>6. K42Found
    BY <1>1 DEF K42Found, K42Knows
<1>7. ASSUME NEW l \in Locks
      PROVE  K42Line(l)
    <2>1. k42Tail[l] = Nil
        BY DEF K42!K42Init
    <2>2. ~(\E i \in 1 .. Len(queue[l]) : TRUE)
        BY <1>2
    <2> QED
        BY <2>1, <2>2 DEF K42Line
<1> QED
    BY <1>3, <1>4, <1>5, <1>6, <1>7 DEF K42Inv, K42Order

(* Who is in a line without the lock waits for it; behind the first there  *)
(* are only threads that wait.                                             *)
LEMMA K42InLine ==
    ASSUME K42Places
    PROVE  /\ \A t \in Threads, l \in Locks :
                  InLine(t, l) /\ l \notin held[t] =>
                      pc[t] \in {"mark", "link", "spin"} /\ arg[t] = l
           /\ \A t \in Threads :
                  pc[t] \in {"mark", "link", "spin"} =>
                      arg[t] \in Locks /\ InLine(t, arg[t]) /\ arg[t] \notin held[t]
           /\ \A t \in Threads, l \in Locks : l \in held[t] => InLine(t, l)
           /\ \A l \in Locks : \A i \in 1 .. Len(queue[l]) :
                  i # 1 => l \notin held[queue[l][i]]
PROOF
<1>1. \A t \in Threads, l \in Locks :
          InLine(t, l) /\ l \notin held[t] =>
              pc[t] \in {"mark", "link", "spin"} /\ arg[t] = l
    BY DEF K42Places, At
<1>2. \A t \in Threads, l \in Locks : l \in held[t] => InLine(t, l)
    BY DEF K42Places
<1>3. ASSUME NEW t \in Threads, pc[t] \in {"mark", "link", "spin"}
      PROVE  arg[t] \in Locks /\ InLine(t, arg[t]) /\ arg[t] \notin held[t]
    <2>1. arg[t] \in Locks /\ arg[t] \notin held[t]
        BY <1>3 DEF K42Places, K42Coming
    <2> QED
        BY <1>3, <2>1 DEF K42Places, At
<1>4. ASSUME NEW l \in Locks, NEW i \in 1 .. Len(queue[l]), i # 1
      PROVE  l \notin held[queue[l][i]]
    <2>1. 1 \in 1 .. Len(queue[l]) /\ queue[l][i] \in Threads
        BY <1>4, Members, LineType DEF K42Places
    <2> QED
        BY <1>4, <2>1 DEF K42Places, LineInv
<1> QED
    BY <1>1, <1>2, <1>3, <1>4

(* Who has the lock is the first in its line.                              *)
LEMMA K42First ==
    ASSUME K42Places, NEW t \in Threads, NEW l \in Locks, l \in held[t]
    PROVE  /\ Len(queue[l]) \in Nat \ {0} /\ 1 \in 1 .. Len(queue[l])
           /\ queue[l][1] = t /\ InLine(t, l)
           /\ \A i \in 1 .. Len(queue[l]) : queue[l][i] = t <=> i = 1
PROOF
<1>0. LineInv
    BY DEF K42Places
<1>1. Len(queue[l]) \in Nat /\ Len(queue[l]) > 0 /\ queue[l][1] = t
    BY <1>0, LineType DEF LineInv
<1>2. Len(queue[l]) \in Nat \ {0} /\ 1 \in 1 .. Len(queue[l])
    BY <1>1
<1>3. \A a, b \in 1 .. Len(queue[l]) : queue[l][a] = queue[l][b] => a = b
    BY <1>0 DEF LineInv
<1> QED
    BY <1>1, <1>2, <1>3, K42InLine

(* The nodes of K42Lock.                                                   *)
LEMMA K42Memory == Addresses \cap Locks = {} /\ Nil \notin Addresses /\ Nil \notin Locks
PROOF
    BY LocksAssumption, CallerAssumption DEF K42!K42Assumption

(* The node that stands for a thread in line is the lock's own, or is      *)
(* allocated for the call that the thread is in.                           *)
LEMMA K42NodeOf ==
    ASSUME K42Places, K42Owners, NEW t \in Threads, NEW l \in Locks, InLine(t, l)
    PROVE  /\ K42Node(t, l) \in Addresses \cup Locks
           /\ \/ K42Node(t, l) = l /\ K42Settled(t, l)
              \/ /\ K42Node(t, l) = k42I[t] /\ k42I[t] \in Addresses /\ k42I[t] \in k42Live
                 /\ ~K42Settled(t, l) /\ arg[t] = l
           /\ \A m \in Locks : K42Node(t, l) = m => m = l
PROOF
<1>1. CASE K42Settled(t, l)
    BY <1>1, K42Memory DEF K42Node
<1>2. CASE ~K42Settled(t, l)
    <2>1. K42Node(t, l) = k42I[t]
        BY <1>2 DEF K42Node
    <2>2. pc[t] \in K42Coming \cup K42Settling /\ arg[t] = l
        BY <1>2, K42InLine DEF K42Coming, K42Settled
    <2>3. k42I[t] \in Addresses /\ k42I[t] \in k42Live
        BY <2>2 DEF K42Owners, K42Owning
    <2> QED
        BY <1>2, <2>1, <2>2, <2>3, K42Memory
<1> QED
    BY <1>1, <1>2

(* No node stands for two threads, or for one thread in two lines.         *)
LEMMA K42Apart ==
    ASSUME K42Places, K42Owners, NEW t \in Threads, NEW u \in Threads,
           NEW l \in Locks, NEW m \in Locks,
           InLine(t, l), InLine(u, m), K42Node(t, l) = K42Node(u, m)
    PROVE  t = u /\ l = m
PROOF
<1>1. /\ \/ K42Node(t, l) = l /\ l \in held[t]
         \/ K42Node(t, l) = k42I[t] /\ k42I[t] \in Addresses /\ arg[t] = l
      /\ \A k \in Locks : K42Node(t, l) = k => k = l
    BY K42NodeOf DEF K42Settled
<1>2. /\ \/ K42Node(u, m) = m /\ m \in held[u]
         \/ K42Node(u, m) = k42I[u] /\ k42I[u] \in Addresses /\ arg[u] = m
      /\ \A k \in Locks : K42Node(u, m) = k => k = m
    BY K42NodeOf DEF K42Settled
<1>3. CASE K42Node(t, l) = l
    <2>1. m = l
        BY <1>2, <1>3
    <2>2. K42Node(t, l) \notin Addresses
        BY <1>3, K42Memory
    <2>3. l \in held[t] /\ l \in held[u]
        BY <1>1, <1>2, <2>1, <2>2
    <2>4. LineInv
        BY DEF K42Places
    <2> QED
        BY <2>1, <2>3, <2>4, OneHolder
<1>4. CASE K42Node(t, l) # l
    <2>1. K42Node(t, l) = k42I[t] /\ k42I[t] \in Addresses /\ arg[t] = l
        BY <1>1, <1>4
    <2>2. K42Node(u, m) = k42I[u] /\ arg[u] = m
        BY <1>2, <2>1, K42Memory
    <2>3. t = u
        BY <2>1, <2>2, K42Memory DEF K42Owners
    <2> QED
        BY <2>1, <2>2, <2>3
<1> QED
    BY <1>3, <1>4

-----------------------------------------------------------------------------
(* A step that does not change what x is in the line at l.                 *)
K42Still(x, l) ==
    /\ K42Node(x, l)' = K42Node(x, l)
    /\ k42Next'[K42Node(x, l)] = k42Next[K42Node(x, l)]
    /\ l \notin held[x] =>
           /\ k42I'[x] = k42I[x] /\ k42Predecessor'[x] = k42Predecessor[x]
           /\ pc'[x] \in {"mark", "link"} <=> pc[x] \in {"mark", "link"}
    /\ arg'[x] = l /\ pc'[x] \in {"mark", "link"} =>
           arg[x] = l /\ pc[x] \in {"mark", "link"}
    /\ arg'[x] = l /\ pc'[x] = "spin" =>
           /\ arg[x] = l /\ pc[x] = "spin" /\ k42I'[x] = k42I[x]
           /\ k42Locked'[k42I[x]] = k42Locked[k42I[x]]

(* Such a step for everybody in the line leaves it in order.               *)
LEMMA K42LineStays ==
    ASSUME K42Places, NEW l \in Locks, K42Line(l),
           queue'[l] = queue[l], k42Tail'[l] = k42Tail[l],
           \A x \in Threads : InLine(x, l) => K42Still(x, l)
    PROVE  K42Line(l)'
PROOF
<1>0. LineInv
    BY DEF K42Places
<1>1. ASSUME NEW i \in 1 .. Len(queue[l])
      PROVE  K42InOrder(l, i)'
    <2>1. PICK x \in Threads : x = queue[l][i] /\ InLine(x, l)
        BY <1>0, Members
    <2>2. /\ i = Len(queue[l]) => k42Tail[l] = K42Node(x, l) /\ k42Next[K42Node(x, l)] = Nil
          /\ i + 1 \in 1 .. Len(queue[l]) => K42Linked(x, queue[l][i + 1], l)
          /\ arg[x] = l /\ pc[x] \in {"mark", "link"} => i # 1
          /\ arg[x] = l /\ pc[x] = "spin" /\ i # 1 => k42Locked[k42I[x]]
        BY <2>1 DEF K42Line, K42InOrder
    <2>3. K42Still(x, l)
        BY <2>1
    <2>4. x = queue'[l][i]
        BY <2>1
    <2>5. K42Node(queue[l][i], l)' = K42Node(x, l)
        <3>1. K42Node(queue[l][i], l)' = K42Node(x, l)'
            BY <2>4 DEF K42Node, K42Settled
        <3> QED
            BY <2>3, <3>1 DEF K42Still
    <2>6. i = Len(queue'[l]) =>
              /\ k42Tail'[l] = K42Node(queue[l][i], l)'
              /\ k42Next'[K42Node(queue[l][i], l)'] = Nil
        BY <2>2, <2>3, <2>5 DEF K42Still
    <2>7. ASSUME i + 1 \in 1 .. Len(queue[l])
          PROVE  K42Linked(queue[l][i], queue[l][i + 1], l)'
        <3> DEFINE j == i + 1
        <3>1. j \in 1 .. Len(queue[l]) /\ j # 1 /\ K42Linked(x, queue[l][j], l)
            BY <2>2, <2>7
        <3> HIDE DEF j
        <3>2. PICK y \in Threads : y = queue[l][j] /\ InLine(y, l) /\ l \notin held[y]
            BY <1>0, <3>1, Members, K42InLine
        <3>3. /\ k42I'[y] = k42I[y] /\ k42Predecessor'[y] = k42Predecessor[y]
              /\ pc'[y] \in {"mark", "link"} <=> pc[y] \in {"mark", "link"}
            BY <3>2 DEF K42Still
        <3>4. K42Linked(x, y, l)
            BY <3>1, <3>2
        <3>5. K42Linked(x, y, l)'
            BY <2>3, <3>3, <3>4 DEF K42Linked, K42Still
        <3>6. y = queue'[l][j]
            BY <3>2
        <3> QED
            BY <2>4, <3>5, <3>6 DEF j
    <2>8. /\ arg'[x] = l /\ pc'[x] \in {"mark", "link"} => i # 1
          /\ arg'[x] = l /\ pc'[x] = "spin" /\ i # 1 => k42Locked'[k42I'[x]]
        BY <2>2, <2>3 DEF K42Still
    <2> QED
        BY <2>4, <2>6, <2>7, <2>8 DEF K42InOrder
<1>2. Len(queue'[l]) = 0 => k42Tail'[l] = Nil
    BY DEF K42Line
<1> QED
    BY <1>1, <1>2 DEF K42Line

(* A step of t at l, as the other locks and threads see it.                *)
K42Aside(t, l) ==
    /\ arg[t] \in {l, Nil} /\ arg'[t] \in {l, Nil}
    /\ \A u \in Threads \ {t} :
           /\ pc'[u] = pc[u] /\ arg'[u] = arg[u]
           /\ k42I'[u] = k42I[u] /\ k42Predecessor'[u] = k42Predecessor[u]
           /\ pc[u] = "spin" /\ arg[u] # l => k42Locked'[k42I[u]] = k42Locked[k42I[u]]
    /\ \A u \in Threads, m \in Locks \ {l} : m \in held'[u] <=> m \in held[u]
    /\ \A m \in Locks \ {l} : queue'[m] = queue[m] /\ k42Tail'[m] = k42Tail[m]
    /\ \A u \in Threads, m \in Locks \ {l} :
           InLine(u, m) => k42Next'[K42Node(u, m)] = k42Next[K42Node(u, m)]

(* The lines at the other locks, those that t has among them, stay in      *)
(* order.                                                                  *)
LEMMA K42OtherLines ==
    ASSUME K42Inv, NEW t \in Threads, NEW l \in Locks, K42Aside(t, l)
    PROVE  \A m \in Locks \ {l} : K42Line(m)'
PROOF
<1>0. K42Places /\ K42Order
    BY DEF K42Inv
<1> SUFFICES ASSUME NEW m \in Locks \ {l}
             PROVE  K42Line(m)'
    OBVIOUS
<1>1. ASSUME NEW x \in Threads, InLine(x, m)
      PROVE  K42Still(x, m)
    <2>1. CASE x # t
        <3>1. K42Node(x, m)' = K42Node(x, m)
            BY <2>1 DEF K42Aside, K42Node, K42Settled
        <3> QED
            BY <1>1, <2>1, <3>1 DEF K42Aside, K42Still
    <2>2. CASE x = t
        <3>1. arg[t] # m /\ arg'[t] # m /\ m \in held[t] /\ m \in held'[t]
            BY <1>0, <1>1, <2>2, K42InLine, K42Memory DEF K42Aside
        <3>2. K42Node(x, m)' = K42Node(x, m)
            BY <2>2, <3>1 DEF K42Node, K42Settled
        <3> QED
            BY <1>1, <2>2, <3>1, <3>2 DEF K42Aside, K42Still
    <2> QED
        BY <2>1, <2>2
<1>2. K42Line(m) /\ queue'[m] = queue[m] /\ k42Tail'[m] = k42Tail[m]
    BY <1>0 DEF K42Order, K42Aside
<1> QED
    BY <1>0, <1>1, <1>2, K42LineStays

-----------------------------------------------------------------------------
(* A thread that has the lock goes on inside its call, or leaves it.       *)
K42Going(t, l, place) ==
    /\ place \in K42Inside \cup {"idle"}
    /\ l \in held[t] /\ Stay
    /\ pc[t] = "idle" \/ (pc[t] \in K42Inside /\ arg[t] = l)
    /\ pc' = [pc EXCEPT ![t] = place]
    /\ arg' = [arg EXCEPT ![t] = IF place = "idle" THEN Nil ELSE l]

LEMMA K42Goes ==
    ASSUME K42Places, NEW t \in Threads, NEW l \in Locks, NEW place, K42Going(t, l, place)
    PROVE  /\ K42Places' /\ UNCHANGED Fifo!vars
           /\ held' = held /\ queue' = queue
           /\ arg[t] \in {l, Nil} /\ arg'[t] \in {l, Nil}
           /\ \A u \in Threads :
                  /\ pc'[u] = IF u = t THEN place ELSE pc[u]
                  /\ arg'[u] = IF u = t THEN (IF place = "idle" THEN Nil ELSE l) ELSE arg[u]
PROOF
<1>0. /\ place \in K42Inside \cup {"idle"}
      /\ l \in held[t] /\ pc[t] \in K42Inside \cup {"idle"} /\ Stay
      /\ pc[t] = "idle" \/ arg[t] = l
      /\ pc' = [pc EXCEPT ![t] = place]
      /\ arg' = [arg EXCEPT ![t] = IF place = "idle" THEN Nil ELSE l]
    BY DEF K42Going
<1>1. LineInv
    BY DEF K42Places
<1>2. /\ LineInv' /\ UNCHANGED Fifo!vars
      /\ \A u \in Threads, m \in Locks : InLine(u, m)' <=> InLine(u, m)
    BY <1>0, <1>1, StayStep
<1>3. held' = held /\ queue' = queue
    BY <1>0 DEF Stay
<1>4. \A u \in Threads :
          /\ pc'[u] = IF u = t THEN place ELSE pc[u]
          /\ arg'[u] = IF u = t THEN (IF place = "idle" THEN Nil ELSE l) ELSE arg[u]
    BY <1>0 DEF K42Places
<1>5. /\ place \notin K42Coming /\ pc[t] \notin K42Coming
      /\ place = "idle" => place \notin K42Inside
    BY <1>0 DEF K42Coming, K42Inside, K42Settling
<1>6. arg[t] \in {l, Nil} /\ arg'[t] \in {l, Nil}
    BY <1>0, <1>4 DEF K42Places
<1>7. /\ pc' \in [Threads -> {"idle"} \cup K42Coming \cup K42Inside]
      /\ arg' \in [Threads -> Locks \cup {Nil}]
    BY <1>0 DEF K42Places
<1>8. \A u \in Threads :
          /\ arg'[u] = Nil <=> pc'[u] = "idle"
          /\ pc'[u] \in K42Coming => arg'[u] \notin held'[u]
          /\ pc'[u] \in K42Inside => arg'[u] \in held'[u]
    BY <1>0, <1>3, <1>4, <1>5, CallerAssumption DEF K42Places
<1>9. \A u \in Threads, m \in Locks :
          InLine(u, m)' <=>
              At(u, m, "mark")' \/ At(u, m, "link")' \/ At(u, m, "spin")' \/ m \in held'[u]
    BY <1>0, <1>2, <1>3, <1>4, <1>5 DEF K42Places, At, K42Coming
<1> QED
    BY <1>2, <1>3, <1>4, <1>6, <1>7, <1>8, <1>9 DEF K42Places

(* A step of a thread that has the lock and that writes nothing to memory. *)
LEMMA K42Quiet ==
    ASSUME K42Inv, NEW t \in Threads, NEW l \in Locks, NEW place \in K42Inside,
           K42Going(t, l, place), UNCHANGED k42Fields,
           place \in K42Owning <=> pc[t] \in K42Owning,
           place \in K42Settling <=> pc[t] \in K42Settling,
           place = "settle" => k42Next[l] = Nil,
           place = "adopt" => k42Next[k42I[t]] # Nil,
           place = "wake" => k42Next[l] # Nil
    PROVE  K42Inv' /\ UNCHANGED Fifo!vars
PROOF
<1>0. K42Places /\ K42Owners /\ K42Order
    BY DEF K42Inv
<1>1. place # "idle" /\ place \notin K42Coming
    BY DEF K42Inside, K42Settling, K42Coming
<1>2. /\ K42Places' /\ UNCHANGED Fifo!vars
      /\ held' = held /\ queue' = queue
      /\ arg[t] \in {l, Nil} /\ arg'[t] \in {l, Nil}
      /\ \A u \in Threads :
             /\ pc'[u] = IF u = t THEN place ELSE pc[u]
             /\ arg'[u] = IF u = t THEN (IF place = "idle" THEN Nil ELSE l) ELSE arg[u]
    BY <1>0, K42Goes
<1>3. /\ k42Tail' = k42Tail /\ k42Next' = k42Next /\ k42Locked' = k42Locked
      /\ k42Live' = k42Live /\ k42I' = k42I /\ k42Predecessor' = k42Predecessor
    BY DEF k42Fields
<1>4. /\ l \in held[t] /\ l \in held'[t] /\ arg'[t] = l
      /\ pc[t] \in K42Settling => arg[t] = l
    <2>1. "idle" \notin K42Settling
        BY DEF K42Settling
    <2> QED
        BY <1>1, <1>2, <2>1 DEF K42Going
<1>5. K42Owners'
    BY <1>0, <1>2, <1>3 DEF K42Owners
<1>6. K42Memories'
    BY <1>0, <1>3 DEF K42Order, K42Memories
<1>7. K42Found'
    BY <1>0, <1>1, <1>2, <1>3, <1>4 DEF K42Order, K42Found, K42Knows, K42Coming
<1>8. \A m \in Locks \ {l} : K42Line(m)'
    BY <1>2, <1>3, K42OtherLines DEF K42Aside
<1>9. K42Line(l)'
    <2>1. ASSUME NEW x \in Threads, InLine(x, l)
          PROVE  K42Still(x, l)
        <3>1. CASE x # t
            BY <1>2, <1>3, <3>1 DEF K42Still, K42Node, K42Settled
        <3>2. CASE x = t
            <4>1. K42Node(x, l)' = K42Node(x, l)
                BY <1>2, <1>3, <1>4, <3>2 DEF K42Node, K42Settled
            <4> QED
                BY <1>1, <1>2, <1>3, <1>4, <3>2, <4>1 DEF K42Still, K42Coming
        <3> QED
            BY <3>1, <3>2
    <2> QED
        BY <1>0, <1>2, <1>3, <2>1, K42LineStays DEF K42Order
<1> QED
    BY <1>2, <1>5, <1>6, <1>7, <1>8, <1>9 DEF K42Inv, K42Order

(* The steps that read next or tail and find something to wait for, or see *)
(* that there is nothing to wait for.                                      *)
LEMMA K42Reads ==
    ASSUME K42Inv, NEW t \in Threads, NEW l \in Locks,
           \/ K42!Check(t, l)
           \/ K42!AwaitLink(t, l)
           \/ K42!StartRelease(t, l)
           \/ K42!AwaitSuccessor(t, l)
           \/ K42!Settle(t, l) /\ k42Tail[l] # k42I[t]
           \/ K42!CompareExchange(t, l) /\ k42Tail[l] # l
    PROVE  K42Inv' /\ UNCHANGED Fifo!vars
PROOF
<1>0. K42Places
    BY DEF K42Inv
<1>1. ASSUME NEW old \in K42Inside, At(t, l, old), Stay, UNCHANGED arg,
             NEW place \in K42Inside, pc' = [pc EXCEPT ![t] = place]
      PROVE  pc[t] = old /\ K42Going(t, l, place)
    <2>1. place # "idle"
        BY DEF K42Inside, K42Settling
    <2>2. l \in held[t] /\ arg' = [arg EXCEPT ![t] = l]
        BY <1>0, <1>1 DEF K42Places, At
    <2> QED
        BY <1>1, <2>1, <2>2 DEF At, K42Going
<1>2. CASE K42!Check(t, l)
    <2> DEFINE place == IF k42Next[k42I[t]] = Nil THEN "clear" ELSE "adopt"
    <2>1. /\ At(t, l, "check") /\ pc' = [pc EXCEPT ![t] = place] /\ UNCHANGED arg
          /\ Stay /\ UNCHANGED k42Fields
        BY <1>2 DEF K42!Check, K42!At, At, K42!Goto, K42!Stay, Stay, K42!k42Vars, k42Fields
    <2>2. /\ "check" \in K42Inside /\ "check" \in K42Owning /\ "check" \in K42Settling
          /\ place \in K42Inside /\ place \in K42Owning /\ place \in K42Settling
          /\ place # "settle" /\ place # "wake"
          /\ place = "adopt" => k42Next[k42I[t]] # Nil
        BY DEF K42Inside, K42Settling, K42Owning
    <2> HIDE DEF place
    <2>3. pc[t] = "check" /\ K42Going(t, l, place)
        BY <1>1, <2>1, <2>2
    <2> QED
        BY <2>1, <2>2, <2>3, K42Quiet
<1>3. CASE K42!AwaitLink(t, l)
    <2>1. /\ At(t, l, "await") /\ pc' = [pc EXCEPT ![t] = "adopt"] /\ UNCHANGED arg
          /\ Stay /\ UNCHANGED k42Fields /\ k42Next[k42I[t]] # Nil
        BY <1>3 DEF K42!AwaitLink, K42!At, At, K42!Goto, K42!Stay, Stay, K42!k42Vars,
                    k42Fields
    <2>2. /\ "await" \in K42Inside /\ "await" \in K42Owning /\ "await" \in K42Settling
          /\ "adopt" \in K42Inside /\ "adopt" \in K42Owning /\ "adopt" \in K42Settling
        BY DEF K42Inside, K42Settling, K42Owning
    <2>3. pc[t] = "await" /\ K42Going(t, l, "adopt")
        BY <1>1, <2>1, <2>2
    <2> QED
        BY <2>1, <2>2, <2>3, K42Quiet
<1>4. CASE K42!StartRelease(t, l)
    <2> DEFINE place == IF k42Next[l] = Nil THEN "cas" ELSE "wake"
    <2>1. /\ pc[t] = "idle" /\ l \in held[t] /\ pc' = [pc EXCEPT ![t] = place]
          /\ arg' = [arg EXCEPT ![t] = l] /\ Stay /\ UNCHANGED k42Fields
        BY <1>4 DEF K42!StartRelease, K42!BeginRelease, K42!Stay, Stay, K42!k42Vars,
                    k42Fields
    <2>2. /\ "idle" \notin K42Owning /\ "idle" \notin K42Settling
          /\ place \in K42Inside /\ place \notin K42Owning /\ place \notin K42Settling
          /\ place # "settle" /\ place # "adopt" /\ place # "idle"
          /\ place = "wake" => k42Next[l] # Nil
        BY DEF K42Inside, K42Settling, K42Owning, K42Coming
    <2> HIDE DEF place
    <2>3. K42Going(t, l, place)
        BY <2>1, <2>2 DEF K42Going
    <2> QED
        BY <2>1, <2>2, <2>3, K42Quiet
<1>5. CASE K42!AwaitSuccessor(t, l)
    <2>1. /\ At(t, l, "awaitSuccessor") /\ pc' = [pc EXCEPT ![t] = "wake"] /\ UNCHANGED arg
          /\ Stay /\ UNCHANGED k42Fields /\ k42Next[l] # Nil
        BY <1>5 DEF K42!AwaitSuccessor, K42!At, At, K42!Goto, K42!Stay, Stay, K42!k42Vars,
                    k42Fields
    <2>2. /\ "awaitSuccessor" \in K42Inside /\ "awaitSuccessor" \notin K42Owning
          /\ "awaitSuccessor" \notin K42Settling
          /\ "wake" \in K42Inside /\ "wake" \notin K42Owning /\ "wake" \notin K42Settling
        BY DEF K42Inside, K42Settling, K42Owning, K42Coming
    <2>3. pc[t] = "awaitSuccessor" /\ K42Going(t, l, "wake")
        BY <1>1, <2>1, <2>2
    <2> QED
        BY <2>1, <2>2, <2>3, K42Quiet
<1>6. CASE K42!Settle(t, l) /\ k42Tail[l] # k42I[t]
    <2>1. /\ At(t, l, "settle") /\ pc' = [pc EXCEPT ![t] = "await"] /\ UNCHANGED arg
          /\ Stay /\ UNCHANGED k42Fields
        BY <1>6 DEF K42!Settle, K42!At, At, K42!Goto, K42!Stay, Stay, k42Fields
    <2>2. /\ "settle" \in K42Inside /\ "settle" \in K42Owning /\ "settle" \in K42Settling
          /\ "await" \in K42Inside /\ "await" \in K42Owning /\ "await" \in K42Settling
        BY DEF K42Inside, K42Settling, K42Owning
    <2>3. pc[t] = "settle" /\ K42Going(t, l, "await")
        BY <1>1, <2>1, <2>2
    <2> QED
        BY <2>1, <2>2, <2>3, K42Quiet
<1>7. CASE K42!CompareExchange(t, l) /\ k42Tail[l] # l
    <2>1. /\ At(t, l, "cas") /\ pc' = [pc EXCEPT ![t] = "awaitSuccessor"] /\ UNCHANGED arg
          /\ Stay /\ UNCHANGED k42Fields
        BY <1>7 DEF K42!CompareExchange, K42!At, At, K42!Goto, K42!Stay, Stay, k42Fields
    <2>2. /\ "cas" \in K42Inside /\ "cas" \notin K42Owning /\ "cas" \notin K42Settling
          /\ "awaitSuccessor" \in K42Inside /\ "awaitSuccessor" \notin K42Owning
          /\ "awaitSuccessor" \notin K42Settling
        BY DEF K42Inside, K42Settling, K42Owning, K42Coming
    <2>3. pc[t] = "cas" /\ K42Going(t, l, "awaitSuccessor")
        BY <1>1, <2>1, <2>2
    <2> QED
        BY <2>1, <2>2, <2>3, K42Quiet
<1> QED
    BY <1>2, <1>3, <1>4, <1>5, <1>6, <1>7

(* A node is allocated for a thread that is not in the line.               *)
LEMMA K42StartAcquire ==
    ASSUME K42Inv, NEW t \in Threads, NEW l \in Locks, K42!StartAcquire(t, l)
    PROVE  K42Inv' /\ UNCHANGED Fifo!vars
PROOF
<1>0. K42Places /\ K42Owners /\ K42Order /\ LineInv
    BY DEF K42Inv, K42Places
<1>1. PICK n \in Addresses \ k42Live :
          /\ pc[t] = "idle" /\ \A m \in held[t] : m < l
          /\ pc' = [pc EXCEPT ![t] = "exchange"] /\ arg' = [arg EXCEPT ![t] = l]
          /\ k42Live' = k42Live \cup {n} /\ k42I' = [k42I EXCEPT ![t] = n]
          /\ Stay /\ held' = held /\ queue' = queue
          /\ k42Tail' = k42Tail /\ k42Next' = k42Next /\ k42Locked' = k42Locked
          /\ k42Predecessor' = k42Predecessor
    BY DEF K42!StartAcquire, K42!BeginAcquire, K42!MayAcquire, K42!Stay, Stay
<1>2. l \notin held[t] /\ arg[t] = Nil /\ ~InLine(t, l)
    BY <1>0, <1>1, CallerAssumption DEF K42Places, At
<1>3. /\ LineInv' /\ UNCHANGED Fifo!vars
      /\ \A u \in Threads, m \in Locks : InLine(u, m)' <=> InLine(u, m)
    BY <1>0, <1>1, StayStep
<1>4. \A u \in Threads : /\ pc'[u] = IF u = t THEN "exchange" ELSE pc[u]
                         /\ arg'[u] = IF u = t THEN l ELSE arg[u]
    BY <1>0, <1>1 DEF K42Places
<1>5. \A u \in Threads : k42I'[u] = IF u = t THEN n ELSE k42I[u]
    BY <1>0, <1>1 DEF K42Owners
<1>6. K42Places'
    <2>1. pc' \in [Threads -> {"idle"} \cup K42Coming \cup K42Inside]
        BY <1>0, <1>1 DEF K42Places, K42Coming
    <2>2. arg' \in [Threads -> Locks \cup {Nil}]
        BY <1>0, <1>1 DEF K42Places
    <2>3. \A u \in Threads :
              /\ arg'[u] = Nil <=> pc'[u] = "idle"
              /\ pc'[u] \in K42Coming => arg'[u] \notin held'[u]
              /\ pc'[u] \in K42Inside => arg'[u] \in held'[u]
        BY <1>0, <1>1, <1>2, <1>4, CallerAssumption DEF K42Places, K42Inside, K42Settling
    <2>4. \A u \in Threads, m \in Locks :
              InLine(u, m)' <=>
                  At(u, m, "mark")' \/ At(u, m, "link")' \/ At(u, m, "spin")' \/ m \in held'[u]
        BY <1>0, <1>1, <1>2, <1>3, <1>4 DEF K42Places, At
    <2> QED
        BY <1>3, <2>1, <2>2, <2>3, <2>4 DEF K42Places
<1>7. K42Owners'
    <2>1. k42I' \in [Threads -> Addresses \cup {Nil}]
        BY <1>0, <1>1 DEF K42Owners
    <2>2. k42I[t] = Nil /\ n # Nil
        BY <1>0, <1>1, K42Memory DEF K42Owners, K42Owning, K42Coming, K42Settling
    <2>3. \A u \in Threads : k42I'[u] # Nil <=> pc'[u] \in K42Owning
        BY <1>0, <1>4, <1>5, <2>2 DEF K42Owners, K42Owning, K42Coming
    <2>4. k42Live' = { k42I'[u] : u \in Threads } \ {Nil}
        BY <1>0, <1>1, <1>5, <2>2 DEF K42Owners
    <2>5. \A u \in Threads : k42I[u] # n
        BY <1>0, <1>1, <2>2 DEF K42Owners
    <2>6. \A u, v \in Threads : k42I'[u] # Nil /\ k42I'[u] = k42I'[v] => u = v
        BY <1>0, <1>5, <2>5 DEF K42Owners
    <2> QED
        BY <2>1, <2>3, <2>4, <2>6 DEF K42Owners
<1>8. K42Memories'
    BY <1>0, <1>1 DEF K42Order, K42Memories
<1>9. K42Found'
    BY <1>0, <1>1, <1>4, <1>5 DEF K42Order, K42Memories, K42Found, K42Knows
<1>10. \A m \in Locks \ {l} : K42Line(m)'
    BY <1>1, <1>2, <1>4, <1>5, K42OtherLines DEF K42Aside
<1>11. K42Line(l)'
    <2>1. ASSUME NEW x \in Threads, InLine(x, l)
          PROVE  K42Still(x, l)
        BY <1>1, <1>2, <1>4, <1>5, <2>1 DEF K42Still, K42Node, K42Settled
    <2> QED
        BY <1>0, <1>1, <2>1, K42LineStays DEF K42Order
<1> QED
    BY <1>3, <1>6, <1>7, <1>8, <1>9, <1>10, <1>11 DEF K42Inv, K42Order

(* The node of a thread in line is marked before it is linked.             *)
LEMMA K42Mark ==
    ASSUME K42Inv, NEW t \in Threads, NEW l \in Locks, K42!Mark(t, l)
    PROVE  K42Inv' /\ UNCHANGED Fifo!vars
PROOF
<1>0. K42Places /\ K42Owners /\ K42Order /\ LineInv
    BY DEF K42Inv, K42Places
<1>1. /\ At(t, l, "mark") /\ pc' = [pc EXCEPT ![t] = "link"] /\ arg' = arg
      /\ Stay /\ held' = held /\ queue' = queue
      /\ k42Locked' = [k42Locked EXCEPT ![k42I[t]] = TRUE]
      /\ k42Tail' = k42Tail /\ k42Next' = k42Next /\ k42Live' = k42Live /\ k42I' = k42I
      /\ k42Predecessor' = k42Predecessor
    BY DEF K42!Mark, K42!At, At, K42!Goto, K42!Stay, Stay
<1>2. pc[t] = "mark" /\ arg[t] = l /\ l \notin held[t] /\ k42I[t] \in Addresses
    BY <1>0, <1>1 DEF At, K42Places, K42Owners, K42Owning, K42Coming
<1>3. /\ LineInv' /\ UNCHANGED Fifo!vars
      /\ \A u \in Threads, m \in Locks : InLine(u, m)' <=> InLine(u, m)
    BY <1>0, <1>1, StayStep
<1>4. \A u \in Threads : pc'[u] = IF u = t THEN "link" ELSE pc[u]
    BY <1>0, <1>1 DEF K42Places
<1>5. /\ k42Locked'[k42I[t]]
      /\ \A u \in Threads \ {t} : k42I[u] # Nil => k42Locked'[k42I[u]] = k42Locked[k42I[u]]
    BY <1>0, <1>1, <1>2, ZenonT(40) DEF K42Owners, K42Order, K42Memories
<1>6. K42Places'
    <2>1. pc' \in [Threads -> {"idle"} \cup K42Coming \cup K42Inside]
        BY <1>0, <1>1 DEF K42Places, K42Coming
    <2>2. \A u \in Threads :
              /\ arg'[u] = Nil <=> pc'[u] = "idle"
              /\ pc'[u] \in K42Coming => arg'[u] \notin held'[u]
              /\ pc'[u] \in K42Inside => arg'[u] \in held'[u]
        BY <1>0, <1>1, <1>2, <1>4, CallerAssumption DEF K42Places, K42Inside, K42Settling
    <2>3. \A u \in Threads, m \in Locks :
              InLine(u, m)' <=>
                  At(u, m, "mark")' \/ At(u, m, "link")' \/ At(u, m, "spin")' \/ m \in held'[u]
        BY <1>0, <1>1, <1>2, <1>3, <1>4 DEF K42Places, At
    <2> QED
        BY <1>0, <1>1, <1>3, <2>1, <2>2, <2>3 DEF K42Places
<1>7. K42Owners'
    BY <1>0, <1>1, <1>2, <1>4 DEF K42Owners, K42Owning, K42Coming
<1>8. \A u \in Threads \ {t} :
          pc[u] \in {"link", "spin"} => k42Locked'[k42I[u]] = k42Locked[k42I[u]]
    <2>1. \A u \in Threads : pc[u] \in {"link", "spin"} => k42I[u] # Nil
        BY <1>0 DEF K42Owners, K42Owning, K42Coming
    <2> QED
        BY <1>5, <2>1
<1>9. K42Memories'
    BY <1>0, <1>1 DEF K42Order, K42Memories
<1>10. K42Found'
    BY <1>0, <1>1, <1>4, <1>5, <1>8 DEF K42Order, K42Found, K42Knows
<1>11. \A m \in Locks \ {l} : K42Line(m)'
    <2>1. \A u \in Threads \ {t} :
              pc[u] = "spin" /\ arg[u] # l => k42Locked'[k42I[u]] = k42Locked[k42I[u]]
        BY <1>8
    <2>2. /\ arg[t] = l /\ arg' = arg /\ held' = held /\ queue' = queue
          /\ k42Tail' = k42Tail /\ k42Next' = k42Next /\ k42I' = k42I
          /\ k42Predecessor' = k42Predecessor
          /\ \A u \in Threads \ {t} : pc'[u] = pc[u]
        BY <1>1, <1>2, <1>4
    <2>3. K42Aside(t, l)
        BY <2>1, <2>2 DEF K42Aside
    <2> QED
        BY <2>3, K42OtherLines
<1>12. K42Line(l)'
    <2>1. ASSUME NEW x \in Threads, InLine(x, l)
          PROVE  K42Still(x, l)
        <3>1. K42Node(x, l)' = K42Node(x, l)
            BY <1>1, <1>2, <1>4 DEF K42Node, K42Settled
        <3>2. pc'[x] = "spin" => pc[x] = "spin" /\ x # t
            BY <1>4
        <3>3. arg'[x] = l /\ pc'[x] = "spin" =>
                  /\ arg[x] = l /\ pc[x] = "spin" /\ k42I'[x] = k42I[x]
                  /\ k42Locked'[k42I[x]] = k42Locked[k42I[x]]
            BY <1>1, <1>8, <3>2
        <3>4. /\ pc'[x] \in {"mark", "link"} <=> pc[x] \in {"mark", "link"}
              /\ k42Next'[K42Node(x, l)] = k42Next[K42Node(x, l)]
            BY <1>1, <1>2, <1>4
        <3> QED
            BY <1>1, <3>1, <3>3, <3>4 DEF K42Still
    <2> QED
        BY <1>0, <1>1, <2>1, K42LineStays DEF K42Order
<1> QED
    BY <1>3, <1>6, <1>7, <1>9, <1>10, <1>11, <1>12 DEF K42Inv, K42Order

(* Only the first in line finds its node unlocked, and it goes in.         *)
LEMMA K42Spin ==
    ASSUME K42Inv, NEW t \in Threads, NEW l \in Locks, K42!Spin(t, l)
    PROVE  K42Inv' /\ Fifo!Enter(t, l)
PROOF
<1>0. K42Places /\ K42Owners /\ K42Order /\ LineInv
    BY DEF K42Inv, K42Places
<1>1. /\ At(t, l, "spin") /\ ~k42Locked[k42I[t]]
      /\ pc' = [pc EXCEPT ![t] = "check"] /\ arg' = arg
      /\ Enter(t, l) /\ queue' = queue
      /\ k42Tail' = k42Tail /\ k42Next' = k42Next /\ k42Locked' = k42Locked
      /\ k42Live' = k42Live /\ k42I' = k42I /\ k42Predecessor' = k42Predecessor
    BY DEF K42!Spin, K42!At, At, K42!Goto, K42!Enter, Enter, K42!k42Vars
<1>2. pc[t] = "spin" /\ arg[t] = l /\ l \notin held[t] /\ InLine(t, l)
    BY <1>0, <1>1 DEF At, K42Places, K42Coming
<1>3. Len(queue[l]) > 0 /\ queue[l][1] = t
    <2>1. PICK i \in 1 .. Len(queue[l]) : queue[l][i] = t
        BY <1>2 DEF InLine
    <2>2. i = 1
        BY <1>0, <1>1, <1>2, <2>1 DEF K42Order, K42Line, K42InOrder
    <2> QED
        BY <2>1, <2>2
<1>4. /\ LineInv' /\ Fifo!Enter(t, l)
      /\ \A u \in Threads, m \in Locks :
             /\ InLine(u, m)' <=> InLine(u, m)
             /\ m \in held'[u] <=> m \in held[u] \/ (u = t /\ m = l)
    BY <1>0, <1>1, <1>2, <1>3, EnterStep
<1>5. \A u \in Threads : pc'[u] = IF u = t THEN "check" ELSE pc[u]
    BY <1>0, <1>1 DEF K42Places
<1>6. K42Places'
    <2>1. pc' \in [Threads -> {"idle"} \cup K42Coming \cup K42Inside]
        BY <1>0, <1>1 DEF K42Places, K42Inside, K42Settling
    <2>2. \A u \in Threads :
              /\ arg'[u] = Nil <=> pc'[u] = "idle"
              /\ pc'[u] \in K42Coming => arg'[u] \notin held'[u]
              /\ pc'[u] \in K42Inside => arg'[u] \in held'[u]
        <3> SUFFICES ASSUME NEW u \in Threads
                     PROVE  /\ arg'[u] = Nil <=> pc'[u] = "idle"
                            /\ pc'[u] \in K42Coming => arg'[u] \notin held'[u]
                            /\ pc'[u] \in K42Inside => arg'[u] \in held'[u]
            OBVIOUS
        <3>1. CASE u = t
            BY <1>1, <1>2, <1>4, <1>5, <3>1, CallerAssumption DEF K42Coming
        <3>2. CASE u # t
            <4>1. pc[u] # "idle" => arg[u] \in Locks
                BY <1>0 DEF K42Places
            <4>2. pc[u] \in K42Coming \/ pc[u] \in K42Inside => pc[u] # "idle"
                BY DEF K42Coming, K42Inside, K42Settling
            <4> QED
                BY <1>0, <1>1, <1>4, <1>5, <3>2, <4>1, <4>2 DEF K42Places
        <3> QED
            BY <3>1, <3>2
    <2>3. \A u \in Threads, m \in Locks :
              InLine(u, m)' <=>
                  At(u, m, "mark")' \/ At(u, m, "link")' \/ At(u, m, "spin")' \/ m \in held'[u]
        BY <1>0, <1>1, <1>2, <1>4, <1>5 DEF K42Places, At
    <2> QED
        BY <1>0, <1>1, <1>4, <2>1, <2>2, <2>3 DEF K42Places
<1>7. K42Owners'
    BY <1>0, <1>1, <1>2, <1>5 DEF K42Owners, K42Owning, K42Coming, K42Settling
<1>8. K42Memories'
    BY <1>0, <1>1 DEF K42Order, K42Memories
<1>9. K42Found'
    BY <1>0, <1>1, <1>5 DEF K42Order, K42Found, K42Knows
<1>10. \A m \in Locks \ {l} : K42Line(m)'
    BY <1>1, <1>2, <1>4, <1>5, K42OtherLines DEF K42Aside
<1>11. K42Line(l)'
    <2>1. ASSUME NEW x \in Threads, InLine(x, l)
          PROVE  K42Still(x, l)
        <3>1. K42Node(x, l)' = K42Node(x, l)
            BY <1>1, <1>2, <1>4, <1>5 DEF K42Node, K42Settled, K42Settling
        <3> QED
            BY <1>1, <1>2, <1>5, <3>1 DEF K42Still
    <2> QED
        BY <1>0, <1>1, <2>1, K42LineStays DEF K42Order
<1> QED
    BY <1>4, <1>6, <1>7, <1>8, <1>9, <1>10, <1>11 DEF K42Inv, K42Order

(* While a thread that has the lock still owns the node that stands for    *)
(* it, the lock's own node stands for nobody.                              *)
LEMMA K42Unsettled ==
    ASSUME K42Inv, NEW t \in Threads, NEW l \in Locks,
           l \in held[t], arg[t] = l, pc[t] \in K42Settling
    PROVE  /\ Len(queue[l]) \in Nat /\ 1 \in 1 .. Len(queue[l]) /\ t = queue[l][1]
           /\ InLine(t, l) /\ K42Node(t, l) = k42I[t] /\ k42I[t] \in Addresses
           /\ \A i \in 1 .. Len(queue[l]) : queue[l][i] = t <=> i = 1
           /\ \A u \in Threads, m \in Locks : InLine(u, m) => K42Node(u, m) # l
PROOF
<1>0. K42Places /\ K42Owners /\ LineInv
    BY DEF K42Inv, K42Places
<1>1. /\ Len(queue[l]) \in Nat /\ 1 \in 1 .. Len(queue[l]) /\ t = queue[l][1]
      /\ InLine(t, l)
      /\ \A i \in 1 .. Len(queue[l]) : queue[l][i] = t <=> i = 1
    BY <1>0, K42First
<1>2. ~K42Settled(t, l) /\ K42Node(t, l) = k42I[t] /\ k42I[t] \in Addresses
    BY <1>0, <1>1, K42NodeOf DEF K42Settled
<1>3. ASSUME NEW u \in Threads, NEW m \in Locks, InLine(u, m), K42Node(u, m) = l
      PROVE  FALSE
    <2>1. m = l /\ K42Settled(u, l) /\ l \in held[u]
        BY <1>0, <1>3, K42NodeOf, K42Memory DEF K42Settled
    <2>2. u = t
        BY <1>0, <2>1, OneHolder
    <2> QED
        BY <1>2, <2>1, <2>2
<1> QED
    BY <1>1, <1>2, <1>3

(* The lock's own node is cleared while it stands for nobody.              *)
LEMMA K42ClearHead ==
    ASSUME K42Inv, NEW t \in Threads, NEW l \in Locks, K42!ClearHead(t, l)
    PROVE  K42Inv' /\ UNCHANGED Fifo!vars
PROOF
<1>0. K42Places /\ K42Owners /\ K42Order /\ LineInv
    BY DEF K42Inv, K42Places
<1>1. /\ At(t, l, "clear") /\ pc' = [pc EXCEPT ![t] = "settle"] /\ arg' = arg /\ Stay
      /\ k42Next' = [k42Next EXCEPT ![l] = Nil]
      /\ k42Tail' = k42Tail /\ k42Locked' = k42Locked
      /\ k42Live' = k42Live /\ k42I' = k42I /\ k42Predecessor' = k42Predecessor
    BY DEF K42!ClearHead, K42!At, At, K42!Goto, K42!Stay, Stay
<1>2. /\ pc[t] = "clear" /\ arg[t] = l /\ l \in held[t]
      /\ pc[t] \in K42Settling /\ "settle" \in K42Settling
    BY <1>0, <1>1 DEF At, K42Places, K42Inside, K42Settling
<1>3. K42Going(t, l, "settle")
    <2>1. arg' = [arg EXCEPT ![t] = l]
        BY <1>0, <1>1, <1>2 DEF K42Places
    <2> QED
        BY <1>1, <1>2, <2>1 DEF K42Going, K42Inside
<1>4. /\ K42Places' /\ UNCHANGED Fifo!vars
      /\ held' = held /\ queue' = queue
      /\ \A u \in Threads :
             /\ pc'[u] = IF u = t THEN "settle" ELSE pc[u]
             /\ arg'[u] = IF u = t THEN l ELSE arg[u]
    BY <1>0, <1>3, K42Goes
<1>5. K42Owners'
    BY <1>0, <1>1, <1>2, <1>4 DEF K42Owners, K42Owning
<1>6. /\ k42Next' \in [Addresses \cup Locks -> Addresses \cup {Nil}]
      /\ \A a \in Addresses \cup Locks : k42Next'[a] = IF a = l THEN Nil ELSE k42Next[a]
    BY <1>0, <1>1 DEF K42Order, K42Memories
<1>7. \A u \in Threads, m \in Locks :
          InLine(u, m) => k42Next'[K42Node(u, m)] = k42Next[K42Node(u, m)]
    BY <1>0, <1>2, <1>6, K42NodeOf, K42Unsettled
<1>8. K42Memories'
    BY <1>0, <1>1, <1>6, K42Memory DEF K42Order, K42Memories
<1>9. ASSUME NEW u \in Threads
      PROVE  K42Knows(u)'
    <2>1. K42Knows(u)
        BY <1>0 DEF K42Order, K42Found
    <2>2. pc[u] \in {"exchange", "adopt"} => k42I[u] \in Addresses /\ k42I[u] # l
        BY <1>0, K42Memory DEF K42Owners, K42Owning, K42Coming, K42Settling
    <2>3. u # t /\ pc[u] \in {"settle", "wake"} => arg[u] \in Locks /\ arg[u] # l
        <3> SUFFICES ASSUME u # t, pc[u] \in {"settle", "wake"}
                     PROVE  arg[u] \in Locks /\ arg[u] # l
            OBVIOUS
        <3>1. arg[u] \in Locks /\ arg[u] \in held[u]
            BY <1>0 DEF K42Places, K42Inside, K42Settling
        <3> QED
            BY <1>0, <1>2, <3>1, OneHolder
    <2>4. pc'[t] = "settle" /\ arg'[t] = l
        BY <1>4
    <2>5. u # t => pc'[u] = pc[u] /\ arg'[u] = arg[u]
        BY <1>4
    <2> QED
        BY <1>1, <1>6, <2>1, <2>2, <2>3, <2>4, <2>5 DEF K42Knows
<1>10. \A m \in Locks \ {l} : K42Line(m)'
    BY <1>1, <1>2, <1>4, <1>7, K42OtherLines DEF K42Aside
<1>11. K42Line(l)'
    <2>1. ASSUME NEW x \in Threads, InLine(x, l)
          PROVE  K42Still(x, l)
        <3>1. K42Node(x, l)' = K42Node(x, l)
            BY <1>1, <1>2, <1>4 DEF K42Node, K42Settled
        <3> QED
            BY <1>1, <1>2, <1>4, <1>7, <2>1, <3>1 DEF K42Still
    <2> QED
        BY <1>0, <1>1, <1>4, <2>1, K42LineStays DEF K42Order
<1> QED
    BY <1>4, <1>5, <1>8, <1>9, <1>10, <1>11 DEF K42Inv, K42Order, K42Found

(* A node is deleted when the lock's own stands in its place.              *)
LEMMA K42Delete ==
    ASSUME K42Inv, NEW t \in Threads, NEW l \in Locks, K42!Delete(t, l)
    PROVE  K42Inv' /\ UNCHANGED Fifo!vars
PROOF
<1>0. K42Places /\ K42Owners /\ K42Order /\ LineInv
    BY DEF K42Inv, K42Places
<1>1. /\ At(t, l, "delete") /\ Stay
      /\ pc' = [pc EXCEPT ![t] = "idle"] /\ arg' = [arg EXCEPT ![t] = Nil]
      /\ k42Live' = k42Live \ {k42I[t]}
      /\ k42Next' = [k42Next EXCEPT ![k42I[t]] = Nil]
      /\ k42Locked' = [k42Locked EXCEPT ![k42I[t]] = FALSE]
      /\ k42I' = [k42I EXCEPT ![t] = Nil]
      /\ k42Predecessor' = [k42Predecessor EXCEPT ![t] = Nil]
      /\ k42Tail' = k42Tail
    BY DEF K42!Delete, K42!At, At, K42!Return, K42!Stay, Stay
<1>2. pc[t] = "delete" /\ arg[t] = l /\ l \in held[t] /\ pc[t] \notin K42Settling
    BY <1>0, <1>1 DEF At, K42Places, K42Inside, K42Settling
<1>3. K42Going(t, l, "idle")
    BY <1>1, <1>2 DEF K42Going, K42Inside
<1>4. /\ K42Places' /\ UNCHANGED Fifo!vars
      /\ held' = held /\ queue' = queue
      /\ \A u \in Threads :
             /\ pc'[u] = IF u = t THEN "idle" ELSE pc[u]
             /\ arg'[u] = IF u = t THEN Nil ELSE arg[u]
    BY <1>0, <1>3, K42Goes
<1>5. /\ k42I[t] \in Addresses
      /\ \A u \in Threads : k42I'[u] = IF u = t THEN Nil ELSE k42I[u]
      /\ \A u \in Threads \ {t} : k42I[u] \in Addresses => k42I[u] # k42I[t]
    BY <1>0, <1>1, <1>2, K42Memory DEF K42Owners, K42Owning
<1>6. /\ k42Next' \in [Addresses \cup Locks -> Addresses \cup {Nil}]
      /\ k42Locked' \in [Addresses -> BOOLEAN]
      /\ k42Predecessor' \in [Threads -> Addresses \cup Locks \cup {Nil}]
      /\ \A a \in Addresses \cup Locks : k42Next'[a] = IF a = k42I[t] THEN Nil ELSE k42Next[a]
      /\ \A a \in Addresses : a # k42I[t] => k42Locked'[a] = k42Locked[a]
      /\ \A u \in Threads \ {t} : k42Predecessor'[u] = k42Predecessor[u]
    BY <1>0, <1>1, <1>5 DEF K42Order, K42Memories
<1>7. K42Owners'
    <2>1. k42I' \in [Threads -> Addresses \cup {Nil}]
        BY <1>0, <1>1 DEF K42Owners
    <2>2. \A u \in Threads : k42I'[u] # Nil <=> pc'[u] \in K42Owning
        BY <1>0, <1>4, <1>5 DEF K42Owners, K42Owning, K42Coming, K42Settling
    <2>3. k42Live' = { k42I'[u] : u \in Threads } \ {Nil}
        BY <1>0, <1>1, <1>5 DEF K42Owners
    <2>4. \A u, v \in Threads : k42I'[u] # Nil /\ k42I'[u] = k42I'[v] => u = v
        BY <1>0, <1>5 DEF K42Owners
    <2> QED
        BY <2>1, <2>2, <2>3, <2>4 DEF K42Owners
<1>8. ASSUME NEW u \in Threads, NEW m \in Locks, InLine(u, m)
      PROVE  k42Next'[K42Node(u, m)] = k42Next[K42Node(u, m)]
    <2>1. /\ K42Node(u, m) \in Addresses \cup Locks
          /\ \/ K42Node(u, m) = m
             \/ /\ K42Node(u, m) = k42I[u] /\ k42I[u] \in Addresses
                /\ ~K42Settled(u, m) /\ arg[u] = m
        BY <1>0, <1>8, K42NodeOf
    <2>2. K42Settled(t, l)
        BY <1>2 DEF K42Settled
    <2>3. K42Node(u, m) # k42I[t]
        BY <1>2, <1>5, <2>1, <2>2, K42Memory
    <2> QED
        BY <1>6, <2>1, <2>3
<1>9. \A u \in Threads \ {t} :
          pc[u] = "spin" => k42Locked'[k42I[u]] = k42Locked[k42I[u]]
    <2>1. \A u \in Threads : pc[u] = "spin" => k42I[u] \in Addresses
        BY <1>0 DEF K42Owners, K42Owning, K42Coming
    <2> QED
        BY <1>5, <1>6, <2>1
<1>10. K42Memories'
    BY <1>0, <1>1, <1>6 DEF K42Order, K42Memories
<1>11. ASSUME NEW u \in Threads
       PROVE  K42Knows(u)'
    <2>1. K42Knows(u)
        BY <1>0 DEF K42Order, K42Found
    <2>2. pc[u] \in {"exchange", "link", "adopt"} => k42I[u] \in Addresses
        BY <1>0 DEF K42Owners, K42Owning, K42Coming, K42Settling
    <2>3. pc[u] \in {"settle", "wake"} => arg[u] \in Locks /\ arg[u] # k42I[t]
        BY <1>0, <1>5, K42Memory DEF K42Places
    <2>4. u = t => pc'[u] = "idle"
        BY <1>4
    <2>5. u # t => pc'[u] = pc[u] /\ arg'[u] = arg[u] /\ k42I'[u] = k42I[u]
        BY <1>4, <1>5
    <2> QED
        BY <1>5, <1>6, <2>1, <2>2, <2>3, <2>4, <2>5 DEF K42Knows
<1>12. \A m \in Locks \ {l} : K42Line(m)'
    <2>1. \A u \in Threads \ {t} :
              pc[u] = "spin" /\ arg[u] # l => k42Locked'[k42I[u]] = k42Locked[k42I[u]]
        BY <1>9
    <2>2. /\ arg[t] = l /\ arg'[t] = Nil /\ held' = held /\ queue' = queue
          /\ k42Tail' = k42Tail
          /\ \A u \in Threads \ {t} :
                 /\ pc'[u] = pc[u] /\ arg'[u] = arg[u]
                 /\ k42I'[u] = k42I[u] /\ k42Predecessor'[u] = k42Predecessor[u]
        BY <1>1, <1>2, <1>4, <1>5, <1>6
    <2>3. K42Aside(t, l)
        BY <1>8, <2>1, <2>2 DEF K42Aside
    <2> QED
        BY <2>3, K42OtherLines
<1>13. K42Line(l)'
    <2>1. ASSUME NEW x \in Threads, InLine(x, l)
          PROVE  K42Still(x, l)
        <3>1. CASE x = t
            <4>1. K42Node(x, l)' = K42Node(x, l)
                BY <1>2, <1>4, <3>1, K42Memory DEF K42Node, K42Settled
            <4> QED
                BY <1>2, <1>4, <1>8, <2>1, <3>1, <4>1 DEF K42Still
        <3>2. CASE x # t
            <4>1. K42Node(x, l)' = K42Node(x, l)
                BY <1>4, <1>5, <3>2 DEF K42Node, K42Settled
            <4> QED
                BY <1>4, <1>5, <1>6, <1>8, <1>9, <2>1, <3>2, <4>1 DEF K42Still
        <3> QED
            BY <3>1, <3>2
    <2> QED
        BY <1>0, <1>1, <1>4, <2>1, K42LineStays DEF K42Order
<1> QED
    BY <1>4, <1>7, <1>10, <1>11, <1>12, <1>13 DEF K42Inv, K42Order, K42Found


(* The last in line has the lock's own node take the place of its own.     *)
LEMMA K42Settle ==
    ASSUME K42Inv, NEW t \in Threads, NEW l \in Locks,
           K42!Settle(t, l), k42Tail[l] = k42I[t]
    PROVE  K42Inv' /\ UNCHANGED Fifo!vars
PROOF
<1>0. K42Places /\ K42Owners /\ K42Order /\ LineInv
    BY DEF K42Inv, K42Places
<1>1. /\ At(t, l, "settle") /\ pc' = [pc EXCEPT ![t] = "delete"] /\ arg' = arg /\ Stay
      /\ k42Tail' = [k42Tail EXCEPT ![l] = l]
      /\ k42Next' = k42Next /\ k42Locked' = k42Locked
      /\ k42Live' = k42Live /\ k42I' = k42I /\ k42Predecessor' = k42Predecessor
    BY DEF K42!Settle, K42!At, At, K42!Goto, K42!Stay, Stay
<1>2. /\ pc[t] = "settle" /\ arg[t] = l /\ l \in held[t] /\ pc[t] \in K42Settling
      /\ k42Next[l] = Nil
    <2>1. pc[t] = "settle" /\ arg[t] = l
        BY <1>1 DEF At
    <2> QED
        BY <1>0, <2>1 DEF K42Places, K42Inside, K42Settling, K42Order, K42Found, K42Knows
<1>3. K42Going(t, l, "delete")
    <2>1. arg' = [arg EXCEPT ![t] = l]
        BY <1>0, <1>1, <1>2 DEF K42Places
    <2> QED
        BY <1>1, <1>2, <2>1 DEF K42Going, K42Inside
<1>4. /\ K42Places' /\ UNCHANGED Fifo!vars
      /\ held' = held /\ queue' = queue
      /\ \A u \in Threads :
             /\ pc'[u] = IF u = t THEN "delete" ELSE pc[u]
             /\ arg'[u] = IF u = t THEN l ELSE arg[u]
    BY <1>0, <1>3, K42Goes
<1>5. K42Owners'
    BY <1>0, <1>1, <1>2, <1>4 DEF K42Owners, K42Owning
<1>6. /\ Len(queue[l]) \in Nat /\ 1 \in 1 .. Len(queue[l]) /\ t = queue[l][1]
      /\ InLine(t, l) /\ K42Node(t, l) = k42I[t]
    BY <1>0, <1>2, K42Unsettled
<1>7. Len(queue[l]) = 1
    <2>1. PICK i \in 1 .. Len(queue[l]) : i = Len(queue[l])
        BY <1>6
    <2>2. PICK x \in Threads : x = queue[l][i] /\ InLine(x, l)
        BY <1>0, Members
    <2>3. K42Node(x, l) = K42Node(t, l)
        BY <1>0, <1>6, <2>1, <2>2 DEF K42Order, K42Line, K42InOrder
    <2>4. x = t
        BY <1>0, <1>6, <2>2, <2>3, K42Apart
    <2> QED
        BY <1>0, <1>6, <2>1, <2>2, <2>4 DEF LineInv
<1>8. K42Memories'
    BY <1>0, <1>1 DEF K42Order, K42Memories
<1>9. k42Tail'[l] = l /\ \A m \in Locks \ {l} : k42Tail'[m] = k42Tail[m]
    BY <1>0, <1>1 DEF K42Order, K42Memories
<1>10. K42Found'
    BY <1>0, <1>1, <1>4 DEF K42Order, K42Found, K42Knows
<1>11. \A m \in Locks \ {l} : K42Line(m)'
    <2>1. K42Aside(t, l)
        BY <1>1, <1>2, <1>4, <1>9 DEF K42Aside
    <2> QED
        BY <2>1, K42OtherLines
<1>12. K42Line(l)'
    <2>1. K42Node(t, l)' = l
        BY <1>2, <1>4 DEF K42Node, K42Settled, K42Settling
    <2>2. ASSUME NEW i \in 1 .. Len(queue'[l])
          PROVE  K42InOrder(l, i)'
        <3>1. i = 1 /\ queue'[l][i] = t /\ pc'[t] = "delete"
            BY <1>4, <1>6, <1>7
        <3>2. ~(i + 1 \in 1 .. Len(queue'[l]))
            BY <1>4, <1>7, <3>1
        <3>3. K42Node(queue[l][i], l)' = l
            BY <2>1, <3>1 DEF K42Node, K42Settled
        <3> QED
            BY <1>1, <1>2, <1>9, <3>1, <3>2, <3>3 DEF K42InOrder
    <2>3. Len(queue'[l]) # 0
        BY <1>4, <1>7
    <2> QED
        BY <2>2, <2>3 DEF K42Line
<1> QED
    BY <1>4, <1>5, <1>8, <1>10, <1>11, <1>12 DEF K42Inv, K42Order

(* The lock's own node takes the place of one that is linked to the next.  *)
LEMMA K42Adopt ==
    ASSUME K42Inv, NEW t \in Threads, NEW l \in Locks, K42!Adopt(t, l)
    PROVE  K42Inv' /\ UNCHANGED Fifo!vars
PROOF
<1>0. K42Places /\ K42Owners /\ K42Order /\ LineInv
    BY DEF K42Inv, K42Places
<1>1. /\ At(t, l, "adopt") /\ pc' = [pc EXCEPT ![t] = "delete"] /\ arg' = arg /\ Stay
      /\ k42Next' = [k42Next EXCEPT ![l] = k42Next[k42I[t]]]
      /\ k42Tail' = k42Tail /\ k42Locked' = k42Locked
      /\ k42Live' = k42Live /\ k42I' = k42I /\ k42Predecessor' = k42Predecessor
    BY DEF K42!Adopt, K42!At, At, K42!Goto, K42!Stay, Stay
<1>2. /\ pc[t] = "adopt" /\ arg[t] = l /\ l \in held[t] /\ pc[t] \in K42Settling
      /\ k42Next[k42I[t]] # Nil
    <2>1. pc[t] = "adopt" /\ arg[t] = l
        BY <1>1 DEF At
    <2> QED
        BY <1>0, <2>1 DEF K42Places, K42Inside, K42Settling, K42Order, K42Found, K42Knows
<1>3. K42Going(t, l, "delete")
    <2>1. arg' = [arg EXCEPT ![t] = l]
        BY <1>0, <1>1, <1>2 DEF K42Places
    <2> QED
        BY <1>1, <1>2, <2>1 DEF K42Going, K42Inside
<1>4. /\ K42Places' /\ UNCHANGED Fifo!vars
      /\ held' = held /\ queue' = queue
      /\ \A u \in Threads :
             /\ pc'[u] = IF u = t THEN "delete" ELSE pc[u]
             /\ arg'[u] = IF u = t THEN l ELSE arg[u]
    BY <1>0, <1>3, K42Goes
<1>5. K42Owners'
    BY <1>0, <1>1, <1>2, <1>4 DEF K42Owners, K42Owning
<1>6. /\ Len(queue[l]) \in Nat /\ 1 \in 1 .. Len(queue[l]) /\ t = queue[l][1]
      /\ InLine(t, l) /\ K42Node(t, l) = k42I[t] /\ k42I[t] \in Addresses
      /\ \A i \in 1 .. Len(queue[l]) : queue[l][i] = t <=> i = 1
      /\ \A u \in Threads, m \in Locks : InLine(u, m) => K42Node(u, m) # l
    BY <1>0, <1>2, K42Unsettled
<1>7. /\ k42Next' \in [Addresses \cup Locks -> Addresses \cup {Nil}]
      /\ k42Next'[l] = k42Next[k42I[t]]
      /\ \A a \in Addresses \cup Locks : a # l => k42Next'[a] = k42Next[a]
    BY <1>0, <1>1, <1>6 DEF K42Order, K42Memories
<1>8. \A u \in Threads, m \in Locks :
          InLine(u, m) => k42Next'[K42Node(u, m)] = k42Next[K42Node(u, m)]
    BY <1>0, <1>6, <1>7, K42NodeOf
<1>9. K42Memories'
    BY <1>0, <1>1, <1>7, K42Memory DEF K42Order, K42Memories
<1>10. ASSUME NEW u \in Threads
       PROVE  K42Knows(u)'
    <2>1. K42Knows(u)
        BY <1>0 DEF K42Order, K42Found
    <2>2. pc[u] \in {"exchange", "link", "adopt"} => k42I[u] \in Addresses /\ k42I[u] # l
        BY <1>0, K42Memory DEF K42Owners, K42Owning, K42Coming, K42Settling
    <2>3. u # t /\ pc[u] \in {"settle", "wake"} => arg[u] \in Locks /\ arg[u] # l
        <3> SUFFICES ASSUME u # t, pc[u] \in {"settle", "wake"}
                     PROVE  arg[u] \in Locks /\ arg[u] # l
            OBVIOUS
        <3>1. arg[u] \in Locks /\ arg[u] \in held[u]
            BY <1>0 DEF K42Places, K42Inside, K42Settling
        <3> QED
            BY <1>0, <1>2, <3>1, OneHolder
    <2>4. u = t => pc'[u] = "delete"
        BY <1>4
    <2>5. u # t => pc'[u] = pc[u] /\ arg'[u] = arg[u]
        BY <1>4
    <2> QED
        BY <1>1, <1>7, <2>1, <2>2, <2>3, <2>4, <2>5 DEF K42Knows
<1>11. \A m \in Locks \ {l} : K42Line(m)'
    BY <1>1, <1>2, <1>4, <1>8, K42OtherLines DEF K42Aside
<1>12. Len(queue[l]) # 1
    <2> SUFFICES ASSUME Len(queue[l]) = 1
                 PROVE  FALSE
        OBVIOUS
    <2>1. k42Next[K42Node(queue[l][1], l)] = Nil
        BY <1>0, <1>6 DEF K42Order, K42Line, K42InOrder
    <2> QED
        BY <1>2, <1>6, <2>1
<1>13. ASSUME NEW i \in 1 .. Len(queue[l])
       PROVE  K42InOrder(l, i)'
    <2>1. PICK x \in Threads : x = queue[l][i] /\ InLine(x, l)
        BY <1>0, Members
    <2>2. K42InOrder(l, i)
        BY <1>0 DEF K42Order, K42Line
    <2>3. x = queue'[l][i]
        BY <1>4, <2>1
    <2>4. K42Node(queue[l][i], l)' = IF i = 1 THEN l ELSE K42Node(x, l)
        <3>1. K42Node(queue[l][i], l)' = K42Node(x, l)'
            BY <2>3 DEF K42Node, K42Settled
        <3>2. i = 1 => K42Node(x, l)' = l
            BY <1>2, <1>4, <1>6, <2>1 DEF K42Node, K42Settled, K42Settling
        <3>3. i # 1 => K42Node(x, l)' = K42Node(x, l)
            BY <1>1, <1>4, <1>6, <2>1 DEF K42Node, K42Settled
        <3> QED
            BY <3>1, <3>2, <3>3
    <2>5. k42Next'[K42Node(queue[l][i], l)'] = k42Next[K42Node(x, l)]
        <3>1. CASE i = 1
            BY <1>6, <1>7, <2>1, <2>4, <3>1
        <3>2. CASE i # 1
            BY <1>8, <2>1, <2>4, <3>2
        <3> QED
            BY <3>1, <3>2
    <2>6. i = Len(queue'[l]) =>
              /\ k42Tail'[l] = K42Node(queue[l][i], l)'
              /\ k42Next'[K42Node(queue[l][i], l)'] = Nil
        BY <1>1, <1>4, <1>12, <2>1, <2>2, <2>4, <2>5 DEF K42InOrder
    <2>7. ASSUME i + 1 \in 1 .. Len(queue[l])
          PROVE  K42Linked(queue[l][i], queue[l][i + 1], l)'
        <3> DEFINE j == i + 1
        <3>1. j \in 1 .. Len(queue[l]) /\ j # 1 /\ K42Linked(x, queue[l][j], l)
            BY <2>1, <2>2, <2>7 DEF K42InOrder
        <3> HIDE DEF j
        <3>2. PICK y \in Threads : y = queue[l][j]
            BY <1>0, <3>1, Members
        <3>3. y = queue'[l][j]
            BY <1>4, <3>2
        <3>4. y # t /\ k42I'[y] = k42I[y] /\ pc'[y] = pc[y]
              /\ k42Predecessor'[y] = k42Predecessor[y]
            BY <1>1, <1>4, <1>6, <3>1, <3>2
        <3>5. \/ k42Next[K42Node(x, l)] = k42I[y] /\ pc[y] \notin {"mark", "link"}
              \/ /\ k42Next[K42Node(x, l)] = Nil /\ pc[y] \in {"mark", "link"}
                 /\ k42Predecessor[y] = K42Node(x, l)
            BY <3>1, <3>2 DEF K42Linked
        <3>6. i = 1 => k42Next[K42Node(x, l)] # Nil
            BY <1>2, <1>6, <2>1
        <3> QED
            BY <2>4, <2>5, <3>3, <3>4, <3>5, <3>6 DEF K42Linked, j
    <2>8. /\ arg'[x] = l /\ pc'[x] \in {"mark", "link"} => i # 1
          /\ arg'[x] = l /\ pc'[x] = "spin" /\ i # 1 => k42Locked'[k42I'[x]]
        <3>1. i = 1 => pc'[x] = "delete"
            BY <1>4, <1>6, <2>1
        <3>2. i # 1 => pc'[x] = pc[x] /\ arg'[x] = arg[x]
            BY <1>4, <1>6, <2>1
        <3> QED
            BY <1>1, <2>1, <2>2, <3>1, <3>2 DEF K42InOrder
    <2> QED
        BY <1>4, <2>3, <2>6, <2>7, <2>8 DEF K42InOrder
<1>14. K42Line(l)'
    <2>1. Len(queue'[l]) # 0
        BY <1>4, <1>6
    <2> QED
        BY <1>4, <1>13, <2>1 DEF K42Line
<1> QED
    BY <1>4, <1>5, <1>9, <1>10, <1>11, <1>14 DEF K42Inv, K42Order, K42Found

(* The doorway: a thread that finds nobody there goes in, and another has  *)
(* the last in line before it.                                             *)
LEMMA K42Exchange ==
    ASSUME K42Inv, NEW t \in Threads, NEW l \in Locks, K42!Exchange(t, l)
    PROVE  K42Inv' /\ (Fifo!Take(t, l) \/ Fifo!Arrive(t, l))
PROOF
<1> DEFINE free == Len(queue[l]) = 0
           last == queue[l][Len(queue[l])]
<1>0. K42Places /\ K42Owners /\ K42Order /\ LineInv
    BY DEF K42Inv, K42Places
<1>1. /\ pc[t] = "exchange" /\ arg[t] = l
      /\ k42Tail' = [k42Tail EXCEPT ![l] = k42I[t]]
      /\ k42Predecessor' = [k42Predecessor EXCEPT ![t] = k42Tail[l]]
      /\ arg' = arg
      /\ \/ k42Tail[l] = Nil /\ Take(t, l) /\ pc' = [pc EXCEPT ![t] = "check"]
         \/ k42Tail[l] # Nil /\ Arrive(t, l) /\ pc' = [pc EXCEPT ![t] = "mark"]
      /\ k42Next' = k42Next /\ k42Locked' = k42Locked /\ k42Live' = k42Live /\ k42I' = k42I
    BY DEF K42!Exchange, K42!At, K42!Goto, K42!Take, Take, K42!Arrive, Arrive
<1>2. /\ l \notin held[t] /\ ~InLine(t, l)
      /\ k42I[t] \in Addresses /\ k42Next[k42I[t]] = Nil
    <2>1. l \notin held[t] /\ pc[t] \in K42Coming
        BY <1>0, <1>1 DEF K42Places, K42Coming
    <2>2. ~InLine(t, l)
        BY <1>0, <1>1, <2>1 DEF K42Places, At
    <2>3. k42I[t] \in Addresses
        BY <1>0, <2>1 DEF K42Owners, K42Owning
    <2> QED
        BY <1>0, <1>1, <2>1, <2>2, <2>3 DEF K42Order, K42Found, K42Knows
<1>3. /\ Len(queue[l]) \in Nat
      /\ free => k42Tail[l] = Nil
      /\ ~free => /\ Len(queue[l]) \in 1 .. Len(queue[l]) /\ last \in Threads
                  /\ k42Tail[l] = K42Node(last, l) /\ k42Tail[l] # Nil
                  /\ k42Next[K42Node(last, l)] = Nil
    <2>1. Len(queue[l]) \in Nat
        BY <1>0, LineType
    <2>2. ~free => Len(queue[l]) \in 1 .. Len(queue[l])
        BY <2>1
    <2>3. ~free => last \in Threads /\ InLine(last, l)
        BY <1>0, <2>2, Members
    <2>4. ~free => K42Node(last, l) # Nil
        BY <1>0, <2>3, K42NodeOf, K42Memory
    <2>5. ~free => k42Tail[l] = K42Node(last, l) /\ k42Next[K42Node(last, l)] = Nil
        BY <1>0, <2>2 DEF K42Order, K42Line, K42InOrder
    <2>6. free => k42Tail[l] = Nil
        BY <1>0 DEF K42Order, K42Line
    <2> QED
        BY <2>1, <2>2, <2>3, <2>4, <2>5, <2>6
<1>4. /\ free => Take(t, l)
      /\ ~free => Arrive(t, l)
      /\ queue' = [queue EXCEPT ![l] = Append(@, t)]
      /\ pc' = [pc EXCEPT ![t] = IF free THEN "check" ELSE "mark"]
    BY <1>1, <1>3 DEF Take, Arrive
<1>5. /\ LineInv' /\ (Fifo!Take(t, l) \/ Fifo!Arrive(t, l))
      /\ \A u \in Threads, m \in Locks :
             m \in held'[u] <=> m \in held[u] \/ (free /\ u = t /\ m = l)
    <2>1. CASE free
        BY <1>0, <1>4, <2>1, TakeStep
    <2>2. CASE ~free
        <3>1. LineInv' /\ Fifo!Arrive(t, l)
            BY <1>0, <1>2, <1>4, <2>2, ArriveStep
        <3> QED
            BY <1>4, <2>2, <3>1 DEF Arrive
    <2> QED
        BY <2>1, <2>2
<1>6. /\ \A m \in Locks \ {l} : queue'[m] = queue[m]
      /\ Len(queue'[l]) = Len(queue[l]) + 1
      /\ \A i \in 1 .. Len(queue[l]) : queue'[l][i] = queue[l][i]
      /\ queue'[l][Len(queue[l]) + 1] = t
      /\ \A u \in Threads, m \in Locks : InLine(u, m)' <=> InLine(u, m) \/ (u = t /\ m = l)
    BY <1>0, <1>2, <1>4, LineGrows
<1>7. PICK new \in Nat :
          /\ new = Len(queue[l]) + 1
          /\ new \in 1 .. new /\ ~(new + 1 \in 1 .. new) /\ (free <=> new = 1)
          /\ \A i \in 1 .. new : i # new => i \in 1 .. Len(queue[l])
          /\ \A i \in 1 .. Len(queue[l]) :
                 /\ i # new
                 /\ i # Len(queue[l]) => i + 1 \in 1 .. Len(queue[l])
    BY <1>3
<1> HIDE DEF free, last
<1>8. \A u \in Threads : pc'[u] = IF u = t THEN (IF free THEN "check" ELSE "mark") ELSE pc[u]
    BY <1>0, <1>4 DEF K42Places
<1>9. K42Places'
    <2>1. pc' \in [Threads -> {"idle"} \cup K42Coming \cup K42Inside]
        BY <1>0, <1>4 DEF K42Places, K42Coming, K42Inside, K42Settling
    <2>2. ASSUME NEW u \in Threads
          PROVE  /\ arg'[u] = Nil <=> pc'[u] = "idle"
                 /\ pc'[u] \in K42Coming => arg'[u] \notin held'[u]
                 /\ pc'[u] \in K42Inside => arg'[u] \in held'[u]
        <3>1. CASE u = t
            <4>1. /\ "check" \notin K42Coming /\ "mark" \notin K42Inside
                  /\ "check" # "idle" /\ "mark" # "idle"
                BY DEF K42Coming, K42Inside, K42Settling
            <4>2. arg'[t] = l /\ l # Nil /\ (l \in held'[t] <=> free)
                BY <1>1, <1>2, <1>5, CallerAssumption
            <4> QED
                BY <1>8, <3>1, <4>1, <4>2
        <3>2. CASE u # t
            <4>1. pc[u] # "idle" => arg[u] \in Locks
                BY <1>0 DEF K42Places
            <4>2. pc[u] \in K42Coming \/ pc[u] \in K42Inside => pc[u] # "idle"
                BY DEF K42Coming, K42Inside, K42Settling
            <4> QED
                BY <1>0, <1>1, <1>5, <1>8, <3>2, <4>1, <4>2 DEF K42Places
        <3> QED
            BY <3>1, <3>2
    <2>3. \A u \in Threads, m \in Locks :
              InLine(u, m)' <=>
                  At(u, m, "mark")' \/ At(u, m, "link")' \/ At(u, m, "spin")' \/ m \in held'[u]
        BY <1>0, <1>1, <1>2, <1>5, <1>6, <1>8 DEF K42Places, At
    <2> QED
        BY <1>0, <1>1, <1>5, <2>1, <2>2, <2>3 DEF K42Places
<1>10. K42Owners'
    BY <1>0, <1>1, <1>8 DEF K42Owners, K42Owning, K42Coming, K42Settling
<1>11. /\ k42Tail' \in [Locks -> Addresses \cup Locks \cup {Nil}]
       /\ k42Predecessor' \in [Threads -> Addresses \cup Locks \cup {Nil}]
       /\ k42Predecessor'[t] = k42Tail[l]
       /\ \A u \in Threads \ {t} : k42Predecessor'[u] = k42Predecessor[u]
       /\ k42Tail'[l] = k42I[t] /\ \A m \in Locks \ {l} : k42Tail'[m] = k42Tail[m]
    BY <1>0, <1>1, <1>2 DEF K42Order, K42Memories
<1>12. K42Memories'
    BY <1>0, <1>1, <1>11 DEF K42Order, K42Memories
<1>13. K42Found'
    BY <1>0, <1>1, <1>8 DEF K42Order, K42Found, K42Knows
<1>14. \A m \in Locks \ {l} : K42Line(m)'
    <2>1. /\ \A u \in Threads, m \in Locks \ {l} : m \in held'[u] <=> m \in held[u]
          /\ \A m \in Locks \ {l} : queue'[m] = queue[m] /\ k42Tail'[m] = k42Tail[m]
          /\ \A u \in Threads \ {t} :
                 pc'[u] = pc[u] /\ k42Predecessor'[u] = k42Predecessor[u]
        BY <1>5, <1>6, <1>8, <1>11
    <2>2. K42Aside(t, l)
        BY <1>1, <2>1 DEF K42Aside
    <2> QED
        BY <2>2, K42OtherLines
<1>15. ASSUME NEW i \in 1 .. Len(queue[l])
       PROVE  /\ queue[l][i] \in Threads \ {t} /\ queue'[l][i] = queue[l][i]
              /\ K42Node(queue[l][i], l)' = K42Node(queue[l][i], l)
              /\ K42InOrder(l, i)
    <2>1. PICK x \in Threads \ {t} : x = queue[l][i] /\ x = queue'[l][i]
        BY <1>0, <1>2, <1>6, Members
    <2>2. K42Node(queue[l][i], l)' = K42Node(x, l)
        BY <1>1, <1>5, <1>8, <2>1 DEF K42Node, K42Settled
    <2> QED
        BY <1>0, <2>1, <2>2 DEF K42Order, K42Line
<1>16. K42InOrder(l, new)'
    <2>1. t = queue'[l][new]
        BY <1>6, <1>7
    <2>2. K42Node(t, l)' = k42I[t]
        BY <1>1, <1>2, <1>5, <1>8 DEF K42Node, K42Settled, K42Settling
    <2>3. K42Node(queue[l][new], l)' = K42Node(t, l)'
        BY <2>1 DEF K42Node, K42Settled
    <2> QED
        BY <1>1, <1>2, <1>6, <1>7, <1>8, <1>11, <2>1, <2>2, <2>3 DEF K42InOrder
<1>17. ASSUME NEW i \in 1 .. Len(queue[l])
       PROVE  K42InOrder(l, i)'
    <2>1. PICK x \in Threads \ {t} : x = queue[l][i] /\ x = queue'[l][i]
        BY <1>15
    <2>2. K42Node(queue[l][i], l)' = K42Node(x, l) /\ K42InOrder(l, i)
        BY <1>15, <2>1
    <2>3. K42Linked(queue[l][i], queue[l][i + 1], l)'
        <3>1. CASE i = Len(queue[l])
            <4>1. i + 1 = new /\ ~free /\ t = queue'[l][i + 1]
                <5>1. i + 1 = new
                    BY <1>7, <3>1
                <5>2. ~free
                    BY <3>1 DEF free
                <5> QED
                    BY <1>6, <1>7, <5>1, <5>2
            <4>2. x = last
                BY <2>1, <3>1 DEF last
            <4>3. pc'[t] = "mark" /\ k42Predecessor'[t] = K42Node(x, l)
                  /\ k42Next'[K42Node(x, l)] = Nil
                BY <1>1, <1>3, <1>8, <1>11, <4>1, <4>2
            <4> QED
                BY <1>1, <2>1, <2>2, <4>1, <4>3 DEF K42Linked
        <3>2. CASE i # Len(queue[l])
            <4> DEFINE j == i + 1
            <4>1. j \in 1 .. Len(queue[l]) /\ K42Linked(x, queue[l][j], l)
                BY <1>7, <2>1, <2>2, <3>2 DEF K42InOrder
            <4> HIDE DEF j
            <4>2. PICK y \in Threads \ {t} : y = queue[l][j] /\ y = queue'[l][j]
                BY <1>15, <4>1
            <4>3. K42Linked(x, y, l)
                BY <4>1, <4>2
            <4>4. pc'[y] = pc[y] /\ k42Predecessor'[y] = k42Predecessor[y]
                BY <1>8, <1>11
            <4> QED
                BY <1>1, <2>1, <2>2, <4>2, <4>3, <4>4 DEF K42Linked, j
        <3> QED
            BY <3>1, <3>2
    <2>4. i # Len(queue'[l])
        BY <1>6, <1>7
    <2>5. pc'[x] = pc[x] /\ arg'[x] = arg[x]
        BY <1>1, <1>8
    <2> QED
        BY <1>1, <2>1, <2>2, <2>3, <2>4, <2>5 DEF K42InOrder
<1>18. K42Line(l)'
    <2>1. Len(queue'[l]) # 0
        BY <1>6, <1>7
    <2>2. \A i \in 1 .. Len(queue'[l]) : i = new \/ i \in 1 .. Len(queue[l])
        BY <1>6, <1>7
    <2> QED
        BY <1>16, <1>17, <2>1, <2>2 DEF K42Line
<1> QED
    BY <1>5, <1>9, <1>10, <1>12, <1>13, <1>14, <1>18 DEF K42Inv, K42Order

(* A thread links its node behind that of the thread before it.            *)
LEMMA K42Link ==
    ASSUME K42Inv, NEW t \in Threads, NEW l \in Locks, K42!Link(t, l)
    PROVE  K42Inv' /\ UNCHANGED Fifo!vars
PROOF
<1>0. K42Places /\ K42Owners /\ K42Order /\ LineInv
    BY DEF K42Inv, K42Places
<1>1. /\ At(t, l, "link") /\ pc' = [pc EXCEPT ![t] = "spin"] /\ arg' = arg
      /\ Stay /\ held' = held /\ queue' = queue
      /\ k42Next' = [k42Next EXCEPT ![k42Predecessor[t]] = k42I[t]]
      /\ k42Predecessor' = [k42Predecessor EXCEPT ![t] = Nil]
      /\ k42Tail' = k42Tail /\ k42Locked' = k42Locked /\ k42Live' = k42Live /\ k42I' = k42I
    BY DEF K42!Link, K42!At, At, K42!Goto, K42!Stay, Stay
<1>2. /\ pc[t] = "link" /\ arg[t] = l /\ l \notin held[t] /\ InLine(t, l)
      /\ k42I[t] \in Addresses /\ k42I[t] # Nil
    BY <1>0, <1>1, K42Memory DEF At, K42Places, K42Owners, K42Owning, K42Coming
<1>3. k42Locked[k42I[t]]
    BY <1>0, <1>2 DEF K42Order, K42Found, K42Knows
<1>4. PICK j \in 1 .. Len(queue[l]) : t = queue[l][j]
    BY <1>2 DEF InLine
<1>5. PICK i \in 1 .. Len(queue[l]) : i + 1 = j
    <2>1. j # 1
        BY <1>0, <1>2, <1>4 DEF K42Order, K42Line, K42InOrder
    <2>2. Len(queue[l]) \in Nat
        BY <1>0, LineType
    <2>3. j - 1 \in 1 .. Len(queue[l]) /\ (j - 1) + 1 = j
        BY <2>1, <2>2
    <2> QED
        BY <2>3
<1>6. PICK p \in Threads : p = queue[l][i] /\ InLine(p, l)
    BY <1>0, Members
<1>7. PICK P \in Addresses \cup Locks : P = K42Node(p, l)
    BY <1>0, <1>6, K42NodeOf
<1>8. /\ \/ P = l /\ K42Settled(p, l)
         \/ /\ P = k42I[p] /\ k42I[p] \in Addresses /\ k42I[p] \in k42Live
            /\ ~K42Settled(p, l) /\ arg[p] = l
      /\ \A m \in Locks : P = m => m = l
    BY <1>0, <1>6, <1>7, K42NodeOf
<1>9. k42Predecessor[t] = P /\ k42Next[P] = Nil
    <2>1. K42Linked(queue[l][i], queue[l][i + 1], l)
        BY <1>0, <1>5 DEF K42Order, K42Line, K42InOrder
    <2>2. K42Linked(p, t, l)
        BY <1>4, <1>5, <1>6, <2>1
    <2> QED
        BY <1>2, <1>7, <2>2 DEF K42Linked
<1>10. /\ k42Next' \in [Addresses \cup Locks -> Addresses \cup {Nil}]
       /\ \A a \in Addresses \cup Locks : k42Next'[a] = IF a = P THEN k42I[t] ELSE k42Next[a]
       /\ k42Predecessor' \in [Threads -> Addresses \cup Locks \cup {Nil}]
       /\ \A u \in Threads \ {t} : k42Predecessor'[u] = k42Predecessor[u]
    BY <1>0, <1>1, <1>2, <1>9 DEF K42Order, K42Memories
<1>11. ASSUME NEW u \in Threads, NEW m \in Locks, InLine(u, m), ~(u = p /\ m = l)
       PROVE  k42Next'[K42Node(u, m)] = k42Next[K42Node(u, m)]
    <2>1. K42Node(u, m) \in Addresses \cup Locks
        BY <1>0, <1>11, K42NodeOf
    <2>2. K42Node(u, m) # P
        BY <1>0, <1>6, <1>7, <1>11, K42Apart
    <2> QED
        BY <1>10, <2>1, <2>2
<1>12. /\ LineInv' /\ UNCHANGED Fifo!vars
       /\ \A u \in Threads, m \in Locks : InLine(u, m)' <=> InLine(u, m)
    BY <1>0, <1>1, StayStep
<1>13. \A u \in Threads : pc'[u] = IF u = t THEN "spin" ELSE pc[u]
    BY <1>0, <1>1 DEF K42Places
<1>14. K42Places'
    <2>1. pc' \in [Threads -> {"idle"} \cup K42Coming \cup K42Inside]
        BY <1>0, <1>1 DEF K42Places, K42Coming
    <2>2. \A u \in Threads :
              /\ arg'[u] = Nil <=> pc'[u] = "idle"
              /\ pc'[u] \in K42Coming => arg'[u] \notin held'[u]
              /\ pc'[u] \in K42Inside => arg'[u] \in held'[u]
        BY <1>0, <1>1, <1>2, <1>13, CallerAssumption DEF K42Places, K42Inside, K42Settling
    <2>3. \A u \in Threads, m \in Locks :
              InLine(u, m)' <=>
                  At(u, m, "mark")' \/ At(u, m, "link")' \/ At(u, m, "spin")' \/ m \in held'[u]
        BY <1>0, <1>1, <1>2, <1>12, <1>13 DEF K42Places, At
    <2> QED
        BY <1>0, <1>1, <1>12, <2>1, <2>2, <2>3 DEF K42Places
<1>15. K42Owners'
    BY <1>0, <1>1, <1>2, <1>13 DEF K42Owners, K42Owning, K42Coming
<1>16. K42Memories'
    <2>1. \A a \in Addresses \ k42Live : a # P
        BY <1>8, K42Memory
    <2> QED
        BY <1>0, <1>1, <1>10, <2>1 DEF K42Order, K42Memories
<1>17. ASSUME NEW u \in Threads
       PROVE  K42Knows(u)'
    <2>1. K42Knows(u)
        BY <1>0 DEF K42Order, K42Found
    <2>2. pc[u] \in {"exchange", "adopt"} => k42I[u] \in Addresses
        BY <1>0 DEF K42Owners, K42Owning, K42Coming, K42Settling
    <2>3. pc[u] \in {"settle", "wake"} => arg[u] \in Locks /\ arg[u] \in held[u]
        BY <1>0 DEF K42Places, K42Inside, K42Settling
    <2>4. pc[u] = "exchange" => k42I[u] # P
        <3> SUFFICES ASSUME pc[u] = "exchange", k42I[u] = P
                     PROVE  FALSE
            OBVIOUS
        <3>1. k42I[p] = k42I[u] /\ arg[p] = l
            BY <1>8, <2>2, K42Memory
        <3>2. p = u
            BY <1>0, <2>2, <3>1, K42Memory DEF K42Owners
        <3> QED
            BY <1>0, <1>6, <3>1, <3>2 DEF K42Places, At, K42Coming
    <2>5. pc[u] = "settle" => arg[u] # P
        <3> SUFFICES ASSUME pc[u] = "settle", arg[u] = P
                     PROVE  FALSE
            OBVIOUS
        <3>1. P = l /\ l \in held[p] /\ K42Settled(p, l)
            BY <1>8, <2>3, K42Memory DEF K42Settled
        <3>2. u = p
            BY <1>0, <2>3, <3>1, OneHolder
        <3> QED
            BY <3>1, <3>2 DEF K42Settled, K42Settling
    <2>6. u # t => pc'[u] = pc[u]
        BY <1>13
    <2>7. pc'[t] = "spin"
        BY <1>13
    <2> QED
        BY <1>1, <1>2, <1>10, <2>1, <2>2, <2>3, <2>4, <2>5, <2>6, <2>7 DEF K42Knows
<1>18. \A m \in Locks \ {l} : K42Line(m)'
    BY <1>1, <1>2, <1>10, <1>11, <1>13, K42OtherLines DEF K42Aside
<1>19. ASSUME NEW x \in Threads
       PROVE  K42Node(x, l)' = K42Node(x, l)
    BY <1>1, <1>2, <1>13 DEF K42Node, K42Settled
<1>20. ASSUME NEW k \in 1 .. Len(queue[l])
       PROVE  K42InOrder(l, k)'
    <2>1. PICK x \in Threads : x = queue[l][k] /\ InLine(x, l) /\ x = queue'[l][k]
        BY <1>0, <1>1, Members
    <2>2. K42Node(queue[l][k], l)' = K42Node(x, l)
        BY <1>19, <2>1 DEF K42Node, K42Settled
    <2>3. K42InOrder(l, k)
        BY <1>0 DEF K42Order, K42Line
    <2>4. x = p <=> k = i
        BY <1>0, <1>6, <2>1 DEF LineInv
    <2>5. k = Len(queue'[l]) =>
              /\ k42Tail'[l] = K42Node(queue[l][k], l)'
              /\ k42Next'[K42Node(queue[l][k], l)'] = Nil
        <3> SUFFICES ASSUME k = Len(queue[l])
                     PROVE  /\ k42Tail[l] = K42Node(x, l)
                            /\ k42Next'[K42Node(x, l)] = Nil
            BY <1>1, <2>2
        <3>1. x # p
            BY <1>5, <2>4
        <3> QED
            BY <1>11, <2>1, <2>3, <3>1 DEF K42InOrder
    <2>6. ASSUME k + 1 \in 1 .. Len(queue[l])
          PROVE  K42Linked(queue[l][k], queue[l][k + 1], l)'
        <3> DEFINE n == k + 1
        <3>1. n \in 1 .. Len(queue[l]) /\ K42Linked(x, queue[l][n], l)
            BY <2>1, <2>3, <2>6 DEF K42InOrder
        <3>2. n = j <=> k = i
            BY <1>5
        <3> HIDE DEF n
        <3>3. PICK y \in Threads : y = queue[l][n] /\ y = queue'[l][n]
            BY <1>0, <1>1, <3>1, Members
        <3>4. y = t <=> n = j
            BY <1>0, <1>4, <3>1, <3>3 DEF LineInv
        <3>5. K42Linked(x, y, l)
            BY <3>1, <3>3
        <3>6. CASE k = i
            <4>1. y = t /\ x = p
                BY <2>4, <3>2, <3>4, <3>6
            <4>2. k42Next'[K42Node(x, l)] = k42I'[y] /\ pc'[y] = "spin"
                BY <1>1, <1>7, <1>10, <1>13, <4>1
            <4> QED
                BY <2>1, <2>2, <3>3, <4>2 DEF K42Linked, n
        <3>7. CASE k # i
            <4>1. y # t /\ x # p
                BY <2>4, <3>2, <3>4, <3>7
            <4>2. /\ k42Next'[K42Node(x, l)] = k42Next[K42Node(x, l)]
                  /\ k42I'[y] = k42I[y] /\ pc'[y] = pc[y]
                  /\ k42Predecessor'[y] = k42Predecessor[y]
                BY <1>1, <1>10, <1>11, <1>13, <2>1, <4>1
            <4> QED
                BY <2>1, <2>2, <3>3, <3>5, <4>2 DEF K42Linked, n
        <3> QED
            BY <3>6, <3>7
    <2>7. arg'[x] = l /\ pc'[x] \in {"mark", "link"} => k # 1
        BY <1>1, <1>13, <2>1, <2>3 DEF K42InOrder
    <2>8. arg'[x] = l /\ pc'[x] = "spin" /\ k # 1 => k42Locked'[k42I'[x]]
        <3>1. CASE x = t
            BY <1>1, <1>3, <3>1
        <3>2. CASE x # t
            BY <1>1, <1>13, <2>1, <2>3, <3>2 DEF K42InOrder
        <3> QED
            BY <3>1, <3>2
    <2> QED
        BY <1>1, <2>1, <2>5, <2>6, <2>7, <2>8 DEF K42InOrder
<1>21. K42Line(l)'
    <2>1. Len(queue'[l]) # 0
        BY <1>0, <1>1, <1>4, LineType
    <2> QED
        BY <1>1, <1>20, <2>1 DEF K42Line
<1> QED
    BY <1>12, <1>14, <1>15, <1>16, <1>17, <1>18, <1>21 DEF K42Inv, K42Order, K42Found

(* A thread that has the lock gives up its place in line.                  *)
K42Leaving(t, l) ==
    /\ pc[t] \in {"cas", "wake"} /\ arg[t] = l /\ Leave(t, l)
    /\ pc' = [pc EXCEPT ![t] = "idle"] /\ arg' = [arg EXCEPT ![t] = Nil]
    /\ k42I' = k42I /\ k42Live' = k42Live

LEMMA K42PlacesLeave ==
    ASSUME K42Inv, NEW t \in Threads, NEW l \in Locks, K42Leaving(t, l)
    PROVE  /\ K42Places' /\ K42Owners' /\ Fifo!Leave(t, l)
           /\ l \in held[t] /\ K42Node(t, l) = l
           /\ \A u \in Threads : /\ pc'[u] = IF u = t THEN "idle" ELSE pc[u]
                                 /\ arg'[u] = IF u = t THEN Nil ELSE arg[u]
           /\ \A u \in Threads, m \in Locks :
                  m \in held'[u] <=> m \in held[u] /\ ~(u = t /\ m = l)
PROOF
<1>0. K42Places /\ K42Owners /\ LineInv
    BY DEF K42Inv, K42Places
<1> USE DEF K42Leaving
<1>1. /\ l \in held[t] /\ K42Node(t, l) = l
      /\ pc[t] \notin K42Coming /\ pc[t] \notin K42Owning
    <2>1. pc[t] \in K42Inside /\ pc[t] \notin K42Settling /\ pc[t] \notin K42Coming
        BY DEF K42Inside, K42Settling, K42Coming
    <2>2. pc[t] \notin K42Owning
        BY <2>1 DEF K42Owning
    <2> QED
        BY <1>0, <2>1, <2>2 DEF K42Places, K42Node, K42Settled
<1>2. /\ LineInv' /\ Fifo!Leave(t, l)
      /\ \A u \in Threads, m \in Locks :
             /\ InLine(u, m)' <=> InLine(u, m) /\ ~(u = t /\ m = l)
             /\ m \in held'[u] <=> m \in held[u] /\ ~(u = t /\ m = l)
    BY <1>0, <1>1, LeaveStep, LineShrinks
<1>3. \A u \in Threads : /\ pc'[u] = IF u = t THEN "idle" ELSE pc[u]
                         /\ arg'[u] = IF u = t THEN Nil ELSE arg[u]
    BY <1>0 DEF K42Places
<1>4. K42Places'
    <2>1. /\ pc' \in [Threads -> {"idle"} \cup K42Coming \cup K42Inside]
          /\ arg' \in [Threads -> Locks \cup {Nil}]
        BY <1>0 DEF K42Places
    <2>2. ASSUME NEW u \in Threads
          PROVE  /\ arg'[u] = Nil <=> pc'[u] = "idle"
                 /\ pc'[u] \in K42Coming => arg'[u] \notin held'[u]
                 /\ pc'[u] \in K42Inside => arg'[u] \in held'[u]
        <3>1. "idle" \notin K42Coming /\ "idle" \notin K42Inside
            BY DEF K42Coming, K42Inside, K42Settling
        <3>2. CASE u = t
            BY <1>3, <3>1, <3>2
        <3>3. CASE u # t
            <4>1. pc[u] # "idle" => arg[u] \in Locks
                BY <1>0 DEF K42Places
            <4> QED
                BY <1>0, <1>2, <1>3, <3>1, <3>3, <4>1 DEF K42Places
        <3> QED
            BY <3>2, <3>3
    <2>3. \A u \in Threads, m \in Locks :
              InLine(u, m)' <=>
                  At(u, m, "mark")' \/ At(u, m, "link")' \/ At(u, m, "spin")' \/ m \in held'[u]
        BY <1>0, <1>1, <1>2, <1>3 DEF K42Places, At, K42Coming
    <2> QED
        BY <1>2, <2>1, <2>2, <2>3 DEF K42Places
<1>5. K42Owners'
    <2>1. "idle" \notin K42Owning
        BY DEF K42Owning, K42Coming, K42Settling
    <2> QED
        BY <1>0, <1>1, <1>3, <2>1 DEF K42Owners
<1> QED
    BY <1>1, <1>2, <1>3, <1>4, <1>5

(* The lock's own node is still the last: the lock is free.                *)
LEMMA K42CompareExchange ==
    ASSUME K42Inv, NEW t \in Threads, NEW l \in Locks,
           K42!CompareExchange(t, l), k42Tail[l] = l
    PROVE  K42Inv' /\ Fifo!Leave(t, l)
PROOF
<1>0. K42Places /\ K42Owners /\ K42Order /\ LineInv
    BY DEF K42Inv, K42Places
<1>1. /\ pc[t] = "cas" /\ arg[t] = l /\ Leave(t, l)
      /\ pc' = [pc EXCEPT ![t] = "idle"] /\ arg' = [arg EXCEPT ![t] = Nil]
      /\ k42Tail' = [k42Tail EXCEPT ![l] = Nil]
      /\ k42Next' = k42Next /\ k42Locked' = k42Locked
      /\ k42Live' = k42Live /\ k42I' = k42I /\ k42Predecessor' = k42Predecessor
    BY DEF K42!CompareExchange, K42!At, K42!Return, K42!Leave, Leave
<1>2. /\ K42Places' /\ K42Owners' /\ Fifo!Leave(t, l)
      /\ l \in held[t] /\ K42Node(t, l) = l
      /\ \A u \in Threads : /\ pc'[u] = IF u = t THEN "idle" ELSE pc[u]
                            /\ arg'[u] = IF u = t THEN Nil ELSE arg[u]
      /\ \A u \in Threads, m \in Locks :
             m \in held'[u] <=> m \in held[u] /\ ~(u = t /\ m = l)
    <2>1. K42Leaving(t, l)
        BY <1>1 DEF K42Leaving
    <2> QED
        BY <2>1, K42PlacesLeave
<1>3. /\ Len(queue[l]) \in Nat \ {0} /\ InLine(t, l)
      /\ \A i \in 1 .. Len(queue[l]) : queue[l][i] = t <=> i = 1
    BY <1>0, <1>2, K42First
<1>4. /\ \A m \in Locks \ {l} : queue'[m] = queue[m]
      /\ Len(queue'[l]) = Len(queue[l]) - 1
    BY <1>0, <1>1, <1>2, LineShrinks
<1>5. Len(queue'[l]) = 0
    <2>1. PICK i \in 1 .. Len(queue[l]) : i = Len(queue[l])
        BY <1>3
    <2>2. PICK x \in Threads : x = queue[l][i] /\ InLine(x, l)
        BY <1>0, Members
    <2>3. K42Node(x, l) = K42Node(t, l)
        BY <1>0, <1>2, <2>1, <2>2 DEF K42Order, K42Line, K42InOrder
    <2>4. x = t
        BY <1>0, <1>3, <2>2, <2>3, K42Apart
    <2>5. i = 1
        BY <1>3, <2>2, <2>4
    <2> QED
        BY <1>4, <2>1, <2>5
<1>6. k42Tail'[l] = Nil /\ \A m \in Locks \ {l} : k42Tail'[m] = k42Tail[m]
    BY <1>0, <1>1 DEF K42Order, K42Memories
<1>7. K42Memories'
    BY <1>0, <1>1 DEF K42Order, K42Memories
<1>8. K42Found'
    BY <1>0, <1>1, <1>2 DEF K42Order, K42Found, K42Knows
<1>9. \A m \in Locks \ {l} : K42Line(m)'
    BY <1>1, <1>2, <1>4, <1>6, K42OtherLines DEF K42Aside
<1>10. K42Line(l)'
    <2>1. ~(\E i \in 1 .. Len(queue'[l]) : TRUE)
        BY <1>5
    <2> QED
        BY <1>6, <2>1 DEF K42Line
<1> QED
    BY <1>2, <1>7, <1>8, <1>9, <1>10 DEF K42Inv, K42Order

(* The thread that is woken is the next in line.                           *)
LEMMA K42NextInLine ==
    ASSUME K42Inv, NEW t \in Threads, NEW l \in Locks, pc[t] = "wake", arg[t] = l
    PROVE  /\ l \in held[t] /\ 2 \in 1 .. Len(queue[l])
           /\ \A i \in 1 .. Len(queue[l]) : queue[l][i] = t <=> i = 1
           /\ k42Next[l] = k42I[queue[l][2]] /\ pc[queue[l][2]] = "spin"
           /\ k42I[queue[l][2]] \in Addresses
PROOF
<1>0. K42Places /\ K42Owners /\ K42Order /\ LineInv
    BY DEF K42Inv, K42Places
<1>1. l \in held[t] /\ K42Node(t, l) = l /\ k42Next[l] # Nil
    BY <1>0 DEF K42Places, K42Inside, K42Settling, K42Node, K42Settled, K42Order,
                K42Found, K42Knows
<1>2. /\ Len(queue[l]) \in Nat \ {0} /\ 1 \in 1 .. Len(queue[l])
      /\ queue[l][1] = t /\ InLine(t, l)
      /\ \A i \in 1 .. Len(queue[l]) : queue[l][i] = t <=> i = 1
    BY <1>0, <1>1, K42First
<1>3. Len(queue[l]) # 1
    BY <1>0, <1>1, <1>2 DEF K42Order, K42Line, K42InOrder
<1>4. 2 \in 1 .. Len(queue[l]) /\ 1 + 1 = 2 /\ 2 # 1
    <2>1. \A k \in Nat : 1 # k /\ 1 \in 1 .. k => 2 \in 1 .. k
        OBVIOUS
    <2>2. 2 \in 1 .. Len(queue[l])
        BY <1>2, <1>3, <2>1
    <2>3. 1 + 1 = 2 /\ 2 # 1
        OBVIOUS
    <2> QED
        BY <2>2, <2>3
<1>5. K42Linked(queue[l][1], queue[l][1 + 1], l)
    BY <1>0, <1>2, <1>4 DEF K42Order, K42Line, K42InOrder
<1>6. PICK n \in Threads : n = queue[l][2] /\ InLine(n, l) /\ l \notin held[n]
    BY <1>0, <1>4, Members, K42InLine
<1>7. k42Next[l] = k42I[n] /\ pc[n] \notin {"mark", "link"}
    <2>1. K42Linked(t, n, l)
        BY <1>2, <1>4, <1>5, <1>6
    <2> QED
        BY <1>1, <2>1 DEF K42Linked
<1>8. pc[n] = "spin"
    BY <1>0, <1>6, <1>7, K42InLine
<1>9. k42I[n] \in Addresses
    BY <1>0, <1>8 DEF K42Owners, K42Owning, K42Coming
<1> QED
    BY <1>1, <1>2, <1>4, <1>6, <1>7, <1>8, <1>9

(* The holder unlocks the node of the next in line and leaves.             *)
LEMMA K42Wake ==
    ASSUME K42Inv, NEW t \in Threads, NEW l \in Locks, K42!Wake(t, l)
    PROVE  K42Inv' /\ Fifo!Leave(t, l)
PROOF
<1>0. K42Places /\ K42Owners /\ K42Order /\ LineInv
    BY DEF K42Inv, K42Places
<1>1. /\ pc[t] = "wake" /\ arg[t] = l /\ Leave(t, l)
      /\ pc' = [pc EXCEPT ![t] = "idle"] /\ arg' = [arg EXCEPT ![t] = Nil]
      /\ k42Locked' = [k42Locked EXCEPT ![k42Next[l]] = FALSE]
      /\ k42Tail' = k42Tail /\ k42Next' = k42Next
      /\ k42Live' = k42Live /\ k42I' = k42I /\ k42Predecessor' = k42Predecessor
    BY DEF K42!Wake, K42!At, K42!Return, K42!Leave, Leave
<1>2. /\ K42Places' /\ K42Owners' /\ Fifo!Leave(t, l)
      /\ l \in held[t]
      /\ \A u \in Threads : /\ pc'[u] = IF u = t THEN "idle" ELSE pc[u]
                            /\ arg'[u] = IF u = t THEN Nil ELSE arg[u]
      /\ \A u \in Threads, m \in Locks :
             m \in held'[u] <=> m \in held[u] /\ ~(u = t /\ m = l)
    <2>1. K42Leaving(t, l)
        BY <1>1 DEF K42Leaving
    <2> QED
        BY <2>1, K42PlacesLeave
<1>3. /\ 2 \in 1 .. Len(queue[l]) /\ k42Next[l] = k42I[queue[l][2]]
      /\ \A i \in 1 .. Len(queue[l]) : queue[l][i] = t <=> i = 1
      /\ pc[queue[l][2]] = "spin" /\ k42I[queue[l][2]] \in Addresses
    BY <1>1, K42NextInLine
<1>4. PICK n \in Threads :
          /\ n = queue[l][2] /\ InLine(n, l) /\ l \notin held[n]
          /\ pc[n] = "spin" /\ arg[n] = l /\ k42I[n] \in Addresses /\ k42Next[l] = k42I[n]
    <2>1. 2 # 1
        OBVIOUS
    <2> QED
        BY <1>0, <1>3, <2>1, Members, K42InLine
<1>5. /\ \A m \in Locks \ {l} : queue'[m] = queue[m]
      /\ Len(queue[l]) \in Nat \ {0} /\ Len(queue'[l]) = Len(queue[l]) - 1
      /\ \A i \in 1 .. Len(queue'[l]) : queue'[l][i] = queue[l][i + 1]
    BY <1>0, <1>1, <1>2, K42First, LineShrinks
<1>6. /\ k42Locked' \in [Addresses -> BOOLEAN]
      /\ \A u \in Threads \ {n} : k42I[u] \in Addresses => k42Locked'[k42I[u]] = k42Locked[k42I[u]]
    <2>1. \A u \in Threads \ {n} : k42I[u] \in Addresses => k42I[u] # k42I[n]
        BY <1>0, <1>4, K42Memory DEF K42Owners
    <2>2. k42Locked' \in [Addresses -> BOOLEAN]
        BY <1>0, <1>1 DEF K42Order, K42Memories
    <2>3. \A a \in Addresses : a # k42I[n] => k42Locked'[a] = k42Locked[a]
        BY <1>0, <1>1, <1>4 DEF K42Order, K42Memories
    <2> QED
        BY <2>1, <2>2, <2>3
<1>7. \A u \in Threads \ {n} :
          pc[u] \in {"link", "spin"} => k42Locked'[k42I[u]] = k42Locked[k42I[u]]
    <2>1. \A u \in Threads : pc[u] \in {"link", "spin"} => k42I[u] \in Addresses
        BY <1>0 DEF K42Owners, K42Owning, K42Coming
    <2> QED
        BY <1>6, <2>1
<1>8. K42Memories'
    BY <1>0, <1>1, <1>6 DEF K42Order, K42Memories
<1>9. ASSUME NEW u \in Threads
      PROVE  K42Knows(u)'
    <2>1. K42Knows(u)
        BY <1>0 DEF K42Order, K42Found
    <2>2. u = t => pc'[u] = "idle"
        BY <1>2
    <2>3. u # t => pc'[u] = pc[u] /\ arg'[u] = arg[u]
        BY <1>2
    <2>4. pc'[u] = "link" => k42Locked'[k42I'[u]]
        BY <1>1, <1>4, <1>7, <2>1, <2>2, <2>3 DEF K42Knows
    <2>5. k42Next' = k42Next /\ k42I' = k42I
        BY <1>1
    <2> QED
        BY <2>1, <2>2, <2>3, <2>4, <2>5 DEF K42Knows
<1>10. \A m \in Locks \ {l} : K42Line(m)'
    <2>1. \A u \in Threads \ {t} :
              pc[u] = "spin" /\ arg[u] # l => k42Locked'[k42I[u]] = k42Locked[k42I[u]]
        BY <1>4, <1>7
    <2>2. /\ arg[t] = l /\ arg'[t] = Nil
          /\ k42Tail' = k42Tail /\ k42Next' = k42Next /\ k42I' = k42I
          /\ k42Predecessor' = k42Predecessor
          /\ \A u \in Threads \ {t} : pc'[u] = pc[u] /\ arg'[u] = arg[u]
          /\ \A u \in Threads, m \in Locks \ {l} : m \in held'[u] <=> m \in held[u]
          /\ \A m \in Locks \ {l} : queue'[m] = queue[m]
        BY <1>1, <1>2, <1>5
    <2>3. K42Aside(t, l)
        BY <2>1, <2>2 DEF K42Aside
    <2> QED
        BY <2>3, K42OtherLines
<1>11. ASSUME NEW i \in 1 .. Len(queue'[l])
       PROVE  K42InOrder(l, i)'
    <2>1. PICK k \in 1 .. Len(queue[l]) :
              /\ k = i + 1 /\ k # 1 /\ queue'[l][i] = queue[l][k]
              /\ (i = Len(queue'[l]) <=> k = Len(queue[l]))
              /\ i + 1 \in 1 .. Len(queue'[l]) =>
                     /\ k + 1 \in 1 .. Len(queue[l]) /\ k + 1 # 1
                     /\ queue'[l][i + 1] = queue[l][k + 1]
        <3>1. /\ i + 1 \in 1 .. Len(queue[l]) /\ i + 1 # 1
              /\ (i = Len(queue'[l]) <=> i + 1 = Len(queue[l]))
              /\ i + 1 \in 1 .. Len(queue'[l]) =>
                     (i + 1) + 1 \in 1 .. Len(queue[l]) /\ (i + 1) + 1 # 1
            BY <1>5
        <3>2. /\ queue'[l][i] = queue[l][i + 1]
              /\ i + 1 \in 1 .. Len(queue'[l]) =>
                     queue'[l][i + 1] = queue[l][(i + 1) + 1]
            BY <1>5
        <3> QED
            BY <3>1, <3>2
    <2>2. PICK x \in Threads \ {t} : x = queue[l][k] /\ x = queue'[l][i]
        BY <1>0, <1>3, <2>1, Members
    <2>3. K42InOrder(l, k)
        BY <1>0 DEF K42Order, K42Line
    <2>4. K42Node(queue[l][i], l)' = K42Node(x, l)
        <3>1. K42Node(queue[l][i], l)' = K42Node(x, l)'
            BY <2>2 DEF K42Node, K42Settled
        <3>2. K42Node(x, l)' = K42Node(x, l)
            BY <1>1, <1>2 DEF K42Node, K42Settled
        <3> QED
            BY <3>1, <3>2
    <2>5. i = Len(queue'[l]) =>
              /\ k42Tail'[l] = K42Node(queue[l][i], l)'
              /\ k42Next'[K42Node(queue[l][i], l)'] = Nil
        BY <1>1, <2>1, <2>2, <2>3, <2>4 DEF K42InOrder
    <2>6. ASSUME i + 1 \in 1 .. Len(queue'[l])
          PROVE  K42Linked(queue[l][i], queue[l][i + 1], l)'
        <3>1. PICK y \in Threads \ {t} : y = queue[l][k + 1] /\ y = queue'[l][i + 1]
            BY <1>0, <1>3, <2>1, <2>6, Members
        <3>2. K42Linked(x, y, l)
            BY <2>1, <2>2, <2>3, <2>6, <3>1 DEF K42InOrder
        <3> QED
            BY <1>1, <1>2, <2>2, <2>4, <3>1, <3>2 DEF K42Linked
    <2>7. x = n <=> i = 1
        BY <1>0, <1>3, <1>4, <2>1, <2>2 DEF LineInv
    <2>8. pc'[x] = pc[x] /\ arg'[x] = arg[x] /\ k42I'[x] = k42I[x]
        BY <1>1, <1>2
    <2>9. arg'[x] = l /\ pc'[x] \in {"mark", "link"} => i # 1
        BY <1>4, <2>7, <2>8
    <2>10. arg'[x] = l /\ pc'[x] = "spin" /\ i # 1 => k42Locked'[k42I'[x]]
        <3>1. arg[x] = l /\ pc[x] = "spin" => k42Locked[k42I[x]]
            BY <2>1, <2>2, <2>3 DEF K42InOrder
        <3> QED
            BY <1>7, <2>7, <2>8, <3>1
    <2> QED
        BY <2>2, <2>5, <2>6, <2>9, <2>10 DEF K42InOrder
<1>12. K42Line(l)'
    <2>1. Len(queue'[l]) # 0
        BY <1>3, <1>5
    <2> QED
        BY <1>11, <2>1 DEF K42Line
<1> QED
    BY <1>2, <1>8, <1>9, <1>10, <1>12 DEF K42Inv, K42Order, K42Found

(* What the runs check of K42Lock.                                         *)
LEMMA K42Follows ==
    ASSUME K42Inv
    PROVE  K42!TypeOK /\ K42!NoUseAfterDelete
PROOF
<1>0. K42Places /\ K42Owners /\ K42Order /\ LineInv
    BY DEF K42Inv, K42Places
<1>1. K42!TypeOK
    <2>1. k42Live \subseteq Addresses
        BY <1>0 DEF K42Owners
    <2> QED
        BY <1>0, <2>1 DEF K42!TypeOK, K42!CallerTypeOK, K42Places, K42Owners, K42Order,
                          K42Memories, LineInv
<1>2. /\ k42Live = { k42I[t] : t \in Threads } \ {Nil}
      /\ \A t, u \in Threads : t # u /\ k42I[t] # Nil => k42I[t] # k42I[u]
    BY <1>0 DEF K42Owners
<1>3. ASSUME NEW l \in Locks, NEW i \in 1 .. Len(queue[l]),
             i > 1, pc[queue[l][i]] \in {"mark", "link"}
      PROVE  k42Predecessor[queue[l][i]] \in {l, k42I[queue[l][i - 1]]}
    <2>1. PICK k \in 1 .. Len(queue[l]) : k + 1 = i
        <3>1. Len(queue[l]) \in Nat
            BY <1>0, LineType
        <3>2. i - 1 \in 1 .. Len(queue[l]) /\ (i - 1) + 1 = i
            BY <1>3, <3>1
        <3> QED
            BY <3>2
    <2>2. k = i - 1
        BY <2>1
    <2>3. K42Linked(queue[l][k], queue[l][i], l)
        BY <1>0, <2>1 DEF K42Order, K42Line, K42InOrder
    <2>4. k42Predecessor[queue[l][i]] = K42Node(queue[l][k], l)
        BY <1>3, <2>3 DEF K42Linked
    <2> QED
        BY <2>2, <2>4 DEF K42Node
<1>4. ASSUME NEW l \in Locks, NEW i \in 1 .. Len(queue[l]), At(queue[l][i], l, "wake")
      PROVE  i = 1 /\ k42Next[l] = k42I[queue[l][2]]
    <2>1. PICK t \in Threads : t = queue[l][i]
        BY <1>0, Members
    <2>2. pc[t] = "wake" /\ arg[t] = l
        BY <1>4, <2>1 DEF At
    <2> QED
        BY <2>1, <2>2, K42NextInLine
<1>5. \A l \in Locks : DOMAIN queue[l] = 1 .. Len(queue[l])
    BY <1>0, LineType
<1> QED
    BY <1>1, <1>2, <1>3, <1>4, <1>5 DEF K42!NoUseAfterDelete, K42!At, At

(* Every step of K42Lock keeps the invariant, and is a step of FifoLock or *)
(* one that FifoLock does not see, also where threads nest locks.          *)
LEMMA K42Next ==
    ASSUME K42Inv, [K42!Next]_(K42!vars)
    PROVE  K42Inv' /\ [Fifo!Next]_(Fifo!vars)
PROOF
<1>1. CASE UNCHANGED K42!vars
    <2>1. UNCHANGED << pc, arg, held, queue >> /\ UNCHANGED K42!k42Vars
        BY <1>1 DEF K42!vars, K42!callerVars
    <2>2. UNCHANGED Fifo!vars
        BY <2>1 DEF Fifo!vars, holders
    <2>3. K42Inv'
        BY <2>1 DEF K42Inv, K42Places, K42Owners, K42Order, K42Memories, K42Found, K42Knows,
                    K42Line, K42InOrder, K42Settled, K42Node, K42Linked, LineInv, InLine, At,
                    K42!k42Vars
    <2> QED
        BY <2>2, <2>3
<1>2. ASSUME NEW t \in Threads, NEW l \in Locks,
             K42!StartAcquire(t, l) \/ K42!StartRelease(t, l) \/ K42!Continue(t, l)
      PROVE  K42Inv' /\ [Fifo!Next]_(Fifo!vars)
    <2>1. K42Inv' /\ (\/ Fifo!Arrive(t, l) \/ Fifo!Take(t, l)
                      \/ Fifo!Enter(t, l) \/ Fifo!Leave(t, l)
                      \/ UNCHANGED Fifo!vars)
        <3>1. CASE K42!StartAcquire(t, l)
            BY <3>1, K42StartAcquire
        <3>2. CASE K42!StartRelease(t, l)
            BY <3>2, K42Reads
        <3>3. CASE K42!Exchange(t, l)
            BY <3>3, K42Exchange
        <3>4. CASE K42!Mark(t, l)
            BY <3>4, K42Mark
        <3>5. CASE K42!Link(t, l)
            BY <3>5, K42Link
        <3>6. CASE K42!Spin(t, l)
            BY <3>6, K42Spin
        <3>7. CASE K42!Check(t, l)
            BY <3>7, K42Reads
        <3>8. CASE K42!ClearHead(t, l)
            BY <3>8, K42ClearHead
        <3>9. CASE K42!Settle(t, l)
            BY <3>9, K42Reads, K42Settle
        <3>10. CASE K42!AwaitLink(t, l)
            BY <3>10, K42Reads
        <3>11. CASE K42!Adopt(t, l)
            BY <3>11, K42Adopt
        <3>12. CASE K42!Delete(t, l)
            BY <3>12, K42Delete
        <3>13. CASE K42!CompareExchange(t, l)
            BY <3>13, K42Reads, K42CompareExchange
        <3>14. CASE K42!AwaitSuccessor(t, l)
            BY <3>14, K42Reads
        <3>15. CASE K42!Wake(t, l)
            BY <3>15, K42Wake
        <3> QED
            BY <1>2, <3>1, <3>2, <3>3, <3>4, <3>5, <3>6, <3>7, <3>8, <3>9, <3>10, <3>11,
               <3>12, <3>13, <3>14, <3>15 DEF K42!Continue
    <2> QED
        BY <2>1 DEF Fifo!Next
<1> QED
    BY <1>1, <1>2 DEF K42!Next

-----------------------------------------------------------------------------
(***************************************************************************)
(* The program that lock_type.h builds.  LockType is the class picked, and *)
(* the fields of the others are not used.                                  *)
(***************************************************************************)
MCSPicked == LockType = "MCSLock" => MCSInv

CLHPicked == LockType = "CLHLock" => CLHInv

HemPicked == LockType = "HemLock" => HemInv

K42Picked == LockType = "K42Lock" => K42Inv

TicketPicked == LockType = "TicketLock" => TicketInv

ABQLPicked == LockType = "ABQLLock" => ABQLInv

(* The class picked keeps its invariant.                                   *)
PickedInv ==
    /\ LockType \in {"MCSLock", "CLHLock", "HemLock", "K42Lock", "TicketLock", "ABQLLock"}
    /\ MCSPicked
    /\ CLHPicked
    /\ HemPicked
    /\ K42Picked
    /\ TicketPicked
    /\ ABQLPicked

(* A step of the program is one of the class picked.                       *)
LEMMA PickedStep ==
    ASSUME [Next]_vars
    PROVE  /\ LockType' = LockType
           /\ LockType = "MCSLock" => [MCS!Next]_(MCS!vars)
           /\ LockType = "CLHLock" => [CLH!Next]_(CLH!vars)
           /\ LockType = "HemLock" => [Hem!Next]_(Hem!vars)
           /\ LockType = "K42Lock" => [K42!Next]_(K42!vars)
           /\ LockType = "TicketLock" => [Ticket!Next]_(Ticket!vars)
           /\ LockType = "ABQLLock" => [ABQL!Next]_(ABQL!vars)
PROOF
<1>1. CASE UNCHANGED vars
    <2>1. LockType' = LockType /\ UNCHANGED callerVars
        BY <1>1 DEF vars
    <2>2. UNCHANGED MCS!vars
        BY <1>1 DEF vars, callerVars, mcsFields, MCS!vars, MCS!callerVars, MCS!mcsVars
    <2>3. UNCHANGED CLH!vars
        BY <1>1 DEF vars, callerVars, clhFields, CLH!vars, CLH!callerVars, CLH!clhVars
    <2>4. UNCHANGED Hem!vars
        BY <1>1 DEF vars, callerVars, hemFields, Hem!vars, Hem!callerVars, Hem!hemVars
    <2>5. UNCHANGED K42!vars
        BY <1>1 DEF vars, callerVars, k42Fields, K42!vars, K42!callerVars, K42!k42Vars
    <2>6. UNCHANGED Ticket!vars
        BY <1>1 DEF vars, callerVars, ticketFields, Ticket!vars, Ticket!callerVars, Ticket!ticketVars
    <2>7. UNCHANGED ABQL!vars
        BY <1>1 DEF vars, callerVars, abqlFields, ABQL!vars, ABQL!callerVars, ABQL!abqlVars
    <2> QED
        BY <2>1, <2>2, <2>3, <2>4, <2>5, <2>6, <2>7
<1>2. ASSUME NEW t \in Threads, NEW l \in Locks,
             StartAcquire(t, l) \/ StartRelease(t, l) \/ Continue(t, l)
      PROVE  /\ LockType' = LockType
             /\ LockType = "MCSLock" =>
                    MCS!StartAcquire(t, l) \/ MCS!StartRelease(t, l) \/ MCS!Continue(t, l)
             /\ LockType = "CLHLock" =>
                    CLH!StartAcquire(t, l) \/ CLH!StartRelease(t, l) \/ CLH!Continue(t, l)
             /\ LockType = "HemLock" =>
                    Hem!StartAcquire(t, l) \/ Hem!StartRelease(t, l) \/ Hem!Continue(t, l)
             /\ LockType = "K42Lock" =>
                    K42!StartAcquire(t, l) \/ K42!StartRelease(t, l) \/ K42!Continue(t, l)
             /\ LockType = "TicketLock" =>
                    Ticket!StartAcquire(t, l) \/ Ticket!StartRelease(t, l) \/ Ticket!Continue(t, l)
             /\ LockType = "ABQLLock" =>
                    ABQL!StartAcquire(t, l) \/ ABQL!StartRelease(t, l) \/ ABQL!Continue(t, l)
    BY <1>2 DEF StartAcquire, StartRelease, Continue,
                IsMCS, IsCLH, IsHem, IsK42, IsTicket, IsABQL
<1>3. CASE Next
    <2>1. PICK t \in Threads, l \in Locks :
              StartAcquire(t, l) \/ StartRelease(t, l) \/ Continue(t, l)
        BY <1>3 DEF Next
    <2> QED
        BY <1>2, <2>1 DEF MCS!Next, CLH!Next, Hem!Next, K42!Next, Ticket!Next, ABQL!Next
<1> QED
    BY <1>1, <1>3

(* MCSLock keeps its invariant in the program too, where it makes the      *)
(* steps of FifoLock.                                                      *)
LEMMA MCSKept ==
    ASSUME OneAtATime, MCSPicked, [Next]_vars
    PROVE  MCSPicked' /\ (LockType = "MCSLock" => [Fifo!Next]_(Fifo!vars))
PROOF
<1>1. LockType' = LockType /\ (LockType = "MCSLock" => [MCS!Next]_(MCS!vars))
    BY PickedStep
<1>2. CASE LockType = "MCSLock"
    <2>1. MCSInv /\ [MCS!Next]_(MCS!vars)
        BY <1>1, <1>2 DEF MCSPicked
    <2>2. MCSInv' /\ [Fifo!Next]_(Fifo!vars)
        BY <2>1, MCSNext
    <2> QED
        BY <2>2 DEF MCSPicked
<1>3. CASE LockType # "MCSLock"
    BY <1>1, <1>3 DEF MCSPicked
<1> QED
    BY <1>2, <1>3

(* CLHLock keeps its invariant in the program too, where it makes the      *)
(* steps of FifoLock.                                                      *)
LEMMA CLHKept ==
    ASSUME OneAtATime, CLHPicked, [Next]_vars
    PROVE  CLHPicked' /\ (LockType = "CLHLock" => [Fifo!Next]_(Fifo!vars))
PROOF
<1>1. LockType' = LockType /\ (LockType = "CLHLock" => [CLH!Next]_(CLH!vars))
    BY PickedStep
<1>2. CASE LockType = "CLHLock"
    <2>1. CLHInv /\ [CLH!Next]_(CLH!vars)
        BY <1>1, <1>2 DEF CLHPicked
    <2>2. CLHInv' /\ [Fifo!Next]_(Fifo!vars)
        BY <2>1, CLHNext
    <2> QED
        BY <2>2 DEF CLHPicked
<1>3. CASE LockType # "CLHLock"
    BY <1>1, <1>3 DEF CLHPicked
<1> QED
    BY <1>2, <1>3

(* HemLock keeps its invariant in the program too, where it makes the      *)
(* steps of FifoLock.                                                      *)
LEMMA HemKept ==
    ASSUME HemPicked, [Next]_vars
    PROVE  HemPicked' /\ (LockType = "HemLock" => [Fifo!Next]_(Fifo!vars))
PROOF
<1>1. LockType' = LockType /\ (LockType = "HemLock" => [Hem!Next]_(Hem!vars))
    BY PickedStep
<1>2. CASE LockType = "HemLock"
    <2>1. HemInv /\ [Hem!Next]_(Hem!vars)
        BY <1>1, <1>2 DEF HemPicked
    <2>2. HemInv' /\ [Fifo!Next]_(Fifo!vars)
        BY <2>1, HemNext
    <2> QED
        BY <2>2 DEF HemPicked
<1>3. CASE LockType # "HemLock"
    BY <1>1, <1>3 DEF HemPicked
<1> QED
    BY <1>2, <1>3

(* K42Lock keeps its invariant in the program too, where it makes the      *)
(* steps of FifoLock.                                                      *)
LEMMA K42Kept ==
    ASSUME K42Picked, [Next]_vars
    PROVE  K42Picked' /\ (LockType = "K42Lock" => [Fifo!Next]_(Fifo!vars))
PROOF
<1>1. LockType' = LockType /\ (LockType = "K42Lock" => [K42!Next]_(K42!vars))
    BY PickedStep
<1>2. CASE LockType = "K42Lock"
    <2>1. K42Inv /\ [K42!Next]_(K42!vars)
        BY <1>1, <1>2 DEF K42Picked
    <2>2. K42Inv' /\ [Fifo!Next]_(Fifo!vars)
        BY <2>1, K42Next
    <2> QED
        BY <2>2 DEF K42Picked
<1>3. CASE LockType # "K42Lock"
    BY <1>1, <1>3 DEF K42Picked
<1> QED
    BY <1>2, <1>3

(* TicketLock keeps its invariant in the program too, where it makes the   *)
(* steps of FifoLock.                                                      *)
LEMMA TicketKept ==
    ASSUME TicketPicked, [Next]_vars
    PROVE  TicketPicked' /\ (LockType = "TicketLock" => [Fifo!Next]_(Fifo!vars))
PROOF
<1>1. LockType' = LockType /\ (LockType = "TicketLock" => [Ticket!Next]_(Ticket!vars))
    BY PickedStep
<1>2. CASE LockType = "TicketLock"
    <2>1. TicketInv /\ [Ticket!Next]_(Ticket!vars)
        BY <1>1, <1>2 DEF TicketPicked
    <2>2. TicketInv' /\ [Fifo!Next]_(Fifo!vars)
        BY <2>1, TicketNext
    <2> QED
        BY <2>2 DEF TicketPicked
<1>3. CASE LockType # "TicketLock"
    BY <1>1, <1>3 DEF TicketPicked
<1> QED
    BY <1>2, <1>3

(* ABQLLock keeps its invariant in the program too, where it makes the     *)
(* steps of FifoLock.                                                      *)
LEMMA ABQLKept ==
    ASSUME OneAtATime, NoWrap, ABQLPicked, [Next]_vars
    PROVE  ABQLPicked' /\ (LockType = "ABQLLock" => [Fifo!Next]_(Fifo!vars))
PROOF
<1>1. LockType' = LockType /\ (LockType = "ABQLLock" => [ABQL!Next]_(ABQL!vars))
    BY PickedStep
<1>2. CASE LockType = "ABQLLock"
    <2>1. ABQLInv /\ [ABQL!Next]_(ABQL!vars)
        BY <1>1, <1>2 DEF ABQLPicked
    <2>2. ABQLInv' /\ [Fifo!Next]_(Fifo!vars)
        BY <2>1, ABQLNext
    <2> QED
        BY <2>2 DEF ABQLPicked
<1>3. CASE LockType # "ABQLLock"
    BY <1>1, <1>3 DEF ABQLPicked
<1> QED
    BY <1>2, <1>3

(***************************************************************************)
(* MCSLock: the links from node to node are the line, and the tail is its  *)
(* last, but for the windows of threads that have exchanged and not        *)
(* linked. No wake-up goes to a node whose thread is not the next in line. *)
(***************************************************************************)
THEOREM NodesInOrder ==
    ASSUME OneAtATime
    PROVE  Spec => []NodesFollowQueue
PROOF
<1>1. Init => MCSPicked
    BY MCSInitially DEF Init, MCSPicked
<1>2. MCSPicked /\ [Next]_vars => MCSPicked'
    BY MCSKept
<1>3. MCSPicked => NodesFollowQueue
    BY MCSFollows DEF MCSPicked, NodesFollowQueue
<1> QED
    BY <1>1, <1>2, <1>3, PTL DEF Spec

(***************************************************************************)
(* CLHLock: no node is in two hands, however the nodes travel between      *)
(* threads and locks.                                                      *)
(***************************************************************************)
THEOREM NodesNeverShared ==
    ASSUME OneAtATime
    PROVE  Spec => []NodesNotShared
PROOF
<1>1. Init => CLHPicked
    BY CLHInitially DEF Init, CLHPicked
<1>2. CLHPicked /\ [Next]_vars => CLHPicked'
    BY CLHKept
<1>3. CLHPicked => NodesNotShared
    BY CLHFollows DEF CLHPicked, NodesNotShared
<1> QED
    BY <1>1, <1>2, <1>3, PTL DEF Spec

(***************************************************************************)
(* HemLock: the assertions in hem.h hold, with locks nested to any depth.  *)
(***************************************************************************)
THEOREM AssertionsNeverFail == Spec => []AssertionsHold
PROOF
<1>1. Init => HemPicked
    BY HemInitially DEF Init, HemPicked
<1>2. HemPicked /\ [Next]_vars => HemPicked'
    BY HemKept
<1>3. HemPicked => AssertionsHold
    BY HemFollows DEF HemPicked, AssertionsHold
<1> QED
    BY <1>1, <1>2, <1>3, PTL DEF Spec

(***************************************************************************)
(* HemLock: a thread's Grant field is waited for by one thread at a time   *)
(* for each lock, so a grant is never taken by two.                        *)
(***************************************************************************)
THEOREM GrantNeverContended == Spec => []GrantHasOneTaker
PROOF
<1>1. Init => HemPicked
    BY HemInitially DEF Init, HemPicked
<1>2. HemPicked /\ [Next]_vars => HemPicked'
    BY HemKept
<1>3. HemPicked => GrantHasOneTaker
    BY HemFollows DEF HemPicked, GrantHasOneTaker
<1> QED
    BY <1>1, <1>2, <1>3, PTL DEF Spec

(***************************************************************************)
(* K42Lock: no thread goes to a node that has been deleted, and no field   *)
(* of a lock points to one, wherever new places the nodes and with locks   *)
(* nested to any depth.                                                    *)
(***************************************************************************)
THEOREM DeletedNodesUnused == Spec => []NoUseAfterDelete
PROOF
<1>1. Init => K42Picked
    BY K42Initially DEF Init, K42Picked
<1>2. K42Picked /\ [Next]_vars => K42Picked'
    BY K42Kept
<1>3. K42Picked => NoUseAfterDelete
    BY K42Follows DEF K42Picked, NoUseAfterDelete
<1> QED
    BY <1>1, <1>2, <1>3, PTL DEF Spec

(***************************************************************************)
(* TicketLock: the tickets in line follow one another from the one served, *)
(* also when the counter wraps around, so nobody is passed over and nobody *)
(* is let in with another.                                                 *)
(***************************************************************************)
THEOREM TicketsInOrder == Spec => []TicketsFollowQueue
PROOF
<1>1. Init => TicketPicked
    BY TicketInitially DEF Init, TicketPicked
<1>2. TicketPicked /\ [Next]_vars => TicketPicked'
    BY TicketKept
<1>3. TicketPicked => TicketsFollowQueue
    BY TicketFollows DEF TicketPicked, TicketsFollowQueue
<1> QED
    BY <1>1, <1>2, <1>3, PTL DEF Spec

(***************************************************************************)
(* ABQLLock: the one flag that is up is that of the first in line, as the  *)
(* slots go round the array.                                               *)
(***************************************************************************)
THEOREM FlagIsTheFirsts ==
    ASSUME OneAtATime, NoWrap
    PROVE  Spec => []FlagFollowsQueue
PROOF
<1>1. Init => ABQLPicked
    BY ABQLInitially DEF Init, ABQLPicked
<1>2. ABQLPicked /\ [Next]_vars => ABQLPicked'
    BY ABQLKept
<1>3. ABQLPicked => FlagFollowsQueue
    BY ABQLFollows DEF ABQLPicked, FlagFollowsQueue
<1> QED
    BY <1>1, <1>2, <1>3, PTL DEF Spec

(***************************************************************************)
(* All of it together: the inductive invariant of the program.             *)
(***************************************************************************)
THEOREM Invariance ==
    ASSUME OneAtATime, NoWrap
    PROVE  Spec => []PickedInv
PROOF
<1>1. Init => PickedInv
    BY MCSInitially, CLHInitially, HemInitially, K42Initially, TicketInitially, ABQLInitially
       DEF Init, PickedInv, MCSPicked, CLHPicked, HemPicked, K42Picked, TicketPicked, ABQLPicked
<1>2. PickedInv /\ [Next]_vars => PickedInv'
    BY PickedStep, MCSKept, CLHKept, HemKept, K42Kept, TicketKept, ABQLKept DEF PickedInv
<1> QED
    BY <1>1, <1>2, PTL DEF Spec

(***************************************************************************)
(* Every field of the class picked keeps its type: nodes, slots and        *)
(* tickets of the class, and no others.                                    *)
(***************************************************************************)
THEOREM TypeCorrect ==
    ASSUME OneAtATime, NoWrap
    PROVE  Spec => []TypeOK
PROOF
<1>1. PickedInv => TypeOK
    BY MCSFollows, CLHFollows, HemFollows, K42Follows, TicketFollows, ABQLFollows
       DEF TypeOK, PickedInv, MCSPicked, CLHPicked, HemPicked, K42Picked, TicketPicked, ABQLPicked
<1> QED
    BY <1>1, Invariance, PTL

(***************************************************************************)
(* Whichever class was picked, at most one thread is inside a lock.        *)
(***************************************************************************)
THEOREM OneInside ==
    ASSUME OneAtATime, NoWrap
    PROVE  Spec => [](\A l \in Locks, t, u \in Threads :
                          l \in held[t] /\ l \in held[u] => t = u)
PROOF
<1>1. PickedInv => LineInv
    BY DEF PickedInv, MCSPicked, CLHPicked, HemPicked, K42Picked, TicketPicked, ABQLPicked,
           MCSInv, CLHInv, HemInv, K42Inv, TicketInv, ABQLInv,
           MCSPlaces, CLHPlaces, HemPlaces, K42Places, TicketPlaces, ABQLPlaces
<1>2. PickedInv => \A l \in Locks, t, u \in Threads :
                       l \in held[t] /\ l \in held[u] => t = u
    BY <1>1, OneHolder
<1> QED
    BY <1>2, Invariance, PTL

(***************************************************************************)
(* First come, first served: the program implements FifoLock, whichever    *)
(* class was picked. A lock is taken by the threads in the order of their  *)
(* doorway steps, by one at a time, and is only given up by the one that   *)
(* has it.                                                                 *)
(***************************************************************************)
THEOREM FirstComeFirstServed ==
    ASSUME OneAtATime, NoWrap
    PROVE  Spec => KeepsFifo
PROOF
<1>1. Init => Fifo!Init
    BY LinesEmpty DEF Init
<1>2. PickedInv /\ [Next]_vars => [Fifo!Next]_(Fifo!vars)
    BY MCSKept, CLHKept, HemKept, K42Kept, TicketKept, ABQLKept DEF PickedInv
<1> QED
    BY <1>1, <1>2, Invariance, PTL DEF Spec, KeepsFifo, Fifo!Spec
=============================================================================
