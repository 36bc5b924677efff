--------------------------- MODULE LockBenchProofs ---------------------------
(***************************************************************************)
(* Proofs about LockBench, for any number of threads and iterations.       *)
(*                                                                         *)
(* The benchmark makes only calls of HybridShield's, so every theorem of   *)
(* HybridShieldProofs holds of it.  What is its own, the two rounds of the *)
(* barrier and the shares of the iterations, has an inductive invariant in *)
(* three parts: who has been started, who has reached which barrier, and   *)
(* how far each share has been worked off.                                 *)
(***************************************************************************)
EXTENDS LockBench, HybridShieldProofs, FiniteSetTheorems

(* The threads that main starts.                                           *)
Team == 0 .. (num_threads - 1)

BarrierTypeOK ==
    /\ main \in {"arguments", "starting", "joining", "returned", "failed", "trapped"}
    /\ num_threads \in ThreadArguments \cup {0}
    /\ place \in [Threads -> Places]
    /\ i \in [Threads -> (0 .. WARMUP_ITERATIONS) \cup (0 .. NUM_ITERATION)]
    /\ call \in [Threads -> {"acquire", "release", "next"}]
    /\ arrived \in 0 .. MaxThreads
    /\ round \in 0 .. 2
    /\ joined \in [Threads -> 0 .. 1]
    /\ performed \in [Iterations -> Nat]

Warming == {"unborn", "warmup"}
PastShare == {"second_barrier", "end_clock", "finished"}

(* The threads that have come to the first, and to the second barrier.     *)
AtFirst == { t \in Team : place[t] \notin Warming }
AtSecond == { t \in Team : place[t] \in PastShare }

(* Nothing happens before main has read its argument, and only the threads *)
(* it asks for are started.                                                *)
TeamInOrder ==
    /\ main = "arguments" => num_threads = 0
    /\ \A t \in Threads : place[t] # "unborn" => t < num_threads

(* In each round the barrier counts those who have come to it, and there   *)
(* is one missing; in the last round everybody has come to both.           *)
FirstRound ==
    /\ round = 0
    /\ arrived = Cardinality(AtFirst)
    /\ num_threads > 0 => arrived < num_threads
    /\ \A t \in AtFirst : place[t] = "barrier" /\ joined[t] = 0

SecondRound ==
    /\ round = 1
    /\ num_threads > 0
    /\ AtFirst = Team
    /\ arrived = Cardinality(AtSecond)
    /\ arrived < num_threads
    /\ \A t \in AtSecond : place[t] = "second_barrier" /\ joined[t] = 1

BothRoundsOver ==
    /\ round = 2
    /\ num_threads > 0
    /\ AtSecond = Team

BarrierInOrder == FirstRound \/ SecondRound \/ BothRoundsOver

Share(t) == start_iter(t) .. (end_iter(t) - 1)

(* The first iteration of its share that a thread has not performed.       *)
Frontier(t) ==
    IF place[t] = "timed" THEN i[t]
    ELSE IF place[t] \in PastShare THEN end_iter(t) ELSE start_iter(t)

(* Where the counter of the loop may be, and that the body is under way    *)
(* only inside the loop.                                                   *)
LoopInOrder(t) ==
    /\ place[t] = "unborn" => i[t] = 0
    /\ place[t] = "timed" => t < num_threads /\ i[t] \in start_iter(t) .. end_iter(t)
    /\ call[t] # "acquire" => Looping(t)

SharesInOrder ==
    /\ \A t \in Team : \A k \in Share(t) :
           performed[k] = IF k < Frontier(t) THEN 1 ELSE 0
    /\ num_threads <= 0 => \A k \in Iterations : performed[k] = 0

BenchInv ==
    /\ BarrierTypeOK
    /\ TeamInOrder
    /\ BarrierInOrder
    /\ \A t \in Threads : LoopInOrder(t)
    /\ SharesInOrder

-----------------------------------------------------------------------------
(***************************************************************************)
(* The division of NUM_ITERATION: a natural number of iterations each, and *)
(* no more than there are (iterations_per_thread).                         *)
(***************************************************************************)
LEMMA Quotient ==
    ASSUME NEW a \in Nat, NEW n \in Nat \ {0}
    PROVE  /\ a \div n \in Nat
           /\ n * (a \div n) <= a
           /\ a < n * (a \div n) + n
PROOF
    OBVIOUS

(* Multiplying by a natural number keeps an order.                         *)
LEMMA Multiples ==
    ASSUME NEW a \in Nat, NEW b \in Nat, NEW c \in Nat, a <= b
    PROVE  a * c \in Nat /\ b * c \in Nat /\ a * c <= b * c
PROOF
    OBVIOUS

(***************************************************************************)
(* The team is a set of Threads, and has num_threads members.              *)
(***************************************************************************)
LEMMA TeamFacts ==
    BarrierTypeOK =>
        /\ Threads \subseteq Nat
        /\ num_threads \in Int
        /\ num_threads <= MaxThreads
        /\ Team \subseteq Threads
        /\ IsFiniteSet(Team)
        /\ num_threads > 0 => num_threads \in Nat \ {0} /\ Cardinality(Team) = num_threads
        /\ num_threads <= 0 => Team = {}
        /\ \A t \in Threads : t \in Team <=> t < num_threads
PROOF
<1> SUFFICES ASSUME BarrierTypeOK
             PROVE  /\ Threads \subseteq Nat /\ num_threads \in Int
                    /\ num_threads <= MaxThreads
                    /\ Team \subseteq Threads /\ IsFiniteSet(Team)
                    /\ num_threads > 0 =>
                           num_threads \in Nat \ {0} /\ Cardinality(Team) = num_threads
                    /\ num_threads <= 0 => Team = {}
                    /\ \A t \in Threads : t \in Team <=> t < num_threads
    OBVIOUS
<1> USE BenchAssumption DEF BarrierTypeOK, ThreadArguments, Team
<1>1. num_threads \in Int /\ num_threads <= MaxThreads /\ Threads \subseteq Nat
    OBVIOUS
<1>2. IsFiniteSet(Team)
    BY <1>1, FS_Interval
<1>3. num_threads > 0 => Cardinality(Team) = num_threads
    BY <1>1, FS_Interval
<1> QED
    BY <1>1, <1>2, <1>3

(***************************************************************************)
(* A share lies within the iterations (start_iter, end_iter).              *)
(***************************************************************************)
LEMMA ShareBounds ==
    BarrierTypeOK =>
        \A t \in Team :
            /\ iterations_per_thread \in Nat
            /\ start_iter(t) \in Nat
            /\ end_iter(t) \in Nat
            /\ start_iter(t) <= end_iter(t)
            /\ end_iter(t) <= NUM_ITERATION
            /\ Share(t) \subseteq Iterations
PROOF
<1> SUFFICES ASSUME BarrierTypeOK, NEW t \in Team
             PROVE  /\ iterations_per_thread \in Nat
                    /\ start_iter(t) \in Nat /\ end_iter(t) \in Nat
                    /\ start_iter(t) <= end_iter(t) /\ end_iter(t) <= NUM_ITERATION
                    /\ Share(t) \subseteq Iterations
    OBVIOUS
<1> DEFINE q == iterations_per_thread
           n == num_threads
<1>1. n \in Nat \ {0} /\ t \in Nat /\ t < n /\ NUM_ITERATION \in Nat
    BY TeamFacts, BenchAssumption DEF Team
<1>2. q \in Nat /\ n * q <= NUM_ITERATION
    BY <1>1, Quotient DEF iterations_per_thread
<1>3. /\ t * q \in Nat /\ (t + 1) * q \in Nat
      /\ t * q <= (t + 1) * q
      /\ (t + 1) * q <= n * q
    <2>1. t + 1 \in Nat /\ t <= t + 1 /\ t + 1 <= n
        BY <1>1
    <2> QED
        BY <1>1, <1>2, <2>1, Multiples
<1>4. n * q \in Int
    BY <1>1, <1>2
<1>5. (t + 1) * q <= NUM_ITERATION /\ t * q <= NUM_ITERATION
    <2> HIDE DEF q, n
    <2> QED
        BY <1>1, <1>2, <1>3, <1>4
<1> HIDE DEF q
<1>6. /\ start_iter(t) = t * q
      /\ end_iter(t) = IF t = num_threads - 1 THEN NUM_ITERATION ELSE (t + 1) * q
    BY DEF start_iter, end_iter, q
<1>7. /\ start_iter(t) \in Nat /\ end_iter(t) \in Nat
      /\ start_iter(t) <= end_iter(t) /\ end_iter(t) <= NUM_ITERATION
    BY <1>1, <1>3, <1>5, <1>6
<1> QED
    BY <1>1, <1>2, <1>7 DEF Share, Iterations, q

(***************************************************************************)
(* The shares of two threads do not overlap.                               *)
(***************************************************************************)
LEMMA SharesApart ==
    ASSUME BarrierTypeOK, NEW t \in Team, NEW u \in Team,
           NEW k \in Share(t), k \in Share(u)
    PROVE  t = u
PROOF
<1>1. ASSUME NEW a \in Team, NEW b \in Team, a < b
      PROVE  end_iter(a) <= start_iter(b)
    <2> DEFINE q == iterations_per_thread
    <2>1. q \in Nat
        BY ShareBounds
    <2>2. a + 1 \in Nat /\ b \in Nat /\ a + 1 <= b /\ a # num_threads - 1
        BY <1>1, TeamFacts DEF Team
    <2> HIDE DEF q
    <2>3. (a + 1) * q <= b * q
        BY <2>1, <2>2, Multiples
    <2> QED
        BY <2>2, <2>3 DEF end_iter, start_iter, q
<1>2. /\ start_iter(t) \in Nat /\ end_iter(t) \in Nat
      /\ start_iter(u) \in Nat /\ end_iter(u) \in Nat
      /\ t \in Int /\ u \in Int
    BY ShareBounds DEF Team
<1>3. k \in Int /\ k < end_iter(t) /\ start_iter(t) <= k
      /\ k < end_iter(u) /\ start_iter(u) <= k
    BY <1>2 DEF Share
<1>4. ~(t < u)
    <2> SUFFICES ASSUME t < u PROVE FALSE
        OBVIOUS
    <2>1. end_iter(t) <= start_iter(u)
        BY <1>1
    <2> QED
        BY <2>1, <1>2, <1>3
<1>5. ~(u < t)
    <2> SUFFICES ASSUME u < t PROVE FALSE
        OBVIOUS
    <2>1. end_iter(u) <= start_iter(t)
        BY <1>1
    <2> QED
        BY <2>1, <1>2, <1>3
<1> QED
    BY <1>2, <1>4, <1>5

(***************************************************************************)
(* Every iteration is in somebody's share, the remainder of the division   *)
(* in that of the last thread.                                             *)
(***************************************************************************)
LEMMA SharesCover ==
    ASSUME BarrierTypeOK, num_threads > 0, NEW k \in Iterations
    PROVE  \E t \in Team : k \in Share(t)
PROOF
<1> DEFINE q == iterations_per_thread
           n == num_threads
           last == num_threads - 1
<1>1. n \in Nat \ {0} /\ last \in Team /\ last \in Nat /\ Team = 0 .. last
    BY TeamFacts DEF Team
<1>2. k \in Nat /\ k < NUM_ITERATION /\ NUM_ITERATION \in Nat
    BY BenchAssumption DEF Iterations
<1>3. q \in Nat
    BY <1>1, ShareBounds
<1>4. start_iter(last) = last * q /\ end_iter(last) = NUM_ITERATION
    BY DEF start_iter, end_iter
<1>5. last * q \in Nat
    BY <1>1, <1>3, Multiples
<1>6. CASE last * q <= k
    <2>1. k \in Share(last)
        <3> HIDE DEF last, q
        <3> QED
            BY <1>2, <1>4, <1>5, <1>6 DEF Share
    <2> QED
        BY <1>1, <2>1
<1>7. CASE k < last * q
    <2>1. q # 0
        BY <1>1, <1>5, <1>7, <1>2
    <2> DEFINE t == k \div q
    <2>2. t \in Nat /\ q * t <= k /\ k < q * t + q
        BY <1>2, <1>3, <2>1, Quotient
    <2>3. t * q = q * t /\ (t + 1) * q = q * t + q /\ t * q \in Int /\ q * t \in Int
        BY <1>3, <2>2
    <2>4. t < last
        <3> SUFFICES ASSUME last <= t PROVE FALSE
            BY <1>1, <2>2
        <3>1. last * q <= t * q
            BY <1>1, <1>3, <2>2, Multiples
        <3> HIDE DEF last, t, q
        <3> QED
            BY <1>2, <1>5, <1>7, <2>2, <2>3, <3>1
    <2>5. t \in Team /\ t # num_threads - 1
        BY <1>1, <2>2, <2>4
    <2>6. start_iter(t) = t * q /\ end_iter(t) = (t + 1) * q
        BY <2>5 DEF start_iter, end_iter
    <2>7. k \in Share(t)
        <3> HIDE DEF t, q
        <3> QED
            BY <1>2, <1>3, <2>2, <2>3, <2>6 DEF Share
    <2> QED
        BY <2>5, <2>7
<1> QED
    BY <1>2, <1>5, <1>6, <1>7

-----------------------------------------------------------------------------
(***************************************************************************)
(* The shares depend on num_threads only.                                  *)
(***************************************************************************)
LEMMA SameShares ==
    ASSUME num_threads' = num_threads, NEW t
    PROVE  /\ start_iter(t)' = start_iter(t)
           /\ end_iter(t)' = end_iter(t)
           /\ Share(t)' = Share(t)
PROOF
    BY DEF Share, start_iter, end_iter, iterations_per_thread

(***************************************************************************)
(* A step that performs no iteration and moves no frontier keeps the       *)
(* account of the iterations.                                              *)
(***************************************************************************)
LEMMA SameAccount ==
    ASSUME SharesInOrder, num_threads' = num_threads, performed' = performed,
           \A t \in Team : Frontier(t)' = Frontier(t)
    PROVE  SharesInOrder'
PROOF
<1>1. Team' = Team
    BY DEF Team
<1>2. ASSUME NEW t \in Team, NEW k \in Share(t)
      PROVE  performed'[k] = IF k < Frontier(t)' THEN 1 ELSE 0
    BY <1>2 DEF SharesInOrder
<1>3. \A t \in Team' : \A k \in Share(t)' :
          performed'[k] = IF k < Frontier(t)' THEN 1 ELSE 0
    BY <1>1, <1>2, SameShares
<1>4. num_threads' <= 0 => \A k \in Iterations : performed'[k] = 0
    BY DEF SharesInOrder
<1> QED
    BY <1>3, <1>4 DEF SharesInOrder

(***************************************************************************)
(* Nor does a step that leaves a thread's place, counter and call alone    *)
(* change what is known of its loop.                                       *)
(***************************************************************************)
LEMMA SameLoop ==
    ASSUME NEW u \in Threads, LoopInOrder(u), num_threads' = num_threads,
           place'[u] = place[u], i'[u] = i[u],
           call'[u] = call[u] \/ call'[u] = "acquire" \/ Looping(u)
    PROVE  LoopInOrder(u)' /\ Frontier(u)' = Frontier(u)
PROOF
<1>1. start_iter(u)' = start_iter(u) /\ end_iter(u)' = end_iter(u)
    BY SameShares
<1> QED
    BY <1>1 DEF LoopInOrder, Frontier, Looping

(***************************************************************************)
(* Nobody new at a barrier, and nobody who waits in the current round has  *)
(* moved: the rounds stay in order.                                        *)
(***************************************************************************)
LEMMA SameRounds ==
    ASSUME BarrierInOrder,
           num_threads' = num_threads, arrived' = arrived, round' = round,
           AtFirst' = AtFirst, AtSecond' = AtSecond,
           FirstRound => \A u \in AtFirst : place'[u] = place[u] /\ joined'[u] = joined[u],
           SecondRound => \A u \in AtSecond : place'[u] = place[u] /\ joined'[u] = joined[u]
    PROVE  BarrierInOrder'
PROOF
<1>1. Team' = Team
    BY DEF Team
<1>2. CASE FirstRound
    BY <1>2 DEF FirstRound, BarrierInOrder
<1>3. CASE SecondRound
    BY <1>1, <1>3 DEF SecondRound, BarrierInOrder
<1>4. CASE BothRoundsOver
    BY <1>1, <1>4 DEF BothRoundsOver, BarrierInOrder
<1> QED
    BY <1>2, <1>3, <1>4 DEF BarrierInOrder

(***************************************************************************)
(* What a thread's place says of the round (pthread_barrier_wait).         *)
(***************************************************************************)
LEMMA PlaceTellsRound ==
    ASSUME BarrierTypeOK, TeamInOrder, BarrierInOrder, NEW t \in Threads
    PROVE  /\ place[t] # "unborn" => t \in Team /\ num_threads > 0
           /\ place[t] = "warmup" => FirstRound
           /\ place[t] = "barrier" => FirstRound \/ SecondRound
           /\ place[t] \in {"start_clock", "timed"} => SecondRound
           /\ place[t] = "second_barrier" => SecondRound \/ BothRoundsOver
           /\ place[t] \in {"end_clock", "finished"} => BothRoundsOver
PROOF
<1>1. place[t] # "unborn" => t \in Team /\ num_threads > 0
    BY TeamFacts, BenchAssumption DEF TeamInOrder
<1>2. place[t] \in Places
    BY DEF BarrierTypeOK
<1>3. ASSUME FirstRound, t \in Team
      PROVE  place[t] \in {"unborn", "warmup", "barrier"}
    BY <1>3 DEF FirstRound, AtFirst, Warming
<1>4. ASSUME SecondRound, t \in Team
      PROVE  /\ place[t] \notin {"unborn", "warmup"}
             /\ place[t] \in PastShare => place[t] = "second_barrier"
    BY <1>4 DEF SecondRound, AtFirst, AtSecond, Warming
<1>5. ASSUME BothRoundsOver, t \in Team
      PROVE  place[t] \in PastShare
    BY <1>5 DEF BothRoundsOver, AtSecond
<1>6. t \in Team => \/ FirstRound /\ place[t] \in {"unborn", "warmup", "barrier"}
                    \/ SecondRound /\ place[t] \in {"barrier", "start_clock", "timed", "second_barrier"}
                    \/ BothRoundsOver /\ place[t] \in PastShare
    BY <1>2, <1>3, <1>4, <1>5 DEF BarrierInOrder, Places, PastShare
<1> QED
    BY <1>1, <1>2, <1>6 DEF PastShare

-----------------------------------------------------------------------------
(* Before main has read its arguments nothing has been shared out.         *)
LEMMA InitInOrder == BenchInit => BenchInv
PROOF
<1> SUFFICES ASSUME BenchInit PROVE BenchInv
    OBVIOUS
<1>1. BarrierTypeOK
    BY BenchAssumption DEF BenchInit, BarrierTypeOK, Places, ThreadArguments
<1>2. TeamInOrder
    BY DEF BenchInit, TeamInOrder
<1>3. Team = {}
    BY <1>1, TeamFacts DEF BenchInit
<1>4. AtFirst = {} /\ AtSecond = {}
    BY <1>3 DEF AtFirst, AtSecond
<1>5. BarrierInOrder
    BY <1>4, FS_EmptySet DEF BenchInit, BarrierInOrder, FirstRound
<1>6. ASSUME NEW t \in Threads PROVE LoopInOrder(t)
    BY DEF BenchInit, LoopInOrder
<1>7. SharesInOrder
    BY <1>3 DEF BenchInit, SharesInOrder
<1> QED
    BY <1>1, <1>2, <1>5, <1>6, <1>7 DEF BenchInv

(* main computes iterations_per_thread: it rounds down, so the shares fit. *)
LEMMA ReadArgumentsStep ==
    BenchInv /\ ReadArguments => BenchInv'
PROOF
<1> SUFFICES ASSUME BenchInv, ReadArguments PROVE BenchInv'
    OBVIOUS
<1>1. BarrierTypeOK'
    BY BenchAssumption DEF BenchInv, BarrierTypeOK, ReadArguments, ThreadArguments
<1>2. \A t \in Threads : place[t] = "unborn"
    BY TeamFacts DEF BenchInv, TeamInOrder, ReadArguments
<1>3. TeamInOrder'
    BY <1>2 DEF TeamInOrder, ReadArguments, BenchInv
<1>4. Team' \subseteq Threads /\ num_threads' \in Int /\ (num_threads' <= 0 => Team' = {})
    <2>1. TeamFacts'
        BY TeamFacts, PTL
    <2> QED
        BY <1>1, <2>1
<1>5. num_threads = 0 /\ round = 0 /\ performed' = performed
      /\ arrived' = arrived /\ round' = round
      /\ place' = place /\ i' = i /\ call' = call
    BY DEF BenchInv, TeamInOrder, BarrierInOrder, FirstRound, SecondRound, BothRoundsOver,
           ReadArguments
<1>6. Team = {}
    BY <1>5 DEF Team
<1>7. AtFirst' = {} /\ AtFirst = {}
    BY <1>2, <1>4, <1>5, <1>6 DEF AtFirst, Warming
<1>8. BarrierInOrder'
    <2>1. arrived = 0
        BY <1>5, <1>7, FS_EmptySet DEF BenchInv, BarrierInOrder, FirstRound, SecondRound,
                                       BothRoundsOver
    <2> QED
        BY <1>4, <1>5, <1>7, <2>1, FS_EmptySet DEF BarrierInOrder, FirstRound
<1>9. ASSUME NEW t \in Threads PROVE LoopInOrder(t)'
    BY <1>2, <1>5 DEF BenchInv, LoopInOrder, Looping
<1>10. SharesInOrder'
    <2>1. \A k \in Iterations : performed'[k] = 0
        BY <1>5 DEF BenchInv, SharesInOrder
    <2>2. ASSUME NEW t \in Team', NEW k \in Share(t)'
          PROVE  performed'[k] = IF k < Frontier(t)' THEN 1 ELSE 0
        <3>1. /\ start_iter(t)' \in Nat /\ end_iter(t)' \in Nat /\ Share(t)' \subseteq Iterations
            <4>1. ShareBounds'
                BY ShareBounds, PTL
            <4> QED
                BY <1>1, <4>1
        <3>2. Frontier(t)' = start_iter(t)'
            BY <1>2, <1>4, <1>5 DEF Frontier, PastShare
        <3>3. ~(k < start_iter(t)')
            BY <3>1 DEF Share
        <3> QED
            BY <2>1, <3>1, <3>2, <3>3
    <2> QED
        BY <2>1, <2>2 DEF SharesInOrder
<1> QED
    BY <1>1, <1>3, <1>8, <1>9, <1>10 DEF BenchInv

(* main starts a thread with its start and end.                            *)
LEMMA StartThreadStep ==
    ASSUME BenchInv, NEW t \in Threads, StartThread(t)
    PROVE  BenchInv'
PROOF
<1> USE DEF BenchInv
<1>1. /\ num_threads' = num_threads /\ arrived' = arrived /\ round' = round
      /\ i' = i /\ call' = call /\ joined' = joined /\ performed' = performed
      /\ place[t] = "unborn" /\ t < num_threads /\ main = "starting"
      /\ place' = [place EXCEPT ![t] = "warmup"]
      /\ main' \in {"starting", "joining"}
    BY DEF StartThread
<1>2. BarrierTypeOK'
    BY <1>1 DEF BarrierTypeOK, Places
<1>3. TeamInOrder'
    BY <1>1 DEF TeamInOrder, BarrierTypeOK
<1>4. AtFirst' = AtFirst /\ AtSecond' = AtSecond
    BY <1>1, TeamFacts DEF AtFirst, AtSecond, Warming, PastShare, Team, BarrierTypeOK
<1>5. BarrierInOrder'
    <2>1. \A u \in AtFirst \cup AtSecond : place'[u] = place[u]
        BY <1>1, TeamFacts DEF AtFirst, AtSecond, Warming, PastShare, BarrierTypeOK
    <2> QED
        BY <1>1, <1>4, <2>1, SameRounds
<1>6. ASSUME NEW u \in Threads PROVE LoopInOrder(u)' /\ Frontier(u)' = Frontier(u)
    <2>1. CASE u # t
        BY <1>1, <2>1, SameLoop DEF BarrierTypeOK
    <2>2. CASE u = t
        BY <1>1, <2>2, SameShares DEF BarrierTypeOK, LoopInOrder, Looping, Frontier, PastShare
    <2> QED
        BY <2>1, <2>2
<1>7. SharesInOrder'
    BY <1>1, <1>6, TeamFacts, SameAccount
<1> QED
    BY <1>2, <1>3, <1>5, <1>6, <1>7

(***************************************************************************)
(* A step that leaves every thread where it is, and only changes what is   *)
(* left of a loop's body, or where main is.                                *)
(***************************************************************************)
LEMMA SameBench ==
    ASSUME BenchInv, num_threads' = num_threads,
           << place, i, arrived, round, joined, performed >>' =
               << place, i, arrived, round, joined, performed >>,
           main' = main \/ main' = "returned",
           call' \in [Threads -> {"acquire", "release", "next"}],
           \A u \in Threads : \/ call'[u] = call[u] \/ call'[u] = "acquire"
                              \/ Looping(u)
    PROVE  BenchInv'
PROOF
<1> USE DEF BenchInv
<1>1. BarrierTypeOK'
    BY DEF BarrierTypeOK
<1>2. TeamInOrder'
    BY DEF TeamInOrder
<1>3. AtFirst' = AtFirst /\ AtSecond' = AtSecond
    BY DEF AtFirst, AtSecond, Team
<1>4. BarrierInOrder'
    BY <1>3, SameRounds
<1>5. ASSUME NEW u \in Threads PROVE LoopInOrder(u)' /\ Frontier(u)' = Frontier(u)
    BY SameLoop
<1>6. SharesInOrder'
    BY <1>5, TeamFacts, SameAccount
<1> QED
    BY <1>1, <1>2, <1>4, <1>5, <1>6

(* A thread enters one more iteration of its own part.                     *)
LEMMA NextIterationStep ==
    ASSUME BenchInv, NEW t \in Threads, NextIteration(t)
    PROVE  BenchInv'
PROOF
<1> USE DEF BenchInv
<1> DEFINE k0 == i[t]
<1>1. /\ num_threads' = num_threads /\ arrived' = arrived /\ round' = round
      /\ place' = place /\ joined' = joined /\ main' = main
      /\ call[t] = "next"
      /\ call' = [call EXCEPT ![t] = "acquire"]
      /\ i' = [i EXCEPT ![t] = k0 + 1]
      /\ performed' = IF place[t] = "timed"
                      THEN [performed EXCEPT ![k0] = @ + 1] ELSE performed
    BY DEF NextIteration
<1>2. \/ place[t] = "warmup" /\ k0 \in 0 .. (WARMUP_ITERATIONS - 1)
      \/ /\ place[t] = "timed" /\ t \in Team
         /\ k0 \in start_iter(t) .. (end_iter(t) - 1)
    <2>1. Looping(t) /\ k0 \in Nat
        BY <1>1, BenchAssumption DEF LoopInOrder, BarrierTypeOK
    <2>2. CASE place[t] = "warmup"
        BY <2>1, <2>2, BenchAssumption DEF Looping
    <2>3. CASE place[t] = "timed"
        <3>1. t \in Team
            BY <2>3, TeamFacts DEF LoopInOrder
        <3>2. start_iter(t) \in Nat /\ end_iter(t) \in Nat
            BY <3>1, ShareBounds
        <3> QED
            BY <2>1, <2>3, <3>1, <3>2 DEF Looping, LoopInOrder
    <2> QED
        BY <2>1, <2>2, <2>3 DEF Looping
<1>3. place[t] = "timed" =>
          /\ t \in Team /\ k0 \in Share(t) /\ k0 \in Iterations
          /\ k0 + 1 \in start_iter(t) .. end_iter(t) /\ k0 + 1 \in 0 .. NUM_ITERATION
          /\ performed[k0] = 0
    <2> SUFFICES ASSUME place[t] = "timed"
                 PROVE  /\ t \in Team /\ k0 \in Share(t) /\ k0 \in Iterations
                        /\ k0 + 1 \in start_iter(t) .. end_iter(t)
                        /\ k0 + 1 \in 0 .. NUM_ITERATION
                        /\ performed[k0] = 0
        OBVIOUS
    <2>1. t \in Team /\ k0 \in Share(t)
        BY <1>2 DEF Share
    <2>2. /\ start_iter(t) \in Nat /\ end_iter(t) \in Nat
          /\ end_iter(t) <= NUM_ITERATION /\ Share(t) \subseteq Iterations
        BY <2>1, ShareBounds
    <2>3. k0 + 1 \in start_iter(t) .. end_iter(t) /\ k0 + 1 \in 0 .. NUM_ITERATION /\ k0 \in Nat
        BY <1>2, <2>2, BenchAssumption
    <2>4. performed[k0] = 0
        <3>1. performed[k0] = IF k0 < Frontier(t) THEN 1 ELSE 0
            BY <2>1 DEF SharesInOrder
        <3>2. Frontier(t) = k0
            BY DEF Frontier
        <3> QED
            BY <2>3, <3>1, <3>2
    <2> QED
        BY <2>1, <2>2, <2>3, <2>4
<1>4. BarrierTypeOK'
    <2>1. i'[t] \in (0 .. WARMUP_ITERATIONS) \cup (0 .. NUM_ITERATION)
        BY <1>1, <1>2, <1>3, BenchAssumption DEF BarrierTypeOK
    <2>2. i' \in [Threads -> (0 .. WARMUP_ITERATIONS) \cup (0 .. NUM_ITERATION)]
        BY <1>1, <2>1 DEF BarrierTypeOK
    <2>3. performed' \in [Iterations -> Nat]
        BY <1>1, <1>3 DEF BarrierTypeOK
    <2> QED
        BY <1>1, <2>2, <2>3 DEF BarrierTypeOK
<1>5. TeamInOrder'
    BY <1>1 DEF TeamInOrder
<1>6. BarrierInOrder'
    <2>1. AtFirst' = AtFirst /\ AtSecond' = AtSecond
        BY <1>1 DEF AtFirst, AtSecond, Team
    <2> QED
        BY <1>1, <2>1, SameRounds
<1>7. ASSUME NEW u \in Threads, u # t PROVE LoopInOrder(u)' /\ Frontier(u)' = Frontier(u)
    BY <1>1, <1>7, SameLoop DEF BarrierTypeOK
<1>8. LoopInOrder(t)'
    <2>1. i'[t] = k0 + 1 /\ call'[t] = "acquire" /\ place[t] # "unborn"
        BY <1>1, <1>2 DEF BarrierTypeOK
    <2> QED
        BY <1>1, <1>3, <2>1, SameShares DEF LoopInOrder
<1>9. SharesInOrder'
    <2>1. CASE place[t] # "timed"
        <3>1. Frontier(t)' = Frontier(t)
            BY <1>1, <2>1, SameShares DEF Frontier
        <3>2. \A u \in Team : Frontier(u)' = Frontier(u)
            BY <1>7, <3>1, TeamFacts
        <3> QED
            BY <1>1, <2>1, <3>2, SameAccount
    <2>2. CASE place[t] = "timed"
        <3>1. Team' = Team
            BY <1>1 DEF Team
        <3>2. performed'[k0] = 1 /\ \A k \in Iterations \ {k0} : performed'[k] = performed[k]
            BY <1>1, <1>3, <2>2 DEF BarrierTypeOK
        <3>3. ASSUME NEW u \in Team, NEW k \in Share(u)
              PROVE  performed'[k] = IF k < Frontier(u)' THEN 1 ELSE 0
            <4>1. /\ performed[k] = IF k < Frontier(u) THEN 1 ELSE 0
                  /\ k \in Iterations /\ k \in Int /\ k0 \in Int
                BY <1>3, <2>2, ShareBounds DEF SharesInOrder, Iterations
            <4>2. CASE u # t
                <5>1. k # k0
                    BY <1>3, <2>2, <4>2, SharesApart
                <5> QED
                    BY <1>7, <3>2, <4>1, <4>2, <5>1, TeamFacts
            <4>3. CASE u = t
                <5>1. Frontier(u)' = k0 + 1 /\ Frontier(u) = k0
                    BY <1>1, <2>2, <4>3 DEF Frontier, BarrierTypeOK
                <5> QED
                    BY <3>2, <4>1, <5>1
            <4> QED
                BY <4>2, <4>3
        <3>4. \A u \in Team' : \A k \in Share(u)' :
                  performed'[k] = IF k < Frontier(u)' THEN 1 ELSE 0
            BY <1>1, <3>1, <3>3, SameShares
        <3>5. num_threads' > 0
            BY <1>1, <1>3, <2>2, TeamFacts
        <3> QED
            BY <3>4, <3>5, <1>1, TeamFacts DEF SharesInOrder
    <2> QED
        BY <2>1, <2>2
<1> QED
    BY <1>4, <1>5, <1>6, <1>7, <1>8, <1>9

-----------------------------------------------------------------------------
(***************************************************************************)
(* A thread that waits at a barrier moves on, or reads a clock: it takes   *)
(* no part in the current round, and its frontier is where it was.         *)
(***************************************************************************)
LEMMA MoveOn ==
    ASSUME BenchInv, NEW t \in Threads, NEW p \in Places \ {"unborn", "warmup"},
           place[t] # "unborn",
           place' = [place EXCEPT ![t] = p],
           << main, num_threads, call, arrived, round, joined, performed >>' =
               << main, num_threads, call, arrived, round, joined, performed >>,
           i' = [i EXCEPT ![t] = i'[t]], i'[t] \in 0 .. NUM_ITERATION \/ i'[t] = i[t],
           AtFirst' = AtFirst, AtSecond' = AtSecond,
           FirstRound => t \notin AtFirst,
           SecondRound => t \notin AtSecond,
           LoopInOrder(t)', Frontier(t)' = Frontier(t)
    PROVE  BenchInv'
PROOF
<1> USE DEF BenchInv
<1>1. BarrierTypeOK'
    BY DEF BarrierTypeOK
<1>2. TeamInOrder'
    BY DEF TeamInOrder, BarrierTypeOK
<1>3. \A u \in Threads \ {t} : place'[u] = place[u] /\ i'[u] = i[u]
    BY DEF BarrierTypeOK
<1>4. BarrierInOrder'
    <2>1. AtFirst \subseteq Threads /\ AtSecond \subseteq Threads
        BY TeamFacts DEF AtFirst, AtSecond
    <2> QED
        BY <1>3, <2>1, SameRounds
<1>5. ASSUME NEW u \in Threads PROVE LoopInOrder(u)' /\ Frontier(u)' = Frontier(u)
    BY <1>3, SameLoop
<1>6. SharesInOrder'
    BY <1>5, TeamFacts, SameAccount
<1> QED
    BY <1>1, <1>2, <1>4, <1>5, <1>6

(* A thread leaves the first barrier wait, for which all had to arrive.    *)
LEMMA LeaveBarrierStep ==
    ASSUME BenchInv, NEW t \in Threads, LeaveBarrier(t)
    PROVE  BenchInv'
PROOF
<1> USE DEF BenchInv
<1>1. /\ place' = [place EXCEPT ![t] = "start_clock"] /\ place[t] = "barrier"
      /\ joined[t] < round
      /\ << main, num_threads, i, call, arrived, round, joined, performed >>' =
             << main, num_threads, i, call, arrived, round, joined, performed >>
    BY DEF LeaveBarrier, MayLeave
<1>2. t \in Team /\ t \in AtFirst /\ t \notin AtSecond
    BY <1>1, PlaceTellsRound DEF AtFirst, AtSecond, Warming, PastShare
<1>3. ~FirstRound
    BY <1>1, <1>2 DEF FirstRound
<1>4. AtFirst' = AtFirst /\ AtSecond' = AtSecond
    BY <1>1, <1>2 DEF AtFirst, AtSecond, Warming, PastShare, Team, BarrierTypeOK
<1>5. LoopInOrder(t)' /\ Frontier(t)' = Frontier(t)
    <2>1. place'[t] = "start_clock"
        BY <1>1 DEF BarrierTypeOK
    <2> QED
        BY <1>1, <2>1, SameShares DEF LoopInOrder, Looping, Frontier, PastShare
<1>6. i' = [i EXCEPT ![t] = i'[t]]
    BY <1>1 DEF BarrierTypeOK
<1> QED
    BY <1>1, <1>2, <1>3, <1>4, <1>5, <1>6, MoveOn DEF Places

(* A thread reads the clock and starts on its share.                       *)
LEMMA ReadStartClockStep ==
    ASSUME BenchInv, NEW t \in Threads, ReadStartClock(t)
    PROVE  BenchInv'
PROOF
<1> USE DEF BenchInv
<1>1. /\ place' = [place EXCEPT ![t] = "timed"] /\ place[t] = "start_clock"
      /\ i' = [i EXCEPT ![t] = start_iter(t)]
      /\ << main, num_threads, call, arrived, round, joined, performed >>' =
             << main, num_threads, call, arrived, round, joined, performed >>
    BY DEF ReadStartClock
<1>2. t \in Team /\ SecondRound /\ t \notin AtSecond
    BY <1>1, PlaceTellsRound DEF AtSecond, PastShare
<1>3. ~FirstRound
    BY <1>2 DEF FirstRound, SecondRound
<1>4. AtFirst' = AtFirst /\ AtSecond' = AtSecond
    BY <1>1, <1>2 DEF AtFirst, AtSecond, Warming, PastShare, Team, BarrierTypeOK
<1>5. /\ start_iter(t) \in Nat /\ end_iter(t) \in Nat
      /\ start_iter(t) <= end_iter(t) /\ end_iter(t) <= NUM_ITERATION
    BY <1>2, ShareBounds
<1>6. place'[t] = "timed" /\ i'[t] = start_iter(t) /\ t < num_threads
    BY <1>1, <1>2, TeamFacts DEF BarrierTypeOK
<1>7. LoopInOrder(t)' /\ Frontier(t)' = Frontier(t)
    BY <1>1, <1>5, <1>6, SameShares DEF LoopInOrder, Looping, Frontier, PastShare
<1>8. i'[t] \in 0 .. NUM_ITERATION
    BY <1>5, <1>6, BenchAssumption
<1>9. i' = [i EXCEPT ![t] = i'[t]]
    BY <1>1, <1>6
<1> QED
    BY <1>1, <1>2, <1>3, <1>4, <1>7, <1>8, <1>9, MoveOn DEF Places

(* A thread leaves the second wait, for which all shares had to be done.   *)
LEMMA LeaveSecondBarrierStep ==
    ASSUME BenchInv, NEW t \in Threads, LeaveSecondBarrier(t)
    PROVE  BenchInv'
PROOF
<1> USE DEF BenchInv
<1>1. /\ place' = [place EXCEPT ![t] = "end_clock"] /\ place[t] = "second_barrier"
      /\ joined[t] < round
      /\ << main, num_threads, i, call, arrived, round, joined, performed >>' =
             << main, num_threads, i, call, arrived, round, joined, performed >>
    BY DEF LeaveSecondBarrier, MayLeave
<1>2. t \in Team /\ t \in AtFirst /\ t \in AtSecond
    BY <1>1, PlaceTellsRound DEF AtFirst, AtSecond, Warming, PastShare
<1>3. ~FirstRound /\ ~SecondRound
    BY <1>1, <1>2, PlaceTellsRound DEF FirstRound, SecondRound
<1>4. AtFirst' = AtFirst /\ AtSecond' = AtSecond
    BY <1>1, <1>2 DEF AtFirst, AtSecond, Warming, PastShare, Team, BarrierTypeOK
<1>5. LoopInOrder(t)' /\ Frontier(t)' = Frontier(t)
    <2>1. place'[t] = "end_clock"
        BY <1>1 DEF BarrierTypeOK
    <2> QED
        BY <1>1, <2>1, SameShares DEF LoopInOrder, Looping, Frontier, PastShare
<1>6. i' = [i EXCEPT ![t] = i'[t]]
    BY <1>1 DEF BarrierTypeOK
<1> QED
    BY <1>1, <1>2, <1>3, <1>4, <1>5, <1>6, MoveOn DEF Places

(* A thread reads the clock again and ends.                                *)
LEMMA ReadEndClockStep ==
    ASSUME BenchInv, NEW t \in Threads, ReadEndClock(t)
    PROVE  BenchInv'
PROOF
<1> USE DEF BenchInv
<1>1. /\ place' = [place EXCEPT ![t] = "finished"] /\ place[t] = "end_clock"
      /\ << main, num_threads, i, call, arrived, round, joined, performed >>' =
             << main, num_threads, i, call, arrived, round, joined, performed >>
    BY DEF ReadEndClock
<1>2. t \in Team /\ BothRoundsOver
    BY <1>1, PlaceTellsRound
<1>3. ~FirstRound /\ ~SecondRound
    BY <1>2 DEF FirstRound, SecondRound, BothRoundsOver
<1>4. AtFirst' = AtFirst /\ AtSecond' = AtSecond
    BY <1>1, <1>2 DEF AtFirst, AtSecond, Warming, PastShare, Team, BarrierTypeOK
<1>5. LoopInOrder(t)' /\ Frontier(t)' = Frontier(t)
    <2>1. place'[t] = "finished"
        BY <1>1 DEF BarrierTypeOK
    <2> QED
        BY <1>1, <2>1, SameShares DEF LoopInOrder, Looping, Frontier, PastShare
<1>6. i' = [i EXCEPT ![t] = i'[t]]
    BY <1>1 DEF BarrierTypeOK
<1> QED
    BY <1>1, <1>2, <1>3, <1>4, <1>5, <1>6, MoveOn DEF Places

(***************************************************************************)
(* Those who have come to a barrier are finitely many, one more makes one  *)
(* more of them, and when they are num_threads they are the whole team.    *)
(***************************************************************************)
LEMMA OneMore ==
    ASSUME BarrierTypeOK, num_threads > 0, NEW S \in SUBSET Team, NEW t \in Team, t \notin S
    PROVE  /\ Cardinality(S) \in Nat
           /\ Cardinality(S \cup {t}) = Cardinality(S) + 1
           /\ Cardinality(S) + 1 <= num_threads
           /\ Cardinality(S) + 1 = num_threads => S \cup {t} = Team
PROOF
<1>1. IsFiniteSet(Team) /\ Cardinality(Team) = num_threads /\ num_threads \in Nat
    BY TeamFacts
<1>2. IsFiniteSet(S)
    BY <1>1, FS_Subset
<1>3. Cardinality(S) \in Nat /\ Cardinality(S \cup {t}) = Cardinality(S) + 1
    BY <1>2, FS_AddElement, FS_CardinalityType
<1>4. S \cup {t} \in SUBSET Team
    OBVIOUS
<1>5. /\ Cardinality(S \cup {t}) <= Cardinality(Team)
      /\ Cardinality(Team) = Cardinality(S \cup {t}) => Team = S \cup {t}
    BY <1>1, <1>4, FS_Subset
<1> QED
    BY <1>1, <1>3, <1>5

(* A thread whose warm-up is done arrives at the barrier.                  *)
LEMMA WarmedUpStep ==
    ASSUME BenchInv, NEW t \in Threads, WarmedUp(t)
    PROVE  BenchInv'
PROOF
<1> USE DEF BenchInv
<1>1. /\ place' = [place EXCEPT ![t] = "barrier"] /\ place[t] = "warmup"
      /\ joined' = [joined EXCEPT ![t] = round]
      /\ << main, num_threads, i, call, performed >>' =
             << main, num_threads, i, call, performed >>
      /\ ~Looping(t)
      /\ IF arrived + 1 = num_threads
         THEN arrived' = 0 /\ round' = round + 1
         ELSE arrived' = arrived + 1 /\ round' = round
    BY DEF WarmedUp, Arrive, BarrierCount
<1>2. t \in Team /\ num_threads > 0 /\ FirstRound /\ num_threads \in Nat
    BY <1>1, PlaceTellsRound, TeamFacts
<1>3. t \notin AtFirst /\ AtFirst \in SUBSET Team /\ t \notin AtSecond
    BY <1>1 DEF AtFirst, AtSecond, Warming, PastShare
<1>4. /\ round = 0 /\ arrived = Cardinality(AtFirst) /\ arrived \in Nat
      /\ arrived + 1 <= num_threads
      /\ Cardinality(AtFirst \cup {t}) = arrived + 1
      /\ arrived + 1 = num_threads => AtFirst \cup {t} = Team
    BY <1>2, <1>3, OneMore DEF FirstRound
<1>5. /\ AtFirst' = AtFirst \cup {t} /\ AtSecond = {} /\ AtSecond' = {}
      /\ Team' = Team
    <2>1. Team' = Team /\ Team \subseteq Threads
        BY <1>1, TeamFacts DEF Team
    <2>2. \A u \in Team : place'[u] = IF u = t THEN "barrier" ELSE place[u]
        BY <1>1, <2>1 DEF BarrierTypeOK
    <2>3. AtFirst' = AtFirst \cup {t}
        BY <1>2, <2>1, <2>2 DEF AtFirst, Warming
    <2>4. AtSecond = {}
        <3>1. ASSUME NEW u \in AtSecond PROVE FALSE
            <4>1. u \in AtFirst
                BY <3>1 DEF AtFirst, AtSecond, Warming, PastShare
            <4> QED
                BY <1>2, <3>1, <4>1 DEF FirstRound, AtSecond, PastShare
        <3> QED
            BY <3>1
    <2>5. AtSecond' = {}
        BY <2>1, <2>2, <2>4 DEF AtSecond, PastShare
    <2> QED
        BY <2>1, <2>3, <2>4, <2>5
<1>6. BarrierTypeOK'
    <2>1. num_threads <= MaxThreads
        BY TeamFacts
    <2>2. arrived' \in 0 .. MaxThreads /\ round' \in 0 .. 1
        BY <1>1, <1>2, <1>4, <2>1, BenchAssumption
    <2> QED
        BY <1>1, <1>4, <2>2 DEF BarrierTypeOK, Places
<1>7. TeamInOrder'
    BY <1>1 DEF TeamInOrder, BarrierTypeOK
<1>8. BarrierInOrder'
    <2>1. CASE arrived + 1 = num_threads
        <3>1. SecondRound'
            BY <1>1, <1>2, <1>4, <1>5, <2>1, FS_EmptySet DEF SecondRound
        <3> QED
            BY <3>1 DEF BarrierInOrder
    <2>2. CASE arrived + 1 # num_threads
        <3>1. \A u \in AtFirst' : place'[u] = "barrier" /\ joined'[u] = 0
            <4>1. AtFirst \subseteq Threads
                BY <1>3, TeamFacts
            <4> QED
                BY <1>1, <1>2, <1>4, <1>5, <4>1 DEF FirstRound, BarrierTypeOK
        <3>2. FirstRound'
            BY <1>1, <1>2, <1>4, <1>5, <2>2, <3>1 DEF FirstRound
        <3> QED
            BY <3>2 DEF BarrierInOrder
    <2> QED
        BY <2>1, <2>2
<1>9. ASSUME NEW u \in Threads PROVE LoopInOrder(u)' /\ Frontier(u)' = Frontier(u)
    <2>1. CASE u # t
        BY <1>1, <2>1, SameLoop DEF BarrierTypeOK
    <2>2. CASE u = t
        <3>1. place'[t] = "barrier"
            BY <1>1 DEF BarrierTypeOK
        <3> QED
            BY <1>1, <2>2, <3>1, SameShares DEF LoopInOrder, Frontier, PastShare
    <2> QED
        BY <2>1, <2>2
<1>10. SharesInOrder'
    BY <1>1, <1>9, TeamFacts, SameAccount
<1> QED
    BY <1>6, <1>7, <1>8, <1>9, <1>10

(* A thread whose share is done arrives at the barrier again.              *)
LEMMA ShareDoneStep ==
    ASSUME BenchInv, NEW t \in Threads, ShareDone(t)
    PROVE  BenchInv'
PROOF
<1> USE DEF BenchInv
<1>1. /\ place' = [place EXCEPT ![t] = "second_barrier"] /\ place[t] = "timed"
      /\ joined' = [joined EXCEPT ![t] = round]
      /\ << main, num_threads, i, call, performed >>' =
             << main, num_threads, i, call, performed >>
      /\ ~Looping(t)
      /\ IF arrived + 1 = num_threads
         THEN arrived' = 0 /\ round' = round + 1
         ELSE arrived' = arrived + 1 /\ round' = round
    BY DEF ShareDone, Arrive, BarrierCount
<1>2. t \in Team /\ num_threads > 0 /\ SecondRound /\ num_threads \in Nat
    BY <1>1, PlaceTellsRound, TeamFacts
<1>3. t \notin AtSecond /\ AtSecond \in SUBSET Team /\ t \in AtFirst
    BY <1>1, <1>2 DEF AtFirst, AtSecond, Warming, PastShare
<1>4. /\ round = 1 /\ arrived = Cardinality(AtSecond) /\ arrived \in Nat
      /\ arrived + 1 <= num_threads
      /\ Cardinality(AtSecond \cup {t}) = arrived + 1
      /\ arrived + 1 = num_threads => AtSecond \cup {t} = Team
    BY <1>2, <1>3, OneMore DEF SecondRound
<1>5. AtFirst' = AtFirst /\ AtSecond' = AtSecond \cup {t} /\ Team' = Team
    <2>1. Team' = Team /\ Team \subseteq Threads
        BY <1>1, TeamFacts DEF Team
    <2>2. \A u \in Team : place'[u] = IF u = t THEN "second_barrier" ELSE place[u]
        BY <1>1, <2>1 DEF BarrierTypeOK
    <2> QED
        BY <1>1, <1>2, <2>1, <2>2 DEF AtFirst, AtSecond, Warming, PastShare
<1>6. BarrierTypeOK'
    <2>1. num_threads <= MaxThreads
        BY TeamFacts
    <2>2. arrived' \in 0 .. MaxThreads /\ round' \in 0 .. 2
        BY <1>1, <1>2, <1>4, <2>1, BenchAssumption
    <2> QED
        BY <1>1, <1>4, <2>2 DEF BarrierTypeOK, Places
<1>7. TeamInOrder'
    BY <1>1 DEF TeamInOrder, BarrierTypeOK
<1>8. BarrierInOrder'
    <2>1. CASE arrived + 1 = num_threads
        <3>1. BothRoundsOver'
            BY <1>1, <1>2, <1>4, <1>5, <2>1 DEF BothRoundsOver
        <3> QED
            BY <3>1 DEF BarrierInOrder
    <2>2. CASE arrived + 1 # num_threads
        <3>1. \A u \in AtSecond' : place'[u] = "second_barrier" /\ joined'[u] = 1
            <4>1. AtSecond \subseteq Threads
                BY <1>3, TeamFacts
            <4> QED
                BY <1>1, <1>2, <1>4, <1>5, <4>1 DEF SecondRound, BarrierTypeOK
        <3>2. SecondRound'
            BY <1>1, <1>2, <1>4, <1>5, <2>2, <3>1 DEF SecondRound
        <3> QED
            BY <3>2 DEF BarrierInOrder
    <2> QED
        BY <2>1, <2>2
<1>9. ASSUME NEW u \in Threads PROVE LoopInOrder(u)' /\ Frontier(u)' = Frontier(u)
    <2>1. CASE u # t
        BY <1>1, <2>1, SameLoop DEF BarrierTypeOK
    <2>2. CASE u = t
        <3>1. place'[t] = "second_barrier"
            BY <1>1 DEF BarrierTypeOK
        <3>2. i[t] = end_iter(t)
            <4>1. start_iter(t) \in Nat /\ end_iter(t) \in Nat
                BY <1>2, ShareBounds
            <4> QED
                BY <1>1, <4>1 DEF LoopInOrder, Looping
        <3> QED
            BY <1>1, <2>2, <3>1, <3>2, SameShares DEF LoopInOrder, Frontier, PastShare
    <2> QED
        BY <2>1, <2>2
<1>10. SharesInOrder'
    BY <1>1, <1>9, TeamFacts, SameAccount
<1> QED
    BY <1>6, <1>7, <1>8, <1>9, <1>10

-----------------------------------------------------------------------------
(***************************************************************************)
(* Each action of the benchmark is a step of LS_HYBRID's specification or  *)
(* leaves the shield and its lock alone.                                   *)
(***************************************************************************)
LEMMA BenchStepIsShieldStep == [BenchNext]_allVars => [Next]_vars
PROOF
<1> SUFFICES ASSUME [BenchNext]_allVars PROVE [Next]_vars
    OBVIOUS
<1>1. CASE UNCHANGED allVars
    BY <1>1 DEF allVars
<1>2. CASE MainStep
    BY <1>2 DEF MainStep, ReadArguments, StartThread, JoinThreads, vars
<1>3. ASSUME NEW t \in Threads, test_thread(t) PROVE [Next]_vars
    <2>1. lock \in Locks /\ FALSE \in BOOLEAN
        BY BenchAssumption
    <2>2. CASE Acquire(t)
        <3>1. LS_ACQUIRE(t, lock, FALSE)
            BY <2>2 DEF Acquire
        <3> QED
            BY <2>1, <3>1 DEF Next
    <2>3. CASE Release(t)
        <3>1. LS_RELEASE(t, lock, FALSE)
            BY <2>3 DEF Release
        <3> QED
            BY <2>1, <3>1 DEF Next
    <2>4. CASE ShieldStep(t)
        <3>1. \/ LockFn(t, lock) /\ UNCHANGED tableVars
              \/ AfterLockFn(t, lock)
              \/ UnlockFirst(t, lock) /\ UNCHANGED tableVars
              \/ AfterUnlockFn(t, lock)
            BY <2>4 DEF ShieldStep
        <3> QED
            BY <2>1, <3>1 DEF Next
    <2>5. CASE \/ NextIteration(t) \/ WarmedUp(t) \/ LeaveBarrier(t) \/ ReadStartClock(t)
              \/ ShareDone(t) \/ LeaveSecondBarrier(t) \/ ReadEndClock(t)
        <3>1. UNCHANGED vars
            BY <2>5 DEF NextIteration, WarmedUp, LeaveBarrier, ReadStartClock, ShareDone,
                        LeaveSecondBarrier, ReadEndClock
        <3> QED
            BY <3>1
    <2> QED
        BY <1>3, <2>2, <2>3, <2>4, <2>5 DEF test_thread
<1> QED
    BY <1>1, <1>2, <1>3 DEF BenchNext

(***************************************************************************)
(* The benchmark runs LS_HYBRID as its callers are supposed to: all that   *)
(* HybridShieldProofs says of the shield holds of every benchmark run.     *)
(***************************************************************************)
THEOREM BenchRunsTheShield == BenchSpec => Spec
PROOF
<1>1. BenchInit => Init
    BY DEF BenchInit
<1>2. [BenchNext]_allVars => [Next]_vars
    BY BenchStepIsShieldStep
<1> QED
    BY <1>1, <1>2, PTL DEF BenchSpec, BenchSafety, Spec

(***************************************************************************)
(* Every step of main and of the threads keeps the benchmark's invariant.  *)
(***************************************************************************)
LEMMA BenchNextKeepsBenchInv == BenchInv /\ [BenchNext]_allVars => BenchInv'
PROOF
<1> SUFFICES ASSUME BenchInv, [BenchNext]_allVars PROVE BenchInv'
    OBVIOUS
<1>1. ASSUME UNCHANGED benchVars PROVE BenchInv'
    BY <1>1, SameBench DEF benchVars, BenchInv, BarrierTypeOK
<1>2. CASE UNCHANGED allVars
    BY <1>1, <1>2 DEF allVars
<1>3. CASE ReadArguments
    BY <1>3, ReadArgumentsStep
<1>4. CASE \E t \in Threads : StartThread(t)
    BY <1>4, StartThreadStep
<1>5. CASE JoinThreads
    BY <1>5, SameBench DEF JoinThreads, BenchInv, BarrierTypeOK
<1>6. ASSUME NEW t \in Threads, test_thread(t) PROVE BenchInv'
    <2>1. CASE Acquire(t) \/ Release(t)
        <3>1. /\ Looping(t)
              /\ \/ call' = [call EXCEPT ![t] = "release"]
                 \/ call' = [call EXCEPT ![t] = "next"]
              /\ << main, num_threads, place, i, arrived, round, joined, performed >>' =
                     << main, num_threads, place, i, arrived, round, joined, performed >>
            BY <2>1 DEF Acquire, Release, BenchInv, LoopInOrder
        <3>2. /\ call' \in [Threads -> {"acquire", "release", "next"}]
              /\ \A u \in Threads \ {t} : call'[u] = call[u]
            BY <3>1 DEF BenchInv, BarrierTypeOK
        <3> QED
            BY <3>1, <3>2, SameBench
    <2>2. CASE NextIteration(t)
        BY <2>2, NextIterationStep
    <2>3. CASE ShieldStep(t)
        BY <1>1, <2>3 DEF ShieldStep
    <2>4. CASE WarmedUp(t)
        BY <2>4, WarmedUpStep
    <2>5. CASE LeaveBarrier(t)
        BY <2>5, LeaveBarrierStep
    <2>6. CASE ReadStartClock(t)
        BY <2>6, ReadStartClockStep
    <2>7. CASE ShareDone(t)
        BY <2>7, ShareDoneStep
    <2>8. CASE LeaveSecondBarrier(t)
        BY <2>8, LeaveSecondBarrierStep
    <2>9. CASE ReadEndClock(t)
        BY <2>9, ReadEndClockStep
    <2> QED
        BY <1>6, <2>1, <2>2, <2>3, <2>4, <2>5, <2>6, <2>7, <2>8, <2>9 DEF test_thread
<1> QED
    BY <1>2, <1>3, <1>4, <1>5, <1>6 DEF BenchNext, MainStep

(* The shares, the barrier and the iterations done stay tied together in   *)
(* every behaviour of the benchmark, for any number of threads and         *)
(* iterations.                                                             *)
THEOREM BenchInvariance == BenchSpec => []BenchInv
PROOF
<1>1. BenchInit => BenchInv
    BY InitInOrder
<1>2. BenchInv /\ [BenchNext]_allVars => BenchInv'
    BY BenchNextKeepsBenchInv
<1> QED
    BY <1>1, <1>2, PTL DEF BenchSpec, BenchSafety

(***************************************************************************)
(* Every variable of the benchmark keeps its type, the shield's included:  *)
(* the barrier never counts more than two rounds.                          *)
(***************************************************************************)
THEOREM BenchTypeCorrect ==
    ASSUME ~MixFlags
    PROVE  BenchSpec => []BenchTypeOK
PROOF
<1>1. BenchInv /\ TypeOK => BenchTypeOK
    BY DEF BenchInv, BarrierTypeOK, BenchTypeOK
<1> QED
    BY <1>1, BenchInvariance, BenchRunsTheShield, TypeCorrect, PTL

(***************************************************************************)
(* For any number of threads, nobody reads its start clock while another   *)
(* warms up, nor its end clock while another is in the timed loop: the two *)
(* rounds of my_barrier do not run into each other.                        *)
(***************************************************************************)
THEOREM BarriersHold == BenchSpec => []PartsKeptApart
PROOF
<1>1. BenchInv => PartsKeptApart
    <2> SUFFICES ASSUME BenchInv, NEW t \in Team, NEW u \in Team
                 PROVE  /\ place[t] \in {"start_clock", "timed"} =>
                               place[u] \notin {"unborn", "warmup"}
                        /\ place[t] \in {"end_clock", "finished"} =>
                               place[u] \in {"second_barrier", "end_clock", "finished"}
        BY DEF PartsKeptApart, Team
    <2>1. t \in Threads /\ u \in Threads
        BY TeamFacts DEF BenchInv
    <2>2. place[t] \in {"start_clock", "timed"} => u \in AtFirst
        BY <2>1, PlaceTellsRound DEF BenchInv, SecondRound
    <2>3. place[t] \in {"end_clock", "finished"} => u \in AtSecond
        BY <2>1, PlaceTellsRound DEF BenchInv, BothRoundsOver
    <2> QED
        BY <2>2, <2>3 DEF AtFirst, AtSecond, Warming, PastShare
<1> QED
    BY <1>1, BenchInvariance, PTL

(***************************************************************************)
(* For any number of threads and iterations, each iteration has been done  *)
(* exactly once when the throughput is computed, and never twice.          *)
(***************************************************************************)
THEOREM IterationsShared == BenchSpec => []EachIterationOnce
PROOF
<1>1. BenchInv => EachIterationOnce
    <2> SUFFICES ASSUME BenchInv, NEW k \in Iterations
                 PROVE  /\ performed[k] <= 1
                        /\ \A t \in Team :
                               place[t] \in {"end_clock", "finished"} => performed[k] = 1
        BY DEF EachIterationOnce, Team
    <2>1. BarrierTypeOK /\ SharesInOrder
        BY DEF BenchInv
    <2>2. CASE num_threads <= 0
        BY <2>1, <2>2, TeamFacts DEF SharesInOrder
    <2>3. CASE num_threads > 0
        <3>1. PICK u \in Team : k \in Share(u)
            BY <2>1, <2>3, SharesCover
        <3>2. performed[k] = IF k < Frontier(u) THEN 1 ELSE 0
            BY <2>1, <3>1 DEF SharesInOrder
        <3>3. ASSUME NEW t \in Team, place[t] \in {"end_clock", "finished"}
              PROVE  performed[k] = 1
            <4>1. u \in AtSecond
                BY <2>1, <3>3, TeamFacts, PlaceTellsRound DEF BenchInv, BothRoundsOver
            <4>2. Frontier(u) = end_iter(u)
                BY <4>1 DEF AtSecond, Frontier, PastShare
            <4>3. start_iter(u) \in Nat /\ end_iter(u) \in Nat
                BY <2>1, ShareBounds
            <4>4. k < end_iter(u)
                BY <3>1, <4>3 DEF Share
            <4> QED
                BY <3>2, <4>2, <4>4
        <3> QED
            BY <3>2, <3>3
    <2>4. num_threads \in Int
        BY <2>1, TeamFacts
    <2> QED
        BY <2>2, <2>3, <2>4
<1> QED
    BY <1>1, BenchInvariance, PTL
=============================================================================
