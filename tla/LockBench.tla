----------------------------- MODULE LockBench -----------------------------
(***************************************************************************)
(* lock_bench.cpp built for LS_HYBRID: main starts num_threads threads,    *)
(* each warms the lock up, waits for the others at a pthread barrier,      *)
(* reads the clock, does its share of NUM_ITERATION shielded acquisitions  *)
(* and releases, waits again and reads the clock.  Thread 0 then divides   *)
(* NUM_ITERATION by its own two readings.                                  *)
(*                                                                         *)
(* Every acquisition and release is a call of HybridShield's, on the one   *)
(* global lock and never reentrant.                                        *)
(***************************************************************************)
EXTENDS HybridShield

CONSTANTS
    lock,               \* the global lock
    MaxThreads,         \* bound on num_threads
    NUM_ITERATION,
    WARMUP_ITERATIONS

ASSUME BenchAssumption ==
    /\ Locks = {lock}
    /\ MaxThreads \in Nat
    /\ Threads = 0 .. (MaxThreads - 1)
    /\ NUM_ITERATION \in Nat
    /\ WARMUP_ITERATIONS \in Nat

VARIABLES
    main,           \* where main is
    num_threads,    \* argv[1], 0 until it is read
    place,          \* place[t]: the part of test_thread that t is in
    i,              \* i[t]: the counter of the loop that t is in
    call,           \* call[t]: what is left of the loop's body
    arrived,        \* my_barrier: threads waiting in the current round
    round,          \* my_barrier: rounds completed
    joined,         \* joined[t]: the round that t waits for the end of
    performed       \* performed[k]: times iteration k was completed (history)

benchVars ==
    << main, num_threads, place, i, call, arrived, round, joined, performed >>

allVars == << vars, benchVars >>

Places ==
    { "unborn", "warmup", "barrier", "start_clock", "timed",
      "second_barrier", "end_clock", "finished" }

(* What stoi makes of argv[1]; -1 stands for every negative number.        *)
ThreadArguments == -1 .. MaxThreads

Iterations == 0 .. (NUM_ITERATION - 1)

-----------------------------------------------------------------------------
iterations_per_thread == NUM_ITERATION \div num_threads

start_iter(t) == t * iterations_per_thread

(* Mutant: nobody does the remainder of the division.                      *)
end_iter_NoRemainder(t) == (t + 1) * iterations_per_thread

end_iter(t) ==
    IF t = num_threads - 1 THEN NUM_ITERATION ELSE (t + 1) * iterations_per_thread

(* Mutant: a share includes end_iter.                                      *)
Looping_OnceMore(t) ==
    \/ place[t] = "warmup" /\ i[t] < WARMUP_ITERATIONS
    \/ place[t] = "timed" /\ i[t] <= end_iter(t)

Looping(t) ==
    \/ place[t] = "warmup" /\ i[t] < WARMUP_ITERATIONS
    \/ place[t] = "timed" /\ i[t] < end_iter(t)

(* Mutant: the barrier is set up for one thread too few.                   *)
BarrierCount_OneShort == num_threads - 1

(* The count my_barrier is initialised with.                               *)
BarrierCount == num_threads

(* pthread_barrier_wait: the thread that makes the round complete wakes    *)
(* the others, who leave in their own time.                                *)
Arrive(t, at) ==
    /\ place' = [place EXCEPT ![t] = at]
    /\ joined' = [joined EXCEPT ![t] = round]
    /\ IF arrived + 1 = BarrierCount
       THEN arrived' = 0 /\ round' = round + 1
       ELSE arrived' = arrived + 1 /\ UNCHANGED round

MayLeave(t) == joined[t] < round

-----------------------------------------------------------------------------
BenchInit ==
    /\ Init
    /\ main = "arguments"
    /\ num_threads = 0
    /\ place = [t \in Threads |-> "unborn"]
    /\ i = [t \in Threads |-> 0]
    /\ call = [t \in Threads |-> "acquire"]
    /\ arrived = 0
    /\ round = 0
    /\ joined = [t \in Threads |-> 0]
    /\ performed = [k \in Iterations |-> 0]

(* main's arguments: a wrong argc or a word that stoi refuses ends it, a   *)
(* zero traps in the division.  pthread_barrier_init refuses a negative    *)
(* count; main does not look, starts no thread, and destroys a barrier     *)
(* that was never set up, which is undefined.                              *)
ReadArguments ==
    /\ main = "arguments"
    /\ \/ main' = "failed" /\ UNCHANGED num_threads
       \/ \E n \in ThreadArguments :
              /\ num_threads' = n
              /\ \/ n > 0 /\ main' = "starting"
                 \/ n = 0 /\ main' = "trapped"
                 \/ n < 0 /\ main' \in {"returned", "trapped"}
    /\ UNCHANGED << vars, place, i, call, arrived, round, joined, performed >>

(* threads.emplace_back(test_thread, t), in order.                         *)
StartThread(t) ==
    /\ main = "starting"
    /\ place[t] = "unborn"
    /\ t < num_threads
    /\ \A u \in 0 .. (t - 1) : place[u] # "unborn"
    /\ place' = [place EXCEPT ![t] = "warmup"]
    /\ main' = IF t = num_threads - 1 THEN "joining" ELSE main
    /\ UNCHANGED << vars, num_threads, i, call, arrived, round, joined, performed >>

JoinThreads ==
    /\ main = "joining"
    /\ \A t \in 0 .. (num_threads - 1) : place[t] = "finished"
    /\ main' = "returned"
    /\ UNCHANGED << vars, num_threads, place, i, call, arrived, round, joined, performed >>

-----------------------------------------------------------------------------
(* The body of both loops: an acquisition, a release, the next iteration.  *)
Acquire(t) ==
    /\ Looping(t)
    /\ call[t] = "acquire"
    /\ LS_ACQUIRE(t, lock, FALSE)
    /\ call' = [call EXCEPT ![t] = "release"]
    /\ UNCHANGED << main, num_threads, place, i, arrived, round, joined, performed >>

(* Mutant: the warm-up never releases the lock.                            *)
Release_NotInWarmup(t) ==
    /\ call[t] = "release"
    /\ IF place[t] = "warmup" THEN Call(t) /\ UNCHANGED vars
                              ELSE LS_RELEASE(t, lock, FALSE)
    /\ call' = [call EXCEPT ![t] = "next"]
    /\ UNCHANGED << main, num_threads, place, i, arrived, round, joined, performed >>

Release(t) ==
    /\ call[t] = "release"
    /\ LS_RELEASE(t, lock, FALSE)
    /\ call' = [call EXCEPT ![t] = "next"]
    /\ UNCHANGED << main, num_threads, place, i, arrived, round, joined, performed >>

NextIteration(t) ==
    /\ call[t] = "next"
    /\ Call(t)
    /\ call' = [call EXCEPT ![t] = "acquire"]
    /\ i' = [i EXCEPT ![t] = @ + 1]
    /\ performed' = IF place[t] = "timed"
                    THEN [performed EXCEPT ![i[t]] = @ + 1]
                    ELSE performed
    /\ UNCHANGED << vars, main, num_threads, place, arrived, round, joined >>

(* The rest of a shielded call, lock_acquire and lock_release included.    *)
ShieldStep(t) ==
    /\ \/ LockFn(t, lock) /\ UNCHANGED tableVars
       \/ AfterLockFn(t, lock)
       \/ UnlockFirst(t, lock) /\ UNCHANGED tableVars
       \/ AfterUnlockFn(t, lock)
    /\ UNCHANGED benchVars

WarmedUp(t) ==
    /\ place[t] = "warmup"
    /\ ~Looping(t)
    /\ Arrive(t, "barrier")
    /\ UNCHANGED << vars, main, num_threads, i, call, performed >>

LeaveBarrier(t) ==
    /\ place[t] = "barrier"
    /\ MayLeave(t)
    /\ place' = [place EXCEPT ![t] = "start_clock"]
    /\ UNCHANGED << vars, main, num_threads, i, call, arrived, round, joined, performed >>

(* start = now(), then into the loop.                                      *)
ReadStartClock(t) ==
    /\ place[t] = "start_clock"
    /\ place' = [place EXCEPT ![t] = "timed"]
    /\ i' = [i EXCEPT ![t] = start_iter(t)]
    /\ UNCHANGED << vars, main, num_threads, call, arrived, round, joined, performed >>

ShareDone(t) ==
    /\ place[t] = "timed"
    /\ ~Looping(t)
    /\ Arrive(t, "second_barrier")
    /\ UNCHANGED << vars, main, num_threads, i, call, performed >>

LeaveSecondBarrier(t) ==
    /\ place[t] = "second_barrier"
    /\ MayLeave(t)
    /\ place' = [place EXCEPT ![t] = "end_clock"]
    /\ UNCHANGED << vars, main, num_threads, i, call, arrived, round, joined, performed >>

(* end = now(); thread 0 prints the throughput.                            *)
ReadEndClock(t) ==
    /\ place[t] = "end_clock"
    /\ place' = [place EXCEPT ![t] = "finished"]
    /\ UNCHANGED << vars, main, num_threads, i, call, arrived, round, joined, performed >>

test_thread(t) ==
    \/ Acquire(t)
    \/ Release(t)
    \/ NextIteration(t)
    \/ ShieldStep(t)
    \/ WarmedUp(t)
    \/ LeaveBarrier(t)
    \/ ReadStartClock(t)
    \/ ShareDone(t)
    \/ LeaveSecondBarrier(t)
    \/ ReadEndClock(t)

MainStep == ReadArguments \/ (\E t \in Threads : StartThread(t)) \/ JoinThreads

BenchNext == MainStep \/ \E t \in Threads : test_thread(t)

(* Every thread, main among them, keeps running.  A TAS lock is not fair,  *)
(* and nothing is assumed of it: a thread may find the flag raised each    *)
(* time it looks as long as others still have iterations to do.            *)
Fairness ==
    /\ WF_allVars(MainStep)
    /\ \A t \in Threads : WF_allVars(test_thread(t))

BenchSafety == BenchInit /\ [][BenchNext]_allVars

BenchSpec == BenchSafety /\ Fairness

-----------------------------------------------------------------------------
BenchTypeOK ==
    /\ TypeOK
    /\ main \in {"arguments", "starting", "joining", "returned", "failed", "trapped"}
    /\ num_threads \in ThreadArguments \cup {0}
    /\ place \in [Threads -> Places]
    /\ i \in [Threads -> (0 .. WARMUP_ITERATIONS) \cup (0 .. NUM_ITERATION)]
    /\ call \in [Threads -> {"acquire", "release", "next"}]
    /\ arrived \in 0 .. MaxThreads
    /\ round \in 0 .. 2
    /\ joined \in [Threads -> 0 .. 1]
    /\ performed \in [Iterations -> Nat]

(***************************************************************************)
(* The two barriers keep the parts of the run apart: while one thread      *)
(* still warms up no other has read its start clock, and no thread reads   *)
(* its end clock while another is in the timed loop (test_thread).         *)
(***************************************************************************)
PartsKeptApart ==
    \A t, u \in 0 .. (num_threads - 1) :
        /\ place[t] \in {"start_clock", "timed"} => place[u] \notin {"unborn", "warmup"}
        /\ place[t] \in {"end_clock", "finished"} =>
               place[u] \in {"second_barrier", "end_clock", "finished"}

(***************************************************************************)
(* The throughput is for NUM_ITERATION iterations, and they are done: the  *)
(* shares of the threads do not overlap, and when any thread is past the   *)
(* second barrier each iteration has been performed once (start_iter,      *)
(* end_iter, for any num_threads and with a remainder).                    *)
(***************************************************************************)
EachIterationOnce ==
    \A k \in Iterations :
        /\ performed[k] <= 1
        /\ \A t \in 0 .. (num_threads - 1) :
               place[t] \in {"end_clock", "finished"} => performed[k] = 1

(***************************************************************************)
(* The benchmark ends, for every argument: no thread is left at a barrier  *)
(* or spinning, and the shield never turns one of its calls away.          *)
(***************************************************************************)
BenchmarkEnds == <>(main \in {"returned", "failed", "trapped"})
=============================================================================
