-------------------------- MODULE ArrayTestScenario --------------------------
(***************************************************************************)
(* test_array_reference_counting of tests/test_array_shielding.cpp: one    *)
(* thread makes the test's calls on two locks, in the test's order, with   *)
(* reentrant = true, and MockLock counts the unlock_fn calls of each.      *)
(***************************************************************************)
EXTENDS ArrayShield, Sequences

CONSTANTS lock1, lock2

VARIABLES
    step,           \* the next call of the test
    release_count   \* MockLock's counter of Release calls

scenarioVars == << step, release_count >>

Acquire(l) == [op |-> "LS_ACQUIRE", lock |-> l]
Release(l) == [op |-> "LS_RELEASE", lock |-> l]

Script ==
    << Acquire(lock1), Acquire(lock2), Acquire(lock1), Acquire(lock1),
       Release(lock1), Release(lock1), Release(lock2) >>

(* The call that follows ASSERT_EQ(1, lock1.get_release_count()).          *)
AfterAssertion == 7

ScenarioInit ==
    /\ Init
    /\ step = 1
    /\ release_count = [l \in Locks |-> 0]

MakeCall(t) ==
    /\ step <= Len(Script)
    /\ \/ Script[step].op = "LS_ACQUIRE" /\ LS_ACQUIRE(t, Script[step].lock, TRUE)
       \/ Script[step].op = "LS_RELEASE" /\ LS_RELEASE(t, Script[step].lock, TRUE)
    /\ step' = step + 1
    /\ UNCHANGED release_count

InsideCall(t, l) ==
    /\ \/ LockFn(t, l) /\ UNCHANGED << tableVars, release_count >>
       \/ AfterLockFn(t, l) /\ UNCHANGED release_count
       \/ /\ UnlockFn(t, l)
          /\ release_count' = [release_count EXCEPT ![l] = @ + 1]
          /\ UNCHANGED tableVars
    /\ UNCHANGED step

ScenarioNext ==
    \E t \in Threads : MakeCall(t) \/ \E l \in Locks : InsideCall(t, l)

ScenarioSpec == ScenarioInit /\ [][ScenarioNext]_<< vars, scenarioVars >>

(***************************************************************************)
(* The test's assertion: two of lock1's three holds have been given up,    *)
(* "ref count 1->0, actual release", and unlock_fn has run once.           *)
(***************************************************************************)
Lock1ReleasedOnce ==
    step = AfterAssertion /\ (\A t \in Threads : pc[t] = "idle")
        => release_count[lock1] = 1
=============================================================================
