------------------------- MODULE ShieldClientProofs -------------------------
(***************************************************************************)
(* What the proofs about the shields share: the effect on the client's     *)
(* variables of the steps that every shielded call is made of, and the     *)
(* relation between a lock's flag and the holds of the threads.            *)
(***************************************************************************)
EXTENDS ShieldClient, TLAPS

(* The flag of a lock is up exactly for the thread that holds it.          *)
OwnerHolds ==
    \A l \in Locks, t \in Threads : owner[l] = t <=> depth[t][l] > 0

(* A step of t leaves the calls and holds of the others alone.             *)
ClientFrame(t) ==
    \A s \in Threads \ {t} :
        /\ depth'[s] = depth[s] /\ pc'[s] = pc[s]
        /\ arg'[s] = arg[s] /\ status'[s] = status[s]

(***************************************************************************)
(* What the invariant says of a thread and a lock outside the table code:  *)
(* the count the table should hold, by where the call of the thread is.    *)
(***************************************************************************)
LEMMA ExpectedByPlace ==
    \A t \in Threads, l \in Locks :
        /\ arg[t] # l => Expected(t, l) = depth[t][l]
        /\ pc[t] \in {"idle", "lock_fn", "unlock_first", "aborted"}
               => Expected(t, l) = depth[t][l]
        /\ arg[t] = l /\ pc[t] \in {"increment", "unlock_fn", "exited"}
               => Expected(t, l) = depth[t][l] - 1
        /\ arg[t] = l /\ pc[t] = "decrement" => Expected(t, l) = depth[t][l] + 1
PROOF
    BY DEF Expected

(* Where a call goes on: nothing else of the threads changes.              *)
LEMMA GotoEffect ==
    ASSUME NEW t \in Threads, NEW l \in Locks, NEW place \in PCs,
           ClientTypeOK, Goto(t, l, place)
    PROVE  /\ pc' \in [Threads -> PCs] /\ arg' \in [Threads -> Locks]
           /\ pc'[t] = place /\ arg'[t] = l
           /\ \A s \in Threads \ {t} : pc'[s] = pc[s] /\ arg'[s] = arg[s]
PROOF
    BY DEF Goto, ClientTypeOK

(* A call returns its status.                                              *)
LEMMA ReturnEffect ==
    ASSUME NEW t \in Threads, NEW l \in Locks, NEW s \in Statuses,
           ClientTypeOK, Return(t, l, s)
    PROVE  /\ pc' \in [Threads -> PCs] /\ arg' \in [Threads -> Locks]
           /\ status' \in [Threads -> Statuses]
           /\ pc'[t] = "idle" /\ arg'[t] = l /\ status'[t] = s
           /\ \A u \in Threads \ {t} :
                  pc'[u] = pc[u] /\ arg'[u] = arg[u] /\ status'[u] = status[u]
PROOF
<1>1. "idle" \in PCs /\ Goto(t, l, "idle")
    BY DEF PCs, Return
<1>2. status' = [status EXCEPT ![t] = s]
    BY DEF Return
<1> QED
    BY <1>1, <1>2, GotoEffect DEF ClientTypeOK

(***************************************************************************)
(* lock_fn and unlock_fn change the owner of one lock and the depth of one *)
(* thread together (TASLock::Acquire, TASLock::Release).                   *)
(***************************************************************************)
LEMMA FlagRaised ==
    ASSUME NEW t \in Threads, NEW l \in Locks, ClientTypeOK, OwnerHolds,
           owner[l] = NoThread, owner' = [owner EXCEPT ![l] = t],
           depth' = [depth EXCEPT ![t][l] = @ + 1]
    PROVE  /\ owner' \in [Locks -> Threads \cup {NoThread}]
           /\ depth' \in [Threads -> [Locks -> Nat]] /\ depth'[t][l] = 1
           /\ \A m \in Locks \ {l} : depth'[t][m] = depth[t][m]
           /\ \A s \in Threads \ {t} : depth'[s] = depth[s]
           /\ OwnerHolds'
PROOF
<1>1. \A s \in Threads : depth[s][l] = 0
    BY ClientAssumption DEF ClientTypeOK, OwnerHolds
<1>2. /\ owner' \in [Locks -> Threads \cup {NoThread}]
      /\ depth' \in [Threads -> [Locks -> Nat]] /\ depth'[t][l] = 1
      /\ \A m \in Locks \ {l} : depth'[t][m] = depth[t][m]
      /\ \A s \in Threads \ {t} : depth'[s] = depth[s]
    BY <1>1 DEF ClientTypeOK
<1>3. owner'[l] = t /\ \A m \in Locks \ {l} : owner'[m] = owner[m]
    BY DEF ClientTypeOK
<1>4. ASSUME NEW m \in Locks, NEW s \in Threads
      PROVE  owner'[m] = s <=> depth'[s][m] > 0
    <2>1. owner[m] = s <=> depth[s][m] > 0
        BY DEF OwnerHolds
    <2>2. CASE m = l
        BY <1>1, <1>2, <1>3, <2>2
    <2>3. CASE m # l
        BY <1>2, <1>3, <2>1, <2>3
    <2> QED
        BY <2>2, <2>3
<1> QED
    BY <1>2, <1>4 DEF OwnerHolds

(* The holder's unlock_fn leaves the lock to nobody.                       *)
LEMMA FlagCleared ==
    ASSUME NEW t \in Threads, NEW l \in Locks, ClientTypeOK, OwnerHolds,
           depth[t][l] = 1, ClearFlag(t, l)
    PROVE  /\ owner' \in [Locks -> Threads \cup {NoThread}]
           /\ depth' \in [Threads -> [Locks -> Nat]] /\ depth'[t][l] = 0
           /\ \A m \in Locks \ {l} : depth'[t][m] = depth[t][m]
           /\ \A s \in Threads \ {t} : depth'[s] = depth[s]
           /\ OwnerHolds'
PROOF
<1>1. owner[l] = t
    BY DEF OwnerHolds
<1>2. \A s \in Threads \ {t} : depth[s][l] = 0
    BY <1>1 DEF ClientTypeOK, OwnerHolds
<1>3. /\ owner' \in [Locks -> Threads \cup {NoThread}]
      /\ depth' \in [Threads -> [Locks -> Nat]] /\ depth'[t][l] = 0
      /\ \A m \in Locks \ {l} : depth'[t][m] = depth[t][m]
      /\ \A s \in Threads \ {t} : depth'[s] = depth[s]
    BY DEF ClientTypeOK, ClearFlag
<1>4. owner'[l] = NoThread /\ \A m \in Locks \ {l} : owner'[m] = owner[m]
    BY DEF ClientTypeOK, ClearFlag
<1>5. ASSUME NEW m \in Locks, NEW s \in Threads
      PROVE  owner'[m] = s <=> depth'[s][m] > 0
    <2>1. owner[m] = s <=> depth[s][m] > 0
        BY DEF OwnerHolds
    <2>2. CASE m = l
        BY <1>2, <1>3, <1>4, <2>2, ClientAssumption
    <2>3. CASE m # l
        BY <1>3, <1>4, <2>1, <2>3
    <2> QED
        BY <2>2, <2>3
<1> QED
    BY <1>3, <1>5 DEF OwnerHolds

(* A step of t decides no call but its own.                                *)
LEMMA DecidedElsewhere ==
    ASSUME NEW t \in Threads,
           \A u \in Threads \ {t} : pc'[u] = pc[u] /\ status'[u] = status[u]
    PROVE  decided' = [decided EXCEPT ![t] = decided'[t]]
PROOF
    BY DEF decided
=============================================================================
