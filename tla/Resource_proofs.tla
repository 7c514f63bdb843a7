--------------------------- MODULE Resource_proofs ---------------------------
(***************************************************************************)
(* Proofs about Resource for every set of threads, every set of accessor   *)
(* classes and every bound on the outstanding claims.                      *)
(***************************************************************************)
EXTENDS Resource, FiniteSetTheorems, TLAPS

USE ThreadAssumption, WorkerAssumption, AccessorAssumption, MaxCountAssumption

(* The threads blocked counts.                                             *)
Counted == Waiters \cup Woken

(* A thread that goes to wait, or comes back, changes the number of counted *)
(* threads by one; no other thread is counted anew.                         *)
LEMMA CountedFinite ==
    /\ IsFiniteSet(Counted)
    /\ Cardinality(Counted) \in Nat
    /\ Cardinality(Counted) = 0 <=> Counted = {}
PROOF
  <1>1. Counted \subseteq Thread
    BY DEF Counted, Waiters, Woken
  <1>2. IsFiniteSet(Counted)
    BY <1>1, FS_Subset
  <1> QED
    BY <1>2, FS_CardinalityType, FS_EmptySet

(* One more thread is blocked, or woken.                                    *)
LEMMA CountedGrows ==
    ASSUME TypeOK, BlockedExact, NEW t \in Thread, pc[t] = "idle",
           pc' = [pc EXCEPT ![t] = "waiting"], blocked' = blocked + 1
    PROVE  BlockedExact'
PROOF
  <1>1. Counted' = Counted \cup {t} /\ t \notin Counted
    BY DEF TypeOK, Counted, Waiters, Woken
  <1> QED
    BY <1>1, CountedFinite, FS_AddElement DEF BlockedExact, Counted

(* One fewer is.                                                            *)
LEMMA CountedShrinks ==
    ASSUME TypeOK, BlockedExact, NEW t \in Thread, pc[t] = "woken",
           pc' = [pc EXCEPT ![t] = "idle"], blocked' = blocked - 1
    PROVE  BlockedExact'
PROOF
  <1>1. Counted' = Counted \ {t} /\ t \in Counted
    BY DEF TypeOK, Counted, Waiters, Woken
  <1> QED
    BY <1>1, CountedFinite, FS_RemoveElement DEF BlockedExact, Counted

(* As many are, whoever they are.                                           *)
LEMMA CountedSame ==
    ASSUME TypeOK, BlockedExact, NEW t \in Thread, NEW s, NEW v,
           s \in {"waiting", "woken"} <=> v \in {"waiting", "woken"},
           pc[t] = s, pc' = [pc EXCEPT ![t] = v], blocked' = blocked
    PROVE  BlockedExact'
PROOF
  <1>1. Counted' = Counted
    BY DEF TypeOK, Counted, Waiters, Woken
  <1> QED
    BY <1>1 DEF BlockedExact, Counted

(* Someone is counted exactly when blocked is not zero.                     *)
LEMMA CountedIffBlocked ==
    ASSUME TypeOK, BlockedExact
    PROVE  /\ blocked = 0 <=> \A t \in Thread : pc[t] \notin {"waiting", "woken"}
           /\ blocked > 0 <=> \E t \in Thread : pc[t] \in {"waiting", "woken"}
PROOF
  <1>1. Counted = {} <=> \A t \in Thread : pc[t] \notin {"waiting", "woken"}
    BY DEF Counted, Waiters, Woken
  <1>2. blocked = 0 <=> Counted = {}
    BY CountedFinite DEF BlockedExact, Counted
  <1>3. blocked \in Nat
    BY DEF TypeOK
  <1> QED
    BY <1>1, <1>2, <1>3

------------------------------------------------------------------------------
(* Asking for a claim: the two outcomes of the loop in lock(), for a thread *)
(* that comes from outside (n claims of class accessor are outstanding).    *)
LEMMA AcquirePreserves ==
    ASSUME IInv, NEW t \in Thread, NEW c \in Accessor, NEW n \in 0..MaxCount,
           pc[t] = "idle", MayCall(t) \/ HasClaim(t, accessor),
           claimer' = [claimer EXCEPT ![t] = c],
           n = count \/ (n = 0 /\ count > 0),
           Acquire(t, n, accessor, blocked),
           unblock' \in BOOLEAN, unblock => unblock',
           UNCHANGED <<orphaned, destructed, freed>>
    PROVE  IInv'
PROOF
  <1> USE DEF IInv
  <1>t. claimer'[t] = c
    BY DEF TypeOK
  <1>p. n \in Nat /\ count \in Nat /\ blocked \in Nat
    BY DEF TypeOK
  <1>i. ~freed /\ \A u \in Thread : pc[u] # "deleting"
    BY DEF MayCall, HasClaim, DeleteAlone, OnlyDestructed, TypeOK
  <1>1. CASE n # 0 /\ accessor # c
    <2>1. /\ blocked' = blocked + 1 /\ pc' = [pc EXCEPT ![t] = "waiting"]
          /\ count' = n /\ accessor' = accessor
      BY <1>1, <1>t DEF Acquire
    <2>2. TypeOK'
      BY <2>1, <1>p DEF TypeOK
    <2>3. BlockedExact'
      BY <2>1, CountedGrows
    <2>4. NoLostWakeup'
      BY <2>1, <1>1, <1>p DEF NoLostWakeup
    <2>5. DeleteAlone'
      BY <2>1, <1>i DEF DeleteAlone, TypeOK
    <2>6. OrphanNotForgotten' /\ OnlyDestructed'
      BY <2>1, <1>i, <1>p, <1>1 DEF OrphanNotForgotten, OnlyDestructed
    <2> QED
      BY <2>2, <2>3, <2>4, <2>5, <2>6
  <1>2. CASE ~(n # 0 /\ accessor # c)
    <2>1. /\ blocked' = blocked /\ pc' = [pc EXCEPT ![t] = "idle"]
          /\ count' = n + 1 /\ accessor' = c /\ n < MaxCount
      BY <1>2, <1>t DEF Acquire
    <2>2. TypeOK'
      BY <2>1, <1>p DEF TypeOK
    <2>3. BlockedExact'
      BY <2>1, CountedSame
    <2>4. NoLostWakeup'
      BY <2>1, <1>p DEF NoLostWakeup
    <2>5. DeleteAlone'
      BY <2>1, <1>i DEF DeleteAlone, TypeOK
    <2>6. OrphanNotForgotten' /\ OnlyDestructed'
      BY <2>1, <1>i, <1>p DEF OrphanNotForgotten, OnlyDestructed
    <2> QED
      BY <2>2, <2>3, <2>4, <2>5, <2>6
  <1> QED
    BY <1>1, <1>2

(* Giving up the last claim: a waiter is signaled or the orphan is deleted. *)
LEMMA LastClaimGonePreserves ==
    ASSUME IInv, NEW t \in Thread, pc[t] = "idle", ~freed,
           count > 0, count' = 0,
           LastClaimGone(t),
           UNCHANGED <<accessor, blocked, orphaned, destructed, freed, claimer>>
    PROVE  IInv'
PROOF
  <1> USE DEF IInv
  <1>i. \A u \in Thread : pc[u] # "deleting"
    BY DEF DeleteAlone, TypeOK
  <1>p. blocked \in Nat
    BY DEF TypeOK
  <1>1. TypeOK'
    BY DEF TypeOK, LastClaimGone
  <1>2. BlockedExact'
    <2>1. CASE blocked = 0 /\ orphaned
      BY <2>1, CountedSame DEF LastClaimGone
    <2>2. CASE ~(blocked = 0 /\ orphaned)
      BY <2>2, CountedSame DEF LastClaimGone
    <2> QED
      BY <2>1, <2>2
  <1>3. NoLostWakeup'
    <2>1. ASSUME blocked = 0 PROVE Waiters' = {}
      BY <2>1, CountedIffBlocked DEF LastClaimGone, Waiters, TypeOK
    <2>2. ASSUME blocked # 0 PROVE unblock'
      <3>1. blocked > 0
        BY <2>2, <1>p
      <3> QED
        BY <3>1, Zenon DEF LastClaimGone
    <2> QED
      BY <2>1, <2>2 DEF NoLostWakeup
  <1>4. DeleteAlone'
    <2>1. CASE blocked = 0 /\ orphaned
      <3>1. \A u \in Thread : pc[u] = "idle"
        BY <2>1, <1>i, CountedIffBlocked DEF TypeOK
      <3> QED
        BY <2>1, <3>1 DEF DeleteAlone, LastClaimGone, OnlyDestructed, TypeOK
    <2>2. CASE ~(blocked = 0 /\ orphaned)
      BY <2>2, <1>i DEF DeleteAlone, LastClaimGone, TypeOK
    <2> QED
      BY <2>1, <2>2
  <1>5. OrphanNotForgotten' /\ OnlyDestructed'
    BY <1>i, <1>p DEF OrphanNotForgotten, OnlyDestructed, LastClaimGone, TypeOK
  <1> QED
    BY <1>1, <1>2, <1>3, <1>4, <1>5

------------------------------------------------------------------------------
(* lock(claimer): the claim is granted, or the thread starts to wait.       *)
LEMMA LockPreserves ==
    ASSUME IInv, NEW t \in Thread, NEW c \in Accessor, Lock(t, c)
    PROVE  IInv'
PROOF
  <1>1. count \in 0..MaxCount /\ (unblock' \in BOOLEAN) /\ (unblock => unblock')
    BY DEF IInv, TypeOK, Lock
  <1> QED
    BY <1>1, AcquirePreserves DEF Lock, MayCall

(* unlock(): one claim of several, or the last one, is given up.            *)
LEMMA UnlockPreserves ==
    ASSUME IInv, NEW t \in Thread, Unlock(t)
    PROVE  IInv'
PROOF
  <1> USE DEF IInv
  <1>1. pc[t] = "idle" /\ ~freed /\ count > 0 /\ count \in Nat
    BY DEF Unlock, HasClaim, TypeOK
  <1>2. CASE count = 1
    BY <1>1, <1>2, LastClaimGonePreserves DEF Unlock
  <1>3. CASE count # 1
    <2>1. /\ count' = count - 1 /\ count' > 0
          /\ UNCHANGED <<accessor, blocked, unblock, orphaned, destructed, freed,
                         pc, claimer>>
      BY <1>1, <1>3 DEF Unlock
    <2>2. TypeOK' /\ NoLostWakeup' /\ OnlyDestructed'
      BY <2>1 DEF TypeOK, NoLostWakeup, OnlyDestructed, Waiters, Woken
    <2>3. BlockedExact'
      BY <2>1 DEF BlockedExact, Waiters, Woken
    <2>4. DeleteAlone' /\ OrphanNotForgotten'
      BY <1>1, <2>1 DEF DeleteAlone, OrphanNotForgotten, TypeOK
    <2> QED
      BY <2>2, <2>3, <2>4
  <1> QED
    BY <1>2, <1>3

(* A step that changes nothing the invariant speaks of.                     *)
LEMMA StutterPreserves ==
    ASSUME IInv, UNCHANGED vars
    PROVE  IInv'
PROOF
  BY DEF IInv, vars, TypeOK, BlockedExact, NoLostWakeup, DeleteAlone,
         OrphanNotForgotten, OnlyDestructed, Waiters, Woken

(* unlock(relinquisher): all claims of the class are given up.              *)
LEMMA UnlockAllPreserves ==
    ASSUME IInv, NEW t \in Thread, NEW r \in Accessor, UnlockAll(t, r)
    PROVE  IInv'
PROOF
  <1>1. CASE count > 0 /\ accessor = r
    <2>1. pc[t] = "idle" /\ ~freed
      BY DEF UnlockAll, MayCall, HasClaim, IInv, OnlyDestructed, TypeOK
    <2> QED
      BY <1>1, <2>1, LastClaimGonePreserves DEF UnlockAll
  <1>2. CASE ~(count > 0 /\ accessor = r)
    BY <1>2, StutterPreserves DEF UnlockAll, vars
  <1> QED
    BY <1>1, <1>2

(* lock(relinquisher, claimer): claims are given up for one of another class. *)
LEMMA LockRelinquishPreserves ==
    ASSUME IInv, NEW t \in Thread, NEW r \in Accessor, NEW c \in Accessor,
           LockRelinquish(t, r, c)
    PROVE  IInv'
PROOF
  <1> USE DEF IInv
  <1>1. /\ pc[t] = "idle" /\ claimer' = [claimer EXCEPT ![t] = c]
        /\ UNCHANGED <<orphaned, destructed, freed>>
    BY DEF LockRelinquish, MayCall, HasClaim
  <1>2. CASE count > 0 /\ accessor = r
    <2>0. MayCall(t) \/ HasClaim(t, accessor)
      BY <1>2 DEF LockRelinquish
    <2>1. CASE blocked = 0 /\ orphaned
      <3>1. /\ unblock' = (unblock \/ blocked > 0)
            /\ pc' = [pc EXCEPT ![t] = "deleting"] /\ count' = 0
            /\ UNCHANGED <<accessor, blocked>>
        BY <1>2, <2>1 DEF LockRelinquish
      <3>2. /\ ~freed /\ destructed /\ \A u \in Thread : pc[u] = "idle"
        BY <2>0, <2>1, CountedIffBlocked
           DEF MayCall, HasClaim, DeleteAlone, OnlyDestructed, TypeOK
      <3>3. TypeOK'
        BY <1>1, <3>1 DEF TypeOK
      <3>4. BlockedExact'
        BY <1>1, <3>1, CountedSame
      <3>5. NoLostWakeup' /\ DeleteAlone' /\ OrphanNotForgotten' /\ OnlyDestructed'
        BY <1>1, <3>1, <3>2
           DEF NoLostWakeup, DeleteAlone, OrphanNotForgotten, OnlyDestructed,
               Waiters, TypeOK
      <3> QED
        BY <3>3, <3>4, <3>5
    <2>2. CASE ~(blocked = 0 /\ orphaned)
      <3>1. unblock' = (unblock \/ blocked > 0) /\ Acquire(t, 0, accessor, blocked)
        BY <1>2, <2>2 DEF LockRelinquish
      <3>2. (unblock' \in BOOLEAN) /\ (unblock => unblock')
        BY <3>1, Zenon
      <3>3. 0 \in 0..MaxCount
        OBVIOUS
      <3> QED
        BY <1>1, <1>2, <2>0, <3>1, <3>2, <3>3, AcquirePreserves
    <2> QED
      BY <2>1, <2>2
  <1>3. CASE ~(count > 0 /\ accessor = r)
    <2>1. Acquire(t, count, accessor, blocked) /\ unblock' = unblock
      BY <1>3 DEF LockRelinquish
    <2>2. MayCall(t)
      BY <1>3 DEF LockRelinquish, HasClaim
    <2>3. count \in 0..MaxCount /\ (unblock' \in BOOLEAN) /\ (unblock => unblock')
      BY <2>1 DEF TypeOK
    <2> QED
      BY <1>1, <2>1, <2>2, <2>3, AcquirePreserves
  <1> QED
    BY <1>2, <1>3

(* A waiting thread takes the signal of the event.                          *)
LEMMA WakePreserves ==
    ASSUME IInv, NEW t \in Thread, Wake(t)
    PROVE  IInv'
PROOF
  <1> USE DEF IInv
  <1>1. TypeOK'
    BY DEF Wake, TypeOK
  <1>2. BlockedExact'
    BY CountedSame DEF Wake
  <1>3. NoLostWakeup'
    BY DEF Wake, NoLostWakeup, Woken, TypeOK
  <1>4. DeleteAlone' /\ OrphanNotForgotten' /\ OnlyDestructed'
    BY DEF Wake, DeleteAlone, OrphanNotForgotten, OnlyDestructed, TypeOK
  <1> QED
    BY <1>1, <1>2, <1>3, <1>4

(* The woken thread takes its claim or goes back to wait for a claim that   *)
(* another thread has meanwhile been granted.                               *)
LEMMA ReenterPreserves ==
    ASSUME IInv, NEW t \in Thread, Reenter(t)
    PROVE  IInv'
PROOF
  <1> USE DEF IInv
  <1>1. pc[t] = "woken" /\ claimer' = claimer /\ claimer[t] \in Accessor
        /\ UNCHANGED <<unblock, orphaned, destructed, freed>>
    BY DEF Reenter, TypeOK
  <1>2. blocked > 0 /\ blocked \in Nat /\ count \in Nat /\ ~freed
        /\ \A u \in Thread : pc[u] # "deleting"
    BY <1>1, CountedIffBlocked DEF TypeOK, DeleteAlone
  <1>3. CASE count # 0 /\ accessor # claimer[t]
    <2>1. /\ blocked' = (blocked - 1) + 1 /\ pc' = [pc EXCEPT ![t] = "waiting"]
          /\ count' = count /\ accessor' = accessor
      BY <1>1, <1>3 DEF Reenter, Acquire
    <2>2. blocked' = blocked
      BY <1>2, <2>1
    <2>3. TypeOK' /\ NoLostWakeup' /\ OnlyDestructed'
      BY <1>1, <1>2, <1>3, <2>1, <2>2 DEF TypeOK, NoLostWakeup, OnlyDestructed
    <2>4. BlockedExact'
      BY <1>1, <2>1, <2>2, CountedSame
    <2>5. DeleteAlone' /\ OrphanNotForgotten'
      BY <1>1, <1>2, <1>3, <2>1, <2>2 DEF DeleteAlone, OrphanNotForgotten, TypeOK
    <2> QED
      BY <2>3, <2>4, <2>5
  <1>4. CASE ~(count # 0 /\ accessor # claimer[t])
    <2>1. /\ blocked' = blocked - 1 /\ pc' = [pc EXCEPT ![t] = "idle"]
          /\ count' = count + 1 /\ accessor' = claimer[t] /\ count < MaxCount
      BY <1>1, <1>4 DEF Reenter, Acquire
    <2>2. TypeOK' /\ NoLostWakeup' /\ OnlyDestructed'
      BY <1>1, <1>2, <2>1 DEF TypeOK, NoLostWakeup, OnlyDestructed
    <2>3. BlockedExact'
      BY <1>1, <2>1, CountedShrinks
    <2>4. DeleteAlone' /\ OrphanNotForgotten'
      BY <1>1, <1>2, <2>1 DEF DeleteAlone, OrphanNotForgotten, TypeOK
    <2> QED
      BY <2>2, <2>3, <2>4
  <1> QED
    BY <1>3, <1>4

(* destruct(): the resource is deleted at once or left an orphan.           *)
LEMMA DestructPreserves ==
    ASSUME IInv, NEW t \in Thread, Destruct(t)
    PROVE  IInv'
PROOF
  <1> USE DEF IInv
  <1>1. /\ pc[t] = "idle" /\ ~freed /\ destructed' /\ count \in Nat /\ blocked \in Nat
        /\ UNCHANGED <<accessor, count, blocked, unblock, freed, claimer>>
        /\ \A u \in Thread : pc[u] # "deleting"
    BY DEF Destruct, MayCall, OnlyDestructed, DeleteAlone, TypeOK
  <1>2. CASE count = 0 /\ blocked = 0
    <2>1. pc' = [pc EXCEPT ![t] = "deleting"] /\ orphaned' = orphaned
      BY <1>2 DEF Destruct
    <2>2. \A u \in Thread : pc[u] = "idle"
      BY <1>1, <1>2, CountedIffBlocked DEF TypeOK
    <2>3. TypeOK' /\ OnlyDestructed' /\ NoLostWakeup'
      BY <1>1, <2>1, <2>2
         DEF TypeOK, OnlyDestructed, NoLostWakeup, Waiters, Destruct
    <2>4. BlockedExact'
      BY <1>1, <2>1, CountedSame
    <2>5. DeleteAlone' /\ OrphanNotForgotten'
      BY <1>1, <1>2, <2>1, <2>2 DEF DeleteAlone, OrphanNotForgotten, TypeOK
    <2> QED
      BY <2>3, <2>4, <2>5
  <1>3. CASE ~(count = 0 /\ blocked = 0)
    <2>1. orphaned' /\ orphaned' = TRUE /\ pc' = pc
      BY <1>3 DEF Destruct
    <2>2. TypeOK' /\ OnlyDestructed' /\ NoLostWakeup'
      BY <1>1, <2>1
         DEF TypeOK, OnlyDestructed, NoLostWakeup, Waiters, Woken, Destruct
    <2>3. BlockedExact'
      BY <1>1, <2>1 DEF BlockedExact, Waiters, Woken
    <2>4. DeleteAlone' /\ OrphanNotForgotten'
      BY <1>1, <1>3, <2>1 DEF DeleteAlone, OrphanNotForgotten, TypeOK
    <2> QED
      BY <2>2, <2>3, <2>4
  <1> QED
    BY <1>2, <1>3

(* "delete this", outside the critical section.                             *)
LEMMA DeletePreserves ==
    ASSUME IInv, NEW t \in Thread, Delete(t)
    PROVE  IInv'
PROOF
  <1> USE DEF IInv
  <1>1. /\ pc[t] = "deleting" /\ count = 0 /\ destructed
        /\ \A u \in Thread \ {t} : pc[u] = "idle"
    BY DEF Delete, DeleteAlone
  <1>2. TypeOK' /\ OnlyDestructed' /\ NoLostWakeup'
    BY <1>1 DEF Delete, TypeOK, OnlyDestructed, NoLostWakeup, Waiters
  <1>3. BlockedExact'
    BY <1>1, CountedSame DEF Delete
  <1>4. DeleteAlone' /\ OrphanNotForgotten'
    BY <1>1 DEF Delete, DeleteAlone, OrphanNotForgotten, TypeOK
  <1> QED
    BY <1>2, <1>3, <1>4

------------------------------------------------------------------------------
(* The resource as its constructor leaves it.                               *)
LEMMA InitEstablishes == Init => IInv
PROOF
  <1> SUFFICES ASSUME Init PROVE IInv
    OBVIOUS
  <1>1. Waiters \cup Woken = {}
    BY DEF Init, Waiters, Woken
  <1>2. BlockedExact
    BY <1>1, FS_EmptySet DEF BlockedExact, Init
  <1>3. Waiters = {}
    BY <1>1
  <1>4. TypeOK
    <2>1. accessor \in Accessor /\ claimer \in [Thread -> Accessor]
      BY DEF Init
    <2>2. count \in 0..MaxCount /\ blocked \in Nat
      BY DEF Init
    <2>3. unblock \in BOOLEAN /\ orphaned \in BOOLEAN
          /\ destructed \in BOOLEAN /\ freed \in BOOLEAN
      BY DEF Init
    <2>4. pc \in [Thread -> {"idle", "waiting", "woken", "deleting"}]
      BY DEF Init
    <2> QED
      BY <2>1, <2>2, <2>3, <2>4 DEF TypeOK
  <1>5. NoLostWakeup /\ OrphanNotForgotten /\ OnlyDestructed
    BY <1>3 DEF Init, NoLostWakeup, OrphanNotForgotten, OnlyDestructed
  <1>6. DeleteAlone
    BY DEF Init, DeleteAlone
  <1> QED
    BY <1>2, <1>4, <1>5, <1>6 DEF IInv

(* Every step of every thread keeps the invariant.                          *)
LEMMA NextPreserves == IInv /\ [Next]_vars => IInv'
PROOF
  <1> SUFFICES ASSUME IInv, [Next]_vars PROVE IInv'
    OBVIOUS
  <1>1. CASE UNCHANGED vars
    BY <1>1, StutterPreserves
  <1>2. ASSUME NEW t \in Thread, NewClaim(t) PROVE IInv'
    BY <1>2, LockPreserves, LockRelinquishPreserves DEF NewClaim
  <1>3. ASSUME NEW t \in Thread, GiveUp(t) PROVE IInv'
    BY <1>3, UnlockPreserves, UnlockAllPreserves DEF GiveUp
  <1>4. ASSUME NEW t \in Thread, Inside(t) PROVE IInv'
    BY <1>4, WakePreserves, ReenterPreserves, DeletePreserves DEF Inside
  <1>5. ASSUME NEW t \in Thread, Destruct(t) PROVE IInv'
    BY <1>5, DestructPreserves
  <1> QED
    BY <1>1, <1>2, <1>3, <1>4, <1>5 DEF Next, Done

(* The inductive invariant holds in every reachable state.                  *)
THEOREM Invariance == Spec => []IInv
PROOF
  BY InitEstablishes, NextPreserves, PTL DEF Spec

(* Every variable keeps its type; in particular blocked never goes below 0. *)
THEOREM TypeCorrect == Spec => []TypeOK
PROOF
  <1>1. IInv => TypeOK
    BY DEF IInv
  <1> QED
    BY <1>1, Invariance, PTL

(* No wakeup is lost in unlock() and lock(), however many threads wait.     *)
THEOREM WakeupsKept == Spec => [](BlockedExact /\ NoLostWakeup)
PROOF
  <1>1. IInv => BlockedExact /\ NoLostWakeup
    BY DEF IInv
  <1> QED
    BY <1>1, Invariance, PTL

(* A resource is deleted by one thread, when no other is inside a call, and *)
(* an orphaned resource always has someone left who will delete it.         *)
THEOREM DeletedOnceAlone == Spec => [](DeleteAlone /\ OrphanNotForgotten)
PROOF
  <1>1. IInv => DeleteAlone /\ OrphanNotForgotten
    BY DEF IInv
  <1> QED
    BY <1>1, Invariance, PTL

(* The class of the outstanding claims never changes while one of another   *)
(* class is outstanding.                                                    *)
THEOREM ClassesExclusive == Spec => ClassChangesAlone
PROOF
  <1> DEFINE Alone == accessor' # accessor => count' = 1 /\ (count = 0 \/
                 \E t \in Thread, c \in Accessor : LockRelinquish(t, accessor, c))
  <1>1. IInv /\ [Next]_vars => [Alone]_vars
    <2> SUFFICES ASSUME IInv, Next, accessor' # accessor PROVE Alone
      BY DEF vars
    <2>0. count \in Nat
      BY DEF IInv, TypeOK
    <2>1. ASSUME NEW t \in Thread, NEW c \in Accessor, Lock(t, c) PROVE Alone
      BY <2>0, <2>1 DEF Lock, Acquire
    <2>2. ASSUME NEW t \in Thread, NEW r \in Accessor, NEW c \in Accessor,
                 LockRelinquish(t, r, c)
          PROVE Alone
      <3>1. CASE count > 0 /\ accessor = r
        <4>1. count' = 1
          BY <2>2, <3>1 DEF LockRelinquish, Acquire
        <4>2. LockRelinquish(t, accessor, c)
          BY <2>2, <3>1
        <4> QED
          BY <4>1, <4>2
      <3>2. CASE ~(count > 0 /\ accessor = r)
        BY <2>0, <2>2, <3>2 DEF LockRelinquish, Acquire
      <3> QED
        BY <3>1, <3>2
    <2>3. ASSUME NEW t \in Thread, Reenter(t) PROVE Alone
      BY <2>0, <2>3 DEF Reenter, Acquire
    <2>4. ASSUME NEW t \in Thread,
                 GiveUp(t) \/ Wake(t) \/ Delete(t) \/ Destruct(t)
          PROVE Alone
      BY <2>4 DEF GiveUp, Unlock, UnlockAll, Wake, Delete, Destruct
    <2> QED
      BY <2>1, <2>2, <2>3, <2>4 DEF Next, NewClaim, Inside, Done, vars
  <1> QED
    BY <1>1, Invariance, PTL DEF Spec, ClassChangesAlone

------------------------------------------------------------------------------
(* Refinement of AccessorLock.  claims is the abstract variable, as the     *)
(* implementation represents it: one class and one count.                   *)
claims == [a \in Accessor |-> IF a = accessor THEN count ELSE 0]
status == IF freed THEN "deleted"
          ELSE IF destructed THEN "orphaned" ELSE "live"

(* Granting class c one more claim, when n = 0 or c is the class that holds *)
(* the n outstanding ones, is a Grant or a Convert of the abstract lock.    *)
LEMMA GrantRefines ==
    ASSUME TypeOK, NEW c \in Accessor, NEW n \in Nat,
           n = count \/ (n = 0 /\ count > 0),
           n = 0 \/ accessor = c, accessor' = c, count' = n + 1,
           ~freed, UNCHANGED <<destructed, freed>>
    PROVE  Abstract!Next
PROOF
  <1>1. claims' = [a \in Accessor |-> IF a = c THEN n + 1 ELSE 0]
    BY DEF claims
  <1>2. status' = status /\ status # "deleted"
    BY DEF status
  <1>3. CASE n = count
    <2>1. \A a \in Accessor \ {c} : claims[a] = 0
      BY <1>3 DEF claims, TypeOK
    <2>2. claims' = [claims EXCEPT ![c] = @ + 1]
      BY <1>1, <1>3 DEF claims, TypeOK
    <2>3. Abstract!Grant(c)
      BY <1>2, <2>1, <2>2 DEF Abstract!Grant, Abstract!Free, claims, status
    <2> QED
      BY <2>3 DEF Abstract!Next
  <1>4. CASE n = 0 /\ count > 0
    <2> PICK r \in Accessor : r = accessor
      BY DEF TypeOK
    <2>1. claims[r] > 0
      BY <1>4 DEF claims, TypeOK
    <2>2. claims' = [Abstract!NoClaims EXCEPT ![c] = 1]
      BY <1>1, <1>4 DEF Abstract!NoClaims
    <2>3. Abstract!Convert(r, c)
      BY <1>2, <2>1, <2>2 DEF Abstract!Convert, claims, status
    <2> QED
      BY <2>3 DEF Abstract!Next
  <1> QED
    BY <1>3, <1>4

(* lock(claimer) is a Grant of the abstract lock, or nothing yet.           *)
LEMMA LockRefines ==
    ASSUME IInv, NEW t \in Thread, NEW c \in Accessor, Lock(t, c)
    PROVE  [Abstract!Next]_<<claims, status>>
PROOF
  <1>1. TypeOK /\ claimer'[t] = c /\ ~freed /\ count \in Nat
    BY DEF IInv, Lock, MayCall, OnlyDestructed, TypeOK
  <1>2. CASE count # 0 /\ accessor # c
    BY <1>1, <1>2 DEF Lock, Acquire, claims, status
  <1>3. CASE ~(count # 0 /\ accessor # c)
    BY <1>1, <1>3, GrantRefines DEF Lock, Acquire
  <1> QED
    BY <1>2, <1>3

(* lock(relinquisher, claimer) is a Convert, a Grant, or nothing yet.       *)
LEMMA LockRelinquishRefines ==
    ASSUME IInv, NEW t \in Thread, NEW r \in Accessor, NEW c \in Accessor,
           LockRelinquish(t, r, c)
    PROVE  [Abstract!Next]_<<claims, status>>
PROOF
  <1>1. /\ TypeOK /\ claimer'[t] = c /\ count \in Nat /\ ~freed
        /\ UNCHANGED <<destructed, freed>>
    BY DEF IInv, LockRelinquish, MayCall, HasClaim, OnlyDestructed, TypeOK
  <1>2. CASE count > 0 /\ accessor = r /\ blocked = 0 /\ orphaned
    <2>1. count' = 0 /\ accessor' = accessor
      BY <1>2 DEF LockRelinquish
    <2>2. Abstract!ReleaseAll(r)
      BY <1>1, <1>2, <2>1 DEF Abstract!ReleaseAll, claims, status, TypeOK
    <2> QED
      BY <2>2 DEF Abstract!Next
  <1>3. CASE count > 0 /\ accessor = r /\ ~(blocked = 0 /\ orphaned)
    <2>1. accessor' = c /\ count' = 0 + 1
      BY <1>1, <1>3 DEF LockRelinquish, Acquire
    <2> QED
      BY <1>1, <1>3, <2>1, GrantRefines
  <1>4. CASE ~(count > 0 /\ accessor = r) /\ count # 0 /\ accessor # c
    BY <1>1, <1>4 DEF LockRelinquish, Acquire, claims, status
  <1>5. CASE ~(count > 0 /\ accessor = r) /\ ~(count # 0 /\ accessor # c)
    <2>1. accessor' = c /\ count' = count + 1
      BY <1>1, <1>5 DEF LockRelinquish, Acquire
    <2> QED
      BY <1>1, <1>5, <2>1, GrantRefines
  <1> QED
    BY <1>2, <1>3, <1>4, <1>5

(* Giving claims up is a Release or a ReleaseAll, if there are any.         *)
LEMMA GiveUpRefines ==
    ASSUME IInv, NEW t \in Thread, GiveUp(t)
    PROVE  [Abstract!Next]_<<claims, status>>
PROOF
  <1>1. TypeOK /\ count \in Nat /\ accessor \in Accessor
    BY DEF IInv, TypeOK
  <1>2. CASE Unlock(t)
    <2>1. /\ count > 0 /\ count' = count - 1 /\ accessor' = accessor
          /\ UNCHANGED <<destructed, freed>>
      BY <1>2 DEF Unlock, HasClaim
    <2> PICK a \in Accessor : a = accessor
      BY <1>1
    <2>2. Abstract!Release(a)
      BY <1>1, <2>1 DEF Abstract!Release, claims, status
    <2> QED
      BY <2>2 DEF Abstract!Next
  <1>3. ASSUME NEW r \in Accessor, UnlockAll(t, r)
        PROVE  [Abstract!Next]_<<claims, status>>
    <2>1. accessor' = accessor /\ UNCHANGED <<destructed, freed>>
      BY <1>3 DEF UnlockAll
    <2>2. CASE count > 0 /\ accessor = r
      <3>0. count' = 0
        BY <1>3, <2>2 DEF UnlockAll
      <3>1. Abstract!ReleaseAll(r)
        BY <1>1, <2>1, <2>2, <3>0 DEF Abstract!ReleaseAll, claims, status
      <3> QED
        BY <3>1 DEF Abstract!Next
    <2>3. CASE ~(count > 0 /\ accessor = r)
      BY <1>3, <2>1, <2>3 DEF UnlockAll, claims, status
    <2> QED
      BY <2>2, <2>3
  <1> QED
    BY <1>2, <1>3 DEF GiveUp

(* A woken thread that finds its class free is granted its claim.           *)
LEMMA ReenterRefines ==
    ASSUME IInv, NEW t \in Thread, Reenter(t)
    PROVE  [Abstract!Next]_<<claims, status>>
PROOF
  <1> PICK c \in Accessor : c = claimer[t]
    BY DEF IInv, TypeOK
  <1>1. /\ TypeOK /\ count \in Nat /\ ~freed /\ claimer'[t] = c
        /\ UNCHANGED <<destructed, freed>>
    BY DEF IInv, TypeOK, Reenter, DeleteAlone
  <1>2. CASE count # 0 /\ accessor # c
    BY <1>1, <1>2 DEF Reenter, Acquire, claims, status
  <1>3. CASE ~(count # 0 /\ accessor # c)
    <2>1. accessor' = c /\ count' = count + 1
      BY <1>1, <1>3 DEF Reenter, Acquire
    <2> QED
      BY <1>1, <1>3, <2>1, GrantRefines
  <1> QED
    BY <1>2, <1>3

(* The lock of a Resource implements the abstract lock: claims of different *)
(* classes exclude each other, and deletion waits for the last claim.       *)
THEOREM Implements == Spec => ImplementsAccessorLock
PROOF
  <1>1. Init => Abstract!Init
    BY DEF Init, Abstract!Init, Abstract!NoClaims
  <1>2. IInv /\ [Next]_vars => [Abstract!Next]_<<claims, status>>
    <2> SUFFICES ASSUME IInv, [Next]_vars
                 PROVE  [Abstract!Next]_<<claims, status>>
      OBVIOUS
    <2>1. CASE UNCHANGED vars
      BY <2>1 DEF vars, claims, status
    <2>2. ASSUME NEW t \in Thread, NewClaim(t)
          PROVE  [Abstract!Next]_<<claims, status>>
      BY <2>2, LockRefines, LockRelinquishRefines DEF NewClaim
    <2>3. ASSUME NEW t \in Thread, Wake(t)
          PROVE  UNCHANGED <<claims, status>>
      BY <2>3 DEF Wake, claims, status
    <2>4. ASSUME NEW t \in Thread, Delete(t) PROVE Abstract!Delete
      BY <2>4 DEF IInv, DeleteAlone, Delete, claims, status, Abstract!Delete,
                  Abstract!NoClaims
    <2>5. ASSUME NEW t \in Thread, Destruct(t) PROVE Abstract!Destruct
      BY <2>5 DEF IInv, OnlyDestructed, Destruct, MayCall, claims, status,
                  Abstract!Destruct
    <2> QED
      BY <2>1, <2>2, <2>3, <2>4, <2>5, GiveUpRefines, ReenterRefines
         DEF Next, Inside, Done, Abstract!Next
  <1> QED
    BY <1>1, <1>2, Invariance, PTL
       DEF Spec, ImplementsAccessorLock, Abstract!Spec, Abstract!vars, claims,
           status
=============================================================================
