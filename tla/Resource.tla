------------------------------ MODULE Resource ------------------------------
(***************************************************************************)
(* The reader/writer lock and asynchronous destructor of sw::Resource      *)
(* (src/src/Common/Resource.cpp), as used by any number of threads.        *)
(*                                                                         *)
(* Every section of code between criticalSection.lock() and                *)
(* criticalSection.unlock() is one step.  The places where a thread runs   *)
(* outside the section while it is inside a call are states of its own:    *)
(* waiting on the event, woken by it but not yet back in the section, and  *)
(* past the section on its way to "delete this".                           *)
(***************************************************************************)
EXTENDS Integers, FiniteSets

CONSTANTS
    Thread,      \* the threads that call the resource
    Worker,      \* those that never ask for a claim, only give claims up
    Accessor,    \* PUBLIC, PRIVATE, MANAGED, DESTRUCT
    PUBLIC,      \* the accessor a new resource starts with
    MaxCount     \* bound: claims that may be outstanding at a time

ASSUME ThreadAssumption == IsFiniteSet(Thread)
ASSUME WorkerAssumption == Worker \subseteq Thread /\ Worker # {}
ASSUME AccessorAssumption == PUBLIC \in Accessor
ASSUME MaxCountAssumption == MaxCount \in Nat \ {0}

VARIABLES
    accessor,    \* class of the latest claim
    count,       \* outstanding claims
    blocked,     \* threads counted as waiting
    unblock,     \* the auto-reset event: TRUE when signaled
    orphaned,    \* destruct() found the resource in use
    destructed,  \* a client has called destruct(): no new call may start
    freed,       \* "delete this" has run
    pc,          \* where each thread is
    claimer      \* the class a thread inside lock() asks for

vars == <<accessor, count, blocked, unblock, orphaned, destructed, freed, pc,
          claimer>>

TypeOK ==
    /\ accessor \in Accessor
    /\ count \in 0..MaxCount
    /\ blocked \in Nat
    /\ unblock \in BOOLEAN
    /\ orphaned \in BOOLEAN
    /\ destructed \in BOOLEAN
    /\ freed \in BOOLEAN
    /\ pc \in [Thread -> {"idle", "waiting", "woken", "deleting"}]
    /\ claimer \in [Thread -> Accessor]

Init ==
    /\ accessor = PUBLIC
    /\ count = 0
    /\ blocked = 0
    /\ unblock = FALSE
    /\ orphaned = FALSE
    /\ destructed = FALSE
    /\ freed = FALSE
    /\ pc = [t \in Thread |-> "idle"]
    /\ claimer = [t \in Thread |-> PUBLIC]
-----------------------------------------------------------------------------
(* Clients.  A call may start while destruct() has not been called, or when *)
(* the caller gives up a claim, which keeps the resource alive.  A claim is  *)
(* not tied to the thread that got it: draw() claims the resources of a draw *)
(* call and a renderer thread, which never asks for a claim, gives them up.  *)

MayCall(t) == pc[t] = "idle" /\ ~destructed
HasClaim(t, a) == pc[t] = "idle" /\ ~freed /\ count > 0 /\ accessor = a

(* The body of the loop at the end of both lock() functions, entered with  *)
(* n outstanding claims of class a and b threads counted as blocked.       *)

Acquire(t, n, a, b) ==
    /\ IF n # 0 /\ a # claimer'[t]
       THEN /\ blocked' = b + 1
            /\ pc' = [pc EXCEPT ![t] = "waiting"]
            /\ count' = n
            /\ accessor' = a
       ELSE /\ n < MaxCount
            /\ blocked' = b
            /\ pc' = [pc EXCEPT ![t] = "idle"]
            /\ count' = n + 1
            /\ accessor' = claimer'[t]

\* lock(claimer)
Lock(t, c) ==
    /\ MayCall(t) /\ t \notin Worker
    /\ claimer' = [claimer EXCEPT ![t] = c]
    /\ Acquire(t, count, accessor, blocked)
    /\ UNCHANGED <<unblock, orphaned, destructed, freed>>

LastClaimGoneUnsignaled(t) ==       \* mutated: one waiter is overlooked
    /\ unblock' = (unblock \/ blocked > 1)
    /\ pc' = [pc EXCEPT ![t] = IF blocked = 0 /\ orphaned THEN "deleting"
                               ELSE "idle"]

LastClaimGoneUndeleted(t) ==        \* mutated: the orphan is not deleted
    /\ unblock' = (unblock \/ blocked > 0)
    /\ pc' = [pc EXCEPT ![t] = "idle"]

\* What happens when the last claim is given up: a waiting thread is
\* signaled, else an orphaned resource is on its way to be deleted.
LastClaimGone(t) ==
    /\ unblock' = (unblock \/ blocked > 0)
    /\ pc' = [pc EXCEPT ![t] = IF blocked = 0 /\ orphaned THEN "deleting"
                               ELSE "idle"]

\* unlock(): the caller has a claim, of whatever class.
Unlock(t) ==
    /\ HasClaim(t, accessor)
    /\ count' = count - 1
    /\ IF count = 1 THEN LastClaimGone(t) ELSE UNCHANGED <<unblock, pc>>
    /\ UNCHANGED <<accessor, blocked, orphaned, destructed, freed, claimer>>

\* unlock(relinquisher): gives up every claim of that class.
UnlockAll(t, r) ==
    /\ MayCall(t) \/ HasClaim(t, r)
    /\ IF count > 0 /\ accessor = r
       THEN count' = 0 /\ LastClaimGone(t)
       ELSE UNCHANGED <<count, unblock, pc>>
    /\ UNCHANGED <<accessor, blocked, orphaned, destructed, freed, claimer>>

\* lock(relinquisher, claimer): gives up every claim of class r, then claims
\* the resource for class c.  The orphaned resource with no waiter is deleted.
LockRelinquish(t, r, c) ==
    /\ t \notin Worker
    /\ MayCall(t) \/ HasClaim(t, r)
    /\ claimer' = [claimer EXCEPT ![t] = c]
    /\ IF count > 0 /\ accessor = r
       THEN /\ unblock' = (unblock \/ blocked > 0)
            /\ IF blocked = 0 /\ orphaned
               THEN /\ pc' = [pc EXCEPT ![t] = "deleting"]
                    /\ count' = 0
                    /\ UNCHANGED <<accessor, blocked>>
               ELSE Acquire(t, 0, accessor, blocked)
       ELSE /\ Acquire(t, count, accessor, blocked)
            /\ UNCHANGED unblock
    /\ UNCHANGED <<orphaned, destructed, freed>>

\* unblock.wait() returns: the event resets itself.
Wake(t) ==
    /\ pc[t] = "waiting"
    /\ unblock
    /\ unblock' = FALSE
    /\ pc' = [pc EXCEPT ![t] = "woken"]
    /\ UNCHANGED <<accessor, count, blocked, orphaned, destructed, freed,
                   claimer>>

ReenterUntested(t) ==               \* mutated: if for while in lock()
    /\ pc[t] = "woken"
    /\ count < MaxCount
    /\ blocked' = blocked - 1
    /\ pc' = [pc EXCEPT ![t] = "idle"]
    /\ count' = count + 1
    /\ accessor' = claimer[t]
    /\ UNCHANGED <<unblock, orphaned, destructed, freed, claimer>>

\* The woken thread is back in the critical section and tests again.
Reenter(t) ==
    /\ pc[t] = "woken"
    /\ UNCHANGED claimer
    /\ Acquire(t, count, accessor, blocked - 1)
    /\ UNCHANGED <<unblock, orphaned, destructed, freed>>

DestructUnwaited(t) ==              \* mutated: waiters are not looked at
    /\ MayCall(t)
    /\ destructed' = TRUE
    /\ IF count = 0
       THEN pc' = [pc EXCEPT ![t] = "deleting"] /\ UNCHANGED orphaned
       ELSE orphaned' = TRUE /\ UNCHANGED pc
    /\ UNCHANGED <<accessor, count, blocked, unblock, freed, claimer>>

\* destruct()
Destruct(t) ==
    /\ MayCall(t)
    /\ destructed' = TRUE
    /\ IF count = 0 /\ blocked = 0
       THEN pc' = [pc EXCEPT ![t] = "deleting"] /\ UNCHANGED orphaned
       ELSE orphaned' = TRUE /\ UNCHANGED pc
    /\ UNCHANGED <<accessor, count, blocked, unblock, freed, claimer>>

\* delete this, after the critical section was left
Delete(t) ==
    /\ pc[t] = "deleting"
    /\ freed' = TRUE
    /\ pc' = [pc EXCEPT ![t] = "idle"]
    /\ UNCHANGED <<accessor, count, blocked, unblock, orphaned, destructed,
                   claimer>>

\* The calls by which a client asks for a claim.
NewClaim(t) ==
    \/ \E c \in Accessor : Lock(t, c)
    \/ \E r, c \in Accessor : LockRelinquish(t, r, c)

\* The calls by which clients give claims up.
GiveUp(t) == Unlock(t) \/ \E r \in Accessor : UnlockAll(t, r)

Inside(t) == Wake(t) \/ Reenter(t) \/ Delete(t)

\* Every client has returned, the resource is gone: nothing more happens.
Done == freed /\ UNCHANGED vars

Next ==
    \/ \E t \in Thread : NewClaim(t) \/ GiveUp(t) \/ Inside(t) \/ Destruct(t)
    \/ Done

Spec == Init /\ [][Next]_vars

(* A thread inside a call keeps running (the critical section is short and  *)
(* left in the same step), and a claim that was granted is given up in the  *)
(* end: a draw call retires, the application unmaps what it mapped.         *)
Fairness ==
    /\ \A t \in Thread : WF_vars(Inside(t))
    /\ WF_vars(\E t \in Thread : Unlock(t))

FairSpec == Spec /\ Fairness
-----------------------------------------------------------------------------
Waiters == {t \in Thread : pc[t] = "waiting"}
Woken == {t \in Thread : pc[t] = "woken"}

(* blocked is exactly the number of threads that have gone to wait and have *)
(* not come back to the critical section: a signal is sent iff needed and   *)
(* destruct() never mistakes a resource somebody waits for for an idle one. *)
BlockedExact == blocked = Cardinality(Waiters \cup Woken)

(* No wakeup is lost: while a thread waits, the resource has a claim whose  *)
(* release will signal, or the event is signaled, or a woken thread is on   *)
(* its way to take the claim and will signal when it gives it up.           *)
NoLostWakeup == Waiters # {} => count > 0 \/ unblock \/ Woken # {}

(* A thread about to run "delete this" is the only one left: nobody waits,  *)
(* nobody has a claim, and no second thread is about to delete.  After it,  *)
(* no thread is inside a call.                                              *)
DeleteAlone ==
    /\ \A t \in Thread : pc[t] = "deleting" =>
         /\ ~freed
         /\ count = 0
         /\ destructed
         /\ \A u \in Thread \ {t} : pc[u] = "idle"
    /\ freed => count = 0 /\ \A t \in Thread : pc[t] = "idle"

(* After destruct() the resource stays known as orphaned until it is        *)
(* deleted, so that the last claim to go deletes it: it cannot leak.        *)
OrphanNotForgotten ==
    destructed /\ ~freed =>
        \/ \E t \in Thread : pc[t] = "deleting"
        \/ orphaned /\ (count > 0 \/ blocked > 0)

(* Only a resource that a client has destructed is orphaned or deleted.     *)
OnlyDestructed == orphaned \/ freed => destructed

(* The inductive invariant: none of its parts but the typing and the count  *)
(* of blocked threads is inductive without others.                          *)
IInv ==
    /\ TypeOK
    /\ BlockedExact
    /\ NoLostWakeup
    /\ DeleteAlone
    /\ OrphanNotForgotten
    /\ OnlyDestructed

(* A claim of one class is never granted while claims of another are        *)
(* outstanding: the class changes only when the count was, or was brought   *)
(* to, nothing, and then exactly one claim of the new class is outstanding. *)
ClassChangesAlone ==
    [][accessor' # accessor => count' = 1 /\ (count = 0 \/
         \E t \in Thread, c \in Accessor : LockRelinquish(t, accessor, c))]_vars

(* Once clients make no new claims, every thread inside lock() returns.     *)
WaitersServed ==
    <>[][~\E t \in Thread : NewClaim(t)]_vars =>
        \A t \in Thread : (pc[t] \in {"waiting", "woken"}) ~> (pc[t] = "idle")

(* A destructed resource is deleted in the end, whoever still used it.      *)
EventuallyFreed == destructed ~> freed

(* What clients may rely on: claims by class.                               *)
Abstract == INSTANCE AccessorLock WITH
    claims <- [a \in Accessor |-> IF a = accessor THEN count ELSE 0],
    status <- IF freed THEN "deleted"
              ELSE IF destructed THEN "orphaned" ELSE "live"

ImplementsAccessorLock == Abstract!Spec
=============================================================================
