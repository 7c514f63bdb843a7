---------------------------- MODULE Scheduler_proofs ----------------------------
(***************************************************************************)
(* Proofs about Scheduler for any sequence of thread counts up to 16, any  *)
(* number of DrawCall objects, any shapes and any number of draw calls.    *)
(*                                                                         *)
(* The first half is about the schedule and the count of awake threads, on *)
(* which every decision of scheduleTask() and of the application thread    *)
(* rests; it ends with the theorems that need no more than IInv.  The      *)
(* second accounts for the batches of every draw call: where each is, who  *)
(* refers to it, and what every cluster has come to.  It ends with the     *)
(* types and safety properties of Scheduler, and with its refinement of    *)
(* InOrderRendering.  One lemma per action says that the action keeps the  *)
(* invariant; SchedulerInvariant defines it.                               *)
(***************************************************************************)
EXTENDS SchedulerInvariant, FiniteSetTheorems, TLAPS

-----------------------------------------------------------------------------
(* Constants                                                                *)

\* A set of counts or indices has a least element, which Min picks.
LEMMA LeastOf ==
    ASSUME NEW S, S \subseteq 0 .. 15, S # {}
    PROVE  (\E x \in S : \A y \in S : x <= y) /\ Min(S) \in S
<1>1. \E x \in S : \A y \in S : x <= y
  <2> SUFFICES ASSUME \A x \in S : \E y \in S : y < x
               PROVE  FALSE
    OBVIOUS
  <2>1. \A x \in S : x > 0
    OBVIOUS
  <2>2. \A x \in S : x > 2
    BY <2>1
  <2>3. \A x \in S : x > 4
    BY <2>2
  <2>4. \A x \in S : x > 6
    BY <2>3
  <2>5. \A x \in S : x > 8
    BY <2>4
  <2>6. \A x \in S : x > 10
    BY <2>5
  <2>7. \A x \in S : x > 12
    BY <2>6
  <2>8. \A x \in S : x > 14
    BY <2>7
  <2>9. \A x \in S : x > 15
    BY <2>8
  <2>10. PICK x \in S : TRUE
    OBVIOUS
  <2> QED
    BY <2>9, <2>10
<1> QED
  BY <1>1 DEF Min

LEMMA Configurations ==
    /\ DOMAIN ThreadCount = 1 .. Len(ThreadCount)
    /\ Len(ThreadCount) \in Nat /\ 1 \in DOMAIN ThreadCount
    /\ \A i \in DOMAIN ThreadCount : ThreadCount[i] \in 1 .. 16
  BY ThreadCountAssumption

LEMMA MostThreads ==
    /\ MaxThreads \in 1 .. 16
    /\ \A i \in DOMAIN ThreadCount : ThreadCount[i] \in 1 .. MaxThreads
<1> DEFINE Is(n) == /\ \E i \in DOMAIN ThreadCount : ThreadCount[i] = n
                    /\ \A i \in DOMAIN ThreadCount : ThreadCount[i] <= n
           Gap == {16 - ThreadCount[i] : i \in DOMAIN ThreadCount}
<1>1. /\ \A i \in DOMAIN ThreadCount : ThreadCount[i] \in 1 .. 16
      /\ DOMAIN ThreadCount # {}
  BY Configurations
<1>2. Gap \subseteq 0 .. 15 /\ Gap # {}
  BY <1>1
<1>4. PICK x \in Gap : \A y \in Gap : x <= y
  <2> HIDE DEF Gap
  <2> QED
    BY <1>2, LeastOf
<1>5. PICK i \in DOMAIN ThreadCount : x = 16 - ThreadCount[i]
  BY <1>4
<1>6. ASSUME NEW j \in DOMAIN ThreadCount
      PROVE  ThreadCount[j] <= ThreadCount[i]
  <2>1. 16 - ThreadCount[j] \in Gap
    OBVIOUS
  <2>2. 16 - ThreadCount[i] <= 16 - ThreadCount[j]
    BY <1>4, <1>5, <2>1
  <2>3. ThreadCount[i] \in 1 .. 16 /\ ThreadCount[j] \in 1 .. 16
    BY <1>1
  <2> HIDE DEF Gap, Is
  <2> QED
    BY ONLY <2>2, <2>3
<1>7. Is(ThreadCount[i]) /\ ThreadCount[i] \in 1 .. 16
  BY <1>1, <1>6
<1> HIDE DEF Is
<1>8. MaxThreads = CHOOSE n \in 1 .. 16 : Is(n)
  BY DEF MaxThreads, Is
<1>9. MaxThreads \in 1 .. 16 /\ Is(MaxThreads)
  BY <1>7, <1>8
<1> QED
  <2> USE DEF Is
  <2>1. ASSUME NEW j \in DOMAIN ThreadCount
        PROVE  ThreadCount[j] \in 1 .. MaxThreads
    <3>1. PICK m \in 1 .. 16 : m = MaxThreads
      BY <1>9
    <3>2. PICK n \in 1 .. 16 : n = ThreadCount[j]
      BY <1>1
    <3>3. n <= m
      BY <1>9, <3>1, <3>2
    <3> QED
      BY ONLY <3>1, <3>2, <3>3
  <2> QED
    BY <1>9, <2>1

LEMMA PowerOfTwo ==
    ASSUME NEW n \in 1 .. 16
    PROVE  /\ ceilPow2(n) \in {1, 2, 4, 8, 16}
           /\ \A m \in 1 .. n : ceilPow2(m) <= ceilPow2(n)
<1> DEFINE Is(p, m) == p >= m /\ \A q \in {1, 2, 4, 8, 16} : q >= m => p <= q
<1>1. ASSUME NEW m \in 1 .. 16
      PROVE  \E p \in {1, 2, 4, 8, 16} : Is(p, m)
  <2>1. CASE m <= 1
    BY <2>1
  <2>2. CASE m > 1 /\ m <= 2
    BY <2>2
  <2>3. CASE m > 2 /\ m <= 4
    BY <2>3
  <2>4. CASE m > 4 /\ m <= 8
    BY <2>4
  <2>5. CASE m > 8
    BY <2>5
  <2> QED
    BY <2>1, <2>2, <2>3, <2>4, <2>5
<1>2. ASSUME NEW m \in 1 .. 16
      PROVE  ceilPow2(m) \in {1, 2, 4, 8, 16} /\ Is(ceilPow2(m), m)
  <2>1. ceilPow2(m) = CHOOSE p \in {1, 2, 4, 8, 16} : Is(p, m)
    BY Zenon DEF ceilPow2
  <2>2. \E p \in {1, 2, 4, 8, 16} : Is(p, m)
    BY <1>1
  <2> HIDE DEF Is
  <2> QED
    BY <2>1, <2>2, Zenon
<1>3. ASSUME NEW m \in 1 .. n
      PROVE  ceilPow2(m) <= ceilPow2(n)
  <2>1. m \in 1 .. 16
    OBVIOUS
  <2>2. ceilPow2(m) \in {1, 2, 4, 8, 16} /\ Is(ceilPow2(m), m)
    BY <1>2, <2>1
  <2>3. ceilPow2(n) \in {1, 2, 4, 8, 16} /\ Is(ceilPow2(n), n)
    BY <1>2
  <2> QED
    BY <2>2, <2>3
<1> QED
  BY <1>2, <1>3

LEMMA CountsFit ==
    /\ Thread \subseteq 0 .. 15 /\ 0 \in Thread /\ NONE \notin Thread
    /\ IsFiniteSet(Thread) /\ IsFiniteSet(Unit)
    /\ ceilPow2(MaxThreads) \in 1 .. 16 /\ Unit \subseteq 0 .. 15
    /\ Cardinality(Unit) = ceilPow2(MaxThreads)
    /\ \A i \in DOMAIN ThreadCount :
          /\ 0 .. ThreadCount[i] - 1 \subseteq Thread
          /\ ceilPow2(ThreadCount[i]) \in 1 .. ceilPow2(MaxThreads)
<1>1. MaxThreads \in 1 .. 16
  BY MostThreads
<1>2. /\ IsFiniteSet(0 .. MaxThreads - 1)
  BY <1>1, FS_Interval
<1>3. ceilPow2(MaxThreads) \in 1 .. 16
  BY <1>1, PowerOfTwo
<1>4. /\ IsFiniteSet(0 .. ceilPow2(MaxThreads) - 1)
      /\ Cardinality(0 .. ceilPow2(MaxThreads) - 1) = ceilPow2(MaxThreads)
  <2>1. PICK m \in 1 .. 16 : m = ceilPow2(MaxThreads)
    BY <1>3
  <2>2. 0 \in Int /\ m - 1 \in Int /\ ~(0 > m - 1)
    BY ONLY <2>1
  <2>3. /\ IsFiniteSet(0 .. m - 1)
        /\ Cardinality(0 .. m - 1) = IF 0 > m - 1 THEN 0 ELSE (m - 1) - 0 + 1
    BY ONLY <2>2, FS_Interval
  <2>4. IsFiniteSet(0 .. m - 1) /\ Cardinality(0 .. m - 1) = m
    BY ONLY <2>1, <2>2, <2>3
  <2> QED
    BY ONLY <2>1, <2>4
<1>5. ASSUME NEW i \in DOMAIN ThreadCount
      PROVE  /\ 0 .. ThreadCount[i] - 1 \subseteq Thread
             /\ ceilPow2(ThreadCount[i]) \in 1 .. ceilPow2(MaxThreads)
  <2>1. PICK n : n = ThreadCount[i]
    OBVIOUS
  <2>2. n \in 1 .. MaxThreads /\ n \in 1 .. 16
    BY <2>1, Configurations, MostThreads
  <2>3. ceilPow2(n) \in {1, 2, 4, 8, 16} /\ ceilPow2(n) <= ceilPow2(MaxThreads)
    BY <1>1, <2>2, PowerOfTwo
  <2>4. 0 .. n - 1 \subseteq Thread
    BY <1>1, <2>2 DEF Thread
  <2>5. ceilPow2(n) \in 1 .. ceilPow2(MaxThreads)
    BY <1>3, <2>3
  <2> QED
    BY <2>1, <2>4, <2>5
<1>6. Thread \subseteq 0 .. 15 /\ 0 \in Thread /\ IsFiniteSet(Thread)
  BY <1>1, <1>2 DEF Thread
<1>7. NONE \notin Thread
  <2>1. 0 .. 15 \subseteq Nat
    OBVIOUS
  <2> QED
    BY ONLY <1>6, <2>1, NoneAssumption
<1>8. Unit \subseteq 0 .. 15 /\ IsFiniteSet(Unit) /\ Cardinality(Unit) = ceilPow2(MaxThreads)
  <2>1. PICK m \in 1 .. 16 : m = ceilPow2(MaxThreads)
    BY <1>3
  <2>2. Unit = 0 .. m - 1
    BY <2>1 DEF Unit
  <2>3. 0 .. m - 1 \subseteq 0 .. 15
    BY <2>1
  <2>4. IsFiniteSet(0 .. m - 1) /\ Cardinality(0 .. m - 1) = m
    BY ONLY <1>4, <2>1
  <2> QED
    BY ONLY <2>1, <2>2, <2>3, <2>4
<1> QED
  BY <1>3, <1>5, <1>6, <1>7, <1>8

LEMMA FirstUnit == 0 \in Unit
<1>1. PICK n \in 1 .. 16 : n = ceilPow2(MaxThreads)
  BY CountsFit
<1>2. Unit = 0 .. n - 1
  BY <1>1 DEF Unit
<1> QED
  BY ONLY <1>1, <1>2
-----------------------------------------------------------------------------
(* Threads that are awake                                                   *)

LEMMA AwakeCounted ==
    ASSUME AwakeExact
    PROVE  /\ IsFiniteSet(Awake)
           /\ threadsAwake = Cardinality(Awake) /\ threadsAwake \in Nat
           /\ threadsAwake = 0 <=> Awake = {}
<1>1. IsFiniteSet(Awake)
  BY CountsFit, FS_Subset DEF Awake
<1>2. threadsAwake = Cardinality(Awake)
  BY DEF AwakeExact, Awake
<1> QED
  BY <1>1, <1>2, FS_CardinalityType, FS_EmptySet

\* While none is awake, none is running and schedulerMutex is free.
LEMMA NoneAwake ==
    ASSUME IInv, threadsAwake = 0
    PROVE  /\ \A t \in Thread : task[t].type = "SUSPEND" /\ pc[t] \in Asleep
           /\ schedulerMutex = NONE
<1>1. Awake = {}
  BY AwakeCounted DEF IInv
<1>2. \A t \in Thread : task[t].type = "SUSPEND"
  BY <1>1 DEF Awake
<1>3. \A t \in Thread : pc[t] \in Asleep
  BY <1>2 DEF IInv, WorkerInv, Types
<1>4. \A t \in Thread : pc[t] \notin Holding
  BY <1>3 DEF Asleep, Holding
<1> QED
  BY <1>2, <1>3, <1>4 DEF IInv, WorkerInv, Types

LEMMA BusyAwake ==
    ASSUME IInv, NEW t \in Thread, pc[t] \in Busy
    PROVE  t \in Awake /\ threadsAwake > 0
<1>1. t \in Awake
  BY DEF IInv, WorkerInv, Awake
<1> QED
  BY <1>1, AwakeCounted DEF IInv
-----------------------------------------------------------------------------
(* What the invariant looks at besides the application's own place          *)

workVars == <<unitCount, pc, task, threadsAwake, schedulerMutex, index, taskQueue,
              primitiveProgress, pixelProgress>>

LEMMA Begins == Init => IInv
<1> SUFFICES ASSUME Init
             PROVE  IInv
  OBVIOUS
<1>1. Types
  <2>1. 1 \in DOMAIN ThreadCount
    BY Configurations
  <2>2. unitCount \in 1 .. ceilPow2(MaxThreads)
    BY <2>1, CountsFit DEF Init
  <2>3. 0 \in Unit
    BY FirstUnit
  <2>4. NoTask("SUSPEND") \in TaskType
    BY <2>3 DEF NoTask, TaskType, Cluster
  <2>5. pc \in [Thread -> Busy \cup Asleep] /\ task \in [Thread -> TaskType]
    BY <2>4 DEF Init, Asleep
  <2>6. taskQueue \in Seq(TaskType)
    BY DEF Init
  <2>7. /\ primitiveProgress \in [Unit -> [drawCall : Int, first : Int, count : Int,
                                           references : Int]]
        /\ pixelProgress \in [Cluster -> [drawCall : Int, processed : Int,
                                          executing : BOOLEAN]]
    BY DEF Init
  <2> QED
    BY <2>1, <2>2, <2>5, <2>6, <2>7 DEF Init, Types
<1>2. AppInv
  BY DEF Init, AppInv
<1>3. WorkerInv
  BY CountsFit DEF Init, WorkerInv, Holding, Busy, Rendering
<1>4. AwakeExact
  <2>1. {t \in Thread : task[t].type # "SUSPEND"} = {}
    BY DEF Init, NoTask
  <2> QED
    BY <2>1, FS_EmptySet DEF Init, AwakeExact
<1>5. ClaimInv /\ TasksDistinct
  BY DEF Init, ClaimInv, TasksDistinct, InHand
<1> QED
  BY <1>1, <1>2, <1>3, <1>4, <1>5 DEF IInv

\* The rest of the invariant stands while its variables do.
LEMMA WorkKept ==
    ASSUME IInv, UNCHANGED <<workVars, config>>, appIndex' \in Nat, AppInv'
    PROVE  IInv'
<1>1. Types'
  BY DEF IInv, Types, workVars
<1>2. WorkerInv'
  BY DEF IInv, WorkerInv, workVars, Sleepers, threadCount
<1>3. AwakeExact'
  BY DEF IInv, AwakeExact, workVars
<1>4. ClaimInv' /\ TasksDistinct'
  BY DEF IInv, ClaimInv, TasksDistinct, Claimed, InHand, SameWork, workVars
<1> QED
  BY <1>1, <1>2, <1>3, <1>4 DEF IInv
-----------------------------------------------------------------------------
(* Steps of the application                                                 *)

LEMMA NextThread ==
    ASSUME Types, appIndex + 1 < threadCount
    PROVE  appIndex + 1 \in Thread
<1>1. PICK n \in 1 .. 16 : n = threadCount
  <2>1. \A i \in DOMAIN ThreadCount : ThreadCount[i] \in 1 .. 16
    BY Configurations
  <2>2. config \in DOMAIN ThreadCount
    BY DEF Types
  <2> QED
    BY ONLY <2>1, <2>2 DEF threadCount
<1>2. 0 .. n - 1 \subseteq Thread
  BY <1>1, CountsFit DEF Types, threadCount
<1>3. appIndex + 1 \in 0 .. n - 1
  BY <1>1 DEF Types
<1> QED
  BY <1>2, <1>3

\* Those that only change where the application is.
AppMoves ==
    \/ \E shape \in DrawShape : DrawWith(shape)
    \/ TerminateThreads \/ ExitThread \/ AwaitThread
    \/ LockSync \/ SearchDrawCall \/ WaitDrawCall \/ FillDrawCall
    \/ PublishDraw \/ CheckAwake
    \/ Synchronize \/ Synchronized \/ Destroy \/ Dead

LEMMA AppMovesStep ==
    ASSUME IInv, AppMoves
    PROVE  IInv'
<1>1. UNCHANGED <<workVars, config>>
  BY DEF AppMoves, DrawWith, TerminateThreads, ExitThread, AwaitThread, LockSync,
         SearchDrawCall, WaitDrawCall, FillDrawCall, PublishDraw, CheckAwake,
         Synchronize, Synchronized, Destroy, Dead, vars, appVars, drawVars,
         threadVars, scheduleVars, workVars
<1>2. appIndex' \in Nat
  BY DEF IInv, Types, AppMoves, DrawWith, TerminateThreads, ExitThread, AwaitThread,
         LockSync, SearchDrawCall, WaitDrawCall, FillDrawCall, PublishDraw,
         CheckAwake, Synchronize, Synchronized, Destroy, Dead, vars, appVars
<1>3. AppInv'
  <2> USE <1>1 DEF IInv, AppInv, workVars
  <2>1. ASSUME NEW shape, DrawWith(shape)
        PROVE  AppInv'
    BY <2>1, CountsFit DEF DrawWith
  <2>2. CASE TerminateThreads
    BY <2>2 DEF TerminateThreads
  <2>3. CASE ExitThread
    BY <2>3 DEF ExitThread
  <2>4. CASE AwaitThread
    <3>1. pc[0] # "none"
      BY <2>4 DEF Types, AwaitThread
    <3>2. appIndex + 1 < threadCount => appIndex + 1 \in Thread
      BY NextThread
    <3> QED
      BY <2>4, <3>1, <3>2 DEF AwaitThread
  <2>5. CASE LockSync \/ SearchDrawCall \/ WaitDrawCall \/ FillDrawCall
    BY <2>5 DEF LockSync, SearchDrawCall, WaitDrawCall, FillDrawCall
  <2>6. CASE PublishDraw \/ CheckAwake
    BY <2>6 DEF PublishDraw, CheckAwake
  <2>7. CASE Synchronize \/ Synchronized \/ Destroy
    BY <2>7, CountsFit DEF Synchronize, Synchronized, Destroy
  <2>8. CASE Dead
    BY <2>8 DEF Dead, vars, appVars
  <2> QED
    BY <2>1, <2>2, <2>3, <2>4, <2>5, <2>6, <2>7, <2>8 DEF AppMoves
<1> QED
  BY <1>1, <1>2, <1>3, WorkKept

\* A thread is joined, or created, while none is awake: no task changes.
LEMMA AsleepStep ==
    ASSUME IInv, threadsAwake = 0, threadsAwake' = 0, NEW i, NEW l \in Asleep,
           pc' = [pc EXCEPT ![i] = l],
           task' = task \/ task' = [task EXCEPT ![i] = NoTask("SUSPEND")],
           unitCount' \in 1 .. ceilPow2(MaxThreads),
           config' \in DOMAIN ThreadCount, appIndex' \in Nat,
           UNCHANGED <<schedulerMutex, index, taskQueue, primitiveProgress,
                       pixelProgress>>,
           AppInv'
    PROVE  IInv'
<1>1. /\ \A t \in Thread : task[t].type = "SUSPEND" /\ pc[t] \in Asleep
      /\ schedulerMutex = NONE
  BY NoneAwake
<1>2. \A t \in Thread : pc'[t] \in Asleep
  BY <1>1 DEF IInv, Types
<1>3. NoTask("SUSPEND") \in TaskType /\ NoTask("SUSPEND").type = "SUSPEND"
  <2>1. 0 \in Unit
    BY FirstUnit
  <2> QED
    BY <2>1 DEF NoTask, TaskType, Cluster
<1>4. \A t \in Thread : task'[t].type = "SUSPEND"
  BY <1>1, <1>3 DEF IInv, Types
<1>5. Types'
  BY <1>3 DEF IInv, Types
<1>6. WorkerInv'
  BY <1>1, <1>2, CountsFit DEF WorkerInv, Asleep, Holding, Busy, Rendering
<1>7. AwakeExact'
  <2>1. {t \in Thread : task'[t].type # "SUSPEND"} = {}
    BY <1>4
  <2> QED
    BY <2>1, FS_EmptySet DEF AwakeExact
<1>8. \A t \in Thread : ~InHand(t)'
  BY <1>2 DEF InHand, Asleep
<1>9. ClaimInv' /\ TasksDistinct'
  BY <1>8 DEF IInv, ClaimInv, TasksDistinct, Claimed, SameWork
<1> QED
  BY <1>5, <1>6, <1>7, <1>9 DEF IInv

LEMMA JoinThreadStep ==
    ASSUME IInv, JoinThread
    PROVE  IInv'
<1>1. threadsAwake = 0 /\ threadsAwake' = 0
  BY DEF IInv, AppInv, JoinThread
<1>2. AppInv'
  <2>1. appIndex + 1 < threadCount => appIndex + 1 \in Thread
    BY NextThread DEF IInv
  <2> QED
    BY <1>1, <2>1, CountsFit DEF IInv, AppInv, JoinThread
<1>3. "none" \in Asleep
  BY DEF Asleep
<1>4. /\ pc' = [pc EXCEPT ![appIndex] = "none"]
      /\ UNCHANGED <<task, unitCount, config, schedulerMutex, index, taskQueue,
                     primitiveProgress, pixelProgress>>
      /\ appIndex' \in Nat
  BY DEF IInv, Types, JoinThread, scheduleVars
<1>5. unitCount' \in 1 .. ceilPow2(MaxThreads) /\ config' \in DOMAIN ThreadCount
  BY <1>4 DEF IInv, Types
<1> QED
  BY <1>1, <1>2, <1>3, <1>4, <1>5, AsleepStep

LEMMA ConfigureStep ==
    ASSUME IInv, Configure
    PROVE  IInv'
<1>1. threadsAwake = 0 /\ threadsAwake' = 0
  BY DEF IInv, AppInv, Configure, threadVars
<1>2. AppInv'
  BY <1>1 DEF IInv, AppInv, Configure, threadVars
<1>3. /\ UNCHANGED <<pc, task, unitCount, schedulerMutex, index, taskQueue,
                     primitiveProgress, pixelProgress>>
      /\ appIndex' \in Nat
  BY DEF IInv, Types, Configure, scheduleVars, threadVars
<1>4. unitCount' \in 1 .. ceilPow2(MaxThreads) /\ config' \in DOMAIN ThreadCount
  BY <1>3 DEF IInv, Types, AppInv, Configure
<1>5. PICK t \in Thread : pc[t] \in Asleep
  BY <1>1, NoneAwake, CountsFit
<1>6. pc' = [pc EXCEPT ![t] = pc[t]]
  BY <1>3 DEF IInv, Types
<1> QED
  BY <1>1, <1>2, <1>3, <1>4, <1>5, <1>6, AsleepStep

LEMMA InitializeThreadStep ==
    ASSUME IInv, InitializeThread
    PROVE  IInv'
<1>1. threadsAwake = 0 /\ threadsAwake' = 0
  BY DEF IInv, AppInv, InitializeThread
<1>2. /\ pc' = [pc EXCEPT ![appIndex] = "loop"]
      /\ task' = [task EXCEPT ![appIndex] = NoTask("SUSPEND")]
      /\ UNCHANGED <<config, schedulerMutex, index, taskQueue, primitiveProgress,
                     pixelProgress>>
      /\ appIndex' = appIndex /\ appPc' = "created"
      /\ unitCount' = ceilPow2(threadCount)
  BY DEF InitializeThread, scheduleVars
<1>3. AppInv'
  <2>1. appIndex' > 0 => pc'[0] # "none"
    BY <1>2 DEF IInv, Types, AppInv, InitializeThread
  <2>2. pc'[appIndex'] # "none"
    BY <1>2 DEF IInv, Types, AppInv, InitializeThread
  <2>3. appIndex' \in Thread
    BY <1>2 DEF IInv, AppInv, InitializeThread
  <2> QED
    BY <1>1, <1>2, <2>1, <2>2, <2>3 DEF AppInv
<1>4. unitCount' \in 1 .. ceilPow2(MaxThreads) /\ config' \in DOMAIN ThreadCount
  BY <1>2, CountsFit DEF IInv, Types, threadCount
<1>5. "loop" \in Asleep /\ appIndex' \in Nat
  BY <1>2 DEF Asleep, IInv, Types
<1> QED
  BY <1>1, <1>2, <1>3, <1>4, <1>5, AsleepStep

\* The first thread is woken while none is awake.
LEMMA WakeFirstStep ==
    ASSUME IInv, WakeFirst
    PROVE  IInv'
<1>1. threadsAwake = 0 /\ 0 \in Thread
  BY CountsFit DEF IInv, AppInv, WakeFirst
<1>2. /\ \A t \in Thread : task[t].type = "SUSPEND" /\ pc[t] \in Asleep
      /\ schedulerMutex = NONE
  BY <1>1, NoneAwake
<1>3. /\ task' = [task EXCEPT ![0] = NoTask("RESUME")]
      /\ threadsAwake' = 1 /\ appPc' = "idle"
      /\ UNCHANGED <<appIndex, config, destroying, pc, unitCount, schedulerMutex, index,
                     taskQueue, primitiveProgress, pixelProgress>>
  BY DEF WakeFirst, scheduleVars
<1>4. NoTask("RESUME") \in TaskType /\ NoTask("RESUME").type = "RESUME"
  <2>1. 0 \in Unit
    BY FirstUnit
  <2> QED
    BY <2>1 DEF NoTask, TaskType, Cluster
<1>5. Types'
  <2>1. task' \in [Thread -> TaskType]
    <3>1. task \in [Thread -> TaskType]
      BY DEF IInv, Types
    <3> QED
      BY ONLY <1>3, <1>4, <3>1
  <2>2. threadsAwake' \in Int
    BY <1>3
  <2> QED
    BY <1>3, <2>1, <2>2 DEF IInv, Types
<1>6. AppInv'
  BY <1>3 DEF IInv, AppInv, WakeFirst
<1>7. WorkerInv'
  BY <1>2, <1>3, CountsFit DEF WorkerInv, Asleep, Holding, Busy, Rendering
<1>8. AwakeExact'
  <2>1. {t \in Thread : task'[t].type # "SUSPEND"} = {0}
    BY <1>1, <1>2, <1>3, <1>4 DEF IInv, Types
  <2> QED
    BY <1>3, <2>1, FS_Singleton DEF AwakeExact
<1>9. \A t \in Thread : ~InHand(t)'
  BY <1>2, <1>3 DEF InHand, Asleep
<1>10. ClaimInv' /\ TasksDistinct'
  BY <1>3, <1>9 DEF IInv, ClaimInv, TasksDistinct, Claimed, SameWork
<1> QED
  BY <1>5, <1>6, <1>7, <1>8, <1>10 DEF IInv
-----------------------------------------------------------------------------
(* Steps of a worker                                                        *)

\* What the application relies on is untouched by a worker that was created.
LEMMA WorkerKeepsApp ==
    ASSUME IInv, NEW t \in Thread, pc[t] # "none", NEW l, l # "none",
           pc' = [pc EXCEPT ![t] = l], threadsAwake = 0 => threadsAwake' = 0,
           UNCHANGED <<appPc, appIndex, config, destroying>>
    PROVE  AppInv'
<1>1. pc'[0] = "none" <=> pc[0] = "none"
  BY CountsFit DEF IInv, Types
<1>2. appPc = "created" => (pc'[appIndex] = "none" <=> pc[appIndex] = "none")
  BY DEF IInv, Types, AppInv
<1> QED
  BY <1>1, <1>2 DEF IInv, AppInv

\* A worker that is not running a task, before and after, or that sets out to.
LEMMA OutsideStep ==
    ASSUME IInv, NEW t \in Thread, EnterLoop(t) \/ SignalSuspend(t) \/ AwaitResume(t)
    PROVE  IInv'
<1>1. PICK l \in {"exited", "suspend", "schedule", "parked", "loop"} :
          /\ pc' = [pc EXCEPT ![t] = l]
          /\ l = "schedule" => task[t].type # "SUSPEND"
  BY DEF EnterLoop, SignalSuspend, AwaitResume
<1>2. /\ pc[t] \in {"loop", "suspend", "parked"}
      /\ UNCHANGED <<appPc, appIndex, config, destroying, unitCount, task, threadsAwake,
                     schedulerMutex, index, taskQueue, primitiveProgress, pixelProgress>>
  BY DEF EnterLoop, SignalSuspend, AwaitResume, appVars, scheduleVars
<1>3. Types'
  BY <1>1, <1>2 DEF IInv, Types, Busy, Asleep
<1>4. AppInv'
  BY <1>1, <1>2, WorkerKeepsApp
<1>5. WorkerInv'
  BY <1>1, <1>2 DEF IInv, Types, WorkerInv, Holding, Busy, Rendering, Sleepers, threadCount
<1>6. AwakeExact'
  BY <1>2 DEF IInv, AwakeExact
<1>7. \A o \in Thread : InHand(o)' <=> InHand(o)
  BY <1>1, <1>2 DEF IInv, Types, InHand
<1>8. ClaimInv' /\ TasksDistinct'
  BY <1>2, <1>7 DEF IInv, ClaimInv, TasksDistinct, Claimed, SameWork
<1> QED
  BY <1>3, <1>4, <1>5, <1>6, <1>8 DEF IInv

LEMMA LockSchedulerStep ==
    ASSUME IInv, NEW t \in Thread, LockScheduler(t)
    PROVE  IInv'
<1>1. PICK l \in {"findPixels", "take"} : pc' = [pc EXCEPT ![t] = l]
  BY DEF LockScheduler, Goto
<1>2. /\ pc[t] = "schedule" /\ schedulerMutex = NONE
      /\ schedulerMutex' = t /\ index' = 0
      /\ UNCHANGED <<appPc, appIndex, config, destroying, unitCount, task, threadsAwake,
                     taskQueue, primitiveProgress, pixelProgress>>
  BY DEF LockScheduler, appVars
<1>3. Types'
  BY <1>1, <1>2 DEF IInv, Types, Busy, Holding
<1>4. AppInv'
  BY <1>1, <1>2, WorkerKeepsApp
<1>5. WorkerInv'
  <2>1. \A o \in Thread : pc[o] \notin Holding
    BY <1>2, CountsFit DEF IInv, WorkerInv
  <2>2. unitCount > 0 /\ task[t].type # "SUSPEND"
    BY <1>2, CountsFit DEF IInv, Types, WorkerInv, Busy
  <2> QED
    BY <1>1, <1>2, <2>1, <2>2
    DEF IInv, Types, WorkerInv, Holding, Busy, Rendering
<1>6. AwakeExact'
  BY <1>2 DEF IInv, AwakeExact
<1>7. \A o \in Thread : InHand(o)' <=> InHand(o)
  BY <1>1, <1>2 DEF IInv, Types, InHand
<1>8. ClaimInv' /\ TasksDistinct'
  BY <1>2, <1>7 DEF IInv, ClaimInv, TasksDistinct, Claimed, SameWork
<1> QED
  BY <1>3, <1>4, <1>5, <1>6, <1>8 DEF IInv

\* What is not claimed is neither queued nor in hand: it may be queued.
LEMMA QueueFresh ==
    ASSUME IInv, NEW k \in TaskType, k.type \in {"PIXELS", "PRIMITIVES"},
           ~Claimed(k), Claimed(k)',
           \A x \in TaskType : Claimed(x) => Claimed(x)',
           taskQueue' = Append(taskQueue, k), task' = task,
           \A o \in Thread : InHand(o)' <=> InHand(o)
    PROVE  taskQueue' \in Seq(TaskType) /\ ClaimInv' /\ TasksDistinct'
<1>1. \A x \in TaskType : Claimed(x) => ~SameWork(x, k) /\ ~SameWork(k, x)
  BY DEF Claimed, SameWork, TaskType
<1>2. /\ taskQueue' \in Seq(TaskType)
      /\ \A i \in DOMAIN taskQueue' :
            \/ i \in DOMAIN taskQueue /\ taskQueue'[i] = taskQueue[i]
            \/ i = Len(taskQueue) + 1 /\ taskQueue'[i] = k
      /\ \A i \in DOMAIN taskQueue : taskQueue[i] \in TaskType
      /\ Len(taskQueue) + 1 \notin DOMAIN taskQueue
  BY DEF IInv, Types
<1>3. \A t \in Thread : task[t] \in TaskType
  BY DEF IInv, Types
<1>4. \A i \in DOMAIN taskQueue : ~SameWork(taskQueue[i], k) /\ ~SameWork(k, taskQueue[i])
  BY <1>1, <1>2 DEF IInv, ClaimInv
<1>5. \A t \in Thread : InHand(t) => ~SameWork(k, task[t])
  BY <1>1, <1>3 DEF IInv, ClaimInv
<1>6. ClaimInv'
  <2>1. ASSUME NEW i \in DOMAIN taskQueue'
        PROVE  Claimed(taskQueue[i])'
    <3>1. CASE i \in DOMAIN taskQueue /\ taskQueue'[i] = taskQueue[i]
      <4>1. PICK x \in TaskType : x = taskQueue[i]
        BY <1>2, <3>1
      <4>2. Claimed(x)'
        BY <3>1, <4>1 DEF IInv, ClaimInv
      <4> QED
        BY <3>1, <4>1, <4>2 DEF Claimed
    <3>2. CASE taskQueue'[i] = k
      BY <3>2 DEF Claimed
    <3> QED
      BY <1>2, <3>1, <3>2
  <2>2. ASSUME NEW t \in Thread, InHand(t)'
        PROVE  Claimed(task[t])'
    <3>1. PICK x \in TaskType : x = task[t]
      BY <1>3
    <3>2. Claimed(x)'
      BY <2>2, <3>1 DEF IInv, ClaimInv
    <3> QED
      BY <3>1, <3>2 DEF Claimed
  <2> QED
    BY <2>1, <2>2 DEF ClaimInv
<1>7. TasksDistinct'
  <2>1. ASSUME NEW i \in DOMAIN taskQueue', NEW j \in DOMAIN taskQueue', i # j
        PROVE  ~SameWork(taskQueue'[i], taskQueue'[j])
    BY <1>2, <1>4, <2>1 DEF IInv, TasksDistinct
  <2>2. ASSUME NEW t \in Thread, InHand(t)', NEW i \in DOMAIN taskQueue'
        PROVE  ~SameWork(taskQueue'[i], task'[t])
    BY <1>2, <1>5, <2>2 DEF IInv, TasksDistinct
  <2>3. ASSUME NEW t \in Thread, NEW o \in Thread \ {t}, InHand(t)', InHand(o)'
        PROVE  ~SameWork(task'[o], task'[t])
    BY <2>3 DEF IInv, TasksDistinct
  <2> QED
    BY <2>1, <2>2, <2>3 DEF TasksDistinct, SameWork
<1> QED
  BY <1>2, <1>6, <1>7

LEMMA UnitsInUse ==
    ASSUME Types
    PROVE  0 .. unitCount - 1 \subseteq Unit /\ unitCount \in Nat /\ unitCount > 0
<1>1. PICK n \in Int : n = ceilPow2(MaxThreads)
  BY CountsFit
<1>2. unitCount \in 1 .. n
  BY <1>1 DEF Types
<1>3. Unit = 0 .. n - 1
  BY <1>1 DEF Unit
<1> QED
  BY ONLY <1>1, <1>2, <1>3

LEMMA FindPixelTaskStep ==
    ASSUME IInv, NEW t \in Thread, FindPixelTask(t)
    PROVE  IInv'
<1>1. PICK l \in {"findPixels", "findPrimitives", "take"} :
          /\ pc' = [pc EXCEPT ![t] = l]
          /\ index' \in Nat /\ (l = "take" \/ index' < unitCount)
  <2>1. index \in Nat /\ unitCount \in Nat /\ unitCount > 0 /\ clusterCount = unitCount
    BY CountsFit DEF IInv, Types, clusterCount
  <2>3. CASE index + 1 < clusterCount
    <3>1. pc' = [pc EXCEPT ![t] = "findPixels"] /\ index' = index + 1
      BY <2>3 DEF FindPixelTask, IInv, Types
    <3> QED
      BY <2>1, <2>3, <3>1
  <2>4. CASE ~(index + 1 < clusterCount)
    BY <2>1, <2>4 DEF FindPixelTask, Goto
  <2> QED
    BY <2>3, <2>4
<1>2. /\ pc[t] = "findPixels"
      /\ UNCHANGED <<appPc, appIndex, config, destroying, unitCount, task, threadsAwake,
                     schedulerMutex, primitiveProgress>>
  BY DEF FindPixelTask, appVars
<1>3. index \in Cluster
  <2>1. index \in Nat /\ index < unitCount
    BY <1>2 DEF IInv, Types, WorkerInv
  <2> QED
    BY <2>1, UnitsInUse DEF IInv, Cluster
<1>4. AppInv'
  BY <1>1, <1>2, WorkerKeepsApp
<1>5. AwakeExact'
  BY <1>2 DEF IInv, AwakeExact
<1>6. \A o \in Thread : InHand(o)' <=> InHand(o)
  BY <1>1, <1>2 DEF IInv, Types, InHand
<1>7. WorkerInv'
  BY <1>1, <1>2 DEF IInv, Types, WorkerInv, Holding, Busy, Rendering, Sleepers, threadCount
<1>8. /\ taskQueue' \in Seq(TaskType)
      /\ pixelProgress' \in [Cluster -> [drawCall : Int, processed : Int,
                                         executing : BOOLEAN]]
      /\ ClaimInv' /\ TasksDistinct'
  <2>1. CASE ~pixelProgress[index].executing /\ ReadyUnits(index) # {}
    <3>1. PICK k : k = [type |-> "PIXELS", unit |-> Min(ReadyUnits(index)),
                        cluster |-> index]
      OBVIOUS
    <3>2. taskQueue' = Append(taskQueue, k)
          /\ pixelProgress' = [pixelProgress EXCEPT ![index].executing = TRUE]
      BY <2>1, <3>1 DEF FindPixelTask
    <3>3. ReadyUnits(index) \subseteq Unit
      BY UnitsInUse DEF ReadyUnits, IInv
    <3>4. Min(ReadyUnits(index)) \in Unit
      BY <2>1, <3>3, CountsFit, LeastOf
    <3>5. k \in TaskType /\ k.type = "PIXELS" /\ k.cluster = index
      BY <1>3, <3>1, <3>4 DEF TaskType
    <3>6. /\ pixelProgress' \in [Cluster -> [drawCall : Int, processed : Int,
                                             executing : BOOLEAN]]
          /\ \A c \in Cluster : pixelProgress[c].executing => pixelProgress'[c].executing
          /\ pixelProgress'[index].executing
      BY <1>3, <3>2 DEF IInv, Types
    <3>7. ~Claimed(k) /\ Claimed(k)'
      BY <2>1, <3>5, <3>6 DEF Claimed
    <3>8. \A x \in TaskType : Claimed(x) => Claimed(x)'
      BY <1>2, <3>6 DEF Claimed, TaskType
    <3> QED
      BY <1>2, <1>6, <3>2, <3>5, <3>6, <3>7, <3>8, QueueFresh
  <2>2. CASE ~(~pixelProgress[index].executing /\ ReadyUnits(index) # {})
    <3>1. UNCHANGED <<taskQueue, pixelProgress>>
      BY <2>2 DEF FindPixelTask
    <3> QED
      BY <1>2, <1>6, <3>1 DEF IInv, Types, ClaimInv, TasksDistinct, Claimed, SameWork
  <2> QED
    BY <2>1, <2>2
<1>9. Types'
  BY <1>1, <1>2, <1>8 DEF IInv, Types, Busy, Holding
<1> QED
  BY <1>4, <1>5, <1>7, <1>8, <1>9 DEF IInv
-----------------------------------------------------------------------------
(* Draw calls                                                               *)

LEMMA DataBegins == Init => Data
<1>1. DRAW_COUNT \in Nat \ {0}
  BY DrawAssumption
<1> QED
  BY <1>1 DEF Init, Data, DrawCalls, Slot

LEMMA ObjectIs ==
    ASSUME Data, NEW d \in Int
    PROVE  ObjectOf(d) \in Slot
<1>1. DRAW_COUNT \in Nat /\ DRAW_COUNT > 0
  BY DrawAssumption
<1>2. d % DRAW_COUNT \in 0 .. DRAW_COUNT - 1
  BY <1>1
<1> QED
  BY <1>2 DEF Data, ObjectOf, Slot

LEMMA EntryChanged ==
    ASSUME NEW f \in DrawCalls, NEW o, NEW n \in Int
    PROVE  /\ [f EXCEPT ![o].primitive = n] \in DrawCalls
           /\ [f EXCEPT ![o].references = n] \in DrawCalls
  BY DEF DrawCalls

LEMMA DataStep ==
    ASSUME Data, Next
    PROVE  Data'
<1>1. 0 \in Slot /\ DRAW_COUNT \in Nat \ {0}
  BY DrawAssumption DEF Slot
<1>2. ASSUME NEW shape \in DrawShape, DrawWith(shape)
      PROVE  Data'
  BY <1>1, <1>2, DrawAssumption DEF Data, DrawWith, drawVars
<1>3. CASE AwaitThread
  BY <1>1, <1>3 DEF Data, AwaitThread, drawVars
<1>4. CASE SearchDrawCall
  <2>1. appIndex \in Slot
    BY <1>4 DEF Data, SearchDrawCall
  <2>2. appIndex' \in Slot
    BY <1>1, <1>4, <2>1 DEF SearchDrawCall, Slot
  <2>3. drawList' \in [Slot -> Slot]
    BY <1>4, <2>1 DEF Data, SearchDrawCall
  <2> QED
    BY <1>4, <2>2, <2>3 DEF Data, SearchDrawCall
<1>5. CASE FillDrawCall
  <2>1. Batches(appShape) \in Int /\ appShape[1] \in Int /\ appShape[2] \in Int
    BY DEF Data, Batches
  <2> QED
    BY <1>5, <2>1 DEF Data, DrawCalls, FillDrawCall
<1>6. CASE PublishDraw
  BY <1>6 DEF Data, PublishDraw
<1>7. CASE LockSync \/ WaitDrawCall \/ Synchronize \/ Synchronized \/ Destroy \/ CheckAwake
  BY <1>7 DEF Data, LockSync, WaitDrawCall, Synchronize, Synchronized, Destroy,
              CheckAwake, drawVars
<1>8. CASE TerminateThreads \/ ExitThread \/ JoinThread \/ Configure \/ InitializeThread
           \/ WakeFirst \/ Dead
  BY <1>8 DEF Data, TerminateThreads, ExitThread, JoinThread, Configure,
              InitializeThread, WakeFirst, Dead, vars, drawVars, appVars
<1>9. ASSUME NEW t \in Thread, Worker(t)
      PROVE  Data'
  <2>1. CASE FindPrimitiveTask(t)
    <3>1. CurrentDraw \in Int /\ ObjectOf(CurrentDraw) \in Slot
      <4>1. CurrentDraw \in Int
        BY DEF Data, CurrentDraw
      <4> QED
        BY <4>1, ObjectIs
    <3>2. PICK o \in Slot : o = ObjectOf(CurrentDraw)
      BY <3>1
    <3>3. /\ currentDraw' = CurrentDraw
          /\ \/ drawCall' = [drawCall EXCEPT ![o].primitive =
                                drawCall[o].primitive + drawCall[o].batch]
             \/ drawCall' = drawCall
          /\ UNCHANGED <<appPc, appIndex, appShape, drawList, nextDraw>>
      BY <2>1, <3>2 DEF FindPrimitiveTask, appVars
    <3>4. drawCall[o].primitive + drawCall[o].batch \in Int
      BY DEF Data, DrawCalls
    <3>5. drawCall' \in DrawCalls
      <4>1. PICK n \in Int : n = drawCall[o].primitive + drawCall[o].batch
        BY <3>4
      <4>2. drawCall' = [drawCall EXCEPT ![o].primitive = n] \/ drawCall' = drawCall
        BY ONLY <3>3, <4>1
      <4>3. drawCall \in DrawCalls
        BY DEF Data
      <4>4. [drawCall EXCEPT ![o].primitive = n] \in DrawCalls
        BY ONLY <4>3, n \in Int DEF DrawCalls
      <4> QED
        BY ONLY <4>2, <4>3, <4>4
    <3> QED
      BY <3>1, <3>3, <3>5 DEF Data
  <2>2. CASE ReleaseDraw(t)
    <3>1. PICK o : o = finishing[t]
      OBVIOUS
    <3>2. /\ drawCall' = [drawCall EXCEPT ![o].references = drawCall[o].references - 1]
          /\ UNCHANGED <<appPc, appIndex, appShape, drawList, currentDraw, nextDraw>>
      BY <2>2, <3>1 DEF ReleaseDraw, appVars
    <3>3. drawCall' \in DrawCalls
      <4>1. CASE o \in Slot
        <5>1. drawCall[o].references - 1 \in Int
          BY <4>1 DEF Data, DrawCalls
        <5> QED
          BY <3>2, <5>1, EntryChanged DEF Data
      <4>2. CASE o \notin Slot
        BY <3>2, <4>2 DEF Data, DrawCalls
      <4> QED
        BY <4>1, <4>2
    <3> QED
      BY <3>2, <3>3 DEF Data
  <2>3. CASE FreeDrawCall(t)
    <3>1. PICK o : o = finishing[t]
      OBVIOUS
    <3>2. PICK n \in Int : n = -1
      OBVIOUS
    <3>3. /\ drawCall' = [drawCall EXCEPT ![o].references = n]
          /\ UNCHANGED <<appPc, appIndex, appShape, drawList, currentDraw, nextDraw>>
      BY <2>3, <3>1, <3>2 DEF FreeDrawCall, appVars
    <3>4. drawCall' \in DrawCalls
      BY <3>3, EntryChanged DEF Data
    <3> QED
      BY <3>3, <3>4 DEF Data
  <2>4. CASE EnterLoop(t) \/ SignalSuspend(t) \/ AwaitResume(t) \/ LockScheduler(t)
             \/ FindPixelTask(t) \/ TakeTask(t) \/ WakeThread(t) \/ ExecutePrimitives(t)
    BY <2>4 DEF Data, EnterLoop, SignalSuspend, AwaitResume, LockScheduler,
                FindPixelTask, TakeTask, WakeThread, ExecutePrimitives, drawVars, appVars
  <2>5. CASE ExecutePixels(t) \/ UpdateProgress(t) \/ ReleaseUnit(t) \/ RetireDraw(t)
             \/ SignalApp(t) \/ FinishPixels(t)
    BY <2>5 DEF Data, ExecutePixels, UpdateProgress, ReleaseUnit, RetireDraw,
                SignalApp, FinishPixels, drawVars, appVars
  <2> QED
    BY <1>9, <2>1, <2>2, <2>3, <2>4, <2>5 DEF Worker
<1> QED
  BY <1>2, <1>3, <1>4, <1>5, <1>6, <1>7, <1>8, <1>9 DEF Next, App
-----------------------------------------------------------------------------
(* More steps of a worker                                                   *)

LEMMA FindPrimitiveTaskStep ==
    ASSUME IInv, Data, NEW t \in Thread, FindPrimitiveTask(t)
    PROVE  IInv'
<1>1. PICK l \in {"findPrimitives", "take"} :
          /\ pc' = [pc EXCEPT ![t] = l]
          /\ index' \in Nat /\ (l = "take" \/ index' < unitCount)
  <2>1. index \in Nat
    BY DEF IInv, Types
  <2>2. CASE CurrentDraw # nextDraw /\ index + 1 < unitCount
    <3>1. pc' = [pc EXCEPT ![t] = "findPrimitives"] /\ index' = index + 1
      BY <2>2 DEF FindPrimitiveTask, IInv, Types
    <3> QED
      BY <2>1, <2>2, <3>1
  <2>3. CASE ~(CurrentDraw # nextDraw /\ index + 1 < unitCount)
    BY <2>3 DEF FindPrimitiveTask, Goto
  <2> QED
    BY <2>2, <2>3
<1>2. /\ pc[t] = "findPrimitives"
      /\ UNCHANGED <<appPc, appIndex, config, destroying, unitCount, task, threadsAwake,
                     schedulerMutex, pixelProgress>>
  BY DEF FindPrimitiveTask, appVars
<1>3. index \in Unit
  <2>1. index \in Nat /\ index < unitCount
    BY <1>2 DEF IInv, Types, WorkerInv
  <2> QED
    BY <2>1, UnitsInUse DEF IInv
<1>4. AppInv'
  BY <1>1, <1>2, WorkerKeepsApp
<1>5. AwakeExact'
  BY <1>2 DEF IInv, AwakeExact
<1>6. \A o \in Thread : InHand(o)' <=> InHand(o)
  BY <1>1, <1>2 DEF IInv, Types, InHand
<1>7. WorkerInv'
  BY <1>1, <1>2 DEF IInv, Types, WorkerInv, Holding, Busy, Rendering, Sleepers, threadCount
<1>8. /\ taskQueue' \in Seq(TaskType)
      /\ primitiveProgress' \in [Unit -> [drawCall : Int, first : Int, count : Int,
                                          references : Int]]
      /\ ClaimInv' /\ TasksDistinct'
  <2>1. CASE CurrentDraw # nextDraw /\ UnitFree(index)
    <3>1. PICK o \in Slot : o = ObjectOf(CurrentDraw)
      <4>1. CurrentDraw \in Int
        BY DEF Data, CurrentDraw
      <4> QED
        BY <4>1, ObjectIs
    <3>2. PICK p \in [drawCall : Int, first : Int, count : Int, references : Int] :
              p = [drawCall |-> CurrentDraw, first |-> drawCall[o].primitive,
                   count |-> IF drawCall[o].count - drawCall[o].primitive >= drawCall[o].batch
                             THEN drawCall[o].batch
                             ELSE drawCall[o].count - drawCall[o].primitive,
                   references |-> -1]
      <4>1. /\ drawCall[o].primitive \in Int /\ drawCall[o].count \in Int
            /\ drawCall[o].batch \in Int /\ CurrentDraw \in Int
        BY DEF Data, DrawCalls, CurrentDraw
      <4>2. PICK n \in Int : n = IF drawCall[o].count - drawCall[o].primitive >= drawCall[o].batch
                                 THEN drawCall[o].batch
                                 ELSE drawCall[o].count - drawCall[o].primitive
        BY <4>1
      <4>3. PICK m \in Int : m = -1
        OBVIOUS
      <4>4. PICK f \in Int, d \in Int : f = drawCall[o].primitive /\ d = CurrentDraw
        BY <4>1
      <4>5. [drawCall |-> d, first |-> f, count |-> n, references |-> m]
               \in [drawCall : Int, first : Int, count : Int, references : Int]
        OBVIOUS
      <4> QED
        BY ONLY <4>2, <4>3, <4>4, <4>5
    <3>3. p.references = -1
      BY <3>2
    <3>4. PICK k : k = [type |-> "PRIMITIVES", unit |-> index, cluster |-> 0]
      OBVIOUS
    <3>5. /\ taskQueue' = Append(taskQueue, k)
          /\ primitiveProgress' = [primitiveProgress EXCEPT ![index] = p]
      BY <2>1, <3>1, <3>2, <3>4 DEF FindPrimitiveTask
    <3>6. k \in TaskType /\ k.type = "PRIMITIVES" /\ k.unit = index
      <4>1. 0 \in Cluster
        BY FirstUnit DEF Cluster
      <4> QED
        BY <1>3, <3>4, <4>1 DEF TaskType
    <3>7. /\ primitiveProgress' \in [Unit -> [drawCall : Int, first : Int, count : Int,
                                              references : Int]]
          /\ \A u \in Unit : primitiveProgress[u].references < 0
                                => primitiveProgress'[u].references < 0
          /\ primitiveProgress'[index].references < 0
      BY <1>3, <3>3, <3>5 DEF IInv, Types
    <3>8. ~Claimed(k) /\ Claimed(k)'
      BY <2>1, <3>6, <3>7 DEF Claimed, UnitFree
    <3>9. \A x \in TaskType : Claimed(x) => Claimed(x)'
      BY <1>2, <3>7 DEF Claimed, TaskType
    <3> QED
      BY <1>2, <1>6, <3>5, <3>6, <3>7, <3>8, <3>9, QueueFresh
  <2>2. CASE ~(CurrentDraw # nextDraw /\ UnitFree(index))
    <3>1. UNCHANGED <<taskQueue, primitiveProgress>>
      BY <2>2 DEF FindPrimitiveTask
    <3> QED
      BY <1>2, <1>6, <3>1 DEF IInv, Types, ClaimInv, TasksDistinct, Claimed, SameWork
  <2> QED
    BY <2>1, <2>2
<1>9. Types'
  BY <1>1, <1>2, <1>8 DEF IInv, Types, Busy, Holding
<1> QED
  BY <1>4, <1>5, <1>7, <1>8, <1>9 DEF IInv

\* The head of the queue passes into the hands of the worker that takes it.
LEMMA TakeFirst ==
    ASSUME IInv, NEW t \in Thread, ~InHand(t), taskQueue # <<>>,
           task' = [task EXCEPT ![t] = Head(taskQueue)], taskQueue' = Tail(taskQueue),
           \A o \in Thread \ {t} : InHand(o)' <=> InHand(o),
           UNCHANGED <<primitiveProgress, pixelProgress>>
    PROVE  /\ taskQueue' \in Seq(TaskType) /\ task' \in [Thread -> TaskType]
           /\ ClaimInv' /\ TasksDistinct'
           /\ task'[t].type \in {"PIXELS", "PRIMITIVES"}
<1>1. /\ taskQueue \in Seq(TaskType) /\ task \in [Thread -> TaskType]
      /\ Len(taskQueue) \in Nat /\ Len(taskQueue) > 0
  BY DEF IInv, Types
<1>2. /\ Head(taskQueue) = taskQueue[1] /\ 1 \in DOMAIN taskQueue
      /\ taskQueue[1] \in TaskType /\ taskQueue' \in Seq(TaskType)
  BY <1>1
<1>3. \A i \in DOMAIN taskQueue' : /\ i + 1 \in DOMAIN taskQueue /\ i + 1 # 1
                                   /\ i \in Nat /\ taskQueue'[i] = taskQueue[i + 1]
  BY <1>1
<1>4. /\ task'[t] = taskQueue[1]
      /\ \A o \in Thread \ {t} : task'[o] = task[o]
      /\ task' \in [Thread -> TaskType]
  BY <1>1, <1>2
<1>5. Claimed(taskQueue[1])
  BY <1>2 DEF IInv, ClaimInv
<1>6. task'[t].type \in {"PIXELS", "PRIMITIVES"}
  BY <1>4, <1>5 DEF Claimed
<1>7. ClaimInv'
  <2>1. ASSUME NEW i \in DOMAIN taskQueue'
        PROVE  Claimed(taskQueue[i])'
    <3>1. PICK x : x = taskQueue[i + 1]
      OBVIOUS
    <3>2. Claimed(x)
      BY <1>3, <3>1 DEF IInv, ClaimInv
    <3> QED
      BY <1>3, <3>1, <3>2 DEF Claimed
  <2>2. ASSUME NEW o \in Thread, InHand(o)'
        PROVE  Claimed(task[o])'
    <3>1. CASE o = t
      <4>1. PICK x : x = taskQueue[1]
        OBVIOUS
      <4> QED
        BY <1>4, <1>5, <3>1, <4>1 DEF Claimed
    <3>2. CASE o # t
      BY <1>4, <2>2, <3>2 DEF IInv, ClaimInv, Claimed
    <3> QED
      BY <3>1, <3>2
  <2> QED
    BY <2>1, <2>2 DEF ClaimInv
<1>8. TasksDistinct'
  <2>1. ASSUME NEW i \in DOMAIN taskQueue', NEW j \in DOMAIN taskQueue', i # j
        PROVE  ~SameWork(taskQueue'[i], taskQueue'[j])
    <3>1. i + 1 # j + 1
      BY <1>3, <2>1
    <3> QED
      BY <1>3, <3>1 DEF IInv, TasksDistinct
  <2>2. ASSUME NEW o \in Thread, InHand(o)', NEW i \in DOMAIN taskQueue'
        PROVE  ~SameWork(taskQueue'[i], task'[o])
    <3>1. CASE o = t
      BY <1>2, <1>3, <1>4, <3>1 DEF IInv, TasksDistinct
    <3>2. CASE o # t
      BY <1>3, <1>4, <2>2, <3>2 DEF IInv, TasksDistinct
    <3> QED
      BY <3>1, <3>2
  <2>3. ASSUME NEW o \in Thread, NEW q \in Thread \ {o}, InHand(o)', InHand(q)'
        PROVE  ~SameWork(task'[q], task'[o])
    <3>1. CASE o = t
      <4>1. ~SameWork(taskQueue[1], task[q])
        BY <1>2, <2>3, <3>1 DEF IInv, TasksDistinct
      <4>2. task'[q] = task[q] /\ task'[o] = taskQueue[1]
        BY <1>4, <3>1
      <4> QED
        BY <4>1, <4>2 DEF SameWork
    <3>2. CASE q = t
      <4>1. ~SameWork(taskQueue[1], task[o])
        BY <1>2, <2>3, <3>2 DEF IInv, TasksDistinct
      <4>2. task'[o] = task[o] /\ task'[q] = taskQueue[1]
        BY <1>4, <3>2
      <4> QED
        BY <4>1, <4>2 DEF SameWork
    <3>3. CASE o # t /\ q # t
      BY <1>4, <2>3, <3>3 DEF IInv, TasksDistinct
    <3> QED
      BY <3>1, <3>2, <3>3
  <2> QED
    BY <2>1, <2>2, <2>3 DEF TasksDistinct, SameWork
<1> QED
  BY <1>2, <1>4, <1>6, <1>7, <1>8

LEMMA SleepersFit ==
    ASSUME Types
    PROVE  0 .. threadCount - 1 \subseteq Thread /\ Sleepers \subseteq Thread
<1>1. 0 .. threadCount - 1 \subseteq Thread
  BY CountsFit DEF Types, threadCount
<1> QED
  BY <1>1 DEF Sleepers

LEMMA TakeTaskStep ==
    ASSUME IInv, NEW t \in Thread, TakeTask(t)
    PROVE  IInv'
<1>1. /\ pc[t] = "take"
      /\ UNCHANGED <<appPc, appIndex, config, destroying, unitCount, primitiveProgress,
                     pixelProgress>>
  BY DEF TakeTask, appVars
<1>2. /\ schedulerMutex = t /\ task[t].type # "SUSPEND"
      /\ \A o \in Thread \ {t} : pc[o] \notin Holding
  BY <1>1 DEF IInv, WorkerInv, Holding, Busy
<1>3. t \in Awake /\ threadsAwake > 0
  BY <1>1, BusyAwake DEF Busy, Holding
<1>4. ~InHand(t)
  BY <1>1 DEF InHand
<1>5. CASE taskQueue # <<>>
  <2>1. PICK l \in {"wakeup", "primitives", "pixels"} :
          /\ pc' = [pc EXCEPT ![t] = l]
          /\ l = "wakeup" => schedulerMutex' = t /\ Sleepers # {}
          /\ l # "wakeup" => schedulerMutex' = NONE /\ l = Execution(Head(taskQueue).type)
          /\ index' \in Nat
    <3>1. PICK n \in Int : n = Len(taskQueue) - 1 - threadsAwake + 1
      <4>1. Len(taskQueue) \in Nat /\ threadsAwake \in Int
        BY DEF IInv, Types
      <4> QED
        BY ONLY <4>1
    <3>2. CASE threadsAwake # threadCount /\ n > 0 /\ Sleepers # {}
      <4>1. /\ pc' = [pc EXCEPT ![t] = "wakeup"] /\ index' = n
            /\ schedulerMutex' = schedulerMutex
        BY <1>5, <3>1, <3>2 DEF TakeTask, Goto
      <4>2. n \in Nat
        BY <3>2
      <4> QED
        BY <1>2, <3>2, <4>1, <4>2
    <3>3. CASE ~(threadsAwake # threadCount /\ n > 0 /\ Sleepers # {})
      <4>1. /\ pc' = [pc EXCEPT ![t] = Execution(Head(taskQueue).type)]
            /\ schedulerMutex' = NONE /\ index' = 0
        BY <1>5, <3>1, <3>3 DEF TakeTask, Goto
      <4>2. Head(taskQueue) = taskQueue[1] /\ 1 \in DOMAIN taskQueue
        BY <1>5 DEF IInv, Types
      <4>3. Head(taskQueue).type \in {"PIXELS", "PRIMITIVES"}
        BY <4>2 DEF IInv, ClaimInv, Claimed
      <4>4. Execution(Head(taskQueue).type) \in {"primitives", "pixels"}
        BY <4>3 DEF Execution
      <4> QED
        BY <4>1, <4>4
    <3> QED
      BY <3>2, <3>3
  <2>2. /\ task' = [task EXCEPT ![t] = Head(taskQueue)] /\ taskQueue' = Tail(taskQueue)
        /\ threadsAwake' = threadsAwake
    BY <1>5 DEF TakeTask
  <2>3. \A o \in Thread \ {t} : pc'[o] = pc[o] /\ (InHand(o)' <=> InHand(o))
    BY <2>1 DEF IInv, Types, InHand
  <2>4. /\ taskQueue' \in Seq(TaskType) /\ task' \in [Thread -> TaskType]
        /\ ClaimInv' /\ TasksDistinct'
        /\ task'[t].type \in {"PIXELS", "PRIMITIVES"}
    BY <1>1, <1>4, <1>5, <2>2, <2>3, TakeFirst
  <2>5. pc'[t] = l /\ (\A o \in Thread \ {t} : task'[o] = task[o])
    BY <2>1, <2>2 DEF IInv, Types
  <2>6. Types'
    BY <1>1, <2>1, <2>2, <2>4, CountsFit DEF IInv, Types, Busy, Holding, Rendering
  <2>7. AppInv'
    BY <1>1, <2>1, <2>2, WorkerKeepsApp
  <2>8. l = "wakeup" => Sleepers' # {}
    <3>1. \A i \in Sleepers : i \in Thread /\ i # t
      BY <1>2, SleepersFit DEF IInv, Sleepers
    <3>2. Sleepers \subseteq Sleepers'
      BY <1>1, <2>5, <3>1 DEF Sleepers, threadCount
    <3> QED
      BY <2>1, <3>2
  <2>9. WorkerInv'
    <3>1. l = "primitives" => task'[t].type = "PRIMITIVES"
      BY <2>1, <2>2, <2>4 DEF IInv, Types, Execution
    <3>2. l = "pixels" => task'[t].type = "PIXELS"
      BY <2>1, <2>2, <2>4 DEF IInv, Types, Execution
    <3>3. ASSUME NEW o \in Thread \ {t}
          PROVE  /\ pc'[o] \in Holding <=> schedulerMutex' = o
                 /\ pc'[o] \in Busy => task'[o].type # "SUSPEND"
                 /\ pc'[o] \in Rendering => task'[o].type = "PIXELS"
                 /\ pc'[o] = "primitives" => task'[o].type = "PRIMITIVES"
                 /\ pc'[o] \notin {"findPixels", "findPrimitives", "wakeup"}
      <4>1. pc'[o] = pc[o] /\ task'[o] = task[o] /\ pc[o] \notin Holding
        BY <1>2, <2>3, <2>5
      <4>2. schedulerMutex' # o
        BY <2>1, CountsFit
      <4>3. pc'[o] \notin {"findPixels", "findPrimitives", "wakeup"}
        BY <4>1 DEF Holding
      <4> QED
        BY <4>1, <4>2, <4>3 DEF IInv, WorkerInv
    <3>4. /\ pc'[t] \in Holding <=> schedulerMutex' = t
          /\ task'[t].type # "SUSPEND"
          /\ pc'[t] \in Rendering => task'[t].type = "PIXELS"
          /\ pc'[t] = "primitives" => task'[t].type = "PRIMITIVES"
          /\ pc'[t] \notin {"findPixels", "findPrimitives"}
          /\ pc'[t] = "wakeup" => Sleepers' # {}
      BY <2>1, <2>4, <2>5, <2>8, <3>1, <3>2, CountsFit DEF Holding, Rendering
    <3> QED
      BY <3>3, <3>4 DEF WorkerInv
  <2>10. AwakeExact'
    <3>1. {o \in Thread : task'[o].type # "SUSPEND"}
             = {o \in Thread : task[o].type # "SUSPEND"}
      BY <1>2, <2>4, <2>5
    <3> QED
      BY <2>2, <3>1 DEF IInv, AwakeExact
  <2> QED
    BY <2>4, <2>6, <2>7, <2>9, <2>10 DEF IInv
<1>6. CASE taskQueue = <<>>
  <2>1. /\ task' = [task EXCEPT ![t] = NoTask("SUSPEND")]
        /\ threadsAwake' = threadsAwake - 1
        /\ schedulerMutex' = NONE /\ index' = 0
        /\ pc' = [pc EXCEPT ![t] = "suspend"]
        /\ taskQueue' = taskQueue
    BY <1>6 DEF TakeTask, Goto
  <2>2. NoTask("SUSPEND") \in TaskType /\ NoTask("SUSPEND").type = "SUSPEND"
    <3>1. 0 \in Unit
      BY FirstUnit
    <3> QED
      BY <3>1 DEF NoTask, TaskType, Cluster
  <2>3. /\ task' \in [Thread -> TaskType] /\ task'[t].type = "SUSPEND"
        /\ \A o \in Thread \ {t} : task'[o] = task[o] /\ pc'[o] = pc[o]
        /\ pc'[t] = "suspend"
    <3>1. task \in [Thread -> TaskType] /\ pc \in [Thread -> Busy \cup Asleep]
      BY DEF IInv, Types
    <3> QED
      BY ONLY <2>1, <2>2, <3>1, t \in Thread
  <2>4. Types'
    BY <1>1, <2>1, <2>3 DEF IInv, Types, Asleep
  <2>5. AppInv'
    <3>1. threadsAwake = 0 => threadsAwake' = 0
      BY <1>3
    <3> QED
      BY <1>1, <2>1, <3>1, WorkerKeepsApp
  <2>6. WorkerInv'
    <3>1. "suspend" \notin Holding \cup Busy \cup Rendering
      BY DEF Holding, Busy, Rendering
    <3>2. ASSUME NEW o \in Thread \ {t}
          PROVE  /\ pc'[o] \notin Holding
                 /\ pc'[o] \notin {"findPixels", "findPrimitives", "wakeup"}
      BY <1>2, <2>3 DEF Holding
    <3> QED
      BY <2>1, <2>3, <3>1, <3>2, CountsFit DEF IInv, WorkerInv
  <2>7. AwakeExact'
    <3>1. {o \in Thread : task'[o].type # "SUSPEND"} = Awake \ {t}
      BY <2>3 DEF Awake
    <3>2. Cardinality(Awake \ {t}) = Cardinality(Awake) - 1
      BY <1>3, AwakeCounted, FS_RemoveElement DEF IInv
    <3>3. threadsAwake = Cardinality(Awake)
      BY AwakeCounted DEF IInv
    <3> QED
      BY <2>1, <3>1, <3>2, <3>3 DEF AwakeExact
  <2>8. \A o \in Thread : InHand(o)' => InHand(o) /\ o # t
    BY <2>3 DEF InHand
  <2>9. ClaimInv' /\ TasksDistinct'
    BY <1>1, <2>1, <2>3, <2>8 DEF IInv, ClaimInv, TasksDistinct, Claimed, SameWork
  <2> QED
    BY <2>4, <2>5, <2>6, <2>7, <2>9 DEF IInv
<1> QED
  BY <1>5, <1>6

LEMMA WakeThreadStep ==
    ASSUME IInv, NEW t \in Thread, WakeThread(t)
    PROVE  IInv'
<1>1. /\ pc[t] = "wakeup"
      /\ UNCHANGED <<appPc, appIndex, config, destroying, unitCount, taskQueue,
                     primitiveProgress, pixelProgress>>
  BY DEF WakeThread, appVars
<1>2. /\ schedulerMutex = t /\ Sleepers # {} /\ Claimed(task[t])
      /\ \A o \in Thread \ {t} : pc[o] \notin Holding
  BY <1>1 DEF IInv, WorkerInv, Holding, ClaimInv, InHand
<1>3. t \in Awake /\ threadsAwake > 0 /\ threadsAwake \in Nat
  BY <1>1, BusyAwake, AwakeCounted DEF IInv, Busy, Holding
<1>4. PICK i \in Thread : i = Min(Sleepers) /\ i \in Sleepers
  <2>1. Sleepers \subseteq Thread
    BY SleepersFit DEF IInv
  <2>2. Min(Sleepers) \in Sleepers
    BY <1>2, <2>1, CountsFit, LeastOf
  <2> QED
    BY <2>1, <2>2
<1>5. task[i].type = "SUSPEND" /\ i # t /\ pc[i] \in Asleep /\ i \notin Awake
  BY <1>3, <1>4 DEF IInv, Types, WorkerInv, Sleepers, Awake
<1>6. task[t].type \in {"PIXELS", "PRIMITIVES"}
  BY <1>2 DEF Claimed
<1>7. /\ task' = [task EXCEPT ![i] = NoTask("RESUME")]
      /\ threadsAwake' = threadsAwake + 1
  BY <1>4 DEF WakeThread
<1>8. PICK l \in {"wakeup", "primitives", "pixels"} :
          /\ pc' = [pc EXCEPT ![t] = l] /\ index' \in Nat
          /\ l = "wakeup" => schedulerMutex' = t /\ Sleepers # {i}
          /\ l # "wakeup" => schedulerMutex' = NONE /\ l = Execution(task[t].type)
  <2>1. CASE index > 1 /\ Sleepers # {i}
    <3>1. index' = index - 1 /\ pc' = pc /\ schedulerMutex' = schedulerMutex
      BY <1>4, <2>1 DEF WakeThread
    <3>2. pc' = [pc EXCEPT ![t] = "wakeup"]
      BY <1>1, <3>1 DEF IInv, Types
    <3> QED
      BY <1>2, <2>1, <3>1, <3>2 DEF IInv, Types
  <2>2. CASE ~(index > 1 /\ Sleepers # {i})
    <3>1. /\ index' = 0 /\ schedulerMutex' = NONE
          /\ pc' = [pc EXCEPT ![t] = Execution(task[t].type)]
      BY <1>4, <2>2 DEF WakeThread, Goto
    <3>2. Execution(task[t].type) \in {"primitives", "pixels"}
      BY <1>6 DEF Execution
    <3> QED
      BY <3>1, <3>2
  <2> QED
    BY <2>1, <2>2
<1>9. NoTask("RESUME") \in TaskType /\ NoTask("RESUME").type = "RESUME"
  <2>1. 0 \in Unit
    BY FirstUnit
  <2> QED
    BY <2>1 DEF NoTask, TaskType, Cluster
<1>10. /\ task' \in [Thread -> TaskType] /\ task'[i].type = "RESUME"
       /\ \A o \in Thread \ {i} : task'[o] = task[o]
       /\ \A o \in Thread \ {t} : pc'[o] = pc[o]
       /\ pc'[t] = l
  <2>1. task \in [Thread -> TaskType] /\ pc \in [Thread -> Busy \cup Asleep]
    BY DEF IInv, Types
  <2> QED
    BY ONLY <1>7, <1>8, <1>9, <2>1, t \in Thread, i \in Thread
<1>11. Types'
  BY <1>1, <1>3, <1>7, <1>8, <1>10, CountsFit DEF IInv, Types, Busy, Holding, Rendering
<1>12. AppInv'
  <2>1. threadsAwake = 0 => threadsAwake' = 0
    BY <1>3
  <2> QED
    BY <1>1, <1>8, <2>1, WorkerKeepsApp
<1>13. WorkerInv'
  <2>1. l = "primitives" => task'[t].type = "PRIMITIVES"
    BY <1>5, <1>6, <1>8, <1>10 DEF Execution
  <2>2. l = "pixels" => task'[t].type = "PIXELS"
    BY <1>5, <1>6, <1>8, <1>10 DEF Execution
  <2>3. l = "wakeup" => Sleepers' # {}
    <3>1. \A o \in Sleepers \ {i} : o \in Sleepers'
      BY <1>1, <1>10, SleepersFit DEF IInv, Sleepers, threadCount
    <3> QED
      BY <1>4, <1>8, <3>1
  <2>4. ASSUME NEW o \in Thread \ {t}
        PROVE  /\ pc'[o] \in Holding <=> schedulerMutex' = o
               /\ pc'[o] \in Busy => task'[o].type # "SUSPEND"
               /\ pc'[o] \in Rendering => task'[o].type = "PIXELS"
               /\ pc'[o] = "primitives" => task'[o].type = "PRIMITIVES"
               /\ pc'[o] \notin {"findPixels", "findPrimitives", "wakeup"}
    <3>1. pc'[o] = pc[o] /\ pc[o] \notin Holding /\ schedulerMutex' # o
      BY <1>2, <1>8, <1>10, CountsFit
    <3>2. pc'[o] \notin {"findPixels", "findPrimitives", "wakeup"}
      BY <3>1 DEF Holding
    <3>3. CASE o = i
      BY <1>5, <1>10, <3>1, <3>2, <3>3 DEF Asleep, Rendering
    <3>4. CASE o # i
      BY <1>10, <3>1, <3>2, <3>4 DEF IInv, WorkerInv
    <3> QED
      BY <3>3, <3>4
  <2>5. /\ pc'[t] \in Holding <=> schedulerMutex' = t
        /\ task'[t].type # "SUSPEND"
        /\ pc'[t] \in Rendering => task'[t].type = "PIXELS"
        /\ pc'[t] = "primitives" => task'[t].type = "PRIMITIVES"
        /\ pc'[t] \notin {"findPixels", "findPrimitives"}
        /\ pc'[t] = "wakeup" => Sleepers' # {}
    BY <1>5, <1>6, <1>8, <1>10, <2>1, <2>2, <2>3, CountsFit DEF Holding, Rendering
  <2> QED
    BY <2>4, <2>5 DEF WorkerInv
<1>14. AwakeExact'
  <2>1. {o \in Thread : task'[o].type # "SUSPEND"} = Awake \cup {i}
    BY <1>10 DEF Awake
  <2>2. Cardinality(Awake \cup {i}) = Cardinality(Awake) + 1
    BY <1>5, AwakeCounted, FS_AddElement DEF IInv
  <2>3. threadsAwake = Cardinality(Awake)
    BY AwakeCounted DEF IInv
  <2> QED
    BY <1>7, <2>1, <2>2, <2>3 DEF AwakeExact
<1>15. \A o \in Thread : (InHand(o)' <=> InHand(o)) /\ (InHand(o) => o # i)
  BY <1>1, <1>5, <1>8, <1>10 DEF InHand, Asleep
<1>16. ClaimInv' /\ TasksDistinct'
  BY <1>1, <1>10, <1>15 DEF IInv, ClaimInv, TasksDistinct, Claimed, SameWork
<1> QED
  BY <1>11, <1>12, <1>13, <1>14, <1>16 DEF IInv

\* What is left, queued or in hand, when a worker is done with its task.
LEMMA TaskDone ==
    ASSUME IInv, NEW t \in Thread, InHand(t), UNCHANGED <<task, taskQueue>>,
           \A o \in Thread : InHand(o)' <=> InHand(o) /\ o # t,
           \A x \in TaskType : Claimed(x) /\ ~SameWork(x, task[t]) => Claimed(x)'
    PROVE  ClaimInv' /\ TasksDistinct'
<1>1. /\ \A i \in DOMAIN taskQueue : taskQueue[i] \in TaskType
      /\ \A o \in Thread : task[o] \in TaskType
  BY DEF IInv, Types
<1>2. ClaimInv'
  <2>1. ASSUME NEW i \in DOMAIN taskQueue
        PROVE  Claimed(taskQueue[i])'
    <3>1. PICK x \in TaskType : x = taskQueue[i]
      BY <1>1
    <3>2. Claimed(x)'
      BY <3>1 DEF IInv, ClaimInv, TasksDistinct
    <3> QED
      BY <3>1, <3>2 DEF Claimed
  <2>2. ASSUME NEW o \in Thread, InHand(o)'
        PROVE  Claimed(task[o])'
    <3>1. PICK x \in TaskType : x = task[o]
      BY <1>1
    <3>2. Claimed(x)'
      BY <2>2, <3>1 DEF IInv, ClaimInv, TasksDistinct
    <3> QED
      BY <3>1, <3>2 DEF Claimed
  <2> QED
    BY <2>1, <2>2 DEF ClaimInv
<1>3. TasksDistinct'
  BY DEF IInv, TasksDistinct, SameWork
<1> QED
  BY <1>2, <1>3

LEMMA ExecutePrimitivesStep ==
    ASSUME IInv, NEW t \in Thread, ExecutePrimitives(t)
    PROVE  IInv'
<1>1. PICK u \in Unit : u = task[t].unit
  BY DEF IInv, Types, TaskType
<1>2. /\ pc[t] = "primitives" /\ pc' = [pc EXCEPT ![t] = "schedule"]
      /\ primitiveProgress' = [primitiveProgress EXCEPT ![u].references = unitCount]
      /\ UNCHANGED <<appPc, appIndex, config, destroying, unitCount, task, threadsAwake,
                     schedulerMutex, index, taskQueue, pixelProgress>>
  BY <1>1 DEF ExecutePrimitives, Goto, clusterCount, appVars
<1>3. task[t].type = "PRIMITIVES" /\ unitCount \in Int
  BY <1>2, UnitsInUse DEF IInv, WorkerInv
<1>4. primitiveProgress' \in [Unit -> [drawCall : Int, first : Int, count : Int,
                                       references : Int]]
  BY <1>2, <1>3 DEF IInv, Types
<1>5. Types'
  BY <1>2, <1>4 DEF IInv, Types, Busy
<1>6. AppInv'
  BY <1>2, WorkerKeepsApp
<1>7. WorkerInv'
  BY <1>2, <1>3 DEF IInv, Types, WorkerInv, Holding, Busy, Rendering, Sleepers, threadCount
<1>8. AwakeExact'
  BY <1>2 DEF IInv, AwakeExact
<1>9. \A o \in Thread : InHand(o)' <=> InHand(o) /\ o # t
  BY <1>2 DEF IInv, Types, InHand
<1>10. \A x \in TaskType : Claimed(x) /\ ~SameWork(x, task[t]) => Claimed(x)'
  <2>1. \A v \in Unit \ {u} : primitiveProgress'[v] = primitiveProgress[v]
    BY <1>2 DEF IInv, Types
  <2> QED
    BY <1>1, <1>2, <1>3, <2>1 DEF Claimed, SameWork, TaskType
<1>11. ClaimInv' /\ TasksDistinct'
  <2>1. InHand(t)
    BY <1>2 DEF InHand
  <2> QED
    BY <1>2, <1>9, <1>10, <2>1, TaskDone
<1> QED
  BY <1>5, <1>6, <1>7, <1>8, <1>11 DEF IInv

LEMMA FinishPixelsStep ==
    ASSUME IInv, NEW t \in Thread, FinishPixels(t)
    PROVE  IInv'
<1>1. PICK c \in Cluster : c = task[t].cluster
  BY DEF IInv, Types, TaskType
<1>2. /\ pc[t] = "finished" /\ pc' = [pc EXCEPT ![t] = "schedule"]
      /\ pixelProgress' = [pixelProgress EXCEPT ![c].executing = FALSE]
      /\ UNCHANGED <<appPc, appIndex, config, destroying, unitCount, task, threadsAwake,
                     schedulerMutex, index, taskQueue, primitiveProgress>>
  BY <1>1 DEF FinishPixels, Goto, appVars
<1>3. task[t].type = "PIXELS"
  BY <1>2 DEF IInv, WorkerInv, Rendering
<1>4. pixelProgress' \in [Cluster -> [drawCall : Int, processed : Int,
                                      executing : BOOLEAN]]
  BY <1>2 DEF IInv, Types
<1>5. Types'
  BY <1>2, <1>4 DEF IInv, Types, Busy
<1>6. AppInv'
  BY <1>2, WorkerKeepsApp
<1>7. WorkerInv'
  BY <1>2, <1>3 DEF IInv, Types, WorkerInv, Holding, Busy, Rendering, Sleepers, threadCount
<1>8. AwakeExact'
  BY <1>2 DEF IInv, AwakeExact
<1>9. \A o \in Thread : InHand(o)' <=> InHand(o) /\ o # t
  BY <1>2 DEF IInv, Types, InHand
<1>10. \A x \in TaskType : Claimed(x) /\ ~SameWork(x, task[t]) => Claimed(x)'
  <2>1. \A d \in Cluster \ {c} : pixelProgress'[d] = pixelProgress[d]
    BY <1>2 DEF IInv, Types
  <2> QED
    BY <1>1, <1>2, <1>3, <2>1 DEF Claimed, SameWork, TaskType
<1>11. ClaimInv' /\ TasksDistinct'
  <2>1. InHand(t)
    BY <1>2 DEF InHand
  <2> QED
    BY <1>2, <1>9, <1>10, <2>1, TaskDone
<1> QED
  BY <1>5, <1>6, <1>7, <1>8, <1>11 DEF IInv

\* Steps within the rendering of a batch keep every claim.
LEMMA RenderingStep ==
    ASSUME IInv, NEW t \in Thread, NEW l \in Rendering,
           pc[t] \in Rendering, pc' = [pc EXCEPT ![t] = l],
           UNCHANGED <<appPc, appIndex, config, destroying, unitCount, task, threadsAwake,
                       schedulerMutex, index, taskQueue>>,
           primitiveProgress' \in [Unit -> [drawCall : Int, first : Int, count : Int,
                                            references : Int]],
           pixelProgress' \in [Cluster -> [drawCall : Int, processed : Int,
                                           executing : BOOLEAN]],
           \A u \in Unit : primitiveProgress[u].references < 0
                              => primitiveProgress'[u].references < 0,
           \A c \in Cluster : pixelProgress[c].executing => pixelProgress'[c].executing
    PROVE  IInv'
<1>1. Types'
  BY DEF IInv, Types, Busy
<1>2. AppInv'
  <2>1. pc[t] # "none" /\ l # "none"
    BY DEF Rendering
  <2> QED
    BY <2>1, WorkerKeepsApp
<1>3. WorkerInv'
  <2>1. /\ task[t].type = "PIXELS" /\ schedulerMutex # t
        /\ pc'[t] = l /\ \A o \in Thread \ {t} : pc'[o] = pc[o]
    BY DEF IInv, Types, WorkerInv, Rendering, Holding
  <2> QED
    BY <2>1 DEF IInv, WorkerInv, Rendering, Holding, Busy, Sleepers, threadCount
<1>4. AwakeExact'
  BY DEF IInv, AwakeExact
<1>5. \A o \in Thread : InHand(o)' <=> InHand(o)
  BY DEF IInv, Types, InHand, Rendering
<1>6. \A x \in TaskType : Claimed(x) => Claimed(x)'
  BY DEF Claimed, TaskType
<1>7. ClaimInv'
  <2>1. ASSUME NEW i \in DOMAIN taskQueue
        PROVE  Claimed(taskQueue[i])'
    <3>1. PICK x \in TaskType : x = taskQueue[i]
      BY DEF IInv, Types
    <3>2. Claimed(x)'
      BY <1>6, <3>1 DEF IInv, ClaimInv
    <3> QED
      BY <3>1, <3>2 DEF Claimed
  <2>2. ASSUME NEW o \in Thread, InHand(o)'
        PROVE  Claimed(task[o])'
    <3>1. PICK x \in TaskType : x = task[o]
      BY DEF IInv, Types
    <3>2. Claimed(x)'
      BY <1>5, <1>6, <2>2, <3>1 DEF IInv, ClaimInv
    <3> QED
      BY <3>1, <3>2 DEF Claimed
  <2> QED
    BY <2>1, <2>2 DEF ClaimInv
<1>8. TasksDistinct'
  BY <1>5 DEF IInv, TasksDistinct, SameWork
<1> QED
  BY <1>1, <1>2, <1>3, <1>4, <1>7, <1>8 DEF IInv

LEMMA UpdateProgressStep ==
    ASSUME IInv, NEW t \in Thread, UpdateProgress(t)
    PROVE  IInv'
<1>1. PICK u \in Unit, c \in Cluster : u = task[t].unit /\ c = task[t].cluster
  BY DEF IInv, Types, TaskType
<1>2. PICK n \in Int : n = primitiveProgress[u].first + primitiveProgress[u].count
  BY DEF IInv, Types
<1>3. PICK d \in Int : d = pixelProgress[c].drawCall + 1
  BY DEF IInv, Types
<1>4. /\ pc[t] = "progress" /\ pc' = [pc EXCEPT ![t] = "releaseUnit"]
      /\ UNCHANGED <<appPc, appIndex, config, destroying, unitCount, task, threadsAwake,
                     schedulerMutex, index, taskQueue, primitiveProgress>>
  BY DEF UpdateProgress, Goto, appVars
<1>5. PICK x : /\ pixelProgress' = [pixelProgress EXCEPT ![c] = x]
               /\ \/ x = [pixelProgress[c] EXCEPT !.drawCall = d, !.processed = 0]
                  \/ x = [pixelProgress[c] EXCEPT !.processed = n]
  BY <1>1, <1>2, <1>3 DEF UpdateProgress
<1>6. /\ x \in [drawCall : Int, processed : Int, executing : BOOLEAN]
      /\ x.executing = pixelProgress[c].executing
  <2>1. pixelProgress[c] \in [drawCall : Int, processed : Int, executing : BOOLEAN]
    BY DEF IInv, Types
  <2>2. PICK p \in [drawCall : Int, processed : Int, executing : BOOLEAN] :
             p = pixelProgress[c]
    BY <2>1
  <2>3. x = [p EXCEPT !.drawCall = d, !.processed = 0] \/ x = [p EXCEPT !.processed = n]
    BY <1>5, <2>2
  <2>4. CASE x = [p EXCEPT !.drawCall = d, !.processed = 0]
    <3>1. x = [drawCall |-> d, processed |-> 0, executing |-> p.executing]
      BY <2>4
    <3>2. p.executing \in BOOLEAN
      OBVIOUS
    <3> QED
      BY <2>2, <3>1, <3>2
  <2>5. CASE x = [p EXCEPT !.processed = n]
    <3>1. x = [drawCall |-> p.drawCall, processed |-> n, executing |-> p.executing]
      BY <2>5
    <3>2. p.drawCall \in Int /\ p.executing \in BOOLEAN
      OBVIOUS
    <3> QED
      BY <2>2, <3>1, <3>2
  <2> QED
    BY <2>3, <2>4, <2>5
<1>7. /\ pixelProgress' \in [Cluster -> [drawCall : Int, processed : Int,
                                         executing : BOOLEAN]]
      /\ \A e \in Cluster : pixelProgress[e].executing => pixelProgress'[e].executing
  BY <1>5, <1>6 DEF IInv, Types
<1>8. /\ primitiveProgress' \in [Unit -> [drawCall : Int, first : Int, count : Int,
                                          references : Int]]
      /\ \A v \in Unit : primitiveProgress[v].references < 0
                            => primitiveProgress'[v].references < 0
  BY <1>4 DEF IInv, Types
<1>9. pc[t] \in Rendering /\ "releaseUnit" \in Rendering
  BY <1>4 DEF Rendering
<1> QED
  BY <1>4, <1>7, <1>8, <1>9, RenderingStep

LEMMA ReleaseUnitStep ==
    ASSUME IInv, NEW t \in Thread, ReleaseUnit(t)
    PROVE  IInv'
<1>1. PICK u \in Unit : u = task[t].unit
  BY DEF IInv, Types, TaskType
<1>2. PICK n \in Int : n = primitiveProgress[u].references - 1
  BY DEF IInv, Types
<1>3. PICK l \in {"releaseDraw", "finished"} : pc' = [pc EXCEPT ![t] = l]
  BY DEF ReleaseUnit, Goto
<1>4. /\ pc[t] = "releaseUnit"
      /\ primitiveProgress' = [primitiveProgress EXCEPT ![u].references = n]
      /\ UNCHANGED <<appPc, appIndex, config, destroying, unitCount, task, threadsAwake,
                     schedulerMutex, index, taskQueue, pixelProgress>>
  BY <1>1, <1>2 DEF ReleaseUnit, appVars
<1>5. primitiveProgress[u].references < 0 => n < 0
  BY <1>2 DEF IInv, Types
<1>6. /\ primitiveProgress' \in [Unit -> [drawCall : Int, first : Int, count : Int,
                                          references : Int]]
      /\ \A v \in Unit : primitiveProgress[v].references < 0
                            => primitiveProgress'[v].references < 0
  BY <1>4, <1>5 DEF IInv, Types
<1>7. /\ pixelProgress' \in [Cluster -> [drawCall : Int, processed : Int,
                                         executing : BOOLEAN]]
      /\ \A c \in Cluster : pixelProgress[c].executing => pixelProgress'[c].executing
  BY <1>4 DEF IInv, Types
<1>8. pc[t] \in Rendering /\ l \in Rendering
  BY <1>3, <1>4 DEF Rendering
<1> QED
  BY <1>3, <1>4, <1>6, <1>7, <1>8, RenderingStep

\* Rendering, releasing and retiring the draw call leave the schedule alone.
LEMMA RetiringStep ==
    ASSUME IInv, NEW t \in Thread,
           \/ ExecutePixels(t) \/ ReleaseDraw(t) \/ RetireDraw(t) \/ FreeDrawCall(t)
           \/ SignalApp(t)
    PROVE  IInv'
<1>1. PICK l \in {"progress", "retire", "finished", "free", "signalApp"} :
          pc' = [pc EXCEPT ![t] = l]
  BY DEF ExecutePixels, ReleaseDraw, RetireDraw, FreeDrawCall, SignalApp, Goto
<1>2. /\ pc[t] \in {"pixels", "releaseDraw", "retire", "free", "signalApp"}
      /\ UNCHANGED <<appPc, appIndex, config, destroying, unitCount, task, threadsAwake,
                     schedulerMutex, index, taskQueue, primitiveProgress, pixelProgress>>
  BY DEF ExecutePixels, ReleaseDraw, RetireDraw, FreeDrawCall, SignalApp, appVars,
         scheduleVars
<1>3. /\ primitiveProgress' \in [Unit -> [drawCall : Int, first : Int, count : Int,
                                          references : Int]]
      /\ pixelProgress' \in [Cluster -> [drawCall : Int, processed : Int,
                                         executing : BOOLEAN]]
  BY <1>2 DEF IInv, Types
<1>4. pc[t] \in Rendering /\ l \in Rendering
  BY <1>1, <1>2 DEF Rendering
<1>5. /\ \A u \in Unit : primitiveProgress[u].references < 0
                            => primitiveProgress'[u].references < 0
      /\ \A c \in Cluster : pixelProgress[c].executing => pixelProgress'[c].executing
  BY <1>2
<1> QED
  BY <1>1, <1>2, <1>3, <1>4, <1>5, RenderingStep
-----------------------------------------------------------------------------
(* Every behaviour                                                          *)

LEMMA StepsKeep ==
    ASSUME IInv, Data, [Next]_vars
    PROVE  IInv' /\ Data'
<1>1. CASE Next
  <2>1. Data'
    BY <1>1, DataStep
  <2>2. CASE AppMoves
    BY <2>1, <2>2, AppMovesStep
  <2>3. CASE JoinThread \/ Configure \/ InitializeThread \/ WakeFirst
    BY <2>1, <2>3, JoinThreadStep, ConfigureStep, InitializeThreadStep, WakeFirstStep
  <2>4. ASSUME NEW t \in Thread, Worker(t)
        PROVE  IInv'
    <3>1. CASE EnterLoop(t) \/ SignalSuspend(t) \/ AwaitResume(t)
      BY <3>1, OutsideStep
    <3>2. CASE LockScheduler(t) \/ FindPixelTask(t) \/ FindPrimitiveTask(t)
      BY <3>2, LockSchedulerStep, FindPixelTaskStep, FindPrimitiveTaskStep
    <3>3. CASE TakeTask(t) \/ WakeThread(t) \/ ExecutePrimitives(t) \/ FinishPixels(t)
      BY <3>3, TakeTaskStep, WakeThreadStep, ExecutePrimitivesStep, FinishPixelsStep
    <3>4. CASE UpdateProgress(t) \/ ReleaseUnit(t)
      BY <3>4, UpdateProgressStep, ReleaseUnitStep
    <3>5. CASE \/ ExecutePixels(t) \/ ReleaseDraw(t) \/ RetireDraw(t) \/ FreeDrawCall(t)
               \/ SignalApp(t)
      BY <3>5, RetiringStep
    <3> QED
      BY <2>4, <3>1, <3>2, <3>3, <3>4, <3>5 DEF Worker
  <2> QED
    BY <1>1, <2>1, <2>2, <2>3, <2>4 DEF Next, App, AppMoves
<1>2. CASE UNCHANGED vars
  <2>1. UNCHANGED <<workVars, appPc, appIndex, destroying, config>>
    BY <1>2 DEF vars, appVars, threadVars, scheduleVars, workVars
  <2>2. AppInv' /\ appIndex' \in Nat
    BY <2>1 DEF IInv, AppInv, Types, workVars
  <2>3. Data'
    BY <1>2 DEF Data, vars, drawVars, appVars
  <2> QED
    BY <2>1, <2>2, <2>3, WorkKept
<1> QED
  BY <1>1, <1>2

THEOREM Invariant == Spec => [](IInv /\ Data)
<1>1. Init => IInv /\ Data
  BY Begins, DataBegins
<1>2. (IInv /\ Data) /\ [Next]_vars => (IInv /\ Data)'
  BY StepsKeep
<1> QED
  BY <1>1, <1>2, PTL DEF Spec

(* threadsAwake is the number of threads with something to do, whichever    *)
(* threads are waking one another, suspending themselves, being created or  *)
(* being joined: it is why scheduleTask(), threadLoop() and                 *)
(* terminateThreads() may go by it.                                         *)
THEOREM CountsAwake == Spec => []AwakeExact
<1>1. IInv /\ Data => AwakeExact
  BY DEF IInv
<1> QED
  BY <1>1, Invariant, PTL

(* Two threads never have the same batch to set up or the same cluster to   *)
(* render, and neither is queued while it is under way.                     *)
THEOREM WorksOnce == Spec => []TasksDistinct
<1>1. IInv /\ Data => TasksDistinct
  BY DEF IInv
<1> QED
  BY <1>1, Invariant, PTL

(* taskQueue has 32 entries and nothing checks that one is free: there is   *)
(* one, for up to 16 units and 16 clusters, as each is queued at most once. *)
QueueFits == Len(taskQueue) <= 32

THEOREM QueueSuffices == Spec => []QueueFits
<1>1. ASSUME IInv
      PROVE  QueueFits
  <2>1. PICK n \in Nat : n = Len(taskQueue)
    BY <1>1 DEF IInv, Types
  <2>2. DOMAIN taskQueue = 1 .. n /\ \A i \in 1 .. n : taskQueue[i] \in TaskType
    BY <1>1, <2>1 DEF IInv, Types
  <2>3. IsFiniteSet(1 .. n) /\ Cardinality(1 .. n) = n
    <3>1. 1 \in Int /\ n \in Int
      OBVIOUS
    <3>2. /\ IsFiniteSet(1 .. n)
          /\ Cardinality(1 .. n) = IF 1 > n THEN 0 ELSE n - 1 + 1
      BY ONLY <3>1, FS_Interval
    <3> QED
      BY <3>2
  <2> DEFINE Pairs == {0, 1} \X Unit
             workOf == [i \in 1 .. n |-> IF taskQueue[i].type = "PIXELS"
                                         THEN <<1, taskQueue[i].cluster>>
                                         ELSE <<0, taskQueue[i].unit>>]
  <2>4. IsFiniteSet(Pairs) /\ Cardinality(Pairs) <= 32
    <3>1. IsFiniteSet({0, 1}) /\ Cardinality({0, 1}) = 2
      <4>1. 0 \in Int /\ 1 \in Int
        OBVIOUS
      <4>2. /\ IsFiniteSet(0 .. 1)
            /\ Cardinality(0 .. 1) = IF 0 > 1 THEN 0 ELSE 1 - 0 + 1
        BY ONLY <4>1, FS_Interval
      <4>3. {0, 1} = 0 .. 1
        OBVIOUS
      <4> QED
        BY ONLY <4>2, <4>3
    <3>2. PICK m \in 1 .. 16 : m = Cardinality(Unit)
      BY CountsFit
    <3>3. IsFiniteSet(Pairs) /\ Cardinality(Pairs) = Cardinality({0, 1}) * Cardinality(Unit)
      BY <3>1, CountsFit, FS_Product
    <3>4. Cardinality(Pairs) = 2 * m
      BY <3>1, <3>2, <3>3
    <3> QED
      BY <3>2, <3>3, <3>4
  <2>5. workOf \in [1 .. n -> Pairs]
    BY <2>2 DEF TaskType, Cluster
  <2>6. ASSUME NEW i \in 1 .. n, NEW j \in 1 .. n, i # j
        PROVE  workOf[i] # workOf[j]
    <3>1. ~SameWork(taskQueue[i], taskQueue[j])
      BY <1>1, <2>2, <2>6 DEF IInv, TasksDistinct
    <3>2. /\ taskQueue[i].type \in {"PIXELS", "PRIMITIVES"}
          /\ taskQueue[j].type \in {"PIXELS", "PRIMITIVES"}
      BY <1>1, <2>2 DEF IInv, ClaimInv, Claimed
    <3> QED
      BY <3>1, <3>2 DEF SameWork
  <2>7. Cardinality(Pairs) \in Nat
    BY <2>4, FS_CardinalityType
  <2>8. ~(Cardinality(Pairs) < Cardinality(1 .. n))
    <3> HIDE DEF Pairs, workOf
    <3> QED
      BY <2>3, <2>4, <2>5, <2>6, FS_PigeonHole
  <2> HIDE DEF Pairs
  <2> QED
    BY <2>1, <2>3, <2>4, <2>7, <2>8 DEF QueueFits
<1>2. IInv /\ Data => QueueFits
  BY <1>1
<1> QED
  BY <1>2, Invariant, PTL
-----------------------------------------------------------------------------
(* Batches of a draw call                                                   *)

\* Starts of batches are as far apart as a batch is long.
LEMMA Multiples ==
    ASSUME NEW b \in Nat \ {0}, NEW k \in Nat, NEW m \in Nat
    PROVE  /\ k * b \in Nat
           /\ k <= m => k * b <= m * b
           /\ (k + 1) * b = k * b + b
           /\ k < m => k * b + b <= m * b
<1>1. k * b \in Nat /\ (k + 1) * b = k * b + b
  OBVIOUS
<1>2. ASSUME k <= m
      PROVE  k * b <= m * b
  <2>1. PICK n \in Nat : m = k + n
    BY <1>2, m = k + (m - k), m - k \in Nat
  <2>2. (k + n) * b = k * b + n * b /\ n * b \in Nat /\ k * b \in Nat
    OBVIOUS
  <2> QED
    BY <2>1, <2>2
<1>3. ASSUME k < m
      PROVE  k * b + b <= m * b
  <2>1. PICK n \in Nat : m = k + 1 + n
    BY <1>3, m = k + 1 + (m - k - 1), m - k - 1 \in Nat
  <2>2. (k + 1 + n) * b = (k * b + b) + n * b /\ n * b \in Nat /\ k * b \in Nat
    OBVIOUS
  <2> QED
    BY <2>1, <2>2
<1> QED
  BY <1>1, <1>2, <1>3

\* A draw call of n primitives has so many batches of up to b.
LEMMA BatchCount ==
    ASSUME NEW n \in Nat \ {0}, NEW b \in Nat \ {0}
    PROVE  /\ Batches(<<n, b>>) \in Nat \ {0}
           /\ \A k \in Nat : k < Batches(<<n, b>>) <=> k * b < n
<1> DEFINE x == n + b - 1
           q == x \div b
<1>1. Batches(<<n, b>>) = q
  BY DEF Batches
<1>2. x \in Nat /\ q \in Nat /\ x = b * q + (x % b) /\ x % b \in 0 .. b - 1
  <2>1. x \in Nat
    OBVIOUS
  <2> HIDE DEF x
  <2>2. \A y \in Nat : /\ y \div b \in Nat /\ y = b * (y \div b) + (y % b)
                      /\ y % b \in 0 .. b - 1
    OBVIOUS
  <2> QED
    BY <2>1, <2>2
<1>3. PICK r \in 0 .. b - 1 : x = q * b + r
  BY <1>2
<1>4. q \in Nat /\ n + b - 1 = q * b + r
  BY <1>2, <1>3
<1> HIDE DEF x, q
<1>5. ASSUME NEW k \in Nat
      PROVE  k < q <=> k * b < n
  <2>1. k * b \in Nat /\ q * b \in Nat
    BY <1>4, Multiples
  <2>2. CASE k < q
    <3>1. k * b + b <= q * b
      BY <1>4, <2>2, Multiples
    <3> QED
      BY <1>4, <2>1, <2>2, <3>1
  <2>3. CASE ~(k < q)
    <3>1. q * b <= k * b
      BY <1>4, <2>3, Multiples
    <3> QED
      BY <1>4, <2>1, <2>3, <3>1
  <2> QED
    BY <2>2, <2>3
<1>6. q # 0
  <2>1. 0 < q <=> 0 * b < n
    BY <1>5
  <2> QED
    BY <2>1
<1> QED
  BY <1>1, <1>4, <1>5, <1>6

-----------------------------------------------------------------------------
(* What the references count                                                *)

\* The units in use.
LEMMA UsedUnits ==
    ASSUME Types
    PROVE  /\ Used \subseteq Unit /\ Used \subseteq Cluster /\ 0 \in Used
           /\ IsFiniteSet(Used) /\ Cardinality(Used) = unitCount
           /\ unitCount \in Nat /\ unitCount > 0
<1>1. 0 .. unitCount - 1 \subseteq Unit /\ unitCount \in Nat /\ unitCount > 0
  BY UnitsInUse
<1>2. PICK n \in Nat : n = unitCount /\ n > 0
  BY <1>1
<1>3. IsFiniteSet(0 .. n - 1) /\ Cardinality(0 .. n - 1) = n
  <2>1. 0 \in Int /\ n - 1 \in Int /\ ~(0 > n - 1)
    BY <1>2
  <2>2. /\ IsFiniteSet(0 .. n - 1)
        /\ Cardinality(0 .. n - 1) = IF 0 > n - 1 THEN 0 ELSE (n - 1) - 0 + 1
    BY ONLY <2>1, FS_Interval
  <2>3. (n - 1) - 0 + 1 = n
    BY <1>2
  <2> QED
    BY ONLY <2>1, <2>2, <2>3
<1> QED
  BY <1>1, <1>2, <1>3 DEF Used, Cluster

\* The sets that references count are finite.
LEMMA Counts ==
    ASSUME Types
    PROVE  /\ \A u : IsFiniteSet(Owing(u)) /\ Cardinality(Owing(u)) \in Nat
                     /\ (Cardinality(Owing(u)) = 0 <=> Owing(u) = {})
           /\ \A d : IsFiniteSet(UnitsOf(d)) /\ Cardinality(UnitsOf(d)) \in Nat
                     /\ (Cardinality(UnitsOf(d)) = 0 <=> UnitsOf(d) = {})
           /\ \A s : IsFiniteSet(Releasing(s)) /\ Cardinality(Releasing(s)) \in Nat
                     /\ (Cardinality(Releasing(s)) = 0 <=> Releasing(s) = {})
<1>1. IsFiniteSet(Used) /\ IsFiniteSet(Thread)
  BY UsedUnits, CountsFit
<1>2. /\ \A u : Owing(u) \subseteq Used
      /\ \A d : UnitsOf(d) \subseteq Used
      /\ \A s : Releasing(s) \subseteq Thread
  BY DEF Owing, UnitsOf, Releasing
<1>3. /\ \A u : IsFiniteSet(Owing(u)) /\ \A d : IsFiniteSet(UnitsOf(d))
      /\ \A s : IsFiniteSet(Releasing(s))
  BY <1>1, <1>2, FS_Subset
<1>4. \A S : IsFiniteSet(S) => Cardinality(S) \in Nat /\ (Cardinality(S) = 0 <=> S = {})
  BY FS_CardinalityType, FS_EmptySet
<1> QED
  BY <1>3, <1>4

LEMMA ObjectTyped ==
    ASSUME Types, Data, NEW s \in Slot
    PROVE  /\ drawCall[s].draw \in Int /\ drawCall[s].primitive \in Int
           /\ drawCall[s].count \in Int /\ drawCall[s].batch \in Int
           /\ drawCall[s].references \in Int
  BY DEF Data, DrawCalls

LEMMA ProgressTyped ==
    ASSUME Types, NEW u \in Used
    PROVE  /\ u \in Unit /\ u \in Cluster
           /\ primitiveProgress[u].drawCall \in Int /\ primitiveProgress[u].first \in Int
           /\ primitiveProgress[u].count \in Int /\ primitiveProgress[u].references \in Int
           /\ pixelProgress[u].drawCall \in Int /\ pixelProgress[u].processed \in Int
  BY UsedUnits DEF Types

\* What is known of the references of a draw call that is not free.
LEMMA References ==
    ASSUME Types, Data, ObjectInv, CountInv, NEW s \in Slot, Open(s)
    PROVE  LET o == drawCall[s] IN
           /\ o.references \in Nat /\ o.primitive \in Nat
           /\ o.count \in Nat \ {0} /\ o.batch \in Nat \ {0} /\ o.draw \in Nat
           /\ Starts(o.primitive, o.batch)
           /\ o.references = 0 =>
                 o.primitive >= o.count /\ UnitsOf(o.draw) = {} /\ Releasing(s) = {}
<1> DEFINE o == drawCall[s]
           N == Batches(<<o.count, o.batch>>)
           x == Cardinality(UnitsOf(o.draw))
           y == Cardinality(Releasing(s))
<1>1. o.count \in Nat \ {0} /\ o.batch \in Nat \ {0} /\ o.draw \in Nat /\ o.references \in Int
  BY ObjectTyped DEF ObjectInv
<1>2. N \in Nat \ {0} /\ \A k \in Nat : k < N <=> k * o.batch < o.count
  BY <1>1, BatchCount
<1>3. PICK k \in Nat : k <= N /\ o.primitive = k * o.batch /\ o.references = N - k + x + y
  BY DEF CountInv, Counted
<1>4. /\ x \in Nat /\ (x = 0 <=> UnitsOf(o.draw) = {})
      /\ y \in Nat /\ (y = 0 <=> Releasing(s) = {})
  BY Counts
<1>5. o.primitive \in Nat /\ Starts(o.primitive, o.batch)
  BY <1>1, <1>3, Multiples DEF Starts
<1> HIDE DEF o, N, x, y
<1>6. o.references \in Nat
  BY <1>2, <1>3, <1>4
<1>7. ASSUME o.references = 0
      PROVE  o.primitive >= o.count /\ UnitsOf(o.draw) = {} /\ Releasing(s) = {}
  <2>1. k = N /\ x = 0 /\ y = 0
    BY <1>2, <1>3, <1>4, <1>7
  <2>2. ~(k * o.batch < o.count)
    BY <1>2, <2>1
  <2> QED
    BY <1>1, <1>3, <1>4, <1>5, <2>1, <2>2
<1> QED
  BY <1>1, <1>5, <1>6, <1>7 DEF o

-----------------------------------------------------------------------------
(* What follows from the invariant                                          *)

\* What currentDraw has not passed is in flight.
LEMMA Ahead ==
    ASSUME Core, NEW d \in Int, currentDraw <= d, d < nextDraw
    PROVE  InFlight(d)
<1>1. 0 \in Used /\ pixelProgress[0].drawCall \in 0 .. currentDraw
  BY UsedUnits DEF Core, ClusterInv, ClusterIs
<1>2. d \in 0 .. nextDraw - 1 /\ ~(pixelProgress[0].drawCall > d)
  BY <1>1 DEF Core, KeptInv, Data
<1> QED
  BY <1>1, <1>2 DEF Core, KeptInv

\* The object of a draw call in flight.
LEMMA Flying ==
    ASSUME Core, NEW d \in Int, InFlight(d)
    PROVE  /\ ObjectOf(d) \in Slot /\ Open(ObjectOf(d))
           /\ Object(d) = drawCall[ObjectOf(d)] /\ Object(d).draw = d
           /\ d \in 0 .. nextDraw
<1>1. ObjectOf(d) \in Slot
  BY ObjectIs DEF Core
<1> QED
  BY <1>1 DEF InFlight, Object, Open, Core, ObjectInv

\* An object that is not free is that of a draw call in flight.
LEMMA OpenFlies ==
    ASSUME Core, NEW s \in Slot, Open(s)
    PROVE  InFlight(drawCall[s].draw) /\ Object(drawCall[s].draw) = drawCall[s]
  BY DEF InFlight, Object, Open, Core, ObjectInv

\* As long as a draw call is in flight, some cluster has not come past it.
LEMMA NotDone ==
    ASSUME Core, NEW d \in 0 .. nextDraw - 1, InFlight(d)
    PROVE  \E c \in Used : NearTo(c, d)
<1>1. d \in Int
  BY DEF Core, Data
<1>2. PICK s \in Slot : s = ObjectOf(d) /\ Open(s) /\ Object(d) = drawCall[s]
                        /\ drawCall[s].draw = d
  BY <1>1, Flying
<1>3. ASSUME NEW t \in Thread, pc[t] \in Finishing, finishing[t] = s
      PROVE  \E c \in Used : NearTo(c, d)
  BY <1>2, <1>3 DEF Core, FinishInv
<1>4. CASE drawCall[s].references = 0
  <2>1. PICK t \in Thread : pc[t] \in Retiring /\ finishing[t] = s
    BY <1>4 DEF Core, FinishInv
  <2> QED
    BY <1>3, <2>1 DEF Retiring, Finishing
<1>5. CASE Releasing(s) # {}
  BY <1>3, <1>5 DEF Releasing, Finishing
<1>6. CASE UnitsOf(d) # {}
  <2>1. PICK u \in Used : Active(u) /\ primitiveProgress[u].drawCall = d
    BY <1>6 DEF UnitsOf
  <2>2. UnitIs(u)
    BY <2>1 DEF Core, UnitInv
  <2>3. Owing(u) # {}
    <3>1. primitiveProgress[u].references \in Int /\ primitiveProgress[u].references # 0
      BY <2>1, ProgressTyped DEF Active, Core
    <3>2. CASE primitiveProgress[u].references < 0
      BY <2>2, <3>2, UsedUnits DEF UnitIs, Core
    <3>3. CASE primitiveProgress[u].references > 0
      <4>1. Cardinality(Owing(u)) # 0
        BY <2>2, <3>3 DEF UnitIs
      <4> QED
        BY <4>1, Counts DEF Core
    <3> QED
      BY <3>1, <3>2, <3>3
  <2>4. PICK c \in Used : Owes(c, u)
    BY <2>3 DEF Owing
  <2>5. CASE NotPast(c, d, primitiveProgress[u].first)
    <3>1. pixelProgress[c].drawCall <= d
      BY <1>1, <2>5, ProgressTyped DEF NotPast, Core
    <3> QED
      BY <3>1 DEF NearTo
  <2>6. ASSUME NEW t \in Thread, Releases(t, c, u)
        PROVE  \E b \in Used : NearTo(b, d)
    <3>1. pc[t] \in Finishing /\ finishing[t] = s
      BY <1>2, <2>1, <2>6 DEF Releases, Core, FinishInv, Finishing
    <3> QED
      BY <1>3, <3>1
  <2> QED
    BY <2>1, <2>4, <2>5, <2>6 DEF Owes
<1>7. CASE /\ drawCall[s].references # 0 /\ Releasing(s) = {} /\ UnitsOf(d) = {}
  <2> DEFINE o == drawCall[s]
             N == Batches(<<o.count, o.batch>>)
  <2>1. o.count \in Nat \ {0} /\ o.batch \in Nat \ {0}
    BY <1>2, References DEF Core
  <2>2. N \in Nat \ {0} /\ \A k \in Nat : k < N <=> k * o.batch < o.count
    BY <2>1, BatchCount
  <2>3. PICK k \in Nat : /\ k <= N /\ o.primitive = k * o.batch
                         /\ o.references = N - k + Cardinality(UnitsOf(o.draw))
                                                 + Cardinality(Releasing(s))
    BY <1>2 DEF Core, CountInv, Counted
  <2>4. Cardinality(UnitsOf(o.draw)) = 0 /\ Cardinality(Releasing(s)) = 0
    BY <1>2, <1>7, Counts DEF Core
  <2>5. o.primitive < o.count
    <3>1. k < N
      <4> HIDE DEF o, N
      <4> QED
        BY <1>7, <2>2, <2>3, <2>4 DEF o
    <3> QED
      BY <2>2, <2>3, <3>1
  <2>6. ~(d < currentDraw)
    <3>1. o.draw < currentDraw => o.primitive >= o.count
      BY <1>2 DEF Core, CountInv
    <3> QED
      BY <1>2, <2>1, <2>3, <2>5, <3>1, Multiples
  <2>7. pixelProgress[0].drawCall <= d /\ 0 \in Used
    <3>1. 0 \in Used /\ pixelProgress[0].drawCall \in 0 .. currentDraw
      BY UsedUnits DEF Core, ClusterInv, ClusterIs
    <3> QED
      BY <1>1, <2>6, <3>1 DEF Core, Data
  <2> QED
    BY <2>7 DEF NearTo
<1> QED
  BY <1>4, <1>5, <1>6, <1>7

\* Draw calls are retired in the order in which they were submitted.
LEMMA RetiredInOrder ==
    ASSUME Core, NEW d \in 0 .. nextDraw - 1, NEW e \in 0 .. nextDraw - 1, d < e, InFlight(d)
    PROVE  InFlight(e)
<1>1. PICK c \in Used : NearTo(c, d)
  BY NotDone
<1>2. ~(pixelProgress[c].drawCall > e)
  BY <1>1, ProgressTyped DEF NearTo, Core, Data
<1> QED
  BY <1>2 DEF Core, KeptInv

-----------------------------------------------------------------------------
(* Steps that leave draw calls alone                                        *)

LEMMA BatchedBegins == Init => Batched
<1> SUFFICES ASSUME Init PROVE Batched
  OBVIOUS
<1>1. \A s \in Slot : ~Open(s)
  BY DEF Init, Open
<1>2. Used \subseteq Unit /\ Used \subseteq Cluster
  <2>1. Types
    BY Begins DEF IInv
  <2> QED
    BY <2>1, UsedUnits
<1>3. Places
  BY DrawAssumption DEF Init, Places, Slot, NoBatch
<1>4. ObjectInv
  BY <1>1 DEF Init, ObjectInv
<1>5. CountInv
  BY <1>1 DEF CountInv
<1>6. UnitInv
  BY <1>2 DEF Init, UnitInv, Active
<1>7. ClusterInv
  BY <1>2 DEF Init, ClusterInv, ClusterIs
<1>8. KeptInv
  BY DEF Init, KeptInv
<1>9. FinishInv
  BY DEF Init, FinishInv, Finishing, Retiring
<1>10. WorkIs /\ SearchInv
  BY DEF Init, WorkIs, SearchInv
<1> QED
  BY <1>3, <1>4, <1>5, <1>6, <1>7, <1>8, <1>9, <1>10 DEF Batched

\* Workers elsewhere do not matter.
ElsewhereUnchanged ==
    /\ UNCHANGED <<drawList, drawCall, currentDraw, nextDraw, unitCount, primitiveProgress,
                   batchOf>>
    /\ \A c \in Used : /\ pixelProgress'[c].drawCall = pixelProgress[c].drawCall
                       /\ pixelProgress'[c].processed = pixelProgress[c].processed
    /\ \A t \in Thread : pc[t] \in Finishing \/ pc'[t] \in Finishing =>
          pc'[t] = pc[t] /\ task'[t] = task[t] /\ finishing'[t] = finishing[t]

\* Steps of the application that touch neither draw calls nor the schedule.
LEMMA Elsewhere ==
    ASSUME Core, ElsewhereUnchanged
    PROVE  CountInv' /\ UnitInv' /\ ClusterInv' /\ KeptInv' /\ FinishInv'
<1> USE DEF ElsewhereUnchanged
<1>1. Used' = Used /\ \A s : Open(s)' <=> Open(s)
  BY DEF Used, Open
<1>2. \A d : ObjectOf(d)' = ObjectOf(d) /\ Object(d)' = Object(d)
             /\ (InFlight(d)' <=> InFlight(d))
  BY DEF ObjectOf, Object, InFlight
<1>3. \A c \in Used : \A d, f : NotPast(c, d, f)' <=> NotPast(c, d, f)
  BY DEF NotPast
<1>4. \A t \in Thread : \A c, u : Releases(t, c, u)' <=> Releases(t, c, u)
  BY DEF Releases, Finishing
<1>5. \A u : Owing(u)' = Owing(u) /\ (Active(u)' <=> Active(u))
  BY <1>1, <1>3, <1>4 DEF Owing, Owes, Active
<1>6. \A d : UnitsOf(d)' = UnitsOf(d)
  BY <1>1, <1>5 DEF UnitsOf
<1>7. \A s : Releasing(s)' = Releasing(s)
  BY DEF Releasing, Finishing
<1>8. CountInv'
  <2>1. \A s \in Slot : Counted(s)' <=> Counted(s)
    BY <1>6, <1>7 DEF Counted
  <2> QED
    BY <1>1, <2>1 DEF Core, CountInv
<1>9. UnitInv'
  <2>1. \A u \in Used : UnitIs(u) => UnitIs(u)'
    BY <1>1, <1>2, <1>5 DEF UnitIs
  <2> QED
    BY <1>1, <1>5, <2>1 DEF Core, UnitInv
<1>10. ClusterInv'
  BY <1>1, <1>2 DEF Core, ClusterInv, ClusterIs
<1>11. KeptInv'
  <2>1. \A u, d, f : Holds(u, d, f)' <=> Holds(u, d, f)
    BY <1>5 DEF Holds
  <2> QED
    BY <1>1, <1>2, <1>3, <2>1 DEF Core, KeptInv
<1>12. FinishInv'
  <2>1. \A t \in Thread : /\ pc'[t] \in Finishing <=> pc[t] \in Finishing
                          /\ pc'[t] \in Retiring <=> pc[t] \in Retiring
                          /\ pc'[t] = "releaseUnit" <=> pc[t] = "releaseUnit"
                          /\ pc[t] \in Retiring \/ pc[t] = "releaseUnit" => pc[t] \in Finishing
    BY DEF Finishing, Retiring
  <2>2. ASSUME NEW t \in Thread, pc'[t] \in Finishing
        PROVE  /\ task'[t].cluster \in Used'
               /\ Open(finishing[t])' /\ drawCall'[finishing'[t]].draw < nextDraw'
               /\ NearTo(task[t].cluster, drawCall[finishing[t]].draw)'
    BY <1>1, <2>1, <2>2 DEF Core, FinishInv, NearTo, Open
  <2>3. ASSUME NEW t \in Thread, pc'[t] = "releaseUnit"
        PROVE  LET p == primitiveProgress'[task'[t].unit]
               IN  /\ task'[t].unit \in Used'
                   /\ p.references > 0
                   /\ ~NotPast(task[t].cluster, primitiveProgress[task[t].unit].drawCall,
                               primitiveProgress[task[t].unit].first)'
                   /\ finishing'[t] = ObjectOf(primitiveProgress[task[t].unit].drawCall)'
    <3>1. pc[t] = "releaseUnit" /\ task'[t] = task[t] /\ finishing'[t] = finishing[t]
          /\ task[t].cluster \in Used
      BY <2>1, <2>3 DEF Core, FinishInv
    <3> QED
      BY <1>1, <3>1 DEF Core, FinishInv, NotPast, ObjectOf
  <2>4. /\ \A t \in Thread : pc'[t] \in Retiring => drawCall'[finishing'[t]].references = 0
        /\ \A t, o \in Thread : pc'[t] \in Retiring /\ pc'[o] \in Retiring /\ t # o
                               => finishing'[t] # finishing'[o]
        /\ \A s \in Slot : drawCall'[s].references = 0 =>
              \E t \in Thread : pc'[t] \in Retiring /\ finishing'[t] = s
    BY <2>1 DEF Core, FinishInv
  <2> QED
    BY <2>2, <2>3, <2>4 DEF FinishInv
<1> QED
  BY <1>8, <1>9, <1>10, <1>11, <1>12

LEMMA CoreHolds == ASSUME IInv, Data, Batched PROVE Core
  BY DEF IInv, Batched, Core

\* What ObjectInv says of drawCall and drawList, and what of the application.
AppCarries ==
    /\ appPc \in {"configure", "initialize", "created", "lock", "search", "wait", "fill"}
          => appShape[1] > 0 /\ nextDraw < MaxDraws
    /\ appPc = "publish" => nextDraw < MaxDraws
    /\ appPc \in {"terminate", "exit", "join"} /\ ~destroying
          => appShape[1] > 0 /\ nextDraw < MaxDraws

\* Steps of the application other than those that submit a draw call.
AppIdles ==
    \/ \E shape \in DrawShape : DrawWith(shape)
    \/ TerminateThreads \/ ExitThread \/ JoinThread \/ Configure \/ AwaitThread
    \/ LockSync \/ WaitDrawCall \/ CheckAwake \/ WakeFirst
    \/ Synchronize \/ Synchronized \/ Destroy \/ UNCHANGED vars

LEMMA AppCarriesOn ==
    ASSUME ObjectInv, AppIdles
    PROVE  (AppCarries' /\ appPc' \notin {"fill", "publish"}) \/ UNCHANGED vars
<1>1. AppCarries
  BY DEF AppCarries, ObjectInv
<1>2. ASSUME NEW shape \in DrawShape, DrawWith(shape)
      PROVE  AppCarries' /\ appPc' \notin {"fill", "publish"}
  <2>1. shape[1] > 0
    BY DrawAssumption
  <2> QED
    BY <1>2, <2>1 DEF DrawWith, AppCarries, drawVars
<1>3. CASE TerminateThreads \/ ExitThread \/ JoinThread \/ Configure \/ AwaitThread
  BY <1>1, <1>3 DEF TerminateThreads, ExitThread, JoinThread, Configure, AwaitThread,
                    AppCarries, drawVars
<1>4. CASE LockSync \/ WaitDrawCall \/ CheckAwake \/ WakeFirst
  BY <1>1, <1>4 DEF LockSync, WaitDrawCall, CheckAwake, WakeFirst, AppCarries, drawVars
<1>5. CASE Synchronize \/ Synchronized \/ Destroy
  BY <1>1, <1>5 DEF Synchronize, Synchronized, Destroy, AppCarries, drawVars
<1> QED
  BY <1>2, <1>3, <1>4, <1>5 DEF AppIdles

LEMMA AppIdlesStep ==
    ASSUME IInv, Data, Batched, AppIdles
    PROVE  Batched'
<1>1. UNCHANGED <<drawList, drawCall, currentDraw, nextDraw, unitCount, primitiveProgress,
                  pixelProgress, batchOf, finishing, taskQueue>>
  BY DEF AppIdles, DrawWith, TerminateThreads, ExitThread, JoinThread, Configure, AwaitThread,
         LockSync, WaitDrawCall, CheckAwake, WakeFirst, Synchronize, Synchronized, Destroy,
         vars, appVars, drawVars, threadVars, scheduleVars, dataVars
<1>2. \A t \in Thread : \/ pc'[t] = pc[t] /\ task'[t] = task[t]
                        \/ pc[t] \in Asleep /\ pc'[t] \in Asleep
  <2>1. CASE JoinThread
    BY <2>1 DEF IInv, Types, JoinThread, Asleep
  <2>2. CASE WakeFirst
    <3>1. threadsAwake = 0
      BY <2>2 DEF IInv, AppInv, WakeFirst
    <3>2. \A t \in Thread : pc[t] \in Asleep
      BY <3>1, NoneAwake
    <3> QED
      BY <2>2, <3>2 DEF WakeFirst
  <2>3. CASE UNCHANGED <<pc, task>>
    BY <2>3
  <2> QED
    BY <2>1, <2>2, <2>3
    DEF AppIdles, DrawWith, TerminateThreads, ExitThread, Configure, AwaitThread,
        LockSync, WaitDrawCall, CheckAwake, Synchronize, Synchronized, Destroy,
        vars, threadVars
<1>3. CountInv' /\ UnitInv' /\ ClusterInv' /\ KeptInv' /\ FinishInv'
  <2>1. ElsewhereUnchanged
    BY <1>1, <1>2 DEF ElsewhereUnchanged, Finishing, Asleep
  <2> QED
    BY <2>1, CoreHolds, Elsewhere
<1>4. ObjectInv'
  <2>1. CASE UNCHANGED vars
    BY <2>1 DEF Batched, ObjectInv, Open, ObjectOf, InFlight, Object, vars, appVars, drawVars
  <2>2. CASE AppCarries' /\ appPc' \notin {"fill", "publish"}
    <3>1. \A s \in Slot : Open(s) => drawCall[s].draw # nextDraw
      <4>1. appPc # "publish"
        BY <2>1, <2>2
        DEF AppIdles, DrawWith, TerminateThreads, ExitThread, JoinThread, Configure,
            AwaitThread, LockSync, WaitDrawCall, CheckAwake, WakeFirst, Synchronize,
            Synchronized, Destroy, vars, appVars
      <4> QED
        BY <4>1 DEF Batched, ObjectInv
    <3>2. \A s \in Slot : Open(s)' => Open(s) /\ ObjectOf(drawCall[s].draw)' = ObjectOf(drawCall[s].draw)
      BY <1>1 DEF Open, ObjectOf
    <3> QED
      BY <1>1, <2>2, <3>1, <3>2 DEF Batched, ObjectInv, AppCarries
  <2> QED
    BY <2>1, <2>2, AppCarriesOn DEF Batched
<1>5. WorkIs'
  <2>1. \A k : (Renders(k)' <=> Renders(k)) /\ (SetsUp(k)' <=> SetsUp(k))
    BY <1>1 DEF Renders, SetsUp, Used
  <2>2. \A i \in DOMAIN taskQueue : Renders(taskQueue[i])' /\ SetsUp(taskQueue[i])'
    BY <1>1, <2>1 DEF Batched, WorkIs, Renders, SetsUp, Used
  <2>3. ASSUME NEW t \in Thread
        PROVE  /\ pc'[t] \in {"wakeup", "pixels", "progress"} => Renders(task[t])'
               /\ pc'[t] \in {"wakeup", "primitives"} => SetsUp(task[t])'
    BY <1>1, <1>2 DEF Batched, WorkIs, Renders, SetsUp, Used, Asleep
  <2> QED
    BY <1>1, <2>2, <2>3 DEF WorkIs
<1>6. SearchInv'
  <2>1. ASSUME NEW u \in Used, LastIn(u)
        PROVE  LastIn(u)'
    <3>1. \A t \in Thread : pc'[t] \in {"wakeup", "pixels", "progress", "releaseUnit"}
                               => ~OnUnit(task[t], u)'
      BY <1>2, <2>1 DEF LastIn, OnUnit, Asleep
    <3>2. \A t \in Thread : pc[t] \in {"findPixels", "findPrimitives"} => pc'[t] = pc[t]
      BY <1>2 DEF Asleep
    <3> QED
      BY <1>1, <2>1, <3>1, <3>2 DEF LastIn, Active, Object, ObjectOf, OnUnit
  <2>2. Exhausted' => Exhausted
    BY <1>1 DEF Exhausted, ObjectOf
  <2>3. \A t \in Thread : pc'[t] = "findPrimitives" => pc[t] = "findPrimitives"
    BY <1>2 DEF Asleep
  <2> QED
    BY <1>1, <2>1, <2>2, <2>3 DEF Batched, SearchInv, Used
<1>7. Places'
  BY <1>1 DEF Batched, Places
<1> QED
  BY <1>3, <1>4, <1>5, <1>6, <1>7 DEF Batched

-----------------------------------------------------------------------------
(* A draw call is submitted                                                 *)

\* Numbers with the same remainder are a multiple of the divisor apart.
LEMMA SameRemainder ==
    ASSUME NEW n \in Nat \ {0}, NEW a \in Nat, NEW b \in Nat, a < b, a % n = b % n
    PROVE  a + n <= b
<1>1. \A y \in Nat : y \div n \in Nat /\ y % n \in Nat /\ y = (y \div n) * n + (y % n)
  OBVIOUS
<1>2. PICK q \in Nat : a = q * n + (a % n)
  BY <1>1
<1>6. PICK m \in Nat : b = m * n + (b % n)
  BY <1>1
<1>7. PICK r \in Nat : r = a % n /\ r = b % n
  BY <1>1
<1>3. q * n \in Nat /\ m * n \in Nat
  BY Multiples
<1>4. ~(m <= q)
  <2>1. m <= q => m * n <= q * n
    BY Multiples
  <2> QED
    BY <1>2, <1>3, <1>6, <1>7, <2>1
<1>5. q * n + n <= m * n
  BY <1>4, Multiples
<1> QED
  BY <1>2, <1>3, <1>5, <1>6, <1>7

(* What may change of DrawCall objects and of drawList while it is none of  *)
(* the draw calls in flight.                                                *)
FlightUnchanged ==
    /\ UNCHANGED <<currentDraw, nextDraw, unitCount, primitiveProgress, pixelProgress, batchOf,
                   pc, task, finishing, taskQueue>>
    /\ \A d \in 0 .. nextDraw - 1 :
          /\ InFlight(d)' <=> InFlight(d)
          /\ InFlight(d) => Object(d)' = Object(d) /\ ObjectOf(d)' = ObjectOf(d)
    /\ \A s \in Slot : /\ Open(s) => drawCall'[s] = drawCall[s]
                       /\ drawCall'[s].references = 0 => drawCall[s].references = 0

\* What is counted depends on progress and on where workers are, only.
LEMMA SetsUnchanged ==
    ASSUME UNCHANGED <<unitCount, primitiveProgress, pixelProgress, pc, task, finishing>>
    PROVE  /\ Used' = Used
           /\ \A u : Owing(u)' = Owing(u) /\ (Active(u)' <=> Active(u))
           /\ \A c, d, f : NotPast(c, d, f)' <=> NotPast(c, d, f)
           /\ \A u, d, f : Holds(u, d, f)' <=> Holds(u, d, f)
           /\ \A d : UnitsOf(d)' = UnitsOf(d)
           /\ \A s : Releasing(s)' = Releasing(s)
<1>1. Used' = Used
  BY DEF Used
<1>2. \A c, d, f : NotPast(c, d, f)' <=> NotPast(c, d, f)
  BY DEF NotPast
<1>3. \A u : Owing(u)' = Owing(u) /\ (Active(u)' <=> Active(u))
  BY <1>1, <1>2 DEF Owing, Owes, Releases, Active
<1>4. \A d : UnitsOf(d)' = UnitsOf(d)
  BY <1>1, <1>3 DEF UnitsOf
<1>5. \A s : Releasing(s)' = Releasing(s)
  BY DEF Releasing
<1>6. \A u, d, f : Holds(u, d, f)' <=> Holds(u, d, f)
  BY <1>3 DEF Holds
<1> QED
  BY <1>1, <1>2, <1>3, <1>4, <1>5, <1>6

\* What is said of draw calls in flight stays while they stay as they are.
LEMMA FlightKept ==
    ASSUME Core, Places, WorkIs, SearchInv, FlightUnchanged
    PROVE  UnitInv' /\ ClusterInv' /\ KeptInv' /\ FinishInv' /\ WorkIs' /\ SearchInv'
<1>1. /\ Used' = Used
      /\ \A u : Owing(u)' = Owing(u) /\ (Active(u)' <=> Active(u))
      /\ \A c, d, f : NotPast(c, d, f)' <=> NotPast(c, d, f)
      /\ \A u, d, f : Holds(u, d, f)' <=> Holds(u, d, f)
  BY SetsUnchanged DEF FlightUnchanged
<1>2. currentDraw \in 0 .. nextDraw /\ nextDraw \in Nat
  BY DEF Core, KeptInv, Data
<1>3. UnitInv'
  <2>1. ASSUME NEW u \in Used, UnitIs(u)
        PROVE  UnitIs(u)'
    <3>1. PICK d \in 0 .. nextDraw - 1 : d = primitiveProgress[u].drawCall
      BY <1>2, <2>1 DEF UnitIs
    <3>2. InFlight(d)' /\ Object(d)' = Object(d)
      BY <2>1, <3>1 DEF UnitIs, FlightUnchanged
    <3> QED
      BY <1>1, <2>1, <3>1, <3>2 DEF UnitIs, FlightUnchanged, Object, ObjectOf, InFlight
  <2> QED
    BY <1>1, <2>1 DEF Core, UnitInv, FlightUnchanged
<1>4. ClusterInv'
  <2>1. ASSUME NEW c \in Used, ClusterIs(c)
        PROVE  ClusterIs(c)'
    <3>1. CASE pixelProgress[c].drawCall < nextDraw
      <4>1. PICK d \in 0 .. nextDraw - 1 : d = pixelProgress[c].drawCall
        BY <1>2, <2>1, <3>1 DEF ClusterIs
      <4>2. InFlight(d)' /\ Object(d)' = Object(d)
        BY <2>1, <3>1, <4>1 DEF ClusterIs, FlightUnchanged
      <4> QED
        BY <2>1, <4>1, <4>2 DEF ClusterIs, FlightUnchanged, Object, ObjectOf, InFlight
    <3>2. CASE ~(pixelProgress[c].drawCall < nextDraw)
      BY <2>1, <3>2 DEF ClusterIs, FlightUnchanged
    <3> QED
      BY <3>1, <3>2
  <2> QED
    BY <1>1, <2>1 DEF Core, ClusterInv
<1>5. KeptInv'
  <2>1. ASSUME NEW d \in 0 .. nextDraw - 1
        PROVE  /\ ~InFlight(d)' => \A c \in Used : pixelProgress'[c].drawCall > d
               /\ InFlight(d)' =>
                     \A f \in Nat :
                        Starts(f, Object(d)'.batch) /\ f < Object(d)'.count
                           /\ f < Object(d)'.primitive =>
                              \/ \E u \in Used : Holds(u, d, f)'
                              \/ \A c \in Used : ~NotPast(c, d, f)'
    BY <1>1 DEF Core, KeptInv, FlightUnchanged
  <2> QED
    BY <1>1, <2>1 DEF Core, KeptInv, FlightUnchanged
<1>6. FinishInv'
  <2>1. \A t \in Thread : pc[t] \in Finishing =>
           /\ finishing[t] \in Slot /\ Open(finishing[t])
           /\ Open(finishing[t])' /\ drawCall'[finishing[t]] = drawCall[finishing[t]]
    BY DEF Core, FinishInv, FlightUnchanged, Places, Open
  <2>2. ASSUME NEW t \in Thread, pc[t] \in Finishing
        PROVE  /\ task[t].cluster \in Used
               /\ Open(finishing[t])' /\ drawCall'[finishing[t]].draw < nextDraw
               /\ NearTo(task[t].cluster, drawCall[finishing[t]].draw)'
    BY <2>1, <2>2 DEF Core, FinishInv, NearTo, FlightUnchanged
  <2>3. ASSUME NEW t \in Thread, pc[t] = "releaseUnit"
        PROVE  LET p == primitiveProgress[task[t].unit]
               IN  /\ task[t].unit \in Used
                   /\ p.references > 0
                   /\ ~NotPast(task[t].cluster, p.drawCall, p.first)'
                   /\ finishing[t] = ObjectOf(p.drawCall)'
    <3>1. PICK u \in Used : u = task[t].unit
      BY <2>3 DEF Core, FinishInv
    <3>2. Active(u) /\ UnitIs(u)
      <4>1. primitiveProgress[u].references > 0
        BY <2>3, <3>1 DEF Core, FinishInv
      <4> QED
        BY <3>1, <4>1 DEF Core, UnitInv, Active
    <3>3. PICK d \in 0 .. nextDraw - 1 : d = primitiveProgress[u].drawCall /\ InFlight(d)
      BY <1>2, <3>2 DEF UnitIs
    <3>4. ObjectOf(d)' = ObjectOf(d)
      BY <3>3 DEF FlightUnchanged
    <3>5. ObjectOf(primitiveProgress[u].drawCall)' = ObjectOf(d)
      BY <3>3, <3>4 DEF FlightUnchanged, ObjectOf
    <3> QED
      BY <1>1, <2>3, <3>1, <3>3, <3>5 DEF Core, FinishInv, FlightUnchanged, NotPast
  <2>4. \A t \in Thread : pc[t] \in Retiring => drawCall'[finishing[t]].references = 0
    BY <2>1 DEF Core, FinishInv, Finishing, Retiring
  <2>5. \A s \in Slot : drawCall'[s].references = 0 =>
              \E t \in Thread : pc[t] \in Retiring /\ finishing[t] = s
    BY DEF Core, FinishInv, FlightUnchanged
  <2>6. \A t \in Thread : pc'[t] = pc[t] /\ finishing'[t] = finishing[t] /\ task'[t] = task[t]
    BY DEF FlightUnchanged
  <2>7. primitiveProgress' = primitiveProgress /\ nextDraw' = nextDraw
    BY DEF FlightUnchanged
  <2> QED
    BY <1>1, <2>2, <2>3, <2>4, <2>5, <2>6, <2>7 DEF FinishInv, Core, NotPast, NearTo, ObjectOf
<1>7. WorkIs'
  BY DEF WorkIs, Renders, SetsUp, FlightUnchanged, Used
<1>8. SearchInv'
  <2>1. ASSUME currentDraw < nextDraw
        PROVE  InFlight(currentDraw) /\ Object(currentDraw)' = Object(currentDraw)
               /\ (Exhausted' <=> Exhausted)
    <3>1. InFlight(currentDraw) /\ currentDraw \in 0 .. nextDraw - 1
      BY <1>2, <2>1, Ahead DEF Core, Data
    <3>2. PICK d \in 0 .. nextDraw - 1 : d = currentDraw
      BY <3>1
    <3>3. Object(d)' = Object(d)
      BY <3>1, <3>2 DEF FlightUnchanged
    <3> QED
      BY <3>1, <3>2, <3>3 DEF FlightUnchanged, Object, ObjectOf, Exhausted
  <2>2. ASSUME NEW u \in Used, currentDraw < nextDraw, LastIn(u)
        PROVE  LastIn(u)'
    BY <2>1, <2>2 DEF LastIn, FlightUnchanged, Active, OnUnit
  <2> QED
    BY <1>1, <2>1, <2>2 DEF SearchInv, FlightUnchanged
<1> QED
  BY <1>3, <1>4, <1>5, <1>6, <1>7, <1>8

\* While an object is free, no draw call in flight is DRAW_COUNT older than the next.
LEMMA PlaceFree ==
    ASSUME Core, NEW s \in Slot, ~Open(s), NEW d \in 0 .. nextDraw - 1, InFlight(d)
    PROVE  d % DRAW_COUNT # nextDraw % DRAW_COUNT
<1> SUFFICES ASSUME d % DRAW_COUNT = nextDraw % DRAW_COUNT PROVE FALSE
  OBVIOUS
<1>1. PICK n \in Nat \ {0} : n = DRAW_COUNT
  BY DrawAssumption
<1>2. d \in Nat /\ nextDraw \in Nat /\ d < nextDraw
  BY DEF Core, Data
<1>3. d + n <= nextDraw
  BY <1>1, <1>2, SameRemainder
<1>4. \A e \in d .. d + n - 1 : InFlight(e)
  <2>1. ASSUME NEW e \in d .. d + n - 1
        PROVE  InFlight(e)
    <3>1. e \in 0 .. nextDraw - 1 /\ e >= d
      BY <1>1, <1>2, <1>3
    <3>2. CASE e = d
      BY <3>2
    <3>3. CASE e > d
      BY <3>1, <3>3, RetiredInOrder
    <3> QED
      BY <3>1, <3>2, <3>3
  <2> QED
    BY <2>1
<1> DEFINE T == Slot \ {s}
           f == [i \in Slot |-> ObjectOf(d + i)]
<1>5. Slot = 0 .. n - 1 /\ IsFiniteSet(Slot) /\ Cardinality(Slot) = n
  <2>1. Slot = 0 .. n - 1
    BY <1>1 DEF Slot
  <2>2. 0 \in Int /\ n - 1 \in Int /\ ~(0 > n - 1)
    BY <1>1
  <2>3. /\ IsFiniteSet(0 .. n - 1)
        /\ Cardinality(0 .. n - 1) = IF 0 > n - 1 THEN 0 ELSE (n - 1) - 0 + 1
    BY ONLY <2>2, FS_Interval
  <2>4. (n - 1) - 0 + 1 = n
    BY <1>1
  <2> QED
    BY ONLY <2>1, <2>2, <2>3, <2>4
<1>6. IsFiniteSet(T) /\ Cardinality(T) = n - 1
  <2>1. /\ IsFiniteSet(Slot \ {s})
        /\ Cardinality(Slot \ {s}) =
              IF s \in Slot THEN Cardinality(Slot) - 1 ELSE Cardinality(Slot)
    BY ONLY <1>5, FS_RemoveElement
  <2> QED
    BY <1>5, <2>1
<1>7. \A i \in Slot : /\ d + i \in d .. d + n - 1
                      /\ f[i] \in T /\ drawCall[f[i]].draw = d + i
  <2>1. ASSUME NEW i \in Slot
        PROVE  /\ d + i \in d .. d + n - 1
               /\ f[i] \in T /\ drawCall[f[i]].draw = d + i
    <3>1. PICK e \in d .. d + n - 1 : e = d + i
      BY <1>2, <1>5, <1>1
    <3>2. e \in Int /\ InFlight(e)
      BY <1>4, <3>1
    <3>3. ObjectOf(e) \in Slot /\ Open(ObjectOf(e)) /\ drawCall[ObjectOf(e)].draw = e
      BY <3>2, Flying
    <3>4. f[i] = ObjectOf(e)
      BY <3>1
    <3> HIDE DEF f
    <3> QED
      BY <3>1, <3>3, <3>4
  <2> HIDE DEF f, T
  <2> QED
    BY <2>1
<1>8. f \in [Slot -> T]
  BY <1>7
<1>9. \A i, j \in Slot : i # j => f[i] # f[j]
  <2> HIDE DEF f, T
  <2> SUFFICES ASSUME NEW i \in Slot, NEW j \in Slot, i # j, f[i] = f[j]
               PROVE  FALSE
    OBVIOUS
  <2>1. i \in Int /\ j \in Int
    BY <1>5
  <2>2. d + i = d + j
    BY <1>7
  <2> QED
    BY <1>2, <2>1, <2>2
<1>10. Cardinality(T) < Cardinality(Slot)
  <2> HIDE DEF T
  <2> QED
    BY <1>1, <1>5, <1>6
<1> HIDE DEF f, T
<1> QED
  BY <1>5, <1>6, <1>8, <1>9, <1>10, FS_PigeonHole

\* drawList gets the free object that was found, and loses no draw call in flight.
LEMMA SearchDrawCallStep ==
    ASSUME IInv, Data, Batched, SearchDrawCall
    PROVE  Batched' /\ FlightUnchanged
<1>1. Core
  BY CoreHolds
<1>2. /\ appPc = "search" /\ appIndex \in Slot
      /\ UNCHANGED <<appShape, drawCall, currentDraw, nextDraw, unitCount, primitiveProgress,
                     pixelProgress, batchOf, pc, task, finishing, taskQueue>>
  BY DEF SearchDrawCall, Data, threadVars, scheduleVars, dataVars
<1>3. CASE ~Open(appIndex)
  <2>1. PICK s \in Slot : s = appIndex /\ ~Open(s)
    BY <1>2, <1>3
  <2>2. /\ drawList' = [drawList EXCEPT ![nextDraw % DRAW_COUNT] = s]
        /\ appPc' = "fill" /\ appIndex' = s
    BY <2>1 DEF SearchDrawCall, Open
  <2>3. /\ drawList \in [Slot -> Slot] /\ nextDraw \in Nat
        /\ nextDraw % DRAW_COUNT \in Slot
        /\ \A d \in Nat : d % DRAW_COUNT \in Slot
    <3>1. PICK n \in Nat \ {0} : n = DRAW_COUNT
      BY DrawAssumption
    <3>2. \A d \in Nat : d % n \in 0 .. n - 1
      OBVIOUS
    <3>3. nextDraw \in Nat
      BY <1>1 DEF Core, Data, KeptInv
    <3> QED
      BY <1>1, <3>1, <3>2, <3>3 DEF Core, Data, Slot
  <2>4. ASSUME NEW d \in 0 .. nextDraw - 1, InFlight(d)
        PROVE  ObjectOf(d)' = ObjectOf(d) /\ Object(d)' = Object(d) /\ InFlight(d)'
    <3>1. d % DRAW_COUNT # nextDraw % DRAW_COUNT
      BY <1>1, <2>1, <2>4, PlaceFree
    <3>2. ObjectOf(d)' = ObjectOf(d)
      BY <2>2, <2>3, <3>1 DEF ObjectOf
    <3> QED
      BY <1>2, <2>4, <3>2 DEF Object, InFlight
  <2>5. ASSUME NEW d \in 0 .. nextDraw - 1, ~InFlight(d)
        PROVE  ~InFlight(d)'
    <3>1. CASE d % DRAW_COUNT = nextDraw % DRAW_COUNT
      <4>1. ObjectOf(d)' = s
        BY <2>2, <2>3, <3>1 DEF ObjectOf
      <4> QED
        BY <1>2, <2>1, <4>1 DEF InFlight, Object, Open
    <3>2. CASE d % DRAW_COUNT # nextDraw % DRAW_COUNT
      <4>1. ObjectOf(d)' = ObjectOf(d)
        BY <2>2, <2>3, <3>2 DEF ObjectOf
      <4> QED
        BY <1>2, <2>5, <4>1 DEF InFlight, Object
    <3> QED
      BY <3>1, <3>2
  <2>6. FlightUnchanged
    BY <1>2, <2>4, <2>5 DEF FlightUnchanged
  <2>7. ObjectInv'
    <3>1. ASSUME NEW x \in Slot, Open(x)'
          PROVE  /\ drawCall'[x].draw \in 0 .. nextDraw'
                 /\ ObjectOf(drawCall[x].draw)' = x
                 /\ drawCall'[x].draw # nextDraw'
                 /\ drawCall'[x].count > 0 /\ drawCall'[x].batch > 0
      <4>1. Open(x)
        BY <1>2, <3>1 DEF Open
      <4>2. PICK d : d = drawCall[x].draw
        OBVIOUS
      <4>3. d \in 0 .. nextDraw - 1 /\ InFlight(d) /\ ObjectOf(d) = x
        BY <1>1, <1>2, <2>3, <4>1, <4>2, OpenFlies DEF Core, ObjectInv
      <4>4. ObjectOf(d)' = x
        BY <2>4, <4>3
      <4> QED
        BY <1>1, <1>2, <4>1, <4>2, <4>3, <4>4 DEF Core, ObjectInv, ObjectOf
    <3>2. ObjectOf(nextDraw)' = s
      BY <1>2, <2>2, <2>3 DEF ObjectOf
    <3>3. ~Open(appIndex)'
      BY <1>2, <2>1, <2>2 DEF Open
    <3> QED
      BY <1>1, <1>2, <2>2, <3>1, <3>2, <3>3 DEF Core, ObjectInv, ObjectOf
  <2>8. CountInv'
    <3>1. \A x \in Slot : (Counted(x)' <=> Counted(x)) /\ (Open(x)' <=> Open(x))
      BY <1>2, SetsUnchanged DEF Counted, Open
    <3> QED
      BY <1>1, <1>2, <3>1 DEF Core, CountInv
  <2>9. Places'
    BY <1>2 DEF Batched, Places
  <2> QED
    BY <1>1, <2>6, <2>7, <2>8, <2>9, FlightKept DEF Batched
<1>4. CASE Open(appIndex)
  <2>1. drawList' = drawList /\ appPc' \in {"search", "wait"}
    BY <1>2, <1>4 DEF SearchDrawCall, Open
  <2>2. FlightUnchanged
    BY <1>2, <2>1 DEF FlightUnchanged, InFlight, Object, ObjectOf
  <2>3. ObjectInv'
    <3>1. \A x \in Slot : Open(x)' => Open(x)
                             /\ ObjectOf(drawCall[x].draw)' = ObjectOf(drawCall[x].draw)
      BY <1>2, <2>1 DEF Open, ObjectOf
    <3> QED
      BY <1>1, <1>2, <2>1, <3>1 DEF Core, ObjectInv
  <2>4. CountInv'
    <3>1. \A x \in Slot : (Counted(x)' <=> Counted(x)) /\ (Open(x)' <=> Open(x))
      BY <1>2, SetsUnchanged DEF Counted, Open
    <3> QED
      BY <1>1, <1>2, <3>1 DEF Core, CountInv
  <2>5. Places'
    BY <1>2 DEF Batched, Places
  <2> QED
    BY <1>1, <2>2, <2>3, <2>4, <2>5, FlightKept DEF Batched
<1> QED
  BY <1>3, <1>4

\* The object found is filled for the draw call, which nobody looks at yet.
LEMMA FillDrawCallStep ==
    ASSUME IInv, Data, Batched, FillDrawCall
    PROVE  Batched' /\ FlightUnchanged
<1>1. Core
  BY CoreHolds
<1>2. PICK s \in Slot : s = appIndex /\ ~Open(s) /\ ObjectOf(nextDraw) = s
  BY DEF FillDrawCall, Data, Batched, ObjectInv
<1>3. PICK n \in Nat \ {0}, b \in Nat \ {0} : appShape = <<n, b>>
  BY DEF FillDrawCall, Data, Batched, ObjectInv
<1>4. Batches(<<n, b>>) \in Nat \ {0}
  BY BatchCount
<1>5. PICK o : o = [draw |-> nextDraw, primitive |-> 0, count |-> n, batch |-> b,
                    references |-> Batches(<<n, b>>)]
  OBVIOUS
<1>6. /\ drawCall' = [drawCall EXCEPT ![s] = o]
      /\ appPc = "fill" /\ appPc' = "publish" /\ appIndex' = s
      /\ UNCHANGED <<drawList, currentDraw, nextDraw, unitCount, primitiveProgress,
                     pixelProgress, batchOf, pc, task, finishing, taskQueue>>
  <2>1. appShape[1] = n /\ appShape[2] = b
    BY <1>3
  <2> QED
    BY <1>2, <1>3, <1>5, <2>1 DEF FillDrawCall, threadVars, scheduleVars, dataVars
<1>7. /\ drawCall'[s] = o
      /\ \A x \in Slot \ {s} : drawCall'[x] = drawCall[x]
  BY <1>6 DEF Data, DrawCalls
<1>8. \A d : ObjectOf(d)' = ObjectOf(d)
  BY <1>6 DEF ObjectOf
<1>9. nextDraw \in Nat /\ nextDraw < MaxDraws
  BY <1>1, <1>6 DEF Core, Data, KeptInv, ObjectInv
<1>10. ASSUME NEW d \in 0 .. nextDraw - 1
       PROVE  /\ InFlight(d)' <=> InFlight(d)
              /\ InFlight(d) => Object(d)' = Object(d)
  <2>1. ObjectOf(d) \in Slot
    BY ObjectIs
  <2>2. CASE ObjectOf(d) = s
    <3>1. ~InFlight(d)
      BY <1>2, <2>2 DEF InFlight, Object, Open
    <3>2. Object(d)' = o
      BY <1>7, <1>8, <2>2 DEF Object
    <3>3. o.draw # d
      BY <1>5, <1>9
    <3> QED
      BY <3>1, <3>2, <3>3 DEF InFlight
  <2>3. CASE ObjectOf(d) # s
    BY <1>7, <1>8, <2>1, <2>3 DEF InFlight, Object
  <2> QED
    BY <2>2, <2>3
<1>11. FlightUnchanged
  <2>1. \A x \in Slot : /\ Open(x) => drawCall'[x] = drawCall[x]
                        /\ drawCall'[x].references = 0 => drawCall[x].references = 0
    BY <1>2, <1>4, <1>5, <1>7
  <2> QED
    BY <1>6, <1>8, <1>10, <2>1 DEF FlightUnchanged
<1>12. ObjectInv'
  <2>1. ASSUME NEW x \in Slot, Open(x)'
        PROVE  /\ drawCall'[x].draw \in 0 .. nextDraw'
               /\ ObjectOf(drawCall[x].draw)' = x
               /\ drawCall'[x].count > 0 /\ drawCall'[x].batch > 0
    <3>1. CASE x = s
      <4>1. ObjectOf(nextDraw)' = s
        BY <1>2, <1>6 DEF ObjectOf
      <4>2. drawCall'[x] = o /\ o.draw = nextDraw
        BY <1>5, <1>7, <3>1
      <4> QED
        BY <1>2, <1>3, <1>5, <1>6, <1>9, <3>1, <4>2 DEF ObjectOf
    <3>2. CASE x # s
      <4>1. Open(x) /\ drawCall'[x] = drawCall[x]
        BY <1>7, <2>1, <3>2 DEF Open
      <4> QED
        BY <1>1, <1>6, <1>8, <4>1 DEF Core, ObjectInv, ObjectOf
    <3> QED
      BY <3>1, <3>2
  <2>2. ObjectOf(nextDraw)' = s
    BY <1>2, <1>6 DEF ObjectOf
  <2>3. InFlight(nextDraw)'
    <3>1. Object(nextDraw)' = o
      BY <1>7, <2>2 DEF Object
    <3> QED
      BY <1>4, <1>5, <1>6, <3>1 DEF InFlight
  <2> QED
    BY <1>6, <1>9, <2>1, <2>2, <2>3 DEF ObjectInv
<1>13. CountInv'
  <2>1. ASSUME NEW x \in Slot \ {s}, Open(x)'
        PROVE  Open(x) /\ Counted(x)' /\ drawCall'[x] = drawCall[x]
    <3>1. drawCall'[x] = drawCall[x] /\ Open(x)
      BY <1>7, <2>1 DEF Open
    <3>2. Counted(x)' <=> Counted(x)
      BY <1>6, <3>1, SetsUnchanged DEF Counted
    <3> QED
      BY <1>1, <3>1, <3>2 DEF Core, CountInv
  <2>2. Counted(s)'
    <3>1. UnitsOf(nextDraw)' = {}
      <4>1. UnitsOf(nextDraw) = {}
        <5>1. ASSUME NEW u \in Used, Active(u)
              PROVE  primitiveProgress[u].drawCall # nextDraw
          <6>1. PICK d \in Int : d = primitiveProgress[u].drawCall
            BY <1>1, ProgressTyped DEF Core
          <6>2. d < nextDraw
            BY <1>1, <5>1, <6>1 DEF Core, UnitInv, UnitIs
          <6> QED
            BY <1>9, <6>1, <6>2
        <5> QED
          BY <5>1 DEF UnitsOf
      <4>2. Used' = Used /\ \A u : Active(u)' <=> Active(u)
        BY <1>6, SetsUnchanged
      <4> QED
        BY <1>6, <4>1, <4>2 DEF UnitsOf
    <3>2. Releasing(s)' = {}
      <4>1. Releasing(s) = {}
        BY <1>1, <1>2 DEF Releasing, Core, FinishInv, Finishing
      <4> QED
        BY <1>6, <4>1, SetsUnchanged
    <3>3. UnitsOf(o.draw)' = {}
      BY <1>5, <1>6, <3>1 DEF UnitsOf
    <3>4. 0 \in Nat /\ 0 = 0 * b /\ Batches(<<n, b>>) = Batches(<<n, b>>) - 0 + 0 + 0
          /\ 0 <= Batches(<<n, b>>)
      BY <1>4
    <3>5. Cardinality({}) = 0
      BY FS_EmptySet
    <3>6. o.primitive = 0 /\ o.count = n /\ o.batch = b /\ o.references = Batches(<<n, b>>)
      BY <1>5
    <3> QED
      BY <1>7, <3>2, <3>3, <3>4, <3>5, <3>6 DEF Counted
  <2>3. o.draw = nextDraw /\ o.primitive = 0 /\ ~(nextDraw < currentDraw)
    BY <1>1, <1>5 DEF Core, KeptInv, Data
  <2>4. ASSUME NEW x \in Slot, Open(x)'
        PROVE  /\ Counted(x)'
               /\ drawCall'[x].draw < currentDraw' => drawCall'[x].primitive >= drawCall'[x].count
               /\ drawCall'[x].draw > currentDraw' \/ drawCall'[x].draw = nextDraw'
                     => drawCall'[x].primitive = 0
    <3>1. CASE x = s
      BY <1>6, <1>7, <2>2, <2>3, <3>1
    <3>2. CASE x # s
      BY <1>1, <1>6, <2>1, <2>4, <3>2 DEF Core, CountInv
    <3> QED
      BY <3>1, <3>2
  <2> QED
    BY <2>4 DEF CountInv
<1>14. Places'
  BY <1>6 DEF Batched, Places
<1> QED
  BY <1>1, <1>11, <1>12, <1>13, <1>14, FlightKept DEF Batched

\* The draw call becomes one that workers may find.
LEMMA PublishDrawStep ==
    ASSUME IInv, Data, Batched, PublishDraw
    PROVE  Batched'
<1>1. Core
  BY CoreHolds
<1>2. /\ appPc = "publish" /\ appPc' = "published" /\ nextDraw' = nextDraw + 1
      /\ UNCHANGED <<drawList, drawCall, currentDraw, unitCount, primitiveProgress,
                     pixelProgress, batchOf, pc, task, finishing, taskQueue>>
  BY DEF PublishDraw, threadVars, scheduleVars, dataVars
<1>3. nextDraw \in Nat /\ currentDraw \in 0 .. nextDraw /\ currentDraw \in Int
  BY <1>1 DEF Core, Data, KeptInv
<1>4. /\ Used' = Used
      /\ \A u : Owing(u)' = Owing(u) /\ (Active(u)' <=> Active(u))
      /\ \A c, d, f : NotPast(c, d, f)' <=> NotPast(c, d, f)
      /\ \A u, d, f : Holds(u, d, f)' <=> Holds(u, d, f)
      /\ \A d : UnitsOf(d)' = UnitsOf(d)
      /\ \A s : Releasing(s)' = Releasing(s)
  BY <1>2, SetsUnchanged
<1>5. /\ \A d : ObjectOf(d)' = ObjectOf(d) /\ Object(d)' = Object(d)
      /\ \A d : InFlight(d)' <=> InFlight(d)
      /\ \A s : Open(s)' <=> Open(s)
  BY <1>2 DEF ObjectOf, Object, InFlight, Open
(* The draw call that is published. *)
<1>6. PICK n \in Nat : n = nextDraw
  BY <1>3
<1>7. InFlight(n) /\ Object(n).primitive = 0 /\ Object(n).count > 0 /\ Object(n).batch > 0
      /\ Object(n).batch \in Int /\ Object(n).count \in Int
  <2>1. InFlight(n)
    BY <1>1, <1>2, <1>6 DEF Core, ObjectInv
  <2>2. PICK s \in Slot : s = ObjectOf(n) /\ Open(s) /\ Object(n) = drawCall[s]
                          /\ drawCall[s].draw = n
    BY <1>1, <2>1, Flying
  <2>3. drawCall[s].primitive = 0
    BY <1>1, <1>6, <2>2 DEF Core, CountInv
  <2>4. drawCall[s].count > 0 /\ drawCall[s].batch > 0
    BY <1>1, <2>2 DEF Core, ObjectInv
  <2> QED
    BY <1>1, <2>1, <2>2, <2>3, <2>4, ObjectTyped DEF Core
<1>8. ObjectInv'
  <2>1. ASSUME NEW s \in Slot, Open(s)
        PROVE  /\ drawCall[s].draw \in 0 .. nextDraw + 1
               /\ ObjectOf(drawCall[s].draw)' = s
               /\ drawCall[s].draw # nextDraw + 1
               /\ drawCall[s].count > 0 /\ drawCall[s].batch > 0
    BY <1>1, <1>2, <1>3, <2>1 DEF Core, ObjectInv, ObjectOf
  <2> QED
    BY <1>2, <1>5, <2>1 DEF ObjectInv, ObjectOf
<1>9. CountInv'
  <2>1. \A s \in Slot : Counted(s)' <=> Counted(s)
    BY <1>2, <1>4 DEF Counted, UnitsOf
  <2>2. \A s \in Slot : Open(s) => drawCall[s].draw # nextDraw + 1
    BY <1>1, <1>3 DEF Core, ObjectInv
  <2> QED
    BY <1>1, <1>2, <1>5, <2>1, <2>2 DEF Core, CountInv
<1>10. UnitInv'
  <2>1. ASSUME NEW u \in Used, UnitIs(u)
        PROVE  UnitIs(u)'
    <3>1. PICK d \in 0 .. nextDraw - 1 : d = primitiveProgress[u].drawCall
      BY <1>3, <2>1 DEF UnitIs
    <3>2. d < nextDraw + 1
      BY <1>3
    <3> QED
      BY <1>2, <1>4, <1>5, <2>1, <3>1, <3>2 DEF UnitIs, Object, ObjectOf, InFlight
  <2> QED
    BY <1>1, <1>2, <1>4, <2>1 DEF Core, UnitInv
<1>11. ClusterInv'
  <2>1. ASSUME NEW c \in Used
        PROVE  ClusterIs(c)'
    <3>1. PICK d \in 0 .. nextDraw : d = pixelProgress[c].drawCall /\ d \in 0 .. currentDraw
      BY <1>1, <1>3 DEF Core, ClusterInv, ClusterIs
    <3>2. d # nextDraw + 1 /\ d < nextDraw + 1
      BY <1>3, <3>1
    <3>3. PICK p : p = pixelProgress[c]
      OBVIOUS
    <3>4. /\ InFlight(d) /\ Starts(p.processed, Object(d).batch)
          /\ p.processed < Object(d).count
          /\ p.processed <= Object(d).primitive
      <4>1. CASE d < nextDraw
        BY <1>1, <3>1, <3>3, <4>1 DEF Core, ClusterInv, ClusterIs
      <4>2. CASE d = n
        <5>1. p.processed = 0
          BY <1>1, <1>6, <3>1, <3>3, <4>2 DEF Core, ClusterInv, ClusterIs
        <5>2. Starts(0, Object(d).batch)
          BY <1>7, <4>2 DEF Starts
        <5> QED
          BY <1>7, <4>2, <5>1, <5>2
      <4> QED
        BY <1>3, <1>6, <3>1, <4>1, <4>2
    <3> QED
      BY <1>2, <1>5, <3>1, <3>2, <3>3, <3>4 DEF ClusterIs, InFlight, Object, ObjectOf
  <2> QED
    BY <1>4, <2>1 DEF ClusterInv
<1>12. KeptInv'
  <2>1. currentDraw \in 0 .. nextDraw + 1
    BY <1>3
  <2>2. ASSUME NEW d \in 0 .. nextDraw
        PROVE  /\ ~InFlight(d) => \A c \in Used : pixelProgress[c].drawCall > d
               /\ InFlight(d) =>
                     \A f \in Nat :
                        Starts(f, Object(d).batch) /\ f < Object(d).count
                           /\ f < Object(d).primitive =>
                              \/ \E u \in Used : Holds(u, d, f)
                              \/ \A c \in Used : ~NotPast(c, d, f)
    <3>1. CASE d \in 0 .. nextDraw - 1
      BY <1>1, <3>1 DEF Core, KeptInv
    <3>2. CASE d = n
      <4>1. \A f \in Nat : ~(f < 0)
        OBVIOUS
      <4> QED
        BY <1>7, <3>2, <4>1
    <3> QED
      BY <1>3, <1>6, <3>1, <3>2
  <2>3. 0 .. nextDraw' - 1 = 0 .. nextDraw
    BY <1>2, <1>3
  <2> QED
    BY <1>2, <1>4, <1>5, <2>1, <2>2, <2>3 DEF KeptInv
<1>13. FinishInv'
  <2>1. \A t \in Thread : pc[t] \in Finishing =>
           finishing[t] \in Slot /\ drawCall[finishing[t]].draw < nextDraw + 1
    <3>1. ASSUME NEW t \in Thread, pc[t] \in Finishing
          PROVE  finishing[t] \in Slot /\ drawCall[finishing[t]].draw < nextDraw + 1
      <4>1. PICK s \in Slot : s = finishing[t]
        BY DEF Batched, Places
      <4>2. drawCall[s].draw < nextDraw /\ drawCall[s].draw \in Int
        BY <1>1, <3>1, <4>1, ObjectTyped DEF Core, FinishInv
      <4> QED
        BY <1>3, <4>1, <4>2
    <3> QED
      BY <3>1
  <2> QED
    BY <1>1, <1>2, <1>4, <1>5, <2>1 DEF Core, FinishInv, NearTo, NotPast, Open, ObjectOf
<1>14. WorkIs'
  BY <1>2 DEF Batched, WorkIs, Renders, SetsUp, Used
<1>15. SearchInv'
  <2>1. ASSUME currentDraw < nextDraw + 1, Exhausted
        PROVE  currentDraw < nextDraw
    <3>1. CASE currentDraw = n
      BY <1>7, <2>1, <3>1 DEF Exhausted, Object
    <3> QED
      BY <1>3, <1>6, <2>1, <3>1
  <2>2. \A u \in Used : LastIn(u) => LastIn(u)'
    BY <1>2, <1>4, <1>5 DEF LastIn, OnUnit, Object, ObjectOf, Active
  <2>3. currentDraw < nextDraw => currentDraw < nextDraw + 1
    BY <1>3
  <2>4. Exhausted' <=> Exhausted
    BY <1>2 DEF Exhausted, ObjectOf
  <2> QED
    BY <1>2, <1>4, <2>1, <2>2, <2>3, <2>4 DEF Batched, SearchInv
<1>16. Places'
  BY <1>2 DEF Batched, Places
<1> QED
  BY <1>8, <1>9, <1>10, <1>11, <1>12, <1>13, <1>14, <1>15, <1>16 DEF Batched

\* The units in use change while none of them is active.
LEMMA InitializeThreadBatched ==
    ASSUME IInv, Data, Batched, InitializeThread,
           taskQueue = <<>>, \A u \in Used : ~Active(u), unitCount' \in 1 .. unitCount
    PROVE  Batched'
<1>1. Core
  BY CoreHolds
<1>2. /\ appPc = "initialize" /\ appPc' = "created"
      /\ UNCHANGED <<appIndex, appShape, drawList, drawCall, currentDraw, nextDraw,
                     primitiveProgress, pixelProgress, batchOf, finishing, taskQueue>>
  BY DEF InitializeThread, drawVars, scheduleVars, dataVars
<1>3. \A t \in Thread : pc[t] \in Asleep /\ pc'[t] \in Asleep
  <2>1. threadsAwake = 0 /\ appIndex \in Thread
    BY <1>2 DEF IInv, AppInv
  <2>2. \A t \in Thread : pc[t] \in Asleep
    BY <2>1, NoneAwake
  <2>3. pc' = [pc EXCEPT ![appIndex] = "loop"]
    BY DEF InitializeThread
  <2> QED
    BY <2>1, <2>2, <2>3 DEF IInv, Types, Asleep
<1>4. \A t \in Thread : /\ pc[t] \notin Finishing /\ pc'[t] \notin Finishing
                        /\ pc'[t] \notin Retiring /\ pc[t] \notin Retiring
                        /\ pc'[t] \notin {"releaseUnit", "releaseDraw", "wakeup", "pixels", "progress",
                                          "primitives", "findPrimitives"}
  BY <1>3 DEF Asleep, Finishing, Retiring
<1>5. Used' \subseteq Used /\ Used \subseteq Unit
  <2>1. PICK n \in Nat : n = unitCount
    BY <1>1, UsedUnits DEF Core
  <2>2. PICK m \in 1 .. n : m = unitCount'
    BY <2>1
  <2>3. m \in Nat /\ m <= n
    OBVIOUS
  <2>4. Used = 0 .. n - 1 /\ Used' = 0 .. m - 1
    BY <2>1, <2>2 DEF Used
  <2> QED
    BY <1>1, <2>1, <2>3, <2>4, UsedUnits DEF Core
<1>6. \A u \in Unit : ~Active(u) /\ ~Active(u)'
  BY <1>1, <1>2 DEF Core, UnitInv, Active
<1>7. /\ \A d : ObjectOf(d)' = ObjectOf(d) /\ Object(d)' = Object(d)
      /\ \A d : InFlight(d)' <=> InFlight(d)
      /\ \A s : Open(s)' <=> Open(s)
      /\ \A c, d, f : NotPast(c, d, f)' <=> NotPast(c, d, f)
  BY <1>2 DEF ObjectOf, Object, InFlight, Open, NotPast
<1>8. ObjectInv'
  BY <1>1, <1>2, <1>7 DEF Core, ObjectInv, ObjectOf
<1>9. CountInv'
  <2>1. \A d : UnitsOf(d) = {} /\ UnitsOf(d)' = {}
    BY <1>5, <1>6 DEF UnitsOf
  <2>2. \A s : Releasing(s) = {} /\ Releasing(s)' = {}
    BY <1>4, <1>3 DEF Releasing, Asleep
  <2>3. \A s \in Slot : Counted(s)' <=> Counted(s)
    <3>1. \A s \in Slot : UnitsOf(drawCall[s].draw)' = UnitsOf(drawCall[s].draw)
      BY <1>5, <1>6 DEF UnitsOf
    <3> QED
      BY <1>2, <2>2, <3>1 DEF Counted
  <2> QED
    BY <1>1, <1>2, <1>7, <2>3 DEF Core, CountInv
<1>10. UnitInv'
  BY <1>5, <1>6 DEF UnitInv
<1>11. ClusterInv'
  <2>1. \A c \in Used : ClusterIs(c) => ClusterIs(c)'
    BY <1>2, <1>7 DEF ClusterIs, InFlight, Object, ObjectOf
  <2> QED
    BY <1>1, <1>5, <2>1 DEF Core, ClusterInv
<1>12. KeptInv'
  <2>1. \A u \in Used : \A d, f : ~Holds(u, d, f)
    BY <1>5, <1>6 DEF Holds
  <2> QED
    BY <1>1, <1>2, <1>5, <1>7, <2>1 DEF Core, KeptInv
<1>13. FinishInv'
  <2>1. \A s \in Slot : drawCall'[s].references # 0
    BY <1>1, <1>2, <1>4 DEF Core, FinishInv
  <2> QED
    BY <1>4, <2>1 DEF FinishInv
<1>14. WorkIs'
  BY <1>2, <1>4 DEF WorkIs
<1>15. SearchInv'
  <2>1. ~(currentDraw < nextDraw /\ Exhausted)
    BY DEF Batched, SearchInv, LastIn
  <2>2. Exhausted' <=> Exhausted
    BY <1>2 DEF Exhausted, ObjectOf
  <2> QED
    BY <1>2, <1>4, <2>1, <2>2 DEF SearchInv
<1>16. Places'
  BY <1>2 DEF Batched, Places
<1> QED
  BY <1>8, <1>9, <1>10, <1>11, <1>12, <1>13, <1>14, <1>15, <1>16 DEF Batched

-----------------------------------------------------------------------------
(* Workers: tasks                                                           *)

(* Workers that neither find nor take nor finish work.                      *)
WorkUnchanged ==
    /\ ElsewhereUnchanged
    /\ UNCHANGED <<appVars, taskQueue>>
    /\ finishing' \in [Thread -> Slot]
    /\ \A o \in Thread : pc'[o] \in {"wakeup", "pixels", "progress"} =>
          pc[o] \in {"wakeup", "pixels", "progress"} /\ task'[o] = task[o]
    /\ \A o \in Thread : pc'[o] \in {"wakeup", "primitives"} =>
          pc[o] \in {"wakeup", "primitives"} /\ task'[o] = task[o]
    /\ \A o \in Thread : pc[o] \in {"findPixels", "findPrimitives"} => pc'[o] = pc[o]
    /\ \A o \in Thread : pc'[o] = "findPrimitives" => pc[o] = "findPrimitives"

LEMMA ObjectsElsewhere ==
    ASSUME ObjectInv, UNCHANGED <<appVars, drawList, drawCall, nextDraw>>
    PROVE  ObjectInv'
<1>1. \A s : Open(s)' <=> Open(s)
  BY DEF Open
<1>2. \A d : (InFlight(d)' <=> InFlight(d)) /\ ObjectOf(d)' = ObjectOf(d)
  BY DEF InFlight, Object, ObjectOf
<1> QED
  BY <1>1, <1>2 DEF ObjectInv, ObjectOf, InFlight, Object, appVars

LEMMA RendersElsewhere ==
    ASSUME ElsewhereUnchanged, NEW k
    PROVE  (Renders(k)' <=> Renders(k)) /\ (SetsUp(k)' <=> SetsUp(k))
  BY DEF ElsewhereUnchanged, Renders, SetsUp, Used

LEMMA WorkUnchangedStep ==
    ASSUME IInv, Data, Batched, WorkUnchanged
    PROVE  Batched'
<1>1. CountInv' /\ UnitInv' /\ ClusterInv' /\ KeptInv' /\ FinishInv'
  BY CoreHolds, Elsewhere DEF WorkUnchanged
<1>2. ObjectInv'
  BY ObjectsElsewhere DEF WorkUnchanged, ElsewhereUnchanged, Batched
<1>3. WorkIs'
  <2>1. ASSUME NEW i \in DOMAIN taskQueue'
        PROVE  Renders(taskQueue[i])' /\ SetsUp(taskQueue[i])'
    <3>1. PICK k : k = taskQueue[i]
      OBVIOUS
    <3>2. Renders(k) /\ SetsUp(k)
      BY <2>1, <3>1 DEF WorkUnchanged, Batched, WorkIs
    <3>3. Renders(k)' /\ SetsUp(k)'
      BY <3>2, RendersElsewhere DEF WorkUnchanged
    <3> QED
      BY <3>1, <3>3 DEF WorkUnchanged, Renders, SetsUp
  <2>2. ASSUME NEW o \in Thread
        PROVE  /\ pc'[o] \in {"wakeup", "pixels", "progress"} => Renders(task[o])'
               /\ pc'[o] \in {"wakeup", "primitives"} => SetsUp(task[o])'
    <3>1. PICK k : k = task[o]
      OBVIOUS
    <3>2. CASE pc'[o] \in {"wakeup", "pixels", "progress"}
      <4>1. Renders(k) /\ task'[o] = k
        BY <3>1, <3>2 DEF WorkUnchanged, Batched, WorkIs
      <4>2. Renders(k)'
        BY <4>1, RendersElsewhere DEF WorkUnchanged
      <4>3. pc'[o] = "wakeup" => SetsUp(task[o])'
        <5>1. pc'[o] = "wakeup" => SetsUp(k)
          BY <3>1 DEF WorkUnchanged, Batched, WorkIs
        <5>2. SetsUp(k)' <=> SetsUp(k)
          BY RendersElsewhere DEF WorkUnchanged
        <5> QED
          BY <4>1, <5>1, <5>2 DEF SetsUp
      <4> QED
        BY <3>2, <4>1, <4>2, <4>3 DEF Renders
    <3>3. CASE pc'[o] = "primitives"
      <4>1. SetsUp(k) /\ task'[o] = k
        BY <3>1, <3>3 DEF WorkUnchanged, Batched, WorkIs
      <4>2. SetsUp(k)'
        BY <4>1, RendersElsewhere DEF WorkUnchanged
      <4> QED
        BY <3>3, <4>1, <4>2 DEF SetsUp
    <3> QED
      BY <3>2, <3>3
  <2> QED
    BY <2>1, <2>2 DEF WorkIs
<1>4. SearchInv'
  <2>1. ASSUME NEW u \in Used, LastIn(u)
        PROVE  LastIn(u)'
    <3>1. \A o \in Thread : pc'[o] \in {"wakeup", "pixels", "progress", "releaseUnit"}
                               => ~OnUnit(task[o], u)'
      BY <2>1 DEF LastIn, OnUnit, WorkUnchanged, ElsewhereUnchanged, Finishing
    <3> QED
      BY <2>1, <3>1 DEF LastIn, Active, Object, ObjectOf, OnUnit, WorkUnchanged,
                        ElsewhereUnchanged
  <2> QED
    BY <2>1 DEF Batched, SearchInv, Used, Exhausted, ObjectOf, WorkUnchanged, ElsewhereUnchanged
<1>5. Places'
  BY DEF WorkUnchanged, ElsewhereUnchanged, Batched, Places
<1> QED
  BY <1>1, <1>2, <1>3, <1>4, <1>5 DEF Batched

LEMMA OutsideBatched ==
    ASSUME IInv, Data, Batched, NEW t \in Thread,
           EnterLoop(t) \/ SignalSuspend(t) \/ AwaitResume(t)
    PROVE  Batched'
<1>1. PICK l \in {"exited", "suspend", "schedule", "parked", "loop"} :
          pc' = [pc EXCEPT ![t] = l]
  BY DEF EnterLoop, SignalSuspend, AwaitResume
<1>2. /\ pc[t] \in {"loop", "suspend", "parked"}
      /\ UNCHANGED <<appVars, drawList, drawCall, currentDraw, nextDraw, unitCount, task,
                     finishing, taskQueue, primitiveProgress, pixelProgress, batchOf>>
  BY DEF EnterLoop, SignalSuspend, AwaitResume, drawVars, scheduleVars, dataVars
<1>3. WorkUnchanged
  BY <1>1, <1>2 DEF WorkUnchanged, ElsewhereUnchanged, Finishing, IInv, Types, Batched, Places
<1> QED
  BY <1>3, WorkUnchangedStep

LEMMA LockSchedulerBatched ==
    ASSUME IInv, Data, Batched, NEW t \in Thread, LockScheduler(t)
    PROVE  Batched'
<1>1. PICK l \in {"findPixels", "take"} : pc' = [pc EXCEPT ![t] = l]
  BY DEF LockScheduler, Goto
<1>2. /\ pc[t] = "schedule"
      /\ UNCHANGED <<appVars, drawList, drawCall, currentDraw, nextDraw, unitCount, task,
                     finishing, taskQueue, primitiveProgress, pixelProgress, batchOf>>
  BY DEF LockScheduler, drawVars, dataVars
<1>3. WorkUnchanged
  BY <1>1, <1>2 DEF WorkUnchanged, ElsewhereUnchanged, Finishing, IInv, Types, Batched, Places
<1> QED
  BY <1>3, WorkUnchangedStep

LEMMA ExecutePixelsBatched ==
    ASSUME IInv, Data, Batched, NEW t \in Thread, ExecutePixels(t) \/ SignalApp(t)
    PROVE  Batched'
<1>1. UNCHANGED <<appVars, drawList, drawCall, currentDraw, nextDraw, unitCount, task,
                  finishing, taskQueue, primitiveProgress, pixelProgress, batchOf>>
  BY DEF ExecutePixels, SignalApp, drawVars, scheduleVars, dataVars
<1>2. CASE ExecutePixels(t)
  <2>1. pc[t] = "pixels" /\ pc' = [pc EXCEPT ![t] = "progress"]
    BY <1>2 DEF ExecutePixels, Goto
  <2>2. WorkUnchanged
    BY <1>1, <2>1 DEF WorkUnchanged, ElsewhereUnchanged, Finishing, IInv, Types, Batched, Places
  <2> QED
    BY <2>2, WorkUnchangedStep
<1>3. CASE SignalApp(t)
  <2>1. pc[t] = "signalApp" /\ pc' = [pc EXCEPT ![t] = "finished"]
    BY <1>3 DEF SignalApp, Goto
  <2>2. WorkUnchanged
    BY <1>1, <2>1 DEF WorkUnchanged, ElsewhereUnchanged, Finishing, IInv, Types, Batched, Places
  <2> QED
    BY <2>2, WorkUnchangedStep
<1> QED
  BY <1>2, <1>3

LEMMA FinishPixelsBatched ==
    ASSUME IInv, Data, Batched, NEW t \in Thread, FinishPixels(t)
    PROVE  Batched'
<1>1. /\ pc[t] = "finished" /\ pc' = [pc EXCEPT ![t] = "schedule"]
      /\ finishing' = [finishing EXCEPT ![t] = 0]
      /\ pixelProgress' = [pixelProgress EXCEPT ![task[t].cluster].executing = FALSE]
      /\ UNCHANGED <<appVars, drawList, drawCall, currentDraw, nextDraw, unitCount, task,
                     taskQueue, primitiveProgress, batchOf>>
  BY DEF FinishPixels, Goto, drawVars, dataVars
<1>2. \A c \in Used : /\ pixelProgress'[c].drawCall = pixelProgress[c].drawCall
                      /\ pixelProgress'[c].processed = pixelProgress[c].processed
  <2>1. \A c \in Cluster : /\ pixelProgress'[c].drawCall = pixelProgress[c].drawCall
                           /\ pixelProgress'[c].processed = pixelProgress[c].processed
    BY <1>1 DEF IInv, Types
  <2> QED
    BY <2>1, UsedUnits DEF IInv
<1>3. finishing' \in [Thread -> Slot]
  BY <1>1, DrawAssumption DEF Batched, Places, Slot
<1>4. WorkUnchanged
  BY <1>1, <1>2, <1>3
  DEF WorkUnchanged, ElsewhereUnchanged, Finishing, IInv, Types, Batched, Places
<1> QED
  BY <1>4, WorkUnchangedStep

\* Who wakes others still has its own task to execute.
LEMMA WakeThreadBatched ==
    ASSUME IInv, Data, Batched, NEW t \in Thread, WakeThread(t)
    PROVE  Batched'
<1>1. /\ pc[t] = "wakeup"
      /\ UNCHANGED <<appVars, drawList, drawCall, currentDraw, nextDraw, unitCount, finishing,
                     taskQueue, primitiveProgress, pixelProgress, batchOf>>
  BY DEF WakeThread, drawVars, dataVars
<1>2. Sleepers # {} /\ Claimed(task[t])
  BY <1>1 DEF IInv, WorkerInv, ClaimInv, InHand
<1>3. PICK i \in Thread : i = Min(Sleepers) /\ i \in Sleepers
  <2>1. Sleepers \subseteq Thread
    BY SleepersFit DEF IInv
  <2>2. Min(Sleepers) \in Sleepers
    BY <1>2, <2>1, CountsFit, LeastOf
  <2> QED
    BY <2>1, <2>2
<1>4. i # t /\ pc[i] \in Asleep
  <2>1. task[i].type = "SUSPEND" /\ task[t].type # "SUSPEND"
    BY <1>1, <1>3 DEF IInv, WorkerInv, Sleepers, Busy, Holding
  <2> QED
    BY <2>1 DEF IInv, Types, WorkerInv
<1>5. task' = [task EXCEPT ![i] = NoTask("RESUME")]
  BY <1>3 DEF WakeThread
<1>6. PICK l \in {"wakeup", "primitives", "pixels"} : pc' = [pc EXCEPT ![t] = l]
  <2>1. CASE UNCHANGED pc
    <3>1. pc' = [pc EXCEPT ![t] = "wakeup"]
      BY <1>1, <2>1 DEF IInv, Types
    <3> QED
      BY <3>1
  <2>2. CASE Goto(t, Execution(task[t].type))
    <3>1. task[t].type \in {"PIXELS", "PRIMITIVES"}
      BY <1>2 DEF Claimed
    <3>2. Execution(task[t].type) \in {"primitives", "pixels"}
      BY <3>1 DEF Execution
    <3> QED
      BY <2>2, <3>2 DEF Goto
  <2> QED
    BY <2>1, <2>2 DEF WakeThread
<1>7. \A o \in Thread : \/ pc'[o] = pc[o] /\ task'[o] = task[o]
                        \/ o = t /\ pc'[o] = l /\ task'[o] = task[o]
                        \/ o = i /\ pc'[o] = pc[o] /\ pc[o] \in Asleep
  BY <1>4, <1>5, <1>6 DEF IInv, Types
<1>8. l = "pixels" => "pixels" \in {"wakeup", "pixels", "progress"}
  OBVIOUS
<1>9. WorkUnchanged
  BY <1>1, <1>7
  DEF WorkUnchanged, ElsewhereUnchanged, Finishing, Asleep, Batched, Places
<1> QED
  BY <1>9, WorkUnchangedStep

\* A cluster is given the unit that has its next batch.
LEMMA FindPixelTaskBatched ==
    ASSUME IInv, Data, Batched, NEW t \in Thread, FindPixelTask(t)
    PROVE  Batched'
<1>1. /\ pc[t] = "findPixels"
      /\ UNCHANGED <<appVars, drawList, drawCall, currentDraw, nextDraw, unitCount, task,
                     finishing, primitiveProgress, batchOf>>
  BY DEF FindPixelTask, drawVars, dataVars
<1>2. index \in Used /\ index \in Cluster
  <2>1. index \in Nat /\ index < unitCount
    BY <1>1 DEF IInv, Types, WorkerInv
  <2> QED
    BY <2>1, UsedUnits DEF IInv, Used
<1>3. PICK l \in {"findPixels", "findPrimitives", "take"} :
          /\ pc' = [pc EXCEPT ![t] = l]
          /\ l = "findPrimitives" => currentDraw # nextDraw
          /\ l = "take" => currentDraw = nextDraw
  <2>1. CASE index + 1 < clusterCount
    <3>1. pc' = [pc EXCEPT ![t] = "findPixels"]
      BY <1>1, <2>1 DEF FindPixelTask, IInv, Types
    <3> QED
      BY <3>1
  <2>2. CASE ~(index + 1 < clusterCount)
    BY <2>2 DEF FindPixelTask, Goto
  <2> QED
    BY <2>1, <2>2
<1>4. /\ pc'[t] = l
      /\ \A o \in Thread \ {t} : pc'[o] = pc[o]
  BY <1>3 DEF IInv, Types
<1>5. \/ UNCHANGED <<taskQueue, pixelProgress>>
      \/ \E u \in ReadyUnits(index) :
            /\ taskQueue' = Append(taskQueue, [type |-> "PIXELS", unit |-> u,
                                               cluster |-> index])
            /\ pixelProgress' = [pixelProgress EXCEPT ![index].executing = TRUE]
  <2>1. CASE ~pixelProgress[index].executing /\ ReadyUnits(index) # {}
    <3>1. ReadyUnits(index) \subseteq Unit
      BY UnitsInUse DEF ReadyUnits, IInv
    <3>2. Min(ReadyUnits(index)) \in ReadyUnits(index)
      BY <2>1, <3>1, CountsFit, LeastOf
    <3> QED
      BY <2>1, <3>2 DEF FindPixelTask
  <2> QED
    BY <2>1 DEF FindPixelTask
<1>6. \A c \in Used : /\ pixelProgress'[c].drawCall = pixelProgress[c].drawCall
                      /\ pixelProgress'[c].processed = pixelProgress[c].processed
  <2>1. \A c \in Cluster : /\ pixelProgress'[c].drawCall = pixelProgress[c].drawCall
                           /\ pixelProgress'[c].processed = pixelProgress[c].processed
    <3>1. CASE pixelProgress' = pixelProgress
      BY <3>1
    <3>2. CASE pixelProgress' = [pixelProgress EXCEPT ![index].executing = TRUE]
      BY <3>2 DEF IInv, Types
    <3> QED
      BY <1>5, <3>1, <3>2
  <2> QED
    BY <2>1, UsedUnits DEF IInv
<1>7. ElsewhereUnchanged
  BY <1>1, <1>4, <1>6 DEF ElsewhereUnchanged, Finishing
<1>8. CountInv' /\ UnitInv' /\ ClusterInv' /\ KeptInv' /\ FinishInv'
  BY <1>7, CoreHolds, Elsewhere
<1>9. ObjectInv'
  BY <1>1, ObjectsElsewhere DEF Batched
<1>10. \A i \in DOMAIN taskQueue' :
          \/ i \in DOMAIN taskQueue /\ taskQueue'[i] = taskQueue[i]
          \/ \E u \in ReadyUnits(index) :
                taskQueue'[i] = [type |-> "PIXELS", unit |-> u, cluster |-> index]
  <2>1. CASE taskQueue' = taskQueue
    BY <2>1
  <2>2. ASSUME NEW u \in ReadyUnits(index), NEW k,
               k = [type |-> "PIXELS", unit |-> u, cluster |-> index],
               taskQueue' = Append(taskQueue, k)
        PROVE  \A i \in DOMAIN taskQueue' :
                  (i \in DOMAIN taskQueue /\ taskQueue'[i] = taskQueue[i]) \/ taskQueue'[i] = k
    BY <2>2 DEF IInv, Types
  <2> QED
    BY <1>5, <2>1, <2>2
<1>11. WorkIs'
  <2>1. ASSUME NEW i \in DOMAIN taskQueue'
        PROVE  Renders(taskQueue[i])' /\ SetsUp(taskQueue[i])'
    <3>1. PICK k : k = taskQueue'[i]
      OBVIOUS
    <3>2. Renders(k) /\ SetsUp(k)
      <4>1. CASE i \in DOMAIN taskQueue /\ taskQueue'[i] = taskQueue[i]
        BY <3>1, <4>1 DEF Batched, WorkIs
      <4>2. ASSUME NEW u \in ReadyUnits(index),
                   k = [type |-> "PIXELS", unit |-> u, cluster |-> index]
            PROVE  Renders(k) /\ SetsUp(k)
        BY <1>2, <4>2 DEF Renders, SetsUp, ReadyUnits, Used
      <4> QED
        BY <1>10, <2>1, <3>1, <4>1, <4>2
    <3>3. Renders(k)' /\ SetsUp(k)'
      BY <1>7, <3>2, RendersElsewhere
    <3> QED
      BY <3>1, <3>3 DEF Renders, SetsUp
  <2>2. ASSUME NEW o \in Thread
        PROVE  /\ pc'[o] \in {"wakeup", "pixels", "progress"} => Renders(task[o])'
               /\ pc'[o] \in {"wakeup", "primitives"} => SetsUp(task[o])'
    <3>1. PICK k : k = task[o]
      OBVIOUS
    <3>2. pc'[o] \in {"wakeup", "pixels", "progress", "primitives"} => pc'[o] = pc[o]
      BY <1>4
    <3>3. (Renders(k)' <=> Renders(k)) /\ (SetsUp(k)' <=> SetsUp(k))
      BY <1>7, RendersElsewhere
    <3>4. /\ pc'[o] \in {"wakeup", "pixels", "progress"} => Renders(k)'
          /\ pc'[o] \in {"wakeup", "primitives"} => SetsUp(k)'
      BY <3>1, <3>2, <3>3 DEF Batched, WorkIs
    <3> QED
      BY <1>1, <3>1, <3>4 DEF Renders, SetsUp
  <2> QED
    BY <2>1, <2>2 DEF WorkIs
<1>12. SearchInv'
  <2>1. ASSUME NEW u \in Used, LastIn(u), currentDraw < nextDraw
        PROVE  LastIn(u)'
    <3>1. \A o \in Thread : pc'[o] \in {"wakeup", "pixels", "progress", "releaseUnit"}
                               => ~OnUnit(task[o], u)'
      BY <1>1, <1>4, <2>1 DEF LastIn, OnUnit
    <3>2. pc'[t] \in {"findPixels", "findPrimitives"}
      BY <1>3, <1>4, <2>1 DEF Data
    <3> QED
      BY <1>1, <2>1, <3>1, <3>2 DEF LastIn, Active, Object, ObjectOf
  <2>2. pc'[t] = "findPrimitives" => currentDraw < nextDraw
    <3>1. currentDraw \in 0 .. nextDraw
      BY DEF Batched, KeptInv
    <3> QED
      BY <1>3, <1>4, <3>1 DEF Data
  <2>3. Exhausted' <=> Exhausted
    BY <1>1 DEF Exhausted, ObjectOf
  <2> QED
    BY <1>1, <1>4, <2>1, <2>2, <2>3 DEF Batched, SearchInv, Used
<1>13. Places'
  BY <1>1 DEF Batched, Places
<1> QED
  BY <1>8, <1>9, <1>11, <1>12, <1>13 DEF Batched

\* The first task of the queue becomes the one in hand.
LEMMA TakeTaskBatched ==
    ASSUME IInv, Data, Batched, NEW t \in Thread, TakeTask(t)
    PROVE  Batched'
<1>1. /\ pc[t] = "take"
      /\ UNCHANGED <<appVars, drawList, drawCall, currentDraw, nextDraw, unitCount,
                     finishing, primitiveProgress, pixelProgress, batchOf>>
  BY DEF TakeTask, drawVars, dataVars
<1>2. \A o \in Thread : pc[o] \notin {"findPixels", "findPrimitives"}
  BY <1>1 DEF IInv, WorkerInv, Holding
<1>3. CASE taskQueue = <<>>
  <2>1. pc' = [pc EXCEPT ![t] = "suspend"] /\ taskQueue' = taskQueue
        /\ task' = [task EXCEPT ![t] = NoTask("SUSPEND")]
    BY <1>3 DEF TakeTask, Goto
  <2>2. WorkUnchanged
    BY <1>1, <2>1 DEF WorkUnchanged, ElsewhereUnchanged, Finishing, IInv, Types, Batched, Places
  <2> QED
    BY <2>2, WorkUnchangedStep
<1>4. CASE taskQueue # <<>>
  <2>1. /\ task' = [task EXCEPT ![t] = Head(taskQueue)]
        /\ taskQueue' = Tail(taskQueue)
    BY <1>4 DEF TakeTask
  <2>2. /\ Head(taskQueue) = taskQueue[1] /\ 1 \in DOMAIN taskQueue
        /\ \A i \in DOMAIN taskQueue' : /\ i + 1 \in DOMAIN taskQueue
                                        /\ taskQueue'[i] = taskQueue[i + 1]
    BY <1>4, <2>1 DEF IInv, Types
  <2>3. PICK h : h = taskQueue[1]
    OBVIOUS
  <2>4. PICK l \in {"wakeup", "primitives", "pixels"} : pc' = [pc EXCEPT ![t] = l]
    <3>1. h.type \in {"PIXELS", "PRIMITIVES"}
      BY <2>2, <2>3 DEF IInv, ClaimInv, Claimed
    <3>2. Execution(h.type) \in {"primitives", "pixels"}
      BY <3>1 DEF Execution
    <3>3. Goto(t, "wakeup") \/ Goto(t, Execution(h.type))
      BY <1>4, <2>2, <2>3 DEF TakeTask
    <3> QED
      BY <3>2, <3>3 DEF Goto
  <2>5. /\ pc'[t] = l /\ task'[t] = h
        /\ \A o \in Thread \ {t} : pc'[o] = pc[o] /\ task'[o] = task[o]
    BY <2>1, <2>2, <2>3, <2>4 DEF IInv, Types
  <2>6. ElsewhereUnchanged
    BY <1>1, <2>5 DEF ElsewhereUnchanged, Finishing
  <2>7. CountInv' /\ UnitInv' /\ ClusterInv' /\ KeptInv' /\ FinishInv'
    BY <2>6, CoreHolds, Elsewhere
  <2>8. ObjectInv'
    BY <1>1, ObjectsElsewhere DEF Batched
  <2>9. WorkIs'
    <3>1. ASSUME NEW i \in DOMAIN taskQueue'
          PROVE  Renders(taskQueue[i])' /\ SetsUp(taskQueue[i])'
      <4>1. PICK k : k = taskQueue'[i]
        OBVIOUS
      <4>2. Renders(k) /\ SetsUp(k)
        BY <2>2, <3>1, <4>1 DEF Batched, WorkIs
      <4>3. Renders(k)' /\ SetsUp(k)'
        BY <2>6, <4>2, RendersElsewhere
      <4> QED
        BY <4>1, <4>3 DEF Renders, SetsUp
    <3>2. ASSUME NEW o \in Thread
          PROVE  /\ pc'[o] \in {"wakeup", "pixels", "progress"} => Renders(task[o])'
                 /\ pc'[o] \in {"wakeup", "primitives"} => SetsUp(task[o])'
      <4>1. PICK k : k = task'[o]
        OBVIOUS
      <4>2. (Renders(k)' <=> Renders(k)) /\ (SetsUp(k)' <=> SetsUp(k))
        BY <2>6, RendersElsewhere
      <4>3. /\ pc'[o] \in {"wakeup", "pixels", "progress"} => Renders(k)
            /\ pc'[o] \in {"wakeup", "primitives"} => SetsUp(k)
        <5>1. CASE o = t
          BY <2>2, <2>3, <2>5, <4>1, <5>1 DEF Batched, WorkIs
        <5>2. CASE o # t
          BY <2>5, <4>1, <5>2 DEF Batched, WorkIs
        <5> QED
          BY <5>1, <5>2
      <4> QED
        BY <4>1, <4>2, <4>3 DEF Renders, SetsUp
    <3> QED
      BY <3>1, <3>2 DEF WorkIs
  <2>10. SearchInv'
    <3>1. ASSUME NEW u \in Used, LastIn(u)
          PROVE  LastIn(u)'
      <4>1. \A i \in DOMAIN taskQueue : ~OnUnit(taskQueue[i], u)
        BY <1>2, <3>1 DEF LastIn
      <4>2. \A i \in DOMAIN taskQueue' : ~OnUnit(taskQueue'[i], u)
        BY <2>2, <4>1
      <4>3. ~OnUnit(h, u)
        BY <2>2, <2>3, <4>1
      <4>4. \A o \in Thread : pc'[o] \in {"wakeup", "pixels", "progress", "releaseUnit"}
                                 => ~OnUnit(task'[o], u)
        BY <2>5, <3>1, <4>3 DEF LastIn
      <4> QED
        BY <1>1, <3>1, <4>2, <4>4 DEF LastIn, Active, Object, ObjectOf, OnUnit
    <3>2. \A o \in Thread : pc'[o] # "findPrimitives"
      BY <1>2, <2>5
    <3>3. Exhausted' <=> Exhausted
      BY <1>1 DEF Exhausted, ObjectOf
    <3> QED
      BY <1>1, <3>1, <3>2, <3>3 DEF Batched, SearchInv, Used
  <2>11. Places'
    BY <1>1 DEF Batched, Places
  <2> QED
    BY <2>7, <2>8, <2>9, <2>10, <2>11 DEF Batched
<1> QED
  BY <1>3, <1>4

-----------------------------------------------------------------------------
(* Workers: a batch is given to a unit                                      *)

FinishersUnchanged ==
    \A t \in Thread : pc[t] \in Finishing \/ pc'[t] \in Finishing =>
        pc'[t] = pc[t] /\ task'[t] = task[t] /\ finishing'[t] = finishing[t]

LEMMA FinishersElsewhere ==
    ASSUME FinishersUnchanged, UNCHANGED <<unitCount, pixelProgress>>
    PROVE  /\ Used' = Used
           /\ \A t \in Thread : \A c, u : Releases(t, c, u)' <=> Releases(t, c, u)
           /\ \A s : Releasing(s)' = Releasing(s)
           /\ \A c, d, f : NotPast(c, d, f)' <=> NotPast(c, d, f)
           /\ \A u \in Used : primitiveProgress'[u] = primitiveProgress[u] =>
                 /\ Owing(u)' = Owing(u) /\ (Active(u)' <=> Active(u))
                 /\ \A d, f : Holds(u, d, f)' <=> Holds(u, d, f)
<1>1. Used' = Used
  BY DEF Used
<1>2. \A c, d, f : NotPast(c, d, f)' <=> NotPast(c, d, f)
  BY DEF NotPast
<1>3. \A t \in Thread : \A c, u : Releases(t, c, u)' <=> Releases(t, c, u)
  BY DEF Releases, FinishersUnchanged, Finishing
<1>4. \A s : Releasing(s)' = Releasing(s)
  BY DEF Releasing, FinishersUnchanged, Finishing
<1>5. ASSUME NEW u \in Used, primitiveProgress'[u] = primitiveProgress[u]
      PROVE  /\ Owing(u)' = Owing(u) /\ (Active(u)' <=> Active(u))
             /\ \A d, f : Holds(u, d, f)' <=> Holds(u, d, f)
  <2>1. \A c : Owes(c, u)' <=> Owes(c, u)
    BY <1>2, <1>3, <1>5 DEF Owes, NotPast
  <2> QED
    BY <1>1, <1>5, <2>1 DEF Owing, Active, Holds
<1> QED
  BY <1>1, <1>2, <1>3, <1>4, <1>5

(* The draw call that has primitives left.                                  *)
LEMMA CurrentDrawIs ==
    ASSUME Core, currentDraw < nextDraw
    PROVE  /\ CurrentDraw \in 0 .. nextDraw /\ CurrentDraw \in Int
           /\ CurrentDraw = currentDraw \/ CurrentDraw = currentDraw + 1
           /\ CurrentDraw = currentDraw => ~Exhausted
           /\ InFlight(currentDraw)
           /\ CurrentDraw # currentDraw =>
                 Object(currentDraw).primitive >= Object(currentDraw).count
           /\ CurrentDraw < nextDraw =>
                 /\ InFlight(CurrentDraw)
                 /\ Object(CurrentDraw).primitive < Object(CurrentDraw).count
<1>1. currentDraw \in 0 .. nextDraw - 1 /\ currentDraw \in Int /\ nextDraw \in Nat
  BY DEF Core, KeptInv, Data
<1>2. InFlight(currentDraw)
  BY <1>1, Ahead
<1>3. PICK e \in Int : e = CurrentDraw
  BY <1>1 DEF CurrentDraw
<1>4. e = currentDraw \/ e = currentDraw + 1
  BY <1>3 DEF CurrentDraw
<1>5. e = currentDraw => ~Exhausted
  BY <1>1, <1>3 DEF CurrentDraw
<1>6. e # currentDraw => Exhausted
  BY <1>3 DEF CurrentDraw
<1>7. ASSUME e < nextDraw
      PROVE  InFlight(e) /\ Object(e).primitive < Object(e).count
  <2>1. InFlight(e)
    BY <1>1, <1>4, <1>7, Ahead
  <2>2. PICK s \in Slot : s = ObjectOf(e) /\ Open(s) /\ Object(e) = drawCall[s]
                          /\ drawCall[s].draw = e
    BY <2>1, Flying
  <2>3. drawCall[s].primitive \in Int /\ drawCall[s].count \in Int /\ drawCall[s].count > 0
    BY <2>2, References DEF Core
  <2>4. CASE e = currentDraw
    <3>1. ~(drawCall[s].primitive >= drawCall[s].count)
      BY <1>5, <2>2, <2>4 DEF Exhausted
    <3> QED
      BY <2>2, <2>1, <2>3, <3>1
  <2>5. CASE e = currentDraw + 1
    <3>1. drawCall[s].primitive = 0
      BY <1>1, <2>2, <2>5 DEF Core, CountInv
    <3> QED
      BY <2>2, <2>1, <2>3, <3>1
  <2> QED
    BY <1>4, <2>4, <2>5
<1> QED
  BY <1>1, <1>2, <1>3, <1>4, <1>5, <1>6, <1>7 DEF Exhausted, Object

(* currentDraw moves on, and no unit is given a batch.                      *)
LEMMA FindsNoPrimitives ==
    ASSUME IInv, Data, Batched, NEW t \in Thread, FindPrimitiveTask(t),
           ~(CurrentDraw # nextDraw /\ UnitFree(index))
    PROVE  Batched'
<1>1. Core
  BY CoreHolds
<1>2. /\ pc[t] = "findPrimitives" /\ currentDraw' = CurrentDraw
      /\ UNCHANGED <<appVars, drawList, drawCall, nextDraw, unitCount, task, finishing,
                     taskQueue, primitiveProgress, pixelProgress, batchOf>>
  BY DEF FindPrimitiveTask, dataVars
<1>3. currentDraw < nextDraw /\ currentDraw \in Nat /\ nextDraw \in Nat
  BY <1>1, <1>2 DEF Batched, SearchInv, Core, Data, KeptInv
<1>4. PICK e \in 0 .. nextDraw : e = CurrentDraw /\ e \in Int
  BY <1>1, <1>3, CurrentDrawIs
<1>5. /\ e = currentDraw \/ e = currentDraw + 1
      /\ e # currentDraw => Object(currentDraw).primitive >= Object(currentDraw).count
      /\ e < nextDraw => InFlight(e) /\ Object(e).primitive < Object(e).count
      /\ InFlight(currentDraw)
  BY <1>1, <1>3, <1>4, CurrentDrawIs
<1>6. PICK l \in {"findPrimitives", "take"} :
          pc' = [pc EXCEPT ![t] = l] /\ (l = "findPrimitives" => e # nextDraw)
  <2>1. CASE CurrentDraw # nextDraw /\ index + 1 < unitCount
    <3>1. pc' = [pc EXCEPT ![t] = "findPrimitives"]
      BY <1>2, <2>1 DEF FindPrimitiveTask, IInv, Types
    <3> QED
      BY <1>4, <2>1, <3>1
  <2>2. CASE ~(CurrentDraw # nextDraw /\ index + 1 < unitCount)
    BY <2>2 DEF FindPrimitiveTask, Goto
  <2> QED
    BY <2>1, <2>2
<1>7. pc'[t] = l /\ \A o \in Thread \ {t} : pc'[o] = pc[o]
  BY <1>6 DEF IInv, Types
<1>8. FinishersUnchanged
  BY <1>2, <1>7 DEF FinishersUnchanged, Finishing
<1>9. /\ Used' = Used
      /\ \A s : Releasing(s)' = Releasing(s)
      /\ \A c, d, f : NotPast(c, d, f)' <=> NotPast(c, d, f)
      /\ \A u \in Used : /\ Owing(u)' = Owing(u) /\ (Active(u)' <=> Active(u))
                         /\ \A d, f : Holds(u, d, f)' <=> Holds(u, d, f)
  BY <1>2, <1>8, FinishersElsewhere
<1>10. /\ \A d : ObjectOf(d)' = ObjectOf(d) /\ Object(d)' = Object(d)
       /\ \A d : InFlight(d)' <=> InFlight(d)
       /\ \A s : Open(s)' <=> Open(s)
  BY <1>2 DEF ObjectOf, Object, InFlight, Open
<1>11. ObjectInv'
  BY <1>2, ObjectsElsewhere DEF Batched
<1>12. CountInv'
  <2>1. \A s \in Slot : Counted(s)' <=> Counted(s)
    <3>1. \A d : UnitsOf(d)' = UnitsOf(d)
      BY <1>2, <1>9 DEF UnitsOf
    <3> QED
      BY <1>2, <1>9, <3>1 DEF Counted
  <2>2. ASSUME NEW s \in Slot, Open(s)
        PROVE  /\ drawCall[s].draw < e => drawCall[s].primitive >= drawCall[s].count
               /\ drawCall[s].draw > e \/ drawCall[s].draw = nextDraw
                     => drawCall[s].primitive = 0
    <3>1. /\ drawCall[s].draw < currentDraw => drawCall[s].primitive >= drawCall[s].count
          /\ drawCall[s].draw > currentDraw \/ drawCall[s].draw = nextDraw
                => drawCall[s].primitive = 0
          /\ drawCall[s].draw \in Int
      BY <1>1, <2>2, ObjectTyped DEF Core, CountInv
    <3>2. Object(drawCall[s].draw) = drawCall[s]
      BY <1>1, <2>2, OpenFlies
    <3>3. drawCall[s].draw = currentDraw /\ e # currentDraw
             => drawCall[s].primitive >= drawCall[s].count
      BY <1>5, <3>2
    <3> QED
      BY <1>3, <1>4, <1>5, <3>1, <3>3
  <2> QED
    BY <1>1, <1>2, <1>4, <1>10, <2>1, <2>2 DEF Core, CountInv
<1>13. UnitInv'
  <2>1. \A u \in Used : UnitIs(u) => UnitIs(u)'
    <3>1. \A x : x \in 0 .. currentDraw => x \in 0 .. e
      BY <1>3, <1>4, <1>5
    <3> QED
      BY <1>2, <1>4, <1>9, <1>10, <3>1 DEF UnitIs, Object, ObjectOf, InFlight
  <2>2. \A u \in Unit : Active(u)' <=> Active(u)
    BY <1>2 DEF Active
  <2> QED
    BY <1>1, <1>2, <1>9, <2>1, <2>2 DEF Core, UnitInv
<1>14. ClusterInv'
  <2>1. \A c \in Used : ClusterIs(c) => ClusterIs(c)'
    <3>1. \A x : x \in 0 .. currentDraw => x \in 0 .. e
      BY <1>3, <1>4, <1>5
    <3> QED
      BY <1>2, <1>4, <1>10, <3>1 DEF ClusterIs, Object, ObjectOf, InFlight
  <2> QED
    BY <1>1, <1>9, <2>1 DEF Core, ClusterInv
<1>15. KeptInv'
  BY <1>1, <1>2, <1>4, <1>9, <1>10 DEF Core, KeptInv
<1>16. FinishInv'
  <2>1. \A o \in Thread : /\ pc'[o] \in Finishing => pc'[o] = pc[o]
                          /\ pc'[o] \in Retiring => pc'[o] = pc[o]
                          /\ pc[o] \in Retiring => pc'[o] = pc[o]
                          /\ pc'[o] = "releaseUnit" => pc'[o] = pc[o]
    BY <1>2, <1>7 DEF Finishing, Retiring
  <2>2. ASSUME NEW o \in Thread, pc[o] \in Finishing
        PROVE  NearTo(task[o].cluster, drawCall[finishing[o]].draw)'
    BY <1>1, <1>2, <2>2 DEF Core, FinishInv, NearTo
  <2>3. ASSUME NEW o \in Thread, pc[o] = "releaseUnit"
        PROVE  LET p == primitiveProgress'[task'[o].unit]
               IN  /\ task'[o].unit \in Used
                   /\ p.references > 0
                   /\ ~NotPast(task[o].cluster, primitiveProgress[task[o].unit].drawCall,
                               primitiveProgress[task[o].unit].first)'
                   /\ finishing'[o] = ObjectOf(primitiveProgress[task[o].unit].drawCall)'
    BY <1>1, <1>2, <2>3 DEF Core, FinishInv, NotPast, ObjectOf
  <2> QED
    BY <1>1, <1>2, <1>9, <1>10, <2>1, <2>2, <2>3 DEF Core, FinishInv, Open
<1>17. WorkIs'
  BY <1>2, <1>7 DEF Batched, WorkIs, Renders, SetsUp, Used
<1>18. SearchInv'
  <2>1. e < nextDraw => ~Exhausted'
    <3>1. ASSUME e < nextDraw
          PROVE  ~Exhausted'
      <4>1. InFlight(e) /\ Object(e).primitive < Object(e).count
        BY <1>5, <3>1
      <4>2. PICK s \in Slot : s = ObjectOf(e) /\ Object(e) = drawCall[s]
        BY <1>1, <4>1, Flying
      <4>3. drawCall[s].primitive \in Int /\ drawCall[s].count \in Int
        BY <1>1, ObjectTyped DEF Core
      <4>4. Exhausted' <=> drawCall[s].primitive >= drawCall[s].count
        BY <1>2, <1>4, <4>2 DEF Exhausted, ObjectOf
      <4> QED
        BY <4>1, <4>2, <4>3, <4>4
    <3> QED
      BY <3>1
  <2>2. l = "findPrimitives" => e < nextDraw
    BY <1>3, <1>4, <1>6
  <2>3. \A o \in Thread \ {t} : pc[o] # "findPrimitives"
    BY <1>2 DEF IInv, WorkerInv, Holding
  <2> QED
    BY <1>2, <1>4, <1>7, <2>1, <2>2, <2>3 DEF SearchInv
<1>19. Places'
  BY <1>2 DEF Batched, Places
<1> QED
  BY <1>11, <1>12, <1>13, <1>14, <1>15, <1>16, <1>17, <1>18, <1>19 DEF Batched

(* A unit is given the next batch of the draw call that has one left.       *)
LEMMA FindsPrimitives ==
    ASSUME IInv, Data, Batched, NEW t \in Thread, FindPrimitiveTask(t),
           CurrentDraw # nextDraw, UnitFree(index)
    PROVE  Batched'
<1>1. Core
  BY CoreHolds
<1>2. /\ pc[t] = "findPrimitives" /\ currentDraw' = CurrentDraw
      /\ UNCHANGED <<appVars, drawList, nextDraw, unitCount, task, finishing,
                     pixelProgress, batchOf>>
  BY DEF FindPrimitiveTask, dataVars
<1>3. currentDraw < nextDraw /\ currentDraw \in Nat /\ nextDraw \in Nat
  BY <1>1, <1>2 DEF Batched, SearchInv, Core, Data, KeptInv
<1>4. PICK e \in 0 .. nextDraw : e = CurrentDraw /\ e \in Int /\ e < nextDraw
  BY <1>1, <1>3, CurrentDrawIs
<1>5. /\ e = currentDraw \/ e = currentDraw + 1
      /\ e # currentDraw => Object(currentDraw).primitive >= Object(currentDraw).count
      /\ InFlight(e) /\ Object(e).primitive < Object(e).count
      /\ InFlight(currentDraw)
  BY <1>1, <1>3, <1>4, CurrentDrawIs
<1>6. PICK s \in Slot : /\ s = ObjectOf(e) /\ Open(s) /\ Object(e) = drawCall[s]
                        /\ drawCall[s].draw = e
  BY <1>1, <1>5, Flying
<1>7. PICK f \in Nat : f = drawCall[s].primitive
  BY <1>1, <1>6, References DEF Core
<1>8. PICK n \in Nat \ {0} : n = drawCall[s].count
  BY <1>1, <1>6, References DEF Core
<1>9. PICK b \in Nat \ {0} : b = drawCall[s].batch
  BY <1>1, <1>6, References DEF Core
<1>10. f < n /\ Starts(f, b)
  BY <1>1, <1>5, <1>6, <1>7, <1>8, <1>9, References DEF Core
<1>11. PICK u \in Used : u = index /\ u \in Unit /\ ~Active(u)
  <2>1. index \in Nat /\ index < unitCount
    BY <1>2 DEF IInv, Types, WorkerInv
  <2>2. index \in Used
    BY <2>1, UsedUnits DEF IInv, Used
  <2> QED
    BY <1>1, <2>2, UsedUnits DEF Core, UnitFree, Active
<1>12. PICK m \in Nat : m = IF n - f >= b THEN b ELSE n - f
  BY <1>10
<1>13. PICK p : p = [drawCall |-> e, first |-> f, count |-> m, references |-> -1]
  OBVIOUS
<1>14. PICK k : k = [type |-> "PRIMITIVES", unit |-> u, cluster |-> 0]
  OBVIOUS
<1>15. /\ primitiveProgress' = [primitiveProgress EXCEPT ![u] = p]
       /\ drawCall' = [drawCall EXCEPT ![s].primitive = f + b]
       /\ taskQueue' = Append(taskQueue, k)
  <2>1. /\ ObjectOf(CurrentDraw) = s
    BY <1>4, <1>6
  <2>2. drawCall' = [drawCall EXCEPT ![s].primitive = @ + b]
    BY <1>9, <2>1 DEF FindPrimitiveTask
  <2>3. drawCall' = [drawCall EXCEPT ![s].primitive = f + b]
    BY <1>7, <2>2
  <2> QED
    BY <1>4, <1>7, <1>8, <1>9, <1>11, <1>12, <1>13, <1>14, <2>1, <2>3 DEF FindPrimitiveTask
(* What the step changes, object by object and unit by unit. *)
<1>16. /\ drawCall'[s].primitive = f + b
       /\ \A x \in Slot : /\ drawCall'[x].draw = drawCall[x].draw
                          /\ drawCall'[x].count = drawCall[x].count
                          /\ drawCall'[x].batch = drawCall[x].batch
                          /\ drawCall'[x].references = drawCall[x].references
                          /\ x # s => drawCall'[x] = drawCall[x]
  <2>1. PICK y \in Int : y = f + b
    OBVIOUS
  <2>2. drawCall' = [drawCall EXCEPT ![s].primitive = y]
    BY <1>15, <2>1
  <2> QED
    BY ONLY <1>1, <2>1, <2>2 DEF Core, Data, DrawCalls
<1>17. /\ primitiveProgress'[u] = p
       /\ \A v \in Unit \ {u} : primitiveProgress'[v] = primitiveProgress[v]
       /\ p.drawCall = e /\ p.first = f /\ p.count = m /\ p.references = -1
  <2>1. p.drawCall = e /\ p.first = f /\ p.count = m /\ p.references = -1
    BY <1>13
  <2>2. u \in Unit /\ DOMAIN primitiveProgress = Unit
    BY <1>1, <1>11 DEF Core, Types
  <2>3. /\ primitiveProgress'[u] = p
        /\ \A v \in Unit \ {u} : primitiveProgress'[v] = primitiveProgress[v]
    BY ONLY <1>15, <2>2
  <2> QED
    BY <2>1, <2>3
<1>18. PICK l \in {"findPrimitives", "take"} : pc' = [pc EXCEPT ![t] = l]
  <2>1. CASE index + 1 < unitCount
    <3>1. pc' = [pc EXCEPT ![t] = "findPrimitives"]
      BY <1>2, <2>1 DEF FindPrimitiveTask, IInv, Types
    <3> QED
      BY <3>1
  <2>2. CASE ~(index + 1 < unitCount)
    BY <2>2 DEF FindPrimitiveTask, Goto
  <2> QED
    BY <2>1, <2>2
<1>19. pc'[t] = l /\ \A o \in Thread \ {t} : pc'[o] = pc[o]
  BY <1>18 DEF IInv, Types
<1>20. FinishersUnchanged
  BY <1>2, <1>19 DEF FinishersUnchanged, Finishing
<1>21. /\ Used' = Used /\ Used \subseteq Unit
       /\ \A x : Releasing(x)' = Releasing(x)
       /\ \A c, d, g : NotPast(c, d, g)' <=> NotPast(c, d, g)
       /\ \A v \in Used \ {u} : /\ Owing(v)' = Owing(v) /\ (Active(v)' <=> Active(v))
                                /\ \A d, g : Holds(v, d, g)' <=> Holds(v, d, g)
  <2>1. Used \subseteq Unit
    BY <1>1, UsedUnits DEF Core
  <2> QED
    BY <1>2, <1>17, <1>20, <2>1, FinishersElsewhere
<1>22. Active(u)'
  BY <1>17 DEF Active
<1>23. /\ \A d : ObjectOf(d)' = ObjectOf(d)
       /\ \A x \in Slot : Open(x)' <=> Open(x)
       /\ \A d \in Int : InFlight(d)' <=> InFlight(d)
       /\ \A d \in Int : /\ Object(d)'.count = Object(d).count
                         /\ Object(d)'.batch = Object(d).batch
                         /\ Object(d).primitive \in Int
                         /\ Object(d)'.primitive \in Int
                         /\ Object(d)'.primitive >= Object(d).primitive
  <2>1. \A d : ObjectOf(d)' = ObjectOf(d)
    BY <1>2 DEF ObjectOf
  <2>2. ASSUME NEW d \in Int
        PROVE  /\ InFlight(d)' <=> InFlight(d)
               /\ Object(d)'.count = Object(d).count
               /\ Object(d)'.batch = Object(d).batch
               /\ Object(d).primitive \in Int
               /\ Object(d)'.primitive \in Int
               /\ Object(d)'.primitive >= Object(d).primitive
    <3>1. PICK x \in Slot : x = ObjectOf(d)
      BY <1>1, ObjectIs DEF Core
    <3>2. Object(d) = drawCall[x] /\ Object(d)' = drawCall'[x]
      BY <2>1, <3>1 DEF Object
    <3>3. drawCall[x].primitive \in Int
      BY <1>1, ObjectTyped DEF Core
    <3>4. drawCall'[x].primitive = drawCall[x].primitive \/ x = s
      BY <1>16
    <3> QED
      BY <1>7, <1>16, <3>2, <3>3, <3>4 DEF InFlight
  <2> QED
    BY <1>16, <2>1, <2>2 DEF Open
<1>24. Object(e)'.primitive = f + b /\ Object(e)'.count = n /\ Object(e)'.batch = b
       /\ Object(e).primitive = f /\ Object(e).count = n /\ Object(e).batch = b
  BY <1>6, <1>7, <1>8, <1>9, <1>16, <1>23 DEF Object
<1>25. \A d \in Int : d # e /\ InFlight(d) => Object(d)' = Object(d)
  <2>1. ASSUME NEW d \in Int, d # e, InFlight(d)
        PROVE  Object(d)' = Object(d)
    <3>1. PICK x \in Slot : x = ObjectOf(d) /\ drawCall[x].draw = d
      BY <1>1, <2>1, Flying
    <3>2. x # s
      BY <1>6, <2>1, <3>1
    <3> QED
      BY <1>16, <1>23, <3>1, <3>2 DEF Object
  <2> QED
    BY <2>1
<1>26. ObjectInv'
  <2>1. ASSUME NEW x \in Slot, Open(x)'
        PROVE  /\ drawCall'[x].draw \in 0 .. nextDraw'
               /\ ObjectOf(drawCall[x].draw)' = x
               /\ drawCall'[x].draw = nextDraw' => appPc' = "publish"
               /\ drawCall'[x].count > 0 /\ drawCall'[x].batch > 0
    <3>1. Open(x) /\ drawCall'[x].draw = drawCall[x].draw
      BY <1>16, <1>23, <2>1
    <3> QED
      BY <1>1, <1>2, <1>16, <3>1 DEF Core, ObjectInv, appVars, ObjectOf
  <2>2. appPc = "publish" => InFlight(nextDraw)'
    <3>1. InFlight(nextDraw)' <=> InFlight(nextDraw)
      <4>1. PICK z \in Int : z = nextDraw
        BY <1>3
      <4>2. InFlight(z)' <=> InFlight(z)
        BY <1>23
      <4> QED
        BY <1>2, <4>1, <4>2 DEF InFlight, Object, ObjectOf
    <3> QED
      BY <1>1, <3>1 DEF Core, ObjectInv
  <2>3. appPc = "fill" => ~Open(appIndex)'
    <3>1. appPc = "fill" => appIndex \in Slot /\ ~Open(appIndex)
      BY <1>1 DEF Core, ObjectInv, Data
    <3>2. appIndex \in Slot => drawCall'[appIndex].references = drawCall[appIndex].references
      BY <1>16
    <3> QED
      BY <1>2, <3>1, <3>2 DEF Open, appVars
  <2>4. appPc \in {"fill", "publish"} => ObjectOf(nextDraw)' = appIndex'
    BY <1>1, <1>2 DEF Core, ObjectInv, appVars, ObjectOf
  <2> QED
    BY <1>1, <1>2, <2>1, <2>2, <2>3, <2>4 DEF Core, ObjectInv, appVars
<1>27. CountInv'
  <2>1. UnitsOf(e)' = UnitsOf(e) \cup {u} /\ u \notin UnitsOf(e)
    <3>1. \A v \in Used : v \in UnitsOf(e)' <=> v \in UnitsOf(e) \/ v = u
      BY <1>11, <1>17, <1>21, <1>22 DEF UnitsOf
    <3>2. UnitsOf(e)' \subseteq Used /\ UnitsOf(e) \subseteq Used
      BY <1>21 DEF UnitsOf
    <3> QED
      BY <1>11, <3>1, <3>2 DEF UnitsOf
  <2>2. Cardinality(UnitsOf(e)') = Cardinality(UnitsOf(e)) + 1
    BY <1>1, <2>1, Counts, FS_AddElement DEF Core
  <2>3. ASSUME NEW d \in Int, d # e
        PROVE  UnitsOf(d)' = UnitsOf(d)
    BY <1>11, <1>17, <1>21, <2>3 DEF UnitsOf
  <2>4. ASSUME NEW x \in Slot \ {s}, Open(x)
        PROVE  Counted(x)' /\ drawCall'[x] = drawCall[x] /\ drawCall[x].draw # e
    <3>1. drawCall[x].draw # e
      BY <1>1, <1>6, <2>4 DEF Core, ObjectInv
    <3>2. PICK d \in Int : d = drawCall[x].draw
      BY <1>1, ObjectTyped DEF Core
    <3>3. drawCall'[x] = drawCall[x] /\ UnitsOf(d)' = UnitsOf(d) /\ Releasing(x)' = Releasing(x)
      BY <1>16, <1>21, <2>3, <2>4, <3>1, <3>2
    <3>4. UnitsOf(drawCall[x].draw)' = UnitsOf(drawCall[x].draw)
      BY <3>2, <3>3 DEF UnitsOf
    <3>5. Counted(x)' <=> Counted(x)
      BY <3>3, <3>4 DEF Counted
    <3> QED
      BY <1>1, <2>4, <3>1, <3>3, <3>5 DEF Core, CountInv
  <2>5. Counted(s)'
    <3> DEFINE N == Batches(<<n, b>>)
    <3>1. N \in Nat \ {0} /\ \A i \in Nat : i < N <=> i * b < n
      BY BatchCount
    <3>2. PICK i \in Nat : /\ i <= N /\ f = i * b
                           /\ drawCall[s].references = N - i + Cardinality(UnitsOf(e))
                                                             + Cardinality(Releasing(s))
      BY <1>1, <1>6, <1>7, <1>8, <1>9 DEF Core, CountInv, Counted
    <3>3. i + 1 \in Nat /\ i + 1 <= N /\ f + b = (i + 1) * b
      <4>1. i < N
        BY <1>10, <3>1, <3>2
      <4>2. (i + 1) * b = i * b + b
        BY Multiples
      <4> HIDE DEF N
      <4> QED
        BY <3>1, <3>2, <4>1, <4>2
    <3>4. PICK j \in Nat : j = i + 1
      BY <3>3
    <3>5. drawCall[s].references = N - j + Cardinality(UnitsOf(e)') + Cardinality(Releasing(s))
      <4>1. Cardinality(UnitsOf(e)) \in Nat /\ Cardinality(Releasing(s)) \in Nat
        BY <1>1, Counts DEF Core
      <4> HIDE DEF N
      <4> QED
        BY <2>2, <3>1, <3>2, <3>4, <4>1
    <3>6. UnitsOf(drawCall[s].draw)' = UnitsOf(e)'
      BY <1>6, <1>16 DEF UnitsOf
    <3>7. /\ drawCall'[s].primitive = j * b /\ drawCall'[s].count = n /\ drawCall'[s].batch = b
          /\ drawCall'[s].references = N - j + Cardinality(UnitsOf(e)')
                                             + Cardinality(Releasing(s)')
      BY <1>8, <1>9, <1>16, <1>21, <3>3, <3>4, <3>5
    <3> QED
      BY <3>3, <3>4, <3>6, <3>7 DEF Counted
  <2>6. ASSUME NEW x \in Slot \ {s}, Open(x)
        PROVE  /\ drawCall[x].draw < e => drawCall[x].primitive >= drawCall[x].count
               /\ drawCall[x].draw > e \/ drawCall[x].draw = nextDraw
                     => drawCall[x].primitive = 0
    <3>1. /\ drawCall[x].draw < currentDraw => drawCall[x].primitive >= drawCall[x].count
          /\ drawCall[x].draw > currentDraw \/ drawCall[x].draw = nextDraw
                => drawCall[x].primitive = 0
          /\ drawCall[x].draw \in Int
      BY <1>1, <2>6, ObjectTyped DEF Core, CountInv
    <3>2. Object(drawCall[x].draw) = drawCall[x]
      BY <1>1, <2>6, OpenFlies
    <3>3. drawCall[x].draw = currentDraw /\ e # currentDraw
             => drawCall[x].primitive >= drawCall[x].count
      BY <1>5, <3>2
    <3> QED
      BY <1>3, <1>5, <3>1, <3>3
  <2>7. ~(e < e) /\ ~(e > e) /\ e # nextDraw
    BY <1>4
  <2>8. ASSUME NEW x \in Slot, Open(x)'
        PROVE  /\ Counted(x)'
               /\ drawCall'[x].draw < currentDraw' => drawCall'[x].primitive >= drawCall'[x].count
               /\ drawCall'[x].draw > currentDraw' \/ drawCall'[x].draw = nextDraw'
                     => drawCall'[x].primitive = 0
    <3>1. CASE x = s
      BY <1>2, <1>4, <1>6, <1>16, <2>5, <2>7, <3>1
    <3>2. CASE x # s
      BY <1>2, <1>4, <1>23, <2>4, <2>6, <2>8, <3>2
    <3> QED
      BY <3>1, <3>2
  <2> QED
    BY <2>8 DEF CountInv
<1>28. UnitInv'
  <2>1. ASSUME NEW v \in Used \ {u}, Active(v)
        PROVE  UnitIs(v)'
    <3>1. UnitIs(v)
      BY <1>1, <2>1 DEF Core, UnitInv
    <3>2. PICK d \in 0 .. currentDraw : d = primitiveProgress[v].drawCall /\ InFlight(d)
      BY <3>1 DEF UnitIs
    <3>3. d \in Int /\ d \in 0 .. e
      BY <1>3, <1>4, <1>5
    <3>4. /\ InFlight(d)' /\ Object(d)'.count = Object(d).count
          /\ Object(d)'.batch = Object(d).batch
          /\ Object(d)'.primitive >= Object(d).primitive
          /\ Object(d)'.primitive \in Int /\ Object(d).primitive \in Int
      BY <1>23, <3>2, <3>3
    <3>5. PICK q : q = primitiveProgress[v] /\ q = primitiveProgress'[v] /\ q.first \in Int
      BY <1>1, <1>17, <1>21, ProgressTyped DEF Core
    <3>6. q.first < Object(d)'.primitive
      BY <3>1, <3>2, <3>4, <3>5 DEF UnitIs
    <3>7. Object(primitiveProgress[v].drawCall)' = Object(d)'
      BY <3>2, <3>5 DEF Object, ObjectOf
    <3>8. InFlight(primitiveProgress[v].drawCall)'
      BY <3>2, <3>4, <3>5 DEF InFlight, Object, ObjectOf
    <3> QED
      BY <1>2, <1>4, <1>21, <3>1, <3>2, <3>3, <3>4, <3>5, <3>6, <3>7, <3>8 DEF UnitIs
  <2>2. UnitIs(u)'
    <3>1. Object(primitiveProgress[u].drawCall)' = Object(e)'
      BY <1>17 DEF Object, ObjectOf
    <3>2. InFlight(primitiveProgress[u].drawCall)'
      <4>1. InFlight(e)'
        BY <1>5, <1>23
      <4> QED
        BY <1>17, <4>1 DEF InFlight, Object, ObjectOf
    <3>3. f < f + b /\ -1 < 0 /\ ~(-1 > 0)
      OBVIOUS
    <3>4. Owing(u)' = Used'
      <4>1. ASSUME NEW c \in Used
            PROVE  NotPast(c, e, f)
        <5>1. ClusterIs(c)
          BY <1>1 DEF Core, ClusterInv
        <5>2. PICK d \in 0 .. currentDraw : d = pixelProgress[c].drawCall
          BY <5>1 DEF ClusterIs
        <5>3. CASE d < e
          BY <5>2, <5>3 DEF NotPast
        <5>4. CASE d = e
          <6>1. pixelProgress[c].processed <= f
            BY <1>4, <1>24, <5>1, <5>2, <5>4 DEF ClusterIs
          <6> QED
            BY <5>2, <5>4, <6>1 DEF NotPast
        <5> QED
          BY <1>3, <1>5, <5>2, <5>3, <5>4
      <4>2. \A c \in Used : NotPast(c, e, f)'
        BY <1>21, <4>1
      <4>3. \A c \in Used : NotPast(c, primitiveProgress[u].drawCall, primitiveProgress[u].first)'
        BY <1>17, <4>2 DEF NotPast
      <4> QED
        BY <1>21, <4>3 DEF Owing, Owes
    <3>5. e \in 0 .. e
      BY <1>4
    <3> QED
      BY <1>2, <1>4, <1>10, <1>12, <1>17, <1>24, <3>1, <3>2, <3>3, <3>4, <3>5 DEF UnitIs
  <2>3. ASSUME NEW v \in Used \ {u}, Active(v), primitiveProgress[v].drawCall = e
        PROVE  primitiveProgress[v].first # f
    <3>1. primitiveProgress[v].first < f
      BY <1>1, <1>24, <2>3 DEF Core, UnitInv, UnitIs
    <3>2. primitiveProgress[v].first \in Int
      BY <1>1, ProgressTyped DEF Core
    <3> QED
      BY <3>1, <3>2
  <2>4. \A v \in Unit \ Used : ~Active(v)'
    BY <1>1, <1>11, <1>17 DEF Core, UnitInv, Active
  <2>5. \A v \in Used : Active(v)' => UnitIs(v)'
    BY <1>21, <2>1, <2>2
  <2>6. ASSUME NEW v \in Used, NEW w \in Used, Active(v)', Active(w)', v # w
        PROVE  \/ primitiveProgress'[v].drawCall # primitiveProgress'[w].drawCall
               \/ primitiveProgress'[v].first # primitiveProgress'[w].first
    <3>1. CASE v # u /\ w # u
      BY <1>1, <1>17, <1>21, <2>6, <3>1 DEF Core, UnitInv
    <3>2. CASE v = u
      BY <1>17, <1>21, <2>3, <2>6, <3>2
    <3>3. CASE w = u
      BY <1>17, <1>21, <2>3, <2>6, <3>3
    <3> QED
      BY <3>1, <3>2, <3>3
  <2> QED
    BY <1>21, <2>4, <2>5, <2>6 DEF UnitInv
<1>29. ClusterInv'
  <2>1. ASSUME NEW c \in Used
        PROVE  ClusterIs(c)'
    <3>1. ClusterIs(c)
      BY <1>1 DEF Core, ClusterInv
    <3>2. PICK d \in 0 .. currentDraw : d = pixelProgress[c].drawCall
      BY <3>1 DEF ClusterIs
    <3>3. d \in Int /\ d \in 0 .. e /\ pixelProgress[c].processed \in Int
      BY <1>1, <1>3, <1>4, <1>5, ProgressTyped DEF Core
    <3>4. d < nextDraw =>
             /\ InFlight(d)' /\ Starts(pixelProgress[c].processed, Object(d)'.batch)
             /\ pixelProgress[c].processed < Object(d)'.count
             /\ pixelProgress[c].processed <= Object(d)'.primitive
      BY <1>23, <3>1, <3>2, <3>3 DEF ClusterIs
    <3>5. Object(pixelProgress[c].drawCall)' = Object(d)'
          /\ (InFlight(pixelProgress[c].drawCall)' <=> InFlight(d)')
      BY <1>2, <3>2 DEF Object, ObjectOf, InFlight
    <3> QED
      BY <1>2, <1>4, <3>1, <3>2, <3>3, <3>4, <3>5 DEF ClusterIs
  <2> QED
    BY <1>21, <2>1 DEF ClusterInv
<1>30. KeptInv'
  <2>1. ASSUME NEW d \in 0 .. nextDraw - 1, ~InFlight(d)'
        PROVE  \A c \in Used : pixelProgress[c].drawCall > d
    BY <1>1, <1>23, <2>1 DEF Core, KeptInv
  <2>2. ASSUME NEW d \in 0 .. nextDraw - 1, InFlight(d)', NEW g \in Nat,
               Starts(g, Object(d)'.batch), g < Object(d)'.count, g < Object(d)'.primitive
        PROVE  \/ \E v \in Used : Holds(v, d, g)'
               \/ \A c \in Used : ~NotPast(c, d, g)'
    <3>1. d \in Int /\ InFlight(d)
      BY <1>23, <2>2
    <3>2. CASE g < Object(d).primitive
      <4>1. \/ \E v \in Used : Holds(v, d, g)
            \/ \A c \in Used : ~NotPast(c, d, g)
        BY <1>1, <1>23, <2>2, <3>1, <3>2 DEF Core, KeptInv
      <4>2. \A v \in Used : Holds(v, d, g) => v # u
        BY <1>11 DEF Holds
      <4> QED
        BY <1>21, <4>1, <4>2
    <3>3. CASE d = e /\ ~(g < Object(d).primitive)
      <4>1. g >= f /\ g < f + b
        BY <1>24, <2>2, <3>3
      <4>2. PICK i \in Nat : f = i * b
        BY <1>10 DEF Starts
      <4>3. PICK j \in Nat : g = j * b
        BY <1>24, <2>2, <3>3 DEF Starts
      <4>4. ~(i < j)
        <5>1. i < j => i * b + b <= j * b
          BY Multiples
        <5> QED
          BY <4>1, <4>2, <4>3, <5>1
      <4>5. ~(j < i)
        <5>1. j < i => j * b + b <= i * b
          BY Multiples
        <5> QED
          BY <4>1, <4>2, <4>3, <5>1
      <4>6. g = f
        <5>1. i = j
          BY <4>4, <4>5
        <5> QED
          BY <4>2, <4>3, <5>1
      <4>7. Holds(u, e, f)'
        BY <1>17, <1>22 DEF Holds
      <4> QED
        BY <3>3, <4>6, <4>7
    <3>4. d # e => g < Object(d).primitive
      BY <1>25, <2>2, <3>1
    <3> QED
      BY <3>2, <3>3, <3>4
  <2> QED
    BY <1>2, <1>4, <1>21, <2>1, <2>2 DEF KeptInv
<1>31. FinishInv'
  <2>1. \A o \in Thread : /\ pc'[o] \in Finishing => pc'[o] = pc[o]
                          /\ pc'[o] \in Retiring => pc'[o] = pc[o]
                          /\ pc[o] \in Retiring => pc'[o] = pc[o]
                          /\ pc'[o] = "releaseUnit" => pc'[o] = pc[o]
    BY <1>2, <1>19 DEF Finishing, Retiring
  <2>2. ASSUME NEW o \in Thread, pc[o] \in Finishing
        PROVE  /\ task[o].cluster \in Used
               /\ Open(finishing[o])' /\ drawCall'[finishing[o]].draw < nextDraw
               /\ NearTo(task[o].cluster, drawCall[finishing[o]].draw)'
    <3>1. PICK x \in Slot : x = finishing[o]
      BY DEF Batched, Places
    <3>2. /\ task[o].cluster \in Used
          /\ Open(x) /\ drawCall[x].draw < nextDraw
          /\ NearTo(task[o].cluster, drawCall[x].draw)
      BY <1>1, <2>2, <3>1 DEF Core, FinishInv
    <3>3. Open(x)' /\ drawCall'[x].draw = drawCall[x].draw
      BY <1>16, <1>23, <3>2
    <3> QED
      BY <1>2, <3>1, <3>2, <3>3 DEF NearTo, Open
  <2>3. ASSUME NEW o \in Thread, pc[o] = "releaseUnit"
        PROVE  LET q == primitiveProgress'[task'[o].unit]
               IN  /\ task'[o].unit \in Used
                   /\ q.references > 0
                   /\ ~NotPast(task[o].cluster, primitiveProgress[task[o].unit].drawCall,
                               primitiveProgress[task[o].unit].first)'
                   /\ finishing'[o] = ObjectOf(primitiveProgress[task[o].unit].drawCall)'
    <3>1. PICK v \in Used : v = task[o].unit /\ primitiveProgress[v].references > 0
      BY <1>1, <2>3 DEF Core, FinishInv
    <3>2. primitiveProgress'[v] = primitiveProgress[v]
      BY <1>11, <1>17, <1>21, <3>1 DEF Active
    <3> QED
      BY <1>1, <1>2, <2>3, <3>1, <3>2 DEF Core, FinishInv, NotPast, ObjectOf
  <2>4. \A o \in Thread : pc[o] \in Retiring => drawCall'[finishing[o]].references = 0
    BY <1>1, <1>16 DEF Core, FinishInv, Batched, Places
  <2>5. \A x \in Slot : drawCall'[x].references = 0 =>
           \E o \in Thread : pc[o] \in Retiring /\ finishing[o] = x
    BY <1>1, <1>16 DEF Core, FinishInv
  <2> QED
    BY <1>1, <1>2, <1>21, <2>1, <2>2, <2>3, <2>4, <2>5 DEF Core, FinishInv
<1>32. ASSUME NEW x, Renders(x), x.type = "PIXELS"
       PROVE  x.unit # u /\ Renders(x)'
  <2>1. /\ x.unit \in Used /\ x.cluster \in Used
        /\ primitiveProgress[x.unit].references > 0
    BY <1>32 DEF Renders
  <2>2. x.unit # u
    BY <1>11, <2>1 DEF Active
  <2> QED
    BY <1>2, <1>17, <1>21, <1>32, <2>1, <2>2 DEF Renders
<1>33. \A i \in DOMAIN taskQueue' :
          \/ i \in DOMAIN taskQueue /\ taskQueue'[i] = taskQueue[i]
          \/ taskQueue'[i] = k
  BY <1>15 DEF IInv, Types
<1>34. WorkIs'
  <2>1. Renders(k)' /\ SetsUp(k)'
    BY <1>14, <1>21 DEF Renders, SetsUp
  <2>2. ASSUME NEW x, Renders(x), SetsUp(x)
        PROVE  Renders(x)' /\ SetsUp(x)'
    BY <1>21, <1>32, <2>2 DEF Renders, SetsUp
  <2>3. ASSUME NEW i \in DOMAIN taskQueue'
        PROVE  Renders(taskQueue[i])' /\ SetsUp(taskQueue[i])'
    <3>1. PICK x : x = taskQueue'[i]
      OBVIOUS
    <3>2. Renders(x)' /\ SetsUp(x)'
      <4>1. CASE x = k
        BY <2>1, <4>1 DEF Renders, SetsUp
      <4>2. CASE i \in DOMAIN taskQueue /\ x = taskQueue[i]
        BY <2>2, <4>2 DEF Batched, WorkIs
      <4> QED
        BY <1>33, <3>1, <4>1, <4>2
    <3> QED
      BY <3>1, <3>2 DEF Renders, SetsUp
  <2>4. ASSUME NEW o \in Thread
        PROVE  /\ pc'[o] \in {"wakeup", "pixels", "progress"} => Renders(task[o])'
               /\ pc'[o] \in {"wakeup", "primitives"} => SetsUp(task[o])'
    <3>1. PICK x : x = task[o]
      OBVIOUS
    <3>2. pc'[o] \in {"wakeup", "pixels", "progress", "primitives"} => pc'[o] = pc[o]
      BY <1>19
    <3>3. pc[o] \in {"wakeup", "pixels", "progress"} => Renders(x)
      BY <3>1 DEF Batched, WorkIs
    <3>4. pc[o] \in {"wakeup", "primitives"} => SetsUp(x)
      BY <3>1 DEF Batched, WorkIs
    <3>5. Renders(x) => Renders(x)'
      BY <1>32 DEF Renders
    <3>6. SetsUp(x) => SetsUp(x)'
      BY <1>21 DEF SetsUp
    <3> QED
      BY <1>2, <3>1, <3>2, <3>3, <3>4, <3>5, <3>6 DEF Renders, SetsUp
  <2> QED
    BY <2>3, <2>4 DEF WorkIs
<1>35. SearchInv'
  <2>1. ASSUME Exhausted'
        PROVE  LastIn(u)'
    <3>1. f + b >= n
      <4>1. ObjectOf(currentDraw)' = s
        BY <1>2, <1>4, <1>6 DEF ObjectOf
      <4> QED
        BY <1>8, <1>16, <2>1, <4>1 DEF Exhausted
    <3>2. f + m >= n
      BY <1>10, <1>12, <3>1
    <3>3. Object(currentDraw)' = Object(e)'
      BY <1>2, <1>4 DEF Object, ObjectOf
    <3>4. ASSUME NEW o \in Thread, pc'[o] \in {"wakeup", "pixels", "progress", "releaseUnit"}
          PROVE  ~OnUnit(task'[o], u)
      <4>1. pc[o] = pc'[o]
        BY <1>19, <3>4
      <4>2. CASE pc[o] = "releaseUnit"
        <5>1. primitiveProgress[task[o].unit].references > 0
          BY <1>1, <4>2 DEF Core, FinishInv
        <5> QED
          BY <1>2, <1>11, <5>1 DEF OnUnit, Active
      <4>3. CASE pc[o] \in {"wakeup", "pixels", "progress"}
        <5>1. Renders(task[o])
          BY <4>3 DEF Batched, WorkIs
        <5>2. OnUnit(task[o], u) => task[o].type = "PIXELS" /\ task[o].unit = u
          BY DEF OnUnit
        <5> QED
          BY <1>2, <1>32, <5>1, <5>2
      <4> QED
        BY <3>4, <4>1, <4>2, <4>3
    <3>5. ASSUME NEW i \in DOMAIN taskQueue'
          PROVE  ~OnUnit(taskQueue'[i], u)
      <4>1. CASE taskQueue'[i] = k
        BY <1>14, <4>1 DEF OnUnit
      <4>2. CASE i \in DOMAIN taskQueue /\ taskQueue'[i] = taskQueue[i]
        <5>1. Renders(taskQueue[i])
          BY <4>2 DEF Batched, WorkIs
        <5> QED
          BY <1>32, <4>2, <5>1 DEF OnUnit
      <4> QED
        BY <1>33, <4>1, <4>2
    <3> QED
      BY <1>2, <1>4, <1>17, <1>22, <1>24, <3>2, <3>3, <3>4, <3>5 DEF LastIn, OnUnit
  <2>2. \A o \in Thread : pc'[o] = "findPrimitives" => currentDraw' < nextDraw'
    BY <1>2, <1>4
  <2> QED
    BY <1>21, <2>1, <2>2 DEF SearchInv
<1>36. Places'
  BY <1>2 DEF Batched, Places
<1> QED
  BY <1>26, <1>27, <1>28, <1>29, <1>30, <1>31, <1>34, <1>35, <1>36 DEF Batched

\* The search for a batch to set up, whether or not it finds one.
LEMMA FindPrimitiveTaskBatched ==
    ASSUME IInv, Data, Batched, NEW t \in Thread, FindPrimitiveTask(t)
    PROVE  Batched'
  BY FindsPrimitives, FindsNoPrimitives

-----------------------------------------------------------------------------
(* Workers: a batch is set up and rendered                                  *)

\* The unit is filled with its batch, and every cluster in use refers to it.
LEMMA ExecutePrimitivesBatched ==
    ASSUME IInv, Data, Batched, NEW t \in Thread, ExecutePrimitives(t)
    PROVE  Batched'
<1>1. Core
  BY CoreHolds
<1>2. /\ pc[t] = "primitives" /\ pc' = [pc EXCEPT ![t] = "schedule"]
      /\ UNCHANGED <<appVars, drawList, drawCall, currentDraw, nextDraw, unitCount, task,
                     finishing, taskQueue, pixelProgress>>
  BY DEF ExecutePrimitives, Goto, drawVars
<1>3. pc'[t] = "schedule" /\ \A o \in Thread \ {t} : pc'[o] = pc[o]
  BY <1>2 DEF IInv, Types
<1>4. PICK u \in Used : u = task[t].unit /\ u \in Unit /\ primitiveProgress[u].references < 0
  <2>1. task[t].type = "PRIMITIVES"
    BY <1>2 DEF IInv, WorkerInv
  <2>2. Claimed(task[t])
    BY <1>2 DEF IInv, ClaimInv, InHand
  <2>3. task[t].unit \in Used
    BY <1>2, <2>1 DEF Batched, WorkIs, SetsUp
  <2> QED
    BY <1>1, <2>1, <2>2, <2>3, UsedUnits DEF Claimed, Core
<1>5. PICK p : p = primitiveProgress[u] /\ p.references \in Int /\ p.drawCall \in Int
               /\ p.references # 0 /\ ~(p.references > 0)
  BY <1>1, <1>4, ProgressTyped DEF Core
<1>6. Active(u) /\ UnitIs(u) /\ p.references = -1 /\ Owing(u) = Used /\ InFlight(p.drawCall)
  <2>1. Active(u)
    BY <1>5 DEF Active
  <2>2. UnitIs(u)
    BY <1>1, <2>1 DEF Core, UnitInv
  <2> QED
    BY <1>4, <1>5, <2>1, <2>2 DEF UnitIs
<1>7. PICK n \in Nat \ {0} : n = unitCount /\ Cardinality(Used) = n
  BY <1>1, UsedUnits DEF Core
<1>8. /\ primitiveProgress' = [primitiveProgress EXCEPT ![u].references = n]
      /\ batchOf' = [batchOf EXCEPT ![u] = [draw |-> p.drawCall, first |-> p.first]]
  <2>1. drawCall[ObjectOf(p.drawCall)].draw = p.drawCall
    BY <1>6 DEF InFlight, Object
  <2> QED
    BY <1>4, <1>5, <1>7, <2>1 DEF ExecutePrimitives, clusterCount
<1>9. /\ \A v \in Unit : /\ primitiveProgress'[v].drawCall = primitiveProgress[v].drawCall
                         /\ primitiveProgress'[v].first = primitiveProgress[v].first
                         /\ primitiveProgress'[v].count = primitiveProgress[v].count
                         /\ v # u => /\ primitiveProgress'[v] = primitiveProgress[v]
                                     /\ batchOf'[v] = batchOf[v]
      /\ primitiveProgress'[u].references = n
      /\ batchOf'[u] = [draw |-> p.drawCall, first |-> p.first]
  <2>1. batchOf \in [Unit -> [draw : Int, first : Int]]
    BY DEF Batched, Places
  <2>2. \A v \in Unit : /\ primitiveProgress'[v].drawCall = primitiveProgress[v].drawCall
                        /\ primitiveProgress'[v].first = primitiveProgress[v].first
                        /\ primitiveProgress'[v].count = primitiveProgress[v].count
                        /\ v # u => primitiveProgress'[v] = primitiveProgress[v]
    BY <1>1, <1>4, <1>8 DEF Core, Types
  <2>3. primitiveProgress'[u].references = n
    BY <1>1, <1>4, <1>8 DEF Core, Types
  <2> QED
    BY <1>4, <1>8, <2>1, <2>2, <2>3
<1>10. \A v \in Unit : Active(v)' <=> Active(v)
  BY <1>5, <1>7, <1>9 DEF Active
<1>11. Used' = Used /\ Used \subseteq Unit
  BY <1>1, <1>2, UsedUnits DEF Used, Core
<1>12. FinishersUnchanged
  BY <1>2, <1>3 DEF FinishersUnchanged, Finishing
<1>13. /\ \A o \in Thread : \A c, v : Releases(o, c, v)' <=> Releases(o, c, v)
       /\ \A s : Releasing(s)' = Releasing(s)
       /\ \A c, d, f : NotPast(c, d, f)' <=> NotPast(c, d, f)
  BY <1>2, <1>12, FinishersElsewhere
<1>14. \A v \in Used : Owing(v)' = Owing(v)
  <2>1. ASSUME NEW v \in Used, NEW c
        PROVE  Owes(c, v)' <=> Owes(c, v)
    BY <1>9, <1>11, <1>13, <2>1 DEF Owes, NotPast
  <2> QED
    BY <1>11, <2>1 DEF Owing
<1>15. \A v \in Used : \A d, f : Holds(v, d, f)' <=> Holds(v, d, f)
  BY <1>9, <1>10, <1>11 DEF Holds
<1>16. /\ \A d : ObjectOf(d)' = ObjectOf(d) /\ Object(d)' = Object(d)
       /\ \A d : InFlight(d)' <=> InFlight(d)
       /\ \A s : Open(s)' <=> Open(s)
  BY <1>2 DEF ObjectOf, Object, InFlight, Open
<1>17. ObjectInv'
  BY <1>2, ObjectsElsewhere DEF Batched
<1>18. CountInv'
  <2>1. \A d : UnitsOf(d)' = UnitsOf(d)
    BY <1>9, <1>10, <1>11 DEF UnitsOf
  <2>2. \A s \in Slot : Counted(s)' <=> Counted(s)
    BY <1>2, <1>13, <2>1 DEF Counted
  <2> QED
    BY <1>1, <1>2, <1>16, <2>2 DEF Core, CountInv
<1>19. UnitInv'
  <2>1. ASSUME NEW v \in Used, v # u, UnitIs(v)
        PROVE  UnitIs(v)'
    BY <1>2, <1>9, <1>11, <1>14, <1>16, <2>1 DEF UnitIs, Object, ObjectOf, InFlight
  <2>2. UnitIs(u)'
    <3>1. n > 0 /\ ~(n < 0)
      OBVIOUS
    <3>2. Cardinality(Owing(u)') = n
      BY <1>6, <1>7, <1>14
    <3>3. /\ Object(primitiveProgress[u].drawCall)' = Object(p.drawCall)
          /\ InFlight(primitiveProgress[u].drawCall)'
      <4>1. primitiveProgress'[u].drawCall = p.drawCall
        BY <1>4, <1>5, <1>9
      <4> QED
        BY <1>6, <1>16, <4>1 DEF Object, ObjectOf, InFlight
    <3>4. /\ primitiveProgress'[u].drawCall = p.drawCall
          /\ primitiveProgress'[u].first = p.first
          /\ primitiveProgress'[u].count = p.count
          /\ primitiveProgress'[u].references = n
          /\ batchOf'[u] = [draw |-> p.drawCall, first |-> p.first]
      BY <1>4, <1>5, <1>9
    <3>5. /\ p.drawCall \in 0 .. currentDraw /\ p.drawCall < nextDraw
          /\ Starts(p.first, Object(p.drawCall).batch)
          /\ p.first < Object(p.drawCall).count /\ p.first < Object(p.drawCall).primitive
          /\ p.count = IF Object(p.drawCall).count - p.first >= Object(p.drawCall).batch
                       THEN Object(p.drawCall).batch
                       ELSE Object(p.drawCall).count - p.first
      BY <1>5, <1>6 DEF UnitIs
    <3> QED
      BY <1>2, <3>1, <3>2, <3>3, <3>4, <3>5 DEF UnitIs
  <2>3. \A v \in Unit \ Used : ~Active(v)'
    BY <1>1, <1>10 DEF Core, UnitInv
  <2>4. \A v \in Used : Active(v)' => UnitIs(v)'
    BY <1>1, <1>10, <1>11, <2>1, <2>2 DEF Core, UnitInv
  <2>5. ASSUME NEW v \in Used, NEW w \in Used, Active(v)', Active(w)', v # w
        PROVE  \/ primitiveProgress'[v].drawCall # primitiveProgress'[w].drawCall
               \/ primitiveProgress'[v].first # primitiveProgress'[w].first
    BY <1>1, <1>9, <1>10, <1>11, <2>5 DEF Core, UnitInv
  <2> QED
    BY <1>11, <2>3, <2>4, <2>5 DEF UnitInv
<1>20. ClusterInv'
  BY <1>1, <1>2, <1>11, <1>16 DEF Core, ClusterInv, ClusterIs, Object, ObjectOf, InFlight
<1>21. KeptInv'
  BY <1>1, <1>2, <1>11, <1>13, <1>15, <1>16 DEF Core, KeptInv
<1>22. \A v \in Unit : primitiveProgress[v].references > 0
                          => v # u /\ primitiveProgress'[v].references > 0
  BY <1>5, <1>9
<1>23. FinishInv'
  <2>1. \A o \in Thread : /\ pc'[o] \in Finishing => pc'[o] = pc[o]
                          /\ pc'[o] \in Retiring => pc'[o] = pc[o]
                          /\ pc[o] \in Retiring => pc'[o] = pc[o]
                          /\ pc'[o] = "releaseUnit" => pc'[o] = pc[o]
    BY <1>2, <1>3 DEF Finishing, Retiring
  <2>2. ASSUME NEW o \in Thread, pc[o] \in Finishing
        PROVE  NearTo(task[o].cluster, drawCall[finishing[o]].draw)'
    BY <1>1, <1>2, <2>2 DEF Core, FinishInv, NearTo
  <2>3. ASSUME NEW o \in Thread, pc[o] = "releaseUnit"
        PROVE  LET q == primitiveProgress'[task'[o].unit]
               IN  /\ task'[o].unit \in Used
                   /\ q.references > 0
                   /\ ~NotPast(task[o].cluster, primitiveProgress[task[o].unit].drawCall,
                               primitiveProgress[task[o].unit].first)'
                   /\ finishing'[o] = ObjectOf(primitiveProgress[task[o].unit].drawCall)'
    <3>1. PICK v \in Used : v = task[o].unit /\ primitiveProgress[v].references > 0
      BY <1>1, <2>3 DEF Core, FinishInv
    <3>2. primitiveProgress'[v] = primitiveProgress[v]
      BY <1>9, <1>11, <1>22, <3>1
    <3> QED
      BY <1>1, <1>2, <2>3, <3>1, <3>2 DEF Core, FinishInv, NotPast, ObjectOf
  <2> QED
    BY <1>1, <1>2, <1>11, <1>16, <2>1, <2>2, <2>3 DEF Core, FinishInv, Open
<1>24. ASSUME NEW x
       PROVE  /\ Renders(x) => Renders(x)'
              /\ SetsUp(x) => SetsUp(x)'
  BY <1>2, <1>9, <1>11, <1>22 DEF Renders, SetsUp
<1>25. WorkIs'
  <2>1. ASSUME NEW i \in DOMAIN taskQueue'
        PROVE  Renders(taskQueue[i])' /\ SetsUp(taskQueue[i])'
    <3>1. PICK x : x = taskQueue[i]
      OBVIOUS
    <3>2. Renders(x)' /\ SetsUp(x)'
      BY <1>2, <1>24, <2>1, <3>1 DEF Batched, WorkIs
    <3> QED
      BY <1>2, <3>1, <3>2 DEF Renders, SetsUp
  <2>2. ASSUME NEW o \in Thread
        PROVE  /\ pc'[o] \in {"wakeup", "pixels", "progress"} => Renders(task[o])'
               /\ pc'[o] \in {"wakeup", "primitives"} => SetsUp(task[o])'
    <3>1. PICK x : x = task[o]
      OBVIOUS
    <3>2. pc'[o] \in {"wakeup", "pixels", "progress", "primitives"} => pc'[o] = pc[o]
      BY <1>3
    <3>3. /\ pc[o] \in {"wakeup", "pixels", "progress"} => Renders(x)'
          /\ pc[o] \in {"wakeup", "primitives"} => SetsUp(x)'
      BY <1>24, <3>1 DEF Batched, WorkIs
    <3> QED
      BY <1>2, <3>1, <3>2, <3>3 DEF Renders, SetsUp
  <2> QED
    BY <2>1, <2>2 DEF WorkIs
<1>26. SearchInv'
  <2>1. ASSUME NEW v \in Used, LastIn(v)
        PROVE  LastIn(v)'
    <3>1. \A o \in Thread : pc'[o] \in {"wakeup", "pixels", "progress", "releaseUnit"}
                               => ~OnUnit(task[o], v)'
      BY <1>2, <1>3, <2>1 DEF LastIn, OnUnit
    <3>2. \A o \in Thread : pc[o] \in {"findPixels", "findPrimitives"} => pc'[o] = pc[o]
      BY <1>2, <1>3
    <3>3. Object(currentDraw)' = Object(currentDraw)
      BY <1>2 DEF Object, ObjectOf
    <3> QED
      BY <1>2, <1>9, <1>10, <1>11, <2>1, <3>1, <3>2, <3>3 DEF LastIn, OnUnit
  <2>2. \A o \in Thread : pc'[o] = "findPrimitives" => pc[o] = "findPrimitives"
    BY <1>3
  <2>3. Exhausted' <=> Exhausted
    BY <1>2 DEF Exhausted, ObjectOf
  <2> QED
    BY <1>2, <1>11, <2>1, <2>2, <2>3 DEF Batched, SearchInv
<1>27. Places'
  <2>1. p.drawCall \in Int /\ p.first \in Int
    BY <1>1, <1>5, ProgressTyped DEF Core
  <2> QED
    BY <1>2, <1>8, <2>1 DEF Batched, Places
<1> QED
  BY <1>17, <1>18, <1>19, <1>20, <1>21, <1>23, <1>25, <1>26, <1>27 DEF Batched

\* A cluster comes to its next batch; its worker still refers to the unit.
LEMMA UpdateProgressBatched ==
    ASSUME IInv, Data, Batched, NEW t \in Thread, UpdateProgress(t)
    PROVE  Batched'
(* The batch the worker has rendered, and what becomes of its cluster. *)
<1>0. Core
  BY CoreHolds
<1>1. pc[t] = "progress" /\ task[t].type = "PIXELS"
  BY DEF UpdateProgress, IInv, WorkerInv, Rendering
<1>2. Renders(task[t])
  BY <1>1 DEF Batched, WorkIs
<1>3. PICK c \in Used : c = task[t].cluster
  BY <1>1, <1>2 DEF Renders
<1>4. PICK u \in Used : u = task[t].unit
  BY <1>1, <1>2 DEF Renders
<1>5. /\ primitiveProgress[u].references > 0
      /\ primitiveProgress[u].drawCall = pixelProgress[c].drawCall
      /\ primitiveProgress[u].first = pixelProgress[c].processed
  BY <1>1, <1>2, <1>3, <1>4 DEF Renders
<1>6. Active(u) /\ UnitIs(u)
  BY <1>0, <1>5, ProgressTyped DEF Core, UnitInv, Active
<1>7. nextDraw \in Nat /\ currentDraw \in Nat
  BY <1>0 DEF Core, KeptInv, Data
<1>8. PICK d \in 0 .. nextDraw - 1 : d = primitiveProgress[u].drawCall /\ InFlight(d)
  BY <1>6, <1>7 DEF UnitIs
<1>9. PICK s \in Slot : s = ObjectOf(d) /\ Open(s) /\ Object(d) = drawCall[s]
                        /\ drawCall[s].draw = d
  BY <1>0, <1>7, <1>8, Flying
<1>10. PICK n \in Nat \ {0} : n = drawCall[s].count
  BY <1>0, <1>9, References DEF Core
<1>11. PICK b \in Nat \ {0} : b = drawCall[s].batch
  BY <1>0, <1>9, References DEF Core
<1>12. PICK f \in Nat : f = primitiveProgress[u].first
  <2>1. Starts(primitiveProgress[u].first, b)
    BY <1>6, <1>8, <1>9, <1>11 DEF UnitIs
  <2> QED
    BY <2>1, Multiples DEF Starts
<1>13. f < n /\ Starts(f, b) /\ f < drawCall[s].primitive
  <2>1. Starts(primitiveProgress[u].first, b)
    BY <1>6, <1>8, <1>9, <1>11 DEF UnitIs
  <2>2. /\ primitiveProgress[u].first < n
        /\ primitiveProgress[u].first < drawCall[s].primitive
    BY <1>6, <1>8, <1>9, <1>10 DEF UnitIs
  <2>3. Starts(f, b)
    BY <1>12, <2>1 DEF Starts
  <2> QED
    BY <1>12, <2>2, <2>3
<1>14. PICK m \in Nat : m = IF n - f >= b THEN b ELSE n - f
  <2>1. f < n
    BY <1>13
  <2>2. n - f \in Nat /\ b \in Nat
    BY <2>1
  <2> QED
    BY ONLY <2>2
<1>15. primitiveProgress[u].count = m
  BY <1>6, <1>8, <1>9, <1>10, <1>11, <1>12, <1>14 DEF UnitIs
<1>16. PICK e \in Int : e = d + 1
  BY <1>7
<1>17. PICK g \in Int : g = f + m
  OBVIOUS
<1>18. /\ finishing' = [finishing EXCEPT ![t] = s]
       /\ pixelProgress' = [pixelProgress EXCEPT ![c] =
             IF g >= n THEN [@ EXCEPT !.drawCall = e, !.processed = 0]
             ELSE [@ EXCEPT !.processed = g]]
  BY <1>3, <1>4, <1>5, <1>8, <1>9, <1>10, <1>12, <1>15, <1>16, <1>17 DEF UpdateProgress
<1>19. Used \subseteq Cluster /\ c \in Cluster
  BY <1>0, UsedUnits DEF Core
<1>20. \A x \in Used \ {c} : pixelProgress'[x] = pixelProgress[x]
  <2>1. DOMAIN pixelProgress = Cluster
    BY <1>0 DEF Core, Types
  <2> QED
    BY ONLY <1>18, <1>19, <2>1
<1>21. /\ g >= n => pixelProgress'[c].drawCall = e /\ pixelProgress'[c].processed = 0
       /\ ~(g >= n) => pixelProgress'[c].drawCall = d /\ pixelProgress'[c].processed = g
  <2>1. CASE g >= n
    <3>1. pixelProgress' = [pixelProgress EXCEPT ![c] = [pixelProgress[c] EXCEPT !.drawCall = e,
                                                                                !.processed = 0]]
      BY <1>18, <2>1
    <3> QED
      BY <1>0, <1>19, <2>1, <3>1 DEF Core, Types
  <2>2. CASE ~(g >= n)
    <3>1. pixelProgress' = [pixelProgress EXCEPT ![c] = [pixelProgress[c] EXCEPT !.processed = g]]
      BY <1>18, <2>2
    <3>2. pixelProgress'[c].drawCall = pixelProgress[c].drawCall
          /\ pixelProgress'[c].processed = g
      BY <1>0, <1>19, <3>1 DEF Core, Types
    <3> QED
      BY <1>5, <1>8, <2>2, <3>2
  <2> QED
    BY <2>1, <2>2
<1>22. /\ pc' = [pc EXCEPT ![t] = "releaseUnit"]
       /\ UNCHANGED <<appVars, drawList, drawCall, currentDraw, nextDraw, unitCount, task,
                      taskQueue, primitiveProgress, batchOf>>
  BY DEF UpdateProgress, Goto, drawVars, dataVars
<1>23. /\ pc'[t] = "releaseUnit" /\ finishing'[t] = s
       /\ \A o \in Thread \ {t} : pc'[o] = pc[o] /\ finishing'[o] = finishing[o]
  BY <1>18, <1>22 DEF IInv, Types, Batched, Places
<1>24. Used' = Used
  BY <1>22 DEF Used
<1>25. pixelProgress[c].drawCall = d /\ pixelProgress[c].processed = f
  BY <1>5, <1>8, <1>12
<1>26. m > 0 /\ g > f /\ g <= n /\ (~(g >= n) => g = f + b) /\ (g >= n => f + b >= n)
  BY <1>13, <1>14, <1>17
(* How far a cluster has come. *)
<1>27. \A x \in Used \ {c} : \A y, z : NotPast(x, y, z)' <=> NotPast(x, y, z)
  BY <1>20 DEF NotPast
<1>28. ~NotPast(c, d, f)' /\ NotPast(c, d, f)
  BY <1>7, <1>16, <1>21, <1>25, <1>26 DEF NotPast
<1>29. ASSUME NEW y \in Int, NEW z \in Int, NotPast(c, y, z)'
       PROVE  NotPast(c, y, z)
  BY <1>7, <1>16, <1>21, <1>25, <1>26, <1>29 DEF NotPast
<1>30. ASSUME NEW y \in Int, NEW z \in Nat, y # d, NotPast(c, y, z)
       PROVE  NotPast(c, y, z)'
  BY <1>7, <1>16, <1>21, <1>25, <1>26, <1>30 DEF NotPast
<1>31. ASSUME NEW z \in Nat, Starts(z, b), z < n, z # f, NotPast(c, d, z)
       PROVE  NotPast(c, d, z)'
  <2>1. f < z
    BY <1>7, <1>25, <1>31 DEF NotPast
  <2>2. PICK i \in Nat : f = i * b
    BY <1>13 DEF Starts
  <2>3. PICK j \in Nat : z = j * b
    BY <1>31 DEF Starts
  <2>4. f + b <= z
    <3>1. j <= i => j * b <= i * b
      BY Multiples
    <3>2. i < j => i * b + b <= j * b
      BY Multiples
    <3>3. i * b \in Nat /\ j * b \in Nat
      BY Multiples
    <3>4. ~(j <= i)
      BY <2>1, <2>2, <2>3, <3>1, <3>3
    <3> QED
      BY <2>2, <2>3, <3>2, <3>4
  <2> QED
    BY <1>21, <1>26, <1>31, <2>4 DEF NotPast
<1>32. \A o \in Thread \ {t} : InHand(o) /\ task[o].type = "PIXELS" => task[o].cluster # c
  BY <1>1, <1>3 DEF IInv, TasksDistinct, SameWork, InHand
<1>33. \A i \in DOMAIN taskQueue : taskQueue[i].type = "PIXELS" => taskQueue[i].cluster # c
  BY <1>1, <1>3 DEF IInv, TasksDistinct, SameWork, InHand
(* No cluster comes to owe a unit, or ceases to. *)
<1>34. \A o \in Thread : \A x, v :
          Releases(o, x, v)' <=> (Releases(o, x, v) \/ (o = t /\ x = c /\ v = u))
  BY <1>1, <1>3, <1>4, <1>22, <1>23 DEF Releases
<1>35. \A x : Releasing(x)' = Releasing(x)
  <2>1. ASSUME NEW x, NEW o \in Thread
        PROVE  o \in Releasing(x)' <=> o \in Releasing(x)
    BY <1>1, <1>23 DEF Releasing
  <2>2. \A x : Releasing(x) \subseteq Thread /\ Releasing(x)' \subseteq Thread
    BY DEF Releasing
  <2> QED
    BY <2>1, <2>2
<1>36. ASSUME NEW v \in Used, Active(v)
       PROVE  Owing(v)' = Owing(v)
  <2>1. PICK y \in Int : y = primitiveProgress[v].drawCall /\ y = primitiveProgress'[v].drawCall
    BY <1>0, <1>22, ProgressTyped DEF Core
  <2>2. UnitIs(v)
    BY <1>0, <1>36 DEF Core, UnitInv
  <2>3. InFlight(y) /\ y \in 0 .. nextDraw
    BY <1>7, <2>1, <2>2 DEF UnitIs
  <2>4. Object(y).batch \in Nat \ {0}
    BY <1>0, <2>1, <2>3, Flying, References DEF Core
  <2>5. Starts(primitiveProgress[v].first, Object(y).batch)
        /\ primitiveProgress[v].first < Object(y).count
    BY <2>1, <2>2 DEF UnitIs
  <2>6. PICK z \in Nat : z = primitiveProgress[v].first /\ z = primitiveProgress'[v].first
    BY <1>22, <2>4, <2>5, Multiples DEF Starts
  <2>7. ASSUME NEW x \in Used
        PROVE  Owes(x, v)' <=> Owes(x, v)
    <3>1. CASE v = u
      <4>1. y = d /\ z = f
        BY <1>8, <1>12, <2>1, <2>6, <3>1
      <4>2. CASE x = c
        <5>1. Owes(x, v)
          BY <1>28, <2>1, <2>6, <4>1, <4>2 DEF Owes
        <5>2. Releases(t, x, v)'
          BY <1>34, <3>1, <4>2
        <5> QED
          BY <5>1, <5>2 DEF Owes
      <4>3. CASE x # c
        <5>1. NotPast(x, y, z)' <=> NotPast(x, y, z)
          BY <1>27, <4>3
        <5>2. \A o \in Thread : Releases(o, x, v)' <=> Releases(o, x, v)
          BY <1>34, <4>3
        <5> QED
          BY <2>1, <2>6, <5>1, <5>2 DEF Owes, NotPast
      <4> QED
        BY <4>2, <4>3
    <3>2. CASE v # u
      <4>1. y # d \/ z # f
        BY <1>0, <1>6, <1>8, <1>12, <1>36, <2>1, <2>6, <3>2 DEF Core, UnitInv
      <4>2. NotPast(x, y, z)' <=> NotPast(x, y, z)
        <5>1. CASE x # c
          BY <1>27, <5>1
        <5>2. CASE x = c /\ y # d
          BY <1>29, <1>30, <5>2
        <5>3. CASE x = c /\ y = d /\ z # f
          <6>1. Starts(z, b) /\ z < n
            BY <1>9, <1>10, <1>11, <2>5, <2>6, <5>3
          <6>2. d \in Int
            BY <1>7
          <6> QED
            BY <1>29, <1>31, <5>3, <6>1, <6>2
        <5> QED
          BY <4>1, <5>1, <5>2, <5>3
      <4>3. \A o \in Thread : Releases(o, x, v)' <=> Releases(o, x, v)
        BY <1>34, <3>2
      <4> QED
        BY <2>1, <2>6, <4>2, <4>3 DEF Owes, NotPast
    <3> QED
      BY <3>1, <3>2
  <2> QED
    BY <1>24, <2>7 DEF Owing
<1>37. /\ \A v : Active(v)' <=> Active(v)
       /\ \A v, y, z : Holds(v, y, z)' <=> Holds(v, y, z)
       /\ \A y : UnitsOf(y)' = UnitsOf(y)
  BY <1>22, <1>24 DEF Active, Holds, UnitsOf
<1>38. /\ \A y : ObjectOf(y)' = ObjectOf(y) /\ Object(y)' = Object(y)
       /\ \A y : InFlight(y)' <=> InFlight(y)
       /\ \A x : Open(x)' <=> Open(x)
  BY <1>22 DEF ObjectOf, Object, InFlight, Open
<1>39. ObjectInv'
  BY <1>22, ObjectsElsewhere DEF Batched
<1>40. CountInv'
  <2>1. \A x \in Slot : Counted(x)' <=> Counted(x)
    BY <1>22, <1>35, <1>37 DEF Counted
  <2> QED
    BY <1>0, <1>22, <1>38, <2>1 DEF Core, CountInv
<1>41. UnitInv'
  <2>1. \A v \in Used : Active(v) /\ UnitIs(v) => UnitIs(v)'
    BY <1>22, <1>24, <1>36, <1>38 DEF UnitIs, Object, ObjectOf, InFlight
  <2> QED
    BY <1>0, <1>22, <1>24, <1>37, <2>1 DEF Core, UnitInv
(* The draw call's last batch is not rendered while the search stands at it. *)
<1>42. ASSUME g >= n
       PROVE  d < currentDraw
  <2>1. d \in 0 .. currentDraw
    BY <1>6, <1>8 DEF UnitIs
  <2>2. SUFFICES ASSUME d = currentDraw PROVE FALSE
    BY <1>7, <2>1
  <2>3. drawCall[s].primitive >= n
    <3>1. PICK i \in Nat : f = i * b
      BY <1>13 DEF Starts
    <3>2. PICK j \in Nat : drawCall[s].primitive = j * b
      BY <1>0, <1>9, <1>11, References DEF Core, Starts
    <3>3. ~(j <= i)
      <4>1. j <= i => j * b <= i * b
        BY Multiples
      <4>2. i * b \in Nat /\ j * b \in Nat
        BY Multiples
      <4> QED
        BY <1>13, <3>1, <3>2, <4>1, <4>2
    <3>4. i < j => i * b + b <= j * b
      BY Multiples
    <3>5. j * b \in Nat
      BY Multiples
    <3> QED
      BY <1>26, <1>42, <3>1, <3>2, <3>3, <3>4, <3>5
  <2>4. Exhausted
    BY <1>9, <1>10, <2>2, <2>3 DEF Exhausted
  <2>5. PICK w \in Used : LastIn(w)
    <3>1. currentDraw < nextDraw
      BY <1>7, <2>2
    <3> QED
      BY <2>4, <3>1 DEF Batched, SearchInv
  <2>6. /\ Active(w) /\ UnitIs(w) /\ primitiveProgress[w].drawCall = d
        /\ primitiveProgress[w].first + primitiveProgress[w].count >= n
    BY <1>0, <1>9, <1>10, <2>2, <2>5 DEF LastIn, Core, UnitInv
  <2>7. Starts(primitiveProgress[w].first, b)
    BY <1>9, <1>11, <2>6 DEF UnitIs
  <2>8. PICK z \in Nat : z = primitiveProgress[w].first
    BY <2>7, Multiples DEF Starts
  <2>9. z < n /\ z + b >= n
    <3>1. z < n /\ primitiveProgress[w].count = IF n - z >= b THEN b ELSE n - z
      BY <1>9, <1>10, <1>11, <2>6, <2>8 DEF UnitIs
    <3> QED
      BY <2>6, <2>8, <3>1
  <2>10. z = f
    <3>1. PICK i \in Nat : f = i * b
      BY <1>13 DEF Starts
    <3>2. PICK j \in Nat : z = j * b
      BY <2>7, <2>8 DEF Starts
    <3>3. i < j => i * b + b <= j * b
      BY Multiples
    <3>4. j < i => j * b + b <= i * b
      BY Multiples
    <3>5. ~(i < j) /\ ~(j < i)
      BY <1>13, <1>26, <1>42, <2>9, <3>1, <3>2, <3>3, <3>4
    <3>6. i = j
      BY <3>5
    <3> QED
      BY <3>1, <3>2, <3>6
  <2>11. w = u
    BY <1>0, <1>6, <1>8, <1>12, <2>6, <2>8, <2>10 DEF Core, UnitInv
  <2> QED
    BY <1>1, <1>4, <2>5, <2>11 DEF LastIn, OnUnit
<1>43. ClusterInv'
  <2>1. ASSUME NEW x \in Used \ {c}
        PROVE  ClusterIs(x)'
    BY <1>0, <1>20, <1>22, <1>38 DEF Core, ClusterInv, ClusterIs, Object, ObjectOf, InFlight
  <2>2. ASSUME ~(g >= n)
        PROVE  ClusterIs(c)'
    <3>1. d \in 0 .. currentDraw /\ d # nextDraw
      BY <1>6, <1>7, <1>8 DEF UnitIs
    <3>2. PICK i \in Nat : f = i * b
      BY <1>13 DEF Starts
    <3>3. PICK j \in Nat : drawCall[s].primitive = j * b
      BY <1>0, <1>9, <1>11, References DEF Core, Starts
    <3>4. g = (i + 1) * b /\ i + 1 \in Nat
      <4>1. (i + 1) * b = i * b + b
        BY Multiples
      <4> QED
        BY <1>26, <2>2, <3>2, <4>1
    <3>5. Starts(g, b)
      BY <3>4 DEF Starts
    <3>6. g <= drawCall[s].primitive
      <4>1. ~(j <= i)
        <5>1. j <= i => j * b <= i * b
          BY Multiples
        <5>2. i * b \in Nat /\ j * b \in Nat
          BY Multiples
        <5> QED
          BY <1>13, <3>2, <3>3, <5>1, <5>2
      <4>2. i < j => i * b + b <= j * b
        BY Multiples
      <4>3. i * b \in Nat /\ j * b \in Nat
        BY Multiples
      <4> QED
        BY <1>26, <2>2, <3>2, <3>3, <4>1, <4>2, <4>3
    <3>7. pixelProgress'[c].drawCall = d /\ pixelProgress'[c].processed = g
      BY <1>21, <2>2
    <3>8. Object(pixelProgress[c].drawCall)' = drawCall[s] /\ InFlight(pixelProgress[c].drawCall)'
      <4>1. Object(d)' = drawCall[s] /\ InFlight(d)'
        BY <1>8, <1>9, <1>38
      <4> QED
        BY <3>7, <4>1 DEF Object, ObjectOf, InFlight
    <3>9. g < n
      BY <1>17, <2>2
    <3>10. /\ Starts(g, Object(pixelProgress[c].drawCall)'.batch)
           /\ g < Object(pixelProgress[c].drawCall)'.count
           /\ g <= Object(pixelProgress[c].drawCall)'.primitive
      BY <1>10, <1>11, <3>5, <3>6, <3>8, <3>9
    <3> QED
      BY <1>22, <3>1, <3>7, <3>8, <3>10 DEF ClusterIs
  <2>3. ASSUME g >= n
        PROVE  ClusterIs(c)'
    <3>1. e \in 0 .. currentDraw /\ e \in Nat
      BY <1>7, <1>16, <1>42, <2>3
    <3>2. pixelProgress'[c].drawCall = e /\ pixelProgress'[c].processed = 0
      BY <1>21, <2>3
    <3>3. ASSUME e < nextDraw
          PROVE  /\ InFlight(e) /\ Starts(0, Object(e).batch)
                 /\ 0 < Object(e).count /\ 0 <= Object(e).primitive
      <4>1. InFlight(e)
        <5>1. d < e /\ e \in 0 .. nextDraw - 1
          BY <1>7, <1>16, <3>1, <3>3
        <5> QED
          BY <1>0, <1>8, <5>1, RetiredInOrder
      <4>2. PICK y \in Slot : Object(e) = drawCall[y] /\ Open(y)
        BY <1>0, <1>16, <4>1, Flying
      <4>3. drawCall[y].batch \in Nat \ {0} /\ drawCall[y].count \in Nat \ {0}
            /\ drawCall[y].primitive \in Nat
        BY <1>0, <4>2, References DEF Core
      <4>4. Starts(0, drawCall[y].batch)
        <5>1. PICK k \in Nat \ {0} : k = drawCall[y].batch
          BY <4>3
        <5>2. 0 = 0 * k
          OBVIOUS
        <5> QED
          BY <5>1, <5>2 DEF Starts
      <4> QED
        BY <4>1, <4>2, <4>3, <4>4
    <3>4. Object(pixelProgress[c].drawCall)' = Object(e)
          /\ (InFlight(pixelProgress[c].drawCall)' <=> InFlight(e))
      <4>1. Object(e)' = Object(e) /\ (InFlight(e)' <=> InFlight(e))
        BY <1>38
      <4> QED
        BY <3>2, <4>1 DEF Object, ObjectOf, InFlight
    <3>5. e < nextDraw =>
             /\ InFlight(pixelProgress[c].drawCall)'
             /\ Starts(0, Object(pixelProgress[c].drawCall)'.batch)
             /\ 0 < Object(pixelProgress[c].drawCall)'.count
             /\ 0 <= Object(pixelProgress[c].drawCall)'.primitive
      BY <3>3, <3>4
    <3> QED
      BY <1>22, <3>1, <3>2, <3>5 DEF ClusterIs
  <2> QED
    BY <1>24, <2>1, <2>2, <2>3 DEF ClusterInv
<1>44. KeptInv'
  <2>1. ASSUME NEW y \in 0 .. nextDraw - 1, NEW x \in Used, pixelProgress[x].drawCall > y
        PROVE  pixelProgress'[x].drawCall > y
    BY <1>7, <1>16, <1>20, <1>21, <1>25, <2>1
  <2>2. ASSUME NEW y \in 0 .. nextDraw - 1, NEW z \in Nat, NEW x \in Used, ~NotPast(x, y, z)
        PROVE  ~NotPast(x, y, z)'
    BY <1>7, <1>27, <1>29, <2>2
  <2> QED
    BY <1>0, <1>22, <1>24, <1>37, <1>38, <2>1, <2>2 DEF Core, KeptInv
<1>45. FinishInv'
  <2>1. \A o \in Thread \ {t} : /\ pc'[o] \in Finishing <=> pc[o] \in Finishing
                                /\ pc'[o] \in Retiring <=> pc[o] \in Retiring
                                /\ pc'[o] = "releaseUnit" <=> pc[o] = "releaseUnit"
    BY <1>23
  <2>2. pc[t] \notin Retiring /\ pc'[t] \notin Retiring
    BY <1>1, <1>23 DEF Retiring
  <2>3. ASSUME NEW o \in Thread \ {t}, pc[o] \in Finishing
        PROVE  task[o].cluster \in Used \ {c}
    <3>1. InHand(o) /\ task[o].type = "PIXELS"
      BY <2>3 DEF InHand, Finishing, IInv, WorkerInv, Rendering
    <3> QED
      BY <1>0, <1>32, <2>3, <3>1 DEF Core, FinishInv
  <2>4. ASSUME NEW o \in Thread, pc'[o] \in Finishing
        PROVE  /\ task[o].cluster \in Used
               /\ Open(finishing'[o]) /\ drawCall[finishing'[o]].draw < nextDraw
               /\ NearTo(task[o].cluster, drawCall[finishing[o]].draw)'
    <3>1. CASE o = t
      <4>1. NearTo(c, d)'
        BY <1>7, <1>16, <1>21 DEF NearTo
      <4>2. drawCall'[finishing'[t]].draw = d /\ task'[t].cluster = c
        BY <1>3, <1>9, <1>22, <1>23
      <4>3. NearTo(task[t].cluster, drawCall[finishing[t]].draw)'
        BY <4>1, <4>2 DEF NearTo
      <4> QED
        BY <1>3, <1>7, <1>9, <1>23, <3>1, <4>3
    <3>2. CASE o # t
      <4>1. pc[o] \in Finishing /\ task[o].cluster \in Used \ {c} /\ finishing'[o] = finishing[o]
        BY <1>23, <2>1, <2>3, <2>4, <3>2
      <4>2. /\ Open(finishing[o]) /\ drawCall[finishing[o]].draw < nextDraw
            /\ NearTo(task[o].cluster, drawCall[finishing[o]].draw)
        BY <1>0, <4>1 DEF Core, FinishInv
      <4> QED
        BY <1>20, <1>22, <4>1, <4>2 DEF NearTo
    <3> QED
      BY <3>1, <3>2
  <2>5. ASSUME NEW o \in Thread, pc'[o] = "releaseUnit"
        PROVE  /\ task[o].unit \in Used
               /\ primitiveProgress[task[o].unit].references > 0
               /\ ~NotPast(task[o].cluster, primitiveProgress[task[o].unit].drawCall,
                           primitiveProgress[task[o].unit].first)'
               /\ finishing'[o] = ObjectOf(primitiveProgress[task[o].unit].drawCall)
    <3>1. CASE o = t
      <4>1. ~NotPast(task[t].cluster, primitiveProgress[task[t].unit].drawCall,
                     primitiveProgress[task[t].unit].first)'
        BY <1>3, <1>4, <1>8, <1>12, <1>22, <1>28 DEF NotPast
      <4> QED
        BY <1>4, <1>5, <1>8, <1>9, <1>23, <3>1, <4>1
    <3>2. CASE o # t
      <4>1. pc[o] = "releaseUnit" /\ pc[o] \in Finishing
        BY <2>1, <2>5, <3>2 DEF Finishing
      <4>2. task[o].cluster \in Used \ {c} /\ finishing'[o] = finishing[o]
        BY <1>23, <2>3, <3>2, <4>1
      <4>3. /\ task[o].unit \in Used
            /\ primitiveProgress[task[o].unit].references > 0
            /\ ~NotPast(task[o].cluster, primitiveProgress[task[o].unit].drawCall,
                        primitiveProgress[task[o].unit].first)
            /\ finishing[o] = ObjectOf(primitiveProgress[task[o].unit].drawCall)
        BY <1>0, <4>1 DEF Core, FinishInv
      <4> QED
        BY <1>20, <1>22, <4>2, <4>3 DEF NotPast
    <3> QED
      BY <3>1, <3>2
  <2>6. \A o \in Thread : pc'[o] \in Retiring => drawCall[finishing'[o]].references = 0
    BY <1>0, <1>23, <2>1, <2>2 DEF Core, FinishInv
  <2>7. \A o, v \in Thread : pc'[o] \in Retiring /\ pc'[v] \in Retiring /\ o # v
                               => finishing'[o] # finishing'[v]
    BY <1>0, <1>23, <2>1, <2>2 DEF Core, FinishInv
  <2>8. \A x \in Slot : drawCall[x].references = 0 =>
           \E o \in Thread : pc'[o] \in Retiring /\ finishing'[o] = x
    BY <1>0, <1>23, <2>1, <2>2 DEF Core, FinishInv
  <2> QED
    BY <1>22, <1>24, <1>38, <2>4, <2>5, <2>6, <2>7, <2>8 DEF FinishInv, Open, ObjectOf
<1>46. ASSUME NEW x, Renders(x), x.type = "PIXELS" => x.cluster # c
       PROVE  Renders(x)'
  <2>1. x.type = "PIXELS" => x.cluster \in Used \ {c}
    BY <1>46 DEF Renders
  <2> QED
    BY <1>20, <1>22, <1>24, <1>46, <2>1 DEF Renders
<1>47. \A x : SetsUp(x)' <=> SetsUp(x)
  BY <1>24 DEF SetsUp
<1>48. WorkIs'
  <2>1. ASSUME NEW i \in DOMAIN taskQueue'
        PROVE  Renders(taskQueue[i])' /\ SetsUp(taskQueue[i])'
    <3>1. PICK x : x = taskQueue[i]
      OBVIOUS
    <3>2. Renders(x)' /\ SetsUp(x)'
      BY <1>22, <1>33, <1>46, <1>47, <2>1, <3>1 DEF Batched, WorkIs
    <3> QED
      BY <1>22, <3>1, <3>2 DEF Renders, SetsUp
  <2>2. ASSUME NEW o \in Thread
        PROVE  /\ pc'[o] \in {"wakeup", "pixels", "progress"} => Renders(task[o])'
               /\ pc'[o] \in {"wakeup", "primitives"} => SetsUp(task[o])'
    <3>1. PICK x : x = task[o]
      OBVIOUS
    <3>2. pc'[o] \in {"wakeup", "pixels", "progress", "primitives"} => pc'[o] = pc[o] /\ o # t
      BY <1>23
    <3>3. pc[o] \in {"wakeup", "pixels", "progress"} /\ o # t => Renders(x)'
      <4>1. pc[o] \in {"wakeup", "pixels", "progress"} => Renders(x) /\ InHand(o)
        BY <3>1 DEF Batched, WorkIs, InHand
      <4> QED
        BY <1>32, <1>46, <3>1, <4>1
    <3>4. pc[o] \in {"wakeup", "primitives"} => SetsUp(x)'
      BY <1>47, <3>1 DEF Batched, WorkIs
    <3> QED
      BY <1>22, <3>1, <3>2, <3>3, <3>4 DEF Renders, SetsUp
  <2> QED
    BY <2>1, <2>2 DEF WorkIs
<1>49. SearchInv'
  <2>1. ASSUME NEW v \in Used, LastIn(v)
        PROVE  LastIn(v)'
    <3>1. ASSUME NEW o \in Thread, pc'[o] \in {"wakeup", "pixels", "progress", "releaseUnit"}
          PROVE  ~OnUnit(task[o], v)
      BY <1>1, <1>23, <2>1, <3>1 DEF LastIn
    <3>2. \A o \in Thread : pc[o] \in {"findPixels", "findPrimitives"} => pc'[o] = pc[o]
      BY <1>1, <1>23
    <3>3. Object(currentDraw)' = Object(currentDraw)
      BY <1>22 DEF Object, ObjectOf
    <3> QED
      BY <1>22, <1>37, <2>1, <3>1, <3>2, <3>3 DEF LastIn, OnUnit
  <2>2. \A o \in Thread : pc'[o] = "findPrimitives" => pc[o] = "findPrimitives"
    BY <1>23
  <2>3. Exhausted' <=> Exhausted
    BY <1>22 DEF Exhausted, ObjectOf
  <2> QED
    BY <1>22, <1>24, <2>1, <2>2, <2>3 DEF Batched, SearchInv
<1>50. Places'
  BY <1>18, <1>22 DEF Batched, Places
<1> QED
  BY <1>39, <1>40, <1>41, <1>43, <1>44, <1>45, <1>48, <1>49, <1>50 DEF Batched

-----------------------------------------------------------------------------
(* Workers: references are given up                                         *)

\* The reference of a cluster is given up, and with the last one the unit.
LEMMA ReleaseUnitBatched ==
    ASSUME IInv, Data, Batched, NEW t \in Thread, ReleaseUnit(t)
    PROVE  Batched'
<1>0. Core
  BY CoreHolds
<1>1. pc[t] = "releaseUnit" /\ task[t].type = "PIXELS"
  BY DEF ReleaseUnit, IInv, WorkerInv, Rendering
<1>2. PICK c \in Used : c = task[t].cluster
  BY <1>0, <1>1 DEF Core, FinishInv, Finishing
<1>3. PICK u \in Used : u = task[t].unit
  BY <1>0, <1>1 DEF Core, FinishInv
<1>4. Used \subseteq Unit /\ u \in Unit
  BY <1>0, UsedUnits DEF Core
<1>5. PICK r \in Int : r = primitiveProgress[u].references /\ r > 0
  BY <1>0, <1>1, <1>3, ProgressTyped DEF Core, FinishInv
<1>6. Active(u) /\ UnitIs(u)
  BY <1>0, <1>5 DEF Core, UnitInv, Active
<1>7. nextDraw \in Nat /\ currentDraw \in Nat
  BY <1>0 DEF Core, KeptInv, Data
<1>8. PICK d \in 0 .. nextDraw - 1 : d = primitiveProgress[u].drawCall /\ InFlight(d)
  BY <1>6, <1>7 DEF UnitIs
<1>9. PICK s \in Slot : s = ObjectOf(d) /\ Open(s) /\ Object(d) = drawCall[s]
                        /\ drawCall[s].draw = d
  BY <1>0, <1>7, <1>8, Flying
<1>10. PICK f \in Int : f = primitiveProgress[u].first
  BY <1>0, ProgressTyped DEF Core
<1>11. finishing[t] = s /\ ~NotPast(c, d, f)
  BY <1>0, <1>1, <1>2, <1>3, <1>8, <1>9, <1>10 DEF Core, FinishInv
<1>12. PICK q \in Int : q = r - 1
  OBVIOUS
<1>13. PICK l \in {"releaseDraw", "finished"} : l = IF r = 1 THEN "releaseDraw" ELSE "finished"
  OBVIOUS
<1>14. /\ pc' = [pc EXCEPT ![t] = l]
       /\ UNCHANGED <<appVars, drawList, drawCall, currentDraw, nextDraw, unitCount, task,
                      finishing, taskQueue, pixelProgress, batchOf>>
  BY <1>3, <1>5, <1>13 DEF ReleaseUnit, Goto, drawVars, dataVars
<1>15. primitiveProgress' = [primitiveProgress EXCEPT ![u] =
                                [primitiveProgress[u] EXCEPT !.references = q]]
  <2>1. primitiveProgress' = [primitiveProgress EXCEPT ![u].references = r - 1]
    BY <1>3, <1>5 DEF ReleaseUnit
  <2> QED
    BY <1>12, <2>1
<1>16. /\ primitiveProgress'[u].references = q
       /\ primitiveProgress'[u].drawCall = d /\ primitiveProgress'[u].first = f
       /\ primitiveProgress'[u].count = primitiveProgress[u].count
       /\ \A v \in Unit \ {u} : primitiveProgress'[v] = primitiveProgress[v]
  BY <1>0, <1>4, <1>8, <1>10, <1>15 DEF Core, Types
<1>17. pc'[t] = l /\ \A o \in Thread \ {t} : pc'[o] = pc[o]
  BY <1>14 DEF IInv, Types
<1>18. Used' = Used
  BY <1>14 DEF Used
<1>19. \A x, y, z : NotPast(x, y, z)' <=> NotPast(x, y, z)
  BY <1>14 DEF NotPast
<1>20. \A o \in Thread \ {t} : InHand(o) /\ task[o].type = "PIXELS" => task[o].cluster # c
  BY <1>1, <1>2 DEF IInv, TasksDistinct, SameWork, InHand
<1>21. /\ \A x : ObjectOf(x)' = ObjectOf(x) /\ Object(x)' = Object(x)
       /\ \A x : InFlight(x)' <=> InFlight(x)
       /\ \A x : Open(x)' <=> Open(x)
  BY <1>14 DEF ObjectOf, Object, InFlight, Open
(* The unit is not referred to for cluster c any more.                      *)
<1>22. \A o \in Thread : \A x, v :
          Releases(o, x, v)' <=> Releases(o, x, v) /\ o # t
  BY <1>13, <1>14, <1>17 DEF Releases
<1>23. \A o \in Thread : \A x, v : Releases(o, x, v) /\ o # t => x # c
  BY <1>20 DEF Releases, InHand, IInv, WorkerInv, Rendering
<1>24. \A x, v : Releases(t, x, v) <=> x = c /\ v = u
  BY <1>1, <1>2, <1>3 DEF Releases
<1>25. Owing(u)' = Owing(u) \ {c} /\ c \in Owing(u)
  <2>1. ASSUME NEW x \in Used
        PROVE  Owes(x, u)' <=> Owes(x, u) /\ x # c
    <3>1. NotPast(x, primitiveProgress[u].drawCall, primitiveProgress[u].first)'
             <=> NotPast(x, d, f)
      BY <1>16, <1>19 DEF NotPast
    <3> QED
      BY <1>8, <1>10, <1>11, <1>22, <1>23, <1>24, <3>1 DEF Owes
  <2>2. c \in Owing(u)
    BY <1>24 DEF Owing, Owes
  <2> QED
    BY <1>18, <2>1, <2>2 DEF Owing
<1>26. \A v \in Used \ {u} : Owing(v)' = Owing(v)
  <2>1. ASSUME NEW v \in Used \ {u}, NEW x \in Used
        PROVE  Owes(x, v)' <=> Owes(x, v)
    BY <1>4, <1>16, <1>19, <1>22, <1>24 DEF Owes, NotPast
  <2> QED
    BY <1>18, <2>1 DEF Owing
<1>27. r = Cardinality(Owing(u)) /\ IsFiniteSet(Owing(u))
  BY <1>0, <1>5, <1>6, Counts DEF UnitIs, Core
<1>28. Cardinality(Owing(u) \ {c}) = q /\ IsFiniteSet(Owing(u) \ {c})
  <2>1. /\ IsFiniteSet(Owing(u) \ {c})
        /\ Cardinality(Owing(u) \ {c}) =
              IF c \in Owing(u) THEN Cardinality(Owing(u)) - 1 ELSE Cardinality(Owing(u))
    BY <1>27, FS_RemoveElement
  <2> QED
    BY <1>12, <1>25, <1>27, <2>1
<1>29. q >= 0 /\ (q = 0 <=> Owing(u) \ {c} = {}) /\ (q = 0 <=> r = 1)
  <2>1. q = 0 <=> Owing(u) \ {c} = {}
    BY <1>28, FS_EmptySet
  <2> QED
    BY <1>5, <1>12, <2>1
<1>30. /\ \A v \in Unit \ {u} : Active(v)' <=> Active(v)
       /\ Active(u)' <=> q # 0
  BY <1>16 DEF Active
<1>31. ObjectInv'
  BY <1>14, ObjectsElsewhere DEF Batched
(* Its last reference is given up by the worker that goes on to the draw    *)
(* call's.                                                                  *)
<1>32. CountInv'
  <2>1. CASE q # 0
    <3>1. \A y : UnitsOf(y)' = UnitsOf(y)
      <4>1. \A v \in Used : /\ Active(v)' <=> Active(v)
                            /\ primitiveProgress'[v].drawCall = primitiveProgress[v].drawCall
        BY <1>4, <1>6, <1>8, <1>16, <1>30, <2>1
      <4> QED
        BY <1>18, <4>1 DEF UnitsOf
    <3>2. \A x : Releasing(x)' = Releasing(x)
      <4>1. pc'[t] # "releaseDraw" /\ pc[t] # "releaseDraw"
        BY <1>1, <1>13, <1>17, <1>29, <2>1
      <4> QED
        BY <1>14, <1>17, <4>1 DEF Releasing
    <3>3. \A x \in Slot : Counted(x)' <=> Counted(x)
      BY <1>14, <3>1, <3>2 DEF Counted
    <3> QED
      BY <1>0, <1>14, <1>21, <3>3 DEF Core, CountInv
  <2>2. CASE q = 0
    <3>1. pc'[t] = "releaseDraw"
      BY <1>13, <1>17, <1>29, <2>2
    <3>2. UnitsOf(d)' = UnitsOf(d) \ {u} /\ u \in UnitsOf(d)
      <4>1. u \in UnitsOf(d)
        BY <1>6, <1>8 DEF UnitsOf
      <4>2. ASSUME NEW v \in Used
            PROVE  v \in UnitsOf(d)' <=> v \in UnitsOf(d) /\ v # u
        BY <1>4, <1>16, <1>18, <1>30, <2>2, <4>2 DEF UnitsOf
      <4>3. UnitsOf(d)' \subseteq Used /\ UnitsOf(d) \subseteq Used
        BY <1>18 DEF UnitsOf
      <4> QED
        BY <4>1, <4>2, <4>3
    <3>3. \A y : y # d => UnitsOf(y)' = UnitsOf(y)
      <4>1. ASSUME NEW y, y # d, NEW v \in Used
            PROVE  v \in UnitsOf(y)' <=> v \in UnitsOf(y)
        BY <1>4, <1>8, <1>16, <1>18, <1>30, <4>1 DEF UnitsOf
      <4>2. \A y : UnitsOf(y)' \subseteq Used /\ UnitsOf(y) \subseteq Used
        BY <1>18 DEF UnitsOf
      <4> QED
        BY <4>1, <4>2
    <3>4. Releasing(s)' = Releasing(s) \cup {t} /\ t \notin Releasing(s)
      BY <1>1, <1>11, <1>14, <1>17, <3>1 DEF Releasing
    <3>5. \A x : x # s => Releasing(x)' = Releasing(x)
      BY <1>1, <1>11, <1>14, <1>17, <3>1 DEF Releasing
    <3>6. Cardinality(UnitsOf(d) \ {u}) = Cardinality(UnitsOf(d)) - 1
      <4>1. IsFiniteSet(UnitsOf(d))
        BY <1>0, Counts DEF Core
      <4>2. Cardinality(UnitsOf(d) \ {u}) = IF u \in UnitsOf(d) THEN Cardinality(UnitsOf(d)) - 1
                                            ELSE Cardinality(UnitsOf(d))
        BY <4>1, FS_RemoveElement
      <4> QED
        BY <3>2, <4>2
    <3>7. Cardinality(Releasing(s) \cup {t}) = Cardinality(Releasing(s)) + 1
      <4>1. IsFiniteSet(Releasing(s))
        BY <1>0, Counts DEF Core
      <4>2. Cardinality(Releasing(s) \cup {t}) = IF t \in Releasing(s) THEN Cardinality(Releasing(s))
                                                 ELSE Cardinality(Releasing(s)) + 1
        BY <4>1, FS_AddElement
      <4> QED
        BY <3>4, <4>2
    <3>8. Counted(s) => Counted(s)'
      <4>1. PICK x \in Nat : x = Cardinality(UnitsOf(d))
        BY <1>0, Counts DEF Core
      <4>2. PICK y \in Nat : y = Cardinality(Releasing(s))
        BY <1>0, Counts DEF Core
      <4>3. Cardinality(UnitsOf(d)') = x - 1 /\ Cardinality(Releasing(s)') = y + 1
        BY <3>2, <3>4, <3>6, <3>7, <4>1, <4>2
      <4>4. PICK N : N = Batches(<<drawCall[s].count, drawCall[s].batch>>)
        OBVIOUS
      <4>5. N \in Nat
        <5>1. drawCall[s].count \in Nat \ {0} /\ drawCall[s].batch \in Nat \ {0}
          BY <1>0, <1>9, References DEF Core
        <5> QED
          BY <4>4, <5>1, BatchCount
      <4>6. ASSUME NEW k \in Nat
            PROVE  N - k + (x - 1) + (y + 1) = N - k + x + y
        BY <4>5
      <4>7. drawCall'[s] = drawCall[s] /\ drawCall[s].draw = d
        BY <1>9, <1>14
      <4>8. UnitsOf(drawCall[s].draw)' = UnitsOf(d)'
        BY <4>7 DEF UnitsOf
      <4>9. ASSUME NEW k \in Nat
            PROVE  N - k + Cardinality(UnitsOf(drawCall[s].draw)') + Cardinality(Releasing(s)')
                     = N - k + Cardinality(UnitsOf(d)) + Cardinality(Releasing(s))
        BY <4>1, <4>2, <4>3, <4>6, <4>8
      <4> QED
        BY <4>4, <4>7, <4>9 DEF Counted
    <3>9. ASSUME NEW x \in Slot, x # s, Open(x), Counted(x)
          PROVE  Counted(x)'
      <4>1. drawCall[x].draw # d
        BY <1>0, <1>9, <3>9 DEF Core, ObjectInv
      <4>2. UnitsOf(drawCall[x].draw)' = UnitsOf(drawCall[x].draw)
        <5>1. PICK y : y = drawCall[x].draw /\ y = drawCall'[x].draw
          BY <1>14
        <5>2. UnitsOf(y)' = UnitsOf(y)
          BY <3>3, <4>1, <5>1
        <5> QED
          BY <5>1, <5>2 DEF UnitsOf
      <4> QED
        BY <1>14, <3>5, <3>9, <4>2 DEF Counted
    <3> QED
      BY <1>0, <1>14, <1>21, <3>8, <3>9 DEF Core, CountInv
  <2> QED
    BY <2>1, <2>2
<1>33. UnitInv'
  <2>1. ASSUME NEW v \in Used \ {u}, UnitIs(v)
        PROVE  UnitIs(v)'
    <3>1. primitiveProgress'[v] = primitiveProgress[v] /\ Owing(v)' = Owing(v)
      BY <1>4, <1>16, <1>26
    <3> QED
      BY <1>14, <1>18, <1>21, <2>1, <3>1 DEF UnitIs, Object, ObjectOf, InFlight
  <2>2. ASSUME q # 0
        PROVE  UnitIs(u)'
    <3>1. q > 0 /\ q = Cardinality(Owing(u)')
      BY <1>25, <1>28, <1>29, <2>2
    <3>2. Object(primitiveProgress[u].drawCall)' = drawCall[s]
          /\ InFlight(primitiveProgress[u].drawCall)'
      <4>1. Object(d)' = drawCall[s] /\ InFlight(d)'
        BY <1>8, <1>9, <1>21
      <4> QED
        BY <1>16, <4>1 DEF Object, ObjectOf, InFlight
    <3>3. /\ d \in 0 .. currentDraw /\ d < nextDraw
          /\ Starts(f, drawCall[s].batch) /\ f < drawCall[s].count /\ f < drawCall[s].primitive
          /\ primitiveProgress[u].count = IF drawCall[s].count - f >= drawCall[s].batch
                                          THEN drawCall[s].batch ELSE drawCall[s].count - f
          /\ batchOf[u] = [draw |-> d, first |-> f]
      BY <1>5, <1>6, <1>8, <1>9, <1>10 DEF UnitIs
    <3> QED
      BY <1>14, <1>16, <3>1, <3>2, <3>3 DEF UnitIs
  <2>3. ASSUME NEW v \in Used, Active(v)'
        PROVE  UnitIs(v)'
    BY <1>0, <1>4, <1>30, <2>1, <2>2, <2>3 DEF Core, UnitInv
  <2>4. ASSUME NEW v \in Used, NEW w \in Used, Active(v)', Active(w)', v # w
        PROVE  \/ primitiveProgress'[v].drawCall # primitiveProgress'[w].drawCall
               \/ primitiveProgress'[v].first # primitiveProgress'[w].first
    <3>1. Active(v) /\ Active(w)
      BY <1>4, <1>6, <1>30, <2>4
    <3>2. \A x \in Used : primitiveProgress'[x].drawCall = primitiveProgress[x].drawCall
                          /\ primitiveProgress'[x].first = primitiveProgress[x].first
      BY <1>4, <1>8, <1>10, <1>16
    <3> QED
      BY <1>0, <2>4, <3>1, <3>2 DEF Core, UnitInv
  <2>5. \A v \in Unit \ Used : ~Active(v)'
    BY <1>0, <1>30 DEF Core, UnitInv
  <2> QED
    BY <1>18, <2>3, <2>4, <2>5 DEF UnitInv
<1>34. ClusterInv'
  BY <1>0, <1>14, <1>18, <1>21 DEF Core, ClusterInv, ClusterIs, Object, ObjectOf, InFlight
<1>35. KeptInv'
  <2>1. ASSUME NEW y \in 0 .. nextDraw - 1, NEW z \in Nat, NEW v \in Used, Holds(v, y, z)
        PROVE  \/ Holds(v, y, z)'
               \/ \A x \in Used : ~NotPast(x, y, z)
    <3>1. CASE v # u \/ q # 0
      BY <1>4, <1>6, <1>8, <1>10, <1>16, <1>30, <2>1, <3>1 DEF Holds
    <3>2. CASE v = u /\ q = 0
      <4>1. y = d /\ z = f
        BY <1>8, <1>10, <2>1, <3>2 DEF Holds
      <4>2. ASSUME NEW x \in Used
            PROVE  ~NotPast(x, d, f)
        <5>1. x \in Owing(u) => x = c
          BY <1>29, <3>2
        <5>2. NotPast(x, d, f) => x \in Owing(u)
          BY <1>8, <1>10 DEF Owing, Owes
        <5> QED
          BY <1>11, <5>1, <5>2
      <4> QED
        BY <4>1, <4>2
    <3> QED
      BY <3>1, <3>2
  <2> QED
    BY <1>0, <1>14, <1>18, <1>19, <1>21, <2>1 DEF Core, KeptInv
<1>36. FinishInv'
  <2>1. \A o \in Thread \ {t} : /\ pc'[o] \in Finishing <=> pc[o] \in Finishing
                                /\ pc'[o] \in Retiring <=> pc[o] \in Retiring
                                /\ pc'[o] = "releaseUnit" <=> pc[o] = "releaseUnit"
    BY <1>17
  <2>2. pc[t] \notin Retiring /\ pc'[t] \notin Retiring /\ pc'[t] # "releaseUnit"
        /\ pc[t] \in Finishing
    BY <1>1, <1>13, <1>17 DEF Retiring, Finishing
  <2>3. ASSUME NEW o \in Thread, pc'[o] \in Finishing
        PROVE  /\ task[o].cluster \in Used
               /\ Open(finishing[o]) /\ drawCall[finishing[o]].draw < nextDraw
               /\ NearTo(task[o].cluster, drawCall[finishing[o]].draw)'
    <3>1. pc[o] \in Finishing
      BY <2>1, <2>2, <2>3
    <3> QED
      BY <1>0, <1>14, <3>1 DEF Core, FinishInv, NearTo
  <2>4. ASSUME NEW o \in Thread, pc'[o] = "releaseUnit"
        PROVE  /\ task[o].unit \in Used
               /\ primitiveProgress'[task[o].unit].references > 0
               /\ ~NotPast(task[o].cluster, primitiveProgress[task[o].unit].drawCall,
                           primitiveProgress[task[o].unit].first)'
               /\ finishing[o] = ObjectOf(primitiveProgress'[task[o].unit].drawCall)
    <3>1. o # t /\ pc[o] = "releaseUnit"
      BY <2>1, <2>2, <2>4
    <3>2. /\ task[o].unit \in Used
          /\ primitiveProgress[task[o].unit].references > 0
          /\ ~NotPast(task[o].cluster, primitiveProgress[task[o].unit].drawCall,
                      primitiveProgress[task[o].unit].first)
          /\ finishing[o] = ObjectOf(primitiveProgress[task[o].unit].drawCall)
          /\ task[o].cluster \in Used
      BY <1>0, <3>1 DEF Core, FinishInv, Finishing
    <3>3. PICK v \in Used : v = task[o].unit
      BY <3>2
    <3>4. PICK x \in Used : x = task[o].cluster
      BY <3>2
    <3>5. /\ primitiveProgress'[v].drawCall = primitiveProgress[v].drawCall
          /\ primitiveProgress'[v].first = primitiveProgress[v].first
      BY <1>4, <1>8, <1>10, <1>16
    <3>6. primitiveProgress'[v].references > 0
      <4>1. CASE v = u
        <5>1. Releases(o, x, u)
          BY <3>1, <3>3, <3>4, <4>1 DEF Releases
        <5>2. x \in Owing(u) \ {c}
          BY <1>23, <3>1, <5>1 DEF Owing, Owes
        <5> QED
          BY <1>16, <1>29, <4>1, <5>2
      <4>2. CASE v # u
        BY <1>4, <1>16, <3>2, <3>3, <4>2
      <4> QED
        BY <4>1, <4>2
    <3>7. ~NotPast(task[o].cluster, primitiveProgress[task[o].unit].drawCall,
                   primitiveProgress[task[o].unit].first)'
      BY <1>14, <3>2, <3>3, <3>5 DEF NotPast
    <3> QED
      BY <3>2, <3>3, <3>5, <3>6, <3>7
  <2>5. \A o \in Thread : pc'[o] \in Retiring => drawCall[finishing[o]].references = 0
    BY <1>0, <2>1, <2>2 DEF Core, FinishInv
  <2>6. \A o, v \in Thread : pc'[o] \in Retiring /\ pc'[v] \in Retiring /\ o # v
                               => finishing[o] # finishing[v]
    BY <1>0, <2>1, <2>2 DEF Core, FinishInv
  <2>7. \A x \in Slot : drawCall[x].references = 0 =>
           \E o \in Thread : pc'[o] \in Retiring /\ finishing[o] = x
    BY <1>0, <2>1, <2>2 DEF Core, FinishInv
  <2> QED
    BY <1>14, <1>18, <1>21, <2>3, <2>4, <2>5, <2>6, <2>7 DEF FinishInv, Open, ObjectOf
(* The work of other clusters with the unit keeps it in use.                *)
<1>37. ASSUME NEW x, Renders(x)
       PROVE  Renders(x)'
  <2>1. SUFFICES ASSUME x.type = "PIXELS"
                 PROVE  Renders(x)'
    BY DEF Renders
  <2>2. PICK v \in Used : v = x.unit
    BY <1>37, <2>1 DEF Renders
  <2>3. PICK y \in Used : y = x.cluster
    BY <1>37, <2>1 DEF Renders
  <2>4. CASE v # u
    BY <1>4, <1>14, <1>16, <1>18, <1>37, <2>2, <2>4 DEF Renders
  <2>5. CASE v = u
    <3>1. pixelProgress[y].drawCall = d /\ pixelProgress[y].processed = f
      BY <1>8, <1>10, <1>37, <2>1, <2>2, <2>3, <2>5 DEF Renders
    <3>2. NotPast(y, d, f)
      BY <3>1 DEF NotPast
    <3>3. y \in Owing(u) \ {c}
      BY <1>8, <1>10, <1>11, <3>2 DEF Owing, Owes
    <3>4. q > 0
      BY <1>29, <3>3
    <3> QED
      BY <1>14, <1>16, <1>18, <2>2, <2>3, <2>5, <3>1, <3>4 DEF Renders
  <2> QED
    BY <2>4, <2>5
<1>38. WorkIs'
  <2>1. \A x : SetsUp(x)' <=> SetsUp(x)
    BY <1>18 DEF SetsUp
  <2>2. ASSUME NEW i \in DOMAIN taskQueue'
        PROVE  Renders(taskQueue[i])' /\ SetsUp(taskQueue[i])'
    <3>1. PICK x : x = taskQueue[i]
      OBVIOUS
    <3>2. Renders(x)' /\ SetsUp(x)'
      BY <1>14, <1>37, <2>1, <2>2, <3>1 DEF Batched, WorkIs
    <3> QED
      BY <1>14, <3>1, <3>2 DEF Renders, SetsUp
  <2>3. ASSUME NEW o \in Thread
        PROVE  /\ pc'[o] \in {"wakeup", "pixels", "progress"} => Renders(task[o])'
               /\ pc'[o] \in {"wakeup", "primitives"} => SetsUp(task[o])'
    <3>1. PICK x : x = task[o]
      OBVIOUS
    <3>2. pc'[o] \in {"wakeup", "pixels", "progress", "primitives"} => pc'[o] = pc[o]
      BY <1>13, <1>17
    <3>3. pc[o] \in {"wakeup", "pixels", "progress"} => Renders(x)'
      BY <1>37, <3>1 DEF Batched, WorkIs
    <3>4. pc[o] \in {"wakeup", "primitives"} => SetsUp(x)'
      BY <2>1, <3>1 DEF Batched, WorkIs
    <3> QED
      BY <1>14, <3>1, <3>2, <3>3, <3>4 DEF Renders, SetsUp
  <2> QED
    BY <2>2, <2>3 DEF WorkIs
<1>39. SearchInv'
  <2>1. ASSUME NEW v \in Used, LastIn(v)
        PROVE  LastIn(v)'
    <3>1. v # u
      BY <1>1, <1>3, <2>1 DEF LastIn, OnUnit
    <3>2. primitiveProgress'[v] = primitiveProgress[v]
      BY <1>4, <1>16, <3>1
    <3>3. \A o \in Thread : pc'[o] \in {"wakeup", "pixels", "progress", "releaseUnit"}
                               => ~OnUnit(task[o], v)
      BY <1>13, <1>17, <2>1 DEF LastIn
    <3>4. \A o \in Thread : pc[o] \in {"findPixels", "findPrimitives"} => pc'[o] = pc[o]
      BY <1>1, <1>17
    <3>5. Object(currentDraw)' = Object(currentDraw)
      BY <1>14 DEF Object, ObjectOf
    <3> QED
      BY <1>14, <2>1, <3>2, <3>3, <3>4, <3>5 DEF LastIn, OnUnit, Active
  <2>2. \A o \in Thread : pc'[o] = "findPrimitives" => pc[o] = "findPrimitives"
    BY <1>13, <1>17
  <2>3. Exhausted' <=> Exhausted
    BY <1>14 DEF Exhausted, ObjectOf
  <2> QED
    BY <1>14, <1>18, <2>1, <2>2, <2>3 DEF Batched, SearchInv
<1>40. Places'
  BY <1>14 DEF Batched, Places
<1> QED
  BY <1>31, <1>32, <1>33, <1>34, <1>35, <1>36, <1>38, <1>39, <1>40 DEF Batched

(* A worker goes on finishing a draw call, of which no more than the count  *)
(* of references changes.                                                   *)
RefersOnly(t) ==
    /\ UNCHANGED <<appVars, drawList, currentDraw, nextDraw, unitCount, task, finishing,
                   taskQueue, primitiveProgress, pixelProgress, batchOf>>
    /\ pc[t] \in {"releaseDraw", "retire"}
    /\ pc'[t] \in {"retire", "free", "finished"}
    /\ \A o \in Thread \ {t} : pc'[o] = pc[o]
    /\ \A s \in Slot : /\ drawCall'[s].draw = drawCall[s].draw
                       /\ drawCall'[s].primitive = drawCall[s].primitive
                       /\ drawCall'[s].count = drawCall[s].count
                       /\ drawCall'[s].batch = drawCall[s].batch
                       /\ Open(s)' <=> Open(s)

LEMMA RefersOnlyStep ==
    ASSUME IInv, Data, Batched, NEW t \in Thread, RefersOnly(t), CountInv',
           \A o \in Thread : pc'[o] \in Retiring => drawCall'[finishing[o]].references = 0,
           \A o, v \in Thread : pc'[o] \in Retiring /\ pc'[v] \in Retiring /\ o # v
                                   => finishing[o] # finishing[v],
           \A s \in Slot : drawCall'[s].references = 0 =>
              \E o \in Thread : pc'[o] \in Retiring /\ finishing[o] = s
    PROVE  Batched'
<1> USE DEF RefersOnly
<1>0. Core
  BY CoreHolds
<1>1. Used' = Used /\ 0 \in Int
  BY DEF Used
<1>2. /\ \A x, y, z : NotPast(x, y, z)' <=> NotPast(x, y, z)
      /\ \A v : Active(v)' <=> Active(v)
      /\ \A v, y, z : Holds(v, y, z)' <=> Holds(v, y, z)
  BY DEF NotPast, Active, Holds
<1>3. \A v : Owing(v)' = Owing(v)
  <2>1. \A o \in Thread : \A x, v : Releases(o, x, v)' <=> Releases(o, x, v)
    BY DEF Releases
  <2> QED
    BY <1>1, <1>2, <2>1 DEF Owing, Owes
<1>4. \A y : ObjectOf(y)' = ObjectOf(y)
  BY DEF ObjectOf
<1>5. ASSUME NEW y \in Int
      PROVE  /\ Object(y)'.count = Object(y).count /\ Object(y)'.batch = Object(y).batch
             /\ Object(y)'.primitive = Object(y).primitive
             /\ InFlight(y)' <=> InFlight(y)
  <2>1. ObjectOf(y) \in Slot
    BY ObjectIs
  <2> QED
    BY <1>4, <2>1 DEF Object, InFlight, Open
<1>6. nextDraw \in Int /\ currentDraw \in Int
  BY DEF Data
<1>7. ObjectInv'
  <2>1. \A s \in Slot : Open(s)' => Open(s)
    OBVIOUS
  <2>2. \A s \in Slot : ObjectOf(drawCall[s].draw)' = ObjectOf(drawCall[s].draw)
    BY DEF ObjectOf
  <2>3. appPc' = "publish" => InFlight(nextDraw)'
    <3>1. PICK y \in Int : y = nextDraw
      BY <1>6
    <3>2. appPc = "publish" => InFlight(y)'
      BY <1>5, <3>1 DEF Batched, ObjectInv
    <3> QED
      BY <3>1, <3>2 DEF appVars, InFlight, Object, ObjectOf
  <2>4. appPc' = "fill" => ~Open(appIndex)'
    <3>1. appPc = "fill" => appIndex \in Slot /\ ~Open(appIndex)
      BY DEF Batched, ObjectInv, Data
    <3> QED
      BY <3>1 DEF appVars, Open
  <2>5. ObjectOf(nextDraw)' = ObjectOf(nextDraw)
    BY DEF ObjectOf
  <2> QED
    BY <2>1, <2>2, <2>3, <2>4, <2>5 DEF Batched, ObjectInv, appVars
<1>8. UnitInv'
  <2>1. ASSUME NEW v \in Used, Active(v), UnitIs(v)
        PROVE  UnitIs(v)'
    <3>1. PICK y \in Int : y = primitiveProgress[v].drawCall
      BY <1>0, ProgressTyped DEF Core
    <3>2. /\ Object(y)'.count = Object(y).count /\ Object(y)'.batch = Object(y).batch
          /\ Object(y)'.primitive = Object(y).primitive
          /\ InFlight(y)' <=> InFlight(y)
      BY <1>5
    <3>3. Object(primitiveProgress[v].drawCall)' = Object(y)'
          /\ (InFlight(primitiveProgress[v].drawCall)' <=> InFlight(y)')
      BY <3>1 DEF Object, ObjectOf, InFlight
    <3> QED
      BY <1>1, <1>3, <2>1, <3>1, <3>2, <3>3 DEF UnitIs
  <2> QED
    BY <1>0, <1>1, <1>2, <2>1 DEF Core, UnitInv
<1>9. ClusterInv'
  <2>1. ASSUME NEW c \in Used, ClusterIs(c)
        PROVE  ClusterIs(c)'
    <3>1. PICK y \in Int : y = pixelProgress[c].drawCall
      BY <1>0, ProgressTyped DEF Core
    <3>2. /\ Object(y)'.count = Object(y).count /\ Object(y)'.batch = Object(y).batch
          /\ Object(y)'.primitive = Object(y).primitive
          /\ InFlight(y)' <=> InFlight(y)
      BY <1>5
    <3>3. Object(pixelProgress[c].drawCall)' = Object(y)'
          /\ (InFlight(pixelProgress[c].drawCall)' <=> InFlight(y)')
      BY <3>1 DEF Object, ObjectOf, InFlight
    <3> QED
      BY <2>1, <3>1, <3>2, <3>3 DEF ClusterIs
  <2> QED
    BY <1>0, <1>1, <2>1 DEF Core, ClusterInv
<1>10. KeptInv'
  <2>1. ASSUME NEW d \in 0 .. nextDraw - 1
        PROVE  /\ ~InFlight(d)' => \A c \in Used : pixelProgress'[c].drawCall > d
               /\ InFlight(d)' =>
                     \A f \in Nat :
                        Starts(f, Object(d)'.batch) /\ f < Object(d)'.count
                           /\ f < Object(d)'.primitive =>
                              \/ \E u \in Used : Holds(u, d, f)'
                              \/ \A c \in Used : ~NotPast(c, d, f)'
    <3>1. /\ Object(d)'.count = Object(d).count /\ Object(d)'.batch = Object(d).batch
          /\ Object(d)'.primitive = Object(d).primitive
          /\ InFlight(d)' <=> InFlight(d)
      BY <1>5, <1>6
    <3>2. PICK S : S = Used
      OBVIOUS
    <3>3. /\ \A u \in S : \A f : Holds(u, d, f)' <=> Holds(u, d, f)
          /\ \A c \in S : \A f : NotPast(c, d, f)' <=> NotPast(c, d, f)
      BY <1>2
    <3>4. ~InFlight(d) => \A c \in S : pixelProgress[c].drawCall > d
      BY <1>0, <3>2 DEF Core, KeptInv
    <3>5. InFlight(d) =>
                     \A f \in Nat :
                        Starts(f, Object(d).batch) /\ f < Object(d).count
                           /\ f < Object(d).primitive =>
                              \/ \E u \in S : Holds(u, d, f)
                              \/ \A c \in S : ~NotPast(c, d, f)
      BY <1>0, <3>2 DEF Core, KeptInv
    <3> QED
      BY <3>1, <3>2, <3>3, <3>4, <3>5
  <2> QED
    BY <1>0, <1>1, <2>1 DEF Core, KeptInv
<1>11. FinishInv'
  <2>1. ASSUME NEW o \in Thread, pc'[o] \in Finishing
        PROVE  /\ task[o].cluster \in Used
               /\ Open(finishing[o])' /\ drawCall'[finishing[o]].draw < nextDraw
               /\ NearTo(task[o].cluster, drawCall[finishing[o]].draw)'
    <3>1. pc[o] \in Finishing
      BY <2>1 DEF Finishing
    <3>2. PICK s \in Slot : s = finishing[o]
      BY DEF Batched, Places
    <3>3. /\ task[o].cluster \in Used
          /\ Open(s) /\ drawCall[s].draw < nextDraw
          /\ NearTo(task[o].cluster, drawCall[s].draw)
      BY <1>0, <3>1, <3>2 DEF Core, FinishInv
    <3>4. NearTo(task[o].cluster, drawCall[finishing[o]].draw)'
      BY <3>2, <3>3 DEF NearTo
    <3> QED
      BY <3>2, <3>3, <3>4 DEF Open
  <2>2. ASSUME NEW o \in Thread, pc'[o] = "releaseUnit"
        PROVE  LET p == primitiveProgress[task[o].unit]
               IN  /\ task[o].unit \in Used
                   /\ p.references > 0
                   /\ ~NotPast(task[o].cluster, p.drawCall, p.first)
                   /\ finishing[o] = ObjectOf(p.drawCall)
    <3>1. pc[o] = "releaseUnit"
      BY <2>2
    <3> QED
      BY <1>0, <3>1 DEF Core, FinishInv
  <2>3. ASSUME NEW o \in Thread, pc'[o] = "releaseUnit"
        PROVE  /\ ~NotPast(task[o].cluster, primitiveProgress[task[o].unit].drawCall,
                           primitiveProgress[task[o].unit].first)'
               /\ finishing[o] = ObjectOf(primitiveProgress[task[o].unit].drawCall)'
    BY <2>2, <2>3 DEF NotPast, ObjectOf
  <2>4. /\ \A s \in Slot : Open(s)' => Open(s)
        /\ finishing' = finishing /\ task' = task /\ primitiveProgress' = primitiveProgress
        /\ nextDraw' = nextDraw
    OBVIOUS
  <2> QED
    BY <1>1, <2>1, <2>2, <2>3, <2>4 DEF FinishInv
<1>12. WorkIs'
  <2>1. \A k : (Renders(k)' <=> Renders(k)) /\ (SetsUp(k)' <=> SetsUp(k))
    BY <1>1 DEF Renders, SetsUp
  <2>2. \A i \in DOMAIN taskQueue : Renders(taskQueue[i])' /\ SetsUp(taskQueue[i])'
    BY <1>1 DEF Batched, WorkIs, Renders, SetsUp
  <2>3. \A o \in Thread : pc'[o] \in {"wakeup", "pixels", "progress", "primitives"}
                             => pc'[o] = pc[o]
    OBVIOUS
  <2>4. ASSUME NEW o \in Thread
        PROVE  /\ pc'[o] \in {"wakeup", "pixels", "progress"} => Renders(task[o])'
               /\ pc'[o] \in {"wakeup", "primitives"} => SetsUp(task[o])'
    <3>1. /\ pc[o] \in {"wakeup", "pixels", "progress"} => Renders(task[o])
          /\ pc[o] \in {"wakeup", "primitives"} => SetsUp(task[o])
      BY DEF Batched, WorkIs
    <3> QED
      BY <1>1, <2>3, <3>1 DEF Renders, SetsUp
  <2> QED
    BY <2>2, <2>4 DEF WorkIs
<1>13. SearchInv'
  <2>1. ASSUME currentDraw < nextDraw
        PROVE  /\ Object(currentDraw)'.count = Object(currentDraw).count
               /\ (Exhausted' <=> Exhausted)
    <3>1. ObjectOf(currentDraw) \in Slot
      BY <1>6, ObjectIs
    <3> QED
      BY <3>1 DEF Object, ObjectOf, Exhausted
  <2>2. ASSUME NEW u \in Used, currentDraw < nextDraw, LastIn(u)
        PROVE  LastIn(u)'
    <3>1. \A o \in Thread : pc'[o] \in {"wakeup", "pixels", "progress", "releaseUnit"}
                               => ~OnUnit(task[o], u)
      BY <2>2 DEF LastIn
    <3>2. \A o \in Thread : pc[o] \in {"findPixels", "findPrimitives"} => pc'[o] = pc[o]
      OBVIOUS
    <3> QED
      BY <2>1, <2>2, <3>1, <3>2 DEF LastIn, OnUnit, Active
  <2>3. \A o \in Thread : pc'[o] = "findPrimitives" => pc[o] = "findPrimitives"
    OBVIOUS
  <2> QED
    BY <1>1, <2>1, <2>2, <2>3 DEF Batched, SearchInv
<1>14. Places'
  BY DEF Batched, Places
<1> QED
  BY <1>7, <1>8, <1>9, <1>10, <1>11, <1>12, <1>13, <1>14 DEF Batched

\* The reference of a unit is given up; who gives up the last one retires it.
LEMMA ReleaseDrawBatched ==
    ASSUME IInv, Data, Batched, NEW t \in Thread, ReleaseDraw(t)
    PROVE  Batched'
<1>0. Core
  BY CoreHolds
<1>1. pc[t] = "releaseDraw"
  BY DEF ReleaseDraw
<1>2. PICK s \in Slot : s = finishing[t]
  BY DEF Batched, Places
<1>3. Open(s)
  BY <1>0, <1>1, <1>2 DEF Core, FinishInv, Finishing
<1>4. PICK r \in Nat \ {0} : r = drawCall[s].references
  <2>1. t \in Releasing(s)
    BY <1>1, <1>2 DEF Releasing
  <2>2. drawCall[s].references \in Nat /\ drawCall[s].references # 0
    BY <1>0, <1>3, <2>1, References DEF Core
  <2> QED
    BY <2>2
<1>5. PICK q \in Nat : q = r - 1
  OBVIOUS
<1>6. PICK l \in {"retire", "finished"} : l = IF r = 1 THEN "retire" ELSE "finished"
  OBVIOUS
<1>7. /\ pc' = [pc EXCEPT ![t] = l]
      /\ UNCHANGED <<appVars, drawList, currentDraw, nextDraw, unitCount, task, finishing,
                     taskQueue, primitiveProgress, pixelProgress, batchOf>>
  BY <1>2, <1>4, <1>6 DEF ReleaseDraw, Goto, scheduleVars, dataVars
<1>8. drawCall' = [drawCall EXCEPT ![s] = [drawCall[s] EXCEPT !.references = q]]
  <2>1. drawCall' = [drawCall EXCEPT ![s].references = r - 1]
    BY <1>2, <1>4 DEF ReleaseDraw
  <2> QED
    BY <1>5, <2>1
<1>9. /\ drawCall'[s].references = q /\ drawCall'[s].draw = drawCall[s].draw
      /\ drawCall'[s].primitive = drawCall[s].primitive
      /\ drawCall'[s].count = drawCall[s].count /\ drawCall'[s].batch = drawCall[s].batch
      /\ \A x \in Slot \ {s} : drawCall'[x] = drawCall[x]
  BY <1>8 DEF Data, DrawCalls
<1>10. pc'[t] = l /\ \A o \in Thread \ {t} : pc'[o] = pc[o]
  BY <1>7 DEF IInv, Types
<1>11. \A x \in Slot : Open(x)' <=> Open(x)
  BY <1>3, <1>5, <1>9 DEF Open
<1>12. RefersOnly(t)
  BY <1>1, <1>6, <1>7, <1>9, <1>10, <1>11 DEF RefersOnly
<1>13. CountInv'
  <2>1. \A y : UnitsOf(y)' = UnitsOf(y)
    BY <1>7 DEF UnitsOf, Active, Used
  <2>2. Releasing(s)' = Releasing(s) \ {t} /\ t \in Releasing(s)
    BY <1>1, <1>2, <1>6, <1>7, <1>10 DEF Releasing
  <2>3. \A x : x # s => Releasing(x)' = Releasing(x)
    BY <1>2, <1>7, <1>10 DEF Releasing
  <2>4. PICK y \in Nat : y = Cardinality(Releasing(s))
    BY <1>0, Counts DEF Core
  <2>5. Cardinality(Releasing(s)') = y - 1
    <3>1. IsFiniteSet(Releasing(s))
      BY <1>0, Counts DEF Core
    <3>2. Cardinality(Releasing(s) \ {t}) = IF t \in Releasing(s) THEN Cardinality(Releasing(s)) - 1
                                            ELSE Cardinality(Releasing(s))
      BY <3>1, FS_RemoveElement
    <3> QED
      BY <2>2, <2>4, <3>2
  <2>6. Counted(s) => Counted(s)'
    <3>1. PICK N : N = Batches(<<drawCall[s].count, drawCall[s].batch>>)
      OBVIOUS
    <3>2. N \in Nat
      <4>1. drawCall[s].count \in Nat \ {0} /\ drawCall[s].batch \in Nat \ {0}
        BY <1>0, <1>3, References DEF Core
      <4> QED
        BY <3>1, <4>1, BatchCount
    <3>3. PICK x \in Nat : x = Cardinality(UnitsOf(drawCall[s].draw))
      BY <1>0, Counts DEF Core
    <3>4. UnitsOf(drawCall[s].draw)' = UnitsOf(drawCall[s].draw)
      <4>1. PICK z : z = drawCall[s].draw /\ z = drawCall'[s].draw
        BY <1>9
      <4>2. UnitsOf(z)' = UnitsOf(z)
        BY <2>1
      <4> QED
        BY <4>1, <4>2 DEF UnitsOf
    <3>5. ASSUME NEW k \in Nat, r = N - k + x + y
          PROVE  q = N - k + x + (y - 1)
      BY <1>5, <3>2, <3>5
    <3> QED
      BY <1>4, <1>9, <2>4, <2>5, <3>1, <3>3, <3>4, <3>5 DEF Counted
  <2>7. ASSUME NEW x \in Slot, x # s, Counted(x)
        PROVE  Counted(x)'
    <3>1. drawCall'[x] = drawCall[x]
      BY <1>9, <2>7
    <3>2. UnitsOf(drawCall[x].draw)' = UnitsOf(drawCall[x].draw)
      <4>1. PICK z : z = drawCall[x].draw /\ z = drawCall'[x].draw
        BY <3>1
      <4>2. UnitsOf(z)' = UnitsOf(z)
        BY <2>1
      <4> QED
        BY <4>1, <4>2 DEF UnitsOf
    <3> QED
      BY <2>3, <2>7, <3>1, <3>2 DEF Counted
  <2> QED
    BY <1>0, <1>7, <1>9, <1>11, <2>6, <2>7 DEF Core, CountInv
<1>14. \A o \in Thread : pc[o] \in Retiring => finishing[o] # s
  BY <1>0, <1>4 DEF Core, FinishInv
<1>15. /\ \A o \in Thread \ {t} : pc'[o] \in Retiring => pc[o] \in Retiring
       /\ pc'[t] \in Retiring <=> q = 0
  BY <1>5, <1>6, <1>10 DEF Retiring
<1>16. \A o \in Thread : pc'[o] \in Retiring => drawCall'[finishing[o]].references = 0
  <2>1. ASSUME NEW o \in Thread \ {t}, pc'[o] \in Retiring
        PROVE  drawCall'[finishing[o]].references = 0
    <3>1. pc[o] \in Retiring /\ finishing[o] \in Slot \ {s}
      BY <1>14, <1>15, <2>1 DEF Batched, Places
    <3> QED
      BY <1>0, <1>9, <3>1 DEF Core, FinishInv
  <2> QED
    BY <1>2, <1>9, <1>15, <2>1
<1>17. \A o, v \in Thread : pc'[o] \in Retiring /\ pc'[v] \in Retiring /\ o # v
                               => finishing[o] # finishing[v]
  BY <1>0, <1>2, <1>14, <1>15 DEF Core, FinishInv
<1>18. ASSUME NEW x \in Slot, drawCall'[x].references = 0
       PROVE  \E o \in Thread : pc'[o] \in Retiring /\ finishing[o] = x
  <2>1. CASE x = s
    BY <1>2, <1>9, <1>15, <1>18, <2>1
  <2>2. CASE x # s
    <3>1. PICK o \in Thread : pc[o] \in Retiring /\ finishing[o] = x
      BY <1>0, <1>9, <1>18, <2>2 DEF Core, FinishInv
    <3> QED
      BY <1>1, <1>10, <3>1 DEF Retiring
  <2> QED
    BY <2>1, <2>2
<1> QED
  BY <1>12, <1>13, <1>16, <1>17, <1>18, RefersOnlyStep

\* The resources of the draw call are unlocked before its object is free.
LEMMA RetireDrawBatched ==
    ASSUME IInv, Data, Batched, NEW t \in Thread, RetireDraw(t)
    PROVE  Batched'
<1>1. /\ pc[t] = "retire" /\ pc' = [pc EXCEPT ![t] = "free"]
      /\ UNCHANGED <<appVars, drawList, drawCall, currentDraw, nextDraw, unitCount, task,
                     finishing, taskQueue, primitiveProgress, pixelProgress, batchOf>>
  BY DEF RetireDraw, Goto, scheduleVars, dataVars
<1>2. pc'[t] = "free" /\ \A o \in Thread \ {t} : pc'[o] = pc[o]
  BY <1>1 DEF IInv, Types
<1>3. RefersOnly(t)
  BY <1>1, <1>2 DEF RefersOnly, Open
<1>4. CountInv'
  <2>1. \A y : UnitsOf(y)' = UnitsOf(y)
    BY <1>1 DEF UnitsOf, Active, Used
  <2>2. \A x : Releasing(x)' = Releasing(x)
    BY <1>1, <1>2 DEF Releasing
  <2>3. \A x \in Slot : Counted(x)' <=> Counted(x)
    BY <1>1, <2>1, <2>2 DEF Counted
  <2> QED
    BY <1>1, <2>3 DEF Batched, CountInv, Open
<1>5. \A o \in Thread : pc'[o] \in Retiring <=> pc[o] \in Retiring
  BY <1>1, <1>2 DEF Retiring
<1> QED
  BY <1>1, <1>3, <1>4, <1>5, RefersOnlyStep DEF Batched, FinishInv

\* The object becomes free: no unit and no cluster needs the draw call any more.
LEMMA FreeDrawCallBatched ==
    ASSUME IInv, Data, Batched, NEW t \in Thread, FreeDrawCall(t)
    PROVE  Batched'
<1>0. Core
  BY CoreHolds
<1>1. pc[t] = "free" /\ pc[t] \in Retiring /\ pc[t] \in Finishing
  BY DEF FreeDrawCall, Retiring, Finishing
<1>2. PICK s \in Slot : s = finishing[t]
  BY DEF Batched, Places
<1>3. Open(s) /\ drawCall[s].references = 0 /\ drawCall[s].draw < nextDraw
  BY <1>0, <1>1, <1>2 DEF Core, FinishInv
<1>4. nextDraw \in Nat /\ currentDraw \in Nat
  BY <1>0 DEF Core, KeptInv, Data
<1>5. PICK d \in 0 .. nextDraw - 1 : d = drawCall[s].draw
  BY <1>0, <1>3, <1>4 DEF Core, ObjectInv
<1>6. ObjectOf(d) = s /\ InFlight(d) /\ Object(d) = drawCall[s]
  BY <1>0, <1>3, <1>5, OpenFlies DEF Core, ObjectInv
<1>7. /\ drawCall[s].primitive >= drawCall[s].count
      /\ drawCall[s].primitive \in Nat /\ drawCall[s].count \in Nat \ {0}
      /\ drawCall[s].batch \in Nat \ {0}
      /\ UnitsOf(d) = {} /\ Releasing(s) = {}
  BY <1>0, <1>3, <1>5, References DEF Core
(* Every cluster has rendered the draw call.                                *)
<1>8. ASSUME NEW f \in Nat, Starts(f, drawCall[s].batch), f < drawCall[s].count
      PROVE  \A c \in Used : ~NotPast(c, d, f)
  <2>1. f < drawCall[s].primitive
    BY <1>7, <1>8
  <2>2. ~(\E u \in Used : Holds(u, d, f))
    BY <1>7 DEF UnitsOf, Holds
  <2> QED
    BY <1>0, <1>6, <1>8, <2>1, <2>2 DEF Core, KeptInv
<1>9. ASSUME NEW c \in Used
      PROVE  pixelProgress[c].drawCall > d
  <2>1. PICK y \in Int : y = pixelProgress[c].drawCall
    BY <1>0, ProgressTyped DEF Core
  <2>2. y # d
    <3>1. SUFFICES ASSUME y = d
                   PROVE  FALSE
      OBVIOUS
    <3>2. ClusterIs(c)
      BY <1>0 DEF Core, ClusterInv
    <3>3. /\ Starts(pixelProgress[c].processed, drawCall[s].batch)
          /\ pixelProgress[c].processed < drawCall[s].count
      BY <1>4, <1>5, <1>6, <2>1, <3>1, <3>2 DEF ClusterIs
    <3>4. PICK f \in Nat : f = pixelProgress[c].processed
      BY <1>7, <3>3, Multiples DEF Starts
    <3>5. ~NotPast(c, d, f)
      BY <1>8, <3>3, <3>4
    <3> QED
      BY <2>1, <3>1, <3>4, <3>5 DEF NotPast
  <2>3. ~(y < d)
    <3>1. Starts(0, drawCall[s].batch)
      <4>1. PICK k \in Nat \ {0} : k = drawCall[s].batch
        BY <1>7
      <4>2. 0 = 0 * k
        OBVIOUS
      <4> QED
        BY <4>1, <4>2 DEF Starts
    <3>2. ~NotPast(c, d, 0)
      BY <1>7, <1>8, <3>1
    <3> QED
      BY <2>1, <3>2 DEF NotPast
  <2> QED
    BY <2>1, <2>2, <2>3
<1>10. currentDraw > d
  <2>1. 0 \in Used /\ pixelProgress[0].drawCall \in 0 .. currentDraw
    BY <1>0, UsedUnits DEF Core, ClusterInv, ClusterIs
  <2> QED
    BY <1>4, <1>9, <2>1
<1>11. /\ pc' = [pc EXCEPT ![t] = "signalApp"]
       /\ drawCall' = [drawCall EXCEPT ![s] = [drawCall[s] EXCEPT !.references = -1]]
       /\ UNCHANGED <<appVars, drawList, currentDraw, nextDraw, unitCount, task, finishing,
                      taskQueue, primitiveProgress, pixelProgress, batchOf>>
  BY <1>2 DEF FreeDrawCall, Goto, scheduleVars, dataVars
<1>12. /\ drawCall'[s].references = -1 /\ drawCall'[s].draw = d
       /\ \A x \in Slot \ {s} : drawCall'[x] = drawCall[x]
  BY <1>5, <1>11 DEF Data, DrawCalls
<1>13. pc'[t] = "signalApp" /\ \A o \in Thread \ {t} : pc'[o] = pc[o]
  BY <1>11 DEF IInv, Types
<1>14. \A x \in Slot : Open(x)' <=> Open(x) /\ x # s
  BY <1>12 DEF Open
<1>15. \A y : ObjectOf(y)' = ObjectOf(y)
  BY <1>11 DEF ObjectOf
<1>16. ~InFlight(d)'
  BY <1>6, <1>12, <1>15 DEF InFlight, Object
<1>17. ASSUME NEW y \in Int, y # d
       PROVE  /\ InFlight(y)' <=> InFlight(y)
              /\ InFlight(y) => Object(y)' = Object(y)
  <2>1. ObjectOf(y) \in Slot
    BY ObjectIs
  <2>2. CASE ObjectOf(y) = s
    BY <1>5, <1>12, <1>15, <1>17, <2>2 DEF InFlight, Object
  <2>3. CASE ObjectOf(y) # s
    BY <1>12, <1>15, <2>1, <2>3 DEF InFlight, Object
  <2> QED
    BY <2>2, <2>3
<1>18. /\ Used' = Used
       /\ \A x, y, z : NotPast(x, y, z)' <=> NotPast(x, y, z)
       /\ \A v : Active(v)' <=> Active(v)
       /\ \A v, y, z : Holds(v, y, z)' <=> Holds(v, y, z)
       /\ \A y : UnitsOf(y)' = UnitsOf(y)
  BY <1>11 DEF Used, NotPast, Active, Holds, UnitsOf
<1>19. \A v : Owing(v)' = Owing(v)
  <2>1. \A o \in Thread : \A x, v : Releases(o, x, v)' <=> Releases(o, x, v)
    BY <1>1, <1>11, <1>13 DEF Releases
  <2> QED
    BY <1>11, <1>18, <2>1 DEF Owing, Owes
<1>20. \A x : Releasing(x)' = Releasing(x)
  BY <1>1, <1>11, <1>13 DEF Releasing
<1>21. ObjectInv'
  <2>1. \A x \in Slot : ObjectOf(drawCall[x].draw)' = ObjectOf(drawCall[x].draw)
    BY <1>5, <1>11, <1>12 DEF ObjectOf
  <2>2. appPc' = "publish" => InFlight(nextDraw)'
    <3>1. PICK y \in Int : y = nextDraw /\ y # d
      BY <1>4
    <3>2. appPc = "publish" => InFlight(y)'
      BY <1>17, <3>1 DEF Batched, ObjectInv
    <3> QED
      BY <1>11, <3>1, <3>2 DEF appVars, InFlight, Object, ObjectOf
  <2>3. appPc' = "fill" => ~Open(appIndex)'
    <3>1. appPc = "fill" => appIndex \in Slot /\ ~Open(appIndex)
      BY DEF Batched, ObjectInv, Data
    <3> QED
      BY <1>11, <1>14, <3>1 DEF appVars, Open
  <2>4. ObjectOf(nextDraw)' = ObjectOf(nextDraw)
    BY <1>11 DEF ObjectOf
  <2>5. \A x \in Slot : Open(x)' => Open(x) /\ drawCall'[x] = drawCall[x]
    BY <1>12, <1>14
  <2> QED
    BY <1>11, <2>1, <2>2, <2>3, <2>4, <2>5 DEF Batched, ObjectInv, appVars
<1>22. CountInv'
  <2>1. ASSUME NEW x \in Slot, Open(x)'
        PROVE  Counted(x)'
    <3>1. drawCall'[x] = drawCall[x] /\ Counted(x)
      BY <1>0, <1>12, <1>14, <2>1 DEF Core, CountInv
    <3>2. UnitsOf(drawCall[x].draw)' = UnitsOf(drawCall[x].draw)
      <4>1. PICK z : z = drawCall[x].draw /\ z = drawCall'[x].draw
        BY <3>1
      <4>2. UnitsOf(z)' = UnitsOf(z)
        BY <1>18
      <4> QED
        BY <4>1, <4>2 DEF UnitsOf
    <3> QED
      BY <1>20, <3>1, <3>2 DEF Counted
  <2> QED
    BY <1>0, <1>11, <1>12, <1>14, <2>1 DEF Core, CountInv
<1>23. UnitInv'
  <2>1. ASSUME NEW v \in Used, Active(v), UnitIs(v)
        PROVE  UnitIs(v)'
    <3>1. PICK y \in Int : y = primitiveProgress[v].drawCall
      BY <1>0, ProgressTyped DEF Core
    <3>2. y # d /\ InFlight(y)
      BY <1>7, <2>1, <3>1 DEF UnitsOf, UnitIs
    <3>3. InFlight(y)' /\ Object(y)' = Object(y)
      BY <1>17, <3>2
    <3>4. /\ Object(primitiveProgress[v].drawCall)' = Object(y)
          /\ InFlight(primitiveProgress[v].drawCall)'
      BY <1>11, <3>1, <3>3 DEF Object, ObjectOf, InFlight
    <3> QED
      BY <1>11, <1>18, <1>19, <2>1, <3>1, <3>4 DEF UnitIs
  <2> QED
    BY <1>0, <1>11, <1>18, <2>1 DEF Core, UnitInv
<1>24. ClusterInv'
  <2>1. ASSUME NEW c \in Used, ClusterIs(c)
        PROVE  ClusterIs(c)'
    <3>1. PICK y \in Int : y = pixelProgress[c].drawCall
      BY <1>0, ProgressTyped DEF Core
    <3>2. y # d
      BY <1>9, <3>1
    <3>3. y < nextDraw => InFlight(y)' /\ Object(y)' = Object(y)
      BY <1>17, <2>1, <3>1, <3>2 DEF ClusterIs
    <3>4. y < nextDraw => /\ Object(pixelProgress[c].drawCall)' = Object(y)
                          /\ InFlight(pixelProgress[c].drawCall)'
      BY <1>11, <3>1, <3>3 DEF Object, ObjectOf, InFlight
    <3> QED
      BY <1>11, <2>1, <3>1, <3>4 DEF ClusterIs
  <2> QED
    BY <1>0, <1>18, <2>1 DEF Core, ClusterInv
<1>25. KeptInv'
  <2>1. ASSUME NEW y \in 0 .. nextDraw - 1
        PROVE  /\ ~InFlight(y)' => \A c \in Used : pixelProgress[c].drawCall > y
               /\ InFlight(y)' =>
                     \A f \in Nat :
                        Starts(f, Object(y)'.batch) /\ f < Object(y)'.count
                           /\ f < Object(y)'.primitive =>
                              \/ \E u \in Used : Holds(u, y, f)
                              \/ \A c \in Used : ~NotPast(c, y, f)
    <3>1. CASE y = d
      BY <1>9, <1>16, <3>1
    <3>2. CASE y # d
      <4>1. InFlight(y)' <=> InFlight(y)
        BY <1>4, <1>17, <3>2
      <4>2. InFlight(y) => Object(y)' = Object(y)
        BY <1>4, <1>17, <3>2
      <4> QED
        BY <1>0, <2>1, <4>1, <4>2 DEF Core, KeptInv
    <3> QED
      BY <3>1, <3>2
  <2> QED
    BY <1>0, <1>11, <1>18, <2>1 DEF Core, KeptInv
<1>26. FinishInv'
  <2>1. \A o \in Thread \ {t} : /\ pc'[o] \in Finishing <=> pc[o] \in Finishing
                                /\ pc'[o] \in Retiring <=> pc[o] \in Retiring
                                /\ pc'[o] = "releaseUnit" <=> pc[o] = "releaseUnit"
    BY <1>13
  <2>2. pc'[t] \notin Retiring /\ pc'[t] \notin Finishing /\ pc'[t] # "releaseUnit"
    BY <1>13 DEF Retiring, Finishing
  <2>3. ASSUME NEW o \in Thread \ {t}, pc[o] \in Finishing
        PROVE  finishing[o] # s
    <3>1. CASE pc[o] \in Retiring
      BY <1>0, <1>1, <1>2, <3>1 DEF Core, FinishInv
    <3>2. CASE pc[o] = "releaseDraw"
      BY <1>7, <3>2 DEF Releasing
    <3>3. CASE pc[o] = "releaseUnit"
      <4>1. PICK u \in Used : u = task[o].unit
        BY <1>0, <3>3 DEF Core, FinishInv
      <4>2. /\ primitiveProgress[u].references > 0
            /\ finishing[o] = ObjectOf(primitiveProgress[u].drawCall)
        BY <1>0, <3>3, <4>1 DEF Core, FinishInv
      <4>3. Active(u) /\ UnitIs(u)
        BY <1>0, <4>2, ProgressTyped DEF Core, UnitInv, Active
      <4>4. PICK y \in Int : y = primitiveProgress[u].drawCall
        BY <1>0, ProgressTyped DEF Core
      <4>5. InFlight(y) /\ y # d
        BY <1>7, <4>3, <4>4 DEF UnitIs, UnitsOf
      <4>6. drawCall[ObjectOf(y)].draw = y
        BY <4>5 DEF InFlight, Object
      <4> QED
        BY <1>5, <4>2, <4>4, <4>5, <4>6
    <3> QED
      BY <2>3, <3>1, <3>2, <3>3 DEF Finishing, Retiring
  <2>4. ASSUME NEW o \in Thread, pc'[o] \in Finishing
        PROVE  /\ task[o].cluster \in Used
               /\ Open(finishing[o])' /\ drawCall'[finishing[o]].draw < nextDraw
               /\ NearTo(task[o].cluster, drawCall[finishing[o]].draw)'
    <3>1. pc[o] \in Finishing /\ o # t
      BY <2>1, <2>2, <2>4
    <3>2. PICK x \in Slot : x = finishing[o] /\ x # s
      BY <2>3, <3>1 DEF Batched, Places
    <3>3. /\ task[o].cluster \in Used
          /\ Open(x) /\ drawCall[x].draw < nextDraw
          /\ NearTo(task[o].cluster, drawCall[x].draw)
      BY <1>0, <3>1, <3>2 DEF Core, FinishInv
    <3>4. drawCall'[x] = drawCall[x] /\ Open(x)'
      BY <1>12, <1>14, <3>2, <3>3
    <3>5. NearTo(task[o].cluster, drawCall[finishing[o]].draw)'
      BY <1>11, <3>2, <3>3, <3>4 DEF NearTo
    <3> QED
      BY <1>11, <3>2, <3>3, <3>4, <3>5 DEF Open
  <2>5. ASSUME NEW o \in Thread, pc'[o] = "releaseUnit"
        PROVE  /\ task[o].unit \in Used
               /\ primitiveProgress[task[o].unit].references > 0
               /\ ~NotPast(task[o].cluster, primitiveProgress[task[o].unit].drawCall,
                           primitiveProgress[task[o].unit].first)'
               /\ finishing[o] = ObjectOf(primitiveProgress[task[o].unit].drawCall)'
    <3>1. pc[o] = "releaseUnit"
      BY <2>1, <2>2, <2>5
    <3> QED
      BY <1>0, <1>11, <3>1 DEF Core, FinishInv, NotPast, ObjectOf
  <2>6. \A o \in Thread : pc'[o] \in Retiring => drawCall'[finishing[o]].references = 0
    <3>1. ASSUME NEW o \in Thread, pc'[o] \in Retiring
          PROVE  drawCall'[finishing[o]].references = 0
      <4>1. pc[o] \in Retiring /\ pc[o] \in Finishing /\ o # t
        BY <2>1, <2>2, <3>1 DEF Retiring, Finishing
      <4>2. finishing[o] \in Slot \ {s}
        BY <2>3, <4>1 DEF Batched, Places
      <4> QED
        BY <1>0, <1>12, <4>1, <4>2 DEF Core, FinishInv
    <3> QED
      BY <3>1
  <2>7. \A o, v \in Thread : pc'[o] \in Retiring /\ pc'[v] \in Retiring /\ o # v
                               => finishing[o] # finishing[v]
    BY <1>0, <2>1, <2>2 DEF Core, FinishInv
  <2>8. ASSUME NEW x \in Slot, drawCall'[x].references = 0
        PROVE  \E o \in Thread : pc'[o] \in Retiring /\ finishing[o] = x
    <3>1. x # s
      BY <1>12, <2>8
    <3>2. PICK o \in Thread : pc[o] \in Retiring /\ finishing[o] = x
      BY <1>0, <1>12, <2>8, <3>1 DEF Core, FinishInv
    <3> QED
      BY <1>2, <2>1, <3>1, <3>2
  <2> QED
    BY <1>11, <1>18, <2>4, <2>5, <2>6, <2>7, <2>8 DEF FinishInv
<1>27. WorkIs'
  <2>1. \A k : (Renders(k)' <=> Renders(k)) /\ (SetsUp(k)' <=> SetsUp(k))
    BY <1>11, <1>18 DEF Renders, SetsUp
  <2>2. \A i \in DOMAIN taskQueue : Renders(taskQueue[i])' /\ SetsUp(taskQueue[i])'
    BY <1>11, <1>18 DEF Batched, WorkIs, Renders, SetsUp
  <2>3. \A o \in Thread : pc'[o] \in {"wakeup", "pixels", "progress", "primitives"}
                             => pc'[o] = pc[o]
    BY <1>13
  <2>4. ASSUME NEW o \in Thread
        PROVE  /\ pc'[o] \in {"wakeup", "pixels", "progress"} => Renders(task[o])'
               /\ pc'[o] \in {"wakeup", "primitives"} => SetsUp(task[o])'
    <3>1. /\ pc[o] \in {"wakeup", "pixels", "progress"} => Renders(task[o])
          /\ pc[o] \in {"wakeup", "primitives"} => SetsUp(task[o])
      BY DEF Batched, WorkIs
    <3> QED
      BY <1>11, <1>18, <2>3, <3>1 DEF Renders, SetsUp
  <2> QED
    BY <1>11, <2>2, <2>4 DEF WorkIs
<1>28. SearchInv'
  <2>1. ASSUME currentDraw < nextDraw
        PROVE  Object(currentDraw)' = Object(currentDraw) /\ (Exhausted' <=> Exhausted)
    <3>1. InFlight(currentDraw)
      BY <1>0, <1>4, <2>1, Ahead
    <3>2. PICK y \in Int : y = currentDraw /\ y # d
      BY <1>4, <1>10
    <3>3. Object(y)' = Object(y)
      BY <1>17, <3>1, <3>2
    <3> QED
      BY <1>11, <3>2, <3>3 DEF Object, ObjectOf, Exhausted
  <2>2. ASSUME NEW u \in Used, currentDraw < nextDraw, LastIn(u)
        PROVE  LastIn(u)'
    <3>1. \A o \in Thread : pc'[o] \in {"wakeup", "pixels", "progress", "releaseUnit"}
                               => ~OnUnit(task[o], u)
      BY <1>13, <2>2 DEF LastIn
    <3>2. \A o \in Thread : pc[o] \in {"findPixels", "findPrimitives"} => pc'[o] = pc[o]
      BY <1>1, <1>13
    <3> QED
      BY <1>11, <2>1, <2>2, <3>1, <3>2 DEF LastIn, OnUnit, Active
  <2>3. \A o \in Thread : pc'[o] = "findPrimitives" => pc[o] = "findPrimitives"
    BY <1>13
  <2> QED
    BY <1>11, <1>18, <2>1, <2>2, <2>3 DEF Batched, SearchInv
<1>29. Places'
  BY <1>11 DEF Batched, Places
<1> QED
  BY <1>21, <1>22, <1>23, <1>24, <1>25, <1>26, <1>27, <1>28, <1>29 DEF Batched

-----------------------------------------------------------------------------
(* Nothing is left undone                                                   *)

LEMMA RestsBegins == Init => Rests
<1> SUFFICES ASSUME Init PROVE Rests
  OBVIOUS
<1>1. Used \subseteq Unit /\ Used \subseteq Cluster
  <2>1. Types
    BY Begins DEF IInv
  <2> QED
    BY <2>1, UsedUnits
<1>2. WorkOwned
  BY <1>1 DEF Init, WorkOwned
<1>3. AloneSearches
  BY DEF Init, AloneSearches
<1>4. NothingToDo
  BY <1>1 DEF Init, NothingToDo, Active
<1>5. UnitsFit
  <2>1. unitCount = ceilPow2(ThreadCount[1]) /\ threadCount = ThreadCount[1]
    BY DEF Init, threadCount
  <2>2. unitCount \in Int
    <3>1. Types
      BY Begins DEF IInv
    <3> QED
      BY <3>1, UsedUnits
  <2> QED
    BY <2>1, <2>2 DEF UnitsFit
<1> QED
  BY <1>2, <1>3, <1>4, <1>5 DEF Rests

\* Work is not given up before it is done.
LEMMA WorkOwnedKept ==
    ASSUME WorkOwned, Used' \subseteq Used,
           \A c \in Used' : pixelProgress'[c].executing =>
              \/ pixelProgress[c].executing /\ \A k \in Work : Covers(k, c) => k \in Work'
              \/ \E k \in Work' : Covers(k, c),
           \A u \in Used' : primitiveProgress'[u].references < 0 =>
              \/ primitiveProgress[u].references < 0 /\ \A k \in Work : Fills(k, u) => k \in Work'
              \/ \E k \in Work' : Fills(k, u)
    PROVE  WorkOwned'
<1>1. ASSUME NEW c \in Used', pixelProgress'[c].executing
      PROVE  \E k \in Work' : Covers(k, c)
  BY <1>1 DEF WorkOwned
<1>2. ASSUME NEW u \in Used', primitiveProgress'[u].references < 0
      PROVE  \E k \in Work' : Fills(k, u)
  BY <1>2 DEF WorkOwned
<1> QED
  BY <1>1, <1>2 DEF WorkOwned, Covers, Fills

\* When nothing is under way, a unit that is in use is ready for a cluster.
LEMMA NothingLeft ==
    ASSUME IInv, Core, WorkOwned, Work = {}, \A c \in Used : ReadyUnits(c) = {},
           NEW u \in Used, Active(u)
    PROVE  FALSE
<1>1. \A v \in Used : ~(primitiveProgress[v].references < 0)
  BY DEF WorkOwned
<1>2. \A o \in Thread : pc[o] # "releaseUnit"
  BY DEF Work, InHand
<1>3. UnitIs(u) /\ primitiveProgress[u].references > 0
  BY <1>1, ProgressTyped DEF Core, UnitInv, Active
<1>4. PICK d \in Int : d = primitiveProgress[u].drawCall
  BY ProgressTyped DEF Core
<1>5. nextDraw \in Nat /\ currentDraw \in 0 .. nextDraw
  BY DEF Core, KeptInv, Data
<1>6. d \in 0 .. nextDraw - 1 /\ d \in 0 .. currentDraw /\ InFlight(d)
  BY <1>3, <1>4, <1>5 DEF UnitIs
<1>7. PICK f \in Int : f = primitiveProgress[u].first
  BY ProgressTyped DEF Core
<1>8. PICK c \in Used : NotPast(c, d, f)
  <2>1. Owing(u) # {}
    <3>1. Cardinality(Owing(u)) # 0
      BY <1>3 DEF UnitIs
    <3> QED
      BY <3>1, Counts DEF Core
  <2> QED
    BY <1>2, <1>4, <1>7, <2>1 DEF Owing, Owes, Releases
<1>9. PICK e \in Int : e = pixelProgress[c].drawCall
  BY ProgressTyped DEF Core
<1>10. e \in 0 .. nextDraw - 1 /\ (e < d \/ e = d)
  <2>1. ClusterIs(c)
    BY DEF Core, ClusterInv
  <2>2. e \in 0 .. currentDraw
    BY <1>9, <2>1 DEF ClusterIs
  <2>3. e < d \/ e = d
    BY <1>8, <1>9 DEF NotPast
  <2> QED
    BY <1>5, <1>6, <2>2, <2>3
<1>11. /\ InFlight(e)
       /\ Starts(pixelProgress[c].processed, Object(e).batch)
       /\ pixelProgress[c].processed < Object(e).count
       /\ pixelProgress[c].processed <= Object(e).primitive
  <2>1. ClusterIs(c)
    BY DEF Core, ClusterInv
  <2> QED
    BY <1>5, <1>9, <1>10, <2>1 DEF ClusterIs
<1>12. PICK s \in Slot : s = ObjectOf(e) /\ Open(s) /\ Object(e) = drawCall[s]
                         /\ drawCall[s].draw = e
  BY <1>11, Flying
<1>13. /\ drawCall[s].batch \in Nat \ {0} /\ drawCall[s].count \in Nat /\ drawCall[s].primitive \in Nat
  BY <1>12, References DEF Core
<1>14. PICK z \in Nat : z = pixelProgress[c].processed
  BY <1>11, <1>12, <1>13, Multiples DEF Starts
<1>15. Starts(z, Object(e).batch) /\ z < Object(e).count /\ z < Object(e).primitive
  <2>1. Starts(z, Object(e).batch) /\ z < Object(e).count
    BY <1>11, <1>14
  <2>2. CASE e < d
    <3>1. drawCall[s].primitive >= drawCall[s].count
      <4>1. drawCall[s].draw < currentDraw
        BY <1>5, <1>6, <1>12, <2>2
      <4> QED
        BY <1>12, <4>1 DEF Core, CountInv
    <3> QED
      BY <1>12, <1>13, <2>1, <3>1
  <2>3. CASE e = d
    <3>1. z <= f
      BY <1>8, <1>9, <1>14, <2>3 DEF NotPast
    <3>2. f < Object(e).primitive
      BY <1>3, <1>4, <1>7, <2>3 DEF UnitIs
    <3> QED
      BY <1>12, <1>13, <2>1, <3>1, <3>2
  <2> QED
    BY <1>10, <2>2, <2>3
<1>16. PICK v \in Used : Holds(v, e, z)
  <2>1. NotPast(c, e, z)
    BY <1>9, <1>14 DEF NotPast
  <2> QED
    BY <1>10, <1>11, <1>15, <2>1 DEF Core, KeptInv
<1>17. v \in ReadyUnits(c)
  <2>1. primitiveProgress[v].references > 0
    BY <1>1, <1>16, ProgressTyped DEF Core, Holds, Active
  <2> QED
    BY <1>9, <1>14, <1>16, <2>1 DEF Holds, ReadyUnits, Used
<1> QED
  BY <1>17

\* A worker is alone when no other is awake.
LEMMA AloneCounted ==
    ASSUME IInv, NEW t \in Thread, task[t].type # "SUSPEND"
    PROVE  /\ threadsAwake \in Nat /\ threadsAwake > 0
           /\ threadsAwake = 1 <=> Alone(t)
<1>1. /\ IsFiniteSet(Awake) /\ threadsAwake = Cardinality(Awake) /\ threadsAwake \in Nat
      /\ threadsAwake = 0 <=> Awake = {}
  BY AwakeCounted DEF IInv
<1>2. t \in Awake
  BY DEF Awake
<1>3. /\ IsFiniteSet(Awake \ {t}) /\ Cardinality(Awake \ {t}) = threadsAwake - 1
  BY <1>1, <1>2, FS_RemoveElement
<1>4. threadsAwake = 1 <=> Awake \ {t} = {}
  <2>1. Cardinality(Awake \ {t}) = 0 <=> Awake \ {t} = {}
    BY <1>3, FS_EmptySet
  <2> QED
    BY <1>1, <1>3, <2>1
<1>5. Awake \ {t} = {} <=> Alone(t)
  BY DEF Awake, Alone
<1> QED
  BY <1>1, <1>2, <1>4, <1>5

Searching == {"findPixels", "findPrimitives", "take"}

\* Steps of the application.
LEMMA AppRests ==
    ASSUME IInv, Rests, UNCHANGED <<scheduleVars, currentDraw>>, Used' \subseteq Used, UnitsFit',
           \A t \in Thread : \/ pc'[t] = pc[t] /\ task'[t] = task[t]
                             \/ pc[t] \in Asleep /\ pc'[t] \in Asleep,
           \A t \in Thread : pc[t] \in Searching =>
              UNCHANGED <<nextDraw, unitCount, task>>,
           NothingToDo'
    PROVE  Rests'
<1>1. WorkOwned'
  <2>1. \A t \in Thread : InHand(t) => InHand(t)' /\ task'[t] = task[t]
    BY DEF InHand, Asleep
  <2>2. Work \subseteq Work'
    BY <2>1 DEF Work, scheduleVars
  <2> QED
    BY <2>2, WorkOwnedKept DEF Rests, WorkOwned, scheduleVars
<1>2. AloneSearches'
  <2>1. ASSUME NEW t \in Thread, Alone(t)', taskQueue = <<>>, pc'[t] \in Searching
        PROVE  /\ pc[t] = pc'[t] /\ Alone(t)
               /\ UNCHANGED <<nextDraw, unitCount>>
    <3>1. pc[t] = pc'[t]
      BY <2>1 DEF Searching, Asleep
    <3> QED
      BY <2>1, <3>1 DEF Alone
  <2>2. ASSUME NEW t \in Thread, Alone(t)', taskQueue = <<>>, pc'[t] \in Searching
        PROVE  /\ pc'[t] = "findPixels" => \A c \in Used' : c < index' => ReadyUnits(c)' = {}
               /\ pc'[t] \in {"findPrimitives", "take"} => \A c \in Used' : ReadyUnits(c)' = {}
               /\ pc'[t] = "findPrimitives" => \A u \in Used' : u < index' => Active(u)'
               /\ pc'[t] = "take" => currentDraw' = nextDraw' \/ \A u \in Used' : Active(u)'
    <3>1. /\ Used' = Used /\ index' = index
          /\ \A c : ReadyUnits(c)' = ReadyUnits(c)
          /\ \A u : Active(u)' <=> Active(u)
      BY <2>1, <2>2 DEF Used, ReadyUnits, Active, scheduleVars
    <3>2. pc[t] = pc'[t] /\ Alone(t) /\ nextDraw' = nextDraw
      BY <2>1, <2>2
    <3> QED
      BY <2>2, <3>1, <3>2 DEF Rests, AloneSearches
  <2> QED
    BY <2>2 DEF AloneSearches, Searching, scheduleVars
<1> QED
  BY <1>1, <1>2 DEF Rests

\* While the application does not submit, nothing new is to be done.
LEMMA AppIdlesRests ==
    ASSUME IInv, Data, Batched, Rests, NeverGrows, AppIdles
    PROVE  Rests'
<1>1. UNCHANGED <<scheduleVars, currentDraw, nextDraw, unitCount>>
  BY DEF AppIdles, DrawWith, TerminateThreads, ExitThread, JoinThread, Configure, AwaitThread,
         LockSync, WaitDrawCall, CheckAwake, WakeFirst, Synchronize, Synchronized, Destroy,
         vars, appVars, drawVars, threadVars, scheduleVars, dataVars
<1>2. \A t \in Thread : \/ pc'[t] = pc[t] /\ task'[t] = task[t]
                        \/ pc[t] \in Asleep /\ pc'[t] \in Asleep
  <2>1. CASE JoinThread
    BY <2>1 DEF IInv, Types, JoinThread, Asleep
  <2>2. CASE WakeFirst
    <3>1. threadsAwake = 0
      BY <2>2 DEF IInv, AppInv, WakeFirst
    <3>2. \A t \in Thread : pc[t] \in Asleep
      BY <3>1, NoneAwake
    <3> QED
      BY <2>2, <3>2 DEF WakeFirst
  <2>3. CASE UNCHANGED <<pc, task>>
    BY <2>3
  <2> QED
    BY <2>1, <2>2, <2>3
    DEF AppIdles, DrawWith, TerminateThreads, ExitThread, Configure, AwaitThread,
        LockSync, WaitDrawCall, CheckAwake, Synchronize, Synchronized, Destroy,
        vars, threadVars
<1>3. ASSUME NEW t \in Thread, pc[t] \in Searching
      PROVE  task' = task
  <2>1. threadsAwake > 0
    BY <1>3, BusyAwake DEF Searching, Busy, Holding
  <2>2. ~WakeFirst
    BY <2>1 DEF WakeFirst, IInv, AppInv
  <2> QED
    BY <2>2 DEF AppIdles, DrawWith, TerminateThreads, ExitThread, JoinThread, Configure,
         AwaitThread, LockSync, WaitDrawCall, CheckAwake, Synchronize, Synchronized, Destroy,
         vars, threadVars
<1>4. UnitsFit'
  <2>1. CASE Configure
    <3>1. config \in DOMAIN ThreadCount /\ config < Len(ThreadCount) /\ config' = config + 1
      BY <2>1 DEF Configure, IInv, AppInv, Types
    <3>2. config + 1 \in DOMAIN ThreadCount /\ config \in Nat
      BY <3>1, Configurations
    <3>3. PICK n \in 1 .. 16 : n = ThreadCount[config]
      BY <3>1, Configurations
    <3>4. PICK m \in 1 .. 16 : m = ThreadCount[config + 1]
      BY <3>2, Configurations
    <3>5. ceilPow2(m) <= ceilPow2(n) /\ ceilPow2(n) \in Int /\ ceilPow2(m) \in Int
      <4>1. ceilPow2(m) \in {1, 2, 4, 8, 16} /\ ceilPow2(n) \in {1, 2, 4, 8, 16}
        BY PowerOfTwo
      <4>2. ceilPow2(m) <= ceilPow2(n)
        BY <3>1, <3>2, <3>3, <3>4 DEF NeverGrows
      <4> QED
        BY <4>1, <4>2
    <3>6. ceilPow2(n) <= unitCount /\ unitCount \in Int
      BY <3>3, UsedUnits DEF Rests, UnitsFit, threadCount, IInv
    <3>7. ceilPow2(m) <= unitCount'
      BY <1>1, <3>5, <3>6
    <3> QED
      BY <3>1, <3>4, <3>7 DEF UnitsFit, threadCount
  <2>2. CASE UNCHANGED config
    BY <1>1, <2>2 DEF Rests, UnitsFit, threadCount
  <2> QED
    BY <2>1, <2>2
    DEF AppIdles, DrawWith, TerminateThreads, ExitThread, JoinThread, AwaitThread, LockSync,
        WaitDrawCall, CheckAwake, WakeFirst, Synchronize, Synchronized, Destroy, vars, appVars
<1>5. NothingToDo'
  <2>1. CASE WakeFirst
    BY <2>1 DEF WakeFirst, NothingToDo
  <2>2. CASE CheckAwake
    <3>1. threadsAwake' = threadsAwake /\ (threadsAwake = 0 => appPc' = "wake")
      BY <2>2 DEF CheckAwake, threadVars
    <3> QED
      BY <1>1, <3>1 DEF Rests, NothingToDo, Used, Active, scheduleVars
  <2>3. CASE ~WakeFirst /\ ~CheckAwake
    <3>1. threadsAwake' = threadsAwake
      BY <2>3 DEF AppIdles, DrawWith, TerminateThreads, ExitThread, JoinThread, Configure,
         AwaitThread, LockSync, WaitDrawCall, Synchronize, Synchronized, Destroy,
         vars, threadVars
    <3>2. appPc \in {"published", "wake"} => appPc' = appPc
      BY <2>3 DEF AppIdles, DrawWith, TerminateThreads, ExitThread, JoinThread, Configure,
         AwaitThread, LockSync, WaitDrawCall, Synchronize, Synchronized, Destroy,
         vars, appVars
    <3> QED
      BY <1>1, <3>1, <3>2 DEF Rests, NothingToDo, Used, Active, scheduleVars
  <2> QED
    BY <2>1, <2>2, <2>3
<1>6. Used' = Used
  BY <1>1 DEF Used
<1> QED
  BY <1>1, <1>2, <1>3, <1>4, <1>5, <1>6, AppRests

\* A draw call that is submitted is to be rendered: a thread gets woken for it.
LEMMA SubmitRests ==
    ASSUME IInv, Data, Batched, Rests, SearchDrawCall \/ FillDrawCall \/ PublishDraw
    PROVE  Rests'
<1>1. /\ UNCHANGED <<scheduleVars, currentDraw, unitCount, pc, task, threadsAwake, config>>
      /\ appPc \notin {"published", "wake"}
      /\ nextDraw' = nextDraw \/ PublishDraw
  BY DEF SearchDrawCall, FillDrawCall, PublishDraw, threadVars
<1>2. Used' = Used
  BY <1>1 DEF Used
<1>3. UnitsFit'
  BY <1>1 DEF Rests, UnitsFit, threadCount
<1>4. ASSUME NEW t \in Thread, pc[t] \in Searching
      PROVE  nextDraw' = nextDraw
  <2>1. schedulerMutex = t
    BY <1>4 DEF IInv, WorkerInv, Searching, Holding
  <2>2. ~PublishDraw
    BY <2>1, CountsFit DEF PublishDraw
  <2> QED
    BY <1>1, <2>2
<1>5. NothingToDo'
  <2>1. CASE nextDraw' = nextDraw
    BY <1>1, <1>2, <2>1 DEF Rests, NothingToDo, Active, scheduleVars
  <2>2. CASE PublishDraw
    <3>1. appPc' = "published"
      BY <2>2 DEF PublishDraw
    <3> QED
      BY <1>1, <1>2, <3>1 DEF Rests, NothingToDo, Active, scheduleVars
  <2> QED
    BY <1>1, <2>1, <2>2
<1> QED
  BY <1>1, <1>2, <1>3, <1>4, <1>5, AppRests

\* A renderer is given its threads anew while nothing is left to be done.
LEMMA InitializeThreadRests ==
    ASSUME IInv, Data, Batched, Rests, InitializeThread
    PROVE  Rests' /\ Batched'
<1>1. /\ appPc = "initialize" /\ appPc' = "created" /\ unitCount' = ceilPow2(threadCount)
      /\ UNCHANGED <<scheduleVars, currentDraw, nextDraw, threadsAwake, config, taskQueue>>
  BY DEF InitializeThread, drawVars, scheduleVars
<1>2. threadsAwake = 0 /\ appIndex \in Thread
  BY <1>1 DEF IInv, AppInv
<1>3. taskQueue = <<>> /\ (\A u \in Used : ~Active(u)) /\ currentDraw = nextDraw
  BY <1>1, <1>2 DEF Rests, NothingToDo
<1>4. PICK n \in Nat : n = unitCount
  BY UsedUnits DEF IInv
<1>5. PICK m \in 1 .. n : m = ceilPow2(threadCount)
  <2>1. ceilPow2(threadCount) \in Nat /\ ceilPow2(threadCount) >= 1
    <3>1. ceilPow2(ThreadCount[config]) \in 1 .. ceilPow2(MaxThreads)
      BY CountsFit DEF IInv, Types
    <3>2. ceilPow2(MaxThreads) \in 1 .. 16
      BY CountsFit
    <3> QED
      BY <3>1, <3>2 DEF threadCount
  <2>2. ceilPow2(threadCount) <= n
    BY <1>4 DEF Rests, UnitsFit
  <2> QED
    BY <2>1, <2>2
<1>6. unitCount' \in 1 .. unitCount
  BY <1>1, <1>4, <1>5
<1>7. Batched'
  BY <1>3, <1>6, InitializeThreadBatched
<1>8. Used' \subseteq Used
  <2>1. Used = 0 .. n - 1 /\ Used' = 0 .. m - 1
    BY <1>1, <1>4, <1>5 DEF Used
  <2> QED
    BY <2>1
<1>9. \A t \in Thread : pc[t] \in Asleep /\ pc'[t] \in Asleep
  <2>1. \A t \in Thread : pc[t] \in Asleep
    BY <1>2, NoneAwake
  <2>2. pc' = [pc EXCEPT ![appIndex] = "loop"]
    BY DEF InitializeThread
  <2> QED
    BY <1>2, <2>1, <2>2 DEF IInv, Types, Asleep
<1>10. UnitsFit'
  <2>1. ceilPow2(threadCount)' = ceilPow2(threadCount)
    BY <1>1 DEF threadCount
  <2> QED
    BY <1>1, <1>5, <2>1 DEF UnitsFit
<1>11. NothingToDo'
  <2>1. \A u \in Used' : ~Active(u)'
    BY <1>1, <1>3, <1>8 DEF Active, scheduleVars
  <2> QED
    BY <1>1, <1>3, <2>1 DEF NothingToDo
<1>12. \A t \in Thread : pc[t] \notin Searching
  BY <1>9 DEF Asleep, Searching
<1>13. Rests'
  BY <1>1, <1>8, <1>9, <1>10, <1>11, <1>12, AppRests
<1> QED
  BY <1>7, <1>13

\* Steps of a worker that is awake, and stays so.
LEMMA AwakeRests ==
    ASSUME IInv, Rests, NEW t \in Thread, task'[t].type # "SUSPEND", threadsAwake' # 0,
           UNCHANGED <<unitCount, config>>, WorkOwned',
           Alone(t)' /\ taskQueue' = <<>> =>
              /\ pc'[t] = "findPixels" => \A c \in Used : c < index' => ReadyUnits(c)' = {}
              /\ pc'[t] \in {"findPrimitives", "take"} => \A c \in Used : ReadyUnits(c)' = {}
              /\ pc'[t] = "findPrimitives" => \A u \in Used : u < index' => Active(u)'
              /\ pc'[t] = "take" => currentDraw' = nextDraw' \/ \A u \in Used : Active(u)'
    PROVE  Rests'
<1>1. \A o \in Thread \ {t} : ~Alone(o)'
  BY DEF Alone
<1>2. Used' = Used
  BY DEF Used
<1>3. AloneSearches'
  BY <1>1, <1>2 DEF AloneSearches
<1>4. NothingToDo'
  BY DEF NothingToDo
<1>5. UnitsFit'
  BY DEF Rests, UnitsFit, threadCount
<1> QED
  BY <1>3, <1>4, <1>5 DEF Rests

LEMMA OutsideRests ==
    ASSUME IInv, Rests, NEW t \in Thread, EnterLoop(t) \/ SignalSuspend(t) \/ AwaitResume(t)
    PROVE  Rests'
<1>1. PICK l \in {"exited", "suspend", "schedule", "parked", "loop"} :
          pc' = [pc EXCEPT ![t] = l]
  BY DEF EnterLoop, SignalSuspend, AwaitResume
<1>2. /\ pc[t] \in {"loop", "suspend", "parked"}
      /\ UNCHANGED <<appVars, drawVars, unitCount, task, threadsAwake, scheduleVars>>
  BY DEF EnterLoop, SignalSuspend, AwaitResume
<1>3. pc'[t] = l /\ \A o \in Thread \ {t} : pc'[o] = pc[o]
  BY <1>1 DEF IInv, Types
<1>4. Used' = Used /\ \A c : ReadyUnits(c)' = ReadyUnits(c) /\ (Active(c)' <=> Active(c))
  BY <1>2 DEF Used, ReadyUnits, Active, scheduleVars
<1>5. WorkOwned'
  <2>1. \A o \in Thread : InHand(o)' <=> InHand(o)
    BY <1>2, <1>3 DEF InHand
  <2>2. Work' = Work
    BY <1>2, <2>1 DEF Work, scheduleVars
  <2> QED
    BY <1>2, <1>4, <2>2, WorkOwnedKept DEF Rests, scheduleVars, WorkOwned
<1>6. AloneSearches'
  <2>1. \A o \in Thread : pc'[o] \in Searching => pc'[o] = pc[o] /\ (Alone(o)' <=> Alone(o))
    BY <1>2, <1>3 DEF Searching, Alone
  <2> QED
    BY <1>2, <1>4, <2>1 DEF Rests, AloneSearches, Searching, scheduleVars, drawVars
<1>7. NothingToDo' /\ UnitsFit'
  BY <1>2, <1>4 DEF Rests, NothingToDo, UnitsFit, threadCount, scheduleVars, drawVars, appVars
<1> QED
  BY <1>5, <1>6, <1>7 DEF Rests

LEMMA LockSchedulerRests ==
    ASSUME IInv, Rests, NEW t \in Thread, LockScheduler(t)
    PROVE  Rests'
<1>1. /\ pc[t] = "schedule" /\ index' = 0
      /\ UNCHANGED <<unitCount, config, task, threadsAwake, taskQueue, primitiveProgress,
                     pixelProgress>>
  BY DEF LockScheduler, appVars
<1>2. PICK l \in {"findPixels", "take"} :
         /\ pc' = [pc EXCEPT ![t] = l]
         /\ l = "take" => ~(Len(taskQueue) < threadCount - threadsAwake + 1)
  BY DEF LockScheduler, Goto
<1>3. pc'[t] = l /\ \A o \in Thread \ {t} : pc'[o] = pc[o]
  BY <1>2 DEF IInv, Types
<1>4. task[t].type # "SUSPEND" /\ threadsAwake > 0 /\ threadsAwake \in Nat
      /\ (threadsAwake = 1 <=> Alone(t))
  <2>1. task[t].type # "SUSPEND"
    BY <1>1 DEF IInv, WorkerInv, Busy
  <2> QED
    BY <2>1, AloneCounted
<1>5. WorkOwned'
  <2>1. \A o \in Thread : InHand(o)' <=> InHand(o)
    BY <1>1, <1>3 DEF InHand
  <2>2. Work' = Work /\ Used' = Used
    BY <1>1, <2>1 DEF Work, Used
  <2> QED
    BY <1>1, <2>2, WorkOwnedKept DEF Rests, WorkOwned
<1>6. ASSUME Alone(t)', taskQueue' = <<>>
      PROVE  l = "findPixels"
  <2>1. threadsAwake = 1
    BY <1>1, <1>4, <1>6 DEF Alone
  <2>2. PICK n \in 1 .. 16 : n = threadCount
    BY Configurations DEF threadCount, IInv, Types
  <2>3. Len(taskQueue) = 0
    BY <1>1, <1>6
  <2> QED
    BY <1>2, <2>1, <2>2, <2>3
<1>7. \A c \in Used : ~(c < 0)
  BY UsedUnits DEF Used, IInv
<1> QED
  BY <1>1, <1>3, <1>4, <1>5, <1>6, <1>7, AwakeRests

\* A cluster that was looked at without finding a unit has none, for who is alone.
LEMMA FindPixelTaskRests ==
    ASSUME IInv, Data, Batched, Rests, NEW t \in Thread, FindPixelTask(t)
    PROVE  Rests'
<1>1. /\ pc[t] = "findPixels"
      /\ UNCHANGED <<unitCount, config, task, threadsAwake, primitiveProgress, currentDraw,
                     nextDraw>>
  BY DEF FindPixelTask, appVars, drawVars
<1>2. index \in Used /\ index \in Nat
  <2>1. index \in Nat /\ index < unitCount
    BY <1>1 DEF IInv, Types, WorkerInv
  <2> QED
    BY <2>1, UsedUnits DEF IInv, Used
<1>3. PICK l \in {"findPixels", "findPrimitives", "take"} :
          /\ pc' = [pc EXCEPT ![t] = l]
          /\ l = "findPixels" => index' = index + 1
          /\ l # "findPixels" => index' = 0 /\ ~(index + 1 < clusterCount)
          /\ l = "take" => currentDraw = nextDraw
  <2>1. CASE index + 1 < clusterCount
    <3>1. pc' = [pc EXCEPT ![t] = "findPixels"] /\ index' = index + 1
      BY <1>1, <2>1 DEF FindPixelTask, IInv, Types
    <3> QED
      BY <3>1
  <2>2. CASE ~(index + 1 < clusterCount)
    BY <2>2 DEF FindPixelTask, Goto
  <2> QED
    BY <2>1, <2>2
<1>4. pc'[t] = l /\ \A o \in Thread \ {t} : pc'[o] = pc[o]
  BY <1>3 DEF IInv, Types
<1>5. task[t].type # "SUSPEND" /\ threadsAwake > 0 /\ threadsAwake \in Nat
  <2>1. task[t].type # "SUSPEND"
    BY <1>1 DEF IInv, WorkerInv, Busy, Holding
  <2> QED
    BY <2>1, AloneCounted
<1>6. \/ /\ UNCHANGED <<taskQueue, pixelProgress>>
         /\ pixelProgress[index].executing \/ ReadyUnits(index) = {}
      \/ \E k : /\ Covers(k, index) /\ taskQueue' = Append(taskQueue, k)
                /\ pixelProgress' = [pixelProgress EXCEPT ![index].executing = TRUE]
  <2>1. CASE ~pixelProgress[index].executing /\ ReadyUnits(index) # {}
    <3>1. PICK k : k = [type |-> "PIXELS", unit |-> Min(ReadyUnits(index)), cluster |-> index]
      OBVIOUS
    <3>2. Covers(k, index)
      BY <3>1 DEF Covers
    <3> QED
      BY <2>1, <3>1, <3>2 DEF FindPixelTask
  <2> QED
    BY <2>1 DEF FindPixelTask
<1>7. \A o \in Thread : InHand(o)' <=> InHand(o)
  BY <1>1, <1>4 DEF InHand
<1>8. Used' = Used /\ Used \subseteq Cluster
  BY <1>1, UsedUnits DEF Used, IInv
<1>9. CASE /\ UNCHANGED <<taskQueue, pixelProgress>>
           /\ pixelProgress[index].executing \/ ReadyUnits(index) = {}
  <2>1. Work' = Work
    BY <1>1, <1>7, <1>9 DEF Work
  <2>2. WorkOwned'
    BY <1>1, <1>8, <1>9, <2>1, WorkOwnedKept DEF Rests, WorkOwned
  <2>3. \A c : ReadyUnits(c)' = ReadyUnits(c)
    BY <1>1, <1>9 DEF ReadyUnits
  <2>4. ASSUME Alone(t)', taskQueue' = <<>>
        PROVE  \A c \in Used : c < index + 1 => ReadyUnits(c) = {}
    <3>1. Alone(t) /\ taskQueue = <<>>
      BY <1>1, <1>9, <2>4 DEF Alone
    <3>2. \A c \in Used : c < index => ReadyUnits(c) = {}
      BY <1>1, <3>1 DEF Rests, AloneSearches
    <3>3. ~pixelProgress[index].executing
      <4>1. SUFFICES ASSUME pixelProgress[index].executing PROVE FALSE
        OBVIOUS
      <4>2. PICK k \in Work : Covers(k, index)
        BY <1>2, <4>1 DEF Rests, WorkOwned
      <4>3. PICK o \in Thread : InHand(o) /\ k = task[o]
        BY <3>1, <4>2 DEF Work
      <4>4. o = t
        BY <3>1, <4>2, <4>3 DEF Alone, Covers
      <4> QED
        BY <1>1, <4>3, <4>4 DEF InHand
    <3>4. \A c \in Used : c < index + 1 => c < index \/ c = index
      BY <1>2 DEF Used
    <3> QED
      BY <1>9, <3>2, <3>3, <3>4
  <2>5. ASSUME l # "findPixels"
        PROVE  \A c \in Used : c < index + 1
    <3>1. PICK n \in Nat : n = unitCount
      BY UsedUnits DEF IInv
    <3>2. Used = 0 .. n - 1 /\ ~(index + 1 < n)
      BY <1>3, <2>5, <3>1 DEF Used, clusterCount
    <3> QED
      BY <1>2, <3>1, <3>2
  <2>6. Alone(t)' /\ taskQueue' = <<>> =>
           /\ l = "findPixels" => \A c \in Used : c < index' => ReadyUnits(c)' = {}
           /\ l \in {"findPrimitives", "take"} => \A c \in Used : ReadyUnits(c)' = {}
           /\ l = "findPrimitives" => \A u \in Used : u < index' => Active(u)'
           /\ l = "take" => currentDraw' = nextDraw'
    <3>1. \A c \in Used : ~(c < 0)
      BY UsedUnits DEF Used, IInv
    <3> QED
      BY <1>1, <1>3, <2>3, <2>4, <2>5, <3>1
  <2> QED
    BY <1>1, <1>4, <1>5, <2>2, <2>6, AwakeRests
<1>10. ASSUME NEW k, Covers(k, index), taskQueue' = Append(taskQueue, k),
              pixelProgress' = [pixelProgress EXCEPT ![index].executing = TRUE]
       PROVE  Rests'
  <2>1. \A i \in DOMAIN taskQueue : i \in DOMAIN taskQueue' /\ taskQueue'[i] = taskQueue[i]
    BY <1>10 DEF IInv, Types
  <2>2. taskQueue' # <<>> /\ \E i \in DOMAIN taskQueue' : taskQueue'[i] = k
    <3>1. PICK n \in Nat : n = Len(taskQueue)
      BY DEF IInv, Types
    <3>2. n + 1 \in DOMAIN taskQueue' /\ taskQueue'[n + 1] = k
      BY <1>10, <3>1 DEF IInv, Types
    <3> QED
      BY <3>2
  <2>3. Work \subseteq Work' /\ k \in Work'
    BY <1>1, <1>7, <2>1, <2>2 DEF Work
  <2>4. \A c \in Used \ {index} : pixelProgress'[c].executing <=> pixelProgress[c].executing
    BY <1>8, <1>10 DEF IInv, Types
  <2>5. WorkOwned'
    BY <1>1, <1>8, <1>10, <2>3, <2>4, WorkOwnedKept DEF Rests, WorkOwned
  <2> QED
    BY <1>1, <1>5, <2>2, <2>5, AwakeRests
<1> QED
  BY <1>6, <1>9, <1>10

\* So it is with units that could be set up.
LEMMA FindPrimitiveTaskRests ==
    ASSUME IInv, Data, Batched, Rests, NEW t \in Thread, FindPrimitiveTask(t)
    PROVE  Rests'
<1>1. /\ pc[t] = "findPrimitives" /\ currentDraw' = CurrentDraw
      /\ UNCHANGED <<unitCount, config, task, threadsAwake, pixelProgress, nextDraw>>
  BY DEF FindPrimitiveTask, appVars
<1>2. index \in Used /\ index \in Nat
  <2>1. index \in Nat /\ index < unitCount
    BY <1>1 DEF IInv, Types, WorkerInv
  <2> QED
    BY <2>1, UsedUnits DEF IInv, Used
<1>3. PICK l \in {"findPrimitives", "take"} :
          /\ pc' = [pc EXCEPT ![t] = l]
          /\ l = "findPrimitives" => index' = index + 1 /\ CurrentDraw # nextDraw
          /\ l = "take" => ~(CurrentDraw # nextDraw /\ index + 1 < unitCount)
  <2>1. CASE CurrentDraw # nextDraw /\ index + 1 < unitCount
    <3>1. pc' = [pc EXCEPT ![t] = "findPrimitives"] /\ index' = index + 1
      BY <1>1, <2>1 DEF FindPrimitiveTask, IInv, Types
    <3> QED
      BY <2>1, <3>1
  <2>2. CASE ~(CurrentDraw # nextDraw /\ index + 1 < unitCount)
    BY <2>2 DEF FindPrimitiveTask, Goto
  <2> QED
    BY <2>1, <2>2
<1>4. pc'[t] = l /\ \A o \in Thread \ {t} : pc'[o] = pc[o]
  BY <1>3 DEF IInv, Types
<1>5. task[t].type # "SUSPEND" /\ threadsAwake > 0 /\ threadsAwake \in Nat
  <2>1. task[t].type # "SUSPEND"
    BY <1>1 DEF IInv, WorkerInv, Busy, Holding
  <2> QED
    BY <2>1, AloneCounted
<1>6. \A o \in Thread : InHand(o)' <=> InHand(o)
  BY <1>1, <1>4 DEF InHand
<1>7. Used' = Used /\ Used \subseteq Unit
  BY <1>1, UsedUnits DEF Used, IInv
<1>8. CASE ~(CurrentDraw # nextDraw /\ UnitFree(index))
  <2>1. UNCHANGED <<primitiveProgress, drawCall, taskQueue>>
    BY <1>8 DEF FindPrimitiveTask
  <2>2. Work' = Work
    BY <1>1, <1>6, <2>1 DEF Work
  <2>3. WorkOwned'
    BY <1>1, <1>7, <2>1, <2>2, WorkOwnedKept DEF Rests, WorkOwned
  <2>4. \A c : ReadyUnits(c)' = ReadyUnits(c) /\ (Active(c)' <=> Active(c))
    BY <1>1, <2>1 DEF ReadyUnits, Active
  <2>5. ASSUME Alone(t)', taskQueue' = <<>>
        PROVE  /\ \A c \in Used : ReadyUnits(c) = {}
               /\ CurrentDraw # nextDraw => \A u \in Used : u < index + 1 => Active(u)
    <3>1. Alone(t) /\ taskQueue = <<>>
      BY <1>1, <2>1, <2>5 DEF Alone
    <3>2. \A u \in Used : u < index + 1 => u < index \/ u = index
      BY <1>2 DEF Used
    <3>3. CurrentDraw # nextDraw => Active(index)
      BY <1>8 DEF UnitFree, Active
    <3> QED
      BY <1>1, <3>1, <3>2, <3>3 DEF Rests, AloneSearches
  <2>6. ASSUME l = "take", CurrentDraw # nextDraw
        PROVE  \A u \in Used : u < index + 1
    <3>1. PICK n \in Nat : n = unitCount
      BY UsedUnits DEF IInv
    <3>2. Used = 0 .. n - 1 /\ ~(index + 1 < n)
      BY <1>3, <2>6, <3>1 DEF Used
    <3> QED
      BY <1>2, <3>1, <3>2
  <2>7. Alone(t)' /\ taskQueue' = <<>> =>
           /\ \A c \in Used : ReadyUnits(c)' = {}
           /\ l = "findPrimitives" => \A u \in Used : u < index' => Active(u)'
           /\ l = "take" => currentDraw' = nextDraw' \/ \A u \in Used : Active(u)'
    BY <1>1, <1>3, <2>4, <2>5, <2>6
  <2> QED
    BY <1>1, <1>4, <1>5, <2>3, <2>7, AwakeRests
<1>9. CASE CurrentDraw # nextDraw /\ UnitFree(index)
  <2>1. PICK k : k = [type |-> "PRIMITIVES", unit |-> index, cluster |-> 0]
    OBVIOUS
  <2>2. taskQueue' = Append(taskQueue, k) /\ Fills(k, index)
    BY <1>9, <2>1 DEF FindPrimitiveTask, Fills
  <2>3. \A u \in Used \ {index} : primitiveProgress'[u] = primitiveProgress[u]
    <3>1. PICK p : primitiveProgress' = [primitiveProgress EXCEPT ![index] = p]
      BY <1>9 DEF FindPrimitiveTask
    <3> QED
      BY <1>7, <3>1 DEF IInv, Types
  <2>4. \A i \in DOMAIN taskQueue : i \in DOMAIN taskQueue' /\ taskQueue'[i] = taskQueue[i]
    BY <2>2 DEF IInv, Types
  <2>5. taskQueue' # <<>> /\ \E i \in DOMAIN taskQueue' : taskQueue'[i] = k
    <3>1. PICK n \in Nat : n = Len(taskQueue)
      BY DEF IInv, Types
    <3>2. n + 1 \in DOMAIN taskQueue' /\ taskQueue'[n + 1] = k
      BY <2>2, <3>1 DEF IInv, Types
    <3> QED
      BY <3>2
  <2>6. Work \subseteq Work' /\ k \in Work'
    BY <1>1, <1>6, <2>4, <2>5 DEF Work
  <2>7. WorkOwned'
    BY <1>1, <1>7, <2>2, <2>3, <2>6, WorkOwnedKept DEF Rests, WorkOwned
  <2> QED
    BY <1>1, <1>5, <2>5, <2>7, AwakeRests
<1> QED
  BY <1>8, <1>9

\* Who is alone and has found no task leaves nothing behind.
LEMMA TakeTaskRests ==
    ASSUME IInv, Data, Batched, Rests, NEW t \in Thread, TakeTask(t)
    PROVE  Rests'
<1>1. /\ pc[t] = "take"
      /\ UNCHANGED <<unitCount, config, primitiveProgress, pixelProgress, currentDraw, nextDraw,
                     appPc>>
  BY DEF TakeTask, appVars, drawVars
<1>2. task[t].type # "SUSPEND" /\ threadsAwake > 0 /\ threadsAwake \in Nat
      /\ (threadsAwake = 1 <=> Alone(t))
  <2>1. task[t].type # "SUSPEND"
    BY <1>1 DEF IInv, WorkerInv, Busy, Holding
  <2> QED
    BY <2>1, AloneCounted
<1>3. ~InHand(t) /\ \A o \in Thread \ {t} : pc[o] \notin Searching
  BY <1>1 DEF InHand, IInv, WorkerInv, Holding, Searching
<1>4. Used' = Used
  BY <1>1 DEF Used
<1>5. CASE taskQueue # <<>>
  <2>1. /\ task' = [task EXCEPT ![t] = Head(taskQueue)] /\ taskQueue' = Tail(taskQueue)
        /\ threadsAwake' = threadsAwake
    BY <1>5 DEF TakeTask
  <2>2. /\ Head(taskQueue) = taskQueue[1] /\ 1 \in DOMAIN taskQueue
        /\ \A i \in DOMAIN taskQueue : i = 1 \/ \E j \in DOMAIN taskQueue' : taskQueue'[j] = taskQueue[i]
    <3>1. \A i \in DOMAIN taskQueue : i = 1 \/ (i - 1 \in DOMAIN taskQueue' /\ taskQueue'[i - 1] = taskQueue[i])
      BY <1>5, <2>1 DEF IInv, Types
    <3> QED
      BY <1>5, <3>1 DEF IInv, Types
  <2>3. PICK h : h = taskQueue[1]
    OBVIOUS
  <2>4. h.type \in {"PIXELS", "PRIMITIVES"}
    BY <2>2, <2>3 DEF IInv, ClaimInv, Claimed
  <2>5. PICK l \in {"wakeup", "primitives", "pixels"} : pc' = [pc EXCEPT ![t] = l]
    <3>1. Execution(h.type) \in {"primitives", "pixels"}
      BY <2>4 DEF Execution
    <3>2. Goto(t, "wakeup") \/ Goto(t, Execution(h.type))
      BY <1>5, <2>2, <2>3 DEF TakeTask
    <3> QED
      BY <3>1, <3>2 DEF Goto
  <2>6. /\ pc'[t] = l /\ task'[t] = h
        /\ \A o \in Thread \ {t} : pc'[o] = pc[o] /\ task'[o] = task[o]
    BY <2>1, <2>2, <2>3, <2>5 DEF IInv, Types
  <2>7. InHand(t)' /\ \A o \in Thread \ {t} : InHand(o)' <=> InHand(o)
    BY <2>6 DEF InHand
  <2>8. Work \subseteq Work'
    <3>1. ASSUME NEW i \in DOMAIN taskQueue
          PROVE  taskQueue[i] \in Work'
      BY <2>2, <2>3, <2>6, <2>7 DEF Work
    <3>2. ASSUME NEW o \in Thread, InHand(o)
          PROVE  task[o] \in Work'
      BY <1>3, <2>6, <2>7, <3>2 DEF Work
    <3> QED
      BY <3>1, <3>2 DEF Work
  <2>9. WorkOwned'
    BY <1>1, <1>4, <2>8, WorkOwnedKept DEF Rests, WorkOwned
  <2>10. task'[t].type # "SUSPEND" /\ pc'[t] \notin Searching
    BY <2>4, <2>6 DEF Searching
  <2> QED
    BY <1>1, <1>2, <2>1, <2>9, <2>10, AwakeRests DEF Searching
<1>6. CASE taskQueue = <<>>
  <2>1. /\ task' = [task EXCEPT ![t] = NoTask("SUSPEND")] /\ taskQueue' = taskQueue
        /\ threadsAwake' = threadsAwake - 1 /\ pc' = [pc EXCEPT ![t] = "suspend"]
    BY <1>6 DEF TakeTask, Goto
  <2>2. /\ pc'[t] = "suspend"
        /\ \A o \in Thread \ {t} : pc'[o] = pc[o] /\ task'[o] = task[o]
    BY <2>1 DEF IInv, Types
  <2>3. \A o \in Thread : (InHand(o)' <=> InHand(o)) /\ (InHand(o) => task'[o] = task[o])
    BY <1>3, <2>2 DEF InHand
  <2>4. WorkOwned'
    <3>1. Work' = Work
      BY <2>1, <2>3 DEF Work
    <3> QED
      BY <1>1, <1>4, <3>1, WorkOwnedKept DEF Rests, WorkOwned
  <2>5. AloneSearches'
    <3>1. \A o \in Thread : pc'[o] \notin Searching
      BY <1>3, <2>2 DEF Searching
    <3> QED
      BY <3>1 DEF AloneSearches, Searching
  <2>6. UnitsFit'
    BY <1>1 DEF Rests, UnitsFit, threadCount
  <2>7. ASSUME threadsAwake' = 0
        PROVE  (\A u \in Used : ~Active(u)) /\ currentDraw = nextDraw
    <3>1. Alone(t)
      BY <1>2, <2>1, <2>7
    <3>2. /\ \A c \in Used : ReadyUnits(c) = {}
          /\ currentDraw = nextDraw \/ \A u \in Used : Active(u)
      BY <1>1, <1>6, <3>1 DEF Rests, AloneSearches
    <3>3. \A o \in Thread : ~InHand(o)
      <4>1. \A o \in Thread : InHand(o) => pc[o] \in Busy
        BY DEF InHand, Busy, Holding, Rendering
      <4> QED
        BY <1>3, <3>1, <4>1 DEF Alone, IInv, WorkerInv
    <3>4. Work = {}
      BY <1>6, <3>3 DEF Work
    <3>5. \A u \in Used : ~Active(u)
      BY <3>2, <3>4, CoreHolds, NothingLeft DEF Rests
    <3> QED
      BY <3>2, <3>5, UsedUnits DEF IInv
  <2>8. NothingToDo'
    BY <1>1, <1>4, <1>6, <2>1, <2>7 DEF NothingToDo, Active
  <2> QED
    BY <2>4, <2>5, <2>6, <2>8 DEF Rests
<1> QED
  BY <1>5, <1>6

LEMMA WakeThreadRests ==
    ASSUME IInv, Data, Batched, Rests, NEW t \in Thread, WakeThread(t)
    PROVE  Rests'
<1>1. /\ pc[t] = "wakeup" /\ threadsAwake' = threadsAwake + 1
      /\ UNCHANGED <<unitCount, config, taskQueue, primitiveProgress, pixelProgress>>
  BY DEF WakeThread, appVars
<1>2. Sleepers # {} /\ Claimed(task[t]) /\ task[t].type # "SUSPEND"
  BY <1>1 DEF IInv, WorkerInv, ClaimInv, InHand, Busy, Holding
<1>3. PICK i \in Thread : i = Min(Sleepers) /\ i \in Sleepers
  <2>1. Sleepers \subseteq Thread
    BY SleepersFit DEF IInv
  <2>2. Min(Sleepers) \in Sleepers
    BY <1>2, <2>1, CountsFit, LeastOf
  <2> QED
    BY <2>1, <2>2
<1>4. i # t /\ pc[i] \in Asleep
  <2>1. task[i].type = "SUSPEND"
    BY <1>3 DEF Sleepers
  <2> QED
    BY <1>2, <2>1 DEF IInv, Types, WorkerInv
<1>5. task' = [task EXCEPT ![i] = NoTask("RESUME")]
  BY <1>3 DEF WakeThread
<1>6. PICK l \in {"wakeup", "primitives", "pixels"} : pc' = [pc EXCEPT ![t] = l]
  <2>1. CASE UNCHANGED pc
    <3>1. pc' = [pc EXCEPT ![t] = "wakeup"]
      BY <1>1, <2>1 DEF IInv, Types
    <3> QED
      BY <3>1
  <2>2. CASE Goto(t, Execution(task[t].type))
    <3>1. task[t].type \in {"PIXELS", "PRIMITIVES"}
      BY <1>2 DEF Claimed
    <3>2. Execution(task[t].type) \in {"primitives", "pixels"}
      BY <3>1 DEF Execution
    <3> QED
      BY <2>2, <3>2 DEF Goto
  <2> QED
    BY <2>1, <2>2 DEF WakeThread
<1>7. /\ pc'[t] = l /\ \A o \in Thread \ {t} : pc'[o] = pc[o]
      /\ \A o \in Thread \ {i} : task'[o] = task[o]
  BY <1>5, <1>6 DEF IInv, Types
<1>8. \A o \in Thread : InHand(o) => InHand(o)' /\ task'[o] = task[o]
  BY <1>4, <1>7 DEF InHand, Asleep
<1>9. WorkOwned'
  <2>1. Work \subseteq Work' /\ Used' = Used
    BY <1>1, <1>8 DEF Work, Used
  <2> QED
    BY <1>1, <2>1, WorkOwnedKept DEF Rests, WorkOwned
<1>10. task'[t].type # "SUSPEND" /\ pc'[t] \notin Searching /\ threadsAwake' # 0
  <2>1. threadsAwake \in Nat
    BY <1>2, AloneCounted
  <2> QED
    BY <1>1, <1>2, <1>4, <1>7, <2>1 DEF Searching
<1> QED
  BY <1>1, <1>9, <1>10, AwakeRests DEF Searching

\* Work that is done is not marked any more.
LEMMA DoneRests ==
    ASSUME IInv, Data, Batched, Rests, NEW t \in Thread, ExecutePrimitives(t) \/ FinishPixels(t)
    PROVE  Rests'
<1>1. /\ pc[t] \in {"primitives", "finished"} /\ pc' = [pc EXCEPT ![t] = "schedule"]
      /\ UNCHANGED <<unitCount, config, task, threadsAwake, taskQueue>>
  BY DEF ExecutePrimitives, FinishPixels, Goto, appVars
<1>2. /\ pc'[t] = "schedule" /\ \A o \in Thread \ {t} : pc'[o] = pc[o]
  BY <1>1 DEF IInv, Types
<1>3. task[t].type # "SUSPEND" /\ threadsAwake > 0 /\ threadsAwake \in Nat
  <2>1. task[t].type # "SUSPEND"
    BY <1>1 DEF IInv, WorkerInv, Busy, Rendering
  <2> QED
    BY <2>1, AloneCounted
<1>4. \A k \in Work : k \in Work' \/ k = task[t]
  <2>1. \A o \in Thread \ {t} : InHand(o)' <=> InHand(o)
    BY <1>2 DEF InHand
  <2> QED
    BY <1>1, <2>1 DEF Work
<1>5. Used' = Used /\ Used \subseteq Unit /\ Used \subseteq Cluster
  BY <1>1, UsedUnits DEF Used, IInv
<1>6. WorkOwned'
  <2>1. CASE ExecutePrimitives(t)
    <3>1. task[t].type = "PRIMITIVES"
      BY <2>1 DEF ExecutePrimitives, IInv, WorkerInv
    <3>2. PICK u \in Used : u = task[t].unit
      BY <2>1, <3>1 DEF ExecutePrimitives, Batched, WorkIs, SetsUp
    <3>3. PICK n \in Nat : n = unitCount
      BY UsedUnits DEF IInv
    <3>4. /\ primitiveProgress' = [primitiveProgress EXCEPT ![u].references = n]
          /\ pixelProgress' = pixelProgress
      BY <2>1, <3>2, <3>3 DEF ExecutePrimitives, clusterCount
    <3>5. /\ ~(primitiveProgress'[u].references < 0)
          /\ \A v \in Used \ {u} : primitiveProgress'[v] = primitiveProgress[v]
      BY <1>5, <3>4 DEF IInv, Types
    <3>6. \A c \in Used : \A k \in Work : Covers(k, c) => k \in Work'
      BY <1>4, <3>1 DEF Covers
    <3>7. \A v \in Used \ {u} : \A k \in Work : Fills(k, v) => k \in Work'
      BY <1>4, <3>2 DEF Fills
    <3> QED
      BY <1>5, <3>4, <3>5, <3>6, <3>7, WorkOwnedKept DEF Rests
  <2>2. CASE FinishPixels(t)
    <3>1. task[t].type = "PIXELS"
      BY <2>2 DEF FinishPixels, IInv, WorkerInv, Rendering
    <3>2. PICK x \in Cluster : x = task[t].cluster
      BY DEF IInv, Types, TaskType
    <3>3. /\ pixelProgress' = [pixelProgress EXCEPT ![x].executing = FALSE]
          /\ primitiveProgress' = primitiveProgress
      BY <2>2, <3>2 DEF FinishPixels
    <3>4. /\ ~pixelProgress'[x].executing
          /\ \A c \in Used \ {x} : pixelProgress'[c] = pixelProgress[c]
      BY <1>5, <3>3 DEF IInv, Types
    <3>5. \A v \in Used : \A k \in Work : Fills(k, v) => k \in Work'
      BY <1>4, <3>1 DEF Fills
    <3>6. \A c \in Used \ {x} : \A k \in Work : Covers(k, c) => k \in Work'
      BY <1>4, <3>2 DEF Covers
    <3> QED
      BY <1>5, <3>3, <3>4, <3>5, <3>6, WorkOwnedKept DEF Rests
  <2> QED
    BY <2>1, <2>2
<1> QED
  BY <1>1, <1>2, <1>3, <1>6, AwakeRests

\* Whoever renders a batch or finishes it has its work in hand, and keeps it.
LEMMA InHandRests ==
    ASSUME IInv, Data, Batched, Rests, NEW t \in Thread,
           \/ ExecutePixels(t) \/ UpdateProgress(t) \/ ReleaseUnit(t) \/ ReleaseDraw(t)
           \/ RetireDraw(t) \/ FreeDrawCall(t) \/ SignalApp(t)
    PROVE  Rests'
<1>1. PICK l \in {"progress", "releaseUnit", "releaseDraw", "retire", "free", "signalApp",
                  "finished"} : pc' = [pc EXCEPT ![t] = l]
  BY DEF ExecutePixels, UpdateProgress, ReleaseUnit, ReleaseDraw, RetireDraw, FreeDrawCall,
         SignalApp, Goto
<1>2. /\ pc[t] \in Rendering
      /\ UNCHANGED <<unitCount, config, task, threadsAwake, taskQueue>>
  BY DEF ExecutePixels, UpdateProgress, ReleaseUnit, ReleaseDraw, RetireDraw, FreeDrawCall,
         SignalApp, Rendering, appVars, scheduleVars
<1>3. pc'[t] = l /\ \A o \in Thread \ {t} : pc'[o] = pc[o]
  BY <1>1 DEF IInv, Types
<1>4. task[t].type # "SUSPEND" /\ threadsAwake > 0 /\ threadsAwake \in Nat
  <2>1. task[t].type # "SUSPEND"
    BY <1>2 DEF IInv, WorkerInv, Busy
  <2> QED
    BY <2>1, AloneCounted
<1>5. Work' = Work /\ Used' = Used
  <2>1. \A o \in Thread : InHand(o)' <=> InHand(o)
    BY <1>2, <1>3 DEF InHand, Rendering
  <2> QED
    BY <1>2, <2>1 DEF Work, Used
<1>6. Used \subseteq Unit /\ Used \subseteq Cluster
  BY UsedUnits DEF IInv
<1>7. \A c \in Used : pixelProgress'[c].executing <=> pixelProgress[c].executing
  <2>1. CASE UpdateProgress(t)
    <3>1. PICK x \in Cluster : x = task[t].cluster
      BY DEF IInv, Types, TaskType
    <3>2. PICK a, b : \/ pixelProgress' = [pixelProgress EXCEPT ![x] =
                                             [pixelProgress[x] EXCEPT !.drawCall = a, !.processed = b]]
                      \/ pixelProgress' = [pixelProgress EXCEPT ![x] =
                                             [pixelProgress[x] EXCEPT !.processed = b]]
      BY <2>1, <3>1 DEF UpdateProgress
    <3> QED
      BY <1>6, <3>2 DEF IInv, Types
  <2>2. CASE UNCHANGED pixelProgress
    BY <2>2
  <2> QED
    BY <2>1, <2>2 DEF ExecutePixels, ReleaseUnit, ReleaseDraw, RetireDraw, FreeDrawCall, SignalApp,
                      scheduleVars
<1>8. \A u \in Used : primitiveProgress'[u].references < 0 => primitiveProgress[u].references < 0
  <2>1. CASE ReleaseUnit(t)
    <3>1. PICK v \in Used : v = task[t].unit /\ primitiveProgress[v].references > 0
      BY <2>1 DEF ReleaseUnit, Batched, FinishInv
    <3>2. PICK r \in Nat \ {0} : r = primitiveProgress[v].references
      BY <3>1, ProgressTyped DEF IInv
    <3>3. PICK q \in Nat : q = r - 1
      OBVIOUS
    <3>4. primitiveProgress' = [primitiveProgress EXCEPT ![v].references = q]
      BY <2>1, <3>1, <3>2, <3>3 DEF ReleaseUnit
    <3> QED
      BY <1>6, <3>3, <3>4 DEF IInv, Types
  <2>2. CASE UNCHANGED primitiveProgress
    BY <2>2
  <2> QED
    BY <2>1, <2>2 DEF ExecutePixels, UpdateProgress, ReleaseDraw, RetireDraw, FreeDrawCall,
                      SignalApp, scheduleVars
<1>9. WorkOwned'
  BY <1>5, <1>7, <1>8, WorkOwnedKept DEF Rests
<1> QED
  BY <1>2, <1>3, <1>4, <1>9, AwakeRests

-----------------------------------------------------------------------------
(* The invariant of draw calls                                              *)

\* All steps keep both.
LEMMA DeepStep ==
    ASSUME NeverGrows, IInv, Data, Batched, Rests, [Next]_vars
    PROVE  Batched' /\ Rests'
<1>1. CASE AppIdles
  BY <1>1, AppIdlesStep, AppIdlesRests
<1>2. CASE SearchDrawCall
  BY <1>2, SearchDrawCallStep, SubmitRests
<1>3. CASE FillDrawCall
  BY <1>3, FillDrawCallStep, SubmitRests
<1>4. CASE PublishDraw
  BY <1>4, PublishDrawStep, SubmitRests
<1>5. CASE InitializeThread
  BY <1>5, InitializeThreadRests
<1>6. ASSUME NEW t \in Thread, Worker(t)
      PROVE  Batched' /\ Rests'
  <2>1. CASE EnterLoop(t) \/ SignalSuspend(t) \/ AwaitResume(t)
    BY <2>1, OutsideBatched, OutsideRests
  <2>2. CASE LockScheduler(t)
    BY <2>2, LockSchedulerBatched, LockSchedulerRests
  <2>3. CASE FindPixelTask(t)
    BY <2>3, FindPixelTaskBatched, FindPixelTaskRests
  <2>4. CASE FindPrimitiveTask(t)
    BY <2>4, FindPrimitiveTaskBatched, FindPrimitiveTaskRests
  <2>5. CASE TakeTask(t)
    BY <2>5, TakeTaskBatched, TakeTaskRests
  <2>6. CASE WakeThread(t)
    BY <2>6, WakeThreadBatched, WakeThreadRests
  <2>7. CASE ExecutePrimitives(t)
    BY <2>7, ExecutePrimitivesBatched, DoneRests
  <2>8. CASE FinishPixels(t)
    BY <2>8, FinishPixelsBatched, DoneRests
  <2>9. CASE ExecutePixels(t) \/ SignalApp(t)
    BY <2>9, ExecutePixelsBatched, InHandRests
  <2>10. CASE UpdateProgress(t)
    BY <2>10, UpdateProgressBatched, InHandRests
  <2>11. CASE ReleaseUnit(t)
    BY <2>11, ReleaseUnitBatched, InHandRests
  <2>12. CASE ReleaseDraw(t)
    BY <2>12, ReleaseDrawBatched, InHandRests
  <2>13. CASE RetireDraw(t)
    BY <2>13, RetireDrawBatched, InHandRests
  <2>14. CASE FreeDrawCall(t)
    BY <2>14, FreeDrawCallBatched, InHandRests
  <2> QED
    BY <1>6, <2>1, <2>2, <2>3, <2>4, <2>5, <2>6, <2>7, <2>8, <2>9, <2>10, <2>11, <2>12, <2>13,
       <2>14 DEF Worker
<1>7. CASE UNCHANGED vars
  BY <1>1, <1>7 DEF AppIdles
<1>8. CASE App
  BY <1>1, <1>2, <1>3, <1>4, <1>5, <1>8 DEF App, AppIdles
<1> QED
  BY <1>6, <1>7, <1>8 DEF Next, Dead
-----------------------------------------------------------------------------
(* What it implies                                                          *)

\* A unit that is set up is not referred to, and no other task is for it.
LEMMA UnitHeld ==
    ASSUME IInv, Batched
    PROVE  UnitExclusive
<1> SUFFICES ASSUME NEW t \in Thread, pc[t] = "primitives"
             PROVE  /\ \A o \in Thread \ {t} : ~Uses(o, task[t].unit)
                    /\ \A i \in DOMAIN taskQueue : taskQueue[i].unit # task[t].unit
  BY DEF UnitExclusive
<1> DEFINE u == task[t].unit
<1>1. task[t].type = "PRIMITIVES" /\ InHand(t) /\ primitiveProgress[u].references < 0
  BY DEF IInv, WorkerInv, ClaimInv, Claimed, InHand
<1>2. u \in Used /\ primitiveProgress[u].references \in Int
  <2>1. Types
    BY DEF IInv
  <2>2. u \in Used
    BY <1>1 DEF Batched, WorkIs, SetsUp
  <2> QED
    BY <2>1, <2>2, ProgressTyped
<1>3. ~(primitiveProgress[u].references > 0)
  BY <1>1, <1>2
<1>4. ASSUME NEW o \in Thread \ {t}, Uses(o, u)
      PROVE  FALSE
  <2>1. InHand(o) /\ task[o].unit = u
    BY <1>4 DEF Uses, InHand
  <2>2. CASE task[o].type = "PRIMITIVES"
    BY <1>1, <2>1, <2>2 DEF IInv, TasksDistinct, SameWork
  <2>3. CASE task[o].type = "PIXELS"
    <3>1. pc[o] # "primitives"
      BY <2>3 DEF IInv, WorkerInv
    <3>2. CASE pc[o] = "releaseUnit"
      BY <1>3, <2>1, <3>2 DEF Batched, FinishInv
    <3>3. CASE pc[o] \in {"wakeup", "pixels", "progress"}
      BY <1>3, <2>1, <2>3, <3>3 DEF Batched, WorkIs, Renders
    <3> QED
      BY <1>4, <3>1, <3>2, <3>3 DEF Uses
  <2> QED
    BY <2>1, <2>2, <2>3 DEF IInv, ClaimInv, Claimed
<1>5. ASSUME NEW i \in DOMAIN taskQueue, taskQueue[i].unit = u
      PROVE  FALSE
  <2>1. CASE taskQueue[i].type = "PRIMITIVES"
    BY <1>1, <1>5, <2>1 DEF IInv, TasksDistinct, SameWork
  <2>2. CASE taskQueue[i].type = "PIXELS"
    BY <1>3, <1>5, <2>2 DEF Batched, WorkIs, Renders
  <2> QED
    BY <2>1, <2>2 DEF IInv, ClaimInv, Claimed
<1> QED
  BY <1>4, <1>5

\* A draw call keeps its last reference until its last batch was rendered.
LEMMA AheadReferred ==
    ASSUME IInv, Data, Batched
    PROVE  CurrentDrawInFlight
<1>0. Core
  BY CoreHolds
<1> SUFFICES ASSUME NEW d \in currentDraw .. nextDraw - 1
             PROVE  drawCall[ObjectOf(d)].draw = d /\ drawCall[ObjectOf(d)].references > 0
  BY DEF CurrentDrawInFlight
<1>1. currentDraw \in Nat /\ nextDraw \in Nat /\ currentDraw <= nextDraw
  BY <1>0 DEF Core, KeptInv, Data
<1>2. d \in Int /\ currentDraw <= d /\ d < nextDraw
  BY <1>1
<1>3. PICK s \in Slot : s = ObjectOf(d)
  BY <1>0, <1>1, <1>2, ObjectIs DEF Core
<1>4. InFlight(d) /\ Open(s) /\ drawCall[s].draw = d
  BY <1>0, <1>2, <1>3, Ahead DEF InFlight, Open, Object
<1>5. ASSUME drawCall[s].references = 0
      PROVE  FALSE
  <2>1. /\ drawCall[s].primitive >= drawCall[s].count /\ UnitsOf(d) = {}
        /\ drawCall[s].count \in Nat \ {0}
    BY <1>0, <1>4, <1>5, References DEF Core
  <2>2. CASE d > currentDraw
    <3>1. drawCall[s].primitive = 0
      BY <1>0, <1>4, <2>2 DEF Core, CountInv
    <3> QED
      BY <2>1, <3>1
  <2>3. CASE d = currentDraw
    <3>1. Exhausted /\ currentDraw < nextDraw
      BY <1>2, <1>3, <2>1, <2>3 DEF Exhausted
    <3>2. PICK u \in Used : LastIn(u)
      BY <3>1 DEF Batched, SearchInv
    <3>3. u \in UnitsOf(d)
      BY <2>3, <3>2 DEF UnitsOf, LastIn
    <3> QED
      BY <2>1, <3>3
  <2> QED
    BY <1>1, <1>2, <2>2, <2>3
<1>6. drawCall[s].references \in Nat
  BY <1>0, <1>4, References DEF Core
<1> QED
  BY <1>3, <1>4, <1>5, <1>6

\* A unit that is referred to by a cluster holds the batch it is to render.
LEMMA RendersItsBatch ==
    ASSUME IInv, Data, Batched
    PROVE  PixelInputsStable
<1> SUFFICES ASSUME NEW t \in Thread, pc[t] = "pixels"
             PROVE  LET p == pixelProgress[task[t].cluster]
                    IN  /\ batchOf[task[t].unit] = [draw |-> p.drawCall, first |-> p.processed]
                        /\ drawCall[ObjectOf(p.drawCall)].draw = p.drawCall
  BY DEF PixelInputsStable
<1>1. task[t].type = "PIXELS"
  BY DEF IInv, WorkerInv, Rendering
<1>2. Renders(task[t])
  BY DEF Batched, WorkIs
<1>3. PICK u \in Used : u = task[t].unit
  BY <1>1, <1>2 DEF Renders
<1>4. UnitIs(u) /\ primitiveProgress[u].references > 0
  <2>1. primitiveProgress[u].references > 0
    BY <1>1, <1>2, <1>3 DEF Renders
  <2>2. Active(u)
    BY <2>1 DEF Active
  <2> QED
    BY <2>1, <2>2 DEF Batched, UnitInv
<1> QED
  BY <1>1, <1>2, <1>3, <1>4 DEF Renders, UnitIs, InFlight, Object

\* Without a worker awake no draw call is left.
LEMMA NothingUnfinished ==
    ASSUME IInv, Data, Batched, Rests
    PROVE  Quiescent
<1>0. Core
  BY CoreHolds
<1> SUFFICES ASSUME threadsAwake = 0, appPc \notin {"published", "wake"}
             PROVE  /\ taskQueue = <<>>
                    /\ currentDraw \in {nextDraw, nextDraw - 1}
                    /\ \A s \in Slot : drawCall[s].draw \in 0 .. nextDraw - 1 =>
                                           drawCall[s].references = -1
                    /\ \A u \in Unit : primitiveProgress[u].references = 0
  BY DEF Quiescent
<1>1. taskQueue = <<>> /\ currentDraw = nextDraw /\ \A u \in Used : ~Active(u)
  BY DEF Rests, NothingToDo
<1>2. \A u \in Unit : primitiveProgress[u].references = 0
  BY <1>0, <1>1 DEF Core, UnitInv, Active
<1>3. \A t \in Thread : pc[t] \in Asleep
  BY NoneAwake
<1>4. ASSUME NEW s \in Slot, drawCall[s].draw \in 0 .. nextDraw - 1, Open(s)
      PROVE  FALSE
  <2> DEFINE o == drawCall[s]
             N == Batches(<<o.count, o.batch>>)
             x == Cardinality(UnitsOf(o.draw))
             y == Cardinality(Releasing(s))
  <2>1. o.count \in Nat \ {0} /\ o.batch \in Nat \ {0} /\ o.references \in Nat
    BY <1>0, <1>4, References DEF Core
  <2>2. N \in Nat \ {0} /\ \A k \in Nat : k < N <=> k * o.batch < o.count
    BY <2>1, BatchCount
  <2>3. PICK k \in Nat : k <= N /\ o.primitive = k * o.batch /\ o.references = N - k + x + y
    BY <1>0, <1>4 DEF Core, CountInv, Counted
  <2>4. UnitsOf(o.draw) = {} /\ Releasing(s) = {}
    BY <1>1, <1>3 DEF UnitsOf, Releasing, Asleep
  <2>5. x = 0 /\ y = 0
    BY <2>4, FS_EmptySet
  <2>6. o.primitive >= o.count
    <3>1. nextDraw \in Nat
      BY <1>0 DEF Core, KeptInv, Data
    <3>2. o.draw < currentDraw
      BY <1>1, <1>4, <3>1
    <3> QED
      BY <1>0, <1>4, <3>2 DEF Core, CountInv
  <2>7. PICK p \in Nat : p = k * o.batch
    BY <2>1, Multiples
  <2> HIDE DEF o, N, x, y
  <2>8. ~(p < o.count)
    BY <2>1, <2>3, <2>6, <2>7
  <2>9. o.references = 0
    BY <2>2, <2>3, <2>5, <2>7, <2>8
  <2>10. PICK t \in Thread : pc[t] \in Retiring
    BY <1>0, <2>9 DEF Core, FinishInv, o
  <2> QED
    BY <1>3, <2>10 DEF Retiring, Asleep
<1> QED
  BY <1>1, <1>2, <1>4 DEF Open

-----------------------------------------------------------------------------
(* The resource sync                                                        *)

(* Which of the shared variables a step of a worker changes, and which step.*)
LEMMA WorkerChanges ==
    ASSUME NEW t \in Thread, Worker(t)
    PROVE  /\ UNCHANGED <<appVars, drawList, nextDraw, unitCount, exitThreads>>
           /\ sync' = sync \/ RetireDraw(t)
           /\ currentDraw' = currentDraw \/ FindPrimitiveTask(t)
           /\ drawCall' = drawCall \/ FindPrimitiveTask(t) \/ ReleaseDraw(t) \/ FreeDrawCall(t)
           /\ \E s : finishing' = finishing \/ finishing' = [finishing EXCEPT ![t] = s]
           /\ \/ primitiveProgress' = primitiveProgress
              \/ FindPrimitiveTask(t) \/ ExecutePrimitives(t) \/ ReleaseUnit(t)
           /\ \/ pixelProgress' = pixelProgress
              \/ FindPixelTask(t) \/ UpdateProgress(t) \/ FinishPixels(t)
           /\ batchOf' = batchOf \/ ExecutePrimitives(t)
           /\ rendered' = rendered \/ ExecutePixels(t)
<1>1. CASE EnterLoop(t) \/ SignalSuspend(t) \/ AwaitResume(t)
  BY <1>1 DEF EnterLoop, SignalSuspend, AwaitResume, Goto, drawVars, scheduleVars, dataVars
<1>2. CASE LockScheduler(t) \/ FindPixelTask(t)
  BY <1>2 DEF LockScheduler, FindPixelTask, Goto, drawVars, scheduleVars, dataVars
<1>3. CASE FindPrimitiveTask(t)
  BY <1>3 DEF FindPrimitiveTask, Goto, drawVars, scheduleVars, dataVars
<1>4. CASE TakeTask(t) \/ WakeThread(t)
  BY <1>4 DEF TakeTask, WakeThread, Goto, drawVars, scheduleVars, dataVars
<1>5. CASE ExecutePrimitives(t) \/ ExecutePixels(t)
  BY <1>5 DEF ExecutePrimitives, ExecutePixels, Goto, drawVars, scheduleVars, dataVars
<1>6. CASE UpdateProgress(t) \/ ReleaseUnit(t)
  BY <1>6 DEF UpdateProgress, ReleaseUnit, Goto, drawVars, scheduleVars, dataVars
<1>7. CASE ReleaseDraw(t) \/ RetireDraw(t)
  BY <1>7 DEF ReleaseDraw, RetireDraw, Goto, drawVars, scheduleVars, dataVars
<1>8. CASE FreeDrawCall(t) \/ SignalApp(t) \/ FinishPixels(t)
  BY <1>8 DEF FreeDrawCall, SignalApp, FinishPixels, Goto, drawVars, scheduleVars, dataVars
<1> QED
  BY <1>1, <1>2, <1>3, <1>4, <1>5, <1>6, <1>7, <1>8 DEF Worker

LEMMA AppChanges ==
    ASSUME App
    PROVE  /\ UNCHANGED <<scheduleVars, dataVars, finishing, currentDraw>>
           /\ drawList' = drawList \/ SearchDrawCall
           /\ drawCall' = drawCall \/ FillDrawCall
           /\ nextDraw' = nextDraw \/ PublishDraw
           /\ sync' = sync \/ LockSync
           /\ unitCount' = unitCount \/ InitializeThread
<1>1. ASSUME NEW shape \in DrawShape, DrawWith(shape)
      PROVE  UNCHANGED <<drawVars, threadVars, scheduleVars, dataVars>>
  BY <1>1 DEF DrawWith
<1>2. CASE TerminateThreads \/ ExitThread \/ JoinThread \/ Configure
  BY <1>2 DEF TerminateThreads, ExitThread, JoinThread, Configure, drawVars, threadVars
<1>3. CASE InitializeThread \/ AwaitThread
  BY <1>3 DEF InitializeThread, AwaitThread, drawVars, threadVars
<1>4. CASE LockSync \/ SearchDrawCall \/ WaitDrawCall
  BY <1>4 DEF LockSync, SearchDrawCall, WaitDrawCall, drawVars, threadVars
<1>5. CASE FillDrawCall \/ PublishDraw
  BY <1>5 DEF FillDrawCall, PublishDraw, drawVars, threadVars
<1>6. CASE CheckAwake \/ WakeFirst \/ Synchronize \/ Synchronized \/ Destroy
  BY <1>6 DEF CheckAwake, WakeFirst, Synchronize, Synchronized, Destroy, drawVars, threadVars
<1> QED
  BY <1>1, <1>2, <1>3, <1>4, <1>5, <1>6 DEF App, drawVars, threadVars

LEMMA UnretiredCounted ==
    /\ IsFiniteSet(Unretired) /\ Cardinality(Unretired) \in Nat
    /\ Cardinality(Unretired) = 0 <=> Unretired = {}
<1>1. IsFiniteSet(Slot)
  <2>1. 0 \in Int /\ DRAW_COUNT - 1 \in Int
    BY DrawAssumption
  <2> QED
    BY ONLY <2>1, FS_Interval DEF Slot
<1>2. IsFiniteSet(Unretired)
  BY <1>1, FS_Subset DEF Unretired
<1> QED
  BY <1>2, FS_CardinalityType, FS_EmptySet

LEMMA SyncBegins == Init => SyncInv
<1> SUFFICES ASSUME Init PROVE SyncInv
  OBVIOUS
<1>1. Unretired = {}
  BY DEF Init, Unretired, Open
<1>2. ~Submitting /\ sync = 0
  BY DEF Init, Submitting
<1> QED
  BY <1>1, <1>2, UnretiredCounted DEF SyncInv

\* Neither the draw calls nor the application's claim change.
LEMMA SyncElsewhere ==
    ASSUME SyncInv, sync' = sync, Submitting' <=> Submitting,
           \A s \in Slot : Open(s)' <=> Open(s),
           \A t \in Thread : \A s : Frees(t, s)' <=> Frees(t, s)
    PROVE  SyncInv'
<1>1. Unretired' = Unretired
  BY DEF Unretired
<1> QED
  BY <1>1 DEF SyncInv

LEMMA AppSync ==
    ASSUME IInv, Data, Batched, SyncInv, App
    PROVE  SyncInv'
<1>0. Core
  BY CoreHolds
<1>1. finishing' = finishing /\ \A t \in Thread : pc'[t] = "free" <=> pc[t] = "free"
  <2>1. CASE AppIdles
    <3>1. \A t \in Thread : \/ pc'[t] = pc[t]
                            \/ pc[t] \in Asleep /\ pc'[t] \in Asleep
      <4>1. CASE JoinThread
        BY <4>1 DEF IInv, Types, JoinThread, Asleep
      <4>2. CASE ~JoinThread
        BY <2>1, <4>2
        DEF AppIdles, DrawWith, TerminateThreads, ExitThread, Configure, AwaitThread, LockSync,
            WaitDrawCall, CheckAwake, WakeFirst, Synchronize, Synchronized, Destroy, vars,
            threadVars
      <4> QED
        BY <4>1, <4>2
    <3>2. finishing' = finishing
      BY <2>1
      DEF AppIdles, DrawWith, TerminateThreads, ExitThread, JoinThread, Configure, AwaitThread,
          LockSync, WaitDrawCall, CheckAwake, WakeFirst, Synchronize, Synchronized, Destroy,
          vars, threadVars
    <3> QED
      BY <3>1, <3>2 DEF Asleep
  <2>2. CASE InitializeThread
    <3>1. \A t \in Thread : pc[t] \in Asleep
      BY <2>2, NoneAwake DEF InitializeThread, IInv, AppInv
    <3> QED
      BY <2>2, <3>1 DEF InitializeThread, IInv, Types, Asleep
  <2>3. CASE SearchDrawCall \/ FillDrawCall \/ PublishDraw
    BY <2>3 DEF SearchDrawCall, FillDrawCall, PublishDraw, threadVars
  <2> QED
    BY <2>1, <2>2, <2>3 DEF App, AppIdles
<1>2. \A t \in Thread : \A s : Frees(t, s)' <=> Frees(t, s)
  BY <1>1 DEF Frees
<1>3. CASE LockSync
  <2>1. Unretired' = Unretired
    BY <1>2, <1>3 DEF LockSync, Unretired, Open
  <2>2. ~Submitting /\ Submitting' /\ sync' = sync + 1
    BY <1>3 DEF LockSync, Submitting
  <2> QED
    BY <2>1, <2>2, UnretiredCounted DEF SyncInv
<1>4. CASE FillDrawCall
  <2>1. PICK s \in Slot : s = appIndex
    BY <1>4 DEF FillDrawCall, Data
  <2>2. ~Open(s)
    BY <1>0, <1>4, <2>1 DEF FillDrawCall, Core, ObjectInv
  <2>3. \A t \in Thread : ~Frees(t, s)
    BY <1>0, <2>2 DEF Frees, Core, FinishInv, Finishing
  <2>4. drawCall'[s].references # -1 /\ \A x \in Slot \ {s} : drawCall'[x] = drawCall[x]
    <3>1. PICK r : r = Batches(appShape)
      OBVIOUS
    <3>2. r # -1
      <4>1. PICK n \in Nat, b \in Nat \ {0} : appShape = <<n, b>>
        BY DEF Data
      <4>2. n \in Nat \ {0}
        BY <1>0, <1>4, <4>1 DEF FillDrawCall, Core, ObjectInv
      <4>3. r \in Nat
        BY <3>1, <4>1, <4>2, BatchCount
      <4> QED
        BY <4>3
    <3>3. drawCall' = [drawCall EXCEPT ![s] = [draw |-> nextDraw, primitive |-> 0,
                          count |-> appShape[1], batch |-> appShape[2], references |-> r]]
      BY <1>4, <2>1, <3>1 DEF FillDrawCall
    <3> QED
      BY <3>2, <3>3 DEF Data, DrawCalls
  <2>5. Unretired' = Unretired \cup {s} /\ s \notin Unretired
    BY <1>2, <2>2, <2>3, <2>4 DEF Unretired, Open
  <2>6. Cardinality(Unretired') = Cardinality(Unretired) + 1
    <3>1. Cardinality(Unretired \cup {s}) = IF s \in Unretired THEN Cardinality(Unretired)
                                            ELSE Cardinality(Unretired) + 1
      BY UnretiredCounted, FS_AddElement
    <3> QED
      BY <2>5, <3>1
  <2>7. Submitting /\ ~Submitting' /\ sync' = sync
    BY <1>4 DEF FillDrawCall, Submitting
  <2> QED
    BY <2>6, <2>7, UnretiredCounted DEF SyncInv
<1>5. CASE ~LockSync /\ ~FillDrawCall
  <2>1. sync' = sync /\ drawCall' = drawCall
    BY <1>5
    DEF App, DrawWith, TerminateThreads, ExitThread, JoinThread, Configure, InitializeThread,
        AwaitThread, SearchDrawCall, WaitDrawCall, PublishDraw, CheckAwake, WakeFirst,
        Synchronize, Synchronized, Destroy, drawVars
  <2>2. Submitting' <=> Submitting
    BY <1>5
    DEF App, DrawWith, TerminateThreads, ExitThread, JoinThread, Configure, InitializeThread,
        AwaitThread, SearchDrawCall, WaitDrawCall, PublishDraw, CheckAwake, WakeFirst,
        Synchronize, Synchronized, Destroy, Submitting
  <2>3. \A s \in Slot : Open(s)' <=> Open(s)
    BY <2>1 DEF Open
  <2> QED
    BY <1>2, <2>1, <2>2, <2>3, SyncElsewhere
<1> QED
  BY <1>3, <1>4, <1>5

(* Workers change the primitive and the references of DrawCall objects, and *)
(* free them.                                                               *)
LEMMA ObjectsKept ==
    ASSUME IInv, Data, Batched, NEW t \in Thread, Worker(t), NEW s \in Slot
    PROVE  /\ drawCall'[s].draw = drawCall[s].draw
           /\ drawCall'[s].count = drawCall[s].count
           /\ drawCall'[s].batch = drawCall[s].batch
           /\ Open(s)' => Open(s)
           /\ Open(s) /\ ~Open(s)' => FreeDrawCall(t) /\ finishing[t] = s
<1>0. Core
  BY CoreHolds
<1>1. CASE FindPrimitiveTask(t)
  <2>1. PICK o : o = ObjectOf(CurrentDraw)
    OBVIOUS
  <2>2. PICK c : c = drawCall[o].primitive + drawCall[o].batch
    OBVIOUS
  <2>3. drawCall' = drawCall \/ drawCall' = [drawCall EXCEPT ![o].primitive = @ + drawCall[o].batch]
    BY <1>1, <2>1 DEF FindPrimitiveTask
  <2>4. drawCall' = drawCall \/ drawCall' = [drawCall EXCEPT ![o].primitive = c]
    BY <2>2, <2>3
  <2>5. /\ drawCall'[s].draw = drawCall[s].draw /\ drawCall'[s].count = drawCall[s].count
        /\ drawCall'[s].batch = drawCall[s].batch
        /\ drawCall'[s].references = drawCall[s].references
    BY <2>4 DEF Data, DrawCalls
  <2> QED
    BY <2>5 DEF Open
<1>2. CASE ReleaseDraw(t)
  <2>1. PICK x \in Slot : x = finishing[t]
    BY DEF Batched, Places
  <2>2. Open(x)
    BY <1>0, <1>2, <2>1 DEF ReleaseDraw, Core, FinishInv, Finishing
  <2>3. PICK r \in Nat \ {0} : r = drawCall[x].references
    <3>1. t \in Releasing(x)
      BY <1>2, <2>1 DEF ReleaseDraw, Releasing
    <3>2. drawCall[x].references \in Nat /\ drawCall[x].references # 0
      BY <1>0, <2>2, <3>1, References DEF Core
    <3> QED
      BY <3>2
  <2>4. drawCall' = [drawCall EXCEPT ![x].references = r - 1] /\ r - 1 # -1
    BY <1>2, <2>1, <2>3 DEF ReleaseDraw
  <2>5. /\ drawCall'[x].references # -1 /\ (s # x => drawCall'[s] = drawCall[s])
        /\ drawCall'[s].draw = drawCall[s].draw /\ drawCall'[s].count = drawCall[s].count
        /\ drawCall'[s].batch = drawCall[s].batch
    BY <2>4 DEF Data, DrawCalls
  <2> QED
    BY <2>2, <2>5 DEF Open
<1>3. CASE FreeDrawCall(t)
  <2>1. drawCall' = [drawCall EXCEPT ![finishing[t]].references = -1]
    BY <1>3 DEF FreeDrawCall
  <2>2. /\ drawCall'[s].draw = drawCall[s].draw /\ drawCall'[s].count = drawCall[s].count
        /\ drawCall'[s].batch = drawCall[s].batch
        /\ s # finishing[t] => drawCall'[s] = drawCall[s]
        /\ s = finishing[t] => drawCall'[s].references = -1
    BY <2>1 DEF Data, DrawCalls
  <2> QED
    BY <1>3, <2>2 DEF Open
<1>4. CASE drawCall' = drawCall
  BY <1>4 DEF Open
<1> QED
  BY <1>1, <1>2, <1>3, <1>4, WorkerChanges

\* A step of worker t other than those that retire or free a draw call.
LEMMA WorkerSyncElsewhere ==
    ASSUME IInv, Data, Batched, SyncInv, NEW t \in Thread, Worker(t),
           ~RetireDraw(t), ~FreeDrawCall(t)
    PROVE  SyncInv'
<1>0. Core
  BY CoreHolds
<1>1. UNCHANGED <<appVars, sync>>
  BY WorkerChanges
<1>2. /\ pc[t] # "free" /\ pc'[t] # "free"
      /\ \A o \in Thread \ {t} : pc'[o] = pc[o] /\ finishing'[o] = finishing[o]
  <2>1. \A o \in Thread \ {t} : finishing'[o] = finishing[o]
    BY WorkerChanges DEF Batched, Places
  <2>2. pc[t] # "free" /\ (pc' = pc \/ \E l : l # "free" /\ pc' = [pc EXCEPT ![t] = l])
    <3>1. CASE TakeTask(t)
      <4>1. taskQueue # <<>> => Execution(Head(taskQueue).type) # "free"
        <5> SUFFICES ASSUME taskQueue # <<>>
                     PROVE  Execution(Head(taskQueue).type) # "free"
          OBVIOUS
        <5>1. Claimed(Head(taskQueue))
          BY DEF IInv, Types, ClaimInv
        <5> QED
          BY <5>1 DEF Claimed, Execution
      <4> QED
        BY <3>1, <4>1 DEF TakeTask, Goto
    <3>2. CASE WakeThread(t)
      <4>1. Claimed(task[t])
        BY <3>2 DEF WakeThread, IInv, ClaimInv, InHand
      <4>2. Execution(task[t].type) # "free"
        BY <4>1 DEF Claimed, Execution
      <4> QED
        BY <3>2, <4>2 DEF WakeThread, Goto
    <3>3. CASE EnterLoop(t) \/ SignalSuspend(t) \/ AwaitResume(t)
      BY <3>3 DEF EnterLoop, SignalSuspend, AwaitResume
    <3>4. CASE LockScheduler(t) \/ FindPixelTask(t) \/ FindPrimitiveTask(t)
      BY <3>4 DEF LockScheduler, FindPixelTask, FindPrimitiveTask, Goto
    <3>5. CASE \/ ExecutePrimitives(t) \/ ExecutePixels(t) \/ UpdateProgress(t)
               \/ ReleaseUnit(t) \/ ReleaseDraw(t) \/ SignalApp(t) \/ FinishPixels(t)
      BY <3>5 DEF ExecutePrimitives, ExecutePixels, UpdateProgress, ReleaseUnit, ReleaseDraw,
                  SignalApp, FinishPixels, Goto
    <3> QED
      BY <3>1, <3>2, <3>3, <3>4, <3>5 DEF Worker
  <2> QED
    BY <2>1, <2>2 DEF IInv, Types
<1>3. \A o \in Thread : \A s : Frees(o, s)' <=> Frees(o, s)
  BY <1>2 DEF Frees
<1>4. \A s \in Slot : Open(s)' <=> Open(s)
  BY ObjectsKept
<1> QED
  BY <1>1, <1>3, <1>4, SyncElsewhere DEF appVars, Submitting

\* The claim on sync is given up for the draw call, by one worker.
LEMMA RetireDrawSync ==
    ASSUME IInv, Data, Batched, SyncInv, NEW t \in Thread, RetireDraw(t)
    PROVE  SyncInv'
<1>0. Core
  BY CoreHolds
<1>1. PICK s \in Slot : s = finishing[t]
  BY DEF Batched, Places
<1>2. /\ pc[t] = "retire" /\ pc' = [pc EXCEPT ![t] = "free"]
      /\ sync' = sync - 1 /\ UNCHANGED <<appVars, drawCall, finishing>>
  BY DEF RetireDraw, Goto
<1>3. Open(s) /\ \A o \in Thread : ~Frees(o, s)
  BY <1>0, <1>1, <1>2 DEF Core, FinishInv, Finishing, Retiring, Frees
<1>4. Frees(t, s)' /\ \A o \in Thread : \A x : x # s => (Frees(o, x)' <=> Frees(o, x))
  BY <1>1, <1>2 DEF Frees, IInv, Types
<1>5. Unretired' = Unretired \ {s} /\ s \in Unretired
  BY <1>2, <1>3, <1>4 DEF Unretired, Open
<1>6. Cardinality(Unretired') = Cardinality(Unretired) - 1
  <2>1. Cardinality(Unretired \ {s}) = IF s \in Unretired THEN Cardinality(Unretired) - 1
                                       ELSE Cardinality(Unretired)
    BY UnretiredCounted, FS_RemoveElement
  <2> QED
    BY <1>5, <2>1
<1>7. Submitting' <=> Submitting
  BY <1>2 DEF appVars, Submitting
<1> QED
  BY <1>2, <1>6, <1>7, UnretiredCounted DEF SyncInv

LEMMA FreeDrawCallSync ==
    ASSUME IInv, Data, Batched, SyncInv, NEW t \in Thread, FreeDrawCall(t)
    PROVE  SyncInv'
<1>0. Core
  BY CoreHolds
<1>1. PICK s \in Slot : s = finishing[t]
  BY DEF Batched, Places
<1>2. /\ pc[t] = "free" /\ pc' = [pc EXCEPT ![t] = "signalApp"]
      /\ drawCall' = [drawCall EXCEPT ![s].references = -1]
      /\ UNCHANGED <<appVars, sync, finishing>>
  BY <1>1 DEF FreeDrawCall, Goto
<1>3. ~Open(s)' /\ \A x \in Slot \ {s} : Open(x)' <=> Open(x)
  BY <1>2 DEF Open, Data, DrawCalls
<1>4. Frees(t, s) /\ \A o \in Thread : \A x : x # s => (Frees(o, x)' <=> Frees(o, x))
  BY <1>1, <1>2 DEF Frees, IInv, Types
<1>5. Unretired' = Unretired
  BY <1>3, <1>4 DEF Unretired
<1>6. Submitting' <=> Submitting
  BY <1>2 DEF appVars, Submitting
<1> QED
  BY <1>2, <1>5, <1>6 DEF SyncInv

LEMMA SyncStep ==
    ASSUME IInv, Data, Batched, SyncInv, [Next]_vars
    PROVE  SyncInv'
<1>1. CASE App
  BY <1>1, AppSync
<1>2. ASSUME NEW t \in Thread, Worker(t)
      PROVE  SyncInv'
  BY <1>2, WorkerSyncElsewhere, RetireDrawSync, FreeDrawCallSync
<1>3. CASE UNCHANGED vars
  <2>1. Unretired' = Unretired
    BY <1>3 DEF Unretired, Frees, Open, vars, drawVars, threadVars
  <2> QED
    BY <1>3, <2>1 DEF SyncInv, Submitting, vars, appVars, drawVars
<1> QED
  BY <1>1, <1>2, <1>3 DEF Next, Dead

-----------------------------------------------------------------------------
(* Types                                                                    *)

LEMMA TypedBegins == Init => Typed
<1> SUFFICES ASSUME Init PROVE Typed
  OBVIOUS
<1>1. 0 \in Draw /\ MaxDraws \in Nat
  BY DrawAssumption DEF Draw
<1>2. drawCall \in Entries
  BY DEF Init, Entries
<1>3. primitiveProgress \in Units /\ pixelProgress \in Clusters
  BY <1>1 DEF Init, Units, Clusters
<1>4. batchOf \in [Unit -> BatchType] /\ rendered \in [Cluster -> BatchType]
  BY DEF Init, NoBatch, BatchType
<1>5. /\ appPc = "idle" /\ destroying \in BOOLEAN
      /\ suspend \in [Thread -> BOOLEAN] /\ resume \in [Thread -> BOOLEAN]
      /\ resumeApp \in BOOLEAN /\ exitThreads \in BOOLEAN
  BY DEF Init
<1>6. nextDraw \in 0 .. MaxDraws
  BY <1>1 DEF Init
<1> QED
  BY <1>2, <1>3, <1>4, <1>5, <1>6 DEF Typed

LEMMA AppTyped ==
    ASSUME IInv, Data, Batched, Typed, App
    PROVE  Typed'
<1>0. Core
  BY CoreHolds
<1>1. UNCHANGED <<scheduleVars, dataVars>>
  BY DEF App, DrawWith, TerminateThreads, ExitThread, JoinThread, Configure, InitializeThread,
         AwaitThread, LockSync, SearchDrawCall, WaitDrawCall, FillDrawCall, PublishDraw,
         CheckAwake, WakeFirst, Synchronize, Synchronized, Destroy
<1>2. appPc' \in {"idle", "terminate", "exit", "join", "configure", "initialize", "created",
                  "lock", "search", "wait", "fill", "publish", "published", "wake",
                  "synchronize", "dead"} /\ destroying' \in BOOLEAN
  BY DEF App, DrawWith, TerminateThreads, ExitThread, JoinThread, Configure, InitializeThread,
         AwaitThread, LockSync, SearchDrawCall, WaitDrawCall, FillDrawCall, PublishDraw,
         CheckAwake, WakeFirst, Synchronize, Synchronized, Destroy, Typed
<1>3. /\ suspend' \in [Thread -> BOOLEAN] /\ resume' \in [Thread -> BOOLEAN]
      /\ resumeApp' \in BOOLEAN /\ exitThreads' \in BOOLEAN
  BY DEF App, DrawWith, TerminateThreads, ExitThread, JoinThread, Configure, InitializeThread,
         AwaitThread, LockSync, SearchDrawCall, WaitDrawCall, FillDrawCall, PublishDraw,
         CheckAwake, WakeFirst, Synchronize, Synchronized, Destroy, Typed, threadVars
<1>4. nextDraw' \in 0 .. MaxDraws
  <2>1. MaxDraws \in Nat
    BY DrawAssumption
  <2>2. CASE PublishDraw
    BY <1>0, <2>1, <2>2 DEF PublishDraw, Typed, Core, ObjectInv
  <2>3. CASE ~PublishDraw
    BY <2>3
    DEF App, DrawWith, TerminateThreads, ExitThread, JoinThread, Configure, InitializeThread,
        AwaitThread, LockSync, SearchDrawCall, WaitDrawCall, FillDrawCall,
        CheckAwake, WakeFirst, Synchronize, Synchronized, Destroy, Typed, drawVars
  <2> QED
    BY <2>2, <2>3
<1>5. drawCall' \in Entries
  <2>1. CASE FillDrawCall
    <3>1. PICK n \in Nat, b \in Nat \ {0} : appShape = <<n, b>>
      BY DEF Data
    <3>2. n \in Nat \ {0} /\ nextDraw < MaxDraws
      BY <1>0, <2>1, <3>1 DEF FillDrawCall, Core, ObjectInv
    <3>3. PICK r \in Nat : r = Batches(appShape)
      BY <3>1, <3>2, BatchCount
    <3>4. nextDraw \in Draw
      BY <3>2, DrawAssumption DEF Typed, Draw
    <3>5. drawCall' = [drawCall EXCEPT ![appIndex] =
                         [draw |-> nextDraw, primitive |-> 0, count |-> n, batch |-> b,
                          references |-> r]]
      BY <2>1, <3>1, <3>3 DEF FillDrawCall
    <3> QED
      BY <3>4, <3>5 DEF Typed, Entries
  <2>2. CASE ~FillDrawCall
    BY <2>2
    DEF App, DrawWith, TerminateThreads, ExitThread, JoinThread, Configure, InitializeThread,
        AwaitThread, LockSync, SearchDrawCall, WaitDrawCall, PublishDraw,
        CheckAwake, WakeFirst, Synchronize, Synchronized, Destroy, Typed, drawVars
  <2> QED
    BY <2>1, <2>2
<1> QED
  BY <1>1, <1>2, <1>3, <1>4, <1>5 DEF Typed, scheduleVars, dataVars

LEMMA WorkerTyped ==
    ASSUME IInv, Data, Batched, Typed, NEW t \in Thread, Worker(t)
    PROVE  Typed'
<1>0. Core
  BY CoreHolds
<1>1. UNCHANGED <<appPc, destroying, nextDraw>>
  BY WorkerChanges DEF appVars
<1>2. /\ suspend' \in [Thread -> BOOLEAN] /\ resume' \in [Thread -> BOOLEAN]
      /\ resumeApp' \in BOOLEAN /\ exitThreads' \in BOOLEAN
  <2>1. CASE SignalSuspend(t) \/ AwaitResume(t)
    BY <2>1 DEF SignalSuspend, AwaitResume, Typed
  <2>2. CASE WakeThread(t)
    BY <2>2 DEF WakeThread, Typed
  <2>3. CASE SignalApp(t)
    BY <2>3 DEF SignalApp, Typed
  <2>4. CASE EnterLoop(t) \/ LockScheduler(t) \/ FindPixelTask(t) \/ FindPrimitiveTask(t)
    BY <2>4 DEF EnterLoop, LockScheduler, FindPixelTask, FindPrimitiveTask, Typed
  <2>5. CASE TakeTask(t) \/ ExecutePrimitives(t) \/ ExecutePixels(t) \/ UpdateProgress(t)
    BY <2>5 DEF TakeTask, ExecutePrimitives, ExecutePixels, UpdateProgress, Typed
  <2>6. CASE \/ ReleaseUnit(t) \/ ReleaseDraw(t) \/ RetireDraw(t) \/ FreeDrawCall(t)
             \/ FinishPixels(t)
    BY <2>6 DEF ReleaseUnit, ReleaseDraw, RetireDraw, FreeDrawCall, FinishPixels, Typed
  <2> QED
    BY <2>1, <2>2, <2>3, <2>4, <2>5, <2>6 DEF Worker
<1>3. drawCall' \in Entries
  <2>1. CASE FindPrimitiveTask(t) /\ drawCall' # drawCall
    <3>1. PICK o : o = ObjectOf(CurrentDraw)
      OBVIOUS
    <3>2. /\ CurrentDraw # nextDraw
          /\ drawCall' = [drawCall EXCEPT ![o].primitive = @ + drawCall[o].batch]
      BY <2>1, <3>1 DEF FindPrimitiveTask
    <3>3. o \in Slot
      BY <1>0, <2>1, <3>1, CurrentDrawIs, ObjectIs DEF Batched, SearchInv, FindPrimitiveTask
    <3>4. PICK n \in Nat : n = drawCall[o].primitive + drawCall[o].batch
      BY <3>3 DEF Typed, Entries
    <3>5. drawCall' = [drawCall EXCEPT ![o].primitive = n]
      BY <3>2, <3>4
    <3> QED
      BY <3>5 DEF Typed, Entries
  <2>2. CASE ReleaseDraw(t)
    <3>1. PICK x \in Slot : x = finishing[t]
      BY DEF Batched, Places
    <3>2. Open(x)
      BY <1>0, <2>2, <3>1 DEF ReleaseDraw, Core, FinishInv, Finishing
    <3>3. PICK r \in Nat \ {0} : r = drawCall[x].references
      <4>1. t \in Releasing(x)
        BY <2>2, <3>1 DEF ReleaseDraw, Releasing
      <4>2. drawCall[x].references \in Nat /\ drawCall[x].references # 0
        BY <1>0, <3>2, <4>1, References DEF Core
      <4> QED
        BY <4>2
    <3>4. PICK q \in Nat : q = r - 1
      OBVIOUS
    <3>5. drawCall' = [drawCall EXCEPT ![x].references = q]
      BY <2>2, <3>1, <3>3, <3>4 DEF ReleaseDraw
    <3> QED
      BY <3>5 DEF Typed, Entries
  <2>3. CASE FreeDrawCall(t)
    BY <2>3 DEF FreeDrawCall, Typed, Entries
  <2>4. CASE UNCHANGED drawCall
    BY <2>4 DEF Typed
  <2> QED
    BY <2>1, <2>2, <2>3, <2>4, WorkerChanges
<1>4. primitiveProgress' \in Units
  <2>1. CASE FindPrimitiveTask(t) /\ primitiveProgress' # primitiveProgress
    <3>1. currentDraw < nextDraw /\ CurrentDraw # nextDraw
      BY <2>1 DEF FindPrimitiveTask, Batched, SearchInv
    <3>2. /\ CurrentDraw \in Int /\ CurrentDraw \in 0 .. nextDraw /\ InFlight(CurrentDraw)
          /\ Object(CurrentDraw).primitive < Object(CurrentDraw).count
          /\ nextDraw \in 0 .. MaxDraws /\ MaxDraws \in Nat
      <4>1. nextDraw \in 0 .. MaxDraws /\ MaxDraws \in Nat
        BY DrawAssumption DEF Typed
      <4>2. /\ CurrentDraw \in Int /\ CurrentDraw \in 0 .. nextDraw
            /\ CurrentDraw < nextDraw => /\ InFlight(CurrentDraw)
                                         /\ Object(CurrentDraw).primitive < Object(CurrentDraw).count
        BY <1>0, <3>1, CurrentDrawIs
      <4>3. CurrentDraw < nextDraw
        BY <3>1, <4>1, <4>2
      <4> QED
        BY <4>1, <4>2, <4>3
    <3>3. PICK d \in Draw : d = CurrentDraw
      BY <3>1, <3>2 DEF Draw
    <3>4. PICK o \in Slot : o = ObjectOf(CurrentDraw)
      BY <3>2, ObjectIs
    <3>5. PICK f \in Nat : f = drawCall[o].primitive
      BY DEF Typed, Entries
    <3>6. PICK n \in Nat : n = drawCall[o].count
      BY DEF Typed, Entries
    <3>7. PICK b \in Nat : b = drawCall[o].batch
      BY DEF Typed, Entries
    <3>8. PICK m \in Nat : m = IF n - f >= b THEN b ELSE n - f
      BY <3>2, <3>4, <3>5, <3>6 DEF Object
    <3>9. primitiveProgress' = [primitiveProgress EXCEPT ![index] =
             [drawCall |-> d, first |-> f, count |-> m, references |-> -1]]
      BY <2>1, <3>3, <3>4, <3>5, <3>6, <3>7, <3>8 DEF FindPrimitiveTask
    <3> QED
      BY <3>9 DEF Typed, Units
  <2>2. CASE ExecutePrimitives(t)
    <3>1. unitCount \in Nat
      BY UsedUnits DEF IInv
    <3> QED
      BY <2>2, <3>1 DEF ExecutePrimitives, clusterCount, Typed, Units
  <2>3. CASE ReleaseUnit(t)
    <3>1. PICK u \in Used : u = task[t].unit
      BY <1>0, <2>3 DEF ReleaseUnit, Core, FinishInv
    <3>2. PICK r \in Nat \ {0} : r = primitiveProgress[u].references
      <4>1. primitiveProgress[u].references > 0 /\ primitiveProgress[u].references \in Int
        BY <1>0, <2>3, <3>1, ProgressTyped DEF ReleaseUnit, Core, FinishInv
      <4> QED
        BY <4>1
    <3>3. PICK q \in Nat : q = r - 1
      OBVIOUS
    <3>4. primitiveProgress' = [primitiveProgress EXCEPT ![u].references = q]
      BY <2>3, <3>1, <3>2, <3>3 DEF ReleaseUnit
    <3> QED
      BY <3>4 DEF Typed, Units
  <2>4. CASE UNCHANGED primitiveProgress
    BY <2>4 DEF Typed
  <2> QED
    BY <2>1, <2>2, <2>3, <2>4, WorkerChanges
<1>5. pixelProgress' \in Clusters
  <2>1. CASE FindPixelTask(t)
    <3>1. \/ pixelProgress' = [pixelProgress EXCEPT ![index].executing = TRUE]
          \/ pixelProgress' = pixelProgress
      BY <2>1 DEF FindPixelTask
    <3> QED
      BY <3>1 DEF Typed, Clusters
  <2>2. CASE UpdateProgress(t)
    <3>1. task[t].type = "PIXELS" /\ Renders(task[t])
      BY <2>2 DEF UpdateProgress, IInv, WorkerInv, Rendering, Batched, WorkIs
    <3>2. PICK u \in Used : u = task[t].unit
      BY <3>1 DEF Renders
    <3>3. PICK c \in Used : c = task[t].cluster
      BY <3>1 DEF Renders
    <3>4. /\ primitiveProgress[u].references > 0
          /\ primitiveProgress[u].drawCall = pixelProgress[c].drawCall
      BY <3>1, <3>2, <3>3 DEF Renders
    <3>5. PICK d \in Draw : d = primitiveProgress[u].drawCall
      BY <1>0, ProgressTyped DEF Typed, Units, Core
    <3>6. d + 1 \in 0 .. MaxDraws
      BY DrawAssumption DEF Draw
    <3>7. PICK e \in 0 .. MaxDraws : e = pixelProgress[c].drawCall + 1
      BY <3>4, <3>5, <3>6
    <3>8. PICK f \in Nat : f = primitiveProgress[u].first + primitiveProgress[u].count
      BY <1>0, ProgressTyped DEF Typed, Units, Core
    <3>9. \/ pixelProgress' = [pixelProgress EXCEPT ![c] =
                [@ EXCEPT !.drawCall = pixelProgress[c].drawCall + 1, !.processed = 0]]
          \/ pixelProgress' = [pixelProgress EXCEPT ![c] = [@ EXCEPT !.processed = f]]
      BY <2>2, <3>2, <3>3, <3>8 DEF UpdateProgress
    <3>10. PICK p \in [drawCall : 0 .. MaxDraws, processed : Nat, executing : BOOLEAN] :
              p = pixelProgress[c]
      BY <1>0, ProgressTyped DEF Typed, Clusters, Core
    <3>11. \/ pixelProgress' = [pixelProgress EXCEPT ![c] =
                [p EXCEPT !.drawCall = e, !.processed = 0]]
           \/ pixelProgress' = [pixelProgress EXCEPT ![c] = [p EXCEPT !.processed = f]]
      BY <3>7, <3>9, <3>10
    <3>12. /\ [p EXCEPT !.drawCall = e, !.processed = 0]
                 \in [drawCall : 0 .. MaxDraws, processed : Nat, executing : BOOLEAN]
           /\ [p EXCEPT !.processed = f]
                 \in [drawCall : 0 .. MaxDraws, processed : Nat, executing : BOOLEAN]
      OBVIOUS
    <3> QED
      BY <3>11, <3>12 DEF Typed, Clusters
  <2>3. CASE FinishPixels(t)
    BY <2>3 DEF FinishPixels, Typed, Clusters
  <2>4. CASE UNCHANGED pixelProgress
    BY <2>4 DEF Typed
  <2> QED
    BY <2>1, <2>2, <2>3, <2>4, WorkerChanges
<1>6. batchOf' \in [Unit -> BatchType] /\ rendered' \in [Cluster -> BatchType]
  <2>1. CASE ExecutePrimitives(t)
    <3>1. PICK u \in Used : u = task[t].unit
      <4>1. task[t].type = "PRIMITIVES" /\ SetsUp(task[t])
        BY <2>1 DEF ExecutePrimitives, IInv, WorkerInv, Batched, WorkIs
      <4> QED
        BY <4>1 DEF SetsUp
    <3>2. primitiveProgress[u].drawCall \in Int /\ primitiveProgress[u].first \in Nat
      BY <1>0, ProgressTyped DEF Typed, Units, Core
    <3>3. ObjectOf(primitiveProgress[u].drawCall) \in Slot
      BY <3>2, ObjectIs
    <3>4. PICK k \in BatchType :
             k = [draw |-> drawCall[ObjectOf(primitiveProgress[u].drawCall)].draw,
                  first |-> primitiveProgress[u].first]
      BY <3>2, <3>3 DEF Typed, Entries, BatchType
    <3>5. batchOf' = [batchOf EXCEPT ![u] = k] /\ rendered' = rendered
      BY <2>1, <3>1, <3>4 DEF ExecutePrimitives
    <3> QED
      BY <3>5 DEF Typed
  <2>2. CASE ExecutePixels(t)
    <3>1. task[t].type = "PIXELS" /\ Renders(task[t])
      BY <2>2 DEF ExecutePixels, IInv, WorkerInv, Rendering, Batched, WorkIs
    <3>2. PICK u \in Unit : u = task[t].unit
      BY <1>0, <3>1, UsedUnits DEF Renders, Core
    <3>3. batchOf[u] \in BatchType /\ NoBatch \in BatchType
      BY DEF Typed, NoBatch, BatchType
    <3>4. PICK k \in BatchType :
             rendered' = [rendered EXCEPT ![task[t].cluster] = k]
      BY <2>2, <3>2, <3>3 DEF ExecutePixels
    <3>5. batchOf' = batchOf
      BY <2>2 DEF ExecutePixels
    <3> QED
      BY <3>4, <3>5 DEF Typed
  <2>3. CASE UNCHANGED <<batchOf, rendered>>
    BY <2>3 DEF Typed
  <2> QED
    BY <2>1, <2>2, <2>3, WorkerChanges
<1> QED
  BY <1>1, <1>2, <1>3, <1>4, <1>5, <1>6 DEF Typed

LEMMA TypedStep ==
    ASSUME IInv, Data, Batched, Typed, [Next]_vars
    PROVE  Typed'
<1>1. CASE UNCHANGED vars
  BY <1>1 DEF Typed, vars, appVars, drawVars, threadVars, scheduleVars, dataVars
<1> QED
  BY <1>1, AppTyped, WorkerTyped DEF Next, Dead

-----------------------------------------------------------------------------
(* The theorems                                                             *)

(* The inductive invariant: every piece of code of the application and of   *)
(* the workers keeps it, in any order in which they run.                    *)
THEOREM WholeInvariant ==
    ASSUME NeverGrows
    PROVE  Spec => []Whole
<1>1. Init => Whole
  BY Begins, DataBegins, BatchedBegins, RestsBegins, SyncBegins, TypedBegins DEF Whole
<1>2. Whole /\ [Next]_vars => Whole'
  BY StepsKeep, DeepStep, SyncStep, TypedStep DEF Whole
<1> QED
  BY <1>1, <1>2, PTL DEF Spec

\* The types of all variables.
LEMMA TypesHold ==
    ASSUME Whole
    PROVE  TypeOK
<1>0. IInv /\ Data /\ Batched /\ Typed /\ Core
  BY CoreHolds DEF Whole
<1>1. sync \in Nat
  <2>1. PICK n \in Nat : n = Cardinality(Unretired)
    BY UnretiredCounted
  <2> QED
    BY <2>1 DEF Whole, SyncInv
<1>2. threadsAwake \in 0 .. MaxThreads
  <2>1. threadsAwake = Cardinality(Awake) /\ threadsAwake \in Nat
    BY <1>0, AwakeCounted DEF IInv
  <2>2. PICK m \in 1 .. 16 : m = MaxThreads
    BY MostThreads
  <2>3. IsFiniteSet(Thread) /\ Cardinality(Thread) = m
    <3>1. 0 \in Int /\ m - 1 \in Int /\ ~(0 > m - 1)
      BY <2>2
    <3>2. /\ IsFiniteSet(0 .. m - 1)
          /\ Cardinality(0 .. m - 1) = IF 0 > m - 1 THEN 0 ELSE (m - 1) - 0 + 1
      BY ONLY <3>1, FS_Interval
    <3>3. (m - 1) - 0 + 1 = m
      BY <2>2
    <3>4. Thread = 0 .. m - 1
      BY <2>2 DEF Thread
    <3> QED
      BY ONLY <3>1, <3>2, <3>3, <3>4
  <2>4. Cardinality(Awake) <= Cardinality(Thread)
    BY <2>3, FS_Subset DEF Awake
  <2> QED
    BY <2>1, <2>2, <2>3, <2>4
<1>3. currentDraw \in 0 .. MaxDraws
  BY <1>0, DrawAssumption DEF Core, KeptInv, Typed
<1>4. pc \in [Thread -> {"none", "loop", "suspend", "parked", "exited", "schedule",
                         "findPixels", "findPrimitives", "take", "wakeup", "primitives",
                         "pixels", "progress", "releaseUnit", "releaseDraw", "retire", "free",
                         "signalApp", "finished"}]
  BY <1>0 DEF IInv, Types, Busy, Holding, Rendering, Asleep
<1>5. finishing \in [Thread -> Slot]
  BY <1>0 DEF Batched, Places
<1> QED
  BY <1>0, <1>1, <1>2, <1>3, <1>4, <1>5
  DEF TypeOK, Typed, Entries, Units, Clusters, BatchType, Data, IInv, Types

(* What the scheduler's decisions rest on: counts and indices are in range, *)
(* threadsAwake counts, no task is queued or in hand twice, a primitive     *)
(* unit is not shared while it is set up, and drawList has the object of    *)
(* every draw call that currentDraw has not passed, still referred to.      *)
THEOREM SchedulerSound ==
    ASSUME NeverGrows
    PROVE  Spec => []SchedulerInv
<1>1. Whole => SchedulerInv
  <2> SUFFICES ASSUME Whole PROVE SchedulerInv
    OBVIOUS
  <2>1. AwakeExact /\ TasksDistinct
    BY DEF Whole, IInv
  <2>2. UnitExclusive /\ CurrentDrawInFlight
    BY UnitHeld, AheadReferred DEF Whole
  <2> QED
    BY <2>1, <2>2, TypesHold DEF SchedulerInv
<1> QED
  BY <1>1, WholeInvariant, PTL

(* The pixels that a worker renders come from the batch its cluster has     *)
(* come to, and from the data of that batch's draw call.                    *)
THEOREM PixelInputs ==
    ASSUME NeverGrows
    PROVE  Spec => []PixelInputsStable
<1>1. Whole => PixelInputsStable
  BY RendersItsBatch DEF Whole
<1> QED
  BY <1>1, WholeInvariant, PTL

(* While no worker is awake there is nothing left of any draw call: threads *)
(* may be terminated then, and the renderer destroyed.                      *)
THEOREM RestsWhenAsleep ==
    ASSUME NeverGrows
    PROVE  Spec => []Quiescent
<1>1. Whole => Quiescent
  BY NothingUnfinished DEF Whole
<1> QED
  BY <1>1, WholeInvariant, PTL

(* synchronize() returns when no draw call is left that holds sync: all of  *)
(* them have been rendered by all clusters.                                 *)
THEOREM SynchronizedWaits ==
    ASSUME NeverGrows
    PROVE  Spec => SynchronizeWaits
<1>1. ASSUME Whole, Synchronized
      PROVE  \A s \in Slot : drawCall[s].references <= 0
  <2> SUFFICES ASSUME NEW s \in Slot
               PROVE  drawCall[s].references <= 0
    OBVIOUS
  <2>1. Unretired = {}
    <3>1. PICK n \in Nat : n = Cardinality(Unretired)
      BY UnretiredCounted
    <3>2. n = 0
      BY <1>1, <3>1 DEF Whole, SyncInv, Synchronized
    <3> QED
      BY <3>1, <3>2, UnretiredCounted
  <2>2. CASE Open(s)
    <3>1. PICK t \in Thread : Frees(t, s)
      BY <2>1, <2>2 DEF Unretired
    <3>2. drawCall[s].references = 0
      BY <1>1, <3>1 DEF Whole, Batched, FinishInv, Frees, Retiring
    <3> QED
      BY <3>2
  <2> QED
    BY <2>2 DEF Open
<1>2. Whole /\ [Next]_vars => [Synchronized => \A s \in Slot : drawCall[s].references <= 0]_vars
  BY <1>1
<1> QED
  BY <1>2, WholeInvariant, PTL DEF Spec, SynchronizeWaits

-----------------------------------------------------------------------------
(* The order of rendering: clusters and shapes                              *)

\* With the same number of clusters in every configuration, all are in use.
LEMMA AllUsedKept ==
    ASSUME SameClusters
    PROVE  /\ Init => AllUsed
           /\ IInv /\ AllUsed /\ [Next]_vars => AllUsed'
<1>1. Init => AllUsed
  BY Configurations DEF Init, AllUsed, SameClusters
<1>2. ASSUME IInv, AllUsed, [Next]_vars
      PROVE  AllUsed'
  <2>1. CASE InitializeThread
    BY <1>2, <2>1 DEF InitializeThread, threadCount, IInv, Types, AllUsed, SameClusters
  <2>2. CASE unitCount' = unitCount
    BY <1>2, <2>2 DEF AllUsed
  <2>3. CASE UNCHANGED vars
    BY <2>2, <2>3 DEF vars, threadVars
  <2> QED
    BY <1>2, <2>1, <2>2, <2>3, WorkerChanges, AppChanges DEF Next, Dead
<1> QED
  BY <1>1, <1>2

LEMMA ClustersUsed == ASSUME AllUsed PROVE Used = Cluster
  BY DEF AllUsed, Used, Cluster, Unit

(* The draw calls in flight do not change while they are.                   *)
LEMMA AppFlight ==
    ASSUME IInv, Data, Batched, App, NEW d \in 0 .. nextDraw - 1
    PROVE  /\ InFlight(d)' <=> InFlight(d)
           /\ InFlight(d) => Object(d)' = Object(d)
<1>1. CASE SearchDrawCall \/ FillDrawCall
  BY <1>1, SearchDrawCallStep, FillDrawCallStep DEF FlightUnchanged
<1>2. CASE ~(SearchDrawCall \/ FillDrawCall)
  <2>1. drawList' = drawList /\ drawCall' = drawCall
    BY <1>2, AppChanges
  <2> QED
    BY <2>1 DEF InFlight, Object, ObjectOf
<1> QED
  BY <1>1, <1>2

LEMMA WorkerFlight ==
    ASSUME IInv, Data, Batched, NEW t \in Thread, Worker(t), NEW d \in 0 .. nextDraw - 1
    PROVE  /\ InFlight(d)' => InFlight(d)
           /\ Object(d)'.count = Object(d).count /\ Object(d)'.batch = Object(d).batch
           /\ InFlight(d) /\ ~InFlight(d)' => FreeDrawCall(t) /\ finishing[t] = ObjectOf(d)
<1>1. PICK s \in Slot : s = ObjectOf(d)
  BY ObjectIs
<1>2. ObjectOf(d)' = s
  BY <1>1, WorkerChanges DEF ObjectOf
<1>3. /\ drawCall'[s].draw = drawCall[s].draw
      /\ drawCall'[s].count = drawCall[s].count
      /\ drawCall'[s].batch = drawCall[s].batch
      /\ Open(s)' => Open(s)
      /\ Open(s) /\ ~Open(s)' => FreeDrawCall(t) /\ finishing[t] = s
  BY ObjectsKept
<1> QED
  BY <1>1, <1>2, <1>3 DEF InFlight, Object, Open

LEMMA ShapeBegins == Init => ShapeInv
  BY DEF Init, ShapeInv

LEMMA AppShape ==
    ASSUME IInv, Data, Batched, ShapeInv, App
    PROVE  ShapeInv'
<1>1. ASSUME NEW shape \in DrawShape, DrawWith(shape)
      PROVE  ShapeInv'
  BY <1>1 DEF DrawWith, ShapeInv
<1>2. CASE FillDrawCall
  <2>1. PICK s \in Slot : s = appIndex /\ ObjectOf(nextDraw) = s
    BY <1>2 DEF FillDrawCall, Data, Batched, ObjectInv
  <2>2. PICK n, b : appShape = <<n, b>> /\ <<n, b>> \in DrawShape
    BY <1>2 DEF FillDrawCall, ShapeInv, Data
  <2>3. drawCall'[s].count = n /\ drawCall'[s].batch = b
    BY <1>2, <2>1, <2>2 DEF FillDrawCall, Data, DrawCalls
  <2>4. Object(nextDraw)' = drawCall'[s] /\ appPc' = "publish"
    BY <1>2, <2>1 DEF FillDrawCall, Object, ObjectOf
  <2> QED
    BY <2>2, <2>3, <2>4 DEF ShapeInv
<1>3. CASE ~FillDrawCall /\ \A shape \in DrawShape : ~DrawWith(shape)
  <2>1. appShape' = appShape /\ appPc' # "publish"
    BY <1>3
    DEF App, TerminateThreads, ExitThread, JoinThread, Configure, InitializeThread, AwaitThread,
        LockSync, SearchDrawCall, WaitDrawCall, PublishDraw, CheckAwake, WakeFirst,
        Synchronize, Synchronized, Destroy
  <2>2. appPc' \in {"configure", "initialize", "created", "lock", "search", "wait", "fill"}
              => \/ appPc \in {"configure", "initialize", "created", "lock", "search", "wait", "fill"}
                 \/ appPc = "join" /\ ~destroying
    BY <1>3
    DEF App, TerminateThreads, ExitThread, JoinThread, Configure, InitializeThread, AwaitThread,
        LockSync, SearchDrawCall, WaitDrawCall, PublishDraw, CheckAwake, WakeFirst,
        Synchronize, Synchronized, Destroy
  <2>3. appPc' \in {"terminate", "exit", "join"} /\ ~destroying'
              => appPc \in {"terminate", "exit", "join"} /\ ~destroying
    BY <1>3
    DEF App, TerminateThreads, ExitThread, JoinThread, Configure, InitializeThread, AwaitThread,
        LockSync, SearchDrawCall, WaitDrawCall, PublishDraw, CheckAwake, WakeFirst,
        Synchronize, Synchronized, Destroy
  <2> QED
    BY <2>1, <2>2, <2>3 DEF ShapeInv
<1> QED
  BY <1>1, <1>2, <1>3

LEMMA ShapeStep ==
    ASSUME IInv, Data, Batched, ShapeInv, [Next]_vars
    PROVE  ShapeInv'
<1>1. ASSUME NEW t \in Thread, Worker(t)
      PROVE  ShapeInv'
  <2>1. UNCHANGED <<appPc, appShape, destroying, nextDraw, drawList>>
    BY <1>1, WorkerChanges DEF appVars
  <2>2. nextDraw \in Int
    BY DEF Data
  <2>3. PICK s \in Slot : s = ObjectOf(nextDraw)
    BY <2>2, ObjectIs
  <2>4. Object(nextDraw)' = drawCall'[s] /\ Object(nextDraw) = drawCall[s]
    BY <2>1, <2>3 DEF Object, ObjectOf
  <2>5. drawCall'[s].count = drawCall[s].count /\ drawCall'[s].batch = drawCall[s].batch
    BY <1>1, ObjectsKept
  <2> QED
    BY <2>1, <2>4, <2>5 DEF ShapeInv
<1>2. CASE UNCHANGED vars
  BY <1>2 DEF ShapeInv, Object, ObjectOf, vars, appVars, drawVars
<1> QED
  BY <1>1, <1>2, AppShape DEF Next, Dead

-----------------------------------------------------------------------------
(* The order of rendering: what was rendered                                *)

LEMMA RenderedBegins == Init => RenderedInv
<1> SUFFICES ASSUME Init, NEW c \in Used PROVE RenderedIs(c)
  BY DEF RenderedInv
<1>1. c \in Unit
  <2>1. Types
    BY Begins DEF IInv
  <2> QED
    BY <2>1, UsedUnits
<1>2. ~Rendered(c)
  BY DEF Init, Rendered, Noting
<1>3. /\ pixelProgress[c].drawCall = 0 /\ pixelProgress[c].processed = 0
      /\ rendered[c].draw = -1
  BY <1>1 DEF Init, Cluster, NoBatch
<1> QED
  BY <1>2, <1>3 DEF RenderedIs, Precedes

\* The draw calls do not change but for those that are freed.
FlightGoesOn ==
    \A d \in 0 .. nextDraw - 1 :
        /\ InFlight(d)' => InFlight(d)
        /\ InFlight(d) => /\ Object(d)'.count = Object(d).count
                          /\ Object(d)'.batch = Object(d).batch

LEMMA RenderedKept ==
    ASSUME Core, FlightGoesOn, NEW c \in Used, RenderedIs(c),
           pixelProgress'[c].drawCall = pixelProgress[c].drawCall,
           pixelProgress'[c].processed = pixelProgress[c].processed,
           rendered'[c] = rendered[c],
           \A t \in Thread : Noting(t, c)' <=> Noting(t, c)
    PROVE  RenderedIs(c)'
<1>1. Rendered(c)' <=> Rendered(c)
  BY DEF Rendered
<1>2. PICK d \in Int : d = pixelProgress[c].drawCall
  BY ProgressTyped DEF Core
<1>3. PICK f \in Int : f = pixelProgress[c].processed
  BY ProgressTyped DEF Core
<1>4. ClusterIs(c) /\ nextDraw \in Nat /\ currentDraw \in 0 .. nextDraw
  BY DEF Core, ClusterInv, KeptInv, Data
<1>5. ASSUME ~Rendered(c)
      PROVE  Precedes(rendered[c], d, f)'
  <2>1. Precedes(rendered[c], d, f)
    BY <1>2, <1>3, <1>5 DEF RenderedIs
  <2>2. CASE f > 0
    <3>1. d \in 0 .. nextDraw - 1 /\ InFlight(d)
      BY <1>2, <1>3, <1>4, <2>2 DEF ClusterIs
    <3>2. Object(d)'.batch = Object(d).batch
      BY <3>1 DEF FlightGoesOn
    <3> QED
      BY <2>1, <2>2, <3>2 DEF Precedes
  <2>3. CASE ~(f > 0)
    <3>1. PICK e \in Int : e = rendered[c].draw /\ e = d - 1
      BY <2>1, <2>3 DEF Precedes
    <3>2. d <= nextDraw
      BY <1>2, <1>4 DEF ClusterIs
    <3>3. ASSUME e >= 0, InFlight(e)'
          PROVE  /\ InFlight(e) /\ Object(e)'.count = Object(e).count
                 /\ Object(e)'.batch = Object(e).batch
      <4>1. e \in 0 .. nextDraw - 1
        BY <1>4, <3>1, <3>2, <3>3
      <4> QED
        BY <3>3, <4>1 DEF FlightGoesOn
    <3>4. \/ ~(e >= 0 /\ InFlight(e)')
          \/ rendered[c].first + Object(e)'.batch >= Object(e)'.count
      BY <2>1, <2>3, <3>1, <3>3 DEF Precedes
    <3>5. InFlight(rendered[c].draw)' <=> InFlight(e)'
      BY <3>1 DEF InFlight, Object, ObjectOf
    <3>6. Object(rendered[c].draw)' = Object(e)'
      BY <3>1 DEF Object, ObjectOf
    <3> QED
      BY <2>3, <3>1, <3>4, <3>5, <3>6 DEF Precedes
  <2> QED
    BY <2>2, <2>3
<1>6. pixelProgress'[c].drawCall = d /\ pixelProgress'[c].processed = f
  BY <1>2, <1>3
<1>7. ASSUME ~Rendered(c)
      PROVE  Precedes(rendered[c], pixelProgress[c].drawCall, pixelProgress[c].processed)'
  BY <1>5, <1>6, <1>7 DEF Precedes, Object, ObjectOf, InFlight
<1>8. Rendered(c) => rendered'[c] = [draw |-> pixelProgress'[c].drawCall,
                                     first |-> pixelProgress'[c].processed]
  BY DEF RenderedIs
<1> QED
  BY <1>1, <1>7, <1>8 DEF RenderedIs

LEMMA AppRendered ==
    ASSUME IInv, Data, Batched, RenderedInv, App, Used' = Used
    PROVE  RenderedInv'
<1>1. FlightGoesOn
  BY AppFlight DEF FlightGoesOn
<1>2. \A t \in Thread : \A c : Noting(t, c)' <=> Noting(t, c)
  <2>1. CASE InitializeThread \/ WakeFirst \/ JoinThread
    <3>1. \A t \in Thread : pc[t] # "progress"
      <4>1. threadsAwake = 0
        BY <2>1 DEF InitializeThread, WakeFirst, JoinThread, IInv, AppInv
      <4> QED
        BY <4>1, NoneAwake DEF Asleep
    <3>2. \A t \in Thread : pc'[t] # "progress"
      BY <2>1, <3>1 DEF InitializeThread, WakeFirst, JoinThread, IInv, Types
    <3> QED
      BY <3>1, <3>2 DEF Noting
  <2>2. CASE ~(InitializeThread \/ WakeFirst \/ JoinThread)
    <3>1. UNCHANGED <<pc, task>>
      BY <2>2
      DEF App, DrawWith, TerminateThreads, ExitThread, Configure, AwaitThread, LockSync,
          SearchDrawCall, WaitDrawCall, FillDrawCall, PublishDraw, CheckAwake, Synchronize,
          Synchronized, Destroy, threadVars
    <3> QED
      BY <3>1 DEF Noting
  <2> QED
    BY <2>1, <2>2
<1>3. UNCHANGED <<pixelProgress, rendered>>
  BY AppChanges DEF scheduleVars, dataVars
<1> QED
  BY <1>1, <1>2, <1>3, CoreHolds, RenderedKept DEF RenderedInv

LEMMA WorkerRenderedKept ==
    ASSUME IInv, Data, Batched, RenderedInv, NEW t \in Thread, Worker(t),
           ~ExecutePixels(t), ~UpdateProgress(t)
    PROVE  RenderedInv'
<1>1. FlightGoesOn
  BY WorkerFlight DEF FlightGoesOn
<1>2. \A o \in Thread : \A c : Noting(o, c)' <=> Noting(o, c)
  <2>1. CASE WakeThread(t)
    <3>1. PICK i : i = Min(Sleepers)
      OBVIOUS
    <3>2. task[i].type = "SUSPEND"
      <4>1. Sleepers # {} /\ Sleepers \subseteq 0 .. 15
        BY <2>1, SleepersFit, CountsFit DEF WakeThread, IInv, WorkerInv
      <4>2. i \in Sleepers
        BY <3>1, <4>1, LeastOf
      <4> QED
        BY <4>2 DEF Sleepers
    <3>3. i \in Thread => pc[i] # "progress"
      BY <3>2 DEF IInv, WorkerInv, Rendering
    <3>4. pc'[t] # "progress" /\ pc[t] = "wakeup"
      <4>1. Claimed(task[t])
        BY <2>1 DEF WakeThread, IInv, ClaimInv, InHand
      <4>2. Execution(task[t].type) # "progress"
        BY <4>1 DEF Claimed, Execution
      <4> QED
        BY <2>1, <4>2 DEF WakeThread, Goto, IInv, Types
    <3>5. \A o \in Thread \ {t} : pc'[o] = pc[o]
      BY <2>1 DEF WakeThread, Goto, IInv, Types
    <3>6. \A o \in Thread : o # i => task'[o] = task[o]
      BY <2>1, <3>1 DEF WakeThread, IInv, Types
    <3> QED
      BY <3>3, <3>4, <3>5, <3>6 DEF Noting
  <2>2. CASE TakeTask(t)
    <3>1. pc[t] = "take" /\ pc'[t] # "progress"
      <4>1. taskQueue # <<>> => Execution(Head(taskQueue).type) # "progress"
        <5> SUFFICES ASSUME taskQueue # <<>>
                     PROVE  Execution(Head(taskQueue).type) # "progress"
          OBVIOUS
        <5>1. Claimed(Head(taskQueue))
          BY DEF IInv, Types, ClaimInv
        <5> QED
          BY <5>1 DEF Claimed, Execution
      <4> QED
        BY <2>2, <4>1 DEF TakeTask, Goto, IInv, Types
    <3>2. \A o \in Thread \ {t} : pc'[o] = pc[o] /\ task'[o] = task[o]
      BY <2>2 DEF TakeTask, Goto, IInv, Types
    <3> QED
      BY <3>1, <3>2 DEF Noting
  <2>3. CASE ~WakeThread(t) /\ ~TakeTask(t)
    <3>1. /\ pc[t] # "progress" /\ task' = task
          /\ \E l : (l # "progress" /\ pc' = [pc EXCEPT ![t] = l]) \/ pc' = pc
      <4>1. CASE EnterLoop(t) \/ SignalSuspend(t) \/ AwaitResume(t)
        BY <4>1 DEF EnterLoop, SignalSuspend, AwaitResume
      <4>2. CASE LockScheduler(t) \/ FindPixelTask(t) \/ FindPrimitiveTask(t)
        BY <4>2 DEF LockScheduler, FindPixelTask, FindPrimitiveTask, Goto
      <4>3. CASE \/ ExecutePrimitives(t) \/ ReleaseUnit(t) \/ ReleaseDraw(t) \/ RetireDraw(t)
                 \/ FreeDrawCall(t) \/ SignalApp(t) \/ FinishPixels(t)
        BY <4>3 DEF ExecutePrimitives, ReleaseUnit, ReleaseDraw, RetireDraw, FreeDrawCall,
                    SignalApp, FinishPixels, Goto
      <4> QED
        BY <2>3, <4>1, <4>2, <4>3 DEF Worker
    <3>2. pc'[t] # "progress" /\ \A o \in Thread \ {t} : pc'[o] = pc[o]
      BY <3>1 DEF IInv, Types
    <3> QED
      BY <3>1, <3>2 DEF Noting
  <2> QED
    BY <2>1, <2>2, <2>3
<1>3. \A c \in Used : /\ pixelProgress'[c].drawCall = pixelProgress[c].drawCall
                      /\ pixelProgress'[c].processed = pixelProgress[c].processed
  <2>1. CASE FindPixelTask(t)
    <3>1. CASE pixelProgress' = [pixelProgress EXCEPT ![index].executing = TRUE]
      BY <3>1, UsedUnits DEF IInv, Types
    <3>2. CASE pixelProgress' = pixelProgress
      BY <3>2
    <3> QED
      BY <2>1, <3>1, <3>2 DEF FindPixelTask
  <2>2. CASE FinishPixels(t)
    <3>1. pixelProgress' = [pixelProgress EXCEPT ![task[t].cluster].executing = FALSE]
      BY <2>2 DEF FinishPixels
    <3> QED
      BY <3>1, UsedUnits DEF IInv, Types
  <2>3. CASE pixelProgress' = pixelProgress
    BY <2>3
  <2> QED
    BY <2>1, <2>2, <2>3, WorkerChanges
<1>4. rendered' = rendered /\ Used' = Used
  BY WorkerChanges DEF Used
<1> QED
  BY <1>1, <1>2, <1>3, <1>4, CoreHolds, RenderedKept DEF RenderedInv

\* One worker renders for a cluster.
LEMMA OneRenders ==
    ASSUME IInv, NEW t \in Thread, NEW o \in Thread \ {t},
           pc[t] \in {"pixels", "progress"}, pc[o] \in {"pixels", "progress"}
    PROVE  task[t].cluster # task[o].cluster
  BY DEF IInv, WorkerInv, Rendering, TasksDistinct, SameWork, InHand

\* What the worker that renders has before it.
LEMMA RendersNext ==
    ASSUME IInv, Data, Batched, NEW t \in Thread, pc[t] \in {"pixels", "progress"}
    PROVE  /\ task[t].cluster \in Used /\ task[t].unit \in Used
           /\ UnitIs(task[t].unit) /\ primitiveProgress[task[t].unit].references > 0
           /\ primitiveProgress[task[t].unit].drawCall = pixelProgress[task[t].cluster].drawCall
           /\ primitiveProgress[task[t].unit].first = pixelProgress[task[t].cluster].processed
<1>1. task[t].type = "PIXELS" /\ Renders(task[t])
  BY DEF IInv, WorkerInv, Rendering, Batched, WorkIs
<1>2. task[t].unit \in Used /\ primitiveProgress[task[t].unit].references > 0
  BY <1>1 DEF Renders
<1>3. Active(task[t].unit)
  BY <1>2 DEF Active
<1>4. UnitIs(task[t].unit)
  BY <1>2, <1>3 DEF Batched, UnitInv
<1> QED
  BY <1>1, <1>4 DEF Renders

\* The pixel routine renders the batch that its cluster has come to.
LEMMA ExecutePixelsIs ==
    ASSUME IInv, Data, Batched, NEW t \in Thread, ExecutePixels(t)
    PROVE  LET c == task[t].cluster IN
           /\ c \in Used
           /\ rendered' = [rendered EXCEPT ![c] = [draw |-> pixelProgress[c].drawCall,
                                                   first |-> pixelProgress[c].processed]]
<1>1. pc[t] = "pixels"
  BY DEF ExecutePixels
<1>2. PICK c : c = task[t].cluster
  OBVIOUS
<1>3. PICK u : u = task[t].unit
  OBVIOUS
<1>4. PICK b : b = [draw |-> pixelProgress[c].drawCall, first |-> pixelProgress[c].processed]
  OBVIOUS
<1>5. c \in Used
  BY <1>1, <1>2, RendersNext
<1>6. /\ batchOf[u] = b
      /\ drawCall[ObjectOf(pixelProgress[c].drawCall)].draw = pixelProgress[c].drawCall
  BY <1>1, <1>2, <1>3, <1>4, RendersItsBatch DEF PixelInputsStable
<1>7. drawCall[ObjectOf(pixelProgress[c].drawCall)].draw = batchOf[u].draw
  BY <1>4, <1>6
<1>8. rendered' = [rendered EXCEPT ![c] = batchOf[u]]
  BY <1>2, <1>3, <1>7 DEF ExecutePixels
<1> QED
  BY <1>2, <1>4, <1>5, <1>6, <1>8

LEMMA ExecutePixelsRendered ==
    ASSUME IInv, Data, Batched, Typed, RenderedInv, NEW t \in Thread, ExecutePixels(t)
    PROVE  RenderedInv'
<1>0. Core
  BY CoreHolds
<1>1. Worker(t) /\ pc[t] = "pixels" /\ pc' = [pc EXCEPT ![t] = "progress"]
      /\ UNCHANGED <<task, pixelProgress>>
  BY DEF Worker, ExecutePixels, Goto, scheduleVars
<1>2. PICK c \in Used : c = task[t].cluster
  BY <1>1, RendersNext
<1>3. PICK b : b = [draw |-> pixelProgress[c].drawCall, first |-> pixelProgress[c].processed]
  OBVIOUS
<1>4. rendered' = [rendered EXCEPT ![c] = b]
  BY <1>2, <1>3, ExecutePixelsIs
<1>5. rendered'[c] = b /\ \A x \in Used \ {c} : rendered'[x] = rendered[x]
  BY <1>0, <1>4, UsedUnits DEF Typed, Core
<1>6. pc'[t] = "progress" /\ \A o \in Thread \ {t} : pc'[o] = pc[o]
  BY <1>1 DEF IInv, Types
<1>7. FlightGoesOn /\ Used' = Used
  BY <1>1, WorkerFlight, WorkerChanges DEF FlightGoesOn, Used
<1>8. RenderedIs(c)'
  <2>1. Noting(t, c)'
    BY <1>1, <1>2, <1>6 DEF Noting
  <2>2. Rendered(c)'
    BY <2>1 DEF Rendered
  <2> QED
    BY <1>1, <1>3, <1>5, <2>2 DEF RenderedIs
<1>9. ASSUME NEW x \in Used \ {c}
      PROVE  RenderedIs(x)'
  <2>1. \A o \in Thread : Noting(o, x)' <=> Noting(o, x)
    BY <1>1, <1>2, <1>6 DEF Noting
  <2>2. RenderedIs(x)
    BY DEF RenderedInv
  <2> QED
    BY <1>0, <1>1, <1>5, <1>7, <2>1, <2>2, RenderedKept
<1> QED
  BY <1>7, <1>8, <1>9 DEF RenderedInv

LEMMA UpdateProgressRendered ==
    ASSUME IInv, Data, Batched, Typed, RenderedInv, NEW t \in Thread, UpdateProgress(t)
    PROVE  RenderedInv'
<1>0. Core
  BY CoreHolds
<1>1. /\ Worker(t) /\ pc[t] = "progress" /\ pc' = [pc EXCEPT ![t] = "releaseUnit"]
      /\ UNCHANGED <<task, rendered, drawList, drawCall>>
  BY DEF Worker, UpdateProgress, Goto, dataVars, drawVars
<1>2. PICK c \in Used : c = task[t].cluster
  BY <1>1, RendersNext
<1>3. PICK u \in Used : u = task[t].unit
  BY <1>1, RendersNext
<1>4. PICK d \in Int : d = pixelProgress[c].drawCall /\ d = primitiveProgress[u].drawCall
  BY <1>0, <1>1, <1>2, <1>3, RendersNext, ProgressTyped DEF Core
<1>5. PICK f \in Int : f = pixelProgress[c].processed /\ f = primitiveProgress[u].first
  BY <1>0, <1>1, <1>2, <1>3, RendersNext, ProgressTyped DEF Core
<1>6. UnitIs(u) /\ nextDraw \in Nat /\ currentDraw \in 0 .. nextDraw
  BY <1>0, <1>1, <1>3, RendersNext DEF Core, KeptInv, Data
<1>7. d \in 0 .. nextDraw - 1 /\ InFlight(d)
  BY <1>4, <1>6 DEF UnitIs
<1>8. PICK n \in Nat \ {0} : n = Object(d).count
  BY <1>0, <1>7, Flying, References DEF Core
<1>9. PICK b \in Nat \ {0} : b = Object(d).batch
  BY <1>0, <1>7, Flying, References DEF Core
<1>10. PICK m \in Int : m = primitiveProgress[u].count
  BY <1>0, ProgressTyped DEF Core
<1>11. m = (IF n - f >= b THEN b ELSE n - f) /\ f < n /\ f >= 0
  <2>1. m = IF n - f >= b THEN b ELSE n - f
    BY <1>4, <1>5, <1>6, <1>8, <1>9, <1>10 DEF UnitIs
  <2>2. f < n
    BY <1>4, <1>5, <1>6, <1>8 DEF UnitIs
  <2>3. f \in Nat
    BY <1>0, <1>5, ProgressTyped DEF Typed, Units, Core
  <2> QED
    BY <2>1, <2>2, <2>3
<1>12. rendered[c] = [draw |-> d, first |-> f]
  <2>1. Rendered(c)
    BY <1>1, <1>2 DEF Rendered, Noting
  <2> QED
    BY <1>4, <1>5, <2>1 DEF RenderedInv, RenderedIs
<1>13. /\ \A x \in Used \ {c} : pixelProgress'[x] = pixelProgress[x]
       /\ f + m >= n => pixelProgress'[c].drawCall = d + 1 /\ pixelProgress'[c].processed = 0
       /\ ~(f + m >= n) => pixelProgress'[c].drawCall = d /\ pixelProgress'[c].processed = f + m
  <2>1. PICK x : x = [pixelProgress[c] EXCEPT !.drawCall = d + 1, !.processed = 0]
    OBVIOUS
  <2>2. PICK y : y = [pixelProgress[c] EXCEPT !.processed = f + m]
    OBVIOUS
  <2>3. ObjectOf(d) = ObjectOf(primitiveProgress[u].drawCall) /\ drawCall[ObjectOf(d)].count = n
    BY <1>4, <1>8 DEF Object
  <2>4. pixelProgress' = [pixelProgress EXCEPT ![c] = IF f + m >= n THEN x ELSE y]
    BY <1>2, <1>3, <1>4, <1>5, <1>10, <2>1, <2>2, <2>3 DEF UpdateProgress
  <2>5. /\ pixelProgress'[c] = IF f + m >= n THEN x ELSE y
        /\ \A z \in Used \ {c} : pixelProgress'[z] = pixelProgress[z]
    BY <1>0, <2>4, UsedUnits DEF Core, Types
  <2>6. pixelProgress[c] \in [drawCall : Int, processed : Int, executing : BOOLEAN]
    BY <1>0, UsedUnits DEF Core, Types
  <2>7. x.drawCall = d + 1 /\ x.processed = 0 /\ y.drawCall = d /\ y.processed = f + m
    BY <1>4, <2>1, <2>2, <2>6
  <2> QED
    BY <2>5, <2>7
<1>14. pc'[t] = "releaseUnit" /\ \A o \in Thread \ {t} : pc'[o] = pc[o]
  BY <1>1 DEF IInv, Types
<1>15. FlightGoesOn /\ Used' = Used
  BY <1>1, WorkerFlight, WorkerChanges DEF FlightGoesOn, Used
<1>16. RenderedIs(c)'
  <2>1. ~Rendered(c)'
    BY <1>1, <1>2, <1>14, OneRenders DEF Rendered, Noting
  <2>2. Object(d)' = Object(d)
    BY <1>1 DEF Object, ObjectOf
  <2>3. CASE f + m >= n
    <3>1. f + b >= n
      BY <1>11, <2>3
    <3>2. Precedes(rendered[c], pixelProgress[c].drawCall, pixelProgress[c].processed)'
      BY <1>1, <1>8, <1>9, <1>12, <1>13, <2>2, <2>3, <3>1 DEF Precedes
    <3> QED
      BY <2>1, <3>2 DEF RenderedIs
  <2>4. CASE ~(f + m >= n)
    <3>1. m = b /\ f + m > 0
      BY <1>11, <2>4
    <3>2. Object(pixelProgress[c].drawCall)' = Object(d)
      BY <1>13, <2>2, <2>4 DEF Object, ObjectOf
    <3>3. Precedes(rendered[c], pixelProgress[c].drawCall, pixelProgress[c].processed)'
      BY <1>1, <1>9, <1>12, <1>13, <2>4, <3>1, <3>2 DEF Precedes
    <3> QED
      BY <2>1, <3>3 DEF RenderedIs
  <2> QED
    BY <2>3, <2>4
<1>17. ASSUME NEW x \in Used \ {c}
       PROVE  RenderedIs(x)'
  <2>1. \A o \in Thread : Noting(o, x)' <=> Noting(o, x)
    BY <1>1, <1>2, <1>14 DEF Noting
  <2>2. RenderedIs(x)
    BY DEF RenderedInv
  <2> QED
    BY <1>0, <1>1, <1>13, <1>15, <2>1, <2>2, RenderedKept
<1> QED
  BY <1>15, <1>16, <1>17 DEF RenderedInv

LEMMA RenderedStep ==
    ASSUME IInv, Data, Batched, Typed, RenderedInv, AllUsed, AllUsed', [Next]_vars
    PROVE  RenderedInv'
<1>1. CASE App
  BY <1>1, AppRendered DEF AllUsed, Used
<1>2. ASSUME NEW t \in Thread, Worker(t)
      PROVE  RenderedInv'
  BY <1>2, WorkerRenderedKept, ExecutePixelsRendered, UpdateProgressRendered
<1>3. CASE UNCHANGED vars
  <2>1. Used' = Used /\ UNCHANGED <<pixelProgress, rendered, drawList, drawCall, pc, task>>
    BY <1>3 DEF Used, vars, drawVars, threadVars, scheduleVars, dataVars
  <2> QED
    BY <2>1 DEF RenderedInv, RenderedIs, Rendered, Noting, Precedes, InFlight, Object, ObjectOf
<1> QED
  BY <1>1, <1>2, <1>3 DEF Next, Dead

-----------------------------------------------------------------------------
(* The order of rendering: the refinement                                   *)

LEMMA SameNeverGrows == ASSUME SameClusters PROVE NeverGrows
<1> SUFFICES ASSUME NEW i \in DOMAIN ThreadCount, i + 1 \in DOMAIN ThreadCount
             PROVE  ceilPow2(ThreadCount[i + 1]) <= ceilPow2(ThreadCount[i])
  BY DEF NeverGrows
<1>1. PICK n \in 1 .. 16 : n = ceilPow2(MaxThreads)
  BY MostThreads, PowerOfTwo
<1> QED
  BY <1>1 DEF SameClusters

\* The invariant, with what is known of the order of rendering.
LEMMA OrderedInvariant ==
    ASSUME SameClusters
    PROVE  Spec => []Ordered
<1>1. Init => Ordered
  BY Begins, DataBegins, BatchedBegins, RestsBegins, SyncBegins, TypedBegins, AllUsedKept,
     ShapeBegins, RenderedBegins DEF Whole, Ordered
<1>2. Ordered /\ [Next]_vars => Ordered'
  BY SameNeverGrows, StepsKeep, DeepStep, SyncStep, TypedStep, AllUsedKept, ShapeStep, RenderedStep
  DEF Whole, Ordered
<1> QED
  BY <1>1, <1>2, PTL DEF Spec

(* The draw calls in flight, as the order of rendering has them.            *)
LEMMA ShapeOf ==
    ASSUME NEW d \in Draw
    PROVE  ShapesInFlight[d] = IF d < nextDraw /\ InFlight(d)
                               THEN <<Object(d).count, Object(d).batch>> ELSE <<0, 1>>
  BY DEF ShapesInFlight, InFlight, Object

LEMMA ShapesFlying ==
    ASSUME Ordered, NEW d \in Draw
    PROVE  d \in InOrder!InFlight <=> d < nextDraw /\ InFlight(d)
<1>0. Core
  BY CoreHolds DEF Ordered, Whole
<1>1. d \in InOrder!InFlight <=> ShapesInFlight[d] # <<0, 1>>
  BY DEF InOrder!InFlight, InOrder!NoDraw
<1>2. ASSUME d < nextDraw, InFlight(d)
      PROVE  ShapesInFlight[d] # <<0, 1>>
  <2>1. d \in Int
    BY DrawAssumption DEF Draw
  <2>2. PICK n \in Nat \ {0} : n = Object(d).count
    BY <1>0, <1>2, <2>1, Flying, References DEF Core
  <2>3. PICK m : m = Object(d).batch
    OBVIOUS
  <2>4. ShapesInFlight[d] = <<n, m>>
    BY <1>2, <2>2, <2>3, ShapeOf
  <2>5. <<n, m>>[1] # <<0, 1>>[1]
    OBVIOUS
  <2> QED
    BY <2>4, <2>5
<1> QED
  BY <1>1, <1>2, ShapeOf

\* Steps that change no draw call in flight change no shape.
LEMMA SameShapes ==
    ASSUME nextDraw' = nextDraw, nextDraw \in 0 .. MaxDraws,
           \A d \in 0 .. nextDraw - 1 :
              /\ InFlight(d)' <=> InFlight(d)
              /\ InFlight(d) => /\ Object(d)'.count = Object(d).count
                                /\ Object(d)'.batch = Object(d).batch
    PROVE  ShapesInFlight' = ShapesInFlight
<1> DEFINE S(d) == LET o == drawCall[ObjectOf(d)]
                   IN  IF d < nextDraw /\ o.draw = d /\ o.references # -1
                       THEN <<o.count, o.batch>> ELSE <<0, 1>>
<1>1. ASSUME NEW d \in Draw
      PROVE  S(d)' = S(d)
  <2>1. CASE d \in 0 .. nextDraw - 1
    <3>1. InFlight(d)' <=> InFlight(d)
      BY <2>1
    <3>2. InFlight(d) => <<Object(d)'.count, Object(d)'.batch>> = <<Object(d).count, Object(d).batch>>
      BY <2>1
    <3> QED
      BY <3>1, <3>2 DEF InFlight, Object
  <2>2. CASE ~(d < nextDraw)
    BY <2>2
  <2> QED
    BY <2>1, <2>2, DrawAssumption DEF Draw
<1> HIDE DEF S
<1>2. ShapesInFlight = [d \in Draw |-> S(d)] /\ ShapesInFlight' = [d \in Draw |-> S(d)']
  BY DEF ShapesInFlight, S
<1> QED
  BY <1>1, <1>2

LEMMA InOrderBegins == Init => InOrder!Init
<1> SUFFICES ASSUME Init PROVE InOrder!Init
  OBVIOUS
<1>1. nextDraw = 0
  BY DEF Init
<1>2. ASSUME NEW d \in Draw
      PROVE  ~(d < nextDraw)
  BY <1>1, DrawAssumption DEF Draw
<1>3. ShapesInFlight = [d \in Draw |-> <<0, 1>>]
  BY <1>2 DEF ShapesInFlight
<1>4. rendered = [c \in Cluster |-> [draw |-> -1, first |-> 0]]
  BY DEF Init, NoBatch
<1> QED
  BY <1>1, <1>3, <1>4 DEF InOrder!Init, InOrder!NoDraw

\* Steps that neither publish, render nor free do nothing there.
LEMMA StepStutters ==
    ASSUME Ordered, rendered' = rendered, nextDraw' = nextDraw,
           \A d \in 0 .. nextDraw - 1 :
              /\ InFlight(d)' <=> InFlight(d)
              /\ InFlight(d) => /\ Object(d)'.count = Object(d).count
                                /\ Object(d)'.batch = Object(d).batch
    PROVE  UNCHANGED InOrder!vars
<1>1. ShapesInFlight' = ShapesInFlight
  BY SameShapes DEF Ordered, Whole, Typed
<1> QED
  BY <1>1 DEF InOrder!vars

\* Draw calls that are DRAW_COUNT apart have one place in drawList.
LEMMA NextRound ==
    ASSUME NEW n \in Nat \ {0}, NEW a \in Nat
    PROVE  (a + n) % n = a % n
<1>1. \A y \in Nat : /\ y \div n \in Nat /\ y % n \in 0 .. n - 1
                     /\ y = (y \div n) * n + (y % n)
  OBVIOUS
<1>2. PICK q \in Nat, r \in 0 .. n - 1 : a = q * n + r /\ r = a % n
  BY <1>1
<1>3. PICK m \in Nat, e \in 0 .. n - 1 : a + n = m * n + e /\ e = (a + n) % n
  BY <1>1, a + n \in Nat
<1>4. q * n \in Nat /\ m * n \in Nat /\ (q + 1) * n = q * n + n
  BY Multiples
<1>5. ~(m < q + 1)
  <2>1. m < q + 1 => m * n + n <= (q + 1) * n
    BY Multiples, q + 1 \in Nat
  <2> QED
    BY <1>2, <1>3, <1>4, <2>1
<1>6. ~(q + 1 < m)
  <2>1. q + 1 < m => (q + 1) * n + n <= m * n
    BY Multiples, q + 1 \in Nat
  <2> QED
    BY <1>2, <1>3, <1>4, <2>1
<1>7. m = q + 1
  BY <1>5, <1>6
<1>8. PICK x \in Nat : x = q * n
  BY <1>4
<1>9. x + r + n = x + n + e
  BY <1>2, <1>3, <1>4, <1>7, <1>8
<1>10. r = e
  BY <1>2, <1>3, <1>8, <1>9
<1> QED
  BY <1>2, <1>3, <1>10

\* A draw call is submitted when its number is published.
LEMMA PublishDrawSubmits ==
    ASSUME Ordered, PublishDraw
    PROVE  \E s \in DrawShape : InOrder!Submit(s)
<1>0. Core /\ IInv /\ Data
  BY CoreHolds DEF Ordered, Whole
<1>1. /\ appPc = "publish" /\ nextDraw' = nextDraw + 1
      /\ UNCHANGED <<drawList, drawCall, rendered>>
  BY DEF PublishDraw, dataVars
<1>2. nextDraw \in Nat /\ nextDraw \in Int /\ nextDraw < MaxDraws /\ InFlight(nextDraw)
  BY <1>0, <1>1, DrawAssumption DEF Ordered, Whole, Typed, Batched, ObjectInv
<1>3. PICK s \in DrawShape : s = <<Object(nextDraw).count, Object(nextDraw).batch>>
  BY <1>1 DEF Ordered, ShapeInv
<1>4. nextDraw \in Draw
  BY <1>2, DrawAssumption DEF Draw
<1>5. nextDraw - DRAW_COUNT \notin InOrder!InFlight
  <2> SUFFICES ASSUME nextDraw - DRAW_COUNT \in InOrder!InFlight PROVE FALSE
    OBVIOUS
  <2>1. PICK e \in Draw : e = nextDraw - DRAW_COUNT
    BY DEF InOrder!InFlight
  <2>2. InFlight(e)
    BY <2>1, ShapesFlying
  <2>3. e % DRAW_COUNT = nextDraw % DRAW_COUNT
    <3>1. e \in Nat /\ DRAW_COUNT \in Nat \ {0} /\ nextDraw = e + DRAW_COUNT
      BY <1>2, <2>1, DrawAssumption DEF Draw
    <3> QED
      BY <3>1, NextRound
  <2>4. Object(e) = Object(nextDraw)
    BY <2>3 DEF Object, ObjectOf
  <2>5. e = nextDraw
    BY <1>2, <2>2, <2>4 DEF InFlight
  <2> QED
    BY <1>2, <2>1, <2>5, DrawAssumption
<1>6. ShapesInFlight' = [ShapesInFlight EXCEPT ![nextDraw] = s]
  <2> DEFINE S(d) == LET o == drawCall[ObjectOf(d)]
                     IN  IF d < nextDraw /\ o.draw = d /\ o.references # -1
                         THEN <<o.count, o.batch>> ELSE <<0, 1>>
  <2>1. S(nextDraw) = <<0, 1>>
    BY <1>2
  <2>2. ASSUME NEW d \in Draw, d # nextDraw
        PROVE  S(d)' = S(d)
    <3>1. ObjectOf(d)' = ObjectOf(d) /\ drawCall' = drawCall
      BY <1>1 DEF ObjectOf
    <3>2. d < nextDraw' <=> d < nextDraw
      BY <1>1, <1>2, <2>2, DrawAssumption DEF Draw
    <3> QED
      BY <3>1, <3>2
  <2>3. ASSUME NEW d \in Draw, d = nextDraw
        PROVE  S(d)' = s
    <3>1. ObjectOf(d)' = ObjectOf(nextDraw) /\ drawCall' = drawCall
      BY <1>1, <2>3 DEF ObjectOf
    <3>2. d < nextDraw'
      BY <1>1, <1>2, <2>3
    <3>3. drawCall[ObjectOf(nextDraw)].draw = d /\ drawCall[ObjectOf(nextDraw)].references # -1
      BY <1>2, <2>3 DEF InFlight, Object
    <3> QED
      BY <1>3, <3>1, <3>2, <3>3 DEF Object
  <2> HIDE DEF S
  <2>4. ShapesInFlight = [d \in Draw |-> S(d)] /\ ShapesInFlight' = [d \in Draw |-> S(d)']
    BY DEF ShapesInFlight, S
  <2> QED
    BY <1>4, <2>2, <2>3, <2>4
<1> QED
  BY <1>1, <1>3, <1>4, <1>5, <1>6 DEF InOrder!Submit

\* A cluster renders the batch that follows the one it rendered last.
LEMMA ExecutePixelsRenders ==
    ASSUME Ordered, NEW t \in Thread, ExecutePixels(t)
    PROVE  \E c \in Cluster : InOrder!Render(c)
<1>0. Core /\ IInv /\ Data /\ Batched /\ Typed
  BY CoreHolds DEF Ordered, Whole
<1>1. /\ pc[t] = "pixels"
      /\ UNCHANGED <<nextDraw, drawList, drawCall>>
  BY DEF ExecutePixels, drawVars
<1>2. PICK c \in Used : c = task[t].cluster
  BY <1>0, <1>1, RendersNext
<1>3. PICK d \in Int : d = pixelProgress[c].drawCall
  BY <1>0, ProgressTyped DEF Core
<1>4. PICK f \in Nat : f = pixelProgress[c].processed
  BY <1>0, ProgressTyped DEF Typed, Clusters, Core
<1>5. rendered' = [rendered EXCEPT ![c] = [draw |-> d, first |-> f]]
  <2>1. rendered' = [rendered EXCEPT ![task[t].cluster] =
                       [draw |-> pixelProgress[task[t].cluster].drawCall,
                        first |-> pixelProgress[task[t].cluster].processed]]
    BY <1>0, ExecutePixelsIs
  <2> QED
    BY <1>2, <1>3, <1>4, <2>1
<1>6. c \in Cluster
  BY <1>0, UsedUnits DEF Core
<1>7. d \in Draw /\ d < nextDraw /\ InFlight(d) /\ f < Object(d).count
  <2>1. PICK u \in Used : u = task[t].unit
    BY <1>0, <1>1, RendersNext
  <2>2. UnitIs(u) /\ primitiveProgress[u].drawCall = d /\ primitiveProgress[u].first = f
    BY <1>0, <1>1, <1>2, <1>3, <1>4, <2>1, RendersNext
  <2>3. d \in 0 .. currentDraw /\ d < nextDraw /\ InFlight(d) /\ f < Object(d).count
    BY <2>2 DEF UnitIs
  <2> QED
    BY <1>0, <2>3, DrawAssumption DEF Typed, Draw, Core, Data
<1>8. Precedes(rendered[c], d, f)
  <2>1. ~Rendered(c)
    BY <1>0, <1>1, <1>2, OneRenders DEF Rendered, Noting
  <2> QED
    BY <1>3, <1>4, <2>1 DEF Ordered, RenderedInv, RenderedIs
<1>9. PICK b \in BatchType : b = rendered[c]
  BY <1>0, <1>6 DEF Typed
<1>10. PICK n \in Nat \ {0} : n = Object(d).count
  BY <1>0, <1>3, <1>7, Flying, References DEF Core
<1>11. PICK m \in Nat \ {0} : m = Object(d).batch
  BY <1>0, <1>3, <1>7, Flying, References DEF Core
<1>12. ShapesInFlight[d] = <<n, m>>
  BY <1>7, <1>10, <1>11, ShapeOf
<1>13. b.first \in Nat /\ b.draw \in Draw \cup {-1}
  BY <1>9 DEF BatchType
<1>14. InOrder!Following(b) = [draw |-> d, first |-> f]
  <2>1. CASE f > 0
    <3>1. b.draw = d /\ b.first + m = f
      BY <1>8, <1>9, <1>11, <2>1 DEF Precedes
    <3>2. ~InOrder!Last(b)
      <4>1. b.draw # -1
        BY <1>7, <3>1, DrawAssumption DEF Draw
      <4>2. ~(b.first + m >= n)
        BY <1>7, <1>10, <3>1
      <4> QED
        BY <1>12, <3>1, <4>1, <4>2 DEF InOrder!Last
    <3> QED
      BY <1>12, <3>1, <3>2 DEF InOrder!Following
  <2>2. CASE ~(f > 0)
    <3>1. f = 0 /\ b.draw = d - 1
      BY <1>8, <1>9, <2>2 DEF Precedes
    <3>2. b.draw >= 0 /\ InFlight(b.draw)
               => b.first + Object(b.draw).batch >= Object(b.draw).count
      BY <1>8, <1>9, <2>2 DEF Precedes
    <3>3. InOrder!Last(b)
      <4>1. CASE b.draw = -1
        BY <4>1 DEF InOrder!Last
      <4>2. CASE b.draw \in Draw
        <5>1. b.draw >= 0 /\ b.draw < nextDraw
          BY <1>7, <3>1, <4>2, <1>0, DrawAssumption DEF Draw, Data
        <5>2. CASE InFlight(b.draw)
          <6>1. ShapesInFlight[b.draw] = <<Object(b.draw).count, Object(b.draw).batch>>
            BY <4>2, <5>1, <5>2, ShapeOf
          <6> QED
            BY <3>2, <5>1, <5>2, <6>1 DEF InOrder!Last
        <5>3. CASE ~InFlight(b.draw)
          <6>1. ShapesInFlight[b.draw] = <<0, 1>>
            BY <4>2, <5>1, <5>3, ShapeOf
          <6> QED
            BY <1>13, <6>1 DEF InOrder!Last
        <5> QED
          BY <5>2, <5>3
      <4> QED
        BY <1>13, <4>1, <4>2
    <3> QED
      BY <3>1, <3>3 DEF InOrder!Following
  <2> QED
    BY <2>1, <2>2
<1>15. d \in InOrder!InFlight
  BY <1>7, ShapesFlying
<1>16. ShapesInFlight' = ShapesInFlight
  <2>1. \A x \in 0 .. nextDraw - 1 : (InFlight(x)' <=> InFlight(x)) /\ Object(x)' = Object(x)
    BY <1>1 DEF InFlight, Object, ObjectOf
  <2> QED
    BY <1>0, <1>1, <2>1, SameShapes DEF Typed
<1> QED
  <2>1. InOrder!Following(rendered[c]) = [draw |-> d, first |-> f]
    BY <1>9, <1>14
  <2>2. rendered' = [rendered EXCEPT ![c] = InOrder!Following(rendered[c])]
    BY <1>5, <2>1
  <2>3. InOrder!Following(rendered[c]).draw \in InOrder!InFlight
    BY <1>15, <2>1
  <2> QED
    BY <1>1, <1>6, <1>16, <2>2, <2>3 DEF InOrder!Render

\* A draw call is retired when the last of its references is gone: every
\* cluster is past it, and so are none of those before it in flight.
LEMMA PastRetired ==
    ASSUME Core, NEW d \in 0 .. nextDraw - 1, InFlight(d), Object(d).references = 0,
           NEW c \in Used
    PROVE  pixelProgress[c].drawCall > d
<1>0. d \in Int
  BY DEF Core, Data
<1>1. PICK s \in Slot : s = ObjectOf(d) /\ Open(s) /\ Object(d) = drawCall[s]
                        /\ drawCall[s].draw = d
  BY <1>0, Flying
<1>2. PICK n \in Nat \ {0} : n = Object(d).count
  BY <1>1, References DEF Core
<1>3. PICK b \in Nat \ {0} : b = Object(d).batch
  BY <1>1, References DEF Core
<1>4. PICK q \in Nat : q = Object(d).primitive /\ q >= n /\ UnitsOf(d) = {}
  BY <1>1, <1>2, References DEF Core
<1>5. PICK p \in Int : p = pixelProgress[c].drawCall
  BY ProgressTyped DEF Core
<1>6. PICK e \in Int : e = pixelProgress[c].processed
  BY ProgressTyped DEF Core
<1>7. ASSUME NEW f \in Nat, Starts(f, b), f < n
      PROVE  ~NotPast(c, d, f)
  <2>1. ~\E u \in Used : Holds(u, d, f)
    BY <1>4 DEF Holds, UnitsOf
  <2>2. f < q
    BY <1>4, <1>7
  <2> QED
    BY <1>2, <1>3, <1>4, <1>7, <2>1, <2>2 DEF Core, KeptInv
<1>8. ~(p < d)
  <2>1. Starts(0, b)
    <3>1. 0 = 0 * b
      OBVIOUS
    <3> QED
      BY <3>1 DEF Starts
  <2>2. ~NotPast(c, d, 0)
    BY <1>7, <2>1
  <2> QED
    BY <1>5, <2>2 DEF NotPast
<1>9. p # d
  <2> SUFFICES ASSUME p = d PROVE FALSE
    OBVIOUS
  <2>1. ClusterIs(c)
    BY DEF Core, ClusterInv
  <2>2. Starts(e, b) /\ e < n
    BY <1>0, <1>2, <1>3, <1>5, <1>6, <2>1 DEF ClusterIs, Core, Data
  <2>3. e \in Nat
    <3>1. PICK k \in Nat : e = k * b
      BY <2>2 DEF Starts
    <3> QED
      BY <3>1, Multiples
  <2>4. ~NotPast(c, d, e)
    BY <1>7, <2>2, <2>3
  <2> QED
    BY <1>5, <1>6, <2>4 DEF NotPast
<1> QED
  BY <1>0, <1>5, <1>8, <1>9

\* Freeing the object is what retires a draw call.
LEMMA FreeDrawCallRetires ==
    ASSUME Ordered, NEW t \in Thread, FreeDrawCall(t)
    PROVE  \E d \in Draw : InOrder!Retire(d)
<1>0. Core /\ IInv /\ Data /\ Batched /\ Typed
  BY CoreHolds DEF Ordered, Whole
<1>1. /\ pc[t] = "free" /\ Worker(t)
      /\ drawCall' = [drawCall EXCEPT ![finishing[t]].references = -1]
      /\ UNCHANGED <<nextDraw, drawList, rendered>>
  BY DEF FreeDrawCall, dataVars, Worker
<1>2. PICK s \in Slot : s = finishing[t]
  BY <1>0 DEF Batched, Places
<1>3. Open(s) /\ drawCall[s].draw < nextDraw /\ drawCall[s].references = 0
  BY <1>0, <1>1, <1>2 DEF Batched, FinishInv, Finishing, Retiring
<1>4. PICK d : d = drawCall[s].draw
  OBVIOUS
<1>5. /\ d \in 0 .. nextDraw - 1 /\ d \in Int /\ d \in Draw /\ d < nextDraw
  <2>1. d \in Nat
    BY <1>0, <1>3, <1>4, References DEF Core
  <2> QED
    BY <1>0, <1>3, <1>4, <2>1, DrawAssumption DEF Typed, Draw
<1>6. InFlight(d) /\ Object(d) = drawCall[s] /\ ObjectOf(d) = s
  BY <1>0, <1>3, <1>4, OpenFlies DEF Core, ObjectInv
<1>7. \A c \in Used : pixelProgress[c].drawCall > d
  BY <1>0, <1>3, <1>5, <1>6, PastRetired
<1>8. Used = Cluster
  BY ClustersUsed DEF Ordered
<1>9. \A e \in InOrder!InFlight : d <= e
  <2> SUFFICES ASSUME NEW e \in InOrder!InFlight, ~(d <= e) PROVE FALSE
    OBVIOUS
  <2>1. e \in Draw
    BY DEF InOrder!InFlight
  <2>2. e \in Int /\ e >= 0 /\ e < nextDraw /\ InFlight(e)
    BY <2>1, ShapesFlying, DrawAssumption DEF Draw
  <2>3. PICK c \in Used : NearTo(c, e)
    BY <1>0, <2>2, NotDone DEF Data
  <2>4. PICK p \in Int : p = pixelProgress[c].drawCall
    BY <1>0, ProgressTyped DEF Core
  <2>5. p > d /\ p <= e + 1
    BY <1>7, <2>2, <2>3, <2>4 DEF NearTo
  <2> QED
    BY <1>5, <2>2, <2>5
<1>10. ASSUME NEW c \in Cluster
       PROVE  \/ rendered[c].draw > d
              \/ rendered[c].draw = d /\ InOrder!Last(rendered[c])
  <2>0. c \in Used /\ RenderedIs(c)
    BY <1>8 DEF Ordered, RenderedInv
  <2>1. PICK p \in Int : p = pixelProgress[c].drawCall /\ p > d
    BY <1>0, <1>7, <2>0, ProgressTyped DEF Core
  <2>2. PICK f \in Nat : f = pixelProgress[c].processed
    BY <1>0 DEF Typed, Clusters
  <2>3. PICK b \in BatchType : b = rendered[c]
    BY <1>0 DEF Typed
  <2>4. CASE Rendered(c)
    <3>1. rendered[c] = [draw |-> p, first |-> f]
      BY <2>0, <2>1, <2>2, <2>4 DEF RenderedIs
    <3> QED
      BY <1>5, <2>1, <3>1
  <2>5. CASE ~Rendered(c)
    <3>1. Precedes(b, p, f)
      BY <2>0, <2>1, <2>2, <2>3, <2>5 DEF RenderedIs
    <3>2. CASE f > 0 \/ p - 1 > d
      <4>1. b.draw = p \/ (b.draw = p - 1 /\ ~(f > 0))
        BY <3>1 DEF Precedes
      <4>2. b.draw > d
        BY <1>5, <2>1, <3>2, <4>1
      <4> QED
        BY <2>3, <4>2
    <3>3. CASE ~(f > 0) /\ p - 1 = d
      <4>1. b.draw = d /\ b.first + Object(d).batch >= Object(d).count
        <5>1. b.draw = d
          BY <3>1, <3>3 DEF Precedes
        <5>2. d >= 0
          BY <1>5, <1>0 DEF Data
        <5> QED
          BY <1>6, <3>1, <3>3, <5>1, <5>2 DEF Precedes
      <4>2. ShapesInFlight[d] = <<Object(d).count, Object(d).batch>>
        BY <1>5, <1>6, ShapeOf
      <4> QED
        BY <2>3, <4>1, <4>2 DEF InOrder!Last
    <3> QED
      BY <1>5, <2>1, <3>2, <3>3
  <2> QED
    BY <2>4, <2>5
<1>11. ShapesInFlight' = [ShapesInFlight EXCEPT ![d] = <<0, 1>>]
  <2> DEFINE S(x) == LET o == drawCall[ObjectOf(x)]
                     IN  IF x < nextDraw /\ o.draw = x /\ o.references # -1
                         THEN <<o.count, o.batch>> ELSE <<0, 1>>
  <2>1. drawList' = drawList /\ nextDraw' = nextDraw
    BY <1>1
  <2>2. drawCall'[s].references = -1
    BY <1>0, <1>1, <1>2 DEF Data, DrawCalls
  <2>3. S(d)' = <<0, 1>>
    <3>1. ObjectOf(d)' = s
      BY <1>6, <2>1 DEF ObjectOf
    <3> QED
      BY <2>2, <3>1
  <2>4. ASSUME NEW x \in Draw, x # d
        PROVE  S(x)' = S(x)
    <3>1. ObjectOf(x)' = ObjectOf(x)
      BY <2>1 DEF ObjectOf
    <3>2. CASE ObjectOf(x) = s
      <4>1. drawCall[s].draw # x /\ drawCall'[s].draw = drawCall[s].draw
        BY <1>0, <1>1, <1>4, <2>4, ObjectsKept
      <4> QED
        BY <3>1, <3>2, <4>1
    <3>3. CASE ObjectOf(x) # s
      <4>1. drawCall'[ObjectOf(x)] = drawCall[ObjectOf(x)]
        <5>1. PICK y \in Slot : y = ObjectOf(x)
          BY <1>0, ObjectIs, DrawAssumption DEF Draw
        <5> QED
          BY <1>0, <1>1, <1>2, <3>3, <5>1 DEF Data, DrawCalls
      <4> QED
        BY <2>1, <3>1, <4>1
    <3> QED
      BY <3>2, <3>3
  <2> HIDE DEF S
  <2>5. ShapesInFlight = [x \in Draw |-> S(x)] /\ ShapesInFlight' = [x \in Draw |-> S(x)']
    BY DEF ShapesInFlight, S
  <2> QED
    BY <1>5, <2>3, <2>4, <2>5
<1>12. d \in InOrder!InFlight
  BY <1>5, <1>6, ShapesFlying
<1>13. UNCHANGED <<nextDraw, rendered>>
  BY <1>1
<1> QED
  BY <1>5, <1>9, <1>10, <1>11, <1>12, <1>13 DEF InOrder!Retire, InOrder!NoDraw

\* Every step is one of the order of rendering, or none.
LEMMA InOrderStep ==
    ASSUME Ordered, [Next]_vars
    PROVE  [InOrder!Next]_(InOrder!vars)
<1>0. IInv /\ Data /\ Batched
  BY DEF Ordered, Whole
<1>1. CASE App
  <2>1. CASE PublishDraw
    BY <2>1, PublishDrawSubmits DEF InOrder!Next
  <2>2. CASE ~PublishDraw
    <3>1. rendered' = rendered /\ nextDraw' = nextDraw
      BY <1>1, <2>2, AppChanges DEF dataVars
    <3> QED
      BY <1>0, <1>1, <3>1, AppFlight, StepStutters
  <2> QED
    BY <2>1, <2>2
<1>2. ASSUME NEW t \in Thread, Worker(t)
      PROVE  [InOrder!Next]_(InOrder!vars)
  <2>1. CASE ExecutePixels(t)
    BY <2>1, ExecutePixelsRenders DEF InOrder!Next
  <2>2. CASE FreeDrawCall(t)
    BY <2>2, FreeDrawCallRetires DEF InOrder!Next
  <2>3. CASE ~ExecutePixels(t) /\ ~FreeDrawCall(t)
    <3>1. rendered' = rendered /\ nextDraw' = nextDraw
      BY <1>2, <2>3, WorkerChanges
    <3> QED
      BY <1>0, <1>2, <2>3, <3>1, WorkerFlight, StepStutters
  <2> QED
    BY <2>1, <2>2, <2>3
<1>3. CASE UNCHANGED vars
  <2>1. UNCHANGED <<drawList, drawCall, nextDraw, rendered>>
    BY <1>3 DEF vars, drawVars, dataVars
  <2>2. \A d : (InFlight(d)' <=> InFlight(d)) /\ Object(d)' = Object(d)
    BY <2>1 DEF InFlight, Object, ObjectOf
  <2> QED
    BY <2>1, <2>2, StepStutters
<1> QED
  BY <1>1, <1>2, <1>3 DEF Next, Dead

(* Whatever the threads do, every cluster renders every batch of every draw *)
(* call once, in the order in which they were submitted, and a draw call is *)
(* retired when all clusters have rendered it, the oldest one first.        *)
THEOREM RendersInOrder ==
    ASSUME SameClusters
    PROVE  Spec => ImplementsInOrderRendering
<1>1. Init => InOrder!Init
  BY InOrderBegins
<1>2. Ordered /\ [Next]_vars => [InOrder!Next]_(InOrder!vars)
  BY InOrderStep
<1> QED
  BY <1>1, <1>2, OrderedInvariant, PTL DEF Spec, ImplementsInOrderRendering, InOrder!Spec
=============================================================================
