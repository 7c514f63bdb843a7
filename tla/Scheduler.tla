------------------------------ MODULE Scheduler ------------------------------
(***************************************************************************)
(* The task scheduler of sw::Renderer (src/src/Renderer/Renderer.cpp): the *)
(* application thread hands out draw calls, worker threads split them into *)
(* batches of primitives, set each batch up in a primitive unit, and have  *)
(* every pixel cluster render every batch in order.                        *)
(*                                                                         *)
(* A step is a piece of code between two accesses to what other threads    *)
(* share.  schedulerMutex is explicit: its holder takes several steps,     *)
(* because other threads finish tasks, outside the mutex, meanwhile.       *)
(***************************************************************************)
EXTENDS Integers, Sequences, FiniteSets, FiniteSetsExt

CONSTANTS
    ThreadCount,   \* the thread counts of the successive configurations
    DRAW_COUNT,    \* draw calls buffered
    DrawShape,     \* the pairs <<primitives, batch size>> of draw calls
    MaxDraws,      \* bound: draw calls that are submitted
    NONE           \* no thread

ASSUME ThreadCountAssumption ==
    ThreadCount \in Seq(1..16) /\ Len(ThreadCount) > 0
ASSUME DrawAssumption ==
    /\ DRAW_COUNT \in Nat \ {0}
    /\ MaxDraws \in Nat \ {0}
    /\ DrawShape \subseteq (Nat \ {0}) \X (Nat \ {0})
ASSUME NoneAssumption == NONE \notin Nat

\* ceilPow2 of a thread count: the number of units and of clusters.
ceilPow2(n) == CHOOSE p \in {1, 2, 4, 8, 16} :
                   p >= n /\ \A q \in {1, 2, 4, 8, 16} : q >= n => p <= q

MaxThreads == CHOOSE n \in 1..16 : /\ \E i \in DOMAIN ThreadCount : ThreadCount[i] = n
                                   /\ \A i \in DOMAIN ThreadCount : ThreadCount[i] <= n

Thread == 0 .. MaxThreads - 1            \* worker threads
Unit == 0 .. ceilPow2(MaxThreads) - 1    \* primitive units
Cluster == Unit                          \* pixel clusters
Slot == 0 .. DRAW_COUNT - 1              \* DrawCall objects
Draw == 0 .. MaxDraws - 1                \* draw calls, in the order submitted

VARIABLES
    (* the application thread *)
    appPc,             \* where it is; "idle": outside the renderer
    appIndex,          \* its loop index, over DrawCall objects or threads
    appShape,          \* the shape of the draw call it submits
    config,            \* the configuration in use, an index of ThreadCount
    destroying,        \* it is in ~Renderer
    (* draw calls *)
    drawList,          \* drawList[d % DRAW_COUNT]: the object of draw call d
    drawCall,          \* the DrawCall objects
    currentDraw,       \* the draw call whose primitives enter the pipeline
    nextDraw,          \* draw calls submitted
    sync,              \* PRIVATE claims on the resource sync
    (* worker threads *)
    unitCount,         \* units, and clusters, in use
    pc,                \* where each worker is
    task,              \* its current task
    finishing,         \* the DrawCall object it finishes a task of
    suspend, resume,   \* events
    resumeApp,         \* event
    exitThreads,
    threadsAwake,
    (* the schedule *)
    schedulerMutex,    \* its holder, or NONE
    index,             \* loop index of the holder
    taskQueue,         \* qSize tasks, from (qHead - qSize) % 32
    primitiveProgress, \* per unit
    pixelProgress,     \* per cluster
    (* what the pixels come from *)
    batchOf,           \* the batch whose primitives a unit holds
    rendered           \* the batch each cluster rendered last

appVars == <<appPc, appIndex, appShape, config, destroying>>
drawVars == <<drawList, drawCall, currentDraw, nextDraw, sync>>
threadVars == <<unitCount, pc, task, finishing, suspend, resume, resumeApp,
                exitThreads, threadsAwake>>
scheduleVars == <<schedulerMutex, index, taskQueue, primitiveProgress,
                  pixelProgress>>
dataVars == <<batchOf, rendered>>
vars == <<appVars, drawVars, threadVars, scheduleVars, dataVars>>

threadCount == ThreadCount[config]
clusterCount == unitCount

(* A batch of primitives: the draw call whose data (constants, routines,    *)
(* vertex streams, render targets) it is made from, and its first primitive.*)
NoBatch == [draw |-> -1, first |-> 0]

\* The DrawCall object that drawList has for draw call d.
ObjectOf(d) == drawList[d % DRAW_COUNT]

NoTask(type) == [type |-> type, unit |-> 0, cluster |-> 0]

Init ==
    /\ appPc = "idle" /\ appIndex = 0 /\ appShape = <<0, 1>>
    /\ config = 1 /\ destroying = FALSE
    /\ drawList = [s \in Slot |-> s]
    /\ drawCall = [s \in Slot |-> [draw |-> -1, primitive |-> 0, count |-> 0,
                                   batch |-> 1, references |-> -1]]
    /\ currentDraw = 0 /\ nextDraw = 0 /\ sync = 0
    /\ unitCount = ceilPow2(ThreadCount[1])
    /\ pc = [t \in Thread |-> "none"]
    /\ task = [t \in Thread |-> NoTask("SUSPEND")]
    /\ finishing = [t \in Thread |-> 0]
    /\ suspend = [t \in Thread |-> FALSE]
    /\ resume = [t \in Thread |-> FALSE]
    /\ resumeApp = FALSE /\ exitThreads = FALSE /\ threadsAwake = 0
    /\ schedulerMutex = NONE /\ index = 0 /\ taskQueue = <<>>
    /\ primitiveProgress = [u \in Unit |-> [drawCall |-> 0, first |-> 0,
                                            count |-> 0, references |-> 0]]
    /\ pixelProgress = [c \in Cluster |-> [drawCall |-> 0, processed |-> 0,
                                           executing |-> FALSE]]
    /\ batchOf = [u \in Unit |-> NoBatch]
    /\ rendered = [c \in Cluster |-> NoBatch]

-----------------------------------------------------------------------------
(* The application thread: draw().                                          *)

DrawWith(shape) ==
    /\ appPc = "idle" /\ nextDraw < MaxDraws
    /\ appShape' = shape
    /\ appIndex' = 0
    /\ \/ /\ config < Len(ThreadCount)          \* hasNewConfiguration()
          /\ appPc' = IF pc[0] = "none" THEN "configure" ELSE "terminate"
       \/ appPc' = IF pc[0] = "none" THEN "initialize" ELSE "lock"
    /\ UNCHANGED <<config, destroying, drawVars, threadVars, scheduleVars,
                   dataVars>>

\* terminateThreads(): wait for all threads to suspend themselves.
TerminateThreads ==
    /\ appPc = "terminate" /\ threadsAwake = 0
    /\ appPc' = "exit"
    /\ UNCHANGED <<appIndex, appShape, config, destroying, drawVars,
                   threadVars, scheduleVars, dataVars>>

ExitThread ==
    /\ appPc = "exit"
    /\ exitThreads' = TRUE
    /\ resume' = [resume EXCEPT ![appIndex] = TRUE]
    /\ appPc' = "join"
    /\ UNCHANGED <<appIndex, appShape, config, destroying, drawVars, unitCount,
                   pc, task, finishing, suspend, resumeApp, threadsAwake,
                   scheduleVars, dataVars>>

JoinThread ==
    /\ appPc = "join" /\ pc[appIndex] = "exited"
    /\ pc' = [pc EXCEPT ![appIndex] = "none"]
    /\ IF appIndex + 1 < threadCount
       THEN appIndex' = appIndex + 1 /\ appPc' = "exit"
       ELSE appIndex' = 0 /\ appPc' = IF destroying THEN "dead" ELSE "configure"
    /\ UNCHANGED <<appShape, config, destroying, drawVars, unitCount, task,
                   finishing, suspend, resume, resumeApp, exitThreads,
                   threadsAwake, scheduleVars, dataVars>>

\* updateConfiguration(): the new thread count.
Configure ==
    /\ appPc = "configure"
    /\ config' = config + 1
    /\ appPc' = "initialize"
    /\ UNCHANGED <<appIndex, appShape, destroying, drawVars, threadVars,
                   scheduleVars, dataVars>>

\* initializeThreads(): one thread is created, then waited for until it is
\* about to suspend itself; its suspend event stays signaled.
InitializeThread ==
    /\ appPc = "initialize"
    /\ unitCount' = ceilPow2(threadCount)
    /\ task' = [task EXCEPT ![appIndex] = NoTask("SUSPEND")]
    /\ suspend' = [suspend EXCEPT ![appIndex] = FALSE]
    /\ resume' = [resume EXCEPT ![appIndex] = FALSE]
    /\ exitThreads' = FALSE
    /\ pc' = [pc EXCEPT ![appIndex] = "loop"]
    /\ appPc' = "created"
    /\ UNCHANGED <<appIndex, appShape, config, destroying, drawVars, finishing,
                   resumeApp, threadsAwake, scheduleVars, dataVars>>

AwaitThread ==
    /\ appPc = "created" /\ suspend[appIndex]
    /\ IF appIndex + 1 < threadCount
       THEN appIndex' = appIndex + 1 /\ appPc' = "initialize"
       ELSE appIndex' = 0 /\ appPc' = "lock"
    /\ UNCHANGED <<appShape, config, destroying, drawVars, threadVars,
                   scheduleVars, dataVars>>

LockSyncDropped ==                  \* mutated: sync is not claimed
    /\ appPc = "lock"
    /\ appPc' = "search"
    /\ UNCHANGED <<appIndex, appShape, config, destroying, drawVars,
                   threadVars, scheduleVars, dataVars>>

\* sync->lock(PRIVATE): its other claims are PRIVATE too.
LockSync ==
    /\ appPc = "lock"
    /\ sync' = sync + 1
    /\ appPc' = "search"
    /\ UNCHANGED <<appIndex, appShape, config, destroying, drawList, drawCall,
                   currentDraw, nextDraw, threadVars, scheduleVars, dataVars>>

\* One iteration of the search for a DrawCall object that is free.
SearchDrawCall ==
    /\ appPc = "search"
    /\ IF drawCall[appIndex].references = -1
       THEN /\ drawList' = [drawList EXCEPT ![nextDraw % DRAW_COUNT] = appIndex]
            /\ appPc' = "fill"
            /\ UNCHANGED appIndex
       ELSE /\ IF appIndex + 1 < DRAW_COUNT
               THEN appIndex' = appIndex + 1 /\ UNCHANGED appPc
               ELSE appIndex' = 0 /\ appPc' = "wait"
            /\ UNCHANGED drawList
    /\ UNCHANGED <<appShape, config, destroying, drawCall, currentDraw,
                   nextDraw, sync, threadVars, scheduleVars, dataVars>>

WaitDrawCall ==
    /\ appPc = "wait" /\ resumeApp
    /\ resumeApp' = FALSE
    /\ appPc' = "search"
    /\ UNCHANGED <<appIndex, appShape, config, destroying, drawVars, unitCount,
                   pc, task, finishing, suspend, resume, exitThreads,
                   threadsAwake, scheduleVars, dataVars>>

\* references = (count + batch - 1) / batch
Batches(shape) == (shape[1] + shape[2] - 1) \div shape[2]

FillDrawCall ==
    /\ appPc = "fill"
    /\ drawCall' = [drawCall EXCEPT ![appIndex] =
                      [draw |-> nextDraw, primitive |-> 0, count |-> appShape[1],
                       batch |-> appShape[2], references |-> Batches(appShape)]]
    /\ appPc' = "publish"
    /\ appShape' = <<0, 1>>
    /\ UNCHANGED <<appIndex, config, destroying, drawList,
                   currentDraw, nextDraw, sync, threadVars, scheduleVars,
                   dataVars>>

PublishDraw ==
    /\ appPc = "publish" /\ schedulerMutex = NONE
    /\ nextDraw' = nextDraw + 1
    /\ appPc' = "published"
    /\ UNCHANGED <<appIndex, appShape, config, destroying, drawList, drawCall,
                   currentDraw, sync, threadVars, scheduleVars, dataVars>>

\* if(!threadsAwake), read outside the mutex
CheckAwake ==
    /\ appPc = "published"
    /\ appPc' = IF threadsAwake = 0 THEN "wake" ELSE "idle"
    /\ UNCHANGED <<appIndex, appShape, config, destroying, drawVars,
                   threadVars, scheduleVars, dataVars>>

WakeFirst ==
    /\ appPc = "wake" /\ suspend[0]
    /\ suspend' = [suspend EXCEPT ![0] = FALSE]
    /\ threadsAwake' = 1
    /\ task' = [task EXCEPT ![0] = NoTask("RESUME")]
    /\ resume' = [resume EXCEPT ![0] = TRUE]
    /\ appPc' = "idle"
    /\ UNCHANGED <<appIndex, appShape, config, destroying, drawVars, unitCount,
                   pc, finishing, resumeApp, exitThreads, scheduleVars, dataVars>>

\* synchronize(): a PUBLIC claim on sync has to wait for the PRIVATE ones.
Synchronize ==
    /\ appPc = "idle"
    /\ appPc' = "synchronize"
    /\ UNCHANGED <<appIndex, appShape, config, destroying, drawVars,
                   threadVars, scheduleVars, dataVars>>

Synchronized ==
    /\ appPc = "synchronize" /\ sync = 0
    /\ appPc' = "idle"
    /\ UNCHANGED <<appIndex, appShape, config, destroying, drawVars,
                   threadVars, scheduleVars, dataVars>>

\* ~Renderer
Destroy ==
    /\ appPc = "idle"
    /\ destroying' = TRUE
    /\ appIndex' = 0
    /\ appPc' = IF pc[0] = "none" THEN "dead" ELSE "terminate"
    /\ UNCHANGED <<appShape, config, drawVars, threadVars, scheduleVars,
                   dataVars>>

App ==
    \/ \E shape \in DrawShape : DrawWith(shape)
    \/ TerminateThreads \/ ExitThread \/ JoinThread \/ Configure
    \/ InitializeThread \/ AwaitThread
    \/ LockSync \/ SearchDrawCall \/ WaitDrawCall \/ FillDrawCall
    \/ PublishDraw \/ CheckAwake \/ WakeFirst
    \/ Synchronize \/ Synchronized \/ Destroy

-----------------------------------------------------------------------------
(* A worker thread: threadLoop() and taskLoop().                            *)

\* while(!exitThreads), then the first while(task.type != SUSPEND)
EnterLoop(t) ==
    /\ pc[t] = "loop"
    /\ pc' = [pc EXCEPT ![t] = CASE exitThreads -> "exited"
                              [] ~exitThreads /\ task[t].type = "SUSPEND" -> "suspend"
                              [] OTHER -> "schedule"]
    /\ UNCHANGED <<appVars, drawVars, unitCount, task, finishing, suspend,
                   resume, resumeApp, exitThreads, threadsAwake, scheduleVars,
                   dataVars>>

SignalSuspend(t) ==
    /\ pc[t] = "suspend"
    /\ suspend' = [suspend EXCEPT ![t] = TRUE]
    /\ pc' = [pc EXCEPT ![t] = "parked"]
    /\ UNCHANGED <<appVars, drawVars, unitCount, task, finishing, resume,
                   resumeApp, exitThreads, threadsAwake, scheduleVars, dataVars>>

AwaitResume(t) ==
    /\ pc[t] = "parked" /\ resume[t]
    /\ resume' = [resume EXCEPT ![t] = FALSE]
    /\ pc' = [pc EXCEPT ![t] = "loop"]
    /\ UNCHANGED <<appVars, drawVars, unitCount, task, finishing, suspend,
                   resumeApp, exitThreads, threadsAwake, scheduleVars, dataVars>>

-----------------------------------------------------------------------------
(* scheduleTask(), under schedulerMutex.                                    *)

Goto(t, l) == pc' = [pc EXCEPT ![t] = l]

LockScheduler(t) ==
    /\ pc[t] = "schedule" /\ schedulerMutex = NONE
    /\ schedulerMutex' = t
    /\ index' = 0
    /\ Goto(t, IF Len(taskQueue) < threadCount - threadsAwake + 1
               THEN "findPixels" ELSE "take")
    /\ UNCHANGED <<appVars, drawVars, unitCount, task, finishing, suspend,
                   resume, resumeApp, exitThreads, threadsAwake, taskQueue,
                   primitiveProgress, pixelProgress, dataVars>>

ReadyUnitsAnyDraw(c) ==             \* mutated: the draw call is not compared
    {u \in 0 .. unitCount - 1 :
        /\ primitiveProgress[u].references > 0
        /\ primitiveProgress[u].first = pixelProgress[c].processed}

ReadyUnitsAnyBatch(c) ==            \* mutated: the batch is not compared
    {u \in 0 .. unitCount - 1 :
        /\ primitiveProgress[u].references > 0
        /\ primitiveProgress[u].drawCall = pixelProgress[c].drawCall}

\* Units whose batch is the next one for cluster c.
ReadyUnits(c) ==
    {u \in 0 .. unitCount - 1 :
        /\ primitiveProgress[u].references > 0
        /\ primitiveProgress[u].drawCall = pixelProgress[c].drawCall
        /\ primitiveProgress[u].first = pixelProgress[c].processed}

\* findAvailableTasks(), one cluster of the search for pixel tasks.
FindPixelTask(t) ==
    /\ pc[t] = "findPixels"
    /\ IF ~pixelProgress[index].executing /\ ReadyUnits(index) # {}
       THEN /\ taskQueue' = Append(taskQueue, [type |-> "PIXELS",
                                 unit |-> Min(ReadyUnits(index)), cluster |-> index])
            /\ pixelProgress' = [pixelProgress EXCEPT ![index].executing = TRUE]
       ELSE UNCHANGED <<taskQueue, pixelProgress>>
    /\ IF index + 1 < clusterCount
       THEN index' = index + 1 /\ UNCHANGED pc
       ELSE index' = 0 /\ Goto(t, IF currentDraw = nextDraw THEN "take"
                                  ELSE "findPrimitives")
    /\ UNCHANGED <<appVars, drawVars, unitCount, task, finishing, suspend,
                   resume, resumeApp, exitThreads, threadsAwake,
                   schedulerMutex, primitiveProgress, dataVars>>

ExhaustedLate ==                    \* mutated: one batch too many
    LET d == drawCall[ObjectOf(currentDraw)] IN d.primitive >= d.count + d.batch

\* The draw call that has primitives left, when there is one.
Exhausted == drawCall[ObjectOf(currentDraw)].primitive
                 >= drawCall[ObjectOf(currentDraw)].count
CurrentDraw == IF Exhausted THEN currentDraw + 1 ELSE currentDraw

\* The unit is not being set up and no cluster has still to render from it.
UnitFree(u) == primitiveProgress[u].references = 0

\* findAvailableTasks(), one unit of the search for primitive tasks.
FindPrimitiveTask(t) ==
    /\ pc[t] = "findPrimitives"
    /\ currentDraw' = CurrentDraw
    /\ IF CurrentDraw # nextDraw /\ UnitFree(index)
       THEN LET o == ObjectOf(CurrentDraw)
                left == drawCall[o].count - drawCall[o].primitive
                batch == drawCall[o].batch
            IN  /\ primitiveProgress' = [primitiveProgress EXCEPT ![index] =
                      [drawCall |-> CurrentDraw, first |-> drawCall[o].primitive,
                       count |-> IF left >= batch THEN batch ELSE left,
                       references |-> -1]]
                /\ drawCall' = [drawCall EXCEPT ![o].primitive = @ + batch]
                /\ taskQueue' = Append(taskQueue,
                      [type |-> "PRIMITIVES", unit |-> index, cluster |-> 0])
       ELSE UNCHANGED <<primitiveProgress, drawCall, taskQueue>>
    /\ IF CurrentDraw # nextDraw /\ index + 1 < unitCount
       THEN index' = index + 1 /\ UNCHANGED pc
       ELSE index' = 0 /\ Goto(t, "take")
    /\ UNCHANGED <<appVars, drawList, nextDraw, sync, unitCount, task,
                   finishing, suspend, resume, resumeApp, exitThreads,
                   threadsAwake, schedulerMutex, pixelProgress, dataVars>>

\* Where the execution of a task starts; RESUME and SUSPEND are no work.
Execution(type) == CASE type = "PRIMITIVES" -> "primitives"
                     [] type = "PIXELS" -> "pixels"

Sleepers == {i \in 0 .. threadCount - 1 : task[i].type = "SUSPEND"}

\* Take a task, and then wake as many threads as there are tasks for; or,
\* when there is no task, suspend.
TakeTask(t) ==
    /\ pc[t] = "take"
    /\ IF taskQueue # <<>>
       THEN LET wakeup == Len(taskQueue) - 1 - threadsAwake + 1
            IN  /\ task' = [task EXCEPT ![t] = Head(taskQueue)]
                /\ taskQueue' = Tail(taskQueue)
                /\ IF threadsAwake # threadCount /\ wakeup > 0 /\ Sleepers # {}
                   THEN /\ Goto(t, "wakeup") /\ index' = wakeup
                        /\ UNCHANGED schedulerMutex
                   ELSE /\ Goto(t, Execution(Head(taskQueue).type)) /\ index' = 0
                        /\ schedulerMutex' = NONE
                /\ UNCHANGED threadsAwake
       ELSE /\ task' = [task EXCEPT ![t] = NoTask("SUSPEND")]
            /\ threadsAwake' = threadsAwake - 1
            /\ schedulerMutex' = NONE
            /\ index' = 0
            /\ Goto(t, "suspend")
            /\ UNCHANGED taskQueue
    /\ UNCHANGED <<appVars, drawVars, unitCount, finishing, suspend, resume,
                   resumeApp, exitThreads, primitiveProgress, pixelProgress,
                   dataVars>>

\* One thread is woken; index counts those that are still to be woken.
WakeThread(t) ==
    /\ pc[t] = "wakeup"
    /\ LET i == Min(Sleepers)
       IN  /\ suspend[i]
           /\ suspend' = [suspend EXCEPT ![i] = FALSE]
           /\ task' = [task EXCEPT ![i] = NoTask("RESUME")]
           /\ resume' = [resume EXCEPT ![i] = TRUE]
           /\ threadsAwake' = threadsAwake + 1
           /\ IF index > 1 /\ Sleepers # {i}
              THEN index' = index - 1 /\ UNCHANGED <<pc, schedulerMutex>>
              ELSE /\ index' = 0 /\ schedulerMutex' = NONE
                   /\ Goto(t, Execution(task[t].type))
    /\ UNCHANGED <<appVars, drawVars, unitCount, finishing, resumeApp,
                   exitThreads, taskQueue, primitiveProgress, pixelProgress,
                   dataVars>>

-----------------------------------------------------------------------------
(* executeTask() and finishRendering(), outside the mutex.                  *)

\* Vertex processing and setup fill the unit with its batch; then the unit
\* is handed to the clusters.
ExecutePrimitives(t) ==
    /\ pc[t] = "primitives"
    /\ LET u == task[t].unit
           p == primitiveProgress[u]
       IN  /\ batchOf' = [batchOf EXCEPT ![u] =
                 [draw |-> drawCall[ObjectOf(p.drawCall)].draw, first |-> p.first]]
           /\ primitiveProgress' =
                 [primitiveProgress EXCEPT ![u].references = clusterCount]
    /\ Goto(t, "schedule")
    /\ UNCHANGED <<appVars, drawVars, unitCount, task, finishing, suspend,
                   resume, resumeApp, exitThreads, threadsAwake,
                   schedulerMutex, index, taskQueue, pixelProgress, rendered>>

\* The pixel routine renders what is in the unit with the data of the draw
\* call the cluster has come to; the two had better belong together.
ExecutePixels(t) ==
    /\ pc[t] = "pixels"
    /\ LET u == task[t].unit
           c == task[t].cluster
           o == ObjectOf(pixelProgress[c].drawCall)
       IN  rendered' = [rendered EXCEPT ![c] =
               IF drawCall[o].draw = batchOf[u].draw THEN batchOf[u] ELSE NoBatch]
    /\ Goto(t, "progress")
    /\ UNCHANGED <<appVars, drawVars, unitCount, task, finishing, suspend,
                   resume, resumeApp, exitThreads, threadsAwake, scheduleVars,
                   batchOf>>

UpdateProgress(t) ==
    /\ pc[t] = "progress"
    /\ LET c == task[t].cluster
           p == primitiveProgress[task[t].unit]
           o == ObjectOf(p.drawCall)
           processed == p.first + p.count
       IN  /\ finishing' = [finishing EXCEPT ![t] = o]
           /\ pixelProgress' = [pixelProgress EXCEPT ![c] =
                 IF processed >= drawCall[o].count
                 THEN [@ EXCEPT !.drawCall = pixelProgress[c].drawCall + 1,
                                 !.processed = 0]
                 ELSE [@ EXCEPT !.processed = processed]]
    /\ Goto(t, "releaseUnit")
    /\ UNCHANGED <<appVars, drawVars, unitCount, task, suspend, resume,
                   resumeApp, exitThreads, threadsAwake, schedulerMutex, index,
                   taskQueue, primitiveProgress, dataVars>>

\* atomicDecrement(&primitiveProgress[unit].references)
ReleaseUnit(t) ==
    /\ pc[t] = "releaseUnit"
    /\ LET u == task[t].unit
       IN  /\ primitiveProgress' =
                 [primitiveProgress EXCEPT ![u].references = @ - 1]
           /\ Goto(t, IF primitiveProgress[u].references = 1
                      THEN "releaseDraw" ELSE "finished")
    /\ UNCHANGED <<appVars, drawVars, unitCount, task, finishing, suspend,
                   resume, resumeApp, exitThreads, threadsAwake,
                   schedulerMutex, index, taskQueue, pixelProgress, dataVars>>

\* atomicDecrement(&draw.references)
ReleaseDraw(t) ==
    /\ pc[t] = "releaseDraw"
    /\ LET o == finishing[t]
       IN  /\ drawCall' = [drawCall EXCEPT ![o].references = @ - 1]
           /\ Goto(t, IF drawCall[o].references = 1
                      THEN "retire" ELSE "finished")
    /\ UNCHANGED <<appVars, drawList, currentDraw, nextDraw, sync, unitCount,
                   task, finishing, suspend, resume, resumeApp, exitThreads,
                   threadsAwake, scheduleVars, dataVars>>

\* The queries are updated, every resource of the draw call is unlocked, sync
\* last.
RetireDraw(t) ==
    /\ pc[t] = "retire"
    /\ sync' = sync - 1
    /\ Goto(t, "free")
    /\ UNCHANGED <<appVars, drawList, drawCall, currentDraw, nextDraw,
                   unitCount, task, finishing, suspend, resume, resumeApp,
                   exitThreads, threadsAwake, scheduleVars, dataVars>>

\* draw.references = -1: the application thread may find the object free now.
FreeDrawCall(t) ==
    /\ pc[t] = "free"
    /\ drawCall' = [drawCall EXCEPT ![finishing[t]].references = -1]
    /\ Goto(t, "signalApp")
    /\ UNCHANGED <<appVars, drawList, currentDraw, nextDraw, sync, unitCount,
                   task, finishing, suspend, resume, resumeApp, exitThreads,
                   threadsAwake, scheduleVars, dataVars>>

SignalAppDropped(t) ==              \* mutated: resumeApp is not signaled
    /\ pc[t] = "signalApp"
    /\ Goto(t, "finished")
    /\ UNCHANGED <<appVars, drawVars, unitCount, task, finishing, suspend,
                   resume, resumeApp, exitThreads, threadsAwake, scheduleVars,
                   dataVars>>

SignalApp(t) ==
    /\ pc[t] = "signalApp"
    /\ resumeApp' = TRUE
    /\ Goto(t, "finished")
    /\ UNCHANGED <<appVars, drawVars, unitCount, task, finishing, suspend,
                   resume, exitThreads, threadsAwake, scheduleVars, dataVars>>

FinishPixelsStillExecuting(t) ==    \* mutated: executing = false is missing
    /\ pc[t] = "finished"
    /\ finishing' = [finishing EXCEPT ![t] = 0]
    /\ Goto(t, "schedule")
    /\ UNCHANGED <<appVars, drawVars, unitCount, task, suspend, resume,
                   resumeApp, exitThreads, threadsAwake, scheduleVars, dataVars>>

\* pixelProgress[cluster].executing = false
FinishPixels(t) ==
    /\ pc[t] = "finished"
    /\ pixelProgress' =
          [pixelProgress EXCEPT ![task[t].cluster].executing = FALSE]
    /\ finishing' = [finishing EXCEPT ![t] = 0]
    /\ Goto(t, "schedule")
    /\ UNCHANGED <<appVars, drawVars, unitCount, task, suspend, resume,
                   resumeApp, exitThreads, threadsAwake, schedulerMutex, index,
                   taskQueue, primitiveProgress, dataVars>>

Worker(t) ==
    \/ EnterLoop(t) \/ SignalSuspend(t) \/ AwaitResume(t)
    \/ LockScheduler(t) \/ FindPixelTask(t) \/ FindPrimitiveTask(t)
    \/ TakeTask(t) \/ WakeThread(t)
    \/ ExecutePrimitives(t) \/ ExecutePixels(t)
    \/ UpdateProgress(t) \/ ReleaseUnit(t) \/ ReleaseDraw(t) \/ RetireDraw(t)
    \/ FreeDrawCall(t) \/ SignalApp(t) \/ FinishPixels(t)

\* The renderer is gone: nothing more happens.
Dead == appPc = "dead" /\ UNCHANGED vars

Next == App \/ (\E t \in Thread : Worker(t)) \/ Dead

Spec == Init /\ [][Next]_vars

(* Every thread keeps running while it can.  The application is not obliged *)
(* to start a call, but it finishes the one it is in.                       *)
Fairness ==
    /\ \A t \in Thread : WF_vars(Worker(t))
    /\ WF_vars(App /\ appPc # "idle")

FairSpec == Spec /\ Fairness
-----------------------------------------------------------------------------
TaskType == [type : {"PRIMITIVES", "PIXELS", "RESUME", "SUSPEND"},
             unit : Unit, cluster : Cluster]

TypeOK ==
    /\ appPc \in {"idle", "terminate", "exit", "join", "configure",
                  "initialize", "created", "lock", "search", "wait", "fill",
                  "publish", "published", "wake", "synchronize", "dead"}
    /\ appIndex \in Nat
    /\ appShape \in Nat \X (Nat \ {0})
    /\ config \in DOMAIN ThreadCount
    /\ destroying \in BOOLEAN
    /\ drawList \in [Slot -> Slot]
    /\ drawCall \in [Slot -> [draw : Draw \cup {-1}, primitive : Nat, count : Nat,
                              batch : Nat \ {0}, references : Nat \cup {-1}]]
    /\ currentDraw \in 0..MaxDraws /\ nextDraw \in 0..MaxDraws
    /\ sync \in Nat
    /\ unitCount \in 1 .. ceilPow2(MaxThreads)
    /\ pc \in [Thread -> {"none", "loop", "suspend", "parked", "exited",
                          "schedule", "findPixels", "findPrimitives", "take",
                          "wakeup", "primitives", "pixels", "progress",
                          "releaseUnit", "releaseDraw", "retire", "free",
                          "signalApp", "finished"}]
    /\ task \in [Thread -> TaskType]
    /\ finishing \in [Thread -> Slot]
    /\ suspend \in [Thread -> BOOLEAN] /\ resume \in [Thread -> BOOLEAN]
    /\ resumeApp \in BOOLEAN /\ exitThreads \in BOOLEAN
    /\ threadsAwake \in 0 .. MaxThreads
    /\ schedulerMutex \in Thread \cup {NONE}
    /\ index \in Nat
    /\ taskQueue \in Seq(TaskType)
    /\ primitiveProgress \in [Unit -> [drawCall : Draw, first : Nat, count : Nat,
                                       references : Nat \cup {-1}]]
    /\ pixelProgress \in [Cluster -> [drawCall : 0..MaxDraws, processed : Nat,
                                      executing : BOOLEAN]]
    /\ batchOf \in [Unit -> [draw : Draw \cup {-1}, first : Nat]]
    /\ rendered \in [Cluster -> [draw : Draw \cup {-1}, first : Nat]]
-----------------------------------------------------------------------------
(* No work is queued or in hand twice: a cluster renders from one unit at a *)
(* time and a unit is set up once per batch.  It is why taskQueue, with 32  *)
(* entries for up to 16 units and 16 clusters, never overwrites a task.     *)
SameWork(a, b) ==
    /\ a.type = b.type
    /\ \/ a.type = "PIXELS" /\ a.cluster = b.cluster
       \/ a.type = "PRIMITIVES" /\ a.unit = b.unit
InHand(t) == pc[t] \in {"wakeup", "primitives", "pixels", "progress", "releaseUnit",
                        "releaseDraw", "retire", "free", "signalApp", "finished"}
TasksDistinct ==
    /\ \A i, j \in DOMAIN taskQueue : i # j => ~SameWork(taskQueue[i], taskQueue[j])
    /\ \A t \in Thread : InHand(t) =>
          /\ \A i \in DOMAIN taskQueue : ~SameWork(taskQueue[i], task[t])
          /\ \A o \in Thread \ {t} : InHand(o) => ~SameWork(task[o], task[t])

(* threadsAwake counts the threads that have, or are being given, a task    *)
(* other than SUSPEND: the decisions to search for tasks, to wake threads   *)
(* and to terminate rest on it.                                             *)
AwakeExact ==
    threadsAwake = Cardinality({t \in Thread : task[t].type # "SUSPEND"})

(* A worker that sets a unit up has it for itself: no other worker sets it  *)
(* up or renders from it, and no such task is queued.                       *)
Uses(t, u) == /\ task[t].unit = u
              /\ pc[t] \in {"wakeup", "primitives", "pixels", "progress", "releaseUnit"}
UnitExclusive ==
    \A t \in Thread :
        pc[t] = "primitives" =>
            /\ \A o \in Thread \ {t} : ~Uses(o, task[t].unit)
            /\ \A i \in DOMAIN taskQueue : taskQueue[i].unit # task[t].unit

(* While a worker renders, the unit holds the batch its cluster has come to *)
(* and drawList still has the object of that draw call.                     *)
PixelInputsStable ==
    \A t \in Thread :
        pc[t] = "pixels" =>
            LET p == pixelProgress[task[t].cluster]
            IN  /\ batchOf[task[t].unit] = [draw |-> p.drawCall, first |-> p.processed]
                /\ drawCall[ObjectOf(p.drawCall)].draw = p.drawCall

(* The scheduler never looks at a DrawCall object that was given to another *)
(* draw call: as long as currentDraw has not passed a draw call, its object *)
(* is where drawList says, and is not free.                                 *)
CurrentDrawInFlight ==
    \A d \in currentDraw .. nextDraw - 1 :
        /\ drawCall[ObjectOf(d)].draw = d
        /\ drawCall[ObjectOf(d)].references > 0

(* What the scheduler's decisions rest on, whoever makes them: counts and   *)
(* indices are in range, nothing is queued or under way twice, units are    *)
(* not shared while they are set up, and drawList has every draw call that  *)
(* currentDraw has not passed.                                              *)
SchedulerInv ==
    /\ TypeOK
    /\ AwakeExact
    /\ TasksDistinct
    /\ UnitExclusive
    /\ CurrentDrawInFlight

(* Threads are terminated, and the renderer is destroyed, when threadsAwake *)
(* is 0: then no draw call is left unfinished, whatever the interleaving in *)
(* which the last tasks ended and the last threads suspended themselves.    *)
Quiescent ==
    threadsAwake = 0 /\ appPc \notin {"published", "wake"} =>
        /\ taskQueue = <<>>
        /\ currentDraw \in {nextDraw, nextDraw - 1}
        /\ \A s \in Slot : drawCall[s].draw \in 0 .. nextDraw - 1 =>
                               drawCall[s].references = -1
        /\ \A u \in Unit : primitiveProgress[u].references = 0

(* After synchronize() everything that was drawn has been rendered.         *)
SynchronizeWaits ==
    [][Synchronized => \A s \in Slot : drawCall[s].references <= 0]_vars

(* Every draw call that is submitted gets retired.                          *)
EveryDrawRetired == \A s \in Slot : \A d \in Draw :
    (drawCall[s].draw = d /\ nextDraw > d) ~>
        ~(drawCall[s].draw = d /\ drawCall[s].references # -1)

(* A call of the application into the renderer returns.                     *)
AppReturns == (appPc # "idle") ~> (appPc \in {"idle", "dead"})

(* The order of rendering, as clients may rely on it.                       *)
ShapesInFlight ==
    [d \in Draw |->
        LET o == drawCall[ObjectOf(d)]
        IN  IF d < nextDraw /\ o.draw = d /\ o.references # -1
            THEN <<o.count, o.batch>>
            ELSE <<0, 1>>]

InOrder == INSTANCE InOrderRendering WITH submitted <- nextDraw, shape <- ShapesInFlight

ImplementsInOrderRendering == InOrder!Spec
=============================================================================
