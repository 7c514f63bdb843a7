-------------------------- MODULE SchedulerInvariant --------------------------
(***************************************************************************)
(* The inductive invariant of Scheduler, in named parts: what the threads  *)
(* and the schedule have to do with each other (IInv), what the schedule   *)
(* has to do with the draw calls (Batched), when there is nothing to do    *)
(* (Rests), what holds the resource sync (SyncInv), the types of the rest  *)
(* (Typed); and, for the order of rendering, what every cluster has        *)
(* rendered (RenderedInv).  Scheduler_proofs shows that the steps keep it. *)
(***************************************************************************)
EXTENDS Scheduler

-----------------------------------------------------------------------------
(* The threads and the schedule                                             *)

Holding == {"findPixels", "findPrimitives", "take", "wakeup"}
Rendering == {"pixels", "progress", "releaseUnit", "releaseDraw", "retire", "free",
              "signalApp", "finished"}
Busy == {"schedule", "primitives"} \cup Holding \cup Rendering
Asleep == {"none", "loop", "suspend", "parked", "exited"}

Types ==
    /\ appIndex \in Nat
    /\ config \in DOMAIN ThreadCount
    /\ unitCount \in 1 .. ceilPow2(MaxThreads)
    /\ pc \in [Thread -> Busy \cup Asleep]
    /\ task \in [Thread -> TaskType]
    /\ threadsAwake \in Int
    /\ schedulerMutex \in Thread \cup {NONE}
    /\ index \in Nat
    /\ taskQueue \in Seq(TaskType)
    /\ primitiveProgress \in [Unit -> [drawCall : Int, first : Int, count : Int,
                                       references : Int]]
    /\ pixelProgress \in [Cluster -> [drawCall : Int, processed : Int,
                                      executing : BOOLEAN]]

(* The draw calls and where the application searches them: no more than     *)
(* their types, for what is copied from them into the schedule.             *)
DrawCalls == [Slot -> [draw : Int, primitive : Int, count : Int, batch : Int,
                       references : Int]]

Data ==
    /\ drawList \in [Slot -> Slot]
    /\ drawCall \in DrawCalls
    /\ currentDraw \in Int /\ nextDraw \in Int
    /\ appShape \in Nat \X (Nat \ {0})
    /\ appPc \in {"lock", "search", "wait", "fill"} => appIndex \in Slot

(* The application exits, creates and wakes threads while none is awake,    *)
(* and reconfigures only when there is a configuration to come.             *)
AppInv ==
    /\ appPc \in {"exit", "join", "configure", "initialize", "created", "wake", "dead"}
          => threadsAwake = 0
    /\ pc[0] = "none" => threadsAwake = 0
    /\ appPc \in {"lock", "search", "wait", "fill", "publish", "published", "wake"}
          => pc[0] # "none"
    /\ appPc \in {"terminate", "exit", "join", "configure", "initialize", "created"}
          => appIndex \in Thread
    /\ appPc \in {"initialize", "created"} /\ appIndex > 0 => pc[0] # "none"
    /\ appPc = "created" => pc[appIndex] # "none"
    /\ appPc = "configure" => appIndex = 0 /\ config < Len(ThreadCount)
    /\ appPc \in {"terminate", "exit", "join"} => destroying \/ config < Len(ThreadCount)

(* A worker that runs has a task, of the type its place calls for; one that *)
(* schedules holds schedulerMutex.                                          *)
WorkerInv ==
    \A t \in Thread :
        /\ pc[t] \in Holding <=> schedulerMutex = t
        /\ pc[t] \in Busy => task[t].type # "SUSPEND"
        /\ pc[t] \in Rendering => task[t].type = "PIXELS"
        /\ pc[t] = "primitives" => task[t].type = "PRIMITIVES"
        /\ pc[t] \in {"findPixels", "findPrimitives"} => index < unitCount
        /\ pc[t] = "wakeup" => Sleepers # {}

(* The work that is queued or in hand is marked in the progress of its      *)
(* cluster or unit, which keeps it from being queued again.                 *)
Claimed(k) ==
    \/ k.type = "PIXELS" /\ pixelProgress[k.cluster].executing
    \/ k.type = "PRIMITIVES" /\ primitiveProgress[k.unit].references < 0

ClaimInv ==
    /\ \A i \in DOMAIN taskQueue : Claimed(taskQueue[i])
    /\ \A t \in Thread : InHand(t) => Claimed(task[t])

IInv == Types /\ AppInv /\ WorkerInv /\ AwakeExact /\ ClaimInv /\ TasksDistinct

Awake == {t \in Thread : task[t].type # "SUSPEND"}
-----------------------------------------------------------------------------
(* Draw calls, the batches of them, and who still refers to them            *)

Used == 0 .. unitCount - 1               \* units, and clusters, in use
Active(u) == primitiveProgress[u].references # 0
Object(d) == drawCall[ObjectOf(d)]
Open(s) == drawCall[s].references # -1
InFlight(d) == Object(d).draw = d /\ Object(d).references # -1
Starts(f, n) == \E k \in Nat : f = k * n  \* batches of n primitives start there

(* Cluster c has not come past the batch of draw call d that starts at f.   *)
NotPast(c, d, f) ==
    \/ pixelProgress[c].drawCall < d
    \/ pixelProgress[c].drawCall = d /\ pixelProgress[c].processed <= f

(* The clusters for which a unit is still referred to: they have to render  *)
(* its batch, or have done so and their workers not yet released it.        *)
Releases(t, c, u) == pc[t] = "releaseUnit" /\ task[t].cluster = c /\ task[t].unit = u
Owes(c, u) ==
    \/ NotPast(c, primitiveProgress[u].drawCall, primitiveProgress[u].first)
    \/ \E t \in Thread : Releases(t, c, u)
Owing(u) == {c \in Used : Owes(c, u)}

(* What a draw call is still referred to for, besides batches that are not  *)
(* yet given to a unit.                                                     *)
UnitsOf(d) == {u \in Used : Active(u) /\ primitiveProgress[u].drawCall = d}
Releasing(s) == {t \in Thread : pc[t] = "releaseDraw" /\ finishing[t] = s}

Finishing == {"releaseUnit", "releaseDraw", "retire", "free"}
Retiring == {"retire", "free"}

(* The DrawCall objects: those that are not free are where drawList has     *)
(* them, and only one that the application is filling is not yet submitted. *)
ObjectInv ==
    /\ \A s \in Slot : Open(s) =>
          /\ drawCall[s].draw \in 0 .. nextDraw
          /\ ObjectOf(drawCall[s].draw) = s
          /\ drawCall[s].draw = nextDraw => appPc = "publish"
          /\ drawCall[s].count > 0 /\ drawCall[s].batch > 0
    /\ appPc \in {"fill", "publish"} => ObjectOf(nextDraw) = appIndex
    /\ appPc = "fill" => ~Open(appIndex)
    /\ appPc = "publish" => InFlight(nextDraw)
    /\ appPc \in {"configure", "initialize", "created", "lock", "search", "wait", "fill"}
          => appShape[1] > 0 /\ nextDraw < MaxDraws
    /\ appPc = "publish" => nextDraw < MaxDraws
    /\ appPc \in {"terminate", "exit", "join"} /\ ~destroying
          => appShape[1] > 0 /\ nextDraw < MaxDraws

(* A draw call is referred to once for each batch that has not been given   *)
(* to a unit, for each unit that has one, and for each worker that is about *)
(* to give up the last reference to a unit's.                               *)
Counted(s) ==
    LET o == drawCall[s]
        batches == Batches(<<o.count, o.batch>>)
    IN  \E k \in Nat :
          /\ k <= batches
          /\ o.primitive = k * o.batch
          /\ o.references = batches - k + Cardinality(UnitsOf(o.draw))
                                        + Cardinality(Releasing(s))

CountInv ==
    \A s \in Slot : Open(s) =>
       /\ Counted(s)
       /\ drawCall[s].draw < currentDraw => drawCall[s].primitive >= drawCall[s].count
       /\ drawCall[s].draw > currentDraw \/ drawCall[s].draw = nextDraw
             => drawCall[s].primitive = 0

(* What is in a unit in use is a batch of a draw call in flight, of its own,*)
(* and the unit is referred to once for each cluster that owes it.          *)
Holds(u, d, f) ==
    Active(u) /\ primitiveProgress[u].drawCall = d /\ primitiveProgress[u].first = f

UnitIs(u) ==
    LET p == primitiveProgress[u]
        o == Object(p.drawCall)
    IN  /\ p.drawCall \in 0 .. currentDraw /\ p.drawCall < nextDraw
        /\ InFlight(p.drawCall)
        /\ Starts(p.first, o.batch) /\ p.first < o.count /\ p.first < o.primitive
        /\ p.count = IF o.count - p.first >= o.batch THEN o.batch ELSE o.count - p.first
        /\ p.references < 0 => p.references = -1 /\ Owing(u) = Used
        /\ p.references > 0 =>
              /\ p.references = Cardinality(Owing(u))
              /\ batchOf[u] = [draw |-> p.drawCall, first |-> p.first]

UnitInv ==
    /\ \A u \in Unit \ Used : ~Active(u)
    /\ \A u \in Used : Active(u) => UnitIs(u)
    /\ \A u, v \in Used : Active(u) /\ Active(v) /\ u # v =>
          \/ primitiveProgress[u].drawCall # primitiveProgress[v].drawCall
          \/ primitiveProgress[u].first # primitiveProgress[v].first

(* A cluster is at the start of a batch, and not past what is in units.     *)
ClusterIs(c) ==
    LET p == pixelProgress[c]
    IN  /\ p.drawCall \in 0 .. currentDraw
        /\ p.drawCall = nextDraw => p.processed = 0
        /\ p.drawCall < nextDraw =>
              /\ InFlight(p.drawCall)
              /\ Starts(p.processed, Object(p.drawCall).batch)
              /\ p.processed < Object(p.drawCall).count
              /\ p.processed <= Object(p.drawCall).primitive

ClusterInv == \A c \in Used : ClusterIs(c)

(* No batch gets lost: one that was given to a unit is there, or every      *)
(* cluster has rendered it.                                                 *)
KeptInv ==
    /\ currentDraw \in 0 .. nextDraw
    /\ \A d \in 0 .. nextDraw - 1 :
          /\ ~InFlight(d) => \A c \in Used : pixelProgress[c].drawCall > d
          /\ InFlight(d) =>
                \A f \in Nat :
                   Starts(f, Object(d).batch) /\ f < Object(d).count /\ f < Object(d).primitive =>
                      \/ \E u \in Used : Holds(u, d, f)
                      \/ \A c \in Used : ~NotPast(c, d, f)

(* The worker that finishes a batch keeps its cluster from the next one; of *)
(* a draw call whose last reference was given up, one worker takes care.    *)
NearTo(c, d) ==
    \/ pixelProgress[c].drawCall <= d
    \/ pixelProgress[c].drawCall = d + 1 /\ pixelProgress[c].processed = 0

FinishInv ==
    /\ \A t \in Thread : pc[t] \in Finishing =>
          /\ task[t].cluster \in Used
          /\ Open(finishing[t]) /\ drawCall[finishing[t]].draw < nextDraw
          /\ NearTo(task[t].cluster, drawCall[finishing[t]].draw)
    /\ \A t \in Thread : pc[t] = "releaseUnit" =>
          LET p == primitiveProgress[task[t].unit]
          IN  /\ task[t].unit \in Used
              /\ p.references > 0
              /\ ~NotPast(task[t].cluster, p.drawCall, p.first)
              /\ finishing[t] = ObjectOf(p.drawCall)
    /\ \A t \in Thread : pc[t] \in Retiring => drawCall[finishing[t]].references = 0
    /\ \A t, o \in Thread : pc[t] \in Retiring /\ pc[o] \in Retiring /\ t # o
                               => finishing[t] # finishing[o]
    /\ \A s \in Slot : drawCall[s].references = 0 =>
          \E t \in Thread : pc[t] \in Retiring /\ finishing[t] = s

(* The task of a cluster, queued or in hand, is its next batch.             *)
Renders(k) ==
    k.type = "PIXELS" =>
       /\ k.unit \in Used /\ k.cluster \in Used
       /\ primitiveProgress[k.unit].references > 0
       /\ primitiveProgress[k.unit].drawCall = pixelProgress[k.cluster].drawCall
       /\ primitiveProgress[k.unit].first = pixelProgress[k.cluster].processed
SetsUp(k) == k.type = "PRIMITIVES" => k.unit \in Used

WorkIs ==
    /\ \A i \in DOMAIN taskQueue : Renders(taskQueue[i]) /\ SetsUp(taskQueue[i])
    /\ \A t \in Thread :
          /\ pc[t] \in {"wakeup", "pixels", "progress"} => Renders(task[t])
          /\ pc[t] \in {"wakeup", "primitives"} => SetsUp(task[t])

(* While currentDraw stands at a draw call of which no batch is left, the   *)
(* last one is in a unit and no cluster has begun to render it: it is only  *)
(* found in the search that also moves currentDraw on.                      *)
OnUnit(k, u) == k.type = "PIXELS" /\ k.unit = u
LastIn(u) ==
    LET p == primitiveProgress[u]
    IN  /\ Active(u) /\ p.drawCall = currentDraw
        /\ p.first + p.count >= Object(currentDraw).count
        /\ \A t \in Thread : pc[t] \in {"wakeup", "pixels", "progress", "releaseUnit"}
                                => ~OnUnit(task[t], u)
        /\ (\E i \in DOMAIN taskQueue : OnUnit(taskQueue[i], u))
              => \E t \in Thread : pc[t] \in {"findPixels", "findPrimitives"}

SearchInv ==
    /\ currentDraw < nextDraw /\ Exhausted => \E u \in Used : LastIn(u)
    /\ \A t \in Thread : pc[t] = "findPrimitives" => currentDraw < nextDraw

Places ==
    /\ finishing \in [Thread -> Slot]
    /\ batchOf \in [Unit -> [draw : Int, first : Int]]

Batched == /\ Places /\ ObjectInv /\ CountInv /\ UnitInv /\ ClusterInv /\ KeptInv
           /\ FinishInv /\ WorkIs /\ SearchInv

\* What of it does not speak of tasks.
Core == /\ Types /\ Data /\ ObjectInv /\ CountInv /\ UnitInv /\ ClusterInv /\ KeptInv
        /\ FinishInv
-----------------------------------------------------------------------------
(* Nothing is left undone                                                   *)

(* What is marked as under way is queued or in hand.                        *)
Work == {taskQueue[i] : i \in DOMAIN taskQueue} \cup {task[t] : t \in {o \in Thread : InHand(o)}}

Covers(k, c) == k.type = "PIXELS" /\ k.cluster = c
Fills(k, u) == k.type = "PRIMITIVES" /\ k.unit = u

WorkOwned ==
    /\ \A c \in Used : pixelProgress[c].executing => \E k \in Work : Covers(k, c)
    /\ \A u \in Used : primitiveProgress[u].references < 0 => \E k \in Work : Fills(k, u)

(* What the last worker awake has searched without finding a task has none. *)
Alone(t) == \A o \in Thread \ {t} : task[o].type = "SUSPEND"

AloneSearches ==
    \A t \in Thread : Alone(t) /\ taskQueue = <<>> =>
        /\ pc[t] = "findPixels" => \A c \in Used : c < index => ReadyUnits(c) = {}
        /\ pc[t] \in {"findPrimitives", "take"} => \A c \in Used : ReadyUnits(c) = {}
        /\ pc[t] = "findPrimitives" => \A u \in Used : u < index => Active(u)
        /\ pc[t] = "take" => currentDraw = nextDraw \/ \A u \in Used : Active(u)

(* While no worker is awake nothing is left to be done, unless the          *)
(* application is about to wake one.                                        *)
NothingToDo ==
    threadsAwake = 0 =>
        /\ taskQueue = <<>>
        /\ \A u \in Used : ~Active(u)
        /\ appPc \notin {"published", "wake"} => currentDraw = nextDraw

UnitsFit == ceilPow2(threadCount) <= unitCount

Rests == WorkOwned /\ AloneSearches /\ NothingToDo /\ UnitsFit
-----------------------------------------------------------------------------
(* The resource sync, and types                                             *)

(* The resource sync is claimed once for each draw call that was filled and *)
(* not retired, and once by an application thread that is about to fill one.*)
Frees(t, s) == pc[t] = "free" /\ finishing[t] = s
Unretired == {s \in Slot : Open(s) /\ \A t \in Thread : ~Frees(t, s)}
Submitting == appPc \in {"search", "wait", "fill"}

SyncInv == sync = Cardinality(Unretired) + IF Submitting THEN 1 ELSE 0

(* What TypeOK says and the other invariants do not.                        *)
Entries == [Slot -> [draw : Draw \cup {-1}, primitive : Nat, count : Nat, batch : Nat \ {0},
                     references : Nat \cup {-1}]]
Units == [Unit -> [drawCall : Draw, first : Nat, count : Nat, references : Nat \cup {-1}]]
Clusters == [Cluster -> [drawCall : 0 .. MaxDraws, processed : Nat, executing : BOOLEAN]]
BatchType == [draw : Draw \cup {-1}, first : Nat]

Typed ==
    /\ appPc \in {"idle", "terminate", "exit", "join", "configure", "initialize", "created",
                  "lock", "search", "wait", "fill", "publish", "published", "wake",
                  "synchronize", "dead"}
    /\ destroying \in BOOLEAN
    /\ drawCall \in Entries
    /\ nextDraw \in 0 .. MaxDraws
    /\ suspend \in [Thread -> BOOLEAN] /\ resume \in [Thread -> BOOLEAN]
    /\ resumeApp \in BOOLEAN /\ exitThreads \in BOOLEAN
    /\ primitiveProgress \in Units /\ pixelProgress \in Clusters
    /\ batchOf \in [Unit -> BatchType] /\ rendered \in [Cluster -> BatchType]

Whole == IInv /\ Data /\ Batched /\ Rests /\ SyncInv /\ Typed
-----------------------------------------------------------------------------
(* The order of rendering                                                   *)

AllUsed == unitCount = ceilPow2(MaxThreads)      \* every cluster is in use

(* The shapes that draw calls are submitted with.                           *)
ShapeInv ==
    /\ appPc \in {"configure", "initialize", "created", "lock", "search", "wait", "fill"}
          => appShape \in DrawShape
    /\ appPc \in {"terminate", "exit", "join"} /\ ~destroying => appShape \in DrawShape
    /\ appPc = "publish" =>
          <<Object(nextDraw).count, Object(nextDraw).batch>> \in DrawShape

(* What a cluster has rendered last is the batch before the one it is to    *)
(* render next, or that one while its worker has not noted it yet.          *)
Noting(t, c) == pc[t] = "progress" /\ task[t].cluster = c
Rendered(c) == \E t \in Thread : Noting(t, c)

Precedes(b, d, f) ==
    IF f > 0 THEN b.draw = d /\ b.first + Object(d).batch = f
    ELSE /\ b.draw = d - 1
         /\ b.draw >= 0 /\ InFlight(b.draw)
               => b.first + Object(b.draw).batch >= Object(b.draw).count

RenderedIs(c) ==
    /\ Rendered(c) => rendered[c] = [draw |-> pixelProgress[c].drawCall,
                                     first |-> pixelProgress[c].processed]
    /\ ~Rendered(c) => Precedes(rendered[c], pixelProgress[c].drawCall,
                                pixelProgress[c].processed)

RenderedInv == \A c \in Used : RenderedIs(c)

Ordered == Whole /\ AllUsed /\ ShapeInv /\ RenderedInv
-----------------------------------------------------------------------------
(* What is assumed of the configurations where a theorem needs it           *)

(* No configuration has more clusters than the one before it: a cluster     *)
(* that comes into use later waits for draw call 0.                         *)
NeverGrows ==
    \A i \in DOMAIN ThreadCount : i + 1 \in DOMAIN ThreadCount =>
        ceilPow2(ThreadCount[i + 1]) <= ceilPow2(ThreadCount[i])

(* Every configuration has the same number of clusters.                     *)
SameClusters == \A i \in DOMAIN ThreadCount : ceilPow2(ThreadCount[i]) = ceilPow2(MaxThreads)
=============================================================================
