# SwiftShader: verification of the renderer's concurrency

SwiftShader draws 3D graphics on the CPU. Front ends (OpenGL ES 1.1, 2.0 and 3.0,
OpenGL, EGL, Direct3D 9) translate calls into state of `sw::Renderer` and then
call `Renderer::draw()`, which only *submits* a draw call: worker threads shade
its vertices and pixels later, while the application goes on, changes buffers and
textures, destroys objects and submits more. What keeps that correct is a small
amount of code: a resource lock, a task scheduler, reference counts, double
buffered surfaces and a few caches. These modules model that code. What shaders
compute is left out.

Paths in this file are relative to `src/src/`, the directory of the sources.

Contents: [inventory](#inventory), [modules](#modules), [runs](#runs),
[fairness](#fairness), [proofs](#proofs), [findings](#findings),
[not modelled](#what-is-not-modelled), [plan and progress](#plan-and-progress), [how to run](#how-to-run).

## Inventory

| Component | State it keeps | Operations | Modelled |
|---|---|---|---|
| Resource lock (`Common/Resource`) | class and count of the claims, waiting threads, an event, orphaned | `lock`, `lock(relinquisher, claimer)`, `unlock`, `unlock(relinquisher)`, `destruct` | all: `Resource`, `AccessorLock` |
| Renderer scheduling (`Renderer/Renderer`) | draw calls in flight, task queue, progress per primitive unit and pixel cluster, events per thread | `draw`, `scheduleTask`, `findAvailableTasks`, `executeTask`, `finishRendering`, `synchronize`, `initializeThreads`, `terminateThreads` | partly: `Scheduler`, `InOrderRendering` |
| Primitive assembly and vertex cache (`Renderer.cpp`, `Shader/VertexRoutine`) | batch, vertex cache per worker | `processPrimitiveVertices`, the loop of the generated vertex routine | partly: `PrimitiveBatches` |
| Buffer objects (`libGLESv2/Buffer`) | contents, mapping | `bufferData`, `bufferSubData`, `mapRange`, `unmap`, destruction | all: `BufferObject` |
| Shared objects and names (`OpenGL/common/Object`, `NameSpace`, `libGLESv2/ResourceManager`) | name space, name maps, reference counts, bindings | generate, bind, delete, destroy a context | partly: `SharedObjects` |
| Surfaces (`Renderer/Surface`) | two buffers, which of them is dirty, whether mipmaps are | external and internal locks, conversion, destruction | partly: `Surface` |
| Occlusion queries (`libGLESv2/Query`, `D3D9/Direct3DQuery9`, `sw::Query`) | sum, references, building; the renderer's list | begin, end, test, delete; `draw`, `finishRendering` | partly: `OcclusionQuery` |
| Routines and their caches (`Renderer/LRUCache`, `Reactor/Routine`) | ring of routines by state, bindings | `query`, `add`, resize, `bind`, `unbind` | all: `RoutineCache`, `RecentStates` |
| Streaming buffers (`libGLESv2/VertexDataManager`, `IndexDataManager`) | a buffer, its write position, buffers of current values | reserve, map, write, replace | partly: `StreamingBuffers` |
| EGL surfaces, contexts and images (`OpenGL/common/Image`, `libEGL`, `libGLESv2/Texture`, `Device`) | reference counts, back buffers, parents, current context and surface per thread | create, make current, destroy, swap, bind to a texture, share, draw | partly: `ImageReferences` |
| Configuration server (`Main/SwiftConfig`) | server thread, flag, configuration | serve, poll, shut down | no |
| Processors, shader translation, Reactor, GLSL compiler, other front ends, frame buffers, utilities | see PROJECT.json | | no |

### How they interact

* The **application thread** calls a front end. `Renderer::draw()` waits for a free
  `DrawCall` object, copies the state into it, *claims* every resource the draw
  call uses (vertex streams, index buffer, textures with `PRIVATE`, render
  targets with `MANAGED`, the renderer's own `sync` resource with `PRIVATE`) and
  publishes it by incrementing `nextDraw`.
* **Worker threads** share a queue of tasks, protected by `schedulerMutex`. A
  *primitive task* fills one of a few units with the next batch of primitives of
  the current draw call; a *pixel task* has one of a few clusters, each of which
  owns part of the screen, render one unit. Progress counters and reference
  counts, changed without the mutex, say when a unit may be refilled and when a
  draw call is done; the worker that finds that it is done gives the claims up and
  frees the `DrawCall` object.
* The application thread is kept from touching what is in use by claims of the
  class `PUBLIC`, which wait for other classes. Objects are destroyed
  asynchronously: `Resource::destruct()` leaves the deletion to the last claim,
  `~Surface` waits for the claims instead.
* **Contexts** share named objects, and may be current to several threads.

### What is hard

* *Interleavings*: threads leave the critical section of the lock to wait; tasks
  are finished outside the scheduler's mutex while another thread plans new ones
  under it; `threadsAwake` is read without the mutex by `draw()`.
* *Stale state*: a unit, a `DrawCall` object, a vertex cache or a buffer that is
  reused while something still refers to its former use.
* *Lost wakeups and waiting for ever*: auto-reset events that are signaled
  before they are waited for; draw calls that wait for claims of their own.
* *Lifetimes*: resources, objects and surfaces that are deleted by one thread
  while another has them.
* *Boundaries*: the last, partial batch; the closing line of a loop; names handed
  back out of order; the 32 entries of the task queue.

The hazards, each with its line, are listed in `PROJECT.json` with the properties
that cover them; those without a property say why.

### What makes each component correct

* Resource lock: claims of two classes never coexist; nobody who waits is
  forgotten; a destructed resource is deleted once, by a thread that is alone.
* Scheduler: each cluster renders each batch of each draw call once and in order,
  from a unit that holds that batch and with the data of that draw call; work is
  never lost when threads suspend themselves; every draw call retires.
* Primitive assembly: batches do not show in the result, and a vertex cache never
  yields a vertex of another draw call or index.
* Buffer objects: a draw call sees contents as they were when it was submitted;
  replaced contents are freed in the end.
* Shared objects: counts equal references; deletion happens once, and only when
  nothing refers to the object; names are unique.
* Surfaces: no change is lost between the two buffers; mipmaps and samples are
  current; buffers are given back exactly once and after their last use.
* Queries: a result that can be read is the sum of the draw calls between begin and end;
  nobody writes to a query that is gone; the result arrives.
* Routines: a draw call runs code that exists and was generated for its state; the cache
  behaves as a list; routines are freed with their last user.
* Streaming: the bytes of a draw call in flight are not written to; ranges fit into their
  buffers; replaced buffers are freed in the end.
* Images: reference counts equal what refers to the object, in whatever order surfaces,
  contexts, textures and EGLImages are destroyed; what is drawn reaches the back buffer.

## Modules

### AccessorLock and Resource

`Resource` translates `Common/Resource.cpp` line by line. Each section between
`criticalSection.lock()` and `unlock()` is one step, since nothing else can see
inside it. A thread is elsewhere only in three places, which are values of
`pc`: `"waiting"` in `unblock.wait()`, `"woken"` when the auto-reset event has
let it through but it has not re-entered the section, and `"deleting"` between
leaving the section and `delete this`. The loop at the end of both `lock()`
functions is the operator `Acquire`, used on entry and after each wakeup, as in
the code.

A claim is not tied to a thread: `Unlock` may be called by any thread when there
is a claim, because `draw()` claims and a worker releases. `Worker` is a thread
that never claims; without one, all threads could end up waiting for a claim that
nobody is left to give up, which is not how the lock is used. Clients stop calling
after `destruct()` unless they hold a claim (`MayCall`, `HasClaim`): that is the
contract of an asynchronous destructor.

`AccessorLock` states what clients rely on, as counts of claims per class;
`Resource` implements it with one class and one count.

### InOrderRendering and Scheduler

`Scheduler` has the application thread's control flow through `draw()`,
`synchronize()` and `~Renderer` (variable `appPc`), and each worker's through
`threadLoop`, `taskLoop`, `scheduleTask`, `findAvailableTasks`, `executeTask` and
`finishRendering` (`pc`). Steps end where another thread can see the difference:
the holder of `schedulerMutex` takes one step per cluster and per unit it looks at,
because others finish tasks without the mutex meanwhile, and `finishRendering`
takes a step for each atomic decrement, for the release of `sync`, for
`references = -1` and for the signal.

The data is reduced to what could go wrong with it: `batchOf[u]` is the batch that
a unit holds, named by draw call and first primitive, taken from the `DrawCall`
object that the code reads at that time; `rendered[c]` is what a cluster last
rendered, which is `NoBatch` if the unit's batch and the draw call's data did not
belong together. The task queue is a sequence; that its 32 entries suffice follows
from `TasksDistinct` (at most one entry per unit and per cluster), as
`Scheduler_proofs` shows. `SchedulerInv` is the
conjunction of what each decision relies on: types, `AwakeExact` (`threadsAwake` is the
number of threads that are awake), `TasksDistinct`, `UnitExclusive` and
`CurrentDrawInFlight`.

`InOrderRendering` is the promise: every cluster renders the batches in order, a
draw call is retired when every cluster has finished it, and at most `DRAW_COUNT`
are in flight. Its draw calls in flight are those of `Scheduler` that are published and that
`drawList` has, with their object not free (`ShapesInFlight`). `SchedulerInvariant` defines the
inductive invariant that `Scheduler_proofs` is about.

### PrimitiveBatches

Draw calls are cut into batches as `findAvailableTasks` does, each batch goes to
any worker, and the worker assembles positions (`Corners`, for the eight
topologies of `processPrimitiveVertices`), reads indices and shades them through
its own vertex cache as the generated loop of `VertexRoutine` does, with tags and
lines. A shaded vertex is the pair of the draw call and the index it was made
from, so a vertex from the wrong place is a different value. The caches start
uninitialised, as memory from `allocate()` is. Workers take turns vertex by vertex,
but as caches are private this matters only for which worker gets which batch.
Assumptions (`DrawCall`): at least one primitive, as front ends guarantee; an index
for each vertex; quads come without an index buffer and with even batch sizes,
as in the only front end that has quads (`libGL`). Batches of one triangle (the
wireframe and point fill modes) are Direct3D's, which has no quads.

### ResourceClaims, BufferObject and Surface

`ResourceClaims` has the same lock as a value, for modules with several resources
where one application thread is the only one that waits; waiting is a guard
(`Grants`). A draw call in flight is a slot that holds claims, and its retirement is
a step of its own.

`BufferObject`: `bufferData` destructs the contents and allocates new ones, in one
step, as it takes no lock; `bufferSubData`, `mapRange` and `draw` may have to wait,
so that the call begins in one step (`Begin`) and goes on in another. A deleted
resource may be allocated again. `draw[s].intact` becomes false when the bytes a
draw call reads are changed or freed. Two things that clients of the API may not do
are not done: drawing from, or mapping, a mapped buffer. A third, specifying a
mapped buffer anew, is legal, and is on only with `RespecifyMapped` (see the
findings). `unmap` unlocks whatever the contents are *then*, as the code does.

`Surface`: `external` and `internal` have a buffer number and a dirty flag; buffer
numbers are equal when the two share their memory, which happens when formats are
identical. `memory[b]` is the version of the contents in a buffer, and `update`
copies it from one to the other where the code converts. A draw call goes through
the code's order: mipmaps are generated when a texture is applied, the internal
buffer is updated without a claim (`LOCK_UNLOCKED`), then claims are made for
textures of pixel shaders, textures of vertex shaders and render targets, one after
the other, each of which may have to wait. Retirement gives up the target's claim,
then writes to the surface (`unlockRect`), then gives up the textures' claims.

### SharedObjects

A call of a context is one step up to its calls of `Object::release()`, which are
queued in `toRelease` and take two steps each, the decrement and the test that reads
the count again. The name space, the map (with names that have no object yet) and the
binding points with the order of `addRef` before `release` are as in the code.
`Detached` are the binding points that `detachBuffer()` looks at, `Point` all of them:
those of vertex attributes, of uniform and transform feedback buffers and of the
array buffer behave like one or the other of the two in the run. `Concurrent` says
whether contexts are used by several threads at once. `LivesWhileReferenced` is the
conjunction of `TypeOK`, `DeletedOnce`, `NeverDangling` (no reference to what was deleted)
and `NeverLeaked` (nothing without references is kept).

### OcclusionQuery

An `es2::Query` and the `sw::Query` it owns are one record. `beginQuery` puts the query on
the renderer's list, `submit` takes the list into the draw call and counts a reference for
each, `render` counts the samples into `occlusion[d]` (`DrawData`, which outlives draw
calls and is cleared only if the pixel routine counts), and retirement goes as
`finishRendering` does: one step for each `atomicAdd`, one for each `atomicDecrement`.
Ghost variable `passed` is the number of samples that the API promises. Names that
`SharedObjects` has as well begin with `Query` (`QuerySpec`), as `ContextObjects_proofs` is
about both.
`Direct3D` allows several active queries (`Issue`), which OpenGL ES does not; `Patient` is
the rule that a query is begun again or deleted only when its result is there. The run has
ES and patient clients. With `Direct3D = TRUE` counts of a former draw call are added
(`CountsAreOfThisDraw` does not hold), as the end of one query disables counting for the
others; with `Patient = FALSE` a restarted query gets samples of its former use and a deleted
one is written to (see [findings](#findings)). Transform feedback queries are left out: they
do not go through the renderer.

### RecentStates and RoutineCache

`RoutineCache` is the ring of `LRUCache` with its pointers to keys (`ref`), the search from
`top` down through negative positions by mask, the exchange of a hit with its neighbour, and
the replacement, together with the draw calls that bind routines and unbind them when they
retire. `updateConfiguration` replaces the cache. Addresses of routines are reused. The
three processors have a cache each, of the same code. `RecentStates` is the promise as a
list; `Listed` is the refinement mapping. `Instancing` adds draw calls with `update` FALSE,
which run whatever routine the uninitialised pointer is.

The run uses symmetry of states and draw calls, and a VIEW with the key of each place instead
of `key` and `ref`: the code reaches keys only through `ref`, which is a permutation, so that
states with equal views have equal futures.

### StreamingBuffers

A draw call of the client goes through `applyIndexBuffer`, `reserveRequiredSpace`, one step
per attribute (`writeAttributeData`, `useCurrentValue`) and `submit`; a draw call with
instances does so again for each. Draw calls in flight retire between any two of these.
`draw[d].intact` becomes false when a range that `d` reads is written to or its buffer freed.
Sums wrap at `UINT`. The index stream is mapped with `PUBLIC`, which waits for draw calls
in flight; the vertex stream with `PRIVATE`, which does not, so that all depends on
positions. Left out: attributes that the program does not use or that are in buffer
objects (nothing is streamed for them), and what ranges contain. It has safety
properties only: whether a claim is granted is as in `BufferObject`.

### ImageReferences

Deleting one object may delete others: an image its parent texture, a texture its image, a
surface its back buffer, the last context all textures. The calls are therefore functions of
the record of all objects (`Released`, `TextureReleased`, `SurfaceReleased`,
`ContextReleased`, ...), which set `dangling` where the code would use a deleted object. The
code's recursion is shallow: `release()` of an image may delete its parent texture, whose
destructor unbinds the image, which has no parent by then and is deleted (`ParentReleased`).
The only loop, over the names that the last context deletes, is a recursive function on sets
of names. One call is one step: `libEGL` and `libGLESv2` have no lock here,
and clients that call them concurrently for one object get what `SharedObjects` has under
`Concurrent`. Contexts are of one share group, textures have one level; a context has two
framebuffers, the default one and another with one texture. Framebuffers share one reference
to an attached texture, that of its `RenderbufferTexture2D` proxy (`Proxied`). Two
constants stand for rules that the run's clients keep: `Respecifies` (whether images that are
EGLImages or render targets are replaced) and `LinksOutlive` (whether surfaces are destroyed
while a texture is linked to them).

The VIEW forgets the numbers of images and keeps who points to which, and symmetry exchanges
textures and contexts: no operator depends on the numbers but for the choice of a free one.
The names `EGLInit`, `EGLNext` and `EGLSpec` tell its behaviours from those of `Surface`:
`Images_proofs` is about both.

### Mutants

An operator with `mutated:` or `A bug:` in its comment is a variant of the definition
below it with a plausible mistake. No run uses it: it is there to show that the
property it is listed with in `PROJECT.json` fails when the code has that mistake.

## Runs

All cfg files state their bounds as CONSTANTS.

| Run | Instance | What it shows |
|---|---|---|
| `resource` | 3 threads that claim, 1 worker, 3 classes, 2 claims | No lost wakeup, deletion once and alone, orphans not forgotten, classes change alone; implements `AccessorLock`; waiters are served, destructed resources deleted |
| `scheduler` | 2 workers, 2 units and clusters, 2 `DrawCall` objects, 3 draw calls of 2 batches, the second partial | Tasks, units and `DrawCall` objects are never used for two things at a time; `threadsAwake` exact; pixels are from the batch they should be; `synchronize` waits; implements `InOrderRendering` |
| `scheduler_live` | 1 `DrawCall` object, 2 draw calls of 1 or 2 batches, 2 workers and then 1 | Nothing is left undone when all threads are suspended; every draw call is retired, every call returns, threads are joined and created again |
| `primitive_batches` | 2 workers, 2 draw calls out of 14 kinds, caches of 2 lines of 2 vertices | Batches do not show in the primitives, positions stay within the draw call, vertices are fresh |
| `shared_objects` | 2 contexts, 2 binding points, 2 names, 3 objects | Counts exact, objects deleted once and not early or late, names unique, deleted buffers unbound |
| `buffer_object` | 3 resources, 2 draw calls in flight | Draw calls' inputs stable, claims exact, contents freed, calls return |
| `surface` | both kinds of format and of ownership, 2 draw calls in flight, 3 changes | No change lost, samples and mipmaps current, buffers given back once; draw calls get their claims |
| `surface_destroy` | 1 draw call | finding 1 |
| `query` | 2 queries, 2 `DrawCall` objects, 2 clusters, 2 draw calls | Results are sums, references exact, results arrive |
| `routine_cache` | 5 states, 7 routines, 2 draw calls in flight, caches of 2 and (for 3) 4 places | Draw calls run their routines, bindings exact, implements `RecentStates` |
| `streaming` | 2 attributes, 2 draw calls in flight, 5 resources, arrays of 2 bytes in buffers of 3 | Bytes read stay as they are, ranges fit, claims exact and buffers freed |
| `images` | 3 images, 2 textures, a window and a pbuffer, 2 contexts, 2 threads of which one draws | Nothing dangles, reference counts exact, the default framebuffer is the back buffer |

### Why the bounds suffice

* `resource`: a wakeup can be lost only between one that releases and two that wait
  (one woken, one not), hence three claiming threads; a third class makes the woken
  thread find the lock taken by a class other than its own and the one it waited
  for. Two claims let one class be shared. The proofs remove all of these bounds.
* `scheduler`: two workers make every pair of code sections meet; two clusters and
  two units make a cluster be ahead of the other and a unit be still in use; three
  draw calls over two objects make an object be reused, with one draw call in
  between; a partial batch meets the end-of-draw condition with a remainder.
  `DRAW_COUNT` is 16 in the code; the fewer, the sooner objects are reused.
  With one object (`scheduler_live`) the application has to wait for it.
* `primitive_batches`: each topology has a draw call that is cut into a full and a
  partial batch, at an odd and at an even primitive where winding alternates, and
  indices whose lines collide in the cache, within and between draw calls. The
  proofs remove these bounds as well.
* `shared_objects`: two references from bindings of two contexts and one from the
  map; a name can be given back out of order and handed out again while its former
  object is still bound.
* `buffer_object`: the contents, former contents still being read, and one more to
  allocate; two draw calls that read the same or different contents.
* `query`: two queries, so that one is begun while draw calls of the other are in flight; two
  draw calls and two clusters, so that a sum has parts that arrive separately. Clusters
  render 0 or 1 samples each.
* `routine_cache`: a cache of four places wraps around and has hits at every distance, five
  states make it replace; seven routines are four cached ones, two of draw calls in flight
  and the one being generated.
* `streaming`: the first arrays fit, the next ones do not, and together they are larger than
  the buffer, so that each branch of the reservation is taken; resources are the two
  streams, two current values and one replaced buffer that is still read (a larger need waits
  for a draw call to retire, as `HasMemory` says). No state of the run reaches `UINT`: sums
  wrap in the code only for buffers of more than a gigabyte.
* `images`: an image for each back buffer and one for a texture, or for two textures and one
  back buffer; two of each other kind of object make one outlive the other in both orders; a
  second thread destroys what is current on the first.
* `surface`: three changes suffice for an old version on one side, a newer one on the
  other, and a third after the mipmaps were made; two draw calls make one submitted
  while the other is in flight.

Deadlock is checked in the passing runs except `primitive_batches` and `query`, whose
workers just have nothing to do at the end. Where a system comes to its end (resource deleted,
renderer destroyed), a stuttering step says so (`Done`, `Dead`), so that any other
state without a successor is reported.

## Fairness

* `Resource`: weak fairness of each thread's steps inside a call (the scheduler
  of the operating system) and of *some* claim being given up: draw calls retire and
  the application unmaps what it mapped. `WaitersServed` holds only once new claims
  cease: the lock is not fair, and a stream of claims of one class starves another.
  The property's premise says so.
* `Scheduler`: weak fairness of each worker and of the application while it is
  inside a call. It need not start one.
* `BufferObject`, `Surface`: weak fairness of draw calls in flight (that they retire is
  `EveryDrawRetired` of `Scheduler`) and of the call that the application is in; the
  application unmaps a mapped buffer some time (`BufferObject` only). Only one
  thread waits for the lock here, so that weak fairness is enough.
* `OcclusionQuery`: weak fairness of draw calls in flight, and of the client's test of a
  query, because `getResult()` is a loop of it.
* `PrimitiveBatches`, `SharedObjects`, `RoutineCache`, `StreamingBuffers`,
  `ImageReferences`: none, they have safety properties only.

## Proofs

Eight modules hold theorems. All proofs are checked to the last leaf; the assumptions
are the ASSUMEs of the modules that declare the constants.

**`Resource_proofs`**: for any finite set of threads with at least one worker,
any set of classes and any bound on the claims,

* `TypeCorrect`, `WakeupsKept` (`NoLostWakeup` and the exactness of `blocked`),
  `DeletedOnceAlone` (`DeleteAlone` and `OrphanNotForgotten`),
* `ClassesExclusive` (`ClassChangesAlone`),
* `Implements` (`ImplementsAccessorLock`).

The inductive invariant `IInv` is the conjunction of the invariants with two more:
`BlockedExact`, because whether to signal or delete is decided by `blocked`, and
`OnlyDestructed`, because deletion may happen only to a resource that no new client
can come to. None of the others is inductive alone: `DeleteAlone` needs to know that
there are no waiters when `blocked` is 0, `OrphanNotForgotten` that the last thread to
leave sees it. The count of blocked threads is a cardinality, so that each
action's effect on the two sets of waiting and woken threads is a lemma. The
refinement maps every step to a step of `AccessorLock` or to stuttering: a thread that
waits does not change the claims, a call of `lock(relinquisher, claimer)` is a
conversion when it succeeds at once and a release when it has to wait.

**`PrimitiveBatches_proofs`**: for any workers, draw calls, batch sizes, lines and
vertices per line,

* `TypeCorrect`; `PrimitivesAsDrawn` (`AssembledAsDrawn`) and `VerticesWithin`
  (`OnlyItsVertices`), from the arithmetic of the positions (lemmas `Remainder`,
  `Count`, `Positions`, `Winding`) and the invariant on where batches are cut;
* `VerticesFresh` (`FreshVertices`) and `CachesCoherent` (`CoherentCache`).

The inductive invariant is `TypeOK`, where batches start and end (`CutInv`), what a
worker has in hand (`TaskInv`), the freshness of what it has shaded so far, and
`CoherentCache`: every tagged line of a cache in use holds what its tag says. The last
is what the tags are for: freshness of the next vertex follows from it on a hit, and
it is established by shading on a miss.

**`Scheduler_proofs`**: for any sequence of configurations of up to 16 threads, any number
of `DrawCall` objects, any shapes and any number of draw calls,

* `CountsAwake` (`AwakeExact`), `WorksOnce` (`TasksDistinct`), and
* `QueueSuffices`: the queue never holds more than the 32 tasks that `taskQueue` has room for,
  by the pigeonhole principle from the second;

for those in which no configuration has more clusters than the one before it (`NeverGrows`),

* `SchedulerSound` (`SchedulerInv`), `PixelInputs` (`PixelInputsStable`), `RestsWhenAsleep`
  (`Quiescent`) and `SynchronizedWaits` (`SynchronizeWaits`);

and for those in which all configurations have the same number of clusters (`SameClusters`;
the number of threads may change),

* `RendersInOrder` (`ImplementsInOrderRendering`).

The first hypothesis is what the code needs: a cluster that comes into use later never starts
(finding 2), and units that it would have to render are never given back. The second is more
than it needs. A cluster that is not in use any more renders nothing, while `InOrderRendering`
retires a draw call when all clusters have rendered it.

`SchedulerInvariant` has the inductive invariant in named parts. The first three theorems need
`IInv`, which couples the application, the workers and the schedule. `AppInv`: threads are
created, exited and joined, and the first is woken, only while `threadsAwake` is 0. With the
exact count that means that no worker runs then (lemma `NoneAwake`), so that the number of units
does not change under a search. `WorkerInv`: a worker that runs has a task of the right type,
and one that schedules holds the mutex. `ClaimInv`: what is queued or in hand is marked as such,
in `executing` of its cluster or in `references` of its unit, which is why it is not queued again
(lemma `QueueFresh`); the mark is removed only by whoever has the task (lemma `TaskDone`).

The others need an account of every batch of every draw call (`Batched`):

* `ObjectInv`: an object that is not free is where `drawList` has it. At most `DRAW_COUNT` draw
  calls are in flight, so that none of them loses its place to the next (lemma `PlaceFree`).
* `CountInv`: `DrawCall::references` is the number of batches not yet given to a unit, plus
  that of units that have one, plus that of workers about to give up a unit's last reference.
* `UnitInv`: what is in a unit is a batch of a draw call in flight, in no other unit, and
  `references` of the unit is the number of clusters that have yet to render it or whose
  workers have yet to release it.
* `ClusterInv`, `KeptInv`: a cluster stands at the start of a batch, and a batch that was given
  to a unit is there until every cluster is past it. So no batch gets lost, and a draw call that
  is not in flight was rendered by all.
* `FinishInv`: a worker between the release of a unit and the end of its task keeps its
  cluster from the next batch, and one worker takes care of a draw call without references. This
  is what makes draw calls retire in order although workers finish outside the mutex.
* `WorkIs`, `SearchInv`: a task is for the next batch of its cluster, from the unit that holds
  it; while `currentDraw` stands at a draw call without primitives left, its last batch is in a
  unit that nobody renders yet. Otherwise `findAvailableTasks()` could look at an object that
  was already given to another draw call.

`Rests` is for `Quiescent`: what the last worker awake has found nothing for in its search has
nothing to be done, since nobody else could have changed it (`AloneSearches`). So it finds no
task only when nothing is left, by `KeptInv`: a unit in use has a cluster that can render it, or a
cluster before it has another unit (lemma `NothingLeft`). `SyncInv` counts the
claims on the resource sync, `Typed` has the types that nothing else needs. `RenderedInv`
is for the order of rendering: what a cluster has rendered last precedes what it is
to render next, or is that, while its worker has not noted it. The refinement
maps `PublishDraw` to `Submit`, `ExecutePixels` to `Render`, `FreeDrawCall` to `Retire` and
every other step to stuttering.

**`BufferObject_proofs`**: for any resources and any finite number of draw calls in
flight, if clients do not specify a mapped buffer anew (`RespecifyMapped = FALSE`; with
the others the properties do not hold),

* `InputsStable` (`DrawInputsStable`) and `ClaimsOfUsers` (`ClaimsExact`).

Neither is inductive. That a write leaves draw calls alone rests on the class of the claims
(`ClassInv`: a resource with readers has the class PRIVATE, a mapped one PUBLIC), on the
contents being those that were mapped (`MappingInv`), and on no deleted resource having a
user (`LiveInv`); these need the exact counts, and the counts need them.

**`ContextObjects_proofs`** has the proofs about objects of contexts: names and lifetimes, and
occlusion queries. About `SharedObjects`, for any finite sets of contexts and binding points and
any bounds,

* `NamesFree` (`NamesUnused`, for clients that bind only generated names): the names of the
  map, those on the stack of given-back names and those never allocated exclude each other,
  and the stack holds no name twice (`SpaceInv`);
* `DeletedDetached` (`DeletedUnbound`): the object a name stands for carries that name
  (`NameInv`), and names are what `detachBuffer()` compares;
* `CountsReferences` (`CountExact`, for clients that bind only generated names): `CountInv`
  counts the references of the map, of the bindings and of the releases that are still to
  be made. It holds with `Concurrent = TRUE` as well: what two threads that release at once
  do wrong is not the count;
* `ObjectsLive` (`LivesWhileReferenced`, if moreover contexts are not used by several threads at
  once, since otherwise an object is deleted twice: see the findings). `LifeInv` says who may
  still come to an object whose count is 0: only the one release that brought it there.

About `OcclusionQuery`, for any queries, any numbers of draw calls and clusters
and any bound on the submissions, for patient clients,

* `QueriesHeld` (`HoldersCounted`), by the rules of both front ends;
* `ResultsSum` (`ResultIsSum`) and `CountsFresh` (`CountsAreOfThisDraw`), by those of OpenGL ES.

`HoldInv` says who has a query: the renderer's list the active ones, once each, and draw calls in
flight as many as it has references; a query whose result is there is in no draw call, which
is why patient clients do no harm. For the sums, `SumInv`: the samples that passed since the
query was begun are those that were added plus those that draw calls in flight still owe
it (`Owed`), a sum over draw calls of what the clusters that are not yet added have counted. A
draw call that has a query counts, from zero (`OneInv`); this fails for Direct3D, where another
query may have switched counting off. `StatusInv`: a result once read is final. Induction over
the natural numbers is a lemma here (`Reaches`, by a least counterexample), and `SumChanges`
says that a change of one summand changes the sum by as much.

**`RoutineCache_proofs`**: for any states, addresses of routines, finite number of draw calls
and cache sizes up to 8,

* `RunsItsRoutine` (`DrawRunsItsRoutine`) and `BoundByUsers` (`BindingsExact`), when every draw
  call updates its state (`Instancing = FALSE`);
* `KeepsRecentStates` (`ImplementsRecentStates`), without that hypothesis: the refinement
  of the list of recent states.

The invariant is about the ring (`RingInv`: no routine in two places, no key of two places,
every place's key is what its routine was generated for), the counts (`CountInv`) and the users
(`UseInv`). The last says why `draw()` need not bind a routine at once: what was looked up
stays in the cache until it is submitted. The refinement rests on two facts. Positions less
than `size` apart differ under the mask (`MaskApart`), also where the search runs through
negative ones, so that the exchange of a hit with its neighbour changes these two entries of
the list and no others; and the mask of `top + 1` is the entry that falls out of a full ring
(`MissInserts`). `Listable` is what the mapping needs to be defined: a permutation and a fill
that is at most the size.

**`Images_proofs`** has the proofs about images: the contents of one that draw calls use, and
the references to many. About `Surface`, for both kinds of surface and of owner, any finite
number of draw calls in flight and any number of changes,

* `ContentsKept` (`Coherent`), `SamplesCurrent` (`SampledCurrent`) and `DestroyedUnused`
  (`BuffersGivenBack`).

`ClassInv` and `CountInv` say that the claims are counted exactly and that those of different
classes exclude each other. Therefore one who writes and one who samples are never there
together, which makes the two parts about the contents inductive: who writes has marked
its side and the mipmaps dirty (`WriterInv`), who samples found them clean (`ReaderInv`). The
marks are made when the claim is granted and not when bytes are written, so that both speak of
the whole time between. Destruction waits for the claims, which by the exact count means
that no draw call uses the surface.

About `ImageReferences`, for any finite sets of textures, surfaces, contexts and threads and any
set of images, for clients that keep the two rules (`Respecifies` and `LinksOutlive` are
FALSE; for the others the properties do not hold, see findings 9 and 10),

* `ImagesNeverDangle` (`NothingDangles`), `ReferencesCounted` (`ReferencesExact`) and
  `DrawingIsShown` (`ZeroIsBackBuffer`).

The invariant `EGLInv` has two parts. `Sound` is about the record of all objects: with the
references that somebody is to give back (`Extra` and the pointers of other textures to an
image, `Names` to a texture), the counts of images and textures are what they should be
(`ImagesCounted`, `TexturesCounted`; a texture and its own image count together), a texture and
a surface are linked both ways (`Linked`), and back buffers and default framebuffers are images
without a parent (`Tidy`), since a texture's own image would go with its texture. `Consistent`
couples this to `current`: what threads have made current is counted, in one
thread at most (`Apart`), and is drawn to (`Shown`).

A call adds and gives back references one at a time, and in between the counts are not those
of the pointers. So the lemmas about `AddRef`, `Released`, `Unbound` and the others are about
`Counted` and `Held`, which have the references that are to be given back as a parameter: each
operator adds or takes one of them, and deletes just when none is left. A call
starts with `Extra` and `Names`, and has to end with those of its result (one lemma with `Sound`
in its name for each). That it does is where the two rules are needed: a texture that is
specified anew must be `Alone`, as the references to its own image would lose their image, and a
surface that is destroyed must have no texture, whose pointer would outlive it. The function of
the names that the last context deletes is shown to exist (`WithoutExists`) and to delete each
name once (`WithoutHeld`), by well-founded induction over subsets. At last, the holders of an
image are a union of disjoint sets, whose cardinalities add up to the count (`HoldersCounted`).

**`StreamingBuffers_proofs`**: for any attributes, resources, finite number of draw calls in flight
and sizes with `NoWrap(M)` for some `M`,

* `InputsKept` (`StreamedInputsStable`), `DataWithin` (`RangesWithin`) and `ClaimsKept`
  (`ClaimsExact`).

`NoWrap(M)` says that the index array and all arrays of a draw call together have at
most `M` bytes each and that three times `M` is less than `UINT`, with an initial size that is
no larger than twice `M`: then no sum that the code forms wraps. The run has it with
`M = 4`. The code checks nothing of the kind, so that this is a hypothesis and not a lemma; with
`unsigned int` it excludes draw calls that stream more than a gigabyte. `SizeInv` says
that what a draw call has not yet written fits into what is left of its buffer, `DrawInv` that
what is in flight lies below the write position, `OwnInv` that no two streams or current values
have one resource, `KeptAll` that claims are exact and that a resource is orphaned just when
nobody owns it. The reservation is a sum over a set of attributes, and every array that is
written takes its part from it. The library's induction over finite sets cannot be used
(it takes an operator); the lemmas on sums go by a smallest counterexample instead, which exists as
strict inclusion of finite sets is well-founded (`SubsetInduction`).

**Only model-checked**: liveness, as the prover has no ENABLED or fairness reasoning here
(`WaitersServed`, both `EventuallyFreed`, `EveryDrawRetired`, `AppReturns`, `CallReturns`,
`DrawReturns`, `ResultArrives`). Every invariant, action property and refinement that a
passing run checks is a theorem.

## Findings

The first is a run that finds a stated promise violated by what the code does. The others
are seen by changing a constant of a cfg file: the passing runs keep to the other value, and
each property named here fails under the one that is given.

1. **A surface is written to after its destruction** (run `surface_destroy`).
   `unlockInternal()` gives the claim up before its last access to the surface
   (`Renderer/Surface.cpp:1043`).
2. **Clusters that come into use never start**: `EveryDrawRetired` of `MCScheduler_live.cfg`
   with `ThreadCount` the sequence of 1 and 2. When a new configuration raises the thread
   count, `initializeThreads()` raises `clusterCount`, but `pixelProgress[].drawCall` of the
   new clusters is still 0 (`Renderer/Renderer.cpp:1871`); they wait for draw call 0 and no
   later draw call is retired.
3. **`Object::release()` deletes twice**: `DeletedOnce` with `Concurrent = TRUE`. It
   decrements atomically and then reads the count again (`OpenGL/common/Object.cpp:47`).
4. **`glBufferData` on a mapped buffer** replaces the contents; the unmapping then unlocks the
   new ones. The old contents are never freed and the new ones have a negative count
   (`libGLESv2/Buffer.cpp:48`): `EventuallyFreed` with `RespecifyMapped = TRUE`.
5. **A vertex shader that samples the render target hangs**: the draw call waits for its own
   claim (`Renderer/Renderer.cpp:403`): `DrawReturns` with `VertexRead = TRUE`.
6. **Queries begun again or deleted too early** get samples of their former use, or are
   written to after `~Query` (`libGLESv2/Query.cpp:34`, `:52`): `ResultIsSum` and
   `HoldersCounted` with `Patient = FALSE`.
7. **Stale sample counts in Direct3D**: the end of one of several queries disables counting,
   and the counts of an older draw call are added (`Renderer/Renderer.cpp:482`):
   `ResultIsSum` with `Direct3D = TRUE`.
8. **Instances run an uninitialised routine pointer** (`Renderer/Renderer.cpp:233`, called at
   `D3D9/Direct3DDevice9.cpp:1074`): `DrawRunsItsRoutine` with `Instancing = TRUE`.
9. **An image replaced while it is an EGLImage or a render target** is deleted although they
   refer to it (`OpenGL/common/Image.cpp:635`): `NothingDangles` with `Respecifies = TRUE`.
10. **A texture keeps a pointer to a destroyed surface** (`libGLESv2/Texture.cpp:658`,
    `libEGL/Surface.cpp:96`): `NothingDangles` with `LinksOutlive = TRUE`.

## What is not modelled

* *What shaders compute*, and the generation of code for it (Reactor, LLVM, routines,
  GLSL compiler): arithmetic and text, without order of their own.
* *Geometry* (clipping, rasterization, blits): floating point, out of TLC's reach.
* *State setters* of contexts, devices and processors: wide and sequential.
* *Window systems, files and sockets*: input and output.
* In `Scheduler`: which of a draw call's resources are claimed (that is
  in `Surface` and `BufferObject`).
* In `Surface`: paletted formats, stencil buffers, the conversion of multisampled and
  of bump map formats, levels other than the top one.
* In `SharedObjects`: objects other than buffers. Textures, renderbuffers, samplers
  and programs follow the same code; fences are put into their map without a reference.
* The *configuration server*: a thread that serves web pages and sets a flag. The renderer's
  part, a new number of threads at some draw call, is in `Scheduler` and `RoutineCache`.
  Reading says that `hasNewConfiguration()` can lose a configuration
  (`Main/SwiftConfig.cpp:98`), and that a server thread told to disable itself joins itself
  (`:211`).
* *Frame buffers*: a rendezvous of two threads on two events around window system calls.
* In `ImageReferences`: renderbuffers as sources of EGLImages, `eglTerminate`, mipmap levels,
  and `glClearBuffer*`, which does not give back the image it clears
  (`libGLESv2/Context.cpp:2703`).
* The share of the code that the modules cover is small because most of it is a vendored LLVM,
  generated dispatch code, headers and the translation of shaders; of the code that decides on
  order, sharing and lifetimes most is covered.
* Data races inside `std::map`: their outcomes cannot be enumerated at this level.

## Plan and progress

The order was: the lock and its proofs; the scheduler with its refinement; assembly and vertex
cache with proofs; buffer objects; surfaces; shared objects; then occlusion queries, routines
and their cache, streaming buffers, and the lifetimes of EGL objects and images. All of
these are done. `BufferObject`, `Surface` and `StreamingBuffers` share `ResourceClaims`, and
with `OcclusionQuery` and `RoutineCache` the life of a draw call, each with the part of it
that matters there; `EveryDrawRetired` of `Scheduler` is what their fairness rests on.

All safety properties are proved. Worth doing next: the configuration server; fence objects and
transform feedback; textures of several levels in `ImageReferences`.

## How to run

```
tlc -config MCResource.cfg MCResource        # and so on, one per row of the table
tlapm Resource_proofs.tla
tlapm PrimitiveBatches_proofs.tla
```

The longest run (`streaming`) takes about two minutes. The proofs take minutes each, those of
`Scheduler_proofs` and `Images_proofs` about a quarter of an hour.
