-------------------------- MODULE PrimitiveBatches --------------------------
(***************************************************************************)
(* How the vertices of draw calls become primitives: draw calls are cut    *)
(* into batches, each handed to some worker, and a worker assembles the    *)
(* primitives of its batch from positions in the draw call's list of       *)
(* vertices (Renderer::processPrimitiveVertices) and shades them through a *)
(* vertex cache of its own, which survives from batch to batch             *)
(* (VertexRoutine::generate).                                              *)
(*                                                                         *)
(* All draw calls are there from the start: what they wait for, and how    *)
(* workers are woken, is in Scheduler.  A shaded vertex is a pair: the     *)
(* draw call whose streams and shader it comes from, and its index.        *)
(***************************************************************************)
EXTENDS Integers, Sequences

CONSTANTS
    Thread,      \* the workers
    DrawCalls,   \* the draw calls the application may issue
    MaxDraws,    \* bound: draw calls in a run
    LINES,       \* lines of a vertex cache: 16
    QUAD         \* vertices shaded together, one line of the cache: 4

DrawType == {"POINTLIST", "LINELIST", "LINESTRIP", "LINELOOP", "TRIANGLELIST",
             "TRIANGLESTRIP", "TRIANGLEFAN", "QUADLIST"}

Line == 0..LINES - 1
Lane == 0..QUAD - 1

(* Primitives in a draw call of so many vertices.                          *)
PrimitiveCount(d) ==
    CASE d.drawType \in {"POINTLIST", "LINELOOP"} -> d.elements
      [] d.drawType = "LINELIST" -> d.elements \div 2
      [] d.drawType = "LINESTRIP" -> d.elements - 1
      [] d.drawType = "TRIANGLELIST" -> d.elements \div 3
      [] d.drawType \in {"TRIANGLESTRIP", "TRIANGLEFAN"} -> d.elements - 2
      [] d.drawType = "QUADLIST" -> (d.elements \div 4) * 2

(* An index buffer has an index for every vertex; a draw call without one  *)
(* has an empty sequence here.  Quads have no index buffer, and a batch of *)
(* an even number of triangles: 128 divided by the samples of a pixel (the *)
(* fill modes that take one triangle at a time are the other front end's). *)
DrawCall ==
    {d \in [drawType : DrawType, elements : Nat, batchSize : Nat \ {0},
            indices : Seq(Nat), texldl : BOOLEAN] :
        /\ PrimitiveCount(d) > 0
        /\ Len(d.indices) \in {0, d.elements}
        /\ d.drawType = "QUADLIST" => d.indices = <<>> /\ d.batchSize % 2 = 0}

ASSUME SizeAssumption ==
    MaxDraws \in Nat \ {0} /\ LINES \in Nat \ {0} /\ QUAD \in Nat \ {0}
ASSUME DrawCallAssumption == DrawCalls \subseteq DrawCall

VARIABLES
    draw,         \* the draw calls of this run
    currentDraw,  \* the one batches are taken from
    primitive,    \* its first primitive not yet in a batch
    task,         \* the batch each worker has
    cache         \* each worker's vertex cache

vars == <<draw, currentDraw, primitive, task, cache>>
-----------------------------------------------------------------------------
(* A bug: the winding of a strip's triangles alternates from the start of  *)
(* the batch.                                                              *)
StripCornersOfBatch(start, i) ==
    <<start + i, start + i + (i % 2) + 1, start + i + ((i + 1) % 2) + 1>>

(* In a strip every second triangle is wound the other way.                *)
StripCorners(start, i) ==
    LET index == start + i
    IN  <<index, index + (index % 2) + 1, index + ((index + 1) % 2) + 1>>

(* The positions of the three vertices of primitive i of a batch that      *)
(* starts at primitive "start".  A point has one, a line has two.  Quads   *)
(* are pairs of triangles.                                                 *)
Corners(d, start, i) ==
    LET loop == PrimitiveCount(d)
        index == start + i
    IN  CASE d.drawType = "POINTLIST" -> <<index, index, index>>
          [] d.drawType = "LINELIST" ->
                LET k == 2 * start + 2 * i IN <<k, k + 1, k + 1>>
          [] d.drawType = "LINESTRIP" -> <<index, index + 1, index + 1>>
          [] d.drawType = "LINELOOP" ->
                <<index % loop, (index + 1) % loop, (index + 1) % loop>>
          [] d.drawType = "TRIANGLELIST" ->
                LET k == 3 * start + 3 * i IN <<k, k + 1, k + 2>>
          [] d.drawType = "TRIANGLESTRIP" -> StripCorners(start, i)
          [] d.drawType = "TRIANGLEFAN" -> <<index + 1, index + 2, 0>>
          [] d.drawType = "QUADLIST" ->
                LET k == (4 * start) \div 2 + 4 * (i \div 2)
                IN  IF i % 2 = 0 THEN <<k, k + 1, k + 2>>
                                 ELSE <<k, k + 2, k + 3>>

(* The vertex shader's input index at a position.                          *)
Index(d, position) ==
    IF d.indices = <<>> THEN position ELSE d.indices[position + 1]

(* batch[][3], flattened as the vertex routine reads it.                   *)
Batch(d, start, count) ==
    [n \in 1..3 * count |->
        Index(d, Corners(d, start, (n - 1) \div 3)[((n - 1) % 3) + 1])]
-----------------------------------------------------------------------------
(* The vertex cache: lines of vertices shaded together, each tagged with   *)
(* an index.  A shader that selects mipmap levels itself has the whole     *)
(* line shaded for one index.                                              *)
NoTag == -1

LineOf(index) == (index \div QUAD) % LINES
LaneOf(index) == index % QUAD

(* The first index of its line.                                            *)
TagFor(d, index) == IF d.texldl THEN index ELSE index - (index % QUAD)

(* A line's vertices after the shader has run for them.                    *)
Shade(n, tag) ==
    [lane \in Lane |-> <<n, IF draw[n].texldl THEN tag ELSE tag + lane>>]

(* Memory that is not initialised: any tags, and vertices of no draw call. *)
Uninitialised ==
    {[drawCall |-> 0, tag |-> [l \in Line |-> tag],
      vertex |-> [l \in Line |-> [lane \in Lane |-> <<0, 0>>]]] :
        tag \in {NoTag, 0, QUAD}}

(* A bug: vertices of the former draw call stay in the cache.              *)
KeptFor(c, n) == [c EXCEPT !.drawCall = n]

(* The cache at the start of a batch: cleared unless it was left by a      *)
(* batch of the same draw call.                                            *)
ClearedFor(c, n) ==
    IF c.drawCall = n
    THEN c
    ELSE [c EXCEPT !.tag = [l \in Line |-> NoTag], !.drawCall = n]

(* The cache with the line an index is in.                                 *)
WithLineOf(c, index) ==
    LET n == c.drawCall
        line == LineOf(index)
        tag == TagFor(draw[n], index)
    IN  IF c.tag[line] = tag
        THEN c
        ELSE [c EXCEPT !.tag[line] = tag, !.vertex[line] = Shade(n, tag)]
-----------------------------------------------------------------------------
NoTask == [drawCall |-> 0, first |-> 0, count |-> 0, batch |-> <<>>,
           shaded |-> <<>>]

Init ==
    /\ draw \in [1..MaxDraws -> DrawCalls]
    /\ currentDraw = 1
    /\ primitive = 0
    /\ task = [t \in Thread |-> NoTask]
    /\ cache \in [Thread -> Uninitialised]

(* The draw call the next batch is from.                                   *)
DrawToCut ==
    IF primitive >= PrimitiveCount(draw[currentDraw])
    THEN currentDraw + 1
    ELSE currentDraw

(* A bug: the last batch is as large as the others.                        *)
FullBatchCount(d, first) == d.batchSize

(* Primitives in the batch that starts at "first".                         *)
BatchCount(d, first) ==
    IF PrimitiveCount(d) - first >= d.batchSize
    THEN d.batchSize
    ELSE PrimitiveCount(d) - first

(* findAvailableTasks() cuts the next batch, and the worker gets it.       *)
FindPrimitives(t) ==
    LET n == DrawToCut
        first == IF n = currentDraw THEN primitive ELSE 0
    IN  /\ task[t] = NoTask
        /\ n <= MaxDraws
        /\ currentDraw' = n
        /\ primitive' = first + draw[n].batchSize
        /\ task' = [task EXCEPT ![t] =
                [drawCall |-> n, first |-> first,
                 count |-> BatchCount(draw[n], first),
                 batch |-> <<>>, shaded |-> <<>>]]
        /\ UNCHANGED <<draw, cache>>

(* processPrimitiveVertices() up to the call of the vertex routine.        *)
ProcessPrimitiveVertices(t) ==
    LET n == task[t].drawCall
    IN  /\ n # 0
        /\ task[t].batch = <<>>
        /\ cache' = [cache EXCEPT ![t] = ClearedFor(cache[t], n)]
        /\ task' = [task EXCEPT ![t].batch =
                Batch(draw[n], task[t].first, task[t].count)]
        /\ UNCHANGED <<draw, currentDraw, primitive>>

(* One turn of the vertex routine's loop: the vertex is copied out of the  *)
(* cache, after its line was shaded if it was not there.                   *)
ShadeVertex(t) ==
    LET shaded == task[t].shaded
        index == task[t].batch[Len(shaded) + 1]
        c == WithLineOf(cache[t], index)
    IN  /\ Len(shaded) < Len(task[t].batch)
        /\ cache' = [cache EXCEPT ![t] = c]
        /\ task' = [task EXCEPT ![t].shaded =
                Append(shaded, c.vertex[LineOf(index)][LaneOf(index)])]
        /\ UNCHANGED <<draw, currentDraw, primitive>>

(* The triangles go to the setup routine, and the worker is free.          *)
SetupPrimitives(t) ==
    /\ task[t].batch # <<>>
    /\ Len(task[t].shaded) = Len(task[t].batch)
    /\ task' = [task EXCEPT ![t] = NoTask]
    /\ UNCHANGED <<draw, currentDraw, primitive, cache>>

Next ==
    \E t \in Thread :
        \/ FindPrimitives(t)
        \/ ProcessPrimitiveVertices(t)
        \/ ShadeVertex(t)
        \/ SetupPrimitives(t)

Spec == Init /\ [][Next]_vars
-----------------------------------------------------------------------------
Vertex == (0..MaxDraws) \X Nat

TypeOK ==
    /\ draw \in [1..MaxDraws -> DrawCalls]
    /\ currentDraw \in 1..MaxDraws
    /\ primitive \in Nat
    /\ task \in [Thread -> [drawCall : 0..MaxDraws, first : Nat, count : Nat,
                            batch : Seq(Nat), shaded : Seq(Vertex)]]
    /\ cache \in [Thread -> [drawCall : 0..MaxDraws,
                             tag : [Line -> Nat \cup {NoTag}],
                             vertex : [Line -> [Lane -> Vertex]]]]

(* What primitive p of a draw call is, whatever the batches: its vertices, *)
(* those of a triangle up to the one they start from.                      *)
Expected(d, p) ==
    CASE d.drawType = "POINTLIST" -> <<p, p, p>>
      [] d.drawType = "LINELIST" -> <<2 * p, 2 * p + 1, 2 * p + 1>>
      [] d.drawType = "LINESTRIP" -> <<p, p + 1, p + 1>>
      [] d.drawType = "LINELOOP" ->
            IF p = d.elements - 1 THEN <<p, 0, 0>> ELSE <<p, p + 1, p + 1>>
      [] d.drawType = "TRIANGLELIST" -> <<3 * p, 3 * p + 1, 3 * p + 2>>
      [] d.drawType = "TRIANGLESTRIP" ->
            IF p % 2 = 0 THEN <<p, p + 1, p + 2>> ELSE <<p + 1, p, p + 2>>
      [] d.drawType = "TRIANGLEFAN" -> <<0, p + 1, p + 2>>
      [] d.drawType = "QUADLIST" ->
            IF p % 2 = 0 THEN <<2 * p, 2 * p + 1, 2 * p + 2>>
                         ELSE <<2 * p - 2, 2 * p, 2 * p + 1>>

DrawnAs(d, p) ==
    LET c == Expected(d, p)
    IN  IF d.drawType \in {"TRIANGLELIST", "TRIANGLESTRIP", "TRIANGLEFAN", "QUADLIST"}
        THEN {c, <<c[2], c[3], c[1]>>, <<c[3], c[1], c[2]>>}
        ELSE {c}

(* Wherever a draw call was cut, primitive i of a batch is the draw call's *)
(* primitive "first + i", with the winding and the closing line it has in  *)
(* the whole list (processPrimitiveVertices).                              *)
AssembledAsDrawn ==
    \A t \in Thread :
        task[t].batch # <<>> =>
            LET d == draw[task[t].drawCall]
                b == task[t].batch
            IN  \A i \in 0..task[t].count - 1 :
                    \E c \in DrawnAs(d, task[t].first + i) :
                        \A k \in 1..3 : b[3 * i + k] = Index(d, c[k])

(* No batch asks for a vertex past those the draw call was issued with:    *)
(* the count of primitives, the sizes of batches and the positions agree.  *)
OnlyItsVertices ==
    \A t \in Thread :
        task[t].drawCall # 0 =>
            LET d == draw[task[t].drawCall]
            IN  \A i \in 0..task[t].count - 1 : \A k \in 1..3 :
                    Corners(d, task[t].first, i)[k] < d.elements

(* What a worker passes to the setup routine is, for every vertex, the     *)
(* output for its own index and its own draw call, whatever batches left   *)
(* in the cache (VertexRoutine::generate).                                 *)
FreshVertices ==
    \A t \in Thread : \A k \in 1..Len(task[t].shaded) :
        task[t].shaded[k] = <<task[t].drawCall, task[t].batch[k]>>

(* A cache in use holds, in every line with a tag, the vertices of its own *)
(* draw call that the tag says.                                            *)
CoherentCache ==
    \A t \in Thread :
        LET c == cache[t]
        IN  c.drawCall # 0 =>
                \A l \in Line :
                    c.tag[l] # NoTag =>
                        \A lane \in Lane :
                            c.vertex[l][lane] =
                                <<c.drawCall,
                                  IF draw[c.drawCall].texldl
                                  THEN c.tag[l] ELSE c.tag[l] + lane>>
=============================================================================
