----------------------- MODULE PrimitiveBatches_proofs -----------------------
(***************************************************************************)
(* Proofs about PrimitiveBatches, for any number of workers, any draw      *)
(* calls and any size of the vertex cache.                                 *)
(*                                                                         *)
(* Positions and Winding are about single primitives: what                 *)
(* processPrimitiveVertices() computes from where a batch starts.  The     *)
(* invariant IInv then carries them, and the coherence of every worker's   *)
(* cache, through the steps.                                               *)
(***************************************************************************)
EXTENDS PrimitiveBatches, TLAPS

(* Where batches of a draw call may start: quads are not cut in two.       *)
Start(d) == {s \in Nat : d.drawType = "QUADLIST" => s % 2 = 0}

(* Remainders, as the closing line of a loop needs them.                   *)
LEMMA Remainder ==
    ASSUME NEW n \in Nat \ {0}, NEW a \in 0..n
    PROVE  /\ a % n \in 0..n - 1
           /\ a < n => a % n = a
           /\ a = n => a % n = 0
  BY SMT

(* A draw call has as many primitives as its vertices make.                *)
LEMMA Count ==
    ASSUME NEW d \in DrawCall
    PROVE  PrimitiveCount(d) \in Nat \ {0}
  <1>1. d.drawType \in DrawType /\ d.elements \in Nat /\ PrimitiveCount(d) > 0
    BY DEF DrawCall
  <1> QED  BY <1>1 DEF DrawType, PrimitiveCount

(* The three positions of a primitive of the draw call are positions of    *)
(* vertices it was issued with.                                            *)
LEMMA Positions ==
    ASSUME NEW d \in DrawCall, NEW start \in Start(d), NEW i \in Nat,
           start + i < PrimitiveCount(d)
    PROVE  \A k \in 1..3 : Corners(d, start, i)[k] \in 0..d.elements - 1
  <1>1. d.drawType \in DrawType /\ d.elements \in Nat /\ start \in Nat
    BY DEF DrawCall, Start
  <1>2. CASE d.drawType = "POINTLIST"
    BY <1>1, <1>2 DEF Corners, PrimitiveCount
  <1>3. CASE d.drawType = "LINELIST"
    BY <1>1, <1>3 DEF Corners, PrimitiveCount
  <1>4. CASE d.drawType = "LINESTRIP"
    BY <1>1, <1>4 DEF Corners, PrimitiveCount
  <1>5. CASE d.drawType = "LINELOOP"
    <2>1. PrimitiveCount(d) = d.elements /\ d.elements > 0
      BY <1>1, <1>5 DEF PrimitiveCount
    <2>2. d.elements \in Nat \ {0} /\ start + i \in 0..d.elements
                                   /\ start + i + 1 \in 0..d.elements
      BY <1>1, <2>1
    <2>3. /\ (start + i) % d.elements \in 0..d.elements - 1
          /\ (start + i + 1) % d.elements \in 0..d.elements - 1
      BY <2>2, Remainder, Zenon
    <2> QED  BY <1>1, <1>5, <2>1, <2>3 DEF Corners
  <1>6. CASE d.drawType = "TRIANGLELIST"
    BY <1>1, <1>6 DEF Corners, PrimitiveCount
  <1>7. CASE d.drawType = "TRIANGLESTRIP"
    BY <1>1, <1>7 DEF Corners, StripCorners, PrimitiveCount
  <1>8. CASE d.drawType = "TRIANGLEFAN"
    BY <1>1, <1>8 DEF Corners, PrimitiveCount
  <1>9. CASE d.drawType = "QUADLIST"
    BY <1>1, <1>9 DEF Corners, PrimitiveCount, Start
  <1> QED
    BY <1>1, <1>2, <1>3, <1>4, <1>5, <1>6, <1>7, <1>8, <1>9 DEF DrawType

(* Primitive i of a batch is primitive "start + i" of the draw call.       *)
LEMMA Winding ==
    ASSUME NEW d \in DrawCall, NEW start \in Start(d), NEW i \in Nat,
           start + i < PrimitiveCount(d)
    PROVE  Corners(d, start, i) \in DrawnAs(d, start + i)
  <1>1. d.drawType \in DrawType /\ d.elements \in Nat /\ start \in Nat
    BY DEF DrawCall, Start
  <1>2. CASE d.drawType = "POINTLIST"
    BY <1>1, <1>2 DEF Corners, DrawnAs, Expected
  <1>3. CASE d.drawType = "LINELIST"
    BY <1>1, <1>3 DEF Corners, DrawnAs, Expected
  <1>4. CASE d.drawType = "LINESTRIP"
    BY <1>1, <1>4 DEF Corners, DrawnAs, Expected
  <1>5. CASE d.drawType = "LINELOOP"
    <2>1. PrimitiveCount(d) = d.elements /\ d.elements > 0
      BY <1>1, <1>5 DEF PrimitiveCount
    <2>2. d.elements \in Nat \ {0} /\ start + i \in 0..d.elements
                                   /\ start + i + 1 \in 0..d.elements
      BY <1>1, <2>1
    <2>3. /\ start + i < d.elements
          /\ start + i < d.elements => (start + i) % d.elements = start + i
          /\ start + i + 1 < d.elements =>
                (start + i + 1) % d.elements = start + i + 1
          /\ start + i + 1 = d.elements => (start + i + 1) % d.elements = 0
      <3>1. start + i < d.elements
        BY <1>1, <2>1
      <3> QED  BY <2>2, <3>1, Remainder, Zenon
    <2> QED  BY <1>1, <1>5, <2>1, <2>3 DEF Corners, DrawnAs, Expected
  <1>6. CASE d.drawType = "TRIANGLELIST"
    BY <1>1, <1>6 DEF Corners, DrawnAs, Expected
  <1>7. CASE d.drawType = "TRIANGLESTRIP"
    BY <1>1, <1>7 DEF Corners, StripCorners, DrawnAs, Expected
  <1>8. CASE d.drawType = "TRIANGLEFAN"
    BY <1>1, <1>8 DEF Corners, DrawnAs, Expected
  <1>9. CASE d.drawType = "QUADLIST"
    BY <1>1, <1>9 DEF Corners, DrawnAs, Expected, Start
  <1> QED
    BY <1>1, <1>2, <1>3, <1>4, <1>5, <1>6, <1>7, <1>8, <1>9 DEF DrawType

-----------------------------------------------------------------------------
(* Every index has a line and a lane of the cache, and its line's first    *)
(* index is as far before it as the lane says.                             *)
LEMMA Slot ==
    ASSUME NEW index \in Nat
    PROVE  /\ LineOf(index) \in Line
           /\ LaneOf(index) \in Lane
           /\ index - (index % QUAD) \in Nat
  <1>1. QUAD \in Nat \ {0} /\ LINES \in Nat \ {0}
    BY SizeAssumption
  <1>2. index % QUAD \in 0..QUAD - 1 /\ index % QUAD <= index
    BY <1>1, SMT
  <1>3. index \div QUAD \in Nat
    BY <1>1, SMT
  <1>4. (index \div QUAD) % LINES \in 0..LINES - 1
    BY <1>1, <1>3, SMT
  <1> QED  BY <1>1, <1>2, <1>4 DEF LineOf, LaneOf, Line, Lane

(* Every position an index is asked for has one.                           *)
LEMMA IndexType ==
    ASSUME NEW d \in DrawCall, NEW position \in 0..d.elements - 1
    PROVE  Index(d, position) \in Nat
  <1>1. d.elements \in Nat /\ d.indices \in Seq(Nat)
        /\ Len(d.indices) \in {0, d.elements}
    BY DEF DrawCall
  <1>2. CASE d.indices = <<>>
    BY <1>1, <1>2 DEF Index
  <1>3. CASE d.indices # <<>>
    <2>1. Len(d.indices) = d.elements /\ position + 1 \in 1..Len(d.indices)
      BY <1>1, <1>3
    <2> QED  BY <1>1, <1>3, <2>1 DEF Index
  <1> QED  BY <1>2, <1>3

(* A batch holds three indices for each of its primitives.                 *)
LEMMA BatchType ==
    ASSUME NEW d \in DrawCall, NEW start \in Start(d), NEW count \in Nat,
           start + count <= PrimitiveCount(d)
    PROVE  /\ Batch(d, start, count) \in Seq(Nat)
           /\ Len(Batch(d, start, count)) = 3 * count
  <1>1. ASSUME NEW n \in 1..3 * count
        PROVE  Index(d, Corners(d, start, (n - 1) \div 3)[((n - 1) % 3) + 1]) \in Nat
    <2>1. /\ (n - 1) \div 3 \in Nat
          /\ (n - 1) \div 3 < count
          /\ ((n - 1) % 3) + 1 \in 1..3
      BY <1>1, SMT
    <2>2. start \in Nat /\ PrimitiveCount(d) \in Nat
      BY Count DEF Start
    <2>3. start + ((n - 1) \div 3) < PrimitiveCount(d)
      BY <2>1, <2>2
    <2>4. Corners(d, start, (n - 1) \div 3)[((n - 1) % 3) + 1] \in 0..d.elements - 1
      BY <2>1, <2>3, Positions
    <2> QED  BY <2>4, IndexType
  <1>2. 3 * count \in Nat
    OBVIOUS
  <1> QED  BY <1>1, <1>2 DEF Batch

-----------------------------------------------------------------------------
(* What a worker has in hand: a batch within its draw call, assembled by   *)
(* processPrimitiveVertices(), and a cache that is its draw call's.        *)
TaskInv ==
    \A t \in Thread :
        /\ task[t].drawCall # 0 =>
              /\ task[t].first \in Start(draw[task[t].drawCall])
              /\ task[t].first + task[t].count
                    <= PrimitiveCount(draw[task[t].drawCall])
        /\ task[t].batch # <<>> =>
              /\ task[t].drawCall # 0
              /\ cache[t].drawCall = task[t].drawCall
              /\ task[t].batch = Batch(draw[task[t].drawCall], task[t].first,
                                       task[t].count)
        /\ Len(task[t].shaded) <= Len(task[t].batch)

(* Where the next batch starts, if it is of the same draw call.            *)
CutInv == primitive \in Start(draw[currentDraw])

IInv == TypeOK /\ CutInv /\ TaskInv /\ FreshVertices /\ CoherentCache

TaskType == [drawCall : 0..MaxDraws, first : Nat, count : Nat,
             batch : Seq(Nat), shaded : Seq(Vertex)]

CacheType == [drawCall : 0..MaxDraws, tag : [Line -> Nat \cup {NoTag}],
              vertex : [Line -> [Lane -> Vertex]]]

(* Coherence of one cache.                                                 *)
Coherent(c) ==
    c.drawCall # 0 =>
        \A l \in Line :
            c.tag[l] # NoTag =>
                \A lane \in Lane :
                    c.vertex[l][lane] =
                        <<c.drawCall, IF draw[c.drawCall].texldl
                                      THEN c.tag[l] ELSE c.tag[l] + lane>>

(* A worker that has no batch.                                             *)
LEMMA NoTaskType == NoTask \in TaskType /\ NoTask.drawCall = 0
                    /\ NoTask.batch = <<>> /\ NoTask.shaded = <<>>
  <1>1. <<>> \in Seq(Nat) /\ <<>> \in Seq(Vertex)
    OBVIOUS
  <1>2. 0 \in 0..MaxDraws
    BY SizeAssumption
  <1> QED  BY <1>1, <1>2 DEF NoTask, TaskType

(* Nothing is in hand, and the caches are of no draw call.                 *)
LEMMA InitEstablishes == Init => IInv
  <1> SUFFICES ASSUME Init PROVE IInv
    OBVIOUS
  <1>1. MaxDraws \in Nat \ {0} /\ LINES \in Nat \ {0} /\ QUAD \in Nat \ {0}
    BY SizeAssumption
  <1>2. \A t \in Thread : cache[t] \in CacheType /\ cache[t].drawCall = 0
    <2> TAKE t \in Thread
    <2>1. cache[t] \in Uninitialised
      BY DEF Init
    <2>2. PICK tag \in {NoTag, 0, QUAD} :
            cache[t] = [drawCall |-> 0, tag |-> [l \in Line |-> tag],
                        vertex |-> [l \in Line |-> [lane \in Lane |-> <<0, 0>>]]]
      BY <2>1 DEF Uninitialised
    <2>3. tag \in Nat \cup {NoTag} /\ <<0, 0>> \in Vertex
      BY <1>1 DEF Vertex
    <2>4. 0 \in 0..MaxDraws
      BY <1>1
    <2> QED  BY <2>2, <2>3, <2>4 DEF CacheType
  <1>3. cache \in [Thread -> CacheType]
    BY <1>2 DEF Init
  <1>4. task \in [Thread -> TaskType]
    BY NoTaskType DEF Init
  <1>5. TypeOK
    BY <1>1, <1>3, <1>4 DEF Init, TypeOK, TaskType, CacheType
  <1>6. CutInv
    BY DEF Init, CutInv, Start
  <1>7. \A t \in Thread : /\ task[t].drawCall = 0 /\ task[t].batch = <<>>
                          /\ task[t].shaded = <<>>
    BY NoTaskType DEF Init
  <1>8. TaskInv
    <2>1. Len(<<>>) <= Len(<<>>)
      OBVIOUS
    <2> QED  BY <1>7, <2>1 DEF TaskInv
  <1>9. FreshVertices
    BY <1>7 DEF FreshVertices
  <1>10. CoherentCache
    BY <1>2 DEF CoherentCache
  <1> QED  BY <1>5, <1>6, <1>8, <1>9, <1>10 DEF IInv

(* The next batch lies within its draw call, and starts where a quad does. *)
LEMMA FindPreserves ==
    ASSUME IInv, NEW t \in Thread, FindPrimitives(t)
    PROVE  IInv'
  <1> DEFINE n == DrawToCut
             first == IF n = currentDraw THEN primitive ELSE 0
             d == draw[n]
             batch == [drawCall |-> n, first |-> first,
                       count |-> BatchCount(d, first),
                       batch |-> <<>>, shaded |-> <<>>]
  <1>1. /\ currentDraw \in 1..MaxDraws /\ n \in 1..MaxDraws
        /\ d \in DrawCall /\ draw[currentDraw] \in DrawCall
        /\ n \in {currentDraw, currentDraw + 1}
    BY SizeAssumption, DrawCallAssumption
       DEF IInv, TypeOK, FindPrimitives, DrawToCut
  <1>2. /\ PrimitiveCount(d) \in Nat \ {0}
        /\ PrimitiveCount(draw[currentDraw]) \in Nat \ {0}
        /\ d.batchSize \in Nat \ {0}
        /\ d.drawType = "QUADLIST" => d.batchSize % 2 = 0
    BY <1>1, Count DEF DrawCall
  <1>3. first \in Start(d)
    BY <1>1 DEF IInv, CutInv, Start
  <1>4. first \in Nat /\ first < PrimitiveCount(d)
    <2>1. CASE n = currentDraw
      BY <1>1, <1>2, <1>3, <2>1 DEF DrawToCut, Start
    <2>2. CASE n # currentDraw
      BY <1>2, <2>2
    <2> QED  BY <2>1, <2>2
  <1>5. /\ BatchCount(d, first) \in Nat
        /\ first + BatchCount(d, first) <= PrimitiveCount(d)
    BY <1>2, <1>4 DEF BatchCount
  <1>6. /\ batch \in TaskType /\ batch.drawCall = n /\ batch.first = first
        /\ batch.count = BatchCount(d, first)
        /\ batch.batch = <<>> /\ batch.shaded = <<>>
    <2> HIDE DEF n, first, d
    <2>1. /\ n \in 0..MaxDraws /\ first \in Nat /\ BatchCount(d, first) \in Nat
          /\ <<>> \in Seq(Nat) /\ <<>> \in Seq(Vertex)
      BY <1>1, <1>4, <1>5, SizeAssumption
    <2> QED  BY <2>1 DEF TaskType
  <1>7. /\ currentDraw' = n /\ primitive' = first + d.batchSize
        /\ task' = [task EXCEPT ![t] = batch]
        /\ draw' = draw /\ cache' = cache
    BY DEF FindPrimitives
  <1>8. task \in [Thread -> TaskType]
    BY DEF IInv, TypeOK, TaskType
  <1>9. TypeOK'
    <2>1. task' \in [Thread -> TaskType]
      BY <1>6, <1>7, <1>8
    <2>2. currentDraw' \in 1..MaxDraws /\ primitive' \in Nat
      BY <1>1, <1>2, <1>4, <1>7
    <2> QED  BY <1>7, <2>1, <2>2 DEF IInv, TypeOK, TaskType
  <1>10. CutInv'
    <2>1. d.drawType = "QUADLIST" => (first + d.batchSize) % 2 = 0
      BY <1>2, <1>3 DEF Start
    <2> QED  BY <1>2, <1>4, <1>7, <2>1 DEF CutInv, Start
  <1>11. TaskInv'
    <2> SUFFICES ASSUME NEW u \in Thread
                 PROVE  TaskInv!(u)'
      BY DEF TaskInv
    <2>1. CASE u = t
      <3>1. task'[u] = batch
        BY <1>7, <1>8, <2>1
      <3>2. Len(<<>>) <= Len(<<>>)
        OBVIOUS
      <3> QED  BY <1>3, <1>5, <1>6, <1>7, <3>1, <3>2
    <2>2. CASE u # t
      <3>1. task'[u] = task[u]
        BY <1>7, <1>8, <2>2
      <3> QED  BY <1>7, <3>1 DEF IInv, TaskInv
    <2> QED  BY <2>1, <2>2
  <1>12. FreshVertices'
    <2> SUFFICES ASSUME NEW u \in Thread, NEW k \in 1..Len(task'[u].shaded)
                 PROVE  task'[u].shaded[k] = <<task'[u].drawCall, task'[u].batch[k]>>
      BY DEF FreshVertices
    <2>1. CASE u = t
      BY <1>6, <1>7, <1>8, <2>1
    <2>2. CASE u # t
      BY <1>7, <1>8, <2>2 DEF IInv, FreshVertices
    <2> QED  BY <2>1, <2>2
  <1>13. CoherentCache'
    BY <1>7 DEF IInv, CoherentCache
  <1> QED  BY <1>9, <1>10, <1>11, <1>12, <1>13 DEF IInv

(* The batch is assembled; a cache of another draw call is cleared.        *)
LEMMA ProcessPreserves ==
    ASSUME IInv, NEW t \in Thread, ProcessPrimitiveVertices(t)
    PROVE  IInv'
  <1> DEFINE n == task[t].drawCall
             d == draw[n]
             b == Batch(d, task[t].first, task[t].count)
             c == ClearedFor(cache[t], n)
  <1>1. task \in [Thread -> TaskType] /\ cache \in [Thread -> CacheType]
    BY DEF IInv, TypeOK, TaskType, CacheType
  <1>2. /\ n \in 1..MaxDraws /\ d \in DrawCall
        /\ task[t].first \in Start(d) /\ task[t].count \in Nat
        /\ task[t].first + task[t].count <= PrimitiveCount(d)
    <2>1. n \in 1..MaxDraws
      BY <1>1, SizeAssumption DEF ProcessPrimitiveVertices, TaskType
    <2> QED
      BY <1>1, <2>1, DrawCallAssumption DEF IInv, TypeOK, TaskInv, TaskType
  <1>3. b \in Seq(Nat)
    <2>1. PICK e \in DrawCall : e = d
      BY <1>2
    <2>2. PICK start \in Start(e) : start = task[t].first
      BY <1>2, <2>1
    <2>3. PICK count \in Nat : count = task[t].count
      BY <1>2
    <2>4. Batch(e, start, count) \in Seq(Nat)
      BY <1>2, <2>1, <2>2, <2>3, BatchType
    <2> QED  BY <2>1, <2>2, <2>3, <2>4
  <1>4. /\ task' = [task EXCEPT ![t].batch = b]
        /\ cache' = [cache EXCEPT ![t] = c]
        /\ draw' = draw /\ currentDraw' = currentDraw /\ primitive' = primitive
        /\ task[t].batch = <<>>
    BY DEF ProcessPrimitiveVertices
  <1>5. c \in CacheType /\ c.drawCall = n
    <2>1. CASE cache[t].drawCall = n
      BY <1>1, <2>1 DEF ClearedFor
    <2>2. CASE cache[t].drawCall # n
      <3>1. NoTag \in Nat \cup {NoTag}
        OBVIOUS
      <3>2. c = [drawCall |-> n, tag |-> [l \in Line |-> NoTag],
                 vertex |-> cache[t].vertex]
        BY <1>1, <2>2 DEF ClearedFor, CacheType
      <3>3. cache[t].vertex \in [Line -> [Lane -> Vertex]]
        BY <1>1 DEF CacheType
      <3> HIDE DEF c, n
      <3> QED  BY <1>2, <3>1, <3>2, <3>3 DEF CacheType
    <2> QED  BY <2>1, <2>2
  <1>6. /\ task'[t] \in TaskType /\ task'[t].drawCall = n
        /\ task'[t].first = task[t].first /\ task'[t].count = task[t].count
        /\ task'[t].batch = b /\ task'[t].shaded = task[t].shaded
    <2> HIDE DEF b
    <2> QED  BY <1>1, <1>3, <1>4 DEF TaskType
  <1>7. \A u \in Thread : u # t => task'[u] = task[u] /\ cache'[u] = cache[u]
    BY <1>1, <1>4
  <1>8. cache'[t] = c
    BY <1>1, <1>4
  <1>9. Len(task[t].shaded) = 0
    BY <1>1, <1>4 DEF IInv, TaskInv, TaskType
  <1> HIDE DEF b, c
  <1>10. TypeOK'
    <2>1. task' \in [Thread -> TaskType] /\ cache' \in [Thread -> CacheType]
      BY <1>1, <1>4, <1>5, <1>6, <1>7, <1>8
    <2> QED  BY <1>4, <2>1 DEF IInv, TypeOK, TaskType, CacheType
  <1>11. CutInv'
    BY <1>4 DEF IInv, CutInv
  <1>12. TaskInv'
    <2> SUFFICES ASSUME NEW u \in Thread PROVE TaskInv!(u)'
      BY DEF TaskInv
    <2>1. CASE u = t
      <3>1. Len(task'[t].shaded) <= Len(task'[t].batch)
        BY <1>3, <1>6, <1>9
      <3> QED
        BY <1>2, <1>4, <1>5, <1>6, <1>8, <2>1, <3>1 DEF b
    <2>2. CASE u # t
      BY <1>4, <1>7, <2>2 DEF IInv, TaskInv
    <2> QED  BY <2>1, <2>2
  <1>13. FreshVertices'
    <2> SUFFICES ASSUME NEW u \in Thread, NEW k \in 1..Len(task'[u].shaded)
                 PROVE  task'[u].shaded[k] = <<task'[u].drawCall, task'[u].batch[k]>>
      BY DEF FreshVertices
    <2>1. CASE u = t
      BY <1>6, <1>9, <2>1
    <2>2. CASE u # t
      BY <1>7, <2>2 DEF IInv, FreshVertices
    <2> QED  BY <2>1, <2>2
  <1>14. CoherentCache'
    <2>1. Coherent(c)
      <3>1. CASE cache[t].drawCall = n
        BY <3>1 DEF c, ClearedFor, Coherent, IInv, CoherentCache
      <3>2. CASE cache[t].drawCall # n
        <4>1. \A l \in Line : c.tag[l] = NoTag
          BY <1>1, <3>2 DEF c, ClearedFor, CacheType
        <4> QED  BY <4>1 DEF Coherent
      <3> QED  BY <3>1, <3>2
    <2>2. \A u \in Thread : u # t => Coherent(cache[u])
      BY DEF IInv, CoherentCache, Coherent
    <2> QED  BY <1>4, <1>7, <1>8, <2>1, <2>2 DEF CoherentCache, Coherent
  <1> QED  BY <1>10, <1>11, <1>12, <1>13, <1>14 DEF IInv

(* After the line of an index is in the cache, the cache is still coherent *)
(* and the index's place in it holds the index's vertex.                   *)
LEMMA LineFilled ==
    ASSUME IInv, NEW c \in CacheType, c.drawCall \in 1..MaxDraws, Coherent(c),
           NEW index \in Nat
    PROVE  LET e == WithLineOf(c, index)
           IN  /\ e \in CacheType /\ e.drawCall = c.drawCall /\ Coherent(e)
               /\ e.vertex[LineOf(index)][LaneOf(index)] = <<c.drawCall, index>>
  <1> DEFINE n == c.drawCall
             line == LineOf(index)
             lane == LaneOf(index)
             tag == TagFor(draw[n], index)
             e == WithLineOf(c, index)
             At(l) == IF draw[n].texldl THEN tag ELSE tag + l
  <1>1. /\ line \in Line /\ lane \in Lane /\ tag \in Nat
        /\ index - (index % QUAD) \in Nat
    BY Slot DEF TagFor
  <1>2. At(lane) = index
    <2>1. CASE draw[n].texldl
      BY <2>1 DEF TagFor
    <2>2. CASE ~draw[n].texldl
      <3>1. tag = index - (index % QUAD) /\ lane = index % QUAD
        BY <2>2 DEF TagFor, LaneOf
      <3>2. index % QUAD \in Int
        BY <1>1, <3>1 DEF Lane
      <3>3. tag + lane = index
        BY <3>1, <3>2
      <3> QED  BY <2>2, <3>3
    <2> QED  BY <2>1, <2>2
  <1>3. tag # NoTag
    BY <1>1 DEF NoTag
  <1>4. CASE c.tag[line] = tag
    <2>1. e = c
      BY <1>4 DEF WithLineOf
    <2>2. c.vertex[line][lane] = <<n, At(lane)>>
      <3>1. n # 0
        BY SizeAssumption
      <3> QED  BY <1>1, <1>3, <1>4, <3>1 DEF Coherent
    <2> QED  BY <1>2, <2>1, <2>2
  <1>5. CASE c.tag[line] # tag
    <2>1. Shade(n, tag) = [l \in Lane |-> <<n, At(l)>>]
      BY DEF Shade
    <2>2. Shade(n, tag) \in [Lane -> Vertex]
      <3>1. \A l \in Lane : <<n, At(l)>> \in Vertex
        BY <1>1, SizeAssumption DEF Vertex, Lane
      <3> QED  BY <2>1, <3>1
    <2>3. /\ e.drawCall = n
          /\ e.tag = [c.tag EXCEPT ![line] = tag]
          /\ e.vertex = [c.vertex EXCEPT ![line] = Shade(n, tag)]
          /\ e = [drawCall |-> n, tag |-> e.tag, vertex |-> e.vertex]
      BY <1>5 DEF WithLineOf, CacheType
    <2>4. /\ c.tag \in [Line -> Nat \cup {NoTag}]
          /\ c.vertex \in [Line -> [Lane -> Vertex]]
          /\ n \in 0..MaxDraws
      BY DEF CacheType
    <2>5. /\ e.tag \in [Line -> Nat \cup {NoTag}]
          /\ e.vertex \in [Line -> [Lane -> Vertex]]
      BY <1>1, <2>2, <2>3, <2>4
    <2>6. e \in CacheType
      BY <2>3, <2>4, <2>5 DEF CacheType
    <2>7. /\ e.tag[line] = tag /\ e.vertex[line] = Shade(n, tag)
          /\ \A l \in Line : l # line =>
                e.tag[l] = c.tag[l] /\ e.vertex[l] = c.vertex[l]
      BY <1>1, <2>3, <2>4
    <2> HIDE DEF e, line, lane, tag
    <2>8. Coherent(e)
      <3> SUFFICES ASSUME NEW l \in Line, e.tag[l] # NoTag, NEW j \in Lane
                   PROVE  e.vertex[l][j] =
                            <<n, IF draw[n].texldl THEN e.tag[l] ELSE e.tag[l] + j>>
        BY <2>3 DEF Coherent
      <3>1. CASE l = line
        BY <2>1, <2>7, <3>1
      <3>2. CASE l # line
        <4>1. n # 0
          BY SizeAssumption
        <4> QED  BY <2>7, <3>2, <4>1 DEF Coherent
      <3> QED  BY <3>1, <3>2
    <2>9. e.vertex[line][lane] = <<n, index>>
      BY <1>1, <1>2, <2>1, <2>7
    <2> QED  BY <2>3, <2>6, <2>8, <2>9 DEF e, line, lane
  <1> QED  BY <1>4, <1>5

(* One more vertex is copied out of the cache.                             *)
LEMMA ShadePreserves ==
    ASSUME IInv, NEW t \in Thread, ShadeVertex(t)
    PROVE  IInv'
  <1>1. task \in [Thread -> TaskType] /\ cache \in [Thread -> CacheType]
    BY DEF IInv, TypeOK, TaskType, CacheType
  <1>2. /\ Len(task[t].shaded) < Len(task[t].batch)
        /\ task[t].batch \in Seq(Nat) /\ task[t].shaded \in Seq(Vertex)
    BY <1>1 DEF ShadeVertex, TaskType
  <1>3. PICK m \in Nat : m = Len(task[t].shaded)
    BY <1>2
  <1>4. m + 1 \in 1..Len(task[t].batch)
    BY <1>2, <1>3
  <1>5. PICK index \in Nat : index = task[t].batch[m + 1]
    BY <1>2, <1>4
  <1>6. /\ task[t].batch # <<>> /\ task[t].drawCall # 0
        /\ cache[t].drawCall = task[t].drawCall
    BY <1>2, <1>4 DEF IInv, TaskInv
  <1>7. task[t].drawCall \in 1..MaxDraws
    BY <1>1, <1>6, SizeAssumption DEF TaskType
  <1>8. PICK c \in CacheType : c = cache[t]
    BY <1>1
  <1>9. c.drawCall \in 1..MaxDraws /\ Coherent(c)
    BY <1>6, <1>7, <1>8 DEF IInv, CoherentCache, Coherent
  <1> DEFINE e == WithLineOf(c, index)
             v == e.vertex[LineOf(index)][LaneOf(index)]
  <1>10. /\ e \in CacheType /\ e.drawCall = c.drawCall /\ Coherent(e)
         /\ v = <<task[t].drawCall, index>>
    BY <1>6, <1>8, <1>9, LineFilled
  <1>11. /\ cache' = [cache EXCEPT ![t] = e]
         /\ task' = [task EXCEPT ![t].shaded = Append(task[t].shaded, v)]
         /\ draw' = draw /\ currentDraw' = currentDraw /\ primitive' = primitive
    BY <1>3, <1>5, <1>8 DEF ShadeVertex
  <1> HIDE DEF e, v
  <1>12. v \in Vertex
    BY <1>7, <1>10 DEF Vertex
  <1>13. /\ Append(task[t].shaded, v) \in Seq(Vertex)
         /\ Len(Append(task[t].shaded, v)) = m + 1
         /\ Append(task[t].shaded, v)[m + 1] = v
         /\ \A k \in 1..m : Append(task[t].shaded, v)[k] = task[t].shaded[k]
    BY <1>2, <1>3, <1>12
  <1>14. /\ task'[t] \in TaskType
         /\ task'[t].drawCall = task[t].drawCall
         /\ task'[t].first = task[t].first /\ task'[t].count = task[t].count
         /\ task'[t].batch = task[t].batch
         /\ task'[t].shaded = Append(task[t].shaded, v)
    BY <1>1, <1>11, <1>13 DEF TaskType
  <1>15. cache'[t] = e
    BY <1>1, <1>11
  <1>16. \A u \in Thread : u # t => task'[u] = task[u] /\ cache'[u] = cache[u]
    BY <1>1, <1>11
  <1>17. TypeOK'
    <2>1. task' \in [Thread -> TaskType] /\ cache' \in [Thread -> CacheType]
      BY <1>1, <1>10, <1>11, <1>14, <1>15, <1>16
    <2> QED  BY <1>11, <2>1 DEF IInv, TypeOK, TaskType, CacheType
  <1>18. CutInv'
    BY <1>11 DEF IInv, CutInv
  <1>19. TaskInv'
    <2> SUFFICES ASSUME NEW u \in Thread PROVE TaskInv!(u)'
      BY DEF TaskInv
    <2>1. CASE u = t
      <3>1. Len(task'[t].shaded) <= Len(task'[t].batch)
        BY <1>4, <1>13, <1>14
      <3> QED
        BY <1>8, <1>10, <1>11, <1>14, <1>15, <2>1, <3>1 DEF IInv, TaskInv
    <2>2. CASE u # t
      BY <1>11, <1>16, <2>2 DEF IInv, TaskInv
    <2> QED  BY <2>1, <2>2
  <1>20. FreshVertices'
    <2> SUFFICES ASSUME NEW u \in Thread, NEW k \in 1..Len(task'[u].shaded)
                 PROVE  task'[u].shaded[k] = <<task'[u].drawCall, task'[u].batch[k]>>
      BY DEF FreshVertices
    <2>1. CASE u = t /\ k = m + 1
      BY <1>5, <1>10, <1>13, <1>14, <2>1
    <2>2. CASE u = t /\ k # m + 1
      <3>1. k \in 1..m
        BY <1>13, <1>14, <2>2
      <3> QED
        BY <1>3, <1>13, <1>14, <2>2, <3>1 DEF IInv, FreshVertices
    <2>3. CASE u # t
      BY <1>16, <2>3 DEF IInv, FreshVertices
    <2> QED  BY <2>1, <2>2, <2>3
  <1>21. CoherentCache'
    <2>1. \A u \in Thread : u # t => Coherent(cache[u])
      BY DEF IInv, CoherentCache, Coherent
    <2> QED  BY <1>10, <1>11, <1>15, <1>16, <2>1 DEF CoherentCache, Coherent
  <1> QED  BY <1>17, <1>18, <1>19, <1>20, <1>21 DEF IInv

(* The worker is free, and keeps its cache.                                *)
LEMMA SetupPreserves ==
    ASSUME IInv, NEW t \in Thread, SetupPrimitives(t)
    PROVE  IInv'
  <1>1. task \in [Thread -> TaskType]
    BY DEF IInv, TypeOK, TaskType
  <1>2. /\ task' = [task EXCEPT ![t] = NoTask] /\ cache' = cache
        /\ draw' = draw /\ currentDraw' = currentDraw /\ primitive' = primitive
    BY DEF SetupPrimitives
  <1>3. /\ task'[t] = NoTask
        /\ \A u \in Thread : u # t => task'[u] = task[u]
    BY <1>1, <1>2
  <1>4. TypeOK'
    <2>1. task' \in [Thread -> TaskType]
      BY <1>1, <1>2, NoTaskType
    <2> QED  BY <1>2, <2>1 DEF IInv, TypeOK, TaskType
  <1>5. CutInv'
    BY <1>2 DEF IInv, CutInv
  <1>6. TaskInv'
    <2> SUFFICES ASSUME NEW u \in Thread PROVE TaskInv!(u)'
      BY DEF TaskInv
    <2>1. CASE u = t
      <3>1. Len(<<>>) <= Len(<<>>)
        OBVIOUS
      <3> QED  BY <1>3, <2>1, <3>1, NoTaskType
    <2>2. CASE u # t
      BY <1>2, <1>3, <2>2 DEF IInv, TaskInv
    <2> QED  BY <2>1, <2>2
  <1>7. FreshVertices'
    <2> SUFFICES ASSUME NEW u \in Thread, NEW k \in 1..Len(task'[u].shaded)
                 PROVE  task'[u].shaded[k] = <<task'[u].drawCall, task'[u].batch[k]>>
      BY DEF FreshVertices
    <2>1. CASE u = t
      BY <1>3, <2>1, NoTaskType
    <2>2. CASE u # t
      BY <1>3, <2>2 DEF IInv, FreshVertices
    <2> QED  BY <2>1, <2>2
  <1>8. CoherentCache'
    BY <1>2 DEF IInv, CoherentCache
  <1> QED  BY <1>4, <1>5, <1>6, <1>7, <1>8 DEF IInv

(* Every step of every worker keeps the invariant.                         *)
LEMMA NextPreserves == IInv /\ [Next]_vars => IInv'
  <1> SUFFICES ASSUME IInv, [Next]_vars PROVE IInv'
    OBVIOUS
  <1>1. CASE UNCHANGED vars
    BY <1>1 DEF vars, IInv, TypeOK, CutInv, TaskInv, FreshVertices, CoherentCache
  <1>2. ASSUME NEW t \in Thread,
               FindPrimitives(t) \/ ProcessPrimitiveVertices(t)
                  \/ ShadeVertex(t) \/ SetupPrimitives(t)
        PROVE  IInv'
    BY <1>2, FindPreserves, ProcessPreserves, ShadePreserves, SetupPreserves
  <1> QED  BY <1>1, <1>2 DEF Next

(* The invariant holds in every state of every run.                        *)
LEMMA Invariance == Spec => []IInv
  BY InitEstablishes, NextPreserves, PTL DEF Spec

-----------------------------------------------------------------------------
(* Variables keep their types.                                             *)
THEOREM TypeCorrect == Spec => []TypeOK
  <1>1. IInv => TypeOK
    BY DEF IInv
  <1> QED  BY <1>1, Invariance, PTL

(* No worker's cache ever holds a vertex under a tag that is not its own,  *)
(* or one of another draw call: processPrimitiveVertices() clears it in    *)
(* time.                                                                   *)
THEOREM CachesCoherent == Spec => []CoherentCache
  <1>1. IInv => CoherentCache
    BY DEF IInv
  <1> QED  BY <1>1, Invariance, PTL

(* Setup gets, for every corner, the vertex of its index and draw call.    *)
THEOREM VerticesFresh == Spec => []FreshVertices
  <1>1. IInv => FreshVertices
    BY DEF IInv
  <1> QED  BY <1>1, Invariance, PTL

(* A batch in hand is of a draw call the application issued.               *)
LEMMA InHand ==
    ASSUME IInv, NEW t \in Thread, task[t].drawCall # 0,
           NEW i \in 0..task[t].count - 1
    PROVE  LET d == draw[task[t].drawCall]
           IN  /\ d \in DrawCall /\ task[t].first \in Start(d)
               /\ i \in Nat /\ task[t].first \in Nat /\ task[t].count \in Nat
               /\ task[t].first + i < PrimitiveCount(d)
  <1> DEFINE d == draw[task[t].drawCall]
  <1>1. task \in [Thread -> TaskType]
    BY DEF IInv, TypeOK, TaskType
  <1>2. task[t].drawCall \in 1..MaxDraws
    BY <1>1, SizeAssumption DEF TaskType
  <1>3. d \in DrawCall
    BY <1>2, DrawCallAssumption DEF IInv, TypeOK
  <1>4. task[t].first \in Start(d) /\ task[t].first + task[t].count <= PrimitiveCount(d)
    BY DEF IInv, TaskInv
  <1>5. task[t].first \in Nat /\ task[t].count \in Nat
    BY <1>1 DEF TaskType
  <1>6. PrimitiveCount(d) \in Nat
    BY <1>3, Count
  <1> HIDE DEF d
  <1>7. i \in Nat /\ task[t].first + i < PrimitiveCount(d)
    BY <1>4, <1>5, <1>6
  <1> QED  BY <1>3, <1>4, <1>5, <1>7 DEF d

(* However a draw call is cut, its batches ask only for vertices it was    *)
(* issued with.                                                            *)
THEOREM VerticesWithin == Spec => []OnlyItsVertices
  <1>1. IInv => OnlyItsVertices
    <2> SUFFICES ASSUME IInv, NEW t \in Thread, task[t].drawCall # 0,
                        NEW i \in 0..task[t].count - 1, NEW k \in 1..3
                 PROVE  Corners(draw[task[t].drawCall], task[t].first, i)[k]
                            < draw[task[t].drawCall].elements
      BY DEF OnlyItsVertices
    <2>1. PICK d \in DrawCall : d = draw[task[t].drawCall]
      BY InHand
    <2>2. PICK start \in Start(d) : start = task[t].first
      BY <2>1, InHand
    <2>3. i \in Nat /\ start + i < PrimitiveCount(d)
      BY <2>1, <2>2, InHand
    <2>4. Corners(d, start, i)[k] \in 0..d.elements - 1
      BY <2>3, Positions
    <2>5. d.elements \in Nat
      BY DEF DrawCall
    <2> QED  BY <2>1, <2>2, <2>4, <2>5
  <1> QED  BY <1>1, Invariance, PTL

(* However a draw call is cut, primitives are those of the whole list.     *)
THEOREM PrimitivesAsDrawn == Spec => []AssembledAsDrawn
  <1>1. IInv => AssembledAsDrawn
    <2> SUFFICES ASSUME IInv, NEW t \in Thread, task[t].batch # <<>>,
                        NEW i \in 0..task[t].count - 1
                 PROVE  \E c \in DrawnAs(draw[task[t].drawCall], task[t].first + i) :
                            \A k \in 1..3 : task[t].batch[3 * i + k]
                                            = Index(draw[task[t].drawCall], c[k])
      BY DEF AssembledAsDrawn
    <2>1. /\ task[t].drawCall # 0
          /\ task[t].batch = Batch(draw[task[t].drawCall], task[t].first, task[t].count)
      BY DEF IInv, TaskInv
    <2>2. PICK d \in DrawCall : d = draw[task[t].drawCall]
      BY <2>1, InHand
    <2>3. PICK start \in Start(d) : start = task[t].first
      BY <2>1, <2>2, InHand
    <2>4. PICK count \in Nat : count = task[t].count
      BY <2>1, InHand
    <2>5. i \in Nat /\ i < count /\ start + i < PrimitiveCount(d)
      BY <2>1, <2>2, <2>3, <2>4, InHand
    <2>6. Corners(d, start, i) \in DrawnAs(d, start + i)
      BY <2>5, Winding
    <2>7. ASSUME NEW k \in 1..3
          PROVE  Batch(d, start, count)[3 * i + k] = Index(d, Corners(d, start, i)[k])
      <3>1. /\ 3 * i + k \in 1..3 * count
            /\ ((3 * i + k) - 1) \div 3 = i
            /\ (((3 * i + k) - 1) % 3) + 1 = k
        BY <2>5, SMT
      <3> QED  BY <3>1 DEF Batch
    <2> QED  BY <2>1, <2>2, <2>3, <2>4, <2>6, <2>7
  <1> QED  BY <1>1, Invariance, PTL
=============================================================================
