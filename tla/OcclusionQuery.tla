--------------------------- MODULE OcclusionQuery ---------------------------
(***************************************************************************)
(* Occlusion queries.  The application begins, ends, reads and deletes     *)
(* them (es2::Query in src/src/OpenGL/libGLESv2/Query.cpp, and             *)
(* Direct3DQuery9 in src/src/D3D9/Direct3DQuery9.cpp) while the worker     *)
(* threads that retire draw calls add the samples of those draw calls      *)
(* (sw::Query in src/src/Renderer/Renderer.hpp and finishRendering() in    *)
(* src/src/Renderer/Renderer.cpp).                                         *)
(***************************************************************************)
EXTENDS Naturals, Sequences, SequencesExt, FiniteSets

CONSTANTS
    Query,
    DRAW_COUNT,  \* DrawCall objects, each with its DrawData
    clusterCount,
    MaxDraws,    \* bound on the draw calls that are submitted
    Direct3D,    \* the rules of Direct3D 9: several queries may be active
    Patient      \* a query is begun again or deleted only once its result is there

ASSUME CountAssumption == {DRAW_COUNT, clusterCount} \subseteq Nat \ {0}
ASSUME MaxDrawsAssumption == MaxDraws \in Nat
ASSUME RulesAssumption == Direct3D \in BOOLEAN /\ Patient \in BOOLEAN

DrawCall == 1 .. DRAW_COUNT
Cluster == 1 .. clusterCount

VARIABLES
    query,             \* es2::Query with its sw::Query
    named,             \* queries that have a name
    activeQuery,       \* queries between begin and end
    queries,           \* the renderer's list of sw::Query pointers
    occlusionEnabled,
    draw,              \* draw calls in flight
    occlusion,         \* DrawData::occlusion, which outlives the draw call
    submitted,         \* number of draw calls so far
    passed             \* samples that pass in the draw calls since a query's begin

queryVars == <<query, named, activeQuery, queries, occlusionEnabled,
               draw, occlusion, submitted, passed>>

NewQuery == [mQuery |-> "null", building |-> FALSE, reference |-> 0, data |-> 0,
             mStatus |-> FALSE, mResult |-> FALSE]

NoDraw == [phase |-> "free", queries |-> << >>, counting |-> FALSE,
           passes |-> [c \in Cluster |-> 0], cluster |-> 1]

InFlight == {d \in DrawCall : draw[d].phase # "free"}

Total(counts) == LET sum[c \in 0 .. clusterCount] == IF c = 0 THEN 0 ELSE sum[c - 1] + counts[c]
                 IN  sum[clusterCount]

\* DrawData is allocated without being initialised.
QueryInit ==
    /\ query = [q \in Query |-> NewQuery]
    /\ named = Query /\ activeQuery = {} /\ queries = << >>
    /\ occlusionEnabled = FALSE
    /\ draw = [d \in DrawCall |-> NoDraw]
    /\ occlusion \in [DrawCall -> {[c \in Cluster |-> n] : n \in 0 .. 1}]
    /\ submitted = 0
    /\ passed = [q \in Query |-> 0]

\* The condition of testQuery() and GetData().
Available(q) == /\ query[q].mQuery = "allocated"
                /\ ~query[q].building
                /\ query[q].reference = 0

MayReuse(q) == Patient => query[q].mQuery = "null" \/ Available(q)
-----------------------------------------------------------------------------
(* The application.                                                         *)

\* Query::begin() and sw::Query::begin()
Begun(q) == [query EXCEPT ![q].mQuery = "allocated", ![q].building = TRUE, ![q].data = 0]

\* mutated: the query stays on the renderer's list
RemovedNot(q) == queries

\* A query is on the list once.
removeQuery(q) == IF Contains(queries, q)
                  THEN RemoveAt(queries, CHOOSE i \in DOMAIN queries : queries[i] = q)
                  ELSE queries

\* Context::beginQuery() allows one active query, Issue(D3DISSUE_BEGIN) several.
beginQuery(q) ==
    /\ q \in named \ activeQuery /\ MayReuse(q)
    /\ Direct3D \/ activeQuery = {}
    /\ query' = Begun(q)
    /\ activeQuery' = activeQuery \cup {q}
    /\ queries' = Append(queries, q)
    /\ occlusionEnabled' = TRUE
    /\ passed' = [passed EXCEPT ![q] = 0]
    /\ UNCHANGED <<named, draw, occlusion, submitted>>

\* mutated: the query goes on building
EndedBuilding(q) == [query EXCEPT ![q].mStatus = FALSE, ![q].mResult = FALSE]

Ended(q) == [query EXCEPT ![q].building = FALSE,
                          ![q].mStatus = FALSE, ![q].mResult = FALSE]

\* A query that was deleted while it was active goes with its last reference.
endQuery(q) ==
    /\ q \in activeQuery
    /\ query' = IF q \in named THEN Ended(q) ELSE [Ended(q) EXCEPT ![q].mQuery = "freed"]
    /\ activeQuery' = activeQuery \ {q}
    /\ queries' = removeQuery(q)
    /\ occlusionEnabled' = FALSE
    /\ UNCHANGED <<named, draw, occlusion, submitted, passed>>

\* isResultAvailable(), and each turn of the loop in getResult().  Active
\* queries are refused by GetQueryObjectuivEXT() and, as they are building, here.
testQuery(q) ==
    /\ q \in named \ activeQuery
    /\ Available(q) /\ ~query[q].mStatus
    /\ query' = [query EXCEPT ![q].mStatus = TRUE, ![q].mResult = query[q].data > 0]
    /\ UNCHANGED <<named, activeQuery, queries, occlusionEnabled,
                   draw, occlusion, submitted, passed>>

\* Context::deleteQuery() releases the map's reference; an active query has
\* another one.  ~Direct3DQuery9 takes the query off the list and frees it.
deleteQuery(q) ==
    /\ q \in named /\ MayReuse(q)
    /\ named' = named \ {q}
    /\ IF q \in activeQuery /\ ~Direct3D
       THEN UNCHANGED <<query, activeQuery, queries>>
       ELSE /\ query' = [query EXCEPT ![q].mQuery = "freed"]
            /\ activeQuery' = activeQuery \ {q}
            /\ queries' = removeQuery(q)
    /\ UNCHANGED <<occlusionEnabled, draw, occlusion, submitted, passed>>
-----------------------------------------------------------------------------
(* Draw calls.                                                              *)

Referenced == [q \in Query |-> IF Contains(queries, q)
                               THEN [query[q] EXCEPT !.reference = @ + 1] ELSE query[q]]

ClearedCounts(d) == IF occlusionEnabled
                    THEN [occlusion EXCEPT ![d] = [c \in Cluster |-> 0]] ELSE occlusion

\* Renderer::draw() takes the first DrawCall object that is free.  "passes" are
\* the samples that will pass the depth test in each cluster.
submit(d, passes) ==
    /\ submitted < MaxDraws
    /\ d \notin InFlight /\ \A e \in DrawCall : e < d => e \in InFlight
    /\ query' = Referenced
    /\ draw' = [draw EXCEPT ![d] = [phase |-> "queued", queries |-> queries,
                    counting |-> occlusionEnabled, passes |-> passes, cluster |-> 1]]
    /\ occlusion' = ClearedCounts(d)
    /\ submitted' = submitted + 1
    /\ passed' = [q \in Query |-> IF q \in activeQuery THEN passed[q] + Total(passes)
                                                       ELSE passed[q]]
    /\ UNCHANGED <<named, activeQuery, queries, occlusionEnabled>>

\* The clusters render, each into its own count, if the pixel routine counts.
render(d) ==
    /\ draw[d].phase = "queued"
    /\ draw' = [draw EXCEPT ![d].phase = "retiring"]
    /\ occlusion' = IF draw[d].counting
                    THEN [occlusion EXCEPT ![d] = [c \in Cluster |-> @[c] + draw[d].passes[c]]]
                    ELSE occlusion
    /\ UNCHANGED <<query, named, activeQuery, queries, occlusionEnabled, submitted, passed>>

\* finishRendering() for the query that is next: one atomicAdd() per cluster...
addOcclusion(d) ==
    /\ draw[d].phase = "retiring" /\ draw[d].queries # << >>
    /\ draw[d].cluster \in Cluster
    /\ query' = [query EXCEPT ![Head(draw[d].queries)].data =
                                 @ + occlusion[d][draw[d].cluster]]
    /\ draw' = [draw EXCEPT ![d].cluster = @ + 1]
    /\ UNCHANGED <<named, activeQuery, queries, occlusionEnabled,
                   occlusion, submitted, passed>>

\* mutated: the reference is given back before the last cluster's count is added
dropReferenceEarly(d) ==
    /\ draw[d].phase = "retiring" /\ draw[d].queries # << >>
    /\ draw[d].cluster = clusterCount
    /\ query' = [query EXCEPT ![Head(draw[d].queries)].reference = @ - 1]
    /\ draw' = [draw EXCEPT ![d].queries = Tail(@), ![d].cluster = 1]
    /\ UNCHANGED <<named, activeQuery, queries, occlusionEnabled,
                   occlusion, submitted, passed>>

\* ... then one atomicDecrement().
dropReference(d) ==
    /\ draw[d].phase = "retiring" /\ draw[d].queries # << >>
    /\ draw[d].cluster \notin Cluster
    /\ query' = [query EXCEPT ![Head(draw[d].queries)].reference = @ - 1]
    /\ draw' = [draw EXCEPT ![d].queries = Tail(@), ![d].cluster = 1]
    /\ UNCHANGED <<named, activeQuery, queries, occlusionEnabled,
                   occlusion, submitted, passed>>

\* references = -1: the DrawCall object is free again.
retire(d) ==
    /\ draw[d].phase = "retiring" /\ draw[d].queries = << >>
    /\ draw' = [draw EXCEPT ![d] = NoDraw]
    /\ UNCHANGED <<query, named, activeQuery, queries, occlusionEnabled,
                   occlusion, submitted, passed>>

DrawStep(d) == render(d) \/ addOcclusion(d) \/ dropReference(d) \/ retire(d)

QueryNext ==
    \/ \E q \in Query : beginQuery(q) \/ endQuery(q) \/ testQuery(q) \/ deleteQuery(q)
    \/ \E d \in DrawCall :
          \/ \E passes \in [Cluster -> 0 .. 1] : submit(d, passes)
          \/ DrawStep(d)

QuerySpec == QueryInit /\ [][QueryNext]_queryVars

\* Draw calls in flight retire (EveryDrawRetired of Scheduler), and a client that
\* wants a result asks again until it has it, as the loop of getResult() does.
QueryFairSpec == /\ QuerySpec
                 /\ \A d \in DrawCall : WF_queryVars(DrawStep(d))
                 /\ \A q \in Query : WF_queryVars(testQuery(q))
-----------------------------------------------------------------------------
(* When a result may be read, it is the number of samples that passed in the  *)
(* draw calls between begin and end, all of them and no others, however       *)
(* testQuery() and GetData() interleave with the draw calls' retirement; and  *)
(* what testQuery() has kept of it is still right.                            *)
ResultIsSum ==
    \A q \in Query :
        /\ Available(q) => query[q].data = passed[q]
        /\ Available(q) /\ query[q].mStatus => query[q].mResult = (passed[q] > 0)

(* A query's reference count is the number of draw calls in flight that will  *)
(* still write to it, and neither they nor the renderer's list have a pointer *)
(* to a query that ~Query freed.                                              *)
HoldersCounted ==
    \A q \in Query :
        LET holders == {d \in InFlight : Contains(draw[d].queries, q)}
        IN  /\ query[q].mQuery = "allocated" => query[q].reference = Cardinality(holders)
            /\ holders # {} \/ Contains(queries, q) => query[q].mQuery = "allocated"

(* What retirement adds to a query is the "number of pixels passing depth     *)
(* test" (Renderer.hpp:150) of that draw call, and nothing that an earlier    *)
(* draw call left in the same DrawData.                                       *)
CountsAreOfThisDraw ==
    \A d \in InFlight :
        draw[d].phase = "retiring" /\ draw[d].queries # << >> =>
            occlusion[d] = draw[d].passes

(* The result of a query that was ended arrives, unless the client begins the *)
(* query again or deletes it: getResult() does not spin for ever.             *)
ResultArrives ==
    \A q \in Query :
        (query[q].mQuery = "allocated" /\ q \in named \ activeQuery)
            ~> (query[q].mStatus \/ q \in activeQuery \/ q \notin named)
=============================================================================
