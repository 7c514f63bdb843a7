---------------------------- MODULE RoutineCache ----------------------------
(***************************************************************************)
(* The routines that the processors generate, their cache and the draw     *)
(* calls in flight that run them: LRUCache in src/src/Renderer/            *)
(* LRUCache.hpp, VertexProcessor::routine() and its likes, what            *)
(* Renderer::draw() and finishRendering() do with routines, and the counts *)
(* in src/src/Reactor/Routine.cpp.  The three processors have one cache    *)
(* each, which have nothing to do with each other: this is one of them.    *)
(***************************************************************************)
EXTENDS Integers, FiniteSets, Sequences

CONSTANTS
    State,       \* what routines are generated for
    Routine,     \* addresses of routines, 1 .. n
    DrawCall,    \* DrawCall objects
    CacheSize,   \* sizes that configurations ask for
    Instancing,  \* draw() is also called with "update" FALSE
    NONE

ASSUME RoutineAssumption == Routine \subseteq Nat
ASSUME SizeAssumption == CacheSize \subseteq 1 .. 8    \* bound: what ceilPow2 is defined for
ASSUME DrawAssumption == IsFiniteSet(DrawCall)
ASSUME InstancingAssumption == Instancing \in BOOLEAN
ASSUME NoneAssumption == NONE \notin State \cup Routine

VARIABLES
    size, top, fill,  \* of the LRUCache
    key,              \* its array of keys
    ref,              \* position of the key that belongs to a place
    data,             \* the routine in a place
    routine,          \* bindCount and the state a routine was generated for
    app,              \* the draw call that the application is in
    draw              \* draw calls in flight

cache == <<size, top, fill, key, ref, data>>
vars == <<cache, routine, app, draw>>

ceilPow2(n) == CHOOSE p \in {1, 2, 4, 8} : p >= n /\ \A q \in {1, 2, 4, 8} : q >= n => p <= q

NoRoutine == [alive |-> FALSE, for |-> NONE, bindCount |-> 0]
NoDraw == [runs |-> NONE, for |-> NONE]
Ready == [pc |-> "ready", runs |-> NONE, for |-> NONE]

\* setRoutineCacheSize() of a size n
NewCache(n) ==
    /\ size' = ceilPow2(n)
    /\ top' = 0 /\ fill' = 0
    /\ key' = [i \in 0 .. size' - 1 |-> NONE]
    /\ ref' = [i \in 0 .. size' - 1 |-> i]
    /\ data' = [i \in 0 .. size' - 1 |-> NONE]

Init ==
    /\ \E n \in CacheSize :
          /\ size = ceilPow2(n)
          /\ key = [i \in 0 .. ceilPow2(n) - 1 |-> NONE]
          /\ ref = [i \in 0 .. ceilPow2(n) - 1 |-> i]
          /\ data = [i \in 0 .. ceilPow2(n) - 1 |-> NONE]
    /\ top = 0 /\ fill = 0
    /\ routine = [r \in Routine |-> NoRoutine]
    /\ app = Ready
    /\ draw = [d \in DrawCall |-> NoDraw]
-----------------------------------------------------------------------------
(* Routine::bind() and unbind(); the last unbind() deletes the routine.     *)

Bound(routines, r) == [routines EXCEPT ![r].bindCount = @ + 1]

\* mutated: a routine is deleted when the first of its users is done with it
UnboundFirst(routines, r) == [routines EXCEPT ![r] = NoRoutine]

Unbound(routines, r) ==
    [routines EXCEPT ![r] = IF @.bindCount = 1 THEN NoRoutine
                            ELSE [@ EXCEPT !.bindCount = routines[r].bindCount - 1]]

\* ~LRUCache unbinds what is in every place.
UnboundAll == [r \in Routine |->
    IF \E i \in 0 .. size - 1 : data[i] = r THEN Unbound(routine, r)[r] ELSE routine[r]]
-----------------------------------------------------------------------------
(* LRUCache                                                                 *)

\* mutated: the oldest place is left out
SearchedShort == (top - fill + 2) .. top

Searched == (top - fill + 1) .. top

Mask(i) == i % size
KeyAt(i) == key[ref[Mask(i)]]

Hits(s) == {i \in Searched : KeyAt(i) = s}

\* mutated: the pointers to the keys stay where they are
MoveDataUp(i) ==
    /\ data' = [data EXCEPT ![Mask(i)] = data[Mask(i + 1)], ![Mask(i + 1)] = data[Mask(i)]]
    /\ UNCHANGED ref

MoveUp(i) ==
    /\ data' = [data EXCEPT ![Mask(i)] = data[Mask(i + 1)], ![Mask(i + 1)] = data[Mask(i)]]
    /\ ref' = [ref EXCEPT ![Mask(i)] = ref[Mask(i + 1)], ![Mask(i + 1)] = ref[Mask(i)]]

\* query() hits in place i, the first of them from the top.
QueryHit(s, i) ==
    /\ i \in Hits(s) /\ \A j \in Hits(s) : j <= i
    /\ IF i # top THEN MoveUp(i) ELSE UNCHANGED <<data, ref>>
    /\ app' = [pc |-> "bind", runs |-> data[Mask(i)], for |-> s]
    /\ UNCHANGED <<size, top, fill, key, routine, draw>>

\* add() of routine r, newly generated for s
Add(s, r) ==
    LET new == Mask(top + 1)
        generated == [routine EXCEPT ![r] = [alive |-> TRUE, for |-> s, bindCount |-> 1]]
    IN  /\ top' = new
        /\ fill' = IF fill + 1 < size THEN fill + 1 ELSE size
        /\ key' = [key EXCEPT ![ref[new]] = s]
        /\ routine' = IF data[new] = NONE THEN generated ELSE Unbound(generated, data[new])
        /\ data' = [data EXCEPT ![new] = r]
        /\ UNCHANGED <<size, ref>>

\* The memory of the first routine that was freed is allocated again.
Allocated(r) == /\ ~routine[r].alive
                /\ \A q \in Routine : q < r => routine[q].alive

QueryMiss(s) ==
    /\ Hits(s) = {}
    /\ \E r \in Routine : /\ Allocated(r)
                          /\ Add(s, r)
                          /\ app' = [pc |-> "bind", runs |-> r, for |-> s]
    /\ UNCHANGED draw
-----------------------------------------------------------------------------
(* Renderer::draw() and finishRendering()                                   *)

\* updateConfiguration() terminates the threads, with no draw call in flight,
\* and replaces the cache.
updateConfiguration(n) ==
    /\ app.pc = "ready"
    /\ \A d \in DrawCall : draw[d] = NoDraw
    /\ routine' = UnboundAll
    /\ NewCache(n)
    /\ UNCHANGED <<app, draw>>

\* With "update" FALSE the routine pointer is uninitialised: whatever the stack holds.
LookUpNothing(s) ==
    /\ \E r \in Routine : app' = [pc |-> "bind", runs |-> r, for |-> s]
    /\ UNCHANGED <<cache, routine, draw>>

\* The state is updated and a routine found or generated for it.
lookUp(s) ==
    /\ app.pc = "ready"
    /\ \E update \in {TRUE, ~Instancing} :
          IF update THEN QueryMiss(s) \/ \E i \in Searched : QueryHit(s, i)
                    ELSE LookUpNothing(s)

\* When there is a free DrawCall object, the routine is bound and entered into it.
submit(d) ==
    /\ app.pc = "bind" /\ draw[d] = NoDraw
    /\ routine' = Bound(routine, app.runs)
    /\ draw' = [draw EXCEPT ![d] = [runs |-> app.runs, for |-> app.for]]
    /\ app' = Ready
    /\ UNCHANGED cache

\* A worker retires the draw call.
retire(d) ==
    /\ draw[d] # NoDraw
    /\ routine' = Unbound(routine, draw[d].runs)
    /\ draw' = [draw EXCEPT ![d] = NoDraw]
    /\ UNCHANGED <<cache, app>>

Next ==
    \/ \E n \in CacheSize : updateConfiguration(n)
    \/ \E s \in State : lookUp(s)
    \/ \E d \in DrawCall : submit(d) \/ retire(d)

Spec == Init /\ [][Next]_vars
-----------------------------------------------------------------------------
(* Whatever is replaced in the cache, moved in it or freed meanwhile, the code *)
(* that a draw call in flight executes exists and was generated for the state *)
(* the draw call was submitted in; so was the code of the one being submitted. *)
DrawRunsItsRoutine ==
    \A use \in {draw[d] : d \in DrawCall} \cup {app} :
        use.runs # NONE => /\ routine[use.runs].alive
                           /\ routine[use.runs].for = use.for

(* A routine is bound once for its place in the cache and once for each draw  *)
(* call in flight, and it is freed with the last of these: neither leaked by   *)
(* the replacement of an entry or of the whole cache, nor freed twice.        *)
BindingsExact ==
    \A r \in Routine :
        LET bindings == Cardinality({i \in 0 .. size - 1 : data[i] = r})
                          + Cardinality({d \in DrawCall : draw[d].runs = r})
        IN  /\ routine[r].bindCount = bindings
            /\ routine[r].alive <=> bindings > 0

\* The places of the cache, from the top down.
Listed == [n \in 1 .. fill |-> KeyAt(top - n + 1)]

Abstract == INSTANCE RecentStates WITH list <- Listed, Capacity <- {ceilPow2(n) : n \in CacheSize}

(* The ring of places with its permuted keys is a list of distinct states of  *)
(* which the last is replaced: no entry is lost, duplicated or found under     *)
(* another state while entries move and the ring wraps around.                *)
ImplementsRecentStates == Abstract!RSSpec
=============================================================================
