-------------------------- MODULE StreamingBuffers --------------------------
(***************************************************************************)
(* The buffers through which es2::Context streams vertices and indices     *)
(* that the client has in its own memory: StreamingVertexBuffer and the    *)
(* buffers for current attribute values in src/src/OpenGL/libGLESv2/       *)
(* VertexDataManager.cpp, StreamingIndexBuffer in IndexDataManager.cpp,    *)
(* and the draw calls in flight that read them.  A client's draw call      *)
(* appends its data; a buffer that is full is replaced.                    *)
(***************************************************************************)
EXTENDS ResourceClaims, FiniteSets, FiniteSetsExt, Functions

CONSTANTS
    Attribute,    \* vertex attributes, 1 .. n
    Resource,     \* resources, 1 .. n; a deleted one may be allocated again
    DrawCall,     \* draw calls that may be in flight, 1 .. n
    Sources,      \* where the attributes of a draw call come from: per attribute the
                  \* bytes of the client's array, or 0 for its current value
    IndexSize,    \* bytes of a client's index array
    InitialSize,  \* INITIAL_STREAM_BUFFER_SIZE and INITIAL_INDEX_BUFFER_SIZE
    UINT,         \* 2^32, at which sizes and positions wrap
    NONE

ASSUME AttributeAssumption == IsFiniteSet(Attribute) /\ Attribute = 1 .. Cardinality(Attribute)
ASSUME DrawCallAssumption == DrawCall \subseteq Nat /\ IsFiniteSet(DrawCall)
ASSUME ResourceAssumption == Resource \subseteq Nat /\ {1, 2} \subseteq Resource
ASSUME SizeAssumption == /\ Sources \subseteq [Attribute -> Nat]
                         /\ IndexSize \subseteq Nat \ {0}
                         /\ {InitialSize, UINT} \subseteq Nat \ {0}
ASSUME NoneAssumption == NONE \notin Resource

VARIABLES
    stream,       \* mStreamingBuffer of the vertex and the index data manager
    current,      \* per attribute, mCurrentValueBuffer, whether it holds the attribute's
                  \* current value, and mDirtyCurrentValue
    indexBuffer,  \* sw::Context::indexBuffer
    resource,     \* the sw::Resource of each buffer
    draw,         \* draw calls in flight
    call          \* the draw call that the client is making

vars == <<stream, current, indexBuffer, resource, draw, call>>

Index == 0             \* the index data, beside the attributes
Input == Attribute \cup {Index}
NoRange == [in |-> NONE, from |-> 0, size |-> 0, of |-> 0]
NoInputs == [i \in Input |-> NoRange]
NoDraw == [inputs |-> NoInputs, intact |-> TRUE]
Arrays == {a \in Attribute : call.sources[a] > 0}
NoCall == [pc |-> "none", sources |-> [a \in Attribute |-> 0], indices |-> 0, next |-> 1,
           inputs |-> NoInputs]

Freed == [NewResource EXCEPT !.freed = TRUE]

Init ==
    /\ stream = [vertex |-> [in |-> 1, bufferSize |-> InitialSize, writePosition |-> 0],
                 index  |-> [in |-> 2, bufferSize |-> InitialSize, writePosition |-> 0]]
    /\ current = [a \in Attribute |-> [in |-> NONE, holds |-> FALSE, dirty |-> TRUE]]
    /\ indexBuffer = NONE
    /\ resource = [r \in Resource |-> IF r \in {1, 2} THEN NewResource ELSE Freed]
    /\ draw = [d \in DrawCall |-> NoDraw]
    /\ call = NoCall
-----------------------------------------------------------------------------
(* Memory                                                                   *)

Plus(m, n) == (m + n) % UINT

\* The resource that new sw::Resource() returns.
Allocated(resources) == Min({r \in Resource : resources[r].freed})

HasMemory == \E r \in Resource : resource[r].freed

\* What is left of deleted resources does not matter.
Swept(resources) == [r \in Resource |-> IF resources[r].freed THEN Freed ELSE resources[r]]

Overlap(x, y) == /\ x.in = y.in
                 /\ x.from < y.from + y.size /\ y.from < x.from + x.size

\* Draw calls in flight whose input is written to, or deleted.
Disturbed(written, resources) ==
    [d \in DrawCall |->
        IF \E i \in Input : /\ draw[d].inputs[i].in # NONE
                            /\ \/ Overlap(draw[d].inputs[i], written)
                               \/ resources[draw[d].inputs[i].in].freed
        THEN [draw[d] EXCEPT !.intact = FALSE] ELSE draw[d]]
-----------------------------------------------------------------------------
(* reserveRequiredSpace() and reserveSpace()                                *)

Grown(kind, size) == IF kind = "vertex" THEN ((3 * size) % UINT) \div 2 ELSE (2 * size) % UINT

\* mutated: what is about to be written is not counted
FitsSoFar(s, required) == s.writePosition <= s.bufferSize

Fits(s, required) == Plus(s.writePosition, required) <= s.bufferSize

\* mutated: a full buffer is used again from its beginning
Rewound(kind, size) == [stream |-> [stream[kind] EXCEPT !.writePosition = 0],
                        resource |-> resource]

\* mutated: the old buffer is not destructed
ReplacedOnly(kind, size) ==
    LET r == Allocated(resource)
    IN  [stream |-> [in |-> r, bufferSize |-> size, writePosition |-> 0],
         resource |-> [resource EXCEPT ![r] = NewResource]]

Replaced(kind, size) ==
    LET left == Swept([resource EXCEPT ![stream[kind].in] = Destructed(@)])
        r == Allocated(left)
    IN  [stream |-> [in |-> r, bufferSize |-> size, writePosition |-> 0],
         resource |-> [left EXCEPT ![r] = NewResource]]

Reserved(kind, required) ==
    IF required > stream[kind].bufferSize
    THEN Replaced(kind, Max({required, Grown(kind, stream[kind].bufferSize)}))
    ELSE IF Fits(stream[kind], required)
         THEN [stream |-> stream[kind], resource |-> resource]
         ELSE Replaced(kind, stream[kind].bufferSize)

\* map(): the range at the write position, which moves behind it
Mapped(s, size) == [in |-> s.in, from |-> s.writePosition, size |-> size, of |-> s.bufferSize]
Advanced(s, size) == [s EXCEPT !.writePosition = Plus(@, size)]
-----------------------------------------------------------------------------
(* The client                                                               *)

setVertexAttrib(a) ==
    /\ call.pc = "none"
    /\ current' = [current EXCEPT ![a].holds = FALSE, ![a].dirty = TRUE]
    /\ UNCHANGED <<stream, indexBuffer, resource, draw, call>>

FirstStep(sources, indices) ==
    [NoCall EXCEPT !.pc = IF indices > 0 THEN "index" ELSE "reserve",
                   !.sources = sources, !.indices = indices]

\* drawArrays() has no indices.
drawElements(sources, indices) ==
    /\ call.pc = "none"
    /\ call' = FirstStep(sources, indices)
    /\ UNCHANGED <<stream, current, indexBuffer, resource, draw>>

\* prepareIndexData(): the space is reserved, and map() waits until no draw call in
\* flight reads the buffer.
applyIndexBuffer ==
    /\ call.pc = "index" /\ HasMemory
    /\ LET now == Reserved("index", call.indices)
           written == Mapped(now.stream, call.indices)
       IN  /\ Grants(now.resource[written.in], "PUBLIC")
           /\ resource' = [now.resource EXCEPT ![written.in] = Unlocked(Locked(@, "PUBLIC"))]
           /\ stream' = [stream EXCEPT !.index = Advanced(now.stream, call.indices)]
           /\ draw' = Disturbed(written, resource')
           /\ indexBuffer' = written.in
           /\ call' = [call EXCEPT !.pc = "reserve", !.inputs[Index] = written]
    /\ UNCHANGED <<current>>

\* prepareVertexData(): the space for all arrays is reserved ...
reserveRequiredSpace ==
    /\ call.pc = "reserve" /\ HasMemory
    /\ LET required == SumFunctionOnSet(call.sources, Arrays) % UINT
           now == Reserved("vertex", required)
       IN  /\ resource' = now.resource
           /\ stream' = [stream EXCEPT !.vertex = now.stream]
           /\ draw' = Disturbed(NoRange, resource')
    /\ call' = [call EXCEPT !.pc = "attributes", !.next = 1]
    /\ UNCHANGED <<current, indexBuffer>>

Prepared(range) == [call EXCEPT !.next = @ + 1, !.inputs[call.next] = range]

\* ... and then they are written one by one.  A private lock suffices, as the draw
\* calls in flight have one and read other bytes.
writeAttributeData ==
    /\ call.pc = "attributes" /\ call.next \in Arrays
    /\ LET size == call.sources[call.next]
           written == Mapped(stream.vertex, size)
       IN  /\ Grants(resource[written.in], "PRIVATE")
           /\ resource' = [resource EXCEPT ![written.in] = Unlocked(Locked(@, "PRIVATE"))]
           /\ stream' = [stream EXCEPT !.vertex = Advanced(@, size)]
           /\ draw' = Disturbed(written, resource')
           /\ call' = Prepared(written)
    /\ UNCHANGED <<current, indexBuffer>>

\* An attribute without an array has a buffer for its value, replaced when dirty.
useCurrentValue ==
    /\ call.pc = "attributes" /\ call.next \in Attribute \ Arrays /\ HasMemory
    /\ LET a == call.next
           left == IF current[a].in = NONE THEN resource
                   ELSE Swept([resource EXCEPT ![current[a].in] = Destructed(@)])
           r == Allocated(left)
           Whole(c) == [in |-> c, from |-> 0, size |-> 1, of |-> 1]
       IN  IF current[a].dirty
           THEN /\ resource' = [left EXCEPT ![r] = Unlocked(Locked(NewResource, "PUBLIC"))]
                /\ current' = [current EXCEPT ![a] = [in |-> r, holds |-> TRUE,
                                                      dirty |-> FALSE]]
                /\ draw' = Disturbed(NoRange, resource')
                /\ call' = Prepared(Whole(r))
           ELSE /\ call' = Prepared(Whole(current[a].in))
                /\ UNCHANGED <<current, resource, draw>>
    /\ UNCHANGED <<stream, indexBuffer>>

\* An array has no address, or samplers are invalid: the call ends with an error.
abandonCall ==
    /\ call.pc = "attributes" /\ call.next \notin Attribute \ Arrays
    /\ call' = NoCall
    /\ UNCHANGED <<stream, current, indexBuffer, resource, draw>>
-----------------------------------------------------------------------------
(* Renderer::draw() and finishRendering()                                   *)

Uses(inputs, r) == Cardinality({i \in Input : inputs[i].in = r})

\* lock(PUBLIC, PRIVATE), once for each input in the resource
Claimed(inputs) == [r \in Resource |->
    IF Uses(inputs, r) = 0 THEN resource[r]
    ELSE [Locked(Relinquished(resource[r], "PUBLIC"), "PRIVATE")
             EXCEPT !.count = @ + Uses(inputs, r) - 1]]

\* unlock(), as often
GivenBack(inputs) == [r \in Resource |->
    IF Uses(inputs, r) = 0 THEN resource[r]
    ELSE Unlocked([resource[r] EXCEPT !.count = @ - (Uses(inputs, r) - 1)])]

\* drawPrimitive() resets the index buffer, drawIndexedPrimitive() uses the one set.
Inputs == IF call.indices = 0 THEN call.inputs
          ELSE [call.inputs EXCEPT ![Index].in = indexBuffer]

\* There may be another instance, which streams everything again.
NextInstance == call' \in {NoCall, FirstStep(call.sources, call.indices)}

\* Draw calls in flight are alike, so the first that is free is taken.
NextDraw == Min({d \in DrawCall : draw[d] = NoDraw})

\* cullSkipsDraw()
skipDraw ==
    /\ call.pc = "attributes" /\ call.next \notin Attribute
    /\ NextInstance
    /\ UNCHANGED <<stream, current, indexBuffer, resource, draw>>

submit(d) ==
    /\ call.pc = "attributes" /\ call.next \notin Attribute
    /\ \E e \in DrawCall : draw[e] = NoDraw
    /\ d = NextDraw
    /\ \A r \in Resource : Uses(Inputs, r) > 0 =>
          Grants(Relinquished(resource[r], "PUBLIC"), "PRIVATE")
    /\ indexBuffer' = IF call.indices = 0 THEN NONE ELSE indexBuffer
    /\ resource' = Claimed(Inputs)
    /\ draw' = [draw EXCEPT ![d] =
          [inputs |-> Inputs,
           intact |-> /\ \A i \in Input : Inputs[i].in # NONE => ~resource[Inputs[i].in].freed
                      /\ \A a \in Attribute \ Arrays : current[a].holds]]
    /\ NextInstance
    /\ UNCHANGED <<stream, current>>

retire(d) ==
    /\ draw[d] # NoDraw
    /\ resource' = Swept(GivenBack(draw[d].inputs))
    /\ draw' = [draw EXCEPT ![d] = NoDraw]
    /\ UNCHANGED <<stream, current, indexBuffer, call>>

Next ==
    \/ \E a \in Attribute : setVertexAttrib(a)
    \/ \E sources \in Sources, indices \in IndexSize \cup {0} :
          drawElements(sources, indices)
    \/ applyIndexBuffer \/ reserveRequiredSpace \/ writeAttributeData
    \/ useCurrentValue \/ abandonCall \/ skipDraw
    \/ \E d \in DrawCall : submit(d) \/ retire(d)

Spec == Init /\ [][Next]_vars
-----------------------------------------------------------------------------
(* "We can use a private lock because we never overwrite the content"         *)
(* (VertexDataManager.cpp:295): the bytes that a draw call in flight reads    *)
(* are neither written nor freed while later draw calls stream their data,    *)
(* and what it reads of attributes without an array was current when it was   *)
(* submitted.                                                                 *)
StreamedInputsStable == \A d \in DrawCall : draw[d].intact

(* Every range that is written for a draw call lies within the size that the  *)
(* buffer was allocated with; the bytes allocated beyond it are not needed.   *)
RangesWithin ==
    \A d \in DrawCall : \A i \in Input :
        LET range == draw[d].inputs[i]
        IN  range.in # NONE => range.from + range.size <= range.of

(* Claims are those of draw calls in flight, and every resource that exists   *)
(* is in use by a stream, an attribute or a draw call.                        *)
ClaimsExact ==
    \A r \in Resource :
        LET readers == {d \in DrawCall : Uses(draw[d].inputs, r) > 0}
            owned == r \in {stream.vertex.in, stream.index.in} \cup
                             {current[a].in : a \in Attribute}
        IN  /\ ~resource[r].freed =>
                  resource[r].count = Cardinality({c \in DrawCall \X Input :
                                               draw[c[1]].inputs[c[2]].in = r})
            /\ ~resource[r].freed <=> owned \/ readers # {}
=============================================================================
