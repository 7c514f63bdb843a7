---------------------------- MODULE BufferObject ----------------------------
(***************************************************************************)
(* The contents of an OpenGL ES buffer object (es2::Buffer in              *)
(* src/src/OpenGL/libGLESv2/Buffer.cpp): the application specifies,        *)
(* updates, maps and unmaps them while draw calls that were submitted      *)
(* earlier (Renderer::draw) still read them on other threads.  Every new   *)
(* specification is a new sw::Resource; the old one is destructed, and     *)
(* lives until the draw calls that claim it have retired.                  *)
(***************************************************************************)
EXTENDS ResourceClaims, FiniteSets

CONSTANTS
    Content,          \* resources; a deleted one may be allocated again
    Slot,             \* draw calls that may be in flight at a time
    RespecifyMapped,  \* clients call glBufferData on a mapped buffer
    NONE

ASSUME SlotAssumption == IsFiniteSet(Slot)
ASSUME RespecifyAssumption == RespecifyMapped \in BOOLEAN
ASSUME NoneAssumption == NONE \notin Content

VARIABLES
    mContents,   \* the current contents
    mIsMapped,
    resource,    \* every resource
    pointer,     \* the resource the application may write through a pointer to
    draw,        \* per slot: the resource a draw call in flight reads, and
                 \* whether it is as it was when the draw call was submitted
    call         \* the call the application is in, which may have to wait

vars == <<mContents, mIsMapped, resource, pointer, draw, call>>

NoDraw == [content |-> NONE, intact |-> TRUE]
Freed == [NewResource EXCEPT !.freed = TRUE]

Init ==
    /\ mContents = NONE /\ mIsMapped = FALSE
    /\ resource = [c \in Content |-> Freed]
    /\ pointer = NONE
    /\ draw = [s \in Slot |-> NoDraw]
    /\ call = "none"

\* The bytes of content c are changed or given back.
Disturbed(c) == [s \in Slot |-> IF draw[s].content = c
                                THEN [draw[s] EXCEPT !.intact = FALSE] ELSE draw[s]]
-----------------------------------------------------------------------------
(* bufferData()                                                             *)

\* mutated: never destructed
DestructNowKeeping(c) == resource

DestructContents(c) == IF c = NONE THEN resource
                       ELSE [resource EXCEPT ![c] = Destructed(@)]

\* A resource is deleted: whoever still reads it reads freed memory.
Gone(before, after) ==
    [s \in Slot |-> IF /\ draw[s].content # NONE
                       /\ ~before[draw[s].content].freed /\ after[draw[s].content].freed
                    THEN [draw[s] EXCEPT !.intact = FALSE] ELSE draw[s]]

\* The old contents are destructed and new ones, of the given size, allocated.
\* The new data is copied without a lock: nobody else knows the new resource.
\* A mapping is not undone.
bufferData(size) ==
    /\ call = "none"
    /\ mIsMapped => RespecifyMapped
    /\ LET left == DestructContents(mContents)
       IN  /\ draw' = Gone(resource, left)
           /\ IF size > 0
              THEN \E c \in Content :
                     /\ left[c].freed /\ c # pointer
                     /\ \A s \in Slot : draw[s].content # c
                     /\ mContents' = c
                     /\ resource' = [left EXCEPT ![c] = NewResource]
              ELSE mContents' = NONE /\ resource' = left
    /\ UNCHANGED <<mIsMapped, pointer, call>>

-----------------------------------------------------------------------------
(* Calls that lock the contents.                                            *)

Begin(c) ==
    /\ call = "none"
    /\ mContents # NONE
    /\ call' = c
    /\ UNCHANGED <<mContents, mIsMapped, resource, pointer, draw>>

bufferSubDataUnlocked ==            \* mutated: the lock is missing
    /\ call = "bufferSubData"
    /\ draw' = Disturbed(mContents)
    /\ call' = "none"
    /\ UNCHANGED <<mContents, mIsMapped, resource, pointer>>

\* lock(PUBLIC), the copy, unlock()
bufferSubData ==
    /\ call = "bufferSubData"
    /\ Grants(resource[mContents], "PUBLIC")
    /\ resource' = [resource EXCEPT ![mContents] = Unlocked(Locked(@, "PUBLIC"))]
    /\ draw' = Disturbed(mContents)
    /\ call' = "none"
    /\ UNCHANGED <<mContents, mIsMapped, pointer>>

mapRange ==
    /\ call = "mapRange"
    /\ Grants(resource[mContents], "PUBLIC")
    /\ resource' = [resource EXCEPT ![mContents] = Locked(@, "PUBLIC")]
    /\ mIsMapped' = TRUE
    /\ pointer' = mContents
    /\ call' = "none"
    /\ UNCHANGED <<mContents, draw>>

\* The application writes through the pointer it was given.
WriteMapped ==
    /\ call = "none" /\ pointer # NONE
    /\ draw' = Disturbed(pointer)
    /\ UNCHANGED <<mContents, mIsMapped, resource, pointer, call>>

\* unmap() unlocks the current contents.
unmap ==
    /\ call = "none" /\ mIsMapped
    /\ resource' = IF mContents # NONE
                   THEN [resource EXCEPT ![mContents] = Unlocked(@)] ELSE resource
    /\ draw' = Gone(resource, resource')
    /\ mIsMapped' = FALSE /\ pointer' = NONE
    /\ UNCHANGED <<mContents, call>>

\* Renderer::draw(): vertexStream->lock(PUBLIC, PRIVATE)
drawBuffer ==
    /\ call = "draw"
    /\ LET r == Relinquished(resource[mContents], "PUBLIC")
       IN  /\ Grants(r, "PRIVATE")
           /\ resource' = [resource EXCEPT ![mContents] = Locked(r, "PRIVATE")]
    /\ \E s \in Slot :
          /\ draw[s] = NoDraw
          /\ draw' = [draw EXCEPT ![s] = [content |-> mContents, intact |-> TRUE]]
    /\ call' = "none"
    /\ UNCHANGED <<mContents, mIsMapped, pointer>>

\* ~Buffer: the object was deleted.  A mapped buffer may be deleted too.
deleteBuffer ==
    /\ call = "none"
    /\ mIsMapped => RespecifyMapped
    /\ resource' = DestructContents(mContents)
    /\ draw' = Gone(resource, resource')
    /\ mContents' = NONE /\ mIsMapped' = FALSE /\ pointer' = NONE
    /\ call' = "deleted"
-----------------------------------------------------------------------------
RetireStillLocked(s) ==             \* mutated: vertexStream->unlock() is missing
    /\ draw[s] # NoDraw
    /\ draw' = [draw EXCEPT ![s] = NoDraw]
    /\ UNCHANGED <<mContents, mIsMapped, resource, pointer, call>>

\* A draw call retires on a worker thread (Renderer::finishRendering).
Retire(s) ==
    /\ draw[s] # NoDraw
    /\ resource' = [resource EXCEPT ![draw[s].content] = Unlocked(@)]
    /\ draw' = [draw EXCEPT ![s] = NoDraw]
    /\ UNCHANGED <<mContents, mIsMapped, pointer, call>>

Call ==
    \/ \E size \in {0, 1} : bufferData(size)
    \/ Begin("bufferSubData") \/ (~mIsMapped /\ (Begin("mapRange") \/ Begin("draw")))
    \/ deleteBuffer

Return == bufferSubData \/ mapRange \/ drawBuffer

Done == call = "deleted" /\ (\A s \in Slot : draw[s] = NoDraw) /\ UNCHANGED vars

Next == Call \/ Return \/ WriteMapped \/ unmap \/ (\E s \in Slot : Retire(s)) \/ Done

Spec == Init /\ [][Next]_vars

(* Draw calls retire, a call that need not wait returns, and what is mapped *)
(* is unmapped some time.                                                   *)
Fairness == WF_vars(Return) /\ WF_vars(unmap) /\ \A s \in Slot : WF_vars(Retire(s))

FairSpec == Spec /\ Fairness
-----------------------------------------------------------------------------
(* A draw call in flight reads the contents as they were when it was        *)
(* submitted, whatever the application did since: not overwritten by an     *)
(* update or through a pointer, not deleted.                                *)
DrawInputsStable == \A s \in Slot : draw[s].intact

Readers(c) == {s \in Slot : draw[s].content = c}

(* The claims on a resource are those of the draw calls that read it and of *)
(* the mapping.                                                             *)
ClaimsExact ==
    \A c \in Content :
        resource[c].count = Cardinality(Readers(c)) + (IF pointer = c THEN 1 ELSE 0)

(* Contents that are not the buffer's any more are deleted in the end:      *)
(* destruct() is asynchronous, and none is forgotten.                       *)
EventuallyFreed ==
    \A c \in Content :
        (~resource[c].freed /\ c # mContents) ~> resource[c].freed

(* A call of the application returns.                                       *)
CallReturns == (call \in {"bufferSubData", "mapRange", "draw"}) ~> (call = "none")
=============================================================================
