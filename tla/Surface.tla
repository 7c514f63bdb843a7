------------------------------- MODULE Surface -------------------------------
(***************************************************************************)
(* A surface (sw::Surface in src/src/Renderer/Surface.cpp): an image that  *)
(* is kept twice, in the format of the application (external) and in the   *)
(* one the renderer works on (internal).  A lock converts the one that was *)
(* written into the other, when it is due.  The surface is the top level   *)
(* of a texture with mipmaps generated from it on demand, and a render     *)
(* target; draw calls in flight sample it and render to it on other        *)
(* threads, with the claims that Renderer::draw() made on its resource.    *)
(***************************************************************************)
EXTENDS ResourceClaims, FiniteSets

CONSTANTS
    Kind,          \* "identical": both formats are the same, "converted": not
    Memory,        \* whose the first external buffer is: "client", "surface"
    Slot,          \* draw calls that may be in flight at a time
    VertexRead,    \* vertex shaders sample what the draw call renders to
    MaxVersion     \* bound: changes of the contents

ASSUME KindAssumption ==
    /\ Kind \subseteq {"identical", "converted"}
    /\ Memory \subseteq {"client", "surface"}
ASSUME BoundAssumption == VertexRead \in BOOLEAN /\ MaxVersion \in Nat
ASSUME SlotAssumption == IsFiniteSet(Slot)

VARIABLES
    kind, owner,   \* of this surface, from Kind and from Memory
    external, internal,   \* the buffer of each, 0 before it has one; dirty
    memory,        \* the contents, a version, of each buffer
    latest,        \* the latest version
    dirtyMipmaps,
    mipmaps,       \* the version the mipmaps were generated from
    resource,      \* the claims on it
    pointer,       \* the application's mapping: what it maps and may write
    call,          \* the draw call the application submits
    draw,          \* the draw calls in flight
    deallocated    \* buffers; {0} is a destroyed surface that had none

contentVars == <<external, internal, memory, latest, dirtyMipmaps, mipmaps>>
vars == <<kind, owner, contentVars, resource, pointer, call, draw, deallocated>>

NotMapped == [side |-> "none", write |-> FALSE]
NoCall == [at |-> "none", pixel |-> FALSE, vertex |-> FALSE, target |-> FALSE]
NoDraw == [at |-> "free", textures |-> 0, target |-> FALSE]
destroyed == deallocated # {}

\* The two constructors: around the pixels of a client, or with none.
Init ==
    /\ kind \in Kind /\ owner \in Memory
    /\ external = [buffer |-> IF owner = "client" THEN 1 ELSE 0,
                   dirty |-> owner = "client"]
    /\ internal = [buffer |-> 0, dirty |-> FALSE]
    /\ memory = [b \in 1..2 |-> 0]
    /\ latest = 0
    /\ dirtyMipmaps = TRUE /\ mipmaps = 0
    /\ resource = NewResource
    /\ pointer = NotMapped
    /\ call = NoCall
    /\ draw = [s \in Slot |-> NoDraw]
    /\ deallocated = {}
-----------------------------------------------------------------------------
(* What locking does to the contents.                                       *)

\* The buffer of one side: that of the other one when their formats are
\* identical, or a new one.
BufferOf(side, other, new) ==
    IF side.buffer # 0 THEN side.buffer
    ELSE IF other.buffer # 0 /\ kind = "identical" THEN other.buffer ELSE new

\* update(destination, source)
update(destination, source) == [memory EXCEPT ![destination] = memory[source]]

\* A side that was written is converted unless the other one is discarded; a
\* discard leaves contents that nobody has seen before.
Contents(b, other, lock) ==
    CASE lock = "discard" -> [memory EXCEPT ![b] = latest + 1]
      [] lock # "discard" /\ other.dirty -> update(b, other.buffer)
      [] OTHER -> memory

Written(lock) == lock \in {"write", "discard"}

\* lockExternal(), after the lock
LockExternal(lock) ==
    LET b == BufferOf(external, internal, 1)
    IN  /\ external' = [buffer |-> b, dirty |-> external.dirty \/ Written(lock)]
        /\ internal' = [internal EXCEPT !.dirty = FALSE]
        /\ memory' = Contents(b, internal, lock)

LockInternalStillDirty(lock) ==     \* mutated: external.dirty = false is missing
    LET b == BufferOf(internal, external, 2)
    IN  /\ internal' = [buffer |-> b, dirty |-> internal.dirty \/ Written(lock)]
        /\ external' = external
        /\ memory' = Contents(b, external, lock)

\* lockInternal(), after the lock
LockInternal(lock) ==
    LET b == BufferOf(internal, external, 2)
    IN  /\ internal' = [buffer |-> b, dirty |-> internal.dirty \/ Written(lock)]
        /\ external' = [external EXCEPT !.dirty = FALSE]
        /\ memory' = Contents(b, external, lock)

\* Whether the mipmaps are to be generated again after a lock.
MarkMipmaps(lock) == dirtyMipmaps \/ Written(lock)
-----------------------------------------------------------------------------
(* The application reads and writes the surface.                            *)

Idle == call = NoCall /\ pointer = NotMapped /\ ~destroyed

Lock == {"read", "write", "discard"}
MayChange(lock) == lock = "discard" => latest < MaxVersion

\* lockExternal(lock, PUBLIC)
lockExternal(lock) ==
    /\ Idle /\ MayChange(lock)
    /\ Grants(resource, "PUBLIC")
    /\ resource' = Locked(resource, "PUBLIC")
    /\ LockExternal(lock)
    /\ dirtyMipmaps' = MarkMipmaps(lock)
    /\ latest' = IF lock = "discard" THEN latest + 1 ELSE latest
    /\ pointer' = [side |-> "external", write |-> Written(lock)]
    /\ UNCHANGED <<kind, owner, mipmaps, call, draw, deallocated>>

\* lockInternal(lock, PUBLIC)
lockInternal(lock) ==
    /\ Idle /\ MayChange(lock)
    /\ Grants(resource, "PUBLIC")
    /\ resource' = Locked(resource, "PUBLIC")
    /\ LockInternal(lock)
    /\ dirtyMipmaps' = MarkMipmaps(lock)
    /\ latest' = IF lock = "discard" THEN latest + 1 ELSE latest
    /\ pointer' = [side |-> "internal", write |-> Written(lock)]
    /\ UNCHANGED <<kind, owner, mipmaps, call, draw, deallocated>>

\* The contents of buffer b are changed.
Change(b) ==
    /\ latest < MaxVersion
    /\ latest' = latest + 1
    /\ memory' = [memory EXCEPT ![b] = latest + 1]

\* The application writes where it was given a pointer to.
WritePointer ==
    /\ pointer.write
    /\ Change(IF pointer.side = "external" THEN external.buffer ELSE internal.buffer)
    /\ UNCHANGED <<kind, owner, external, internal, dirtyMipmaps, mipmaps, resource,
                   pointer, call, draw, deallocated>>

\* unlockExternal(), unlockInternal()
unlock ==
    /\ pointer # NotMapped
    /\ resource' = Unlocked(resource)
    /\ pointer' = NotMapped
    /\ UNCHANGED <<kind, owner, contentVars, call, draw, deallocated>>

AlreadySynchronized == TRUE         \* mutated: lock(DESTRUCT) is missing

\* lock(DESTRUCT) gets past.
Synchronized == Grants(resource, "DESTRUCT")

\* ~Surface: waits for every claim, then gives the buffers back.
Destroy ==
    /\ Idle
    /\ Synchronized
    /\ resource' = Destructed(resource)
    /\ deallocated' = (IF owner = "surface" THEN {external.buffer} ELSE {})
                      \cup (IF internal.buffer # external.buffer
                            THEN {internal.buffer} ELSE {}) \cup {0}
    /\ UNCHANGED <<kind, owner, contentVars, pointer, call, draw>>
-----------------------------------------------------------------------------
(* A draw call is submitted: textures are applied, then Renderer::draw()    *)
(* makes its claims, one after the other.                                   *)

\* The draw call samples the surface in pixel shaders, in vertex shaders, or
\* renders to it, or several of these.
Begin(pixel, vertex, target) ==
    /\ Idle
    /\ pixel \/ vertex \/ target
    /\ vertex /\ target => VertexRead
    /\ \E s \in Slot : draw[s] = NoDraw
    /\ call' = [at |-> "apply", pixel |-> pixel, vertex |-> vertex, target |-> target]
    /\ UNCHANGED <<kind, owner, contentVars, resource, pointer, draw, deallocated>>

At(next) == call' = [call EXCEPT !.at = next]
Samples(c) == c.pixel \/ c.vertex

\* GenerateMipSubLevels() claims the resource for as long as it reads the
\* surface, or does nothing.
GenerateMipSubLevels ==
    /\ call.at = "apply" /\ Samples(call) /\ dirtyMipmaps
    /\ Grants(resource, "PUBLIC")
    /\ IF external.dirty /\ external.buffer # internal.buffer
       THEN LockExternal("read") /\ mipmaps' = memory'[external'.buffer]
       ELSE LockInternal("read") /\ mipmaps' = memory'[internal'.buffer]
    /\ dirtyMipmaps' = FALSE
    /\ resource' = Unlocked(Locked(resource, "PUBLIC"))
    /\ UNCHANGED <<kind, owner, latest, pointer, call, draw, deallocated>>

\* setTextureLevel(): lockInternal(LOCK_UNLOCKED) makes no claim.
setTextureLevel ==
    /\ call.at = "apply"
    /\ Samples(call) => ~dirtyMipmaps
    /\ IF Samples(call) THEN LockInternal("unlocked")
                        ELSE UNCHANGED <<external, internal, memory>>
    /\ At("texture")
    /\ UNCHANGED <<kind, owner, latest, dirtyMipmaps, mipmaps, resource, pointer, draw,
                   deallocated>>

\* texture->lock(PUBLIC, class)
Claim(class) ==
    LET r == Relinquished(resource, "PUBLIC")
    IN  Grants(r, class) /\ resource' = Locked(r, class)

LockTextureManaged ==               \* mutated: MANAGED for every texture
    /\ call.at = "texture"
    /\ IF call.pixel THEN Claim("MANAGED") ELSE UNCHANGED resource
    /\ At("vertexTexture")
    /\ UNCHANGED <<kind, owner, contentVars, pointer, draw, deallocated>>

\* A texture that the draw call renders to as well is claimed as a target.
LockTexture ==
    /\ call.at = "texture"
    /\ IF call.pixel THEN Claim(IF call.target THEN "MANAGED" ELSE "PRIVATE")
                     ELSE UNCHANGED resource
    /\ At("vertexTexture")
    /\ UNCHANGED <<kind, owner, contentVars, pointer, draw, deallocated>>

\* So much is not asked of a texture that vertex shaders sample.
LockVertexTexture ==
    /\ call.at = "vertexTexture"
    /\ IF call.vertex THEN Claim("PRIVATE") ELSE UNCHANGED resource
    /\ At("target")
    /\ UNCHANGED <<kind, owner, contentVars, pointer, draw, deallocated>>

\* lockInternal(LOCK_READWRITE, MANAGED), and the draw call goes to the workers.
LockTarget ==
    /\ call.at = "target"
    /\ IF call.target
       THEN /\ Grants(resource, "MANAGED")
            /\ resource' = Locked(resource, "MANAGED")
            /\ LockInternal("write")
            /\ dirtyMipmaps' = MarkMipmaps("write")
       ELSE UNCHANGED <<external, internal, memory, dirtyMipmaps, resource>>
    /\ \E s \in Slot :
          /\ draw[s] = NoDraw
          /\ draw' = [draw EXCEPT ![s] =
                [at |-> "flight", target |-> call.target,
                 textures |-> Cardinality({u \in {"pixel", "vertex"} : call[u]})]]
    /\ call' = NoCall
    /\ UNCHANGED <<kind, owner, latest, mipmaps, pointer, deallocated>>
-----------------------------------------------------------------------------
(* Workers: a draw call is rendered, and retired (finishRendering()).       *)

Render(s) ==
    /\ draw[s].at = "flight" /\ draw[s].target
    /\ Change(internal.buffer)
    /\ UNCHANGED <<kind, owner, external, internal, dirtyMipmaps, mipmaps, resource,
                   pointer, call, draw, deallocated>>

\* unlockInternal() gives the claim up ...
RetireTarget(s) ==
    /\ draw[s].at = "flight"
    /\ resource' = IF draw[s].target THEN Unlocked(resource) ELSE resource
    /\ draw' = [draw EXCEPT ![s].at = IF draw[s].target THEN "unlockRect" ELSE "textures"]
    /\ UNCHANGED <<kind, owner, contentVars, pointer, call, deallocated>>

\* ... and then internal.unlockRect() writes to the surface.
UnlockRect(s) ==
    /\ draw[s].at = "unlockRect"
    /\ draw' = [draw EXCEPT ![s].at = "textures"]
    /\ UNCHANGED <<kind, owner, contentVars, resource, pointer, call, deallocated>>

\* Textures are unlocked one by one.
RetireTexture(s) ==
    /\ draw[s].at = "textures"
    /\ IF draw[s].textures > 0
       THEN /\ resource' = Unlocked(resource)
            /\ draw' = [draw EXCEPT ![s].textures = @ - 1]
       ELSE draw' = [draw EXCEPT ![s] = NoDraw] /\ UNCHANGED resource
    /\ UNCHANGED <<kind, owner, contentVars, pointer, call, deallocated>>

App ==
    \/ \E lock \in Lock : lockExternal(lock) \/ lockInternal(lock)
    \/ WritePointer \/ Destroy
    \/ \E pixel, vertex, target \in BOOLEAN : Begin(pixel, vertex, target)
Submit == GenerateMipSubLevels \/ setTextureLevel \/ LockTexture \/ LockVertexTexture
          \/ LockTarget
Retire(s) == RetireTarget(s) \/ UnlockRect(s) \/ RetireTexture(s)

Done == destroyed /\ (\A s \in Slot : draw[s] = NoDraw) /\ UNCHANGED vars

Next == App \/ unlock \/ Submit \/ (\E s \in Slot : Render(s) \/ Retire(s)) \/ Done

Spec == Init /\ [][Next]_vars

(* A draw call that is being submitted goes on when it can, and draw calls  *)
(* in flight are retired.                                                   *)
FairSpec == Spec /\ WF_vars(Submit) /\ \A s \in Slot : WF_vars(Retire(s))
-----------------------------------------------------------------------------
(* No change of the contents is lost, whichever side it was made on, by     *)
(* whom, and whichever is locked next: the side that is marked dirty has    *)
(* the latest contents, and when none is, every buffer has.                 *)
Coherent ==
    /\ ~(external.dirty /\ internal.dirty)
    /\ external.buffer # 0 /\ ~internal.dirty => memory[external.buffer] = latest
    /\ internal.buffer # 0 /\ ~external.dirty => memory[internal.buffer] = latest

(* What a draw call in flight samples, the surface and its mipmaps, is the  *)
(* latest version of it, from the submission until it retires, unless it    *)
(* renders to the surface itself.                                           *)
SampledCurrent ==
    \A s \in Slot :
        draw[s].at = "flight" /\ draw[s].textures > 0 /\ ~draw[s].target =>
            memory[internal.buffer] = latest /\ mipmaps = latest

(* A surface is destroyed only when no draw call uses its buffers, and      *)
(* gives back the buffers it allocated, and only these: not the client's,   *)
(* which the other side may share.                                          *)
BuffersGivenBack ==
    destroyed =>
        /\ \A s \in Slot : draw[s].at # "flight"
        /\ deallocated \ {0} = {external.buffer, internal.buffer}
                               \ ({0} \cup IF owner = "client" THEN {1} ELSE {})

(* A worker that is about to write to the surface finds it there.           *)
SurfaceAlive == \A s \in Slot : draw[s].at = "unlockRect" => ~destroyed

(* A draw call that the application submits gets its claims.                *)
DrawReturns == (call.at # "none") ~> (call.at = "none")
=============================================================================
