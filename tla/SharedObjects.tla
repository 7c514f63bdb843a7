---------------------------- MODULE SharedObjects ----------------------------
(***************************************************************************)
(* Names and lifetimes of the buffer objects that OpenGL ES contexts share *)
(* (OpenGL/common/Object.cpp and NameSpace.cpp, libGLESv2/ResourceManager  *)
(* and libGLESv2/Context under src/src): name allocation, the map from     *)
(* names to objects, the binding points of every context, and the          *)
(* reference counts that keep an object alive after its name was deleted.  *)
(*                                                                         *)
(* A call is one step, with the releases of the objects it lets go of as   *)
(* steps after it: Object::release() decrements the count and then reads   *)
(* it again.  Contexts may be current to different threads, and nothing    *)
(* locks around a call.                                                    *)
(***************************************************************************)
EXTENDS Integers, Sequences, FiniteSets, SequencesExt

CONSTANTS
    Context,       \* contexts that share their objects
    Point,         \* binding points of a context
    Detached,      \* those detachBuffer() looks at
    MaxName,       \* bound: names
    MaxObject,     \* bound: objects that are created
    Concurrent,    \* contexts are used by several threads at a time
    Reserved,      \* clients only bind names that were generated
    NONE

ASSUME PointAssumption == Detached \subseteq Point
ASSUME BoundAssumption == MaxName \in Nat \ {0} /\ MaxObject \in Nat \ {0}
ASSUME ClientAssumption == Concurrent \in BOOLEAN /\ Reserved \in BOOLEAN
ASSUME FiniteAssumption == IsFiniteSet(Context) /\ IsFiniteSet(Point)
ASSUME NoneAssumption == NONE \notin 1 .. MaxObject

Name == 1 .. MaxName
Object == 1 .. MaxObject
Unused == 0                \* the map has the name, but no object yet

VARIABLES
    nextValue,     \* the name space: names never allocated,
    freeValues,    \* and a stack of names given back
    bufferMap,     \* from names to objects
    name,          \* of every object that was created
    referenceCount,
    deletions,     \* how often "delete this" ran for an object
    binding,       \* per context and binding point
    destroyed,     \* contexts that were destroyed
    toRelease,     \* per context: objects its call has still to release()
    testing        \* per context: the object it has decremented, not tested

nameVars == <<nextValue, freeValues, bufferMap>>
callVars == <<toRelease, testing>>
vars == <<nameVars, name, referenceCount, deletions, binding, destroyed, callVars>>

Init ==
    /\ nextValue = 1 /\ freeValues = <<>>
    /\ bufferMap = <<>>
    /\ name = <<>>
    /\ referenceCount = [o \in Object |-> 0]
    /\ deletions = [o \in Object |-> 0]
    /\ binding = [c \in Context |-> [p \in Point |-> NONE]]
    /\ destroyed = {}
    /\ toRelease = [c \in Context |-> <<>>]
    /\ testing = [c \in Context |-> NONE]

Inside(c) == toRelease[c] # <<>> \/ testing[c] # NONE

\* Context c may start a call.
MayCall(c) ==
    /\ c \notin destroyed
    /\ ~Inside(c)
    /\ Concurrent \/ \A d \in Context : ~Inside(d)

\* The object a name stands for, if any.
getBuffer(n) == IF n \in DOMAIN bufferMap /\ bufferMap[n] # Unused
                THEN bufferMap[n] ELSE NONE
-----------------------------------------------------------------------------
(* Names.                                                                   *)

\* allocate()
Allocate(n) ==
    IF freeValues # <<>>
    THEN n = Last(freeValues) /\ freeValues' = Front(freeValues) /\ UNCHANGED nextValue
    ELSE n = nextValue /\ nextValue' = nextValue + 1 /\ UNCHANGED freeValues

ReleaseNameTwice(n) ==              \* mutated: else is missing
    /\ nextValue' = IF n = nextValue - 1 THEN nextValue - 1 ELSE nextValue
    /\ freeValues' = Append(freeValues, n)

\* release(handle)
ReleaseName(n) ==
    IF n = nextValue - 1
    THEN nextValue' = nextValue - 1 /\ UNCHANGED freeValues
    ELSE freeValues' = Append(freeValues, n) /\ UNCHANGED nextValue

\* glGenBuffers: a name, without an object.
createBuffer(c) ==
    /\ MayCall(c)
    /\ \E n \in Name :
          /\ Allocate(n)
          /\ bufferMap' = [m \in DOMAIN bufferMap \cup {n} |->
                              IF m = n THEN Unused ELSE bufferMap[m]]
    /\ UNCHANGED <<name, referenceCount, deletions, binding, destroyed, callVars>>
-----------------------------------------------------------------------------
(* Objects.                                                                 *)

BindUnreferenced(c, p, o) ==        \* mutated: addRef() is missing
    /\ binding' = [binding EXCEPT ![c][p] = o]
    /\ toRelease' = [toRelease EXCEPT ![c] =
          IF binding[c][p] # NONE THEN <<binding[c][p]>> ELSE <<>>]
    /\ referenceCount' = IF o \in DOMAIN name THEN referenceCount
                         ELSE [referenceCount EXCEPT ![o] = @ + 1]

\* BindingPointer's assignment: the new object is referenced, then the old one
\* released.  A new object (o \notin DOMAIN name) has a reference from the map.
Bind(c, p, o) ==
    /\ binding' = [binding EXCEPT ![c][p] = o]
    /\ toRelease' = [toRelease EXCEPT ![c] =
          IF binding[c][p] # NONE THEN <<binding[c][p]>> ELSE <<>>]
    /\ referenceCount' = [referenceCount EXCEPT
                             ![o] = @ + (IF o \in DOMAIN name THEN 1 ELSE 2)]

\* glBindBuffer(target, n): the first use of a name creates its object.
bindBuffer(c, p, n) ==
    /\ MayCall(c)
    /\ n \in DOMAIN bufferMap \/ ~Reserved
    /\ IF getBuffer(n) # NONE
       THEN Bind(c, p, getBuffer(n)) /\ UNCHANGED <<name, bufferMap>>
       ELSE /\ Len(name) < MaxObject
            /\ Bind(c, p, Len(name) + 1)
            /\ name' = Append(name, n)
            /\ bufferMap' = [m \in DOMAIN bufferMap \cup {n} |->
                                IF m = n THEN Len(name) + 1 ELSE bufferMap[m]]
    /\ UNCHANGED <<nextValue, freeValues, deletions, destroyed, testing>>

\* glBindBuffer(target, 0)
unbindBuffer(c, p) ==
    /\ MayCall(c)
    /\ binding[c][p] # NONE
    /\ toRelease' = [toRelease EXCEPT ![c] = <<binding[c][p]>>]
    /\ binding' = [binding EXCEPT ![c][p] = NONE]
    /\ UNCHANGED <<nameVars, name, referenceCount, deletions, destroyed, testing>>

BoundAs(c, n) == {p \in Detached : binding[c][p] # NONE /\ name[binding[c][p]] = n}

detachNothing(c, n) == {}           \* mutated: detachBuffer() is not called

\* The binding points that glDeleteBuffers resets: those bound to an object of
\* that name, when the name has an object.
detachBuffer(c, n) == IF getBuffer(n) # NONE THEN BoundAs(c, n) ELSE {}

\* glDeleteBuffers(n)
deleteBuffer(c, n) ==
    /\ MayCall(c)
    /\ n \in DOMAIN bufferMap
    /\ LET points == detachBuffer(c, n)
       IN  /\ binding' = [binding EXCEPT ![c] =
                 [p \in Point |-> IF p \in points THEN NONE ELSE @[p]]]
           /\ toRelease' = [toRelease EXCEPT ![c] =
                 [i \in 1 .. Cardinality(points) |-> binding[c][SetToSeq(points)[i]]]
                 \o (IF getBuffer(n) # NONE THEN <<getBuffer(n)>> ELSE <<>>)]
    /\ ReleaseName(n)
    /\ bufferMap' = [m \in DOMAIN bufferMap \ {n} |-> bufferMap[m]]
    /\ UNCHANGED <<name, referenceCount, deletions, destroyed, testing>>

\* What ~ResourceManager releases, when its last context goes.
MapObjects == {bufferMap[n] : n \in {m \in DOMAIN bufferMap : bufferMap[m] # Unused}}

\* ~Context: every binding is released, and the last context takes the objects
\* that still have a name with it.
destroyContext(c) ==
    /\ MayCall(c)
    /\ LET points == {p \in Point : binding[c][p] # NONE}
           last == destroyed \cup {c} = Context
       IN  /\ toRelease' = [toRelease EXCEPT ![c] =
                 [i \in 1 .. Cardinality(points) |-> binding[c][SetToSeq(points)[i]]]
                 \o (IF last THEN SetToSeq(MapObjects) ELSE <<>>)]
           /\ bufferMap' = IF last THEN <<>> ELSE bufferMap
    /\ binding' = [binding EXCEPT ![c] = [p \in Point |-> NONE]]
    /\ destroyed' = destroyed \cup {c}
    /\ UNCHANGED <<nextValue, freeValues, name, referenceCount, deletions, testing>>

\* release(): the decrement ...
Decrement(c) ==
    /\ testing[c] = NONE /\ toRelease[c] # <<>>
    /\ testing' = [testing EXCEPT ![c] = Head(toRelease[c])]
    /\ toRelease' = [toRelease EXCEPT ![c] = Tail(@)]
    /\ referenceCount' = [referenceCount EXCEPT ![Head(toRelease[c])] =
                             IF @ > 0 THEN @ - 1 ELSE @]
    /\ UNCHANGED <<nameVars, name, deletions, binding, destroyed>>

TestEarly(c) ==                     \* mutated: <= 1 for == 0
    /\ testing[c] # NONE
    /\ deletions' = [deletions EXCEPT ![testing[c]] =
                        IF referenceCount[testing[c]] <= 1 THEN @ + 1 ELSE @]
    /\ testing' = [testing EXCEPT ![c] = NONE]
    /\ UNCHANGED <<nameVars, name, referenceCount, binding, destroyed, toRelease>>

\* ... and the test, which reads the count again.
Test(c) ==
    /\ testing[c] # NONE
    /\ deletions' = [deletions EXCEPT ![testing[c]] =
                        IF referenceCount[testing[c]] = 0 THEN @ + 1 ELSE @]
    /\ testing' = [testing EXCEPT ![c] = NONE]
    /\ UNCHANGED <<nameVars, name, referenceCount, binding, destroyed, toRelease>>

Done == destroyed = Context /\ (\A c \in Context : ~Inside(c)) /\ UNCHANGED vars

Next ==
    \/ \E c \in Context :
         \/ createBuffer(c)
         \/ \E p \in Point, n \in Name : bindBuffer(c, p, n)
         \/ \E p \in Point : unbindBuffer(c, p)
         \/ \E n \in Name : deleteBuffer(c, n)
         \/ destroyContext(c)
         \/ Decrement(c) \/ Test(c)
    \/ Done

Spec == Init /\ [][Next]_vars
-----------------------------------------------------------------------------
TypeOK ==
    /\ nextValue \in 1 .. MaxName + 1
    /\ freeValues \in Seq(Name)
    /\ DOMAIN bufferMap \subseteq Name
    /\ \A n \in DOMAIN bufferMap : bufferMap[n] \in Object \cup {Unused}
    /\ name \in Seq(Name) /\ Len(name) <= MaxObject
    /\ referenceCount \in [Object -> Nat]
    /\ deletions \in [Object -> Nat]
    /\ binding \in [Context -> [Point -> Object \cup {NONE}]]
    /\ destroyed \subseteq Context
    /\ toRelease \in [Context -> Seq(Object)]
    /\ testing \in [Context -> Object \cup {NONE}]

(* What refers to an object: its name, binding points, and calls that have  *)
(* taken a reference away and not yet released it.                          *)
References(o) ==
    Cardinality({n \in DOMAIN bufferMap : bufferMap[n] = o})
    + Cardinality({x \in Context \X Point : binding[x[1]][x[2]] = o})
    + Cardinality({x \in Context \X (1 .. MaxObject + Cardinality(Point)) :
                     x[2] <= Len(toRelease[x[1]]) /\ toRelease[x[1]][x[2]] = o})

(* The reference count of an object is the number of references to it.     *)
CountExact == \A o \in DOMAIN name : referenceCount[o] = References(o)

\* An object is deleted at most once, ...
DeletedOnce == \A o \in DOMAIN name : deletions[o] <= 1
\* ... never while it can be reached, ...
NeverDangling == \A o \in DOMAIN name : deletions[o] > 0 => References(o) = 0
\* ... and one that nothing refers to is deleted, or just about to be.
NeverLeaked ==
    \A o \in DOMAIN name :
        References(o) = 0 /\ (\A c \in Context : testing[c] # o) => deletions[o] > 0

(* Objects live as long as they are referred to: release() deletes them     *)
(* once, not too early, and in the end.                                     *)
LivesWhileReferenced ==
    /\ TypeOK
    /\ DeletedOnce
    /\ NeverDangling
    /\ NeverLeaked

(* A name that allocate() may return now or later stands for nothing yet,   *)
(* and it is returned once: no two objects ever share a name in the map.    *)
NamesUnused ==
    /\ \A n \in Name :
          n >= nextValue \/ Contains(freeValues, n) => n \notin DOMAIN bufferMap
    /\ IsInjective(freeValues)
    /\ \A i \in DOMAIN freeValues : freeValues[i] < nextValue

(* After glDeleteBuffers, none of the binding points that detachBuffer()    *)
(* looks at is bound to the deleted object.                                 *)
DeletedUnbound ==
    [][\A c \in Context, n \in Name : deleteBuffer(c, n) =>
          \A p \in Detached :
             binding'[c][p] # NONE => binding'[c][p] # getBuffer(n)]_vars
=============================================================================
