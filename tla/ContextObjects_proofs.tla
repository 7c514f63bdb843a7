------------------------ MODULE ContextObjects_proofs ------------------------
(***************************************************************************)
(* Proofs about objects of OpenGL ES contexts.                             *)
(*                                                                         *)
(* SharedObjects, for any finite sets of contexts and binding points and   *)
(* any bounds: the name space never hands out a name in use,               *)
(* detachBuffer() finds every binding of the object that is deleted, the   *)
(* reference counts are exact, and objects live as long as they are        *)
(* referred to.                                                            *)
(*                                                                         *)
(* OcclusionQuery, for any queries, numbers of draw calls and clusters,    *)
(* and clients that wait for a result before they begin the query again or *)
(* delete it: references are those of the draw calls in flight, and a      *)
(* result is the sum of the samples that passed.                           *)
(***************************************************************************)
EXTENDS SharedObjects, OcclusionQuery, SequenceTheorems, FiniteSetTheorems,
        WellFoundedInduction, TLAPS

-----------------------------------------------------------------------------
(* Names and lifetimes                                                      *)

(* The name space is the complement of the map: the names of the map, those *)
(* on the stack and those never allocated exclude each other, and the stack *)
(* has no name twice.  Only so is the name that allocate() pops, or counts  *)
(* to, free, and the one that release() pushes, or counts back, not yet     *)
(* given back.                                                              *)
SpaceInv ==
    /\ nextValue \in Nat
    /\ freeValues \in Seq(Nat)
    /\ DOMAIN bufferMap \subseteq Nat
    /\ \A n \in DOMAIN bufferMap : n < nextValue
    /\ \A i \in 1 .. Len(freeValues) :
          freeValues[i] < nextValue /\ freeValues[i] \notin DOMAIN bufferMap
    /\ \A i, j \in 1 .. Len(freeValues) : freeValues[i] = freeValues[j] => i = j

(* The object a name stands for has that name, for ever.                    *)
NameInv ==
    /\ DOMAIN binding = Context
    /\ name \in Seq(Nat)
    /\ \A n \in DOMAIN bufferMap : bufferMap[n] # Unused =>
          bufferMap[n] \in 1 .. Len(name) /\ name[bufferMap[n]] = n
-----------------------------------------------------------------------------
(* The invariant of the name space.                                         *)

\* What popping leaves of the stack.
LEMMA Popped ==
    ASSUME NEW S, NEW s \in Seq(S), Len(s) > 0
    PROVE  /\ SubSeq(s, 1, Len(s) - 1) \in Seq(S)
           /\ Len(SubSeq(s, 1, Len(s) - 1)) = Len(s) - 1
           /\ \A i \in 1 .. Len(s) - 1 : SubSeq(s, 1, Len(s) - 1)[i] = s[i]
<1> DEFINE m == Len(s) - 1
<1>1. m \in Int /\ m >= 0 /\ 1 \in Int
  OBVIOUS
<1>2. \A i \in 1 .. m : s[i] \in S
  OBVIOUS
<1> HIDE DEF m
<1>3. /\ SubSeq(s, 1, m) \in Seq(S)
      /\ Len(SubSeq(s, 1, m)) = IF 1 <= m THEN m - 1 + 1 ELSE 0
      /\ \A i \in 1 .. m - 1 + 1 : SubSeq(s, 1, m)[i] = s[1 + i - 1]
  BY <1>1, <1>2, SubSeqProperties, SMT
<1>4. m - 1 + 1 = m
  BY <1>1
<1>5. Len(SubSeq(s, 1, m)) = m
  BY <1>1, <1>3, <1>4
<1>6. \A i \in 1 .. m : SubSeq(s, 1, m)[i] = s[i]
  <2>1. TAKE i \in 1 .. m
  <2>2. 1 + i - 1 = i
    BY <1>1
  <2> QED
    BY <1>3, <1>4, <2>2
<1> QED
  BY <1>3, <1>5, <1>6 DEF m

LEMMA SpaceInit == Init => SpaceInv
BY DEF Init, SpaceInv

\* allocate() pops the stack, or counts on.
LEMMA SpaceCreate ==
    ASSUME SpaceInv, NEW c \in Context, createBuffer(c)
    PROVE  SpaceInv'
<1>1. PICK n \in Name :
         /\ Allocate(n)
         /\ bufferMap' = [m \in DOMAIN bufferMap \cup {n} |->
                             IF m = n THEN Unused ELSE bufferMap[m]]
  BY DEF createBuffer
<1>2. n \in Nat /\ DOMAIN bufferMap' = DOMAIN bufferMap \cup {n}
  BY <1>1 DEF Name
<1>3. CASE freeValues # <<>>
  <2>1. /\ nextValue' = nextValue
        /\ n = freeValues[Len(freeValues)]
        /\ freeValues' = SubSeq(freeValues, 1, Len(freeValues) - 1)
    BY <1>1, <1>3 DEF Allocate, Last, Front
  <2>2. Len(freeValues) \in Nat /\ Len(freeValues) > 0
    BY <1>3 DEF SpaceInv
  <2>3. /\ freeValues' \in Seq(Nat)
        /\ Len(freeValues') = Len(freeValues) - 1
        /\ \A i \in 1 .. Len(freeValues') : freeValues'[i] = freeValues[i]
    BY <2>1, <2>2, Popped DEF SpaceInv
  <2>4. \A i \in 1 .. Len(freeValues') :
           i \in 1 .. Len(freeValues) /\ freeValues[i] # n
    BY <2>1, <2>2, <2>3 DEF SpaceInv
  <2>5. n < nextValue
    BY <2>1, <2>2 DEF SpaceInv
  <2>6. nextValue' \in Nat /\ DOMAIN bufferMap' \subseteq Nat
    BY <1>2, <2>1 DEF SpaceInv
  <2>7. \A m \in DOMAIN bufferMap' : m < nextValue'
    BY <1>2, <2>1, <2>5 DEF SpaceInv
  <2>8. \A i \in 1 .. Len(freeValues') :
           freeValues'[i] < nextValue' /\ freeValues'[i] \notin DOMAIN bufferMap'
    BY <1>2, <2>1, <2>3, <2>4 DEF SpaceInv
  <2>9. \A i, j \in 1 .. Len(freeValues') : freeValues'[i] = freeValues'[j] => i = j
    BY <2>3, <2>4 DEF SpaceInv
  <2> QED
    BY <2>3, <2>6, <2>7, <2>8, <2>9 DEF SpaceInv
<1>4. CASE freeValues = <<>>
  <2>1. n = nextValue /\ nextValue' = nextValue + 1 /\ freeValues' = <<>>
    BY <1>1, <1>4 DEF Allocate
  <2>2. nextValue' \in Nat /\ DOMAIN bufferMap' \subseteq Nat
    BY <1>2, <2>1 DEF SpaceInv
  <2>3. \A m \in DOMAIN bufferMap' : m < nextValue'
    BY <1>2, <2>1, <2>2 DEF SpaceInv
  <2>4. Len(freeValues') = 0 /\ freeValues' \in Seq(Nat)
    BY <2>1
  <2> QED
    BY <2>2, <2>3, <2>4 DEF SpaceInv
<1> QED BY <1>3, <1>4

\* release() counts back when the last name allocated is given back, and
\* pushes every other.
LEMMA SpaceDelete ==
    ASSUME SpaceInv, NEW c \in Context, NEW n \in Name, deleteBuffer(c, n)
    PROVE  SpaceInv'
<1>1. /\ n \in DOMAIN bufferMap
      /\ ReleaseName(n)
      /\ DOMAIN bufferMap' = DOMAIN bufferMap \ {n}
  BY DEF deleteBuffer
<1>2. /\ n \in Nat /\ n < nextValue
      /\ \A i \in 1 .. Len(freeValues) : freeValues[i] # n
  BY <1>1 DEF SpaceInv
<1>3. CASE n = nextValue - 1
  <2>1. nextValue' = nextValue - 1 /\ freeValues' = freeValues
    BY <1>1, <1>3 DEF ReleaseName
  <2>2. nextValue' \in Nat
    BY <1>2, <2>1 DEF SpaceInv
  <2>3. \A m \in DOMAIN bufferMap' : m < nextValue'
    BY <1>1, <1>2, <1>3, <2>1 DEF SpaceInv
  <2>4. \A i \in 1 .. Len(freeValues) : freeValues[i] < nextValue'
    <3>1. TAKE i \in 1 .. Len(freeValues)
    <3>2. freeValues[i] \in Nat /\ freeValues[i] < nextValue /\ freeValues[i] # n
      BY <1>2 DEF SpaceInv
    <3> QED
      BY <1>3, <2>1, <3>2 DEF SpaceInv
  <2> QED
    BY <1>1, <2>1, <2>2, <2>3, <2>4 DEF SpaceInv
<1>4. CASE n # nextValue - 1
  <2>1. nextValue' = nextValue /\ freeValues' = Append(freeValues, n)
    BY <1>1, <1>4 DEF ReleaseName
  <2>2. /\ freeValues' \in Seq(Nat)
        /\ Len(freeValues') = Len(freeValues) + 1
        /\ freeValues'[Len(freeValues) + 1] = n
        /\ \A i \in 1 .. Len(freeValues) : freeValues'[i] = freeValues[i]
    BY <1>2, <2>1 DEF SpaceInv
  <2>3. Len(freeValues) \in Nat
    BY DEF SpaceInv
  <2>4. \A i \in 1 .. Len(freeValues') :
           i \in 1 .. Len(freeValues) \/ i = Len(freeValues) + 1
    BY <2>2, <2>3
  <2>5. \A i \in 1 .. Len(freeValues') :
           freeValues'[i] < nextValue' /\ freeValues'[i] \notin DOMAIN bufferMap'
    BY <1>1, <1>2, <2>1, <2>2, <2>4 DEF SpaceInv
  <2>6. \A i, j \in 1 .. Len(freeValues') : freeValues'[i] = freeValues'[j] => i = j
    BY <1>2, <2>2, <2>4 DEF SpaceInv
  <2> QED
    BY <1>1, <2>1, <2>2, <2>5, <2>6 DEF SpaceInv
<1> QED BY <1>3, <1>4

\* The other steps leave the names alone, or take names away from the map.
LEMMA SpaceStep ==
    ASSUME Reserved = TRUE, SpaceInv, [Next]_vars
    PROVE  SpaceInv'
<1>1. CASE \E c \in Context : createBuffer(c)
  BY <1>1, SpaceCreate
<1>2. CASE \E c \in Context, n \in Name : deleteBuffer(c, n)
  BY <1>2, SpaceDelete
<1>3. CASE \E c \in Context, p \in Point, n \in Name : bindBuffer(c, p, n)
  <2>1. PICK c \in Context, p \in Point, n \in Name : bindBuffer(c, p, n)
    BY <1>3
  <2>2. /\ nextValue' = nextValue /\ freeValues' = freeValues
        /\ DOMAIN bufferMap' = DOMAIN bufferMap
    <3>1. n \in DOMAIN bufferMap
      BY <2>1 DEF bindBuffer
    <3>2. \/ bufferMap' = bufferMap
          \/ bufferMap' = [m \in DOMAIN bufferMap \cup {n} |->
                              IF m = n THEN Len(name) + 1 ELSE bufferMap[m]]
      BY <2>1 DEF bindBuffer
    <3>3. nextValue' = nextValue /\ freeValues' = freeValues
      BY <2>1 DEF bindBuffer
    <3> QED
      BY <3>1, <3>2, <3>3
  <2> QED
    BY <2>2 DEF SpaceInv
<1>4. CASE \E c \in Context : destroyContext(c)
  <2>1. /\ nextValue' = nextValue /\ freeValues' = freeValues
        /\ bufferMap' = bufferMap \/ bufferMap' = <<>>
    BY <1>4 DEF destroyContext
  <2>2. DOMAIN bufferMap' \subseteq DOMAIN bufferMap
    BY <2>1
  <2> QED
    BY <2>1, <2>2 DEF SpaceInv
<1>5. CASE UNCHANGED nameVars
  BY <1>5 DEF nameVars, SpaceInv
<1> QED
  BY <1>1, <1>2, <1>3, <1>4, <1>5
  DEF Next, vars, nameVars, unbindBuffer, Decrement, Test, Done

(* As long as clients bind only names that were generated, a name that      *)
(* NameSpace::allocate() (NameSpace.cpp) may return stands for nothing.     *)
THEOREM NamesFree ==
    ASSUME Reserved = TRUE
    PROVE  Spec => []NamesUnused
<1>1. Init => SpaceInv
  BY SpaceInit
<1>2. SpaceInv /\ [Next]_vars => SpaceInv'
  BY SpaceStep
<1>3. SpaceInv => NamesUnused
  <2> SUFFICES ASSUME SpaceInv PROVE NamesUnused
    OBVIOUS
  <2>1. \A n \in Name :
           n >= nextValue \/ Contains(freeValues, n) => n \notin DOMAIN bufferMap
    BY DEF SpaceInv, Contains, Name
  <2>2. DOMAIN freeValues = 1 .. Len(freeValues)
    BY DEF SpaceInv
  <2>3. IsInjective(freeValues)
    BY <2>2 DEF SpaceInv, IsInjective
  <2>4. \A i \in DOMAIN freeValues : freeValues[i] < nextValue
    BY <2>2 DEF SpaceInv
  <2> QED
    BY <2>1, <2>3, <2>4 DEF NamesUnused
<1> QED
  BY <1>1, <1>2, <1>3, PTL DEF Spec
-----------------------------------------------------------------------------
(* Names of objects.                                                        *)

LEMMA NamesInit == Init => NameInv
BY DEF Init, NameInv

\* An object is created under its name.
LEMMA NamesBind ==
    ASSUME NameInv, NEW c \in Context, NEW p \in Point, NEW n \in Name,
           bindBuffer(c, p, n)
    PROVE  NameInv'
<1>1. DOMAIN binding' = Context
  BY DEF bindBuffer, Bind, NameInv
<1>2. CASE name' = name /\ bufferMap' = bufferMap
  BY <1>1, <1>2 DEF NameInv
<1>3. CASE /\ name' = Append(name, n)
           /\ bufferMap' = [m \in DOMAIN bufferMap \cup {n} |->
                               IF m = n THEN Len(name) + 1 ELSE bufferMap[m]]
  <2>1. n \in Nat /\ Len(name) \in Nat
    BY DEF Name, NameInv
  <2>2. /\ name' \in Seq(Nat)
        /\ Len(name') = Len(name) + 1
        /\ name'[Len(name) + 1] = n
        /\ \A o \in 1 .. Len(name) : name'[o] = name[o]
    BY <1>3, <2>1 DEF NameInv
  <2>3. ASSUME NEW m \in DOMAIN bufferMap', bufferMap'[m] # Unused
        PROVE  bufferMap'[m] \in 1 .. Len(name') /\ name'[bufferMap'[m]] = m
    <3>1. CASE m = n
      <4>1. bufferMap'[m] = Len(name) + 1
        BY <1>3, <3>1
      <4> QED
        BY <2>1, <2>2, <3>1, <4>1
    <3>2. CASE m # n
      <4>1. m \in DOMAIN bufferMap /\ bufferMap'[m] = bufferMap[m]
        BY <1>3, <2>3, <3>2
      <4>2. bufferMap[m] \in 1 .. Len(name) /\ name[bufferMap[m]] = m
        BY <2>3, <4>1 DEF NameInv
      <4> QED
        BY <2>1, <2>2, <4>1, <4>2
    <3> QED BY <3>1, <3>2
  <2> QED
    BY <1>1, <2>2, <2>3 DEF NameInv
<1> QED
  BY <1>2, <1>3 DEF bindBuffer

LEMMA NamesStep ==
    ASSUME NameInv, [Next]_vars
    PROVE  NameInv'
<1>1. CASE \E c \in Context, p \in Point, n \in Name : bindBuffer(c, p, n)
  BY <1>1, NamesBind
<1>2. CASE \E c \in Context : createBuffer(c)
  <2>1. PICK n \in Name :
           bufferMap' = [m \in DOMAIN bufferMap \cup {n} |->
                            IF m = n THEN Unused ELSE bufferMap[m]]
    BY <1>2 DEF createBuffer
  <2>2. name' = name /\ binding' = binding
    BY <1>2 DEF createBuffer
  <2>3. \A m \in DOMAIN bufferMap' : bufferMap'[m] # Unused =>
           m \in DOMAIN bufferMap /\ bufferMap'[m] = bufferMap[m]
    BY <2>1
  <2> QED
    BY <2>2, <2>3 DEF NameInv
<1>3. CASE \E c \in Context, n \in Name : deleteBuffer(c, n)
  <2>1. PICK c \in Context, n \in Name : deleteBuffer(c, n)
    BY <1>3
  <2>2. bufferMap' = [m \in DOMAIN bufferMap \ {n} |-> bufferMap[m]]
    BY <2>1 DEF deleteBuffer
  <2>3. name' = name /\ DOMAIN binding' = DOMAIN binding
    BY <2>1 DEF deleteBuffer
  <2> QED
    BY <2>2, <2>3 DEF NameInv
<1>4. CASE \E c \in Context : destroyContext(c)
  <2>1. /\ name' = name /\ DOMAIN binding' = DOMAIN binding
        /\ bufferMap' = bufferMap \/ bufferMap' = <<>>
    BY <1>4 DEF destroyContext
  <2> QED
    BY <2>1 DEF NameInv
<1>5. CASE \E c \in Context, p \in Point : unbindBuffer(c, p)
  BY <1>5 DEF unbindBuffer, nameVars, NameInv
<1>6. CASE UNCHANGED <<bufferMap, name, binding>>
  BY <1>6 DEF NameInv
<1> QED
  BY <1>1, <1>2, <1>3, <1>4, <1>5, <1>6
  DEF Next, vars, nameVars, Decrement, Test, Done

(* The object that a name stands for carries that name in every reachable   *)
(* state, which is what detachBuffer() (Context.cpp) compares; the object   *)
(* that glDeleteBuffers takes its name from keeps none of the bindings that *)
(* detachBuffer() looks at.                                                 *)
THEOREM DeletedDetached == Spec => DeletedUnbound
<1>1. Init => NameInv
  BY NamesInit
<1>2. NameInv /\ [Next]_vars => NameInv'
  BY NamesStep
<1>3. ASSUME NameInv, NEW c \in Context, NEW n \in Name, deleteBuffer(c, n),
             NEW p \in Detached, binding'[c][p] # NONE
      PROVE  binding'[c][p] # getBuffer(n)
  <2> DEFINE points == detachBuffer(c, n)
  <2> SUFFICES ASSUME binding'[c][p] = getBuffer(n) PROVE FALSE
    OBVIOUS
  <2>1. p \in Point
    BY PointAssumption
  <2>2. binding'[c] = [q \in Point |-> IF q \in points THEN NONE ELSE binding[c][q]]
    BY <1>3 DEF deleteBuffer, NameInv
  <2>3. p \notin points /\ binding'[c][p] = binding[c][p]
    BY <1>3, <2>1, <2>2
  <2>4. getBuffer(n) # NONE
    BY <1>3
  <2>5. n \in DOMAIN bufferMap /\ bufferMap[n] # Unused /\ getBuffer(n) = bufferMap[n]
    BY <2>4 DEF getBuffer
  <2>6. name[binding[c][p]] = n
    BY <2>3, <2>5, <1>3 DEF NameInv
  <2>7. p \in BoundAs(c, n)
    BY <1>3, <2>3, <2>6 DEF BoundAs
  <2> QED
    BY <2>3, <2>4, <2>7 DEF detachBuffer
<1>4. NameInv /\ [Next]_vars =>
        [\A c \in Context, n \in Name : deleteBuffer(c, n) =>
            \A p \in Detached :
               binding'[c][p] # NONE => binding'[c][p] # getBuffer(n)]_vars
  BY <1>3
<1> QED
  BY <1>1, <1>2, <1>4, PTL DEF Spec, DeletedUnbound
-----------------------------------------------------------------------------
(* Counting references.                                                     *)

\* Where a sequence has an object, and how often.
Places(s, o) == {i \in 1 .. Len(s) : s[i] = o}
Copies(s, o) == Cardinality(Places(s, o))

\* The three sets that References() counts.
Naming(m, o) == {n \in DOMAIN m : m[n] = o}
Among(S, f, o) == {p \in S : f[p] = o}
At(f, o) == Among(Point, f, o)              \* the points of a context
Bound(b, o) == {x \in Context \X Point : b[x[1]][x[2]] = o}
Pending(r, o) == {x \in Context \X (1 .. MaxObject + Cardinality(Point)) :
                     x[2] <= Len(r[x[1]]) /\ r[x[1]][x[2]] = o}

\* A set of pairs has those of one row, and the others.
Row(S, T, a) == {t \in T : <<a, t>> \in S}
OtherRows(S, a) == {x \in S : x[1] # a}

LEMMA RowCount ==
    ASSUME NEW A, NEW T, NEW S, S \subseteq A \X T, IsFiniteSet(S), NEW a \in A
    PROVE  /\ Cardinality(OtherRows(S, a)) \in Nat
           /\ Cardinality(Row(S, T, a)) \in Nat
           /\ Cardinality(S) = Cardinality(OtherRows(S, a)) + Cardinality(Row(S, T, a))
<1> DEFINE C == {x \in S : x[1] = a}
           R == OtherRows(S, a)
           W == Row(S, T, a)
           f == [x \in C |-> x[2]]
<1> USE DEF Row, OtherRows
<1>1. C \in SUBSET S /\ R \in SUBSET S /\ R = S \ C /\ S \cap C = C
  OBVIOUS
<1>2. IsFiniteSet(C) /\ IsFiniteSet(R)
  BY <1>1, FS_Subset
<1>3. Cardinality(C) \in Nat /\ Cardinality(R) \in Nat /\ Cardinality(S) \in Nat
  BY <1>2, FS_CardinalityType
<1>4. Cardinality(R) = Cardinality(S) - Cardinality(C)
  <2>1. Cardinality(S \ C) = Cardinality(S) - Cardinality(S \cap C)
    BY FS_Difference
  <2> QED
    BY <1>1, <2>1
<1>5. f \in Bijection(C, W)
  <2>1. \A x \in C : x = <<a, x[2]>> /\ x[2] \in T
    OBVIOUS
  <2>2. f \in [C -> W]
    BY <2>1
  <2>3. \A x, y \in C : f[x] = f[y] => x = y
    BY <2>1
  <2>4. \A t \in W : \E x \in C : f[x] = t
    <3>1. TAKE t \in W
    <3>2. <<a, t>> \in C /\ f[<<a, t>>] = t
      OBVIOUS
    <3> QED BY <3>2
  <2> QED
    BY <2>2, <2>3, <2>4 DEF Bijection, Injection, Surjection, IsInjective
<1>6. Cardinality(W) = Cardinality(C)
  BY <1>2, <1>5, FS_Bijection DEF ExistsBijection
<1> QED
  BY <1>3, <1>4, <1>6

\* What changes at one context changes the bindings to an object by as much.
LEMMA BoundChange ==
    ASSUME NEW b, NEW b2, NEW c \in Context, NEW o,
           \A d \in Context \ {c} : b2[d] = b[d]
    PROVE  /\ Cardinality(Bound(b, o)) \in Nat
           /\ Cardinality(Bound(b2, o)) \in Nat
           /\ Cardinality(At(b[c], o)) \in Nat
           /\ Cardinality(At(b2[c], o)) \in Nat
           /\ Cardinality(Bound(b2, o)) + Cardinality(At(b[c], o))
              = Cardinality(Bound(b, o)) + Cardinality(At(b2[c], o))
<1>1. IsFiniteSet(Context \X Point)
  BY FiniteAssumption, FS_Product
<1>2. /\ Bound(b, o) \subseteq Context \X Point
      /\ Bound(b2, o) \subseteq Context \X Point
  BY DEF Bound
<1>3. IsFiniteSet(Bound(b, o)) /\ IsFiniteSet(Bound(b2, o))
  BY <1>1, <1>2, FS_Subset
<1>4. OtherRows(Bound(b, o), c) = OtherRows(Bound(b2, o), c)
  BY DEF Bound, OtherRows
<1>5. /\ Row(Bound(b, o), Point, c) = At(b[c], o)
      /\ Row(Bound(b2, o), Point, c) = At(b2[c], o)
  BY DEF Bound, Row, At, Among
<1>6. /\ Cardinality(OtherRows(Bound(b, o), c)) \in Nat
      /\ Cardinality(Row(Bound(b, o), Point, c)) \in Nat
      /\ Cardinality(Bound(b, o)) = Cardinality(OtherRows(Bound(b, o), c))
                                    + Cardinality(Row(Bound(b, o), Point, c))
  BY <1>2, <1>3, RowCount
<1>7. /\ Cardinality(Row(Bound(b2, o), Point, c)) \in Nat
      /\ Cardinality(Bound(b2, o)) = Cardinality(OtherRows(Bound(b2, o), c))
                                     + Cardinality(Row(Bound(b2, o), Point, c))
  BY <1>2, <1>3, RowCount
<1>8. Cardinality(Bound(b, o)) \in Nat /\ Cardinality(Bound(b2, o)) \in Nat
  BY <1>3, FS_CardinalityType
<1> QED
  BY <1>4, <1>5, <1>6, <1>7, <1>8

\* The same for what the calls have still to release.
LEMMA PendingChange ==
    ASSUME NEW r, NEW r2, NEW c \in Context, NEW o,
           \A d \in Context \ {c} : r2[d] = r[d],
           Len(r[c]) \in 0 .. MaxObject + Cardinality(Point),
           Len(r2[c]) \in 0 .. MaxObject + Cardinality(Point)
    PROVE  /\ Cardinality(Pending(r, o)) \in Nat
           /\ Cardinality(Pending(r2, o)) \in Nat
           /\ Copies(r[c], o) \in Nat
           /\ Copies(r2[c], o) \in Nat
           /\ Cardinality(Pending(r2, o)) + Copies(r[c], o)
              = Cardinality(Pending(r, o)) + Copies(r2[c], o)
<1> DEFINE K == MaxObject + Cardinality(Point)
           I == 1 .. K
<1>0. K \in Nat
  BY BoundAssumption, FiniteAssumption, FS_CardinalityType
<1> HIDE DEF K
<1>1. IsFiniteSet(Context \X I)
  <2>1. K \in Int /\ 1 \in Int
    BY <1>0
  <2>2. IsFiniteSet(I)
    BY ONLY <2>1, FS_Interval
  <2> QED
    BY <2>2, FiniteAssumption, FS_Product
<1>2. /\ Pending(r, o) \subseteq Context \X I
      /\ Pending(r2, o) \subseteq Context \X I
  BY DEF Pending, K
<1>3. IsFiniteSet(Pending(r, o)) /\ IsFiniteSet(Pending(r2, o))
  BY <1>1, <1>2, FS_Subset
<1>4. OtherRows(Pending(r, o), c) = OtherRows(Pending(r2, o), c)
  BY DEF Pending, OtherRows
<1>5. Row(Pending(r, o), I, c) = Places(r[c], o)
  BY <1>0 DEF Pending, Places, K, Row
<1>6. Row(Pending(r2, o), I, c) = Places(r2[c], o)
  BY <1>0 DEF Pending, Places, K, Row
<1> HIDE DEF I
<1>7. /\ Cardinality(OtherRows(Pending(r, o), c)) \in Nat
      /\ Cardinality(Row(Pending(r, o), I, c)) \in Nat
      /\ Cardinality(Pending(r, o)) = Cardinality(OtherRows(Pending(r, o), c))
                                      + Cardinality(Row(Pending(r, o), I, c))
  BY <1>2, <1>3, RowCount
<1>8. /\ Cardinality(Row(Pending(r2, o), I, c)) \in Nat
      /\ Cardinality(Pending(r2, o)) = Cardinality(OtherRows(Pending(r2, o), c))
                                       + Cardinality(Row(Pending(r2, o), I, c))
  BY <1>2, <1>3, RowCount
<1>9. Cardinality(Pending(r, o)) \in Nat /\ Cardinality(Pending(r2, o)) \in Nat
  BY <1>3, FS_CardinalityType
<1> QED
  BY <1>4, <1>5, <1>6, <1>7, <1>8, <1>9 DEF Copies

\* Copies in the sequences that calls build.
LEMMA PlacesFinite ==
    ASSUME NEW s \in Seq(Object), NEW o
    PROVE  IsFiniteSet(Places(s, o)) /\ Copies(s, o) \in Nat
<1>1. IsFiniteSet(1 .. Len(s))
  <2>1. Len(s) \in Int /\ 1 \in Int
    OBVIOUS
  <2> QED
    BY ONLY <2>1, FS_Interval
<1>2. Places(s, o) \in SUBSET (1 .. Len(s))
  BY DEF Places
<1> QED
  BY <1>1, <1>2, FS_Subset, FS_CardinalityType DEF Copies

LEMMA CopiesNone ==
    ASSUME NEW o
    PROVE  Copies(<<>>, o) = 0
<1>1. Places(<<>>, o) = {}
  BY DEF Places
<1> QED
  BY <1>1, FS_EmptySet DEF Copies

LEMMA CopiesOne ==
    ASSUME NEW x, NEW o
    PROVE  Copies(<<x>>, o) = IF x = o THEN 1 ELSE 0
<1>1. CASE x = o
  <2>1. Places(<<x>>, o) = {1}
    BY <1>1 DEF Places
  <2> QED
    BY <1>1, <2>1, FS_Singleton DEF Copies
<1>2. CASE x # o
  <2>1. Places(<<x>>, o) = {}
    BY <1>2 DEF Places
  <2> QED
    BY <1>2, <2>1, FS_EmptySet DEF Copies
<1> QED
  BY <1>1, <1>2

LEMMA CopiesConcat ==
    ASSUME NEW s \in Seq(Object), NEW t \in Seq(Object), NEW o
    PROVE  Copies(s \o t, o) = Copies(s, o) + Copies(t, o)
<1> DEFINE m == Len(s)
           n == Len(t)
           U == {i \in 1 .. m + n : i > m /\ t[i - m] = o}
           f == [i \in Places(t, o) |-> i + m]
<1>1. m \in Nat /\ n \in Nat
  OBVIOUS
<1>2. /\ Len(s \o t) = m + n
      /\ \A i \in 1 .. m + n : (s \o t)[i] = IF i <= m THEN s[i] ELSE t[i - m]
  OBVIOUS
<1> HIDE DEF m, n
<1>3. Places(s \o t, o) = Places(s, o) \cup U
  BY <1>1, <1>2 DEF Places, m, n
<1>4. Places(s, o) \cap U = {}
  BY <1>1 DEF Places, m
<1>5. f \in Bijection(Places(t, o), U)
  <2>1. \A i \in Places(t, o) : i \in Nat /\ i + m \in U /\ f[i] = i + m
    BY <1>1 DEF Places, n
  <2>2. f \in [Places(t, o) -> U]
    BY <2>1
  <2>3. \A i, j \in Places(t, o) : f[i] = f[j] => i = j
    BY <1>1, <2>1
  <2>4. \A k \in U : \E i \in Places(t, o) : f[i] = k
    <3>1. TAKE k \in U
    <3>2. k - m \in Places(t, o) /\ (k - m) + m = k
      BY <1>1 DEF Places, n
    <3> QED
      BY <3>2
  <2> QED
    BY <2>2, <2>3, <2>4 DEF Bijection, Injection, Surjection, IsInjective
<1>6. IsFiniteSet(U) /\ Cardinality(U) = Copies(t, o)
  BY <1>5, PlacesFinite, FS_Bijection DEF ExistsBijection, Copies
<1>7. /\ Cardinality(Places(s, o) \cup U)
         = Cardinality(Places(s, o)) + Cardinality(U) - Cardinality(Places(s, o) \cap U)
      /\ Cardinality(Places(s, o) \cap U) = 0
  BY <1>4, <1>6, PlacesFinite, FS_Union, FS_EmptySet
<1> QED
  BY <1>3, <1>6, <1>7, PlacesFinite DEF Copies

LEMMA CopiesTail ==
    ASSUME NEW s \in Seq(Object), s # <<>>, NEW o
    PROVE  Copies(s, o) = Copies(Tail(s), o) + (IF Head(s) = o THEN 1 ELSE 0)
<1>1. Head(s) \in Object /\ Tail(s) \in Seq(Object) /\ s = <<Head(s)>> \o Tail(s)
  OBVIOUS
<1>2. <<Head(s)>> \in Seq(Object)
  BY <1>1
<1>3. Copies(<<Head(s)>> \o Tail(s), o) = Copies(<<Head(s)>>, o) + Copies(Tail(s), o)
  BY <1>1, <1>2, CopiesConcat
<1>4. Copies(<<Head(s)>>, o) = IF Head(s) = o THEN 1 ELSE 0
  BY CopiesOne
<1>5. Copies(Tail(s), o) \in Nat
  BY <1>1, PlacesFinite
<1>6. Copies(s, o) = Copies(<<Head(s)>>, o) + Copies(Tail(s), o)
  BY <1>1, <1>3, Zenon
<1> QED
  BY ONLY <1>4, <1>5, <1>6

\* SetToSeq() lists a finite set, every element once.
LEMMA Listed ==
    ASSUME NEW S, IsFiniteSet(S)
    PROVE  /\ SetToSeq(S) \in Bijection(1 .. Cardinality(S), S)
           /\ Cardinality(S) \in Nat
<1> DEFINE n == Cardinality(S)
<1>1. n \in Nat /\ ExistsBijection(1 .. n, S)
  BY FS_CardinalityType
<1>2. PICK g \in Bijection(1 .. n, S) : TRUE
  BY <1>1 DEF ExistsBijection
<1>3. g \in [1 .. n -> S] /\ IsInjective(g)
  BY <1>2 DEF Bijection, Injection
<1>4. SetToSeq(S) \in [1 .. n -> S] /\ IsInjective(SetToSeq(S))
  BY <1>3 DEF SetToSeq
<1>5. SetToSeq(S) \in Injection(1 .. n, S)
  BY <1>4 DEF Injection
<1>6. Cardinality(1 .. n) = n
  <2>1. n \in Int /\ 1 \in Int /\ n >= 0
    BY <1>1
  <2>2. Cardinality(1 .. n) = IF 1 > n THEN 0 ELSE n - 1 + 1
    BY ONLY <2>1, FS_Interval
  <2> QED
    BY ONLY <2>1, <2>2
<1>7. SetToSeq(S) \in Surjection(1 .. n, S)
  BY <1>5, <1>6, FS_Injection
<1> QED
  BY <1>1, <1>5, <1>7 DEF Bijection

\* What a call lists to release: the objects at some binding points, each point
\* once, ...
Listing(f, S) == [i \in 1 .. Cardinality(S) |-> f[SetToSeq(S)[i]]]

LEMMA CopiesListed ==
    ASSUME NEW S, IsFiniteSet(S), NEW f, \A x \in S : f[x] \in Object, NEW o
    PROVE  /\ Listing(f, S) \in Seq(Object)
           /\ Len(Listing(f, S)) = Cardinality(S)
           /\ Copies(Listing(f, S), o) = Cardinality(Among(S, f, o))
<1> DEFINE n == Cardinality(S)
           q == SetToSeq(S)
           s == Listing(f, S)
           T == Among(S, f, o)
           g == [i \in Places(s, o) |-> q[i]]
<1>1. n \in Nat /\ q \in Bijection(1 .. n, S)
  BY Listed
<1>2. /\ \A i \in 1 .. n : q[i] \in S
      /\ \A i, j \in 1 .. n : q[i] = q[j] => i = j
      /\ \A x \in S : \E i \in 1 .. n : q[i] = x
  BY <1>1 DEF Bijection, Injection, Surjection, IsInjective
<1>0. s = [i \in 1 .. n |-> f[q[i]]]
  BY DEF Listing
<1> HIDE DEF n, q, s
<1>3. s \in Seq(Object) /\ Len(s) = n
  <2>1. s \in [1 .. n -> Object]
    BY <1>0, <1>2
  <2> QED
    BY <1>0, <1>1, <2>1
<1>4. \A i \in 1 .. n : s[i] = f[q[i]]
  BY <1>0
<1>5. g \in Bijection(Places(s, o), T)
  <2>1. \A i \in Places(s, o) : i \in 1 .. n /\ q[i] \in T
    BY <1>2, <1>3, <1>4 DEF Places, Among
  <2>2. g \in [Places(s, o) -> T]
    BY <2>1
  <2>3. \A i, j \in Places(s, o) : g[i] = g[j] => i = j
    BY <1>2, <2>1
  <2>4. \A x \in T : \E i \in Places(s, o) : g[i] = x
    <3>1. TAKE x \in T
    <3>2. PICK i \in 1 .. n : q[i] = x
      BY <1>2 DEF Among
    <3>3. i \in Places(s, o)
      BY <1>3, <1>4, <3>2 DEF Places, Among
    <3> QED
      BY <3>2, <3>3
  <2> QED
    BY <2>2, <2>3, <2>4 DEF Bijection, Injection, Surjection, IsInjective
<1>6. Copies(s, o) = Cardinality(T)
  BY <1>3, <1>5, PlacesFinite, FS_Bijection DEF ExistsBijection, Copies
<1> QED
  BY <1>3, <1>6 DEF s, n, q
-----------------------------------------------------------------------------
(* What the calls keep of the counts.                                       *)

Counts ==
    /\ \A o \in Object : referenceCount[o] = References(o)
    /\ \A c \in Context : Len(toRelease[c]) <= MaxObject + Cardinality(Point)
    /\ \A o \in Object : o > Len(name) => referenceCount[o] = 0

(* The inductive invariant of the reference counts.  The names of objects   *)
(* come in because the last context lists every object of the map once, and *)
(* the name space because allocate() must not take over a name of an object.*)
CountInv ==
    /\ TypeOK
    /\ SpaceInv
    /\ NameInv
    /\ Counts

LEMMA NamingFinite ==
    ASSUME NEW m, DOMAIN m \subseteq Name, NEW o
    PROVE  IsFiniteSet(Naming(m, o)) /\ Cardinality(Naming(m, o)) \in Nat
<1>1. IsFiniteSet(Name)
  <2>1. MaxName \in Int /\ 1 \in Int
    BY BoundAssumption
  <2>2. IsFiniteSet(1 .. MaxName)
    BY ONLY <2>1, FS_Interval
  <2> QED
    BY <2>2 DEF Name
<1>2. Naming(m, o) \in SUBSET Name
  BY DEF Naming
<1> QED
  BY <1>1, <1>2, FS_Subset, FS_CardinalityType

\* A map with a name more, or less.
With(m, n, v) == [k \in DOMAIN m \cup {n} |-> IF k = n THEN v ELSE m[k]]
Without(m, n) == [k \in DOMAIN m \ {n} |-> m[k]]

\* A name that stood for nothing before.
LEMMA NamingAdd ==
    ASSUME NEW m, DOMAIN m \subseteq Name, NEW n \in Name, NEW v, NEW o \in Object,
           n \in DOMAIN m => m[n] = Unused
    PROVE  Cardinality(Naming(With(m, n, v), o))
           = Cardinality(Naming(m, o)) + (IF v = o THEN 1 ELSE 0)
<1> DEFINE m2 == With(m, n, v)
<1>1. o # Unused
  BY DEF Object, Unused
<1>2. n \notin Naming(m, o)
  BY <1>1 DEF Naming
<1>3. Naming(m2, o) = IF v = o THEN Naming(m, o) \cup {n} ELSE Naming(m, o)
  BY <1>1 DEF Naming, With
<1>4. IsFiniteSet(Naming(m, o)) /\ Cardinality(Naming(m, o)) \in Nat
  BY NamingFinite
<1>5. Cardinality(Naming(m, o) \cup {n}) = Cardinality(Naming(m, o)) + 1
  BY <1>2, <1>4, FS_AddElement
<1> QED
  BY <1>3, <1>4, <1>5

LEMMA NamingRemove ==
    ASSUME NEW m, DOMAIN m \subseteq Name, NEW n \in DOMAIN m, NEW o \in Object
    PROVE  Cardinality(Naming(Without(m, n), o))
           = Cardinality(Naming(m, o)) - (IF m[n] = o THEN 1 ELSE 0)
<1> DEFINE m2 == Without(m, n)
<1>1. Naming(m2, o) = Naming(m, o) \ {n}
  BY DEF Naming, Without
<1>2. n \in Naming(m, o) <=> m[n] = o
  BY DEF Naming
<1>3. IsFiniteSet(Naming(m, o)) /\ Cardinality(Naming(m, o)) \in Nat
  BY NamingFinite
<1>4. Cardinality(Naming(m, o) \ {n}) =
         IF n \in Naming(m, o) THEN Cardinality(Naming(m, o)) - 1
                               ELSE Cardinality(Naming(m, o))
  BY <1>3, FS_RemoveElement
<1>5. CASE m[n] = o
  <2>1. n \in Naming(m, o)
    BY <1>2, <1>5
  <2> QED
    BY <1>1, <1>4, <1>5, <2>1
<1>6. CASE m[n] # o
  <2>1. n \notin Naming(m, o)
    BY <1>2, <1>6
  <2>2. Cardinality(Naming(m, o) \ {n}) = Cardinality(Naming(m, o))
    BY <1>4, <2>1
  <2> QED
    BY <1>1, <1>3, <1>6, <2>1, <2>2
<1> QED
  BY <1>5, <1>6

\* An object has one name in the map, or none.
LEMMA NamingOnce ==
    ASSUME NameInv, DOMAIN bufferMap \subseteq Name, NEW o \in Object
    PROVE  Cardinality(Naming(bufferMap, o)) = IF o \in MapObjects THEN 1 ELSE 0
<1>1. o # Unused
  BY DEF Object, Unused
<1>2. o \in MapObjects <=> Naming(bufferMap, o) # {}
  BY <1>1 DEF MapObjects, Naming
<1>3. \A n \in Naming(bufferMap, o) : n = name[o]
  BY <1>1 DEF NameInv, Naming
<1>4. CASE o \in MapObjects
  <2>1. Naming(bufferMap, o) = {name[o]}
    BY <1>2, <1>3, <1>4
  <2> QED
    BY <1>4, <2>1, FS_Singleton
<1>5. CASE o \notin MapObjects
  BY <1>2, <1>5, FS_EmptySet
<1> QED
  BY <1>4, <1>5

\* The points of a context that are bound to an object, when one point changes.
LEMMA PointSet ==
    ASSUME NEW f \in [Point -> Object \cup {NONE}], NEW p \in Point, NEW v, NEW o
    PROVE  Cardinality(At([f EXCEPT ![p] = v], o)) + (IF f[p] = o THEN 1 ELSE 0)
           = Cardinality(At(f, o)) + (IF v = o THEN 1 ELSE 0)
<1> DEFINE f2 == [f EXCEPT ![p] = v]
           R == {q \in Point : q # p /\ f[q] = o}
           F == At(f, o)
           F2 == At(f2, o)
<1>1. R \in SUBSET Point /\ p \notin R
  OBVIOUS
<1>2. IsFiniteSet(R)
  BY <1>1, FS_Subset, FiniteAssumption
<1>3. Cardinality(R) \in Nat /\ Cardinality(R \cup {p}) = Cardinality(R) + 1
  BY <1>1, <1>2, FS_AddElement, FS_CardinalityType
<1>4. F = IF f[p] = o THEN R \cup {p} ELSE R
  BY DEF At, Among
<1>5. F2 = IF v = o THEN R \cup {p} ELSE R
  BY DEF At, Among
<1> HIDE DEF R, F, F2
<1>6. Cardinality(F) = Cardinality(R) + (IF f[p] = o THEN 1 ELSE 0)
  BY <1>3, <1>4
<1>7. Cardinality(F2) = Cardinality(R) + (IF v = o THEN 1 ELSE 0)
  BY <1>3, <1>5
<1>8. Cardinality(F2) + (IF f[p] = o THEN 1 ELSE 0)
      = Cardinality(F) + (IF v = o THEN 1 ELSE 0)
  BY <1>3, <1>6, <1>7
<1> QED
  BY <1>8 DEF F, F2

\* References that come and go with a step of context c, which lists s to be
\* released.
LEMMA Balance ==
    ASSUME TypeOK, TypeOK', NEW c \in Context, NEW o,
           \A d \in Context \ {c} : binding'[d] = binding[d] /\ toRelease'[d] = toRelease[d],
           Len(toRelease[c]) <= MaxObject + Cardinality(Point),
           Len(toRelease'[c]) <= MaxObject + Cardinality(Point)
    PROVE  /\ Cardinality(Naming(bufferMap, o)) \in Nat
           /\ Cardinality(Naming(bufferMap', o)) \in Nat
           /\ Cardinality(At(binding[c], o)) \in Nat
           /\ Cardinality(At(binding'[c], o)) \in Nat
           /\ Copies(toRelease[c], o) \in Nat
           /\ Copies(toRelease'[c], o) \in Nat
           /\ References(o) \in Nat
           /\ References(o)' \in Nat
           /\ References(o)' + Cardinality(Naming(bufferMap, o))
                 + Cardinality(At(binding[c], o)) + Copies(toRelease[c], o)
              = References(o) + Cardinality(Naming(bufferMap', o))
                 + Cardinality(At(binding'[c], o)) + Copies(toRelease'[c], o)
<1> DEFINE N == Cardinality(Naming(bufferMap, o))
           N2 == Cardinality(Naming(bufferMap', o))
           B == Cardinality(Bound(binding, o))
           B2 == Cardinality(Bound(binding', o))
           P == Cardinality(Pending(toRelease, o))
           P2 == Cardinality(Pending(toRelease', o))
           b == Cardinality(At(binding[c], o))
           b2 == Cardinality(At(binding'[c], o))
           r == Copies(toRelease[c], o)
           r2 == Copies(toRelease'[c], o)
<1>1. References(o) = N + B + P
  BY DEF References, Naming, Bound, Pending
<1>2. References(o)' = N2 + B2 + P2
  BY DEF References, Naming, Bound, Pending
<1>3. N \in Nat /\ N2 \in Nat
  <2>1. DOMAIN bufferMap \subseteq Name /\ DOMAIN bufferMap' \subseteq Name
    BY DEF TypeOK
  <2> QED
    BY <2>1, NamingFinite
<1>4. B \in Nat /\ B2 \in Nat /\ b \in Nat /\ b2 \in Nat /\ B2 + b = B + b2
  <2>1. \A d \in Context \ {c} : binding'[d] = binding[d]
    OBVIOUS
  <2>2. /\ Cardinality(Bound(binding, o)) \in Nat
        /\ Cardinality(Bound(binding', o)) \in Nat
        /\ Cardinality(At(binding[c], o)) \in Nat
        /\ Cardinality(At(binding'[c], o)) \in Nat
        /\ Cardinality(Bound(binding', o)) + Cardinality(At(binding[c], o))
           = Cardinality(Bound(binding, o)) + Cardinality(At(binding'[c], o))
    BY <2>1, BoundChange
  <2> QED
    BY <2>2
<1>5. P \in Nat /\ P2 \in Nat /\ r \in Nat /\ r2 \in Nat /\ P2 + r = P + r2
  <2>1. Len(toRelease[c]) \in Nat /\ Len(toRelease'[c]) \in Nat
    BY DEF TypeOK
  <2>2. Cardinality(Point) \in Nat /\ MaxObject \in Nat
    BY FiniteAssumption, BoundAssumption, FS_CardinalityType
  <2>3. /\ Len(toRelease[c]) \in 0 .. MaxObject + Cardinality(Point)
        /\ Len(toRelease'[c]) \in 0 .. MaxObject + Cardinality(Point)
    BY <2>1, <2>2
  <2> QED
    BY <2>3, PendingChange
<1> HIDE DEF N, N2, B, B2, P, P2, b, b2, r, r2
<1>6. References(o) \in Nat /\ References(o)' \in Nat
  BY <1>1, <1>2, <1>3, <1>4, <1>5
<1>7. References(o)' + N + b + r = References(o) + N2 + b2 + r2
  BY <1>1, <1>2, <1>3, <1>4, <1>5
<1> QED
  BY <1>3, <1>4, <1>5, <1>6, <1>7 DEF N, N2, b, b2, r, r2
-----------------------------------------------------------------------------
(* Every step keeps the counts.                                             *)

LEMMA CountInit == Init => CountInv
<1> SUFFICES ASSUME Init PROVE CountInv
  OBVIOUS
<1>1. SpaceInv /\ NameInv
  BY SpaceInit, NamesInit
<1>2. TypeOK
  BY BoundAssumption DEF Init, TypeOK, Object, Name
<1>3. ASSUME NEW o \in Object
      PROVE  References(o) = 0
  <2>1. o # NONE
    BY NoneAssumption DEF Object
  <2>2. Naming(bufferMap, o) = {} /\ Bound(binding, o) = {} /\ Pending(toRelease, o) = {}
    BY <2>1 DEF Init, Naming, Bound, Pending
  <2>3. References(o) = Cardinality(Naming(bufferMap, o)) + Cardinality(Bound(binding, o))
                        + Cardinality(Pending(toRelease, o))
    BY DEF References, Naming, Bound, Pending
  <2> QED
    BY <2>2, <2>3, FS_EmptySet
<1>4. Cardinality(Point) \in Nat /\ MaxObject \in Nat
  BY FiniteAssumption, BoundAssumption, FS_CardinalityType
<1>5. \A c \in Context : Len(toRelease[c]) <= MaxObject + Cardinality(Point)
  BY <1>4 DEF Init
<1>6. \A o \in Object : referenceCount[o] = References(o)
  BY <1>3 DEF Init
<1>7. \A o \in Object : o > Len(name) => referenceCount[o] = 0
  BY DEF Init
<1> QED
  BY <1>1, <1>2, <1>5, <1>6, <1>7 DEF CountInv, Counts

\* A name that allocate() returns is not in the map.
LEMMA AllocatedFree ==
    ASSUME SpaceInv, NEW n \in Name, Allocate(n)
    PROVE  n \notin DOMAIN bufferMap
<1>1. CASE freeValues # <<>>
  <2>1. n = freeValues[Len(freeValues)] /\ Len(freeValues) \in 1 .. Len(freeValues)
    BY <1>1 DEF Allocate, Last, SpaceInv
  <2> QED
    BY <2>1 DEF SpaceInv
<1>2. CASE freeValues = <<>>
  BY <1>2 DEF Allocate, SpaceInv, Name
<1> QED BY <1>1, <1>2

LEMMA CountCreate ==
    ASSUME CountInv, NEW c \in Context, createBuffer(c)
    PROVE  TypeOK' /\ Counts'
<1>0. TypeOK /\ SpaceInv /\ NameInv /\ Counts
  BY DEF CountInv
<1>1. PICK n \in Name :
         /\ Allocate(n)
         /\ bufferMap' = [m \in DOMAIN bufferMap \cup {n} |->
                             IF m = n THEN Unused ELSE bufferMap[m]]
  BY DEF createBuffer
<1>2. /\ name' = name /\ referenceCount' = referenceCount /\ deletions' = deletions
      /\ binding' = binding /\ destroyed' = destroyed /\ toRelease' = toRelease
      /\ testing' = testing
  BY DEF createBuffer, callVars
<1>3. n \notin DOMAIN bufferMap
  BY <1>0, <1>1, AllocatedFree
<1>4. TypeOK'
  <2>1. nextValue' \in 1 .. MaxName + 1
    BY <1>0, <1>1, BoundAssumption DEF TypeOK, Allocate, Name
  <2>2. freeValues' \in Seq(Name)
    <3>1. CASE freeValues # <<>>
      <4>1. freeValues' = SubSeq(freeValues, 1, Len(freeValues) - 1)
        BY <1>1, <3>1 DEF Allocate, Front
      <4>2. freeValues \in Seq(Name) /\ Len(freeValues) > 0
        BY <1>0, <3>1 DEF TypeOK
      <4> QED
        BY <4>1, <4>2, Popped
    <3>2. CASE freeValues = <<>>
      BY <1>0, <1>1, <3>2 DEF Allocate, TypeOK
    <3> QED BY <3>1, <3>2
  <2>3. DOMAIN bufferMap' \subseteq Name
    BY <1>0, <1>1 DEF TypeOK
  <2>4. \A m \in DOMAIN bufferMap' : bufferMap'[m] \in Object \cup {Unused}
    BY <1>0, <1>1 DEF TypeOK
  <2> QED
    BY <1>0, <1>2, <2>1, <2>2, <2>3, <2>4 DEF TypeOK
<1>5. ASSUME NEW o \in Object
      PROVE  References(o)' = References(o)
  <2>1. o # Unused
    BY DEF Object, Unused
  <2>2. Cardinality(Naming(bufferMap', o)) = Cardinality(Naming(bufferMap, o))
                                             + (IF Unused = o THEN 1 ELSE 0)
    <3>1. DOMAIN bufferMap \subseteq Name
      BY <1>0 DEF TypeOK
    <3> QED
      BY <1>1, <1>3, <3>1, NamingAdd DEF With
  <2>3. /\ Cardinality(Naming(bufferMap, o)) \in Nat
        /\ Cardinality(At(binding[c], o)) \in Nat
        /\ Copies(toRelease[c], o) \in Nat
        /\ References(o) \in Nat
        /\ References(o)' \in Nat
        /\ References(o)' + Cardinality(Naming(bufferMap, o))
              + Cardinality(At(binding[c], o)) + Copies(toRelease[c], o)
           = References(o) + Cardinality(Naming(bufferMap', o))
              + Cardinality(At(binding[c], o)) + Copies(toRelease[c], o)
    BY <1>0, <1>2, <1>4, Balance DEF Counts
  <2> QED
    BY <2>1, <2>2, <2>3
<1>6. Counts'
  BY <1>0, <1>2, <1>5 DEF Counts
<1> QED
  BY <1>4, <1>6

\* A call starts with nothing to release.
LEMMA Called ==
    ASSUME CountInv, NEW c \in Context, MayCall(c)
    PROVE  toRelease[c] = <<>> /\ testing[c] = NONE
BY DEF MayCall, Inside

\* The old binding, if there is one, is left to be released.
Old(c, p) == IF binding[c][p] # NONE THEN <<binding[c][p]>> ELSE <<>>

LEMMA Rebound ==
    ASSUME TypeOK, NEW c \in Context, NEW p \in Point, NEW o \in Object
    PROVE  /\ Old(c, p) \in Seq(Object)
           /\ Len(Old(c, p)) <= MaxObject + Cardinality(Point)
           /\ Copies(Old(c, p), o) = IF binding[c][p] = o THEN 1 ELSE 0
<1> DEFINE s == Old(c, p)
<1>1. binding[c][p] \in Object \cup {NONE}
  BY DEF TypeOK
<1>2. Cardinality(Point) \in Nat /\ MaxObject \in Nat /\ MaxObject >= 1
  BY FiniteAssumption, BoundAssumption, FS_CardinalityType
<1>3. o # NONE
  BY NoneAssumption DEF Object
<1>4. CASE binding[c][p] # NONE
  <2>1. PICK x \in Object : x = binding[c][p]
    BY <1>1, <1>4
  <2>2. s = <<x>>
    BY <1>4, <2>1 DEF Old
  <2>3. <<x>> \in Seq(Object) /\ Len(<<x>>) = 1
    OBVIOUS
  <2>4. Copies(<<x>>, o) = IF x = o THEN 1 ELSE 0
    BY CopiesOne
  <2> QED
    BY <1>2, <2>1, <2>2, <2>3, <2>4
<1>5. CASE binding[c][p] = NONE
  <2>1. s = <<>>
    BY <1>5 DEF Old
  <2> QED
    BY <1>2, <1>3, <1>5, <2>1, CopiesNone
<1> QED BY <1>4, <1>5

\* BindingPointer's assignment is to an object of the map, or to a new one.
LEMMA BindObject ==
    ASSUME CountInv, NEW c \in Context, NEW p \in Point, NEW n \in Name,
           bindBuffer(c, p, n)
    PROVE  \E new \in Object, k \in {1, 2} :
             /\ binding' = [binding EXCEPT ![c][p] = new]
             /\ toRelease' = [toRelease EXCEPT ![c] = Old(c, p)]
             /\ referenceCount' = [referenceCount EXCEPT ![new] = @ + k]
             /\ \/ /\ k = 1 /\ new <= Len(name) /\ name' = name /\ bufferMap' = bufferMap
                   /\ new \in MapObjects
                \/ /\ k = 2 /\ new = Len(name) + 1 /\ name' = Append(name, n)
                   /\ n \in DOMAIN bufferMap => bufferMap[n] = Unused
                   /\ bufferMap' = With(bufferMap, n, new)
<1>0. TypeOK /\ NameInv
  BY DEF CountInv
<1>1. Len(name) \in Nat /\ DOMAIN name = 1 .. Len(name)
  BY <1>0 DEF TypeOK
<1>2. CASE getBuffer(n) # NONE
  <2>1. n \in DOMAIN bufferMap /\ bufferMap[n] # Unused /\ getBuffer(n) = bufferMap[n]
    BY <1>2 DEF getBuffer
  <2>2. getBuffer(n) \in Object /\ getBuffer(n) \in DOMAIN name /\ getBuffer(n) \in MapObjects
    BY <1>0, <1>1, <2>1 DEF NameInv, TypeOK, MapObjects
  <2>3. Bind(c, p, getBuffer(n)) /\ name' = name /\ bufferMap' = bufferMap
    BY <1>2 DEF bindBuffer
  <2>4. referenceCount' = [referenceCount EXCEPT ![getBuffer(n)] = @ + 1]
    BY <2>2, <2>3 DEF Bind
  <2>5. getBuffer(n) <= Len(name)
    BY <1>1, <2>2
  <2> QED
    BY <2>2, <2>3, <2>4, <2>5 DEF Bind, Old
<1>3. CASE getBuffer(n) = NONE
  <2>1. n \in DOMAIN bufferMap => bufferMap[n] = Unused
    BY <1>0, <1>3, NoneAssumption DEF getBuffer, TypeOK, Object
  <2>2. /\ Len(name) < MaxObject /\ Bind(c, p, Len(name) + 1)
        /\ name' = Append(name, n)
        /\ bufferMap' = With(bufferMap, n, Len(name) + 1)
    BY <1>3 DEF bindBuffer, With
  <2>3. Len(name) + 1 \in Object /\ Len(name) + 1 \notin DOMAIN name
    BY <1>1, <2>2, BoundAssumption DEF Object
  <2>4. referenceCount' = [referenceCount EXCEPT ![Len(name) + 1] = @ + 2]
    BY <2>2, <2>3 DEF Bind
  <2> QED
    BY <2>1, <2>2, <2>3, <2>4 DEF Bind, Old
<1> QED BY <1>2, <1>3

LEMMA CountBind ==
    ASSUME CountInv, NEW c \in Context, NEW p \in Point, NEW n \in Name,
           bindBuffer(c, p, n)
    PROVE  TypeOK' /\ Counts'
<1>0. TypeOK /\ SpaceInv /\ NameInv /\ Counts
  BY DEF CountInv
<1>1. toRelease[c] = <<>>
  BY Called DEF bindBuffer
<1> DEFINE old == binding[c][p]
           s == Old(c, p)
<1>2. PICK new \in Object, k \in {1, 2} :
         /\ binding' = [binding EXCEPT ![c][p] = new]
         /\ toRelease' = [toRelease EXCEPT ![c] = s]
         /\ referenceCount' = [referenceCount EXCEPT ![new] = @ + k]
         /\ \/ /\ k = 1 /\ new <= Len(name) /\ name' = name /\ bufferMap' = bufferMap
            \/ /\ k = 2 /\ new = Len(name) + 1 /\ name' = Append(name, n)
               /\ n \in DOMAIN bufferMap => bufferMap[n] = Unused
               /\ bufferMap' = With(bufferMap, n, new)
  BY BindObject
<1>3. /\ nextValue' = nextValue /\ freeValues' = freeValues /\ deletions' = deletions
      /\ destroyed' = destroyed /\ testing' = testing
  BY DEF bindBuffer
<1>4. s \in Seq(Object) /\ Len(s) <= MaxObject + Cardinality(Point)
  BY <1>0, <1>2, Rebound
<1> HIDE DEF s
<1>5. /\ binding[c] \in [Point -> Object \cup {NONE}]
      /\ binding'[c] = [binding[c] EXCEPT ![p] = new]
      /\ \A d \in Context \ {c} : binding'[d] = binding[d] /\ toRelease'[d] = toRelease[d]
      /\ toRelease'[c] = s
  BY <1>0, <1>2 DEF TypeOK
<1>6. \A o \in Object : referenceCount'[o] = referenceCount[o] + (IF o = new THEN k ELSE 0)
  BY <1>0, <1>2 DEF TypeOK
<1>7. TypeOK'
  <2>1. name' \in Seq(Name) /\ Len(name') <= MaxObject
    <3>1. name \in Seq(Name) /\ Len(name) <= MaxObject /\ new <= MaxObject
      BY <1>0, BoundAssumption DEF TypeOK, Object
    <3>2. Append(name, n) \in Seq(Name) /\ Len(Append(name, n)) = Len(name) + 1
      BY <3>1
    <3> QED
      BY <1>2, <3>1, <3>2
  <2>2. DOMAIN bufferMap' \subseteq Name
    BY <1>0, <1>2 DEF TypeOK, With
  <2>3. \A m \in DOMAIN bufferMap' : bufferMap'[m] \in Object \cup {Unused}
    <3>1. CASE bufferMap' = bufferMap
      BY <1>0, <3>1 DEF TypeOK
    <3>2. CASE bufferMap' = With(bufferMap, n, new)
      BY <1>0, <3>2 DEF TypeOK, With
    <3> QED BY <1>2, <3>1, <3>2
  <2>4. referenceCount' \in [Object -> Nat]
    BY <1>0, <1>2 DEF TypeOK
  <2>5. binding' \in [Context -> [Point -> Object \cup {NONE}]]
    BY <1>0, <1>2 DEF TypeOK
  <2>6. toRelease' \in [Context -> Seq(Object)]
    BY <1>0, <1>2, <1>4 DEF TypeOK
  <2> QED
    BY <1>0, <1>3, <2>1, <2>2, <2>3, <2>4, <2>5, <2>6 DEF TypeOK
<1>8. ASSUME NEW o \in Object
      PROVE  References(o)' = References(o) + (IF o = new THEN k ELSE 0)
  <2>1. Cardinality(Naming(bufferMap', o)) = Cardinality(Naming(bufferMap, o))
           + (IF o = new THEN k - 1 ELSE 0)
    <3>1. DOMAIN bufferMap \subseteq Name
      BY <1>0 DEF TypeOK
    <3>2. Cardinality(Naming(bufferMap, o)) \in Nat
      BY <3>1, NamingFinite
    <3>3. CASE k = 1
      BY <1>2, <3>2, <3>3
    <3>4. CASE k = 2
      <4>1. Cardinality(Naming(bufferMap', o)) = Cardinality(Naming(bufferMap, o))
               + (IF new = o THEN 1 ELSE 0)
        <5>1. bufferMap' = With(bufferMap, n, new)
          BY <1>2, <3>4
        <5>2. n \in DOMAIN bufferMap => bufferMap[n] = Unused
          BY <1>2, <3>4
        <5> QED
          BY <3>1, <5>1, <5>2, NamingAdd
      <4> QED
        BY <3>2, <3>4, <4>1
    <3> QED BY <3>3, <3>4
  <2>2. Cardinality(At(binding'[c], o)) + (IF old = o THEN 1 ELSE 0)
        = Cardinality(At(binding[c], o)) + (IF new = o THEN 1 ELSE 0)
    BY <1>5, PointSet
  <2>3. Copies(s, o) = IF old = o THEN 1 ELSE 0
    BY <1>0, Rebound DEF s
  <2>4. Copies(toRelease[c], o) = 0
    BY <1>1, CopiesNone
  <2>5. Len(toRelease[c]) <= MaxObject + Cardinality(Point)
    BY <1>0 DEF Counts
  <2>6. /\ Cardinality(Naming(bufferMap, o)) \in Nat
        /\ Cardinality(Naming(bufferMap', o)) \in Nat
        /\ Cardinality(At(binding[c], o)) \in Nat
        /\ Cardinality(At(binding'[c], o)) \in Nat
        /\ References(o) \in Nat
        /\ References(o)' \in Nat
        /\ References(o)' + Cardinality(Naming(bufferMap, o))
              + Cardinality(At(binding[c], o)) + Copies(toRelease[c], o)
           = References(o) + Cardinality(Naming(bufferMap', o))
              + Cardinality(At(binding'[c], o)) + Copies(s, o)
    BY <1>0, <1>4, <1>5, <1>7, <2>5, Balance
  <2> DEFINE i == IF old = o THEN 1 ELSE 0
  <2>7. i \in Nat
    OBVIOUS
  <2> HIDE DEF i
  <2>8. /\ Cardinality(At(binding'[c], o)) + i
           = Cardinality(At(binding[c], o)) + (IF new = o THEN 1 ELSE 0)
        /\ Copies(s, o) = i
    BY <2>2, <2>3 DEF i
  <2>9. CASE o = new
    BY <2>1, <2>4, <2>6, <2>7, <2>8, <2>9
  <2>10. CASE o # new
    BY <2>1, <2>4, <2>6, <2>7, <2>8, <2>10
  <2> QED BY <2>9, <2>10
<1>9. Counts'
  <2>1. \A o \in Object : referenceCount'[o] = References(o)'
    BY <1>0, <1>6, <1>8 DEF Counts
  <2>2. \A d \in Context : Len(toRelease'[d]) <= MaxObject + Cardinality(Point)
    BY <1>0, <1>4, <1>5 DEF Counts
  <2>3. \A o \in Object : o > Len(name') => referenceCount'[o] = 0
    <3>1. TAKE o \in Object
    <3>2. Len(name) \in Nat /\ o \in Nat /\ new \in Nat
      BY <1>0 DEF TypeOK, Object
    <3>3. Len(name') >= Len(name) /\ new <= Len(name')
      BY <1>0, <1>2, <3>2 DEF TypeOK
    <3> QED
      BY <1>0, <1>6, <3>2, <3>3 DEF Counts, TypeOK
  <2> QED
    BY <2>1, <2>2, <2>3 DEF Counts
<1> QED
  BY <1>7, <1>9

\* A step that leaves the counts and the objects alone, and only moves
\* references of one context to what its call has still to release.
LEMMA CountMove ==
    ASSUME CountInv, NEW c \in Context,
           toRelease[c] = <<>>,
           NEW s \in Seq(Object), Len(s) <= MaxObject + Cardinality(Point),
           toRelease' = [toRelease EXCEPT ![c] = s],
           NEW f \in [Point -> Object \cup {NONE}], binding' = [binding EXCEPT ![c] = f],
           DOMAIN bufferMap' \subseteq DOMAIN bufferMap,
           \A n \in DOMAIN bufferMap' : bufferMap'[n] = bufferMap[n],
           nextValue' \in 1 .. MaxName + 1, freeValues' \in Seq(Name),
           destroyed' \subseteq Context,
           UNCHANGED <<name, referenceCount, deletions, testing>>,
           \A o \in Object :
              Cardinality(Naming(bufferMap, o)) + Cardinality(At(binding[c], o))
              = Cardinality(Naming(bufferMap', o)) + Cardinality(At(f, o)) + Copies(s, o)
    PROVE  TypeOK' /\ Counts'
<1>0. TypeOK /\ Counts
  BY DEF CountInv
<1>1. TypeOK'
  <2>1. binding' \in [Context -> [Point -> Object \cup {NONE}]]
    BY <1>0 DEF TypeOK
  <2>2. toRelease' \in [Context -> Seq(Object)]
    BY <1>0 DEF TypeOK
  <2>3. /\ DOMAIN bufferMap' \subseteq Name
        /\ \A n \in DOMAIN bufferMap' : bufferMap'[n] \in Object \cup {Unused}
    BY <1>0 DEF TypeOK
  <2> QED
    BY <1>0, <2>1, <2>2, <2>3 DEF TypeOK
<1>2. /\ \A d \in Context \ {c} : binding'[d] = binding[d] /\ toRelease'[d] = toRelease[d]
      /\ binding'[c] = f /\ toRelease'[c] = s
  BY <1>0 DEF TypeOK
<1>3. ASSUME NEW o \in Object
      PROVE  References(o)' = References(o)
  <2>1. Copies(toRelease[c], o) = 0
    BY CopiesNone
  <2>2. Len(toRelease[c]) <= MaxObject + Cardinality(Point)
    BY <1>0 DEF Counts
  <2>3. /\ Cardinality(Naming(bufferMap, o)) \in Nat
        /\ Cardinality(Naming(bufferMap', o)) \in Nat
        /\ Cardinality(At(binding[c], o)) \in Nat
        /\ Cardinality(At(f, o)) \in Nat
        /\ Copies(s, o) \in Nat
        /\ References(o) \in Nat
        /\ References(o)' \in Nat
        /\ References(o)' + Cardinality(Naming(bufferMap, o))
              + Cardinality(At(binding[c], o)) + Copies(toRelease[c], o)
           = References(o) + Cardinality(Naming(bufferMap', o))
              + Cardinality(At(f, o)) + Copies(s, o)
    BY <1>0, <1>1, <1>2, <2>2, Balance
  <2>4. Cardinality(Naming(bufferMap, o)) + Cardinality(At(binding[c], o))
        = Cardinality(Naming(bufferMap', o)) + Cardinality(At(f, o)) + Copies(s, o)
    OBVIOUS
  <2> DEFINE n == Cardinality(Naming(bufferMap, o))
             n2 == Cardinality(Naming(bufferMap', o))
             b == Cardinality(At(binding[c], o))
             b2 == Cardinality(At(f, o))
             k == Copies(s, o)
             k0 == Copies(toRelease[c], o)
             x == References(o)
             x2 == References(o)'
  <2>5. /\ n \in Nat /\ n2 \in Nat /\ b \in Nat /\ b2 \in Nat
        /\ k \in Nat /\ x \in Nat /\ x2 \in Nat /\ k0 = 0
        /\ n + b = n2 + b2 + k
        /\ x2 + n + b + k0 = x + n2 + b2 + k
    BY <2>1, <2>3, <2>4, Zenon
  <2> HIDE DEF n, n2, b, b2, k, k0, x, x2
  <2>6. x2 = x
    BY <2>5
  <2> QED
    BY <2>6 DEF x, x2
<1>4. \A d \in Context : Len(toRelease'[d]) <= MaxObject + Cardinality(Point)
  BY <1>0, <1>2 DEF Counts
<1> QED
  BY <1>0, <1>1, <1>3, <1>4 DEF Counts

LEMMA CountUnbind ==
    ASSUME CountInv, NEW c \in Context, NEW p \in Point, unbindBuffer(c, p)
    PROVE  TypeOK' /\ Counts'
<1>0. TypeOK /\ Counts
  BY DEF CountInv
<1> DEFINE f == [binding[c] EXCEPT ![p] = NONE]
           s == Old(c, p)
<1>1. toRelease[c] = <<>>
  BY Called DEF unbindBuffer
<1>2. /\ toRelease' = [toRelease EXCEPT ![c] = s]
      /\ binding' = [binding EXCEPT ![c] = f]
      /\ UNCHANGED <<nameVars, name, referenceCount, deletions, destroyed, testing>>
  BY DEF unbindBuffer, Old
<1>3. binding[c] \in [Point -> Object \cup {NONE}] /\ f \in [Point -> Object \cup {NONE}]
  BY <1>0 DEF TypeOK
<1>4. 1 \in Object
  BY BoundAssumption DEF Object
<1>5. s \in Seq(Object) /\ Len(s) <= MaxObject + Cardinality(Point)
  BY <1>0, <1>4, Rebound
<1>6. ASSUME NEW o \in Object
      PROVE  Cardinality(Naming(bufferMap, o)) + Cardinality(At(binding[c], o))
             = Cardinality(Naming(bufferMap', o)) + Cardinality(At(f, o)) + Copies(s, o)
  <2>1. bufferMap' = bufferMap
    BY <1>2 DEF nameVars
  <2>2. Cardinality(Naming(bufferMap, o)) \in Nat
    BY <1>0, NamingFinite DEF TypeOK
  <2>3. /\ Cardinality(At(binding[c], o)) \in Nat
        /\ Cardinality(At(f, o)) \in Nat
    <3>1. \A g : At(g, o) \in SUBSET Point
      BY DEF At, Among
    <3> QED
      BY <3>1, FiniteAssumption, FS_Subset, FS_CardinalityType
  <2>4. Copies(s, o) = IF binding[c][p] = o THEN 1 ELSE 0
    BY <1>0, Rebound
  <2>5. Cardinality(At(f, o)) + (IF binding[c][p] = o THEN 1 ELSE 0)
        = Cardinality(At(binding[c], o)) + (IF NONE = o THEN 1 ELSE 0)
    BY <1>3, PointSet
  <2>6. NONE # o
    BY NoneAssumption DEF Object
  <2> DEFINE i == IF binding[c][p] = o THEN 1 ELSE 0
  <2>7. i \in Nat
    OBVIOUS
  <2> HIDE DEF i, s, f
  <2>8. Copies(s, o) = i /\ Cardinality(At(f, o)) + i = Cardinality(At(binding[c], o))
    BY <2>3, <2>4, <2>5, <2>6 DEF i
  <2> QED
    BY <2>1, <2>2, <2>3, <2>7, <2>8
<1> HIDE DEF f, s
<1>7. nextValue' \in 1 .. MaxName + 1 /\ freeValues' \in Seq(Name)
  BY <1>0, <1>2 DEF TypeOK, nameVars
<1>8. bufferMap' = bufferMap /\ destroyed' \subseteq Context
  BY <1>0, <1>2 DEF TypeOK, nameVars
<1> QED
  BY <1>1, <1>2, <1>3, <1>5, <1>6, <1>7, <1>8, CountMove

\* The points that a call lists to be released.
Reset(f, S) == [p \in Point |-> IF p \in S THEN NONE ELSE f[p]]

LEMMA Unbound ==
    ASSUME NEW f \in [Point -> Object \cup {NONE}], NEW S \in SUBSET Point,
           \A p \in S : f[p] # NONE,
           NEW o \in Object
    PROVE  /\ Listing(f, S) \in Seq(Object)
           /\ Len(Listing(f, S)) <= Cardinality(Point)
           /\ Copies(Listing(f, S), o) \in Nat
           /\ Cardinality(At(Reset(f, S), o)) \in Nat
           /\ Cardinality(At(f, o)) = Cardinality(At(Reset(f, S), o))
                                      + Copies(Listing(f, S), o)
<1> DEFINE g == Reset(f, S)
           s == Listing(f, S)
           T == Among(S, f, o)
<1>1. IsFiniteSet(S) /\ Cardinality(S) \in Nat /\ Cardinality(S) <= Cardinality(Point)
  BY FiniteAssumption, FS_Subset, FS_CardinalityType
<1>2. \A p \in S : f[p] \in Object
  OBVIOUS
<1>3. s \in Seq(Object) /\ Len(s) = Cardinality(S) /\ Copies(s, o) = Cardinality(T)
  BY <1>1, <1>2, CopiesListed
<1> HIDE DEF s
<1>4. o # NONE
  BY NoneAssumption DEF Object
<1>5. At(g, o) = At(f, o) \ T /\ At(f, o) \cap T = T
  BY <1>4 DEF At, Among, Reset
<1>6. IsFiniteSet(At(f, o)) /\ IsFiniteSet(At(g, o)) /\ IsFiniteSet(T)
  <2>1. At(f, o) \in SUBSET Point /\ At(g, o) \in SUBSET Point /\ T \in SUBSET Point
    BY DEF At, Among
  <2> QED
    BY <2>1, FiniteAssumption, FS_Subset
<1>7. Cardinality(At(f, o) \ T) = Cardinality(At(f, o)) - Cardinality(At(f, o) \cap T)
  BY <1>6, FS_Difference
<1>8. /\ Cardinality(At(f, o)) \in Nat /\ Cardinality(At(g, o)) \in Nat
      /\ Cardinality(T) \in Nat
  BY <1>6, FS_CardinalityType
<1> HIDE DEF g, T
<1>9. Cardinality(At(f, o)) = Cardinality(At(g, o)) + Copies(s, o)
  <2>1. Cardinality(At(g, o)) = Cardinality(At(f, o)) - Cardinality(T)
    BY <1>5, <1>7, Zenon
  <2> QED
    BY ONLY <1>3, <1>8, <2>1
<1>10. Copies(s, o) \in Nat
  BY <1>3, <1>8
<1> QED
  BY <1>1, <1>3, <1>8, <1>9, <1>10 DEF g, s

\* glDeleteBuffers releases the bindings it detaches and the reference of the
\* name.
LEMMA CountDelete ==
    ASSUME CountInv, NEW c \in Context, NEW n \in Name, deleteBuffer(c, n)
    PROVE  TypeOK' /\ Counts'
<1>0. TypeOK /\ Counts
  BY DEF CountInv
<1> DEFINE S == detachBuffer(c, n)
           b == binding[c]
           t == IF getBuffer(n) # NONE THEN <<getBuffer(n)>> ELSE <<>>
           s == Listing(b, S) \o t
<1>1. toRelease[c] = <<>>
  BY Called DEF deleteBuffer
<1>2. b \in [Point -> Object \cup {NONE}]
  BY <1>0 DEF TypeOK
<1>3. S \in SUBSET Point /\ \A p \in S : b[p] # NONE
  BY PointAssumption DEF detachBuffer, BoundAs
<1>4. toRelease' = [toRelease EXCEPT ![c] = s]
  BY DEF deleteBuffer, Listing
<1>5. binding' = [binding EXCEPT ![c] = Reset(b, S)]
  <2>1. binding' = [binding EXCEPT ![c] =
                       [p \in Point |-> IF p \in S THEN NONE ELSE b[p]]]
    BY <1>0 DEF deleteBuffer, TypeOK
  <2> QED
    BY <2>1 DEF Reset
<1>6. /\ n \in DOMAIN bufferMap
      /\ bufferMap' = Without(bufferMap, n)
      /\ ReleaseName(n)
      /\ UNCHANGED <<name, referenceCount, deletions, destroyed, testing>>
  BY DEF deleteBuffer, Without
<1>7. /\ t \in Seq(Object) /\ Len(t) <= 1
      /\ \A o \in Object : Copies(t, o) = IF bufferMap[n] = o THEN 1 ELSE 0
  <2>1. CASE getBuffer(n) # NONE
    <3>1. PICK x \in Object : x = bufferMap[n] /\ x = getBuffer(n)
      BY <1>0, <1>6, <2>1 DEF getBuffer, TypeOK
    <3>2. t = <<x>>
      BY <2>1, <3>1
    <3>3. <<x>> \in Seq(Object) /\ Len(<<x>>) = 1
      OBVIOUS
    <3>4. \A o \in Object : Copies(<<x>>, o) = IF bufferMap[n] = o THEN 1 ELSE 0
      BY <3>1, CopiesOne
    <3> QED
      BY <3>2, <3>3, <3>4
  <2>2. CASE getBuffer(n) = NONE
    <3>1. t = <<>>
      BY <2>2
    <3>2. \A o \in Object : bufferMap[n] # o
      BY <1>0, <1>6, <2>2, NoneAssumption DEF getBuffer, TypeOK, Object, Unused
    <3> QED
      BY <3>1, <3>2, CopiesNone
  <2> QED BY <2>1, <2>2
<1> HIDE DEF S, t, b
<1>8. Listing(b, S) \in Seq(Object) /\ Len(Listing(b, S)) <= Cardinality(Point)
  <2>1. 1 \in Object
    BY BoundAssumption DEF Object
  <2> QED
    BY <1>2, <1>3, <2>1, Unbound
<1>9. s \in Seq(Object) /\ Len(s) <= MaxObject + Cardinality(Point)
  <2>1. /\ s \in Seq(Object) /\ Len(s) = Len(Listing(b, S)) + Len(t)
        /\ Len(Listing(b, S)) \in Nat /\ Len(t) \in Nat
    BY <1>7, <1>8
  <2>2. Cardinality(Point) \in Nat /\ MaxObject \in Nat /\ MaxObject >= 1
    BY FiniteAssumption, BoundAssumption, FS_CardinalityType
  <2> QED
    BY <1>7, <1>8, <2>1, <2>2
<1>10. Reset(b, S) \in [Point -> Object \cup {NONE}]
  BY <1>2, <1>3 DEF Reset
<1>11. DOMAIN bufferMap \subseteq Name
  BY <1>0 DEF TypeOK
<1>12. ASSUME NEW o \in Object
       PROVE  Cardinality(Naming(bufferMap, o)) + Cardinality(At(b, o))
              = Cardinality(Naming(bufferMap', o)) + Cardinality(At(Reset(b, S), o))
                + Copies(s, o)
  <2>1. Copies(s, o) = Copies(Listing(b, S), o) + Copies(t, o)
    BY <1>7, <1>8, CopiesConcat
  <2>2. /\ Copies(Listing(b, S), o) \in Nat
        /\ Cardinality(At(Reset(b, S), o)) \in Nat
        /\ Cardinality(At(b, o)) = Cardinality(At(Reset(b, S), o))
                                   + Copies(Listing(b, S), o)
    BY <1>2, <1>3, Unbound
  <2>3. Cardinality(Naming(bufferMap', o)) = Cardinality(Naming(bufferMap, o))
                                             - (IF bufferMap[n] = o THEN 1 ELSE 0)
    BY <1>6, <1>11, NamingRemove
  <2>4. Cardinality(Naming(bufferMap, o)) \in Nat
    BY <1>11, NamingFinite
  <2>5. Copies(t, o) = IF bufferMap[n] = o THEN 1 ELSE 0
    BY <1>7
  <2> HIDE DEF s
  <2>6. CASE bufferMap[n] = o
    BY <2>1, <2>2, <2>3, <2>4, <2>5, <2>6
  <2>7. CASE bufferMap[n] # o
    BY <2>1, <2>2, <2>3, <2>4, <2>5, <2>7
  <2> QED BY <2>6, <2>7
<1>13. nextValue' \in 1 .. MaxName + 1 /\ freeValues' \in Seq(Name)
  <2>1. CASE n = nextValue - 1
    BY <1>0, <1>6, <2>1, BoundAssumption DEF ReleaseName, TypeOK, Name
  <2>2. CASE n # nextValue - 1
    <3>1. nextValue' = nextValue /\ freeValues' = Append(freeValues, n)
      BY <1>6, <2>2 DEF ReleaseName
    <3>2. nextValue \in 1 .. MaxName + 1 /\ freeValues \in Seq(Name)
      BY <1>0 DEF TypeOK
    <3> QED
      BY <3>1, <3>2
  <2> QED BY <2>1, <2>2
<1>14. /\ DOMAIN bufferMap' \subseteq DOMAIN bufferMap
       /\ \A m \in DOMAIN bufferMap' : bufferMap'[m] = bufferMap[m]
  BY <1>6 DEF Without
<1>15. destroyed' \subseteq Context
  BY <1>0, <1>6 DEF TypeOK
<1> HIDE DEF s
<1>16. UNCHANGED <<name, referenceCount, deletions, testing>>
  BY <1>6
<1>17. \A o \in Object : Cardinality(Naming(bufferMap, o)) + Cardinality(At(binding[c], o))
              = Cardinality(Naming(bufferMap', o)) + Cardinality(At(Reset(b, S), o))
                + Copies(s, o)
  BY <1>12 DEF b
<1> QED
  BY <1>1, <1>4, <1>5, <1>9, <1>10, <1>13, <1>14, <1>15, <1>16, <1>17, CountMove

\* A set that is listed has every element once.
LEMMA CopiesSet ==
    ASSUME NEW S \in SUBSET Object, NEW o
    PROVE  /\ SetToSeq(S) \in Seq(Object)
           /\ Len(SetToSeq(S)) <= MaxObject
           /\ Copies(SetToSeq(S), o) = IF o \in S THEN 1 ELSE 0
<1> DEFINE q == SetToSeq(S)
           n == Cardinality(S)
<1>1. IsFiniteSet(S) /\ n <= MaxObject
  <2>1. MaxObject \in Int /\ 1 \in Int /\ MaxObject >= 1
    BY BoundAssumption
  <2>2. /\ IsFiniteSet(1 .. MaxObject)
        /\ Cardinality(1 .. MaxObject) = IF 1 > MaxObject THEN 0 ELSE MaxObject - 1 + 1
    BY ONLY <2>1, FS_Interval
  <2>3. Cardinality(1 .. MaxObject) = MaxObject
    BY ONLY <2>1, <2>2
  <2> QED
    BY <2>2, <2>3, FS_Subset DEF Object
<1>2. n \in Nat /\ q \in Bijection(1 .. n, S)
  BY <1>1, Listed
<1>3. /\ q \in [1 .. n -> S]
      /\ \A i, j \in 1 .. n : q[i] = q[j] => i = j
      /\ \A x \in S : \E i \in 1 .. n : q[i] = x
  BY <1>2 DEF Bijection, Injection, Surjection, IsInjective
<1> HIDE DEF q, n
<1>4. q \in Seq(Object) /\ Len(q) = n
  BY <1>2, <1>3
<1>5. CASE o \in S
  <2>1. PICK i \in 1 .. n : q[i] = o
    BY <1>3, <1>5
  <2>2. Places(q, o) = {i}
    BY <1>3, <1>4, <2>1 DEF Places
  <2> QED
    BY <1>1, <1>4, <1>5, <2>2, FS_Singleton DEF Copies, q
<1>6. CASE o \notin S
  <2>1. Places(q, o) = {}
    BY <1>3, <1>4, <1>6 DEF Places
  <2> QED
    BY <1>1, <1>4, <1>6, <2>1, FS_EmptySet DEF Copies, q
<1> QED BY <1>5, <1>6

\* The last context takes the objects that still have a name with it.
LEMMA CountDestroy ==
    ASSUME CountInv, NEW c \in Context, destroyContext(c)
    PROVE  TypeOK' /\ Counts'
<1>0. TypeOK /\ NameInv /\ Counts
  BY DEF CountInv
<1> DEFINE S == {p \in Point : binding[c][p] # NONE}
           b == binding[c]
           last == destroyed \cup {c} = Context
           t == IF last THEN SetToSeq(MapObjects) ELSE <<>>
           s == Listing(b, S) \o t
           f == [p \in Point |-> NONE]
<1>1. toRelease[c] = <<>>
  BY Called DEF destroyContext
<1>2. b \in [Point -> Object \cup {NONE}]
  BY <1>0 DEF TypeOK
<1>3. S \in SUBSET Point /\ \A p \in S : b[p] # NONE
  OBVIOUS
<1>4. toRelease' = [toRelease EXCEPT ![c] = s]
  BY DEF destroyContext, Listing
<1>5. f = Reset(b, S)
  BY DEF Reset
<1>6. /\ binding' = [binding EXCEPT ![c] = f]
      /\ bufferMap' = IF last THEN <<>> ELSE bufferMap
      /\ destroyed' = destroyed \cup {c}
      /\ UNCHANGED <<nextValue, freeValues, name, referenceCount, deletions, testing>>
  BY DEF destroyContext
<1>7. MapObjects \in SUBSET Object
  BY <1>0 DEF MapObjects, TypeOK
<1>8. DOMAIN bufferMap \subseteq Name
  BY <1>0 DEF TypeOK
<1> HIDE DEF S, b, f
<1>9. Listing(b, S) \in Seq(Object) /\ Len(Listing(b, S)) <= Cardinality(Point)
  <2>1. 1 \in Object
    BY BoundAssumption DEF Object
  <2> QED
    BY <1>2, <1>3, <2>1, Unbound
<1>10. /\ t \in Seq(Object) /\ Len(t) <= MaxObject
       /\ \A o \in Object :
             Cardinality(Naming(bufferMap, o)) = Cardinality(Naming(bufferMap', o)) + Copies(t, o)
  <2>1. CASE last
    <3>1. t = SetToSeq(MapObjects) /\ bufferMap' = <<>>
      BY <1>6, <2>1
    <3>2. ASSUME NEW o \in Object
          PROVE  Cardinality(Naming(bufferMap, o)) = Cardinality(Naming(bufferMap', o)) + Copies(t, o)
      <4>1. Naming(bufferMap', o) = {}
        BY <3>1 DEF Naming
      <4>2. Copies(SetToSeq(MapObjects), o) = IF o \in MapObjects THEN 1 ELSE 0
        BY <1>7, CopiesSet
      <4>3. Cardinality(Naming(bufferMap, o)) = IF o \in MapObjects THEN 1 ELSE 0
        BY <1>0, <1>8, NamingOnce
      <4>4. Cardinality(Naming(bufferMap', o)) = 0
        BY <4>1, FS_EmptySet
      <4> QED
        BY <3>1, <4>2, <4>3, <4>4
    <3> QED
      BY <1>7, <3>1, <3>2, CopiesSet
  <2>2. CASE ~last
    <3>1. t = <<>> /\ bufferMap' = bufferMap
      BY <1>6, <2>2
    <3>2. MaxObject \in Nat
      BY BoundAssumption
    <3>3. \A o \in Object : Cardinality(Naming(bufferMap, o)) \in Nat
      BY <1>8, NamingFinite
    <3> HIDE DEF t, last
    <3> QED
      BY <3>1, <3>2, <3>3, CopiesNone
  <2> QED BY <2>1, <2>2
<1> HIDE DEF t, last
<1>11. s \in Seq(Object) /\ Len(s) <= MaxObject + Cardinality(Point)
  <2>1. /\ s \in Seq(Object) /\ Len(s) = Len(Listing(b, S)) + Len(t)
        /\ Len(Listing(b, S)) \in Nat /\ Len(t) \in Nat
    BY <1>9, <1>10
  <2>2. Cardinality(Point) \in Nat /\ MaxObject \in Nat
    BY FiniteAssumption, BoundAssumption, FS_CardinalityType
  <2> QED
    BY <1>9, <1>10, <2>1, <2>2
<1>12. f \in [Point -> Object \cup {NONE}]
  BY DEF f
<1>13. ASSUME NEW o \in Object
       PROVE  Cardinality(Naming(bufferMap, o)) + Cardinality(At(b, o))
              = Cardinality(Naming(bufferMap', o)) + Cardinality(At(f, o)) + Copies(s, o)
  <2>1. Copies(s, o) = Copies(Listing(b, S), o) + Copies(t, o)
    BY <1>9, <1>10, CopiesConcat
  <2>2. /\ Copies(Listing(b, S), o) \in Nat
        /\ Cardinality(At(f, o)) \in Nat
        /\ Cardinality(At(b, o)) = Cardinality(At(f, o)) + Copies(Listing(b, S), o)
    BY <1>2, <1>3, <1>5, Unbound
  <2>3. Cardinality(Naming(bufferMap, o)) = Cardinality(Naming(bufferMap', o)) + Copies(t, o)
    BY <1>10
  <2>4. Cardinality(Naming(bufferMap', o)) \in Nat
    <3>1. DOMAIN bufferMap' \subseteq Name
      BY <1>6, <1>8
    <3> QED
      BY <3>1, NamingFinite
  <2>5. Copies(t, o) \in Nat
    BY <1>10, PlacesFinite
  <2> HIDE DEF s
  <2> QED
    BY <2>1, <2>2, <2>3, <2>4, <2>5
<1>14. /\ DOMAIN bufferMap' \subseteq DOMAIN bufferMap
       /\ \A m \in DOMAIN bufferMap' : bufferMap'[m] = bufferMap[m]
  BY <1>6
<1>15. /\ nextValue' \in 1 .. MaxName + 1 /\ freeValues' \in Seq(Name)
       /\ destroyed' \subseteq Context
       /\ UNCHANGED <<name, referenceCount, deletions, testing>>
  BY <1>0, <1>6 DEF TypeOK
<1> HIDE DEF s
<1>16. \A o \in Object : Cardinality(Naming(bufferMap, o)) + Cardinality(At(binding[c], o))
              = Cardinality(Naming(bufferMap', o)) + Cardinality(At(f, o)) + Copies(s, o)
  BY <1>13 DEF b
<1> QED
  BY <1>1, <1>4, <1>6, <1>11, <1>12, <1>14, <1>15, <1>16, CountMove

\* release() decrements the count of an object that it still holds a reference
\* of.
LEMMA DecrementHeld ==
    ASSUME CountInv, NEW c \in Context, Decrement(c)
    PROVE  /\ TypeOK' /\ Counts'
           /\ \E x \in Object :
                 /\ referenceCount[x] > 0
                 /\ testing' = [testing EXCEPT ![c] = x]
                 /\ referenceCount' = [referenceCount EXCEPT ![x] = @ - 1]
<1>0. TypeOK /\ Counts
  BY DEF CountInv
<1>1. /\ toRelease[c] \in Seq(Object) /\ toRelease[c] # <<>>
      /\ toRelease' = [toRelease EXCEPT ![c] = Tail(toRelease[c])]
      /\ UNCHANGED <<nameVars, name, deletions, binding, destroyed>>
  BY <1>0 DEF Decrement, TypeOK
<1>2. PICK x \in Object : x = Head(toRelease[c])
  BY <1>1
<1>3. /\ testing' = [testing EXCEPT ![c] = x]
      /\ referenceCount' = [referenceCount EXCEPT ![x] = IF @ > 0 THEN @ - 1 ELSE @]
  BY <1>2 DEF Decrement
<1>4. /\ Tail(toRelease[c]) \in Seq(Object)
      /\ Len(Tail(toRelease[c])) = Len(toRelease[c]) - 1
      /\ Len(toRelease[c]) \in Nat
  BY <1>1
<1>5. /\ \A d \in Context \ {c} : binding'[d] = binding[d] /\ toRelease'[d] = toRelease[d]
      /\ toRelease'[c] = Tail(toRelease[c]) /\ binding' = binding /\ bufferMap' = bufferMap
  BY <1>0, <1>1 DEF TypeOK, nameVars
<1>6. TypeOK'
  <2>1. testing' \in [Context -> Object \cup {NONE}]
    BY <1>0, <1>3 DEF TypeOK
  <2>2. toRelease' \in [Context -> Seq(Object)]
    BY <1>0, <1>1, <1>4 DEF TypeOK
  <2>3. referenceCount' \in [Object -> Nat]
    BY <1>0, <1>3 DEF TypeOK
  <2> QED
    BY <1>0, <1>1, <2>1, <2>2, <2>3 DEF TypeOK, nameVars
<1>7. \A d \in Context : Len(toRelease'[d]) <= MaxObject + Cardinality(Point)
  <2>1. Cardinality(Point) \in Nat /\ MaxObject \in Nat
    BY FiniteAssumption, BoundAssumption, FS_CardinalityType
  <2>2. Len(toRelease[c]) <= MaxObject + Cardinality(Point)
    BY <1>0 DEF Counts
  <2>3. Len(toRelease'[c]) <= MaxObject + Cardinality(Point)
    BY <1>4, <1>5, <2>1, <2>2
  <2> QED
    BY <1>0, <1>5, <2>3 DEF Counts
<1>8. ASSUME NEW o \in Object
      PROVE  /\ References(o) \in Nat /\ References(o)' \in Nat
             /\ References(o) = References(o)' + (IF x = o THEN 1 ELSE 0)
  <2>1. Copies(toRelease[c], o) = Copies(Tail(toRelease[c]), o) + (IF x = o THEN 1 ELSE 0)
    BY <1>1, <1>2, CopiesTail
  <2>2. /\ Cardinality(Naming(bufferMap, o)) \in Nat
        /\ Cardinality(At(binding[c], o)) \in Nat
        /\ Copies(toRelease[c], o) \in Nat
        /\ Copies(Tail(toRelease[c]), o) \in Nat
        /\ References(o) \in Nat
        /\ References(o)' \in Nat
        /\ References(o)' + Cardinality(Naming(bufferMap, o))
              + Cardinality(At(binding[c], o)) + Copies(toRelease[c], o)
           = References(o) + Cardinality(Naming(bufferMap, o))
              + Cardinality(At(binding[c], o)) + Copies(Tail(toRelease[c]), o)
    BY <1>0, <1>5, <1>6, <1>7, Balance DEF Counts
  <2> DEFINE i == IF x = o THEN 1 ELSE 0
             k == Copies(toRelease[c], o)
             k2 == Copies(Tail(toRelease[c]), o)
             n == Cardinality(Naming(bufferMap, o))
             b == Cardinality(At(binding[c], o))
             m == References(o)
             m2 == References(o)'
  <2>3. /\ i \in Nat /\ k \in Nat /\ k2 \in Nat /\ n \in Nat /\ b \in Nat
        /\ m \in Nat /\ m2 \in Nat
        /\ k = k2 + i
        /\ m2 + n + b + k = m + n + b + k2
    BY <2>1, <2>2
  <2> HIDE DEF i, k, k2, n, b, m, m2
  <2>4. m = m2 + i
    BY <2>3
  <2> QED
    BY <2>3, <2>4 DEF i, m, m2
<1>9. referenceCount[x] \in Nat /\ referenceCount[x] > 0
  BY <1>0, <1>8 DEF Counts
<1>10. referenceCount' = [referenceCount EXCEPT ![x] = @ - 1]
  BY <1>0, <1>3, <1>9 DEF TypeOK
<1>11. Counts'
  <2>1. \A o \in Object : referenceCount'[o] = References(o)'
    <3>1. TAKE o \in Object
    <3>2. referenceCount'[o] = IF x = o THEN referenceCount[o] - 1 ELSE referenceCount[o]
      BY <1>0, <1>10 DEF TypeOK
    <3>3. referenceCount[o] = References(o)
      BY <1>0 DEF Counts
    <3> QED
      BY <1>8, <3>2, <3>3
  <2>2. \A o \in Object : o > Len(name') => referenceCount'[o] = 0
    <3>1. TAKE o \in Object
    <3>2. name' = name
      BY <1>1
    <3>3. CASE x = o
      BY <1>0, <1>9, <3>2, <3>3 DEF Counts
    <3>4. CASE x # o
      BY <1>0, <1>10, <3>2, <3>4 DEF Counts, TypeOK
    <3> QED BY <3>3, <3>4
  <2> QED
    BY <1>7, <2>1, <2>2 DEF Counts
<1> QED
  BY <1>3, <1>6, <1>9, <1>10, <1>11

LEMMA CountTest ==
    ASSUME CountInv, NEW c \in Context, Test(c)
    PROVE  TypeOK' /\ Counts'
<1>0. TypeOK /\ Counts
  BY DEF CountInv
<1>1. /\ testing[c] \in Object
      /\ deletions' = [deletions EXCEPT ![testing[c]] =
                          IF referenceCount[testing[c]] = 0 THEN @ + 1 ELSE @]
      /\ testing' = [testing EXCEPT ![c] = NONE]
      /\ UNCHANGED <<nameVars, name, referenceCount, binding, destroyed, toRelease>>
  BY <1>0 DEF Test, TypeOK
<1>2. TypeOK'
  <2>1. deletions' \in [Object -> Nat]
    BY <1>0, <1>1 DEF TypeOK
  <2>2. testing' \in [Context -> Object \cup {NONE}]
    BY <1>0, <1>1 DEF TypeOK
  <2> QED
    BY <1>0, <1>1, <2>1, <2>2 DEF TypeOK, nameVars
<1>3. Counts'
  BY <1>0, <1>1 DEF Counts, References, nameVars
<1> QED
  BY <1>2, <1>3

LEMMA CountStep ==
    ASSUME Reserved = TRUE, CountInv, [Next]_vars
    PROVE  CountInv'
<1>0. SpaceInv' /\ NameInv'
  BY SpaceStep, NamesStep DEF CountInv
<1>1. ASSUME NEW c \in Context, createBuffer(c)
      PROVE  TypeOK' /\ Counts'
  BY <1>1, CountCreate
<1>2. ASSUME NEW c \in Context, NEW p \in Point, NEW n \in Name, bindBuffer(c, p, n)
      PROVE  TypeOK' /\ Counts'
  BY <1>2, CountBind
<1>3. ASSUME NEW c \in Context, NEW p \in Point, unbindBuffer(c, p)
      PROVE  TypeOK' /\ Counts'
  BY <1>3, CountUnbind
<1>4. ASSUME NEW c \in Context, NEW n \in Name, deleteBuffer(c, n)
      PROVE  TypeOK' /\ Counts'
  BY <1>4, CountDelete
<1>5. ASSUME NEW c \in Context, destroyContext(c)
      PROVE  TypeOK' /\ Counts'
  BY <1>5, CountDestroy
<1>6. ASSUME NEW c \in Context, Decrement(c)
      PROVE  TypeOK' /\ Counts'
  BY <1>6, DecrementHeld
<1>7. ASSUME NEW c \in Context, Test(c)
      PROVE  TypeOK' /\ Counts'
  BY <1>7, CountTest
<1>8. ASSUME UNCHANGED vars
      PROVE  TypeOK' /\ Counts'
  <2>1. TypeOK /\ Counts
    BY DEF CountInv
  <2>2. UNCHANGED <<nextValue, freeValues, bufferMap, name, referenceCount, deletions,
                    binding, destroyed, toRelease, testing>>
    BY <1>8 DEF vars, nameVars, callVars
  <2>3. TypeOK'
    BY <2>1, <2>2 DEF TypeOK
  <2>4. Counts'
    BY <2>1, <2>2 DEF Counts, References
  <2> QED
    BY <2>3, <2>4
<1>9. TypeOK' /\ Counts'
  <2>1. ASSUME NEW c \in Context,
               \/ createBuffer(c)
               \/ \E p \in Point, n \in Name : bindBuffer(c, p, n)
               \/ \E p \in Point : unbindBuffer(c, p)
               \/ \E n \in Name : deleteBuffer(c, n)
               \/ destroyContext(c)
               \/ Decrement(c) \/ Test(c)
        PROVE  TypeOK' /\ Counts'
    BY <2>1, <1>1, <1>2, <1>3, <1>4, <1>5, <1>6, <1>7, Zenon
  <2>2. ASSUME Done PROVE TypeOK' /\ Counts'
    BY <2>2, <1>8 DEF Done
  <2> QED
    BY <2>1, <2>2, <1>8 DEF Next
<1> QED
  BY <1>0, <1>9 DEF CountInv

(* As long as clients bind only names that were generated, the reference    *)
(* count of an object (common/Object.cpp) is the number of references to it *)
(* after every step of every call, also when several threads make calls at  *)
(* a time, each decrement being one step.                                   *)
THEOREM CountsReferences ==
    ASSUME Reserved = TRUE
    PROVE  Spec => []CountExact
<1>1. Init => CountInv
  BY CountInit
<1>2. CountInv /\ [Next]_vars => CountInv'
  BY CountStep
<1>3. CountInv => CountExact
  <2> SUFFICES ASSUME CountInv PROVE CountExact
    OBVIOUS
  <2>1. DOMAIN name \subseteq Object
    BY BoundAssumption DEF CountInv, TypeOK, Object
  <2> QED
    BY <2>1 DEF CountInv, Counts, CountExact
<1> QED
  BY <1>1, <1>2, <1>3, PTL DEF Spec
-----------------------------------------------------------------------------
(* Lifetimes.                                                               *)

(* One call is under way at a time.  An object is deleted at most once, when *)
(* nothing refers to it and no test of its count is outstanding; and one    *)
(* that nothing refers to is deleted, or its test is outstanding.           *)
LifeInv ==
    /\ \A c, d \in Context : Inside(c) /\ Inside(d) => c = d
    /\ \A o \in Object : deletions[o] > 0 =>
          /\ deletions[o] = 1
          /\ o <= Len(name)
          /\ referenceCount[o] = 0
          /\ \A c \in Context : testing[c] # o
    /\ \A c \in Context : testing[c] # NONE => testing[c] <= Len(name)
    /\ \A o \in Object :
          o <= Len(name) /\ referenceCount[o] = 0 /\ (\A c \in Context : testing[c] # o)
             => deletions[o] > 0

LEMMA ObjectNat == \A o \in Object : o \in Nat /\ o # NONE
BY NoneAssumption DEF Object

\* An object with a name is referred to.
LEMMA NamedReferenced ==
    ASSUME CountInv, NEW c \in Context, NEW o \in MapObjects
    PROVE  o \in Object /\ referenceCount[o] > 0
<1>0. TypeOK /\ NameInv /\ Counts
  BY DEF CountInv
<1>1. o \in Object
  BY <1>0 DEF MapObjects, TypeOK
<1>2. Cardinality(Naming(bufferMap, o)) = 1
  BY <1>0, <1>1, NamingOnce DEF TypeOK
<1>3. Cardinality(Bound(binding, o)) \in Nat
  BY BoundChange
<1>4. Cardinality(Pending(toRelease, o)) \in Nat
  <2>1. Cardinality(Point) \in Nat /\ MaxObject \in Nat
    BY FiniteAssumption, BoundAssumption, FS_CardinalityType
  <2>2. Len(toRelease[c]) \in Nat /\ Len(toRelease[c]) <= MaxObject + Cardinality(Point)
    BY <1>0 DEF TypeOK, Counts
  <2>3. Len(toRelease[c]) \in 0 .. MaxObject + Cardinality(Point)
    BY <2>1, <2>2
  <2> QED
    BY <2>3, PendingChange
<1>5. References(o) = Cardinality(Naming(bufferMap, o)) + Cardinality(Bound(binding, o))
                      + Cardinality(Pending(toRelease, o))
  BY DEF References, Naming, Bound, Pending
<1>6. References(o) > 0
  BY <1>2, <1>3, <1>4, <1>5
<1> QED
  BY <1>0, <1>1, <1>6 DEF Counts

\* A step that starts a call deletes nothing, and refers to no object that was
\* deleted.
LEMMA LifeCall ==
    ASSUME Concurrent = FALSE, CountInv, LifeInv, NEW c \in Context, MayCall(c),
           testing' = testing, deletions' = deletions,
           \A d \in Context \ {c} : toRelease'[d] = toRelease[d],
           Len(name) <= Len(name'), Len(name') \in Nat,
           \A o \in Object :
              \/ referenceCount'[o] = referenceCount[o] /\ (o <= Len(name') => o <= Len(name))
              \/ referenceCount'[o] > 0 /\ (o > Len(name) \/ referenceCount[o] > 0)
    PROVE  LifeInv'
<1>0. TypeOK
  BY DEF CountInv
<1>1. \A d \in Context : ~Inside(d) /\ testing[d] = NONE
  BY DEF MayCall, Inside
<1>2. \A d \in Context : Inside(d)' => d = c
  <2>1. \A d \in Context \ {c} : testing'[d] = NONE /\ toRelease'[d] = <<>>
    BY <1>1 DEF Inside
  <2> QED
    BY <2>1 DEF Inside
<1>3. \A o \in Object : o \in Nat /\ o # NONE
  BY NoneAssumption DEF Object
<1>4. Len(name) \in Nat
  BY <1>0 DEF TypeOK
<1>5. ASSUME NEW o \in Object, deletions'[o] > 0
      PROVE  /\ deletions'[o] = 1
             /\ o <= Len(name')
             /\ referenceCount'[o] = 0
             /\ \A d \in Context : testing'[d] # o
  <2>1. /\ deletions[o] = 1 /\ o <= Len(name) /\ referenceCount[o] = 0
    BY <1>5 DEF LifeInv
  <2>2. referenceCount'[o] = 0
    BY <1>3, <1>4, <2>1
  <2> QED
    BY <1>1, <1>3, <1>4, <2>1, <2>2
<1>6. ASSUME NEW o \in Object, o <= Len(name'), referenceCount'[o] = 0
      PROVE  deletions'[o] > 0
  <2>1. o <= Len(name) /\ referenceCount[o] = 0
    BY <1>6
  <2>2. \A d \in Context : testing[d] # o
    BY <1>1, <1>3
  <2> QED
    BY <2>1, <2>2 DEF LifeInv
<1>7. \A d \in Context : testing'[d] = NONE
  BY <1>1
<1> QED
  BY <1>2, <1>5, <1>6, <1>7 DEF LifeInv

LEMMA LifeBind ==
    ASSUME Concurrent = FALSE, CountInv, LifeInv,
           NEW c \in Context, NEW p \in Point, NEW n \in Name, bindBuffer(c, p, n)
    PROVE  LifeInv'
<1>0. TypeOK
  BY DEF CountInv
<1>1. PICK new \in Object, k \in {1, 2} :
         /\ toRelease' = [toRelease EXCEPT ![c] = Old(c, p)]
         /\ referenceCount' = [referenceCount EXCEPT ![new] = @ + k]
         /\ \/ k = 1 /\ new <= Len(name) /\ name' = name /\ new \in MapObjects
            \/ k = 2 /\ new = Len(name) + 1 /\ name' = Append(name, n)
  BY BindObject
<1>2. MayCall(c) /\ testing' = testing /\ deletions' = deletions
  BY DEF bindBuffer
<1>3. \A d \in Context \ {c} : toRelease'[d] = toRelease[d]
  BY <1>0, <1>1 DEF TypeOK
<1>4. Len(name) <= Len(name') /\ Len(name') \in Nat
  BY <1>0, <1>1 DEF TypeOK
<1>5. ASSUME NEW o \in Object
      PROVE  \/ referenceCount'[o] = referenceCount[o] /\ (o <= Len(name') => o <= Len(name))
             \/ referenceCount'[o] > 0 /\ (o > Len(name) \/ referenceCount[o] > 0)
  <2>1. o \in Nat /\ Len(name) \in Nat /\ referenceCount[o] \in Nat
    BY <1>0, ObjectNat DEF TypeOK
  <2>2. CASE o = new
    <3>1. referenceCount'[o] = referenceCount[o] + k
      BY <1>0, <1>1, <2>2 DEF TypeOK
    <3>2. CASE k = 1
      <4>1. referenceCount[o] > 0
        BY <1>1, <2>2, <3>2, NamedReferenced
      <4> QED
        BY <2>1, <3>1, <3>2, <4>1
    <3>3. CASE k = 2
      <4>1. o > Len(name)
        BY <1>1, <2>1, <2>2, <3>3
      <4> QED
        BY <2>1, <3>1, <3>3, <4>1
    <3> QED BY <3>2, <3>3
  <2>3. CASE o # new
    <3>1. referenceCount'[o] = referenceCount[o]
      BY <1>0, <1>1, <2>3 DEF TypeOK
    <3>2. o <= Len(name') => o <= Len(name)
      BY <1>0, <1>1, <2>1, <2>3 DEF TypeOK
    <3> QED
      BY <3>1, <3>2
  <2> QED BY <2>2, <2>3
<1> QED
  BY <1>2, <1>3, <1>4, <1>5, LifeCall

\* The decrement leaves its object to be tested.
LEMMA LifeDecrement ==
    ASSUME CountInv, LifeInv, NEW c \in Context, Decrement(c)
    PROVE  LifeInv'
<1>0. TypeOK /\ Counts
  BY DEF CountInv
<1>1. PICK x \in Object :
         /\ referenceCount[x] > 0
         /\ testing' = [testing EXCEPT ![c] = x]
         /\ referenceCount' = [referenceCount EXCEPT ![x] = @ - 1]
  BY DecrementHeld
<1>2. /\ testing[c] = NONE /\ toRelease[c] # <<>>
      /\ name' = name /\ deletions' = deletions
      /\ \A d \in Context \ {c} : toRelease'[d] = toRelease[d]
  BY <1>0 DEF Decrement, TypeOK
<1>3. /\ testing'[c] = x
      /\ \A d \in Context \ {c} : testing'[d] = testing[d]
      /\ \A o \in Object \ {x} : referenceCount'[o] = referenceCount[o]
  BY <1>0, <1>1 DEF TypeOK
<1>4. \A o \in Object : o \in Nat /\ o # NONE /\ deletions[o] \in Nat
  <2>1. \A o \in Object : deletions[o] \in Nat
    BY <1>0 DEF TypeOK
  <2> QED
    BY <2>1, ObjectNat
<1>5. x <= Len(name)
  <2>1. Len(name) \in Nat /\ x \in Nat
    BY <1>0, <1>4 DEF TypeOK
  <2>2. ~(x > Len(name))
    BY <1>0, <1>1 DEF Counts
  <2> QED
    BY <2>1, <2>2
<1>6. \A a, b \in Context : Inside(a)' /\ Inside(b)' => a = b
  <2>1. Inside(c) /\ \A d \in Context : Inside(d)' => Inside(d)
    BY <1>2, <1>3 DEF Inside
  <2> QED
    BY <2>1 DEF LifeInv
<1>7. ASSUME NEW o \in Object, deletions'[o] > 0
      PROVE  /\ deletions'[o] = 1
             /\ o <= Len(name')
             /\ referenceCount'[o] = 0
             /\ \A d \in Context : testing'[d] # o
  <2>1. /\ deletions[o] = 1 /\ o <= Len(name) /\ referenceCount[o] = 0
        /\ \A d \in Context : testing[d] # o
    BY <1>2, <1>7 DEF LifeInv
  <2>2. o # x
    BY <1>1, <2>1
  <2> QED
    BY <1>2, <1>3, <2>1, <2>2
<1>8. \A d \in Context : testing'[d] # NONE => testing'[d] <= Len(name')
  BY <1>2, <1>3, <1>5 DEF LifeInv
<1>9. ASSUME NEW o \in Object, o <= Len(name'), referenceCount'[o] = 0,
             \A d \in Context : testing'[d] # o
      PROVE  deletions'[o] > 0
  <2>1. o # x
    BY <1>3, <1>9
  <2>2. \A d \in Context : testing[d] # o
    BY <1>2, <1>3, <1>4, <1>9
  <2> QED
    BY <1>2, <1>3, <1>9, <2>1, <2>2 DEF LifeInv
<1> QED
  BY <1>6, <1>7, <1>8, <1>9 DEF LifeInv

\* The test deletes an object that nothing refers to any more.
LEMMA LifeTest ==
    ASSUME CountInv, LifeInv, NEW c \in Context, Test(c)
    PROVE  LifeInv'
<1>0. TypeOK /\ Counts
  BY DEF CountInv
<1>1. PICK x \in Object : x = testing[c]
  BY <1>0 DEF Test, TypeOK
<1>2. /\ name' = name /\ referenceCount' = referenceCount /\ toRelease' = toRelease
      /\ testing' = [testing EXCEPT ![c] = NONE]
      /\ deletions' = [deletions EXCEPT ![x] = IF referenceCount[x] = 0 THEN @ + 1 ELSE @]
  BY <1>1 DEF Test
<1>3. /\ testing'[c] = NONE
      /\ \A d \in Context \ {c} : testing'[d] = testing[d]
      /\ \A o \in Object \ {x} : deletions'[o] = deletions[o]
      /\ deletions'[x] = IF referenceCount[x] = 0 THEN deletions[x] + 1 ELSE deletions[x]
  BY <1>0, <1>2 DEF TypeOK
<1>4. \A o \in Object : o \in Nat /\ o # NONE /\ deletions[o] \in Nat
  <2>1. \A o \in Object : deletions[o] \in Nat
    BY <1>0 DEF TypeOK
  <2> QED
    BY <2>1, ObjectNat
<1>5. deletions[x] = 0
  <2>1. ~(deletions[x] > 0)
    BY <1>1 DEF LifeInv
  <2> QED
    BY <1>4, <2>1
<1>6. x <= Len(name)
  BY <1>1, <1>4 DEF LifeInv
<1>7. Inside(c) /\ \A d \in Context : Inside(d)' => Inside(d)
  BY <1>1, <1>2, <1>3, <1>4 DEF Inside
<1>8. \A d \in Context : testing'[d] # x
  <2>1. TAKE d \in Context
  <2>2. CASE d = c
    BY <1>3, <1>4, <2>2
  <2>3. CASE d # c
    <3>1. ~Inside(d)
      BY <1>7, <2>3 DEF LifeInv
    <3> QED
      BY <1>3, <1>4, <2>3, <3>1 DEF Inside
  <2> QED BY <2>2, <2>3
<1>9. ASSUME NEW o \in Object, deletions'[o] > 0
      PROVE  /\ deletions'[o] = 1
             /\ o <= Len(name')
             /\ referenceCount'[o] = 0
             /\ \A d \in Context : testing'[d] # o
  <2>1. CASE o = x
    BY <1>2, <1>3, <1>5, <1>6, <1>8, <1>9, <2>1
  <2>2. CASE o # x
    <3>1. /\ deletions[o] = 1 /\ o <= Len(name) /\ referenceCount[o] = 0
          /\ \A d \in Context : testing[d] # o
      BY <1>3, <1>9, <2>2 DEF LifeInv
    <3>2. \A d \in Context : testing'[d] # o
      BY <1>3, <1>4, <3>1
    <3> QED
      BY <1>2, <1>3, <2>2, <3>1, <3>2
  <2> QED BY <2>1, <2>2
<1>10. ASSUME NEW o \in Object, o <= Len(name'), referenceCount'[o] = 0,
              \A d \in Context : testing'[d] # o
       PROVE  deletions'[o] > 0
  <2>1. CASE o = x
    BY <1>2, <1>3, <1>5, <1>10, <2>1
  <2>2. CASE o # x
    <3>1. \A d \in Context : testing[d] # o
      BY <1>1, <1>3, <1>10, <2>2
    <3> QED
      BY <1>2, <1>3, <1>10, <2>2, <3>1 DEF LifeInv
  <2> QED BY <2>1, <2>2
<1>11. \A a, b \in Context : Inside(a)' /\ Inside(b)' => a = b
  BY <1>7 DEF LifeInv
<1>12. \A d \in Context : testing'[d] # NONE => testing'[d] <= Len(name')
  BY <1>2, <1>3 DEF LifeInv
<1> QED
  BY <1>9, <1>10, <1>11, <1>12 DEF LifeInv

LEMMA LifeStep ==
    ASSUME Concurrent = FALSE, CountInv, LifeInv, [Next]_vars
    PROVE  LifeInv'
<1>0. TypeOK
  BY DEF CountInv
<1> DEFINE Same(c) == /\ MayCall(c)
                      /\ UNCHANGED <<name, referenceCount, deletions, testing>>
                      /\ \A d \in Context \ {c} : toRelease'[d] = toRelease[d]
<1>1. ASSUME NEW c \in Context, Same(c)
      PROVE  LifeInv'
  <2>1. Len(name) <= Len(name') /\ Len(name') \in Nat
    BY <1>0, <1>1 DEF TypeOK
  <2>2. \A o \in Object : referenceCount'[o] = referenceCount[o] /\ Len(name') = Len(name)
    BY <1>1
  <2> QED
    BY <1>1, <2>1, <2>2, LifeCall
<1>2. ASSUME NEW c \in Context, createBuffer(c) \/ \E p \in Point : unbindBuffer(c, p)
      PROVE  LifeInv'
  <2>1. Same(c)
    BY <1>0, <1>2 DEF createBuffer, unbindBuffer, callVars, TypeOK
  <2> QED
    BY <1>1, <2>1
<1>3. ASSUME NEW c \in Context, (\E n \in Name : deleteBuffer(c, n)) \/ destroyContext(c)
      PROVE  LifeInv'
  <2>1. Same(c)
    BY <1>0, <1>3 DEF deleteBuffer, destroyContext, TypeOK
  <2> QED
    BY <1>1, <2>1
<1>4. ASSUME NEW c \in Context, NEW p \in Point, NEW n \in Name, bindBuffer(c, p, n)
      PROVE  LifeInv'
  BY <1>4, LifeBind
<1>5. ASSUME NEW c \in Context, Decrement(c) PROVE LifeInv'
  BY <1>5, LifeDecrement
<1>6. ASSUME NEW c \in Context, Test(c) PROVE LifeInv'
  BY <1>6, LifeTest
<1>7. ASSUME UNCHANGED vars PROVE LifeInv'
  BY <1>7 DEF vars, callVars, LifeInv, Inside
<1>8. ASSUME NEW c \in Context,
             \/ createBuffer(c)
             \/ \E p \in Point, n \in Name : bindBuffer(c, p, n)
             \/ \E p \in Point : unbindBuffer(c, p)
             \/ \E n \in Name : deleteBuffer(c, n)
             \/ destroyContext(c)
             \/ Decrement(c) \/ Test(c)
      PROVE  LifeInv'
  BY <1>8, <1>2, <1>3, <1>4, <1>5, <1>6, Zenon
<1>9. ASSUME Done PROVE LifeInv'
  BY <1>9, <1>7 DEF Done
<1> QED
  BY <1>7, <1>8, <1>9 DEF Next

(* When calls come one at a time and bind only names that were generated,   *)
(* an object (common/Object.cpp) is deleted once, never while it can be     *)
(* reached, and nothing is leaked; several threads may make them delete an  *)
(* object twice, which is why the hypothesis is there.                      *)
THEOREM ObjectsLive ==
    ASSUME Reserved = TRUE, Concurrent = FALSE
    PROVE  Spec => []LivesWhileReferenced
<1>1. Init => CountInv /\ LifeInv
  <2>1. Init => LifeInv
    BY DEF Init, LifeInv, Inside, Object
  <2> QED
    BY <2>1, CountInit
<1>2. CountInv /\ LifeInv /\ [Next]_vars => CountInv' /\ LifeInv'
  BY CountStep, LifeStep
<1>3. CountInv /\ LifeInv => LivesWhileReferenced
  <2> SUFFICES ASSUME CountInv, LifeInv PROVE LivesWhileReferenced
    OBVIOUS
  <2>1. TypeOK /\ Counts
    BY DEF CountInv
  <2>2. \A o \in DOMAIN name : o \in Object /\ o <= Len(name) /\ deletions[o] \in Nat
    BY <2>1, BoundAssumption DEF TypeOK, Object
  <2>3. \A o \in DOMAIN name : referenceCount[o] = References(o)
    BY <2>1, <2>2 DEF Counts
  <2>4. DeletedOnce
    BY <2>2 DEF LifeInv, DeletedOnce
  <2>5. NeverDangling
    BY <2>2, <2>3 DEF LifeInv, NeverDangling
  <2>6. NeverLeaked
    BY <2>2, <2>3 DEF LifeInv, NeverLeaked
  <2> QED
    BY <2>1, <2>4, <2>5, <2>6 DEF LivesWhileReferenced
<1> QED
  BY <1>1, <1>2, <1>3, PTL DEF Spec
-----------------------------------------------------------------------------
(* Sums over an interval.  The library's induction takes an operator, which *)
(* the provers cannot instantiate; that the natural numbers are well-founded*)
(* is enough: a set has a least member.                                     *)

LEMMA Reaches ==
    ASSUME NEW n \in Nat, NEW S, 0 \in S, \A k \in 0 .. n - 1 : k \in S => k + 1 \in S
    PROVE  n \in S
<1> SUFFICES ASSUME n \notin S PROVE FALSE
  OBVIOUS
<1> DEFINE Missing == {k \in Nat : k \notin S /\ k <= n}
<1>1. Missing \subseteq Nat /\ Missing # {}
  OBVIOUS
<1>2. PICK R : R = OpToRel(<, Nat)
  OBVIOUS
<1>3. IsWellFoundedOn(R, Nat)
  BY <1>2, NatLessThanWellFounded
<1>4. \A m, k \in Nat : m < k => <<m, k>> \in R
  BY <1>2 DEF OpToRel
<1>5. PICK k \in Missing : \A m \in Missing : <<m, k>> \notin R
  <2> HIDE DEF Missing
  <2> QED
    BY <1>1, <1>3, WFMin
<1>6. k \in Nat /\ k \notin S /\ k <= n /\ k # 0
  BY <1>5
<1>7. k - 1 \in Nat /\ k - 1 < k /\ k - 1 \in 0 .. n - 1 /\ (k - 1) + 1 = k
  BY <1>6
<1>8. k - 1 \notin Missing
  BY <1>4, <1>5, <1>6, <1>7
<1> QED
  BY <1>6, <1>7, <1>8

SumTo(f, n) == LET sum[i \in 0 .. n] == IF i = 0 THEN 0 ELSE sum[i - 1] + f[i]
               IN  sum[n]

Sums(g, f, n) ==
    /\ DOMAIN g = 0 .. n
    /\ g[0] = 0
    /\ \A i \in 1 .. n : g[i] = g[i - 1] + f[i]

LEMMA SumsExist ==
    ASSUME NEW n \in Nat, NEW f \in [1 .. n -> Int]
    PROVE  \E g \in [0 .. n -> Int] : Sums(g, f, n)
<1> DEFINE S == {k \in 0 .. n : \E g \in [0 .. k -> Int] : Sums(g, f, k)}
<1>1. 0 \in S
  <2>1. PICK g : g = [i \in 0 .. 0 |-> 0]
    OBVIOUS
  <2>2. g \in [0 .. 0 -> Int] /\ Sums(g, f, 0)
    BY <2>1 DEF Sums
  <2> QED
    BY <2>2
<1>2. ASSUME NEW k \in 0 .. n - 1, k \in S
      PROVE  k + 1 \in S
  <2>1. PICK g \in [0 .. k -> Int] : Sums(g, f, k)
    BY <1>2
  <2>2. PICK h : h = [i \in 0 .. k + 1 |-> IF i = k + 1 THEN g[k] + f[k + 1] ELSE g[i]]
    OBVIOUS
  <2>3. g[k] + f[k + 1] \in Int
    OBVIOUS
  <2>4. h \in [0 .. k + 1 -> Int]
    BY <2>2, <2>3
  <2>5. Sums(h, f, k + 1)
    <3>1. h[0] = 0
      BY <2>1, <2>2 DEF Sums
    <3>2. ASSUME NEW i \in 1 .. k + 1
          PROVE  h[i] = h[i - 1] + f[i]
      <4>1. CASE i = k + 1
        BY <2>2, <4>1
      <4>2. CASE i # k + 1
        <5>1. i \in 1 .. k /\ i - 1 \in 0 .. k + 1 /\ i - 1 # k + 1
          BY <4>2
        <5> QED
          BY <2>1, <2>2, <4>2, <5>1 DEF Sums
      <4> QED
        BY <4>1, <4>2
    <3> QED
      BY <2>4, <3>1, <3>2 DEF Sums
  <2> QED
    BY <2>4, <2>5
<1> HIDE DEF S
<1>3. n \in S
  BY <1>1, <1>2, Reaches
<1> QED
  BY <1>3 DEF S

\* Any function that sums up is the one of the definition.
LEMMA SumIs ==
    ASSUME NEW n \in Nat, NEW f, NEW g \in [0 .. n -> Int], Sums(g, f, n), NEW m \in 0 .. n
    PROVE  SumTo(f, m) = g[m]
<1> DEFINE P(h) == h = [i \in 0 .. m |-> IF i = 0 THEN 0 ELSE h[i - 1] + f[i]]
<1>1. P([i \in 0 .. m |-> g[i]])
  <2>1. PICK h : h = [i \in 0 .. m |-> g[i]]
    OBVIOUS
  <2>2. \A i \in 0 .. m : h[i] = IF i = 0 THEN 0 ELSE h[i - 1] + f[i]
    BY <2>1 DEF Sums
  <2>3. P(h)
    BY <2>1, <2>2
  <2> QED
    BY <2>1, <2>3
<1>2. SumTo(f, m) = (CHOOSE h : P(h))[m]
  BY DEF SumTo
<1> HIDE DEF P
<1>3. PICK h : P(h) /\ SumTo(f, m) = h[m]
  BY <1>1, <1>2
<1>4. \A i \in 0 .. m : h[i] = IF i = 0 THEN 0 ELSE h[i - 1] + f[i]
  BY <1>3 DEF P
<1> DEFINE S == {i \in 0 .. m : h[i] = g[i]}
<1>5. 0 \in S
  BY <1>4 DEF Sums
<1>6. \A k \in 0 .. m - 1 : k \in S => k + 1 \in S
  BY <1>4 DEF Sums
<1> HIDE DEF S
<1>7. m \in S
  BY <1>5, <1>6, Reaches
<1> QED
  BY <1>3, <1>7 DEF S

LEMMA SumSteps ==
    ASSUME NEW n \in Nat, NEW f \in [1 .. n -> Int]
    PROVE  /\ SumTo(f, 0) = 0
           /\ \A m \in 0 .. n : SumTo(f, m) \in Int
           /\ \A m \in 1 .. n : SumTo(f, m) = SumTo(f, m - 1) + f[m]
<1>1. PICK g \in [0 .. n -> Int] : Sums(g, f, n)
  BY SumsExist
<1>2. \A m \in 0 .. n : SumTo(f, m) = g[m]
  BY <1>1, SumIs
<1>3. SumTo(f, 0) = 0
  BY <1>1, <1>2 DEF Sums
<1>4. \A m \in 0 .. n : SumTo(f, m) \in Int
  BY <1>2
<1>5. \A m \in 1 .. n : SumTo(f, m) = SumTo(f, m - 1) + f[m]
  BY <1>1, <1>2 DEF Sums
<1> QED
  BY <1>3, <1>4, <1>5

LEMMA SumOfNats ==
    ASSUME NEW n \in Nat, NEW f \in [1 .. n -> Nat]
    PROVE  \A m \in 0 .. n : SumTo(f, m) \in Nat
<1>1. f \in [1 .. n -> Int]
  OBVIOUS
<1> SUFFICES ASSUME NEW m \in 0 .. n PROVE SumTo(f, m) \in Nat
  OBVIOUS
<1> DEFINE S == {k \in 0 .. n : SumTo(f, k) \in Nat}
<1>2. 0 \in S
  BY <1>1, SumSteps
<1>3. ASSUME NEW k \in 0 .. m - 1, k \in S
      PROVE  k + 1 \in S
  <2>1. k + 1 \in 1 .. n /\ (k + 1) - 1 = k
    OBVIOUS
  <2>2. SumTo(f, k + 1) = SumTo(f, k) + f[k + 1]
    BY <1>1, <2>1, SumSteps
  <2> QED
    BY <1>3, <2>1, <2>2
<1> HIDE DEF S
<1>4. m \in S
  BY <1>2, <1>3, Reaches
<1> QED
  BY <1>4 DEF S

LEMMA SumOfZeros ==
    ASSUME NEW n \in Nat, NEW f \in [1 .. n -> Int], \A i \in 1 .. n : f[i] = 0
    PROVE  SumTo(f, n) = 0
<1> DEFINE S == {k \in 0 .. n : SumTo(f, k) = 0}
<1>1. 0 \in S
  BY SumSteps
<1>2. ASSUME NEW k \in 0 .. n - 1, k \in S
      PROVE  k + 1 \in S
  <2>1. k + 1 \in 1 .. n /\ (k + 1) - 1 = k
    OBVIOUS
  <2>2. SumTo(f, k + 1) = SumTo(f, k) + f[k + 1]
    BY <2>1, SumSteps
  <2> QED
    BY <1>2, <2>1, <2>2
<1> HIDE DEF S
<1>3. n \in S
  BY <1>1, <1>2, Reaches
<1> QED
  BY <1>3 DEF S

\* One summand changes.
LEMMA SumChanges ==
    ASSUME NEW n \in Nat, NEW f \in [1 .. n -> Int], NEW h \in [1 .. n -> Int],
           NEW d \in 1 .. n, \A i \in (1 .. n) \ {d} : h[i] = f[i]
    PROVE  SumTo(h, n) = SumTo(f, n) + (h[d] - f[d])
<1> DEFINE S == {k \in 0 .. n : SumTo(h, k) = SumTo(f, k) + (IF k >= d THEN h[d] - f[d] ELSE 0)}
<1>1. 0 \in S
  <2>1. SumTo(f, 0) = 0 /\ SumTo(h, 0) = 0
    BY SumSteps
  <2>2. 0 \in 0 .. n /\ ~(0 >= d)
    OBVIOUS
  <2> QED
    BY <2>1, <2>2
<1>2. ASSUME NEW k \in 0 .. n - 1, k \in S
      PROVE  k + 1 \in S
  <2>1. k + 1 \in 1 .. n /\ (k + 1) - 1 = k /\ k \in 0 .. n
    OBVIOUS
  <2>2. SumTo(f, k + 1) = SumTo(f, k) + f[k + 1] /\ SumTo(h, k + 1) = SumTo(h, k) + h[k + 1]
    BY <2>1, SumSteps
  <2>3. SumTo(f, k) \in Int /\ SumTo(h, k) \in Int
    BY <2>1, SumSteps
  <2>4. SumTo(h, k) = SumTo(f, k) + (IF k >= d THEN h[d] - f[d] ELSE 0)
    BY <1>2
  <2>5. h[d] \in Int /\ f[d] \in Int /\ h[k + 1] \in Int /\ f[k + 1] \in Int
    BY <2>1
  <2> HIDE DEF S
  <2>6. SumTo(h, k + 1) = SumTo(f, k + 1) + (IF k + 1 >= d THEN h[d] - f[d] ELSE 0)
    <3>1. CASE k + 1 = d
      <4>1. SumTo(h, k) = SumTo(f, k)
        BY <2>3, <2>4, <3>1
      <4> QED
        BY <2>2, <2>3, <2>5, <3>1, <4>1
    <3>2. CASE k + 1 < d
      <4>1. h[k + 1] = f[k + 1] /\ SumTo(h, k) = SumTo(f, k)
        BY <2>1, <2>3, <2>4, <3>2
      <4> QED
        BY <2>2, <2>3, <2>5, <3>2, <4>1
    <3>3. CASE k + 1 > d
      <4>1. h[k + 1] = f[k + 1] /\ SumTo(h, k) = SumTo(f, k) + (h[d] - f[d])
        BY <2>1, <2>3, <2>4, <3>3
      <4> QED
        BY <2>2, <2>3, <2>5, <3>3, <4>1
    <3> QED
      BY <3>1, <3>2, <3>3
  <2> QED
    BY <2>1, <2>6 DEF S
<1> HIDE DEF S
<1>3. n \in S
  BY <1>1, <1>2, Reaches
<1> QED
  BY <1>3 DEF S
-----------------------------------------------------------------------------
(* The invariant about occlusion queries, if clients wait for the result of *)
(* a query before they begin it again or delete it.                         *)

Awaited == /\ DRAW_COUNT \in Nat \ {0} /\ clusterCount \in Nat \ {0}
           /\ Patient = TRUE

ClusterCounts == [Cluster -> Nat]
QueryRecord == [mQuery : {"null", "allocated", "freed"}, building : BOOLEAN, reference : Nat,
                data : Nat, mStatus : BOOLEAN, mResult : BOOLEAN]
DrawRecord == [phase : {"free", "queued", "retiring"}, queries : Seq(Query), counting : BOOLEAN,
               passes : ClusterCounts, cluster : 1 .. clusterCount + 1]

QueryTypes ==
    /\ query \in [Query -> QueryRecord]
    /\ named \subseteq Query /\ activeQuery \subseteq Query
    /\ queries \in Seq(Query) /\ occlusionEnabled \in BOOLEAN
    /\ draw \in [DrawCall -> DrawRecord]
    /\ occlusion \in [DrawCall -> ClusterCounts]
    /\ passed \in [Query -> Nat]

Unique(s) == \A i, j \in 1 .. Len(s) : s[i] = s[j] => i = j
Holders(q) == {d \in DrawCall : Contains(draw[d].queries, q)}

\* The renderer's list has the active queries, once each.
ListInv ==
    /\ Unique(queries)
    /\ \A q \in Query : Contains(queries, q) <=> q \in activeQuery
    /\ \A q \in activeQuery : /\ q \in named
                              /\ query[q].mQuery = "allocated" /\ query[q].building

HeldInv ==
    /\ \A d \in DrawCall : /\ Unique(draw[d].queries)
                           /\ draw[d].phase = "free" => draw[d].queries = << >>
    /\ \A q \in Query : /\ query[q].reference = Cardinality(Holders(q))
                        /\ Holders(q) # {} => query[q].mQuery = "allocated"

HoldInv == QueryTypes /\ ListInv /\ HeldInv
-----------------------------------------------------------------------------
(* Lists of queries                                                         *)

LEMMA Appending ==
    ASSUME NEW S, NEW s \in Seq(S), NEW e \in S
    PROVE  /\ Append(s, e) \in Seq(S)
           /\ \A x : Contains(Append(s, e), x) <=> Contains(s, x) \/ x = e
           /\ Unique(s) /\ ~Contains(s, e) => Unique(Append(s, e))
<1>1. PICK n \in Nat : n = Len(s)
  BY LenProperties
<1>2. PICK t : t = Append(s, e)
  OBVIOUS
<1>3. /\ t \in Seq(S) /\ Len(t) = n + 1 /\ t[n + 1] = e
      /\ \A i \in 1 .. n : t[i] = s[i]
  BY <1>1, <1>2, AppendProperties
<1>4. \A x : Contains(t, x) <=> Contains(s, x) \/ x = e
  <2>1. TAKE x
  <2>2. Contains(s, x) => Contains(t, x)
    BY <1>1, <1>3 DEF Contains
  <2>3. x = e => Contains(t, x)
    <3>1. n + 1 \in 1 .. Len(t)
      BY <1>3
    <3> QED
      BY <1>3, <3>1 DEF Contains
  <2>4. Contains(t, x) => Contains(s, x) \/ x = e
    <3> SUFFICES ASSUME NEW i \in 1 .. n + 1, t[i] = x, x # e PROVE Contains(s, x)
      BY <1>3 DEF Contains
    <3>1. i \in 1 .. n
      BY <1>3
    <3> QED
      BY <1>1, <1>3, <3>1 DEF Contains
  <2> QED
    BY <2>2, <2>3, <2>4
<1>5. ASSUME Unique(s), ~Contains(s, e)
      PROVE  Unique(t)
  <2> SUFFICES ASSUME NEW i \in 1 .. n + 1, NEW j \in 1 .. n + 1, t[i] = t[j] PROVE i = j
    BY <1>3 DEF Unique
  <2>1. \A k \in 1 .. n : t[k] # e
    BY <1>1, <1>3, <1>5 DEF Contains
  <2>2. CASE i \in 1 .. n /\ j \in 1 .. n
    BY <1>1, <1>3, <1>5, <2>2 DEF Unique
  <2>3. CASE i = n + 1
    BY <1>3, <2>1, <2>3
  <2>4. CASE j = n + 1
    BY <1>3, <2>1, <2>4
  <2> QED
    BY <2>2, <2>3, <2>4
<1> QED
  BY <1>2, <1>3, <1>4, <1>5

LEMMA Shortening ==
    ASSUME NEW S, NEW s \in Seq(S), NEW i \in 1 .. Len(s), Unique(s)
    PROVE  /\ RemoveAt(s, i) \in Seq(S)
           /\ Len(RemoveAt(s, i)) = Len(s) - 1
           /\ Unique(RemoveAt(s, i))
           /\ \A x : Contains(RemoveAt(s, i), x) <=> Contains(s, x) /\ x # s[i]
<1>1. PICK n \in Nat : n = Len(s)
  BY LenProperties
<1>2. \A k \in 1 .. n : s[k] \in S
  BY <1>1, ElementOfSeq
<1>3. PICK front, back : front = SubSeq(s, 1, i - 1) /\ back = SubSeq(s, i + 1, n)
  OBVIOUS
<1>4. /\ front \in Seq(S) /\ Len(front) = i - 1
      /\ \A k \in 1 .. i - 1 : front[k] = s[k]
  <2>1. \A k \in 1 .. i - 1 : s[k] \in S
    BY <1>1, <1>2
  <2>2. /\ SubSeq(s, 1, i - 1) \in Seq(S)
        /\ Len(SubSeq(s, 1, i - 1)) = IF 1 <= i - 1 THEN (i - 1) - 1 + 1 ELSE 0
        /\ \A k \in 1 .. (i - 1) - 1 + 1 : SubSeq(s, 1, i - 1)[k] = s[1 + k - 1]
    BY <2>1, SubSeqProperties
  <2> QED
    BY <1>1, <1>3, <2>2
<1>5. /\ back \in Seq(S) /\ Len(back) = n - i
      /\ \A k \in 1 .. n - i : back[k] = s[i + k]
  <2>1. \A k \in i + 1 .. n : s[k] \in S
    BY <1>1, <1>2
  <2>2. /\ SubSeq(s, i + 1, n) \in Seq(S)
        /\ Len(SubSeq(s, i + 1, n)) = IF i + 1 <= n THEN n - (i + 1) + 1 ELSE 0
        /\ \A k \in 1 .. n - (i + 1) + 1 : SubSeq(s, i + 1, n)[k] = s[(i + 1) + k - 1]
    BY <1>1, <2>1, SubSeqProperties
  <2>3. /\ n - (i + 1) + 1 = n - i /\ (i + 1 <= n \/ n - i = 0)
        /\ \A k \in 1 .. n - i : (i + 1) + k - 1 = i + k
    BY <1>1
  <2>4. back \in Seq(S) /\ Len(back) = n - i
    BY <1>3, <2>2, <2>3
  <2>5. \A k \in 1 .. n - i : back[k] = s[i + k]
    BY <1>3, <2>2, <2>3
  <2> QED
    BY <2>4, <2>5
<1>6. PICK t : t = RemoveAt(s, i)
  OBVIOUS
<1>7. t = front \o back
  BY <1>1, <1>3, <1>6 DEF RemoveAt
<1>8. /\ t \in Seq(S) /\ Len(t) = n - 1
      /\ \A k \in 1 .. n - 1 : t[k] = IF k < i THEN s[k] ELSE s[k + 1]
  <2>1. /\ t \in Seq(S) /\ Len(t) = (i - 1) + (n - i)
        /\ \A k \in 1 .. (i - 1) + (n - i) :
              t[k] = IF k <= i - 1 THEN front[k] ELSE back[k - (i - 1)]
    <3>1. /\ front \o back \in Seq(S) /\ Len(front \o back) = Len(front) + Len(back)
          /\ \A k \in 1 .. Len(front) + Len(back) :
                (front \o back)[k] = IF k <= Len(front) THEN front[k] ELSE back[k - Len(front)]
      BY <1>4, <1>5, ConcatProperties
    <3> QED
      BY <1>4, <1>5, <1>7, <3>1
  <2>2. (i - 1) + (n - i) = n - 1
    BY <1>1
  <2>3. \A k \in 1 .. n - 1 : t[k] = IF k < i THEN s[k] ELSE s[k + 1]
    <3> SUFFICES ASSUME NEW k \in 1 .. n - 1
                 PROVE  t[k] = IF k < i THEN s[k] ELSE s[k + 1]
      OBVIOUS
    <3>1. CASE k < i
      <4>1. k \in 1 .. i - 1 /\ k \in 1 .. (i - 1) + (n - i) /\ k <= i - 1
        BY <1>1, <3>1
      <4> QED
        BY <1>4, <2>1, <3>1, <4>1
    <3>2. CASE ~(k < i)
      <4>1. k - (i - 1) \in 1 .. n - i /\ i + (k - (i - 1)) = k + 1 /\ ~(k <= i - 1)
        BY <1>1, <3>2
      <4> QED
        BY <1>5, <2>1, <2>2, <3>2, <4>1
    <3> QED
      BY <3>1, <3>2
  <2> QED
    BY <2>1, <2>2, <2>3
\* Where the members of the rest stand in s.
<1>9. \A k \in 1 .. n - 1 : \E m \in (1 .. n) \ {i} : m = (IF k < i THEN k ELSE k + 1) /\ t[k] = s[m]
  BY <1>1, <1>8
<1>10. \A m \in (1 .. n) \ {i} : \E k \in 1 .. n - 1 : t[k] = s[m]
  <2>1. TAKE m \in (1 .. n) \ {i}
  <2>2. CASE m < i
    BY <1>1, <1>8, <2>2
  <2>3. CASE m > i
    <3>1. m - 1 \in 1 .. n - 1 /\ ~(m - 1 < i) /\ (m - 1) + 1 = m
      BY <1>1, <2>3
    <3> QED
      BY <1>8, <3>1
  <2> QED
    BY <1>1, <2>2, <2>3
<1>11. Unique(t)
  <2> SUFFICES ASSUME NEW k \in 1 .. n - 1, NEW l \in 1 .. n - 1, t[k] = t[l] PROVE k = l
    BY <1>8 DEF Unique
  <2>1. PICK m \in (1 .. n) \ {i} : m = (IF k < i THEN k ELSE k + 1) /\ t[k] = s[m]
    BY <1>9
  <2>2. PICK p \in (1 .. n) \ {i} : p = (IF l < i THEN l ELSE l + 1) /\ t[l] = s[p]
    BY <1>9
  <2>3. m = p
    BY <1>1, <2>1, <2>2 DEF Unique
  <2> QED
    BY <1>1, <2>1, <2>2, <2>3
<1>12. \A x : Contains(t, x) <=> Contains(s, x) /\ x # s[i]
  <2>1. TAKE x
  <2>2. ASSUME Contains(t, x) PROVE Contains(s, x) /\ x # s[i]
    <3>1. PICK k \in 1 .. n - 1 : t[k] = x
      BY <1>8, <2>2 DEF Contains
    <3>2. PICK m \in (1 .. n) \ {i} : x = s[m]
      BY <1>9, <3>1
    <3> QED
      BY <1>1, <3>2 DEF Contains, Unique
  <2>3. ASSUME Contains(s, x), x # s[i] PROVE Contains(t, x)
    <3>1. PICK m \in 1 .. n : s[m] = x
      BY <1>1, <2>3 DEF Contains
    <3>2. PICK k \in 1 .. n - 1 : t[k] = x
      BY <1>10, <2>3, <3>1
    <3> QED
      BY <1>8, <3>2 DEF Contains
  <2> QED
    BY <2>2, <2>3
<1> QED
  BY <1>1, <1>6, <1>8, <1>11, <1>12

LEMMA Taking ==
    ASSUME NEW S, NEW s \in Seq(S), s # << >>, Unique(s)
    PROVE  /\ Head(s) \in S /\ Contains(s, Head(s))
           /\ Tail(s) \in Seq(S) /\ Unique(Tail(s))
           /\ \A x : Contains(Tail(s), x) <=> Contains(s, x) /\ x # Head(s)
<1>1. PICK n \in Nat : n = Len(s) /\ n > 0
  BY LenProperties, EmptySeq
<1>2. PICK t : t = Tail(s)
  OBVIOUS
<1>3. /\ Head(s) \in S /\ t \in Seq(S) /\ Len(t) = n - 1
      /\ \A i \in 1 .. n - 1 : t[i] = s[i + 1]
  BY <1>1, <1>2, HeadTailProperties
<1>4. Head(s) = s[1] /\ 1 \in 1 .. n
  BY <1>1
<1>5. Contains(s, Head(s))
  BY <1>1, <1>4 DEF Contains
<1>6. Unique(t)
  <2> SUFFICES ASSUME NEW i \in 1 .. n - 1, NEW j \in 1 .. n - 1, t[i] = t[j] PROVE i = j
    BY <1>3 DEF Unique
  <2>1. i + 1 \in 1 .. n /\ j + 1 \in 1 .. n
    BY <1>1
  <2> QED
    BY <1>1, <1>3, <2>1 DEF Unique
<1>7. \A x : Contains(t, x) <=> Contains(s, x) /\ x # Head(s)
  <2>1. TAKE x
  <2>2. ASSUME Contains(t, x) PROVE Contains(s, x) /\ x # Head(s)
    <3>1. PICK i \in 1 .. n - 1 : t[i] = x
      BY <1>3, <2>2 DEF Contains
    <3>2. i + 1 \in 1 .. n /\ i + 1 # 1 /\ s[i + 1] = x
      BY <1>1, <1>3, <3>1
    <3> QED
      BY <1>1, <1>4, <3>2 DEF Contains, Unique
  <2>3. ASSUME Contains(s, x), x # Head(s) PROVE Contains(t, x)
    <3>1. PICK m \in 1 .. n : s[m] = x
      BY <1>1, <2>3 DEF Contains
    <3>2. m - 1 \in 1 .. n - 1 /\ t[m - 1] = x
      BY <1>1, <1>3, <1>4, <2>3, <3>1
    <3> QED
      BY <1>3, <3>2 DEF Contains
  <2> QED
    BY <2>2, <2>3
<1> QED
  BY <1>2, <1>3, <1>5, <1>6, <1>7

LEMMA NothingContained ==
    ASSUME NEW S, NEW s \in Seq(S)
    PROVE  s = << >> <=> \A x : ~Contains(s, x)
<1>1. PICK n \in Nat : n = Len(s)
  BY LenProperties
<1>2. s = << >> <=> n = 0
  BY <1>1, EmptySeq
<1>3. n = 0 => \A x : ~Contains(s, x)
  BY <1>1 DEF Contains
<1>4. n # 0 => Contains(s, s[1])
  <2>1. n # 0 => 1 \in 1 .. n
    BY <1>1
  <2> QED
    BY <1>1, <2>1 DEF Contains
<1> QED
  BY <1>2, <1>3, <1>4
-----------------------------------------------------------------------------
(* What the operators of the application do to a query.                     *)

LEMMA BegunIs ==
    ASSUME QueryTypes, NEW q \in Query
    PROVE  /\ Begun(q) \in [Query -> QueryRecord]
           /\ \A p \in Query \ {q} : Begun(q)[p] = query[p]
           /\ Begun(q)[q].mQuery = "allocated" /\ Begun(q)[q].building = TRUE
           /\ Begun(q)[q].data = 0 /\ Begun(q)[q].reference = query[q].reference
<1>1. PICK x : x = [query[q] EXCEPT !.mQuery = "allocated", !.building = TRUE, !.data = 0]
  OBVIOUS
<1>2. Begun(q) = [query EXCEPT ![q] = x]
  BY <1>1 DEF Begun, QueryTypes
<1>3. query[q] \in QueryRecord
  BY DEF QueryTypes
<1>4. /\ x \in QueryRecord /\ x.mQuery = "allocated" /\ x.building = TRUE
      /\ x.data = 0 /\ x.reference = query[q].reference
  BY <1>1, <1>3 DEF QueryRecord
<1> QED
  BY <1>2, <1>4 DEF QueryTypes

LEMMA EndedIs ==
    ASSUME QueryTypes, NEW q \in Query
    PROVE  /\ Ended(q) \in [Query -> QueryRecord]
           /\ \A p \in Query \ {q} : Ended(q)[p] = query[p]
           /\ Ended(q)[q].mQuery = query[q].mQuery /\ Ended(q)[q].building = FALSE
           /\ Ended(q)[q].data = query[q].data /\ Ended(q)[q].reference = query[q].reference
           /\ Ended(q)[q].mStatus = FALSE
<1>1. PICK x : x = [query[q] EXCEPT !.building = FALSE, !.mStatus = FALSE, !.mResult = FALSE]
  OBVIOUS
<1>2. Ended(q) = [query EXCEPT ![q] = x]
  BY <1>1 DEF Ended, QueryTypes
<1>3. query[q] \in QueryRecord
  BY DEF QueryTypes
<1>4. /\ x \in QueryRecord /\ x.mQuery = query[q].mQuery /\ x.building = FALSE
      /\ x.data = query[q].data /\ x.reference = query[q].reference /\ x.mStatus = FALSE
  BY <1>1, <1>3 DEF QueryRecord
<1> QED
  BY <1>2, <1>4 DEF QueryTypes

LEMMA TestedIs ==
    ASSUME QueryTypes, NEW q, testQuery(q)
    PROVE  /\ q \in Query
           /\ query' \in [Query -> QueryRecord]
           /\ \A p \in Query \ {q} : query'[p] = query[p]
           /\ query'[q].mQuery = query[q].mQuery /\ query'[q].building = query[q].building
           /\ query'[q].data = query[q].data /\ query'[q].reference = query[q].reference
           /\ query'[q].mStatus = TRUE /\ query'[q].mResult = (query[q].data > 0)
<1>1. q \in Query
  BY DEF testQuery, QueryTypes
<1>2. PICK more \in BOOLEAN : more = (query[q].data > 0)
  <2>1. (query[q].data > 0) \in BOOLEAN
    OBVIOUS
  <2> QED
    BY <2>1, Zenon
<1>3. PICK x : x = [query[q] EXCEPT !.mStatus = TRUE, !.mResult = more]
  OBVIOUS
<1>4. query' = [query EXCEPT ![q] = x]
  BY <1>2, <1>3 DEF testQuery, QueryTypes
<1>5. query[q] \in QueryRecord
  BY <1>1 DEF QueryTypes
<1>6. /\ x \in QueryRecord /\ x.mQuery = query[q].mQuery /\ x.building = query[q].building
      /\ x.data = query[q].data /\ x.reference = query[q].reference
      /\ x.mStatus = TRUE /\ x.mResult = more
  BY <1>3, <1>5 DEF QueryRecord
<1> QED
  BY <1>1, <1>2, <1>4, <1>6 DEF QueryTypes

\* The list without a query of it.
LEMMA RemovedIs ==
    ASSUME QueryTypes, ListInv, NEW q \in Query
    PROVE  /\ removeQuery(q) \in Seq(Query) /\ Unique(removeQuery(q))
           /\ \A x : Contains(removeQuery(q), x) <=> Contains(queries, x) /\ x # q
           /\ ~Contains(queries, q) => removeQuery(q) = queries
<1>1. CASE Contains(queries, q)
  <2>1. PICK i : i = CHOOSE j \in DOMAIN queries : queries[j] = q
    OBVIOUS
  <2>2. DOMAIN queries = 1 .. Len(queries)
    BY LenProperties DEF QueryTypes
  <2>3. \E j \in DOMAIN queries : queries[j] = q
    BY <1>1, <2>2 DEF Contains
  <2>4. i \in 1 .. Len(queries) /\ queries[i] = q
    BY <2>1, <2>2, <2>3
  <2>5. removeQuery(q) = RemoveAt(queries, i)
    BY <1>1, <2>1 DEF removeQuery
  <2>6. queries \in Seq(Query) /\ Unique(queries)
    BY DEF QueryTypes, ListInv
  <2>7. /\ RemoveAt(queries, i) \in Seq(Query) /\ Unique(RemoveAt(queries, i))
        /\ \A x : Contains(RemoveAt(queries, i), x) <=> Contains(queries, x) /\ x # queries[i]
    BY <2>4, <2>6, Shortening
  <2> QED
    BY <1>1, <2>4, <2>5, <2>7
<1>2. CASE ~Contains(queries, q)
  BY <1>2 DEF removeQuery, QueryTypes, ListInv
<1> QED
  BY <1>1, <1>2

LEMMA HoldersFinite ==
    ASSUME Awaited, NEW q
    PROVE  /\ IsFiniteSet(Holders(q)) /\ Cardinality(Holders(q)) \in Nat
           /\ Cardinality(Holders(q)) = 0 <=> Holders(q) = {}
<1>1. IsFiniteSet(DrawCall)
  BY FS_Interval DEF DrawCall, Awaited
<1>2. IsFiniteSet(Holders(q))
  BY <1>1, FS_Subset DEF Holders
<1> QED
  BY <1>2, FS_CardinalityType, FS_EmptySet

\* No draw call holds a query whose result is there.
LEMMA Reusable ==
    ASSUME Awaited, HoldInv, NEW q \in Query, MayReuse(q)
    PROVE  /\ query[q].mQuery \in {"null", "allocated"} /\ q \notin activeQuery
           /\ Holders(q) = {} /\ query[q].reference = 0
<1>1. query[q].mQuery = "null" \/ Available(q)
  BY DEF MayReuse, Awaited
<1>2. q \notin activeQuery
  BY <1>1 DEF Available, HoldInv, ListInv
<1>3. Holders(q) = {}
  <2>1. CASE query[q].mQuery = "null"
    BY <2>1 DEF HoldInv, HeldInv
  <2>2. CASE Available(q)
    BY <2>2, HoldersFinite DEF Available, HoldInv, HeldInv
  <2> QED
    BY <1>1, <2>1, <2>2
<1>4. query[q].reference = 0
  BY <1>3, FS_EmptySet DEF HoldInv, HeldInv
<1> QED
  BY <1>1, <1>2, <1>3, <1>4 DEF Available

LEMMA NotReused ==
    ASSUME Awaited, HoldInv, NEW q \in Query, q \in activeQuery
    PROVE  ~MayReuse(q)
  BY Reusable

\* Steps that leave the draw calls alone.
LEMMA HeldStays ==
    ASSUME HeldInv, UNCHANGED draw,
           \A p \in Query : /\ query'[p].reference = query[p].reference
                            /\ Holders(p) # {} => query'[p].mQuery = query[p].mQuery
    PROVE  HeldInv' /\ \A p : Holders(p)' = Holders(p)
<1>1. \A p : Holders(p)' = Holders(p)
  BY DEF Holders
<1> QED
  BY <1>1 DEF HeldInv
-----------------------------------------------------------------------------
(* The steps of the application                                             *)

LEMMA BeginHolds ==
    ASSUME Awaited, HoldInv, NEW q \in Query, beginQuery(q)
    PROVE  HoldInv'
<1>1. /\ q \in named /\ q \notin activeQuery /\ MayReuse(q)
      /\ query' = Begun(q) /\ activeQuery' = activeQuery \cup {q}
      /\ queries' = Append(queries, q) /\ passed' = [passed EXCEPT ![q] = 0]
      /\ occlusionEnabled' = TRUE
      /\ UNCHANGED <<named, draw, occlusion>>
  BY DEF beginQuery
<1>2. QueryTypes /\ ListInv /\ HeldInv
  BY DEF HoldInv
<1>3. /\ query' \in [Query -> QueryRecord]
      /\ \A p \in Query \ {q} : query'[p] = query[p]
      /\ query'[q].mQuery = "allocated" /\ query'[q].building = TRUE
      /\ query'[q].reference = query[q].reference
  BY <1>1, <1>2, BegunIs
<1>4. ~Contains(queries, q)
  BY <1>1, <1>2 DEF ListInv
<1>5. /\ queries' \in Seq(Query) /\ Unique(queries')
      /\ \A x : Contains(queries', x) <=> Contains(queries, x) \/ x = q
  BY <1>1, <1>2, <1>4, Appending DEF QueryTypes, ListInv
<1>6. QueryTypes'
  BY <1>1, <1>2, <1>3, <1>5 DEF QueryTypes
<1>7. ListInv'
  <2>1. \A p \in Query : Contains(queries', p) <=> p \in activeQuery'
    BY <1>1, <1>2, <1>5 DEF ListInv
  <2>2. \A p \in activeQuery' : /\ p \in named'
                                /\ query'[p].mQuery = "allocated" /\ query'[p].building
    BY <1>1, <1>2, <1>3 DEF ListInv, QueryTypes
  <2> QED
    BY <1>5, <2>1, <2>2 DEF ListInv
<1>8. HeldInv'
  <2>1. Holders(q) = {}
    BY <1>1, Reusable
  <2> QED
    BY <1>1, <1>2, <1>3, <2>1, HeldStays
<1> QED
  BY <1>6, <1>7, <1>8 DEF HoldInv

LEMMA EndHolds ==
    ASSUME Awaited, HoldInv, NEW q \in Query, endQuery(q)
    PROVE  HoldInv' /\ query' = Ended(q)
<1>1. QueryTypes /\ ListInv /\ HeldInv
  BY DEF HoldInv
<1>2. q \in activeQuery /\ q \in named
  BY <1>1 DEF endQuery, ListInv
<1>3. /\ query' = Ended(q) /\ activeQuery' = activeQuery \ {q}
      /\ queries' = removeQuery(q) /\ occlusionEnabled' = FALSE
      /\ UNCHANGED <<named, draw, occlusion, passed>>
  BY <1>2 DEF endQuery
<1>4. /\ query' \in [Query -> QueryRecord]
      /\ \A p \in Query \ {q} : query'[p] = query[p]
      /\ query'[q].mQuery = query[q].mQuery
      /\ query'[q].reference = query[q].reference
  BY <1>1, <1>3, EndedIs
<1>5. /\ queries' \in Seq(Query) /\ Unique(queries')
      /\ \A x : Contains(queries', x) <=> Contains(queries, x) /\ x # q
  BY <1>1, <1>3, RemovedIs
<1>6. QueryTypes'
  BY <1>1, <1>3, <1>4, <1>5 DEF QueryTypes
<1>7. ListInv'
  <2>1. \A p \in Query : Contains(queries', p) <=> p \in activeQuery'
    BY <1>1, <1>3, <1>5 DEF ListInv
  <2>2. \A p \in activeQuery' : /\ p \in named'
                                /\ query'[p].mQuery = "allocated" /\ query'[p].building
    BY <1>1, <1>3, <1>4 DEF ListInv, QueryTypes
  <2> QED
    BY <1>5, <2>1, <2>2 DEF ListInv
<1>8. HeldInv'
  BY <1>1, <1>3, <1>4, HeldStays
<1> QED
  BY <1>3, <1>6, <1>7, <1>8 DEF HoldInv

LEMMA TestHolds ==
    ASSUME HoldInv, NEW q \in Query, testQuery(q)
    PROVE  HoldInv'
<1>1. QueryTypes /\ ListInv /\ HeldInv
  BY DEF HoldInv
<1>2. UNCHANGED <<named, activeQuery, queries, occlusionEnabled, draw, occlusion, passed>>
  BY DEF testQuery
<1>3. /\ query' \in [Query -> QueryRecord]
      /\ \A p \in Query \ {q} : query'[p] = query[p]
      /\ query'[q].mQuery = query[q].mQuery /\ query'[q].building = query[q].building
      /\ query'[q].reference = query[q].reference
  BY <1>1, TestedIs
<1>4. QueryTypes'
  BY <1>1, <1>2, <1>3 DEF QueryTypes
<1>5. ListInv'
  BY <1>1, <1>2, <1>3 DEF ListInv, QueryTypes
<1>6. HeldInv'
  BY <1>1, <1>2, <1>3, HeldStays
<1> QED
  BY <1>4, <1>5, <1>6 DEF HoldInv

\* An active query is building, and so it is not deleted.
LEMMA DeleteHolds ==
    ASSUME Awaited, HoldInv, NEW q \in Query, deleteQuery(q)
    PROVE  /\ HoldInv'
           /\ query' = [query EXCEPT ![q].mQuery = "freed"]
           /\ UNCHANGED <<activeQuery, queries, occlusionEnabled, draw, occlusion, passed>>
<1>1. QueryTypes /\ ListInv /\ HeldInv
  BY DEF HoldInv
<1>2. /\ q \notin activeQuery /\ Holders(q) = {} /\ query[q].reference = 0
  BY Reusable DEF deleteQuery
<1>3. ~Contains(queries, q)
  BY <1>1, <1>2 DEF ListInv
<1>4. /\ named' = named \ {q} /\ query' = [query EXCEPT ![q].mQuery = "freed"]
      /\ UNCHANGED <<activeQuery, queries, occlusionEnabled, draw, occlusion, passed>>
  <2>1. removeQuery(q) = queries /\ activeQuery \ {q} = activeQuery
    BY <1>1, <1>2, <1>3, RemovedIs
  <2> QED
    BY <1>2, <2>1 DEF deleteQuery
<1>5. PICK x : x = [query[q] EXCEPT !.mQuery = "freed"]
  OBVIOUS
<1>6. query' = [query EXCEPT ![q] = x]
  BY <1>1, <1>4, <1>5 DEF QueryTypes
<1>7. x \in QueryRecord /\ x.reference = query[q].reference
  BY <1>1, <1>5 DEF QueryTypes, QueryRecord
<1>8. /\ query' \in [Query -> QueryRecord]
      /\ \A p \in Query \ {q} : query'[p] = query[p]
      /\ query'[q].reference = query[q].reference
  BY <1>1, <1>6, <1>7 DEF QueryTypes
<1>9. QueryTypes'
  BY <1>1, <1>4, <1>8 DEF QueryTypes
<1>10. ListInv'
  BY <1>1, <1>2, <1>4, <1>8 DEF ListInv, QueryTypes
<1>11. HeldInv'
  BY <1>1, <1>2, <1>4, <1>8, HeldStays
<1> QED
  BY <1>4, <1>9, <1>10, <1>11 DEF HoldInv
-----------------------------------------------------------------------------
(* The steps of draw calls                                                  *)

\* What a submission does.
LEMMA SubmitIs ==
    ASSUME Awaited, HoldInv, NEW d \in DrawCall, NEW passes \in ClusterCounts, submit(d, passes)
    PROVE  /\ draw[d].phase = "free" /\ draw[d].queries = << >>
           /\ query' \in [Query -> QueryRecord]
           /\ \A q \in Query :
                 /\ query'[q].mQuery = query[q].mQuery /\ query'[q].building = query[q].building
                 /\ query'[q].data = query[q].data /\ query'[q].mStatus = query[q].mStatus
                 /\ query'[q].mResult = query[q].mResult
                 /\ query'[q].reference = IF q \in activeQuery THEN query[q].reference + 1
                                          ELSE query[q].reference
           /\ draw' \in [DrawCall -> DrawRecord]
           /\ \A e \in DrawCall \ {d} : draw'[e] = draw[e]
           /\ draw'[d].phase = "queued" /\ draw'[d].queries = queries
           /\ draw'[d].counting = occlusionEnabled
           /\ draw'[d].passes = passes /\ draw'[d].cluster = 1
<1>1. QueryTypes /\ ListInv /\ HeldInv
  BY DEF HoldInv
<1>2. draw[d].phase = "free" /\ draw[d].queries = << >>
  BY <1>1 DEF submit, InFlight, HeldInv
<1>3. query' = [q \in Query |-> IF q \in activeQuery
                                THEN [query[q] EXCEPT !.reference = @ + 1] ELSE query[q]]
  BY <1>1 DEF submit, Referenced, ListInv
<1>4. ASSUME NEW q \in Query
      PROVE  /\ query'[q] \in QueryRecord
             /\ query'[q].mQuery = query[q].mQuery /\ query'[q].building = query[q].building
             /\ query'[q].data = query[q].data /\ query'[q].mStatus = query[q].mStatus
             /\ query'[q].mResult = query[q].mResult
             /\ query'[q].reference = IF q \in activeQuery THEN query[q].reference + 1
                                      ELSE query[q].reference
  <2>1. query[q] \in QueryRecord
    BY <1>1 DEF QueryTypes
  <2>2. CASE q \in activeQuery
    <3>1. PICK x : x = query[q]
      OBVIOUS
    <3>2. query'[q] = [x EXCEPT !.reference = x.reference + 1]
      BY <1>3, <2>2, <3>1
    <3> QED
      BY <2>1, <2>2, <3>1, <3>2 DEF QueryRecord
  <2>3. CASE q \notin activeQuery
    BY <1>3, <2>1, <2>3
  <2> QED
    BY <2>2, <2>3
<1>5. PICK x : x = [phase |-> "queued", queries |-> queries, counting |-> occlusionEnabled,
                    passes |-> passes, cluster |-> 1]
  OBVIOUS
<1>6. draw' = [draw EXCEPT ![d] = x] /\ DOMAIN draw = DrawCall
  BY <1>1, <1>5 DEF submit, QueryTypes
<1>7. x \in DrawRecord
  BY <1>1, <1>5 DEF QueryTypes, DrawRecord, Awaited
<1>8. /\ draw' \in [DrawCall -> DrawRecord] /\ draw'[d] = x
      /\ \A e \in DrawCall \ {d} : draw'[e] = draw[e]
  BY <1>1, <1>6, <1>7 DEF QueryTypes
<1>9. query' \in [Query -> QueryRecord]
  BY <1>3, <1>4
<1> QED
  BY <1>2, <1>4, <1>5, <1>8, <1>9

LEMMA SubmitHolds ==
    ASSUME Awaited, HoldInv, NEW d \in DrawCall, NEW passes \in ClusterCounts, submit(d, passes)
    PROVE  HoldInv'
<1>1. QueryTypes /\ ListInv /\ HeldInv
  BY DEF HoldInv
<1>2. /\ draw[d].phase = "free" /\ draw[d].queries = << >>
      /\ query' \in [Query -> QueryRecord]
      /\ \A q \in Query :
            /\ query'[q].mQuery = query[q].mQuery /\ query'[q].building = query[q].building
            /\ query'[q].reference = IF q \in activeQuery THEN query[q].reference + 1
                                     ELSE query[q].reference
      /\ draw' \in [DrawCall -> DrawRecord]
      /\ \A e \in DrawCall \ {d} : draw'[e] = draw[e]
      /\ draw'[d].phase = "queued" /\ draw'[d].queries = queries
  BY SubmitIs
<1>3. UNCHANGED <<named, activeQuery, queries, occlusionEnabled>>
  BY DEF submit
<1>4. QueryTypes'
  <2>1. occlusion' \in [DrawCall -> ClusterCounts]
    <3>1. PICK zeros : zeros = [c \in Cluster |-> 0]
      OBVIOUS
    <3>2. zeros \in ClusterCounts
      BY <3>1 DEF ClusterCounts
    <3>3. occlusion' = occlusion \/ occlusion' = [occlusion EXCEPT ![d] = zeros]
      BY <3>1 DEF submit, ClearedCounts
    <3> QED
      BY <1>1, <3>2, <3>3 DEF QueryTypes
  <2>2. passed' \in [Query -> Nat]
    <3>1. passes \in [1 .. clusterCount -> Nat]
      BY DEF ClusterCounts, Cluster
    <3>2. SumTo(passes, clusterCount) \in Nat
      BY <3>1, SumOfNats DEF Awaited
    <3>3. Total(passes) = SumTo(passes, clusterCount)
      BY DEF Total, SumTo
    <3>4. PICK n \in Nat : n = Total(passes)
      BY <3>2, <3>3
    <3>5. passed' = [q \in Query |-> IF q \in activeQuery THEN passed[q] + n ELSE passed[q]]
      BY <3>4 DEF submit
    <3> QED
      BY <1>1, <3>5 DEF QueryTypes
  <2> QED
    BY <1>1, <1>2, <1>3, <2>1, <2>2 DEF QueryTypes
<1>5. ListInv'
  BY <1>1, <1>2, <1>3 DEF ListInv, QueryTypes
<1>6. \A q \in Query : Holders(q)' = IF q \in activeQuery THEN Holders(q) \cup {d} ELSE Holders(q)
  <2>1. TAKE q \in Query
  <2>2. ~Contains(draw[d].queries, q)
    <3>1. Len(<< >>) = 0
      BY EmptySeq
    <3> QED
      BY <1>2, <3>1 DEF Contains
  <2>3. Contains(draw'[d].queries, q) <=> q \in activeQuery
    BY <1>1, <1>2 DEF ListInv
  <2> QED
    BY <1>2, <2>2, <2>3 DEF Holders
<1>7. \A q \in Query : d \notin Holders(q)
  <2>1. Len(<< >>) = 0
    BY EmptySeq
  <2> QED
    BY <1>2, <2>1 DEF Contains, Holders
<1>8. ASSUME NEW q \in Query
      PROVE  /\ query'[q].reference = Cardinality(Holders(q)')
             /\ Holders(q)' # {} => query'[q].mQuery = "allocated"
  <2>1. CASE q \in activeQuery
    <3>1. Cardinality(Holders(q)') = Cardinality(Holders(q)) + 1
      BY <1>6, <1>7, <2>1, HoldersFinite, FS_AddElement
    <3> QED
      BY <1>1, <1>2, <2>1, <3>1 DEF HeldInv, ListInv
  <2>2. CASE q \notin activeQuery
    BY <1>1, <1>2, <1>6, <2>2 DEF HeldInv
  <2> QED
    BY <2>1, <2>2
<1>9. ASSUME NEW e \in DrawCall
      PROVE  /\ Unique(draw'[e].queries)
             /\ draw'[e].phase = "free" => draw'[e].queries = << >>
  <2>1. CASE e = d
    BY <1>1, <1>2, <2>1 DEF ListInv
  <2>2. CASE e # d
    BY <1>1, <1>2, <2>2 DEF HeldInv
  <2> QED
    BY <2>1, <2>2
<1>10. HeldInv'
  BY <1>8, <1>9 DEF HeldInv
<1> QED
  BY <1>4, <1>5, <1>10 DEF HoldInv

\* Steps of a draw call that leave the queries it holds alone.
LEMMA HoldsStill ==
    ASSUME HeldInv, NEW d \in DrawCall, draw' \in [DrawCall -> DrawRecord],
           \A e \in DrawCall \ {d} : draw'[e] = draw[e],
           draw'[d].queries = draw[d].queries,
           draw'[d].phase = "free" => draw[d].queries = << >>,
           \A p \in Query : /\ query'[p].reference = query[p].reference
                            /\ query'[p].mQuery = query[p].mQuery
    PROVE  HeldInv' /\ \A p : Holders(p)' = Holders(p)
<1>1. \A e \in DrawCall : draw'[e].queries = draw[e].queries
  OBVIOUS
<1>2. \A p : Holders(p)' = Holders(p)
  BY <1>1 DEF Holders
<1>3. \A e \in DrawCall : /\ Unique(draw'[e].queries)
                          /\ draw'[e].phase = "free" => draw'[e].queries = << >>
  BY <1>1 DEF HeldInv
<1> QED
  BY <1>2, <1>3 DEF HeldInv

LEMMA RenderIs ==
    ASSUME QueryTypes, NEW d \in DrawCall, render(d)
    PROVE  /\ draw[d].phase = "queued"
           /\ draw' \in [DrawCall -> DrawRecord]
           /\ \A e \in DrawCall \ {d} : draw'[e] = draw[e] /\ occlusion'[e] = occlusion[e]
           /\ draw'[d].phase = "retiring" /\ draw'[d].queries = draw[d].queries
           /\ draw'[d].counting = draw[d].counting /\ draw'[d].passes = draw[d].passes
           /\ draw'[d].cluster = draw[d].cluster
           /\ occlusion' \in [DrawCall -> ClusterCounts]
           /\ draw[d].counting => \A c \in Cluster :
                 occlusion'[d][c] = occlusion[d][c] + draw[d].passes[c]
<1>1. draw[d] \in DrawRecord /\ occlusion[d] \in ClusterCounts
  BY DEF QueryTypes
<1>2. PICK x : x = [draw[d] EXCEPT !.phase = "retiring"]
  OBVIOUS
<1>3. draw' = [draw EXCEPT ![d] = x]
  BY <1>2 DEF render, QueryTypes
<1>4. /\ x \in DrawRecord /\ x.phase = "retiring" /\ x.queries = draw[d].queries
      /\ x.counting = draw[d].counting /\ x.passes = draw[d].passes
      /\ x.cluster = draw[d].cluster
  BY <1>1, <1>2 DEF DrawRecord
<1>5. PICK passes \in ClusterCounts : passes = draw[d].passes
  BY <1>1 DEF DrawRecord
<1>6. PICK sums : sums = [c \in Cluster |-> occlusion[d][c] + passes[c]]
  OBVIOUS
<1>7. sums \in ClusterCounts /\ \A c \in Cluster : sums[c] = occlusion[d][c] + passes[c]
  BY <1>1, <1>5, <1>6 DEF ClusterCounts
<1>8. occlusion' = IF draw[d].counting THEN [occlusion EXCEPT ![d] = sums] ELSE occlusion
  BY <1>5, <1>6 DEF render, QueryTypes
<1>9. draw[d].counting \in BOOLEAN
  BY <1>1 DEF DrawRecord
<1>10. /\ occlusion' \in [DrawCall -> ClusterCounts]
       /\ \A e \in DrawCall \ {d} : occlusion'[e] = occlusion[e]
       /\ draw[d].counting => occlusion'[d] = sums
  BY <1>7, <1>8, <1>9 DEF QueryTypes
<1>11. draw[d].phase = "queued"
  BY DEF render
<1>12. /\ draw' \in [DrawCall -> DrawRecord] /\ draw'[d] = x
       /\ \A e \in DrawCall \ {d} : draw'[e] = draw[e]
  BY <1>3, <1>4 DEF QueryTypes
<1> QED
  BY <1>4, <1>5, <1>7, <1>10, <1>11, <1>12

LEMMA RenderHolds ==
    ASSUME HoldInv, NEW d \in DrawCall, render(d)
    PROVE  HoldInv'
<1>1. QueryTypes /\ ListInv /\ HeldInv
  BY DEF HoldInv
<1>2. UNCHANGED <<query, named, activeQuery, queries, occlusionEnabled, passed>>
  BY DEF render
<1>3. /\ draw' \in [DrawCall -> DrawRecord] /\ occlusion' \in [DrawCall -> ClusterCounts]
      /\ \A e \in DrawCall \ {d} : draw'[e] = draw[e]
      /\ draw'[d].phase = "retiring" /\ draw'[d].queries = draw[d].queries
  BY <1>1, RenderIs
<1>4. QueryTypes'
  BY <1>1, <1>2, <1>3 DEF QueryTypes
<1>5. ListInv'
  BY <1>1, <1>2 DEF ListInv
<1>6. HeldInv'
  BY <1>1, <1>2, <1>3, HoldsStill
<1> QED
  BY <1>4, <1>5, <1>6 DEF HoldInv

\* A count is added to a query that waits for it.
LEMMA AddIs ==
    ASSUME Awaited, HoldInv, NEW d \in DrawCall, addOcclusion(d)
    PROVE  \E q \in Query, n \in Nat :
             /\ q = Head(draw[d].queries) /\ Contains(draw[d].queries, q)
             /\ draw[d].phase = "retiring" /\ draw[d].cluster \in Cluster
             /\ n = occlusion[d][draw[d].cluster]
             /\ query' \in [Query -> QueryRecord]
             /\ \A p \in Query \ {q} : query'[p] = query[p]
             /\ query'[q].data = query[q].data + n
             /\ query'[q].mQuery = query[q].mQuery /\ query'[q].building = query[q].building
             /\ query'[q].reference = query[q].reference
             /\ query'[q].mStatus = query[q].mStatus /\ query'[q].mResult = query[q].mResult
             /\ draw' \in [DrawCall -> DrawRecord]
             /\ \A e \in DrawCall \ {d} : draw'[e] = draw[e]
             /\ draw'[d].phase = "retiring" /\ draw'[d].queries = draw[d].queries
             /\ draw'[d].counting = draw[d].counting /\ draw'[d].passes = draw[d].passes
             /\ draw'[d].cluster = draw[d].cluster + 1
<1>1. QueryTypes /\ HeldInv
  BY DEF HoldInv
<1>2. draw[d] \in DrawRecord /\ occlusion[d] \in ClusterCounts
  BY <1>1 DEF QueryTypes
<1>3. draw[d].queries \in Seq(Query) /\ draw[d].queries # << >> /\ Unique(draw[d].queries)
  BY <1>1, <1>2 DEF DrawRecord, HeldInv, addOcclusion
<1>4. PICK q \in Query : q = Head(draw[d].queries) /\ Contains(draw[d].queries, q)
  BY <1>3, Taking
<1>5. draw[d].phase = "retiring" /\ draw[d].cluster \in Cluster
  BY DEF addOcclusion
<1>6. PICK n \in Nat : n = occlusion[d][draw[d].cluster]
  BY <1>2, <1>5 DEF ClusterCounts
<1>7. query[q] \in QueryRecord
  BY <1>1 DEF QueryTypes
<1>8. PICK x : x = [query[q] EXCEPT !.data = query[q].data + n]
  OBVIOUS
<1>9. query' = [query EXCEPT ![q] = x]
  BY <1>1, <1>4, <1>6, <1>8 DEF addOcclusion, QueryTypes
<1>10. /\ x \in QueryRecord /\ x.data = query[q].data + n
       /\ x.mQuery = query[q].mQuery /\ x.building = query[q].building
       /\ x.reference = query[q].reference
       /\ x.mStatus = query[q].mStatus /\ x.mResult = query[q].mResult
  BY <1>7, <1>8 DEF QueryRecord
<1>11. /\ query' \in [Query -> QueryRecord] /\ query'[q] = x
       /\ \A p \in Query \ {q} : query'[p] = query[p]
  BY <1>1, <1>9, <1>10 DEF QueryTypes
<1>12. PICK y : y = [draw[d] EXCEPT !.cluster = draw[d].cluster + 1]
  OBVIOUS
<1>13. draw' = [draw EXCEPT ![d] = y]
  BY <1>1, <1>12 DEF addOcclusion, QueryTypes
<1>14. draw[d].cluster + 1 \in 1 .. clusterCount + 1
  BY <1>5 DEF Cluster, Awaited
<1>15. /\ y \in DrawRecord /\ y.phase = draw[d].phase /\ y.queries = draw[d].queries
       /\ y.counting = draw[d].counting /\ y.passes = draw[d].passes
       /\ y.cluster = draw[d].cluster + 1
  BY <1>2, <1>12, <1>14 DEF DrawRecord
<1>16. /\ draw' \in [DrawCall -> DrawRecord] /\ draw'[d] = y
       /\ \A e \in DrawCall \ {d} : draw'[e] = draw[e]
  BY <1>1, <1>13, <1>15 DEF QueryTypes
<1> QED
  BY <1>4, <1>5, <1>6, <1>10, <1>11, <1>15, <1>16

LEMMA AddHolds ==
    ASSUME Awaited, HoldInv, NEW d \in DrawCall, addOcclusion(d)
    PROVE  HoldInv'
<1>1. QueryTypes /\ ListInv /\ HeldInv
  BY DEF HoldInv
<1>2. UNCHANGED <<named, activeQuery, queries, occlusionEnabled, occlusion, passed>>
  BY DEF addOcclusion
<1>3. /\ query' \in [Query -> QueryRecord]
      /\ \A p \in Query : /\ query'[p].reference = query[p].reference
                           /\ query'[p].mQuery = query[p].mQuery
                           /\ query'[p].building = query[p].building
      /\ draw' \in [DrawCall -> DrawRecord]
      /\ \A e \in DrawCall \ {d} : draw'[e] = draw[e]
      /\ draw'[d].phase = "retiring" /\ draw'[d].queries = draw[d].queries
  BY AddIs
<1>4. QueryTypes'
  BY <1>1, <1>2, <1>3 DEF QueryTypes
<1>5. ListInv'
  BY <1>1, <1>2, <1>3 DEF ListInv, QueryTypes
<1>6. HeldInv'
  BY <1>1, <1>3, HoldsStill
<1> QED
  BY <1>4, <1>5, <1>6 DEF HoldInv

LEMMA DropIs ==
    ASSUME Awaited, HoldInv, NEW d \in DrawCall, dropReference(d)
    PROVE  \E q \in Query :
             /\ q = Head(draw[d].queries) /\ Contains(draw[d].queries, q)
             /\ draw[d].phase = "retiring" /\ draw[d].cluster = clusterCount + 1
             /\ query' \in [Query -> QueryRecord]
             /\ \A p \in Query \ {q} : query'[p] = query[p]
             /\ query'[q].data = query[q].data
             /\ query'[q].mQuery = query[q].mQuery /\ query'[q].building = query[q].building
             /\ query'[q].reference = query[q].reference - 1
             /\ query'[q].mStatus = query[q].mStatus /\ query'[q].mResult = query[q].mResult
             /\ draw' \in [DrawCall -> DrawRecord]
             /\ \A e \in DrawCall \ {d} : draw'[e] = draw[e]
             /\ draw'[d].phase = "retiring" /\ draw'[d].queries = Tail(draw[d].queries)
             /\ draw'[d].counting = draw[d].counting /\ draw'[d].passes = draw[d].passes
             /\ draw'[d].cluster = 1
<1>1. QueryTypes /\ HeldInv
  BY DEF HoldInv
<1>2. draw[d] \in DrawRecord
  BY <1>1 DEF QueryTypes
<1>3. draw[d].queries \in Seq(Query) /\ draw[d].queries # << >> /\ Unique(draw[d].queries)
  BY <1>1, <1>2 DEF DrawRecord, HeldInv, dropReference
<1>4. PICK q \in Query : q = Head(draw[d].queries) /\ Contains(draw[d].queries, q)
  BY <1>3, Taking
<1>5. Tail(draw[d].queries) \in Seq(Query)
  BY <1>3, Taking
<1>6. draw[d].phase = "retiring" /\ draw[d].cluster = clusterCount + 1
  BY <1>2 DEF dropReference, DrawRecord, Cluster, Awaited
<1>7. query[q] \in QueryRecord
  BY <1>1 DEF QueryTypes
<1>8. query[q].reference - 1 \in Nat
  <2>1. d \in Holders(q)
    BY <1>4 DEF Holders
  <2>2. Cardinality(Holders(q)) # 0 /\ Cardinality(Holders(q)) \in Nat
    BY <2>1, HoldersFinite
  <2> QED
    BY <1>1, <2>2 DEF HeldInv
<1>9. PICK x : x = [query[q] EXCEPT !.reference = query[q].reference - 1]
  OBVIOUS
<1>10. query' = [query EXCEPT ![q] = x]
  BY <1>1, <1>4, <1>9 DEF dropReference, QueryTypes
<1>11. /\ x \in QueryRecord /\ x.data = query[q].data
       /\ x.mQuery = query[q].mQuery /\ x.building = query[q].building
       /\ x.reference = query[q].reference - 1
       /\ x.mStatus = query[q].mStatus /\ x.mResult = query[q].mResult
  BY <1>7, <1>8, <1>9 DEF QueryRecord
<1>12. /\ query' \in [Query -> QueryRecord] /\ query'[q] = x
       /\ \A p \in Query \ {q} : query'[p] = query[p]
  BY <1>1, <1>10, <1>11 DEF QueryTypes
<1>13. PICK y : y = [draw[d] EXCEPT !.queries = Tail(draw[d].queries), !.cluster = 1]
  OBVIOUS
<1>14. draw' = [draw EXCEPT ![d] = y]
  BY <1>1, <1>13 DEF dropReference, QueryTypes
<1>15. /\ y \in DrawRecord /\ y.phase = draw[d].phase
       /\ y.queries = Tail(draw[d].queries)
       /\ y.counting = draw[d].counting /\ y.passes = draw[d].passes /\ y.cluster = 1
  <2>1. 1 \in 1 .. clusterCount + 1
    BY DEF Awaited
  <2> QED
    BY <1>2, <1>5, <1>13, <2>1 DEF DrawRecord
<1>16. /\ draw' \in [DrawCall -> DrawRecord] /\ draw'[d] = y
       /\ \A e \in DrawCall \ {d} : draw'[e] = draw[e]
  BY <1>1, <1>14, <1>15 DEF QueryTypes
<1> QED
  BY <1>4, <1>6, <1>11, <1>12, <1>15, <1>16

LEMMA DropHolds ==
    ASSUME Awaited, HoldInv, NEW d \in DrawCall, dropReference(d)
    PROVE  /\ HoldInv'
           /\ \A p \in Query \ {Head(draw[d].queries)} : Holders(p)' = Holders(p)
<1>1. QueryTypes /\ ListInv /\ HeldInv
  BY DEF HoldInv
<1>2. UNCHANGED <<named, activeQuery, queries, occlusionEnabled, occlusion, passed>>
  BY DEF dropReference
<1>3. PICK q \in Query :
      /\ q = Head(draw[d].queries) /\ Contains(draw[d].queries, q)
      /\ query' \in [Query -> QueryRecord]
      /\ \A p \in Query \ {q} : query'[p] = query[p]
      /\ query'[q].mQuery = query[q].mQuery /\ query'[q].building = query[q].building
      /\ query'[q].reference = query[q].reference - 1
      /\ draw' \in [DrawCall -> DrawRecord]
      /\ \A e \in DrawCall \ {d} : draw'[e] = draw[e]
      /\ draw'[d].phase = "retiring" /\ draw'[d].queries = Tail(draw[d].queries)
  BY DropIs
<1>4. QueryTypes'
  BY <1>1, <1>2, <1>3 DEF QueryTypes
<1>5. ListInv'
  <2>1. \A p \in Query : query'[p].mQuery = query[p].mQuery /\ query'[p].building = query[p].building
    BY <1>3
  <2> QED
    BY <1>1, <1>2, <2>1 DEF ListInv, QueryTypes
<1>6. /\ draw[d].queries \in Seq(Query) /\ draw[d].queries # << >> /\ Unique(draw[d].queries)
  BY <1>1 DEF QueryTypes, DrawRecord, HeldInv, dropReference
<1>7. /\ Unique(Tail(draw[d].queries))
      /\ \A x : Contains(Tail(draw[d].queries), x) <=> Contains(draw[d].queries, x) /\ x # q
  BY <1>3, <1>6, Taking
<1>8. d \in Holders(q) /\ Holders(q)' = Holders(q) \ {d}
  BY <1>3, <1>7 DEF Holders
<1>9. \A p \in Query \ {q} : Holders(p)' = Holders(p)
  <2> SUFFICES ASSUME NEW p \in Query \ {q} PROVE Holders(p)' = Holders(p)
    OBVIOUS
  <2>1. \A e \in DrawCall : Contains(draw'[e].queries, p) <=> Contains(draw[e].queries, p)
    BY <1>3, <1>7
  <2> QED
    BY <2>1 DEF Holders
<1>10. ASSUME NEW p \in Query
       PROVE  /\ query'[p].reference = Cardinality(Holders(p)')
              /\ Holders(p)' # {} => query'[p].mQuery = "allocated"
  <2>1. CASE p = q
    <3>1. Cardinality(Holders(q)') = Cardinality(Holders(q)) - 1
      BY <1>8, HoldersFinite, FS_RemoveElement
    <3>2. query[q].mQuery = "allocated" /\ query[q].reference = Cardinality(Holders(q))
      BY <1>1, <1>8 DEF HeldInv
    <3> QED
      BY <1>3, <2>1, <3>1, <3>2
  <2>2. CASE p # q
    BY <1>1, <1>3, <1>9, <2>2 DEF HeldInv
  <2> QED
    BY <2>1, <2>2
<1>11. ASSUME NEW e \in DrawCall
       PROVE  /\ Unique(draw'[e].queries)
              /\ draw'[e].phase = "free" => draw'[e].queries = << >>
  BY <1>1, <1>3, <1>7 DEF HeldInv
<1>12. HeldInv'
  BY <1>10, <1>11 DEF HeldInv
<1> QED
  BY <1>3, <1>4, <1>5, <1>9, <1>12 DEF HoldInv

LEMMA RetireIs ==
    ASSUME QueryTypes, Awaited, NEW d \in DrawCall, retire(d)
    PROVE  /\ draw[d].queries = << >>
           /\ draw' \in [DrawCall -> DrawRecord]
           /\ \A e \in DrawCall \ {d} : draw'[e] = draw[e]
           /\ draw'[d].phase = "free" /\ draw'[d].queries = << >>
<1>1. NoDraw.phase = "free" /\ NoDraw.queries = << >>
  BY DEF NoDraw
<1>2. NoDraw \in DrawRecord
  <2>1. << >> \in Seq(Query)
    BY EmptySeq
  <2>2. [c \in Cluster |-> 0] \in ClusterCounts
    BY DEF ClusterCounts
  <2> QED
    BY <2>1, <2>2 DEF NoDraw, DrawRecord, Awaited
<1> QED
  BY <1>1, <1>2 DEF retire, QueryTypes

LEMMA RetireHolds ==
    ASSUME Awaited, HoldInv, NEW d \in DrawCall, retire(d)
    PROVE  HoldInv'
<1>1. QueryTypes /\ ListInv /\ HeldInv
  BY DEF HoldInv
<1>2. UNCHANGED <<query, named, activeQuery, queries, occlusionEnabled, occlusion, passed>>
  BY DEF retire
<1>3. /\ draw[d].queries = << >>
      /\ draw' \in [DrawCall -> DrawRecord]
      /\ \A e \in DrawCall \ {d} : draw'[e] = draw[e]
      /\ draw'[d].phase = "free" /\ draw'[d].queries = << >>
  BY <1>1, RetireIs
<1>4. QueryTypes'
  BY <1>1, <1>2, <1>3 DEF QueryTypes
<1>5. ListInv'
  BY <1>1, <1>2 DEF ListInv
<1>6. HeldInv'
  BY <1>1, <1>2, <1>3, HoldsStill
<1> QED
  BY <1>4, <1>5, <1>6 DEF HoldInv
-----------------------------------------------------------------------------
(* Who holds a query                                                        *)

LEMMA HoldInitially == Awaited /\ QueryInit => HoldInv
<1> SUFFICES ASSUME Awaited, QueryInit PROVE HoldInv
  OBVIOUS
<1>1. << >> \in Seq(Query) /\ Len(<< >>) = 0 /\ \A q : ~Contains(<< >>, q)
  BY EmptySeq DEF Contains
<1>2. [c \in Cluster |-> 0] \in ClusterCounts
  BY DEF ClusterCounts
<1>3. NoDraw \in DrawRecord /\ NoDraw.queries = << >> /\ NoDraw.phase = "free"
  BY <1>1, <1>2 DEF NoDraw, DrawRecord, Awaited
<1>4. NewQuery \in QueryRecord /\ NewQuery.reference = 0 /\ NewQuery.mQuery = "null"
  BY DEF NewQuery, QueryRecord
<1>5. QueryTypes
  <2>1. \A n \in 0 .. 1 : [c \in Cluster |-> n] \in ClusterCounts
    BY DEF ClusterCounts
  <2>2. occlusion \in [DrawCall -> ClusterCounts]
    BY <2>1 DEF QueryInit
  <2> QED
    BY <1>1, <1>3, <1>4, <2>2 DEF QueryInit, QueryTypes
<1>6. ListInv
  BY <1>1 DEF QueryInit, ListInv, Unique
<1>7. HeldInv
  <2>1. \A q \in Query : Holders(q) = {}
    BY <1>1, <1>3 DEF Holders, QueryInit
  <2>2. \A q \in Query : query[q].reference = Cardinality(Holders(q))
    BY <1>4, <2>1, FS_EmptySet DEF QueryInit
  <2> QED
    BY <1>1, <1>3, <2>1, <2>2 DEF QueryInit, HeldInv, Unique
<1> QED
  BY <1>5, <1>6, <1>7 DEF HoldInv

LEMMA HoldStep ==
    ASSUME Awaited, HoldInv, [QueryNext]_queryVars
    PROVE  HoldInv'
<1>1. CASE UNCHANGED queryVars
  <2>1. UNCHANGED <<query, named, activeQuery, queries, occlusionEnabled, draw, occlusion, passed>>
    BY <1>1 DEF queryVars
  <2> QED
    BY <2>1 DEF HoldInv, QueryTypes, ListInv, HeldInv, Holders
<1>2. ASSUME NEW q \in Query, beginQuery(q) \/ endQuery(q) \/ testQuery(q) \/ deleteQuery(q)
      PROVE  HoldInv'
  BY <1>2, BeginHolds, EndHolds, TestHolds, DeleteHolds
<1>3. ASSUME NEW d \in DrawCall, NEW passes \in [Cluster -> 0 .. 1], submit(d, passes)
      PROVE  HoldInv'
  <2>1. passes \in ClusterCounts
    BY DEF ClusterCounts
  <2> QED
    BY <1>3, <2>1, SubmitHolds
<1>4. ASSUME NEW d \in DrawCall, DrawStep(d)
      PROVE  HoldInv'
  BY <1>4, RenderHolds, AddHolds, DropHolds, RetireHolds DEF DrawStep
<1> QED
  BY <1>1, <1>2, <1>3, <1>4 DEF QueryNext

(* A query's references are those of the draw calls in flight that will add *)
(* to it, and none of these nor the renderer's list has a freed query       *)
(* (sw::Query::reference, Renderer::draw() and finishRendering()).          *)
THEOREM QueriesHeld ==
    ASSUME Patient
    PROVE  QuerySpec => []HoldersCounted
<1> SUFFICES ASSUME Awaited PROVE QuerySpec => []HoldersCounted
  BY CountAssumption, RulesAssumption DEF Awaited
<1>1. ASSUME HoldInv PROVE HoldersCounted
  <2>1. \A d \in DrawCall, q \in Query : Contains(draw[d].queries, q) => draw[d].phase # "free"
    BY <1>1, EmptySeq DEF HoldInv, HeldInv, Contains
  <2>2. \A q \in Query : {d \in InFlight : Contains(draw[d].queries, q)} = Holders(q)
    BY <2>1 DEF InFlight, Holders
  <2>3. \A q \in Query : Contains(queries, q) => query[q].mQuery = "allocated"
    BY <1>1 DEF HoldInv, ListInv
  <2> QED
    BY <1>1, <2>2, <2>3 DEF HoldersCounted, HoldInv, HeldInv
<1>2. HoldInv /\ [QueryNext]_queryVars => HoldInv'
  BY HoldStep
<1> QED
  BY HoldInitially, <1>1, <1>2, PTL DEF QuerySpec
-----------------------------------------------------------------------------
(* The samples, by the rules of OpenGL ES: there is one active query.       *)

LEMMA TotalIs ==
    ASSUME NEW f
    PROVE  Total(f) = SumTo(f, clusterCount)
  BY DEF Total, SumTo

LEMMA CountsSum ==
    ASSUME Awaited, NEW f \in ClusterCounts
    PROVE  /\ f \in [1 .. clusterCount -> Int] /\ clusterCount \in Nat
           /\ Total(f) \in Nat /\ SumTo(f, 0) = 0
           /\ \A m \in 0 .. clusterCount : SumTo(f, m) \in Nat
           /\ \A m \in 1 .. clusterCount : SumTo(f, m) = SumTo(f, m - 1) + f[m]
<1>1. f \in [1 .. clusterCount -> Nat] /\ f \in [1 .. clusterCount -> Int] /\ clusterCount \in Nat
  BY DEF ClusterCounts, Cluster, Awaited
<1>2. \A m \in 0 .. clusterCount : SumTo(f, m) \in Nat
  BY <1>1, SumOfNats
<1>3. SumTo(f, 0) = 0 /\ \A m \in 1 .. clusterCount : SumTo(f, m) = SumTo(f, m - 1) + f[m]
  BY <1>1, SumSteps
<1>4. Total(f) \in Nat
  <2>1. clusterCount \in 0 .. clusterCount
    BY <1>1
  <2> QED
    BY <1>2, <2>1, TotalIs
<1> QED
  BY <1>1, <1>2, <1>3, <1>4

\* What a draw call will still add to a query.
Left(d, q) == IF Contains(draw[d].queries, q)
              THEN Total(draw[d].passes) - SumTo(draw[d].passes, draw[d].cluster - 1)
              ELSE 0
Owed(q) == SumTo([d \in DrawCall |-> Left(d, q)], DRAW_COUNT)

\* A draw call that has a query counts, from zero.
OneInv ==
    /\ queries = << >> \/ Len(queries) = 1
    /\ queries # << >> => occlusionEnabled
    /\ \A d \in DrawCall :
          draw[d].queries # << >> =>
              /\ Len(draw[d].queries) = 1
              /\ draw[d].counting
              /\ draw[d].phase = "queued" =>
                    draw[d].cluster = 1 /\ \A c \in Cluster : occlusion[d][c] = 0
              /\ draw[d].phase = "retiring" =>
                    \A c \in Cluster : occlusion[d][c] = draw[d].passes[c]

SumInv ==
    \A q \in Query : query[q].mQuery = "allocated" => passed[q] = query[q].data + Owed(q)

\* A result that was read is final.
StatusInv ==
    \A q \in Query :
        query[q].mQuery = "allocated" /\ query[q].mStatus /\ ~query[q].building =>
            query[q].reference = 0 /\ query[q].mResult = (query[q].data > 0)

SampleInv == HoldInv /\ OneInv /\ SumInv /\ StatusInv

LEMMA LeftIs ==
    ASSUME Awaited, QueryTypes, NEW q
    PROVE  /\ [d \in DrawCall |-> Left(d, q)] \in [1 .. DRAW_COUNT -> Int]
           /\ DRAW_COUNT \in Nat
<1> SUFFICES ASSUME NEW d \in DrawCall PROVE Left(d, q) \in Int
  BY DEF DrawCall, Awaited
<1>1. draw[d].passes \in ClusterCounts /\ draw[d].cluster - 1 \in 0 .. clusterCount
  BY DEF QueryTypes, DrawRecord, Awaited
<1>2. Total(draw[d].passes) \in Nat /\ SumTo(draw[d].passes, draw[d].cluster - 1) \in Nat
  BY <1>1, CountsSum
<1> QED
  BY <1>2 DEF Left

LEMMA NothingOwed ==
    ASSUME Awaited, QueryTypes, NEW q, Holders(q) = {}
    PROVE  Owed(q) = 0
<1>1. PICK f : f = [d \in DrawCall |-> Left(d, q)]
  OBVIOUS
<1>2. \A d \in 1 .. DRAW_COUNT : f[d] = 0
  BY <1>1 DEF Left, Holders, DrawCall
<1>3. f \in [1 .. DRAW_COUNT -> Int] /\ DRAW_COUNT \in Nat
  BY <1>1, LeftIs
<1> QED
  BY <1>1, <1>2, <1>3, SumOfZeros DEF Owed

\* One draw call changes what it owes.
LEMMA OwedChanges ==
    ASSUME Awaited, QueryTypes, QueryTypes', NEW d \in DrawCall, NEW q,
           \A e \in DrawCall \ {d} : draw'[e] = draw[e]
    PROVE  /\ Owed(q) \in Int /\ Left(d, q) \in Int /\ Left(d, q)' \in Int
           /\ Owed(q)' = Owed(q) + (Left(d, q)' - Left(d, q))
<1>1. PICK f : f = [e \in DrawCall |-> Left(e, q)]
  OBVIOUS
<1>2. PICK h : h = [e \in DrawCall |-> Left(e, q)']
  OBVIOUS
<1>3. f \in [1 .. DRAW_COUNT -> Int] /\ DRAW_COUNT \in Nat
  BY <1>1, LeftIs
<1>4. h \in [1 .. DRAW_COUNT -> Int]
  <2> SUFFICES ASSUME NEW e \in DrawCall PROVE Left(e, q)' \in Int
    BY <1>2 DEF DrawCall
  <2>1. draw'[e].passes \in ClusterCounts /\ draw'[e].cluster - 1 \in 0 .. clusterCount
    BY DEF QueryTypes, DrawRecord, Awaited
  <2>2. Total(draw'[e].passes) \in Nat /\ SumTo(draw'[e].passes, draw'[e].cluster - 1) \in Nat
    BY <2>1, CountsSum
  <2> QED
    BY <2>2 DEF Left
<1>5. d \in 1 .. DRAW_COUNT /\ f[d] = Left(d, q) /\ h[d] = Left(d, q)'
  BY <1>1, <1>2 DEF DrawCall
<1>6. \A e \in (1 .. DRAW_COUNT) \ {d} : h[e] = f[e]
  <2> SUFFICES ASSUME NEW e \in DrawCall \ {d} PROVE Left(e, q)' = Left(e, q)
    BY <1>1, <1>2 DEF DrawCall
  <2> QED
    BY DEF Left
<1>7. SumTo(h, DRAW_COUNT) = SumTo(f, DRAW_COUNT) + (h[d] - f[d])
  BY <1>3, <1>4, <1>5, <1>6, SumChanges
<1>8. Owed(q) = SumTo(f, DRAW_COUNT) /\ Owed(q)' = SumTo(h, DRAW_COUNT)
  BY <1>1, <1>2 DEF Owed
<1>9. SumTo(f, DRAW_COUNT) \in Int
  BY <1>3, SumSteps
<1> QED
  BY <1>3, <1>4, <1>5, <1>7, <1>8, <1>9
-----------------------------------------------------------------------------

LEMMA SampleInitially == Awaited /\ QueryInit => SampleInv
<1> SUFFICES ASSUME Awaited, QueryInit PROVE SampleInv
  OBVIOUS
<1>1. HoldInv
  BY HoldInitially
<1>2. NoDraw.queries = << >> /\ NewQuery.mQuery = "null"
  BY DEF NoDraw, NewQuery
<1>3. \A q \in Query : query[q].mQuery # "allocated"
  BY <1>2 DEF QueryInit
<1>4. OneInv
  BY <1>2 DEF QueryInit, OneInv
<1> QED
  BY <1>1, <1>3, <1>4 DEF SampleInv, SumInv, StatusInv

\* With one query on the list there is none without it.
LEMMA OnlyOne ==
    ASSUME NEW s \in Seq(Query), Len(s) = 1, NEW q \in Query, Contains(s, q)
    PROVE  s[1] = q /\ \A x : Contains(s, x) => x = q
  BY DEF Contains

LEMMA BeginSamples ==
    ASSUME Awaited, ~Direct3D, SampleInv, NEW q \in Query, beginQuery(q)
    PROVE  SampleInv'
<1>1. HoldInv /\ QueryTypes /\ ListInv /\ OneInv /\ SumInv /\ StatusInv
  BY DEF SampleInv, HoldInv
<1>2. HoldInv'
  BY <1>1, BeginHolds
<1>3. /\ MayReuse(q) /\ activeQuery = {} /\ query' = Begun(q)
      /\ queries' = Append(queries, q) /\ passed' = [passed EXCEPT ![q] = 0]
      /\ occlusionEnabled' = TRUE
      /\ UNCHANGED <<draw, occlusion>>
  BY DEF beginQuery
<1>4. /\ \A p \in Query \ {q} : query'[p] = query[p]
      /\ query'[q].data = 0 /\ query'[q].building = TRUE
  BY <1>1, <1>3, BegunIs
<1>5. queries' # << >> => Len(queries') = 1
  <2>1. queries = << >>
    <3>1. \A x \in Query : ~Contains(queries, x)
      BY <1>1, <1>3 DEF ListInv
    <3>2. queries # << >> => queries[1] \in Query /\ 1 \in 1 .. Len(queries)
      BY <1>1 DEF OneInv, QueryTypes
    <3> QED
      BY <3>1, <3>2 DEF Contains
  <2>2. Len(Append(queries, q)) = Len(queries) + 1 /\ Len(<< >>) = 0
    BY <1>1, AppendProperties, EmptySeq DEF QueryTypes
  <2> QED
    BY <1>3, <2>1, <2>2
<1>6. OneInv'
  BY <1>1, <1>3, <1>5 DEF OneInv
<1>7. \A p : Owed(p)' = Owed(p)
  BY <1>3 DEF Owed, Left
<1>8. Owed(q) = 0
  <2>1. Holders(q) = {}
    BY <1>1, <1>3, Reusable
  <2> QED
    BY <1>1, <2>1, NothingOwed
<1>9. SumInv'
  <2> SUFFICES ASSUME NEW p \in Query, query'[p].mQuery = "allocated"
               PROVE  passed'[p] = query'[p].data + Owed(p)'
    BY DEF SumInv
  <2>1. CASE p = q
    BY <1>1, <1>3, <1>4, <1>7, <1>8, <2>1 DEF QueryTypes
  <2>2. CASE p # q
    BY <1>1, <1>3, <1>4, <1>7, <2>2 DEF QueryTypes, SumInv
  <2> QED
    BY <2>1, <2>2
<1>10. StatusInv'
  BY <1>1, <1>4 DEF StatusInv
<1> QED
  BY <1>2, <1>6, <1>9, <1>10 DEF SampleInv

LEMMA EndSamples ==
    ASSUME Awaited, SampleInv, NEW q \in Query, endQuery(q)
    PROVE  SampleInv'
<1>1. HoldInv /\ QueryTypes /\ ListInv /\ OneInv /\ SumInv /\ StatusInv
  BY DEF SampleInv, HoldInv
<1>2. HoldInv' /\ query' = Ended(q)
  BY <1>1, EndHolds
<1>3. /\ q \in activeQuery /\ queries' = removeQuery(q) /\ occlusionEnabled' = FALSE
      /\ UNCHANGED <<draw, occlusion, passed>>
  BY DEF endQuery
<1>4. /\ \A p \in Query \ {q} : query'[p] = query[p]
      /\ query'[q].data = query[q].data /\ query'[q].mQuery = query[q].mQuery
      /\ query'[q].mStatus = FALSE
  BY <1>1, <1>2, EndedIs
<1>5. queries' = << >>
  <2>1. Contains(queries, q)
    BY <1>1, <1>3 DEF ListInv
  <2>2. queries \in Seq(Query) /\ Len(queries) = 1
    <3>1. Len(<< >>) = 0
      BY EmptySeq
    <3> QED
      BY <1>1, <2>1, <3>1 DEF OneInv, QueryTypes, Contains
  <2>3. \A x : Contains(queries, x) => x = q
    BY <2>1, <2>2, OnlyOne
  <2>4. queries' \in Seq(Query) /\ \A x : ~Contains(queries', x)
    BY <1>1, <1>3, <2>3, RemovedIs
  <2> QED
    BY <2>4, NothingContained
<1>6. OneInv'
  BY <1>1, <1>3, <1>5 DEF OneInv
<1>7. \A p : Owed(p)' = Owed(p)
  BY <1>3 DEF Owed, Left
<1>8. SumInv'
  BY <1>1, <1>3, <1>4, <1>7 DEF SumInv
<1>9. StatusInv'
  BY <1>1, <1>4 DEF StatusInv
<1> QED
  BY <1>2, <1>6, <1>8, <1>9 DEF SampleInv

LEMMA TestSamples ==
    ASSUME SampleInv, NEW q \in Query, testQuery(q)
    PROVE  SampleInv'
<1>1. HoldInv /\ QueryTypes /\ ListInv /\ OneInv /\ SumInv /\ StatusInv
  BY DEF SampleInv, HoldInv
<1>2. HoldInv'
  BY <1>1, TestHolds
<1>3. UNCHANGED <<queries, occlusionEnabled, draw, occlusion, passed>> /\ Available(q)
  BY DEF testQuery
<1>4. /\ \A p \in Query \ {q} : query'[p] = query[p]
      /\ query'[q].data = query[q].data /\ query'[q].mQuery = query[q].mQuery
      /\ query'[q].reference = query[q].reference
      /\ query'[q].mResult = (query[q].data > 0)
  BY <1>1, TestedIs
<1>5. OneInv'
  BY <1>1, <1>3 DEF OneInv
<1>6. \A p : Owed(p)' = Owed(p)
  BY <1>3 DEF Owed, Left
<1>7. SumInv'
  BY <1>1, <1>3, <1>4, <1>6 DEF SumInv
<1>8. StatusInv'
  <2> SUFFICES ASSUME NEW p \in Query, query'[p].mQuery = "allocated", query'[p].mStatus,
                      ~query'[p].building
               PROVE  query'[p].reference = 0 /\ query'[p].mResult = (query'[p].data > 0)
    BY DEF StatusInv
  <2>1. CASE p = q
    BY <1>3, <1>4, <2>1 DEF Available
  <2>2. CASE p # q
    BY <1>1, <1>4, <2>2 DEF StatusInv
  <2> QED
    BY <2>1, <2>2
<1> QED
  BY <1>2, <1>5, <1>7, <1>8 DEF SampleInv

LEMMA DeleteSamples ==
    ASSUME Awaited, SampleInv, NEW q \in Query, deleteQuery(q)
    PROVE  SampleInv'
<1>1. HoldInv /\ QueryTypes /\ ListInv /\ OneInv /\ SumInv /\ StatusInv
  BY DEF SampleInv, HoldInv
<1>2. /\ HoldInv' /\ query' = [query EXCEPT ![q].mQuery = "freed"]
      /\ UNCHANGED <<queries, occlusionEnabled, draw, occlusion, passed>>
  BY <1>1, DeleteHolds
<1>3. query'[q].mQuery = "freed" /\ \A p \in Query \ {q} : query'[p] = query[p]
  <2>1. PICK x : x = [query[q] EXCEPT !.mQuery = "freed"]
    OBVIOUS
  <2>2. query' = [query EXCEPT ![q] = x] /\ x.mQuery = "freed"
    BY <1>1, <1>2, <2>1 DEF QueryTypes, QueryRecord
  <2> QED
    BY <1>1, <2>2 DEF QueryTypes
<1>4. OneInv'
  BY <1>1, <1>2 DEF OneInv
<1>5. \A p : Owed(p)' = Owed(p)
  BY <1>2 DEF Owed, Left
<1>6. \A p \in Query : query'[p].mQuery = "allocated" => query'[p] = query[p]
  BY <1>3
<1>7. SumInv'
  BY <1>1, <1>2, <1>5, <1>6 DEF SumInv
<1>8. StatusInv'
  BY <1>1, <1>6 DEF StatusInv
<1> QED
  BY <1>2, <1>4, <1>7, <1>8 DEF SampleInv

\* The samples of a new draw call are owed to the active query.
LEMMA SubmitSamples ==
    ASSUME Awaited, SampleInv, NEW d \in DrawCall, NEW passes \in ClusterCounts, submit(d, passes)
    PROVE  SampleInv'
<1>1. HoldInv /\ QueryTypes /\ ListInv /\ OneInv /\ SumInv /\ StatusInv
  BY DEF SampleInv, HoldInv
<1>2. HoldInv' /\ QueryTypes'
  BY <1>1, SubmitHolds DEF HoldInv
<1>3. /\ draw[d].phase = "free" /\ draw[d].queries = << >>
      /\ \A q \in Query :
            /\ query'[q].mQuery = query[q].mQuery /\ query'[q].building = query[q].building
            /\ query'[q].data = query[q].data /\ query'[q].mStatus = query[q].mStatus
            /\ query'[q].mResult = query[q].mResult
            /\ query'[q].reference = IF q \in activeQuery THEN query[q].reference + 1
                                     ELSE query[q].reference
      /\ \A e \in DrawCall \ {d} : draw'[e] = draw[e]
      /\ draw'[d].phase = "queued" /\ draw'[d].queries = queries
      /\ draw'[d].counting = occlusionEnabled
      /\ draw'[d].passes = passes /\ draw'[d].cluster = 1
  BY <1>1, SubmitIs
<1>4. UNCHANGED <<activeQuery, queries, occlusionEnabled>> /\ occlusion' = ClearedCounts(d)
  BY DEF submit
<1>5. \A q \in Query : passed'[q] = IF q \in activeQuery THEN passed[q] + Total(passes)
                                                         ELSE passed[q]
  BY DEF submit
<1>6. /\ \A e \in DrawCall \ {d} : occlusion'[e] = occlusion[e]
      /\ occlusionEnabled => \A c \in Cluster : occlusion'[d][c] = 0
  BY <1>1, <1>4 DEF ClearedCounts, QueryTypes
<1>7. OneInv'
  <2>1. \A e \in DrawCall \ {d} :
          draw'[e].queries # << >> =>
              /\ Len(draw'[e].queries) = 1
              /\ draw'[e].counting
              /\ draw'[e].phase = "queued" =>
                    draw'[e].cluster = 1 /\ \A c \in Cluster : occlusion'[e][c] = 0
              /\ draw'[e].phase = "retiring" =>
                    \A c \in Cluster : occlusion'[e][c] = draw'[e].passes[c]
    BY <1>1, <1>3, <1>6 DEF OneInv
  <2>2. draw'[d].queries # << >> =>
              /\ Len(draw'[d].queries) = 1
              /\ draw'[d].counting
              /\ draw'[d].phase = "queued" =>
                    draw'[d].cluster = 1 /\ \A c \in Cluster : occlusion'[d][c] = 0
              /\ draw'[d].phase # "retiring"
    BY <1>1, <1>3, <1>6 DEF OneInv
  <2>3. (queries' = << >> \/ Len(queries') = 1) /\ (queries' # << >> => occlusionEnabled')
    BY <1>1, <1>4 DEF OneInv
  <2> QED
    BY <2>1, <2>2, <2>3 DEF OneInv
<1>8. \A q \in Query : Left(d, q) = 0
  <2>1. Len(<< >>) = 0
    BY EmptySeq
  <2> QED
    BY <1>3, <2>1 DEF Left, Contains
<1>9. \A q \in Query : Left(d, q)' = IF q \in activeQuery THEN Total(passes) ELSE 0
  <2>1. Total(passes) - SumTo(passes, 1 - 1) = Total(passes)
    <3>1. SumTo(passes, 0) = 0 /\ Total(passes) \in Nat
      BY CountsSum
    <3> QED
      BY <3>1
  <2>2. \A q \in Query : Contains(draw'[d].queries, q) <=> q \in activeQuery
    BY <1>1, <1>3 DEF ListInv
  <2> QED
    BY <1>3, <2>1, <2>2 DEF Left
<1>10. SumInv'
  <2> SUFFICES ASSUME NEW q \in Query, query'[q].mQuery = "allocated"
               PROVE  passed'[q] = query'[q].data + Owed(q)'
    BY DEF SumInv
  <2>1. passed[q] = query[q].data + Owed(q)
    BY <1>1, <1>3 DEF SumInv
  <2>2. Owed(q) \in Int /\ Owed(q)' = Owed(q) + (Left(d, q)' - Left(d, q))
    BY <1>1, <1>2, <1>3, OwedChanges
  <2>3. Total(passes) \in Nat /\ query[q].data \in Nat
    BY <1>1, CountsSum DEF QueryTypes, QueryRecord
  <2>4. CASE q \in activeQuery
    <3>1. Owed(q)' = Owed(q) + Total(passes)
      BY <1>8, <1>9, <2>2, <2>3, <2>4
    <3> QED
      BY <1>3, <1>5, <2>1, <2>2, <2>3, <2>4, <3>1
  <2>5. CASE q \notin activeQuery
    <3>1. Owed(q)' = Owed(q)
      BY <1>8, <1>9, <2>2, <2>5
    <3> QED
      BY <1>3, <1>5, <2>1, <2>5, <3>1
  <2> QED
    BY <2>4, <2>5
<1>11. StatusInv'
  BY <1>1, <1>3 DEF StatusInv, ListInv
<1> QED
  BY <1>2, <1>7, <1>10, <1>11 DEF SampleInv

LEMMA RenderSamples ==
    ASSUME Awaited, SampleInv, NEW d \in DrawCall, render(d)
    PROVE  SampleInv'
<1>1. HoldInv /\ QueryTypes /\ OneInv /\ SumInv /\ StatusInv
  BY DEF SampleInv, HoldInv
<1>2. HoldInv' /\ QueryTypes'
  BY <1>1, RenderHolds DEF HoldInv
<1>3. UNCHANGED <<query, queries, occlusionEnabled, passed>>
  BY DEF render
<1>4. /\ draw[d].phase = "queued"
      /\ \A e \in DrawCall \ {d} : draw'[e] = draw[e] /\ occlusion'[e] = occlusion[e]
      /\ draw'[d].phase = "retiring" /\ draw'[d].queries = draw[d].queries
      /\ draw'[d].counting = draw[d].counting /\ draw'[d].passes = draw[d].passes
      /\ draw'[d].cluster = draw[d].cluster
      /\ draw[d].counting => \A c \in Cluster :
            occlusion'[d][c] = occlusion[d][c] + draw[d].passes[c]
  BY <1>1, RenderIs
<1>5. \A c \in Cluster : draw[d].passes[c] \in Nat
  BY <1>1 DEF QueryTypes, DrawRecord, ClusterCounts
<1>6. draw'[d].queries # << >> =>
              /\ Len(draw'[d].queries) = 1
              /\ draw'[d].counting
              /\ \A c \in Cluster : occlusion'[d][c] = draw'[d].passes[c]
  BY <1>1, <1>4, <1>5 DEF OneInv
<1>7. OneInv'
  BY <1>1, <1>3, <1>4, <1>6 DEF OneInv
<1>8. \A q : Owed(q)' = Owed(q)
  <2>1. \A q : Left(d, q)' = Left(d, q)
    BY <1>4 DEF Left
  <2> SUFFICES ASSUME NEW q PROVE Owed(q)' = Owed(q)
    OBVIOUS
  <2>2. Owed(q) \in Int /\ Left(d, q) \in Int /\ Owed(q)' = Owed(q) + (Left(d, q)' - Left(d, q))
    BY <1>1, <1>2, <1>4, OwedChanges
  <2> QED
    BY <2>1, <2>2
<1>9. SumInv' /\ StatusInv'
  BY <1>1, <1>3, <1>8 DEF SumInv, StatusInv
<1> QED
  BY <1>2, <1>7, <1>9 DEF SampleInv

\* What is added is no longer owed.
LEMMA AddSamples ==
    ASSUME Awaited, SampleInv, NEW d \in DrawCall, addOcclusion(d)
    PROVE  SampleInv'
<1>1. HoldInv /\ QueryTypes /\ HeldInv /\ OneInv /\ SumInv /\ StatusInv
  BY DEF SampleInv, HoldInv
<1>2. HoldInv' /\ QueryTypes'
  BY <1>1, AddHolds DEF HoldInv
<1>3. UNCHANGED <<queries, occlusionEnabled, occlusion, passed>>
  BY DEF addOcclusion
<1>4. PICK q \in Query, n \in Nat :
        /\ Contains(draw[d].queries, q)
        /\ draw[d].phase = "retiring" /\ draw[d].cluster \in Cluster
        /\ n = occlusion[d][draw[d].cluster]
        /\ \A p \in Query \ {q} : query'[p] = query[p]
        /\ query'[q].data = query[q].data + n
        /\ query'[q].mQuery = query[q].mQuery /\ query'[q].building = query[q].building
        /\ query'[q].reference = query[q].reference
        /\ query'[q].mStatus = query[q].mStatus /\ query'[q].mResult = query[q].mResult
        /\ \A e \in DrawCall \ {d} : draw'[e] = draw[e]
        /\ draw'[d].phase = "retiring" /\ draw'[d].queries = draw[d].queries
        /\ draw'[d].counting = draw[d].counting /\ draw'[d].passes = draw[d].passes
        /\ draw'[d].cluster = draw[d].cluster + 1
  BY <1>1, AddIs
<1>5. draw[d].queries # << >> /\ Len(draw[d].queries) = 1 /\ n = draw[d].passes[draw[d].cluster]
  <2>1. Len(<< >>) = 0
    BY EmptySeq
  <2>2. draw[d].queries # << >>
    BY <1>4, <2>1 DEF Contains
  <2> QED
    BY <1>1, <1>4, <2>2 DEF OneInv
<1>6. OneInv'
  BY <1>1, <1>3, <1>4 DEF OneInv
<1>7. draw[d].queries \in Seq(Query) /\ draw[d].passes \in ClusterCounts
  BY <1>1 DEF QueryTypes, DrawRecord
<1>8. \A p : Contains(draw[d].queries, p) => p = q
  BY <1>4, <1>5, <1>7, OnlyOne
<1>9. Left(d, q)' = Left(d, q) - n
  <2>1. PICK k : k = draw[d].cluster
    OBVIOUS
  <2>2. PICK f \in ClusterCounts : f = draw[d].passes
    BY <1>7
  <2>3. /\ k \in 1 .. clusterCount /\ SumTo(f, k) = SumTo(f, k - 1) + f[k]
        /\ SumTo(f, k) \in Nat /\ SumTo(f, k - 1) \in Nat /\ Total(f) \in Nat
        /\ (k + 1) - 1 = k
    <3>1. k \in 1 .. clusterCount /\ clusterCount \in Nat
      BY <1>4, <2>1, CountsSum DEF Cluster
    <3>2. k \in 0 .. clusterCount /\ k - 1 \in 0 .. clusterCount /\ (k + 1) - 1 = k
      BY <3>1
    <3> QED
      BY <3>1, <3>2, CountsSum
  <2>4. Left(d, q) = Total(f) - SumTo(f, k - 1)
    BY <1>4, <2>1, <2>2 DEF Left
  <2>5. Left(d, q)' = Total(f) - SumTo(f, k)
    BY <1>4, <2>1, <2>2, <2>3 DEF Left
  <2>6. n = f[k]
    BY <1>5, <2>1, <2>2
  <2> QED
    BY <2>3, <2>4, <2>5, <2>6
<1>10. \A p \in Query \ {q} : Left(d, p)' = 0 /\ Left(d, p) = 0
  BY <1>4, <1>8 DEF Left
<1>11. SumInv'
  <2> SUFFICES ASSUME NEW p \in Query, query'[p].mQuery = "allocated"
               PROVE  passed'[p] = query'[p].data + Owed(p)'
    BY DEF SumInv
  <2>1. passed[p] = query[p].data + Owed(p)
    BY <1>1, <1>4 DEF SumInv
  <2>2. /\ Owed(p) \in Int /\ Left(d, p) \in Int
        /\ Owed(p)' = Owed(p) + (Left(d, p)' - Left(d, p))
    BY <1>1, <1>2, <1>4, OwedChanges
  <2>3. query[p].data \in Nat
    BY <1>1 DEF QueryTypes, QueryRecord
  <2>4. CASE p = q
    <3>1. Owed(p)' = Owed(p) - n
      BY <1>9, <2>2, <2>4
    <3> QED
      BY <1>3, <1>4, <2>1, <2>2, <2>3, <2>4, <3>1
  <2>5. CASE p # q
    <3>1. Owed(p)' = Owed(p)
      BY <1>10, <2>2, <2>5
    <3> QED
      BY <1>3, <1>4, <2>1, <2>5, <3>1
  <2> QED
    BY <2>4, <2>5
<1>12. query[q].reference # 0
  <2>1. d \in Holders(q)
    BY <1>4 DEF Holders
  <2> QED
    BY <1>1, <2>1, HoldersFinite DEF HeldInv
<1>13. StatusInv'
  BY <1>1, <1>4, <1>12 DEF StatusInv
<1> QED
  BY <1>2, <1>6, <1>11, <1>13 DEF SampleInv

\* The reference goes when nothing is owed any more.
LEMMA DropSamples ==
    ASSUME Awaited, SampleInv, NEW d \in DrawCall, dropReference(d)
    PROVE  SampleInv'
<1>1. HoldInv /\ QueryTypes /\ HeldInv /\ OneInv /\ SumInv /\ StatusInv
  BY DEF SampleInv, HoldInv
<1>2. HoldInv' /\ QueryTypes'
  BY <1>1, DropHolds DEF HoldInv
<1>3. UNCHANGED <<queries, occlusionEnabled, occlusion, passed>>
  BY DEF dropReference
<1>4. PICK q \in Query :
        /\ q = Head(draw[d].queries) /\ Contains(draw[d].queries, q)
        /\ draw[d].phase = "retiring" /\ draw[d].cluster = clusterCount + 1
        /\ \A p \in Query \ {q} : query'[p] = query[p]
        /\ query'[q].data = query[q].data
        /\ query'[q].mQuery = query[q].mQuery /\ query'[q].building = query[q].building
        /\ query'[q].mStatus = query[q].mStatus /\ query'[q].mResult = query[q].mResult
        /\ \A e \in DrawCall \ {d} : draw'[e] = draw[e]
        /\ draw'[d].phase = "retiring" /\ draw'[d].queries = Tail(draw[d].queries)
  BY <1>1, DropIs
<1>5. draw[d].queries \in Seq(Query) /\ draw[d].passes \in ClusterCounts /\ Unique(draw[d].queries)
  BY <1>1 DEF QueryTypes, DrawRecord, HeldInv
<1>6. draw[d].queries # << >> /\ Len(draw[d].queries) = 1
  <2>1. Len(<< >>) = 0
    BY EmptySeq
  <2>2. draw[d].queries # << >>
    BY <1>4, <2>1 DEF Contains
  <2> QED
    BY <1>1, <2>2 DEF OneInv
<1>7. \A p : Contains(draw[d].queries, p) => p = q
  BY <1>4, <1>5, <1>6, OnlyOne
<1>8. draw'[d].queries = << >>
  <2>1. /\ Tail(draw[d].queries) \in Seq(Query)
        /\ \A x : Contains(Tail(draw[d].queries), x) <=> Contains(draw[d].queries, x) /\ x # q
    BY <1>4, <1>5, <1>6, Taking
  <2> QED
    BY <1>4, <1>7, <2>1, NothingContained
<1>9. OneInv'
  BY <1>1, <1>3, <1>4, <1>8 DEF OneInv
<1>10. \A p : ~Contains(draw'[d].queries, p)
  <2>1. Len(<< >>) = 0
    BY EmptySeq
  <2> QED
    BY <1>8, <2>1 DEF Contains
<1>11. \A p \in Query : Left(d, p)' = 0 /\ Left(d, p) = 0
  <2>1. \A p \in Query : Left(d, p)' = 0
    BY <1>10 DEF Left
  <2>2. Left(d, q) = 0
    <3>1. PICK f \in ClusterCounts : f = draw[d].passes
      BY <1>5
    <3>2. Total(f) = SumTo(f, (clusterCount + 1) - 1) /\ Total(f) \in Nat
      <4>1. (clusterCount + 1) - 1 = clusterCount
        BY DEF Awaited
      <4> QED
        BY <4>1, TotalIs, CountsSum
    <3> QED
      BY <1>4, <3>1, <3>2 DEF Left
  <2>3. \A p \in Query \ {q} : Left(d, p) = 0
    BY <1>7 DEF Left
  <2> QED
    BY <2>1, <2>2, <2>3
<1>12. \A p \in Query : Owed(p)' = Owed(p)
  <2> SUFFICES ASSUME NEW p \in Query PROVE Owed(p)' = Owed(p)
    OBVIOUS
  <2>1. Owed(p) \in Int /\ Owed(p)' = Owed(p) + (Left(d, p)' - Left(d, p))
    BY <1>1, <1>2, <1>4, OwedChanges
  <2> QED
    BY <1>11, <2>1
<1>13. SumInv'
  BY <1>1, <1>3, <1>4, <1>12 DEF SumInv
<1>14. query[q].reference # 0
  <2>1. d \in Holders(q)
    BY <1>4 DEF Holders
  <2> QED
    BY <1>1, <2>1, HoldersFinite DEF HeldInv
<1>15. StatusInv'
  BY <1>1, <1>4, <1>14 DEF StatusInv
<1> QED
  BY <1>2, <1>9, <1>13, <1>15 DEF SampleInv

LEMMA RetireSamples ==
    ASSUME Awaited, SampleInv, NEW d \in DrawCall, retire(d)
    PROVE  SampleInv'
<1>1. HoldInv /\ QueryTypes /\ OneInv /\ SumInv /\ StatusInv
  BY DEF SampleInv, HoldInv
<1>2. HoldInv' /\ QueryTypes'
  BY <1>1, RetireHolds DEF HoldInv
<1>3. UNCHANGED <<query, queries, occlusionEnabled, occlusion, passed>>
  BY DEF retire
<1>4. /\ draw[d].queries = << >>
      /\ \A e \in DrawCall \ {d} : draw'[e] = draw[e]
      /\ draw'[d].queries = << >>
  BY <1>1, RetireIs
<1>5. OneInv'
  BY <1>1, <1>3, <1>4 DEF OneInv
<1>6. \A q : Left(d, q)' = 0 /\ Left(d, q) = 0
  <2>1. Len(<< >>) = 0
    BY EmptySeq
  <2> QED
    BY <1>4, <2>1 DEF Left, Contains
<1>7. \A q : Owed(q)' = Owed(q)
  <2> SUFFICES ASSUME NEW q PROVE Owed(q)' = Owed(q)
    OBVIOUS
  <2>1. Owed(q) \in Int /\ Owed(q)' = Owed(q) + (Left(d, q)' - Left(d, q))
    BY <1>1, <1>2, <1>4, OwedChanges
  <2> QED
    BY <1>6, <2>1
<1>8. SumInv' /\ StatusInv'
  BY <1>1, <1>3, <1>7 DEF SumInv, StatusInv
<1> QED
  BY <1>2, <1>5, <1>8 DEF SampleInv

LEMMA SampleInvariance ==
    ASSUME Awaited, ~Direct3D
    PROVE  QuerySpec => []SampleInv
<1>1. ASSUME SampleInv, [QueryNext]_queryVars PROVE SampleInv'
  <2>1. CASE UNCHANGED queryVars
    <3>1. UNCHANGED <<query, named, activeQuery, queries, occlusionEnabled, draw, occlusion, passed>>
      BY <2>1 DEF queryVars
    <3>2. HoldInv'
      BY <1>1, HoldStep DEF SampleInv
    <3>3. OneInv'
      BY <1>1, <3>1 DEF SampleInv, OneInv
    <3>4. \A p \in Query : Owed(p)' = Owed(p)
      BY <3>1 DEF Owed, Left
    <3>5. SumInv'
      BY <1>1, <3>1, <3>4 DEF SampleInv, SumInv
    <3>6. StatusInv'
      BY <1>1, <3>1 DEF SampleInv, StatusInv
    <3> QED
      BY <3>2, <3>3, <3>5, <3>6 DEF SampleInv
  <2>2. ASSUME NEW q \in Query, beginQuery(q) \/ endQuery(q) \/ testQuery(q) \/ deleteQuery(q)
        PROVE  SampleInv'
    BY <1>1, <2>2, BeginSamples, EndSamples, TestSamples, DeleteSamples
  <2>3. ASSUME NEW d \in DrawCall, NEW passes \in [Cluster -> 0 .. 1], submit(d, passes)
        PROVE  SampleInv'
    <3>1. passes \in ClusterCounts
      BY DEF ClusterCounts
    <3> QED
      BY <1>1, <2>3, <3>1, SubmitSamples
  <2>4. ASSUME NEW d \in DrawCall, DrawStep(d)
        PROVE  SampleInv'
    BY <1>1, <2>4, RenderSamples, AddSamples, DropSamples, RetireSamples DEF DrawStep
  <2> QED
    BY <1>1, <2>1, <2>2, <2>3, <2>4 DEF QueryNext
<1> QED
  BY SampleInitially, <1>1, PTL DEF QuerySpec

(* When a result may be read, it is the number of samples that passed in    *)
(* the draw calls between begin and end (sw::Query::data, what              *)
(* finishRendering() adds up and testQuery() keeps of it).                  *)
THEOREM ResultsSum ==
    ASSUME Patient, ~Direct3D
    PROVE  QuerySpec => []ResultIsSum
<1> SUFFICES ASSUME Awaited PROVE QuerySpec => []ResultIsSum
  BY CountAssumption, RulesAssumption DEF Awaited
<1>1. ASSUME SampleInv PROVE ResultIsSum
  <2> SUFFICES ASSUME NEW q \in Query, Available(q)
               PROVE  /\ query[q].data = passed[q]
                      /\ query[q].mStatus => query[q].mResult = (passed[q] > 0)
    BY DEF ResultIsSum
  <2>1. HoldInv /\ QueryTypes /\ HeldInv /\ SumInv /\ StatusInv
    BY <1>1 DEF SampleInv, HoldInv
  <2>2. query[q].mQuery = "allocated" /\ ~query[q].building /\ query[q].reference = 0
    BY DEF Available
  <2>3. Holders(q) = {}
    BY <2>1, <2>2, HoldersFinite DEF HeldInv
  <2>4. query[q].data = passed[q]
    <3>1. Owed(q) = 0 /\ query[q].data \in Nat
      BY <2>1, <2>3, NothingOwed DEF QueryTypes, QueryRecord
    <3> QED
      BY <2>1, <2>2, <3>1 DEF SumInv
  <2> QED
    BY <2>1, <2>2, <2>4 DEF StatusInv
<1> QED
  BY SampleInvariance, <1>1, PTL

(* What retirement adds to a query is what that draw call counted, and      *)
(* nothing that an earlier one left in the same DrawData (Renderer.cpp:482).*)
THEOREM CountsFresh ==
    ASSUME Patient, ~Direct3D
    PROVE  QuerySpec => []CountsAreOfThisDraw
<1> SUFFICES ASSUME Awaited PROVE QuerySpec => []CountsAreOfThisDraw
  BY CountAssumption, RulesAssumption DEF Awaited
<1>1. ASSUME SampleInv PROVE CountsAreOfThisDraw
  <2> SUFFICES ASSUME NEW d \in DrawCall, draw[d].phase = "retiring",
                      draw[d].queries # << >>
               PROVE  occlusion[d] = draw[d].passes
    BY DEF CountsAreOfThisDraw, InFlight
  <2>1. occlusion[d] \in ClusterCounts /\ draw[d].passes \in ClusterCounts
    BY <1>1 DEF SampleInv, HoldInv, QueryTypes, DrawRecord
  <2>2. \A c \in Cluster : occlusion[d][c] = draw[d].passes[c]
    BY <1>1 DEF SampleInv, OneInv
  <2> QED
    BY <2>1, <2>2 DEF ClusterCounts
<1> QED
  BY SampleInvariance, <1>1, PTL
=============================================================================
