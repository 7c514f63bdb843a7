----------------------- MODULE StreamingBuffers_proofs -----------------------
(***************************************************************************)
(* Proofs about StreamingBuffers for any attributes, resources, draw calls *)
(* in flight and sizes that do not wrap: what a draw call in flight reads  *)
(* stays as it is, data stays within its buffer, and resources are claimed *)
(* and freed exactly.                                                      *)
(***************************************************************************)
EXTENDS StreamingBuffers, FiniteSetTheorems, TLAPS

(* No size or position wraps: the data of one draw call, of one index array,*)
(* and half of the initial size are at most M bytes, a third of what a UINT *)
(* counts.  Beyond that Plus(writePosition, required) may come out small.   *)
NoWrap(M) ==
    /\ M \in Nat /\ 3 * M < UINT
    /\ InitialSize <= 2 * M
    /\ \A n \in IndexSize : n <= M
    /\ \A sources \in Sources :
          SumFunctionOnSet(sources, {a \in Attribute : sources[a] > 0}) <= M

Buffer == [in : Resource, bufferSize : Nat, writePosition : Nat]
Value == [in : Resource \cup {NONE}, holds : BOOLEAN, dirty : BOOLEAN]
State == [accessor : {"PUBLIC", "PRIVATE"}, count : Nat, orphaned : BOOLEAN, freed : BOOLEAN]
Place == [in : Resource \cup {NONE}, from : Nat, size : Nat, of : Nat]
Draw == [inputs : [Input -> Place], intact : BOOLEAN]
Call == [pc : {"none", "index", "reserve", "attributes"}, sources : [Attribute -> Nat],
         indices : Nat, next : Nat, inputs : [Input -> Place]]

Types ==
    /\ stream \in [vertex : Buffer, index : Buffer]
    /\ current \in [Attribute -> Value]
    /\ indexBuffer \in Resource \cup {NONE}
    /\ resource \in [Resource -> State]
    /\ draw \in [DrawCall -> Draw]
    /\ call \in Call

(* The data of the draw call that is being made fits: what is not yet       *)
(* written of its arrays is no more than what is left of the buffer.        *)
Remaining == {a \in Arrays : a >= call.next}
Within(s, M) == s.writePosition <= s.bufferSize /\ s.bufferSize <= 2 * M
SizeInv(M) ==
    /\ Within(stream.vertex, M) /\ Within(stream.index, M)
    /\ call.pc # "none" => call.sources \in Sources /\ call.indices \in IndexSize \cup {0}
    /\ call.pc = "attributes" =>
          stream.vertex.writePosition + SumFunctionOnSet(call.sources, Remaining)
             <= stream.vertex.bufferSize

(* Streams and attributes have resources of their own.                      *)
OwnInv ==
    /\ stream.vertex.in # stream.index.in
    /\ \A a \in Attribute : /\ current[a].in \notin {stream.vertex.in, stream.index.in}
                            /\ current[a].holds <=> ~current[a].dirty
                            /\ current[a].holds => current[a].in # NONE
    /\ \A a, b \in Attribute : current[a].in = current[b].in => a = b \/ current[a].in = NONE
Owned == {stream.vertex.in, stream.index.in} \cup {current[a].in : a \in Attribute}

(* The claims of a resource are those of draw calls in flight and of class  *)
(* PRIVATE.  It exists while it is owned or claimed, and is marked for      *)
(* deletion when it is no longer owned.                                     *)
Claims(draws, r) == {c \in DrawCall \X Input : draws[c[1]].inputs[c[2]].in = r}
Kept(state, owned, claims) ==
    /\ state.freed => claims = {} /\ ~owned
    /\ ~state.freed => /\ state.count = Cardinality(claims)
                       /\ state.count > 0 => state.accessor = "PRIVATE"
    /\ owned => ~state.orphaned
    /\ ~state.freed /\ ~owned => state.orphaned /\ claims # {}
KeptAll(resources, owned, draws) ==
    \A r \in Resource : Kept(resources[r], r \in owned, Claims(draws, r))

(* Data of a draw call lies within its buffer and, as long as the buffer is *)
(* that of a stream, below the write position.                              *)
Below(range, s) == range.in = s.in => range.from + range.size <= s.writePosition
Written(range) == /\ range.from + range.size <= range.of
                  /\ Below(range, stream.vertex) /\ Below(range, stream.index)
DrawInv ==
    \A d \in DrawCall :
        /\ draw[d].intact
        /\ \A i \in Input : draw[d].inputs[i].in # NONE => Written(draw[d].inputs[i])

(* What is prepared of the draw call that is being made is where it is read *)
(* from, and has its current values.                                        *)
PreparedIndex == IF call.indices = 0 THEN call.inputs[Index] = NoRange
                 ELSE /\ call.inputs[Index].in = stream.index.in
                      /\ indexBuffer = stream.index.in
                      /\ Written(call.inputs[Index])
PreparedAttribute(a) == /\ Written(call.inputs[a])
                        /\ IF a \in Arrays THEN call.inputs[a].in = stream.vertex.in
                           ELSE call.inputs[a].in = current[a].in /\ current[a].holds
CallInv ==
    /\ call.pc \in {"index", "reserve"} => \A a \in Attribute : call.inputs[a] = NoRange
    /\ call.pc = "index" => call.inputs[Index] = NoRange /\ call.indices > 0
    /\ call.pc \in {"reserve", "attributes"} => PreparedIndex
    /\ call.pc = "attributes" =>
          /\ \A a \in Attribute : IF a < call.next THEN PreparedAttribute(a)
                                  ELSE call.inputs[a] = NoRange
          /\ call.next > 0 /\ (call.next \in Attribute \/ \A a \in Attribute : a < call.next)

IInv(M) == /\ Types /\ SizeInv(M) /\ OwnInv /\ KeptAll(resource, Owned, draw)
           /\ DrawInv /\ CallInv
-----------------------------------------------------------------------------
(* The sum of natural numbers over a finite set, of which the library has   *)
(* no theorems.  SumFunctionOnSet is a fold: a recursive function on the    *)
(* subsets of the set, which is shown to exist (IterExists) and to be       *)
(* determined (IterUnique) by the smallest subset where it would not be.    *)

Chosen(s) == CHOOSE x \in s : TRUE
IterStep(f, g, s) == IF s = {} THEN 0 ELSE f[Chosen(s)] + g[s \ {Chosen(s)}]
IsIter(f, g, S) == g = [s \in SUBSET S |-> IterStep(f, g, s)]
IterOf(f, S) == CHOOSE g : IsIter(f, g, S)

LEMMA SumIter == ASSUME NEW f, NEW S PROVE SumFunctionOnSet(f, S) = IterOf(f, S)[S]
BY DEF SumFunctionOnSet, FoldFunctionOnSet, MapThenFoldSet, IterOf, IsIter, IterStep, Chosen

\* What holds of a set if it holds of its smaller subsets, holds of all: a smallest set
\* for which it does not would have to exist.
LEMMA SubsetInduction ==
    ASSUME NEW S, IsFiniteSet(S), NEW Good,
           \A T \in SUBSET S : (\A U \in SUBSET T : U # T => U \in Good) => T \in Good
    PROVE  \A T \in SUBSET S : T \in Good
<1> SUFFICES ASSUME NEW V \in SUBSET S, V \notin Good PROVE FALSE
  OBVIOUS
<1> DEFINE Bad == {T \in SUBSET S : T \notin Good}
<1>1. IsWellFoundedOn(StrictSubsetOrdering(S), SUBSET S)
  <2>1. IsWellFoundedOn(StrictSubsetOrdering(S), FiniteSubsetsOf(S))
    BY FS_StrictSubsetOrderingWellFounded
  <2>2. FiniteSubsetsOf(S) = SUBSET S
    BY FS_FiniteSubsetsOfFinite
  <2> QED
    BY <2>1, <2>2
<1>2. PICK T \in Bad : \A U \in Bad : <<U, T>> \notin StrictSubsetOrdering(S)
  <2>1. Bad \subseteq SUBSET S /\ Bad # {}
    OBVIOUS
  <2> HIDE DEF Bad
  <2> QED
    BY <1>1, <2>1, WFMin
<1>3. \A U \in SUBSET T : U # T => U \in Good
  BY <1>2 DEF StrictSubsetOrdering
<1> QED
  BY <1>3

LEMMA ChosenIn == ASSUME NEW s, s # {} PROVE Chosen(s) \in s
BY DEF Chosen

\* g satisfies the equation of the fold on the subsets of T.
Satisfies(f, g, T) == \A s \in SUBSET T : g[s] = IterStep(f, g, s)

LEMMA IterUnique ==
    ASSUME NEW f, NEW T, IsFiniteSet(T), NEW g, NEW h, Satisfies(f, g, T), Satisfies(f, h, T)
    PROVE  g[T] = h[T]
<1> DEFINE Good == {s \in SUBSET T : g[s] = h[s]}
<1>1. ASSUME NEW s \in SUBSET T, \A U \in SUBSET s : U # s => U \in Good
      PROVE  s \in Good
  <2>1. CASE s = {}
    BY <2>1 DEF IterStep, Satisfies
  <2>2. CASE s # {}
    <3>1. Chosen(s) \in s
      BY <2>2, ChosenIn
    <3> DEFINE r == s \ {Chosen(s)}
    <3>2. r \in Good
      BY <1>1, <3>1
    <3>3. g[s] = f[Chosen(s)] + g[r] /\ h[s] = f[Chosen(s)] + h[r]
      BY <2>2 DEF IterStep, Satisfies
    <3> QED
      BY <3>2, <3>3
  <2> QED BY <2>1, <2>2
<1> HIDE DEF Good
<1>2. \A s \in SUBSET T : s \in Good
  BY <1>1, SubsetInduction
<1> QED
  BY <1>2 DEF Good

\* The recursive function of the fold is one that satisfies its equation.
LEMMA IterExists ==
    ASSUME NEW f, NEW S, IsFiniteSet(S)
    PROVE  \A T \in SUBSET S : IsIter(f, IterOf(f, T), T)
<1> DEFINE Good == {T \in SUBSET S : IsIter(f, IterOf(f, T), T)}
<1>1. ASSUME NEW T \in SUBSET S, \A U \in SUBSET T : U # T => U \in Good
      PROVE  T \in Good
  <2> DEFINE v == IF T = {} THEN 0
                  ELSE f[Chosen(T)] + IterOf(f, T \ {Chosen(T)})[T \ {Chosen(T)}]
             h == [s \in SUBSET T |-> IF s = T THEN v ELSE IterOf(f, s)[s]]
  <2>0. \A U \in SUBSET T : U # T => IsIter(f, IterOf(f, U), U)
    BY <1>1
  <2>1. ASSUME NEW s \in SUBSET T
        PROVE  h[s] = IterStep(f, h, s)
    <3>1. CASE s = {}
      <4>1. s # T => IterOf(f, s)[s] = 0
        BY <2>0, <3>1 DEF IsIter, IterStep
      <4> QED
        BY <3>1, <4>1 DEF IterStep
    <3>2. CASE s # {} /\ s = T
      <4>1. Chosen(s) \in s
        BY <3>2, ChosenIn
      <4>2. h[s \ {Chosen(s)}] = IterOf(f, s \ {Chosen(s)})[s \ {Chosen(s)}]
        BY <4>1
      <4> QED
        BY <3>2, <4>2 DEF IterStep
    <3>3. CASE s # {} /\ s # T
      <4> DEFINE r == s \ {Chosen(s)}
      <4>1. Chosen(s) \in s /\ r \in SUBSET s /\ r # T /\ r # s /\ r \in SUBSET T
        BY <3>3, ChosenIn
      <4>2. IsIter(f, IterOf(f, s), s) /\ IsIter(f, IterOf(f, r), r)
        BY <2>0, <3>3, <4>1
      <4>3. IterOf(f, s)[s] = f[Chosen(s)] + IterOf(f, s)[r]
        BY <3>3, <4>2 DEF IsIter, IterStep
      <4>4. Satisfies(f, IterOf(f, s), r) /\ Satisfies(f, IterOf(f, r), r)
        BY <4>1, <4>2 DEF IsIter, Satisfies
      <4>5. IterOf(f, s)[r] = IterOf(f, r)[r]
        <5>1. IsFiniteSet(r)
          <6>1. r \in SUBSET S
            OBVIOUS
          <6> QED
            BY <6>1, FS_Subset
        <5> HIDE DEF r
        <5> QED
          BY <4>4, <5>1, IterUnique
      <4>6. h[s] = IterOf(f, s)[s] /\ h[r] = IterOf(f, r)[r]
        BY <3>3, <4>1
      <4> HIDE DEF h
      <4>7. h[s] = f[Chosen(s)] + h[r]
        BY <4>3, <4>5, <4>6
      <4> QED
        BY <3>3, <4>7 DEF IterStep
    <3> QED BY <3>1, <3>2, <3>3
  <2> HIDE DEF v
  <2>2. IsIter(f, h, T)
    BY <2>1 DEF IsIter
  <2> HIDE DEF h
  <2>3. IsIter(f, IterOf(f, T), T)
    BY <2>2 DEF IterOf
  <2> QED
    BY <2>3
<1> HIDE DEF Good
<1>2. \A T \in SUBSET S : T \in Good
  BY <1>1, SubsetInduction
<1> QED
  BY <1>2 DEF Good

LEMMA SumEmpty ==
    ASSUME NEW f
    PROVE  SumFunctionOnSet(f, {}) = 0
<1>1. IsIter(f, IterOf(f, {}), {})
  BY IterExists, FS_EmptySet
<1> QED
  BY <1>1, SumIter DEF IsIter, IterStep

LEMMA SumChosen ==
    ASSUME NEW f, NEW S, IsFiniteSet(S), S # {}
    PROVE  SumFunctionOnSet(f, S) = f[Chosen(S)] + SumFunctionOnSet(f, S \ {Chosen(S)})
<1> DEFINE r == S \ {Chosen(S)}
<1>1. Chosen(S) \in S /\ r \in SUBSET S
  BY ChosenIn
<1>2. IsIter(f, IterOf(f, S), S) /\ IsIter(f, IterOf(f, r), r)
  BY <1>1, IterExists
<1>3. IterOf(f, S)[S] = f[Chosen(S)] + IterOf(f, S)[r]
  BY <1>2 DEF IsIter, IterStep
<1>4. Satisfies(f, IterOf(f, S), r) /\ Satisfies(f, IterOf(f, r), r)
  BY <1>1, <1>2 DEF IsIter, Satisfies
<1>5. IterOf(f, S)[r] = IterOf(f, r)[r]
  <2>1. IsFiniteSet(r)
    BY FS_RemoveElement
  <2> HIDE DEF r
  <2> QED
    BY <1>4, <2>1, IterUnique
<1>6. /\ SumFunctionOnSet(f, S) = IterOf(f, S)[S]
      /\ SumFunctionOnSet(f, r) = IterOf(f, r)[r]
  BY SumIter
<1> QED
  BY <1>3, <1>5, <1>6

LEMMA SumType ==
    ASSUME NEW D, NEW f \in [D -> Nat], NEW S \in SUBSET D, IsFiniteSet(S)
    PROVE  SumFunctionOnSet(f, S) \in Nat
<1> DEFINE Good == {T \in SUBSET S : SumFunctionOnSet(f, T) \in Nat}
<1>1. ASSUME NEW T \in SUBSET S, \A U \in SUBSET T : U # T => U \in Good
      PROVE  T \in Good
  <2>1. CASE T = {}
    BY <2>1, SumEmpty
  <2>2. CASE T # {}
    <3>1. Chosen(T) \in T /\ IsFiniteSet(T)
      BY <2>2, ChosenIn, FS_Subset
    <3>2. SumFunctionOnSet(f, T) = f[Chosen(T)] + SumFunctionOnSet(f, T \ {Chosen(T)})
      BY <2>2, <3>1, SumChosen
    <3>3. SumFunctionOnSet(f, T \ {Chosen(T)}) \in Nat
      BY <1>1, <3>1
    <3>4. f[Chosen(T)] \in Nat
      BY <3>1
    <3> QED
      BY <3>2, <3>3, <3>4
  <2> QED BY <2>1, <2>2
<1> HIDE DEF Good
<1>2. \A T \in SUBSET S : T \in Good
  BY <1>1, SubsetInduction
<1> QED
  BY <1>2 DEF Good

\* Any element can be taken out of the sum, not only the one that the fold chooses.
LEMMA SumElement ==
    ASSUME NEW D, NEW f \in [D -> Nat], NEW S \in SUBSET D, IsFiniteSet(S), NEW x \in S
    PROVE  SumFunctionOnSet(f, S) = f[x] + SumFunctionOnSet(f, S \ {x})
<1> DEFINE Good == {T \in SUBSET S : \A y \in T :
                       SumFunctionOnSet(f, T) = f[y] + SumFunctionOnSet(f, T \ {y})}
<1>1. ASSUME NEW T \in SUBSET S, \A U \in SUBSET T : U # T => U \in Good
      PROVE  T \in Good
  <2> SUFFICES ASSUME NEW y \in T
               PROVE  SumFunctionOnSet(f, T) = f[y] + SumFunctionOnSet(f, T \ {y})
    OBVIOUS
  <2> DEFINE c == Chosen(T)
  <2>1. c \in T /\ IsFiniteSet(T)
    BY ChosenIn, FS_Subset
  <2>2. SumFunctionOnSet(f, T) = f[c] + SumFunctionOnSet(f, T \ {c})
    BY <2>1, SumChosen
  <2>3. CASE y = c
    BY <2>2, <2>3
  <2>4. CASE y # c
    <3> HIDE DEF c
    <3>1. SumFunctionOnSet(f, T \ {c}) = f[y] + SumFunctionOnSet(f, (T \ {c}) \ {y})
      <4>1. T \ {c} \in Good /\ y \in T \ {c}
        BY <1>1, <2>1, <2>4
      <4> QED
        BY <4>1
    <3>2. SumFunctionOnSet(f, T \ {y}) = f[c] + SumFunctionOnSet(f, (T \ {y}) \ {c})
      <4>1. T \ {y} \in Good /\ c \in T \ {y}
        BY <1>1, <2>1, <2>4
      <4> QED
        BY <4>1
    <3>3. (T \ {c}) \ {y} = (T \ {y}) \ {c}
      OBVIOUS
    <3>4. SumFunctionOnSet(f, (T \ {y}) \ {c}) \in Nat /\ f[y] \in Nat /\ f[c] \in Nat
      <4>1. (T \ {y}) \ {c} \in SUBSET D /\ IsFiniteSet((T \ {y}) \ {c})
        BY <2>1, FS_RemoveElement
      <4> QED
        BY <2>1, <4>1, SumType
    <3> DEFINE rest == SumFunctionOnSet(f, (T \ {y}) \ {c})
               sum == SumFunctionOnSet(f, T)
               but == SumFunctionOnSet(f, T \ {y})
               fc == f[c]
               fy == f[y]
    <3>5. sum = fc + (fy + rest) /\ but = fc + rest
      BY <2>2, <3>1, <3>2, <3>3
    <3>6. rest \in Nat /\ fc \in Nat /\ fy \in Nat
      BY <3>4
    <3> HIDE DEF rest, sum, but, fc, fy
    <3>7. sum = fy + but
      BY <3>5, <3>6
    <3> QED
      BY <3>7 DEF sum, fy, but
  <2> QED BY <2>3, <2>4
<1> HIDE DEF Good
<1>2. \A T \in SUBSET S : T \in Good
  BY <1>1, SubsetInduction
<1> QED
  BY <1>2 DEF Good
-----------------------------------------------------------------------------
(* Inputs, claims and resources                                             *)

LEMMA InputFacts ==
    /\ IsFiniteSet(Input) /\ IsFiniteSet(DrawCall \X Input)
    /\ Attribute \subseteq Nat \ {0} /\ Attribute \subseteq Input
    /\ Index \in Input /\ Index \notin Attribute
    /\ \A i \in Input : i # Index => i \in Attribute
<1>1. PICK n \in Nat : Attribute = 1 .. n
  BY AttributeAssumption, FS_CardinalityType
<1>2. Attribute \subseteq Nat \ {0}
  BY <1>1
<1>3. IsFiniteSet(Input)
  <2>1. Input = Attribute \cup {Index}
    BY DEF Input
  <2> QED
    BY <2>1, AttributeAssumption, FS_AddElement
<1>4. IsFiniteSet(DrawCall \X Input)
  BY <1>3, DrawCallAssumption, FS_Product
<1> QED
  BY <1>2, <1>3, <1>4 DEF Input, Index

LEMMA NextAttribute ==
    ASSUME NEW a \in Attribute
    PROVE  a + 1 \in Attribute \/ \A b \in Attribute : b < a + 1
<1>1. PICK n \in Nat : Attribute = 1 .. n
  BY AttributeAssumption, FS_CardinalityType
<1> QED
  BY <1>1

LEMMA MinIn == ASSUME NEW S \in SUBSET Nat, S # {} PROVE Min(S) \in S
<1>1. PICK x \in S : \A y \in S : <<y, x>> \notin OpToRel(<, Nat)
  BY NatLessThanWellFounded, WFMin
<1>2. \A y \in S : ~(y < x)
  BY <1>1 DEF OpToRel
<1>3. \A y \in S : x =< y
  BY <1>2
<1> QED
  BY <1>3 DEF Min

LEMMA Allocates ==
    ASSUME NEW left, \E r \in Resource : left[r].freed
    PROVE  Allocated(left) \in Resource /\ left[Allocated(left)].freed
<1> DEFINE S == {r \in Resource : left[r].freed}
<1>1. S \in SUBSET Nat /\ S # {}
  BY ResourceAssumption
<1>2. Min(S) \in S
  BY <1>1, MinIn
<1> QED
  BY <1>2 DEF Allocated

LEMMA ClaimsFinite ==
    ASSUME NEW draws, NEW r
    PROVE  /\ IsFiniteSet(Claims(draws, r)) /\ Cardinality(Claims(draws, r)) \in Nat
           /\ Cardinality(Claims(draws, r)) = 0 <=> Claims(draws, r) = {}
<1>1. Claims(draws, r) \in SUBSET (DrawCall \X Input)
  BY DEF Claims
<1>2. IsFiniteSet(Claims(draws, r))
  BY <1>1, InputFacts, FS_Subset
<1> QED
  BY <1>2, FS_CardinalityType, FS_EmptySet

LEMMA HasClaim ==
    ASSUME NEW draws, NEW r, NEW d \in DrawCall, NEW i \in Input, draws[d].inputs[i].in = r
    PROVE  Claims(draws, r) # {}
<1>1. <<d, i>> \in DrawCall \X Input /\ <<d, i>>[1] = d /\ <<d, i>>[2] = i
  OBVIOUS
<1>2. <<d, i>> \in Claims(draws, r)
  BY <1>1 DEF Claims
<1> QED
  BY <1>2

Users(inputs, r) == {i \in Input : inputs[i].in = r}

LEMMA UsesSet ==
    ASSUME NEW inputs, NEW r
    PROVE  /\ IsFiniteSet(Users(inputs, r)) /\ Uses(inputs, r) = Cardinality(Users(inputs, r))
           /\ Uses(inputs, r) \in Nat
           /\ Uses(inputs, r) = 0 <=> \A i \in Input : inputs[i].in # r
<1>1. Users(inputs, r) \in SUBSET Input /\ Uses(inputs, r) = Cardinality(Users(inputs, r))
  BY DEF Users, Uses
<1>2. IsFiniteSet(Users(inputs, r))
  BY <1>1, InputFacts, FS_Subset
<1>3. Users(inputs, r) = {} <=> \A i \in Input : inputs[i].in # r
  BY DEF Users
<1> QED
  BY <1>1, <1>2, <1>3, FS_CardinalityType, FS_EmptySet

\* draws and more differ in the draw call d, which in draws claims nothing of r.
Without(draws, d, r) == \A i \in Input : draws[d].inputs[i].in # r
Others(draws, more, d) == \A e \in DrawCall \ {d} : more[e] = draws[e]

LEMMA ClaimsAdded ==
    ASSUME NEW draws, NEW more, NEW d \in DrawCall, NEW r,
           Without(draws, d, r), Others(draws, more, d)
    PROVE  /\ Cardinality(Claims(more, r)) =
                 Cardinality(Claims(draws, r)) + Uses(more[d].inputs, r)
           /\ Claims(more, r) = {} <=> Claims(draws, r) = {} /\ Uses(more[d].inputs, r) = 0
<1> DEFINE T == {d} \X Users(more[d].inputs, r)
<1>1. Claims(more, r) = Claims(draws, r) \cup T
  BY DEF Claims, Without, Others, Users
<1>2. Claims(draws, r) \cap T = {}
  BY DEF Claims, Without, Users
<1>3. IsFiniteSet(T) /\ Cardinality(T) = 1 * Uses(more[d].inputs, r)
  <2>1. IsFiniteSet({d}) /\ Cardinality({d}) = 1
    BY FS_Singleton
  <2> QED
    BY <2>1, UsesSet, FS_Product
<1>4. Cardinality(T) = Uses(more[d].inputs, r) /\ Uses(more[d].inputs, r) \in Nat
  BY <1>3, UsesSet
<1> HIDE DEF T
<1>5. Cardinality(Claims(draws, r) \cup T) =
         Cardinality(Claims(draws, r)) + Cardinality(T) - Cardinality(Claims(draws, r) \cap T)
  BY <1>3, ClaimsFinite, FS_Union
<1>6. Cardinality(Claims(draws, r) \cap T) = 0
  BY <1>2, FS_EmptySet
<1>7. T = {} <=> Uses(more[d].inputs, r) = 0
  BY <1>3, <1>4, FS_EmptySet
<1> DEFINE m == Cardinality(Claims(more, r))
           n == Cardinality(Claims(draws, r))
           u == Uses(more[d].inputs, r)
<1>8. m = n + u - 0 /\ n \in Nat /\ u \in Nat
  BY <1>1, <1>4, <1>5, <1>6, ClaimsFinite
<1> HIDE DEF m, n, u
<1>9. m = n + u
  BY <1>8
<1> QED
  BY <1>1, <1>7, <1>9 DEF m, n, u

LEMMA NewFields ==
    /\ NewResource \in State /\ Freed \in State /\ Freed.freed
    /\ ~NewResource.freed /\ ~NewResource.orphaned /\ NewResource.count = 0
    /\ Unlocked(Locked(NewResource, "PUBLIC")) = NewResource
<1>1. /\ NewResource \in State /\ Freed \in State /\ Freed.freed
      /\ ~NewResource.freed /\ ~NewResource.orphaned /\ NewResource.count = 0
  BY DEF NewResource, Freed, State
<1>2. PICK one \in Nat : one = NewResource.count + 1 /\ one = 1
  BY <1>1
<1> DEFINE l == Locked(NewResource, "PUBLIC")
<1>3. l = [NewResource EXCEPT !.count = one, !.accessor = "PUBLIC"]
  BY <1>2 DEF Locked
<1>4. l = [accessor |-> "PUBLIC", count |-> one, orphaned |-> FALSE, freed |-> FALSE]
  BY <1>3 DEF NewResource
<1> HIDE DEF l
<1>5. PICK zero \in Nat : zero = l.count - 1 /\ zero = 0
  BY <1>2, <1>4
<1>6. Unlocked(l) = [l EXCEPT !.count = zero, !.freed = FALSE]
  BY <1>4, <1>5 DEF Unlocked
<1>7. Unlocked(l) = [accessor |-> "PUBLIC", count |-> zero, orphaned |-> FALSE,
                     freed |-> FALSE]
  BY <1>4, <1>6
<1>8. Unlocked(l) = NewResource
  BY <1>5, <1>7 DEF NewResource
<1> QED
  BY <1>1, <1>8 DEF l

LEMMA DestructFields ==
    ASSUME NEW s \in State
    PROVE  /\ Destructed(s) \in State
           /\ s.count = 0 => Destructed(s).freed
           /\ s.count # 0 => /\ Destructed(s).freed = s.freed /\ Destructed(s).orphaned
                             /\ Destructed(s).count = s.count
                             /\ Destructed(s).accessor = s.accessor
BY DEF Destructed, State

-----------------------------------------------------------------------------
(* Replacing the resource of a stream, or of an attribute                   *)

Dropped(state) == IF state.count = 0 THEN Freed ELSE [state EXCEPT !.orphaned = TRUE]

\* The resource old is destructed, and r allocated instead, perhaps the same.
Swapped(old, r, new) ==
    /\ new \in [Resource -> State] /\ r \in Resource /\ new[r] = NewResource
    /\ resource[r].freed \/ (r = old /\ resource[r].count = 0)
    /\ \A q \in Resource \ {r} :
          /\ resource[q].freed => new[q].freed
          /\ ~resource[q].freed /\ q # old => new[q] = resource[q]
          /\ ~resource[q].freed /\ q = old => new[q] = Dropped(resource[q])

LEMMA SwapKept ==
    ASSUME Types, NEW owned, KeptAll(resource, owned, draw),
           NEW old, old \in Resource => old \in owned, NEW r, NEW new, Swapped(old, r, new)
    PROVE  KeptAll(new, (owned \ {old}) \cup {r}, draw)
<1> SUFFICES ASSUME NEW q \in Resource
             PROVE  Kept(new[q], q \in (owned \ {old}) \cup {r}, Claims(draw, q))
  BY DEF KeptAll
<1>0. /\ Kept(resource[q], q \in owned, Claims(draw, q))
      /\ resource[q] \in State /\ new[q] \in State
  BY DEF KeptAll, Types, Swapped
<1>1. CASE q = r
  <2>1. Claims(draw, q) = {}
    BY <1>0, <1>1, ClaimsFinite DEF Kept, Swapped
  <2>2. Cardinality(Claims(draw, q)) = 0
    BY <2>1, FS_EmptySet
  <2>3. new[q] = NewResource
    BY <1>1 DEF Swapped
  <2> QED
    BY <1>1, <2>2, <2>3, NewFields DEF Kept
<1>2. CASE q # r /\ resource[q].freed
  BY <1>0, <1>2 DEF Kept, Swapped
<1>3. CASE q # r /\ ~resource[q].freed /\ q # old
  BY <1>0, <1>3 DEF Kept, Swapped
<1>4. CASE q # r /\ ~resource[q].freed /\ q = old
  <2>1. new[q] = Dropped(resource[q]) /\ q \notin (owned \ {old}) \cup {r}
    BY <1>4 DEF Swapped
  <2>2. CASE resource[q].count = 0
    <3>1. Claims(draw, q) = {}
      BY <1>0, <1>4, <2>2, ClaimsFinite DEF Kept
    <3>2. new[q].freed
      BY <2>1, <2>2, NewFields DEF Dropped
    <3> QED
      BY <2>1, <3>1, <3>2 DEF Kept
  <2>3. CASE resource[q].count # 0
    <3>1. /\ new[q].orphaned /\ ~new[q].freed /\ new[q].count = resource[q].count
          /\ new[q].accessor = resource[q].accessor
      BY <1>0, <1>4, <2>1, <2>3 DEF Dropped, State
    <3>2. Claims(draw, q) # {}
      BY <1>0, <1>4, <2>3, ClaimsFinite DEF Kept
    <3> QED
      BY <1>0, <1>4, <2>1, <3>1, <3>2 DEF Kept
  <2> QED BY <2>2, <2>3
<1> QED BY <1>1, <1>2, <1>3, <1>4

LEMMA Destructing ==
    ASSUME Types, HasMemory, NEW old \in Resource, ~resource[old].freed,
           NEW left, left = Swept([resource EXCEPT ![old] = Destructed(@)]),
           NEW r, r = Allocated(left), NEW new, new = [left EXCEPT ![r] = NewResource]
    PROVE  Swapped(old, r, new)
<1> DEFINE mid == [resource EXCEPT ![old] = Destructed(@)]
<1>1. resource \in [Resource -> State] /\ Destructed(resource[old]) \in State
  BY DestructFields DEF Types
<1>2. /\ mid \in [Resource -> State] /\ mid[old] = Destructed(resource[old])
      /\ \A q \in Resource : q # old => mid[q] = resource[q]
  BY <1>1
<1>3. left = [q \in Resource |-> IF mid[q].freed THEN Freed ELSE mid[q]]
  BY DEF Swept
<1> HIDE DEF mid
<1>4. /\ left \in [Resource -> State]
      /\ \A q \in Resource : left[q].freed <=> mid[q].freed
      /\ \A q \in Resource : mid[q].freed => left[q] = Freed
      /\ \A q \in Resource : ~mid[q].freed => left[q] = mid[q]
  BY <1>2, <1>3, NewFields
<1>5. \E q \in Resource : left[q].freed
  BY <1>2, <1>4 DEF HasMemory
<1>6. r \in Resource /\ left[r].freed
  BY <1>5, Allocates
<1>7. /\ new \in [Resource -> State] /\ new[r] = NewResource
      /\ \A q \in Resource : q # r => new[q] = left[q]
  BY <1>4, <1>6, NewFields
<1>8. resource[old].count = 0 => mid[old].freed
  BY <1>1, <1>2, DestructFields
<1>9. resource[old].count # 0 =>
         ~mid[old].freed /\ mid[old] = [resource[old] EXCEPT !.orphaned = TRUE]
  BY <1>1, <1>2, DestructFields DEF Destructed
<1>10. resource[r].freed \/ (r = old /\ resource[r].count = 0)
  BY <1>2, <1>4, <1>6, <1>9
<1>11. left[old] = Dropped(resource[old])
  BY <1>4, <1>8, <1>9 DEF Dropped
<1>12. \A q \in Resource \ {r} :
          /\ resource[q].freed => new[q].freed
          /\ ~resource[q].freed /\ q # old => new[q] = resource[q]
          /\ ~resource[q].freed /\ q = old => new[q] = Dropped(resource[q])
  <2> SUFFICES ASSUME NEW q \in Resource \ {r}
               PROVE  /\ resource[q].freed => new[q].freed
                      /\ ~resource[q].freed /\ q # old => new[q] = resource[q]
                      /\ ~resource[q].freed /\ q = old => new[q] = Dropped(resource[q])
    OBVIOUS
  <2>1. new[q] = left[q]
    BY <1>7
  <2>2. CASE q = old
    BY <1>11, <2>1, <2>2
  <2>3. CASE q # old
    <3>1. mid[q] = resource[q]
      BY <1>2, <2>3
    <3>2. mid[q].freed => left[q].freed
      BY <1>4
    <3>3. ~mid[q].freed => left[q] = mid[q]
      BY <1>4
    <3> QED
      BY <2>1, <2>3, <3>1, <3>2, <3>3
  <2> QED BY <2>2, <2>3
<1> QED
  BY <1>6, <1>7, <1>10, <1>12 DEF Swapped

\* Draw calls in flight are not disturbed by what is written above the data that they
\* read, nor by resources that they do not claim.
LEMMA Undisturbed ==
    ASSUME Types, NEW written, NEW resources, NEW owned, KeptAll(resources, owned, draw),
           \A d \in DrawCall, i \in Input :
              draw[d].inputs[i].in # NONE => ~Overlap(draw[d].inputs[i], written)
    PROVE  Disturbed(written, resources) = draw
<1>1. ASSUME NEW d \in DrawCall, NEW i \in Input, draw[d].inputs[i].in # NONE
      PROVE  /\ ~Overlap(draw[d].inputs[i], written)
             /\ ~resources[draw[d].inputs[i].in].freed
  <2>1. draw[d].inputs[i].in \in Resource
    BY <1>1 DEF Types, Draw, Place
  <2>2. Claims(draw, draw[d].inputs[i].in) # {}
    BY HasClaim
  <2> QED
    BY <1>1, <2>1, <2>2 DEF KeptAll, Kept
<1>2. Disturbed(written, resources) = [d \in DrawCall |-> draw[d]]
  BY <1>1 DEF Disturbed
<1> QED
  BY <1>2 DEF Types

LEMMA Small == ASSUME NEW x \in Nat, NEW u \in Nat, x < u PROVE x % u = x
OBVIOUS

LEMMA MaxOfTwo ==
    ASSUME NEW m \in Nat, NEW n \in Nat
    PROVE  Max({m, n}) \in {m, n} /\ Max({m, n}) >= m
<1>1. PICK x \in {m, n} : \A y \in {m, n} : x >= y
  <2>1. CASE m >= n
    BY <2>1
  <2>2. CASE ~(m >= n)
    BY <2>2
  <2> QED BY <2>1, <2>2
<1> QED
  BY <1>1 DEF Max

LEMMA GrownSize ==
    ASSUME NEW M, NoWrap(M), NEW kind, NEW n \in Nat, n <= M
    PROVE  Grown(kind, n) \in Nat /\ Grown(kind, n) <= 2 * M
<1>1. 3 * n \in Nat /\ 3 * n < UINT /\ 2 * n \in Nat /\ 2 * n < UINT /\ UINT \in Nat
  BY SizeAssumption DEF NoWrap
<1>2. (3 * n) % UINT = 3 * n /\ (2 * n) % UINT = 2 * n
  BY <1>1, Small
<1>3. CASE kind = "vertex"
  <2>1. Grown(kind, n) = (3 * n) \div 2
    BY <1>2, <1>3 DEF Grown
  <2>2. (3 * n) \div 2 \in Nat /\ (3 * n) \div 2 <= 2 * n
    OBVIOUS
  <2> DEFINE g == (3 * n) \div 2
  <2> HIDE DEF g
  <2>3. g \in Nat /\ g <= 2 * n
    BY <2>2 DEF g
  <2>4. g <= 2 * M
    BY <2>3 DEF NoWrap
  <2> QED
    BY <2>1, <2>3, <2>4 DEF g
<1>4. CASE kind # "vertex"
  <2>1. Grown(kind, n) = 2 * n
    BY <1>2, <1>4 DEF Grown
  <2> QED
    BY <2>1 DEF NoWrap
<1> QED BY <1>3, <1>4

LEMMA ReplacedWell ==
    ASSUME Types, HasMemory, NEW kind, NEW old, old = stream[kind].in,
           old \in Resource, ~resource[old].freed,
           NEW size \in Nat, NEW now, now = Replaced(kind, size)
    PROVE  /\ now.stream \in Buffer
           /\ now.stream.bufferSize = size /\ now.stream.writePosition = 0
           /\ Swapped(old, now.stream.in, now.resource)
<1> DEFINE left == Swept([resource EXCEPT ![old] = Destructed(@)])
           r == Allocated(left)
           new == [left EXCEPT ![r] = NewResource]
<1>1. now = [stream |-> [in |-> r, bufferSize |-> size, writePosition |-> 0],
             resource |-> new]
  BY DEF Replaced
<1> HIDE DEF left
<1>2. Swapped(old, r, new)
  BY Destructing DEF left
<1>3. r \in Resource
  BY <1>2 DEF Swapped
<1> HIDE DEF r, new
<1> QED
  BY <1>1, <1>2, <1>3 DEF Buffer

\* There is now room for what is reserved.
LEMMA ReservedWell ==
    ASSUME NEW M, NoWrap(M), Types, HasMemory, NEW kind, NEW s \in Buffer, s = stream[kind],
           Within(s, M), ~resource[s.in].freed,
           NEW required \in Nat, required <= M, NEW now, now = Reserved(kind, required)
    PROVE  /\ now.stream \in Buffer /\ Within(now.stream, M)
           /\ now.stream.writePosition + required <= now.stream.bufferSize
           /\ \/ now.stream = s /\ now.resource = resource
              \/ /\ now.stream.writePosition = 0
                 /\ Swapped(s.in, now.stream.in, now.resource)
<1>0. s.in \in Resource /\ s.bufferSize \in Nat /\ s.writePosition \in Nat /\ M \in Nat
  BY DEF Buffer, NoWrap
<1>1. CASE required > s.bufferSize
  <2> DEFINE g == Grown(kind, s.bufferSize)
             size == Max({required, g})
  <2>1. now = Replaced(kind, size)
    BY <1>1 DEF Reserved
  <2>2. s.bufferSize <= M
    BY <1>0, <1>1
  <2>3. g \in Nat /\ g <= 2 * M
    BY <1>0, <2>2, GrownSize
  <2> HIDE DEF g
  <2>4. size \in {required, g} /\ size >= required
    BY <2>3, MaxOfTwo
  <2> HIDE DEF size
  <2>5. size \in Nat /\ size <= 2 * M
    BY <1>0, <2>3, <2>4
  <2>6. /\ now.stream \in Buffer
        /\ now.stream.bufferSize = size /\ now.stream.writePosition = 0
        /\ Swapped(s.in, now.stream.in, now.resource)
    BY <1>0, <2>1, <2>5, ReplacedWell
  <2> QED
    BY <2>4, <2>5, <2>6 DEF Within
<1>2. CASE required <= s.bufferSize /\ Fits(s, required)
  <2>1. now = [stream |-> s, resource |-> resource]
    BY <1>0, <1>2 DEF Reserved
  <2>2. s.writePosition + required \in Nat /\ s.writePosition + required < UINT /\ UINT \in Nat
    BY <1>0, SizeAssumption DEF Within, NoWrap
  <2>3. Plus(s.writePosition, required) = s.writePosition + required
    BY <2>2, Small DEF Plus
  <2> QED
    BY <1>2, <2>1, <2>3 DEF Fits
<1>3. CASE required <= s.bufferSize /\ ~Fits(s, required)
  <2>1. now = Replaced(kind, s.bufferSize)
    BY <1>0, <1>3 DEF Reserved
  <2>2. /\ now.stream \in Buffer
        /\ now.stream.bufferSize = s.bufferSize /\ now.stream.writePosition = 0
        /\ Swapped(s.in, now.stream.in, now.resource)
    BY <1>0, <2>1, ReplacedWell
  <2> QED
    BY <1>0, <1>3, <2>2 DEF Within
<1> QED
  BY <1>0, <1>1, <1>2, <1>3

LEMMA AdvancedWell ==
    ASSUME NEW M, NoWrap(M), NEW s \in Buffer, Within(s, M), NEW size \in Nat,
           s.writePosition + size <= s.bufferSize
    PROVE  /\ Advanced(s, size) \in Buffer /\ Within(Advanced(s, size), M)
           /\ Advanced(s, size).in = s.in /\ Advanced(s, size).bufferSize = s.bufferSize
           /\ Advanced(s, size).writePosition = s.writePosition + size
<1>1. PICK w \in Nat : w = s.writePosition + size
  BY DEF Buffer
<1>2. w < UINT /\ UINT \in Nat
  BY <1>1, SizeAssumption DEF Within, NoWrap, Buffer
<1>3. Plus(s.writePosition, size) = w
  BY <1>1, <1>2, Small DEF Plus
<1>4. Advanced(s, size) = [s EXCEPT !.writePosition = w]
  BY <1>3 DEF Advanced
<1> QED
  BY <1>1, <1>4 DEF Buffer, Within

LEMMA KeptSame ==
    ASSUME NEW resources, NEW o, NEW p, KeptAll(resources, o, draw),
           \A q \in Resource : q \in o <=> q \in p
    PROVE  KeptAll(resources, p, draw)
<1>1. ASSUME NEW q \in Resource PROVE Kept(resources[q], q \in p, Claims(draw, q))
  <2>1. Kept(resources[q], q \in o, Claims(draw, q)) /\ (q \in o <=> q \in p)
    BY DEF KeptAll
  <2> QED
    BY <2>1 DEF Kept
<1> QED
  BY <1>1 DEF KeptAll

\* The resource that is allocated is not in use.
LEMMA SwapFresh ==
    ASSUME Types, NEW owned, KeptAll(resource, owned, draw),
           NEW old, NEW r, NEW new, Swapped(old, r, new)
    PROVE  r \in Resource /\ (r = old \/ r \notin owned) /\ Claims(draw, r) = {}
<1>1. r \in Resource /\ (resource[r].freed \/ (r = old /\ resource[r].count = 0))
  BY DEF Swapped
<1>2. Kept(resource[r], r \in owned, Claims(draw, r))
  BY <1>1 DEF KeptAll
<1> QED
  BY <1>1, <1>2, ClaimsFinite DEF Kept

BelowAll(s) == \A d \in DrawCall, i \in Input :
                  draw[d].inputs[i].in # NONE => Below(draw[d].inputs[i], s)

LEMMA Reserving ==
    ASSUME NEW M, NoWrap(M), Types, HasMemory, KeptAll(resource, Owned, draw),
           NEW kind, NEW s \in Buffer, s = stream[kind], Within(s, M), BelowAll(s),
           NEW others, Owned = others \cup {s.in}, s.in \notin others,
           NEW required \in Nat, required <= M, NEW now, now = Reserved(kind, required)
    PROVE  /\ now.stream \in Buffer /\ Within(now.stream, M)
           /\ now.stream.writePosition + required <= now.stream.bufferSize
           /\ now.resource \in [Resource -> State]
           /\ KeptAll(now.resource, others \cup {now.stream.in}, draw)
           /\ now.stream.in \notin others
           /\ BelowAll(now.stream)
<1>1. s.in \in Resource /\ s.in \in Owned
  BY DEF Buffer
<1>2. ~resource[s.in].freed
  BY <1>1 DEF KeptAll, Kept
<1>3. /\ now.stream \in Buffer /\ Within(now.stream, M)
      /\ now.stream.writePosition + required <= now.stream.bufferSize
      /\ \/ now.stream = s /\ now.resource = resource
         \/ /\ now.stream.writePosition = 0
            /\ Swapped(s.in, now.stream.in, now.resource)
  BY <1>2, ReservedWell
<1>4. CASE now.stream = s /\ now.resource = resource
  BY <1>3, <1>4 DEF Types
<1>5. CASE Swapped(s.in, now.stream.in, now.resource)
  <2>1. PICK r : r = now.stream.in
    OBVIOUS
  <2>2. /\ r \in Resource /\ (r = s.in \/ r \notin Owned) /\ Claims(draw, r) = {}
    BY <1>5, <2>1, SwapFresh
  <2>3. KeptAll(now.resource, (Owned \ {s.in}) \cup {r}, draw)
    BY <1>1, <1>5, <2>1, SwapKept
  <2>4. (Owned \ {s.in}) \cup {r} = others \cup {r} /\ r \notin others
    BY <2>2
  <2>5. BelowAll(now.stream)
    BY <2>1, <2>2, HasClaim DEF BelowAll, Below
  <2>6. now.resource \in [Resource -> State]
    BY <1>5 DEF Swapped
  <2> QED
    BY <1>3, <2>1, <2>3, <2>4, <2>5, <2>6
<1> QED BY <1>3, <1>4, <1>5

LEMMA TouchFields ==
    ASSUME NEW s \in State, ~s.orphaned, NEW class \in {"PUBLIC", "PRIVATE"}
    PROVE  LET t == Unlocked(Locked(s, class))
           IN  /\ t \in State /\ ~t.freed /\ ~t.orphaned
               /\ t.count = s.count /\ t.accessor = class
<1>1. PICK c \in Nat : c = s.count + 1
  BY DEF State
<1>2. Locked(s, class) = [s EXCEPT !.count = c, !.accessor = class]
  BY <1>1 DEF Locked
<1> DEFINE l == Locked(s, class)
<1>3. l \in State /\ ~l.orphaned /\ l.count = c
  BY <1>2 DEF State
<1>4. c - 1 = s.count /\ s.count \in Nat
  BY <1>1 DEF State
<1>5. l.accessor = class
  BY <1>2 DEF State
<1> HIDE DEF l
<1>6. PICK n \in Nat : n = s.count /\ n = l.count - 1
  BY <1>3, <1>4
<1>7. Unlocked(l) = [l EXCEPT !.count = n, !.freed = FALSE]
  BY <1>3, <1>6 DEF Unlocked
<1> QED
  BY <1>3, <1>5, <1>6, <1>7 DEF State, l

\* A resource is locked to be written to, and unlocked.
Touched(mid, r, class) == [mid EXCEPT ![r] = Unlocked(Locked(@, class))]

LEMMA TouchKept ==
    ASSUME NEW mid \in [Resource -> State], NEW owned, KeptAll(mid, owned, draw),
           NEW r \in Resource, r \in owned, NEW class \in {"PUBLIC", "PRIVATE"},
           Grants(mid[r], class)
    PROVE  /\ Touched(mid, r, class) \in [Resource -> State]
           /\ KeptAll(Touched(mid, r, class), owned, draw)
<1> DEFINE t == Unlocked(Locked(mid[r], class))
           new == Touched(mid, r, class)
<1>1. Kept(mid[r], r \in owned, Claims(draw, r)) /\ mid[r] \in State
  BY DEF KeptAll
<1>2. ~mid[r].orphaned /\ ~mid[r].freed
  BY <1>1 DEF Kept
<1>3. /\ t \in State /\ ~t.freed /\ ~t.orphaned
      /\ t.count = mid[r].count /\ t.accessor = class
  BY <1>1, <1>2, TouchFields
<1>4. new[r] = t /\ \A q \in Resource : q # r => new[q] = mid[q]
  BY DEF Touched
<1>5. new \in [Resource -> State]
  BY <1>3 DEF Touched
<1> HIDE DEF t, new
<1>6. mid[r].count > 0 => class = "PRIVATE"
  BY <1>1, <1>2 DEF Kept, Grants, State
<1>7. Kept(new[r], r \in owned, Claims(draw, r))
  BY <1>1, <1>2, <1>3, <1>4, <1>6 DEF Kept
<1>8. ASSUME NEW q \in Resource PROVE Kept(new[q], q \in owned, Claims(draw, q))
  <2>1. CASE q = r
    BY <1>7, <2>1
  <2>2. CASE q # r
    BY <1>4, <2>2 DEF KeptAll
  <2> QED BY <2>1, <2>2
<1> QED
  <2>1. KeptAll(new, owned, draw)
    BY <1>8 DEF KeptAll
  <2> QED
    BY <1>5, <2>1 DEF new

\* What is written begins where the data of draw calls in flight ends.
LEMMA WriteUndisturbed ==
    ASSUME Types, NEW s \in Buffer, BelowAll(s), NEW size \in Nat,
           NEW resources, NEW owned, KeptAll(resources, owned, draw)
    PROVE  Disturbed(Mapped(s, size), resources) = draw
<1>1. ASSUME NEW d \in DrawCall, NEW i \in Input, draw[d].inputs[i].in # NONE
      PROVE  ~Overlap(draw[d].inputs[i], Mapped(s, size))
  <2>1. PICK x \in Place : x = draw[d].inputs[i]
    BY DEF Types, Draw
  <2>2. x.in = s.in => x.from + x.size <= s.writePosition
    BY <1>1, <2>1 DEF BelowAll, Below
  <2>3. ~Overlap(x, Mapped(s, size))
    BY <2>2 DEF Overlap, Mapped, Place, Buffer
  <2> QED
    BY <2>1, <2>3
<1> QED
  BY <1>1, Undisturbed

LEMMA NothingWritten ==
    ASSUME Types, NEW resources, NEW owned, KeptAll(resources, owned, draw)
    PROVE  Disturbed(NoRange, resources) = draw
<1>1. ASSUME NEW d \in DrawCall, NEW i \in Input, draw[d].inputs[i].in # NONE
      PROVE  ~Overlap(draw[d].inputs[i], NoRange)
  BY <1>1 DEF Overlap, NoRange
<1> QED
  BY <1>1, Undisturbed
-----------------------------------------------------------------------------
(* Every step keeps the invariant                                           *)

LEMMA NoInputsType == NoInputs \in [Input -> Place] /\ NoRange \in Place
BY DEF NoInputs, NoRange, Place

LEMMA InvInit == ASSUME NEW M, NoWrap(M), Init PROVE IInv(M)
<1>0. 1 \in Resource /\ 2 \in Resource /\ InitialSize \in Nat
  BY ResourceAssumption, SizeAssumption
<1>1. Types
  <2>1. stream \in [vertex : Buffer, index : Buffer]
    BY <1>0 DEF Init, Buffer
  <2>2. current \in [Attribute -> Value] /\ indexBuffer \in Resource \cup {NONE}
    BY DEF Init, Value
  <2>3. resource \in [Resource -> State]
    BY NewFields DEF Init
  <2>4. draw \in [DrawCall -> Draw]
    BY NoInputsType DEF Init, NoDraw, Draw
  <2>5. call \in Call
    BY NoInputsType DEF Init, NoCall, Call
  <2> QED BY <2>1, <2>2, <2>3, <2>4, <2>5 DEF Types
<1>2. SizeInv(M)
  BY <1>0 DEF Init, SizeInv, Within, NoWrap, NoCall
<1>3. OwnInv
  <2>1. /\ stream.vertex.in = 1 /\ stream.index.in = 2
        /\ \A a \in Attribute : /\ current[a].in = NONE
                                /\ ~current[a].holds /\ current[a].dirty
    BY DEF Init
  <2>2. NONE # 1 /\ NONE # 2
    BY <1>0, NoneAssumption
  <2> QED
    BY <2>1, <2>2 DEF OwnInv
<1>4. KeptAll(resource, Owned, draw)
  <2> SUFFICES ASSUME NEW r \in Resource PROVE Kept(resource[r], r \in Owned, Claims(draw, r))
    BY DEF KeptAll
  <2>1. Claims(draw, r) = {}
    <3>1. \A d \in DrawCall, i \in Input : draw[d].inputs[i].in = NONE
      BY DEF Init, NoDraw, NoInputs, NoRange
    <3> QED
      BY <3>1, NoneAssumption DEF Claims
  <2>2. Cardinality(Claims(draw, r)) = 0
    BY <2>1, FS_EmptySet
  <2>3. r \in Owned <=> r \in {1, 2}
    BY NoneAssumption DEF Owned, Init
  <2>4. resource[r] = IF r \in {1, 2} THEN NewResource ELSE Freed
    BY DEF Init
  <2> QED
    BY <2>1, <2>2, <2>3, <2>4, NewFields DEF Kept
<1>5. DrawInv
  BY DEF Init, DrawInv, NoDraw, NoInputs, NoRange
<1>6. CallInv
  BY DEF Init, CallInv, NoCall
<1> QED BY <1>1, <1>2, <1>3, <1>4, <1>5, <1>6 DEF IInv

\* A call begins, or begins again, or ends.
LEMMA ResetFields ==
    ASSUME NEW sources \in Sources, NEW indices \in IndexSize \cup {0},
           call' \in {NoCall, FirstStep(sources, indices)}
    PROVE  /\ call' \in Call /\ CallInv'
           /\ call'.pc # "attributes"
           /\ call'.pc # "none" => call'.sources = sources /\ call'.indices = indices
<1>0. sources \in [Attribute -> Nat] /\ indices \in Nat
  BY SizeAssumption
<1>1. /\ call' \in Call /\ call'.inputs = NoInputs
      /\ call'.pc \in {"none", "index", "reserve"}
      /\ call'.pc # "none" => call'.sources = sources /\ call'.indices = indices
      /\ call'.pc = "index" => indices > 0
      /\ call'.pc = "reserve" => indices = 0
  <2>1. CASE call' = NoCall
    BY <2>1, NoInputsType DEF NoCall, Call
  <2>2. CASE call' = FirstStep(sources, indices)
    <3>1. PICK pc \in {"index", "reserve"} : /\ pc = "index" => indices > 0
                                             /\ pc = "reserve" => indices = 0
                                             /\ pc = IF indices > 0 THEN "index" ELSE "reserve"
      BY <1>0
    <3>2. call' = [pc |-> pc, sources |-> sources, indices |-> indices, next |-> 1,
                   inputs |-> NoInputs]
      BY <2>2, <3>1 DEF FirstStep, NoCall
    <3> QED
      BY <1>0, <3>1, <3>2, NoInputsType DEF Call
  <2> QED BY <2>1, <2>2
<1>2. (\A a \in Attribute : call.inputs[a] = NoRange)' /\ (call.inputs[Index] = NoRange)'
  BY <1>1, InputFacts DEF NoInputs
<1>3. call'.pc = "reserve" => PreparedIndex'
  BY <1>1, <1>2 DEF PreparedIndex
<1>4. CallInv'
  BY <1>1, <1>2, <1>3 DEF CallInv
<1> QED BY <1>1, <1>4

LEMMA CallReset ==
    ASSUME NEW M, IInv(M), NEW sources \in Sources, NEW indices \in IndexSize \cup {0},
           call' \in {NoCall, FirstStep(sources, indices)},
           UNCHANGED <<stream, current, indexBuffer, resource, draw>>
    PROVE  IInv(M)'
<1>1. /\ call' \in Call /\ CallInv'
      /\ call'.pc # "attributes"
      /\ call'.pc # "none" => call'.sources = sources /\ call'.indices = indices
  BY ResetFields
<1>2. Types'
  BY <1>1 DEF IInv, Types
<1>3. SizeInv(M)'
  BY <1>1 DEF IInv, SizeInv, Within
<1>4. OwnInv'
  BY DEF IInv, OwnInv
<1>5. KeptAll(resource, Owned, draw)'
  <2>1. Owned' = Owned /\ resource' = resource /\ draw' = draw
    BY DEF Owned
  <2> QED
    BY <2>1 DEF IInv, KeptAll
<1>6. DrawInv'
  BY DEF IInv, DrawInv, Written, Below
<1> QED BY <1>1, <1>2, <1>3, <1>4, <1>5, <1>6 DEF IInv

LEMMA StepDrawElements ==
    ASSUME NEW M, IInv(M), NEW sources \in Sources, NEW indices \in IndexSize \cup {0},
           drawElements(sources, indices)
    PROVE  IInv(M)'
<1>1. /\ call' \in {NoCall, FirstStep(sources, indices)}
      /\ UNCHANGED <<stream, current, indexBuffer, resource, draw>>
  BY DEF drawElements
<1> QED
  BY <1>1, CallReset

LEMMA StepAbandonCall ==
    ASSUME NEW M, IInv(M), abandonCall \/ skipDraw
    PROVE  IInv(M)'
<1>1. /\ call' \in {NoCall, FirstStep(call.sources, call.indices)}
      /\ UNCHANGED <<stream, current, indexBuffer, resource, draw>>
      /\ call.pc = "attributes"
  BY DEF abandonCall, skipDraw, NextInstance
<1>2. PICK sources \in Sources, indices \in IndexSize \cup {0} :
         sources = call.sources /\ indices = call.indices
  BY <1>1 DEF IInv, SizeInv
<1>3. call' \in {NoCall, FirstStep(sources, indices)}
  BY <1>1, <1>2
<1> QED
  BY <1>1, <1>3, CallReset

LEMMA StepSetVertexAttrib ==
    ASSUME NEW M, IInv(M), NEW b \in Attribute, setVertexAttrib(b)
    PROVE  IInv(M)'
<1>1. /\ current' \in [Attribute -> Value]
      /\ \A a \in Attribute : current'[a].in = current[a].in
      /\ ~current'[b].holds /\ current'[b].dirty
      /\ \A a \in Attribute : a # b => current'[a] = current[a]
  BY DEF setVertexAttrib, IInv, Types, Value
<1>2. call.pc = "none" /\ UNCHANGED <<stream, indexBuffer, resource, draw, call>>
  BY DEF setVertexAttrib
<1>3. Types'
  BY <1>1, <1>2 DEF IInv, Types
<1>4. SizeInv(M)'
  BY <1>2 DEF IInv, SizeInv, Within
<1>5. OwnInv'
  <2>1. stream'.vertex.in = stream.vertex.in /\ stream'.index.in = stream.index.in
    BY <1>2
  <2>2. \A a \in Attribute : current'[a].holds <=> ~current'[a].dirty
    BY <1>1 DEF IInv, OwnInv
  <2>3. \A a \in Attribute : current'[a].holds => current'[a].in # NONE
    BY <1>1 DEF IInv, OwnInv
  <2> QED
    BY <1>1, <2>1, <2>2, <2>3 DEF IInv, OwnInv
<1>6. KeptAll(resource, Owned, draw)'
  <2>1. Owned' = Owned
    BY <1>1, <1>2 DEF Owned
  <2> QED
    BY <1>2, <2>1 DEF IInv, KeptAll
<1>7. DrawInv'
  BY <1>2 DEF IInv, DrawInv, Written, Below
<1>8. CallInv'
  BY <1>2 DEF IInv, CallInv
<1> QED BY <1>3, <1>4, <1>5, <1>6, <1>7, <1>8 DEF IInv

LEMMA StepStutter ==
    ASSUME NEW M, IInv(M), UNCHANGED vars
    PROVE  IInv(M)'
<1>0. UNCHANGED <<stream, current, indexBuffer, resource, draw, call>>
  BY DEF vars
<1>1. Types' /\ OwnInv' /\ SizeInv(M)'
  <2>1. Types'
    BY <1>0 DEF IInv, Types
  <2>2. OwnInv'
    BY <1>0 DEF IInv, OwnInv
  <2>3. Remaining' = Remaining
    BY <1>0 DEF Remaining, Arrays
  <2>4. SizeInv(M)'
    BY <1>0, <2>3 DEF IInv, SizeInv, Within
  <2> QED BY <2>1, <2>2, <2>4
<1>2. KeptAll(resource, Owned, draw)'
  <2>1. Owned' = Owned
    BY <1>0 DEF Owned
  <2> QED
    BY <1>0, <2>1 DEF IInv, KeptAll
<1>3. DrawInv'
  BY <1>0 DEF IInv, DrawInv, Written, Below
<1>4. CallInv'
  <2>1. \A a \in Attribute : PreparedAttribute(a)' <=> PreparedAttribute(a)
    BY <1>0 DEF PreparedAttribute, Written, Below, Arrays
  <2>2. PreparedIndex' <=> PreparedIndex
    BY <1>0 DEF PreparedIndex, Written, Below
  <2> QED
    BY <1>0, <2>1, <2>2 DEF IInv, CallInv
<1> QED BY <1>1, <1>2, <1>3, <1>4 DEF IInv

LEMMA MappedFields ==
    ASSUME NEW s \in Buffer, NEW size \in Nat
    PROVE  LET w == Mapped(s, size)
           IN  /\ w \in Place /\ w.in = s.in /\ w.from = s.writePosition
               /\ w.size = size /\ w.of = s.bufferSize
BY DEF Mapped, Buffer, Place

\* Streams as the lemmas about either of them want them.
LEMMA Streams ==
    ASSUME NEW M, IInv(M)
    PROVE  /\ stream.vertex \in Buffer /\ stream.vertex = stream["vertex"]
           /\ stream.index \in Buffer /\ stream.index = stream["index"]
           /\ BelowAll(stream.vertex) /\ BelowAll(stream.index)
           /\ Within(stream.vertex, M) /\ Within(stream.index, M)
<1>1. stream.vertex \in Buffer /\ stream.vertex = stream["vertex"]
  BY DEF IInv, Types
<1>2. stream.index \in Buffer /\ stream.index = stream["index"]
  BY DEF IInv, Types
<1>3. BelowAll(stream.vertex) /\ BelowAll(stream.index)
  BY DEF IInv, DrawInv, Written, BelowAll
<1> QED
  BY <1>1, <1>2, <1>3 DEF IInv, SizeInv

LEMMA StepApplyIndexBuffer ==
    ASSUME NEW M, NoWrap(M), IInv(M), applyIndexBuffer
    PROVE  IInv(M)'
<1> DEFINE others == {stream.vertex.in} \cup {current[a].in : a \in Attribute}
<1>1. PICK n, now, b, w :
         /\ n \in Nat /\ n = call.indices /\ now = Reserved("index", n) /\ b = now.stream
         /\ w = Mapped(b, n)
  BY DEF applyIndexBuffer, IInv, Types, Call
<1>2. /\ call.pc = "index" /\ HasMemory
      /\ Grants(now.resource[w.in], "PUBLIC")
      /\ resource' = [now.resource EXCEPT ![w.in] = Unlocked(Locked(@, "PUBLIC"))]
      /\ stream' = [stream EXCEPT !.index = Advanced(b, n)]
      /\ draw' = Disturbed(w, resource')
      /\ indexBuffer' = w.in
      /\ call' = [call EXCEPT !.pc = "reserve", !.inputs[Index] = w]
      /\ current' = current
  BY <1>1 DEF applyIndexBuffer
<1>3. n > 0 /\ n <= M
  BY <1>1, <1>2 DEF IInv, SizeInv, CallInv, NoWrap
<1>4. PICK s \in Buffer : /\ s = stream.index /\ s = stream["index"]
                          /\ BelowAll(s) /\ Within(s, M)
  BY Streams
<1>5. Owned = others \cup {s.in} /\ s.in \notin others
  BY <1>4 DEF Owned, IInv, OwnInv
<1> HIDE DEF others
<1>6. /\ b \in Buffer /\ Within(b, M)
      /\ b.writePosition + n <= b.bufferSize
      /\ now.resource \in [Resource -> State]
      /\ KeptAll(now.resource, others \cup {b.in}, draw)
      /\ b.in \notin others
      /\ BelowAll(b)
  BY <1>1, <1>2, <1>3, <1>4, <1>5, Reserving DEF IInv
<1>7. /\ w \in Place /\ w.in = b.in /\ w.from = b.writePosition
      /\ w.size = n /\ w.of = b.bufferSize /\ b.in \in Resource
  BY <1>1, <1>6, MappedFields DEF Buffer
<1>8. resource' \in [Resource -> State] /\ KeptAll(resource', others \cup {b.in}, draw)
  <2>1. PICK r, own : /\ r \in Resource /\ r = w.in /\ r = b.in /\ own = others \cup {b.in}
                     /\ r \in own
    BY <1>7
  <2>2. PICK mid \in [Resource -> State] : mid = now.resource /\ KeptAll(mid, own, draw)
    BY <1>6, <2>1
  <2>3. Grants(mid[r], "PUBLIC") /\ resource' = Touched(mid, r, "PUBLIC")
    BY <1>2, <2>1, <2>2 DEF Touched
  <2>4. /\ Touched(mid, r, "PUBLIC") \in [Resource -> State]
        /\ KeptAll(Touched(mid, r, "PUBLIC"), own, draw)
    BY <2>1, <2>2, <2>3, TouchKept
  <2> QED
    BY <2>1, <2>3, <2>4
<1>9. draw' = draw
  <2>1. Types /\ b \in Buffer /\ BelowAll(b)
    BY <1>6 DEF IInv
  <2>2. PICK own : KeptAll(resource', own, draw)
    BY <1>8
  <2>3. n \in Nat
    BY <1>1
  <2>4. Disturbed(Mapped(b, n), resource') = draw
    BY <2>1, <2>2, <2>3, WriteUndisturbed
  <2> QED
    BY <1>1, <1>2, <2>4
<1>10. PICK c : c = Advanced(b, n)
  OBVIOUS
<1>11. /\ c \in Buffer /\ Within(c, M) /\ c.in = b.in
       /\ c.bufferSize = b.bufferSize /\ c.writePosition = b.writePosition + n
  BY <1>1, <1>6, <1>10, AdvancedWell
<1>12. /\ stream' \in [vertex : Buffer, index : Buffer]
       /\ stream'.vertex = stream.vertex /\ stream'.index = c
  BY <1>2, <1>10, <1>11 DEF IInv, Types
<1>13. /\ call' \in Call /\ call'.pc = "reserve"
       /\ call'.sources = call.sources /\ call'.indices = n
       /\ call'.inputs[Index] = w
       /\ \A a \in Attribute : call'.inputs[a] = call.inputs[a]
  BY <1>1, <1>2, <1>7, InputFacts DEF IInv, Types, Call
<1>14. Types'
  BY <1>2, <1>7, <1>8, <1>9, <1>12, <1>13 DEF IInv, Types
<1>15. SizeInv(M)'
  BY <1>1, <1>2, <1>11, <1>12, <1>13 DEF IInv, SizeInv
<1>16. OwnInv'
  <2>1. b.in # stream.vertex.in /\ \A a \in Attribute : b.in # current[a].in
    BY <1>6 DEF others
  <2>2. stream'.vertex.in = stream.vertex.in /\ stream'.index.in = b.in
    BY <1>11, <1>12
  <2> QED
    BY <1>2, <2>1, <2>2 DEF IInv, OwnInv
<1>17. KeptAll(resource, Owned, draw)'
  <2>1. Owned' = others \cup {b.in}
    BY <1>2, <1>11, <1>12 DEF Owned, others
  <2> QED
    BY <1>8, <1>9, <2>1
<1>18. DrawInv'
  <2> SUFFICES ASSUME NEW d \in DrawCall, NEW i \in Input, draw[d].inputs[i].in # NONE
               PROVE  Written(draw[d].inputs[i])'
    BY <1>9 DEF DrawInv, IInv
  <2>1. PICK x \in Place : x = draw[d].inputs[i]
    BY DEF IInv, Types, Draw
  <2>2. Written(x) /\ Below(x, b)
    BY <1>6, <2>1 DEF IInv, DrawInv, BelowAll
  <2>3. Below(x, c)
    BY <1>1, <1>6, <1>11, <2>2 DEF Below, Place, Buffer
  <2> QED
    BY <1>9, <1>12, <2>1, <2>2, <2>3 DEF Written, Below
<1>19. CallInv'
  <2>1. b.in # stream.vertex.in
    BY <1>6 DEF others
  <2>2. w.from + w.size <= w.of /\ Below(w, stream.vertex) /\ Below(w, c)
    BY <1>6, <1>7, <1>11, <2>1 DEF Below, Buffer
  <2>3. Written(w)'
    BY <1>12, <2>2 DEF Written, Below
  <2>4. PreparedIndex'
    BY <1>2, <1>3, <1>7, <1>11, <1>12, <1>13, <2>3 DEF PreparedIndex, Written, Below
  <2> QED
    BY <1>2, <1>13, <2>4 DEF IInv, CallInv
<1> QED BY <1>14, <1>15, <1>16, <1>17, <1>18, <1>19 DEF IInv

LEMMA StepReserveRequiredSpace ==
    ASSUME NEW M, NoWrap(M), IInv(M), reserveRequiredSpace
    PROVE  IInv(M)'
<1> DEFINE others == {stream.index.in} \cup {current[a].in : a \in Attribute}
<1>1. PICK n, now, b : /\ n = SumFunctionOnSet(call.sources, Arrays) % UINT
                       /\ now = Reserved("vertex", n) /\ b = now.stream
  OBVIOUS
<1>2. /\ call.pc = "reserve" /\ HasMemory
      /\ resource' = now.resource
      /\ stream' = [stream EXCEPT !.vertex = b]
      /\ draw' = Disturbed(NoRange, resource')
      /\ call' = [call EXCEPT !.pc = "attributes", !.next = 1]
      /\ current' = current /\ indexBuffer' = indexBuffer
  BY <1>1 DEF reserveRequiredSpace
<1>3. n = SumFunctionOnSet(call.sources, Arrays) /\ n \in Nat /\ n <= M
  <2>1. PICK sources \in Sources : sources = call.sources
    BY <1>2 DEF IInv, SizeInv
  <2>2. sources \in [Attribute -> Nat]
    BY SizeAssumption
  <2>3. Arrays = {a \in Attribute : sources[a] > 0}
    BY <2>1 DEF Arrays
  <2>4. IsFiniteSet(Arrays) /\ Arrays \in SUBSET Attribute
    BY <2>3, AttributeAssumption, FS_Subset
  <2>5. SumFunctionOnSet(sources, Arrays) \in Nat
    BY <2>2, <2>4, SumType
  <2>6. SumFunctionOnSet(sources, Arrays) <= M
    BY <2>3 DEF NoWrap
  <2> DEFINE sum == SumFunctionOnSet(sources, Arrays)
  <2>7. n = sum % UINT
    BY <1>1, <2>1
  <2>8. sum \in Nat /\ sum <= M
    BY <2>5, <2>6
  <2> HIDE DEF sum
  <2>9. sum < UINT /\ UINT \in Nat
    BY <2>8, SizeAssumption DEF NoWrap
  <2>10. n = sum
    BY <2>7, <2>8, <2>9, Small
  <2> QED
    BY <2>1, <2>8, <2>10 DEF sum
<1>4. PICK s \in Buffer : /\ s = stream.vertex /\ s = stream["vertex"]
                          /\ BelowAll(s) /\ Within(s, M)
  BY Streams
<1>5. Owned = others \cup {s.in} /\ s.in \notin others
  BY <1>4 DEF Owned, IInv, OwnInv
<1> HIDE DEF others
<1>6. /\ b \in Buffer /\ Within(b, M)
      /\ b.writePosition + n <= b.bufferSize
      /\ now.resource \in [Resource -> State]
      /\ KeptAll(now.resource, others \cup {b.in}, draw)
      /\ b.in \notin others
      /\ BelowAll(b)
  BY <1>1, <1>2, <1>3, <1>4, <1>5, Reserving DEF IInv
<1>7. draw' = draw
  <2>1. Types
    BY DEF IInv
  <2> QED
    BY <1>2, <1>6, <2>1, NothingWritten
<1>8. /\ stream' \in [vertex : Buffer, index : Buffer]
      /\ stream'.vertex = b /\ stream'.index = stream.index
  BY <1>2, <1>6 DEF IInv, Types
<1>9. /\ call' \in Call /\ call'.pc = "attributes" /\ call'.next = 1
      /\ call'.sources = call.sources /\ call'.indices = call.indices
      /\ call'.inputs = call.inputs
  BY <1>2 DEF IInv, Types, Call
<1>10. Types'
  BY <1>2, <1>6, <1>7, <1>8, <1>9 DEF IInv, Types
<1>11. SizeInv(M)'
  <2>1. Remaining' = Arrays
    <3>1. \A a \in Attribute : a >= 1
      BY InputFacts
    <3>2. Arrays' = Arrays /\ Arrays \subseteq Attribute
      BY <1>9 DEF Arrays
    <3> QED
      BY <1>9, <3>1, <3>2 DEF Remaining
  <2>2. b.writePosition + SumFunctionOnSet(call.sources, Arrays) <= b.bufferSize
    BY <1>3, <1>6
  <2> QED
    BY <1>2, <1>6, <1>8, <1>9, <2>1, <2>2 DEF IInv, SizeInv
<1>12. OwnInv'
  <2>1. b.in # stream.index.in /\ \A a \in Attribute : b.in # current[a].in
    BY <1>6 DEF others
  <2>2. stream'.vertex.in = b.in /\ stream'.index.in = stream.index.in
    BY <1>8
  <2> QED
    BY <1>2, <2>1, <2>2 DEF IInv, OwnInv
<1>13. KeptAll(resource, Owned, draw)'
  <2>1. Owned' = others \cup {b.in}
    BY <1>2, <1>8 DEF Owned, others
  <2> QED
    BY <1>2, <1>6, <1>7, <2>1
<1>14. DrawInv'
  BY <1>6, <1>7, <1>8 DEF IInv, DrawInv, Written, Below, BelowAll
<1>15. CallInv'
  <2>1. PreparedIndex'
    <3>1. CASE call.indices = 0
      BY <1>2, <1>9, <3>1 DEF IInv, CallInv, PreparedIndex
    <3>2. CASE call.indices # 0
      <4>1. PICK x : x = call.inputs[Index]
        OBVIOUS
      <4>2. x.in = stream.index.in /\ indexBuffer = stream.index.in /\ Written(x)
        BY <1>2, <3>2, <4>1 DEF IInv, CallInv, PreparedIndex
      <4>3. b.in # stream.index.in
        BY <1>6 DEF others
      <4>4. Written(x)'
        BY <1>8, <4>2, <4>3 DEF Written, Below
      <4> QED
        BY <1>2, <1>8, <1>9, <3>2, <4>1, <4>2, <4>4 DEF PreparedIndex, Written, Below
    <3> QED BY <3>1, <3>2
  <2>2. \A a \in Attribute : call'.inputs[a] = NoRange /\ ~(a < 1)
    BY <1>2, <1>9, InputFacts DEF IInv, CallInv
  <2>3. 1 \in Attribute \/ Attribute = {}
    <3>1. PICK m \in Nat : Attribute = 1 .. m
      BY AttributeAssumption, FS_CardinalityType
    <3> QED
      BY <3>1
  <2> QED
    BY <1>9, <2>1, <2>2, <2>3 DEF CallInv
<1> QED BY <1>10, <1>11, <1>12, <1>13, <1>14, <1>15 DEF IInv

\* What is written of the arrays, and what is left.
LEMMA LeftSum ==
    ASSUME NEW M, IInv(M), call.next \in Arrays
    PROVE  /\ SumFunctionOnSet(call.sources, Remaining) =
                 call.sources[call.next] + SumFunctionOnSet(call.sources, Remaining \ {call.next})
           /\ SumFunctionOnSet(call.sources, Remaining \ {call.next}) \in Nat
           /\ call.sources[call.next] \in Nat
<1>1. PICK f \in [Attribute -> Nat] : f = call.sources
  BY DEF IInv, Types, Call
<1>2. PICK a \in Attribute : a = call.next
  BY DEF Arrays
<1>3. Remaining \in SUBSET Attribute /\ IsFiniteSet(Remaining) /\ a \in Remaining
  <2>1. Remaining \in SUBSET Attribute
    BY DEF Remaining, Arrays
  <2>2. a >= a
    BY InputFacts
  <2> QED
    BY <1>2, <2>1, <2>2, AttributeAssumption, FS_Subset DEF Remaining
<1>4. SumFunctionOnSet(f, Remaining) = f[a] + SumFunctionOnSet(f, Remaining \ {a})
  BY <1>3, SumElement
<1>5. SumFunctionOnSet(f, Remaining \ {a}) \in Nat
  <2>1. Remaining \ {a} \in SUBSET Attribute /\ IsFiniteSet(Remaining \ {a})
    BY <1>3, FS_RemoveElement
  <2> QED
    BY <2>1, SumType
<1>6. f[a] \in Nat
  OBVIOUS
<1> QED
  BY <1>1, <1>2, <1>4, <1>5, <1>6

\* The attribute a is prepared, and those that follow are still to be.
LEMMA PreparedNext ==
    ASSUME NEW M, IInv(M), call.pc = "attributes", NEW a \in Attribute, a = call.next,
           NEW range \in Place, call' = Prepared(range)
    PROVE  /\ call' \in Call /\ call'.pc = "attributes"
           /\ call'.sources = call.sources /\ call'.indices = call.indices
           /\ call'.next = a + 1 /\ call'.next > 0
           /\ call'.next \in Attribute \/ \A b \in Attribute : b < call'.next
           /\ call'.inputs[a] = range
           /\ \A i \in Input : i # a => call'.inputs[i] = call.inputs[i]
           /\ \A b \in Attribute : b < call'.next <=> b < call.next \/ b = a
<1>1. PICK n \in Nat : n = call.next + 1 /\ n > 0
  BY DEF IInv, Types, Call
<1> DEFINE inputs == [call.inputs EXCEPT ![a] = range]
<1>2. /\ inputs \in [Input -> Place] /\ inputs[a] = range
      /\ \A i \in Input : i # a => inputs[i] = call.inputs[i]
  <2>1. call.inputs \in [Input -> Place] /\ a \in Input
    BY InputFacts DEF IInv, Types, Call
  <2> QED
    BY <2>1
<1>7. call' = [call EXCEPT !.next = n, !.inputs = inputs]
  BY <1>1 DEF Prepared
<1> HIDE DEF inputs
<1>3. /\ call' \in Call /\ call'.pc = "attributes"
      /\ call'.sources = call.sources /\ call'.indices = call.indices /\ call'.next = n
      /\ call'.inputs[a] = range
      /\ \A i \in Input : i # a => call'.inputs[i] = call.inputs[i]
  BY <1>2, <1>7 DEF IInv, Types, Call
<1>4. n \in Attribute \/ \A b \in Attribute : b < n
  BY <1>1, NextAttribute
<1>5. \A b \in Attribute : b < n <=> b < call.next \/ b = a
  BY <1>1, InputFacts
<1> QED
  BY <1>1, <1>3, <1>4, <1>5

LEMMA StepWriteAttributeData ==
    ASSUME NEW M, NoWrap(M), IInv(M), writeAttributeData
    PROVE  IInv(M)'
<1>1. PICK a, n, w : /\ a = call.next /\ n = call.sources[a] /\ w = Mapped(stream.vertex, n)
  OBVIOUS
<1>2. /\ call.pc = "attributes" /\ a \in Arrays
      /\ Grants(resource[w.in], "PRIVATE")
      /\ resource' = [resource EXCEPT ![w.in] = Unlocked(Locked(@, "PRIVATE"))]
      /\ stream' = [stream EXCEPT !.vertex = Advanced(@, n)]
      /\ draw' = Disturbed(w, resource')
      /\ call' = Prepared(w)
      /\ current' = current /\ indexBuffer' = indexBuffer
  BY <1>1 DEF writeAttributeData
<1>3. PICK b \in Buffer : /\ b = stream.vertex /\ BelowAll(b) /\ Within(b, M)
  BY Streams
<1>4. PICK rest \in Nat :
         /\ rest = SumFunctionOnSet(call.sources, Remaining \ {a})
         /\ SumFunctionOnSet(call.sources, Remaining) = n + rest /\ n \in Nat
  BY <1>1, <1>2, LeftSum
<1>5. b.writePosition + (n + rest) <= b.bufferSize
  BY <1>2, <1>3, <1>4 DEF IInv, SizeInv
<1>6. b.writePosition + n <= b.bufferSize /\ b.writePosition + n + rest <= b.bufferSize
  BY <1>4, <1>5 DEF Buffer
<1>7. /\ w \in Place /\ w.in = b.in /\ w.from = b.writePosition
      /\ w.size = n /\ w.of = b.bufferSize /\ b.in \in Resource
  BY <1>1, <1>3, <1>4, MappedFields DEF Buffer
<1>8. resource' \in [Resource -> State] /\ KeptAll(resource', Owned, draw)
  <2>1. b.in \in Owned
    BY <1>3 DEF Owned
  <2>2. resource \in [Resource -> State] /\ KeptAll(resource, Owned, draw)
    BY DEF IInv, Types
  <2>3. PICK r \in Resource : r = w.in /\ r \in Owned
    BY <1>7, <2>1
  <2>4. /\ Grants(resource[r], "PRIVATE")
        /\ resource' = Touched(resource, r, "PRIVATE")
    BY <1>2, <2>3 DEF Touched
  <2>5. /\ Touched(resource, r, "PRIVATE") \in [Resource -> State]
        /\ KeptAll(Touched(resource, r, "PRIVATE"), Owned, draw)
    BY <2>2, <2>3, <2>4, TouchKept
  <2> QED
    BY <2>4, <2>5
<1>9. draw' = draw
  <2>1. Types /\ b \in Buffer /\ BelowAll(b) /\ n \in Nat
    BY <1>3, <1>4 DEF IInv
  <2>2. PICK own : KeptAll(resource', own, draw)
    BY <1>8
  <2>3. Disturbed(Mapped(b, n), resource') = draw
    BY <2>1, <2>2, WriteUndisturbed
  <2> QED
    BY <1>1, <1>2, <1>3, <2>3
<1>10. PICK c : c = Advanced(b, n)
  OBVIOUS
<1>11. /\ c \in Buffer /\ Within(c, M) /\ c.in = b.in
       /\ c.bufferSize = b.bufferSize /\ c.writePosition = b.writePosition + n
  BY <1>3, <1>4, <1>6, <1>10, AdvancedWell
<1>12. /\ stream' \in [vertex : Buffer, index : Buffer]
       /\ stream'.vertex = c /\ stream'.index = stream.index
  BY <1>2, <1>3, <1>10, <1>11 DEF IInv, Types
<1>13. a \in Attribute
  BY <1>2 DEF Arrays
<1>14. /\ call' \in Call /\ call'.pc = "attributes"
       /\ call'.sources = call.sources /\ call'.indices = call.indices
       /\ call'.next = a + 1 /\ call'.next > 0
       /\ call'.next \in Attribute \/ \A e \in Attribute : e < call'.next
       /\ call'.inputs[a] = w
       /\ \A i \in Input : i # a => call'.inputs[i] = call.inputs[i]
       /\ \A e \in Attribute : e < call'.next <=> e < call.next \/ e = a
  BY <1>1, <1>2, <1>7, <1>13, PreparedNext
<1>15. Types'
  BY <1>2, <1>8, <1>9, <1>12, <1>14 DEF IInv, Types
<1>16. SizeInv(M)'
  <2>1. Remaining' = Remaining \ {a}
    <3>1. Arrays' = Arrays /\ Arrays \subseteq Attribute
      BY <1>14 DEF Arrays
    <3>2. \A e \in Attribute : e >= call'.next <=> e >= call.next /\ e # a
      <4>1. call.next \in Nat /\ call'.next = call.next + 1
        BY <1>1, <1>14 DEF IInv, Types, Call
      <4> QED
        BY <1>1, <4>1, InputFacts
    <3> QED
      BY <3>1, <3>2 DEF Remaining
  <2>2. c.writePosition + rest <= c.bufferSize
    BY <1>6, <1>11
  <2> QED
    BY <1>2, <1>4, <1>11, <1>12, <1>14, <2>1, <2>2 DEF IInv, SizeInv
<1>17. OwnInv' /\ Owned' = Owned
  <2>1. stream'.vertex.in = stream.vertex.in /\ stream'.index.in = stream.index.in
    BY <1>3, <1>11, <1>12
  <2> QED
    BY <1>2, <2>1 DEF IInv, OwnInv, Owned
<1>18. KeptAll(resource, Owned, draw)'
  BY <1>8, <1>9, <1>17
<1>19. ASSUME NEW x \in Place, Written(x)
       PROVE  Written(x)'
  <2>1. Below(x, b) /\ Below(x, stream.index) /\ x.from + x.size <= x.of
    BY <1>3, <1>19 DEF Written
  <2>2. Below(x, c)
    BY <1>4, <1>11, <2>1 DEF Below, Place, Buffer
  <2> QED
    BY <1>12, <2>1, <2>2 DEF Written, Below
<1>20. DrawInv'
  <2> SUFFICES ASSUME NEW d \in DrawCall, NEW i \in Input, draw[d].inputs[i].in # NONE
               PROVE  Written(draw[d].inputs[i])'
    BY <1>9 DEF DrawInv, IInv
  <2>1. PICK x \in Place : x = draw[d].inputs[i]
    BY DEF IInv, Types, Draw
  <2>2. Written(x)'
    BY <1>19, <2>1 DEF IInv, DrawInv
  <2> QED
    BY <1>9, <2>1, <2>2 DEF Written, Below
<1>21. \A e \in Attribute : e < call'.next => PreparedAttribute(e)'
  <2> SUFFICES ASSUME NEW e \in Attribute, e < call'.next PROVE PreparedAttribute(e)'
    OBVIOUS
  <2>1. CASE e = a
    <3>1. b.in # stream.index.in
      BY <1>3 DEF IInv, OwnInv
    <3>2. w.from + w.size <= w.of /\ Below(w, c) /\ Below(w, stream.index)
      BY <1>6, <1>7, <1>11, <3>1 DEF Below, Buffer
    <3>3. Written(w)'
      BY <1>12, <3>2 DEF Written, Below
    <3>4. e \in Arrays'
      BY <1>2, <1>14, <2>1 DEF Arrays
    <3> QED
      BY <1>7, <1>11, <1>12, <1>14, <2>1, <3>3, <3>4 DEF PreparedAttribute, Written, Below
  <2>2. CASE e # a
    <3>1. PICK x \in Place : x = call.inputs[e]
      BY InputFacts DEF IInv, Types, Call
    <3>2. PreparedAttribute(e) /\ call'.inputs[e] = x
      BY <1>2, <1>14, <2>2, <3>1, InputFacts DEF IInv, CallInv
    <3>3. Written(x)'
      BY <1>19, <3>1, <3>2 DEF PreparedAttribute
    <3>4. e \in Arrays' <=> e \in Arrays
      BY <1>14 DEF Arrays
    <3>5. stream'.vertex.in = stream.vertex.in
      BY <1>3, <1>11, <1>12
    <3> QED
      BY <1>2, <3>1, <3>2, <3>3, <3>4, <3>5 DEF PreparedAttribute, Written, Below
  <2> QED BY <2>1, <2>2
<1>22. PreparedIndex'
  <2>1. call'.inputs[Index] = call.inputs[Index]
    BY <1>13, <1>14, InputFacts
  <2>2. PICK x \in Place : x = call.inputs[Index]
    BY InputFacts DEF IInv, Types, Call
  <2>3. PreparedIndex
    BY <1>2 DEF IInv, CallInv
  <2>4. Written(x) => Written(x)'
    BY <1>19
  <2> QED
    BY <1>2, <1>12, <1>14, <2>1, <2>2, <2>3, <2>4 DEF PreparedIndex, Written, Below
<1>23. CallInv'
  <2>1. \A e \in Attribute : ~(e < call'.next) => call'.inputs[e] = NoRange
    BY <1>2, <1>14, InputFacts DEF IInv, CallInv
  <2> QED
    BY <1>14, <1>21, <1>22, <2>1 DEF CallInv
<1> QED BY <1>15, <1>16, <1>17, <1>18, <1>20, <1>23 DEF IInv

\* An attribute without an array is read from a buffer of its own, which has its value.
LEMMA ValuePrepared ==
    ASSUME NEW M, IInv(M), call.pc = "attributes",
           NEW a \in Attribute, a = call.next, a \notin Arrays,
           UNCHANGED <<stream, indexBuffer, draw>>,
           NEW r \in Resource, NEW range, range = [in |-> r, from |-> 0, size |-> 1, of |-> 1],
           call' = Prepared(range),
           current' \in [Attribute -> Value],
           current'[a].in = r, current'[a].holds, ~current'[a].dirty,
           \A b \in Attribute : b # a => current'[b] = current[b] /\ current[b].in # r,
           r # stream.vertex.in, r # stream.index.in,
           resource' \in [Resource -> State], KeptAll(resource', Owned', draw)
    PROVE  IInv(M)'
<1>1. range \in Place /\ range.in = r /\ range.from + range.size <= range.of
  BY DEF Place
<1>2. /\ call' \in Call /\ call'.pc = "attributes"
      /\ call'.sources = call.sources /\ call'.indices = call.indices
      /\ call'.next = a + 1 /\ call'.next > 0
      /\ call'.next \in Attribute \/ \A b \in Attribute : b < call'.next
      /\ call'.inputs[a] = range
      /\ \A i \in Input : i # a => call'.inputs[i] = call.inputs[i]
      /\ \A b \in Attribute : b < call'.next <=> b < call.next \/ b = a
  BY <1>1, PreparedNext
<1>3. Types'
  BY <1>2 DEF IInv, Types
<1>4. SizeInv(M)'
  <2>1. Remaining' = Remaining
    <3>1. Arrays' = Arrays /\ Arrays \subseteq Attribute
      BY <1>2 DEF Arrays
    <3>2. \A e \in Attribute : e # a => (e >= call'.next <=> e >= call.next)
      BY <1>2, InputFacts
    <3> QED
      BY <3>1, <3>2 DEF Remaining
  <2> QED
    BY <1>2, <2>1 DEF IInv, SizeInv
<1>5. OwnInv'
  <2>1. r # NONE
    BY NoneAssumption
  <2>2. \A b \in Attribute : /\ current'[b].in \notin {stream.vertex.in, stream.index.in}
                             /\ current'[b].holds <=> ~current'[b].dirty
                             /\ current'[b].holds => current'[b].in # NONE
    <3> SUFFICES ASSUME NEW b \in Attribute
                 PROVE  /\ current'[b].in \notin {stream.vertex.in, stream.index.in}
                        /\ current'[b].holds <=> ~current'[b].dirty
                        /\ current'[b].holds => current'[b].in # NONE
      OBVIOUS
    <3>1. CASE b = a
      BY <2>1, <3>1
    <3>2. CASE b # a
      BY <3>2 DEF IInv, OwnInv
    <3> QED BY <3>1, <3>2
  <2>3. ASSUME NEW b \in Attribute, NEW c \in Attribute, current'[b].in = current'[c].in
        PROVE  b = c \/ current'[b].in = NONE
    <3>1. CASE b = a \/ c = a
      BY <2>3, <3>1
    <3>2. CASE b # a /\ c # a
      BY <2>3, <3>2 DEF IInv, OwnInv
    <3> QED BY <3>1, <3>2
  <2> QED
    BY <2>2, <2>3 DEF IInv, OwnInv
<1>6. KeptAll(resource, Owned, draw)'
  OBVIOUS
<1>7. DrawInv'
  BY DEF IInv, DrawInv, Written, Below
<1>8. \A e \in Attribute : e < call'.next => PreparedAttribute(e)'
  <2> SUFFICES ASSUME NEW e \in Attribute, e < call'.next PROVE PreparedAttribute(e)'
    OBVIOUS
  <2>1. e \in Arrays' <=> e \in Arrays
    BY <1>2 DEF Arrays
  <2>2. CASE e = a
    <3>1. Written(range)
      BY <1>1 DEF Written, Below
    <3> QED
      BY <1>1, <1>2, <2>1, <2>2, <3>1 DEF PreparedAttribute, Written, Below
  <2>3. CASE e # a
    <3>1. PreparedAttribute(e) /\ call'.inputs[e] = call.inputs[e] /\ current'[e] = current[e]
      BY <1>2, <2>3, InputFacts DEF IInv, CallInv
    <3> QED
      BY <2>1, <3>1 DEF PreparedAttribute, Written, Below
  <2> QED BY <2>2, <2>3
<1>9. PreparedIndex'
  <2>1. call'.inputs[Index] = call.inputs[Index]
    BY <1>2, InputFacts
  <2>2. PreparedIndex
    BY DEF IInv, CallInv
  <2> QED
    BY <1>2, <2>1, <2>2 DEF PreparedIndex, Written, Below
<1>10. CallInv'
  <2>1. \A e \in Attribute : ~(e < call'.next) => call'.inputs[e] = NoRange
    BY <1>2, InputFacts DEF IInv, CallInv
  <2> QED
    BY <1>2, <1>8, <1>9, <2>1 DEF CallInv
<1> QED BY <1>3, <1>4, <1>5, <1>6, <1>7, <1>10 DEF IInv

LEMMA StepUseCurrentValue ==
    ASSUME NEW M, IInv(M), useCurrentValue
    PROVE  IInv(M)'
<1>1. PICK a \in Attribute : a = call.next /\ a \notin Arrays
  BY DEF useCurrentValue
<1>2. call.pc = "attributes" /\ HasMemory /\ UNCHANGED <<stream, indexBuffer>>
  BY DEF useCurrentValue
<1>3. PICK old \in Resource \cup {NONE} : old = current[a].in
  BY DEF IInv, Types, Value
<1>4. /\ old # stream.vertex.in /\ old # stream.index.in
      /\ \A b \in Attribute : b # a => current[b].in # old \/ old = NONE
  BY <1>3 DEF IInv, OwnInv
<1>5. CASE ~current[a].dirty
  <2>1. /\ call' = Prepared([in |-> old, from |-> 0, size |-> 1, of |-> 1])
        /\ UNCHANGED <<current, resource, draw>>
    BY <1>1, <1>3, <1>5 DEF useCurrentValue
  <2>2. current[a].holds /\ old # NONE
    BY <1>3, <1>5 DEF IInv, OwnInv
  <2>3. current' \in [Attribute -> Value] /\ resource' \in [Resource -> State]
    BY <2>1 DEF IInv, Types
  <2>4. Owned' = Owned
    BY <1>2, <2>1 DEF Owned
  <2>5. KeptAll(resource', Owned', draw)
    BY <2>1, <2>4 DEF IInv
  <2>6. old \in Resource
    BY <1>3, <2>2
  <2>7. /\ current'[a].in = old /\ current'[a].holds /\ ~current'[a].dirty
        /\ \A b \in Attribute : b # a => current'[b] = current[b] /\ current[b].in # old
    BY <1>3, <1>4, <1>5, <2>1, <2>2
  <2> QED
    BY <1>1, <1>2, <1>4, <2>1, <2>3, <2>5, <2>6, <2>7, ValuePrepared
<1>6. CASE current[a].dirty
  <2> DEFINE left == IF old = NONE THEN resource
                     ELSE Swept([resource EXCEPT ![old] = Destructed(@)])
  <2>1. PICK r : r = Allocated(left)
    OBVIOUS
  <2>2. /\ resource' = [left EXCEPT ![r] = NewResource]
        /\ current' = [current EXCEPT ![a] = [in |-> r, holds |-> TRUE, dirty |-> FALSE]]
        /\ draw' = Disturbed(NoRange, resource')
        /\ call' = Prepared([in |-> r, from |-> 0, size |-> 1, of |-> 1])
    BY <1>1, <1>3, <1>6, <2>1, NewFields DEF useCurrentValue
  <2>3. Types /\ KeptAll(resource, Owned, draw)
    BY DEF IInv
  <2>4. Swapped(old, r, resource')
    <3>1. CASE old = NONE
      <4>1. left = resource /\ r \in Resource /\ resource[r].freed
        BY <1>2, <2>1, <3>1, Allocates DEF HasMemory
      <4>2. resource \in [Resource -> State]
        BY <2>3 DEF Types
      <4>3. /\ resource' \in [Resource -> State] /\ resource'[r] = NewResource
            /\ \A q \in Resource : q # r => resource'[q] = resource[q]
        BY <2>2, <4>1, <4>2, NewFields
      <4>4. \A q \in Resource : q # old
        BY <3>1, NoneAssumption
      <4> QED
        BY <4>1, <4>3, <4>4 DEF Swapped
    <3>2. CASE old # NONE
      <4>1. old \in Resource /\ old \in Owned
        BY <1>3, <3>2 DEF Owned
      <4>2. ~resource[old].freed
        BY <2>3, <4>1 DEF KeptAll, Kept
      <4>3. left = Swept([resource EXCEPT ![old] = Destructed(@)])
        BY <3>2
      <4> HIDE DEF left
      <4> QED
        BY <1>2, <2>1, <2>2, <2>3, <4>1, <4>2, <4>3, Destructing
    <3> QED BY <3>1, <3>2
  <2>5. old \in Resource => old \in Owned
    BY <1>3 DEF Owned
  <2>6. r \in Resource /\ (r = old \/ r \notin Owned)
    BY <2>3, <2>4, SwapFresh
  <2>7. KeptAll(resource', (Owned \ {old}) \cup {r}, draw) /\ resource' \in [Resource -> State]
    BY <2>3, <2>4, <2>5, SwapKept DEF Swapped
  <2>8. draw' = draw
    BY <2>2, <2>3, <2>7, NothingWritten
  <2>9. /\ current' \in [Attribute -> Value]
        /\ current'[a].in = r /\ current'[a].holds /\ ~current'[a].dirty
        /\ \A b \in Attribute : b # a => current'[b] = current[b]
    BY <2>2, <2>6 DEF IInv, Types, Value
  <2>10. /\ r # stream.vertex.in /\ r # stream.index.in
         /\ \A b \in Attribute : b # a => current[b].in # r
    BY <1>4, <2>6, NoneAssumption DEF Owned
  <2>11. KeptAll(resource', Owned', draw)
    <3>1. Owned' = {stream.vertex.in, stream.index.in} \cup {current'[b].in : b \in Attribute}
      BY <1>2 DEF Owned
    <3>2. \A q \in Resource : q \in (Owned \ {old}) \cup {r} <=> q \in Owned'
      <4> SUFFICES ASSUME NEW q \in Resource
                   PROVE  q \in (Owned \ {old}) \cup {r} <=> q \in Owned'
        OBVIOUS
      <4>1. CASE q = r
        BY <2>9, <3>1, <4>1
      <4>2. CASE q # r /\ q = old
        <5>1. q \notin Owned'
          BY <1>4, <2>9, <3>1, <4>2, NoneAssumption
        <5> QED
          BY <4>2, <5>1
      <4>3. CASE q # r /\ q # old
        <5>1. (\E b \in Attribute : current'[b].in = q) <=> \E b \in Attribute : current[b].in = q
          BY <1>3, <2>9, <4>3
        <5> QED
          BY <3>1, <4>3, <5>1 DEF Owned
      <4> QED BY <4>1, <4>2, <4>3
    <3> QED
      BY <2>7, <3>2, KeptSame
  <2>12. PICK range : /\ range = [in |-> r, from |-> 0, size |-> 1, of |-> 1]
                      /\ call' = Prepared(range)
    BY <2>2
  <2>13. /\ UNCHANGED <<stream, indexBuffer, draw>>
         /\ r \in Resource /\ resource' \in [Resource -> State]
         /\ \A b \in Attribute : b # a => current'[b] = current[b] /\ current[b].in # r
    BY <1>2, <2>6, <2>7, <2>8, <2>9, <2>10
  <2> HIDE DEF left
  <2> QED
    BY <1>1, <1>2, <2>9, <2>10, <2>11, <2>12, <2>13, ValuePrepared
<1> QED BY <1>5, <1>6

\* lock(PUBLIC, PRIVATE) of a resource for each of its uses
LEMMA SubmitFields ==
    ASSUME NEW s \in State, s.count > 0 => s.accessor = "PRIVATE", NEW u \in Nat, u > 0
    PROVE  LET t == [Locked(Relinquished(s, "PUBLIC"), "PRIVATE") EXCEPT !.count = @ + u - 1]
           IN  /\ t \in State /\ t.freed = s.freed /\ t.orphaned = s.orphaned
               /\ t.count = s.count + u /\ t.accessor = "PRIVATE"
<1>1. Relinquished(s, "PUBLIC") = s
  BY DEF Relinquished, State
<1>2. PICK c \in Nat : c = s.count + 1
  BY DEF State
<1> DEFINE l == Locked(s, "PRIVATE")
<1>3. l = [s EXCEPT !.count = c, !.accessor = "PRIVATE"]
  BY <1>2 DEF Locked
<1>4. /\ l \in State /\ l.count = c /\ l.accessor = "PRIVATE"
      /\ l.freed = s.freed /\ l.orphaned = s.orphaned
  BY <1>3 DEF State
<1> HIDE DEF l
<1>5. PICK n \in Nat : n = l.count + u - 1 /\ n = s.count + u
  BY <1>2, <1>4 DEF State
<1> DEFINE t == [l EXCEPT !.count = @ + u - 1]
<1>6. t = [l EXCEPT !.count = n]
  BY <1>5
<1>7. /\ t \in State /\ t.count = n /\ t.accessor = "PRIVATE"
      /\ t.freed = s.freed /\ t.orphaned = s.orphaned
  BY <1>4, <1>6 DEF State
<1>8. t = [Locked(Relinquished(s, "PUBLIC"), "PRIVATE") EXCEPT !.count = @ + u - 1]
  BY <1>1 DEF l
<1> HIDE DEF t
<1> QED
  BY <1>5, <1>7, <1>8

\* unlock() as often
LEMMA RetireFields ==
    ASSUME NEW s \in State, NEW u \in Nat, u > 0, u <= s.count
    PROVE  LET t == Unlocked([s EXCEPT !.count = @ - (u - 1)])
           IN  /\ t \in State /\ t.orphaned = s.orphaned /\ t.accessor = s.accessor
               /\ t.count = s.count - u
               /\ t.freed <=> s.count - u = 0 /\ s.orphaned
<1>1. PICK c \in Nat : c = s.count - (u - 1)
  BY DEF State
<1> DEFINE l == [s EXCEPT !.count = @ - (u - 1)]
<1>2. l = [s EXCEPT !.count = c]
  BY <1>1
<1>3. /\ l \in State /\ l.count = c /\ l.orphaned = s.orphaned /\ l.accessor = s.accessor
  BY <1>2 DEF State
<1> HIDE DEF l
<1>4. PICK n \in Nat : n = l.count - 1 /\ n = s.count - u
  BY <1>1, <1>3 DEF State
<1>5. PICK f \in BOOLEAN : f <=> (l.count = 1 /\ l.orphaned)
  OBVIOUS
<1>6. Unlocked(l) = [l EXCEPT !.count = n, !.freed = f]
  <2>1. f = (l.count = 1 /\ l.orphaned)
    BY <1>5
  <2> QED
    BY <1>4, <2>1 DEF Unlocked
<1>7. l.count = 1 <=> s.count - u = 0
  BY <1>1, <1>3 DEF State
<1>8. /\ Unlocked(l) \in State /\ Unlocked(l).orphaned = l.orphaned
      /\ Unlocked(l).accessor = l.accessor /\ Unlocked(l).count = n /\ Unlocked(l).freed = f
  BY <1>3, <1>6 DEF State
<1>9. Unlocked(l).freed <=> s.count - u = 0 /\ s.orphaned
  BY <1>3, <1>5, <1>7, <1>8
<1> QED
  BY <1>3, <1>4, <1>8, <1>9 DEF l

\* What is prepared, when all of it is.
LEMMA InputsWell ==
    ASSUME NEW M, IInv(M), call.pc = "attributes", call.next \notin Attribute
    PROVE  /\ Inputs = call.inputs /\ Inputs \in [Input -> Place]
           /\ \A i \in Input : Inputs[i].in # NONE =>
                 Written(Inputs[i]) /\ Inputs[i].in \in Owned
           /\ \A a \in Attribute \ Arrays : current[a].holds
<1>1. call.inputs \in [Input -> Place]
  BY DEF IInv, Types, Call
<1>2. PreparedIndex /\ \A a \in Attribute : a < call.next /\ PreparedAttribute(a)
  BY DEF IInv, CallInv
<1>3. Inputs = call.inputs
  <2>1. CASE call.indices = 0
    BY <2>1 DEF Inputs
  <2>2. CASE call.indices # 0
    <3>1. PICK x \in Place : x = call.inputs[Index] /\ x.in = indexBuffer
      BY <1>1, <1>2, <2>2, InputFacts DEF PreparedIndex
    <3>2. [x EXCEPT !.in = indexBuffer] = x
      BY <3>1 DEF Place
    <3>3. Inputs = [call.inputs EXCEPT ![Index] = [x EXCEPT !.in = indexBuffer]]
      BY <2>2, <3>1 DEF Inputs
    <3> QED
      BY <1>1, <3>1, <3>2, <3>3
  <2> QED BY <2>1, <2>2
<1>4. ASSUME NEW i \in Input, call.inputs[i].in # NONE
      PROVE  Written(call.inputs[i]) /\ call.inputs[i].in \in Owned
  <2>1. CASE i = Index
    BY <1>2, <1>4, <2>1 DEF PreparedIndex, NoRange, Owned
  <2>2. CASE i # Index
    BY <1>2, <2>2, InputFacts DEF PreparedAttribute, Owned
  <2> QED BY <2>1, <2>2
<1>5. \A a \in Attribute \ Arrays : current[a].holds
  BY <1>2 DEF PreparedAttribute
<1> QED
  BY <1>1, <1>3, <1>4, <1>5

LEMMA StepSubmit ==
    ASSUME NEW M, IInv(M), NEW d \in DrawCall, submit(d)
    PROVE  IInv(M)'
<1>1. /\ call.pc = "attributes" /\ call.next \notin Attribute
      /\ draw[d] = NoDraw
      /\ resource' = Claimed(Inputs)
      /\ NextInstance
      /\ UNCHANGED <<stream, current>>
      /\ indexBuffer' \in Resource \cup {NONE}
  <2>1. NextDraw \in {e \in DrawCall : draw[e] = NoDraw}
    <3>1. {e \in DrawCall : draw[e] = NoDraw} \in SUBSET Nat
      BY DrawCallAssumption
    <3>2. {e \in DrawCall : draw[e] = NoDraw} # {}
      BY DEF submit
    <3> QED
      BY <3>1, <3>2, MinIn DEF NextDraw
  <2>2. d = NextDraw
    BY DEF submit
  <2> QED
    BY <2>1, <2>2 DEF submit, IInv, Types
<1>2. PICK ins \in [Input -> Place] :
         /\ ins = Inputs
         /\ \A i \in Input : ins[i].in # NONE => Written(ins[i]) /\ ins[i].in \in Owned
         /\ \A a \in Attribute \ Arrays : current[a].holds
  BY <1>1, InputsWell
<1>3. \A i \in Input : ins[i].in # NONE => ins[i].in \in Resource /\ ~resource[ins[i].in].freed
  BY <1>2 DEF IInv, KeptAll, Kept, Place
<1>4. /\ draw' \in [DrawCall -> Draw] /\ draw'[d].inputs = ins /\ draw'[d].intact
      /\ \A e \in DrawCall : e # d => draw'[e] = draw[e]
  <2> DEFINE ok == /\ \A i \in Input : Inputs[i].in # NONE => ~resource[Inputs[i].in].freed
                   /\ \A a \in Attribute \ Arrays : current[a].holds
  <2>1. ok /\ ok \in BOOLEAN
    BY <1>2, <1>3
  <2>2. draw' = [draw EXCEPT ![d] = [inputs |-> ins, intact |-> ok]]
    BY <1>2 DEF submit
  <2> HIDE DEF ok
  <2>3. PICK new \in Draw : new = [inputs |-> ins, intact |-> ok]
    BY <2>1 DEF Draw
  <2>4. new.inputs = ins /\ new.intact
    BY <2>1, <2>3
  <2>5. draw \in [DrawCall -> Draw]
    BY DEF IInv, Types
  <2> QED
    BY <2>2, <2>3, <2>4, <2>5
<1>5. /\ call' \in Call /\ CallInv' /\ call'.pc # "attributes"
      /\ call'.pc # "none" => call'.sources \in Sources /\ call'.indices \in IndexSize \cup {0}
  <2>1. PICK sources \in Sources, indices \in IndexSize \cup {0} :
           sources = call.sources /\ indices = call.indices
    BY <1>1 DEF IInv, SizeInv
  <2>2. call' \in {NoCall, FirstStep(sources, indices)}
    BY <1>1, <2>1 DEF NextInstance
  <2> QED
    BY <2>2, ResetFields
<1>6. ASSUME NEW r \in Resource
      PROVE  resource'[r] \in State /\ Kept(resource'[r], r \in Owned, Claims(draw', r))
  <2>1. Kept(resource[r], r \in Owned, Claims(draw, r)) /\ resource[r] \in State
    BY DEF IInv, KeptAll, Types
  <2>2. Without(draw, d, r) /\ Others(draw, draw', d)
    <3>1. \A i \in Input : draw[d].inputs[i].in = NONE
      BY <1>1 DEF NoDraw, NoInputs, NoRange
    <3> QED
      BY <1>4, <3>1, NoneAssumption DEF Without, Others
  <2>3. PICK u \in Nat : /\ u = Uses(ins, r)
                         /\ u = 0 <=> \A i \in Input : ins[i].in # r
    BY UsesSet
  <2>4. /\ Cardinality(Claims(draw', r)) = Cardinality(Claims(draw, r)) + u
        /\ Claims(draw', r) = {} <=> Claims(draw, r) = {} /\ u = 0
    BY <1>4, <2>2, <2>3, ClaimsAdded
  <2>5. CASE u = 0
    <3>1. resource'[r] = resource[r]
      BY <1>1, <1>2, <2>3, <2>5 DEF Claimed
    <3>2. Cardinality(Claims(draw', r)) = Cardinality(Claims(draw, r))
      BY <2>4, <2>5, ClaimsFinite
    <3> QED
      BY <2>1, <2>4, <2>5, <3>1, <3>2 DEF Kept
  <2>6. CASE u # 0
    <3>1. r \in Owned /\ ~resource[r].freed
      BY <1>2, <1>3, <2>3, <2>6, NoneAssumption
    <3>2. resource'[r] = [Locked(Relinquished(resource[r], "PUBLIC"), "PRIVATE")
                             EXCEPT !.count = @ + u - 1]
      BY <1>1, <1>2, <2>3, <2>6 DEF Claimed
    <3>3. /\ resource'[r] \in State /\ resource'[r].freed = resource[r].freed
          /\ resource'[r].orphaned = resource[r].orphaned
          /\ resource'[r].count = resource[r].count + u /\ resource'[r].accessor = "PRIVATE"
      <4>1. resource[r].count > 0 => resource[r].accessor = "PRIVATE"
        BY <2>1, <3>1 DEF Kept
      <4>2. u > 0
        BY <2>6
      <4> QED
        BY <2>1, <3>2, <4>1, <4>2, SubmitFields
    <3>4. resource'[r].count = Cardinality(Claims(draw', r))
      BY <2>1, <2>4, <3>1, <3>3 DEF Kept
    <3> QED
      BY <2>1, <3>1, <3>3, <3>4 DEF Kept
  <2> QED BY <2>5, <2>6
<1>7. resource' \in [Resource -> State]
  <2>1. resource' = [r \in Resource |-> resource'[r]]
    BY <1>1 DEF Claimed
  <2> QED
    BY <1>6, <2>1
<1>8. Types'
  BY <1>1, <1>4, <1>5, <1>7 DEF IInv, Types
<1>9. SizeInv(M)'
  BY <1>1, <1>5 DEF IInv, SizeInv, Within
<1>10. OwnInv' /\ Owned' = Owned
  BY <1>1 DEF IInv, OwnInv, Owned
<1>11. KeptAll(resource, Owned, draw)'
  BY <1>6, <1>10 DEF KeptAll
<1>12. DrawInv'
  <2> SUFFICES ASSUME NEW e \in DrawCall
               PROVE  /\ draw'[e].intact
                      /\ \A i \in Input : draw'[e].inputs[i].in # NONE =>
                            Written(draw[e].inputs[i])'
    BY DEF DrawInv
  <2>1. CASE e = d
    BY <1>1, <1>2, <1>4, <2>1 DEF Written, Below
  <2>2. CASE e # d
    BY <1>1, <1>4, <2>2 DEF IInv, DrawInv, Written, Below
  <2> QED BY <2>1, <2>2
<1> QED BY <1>5, <1>8, <1>9, <1>10, <1>11, <1>12 DEF IInv

LEMMA StepRetire ==
    ASSUME NEW M, IInv(M), NEW d \in DrawCall, retire(d)
    PROVE  IInv(M)'
<1>1. /\ draw' \in [DrawCall -> Draw] /\ draw'[d] = NoDraw
      /\ \A e \in DrawCall : e # d => draw'[e] = draw[e]
      /\ UNCHANGED <<stream, current, indexBuffer, call>>
  BY NoInputsType DEF retire, IInv, Types, NoDraw, Draw
<1>2. PICK ins \in [Input -> Place] : ins = draw[d].inputs
  BY DEF IInv, Types, Draw
<1>3. resource' = [r \in Resource |-> IF GivenBack(ins)[r].freed THEN Freed
                                       ELSE GivenBack(ins)[r]]
  BY <1>2 DEF retire, Swept
<1>4. ASSUME NEW r \in Resource
      PROVE  resource'[r] \in State /\ Kept(resource'[r], r \in Owned, Claims(draw', r))
  <2>1. Kept(resource[r], r \in Owned, Claims(draw, r)) /\ resource[r] \in State
    BY DEF IInv, KeptAll, Types
  <2>2. Without(draw', d, r) /\ Others(draw', draw, d)
    <3>1. \A i \in Input : draw'[d].inputs[i].in = NONE
      BY <1>1 DEF NoDraw, NoInputs, NoRange
    <3> QED
      BY <1>1, <3>1, NoneAssumption DEF Without, Others
  <2>3. PICK u \in Nat : u = Uses(ins, r)
    BY UsesSet
  <2>4. /\ Cardinality(Claims(draw, r)) = Cardinality(Claims(draw', r)) + u
        /\ Claims(draw, r) = {} <=> Claims(draw', r) = {} /\ u = 0
    BY <1>2, <2>2, <2>3, ClaimsAdded
  <2>5. CASE u = 0
    <3>1. GivenBack(ins)[r] = resource[r]
      BY <2>3, <2>5 DEF GivenBack
    <3>2. Cardinality(Claims(draw', r)) = Cardinality(Claims(draw, r))
      BY <2>4, <2>5, ClaimsFinite
    <3>3. CASE resource[r].freed
      BY <1>3, <2>1, <2>4, <3>1, <3>3, NewFields DEF Kept
    <3>4. CASE ~resource[r].freed
      <4>1. resource'[r] = resource[r]
        BY <1>3, <3>1, <3>4
      <4> QED
        BY <2>1, <2>4, <2>5, <3>2, <4>1 DEF Kept
    <3> QED BY <3>3, <3>4
  <2>6. CASE u # 0
    <3>1. ~resource[r].freed
      BY <2>1, <2>4, <2>6 DEF Kept
    <3> DEFINE s == resource[r]
               t == Unlocked([s EXCEPT !.count = @ - (u - 1)])
    <3>2. GivenBack(ins)[r] = t
      BY <2>3, <2>6 DEF GivenBack
    <3>3. s.count = Cardinality(Claims(draw', r)) + u /\ Cardinality(Claims(draw', r)) \in Nat
      BY <2>1, <2>4, <3>1, ClaimsFinite DEF Kept
    <3>4. PICK n \in Nat : /\ n = Cardinality(Claims(draw', r)) /\ s.count = n + u
                           /\ n = 0 <=> Claims(draw', r) = {}
      BY <3>3, ClaimsFinite
    <3>5. s \in State /\ u > 0 /\ u <= s.count
      BY <2>1, <2>6, <3>4
    <3>6. /\ t \in State /\ t.orphaned = s.orphaned /\ t.accessor = s.accessor
          /\ t.count = s.count - u
          /\ t.freed <=> s.count - u = 0 /\ s.orphaned
      BY <3>5, RetireFields
    <3>7. s.count - u = n
      BY <3>4
    <3>8. s.count > 0 /\ s.accessor = "PRIVATE"
      <4>1. s.count \in Nat /\ s.count > 0
        BY <3>5 DEF State
      <4>2. s.count > 0 => s.accessor = "PRIVATE"
        BY <2>1, <3>1 DEF Kept
      <4> QED
        BY <4>1, <4>2
    <3>9. /\ r \in Owned => ~s.orphaned
          /\ r \notin Owned => s.orphaned
      BY <2>1, <3>1 DEF Kept
    <3> HIDE DEF s, t
    <3>10. CASE t.freed
      <4>1. resource'[r] = Freed
        BY <1>3, <3>2, <3>10
      <4> QED
        BY <3>4, <3>6, <3>7, <3>9, <3>10, <4>1, NewFields DEF Kept
    <3>11. CASE ~t.freed
      <4>1. resource'[r] = t
        BY <1>3, <3>2, <3>11
      <4>2. t.count = Cardinality(Claims(draw', r)) /\ t.accessor = "PRIVATE"
        <5>1. t.count = n
          BY <3>6, <3>7
        <5> QED
          BY <3>4, <3>6, <3>8, <5>1
      <4>3. r \notin Owned => Claims(draw', r) # {}
        BY <3>4, <3>6, <3>7, <3>9, <3>11
      <4> QED
        BY <3>6, <3>9, <3>11, <4>1, <4>2, <4>3 DEF Kept
    <3> QED BY <3>10, <3>11
  <2> QED BY <2>5, <2>6
<1>5. resource' \in [Resource -> State]
  BY <1>3, <1>4
<1>6. Types'
  BY <1>1, <1>5 DEF IInv, Types
<1>7. SizeInv(M)'
  <2>1. Remaining' = Remaining
    BY <1>1 DEF Remaining, Arrays
  <2> QED
    BY <1>1, <2>1 DEF IInv, SizeInv, Within
<1>8. OwnInv' /\ Owned' = Owned
  BY <1>1 DEF IInv, OwnInv, Owned
<1>9. KeptAll(resource, Owned, draw)'
  BY <1>4, <1>8 DEF KeptAll
<1>10. DrawInv'
  <2> SUFFICES ASSUME NEW e \in DrawCall
               PROVE  /\ draw'[e].intact
                      /\ \A i \in Input : draw'[e].inputs[i].in # NONE =>
                            Written(draw[e].inputs[i])'
    BY DEF DrawInv
  <2>1. CASE e = d
    BY <1>1, <2>1 DEF NoDraw, NoInputs, NoRange
  <2>2. CASE e # d
    BY <1>1, <2>2 DEF IInv, DrawInv, Written, Below
  <2> QED BY <2>1, <2>2
<1>11. CallInv'
  <2>1. \A a \in Attribute : PreparedAttribute(a)' <=> PreparedAttribute(a)
    BY <1>1 DEF PreparedAttribute, Written, Below, Arrays
  <2>2. PreparedIndex' <=> PreparedIndex
    BY <1>1 DEF PreparedIndex, Written, Below
  <2> QED
    BY <1>1, <2>1, <2>2 DEF IInv, CallInv
<1> QED BY <1>6, <1>7, <1>8, <1>9, <1>10, <1>11 DEF IInv

LEMMA InvStep == ASSUME NEW M, NoWrap(M), IInv(M), [Next]_vars PROVE IInv(M)'
<1>1. CASE \E a \in Attribute : setVertexAttrib(a)
  BY <1>1, StepSetVertexAttrib
<1>2. CASE \E sources \in Sources, indices \in IndexSize \cup {0} :
              drawElements(sources, indices)
  BY <1>2, StepDrawElements
<1>3. CASE applyIndexBuffer
  BY <1>3, StepApplyIndexBuffer
<1>4. CASE reserveRequiredSpace
  BY <1>4, StepReserveRequiredSpace
<1>5. CASE writeAttributeData
  BY <1>5, StepWriteAttributeData
<1>6. CASE useCurrentValue
  BY <1>6, StepUseCurrentValue
<1>7. CASE abandonCall \/ skipDraw
  BY <1>7, StepAbandonCall
<1>8. CASE \E d \in DrawCall : submit(d)
  BY <1>8, StepSubmit
<1>9. CASE \E d \in DrawCall : retire(d)
  BY <1>9, StepRetire
<1>10. CASE UNCHANGED vars
  BY <1>10, StepStutter
<1> QED
  BY <1>1, <1>2, <1>3, <1>4, <1>5, <1>6, <1>7, <1>8, <1>9, <1>10 DEF Next

LEMMA InvSpec == ASSUME NEW M, NoWrap(M) PROVE Spec => []IInv(M)
<1>1. Init => IInv(M)
  BY InvInit
<1>2. IInv(M) /\ [Next]_vars => IInv(M)'
  BY InvStep
<1> QED
  BY <1>1, <1>2, PTL DEF Spec
-----------------------------------------------------------------------------
(* What follows from the invariant                                          *)

(* For any attributes, draw calls in flight, resources and sizes: what a    *)
(* draw call in flight reads is neither written to nor freed by the draw    *)
(* calls that are streamed after it, although they share its buffers and    *)
(* wait for none of its claims.                                             *)
THEOREM InputsKept ==
    ASSUME NEW M, NoWrap(M) PROVE Spec => []StreamedInputsStable
<1>1. IInv(M) => StreamedInputsStable
  BY DEF IInv, DrawInv, StreamedInputsStable
<1> QED
  BY <1>1, InvSpec, PTL

(* Likewise, no data lies beyond the end of the buffer that was allocated   *)
(* for it, although the space is reserved before a draw call's arrays are   *)
(* written, and a buffer may have been replaced since.                      *)
THEOREM DataWithin ==
    ASSUME NEW M, NoWrap(M) PROVE Spec => []RangesWithin
<1>1. IInv(M) => RangesWithin
  BY DEF IInv, DrawInv, Written, RangesWithin
<1> QED
  BY <1>1, InvSpec, PTL

(* Likewise, each resource has one claim per input of a draw call in flight *)
(* that is in it, and is freed when its last user is done with it.          *)
THEOREM ClaimsKept ==
    ASSUME NEW M, NoWrap(M) PROVE Spec => []ClaimsExact
<1>1. ASSUME IInv(M) PROVE ClaimsExact
  <2> SUFFICES ASSUME NEW r \in Resource
               PROVE  LET readers == {d \in DrawCall : Uses(draw[d].inputs, r) > 0}
                          owned == r \in {stream.vertex.in, stream.index.in} \cup
                                           {current[a].in : a \in Attribute}
                      IN  /\ ~resource[r].freed =>
                                resource[r].count = Cardinality({c \in DrawCall \X Input :
                                                     draw[c[1]].inputs[c[2]].in = r})
                          /\ ~resource[r].freed <=> owned \/ readers # {}
    BY DEF ClaimsExact
  <2>1. Kept(resource[r], r \in Owned, Claims(draw, r))
    BY <1>1 DEF IInv, KeptAll
  <2>2. Claims(draw, r) = {} <=> {d \in DrawCall : Uses(draw[d].inputs, r) > 0} = {}
    <3>1. \A d \in DrawCall : Uses(draw[d].inputs, r) > 0 <=>
             \E i \in Input : draw[d].inputs[i].in = r
      <4> SUFFICES ASSUME NEW d \in DrawCall
                   PROVE  Uses(draw[d].inputs, r) > 0 <=>
                             \E i \in Input : draw[d].inputs[i].in = r
        OBVIOUS
      <4>1. PICK u \in Nat : /\ u = Uses(draw[d].inputs, r)
                             /\ u = 0 <=> \A i \in Input : draw[d].inputs[i].in # r
        BY UsesSet
      <4> QED
        BY <4>1
    <3>2. Claims(draw, r) # {} => \E d \in DrawCall, i \in Input : draw[d].inputs[i].in = r
      BY DEF Claims
    <3> QED
      BY <3>1, <3>2, HasClaim
  <2> QED
    BY <2>1, <2>2 DEF Kept, Claims, Owned
<1> QED
  BY <1>1, InvSpec, PTL
=============================================================================
