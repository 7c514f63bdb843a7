---------------------------- MODULE Images_proofs ----------------------------
(***************************************************************************)
(* Proofs about images.                                                    *)
(* Surface, for any kind of surface, any finite number of draw calls in    *)
(* flight and any bound on versions: no change of the contents is lost     *)
(* between the two buffers, what a draw call in flight samples is current, *)
(* and a destroyed surface gives back its own buffers and no other.        *)
(* ImageReferences, for any finite number of textures, surfaces, contexts  *)
(* and threads: nothing is used after its deletion, every reference has a  *)
(* holder and every holder a reference, and what is drawn is shown.        *)
(***************************************************************************)
EXTENDS Surface, ImageReferences, FiniteSetTheorems, WellFoundedInduction, TLAPS

-----------------------------------------------------------------------------
(* Surface                                                                  *)

Buffers == [buffer : 0 .. 2, dirty : BOOLEAN]

Resources == [accessor : {"PUBLIC", "PRIVATE", "MANAGED"}, count : Nat,
              orphaned : BOOLEAN, freed : BOOLEAN]
Calls == [at : {"none", "apply", "texture", "vertexTexture", "target"},
          pixel : BOOLEAN, vertex : BOOLEAN, target : BOOLEAN]
Draws == [at : {"free", "flight", "unlockRect", "textures"}, textures : 0 .. 2,
          target : BOOLEAN]

Types ==
    /\ kind \in {"identical", "converted"} /\ owner \in {"client", "surface"}
    /\ external \in Buffers /\ internal \in Buffers
    /\ memory \in [1 .. 2 -> Nat]
    /\ latest \in Nat /\ mipmaps \in Nat /\ dirtyMipmaps \in BOOLEAN
    /\ resource \in Resources
    /\ pointer \in [side : {"none", "external", "internal"}, write : BOOLEAN]
    /\ call \in Calls
    /\ draw \in [Slot -> Draws]
    /\ deallocated \subseteq 0 .. 2

(* The contents.  A side that has no buffer yet is not dirty, and unless the *)
(* other one is, nothing was ever written.                                  *)
DataInv ==
    /\ Coherent
    /\ external.buffer = 0 =>
          /\ ~external.dirty /\ internal.buffer # 1 /\ memory[1] = 0
          /\ ~internal.dirty => latest = 0
    /\ internal.buffer = 0 =>
          /\ ~internal.dirty /\ external.buffer # 2 /\ memory[2] = 0
          /\ ~external.dirty => latest = 0
    /\ owner = "client" => external.buffer = 1

(* Whoever may write has marked its side dirty, and the mipmaps.            *)
Renders(s) == draw[s].at = "flight" /\ draw[s].target

WriterInv ==
    /\ ~dirtyMipmaps => mipmaps = latest
    /\ pointer.write =>
          /\ dirtyMipmaps
          /\ \/ pointer.side = "external" /\ external.dirty
             \/ pointer.side = "internal" /\ internal.dirty
    /\ \A s \in Slot : Renders(s) => internal.dirty /\ dirtyMipmaps

(* Whoever samples, or has applied its textures, finds them current.        *)
Current == ~external.dirty /\ internal.buffer # 0 /\ ~dirtyMipmaps
SamplesOnly(s) == draw[s].at = "flight" /\ draw[s].textures > 0 /\ ~draw[s].target

ReaderInv ==
    /\ call.at \in {"texture", "vertexTexture", "target"} /\ Samples(call) => Current
    /\ \A s \in Slot : SamplesOnly(s) => Current

(* The claims on the resource: one that a draw call in flight renders with, *)
(* one for each of its textures, those of the draw call that is submitted,  *)
(* and the application's.                                                   *)
DrawClaims == {x \in Slot \X (0 .. 2) :
                  IF x[2] = 0 THEN Renders(x[1]) ELSE x[2] <= draw[x[1]].textures}
CallClaims ==
    (IF call.at \in {"vertexTexture", "target"} /\ call.pixel THEN 1 ELSE 0)
    + (IF call.at = "target" /\ call.vertex THEN 1 ELSE 0)
PointerClaims == IF pointer = NotMapped THEN 0 ELSE 1

CountInv == resource.count = Cardinality(DrawClaims) + CallClaims + PointerClaims

\* Every claim is of the class of the resource.
ClassInv ==
    /\ pointer # NotMapped =>
          resource.count = 1 /\ resource.accessor = "PUBLIC" /\ call = NoCall
    /\ pointer = NotMapped /\ resource.count > 0 => resource.accessor # "PUBLIC"
    /\ call.at \in {"vertexTexture", "target"} /\ call.pixel =>
          resource.accessor = IF call.target THEN "MANAGED" ELSE "PRIVATE"
    /\ call.at = "target" /\ call.vertex => resource.accessor = "PRIVATE"
    /\ \A s \in Slot : Renders(s) => resource.accessor = "MANAGED"
    /\ \A s \in Slot : SamplesOnly(s) => resource.accessor = "PRIVATE"

\* Draw calls, and what is left of the surface when it is destroyed.
PhaseInv ==
    /\ call.at = "none" => call = NoCall
    /\ call.at # "none" => call.target \/ Samples(call)
    /\ \A s \in Slot :
          /\ draw[s].at = "free" => draw[s] = NoDraw
          /\ draw[s].at = "flight" => draw[s].target \/ draw[s].textures > 0
    /\ destroyed =>
          /\ call = NoCall /\ pointer = NotMapped /\ resource.count = 0
          /\ deallocated \ {0} = {external.buffer, internal.buffer}
                                 \ ({0} \cup IF owner = "client" THEN {1} ELSE {})

IInv ==
    /\ Types /\ DataInv /\ WriterInv /\ ReaderInv
    /\ CountInv /\ ClassInv /\ PhaseInv
-----------------------------------------------------------------------------
(* What locking does to the contents.                                       *)

LEMMA LockExternalData ==
    ASSUME Types, DataInv, kind' = kind, owner' = owner,
           NEW lock \in {"read", "write", "discard"}, LockExternal(lock),
           latest' = IF lock = "discard" THEN latest + 1 ELSE latest
    PROVE  /\ external' \in Buffers /\ internal' \in Buffers
           /\ memory' \in [1 .. 2 -> Nat] /\ latest' \in Nat
           /\ DataInv'
           /\ external'.buffer # 0 /\ memory'[external'.buffer] = latest'
           /\ external'.dirty <=> external.dirty \/ Written(lock)
           /\ ~internal'.dirty /\ internal'.buffer = internal.buffer
           /\ external.buffer # 0 => external'.buffer = external.buffer
<1> DEFINE b == BufferOf(external, internal, 1)
<1>0. /\ kind \in {"identical", "converted"} /\ external \in Buffers /\ internal \in Buffers
      /\ memory \in [1 .. 2 -> Nat] /\ latest \in Nat
  BY DEF Types
<1>1. PICK e \in 0 .. 2, ed \in BOOLEAN : external = [buffer |-> e, dirty |-> ed]
  BY <1>0 DEF Buffers
<1>2. PICK i \in 0 .. 2, id \in BOOLEAN : internal = [buffer |-> i, dirty |-> id]
  BY <1>0 DEF Buffers
<1>3. /\ external.buffer = e /\ external.dirty = ed
      /\ internal.buffer = i /\ internal.dirty = id
  BY <1>1, <1>2
<1>4. /\ b = IF e # 0 THEN e ELSE IF i # 0 /\ kind = "identical" THEN i ELSE 1
      /\ b \in 1 .. 2
  BY <1>3 DEF BufferOf
<1> HIDE DEF b
<1>5. /\ external' = [buffer |-> b, dirty |-> ed \/ Written(lock)]
      /\ internal' = [buffer |-> i, dirty |-> FALSE]
      /\ memory' = Contents(b, internal, lock)
  BY <1>2, <1>3 DEF LockExternal, b
<1>6. /\ external'.buffer = b /\ (external'.dirty <=> ed \/ Written(lock))
      /\ internal'.buffer = i /\ internal'.dirty = FALSE
  BY <1>5
<1>7. /\ external' \in Buffers /\ internal' \in Buffers
  BY <1>4, <1>5 DEF Buffers, Written
<1>8. /\ ~(ed /\ id)
      /\ e # 0 /\ ~id => memory[e] = latest
      /\ i # 0 /\ ~ed => memory[i] = latest
      /\ e = 0 => ~ed /\ i # 1 /\ memory[1] = 0 /\ (~id => latest = 0)
      /\ i = 0 => ~id /\ e # 2 /\ memory[2] = 0 /\ (~ed => latest = 0)
      /\ owner = "client" => e = 1
  BY <1>3 DEF DataInv, Coherent
<1>9. /\ memory' \in [1 .. 2 -> Nat] /\ latest' \in Nat
      /\ memory'[b] = latest'
      /\ \A x \in (1 .. 2) \ {b} : memory'[x] = memory[x]
  <2>1. CASE lock = "discard"
    <3>1. memory' = [memory EXCEPT ![b] = latest + 1] /\ latest' = latest + 1
      BY <1>5, <2>1 DEF Contents
    <3> QED
      BY <1>0, <1>4, <3>1
  <2>2. CASE lock # "discard" /\ id
    <3>1. memory' = [memory EXCEPT ![b] = memory[i]] /\ latest' = latest
      BY <1>3, <1>5, <2>2 DEF Contents, update
    <3>2. i \in 1 .. 2 /\ memory[i] = latest
      BY <1>8, <2>2
    <3> QED
      BY <1>0, <1>4, <3>1, <3>2
  <2>3. CASE lock # "discard" /\ ~id
    <3>1. memory' = memory /\ latest' = latest
      BY <1>3, <1>5, <2>3 DEF Contents
    <3>2. memory[b] = latest
      BY <1>4, <1>8, <2>3
    <3> QED
      BY <1>0, <3>1, <3>2
  <2> QED BY <2>1, <2>2, <2>3
<1>10. i # 0 /\ ~(ed \/ Written(lock)) => memory'[i] = latest'
  <2> SUFFICES ASSUME i # 0, ~ed, lock = "read" PROVE memory'[i] = latest'
    BY DEF Written
  <2>1. latest' = latest /\ memory[i] = latest
    BY <1>8
  <2> QED
    BY <1>4, <1>9, <2>1
<1>11. i = 0 => b # 2 /\ memory'[2] = 0 /\ (~(ed \/ Written(lock)) => latest' = 0)
  BY <1>4, <1>8, <1>9 DEF Written
<1>12. owner' = "client" => b = 1
  BY <1>4, <1>8
<1>13. Coherent'
  BY <1>4, <1>6, <1>9, <1>10 DEF Coherent
<1>14. DataInv'
  BY <1>4, <1>6, <1>11, <1>12, <1>13 DEF DataInv
<1> QED
  BY <1>3, <1>4, <1>6, <1>7, <1>9, <1>14

LEMMA LockInternalData ==
    ASSUME Types, DataInv, kind' = kind, owner' = owner,
           NEW lock \in {"read", "write", "discard", "unlocked"}, LockInternal(lock),
           latest' = IF lock = "discard" THEN latest + 1 ELSE latest
    PROVE  /\ external' \in Buffers /\ internal' \in Buffers
           /\ memory' \in [1 .. 2 -> Nat] /\ latest' \in Nat
           /\ DataInv'
           /\ internal'.buffer # 0 /\ memory'[internal'.buffer] = latest'
           /\ internal'.dirty <=> internal.dirty \/ Written(lock)
           /\ ~external'.dirty /\ external'.buffer = external.buffer
           /\ internal.buffer # 0 => internal'.buffer = internal.buffer
<1> DEFINE b == BufferOf(internal, external, 2)
<1>0. /\ kind \in {"identical", "converted"} /\ external \in Buffers /\ internal \in Buffers
      /\ memory \in [1 .. 2 -> Nat] /\ latest \in Nat
  BY DEF Types
<1>1. PICK e \in 0 .. 2, ed \in BOOLEAN : external = [buffer |-> e, dirty |-> ed]
  BY <1>0 DEF Buffers
<1>2. PICK i \in 0 .. 2, id \in BOOLEAN : internal = [buffer |-> i, dirty |-> id]
  BY <1>0 DEF Buffers
<1>3. /\ external.buffer = e /\ external.dirty = ed
      /\ internal.buffer = i /\ internal.dirty = id
  BY <1>1, <1>2
<1>4. /\ b = IF i # 0 THEN i ELSE IF e # 0 /\ kind = "identical" THEN e ELSE 2
      /\ b \in 1 .. 2
  BY <1>3 DEF BufferOf
<1> HIDE DEF b
<1>5. /\ internal' = [buffer |-> b, dirty |-> id \/ Written(lock)]
      /\ external' = [buffer |-> e, dirty |-> FALSE]
      /\ memory' = Contents(b, external, lock)
  BY <1>1, <1>3 DEF LockInternal, b
<1>6. /\ internal'.buffer = b /\ (internal'.dirty <=> id \/ Written(lock))
      /\ external'.buffer = e /\ external'.dirty = FALSE
  BY <1>5
<1>7. /\ external' \in Buffers /\ internal' \in Buffers
  BY <1>4, <1>5 DEF Buffers, Written
<1>8. /\ ~(ed /\ id)
      /\ e # 0 /\ ~id => memory[e] = latest
      /\ i # 0 /\ ~ed => memory[i] = latest
      /\ e = 0 => ~ed /\ i # 1 /\ memory[1] = 0 /\ (~id => latest = 0)
      /\ i = 0 => ~id /\ e # 2 /\ memory[2] = 0 /\ (~ed => latest = 0)
      /\ owner = "client" => e = 1
  BY <1>3 DEF DataInv, Coherent
<1>9. /\ memory' \in [1 .. 2 -> Nat] /\ latest' \in Nat
      /\ memory'[b] = latest'
      /\ \A x \in (1 .. 2) \ {b} : memory'[x] = memory[x]
  <2>1. CASE lock = "discard"
    <3>1. memory' = [memory EXCEPT ![b] = latest + 1] /\ latest' = latest + 1
      BY <1>5, <2>1 DEF Contents
    <3> QED
      BY <1>0, <1>4, <3>1
  <2>2. CASE lock # "discard" /\ ed
    <3>1. memory' = [memory EXCEPT ![b] = memory[e]] /\ latest' = latest
      BY <1>3, <1>5, <2>2 DEF Contents, update
    <3>2. e \in 1 .. 2 /\ memory[e] = latest
      BY <1>8, <2>2
    <3> QED
      BY <1>0, <1>4, <3>1, <3>2
  <2>3. CASE lock # "discard" /\ ~ed
    <3>1. memory' = memory /\ latest' = latest
      BY <1>3, <1>5, <2>3 DEF Contents
    <3>2. memory[b] = latest
      BY <1>4, <1>8, <2>3
    <3> QED
      BY <1>0, <3>1, <3>2
  <2> QED BY <2>1, <2>2, <2>3
<1>10. e # 0 /\ ~(id \/ Written(lock)) => memory'[e] = latest'
  <2> SUFFICES ASSUME e # 0, ~id, lock \in {"read", "unlocked"} PROVE memory'[e] = latest'
    BY DEF Written
  <2>1. latest' = latest /\ memory[e] = latest
    BY <1>8
  <2> QED
    BY <1>4, <1>9, <2>1
<1>11. e = 0 => b # 1 /\ memory'[1] = 0 /\ (~(id \/ Written(lock)) => latest' = 0)
  BY <1>4, <1>8, <1>9 DEF Written
<1>12. owner' = "client" => e = 1
  BY <1>8
<1>13. Coherent'
  BY <1>4, <1>6, <1>9, <1>10 DEF Coherent
<1>14. DataInv'
  BY <1>4, <1>6, <1>11, <1>12, <1>13 DEF DataInv
<1> QED
  BY <1>3, <1>4, <1>6, <1>7, <1>9, <1>14

\* A change of the contents on a side that is dirty.
LEMMA ChangeData ==
    ASSUME Types, DataInv, external' = external, internal' = internal, owner' = owner,
           NEW b \in 0 .. 2, Change(b),
           \/ b = external.buffer /\ external.dirty
           \/ b = internal.buffer /\ internal.dirty
    PROVE  DataInv' /\ memory' \in [1 .. 2 -> Nat] /\ latest' \in Nat
<1>0. memory \in [1 .. 2 -> Nat] /\ latest \in Nat
  BY DEF Types
<1>1. PICK e \in 0 .. 2, ed \in BOOLEAN : external.buffer = e /\ (external.dirty <=> ed)
  BY DEF Types, Buffers
<1>2. PICK i \in 0 .. 2, id \in BOOLEAN : internal.buffer = i /\ (internal.dirty <=> id)
  BY DEF Types, Buffers
<1>3. memory' = [memory EXCEPT ![b] = latest + 1] /\ latest' = latest + 1
  BY DEF Change
<1>4. /\ ~(ed /\ id)
      /\ e # 0 /\ ~id => memory[e] = latest
      /\ i # 0 /\ ~ed => memory[i] = latest
      /\ e = 0 => ~ed /\ i # 1 /\ memory[1] = 0 /\ (~id => latest = 0)
      /\ i = 0 => ~id /\ e # 2 /\ memory[2] = 0 /\ (~ed => latest = 0)
      /\ owner = "client" => e = 1
  BY <1>1, <1>2 DEF DataInv, Coherent
<1>5. b # 0 /\ ((b = e /\ ed) \/ (b = i /\ id))
  <2>1. CASE b = external.buffer /\ external.dirty
    <3>1. b = e
      BY <1>1, <2>1, Zenon
    <3>2. ed
      BY <1>1, <2>1, Zenon
    <3> QED
      BY <1>4, <3>1, <3>2
  <2>2. CASE b = internal.buffer /\ internal.dirty
    <3>1. b = i
      BY <1>2, <2>2, Zenon
    <3>2. id
      BY <1>2, <2>2, Zenon
    <3> QED
      BY <1>4, <3>1, <3>2
  <2> QED BY <2>1, <2>2, Zenon
<1>6. /\ e # 0 /\ ~id => memory'[e] = latest'
      /\ i # 0 /\ ~ed => memory'[i] = latest'
      /\ e = 0 => memory'[1] = 0 /\ (~id => latest' = 0)
      /\ i = 0 => memory'[2] = 0 /\ (~ed => latest' = 0)
  <2>1. b \in 1 .. 2
    BY <1>5
  <2>2. memory'[b] = latest' /\ \A x \in (1 .. 2) \ {b} : memory'[x] = memory[x]
    BY <1>0, <1>3, <2>1
  <2> QED
    BY <1>0, <1>4, <1>5, <2>1, <2>2
<1>7. memory' \in [1 .. 2 -> Nat] /\ latest' \in Nat
  <2>1. b \in 1 .. 2
    BY <1>5
  <2> QED
    BY <1>0, <1>3, <2>1
<1>8. /\ external'.buffer = e /\ (external'.dirty <=> ed)
      /\ internal'.buffer = i /\ (internal'.dirty <=> id)
  BY <1>1, <1>2
<1>9. Coherent'
  BY <1>4, <1>6, <1>8 DEF Coherent
<1> QED
  BY <1>4, <1>6, <1>7, <1>8, <1>9 DEF DataInv
-----------------------------------------------------------------------------
(* Claims of draw calls.                                                    *)

LEMMA ClaimsFinite == IsFiniteSet(DrawClaims) /\ Cardinality(DrawClaims) \in Nat
<1>1. IsFiniteSet(0 .. 2)
  <2>1. 0 \in Int /\ 2 \in Int
    OBVIOUS
  <2> QED
    BY ONLY <2>1, FS_Interval
<1>2. IsFiniteSet(Slot \X (0 .. 2))
  BY <1>1, SlotAssumption, FS_Product
<1>3. DrawClaims \in SUBSET (Slot \X (0 .. 2))
  BY DEF DrawClaims
<1> QED
  BY <1>2, <1>3, FS_Subset, FS_CardinalityType

\* A draw call with a claim keeps the resource locked.
LEMMA ClaimsCounted ==
    ASSUME Types, CountInv
    PROVE  /\ resource.count \in Nat
           /\ resource.count >= CallClaims + PointerClaims
           /\ CallClaims \in 0 .. 2 /\ PointerClaims \in 0 .. 1
           /\ DrawClaims # {} => resource.count > CallClaims + PointerClaims
           /\ DrawClaims = {} => resource.count = CallClaims + PointerClaims
<1>1. CallClaims \in 0 .. 2 /\ PointerClaims \in 0 .. 1
  BY DEF CallClaims, PointerClaims
<1>2. IsFiniteSet(DrawClaims) /\ Cardinality(DrawClaims) \in Nat
  BY ClaimsFinite
<1>3. DrawClaims # {} <=> Cardinality(DrawClaims) > 0
  BY <1>2, FS_EmptySet
<1>4. resource.count = Cardinality(DrawClaims) + CallClaims + PointerClaims
  BY DEF CountInv
<1> QED
  BY <1>1, <1>2, <1>3, <1>4

LEMMA HasClaim ==
    ASSUME Types, NEW s \in Slot
    PROVE  /\ Renders(s) <=> <<s, 0>> \in DrawClaims
           /\ \A i \in 1 .. 2 : i <= draw[s].textures <=> <<s, i>> \in DrawClaims
           /\ Renders(s) \/ SamplesOnly(s) \/ draw[s].textures > 0 => DrawClaims # {}
<1>1. Renders(s) <=> <<s, 0>> \in DrawClaims
  BY DEF DrawClaims
<1>2. \A i \in 1 .. 2 : i <= draw[s].textures <=> <<s, i>> \in DrawClaims
  BY DEF DrawClaims
<1>3. draw[s].textures > 0 => <<s, 1>> \in DrawClaims
  BY <1>2 DEF Types, Draws
<1> QED
  BY <1>1, <1>2, <1>3 DEF SamplesOnly

\* A slot that a draw call takes.
LEMMA ClaimsAdded ==
    ASSUME Types, Types', NEW s \in Slot, draw[s] = NoDraw,
           NEW target \in BOOLEAN, NEW k \in 0 .. 2,
           draw' = [draw EXCEPT ![s] = [at |-> "flight", target |-> target, textures |-> k]]
    PROVE  Cardinality(DrawClaims') = Cardinality(DrawClaims) + k + (IF target THEN 1 ELSE 0)
<1> DEFINE D0 == DrawClaims
           D1 == IF target THEN D0 \cup {<<s, 0>>} ELSE D0
           D2 == IF k >= 1 THEN D1 \cup {<<s, 1>>} ELSE D1
           D3 == IF k >= 2 THEN D2 \cup {<<s, 2>>} ELSE D2
<1>1. /\ draw'[s].at = "flight" /\ draw'[s].target = target /\ draw'[s].textures = k
      /\ \A r \in Slot \ {s} : draw'[r] = draw[r]
  BY DEF Types
<1>2. draw[s].at # "flight" /\ draw[s].textures = 0
  BY DEF NoDraw
<1>3. <<s, 0>> \notin D0 /\ <<s, 1>> \notin D0 /\ <<s, 2>> \notin D0
  BY <1>2 DEF DrawClaims, Renders
<1>4. DrawClaims' = D3
  <2>1. \A x \in Slot \X (0 .. 2) : x \in DrawClaims' <=> x \in D3
    <3>1. TAKE x \in Slot \X (0 .. 2)
    <3>2. CASE x[1] = s
      <4>1. x = <<s, x[2]>> /\ x[2] \in 0 .. 2
        BY <3>2
      <4>2. x \in DrawClaims' <=> IF x[2] = 0 THEN target ELSE x[2] <= k
        BY <1>1, <3>2 DEF DrawClaims, Renders
      <4>3. x \in D3 <=> IF x[2] = 0 THEN target ELSE x[2] <= k
        BY <1>3, <4>1
      <4> QED BY <4>2, <4>3
    <3>3. CASE x[1] # s
      <4>1. x \in DrawClaims' <=> x \in DrawClaims
        BY <1>1, <3>3 DEF DrawClaims, Renders
      <4> QED
        BY <3>3, <4>1
    <3> QED BY <3>2, <3>3
  <2>2. DrawClaims' \subseteq Slot \X (0 .. 2) /\ D3 \subseteq Slot \X (0 .. 2)
    BY DEF DrawClaims
  <2> QED
    BY <2>1, <2>2, Zenon
<1>5. IsFiniteSet(D0) /\ Cardinality(D0) \in Nat
  BY ClaimsFinite
<1> HIDE DEF D0
<1>6. /\ IsFiniteSet(D1) /\ <<s, 1>> \notin D1 /\ <<s, 2>> \notin D1
      /\ Cardinality(D1) = Cardinality(D0) + (IF target THEN 1 ELSE 0)
  <2>1. /\ IsFiniteSet(D0 \cup {<<s, 0>>})
        /\ Cardinality(D0 \cup {<<s, 0>>}) = Cardinality(D0) + 1
    BY <1>3, <1>5, FS_AddElement
  <2> QED
    BY <1>3, <1>5, <2>1
<1> HIDE DEF D1
<1>7. /\ IsFiniteSet(D2) /\ <<s, 2>> \notin D2
      /\ Cardinality(D2) = Cardinality(D1) + (IF k >= 1 THEN 1 ELSE 0)
  <2>1. /\ IsFiniteSet(D1 \cup {<<s, 1>>})
        /\ Cardinality(D1 \cup {<<s, 1>>}) = Cardinality(D1) + 1
    BY <1>6, FS_AddElement
  <2>2. Cardinality(D1) \in Nat
    BY <1>6, FS_CardinalityType
  <2> QED
    BY <1>6, <2>1, <2>2
<1> HIDE DEF D2
<1>8. Cardinality(D3) = Cardinality(D2) + (IF k >= 2 THEN 1 ELSE 0)
  <2>1. Cardinality(D2 \cup {<<s, 2>>}) = Cardinality(D2) + 1
    BY <1>7, FS_AddElement
  <2>2. Cardinality(D2) \in Nat
    BY <1>7, FS_CardinalityType
  <2> QED
    BY <1>7, <2>1, <2>2
<1> HIDE DEF D3
<1>9. /\ Cardinality(D1) \in Nat /\ Cardinality(D2) \in Nat
      /\ k = (IF k >= 1 THEN 1 ELSE 0) + (IF k >= 2 THEN 1 ELSE 0)
  BY <1>6, <1>7, FS_CardinalityType
<1>10. Cardinality(D3) = Cardinality(D0) + k + (IF target THEN 1 ELSE 0)
  BY <1>5, <1>6, <1>7, <1>8, <1>9
<1> QED
  BY <1>4, <1>10 DEF D0

\* A draw call that gives up one claim.
LEMMA ClaimsRemoved ==
    ASSUME Types, NEW s \in Slot, NEW i \in 0 .. 2, <<s, i>> \in DrawClaims,
           DrawClaims' = DrawClaims \ {<<s, i>>}
    PROVE  Cardinality(DrawClaims') = Cardinality(DrawClaims) - 1
BY ClaimsFinite, FS_RemoveElement
-----------------------------------------------------------------------------
(* Every step keeps the invariant.                                          *)

\* A resource that is not claimed, or by the application, is not used by draw
\* calls.
LEMMA Unclaimed ==
    ASSUME IInv, resource.count = 0 \/ pointer # NotMapped
    PROVE  /\ DrawClaims = {} /\ CallClaims = 0
           /\ \A s \in Slot : ~Renders(s) /\ ~SamplesOnly(s) /\ draw[s].textures = 0
<1>1. Types /\ CountInv /\ ClassInv
  BY DEF IInv
<1>2. resource.count = CallClaims + PointerClaims
  <2>1. CASE resource.count = 0
    BY <1>1, <2>1, ClaimsCounted
  <2>2. CASE pointer # NotMapped
    <3>1. resource.count = 1 /\ PointerClaims = 1
      BY <1>1, <2>2 DEF ClassInv, PointerClaims
    <3> QED
      BY <1>1, <3>1, ClaimsCounted
  <2> QED BY <2>1, <2>2
<1>3. DrawClaims = {}
  BY <1>1, <1>2, ClaimsCounted
<1>4. CallClaims = 0
  <2>1. CASE resource.count = 0
    BY <1>1, <2>1, ClaimsCounted
  <2>2. CASE pointer # NotMapped
    BY <1>1, <2>2 DEF ClassInv, CallClaims, NoCall
  <2> QED BY <2>1, <2>2
<1>5. \A s \in Slot : ~Renders(s) /\ ~SamplesOnly(s) /\ draw[s].textures = 0
  <2>1. TAKE s \in Slot
  <2>2. draw[s].textures \in 0 .. 2
    BY <1>1 DEF Types, Draws
  <2> QED
    BY <1>1, <1>3, <2>2, HasClaim
<1> QED
  BY <1>3, <1>4, <1>5

\* The application locks a surface that has no claim on it.
LEMMA PublicFree ==
    ASSUME IInv, pointer = NotMapped, Grants(resource, "PUBLIC")
    PROVE  resource.count = 0
BY DEF IInv, ClassInv, Grants, Types, Resources

\* What a claim, giving it up and the end of the surface do to the resource.
LEMMA ClaimFields ==
    ASSUME NEW r \in Resources, NEW class \in {"PUBLIC", "PRIVATE", "MANAGED"}
    PROVE  /\ Locked(r, class) \in Resources
           /\ Locked(r, class).accessor = class
           /\ Locked(r, class).count = r.count + 1
<1>1. PICK c \in Nat : c = r.count + 1
  BY DEF Resources
<1>2. Locked(r, class) = [r EXCEPT !.count = c, !.accessor = class]
  BY <1>1, Zenon DEF Locked
<1> QED
  BY <1>1, <1>2 DEF Resources

LEMMA UnclaimFields ==
    ASSUME NEW r \in Resources, r.count > 0
    PROVE  /\ Unlocked(r) \in Resources
           /\ Unlocked(r).accessor = r.accessor
           /\ Unlocked(r).count = r.count - 1
<1>1. PICK c \in Nat : c = r.count - 1
  BY DEF Resources
<1>2. PICK f \in BOOLEAN : f = (r.count = 1 /\ r.orphaned)
  OBVIOUS
<1>3. Unlocked(r) = [r EXCEPT !.count = c, !.freed = f]
  BY <1>1, <1>2, Zenon DEF Unlocked
<1> QED
  BY <1>1, <1>3 DEF Resources

LEMMA DestructFields ==
    ASSUME NEW r \in Resources, r.count = 0
    PROVE  /\ Destructed(r) \in Resources
           /\ Destructed(r).accessor = r.accessor
           /\ Destructed(r).count = 0
BY DEF Resources, Destructed

LEMMA InvInit == Init => IInv
<1> SUFFICES ASSUME Init PROVE IInv
  OBVIOUS
<1>1. Types
  <2>1. /\ kind \in {"identical", "converted"} /\ owner \in {"client", "surface"}
    BY KindAssumption DEF Init
  <2>2. external \in Buffers /\ internal \in Buffers
    BY DEF Init, Buffers
  <2>3. /\ memory \in [1 .. 2 -> Nat]
        /\ latest \in Nat /\ mipmaps \in Nat /\ dirtyMipmaps \in BOOLEAN
    BY DEF Init
  <2>4. resource \in Resources
    BY DEF Init, NewResource, Resources
  <2>5. /\ pointer \in [side : {"none", "external", "internal"}, write : BOOLEAN]
        /\ call \in Calls
    BY DEF Init, NotMapped, NoCall, Calls
  <2>6. draw \in [Slot -> Draws]
    BY DEF Init, NoDraw, Draws
  <2> QED
    BY <2>1, <2>2, <2>3, <2>4, <2>5, <2>6 DEF Init, Types
<1>2. DataInv
  <2>1. memory[1] = 0 /\ memory[2] = 0 /\ latest = 0
    BY DEF Init
  <2>2. internal.buffer = 0 /\ internal.dirty = FALSE
    BY DEF Init
  <2>3. /\ external.buffer = IF owner = "client" THEN 1 ELSE 0
        /\ external.dirty <=> owner = "client"
    BY DEF Init
  <2> QED
    BY <2>1, <2>2, <2>3 DEF DataInv, Coherent
<1>3. WriterInv /\ ReaderInv
  BY DEF Init, WriterInv, ReaderInv, Renders, SamplesOnly, NotMapped, NoCall, NoDraw
<1>4. CountInv
  <2>1. DrawClaims = {}
    BY DEF Init, DrawClaims, Renders, NoDraw
  <2>2. CallClaims = 0 /\ PointerClaims = 0 /\ resource.count = 0
    BY DEF Init, CallClaims, NoCall, PointerClaims, NewResource
  <2> QED
    BY <2>1, <2>2, FS_EmptySet DEF CountInv
<1>5. ClassInv
  BY DEF Init, ClassInv, NewResource, NoCall, Renders, SamplesOnly, NoDraw
<1>6. PhaseInv
  BY DEF Init, PhaseInv, NoCall, NoDraw, destroyed
<1> QED
  BY <1>1, <1>2, <1>3, <1>4, <1>5, <1>6 DEF IInv

\* lockExternal(), lockInternal(): b is the side that is mapped.
LEMMA StepMap ==
    ASSUME IInv, Idle, Grants(resource, "PUBLIC"),
           NEW lock \in Lock, NEW side \in {"external", "internal"},
           /\ side = "external" => LockExternal(lock)
           /\ side = "internal" => LockInternal(lock),
           resource' = Locked(resource, "PUBLIC"),
           dirtyMipmaps' = MarkMipmaps(lock),
           latest' = IF lock = "discard" THEN latest + 1 ELSE latest,
           pointer' = [side |-> side, write |-> Written(lock)],
           UNCHANGED <<kind, owner, mipmaps, call, draw, deallocated>>
    PROVE  IInv'
<1>0. /\ Types /\ DataInv /\ WriterInv /\ ReaderInv /\ CountInv /\ ClassInv /\ PhaseInv
      /\ call = NoCall /\ pointer = NotMapped /\ ~destroyed
  BY DEF IInv, Idle
<1>1. resource.count = 0
  BY <1>0, PublicFree
<1>2. /\ DrawClaims = {} /\ CallClaims = 0
      /\ \A s \in Slot : ~Renders(s) /\ ~SamplesOnly(s)
  BY <1>1, Unclaimed
<1>3. /\ DrawClaims' = {} /\ CallClaims' = 0
      /\ \A s \in Slot : ~Renders(s)' /\ ~SamplesOnly(s)'
  BY <1>2 DEF DrawClaims, CallClaims, Renders, SamplesOnly
<1>4. /\ external' \in Buffers /\ internal' \in Buffers
      /\ memory' \in [1 .. 2 -> Nat] /\ latest' \in Nat
      /\ DataInv'
      /\ Written(lock) /\ side = "external" => external'.dirty
      /\ Written(lock) /\ side = "internal" => internal'.dirty
  <2>1. lock \in {"read", "write", "discard"}
    BY DEF Lock
  <2>2. CASE side = "external"
    BY <1>0, <2>1, <2>2, LockExternalData
  <2>3. CASE side = "internal"
    BY <1>0, <2>1, <2>3, LockInternalData
  <2> QED BY <2>2, <2>3
<1>5. resource' \in Resources /\ resource'.accessor = "PUBLIC" /\ resource'.count = 1
  <2>1. resource \in Resources
    BY <1>0 DEF Types
  <2> QED
    BY <1>1, <2>1, ClaimFields
<1>6. Types'
  <2>1. Written(lock) \in BOOLEAN /\ dirtyMipmaps' \in BOOLEAN
    BY <1>0 DEF Types, MarkMipmaps, Written
  <2>2. pointer' \in [side : {"none", "external", "internal"}, write : BOOLEAN]
    BY <2>1
  <2> QED
    BY <1>0, <1>4, <1>5, <2>1, <2>2 DEF Types
<1>7. /\ pointer'.side = side /\ (pointer'.write <=> Written(lock))
      /\ pointer' # NotMapped
  BY DEF NotMapped
<1>8. WriterInv'
  <2>1. ~dirtyMipmaps' => mipmaps' = latest'
    BY <1>0 DEF WriterInv, MarkMipmaps, Written
  <2>2. pointer'.write => dirtyMipmaps'
    BY <1>7 DEF MarkMipmaps
  <2>3. pointer'.write => \/ pointer'.side = "external" /\ external'.dirty
                          \/ pointer'.side = "internal" /\ internal'.dirty
    BY <1>4, <1>7
  <2> QED
    BY <1>3, <2>1, <2>2, <2>3 DEF WriterInv
<1>9. ReaderInv'
  BY <1>0, <1>3 DEF ReaderInv, NoCall
<1>10. CountInv'
  BY <1>3, <1>5, <1>7, FS_EmptySet DEF CountInv, PointerClaims
<1>11. ClassInv'
  BY <1>0, <1>3, <1>5, <1>7 DEF ClassInv, NoCall
<1>12. PhaseInv'
  BY <1>0 DEF PhaseInv, destroyed
<1> QED
  BY <1>4, <1>6, <1>8, <1>9, <1>10, <1>11, <1>12 DEF IInv

LEMMA StepWritePointer ==
    ASSUME IInv, WritePointer
    PROVE  IInv'
<1>0. /\ Types /\ DataInv /\ WriterInv /\ ReaderInv /\ CountInv /\ ClassInv /\ PhaseInv
  BY DEF IInv
<1>1. UNCHANGED <<kind, owner, external, internal, dirtyMipmaps, mipmaps, resource,
                  pointer, call, draw, deallocated>>
  BY DEF WritePointer
<1>2. PICK b \in 0 .. 2 : /\ Change(b)
                          /\ b = IF pointer.side = "external" THEN external.buffer
                                                              ELSE internal.buffer
  BY <1>0 DEF WritePointer, Types, Buffers
<1>3. pointer.write
  BY DEF WritePointer
<1>4. DataInv' /\ memory' \in [1 .. 2 -> Nat] /\ latest' \in Nat
  <2>1. \/ b = external.buffer /\ external.dirty
        \/ b = internal.buffer /\ internal.dirty
    BY <1>0, <1>2, <1>3 DEF WriterInv
  <2> QED
    BY <1>0, <1>1, <1>2, <2>1, ChangeData
<1>5. Types'
  BY <1>0, <1>1, <1>4 DEF Types
<1>6. WriterInv'
  BY <1>0, <1>1, <1>3 DEF WriterInv, Renders
<1>7. ReaderInv' /\ CountInv' /\ ClassInv' /\ PhaseInv'
  BY <1>0, <1>1 DEF ReaderInv, CountInv, ClassInv, PhaseInv, DrawClaims, CallClaims,
     PointerClaims, Renders, SamplesOnly, Current, destroyed, Samples
<1> QED
  BY <1>4, <1>5, <1>6, <1>7 DEF IInv

\* A step of the application that leaves the contents alone.
LEMMA Same ==
    ASSUME DataInv, UNCHANGED <<external, internal, memory, latest, owner>>
    PROVE  DataInv'
BY DEF DataInv, Coherent

LEMMA StepUnlock ==
    ASSUME IInv, unlock
    PROVE  IInv'
<1>0. /\ Types /\ DataInv /\ WriterInv /\ ReaderInv /\ CountInv /\ ClassInv /\ PhaseInv
  BY DEF IInv
<1>1. /\ pointer # NotMapped /\ resource' = Unlocked(resource) /\ pointer' = NotMapped
      /\ UNCHANGED <<kind, owner, external, internal, memory, latest, dirtyMipmaps,
                     mipmaps, call, draw, deallocated>>
  BY DEF unlock, contentVars
<1>2. resource.count = 1 /\ call = NoCall
  BY <1>0, <1>1 DEF ClassInv
<1>3. /\ DrawClaims' = {} /\ CallClaims' = 0 /\ PointerClaims' = 0
      /\ \A s \in Slot : ~Renders(s)' /\ ~SamplesOnly(s)'
  BY <1>1, Unclaimed DEF DrawClaims, CallClaims, Renders, SamplesOnly, PointerClaims
<1>4. resource' \in Resources /\ resource'.accessor = resource.accessor /\ resource'.count = 0
  <2>1. resource \in Resources
    BY <1>0 DEF Types
  <2> QED
    BY <1>1, <1>2, <2>1, UnclaimFields
<1>5. Types'
  <2>1. pointer' \in [side : {"none", "external", "internal"}, write : BOOLEAN]
    BY <1>1 DEF NotMapped
  <2> QED
    BY <1>0, <1>1, <1>4, <2>1 DEF Types
<1>6. WriterInv'
  BY <1>0, <1>1, <1>3 DEF WriterInv, NotMapped
<1>7. ReaderInv'
  BY <1>1, <1>2, <1>3 DEF ReaderInv, NoCall
<1>8. CountInv'
  BY <1>3, <1>4, FS_EmptySet DEF CountInv
<1>9. ClassInv'
  BY <1>1, <1>2, <1>3, <1>4 DEF ClassInv, NoCall
<1>10. PhaseInv'
  BY <1>0, <1>1, <1>4 DEF PhaseInv, destroyed
<1> QED
  BY <1>0, <1>1, <1>5, <1>6, <1>7, <1>8, <1>9, <1>10, Same DEF IInv

\* A surface that is destroyed has no claims any more.
LEMMA StepDestroy ==
    ASSUME IInv, Destroy
    PROVE  IInv'
<1>0. /\ Types /\ DataInv /\ WriterInv /\ ReaderInv /\ CountInv /\ ClassInv /\ PhaseInv
  BY DEF IInv
<1>1. /\ call = NoCall /\ pointer = NotMapped
      /\ Grants(resource, "DESTRUCT") /\ resource' = Destructed(resource)
      /\ deallocated' = (IF owner = "surface" THEN {external.buffer} ELSE {})
                        \cup (IF internal.buffer # external.buffer
                              THEN {internal.buffer} ELSE {}) \cup {0}
      /\ UNCHANGED <<kind, owner, external, internal, memory, latest, dirtyMipmaps,
                     mipmaps, pointer, call, draw>>
  BY DEF Destroy, Idle, Synchronized, contentVars
<1>2. resource.count = 0
  BY <1>0, <1>1 DEF Grants, Types, Resources
<1>3. resource' \in Resources /\ resource'.accessor = resource.accessor /\ resource'.count = 0
  <2>1. resource \in Resources
    BY <1>0 DEF Types
  <2> QED
    BY <1>1, <1>2, <2>1, DestructFields
<1>4. PICK e \in 0 .. 2, i \in 0 .. 2 : e = external.buffer /\ i = internal.buffer
  BY <1>0 DEF Types, Buffers
<1>5. owner \in {"client", "surface"} /\ (owner = "client" => e = 1)
  BY <1>0, <1>4 DEF Types, DataInv
<1>6. deallocated' = (IF owner = "surface" THEN {e} ELSE {})
                     \cup (IF i # e THEN {i} ELSE {}) \cup {0}
  BY <1>1, <1>4
<1>7. /\ deallocated' \subseteq 0 .. 2
      /\ deallocated' \ {0} = {e, i} \ ({0} \cup IF owner = "client" THEN {1} ELSE {})
  BY <1>5, <1>6
<1>8. Types'
  BY <1>0, <1>1, <1>3, <1>7 DEF Types
<1>9. WriterInv' /\ ReaderInv'
  BY <1>0, <1>1 DEF WriterInv, ReaderInv, Renders, SamplesOnly, Current, Samples
<1>10. CountInv'
  <2>1. resource'.count = resource.count
    BY <1>2, <1>3
  <2> QED
    BY <1>0, <1>1, <2>1 DEF CountInv, DrawClaims, CallClaims, PointerClaims, Renders
<1>11. ClassInv'
  <2>1. resource'.accessor = resource.accessor /\ resource'.count = resource.count
    BY <1>2, <1>3
  <2> QED
    BY <1>0, <1>1, <2>1 DEF ClassInv, Renders, SamplesOnly
<1>12. PhaseInv'
  BY <1>0, <1>1, <1>3, <1>4, <1>7 DEF PhaseInv
<1> QED
  BY <1>0, <1>1, <1>8, <1>9, <1>10, <1>11, <1>12, Same DEF IInv

LEMMA CallFields ==
    ASSUME NEW c \in Calls,
           NEW at \in {"none", "apply", "texture", "vertexTexture", "target"}
    PROVE  /\ [c EXCEPT !.at = at] \in Calls
           /\ [c EXCEPT !.at = at].at = at
           /\ [c EXCEPT !.at = at].pixel = c.pixel
           /\ [c EXCEPT !.at = at].vertex = c.vertex
           /\ [c EXCEPT !.at = at].target = c.target
BY DEF Calls

\* A draw call is submitted to a surface that is neither mapped nor destroyed.
LEMMA Submitted ==
    ASSUME IInv, call.at # "none"
    PROVE  pointer = NotMapped /\ ~destroyed /\ PointerClaims = 0
BY DEF IInv, ClassInv, PhaseInv, NoCall, PointerClaims

\* A draw call in flight that uses the surface has a claim on it, and then the
\* application has none.
LEMMA Claimed ==
    ASSUME IInv, NEW s \in Slot, Renders(s) \/ SamplesOnly(s) \/ draw[s].textures > 0
    PROVE  resource.count > 0 /\ resource.count > CallClaims /\ pointer = NotMapped
<1>1. Types /\ CountInv
  BY DEF IInv
<1>2. DrawClaims # {}
  BY <1>1, HasClaim
<1>3. pointer = NotMapped
  BY <1>2, Unclaimed
<1> QED
  BY <1>1, <1>2, <1>3, ClaimsCounted

LEMMA StepBegin ==
    ASSUME IInv, NEW pixel \in BOOLEAN, NEW vertex \in BOOLEAN, NEW target \in BOOLEAN,
           Begin(pixel, vertex, target)
    PROVE  IInv'
<1>0. /\ Types /\ DataInv /\ WriterInv /\ ReaderInv /\ CountInv /\ ClassInv /\ PhaseInv
  BY DEF IInv
<1>1. /\ call = NoCall /\ pointer = NotMapped /\ ~destroyed
      /\ pixel \/ vertex \/ target
      /\ call' = [at |-> "apply", pixel |-> pixel, vertex |-> vertex, target |-> target]
      /\ UNCHANGED <<kind, owner, external, internal, memory, latest, dirtyMipmaps,
                     mipmaps, resource, pointer, draw, deallocated>>
  BY DEF Begin, Idle, contentVars
<1>2. /\ call' \in Calls /\ call'.at = "apply"
      /\ call'.target \/ call'.pixel \/ call'.vertex
  BY <1>1 DEF Calls
<1>3. Types'
  BY <1>0, <1>1, <1>2 DEF Types
<1>4. WriterInv' /\ ReaderInv'
  BY <1>0, <1>1, <1>2 DEF WriterInv, ReaderInv, Renders, SamplesOnly, Current
<1>5. CountInv'
  <2>1. CallClaims' = 0 /\ CallClaims = 0
    BY <1>1, <1>2 DEF CallClaims, NoCall
  <2>2. DrawClaims' = DrawClaims /\ PointerClaims' = PointerClaims
    BY <1>1 DEF DrawClaims, Renders, PointerClaims
  <2> QED
    BY <1>0, <1>1, <2>1, <2>2 DEF CountInv
<1>6. ClassInv'
  BY <1>0, <1>1, <1>2 DEF ClassInv, Renders, SamplesOnly
<1>7. PhaseInv'
  BY <1>0, <1>1, <1>2 DEF PhaseInv, destroyed, Samples
<1> QED
  BY <1>0, <1>1, <1>3, <1>4, <1>5, <1>6, <1>7, Same DEF IInv

LEMMA StepGenerateMipSubLevels ==
    ASSUME IInv, GenerateMipSubLevels
    PROVE  IInv'
<1>0. /\ Types /\ DataInv /\ WriterInv /\ ReaderInv /\ CountInv /\ ClassInv /\ PhaseInv
  BY DEF IInv
<1>1. /\ call.at = "apply" /\ Grants(resource, "PUBLIC")
      /\ resource' = Unlocked(Locked(resource, "PUBLIC"))
      /\ dirtyMipmaps' = FALSE
      /\ UNCHANGED <<kind, owner, latest, pointer, call, draw, deallocated>>
  BY DEF GenerateMipSubLevels
<1>2. pointer = NotMapped /\ ~destroyed /\ resource.count = 0
  BY <1>1, Submitted, PublicFree
<1>3. /\ DrawClaims = {} /\ CallClaims = 0
      /\ \A s \in Slot : ~Renders(s) /\ ~SamplesOnly(s)
  BY <1>2, Unclaimed
<1>4. /\ DrawClaims' = {} /\ CallClaims' = 0 /\ PointerClaims' = 0
      /\ \A s \in Slot : ~Renders(s)' /\ ~SamplesOnly(s)'
  BY <1>1, <1>2, <1>3
     DEF DrawClaims, CallClaims, Renders, SamplesOnly, PointerClaims
<1>5. /\ external' \in Buffers /\ internal' \in Buffers
      /\ memory' \in [1 .. 2 -> Nat] /\ latest' \in Nat
      /\ DataInv' /\ mipmaps' = latest'
  <2>1. latest' = IF "read" = "discard" THEN latest + 1 ELSE latest
    BY <1>1
  <2>2. CASE LockExternal("read") /\ mipmaps' = memory'[external'.buffer]
    BY <1>0, <1>1, <2>1, <2>2, LockExternalData
  <2>3. CASE LockInternal("read") /\ mipmaps' = memory'[internal'.buffer]
    BY <1>0, <1>1, <2>1, <2>3, LockInternalData
  <2> QED
    BY <2>2, <2>3 DEF GenerateMipSubLevels
<1>6. resource' \in Resources /\ resource'.count = 0
  <2>1. /\ Locked(resource, "PUBLIC") \in Resources
        /\ Locked(resource, "PUBLIC").count = 1
    BY <1>0, <1>2, ClaimFields DEF Types
  <2> QED
    BY <1>1, <2>1, UnclaimFields
<1>7. Types'
  BY <1>0, <1>1, <1>5, <1>6 DEF Types
<1>8. WriterInv'
  BY <1>1, <1>2, <1>4, <1>5 DEF WriterInv, NotMapped
<1>9. ReaderInv'
  BY <1>1, <1>4 DEF ReaderInv
<1>10. CountInv'
  BY <1>4, <1>6, FS_EmptySet DEF CountInv
<1>11. ClassInv'
  BY <1>1, <1>2, <1>4, <1>6 DEF ClassInv
<1>12. PhaseInv'
  BY <1>0, <1>1, <1>2 DEF PhaseInv, destroyed, Samples
<1> QED
  BY <1>5, <1>7, <1>8, <1>9, <1>10, <1>11, <1>12 DEF IInv

LEMMA StepSetTextureLevel ==
    ASSUME IInv, setTextureLevel
    PROVE  IInv'
<1>0. /\ Types /\ DataInv /\ WriterInv /\ ReaderInv /\ CountInv /\ ClassInv /\ PhaseInv
  BY DEF IInv
<1>1. /\ call.at = "apply" /\ call' = [call EXCEPT !.at = "texture"]
      /\ Samples(call) => ~dirtyMipmaps
      /\ UNCHANGED <<kind, owner, latest, dirtyMipmaps, mipmaps, resource, pointer, draw,
                     deallocated>>
  BY DEF setTextureLevel, At
<1>2. pointer = NotMapped /\ ~destroyed
  BY <1>1, Submitted
<1>3. /\ call' \in Calls /\ call'.at = "texture" /\ call'.target = call.target
      /\ call'.pixel = call.pixel /\ call'.vertex = call.vertex
  BY <1>0, <1>1, CallFields DEF Types
<1>4. Samples(call') = Samples(call)
  BY <1>3 DEF Samples
<1>5. /\ external' \in Buffers /\ internal' \in Buffers
      /\ memory' \in [1 .. 2 -> Nat] /\ latest' \in Nat
      /\ DataInv'
      /\ internal'.dirty <=> internal.dirty
      /\ Samples(call) => Current'
      /\ Current => Current'
  <2>1. CASE Samples(call)
    <3>1. LockInternal("unlocked")
      BY <2>1 DEF setTextureLevel
    <3>2. latest' = IF "unlocked" = "discard" THEN latest + 1 ELSE latest
      BY <1>1
    <3>3. ~Written("unlocked")
      BY DEF Written
    <3> QED
      BY <1>0, <1>1, <2>1, <3>1, <3>2, <3>3, LockInternalData DEF Current
  <2>2. CASE ~Samples(call)
    <3>1. UNCHANGED <<external, internal, memory>>
      BY <2>2 DEF setTextureLevel
    <3> QED
      BY <1>0, <1>1, <2>2, <3>1, Same DEF Types, Current
  <2> QED BY <2>1, <2>2
<1>6. Types'
  BY <1>0, <1>1, <1>3, <1>5 DEF Types
<1>7. /\ \A s \in Slot : (Renders(s)' <=> Renders(s)) /\ (SamplesOnly(s)' <=> SamplesOnly(s))
      /\ DrawClaims' = DrawClaims /\ PointerClaims' = PointerClaims
      /\ CallClaims' = 0 /\ CallClaims = 0
  BY <1>1, <1>3 DEF Renders, SamplesOnly, DrawClaims, PointerClaims, CallClaims
<1>8. WriterInv'
  BY <1>0, <1>1, <1>2, <1>5, <1>7 DEF WriterInv, NotMapped
<1>9. ReaderInv'
  BY <1>0, <1>4, <1>5, <1>7 DEF ReaderInv
<1>10. CountInv'
  BY <1>0, <1>1, <1>7 DEF CountInv
<1>11. ClassInv'
  BY <1>0, <1>1, <1>2, <1>3, <1>7 DEF ClassInv
<1>12. PhaseInv'
  BY <1>0, <1>1, <1>2, <1>3, <1>4 DEF PhaseInv, destroyed
<1> QED
  BY <1>5, <1>6, <1>8, <1>9, <1>10, <1>11, <1>12 DEF IInv

\* The draw call claims the surface: if it is claimed already, then with the
\* same class.
LEMMA ClaimData ==
    ASSUME IInv, call.at # "none", NEW class \in {"PRIVATE", "MANAGED"},
           \/ Claim(class)
           \/ Grants(resource, class) /\ resource' = Locked(resource, class)
    PROVE  /\ resource' \in Resources /\ resource'.accessor = class
           /\ resource'.count = resource.count + 1
           /\ resource.count > 0 => resource.accessor = class
<1>1. /\ resource \in Resources /\ pointer = NotMapped
      /\ resource.count > 0 => resource.accessor # "PUBLIC"
  BY Submitted DEF IInv, Types, ClassInv
<1>2. Relinquished(resource, "PUBLIC") = resource
  BY <1>1 DEF Relinquished
<1>3. Grants(resource, class) /\ resource' = Locked(resource, class)
  BY <1>2 DEF Claim
<1>4. /\ resource' \in Resources /\ resource'.accessor = class
      /\ resource'.count = resource.count + 1
  <2>1. class \in {"PUBLIC", "PRIVATE", "MANAGED"}
    OBVIOUS
  <2>2. /\ Locked(resource, class) \in Resources
        /\ Locked(resource, class).accessor = class
        /\ Locked(resource, class).count = resource.count + 1
    BY <1>1, <2>1, ClaimFields
  <2> QED
    BY <1>3, <2>2, Zenon
<1>5. resource.count > 0 => resource.accessor = class
  BY <1>1, <1>3 DEF Grants, Resources
<1> QED
  BY <1>4, <1>5

\* LockTexture and LockVertexTexture: claims is what one of them adds.
LEMMA StepClaimTexture ==
    ASSUME IInv, NEW next \in {"vertexTexture", "target"},
           call.at = IF next = "target" THEN "vertexTexture" ELSE "texture",
           call' = [call EXCEPT !.at = next],
           NEW claims \in BOOLEAN,
           claims = IF next = "target" THEN call.vertex ELSE call.pixel,
           NEW class \in {"PRIVATE", "MANAGED"},
           class = IF next # "target" /\ call.target THEN "MANAGED" ELSE "PRIVATE",
           IF claims THEN Claim(class) ELSE UNCHANGED resource,
           UNCHANGED <<kind, owner, external, internal, memory, latest, dirtyMipmaps,
                       mipmaps, pointer, draw, deallocated>>
    PROVE  IInv'
<1>0. /\ Types /\ DataInv /\ WriterInv /\ ReaderInv /\ CountInv /\ ClassInv /\ PhaseInv
  BY DEF IInv
<1>1. call.at # "none" /\ call \in Calls
  BY <1>0 DEF Types
<1>2. pointer = NotMapped /\ ~destroyed /\ PointerClaims = 0
  BY <1>1, Submitted
<1>3. /\ call' \in Calls /\ call'.at = next /\ call'.target = call.target
      /\ call'.pixel = call.pixel /\ call'.vertex = call.vertex
  <2>1. next \in {"none", "apply", "texture", "vertexTexture", "target"}
    OBVIOUS
  <2> QED
    BY <1>1, <2>1, CallFields
<1>4. Samples(call') = Samples(call)
  BY <1>3 DEF Samples
<1>5. /\ resource' \in Resources
      /\ claims => resource'.accessor = class
      /\ resource.count > 0 => resource'.accessor = resource.accessor
      /\ ~claims => resource'.accessor = resource.accessor
      /\ resource'.count = resource.count + (IF claims THEN 1 ELSE 0)
  <2>1. CASE claims
    BY <1>1, <2>1, ClaimData
  <2>2. CASE ~claims
    BY <1>0, <2>2 DEF Types, Resources
  <2> QED BY <2>1, <2>2
<1>6. /\ \A s \in Slot : (Renders(s)' <=> Renders(s)) /\ (SamplesOnly(s)' <=> SamplesOnly(s))
      /\ DrawClaims' = DrawClaims /\ PointerClaims' = PointerClaims
  BY DEF Renders, SamplesOnly, DrawClaims, PointerClaims
<1>7. CallClaims' = CallClaims + (IF claims THEN 1 ELSE 0)
  <2>1. CASE next = "target"
    BY <1>1, <1>3, <2>1 DEF CallClaims
  <2>2. CASE next = "vertexTexture"
    BY <1>1, <1>3, <2>2 DEF CallClaims
  <2> QED BY <2>1, <2>2
<1>8. Types'
  BY <1>0, <1>3, <1>5 DEF Types
<1>9. WriterInv'
  BY <1>0, <1>6 DEF WriterInv
<1>10. ReaderInv'
  BY <1>0, <1>4, <1>6 DEF ReaderInv, Current
<1>11. CountInv'
  <2> DEFINE d == Cardinality(DrawClaims)
             p == PointerClaims
             c == CallClaims
             n == IF claims THEN 1 ELSE 0
  <2>1. d \in Nat /\ p \in Nat /\ c \in Nat /\ n \in Nat
    BY <1>0, ClaimsFinite, ClaimsCounted
  <2>2. resource.count = d + c + p /\ resource'.count = resource.count + n
    BY <1>0, <1>5 DEF CountInv
  <2>3. Cardinality(DrawClaims') = d /\ PointerClaims' = p /\ CallClaims' = c + n
    BY <1>6, <1>7
  <2> HIDE DEF d, p, c, n
  <2> QED
    BY <2>1, <2>2, <2>3 DEF CountInv
<1>12. \A s \in Slot : Renders(s) \/ SamplesOnly(s) => resource.count > 0
  BY Claimed
<1>13. CallClaims > 0 => resource.count > 0
  BY <1>0, <1>2, ClaimsCounted
<1>14. ClassInv'
  <2>1. resource'.count > 0 => resource'.accessor # "PUBLIC"
    <3>1. CASE claims
      BY <1>5, <3>1
    <3>2. CASE ~claims
      BY <1>0, <1>2, <1>5, <3>2 DEF ClassInv, Types, Resources
    <3> QED BY <3>1, <3>2
  <2>2. call'.pixel => resource'.accessor = IF call'.target THEN "MANAGED" ELSE "PRIVATE"
    <3>1. CASE next = "target"
      <4>1. call.pixel => CallClaims > 0
        BY <1>1, <3>1 DEF CallClaims
      <4> QED
        BY <1>0, <1>3, <1>5, <1>13, <3>1, <4>1 DEF ClassInv
    <3>2. CASE next = "vertexTexture"
      BY <1>3, <1>5, <3>2
    <3> QED BY <3>1, <3>2
  <2>3. call'.at = "target" /\ call'.vertex => resource'.accessor = "PRIVATE"
    BY <1>3, <1>5
  <2>4. \A s \in Slot : Renders(s)' => resource'.accessor = "MANAGED"
    BY <1>0, <1>5, <1>6, <1>12 DEF ClassInv
  <2>5. \A s \in Slot : SamplesOnly(s)' => resource'.accessor = "PRIVATE"
    BY <1>0, <1>5, <1>6, <1>12 DEF ClassInv
  <2> QED
    BY <1>2, <2>1, <2>2, <2>3, <2>4, <2>5 DEF ClassInv
<1>15. PhaseInv'
  BY <1>0, <1>1, <1>2, <1>3, <1>4 DEF PhaseInv, destroyed
<1> QED
  BY <1>0, <1>8, <1>9, <1>10, <1>11, <1>14, <1>15, Same DEF IInv

LEMMA StepLockTexture ==
    ASSUME IInv, LockTexture \/ LockVertexTexture
    PROVE  IInv'
<1>1. call \in Calls
  BY DEF IInv, Types
<1>2. CASE LockTexture
  <2>1. PICK claims \in BOOLEAN, class \in {"PRIVATE", "MANAGED"} :
           claims = call.pixel /\ class = IF call.target THEN "MANAGED" ELSE "PRIVATE"
    BY <1>1 DEF Calls
  <2> QED
    BY <1>2, <2>1, StepClaimTexture DEF LockTexture, At, contentVars
<1>3. CASE LockVertexTexture
  <2>1. PICK claims \in BOOLEAN, class \in {"PRIVATE", "MANAGED"} :
           claims = call.vertex /\ class = "PRIVATE"
    BY <1>1 DEF Calls
  <2> QED
    BY <1>3, <2>1, StepClaimTexture DEF LockVertexTexture, At, contentVars
<1> QED BY <1>2, <1>3

\* The textures of a draw call are what it claimed before its target.
TexturesOf(c) == Cardinality({u \in {"pixel", "vertex"} : c[u]})

LEMMA TexturesClaimed ==
    ASSUME NEW c \in Calls
    PROVE  /\ TexturesOf(c) = (IF c.pixel THEN 1 ELSE 0) + (IF c.vertex THEN 1 ELSE 0)
           /\ TexturesOf(c) \in 0 .. 2
<1> DEFINE U == {u \in {"pixel", "vertex"} : c[u]}
<1>1. /\ Cardinality({"pixel"}) = 1 /\ Cardinality({"vertex"}) = 1
  BY FS_Singleton
<1>2. Cardinality({"pixel", "vertex"}) = 2
  <2>1. Cardinality({"pixel"} \cup {"vertex"}) = Cardinality({"pixel"}) + 1
    <3>1. IsFiniteSet({"pixel"}) /\ "vertex" \notin {"pixel"}
      BY FS_Singleton
    <3> QED
      BY <3>1, FS_AddElement
  <2>2. {"pixel"} \cup {"vertex"} = {"pixel", "vertex"}
    OBVIOUS
  <2> QED
    BY <1>1, <2>1, <2>2
<1>3. CASE c.pixel /\ c.vertex
  <2>1. U = {"pixel", "vertex"}
    BY <1>3
  <2> QED
    BY <1>2, <1>3, <2>1 DEF TexturesOf
<1>4. CASE c.pixel /\ ~c.vertex
  <2>1. U = {"pixel"}
    BY <1>4
  <2> QED
    BY <1>1, <1>4, <2>1 DEF TexturesOf
<1>5. CASE ~c.pixel /\ c.vertex
  <2>1. U = {"vertex"}
    BY <1>5
  <2> QED
    BY <1>1, <1>5, <2>1 DEF TexturesOf
<1>6. CASE ~c.pixel /\ ~c.vertex
  <2>1. U = {}
    BY <1>6
  <2> QED
    BY <1>6, <2>1, FS_EmptySet DEF TexturesOf
<1> QED BY <1>3, <1>4, <1>5, <1>6

LEMMA StepLockTarget ==
    ASSUME IInv, LockTarget
    PROVE  IInv'
<1>0. /\ Types /\ DataInv /\ WriterInv /\ ReaderInv /\ CountInv /\ ClassInv /\ PhaseInv
  BY DEF IInv
<1>1. PICK s \in Slot :
         /\ draw[s] = NoDraw
         /\ draw' = [draw EXCEPT ![s] = [at |-> "flight", target |-> call.target,
                                         textures |-> TexturesOf(call)]]
  BY DEF LockTarget, TexturesOf
<1>2. /\ call.at = "target" /\ call' = NoCall /\ call \in Calls
      /\ UNCHANGED <<kind, owner, latest, mipmaps, pointer, deallocated>>
  BY <1>0 DEF LockTarget, Types
<1>3. pointer = NotMapped /\ ~destroyed /\ PointerClaims = 0
  BY <1>2, Submitted
<1>4. PICK target \in BOOLEAN, k \in 0 .. 2 : target = call.target /\ k = TexturesOf(call)
  BY <1>2, TexturesClaimed DEF Calls
<1>5. k = CallClaims /\ (k > 0 <=> Samples(call))
  <2>1. k = (IF call.pixel THEN 1 ELSE 0) + (IF call.vertex THEN 1 ELSE 0)
    BY <1>2, <1>4, TexturesClaimed
  <2> QED
    BY <1>2, <2>1 DEF CallClaims, Samples
<1>6. draw' = [draw EXCEPT ![s] = [at |-> "flight", target |-> target, textures |-> k]]
  BY <1>1, <1>4
<1>7. /\ draw' \in [Slot -> Draws]
      /\ draw'[s].at = "flight" /\ draw'[s].target = target /\ draw'[s].textures = k
      /\ \A r \in Slot \ {s} : draw'[r] = draw[r]
  <2>1. [at |-> "flight", target |-> target, textures |-> k] \in Draws
    BY DEF Draws
  <2> QED
    BY <1>0, <1>6, <2>1 DEF Types
<1>8. /\ external' \in Buffers /\ internal' \in Buffers
      /\ memory' \in [1 .. 2 -> Nat] /\ latest' \in Nat /\ dirtyMipmaps' \in BOOLEAN
      /\ DataInv'
      /\ target => internal'.dirty /\ dirtyMipmaps'
      /\ ~target => UNCHANGED <<external, internal, memory, dirtyMipmaps>>
      /\ resource' \in Resources
      /\ target => resource'.accessor = "MANAGED"
      /\ target /\ resource.count > 0 => resource.accessor = "MANAGED"
      /\ ~target => resource'.accessor = resource.accessor
      /\ resource'.count = resource.count + (IF target THEN 1 ELSE 0)
  <2>1. CASE target
    <3>1. /\ Grants(resource, "MANAGED") /\ resource' = Locked(resource, "MANAGED")
          /\ LockInternal("write") /\ dirtyMipmaps' = MarkMipmaps("write")
      BY <1>4, <2>1 DEF LockTarget
    <3>2. latest' = IF "write" = "discard" THEN latest + 1 ELSE latest
      BY <1>2
    <3>3. Written("write") /\ dirtyMipmaps' = TRUE
      BY <1>0, <3>1 DEF Written, MarkMipmaps, Types
    <3>4. /\ external' \in Buffers /\ internal' \in Buffers
          /\ memory' \in [1 .. 2 -> Nat] /\ latest' \in Nat
          /\ DataInv' /\ internal'.dirty
      BY <1>0, <1>2, <3>1, <3>2, <3>3, LockInternalData
    <3>5. /\ resource' \in Resources /\ resource'.accessor = "MANAGED"
          /\ resource'.count = resource.count + 1
          /\ resource.count > 0 => resource.accessor = "MANAGED"
      BY <1>2, <3>1, ClaimData
    <3> QED
      BY <2>1, <3>3, <3>4, <3>5
  <2>2. CASE ~target
    <3>1. UNCHANGED <<external, internal, memory, dirtyMipmaps, resource>>
      BY <1>4, <2>2 DEF LockTarget
    <3>2. DataInv'
      BY <1>0, <1>2, <3>1, Same
    <3> QED
      BY <1>0, <1>2, <2>2, <3>1, <3>2 DEF Types, Resources
  <2> QED BY <2>1, <2>2
<1>9. Types'
  <2>1. NoCall \in Calls
    BY DEF NoCall, Calls
  <2> QED
    BY <1>0, <1>2, <1>7, <1>8, <2>1 DEF Types
<1>10. /\ Renders(s)' <=> target
       /\ SamplesOnly(s)' <=> k > 0 /\ ~target
       /\ \A r \in Slot \ {s} : (Renders(r)' <=> Renders(r)) /\ (SamplesOnly(r)' <=> SamplesOnly(r))
  BY <1>7 DEF Renders, SamplesOnly
<1>11. \A r \in Slot : Renders(r) \/ SamplesOnly(r) => resource.count > 0
  BY Claimed
<1>12. WriterInv'
  <2>1. ~dirtyMipmaps' => mipmaps' = latest'
    BY <1>0, <1>2, <1>8 DEF WriterInv
  <2>2. ~pointer'.write
    BY <1>2, <1>3 DEF NotMapped
  <2>3. \A r \in Slot : Renders(r)' => internal'.dirty /\ dirtyMipmaps'
    BY <1>0, <1>8, <1>10 DEF WriterInv
  <2> QED
    BY <2>1, <2>2, <2>3 DEF WriterInv
<1>13. ReaderInv'
  <2>1. \A r \in Slot : SamplesOnly(r)' => Current'
    <3>1. TAKE r \in Slot
    <3>2. CASE target
      <4>1. ~SamplesOnly(r)'
        BY <1>0, <1>8, <1>10, <1>11, <3>2 DEF ClassInv
      <4> QED BY <4>1
    <3>3. CASE ~target
      <4>1. Current' <=> Current
        BY <1>8, <3>3 DEF Current
      <4>2. Samples(call) \/ SamplesOnly(r) => Current
        BY <1>0, <1>2 DEF ReaderInv
      <4> QED
        BY <1>5, <1>10, <4>1, <4>2
    <3> QED BY <3>2, <3>3
  <2> QED
    BY <1>2, <2>1 DEF ReaderInv, NoCall
<1>14. CountInv'
  <2> DEFINE d == Cardinality(DrawClaims)
             n == IF target THEN 1 ELSE 0
  <2>1. d \in Nat /\ n \in Nat
    BY ClaimsFinite
  <2>2. resource.count = d + k + 0 /\ resource'.count = resource.count + n
    BY <1>0, <1>3, <1>5, <1>8 DEF CountInv
  <2>3. Cardinality(DrawClaims') = d + k + n
    BY <1>0, <1>1, <1>6, <1>9, ClaimsAdded
  <2>4. CallClaims' = 0 /\ PointerClaims' = 0
    BY <1>2, <1>3 DEF CallClaims, NoCall, PointerClaims
  <2> HIDE DEF d, n
  <2> QED
    BY <2>1, <2>2, <2>3, <2>4 DEF CountInv
<1>15. ClassInv'
  <2>1. resource'.count > 0 => resource'.accessor # "PUBLIC"
    <3>1. CASE target
      BY <1>8, <3>1
    <3>2. CASE ~target
      BY <1>0, <1>3, <1>8, <3>2 DEF ClassInv, Types, Resources
    <3> QED BY <3>1, <3>2
  <2>2. \A r \in Slot : Renders(r)' => resource'.accessor = "MANAGED"
    BY <1>0, <1>8, <1>10 DEF ClassInv
  <2>3. \A r \in Slot : SamplesOnly(r)' => resource'.accessor = "PRIVATE"
    <3>1. TAKE r \in Slot
    <3>2. CASE target
      <4>1. ~SamplesOnly(r)'
        BY <1>0, <1>8, <1>10, <1>11, <3>2 DEF ClassInv
      <4> QED BY <4>1
    <3>3. CASE ~target
      <4>1. Samples(call) \/ SamplesOnly(r) => resource.accessor = "PRIVATE"
        BY <1>0, <1>2, <1>4, <3>3 DEF ClassInv, Samples
      <4> QED
        BY <1>5, <1>8, <1>10, <3>3, <4>1
    <3> QED BY <3>2, <3>3
  <2> QED
    BY <1>2, <1>3, <2>1, <2>2, <2>3 DEF ClassInv, NoCall
<1>16. PhaseInv'
  <2>1. target \/ k > 0
    BY <1>0, <1>2, <1>4, <1>5 DEF PhaseInv
  <2> QED
    BY <1>0, <1>2, <1>3, <1>7, <2>1 DEF PhaseInv, destroyed, NoCall
<1> QED
  BY <1>8, <1>9, <1>12, <1>13, <1>14, <1>15, <1>16 DEF IInv

LEMMA StepRender ==
    ASSUME IInv, NEW s \in Slot, Render(s)
    PROVE  IInv'
<1>0. /\ Types /\ DataInv /\ WriterInv /\ ReaderInv /\ CountInv /\ ClassInv /\ PhaseInv
  BY DEF IInv
<1>1. UNCHANGED <<kind, owner, external, internal, dirtyMipmaps, mipmaps, resource,
                  pointer, call, draw, deallocated>>
  BY DEF Render
<1>2. PICK b \in 0 .. 2 : Change(b) /\ b = internal.buffer
  BY <1>0 DEF Render, Types, Buffers
<1>3. internal.dirty /\ dirtyMipmaps
  BY <1>0 DEF Render, WriterInv, Renders
<1>4. DataInv' /\ memory' \in [1 .. 2 -> Nat] /\ latest' \in Nat
  BY <1>0, <1>1, <1>2, <1>3, ChangeData
<1>5. Types'
  BY <1>0, <1>1, <1>4 DEF Types
<1>6. WriterInv'
  BY <1>0, <1>1, <1>3 DEF WriterInv, Renders
<1>7. ReaderInv' /\ CountInv' /\ ClassInv' /\ PhaseInv'
  BY <1>0, <1>1 DEF ReaderInv, CountInv, ClassInv, PhaseInv, DrawClaims, CallClaims,
     PointerClaims, Renders, SamplesOnly, Current, destroyed, Samples
<1> QED
  BY <1>4, <1>5, <1>6, <1>7 DEF IInv

\* Draw call d has the claims that the one in slot s has, but for the one that is
\* given up.
Claims(d, j) == IF j = 0 THEN d.at = "flight" /\ d.target ELSE j <= d.textures
Keeps(s, d, given, i) ==
    \A j \in 0 .. 2 : Claims(d, j) <=> Claims(draw[s], j) /\ ~(given /\ j = i)

LEMMA DrawFields ==
    ASSUME NEW d \in Draws, NEW at \in {"free", "flight", "unlockRect", "textures"},
           NEW k \in 0 .. 2
    PROVE  /\ [d EXCEPT !.at = at] \in Draws
           /\ [d EXCEPT !.at = at].at = at
           /\ [d EXCEPT !.at = at].textures = d.textures
           /\ [d EXCEPT !.textures = k] \in Draws
           /\ [d EXCEPT !.textures = k].at = d.at
           /\ [d EXCEPT !.textures = k].textures = k
BY DEF Draws

\* What the claims of draw calls become.
ClaimsLeft(s, given, i) == IF given THEN DrawClaims \ {<<s, i>>} ELSE DrawClaims

LEMMA ClaimsChanged ==
    ASSUME Types, NEW s \in Slot, NEW d \in Draws, draw' = [draw EXCEPT ![s] = d],
           NEW given \in BOOLEAN, NEW i \in 0 .. 2, Keeps(s, d, given, i)
    PROVE  DrawClaims' = ClaimsLeft(s, given, i)
<1>1. /\ draw'[s] = d
      /\ \A r \in Slot \ {s} : draw'[r] = draw[r]
  BY DEF Types
<1>2. \A x \in Slot \X (0 .. 2) :
         x \in DrawClaims' <=> x \in DrawClaims /\ ~(given /\ x = <<s, i>>)
  <2>1. TAKE x \in Slot \X (0 .. 2)
  <2>2. PICK r \in Slot, j \in 0 .. 2 : x = <<r, j>> /\ x[1] = r /\ x[2] = j
    OBVIOUS
  <2>3. x \in DrawClaims' <=> IF j = 0 THEN Renders(r)' ELSE j <= draw'[r].textures
    BY <2>2 DEF DrawClaims
  <2>4. x \in DrawClaims <=> IF j = 0 THEN Renders(r) ELSE j <= draw[r].textures
    BY <2>2 DEF DrawClaims
  <2>5. CASE r = s
    <3>1. x \in DrawClaims' <=> Claims(d, j)
      BY <1>1, <2>3, <2>5 DEF Renders, Claims
    <3>2. x \in DrawClaims <=> Claims(draw[s], j)
      BY <2>4, <2>5 DEF Renders, Claims
    <3>3. x = <<s, i>> <=> j = i
      BY <2>2, <2>5
    <3> QED
      BY <3>1, <3>2, <3>3 DEF Keeps
  <2>6. CASE r # s
    <3>1. draw'[r] = draw[r] /\ (Renders(r)' <=> Renders(r)) /\ x # <<s, i>>
      BY <1>1, <2>2, <2>6 DEF Renders
    <3> QED
      BY <2>3, <2>4, <3>1
  <2> QED BY <2>5, <2>6
<1>3. DrawClaims \subseteq Slot \X (0 .. 2) /\ DrawClaims' \subseteq Slot \X (0 .. 2)
  BY DEF DrawClaims
<1> QED
  BY <1>2, <1>3 DEF ClaimsLeft

\* A draw call goes on to retire, and gives up the claim <<s, i>> if it has it.
Retired(s, d, given, i) ==
    /\ draw' = [draw EXCEPT ![s] = d]
    /\ d.at # "flight" /\ (d.at = "free" => d = NoDraw)
    /\ Keeps(s, d, given, i) /\ (given => Claims(draw[s], i))
    /\ resource' = IF given THEN Unlocked(resource) ELSE resource
    /\ UNCHANGED <<kind, owner, external, internal, memory, latest, dirtyMipmaps,
                   mipmaps, pointer, call, deallocated>>

LEMMA StepRetired ==
    ASSUME IInv, NEW s \in Slot, NEW d \in Draws, NEW given \in BOOLEAN, NEW i \in 0 .. 2,
           Retired(s, d, given, i)
    PROVE  IInv'
<1> /\ draw' = [draw EXCEPT ![s] = d]
    /\ d.at # "flight" /\ (d.at = "free" => d = NoDraw)
    /\ Keeps(s, d, given, i) /\ (given => Claims(draw[s], i))
    /\ resource' = IF given THEN Unlocked(resource) ELSE resource
    /\ UNCHANGED <<kind, owner, external, internal, memory, latest, dirtyMipmaps,
                   mipmaps, pointer, call, deallocated>>
  BY DEF Retired
<1>0. /\ Types /\ DataInv /\ WriterInv /\ ReaderInv /\ CountInv /\ ClassInv /\ PhaseInv
  BY DEF IInv
<1>1. /\ draw' \in [Slot -> Draws] /\ draw'[s] = d
      /\ \A r \in Slot \ {s} : draw'[r] = draw[r]
  BY <1>0 DEF Types
<1>2. /\ given => DrawClaims' = DrawClaims \ {<<s, i>>}
      /\ ~given => DrawClaims' = DrawClaims
      /\ given => <<s, i>> \in DrawClaims
  <2>1. DrawClaims' = ClaimsLeft(s, given, i)
    BY <1>0, ClaimsChanged
  <2>2. given => <<s, i>> \in DrawClaims
    BY DEF Claims, DrawClaims, Renders
  <2> QED BY <2>1, <2>2 DEF ClaimsLeft
<1>2a. \A r \in Slot : (Renders(r)' => Renders(r)) /\ (SamplesOnly(r)' => SamplesOnly(r))
  BY <1>1 DEF Renders, SamplesOnly
<1>3. given => resource.count > 0 /\ pointer = NotMapped
  <2> SUFFICES ASSUME given PROVE resource.count > 0 /\ pointer = NotMapped
    OBVIOUS
  <2>1. DrawClaims # {}
    BY <1>2
  <2>2. pointer = NotMapped
    BY <2>1, Unclaimed
  <2> QED
    BY <1>0, <2>1, <2>2, ClaimsCounted
<1>4. /\ resource' \in Resources /\ resource'.accessor = resource.accessor
      /\ resource'.count = resource.count - (IF given THEN 1 ELSE 0)
  <2>1. CASE given
    BY <1>0, <1>3, <2>1, UnclaimFields DEF Types
  <2>2. CASE ~given
    BY <1>0, <2>2 DEF Types, Resources
  <2> QED BY <2>1, <2>2
<1>5. Types'
  BY <1>0, <1>1, <1>4 DEF Types
<1>6. WriterInv'
  BY <1>0, <1>2a DEF WriterInv
<1>7. ReaderInv'
  BY <1>0, <1>2a DEF ReaderInv, Current, Samples
<1>8. CountInv'
  <2> DEFINE c == Cardinality(DrawClaims)
             a == CallClaims
             p == PointerClaims
             n == IF given THEN 1 ELSE 0
  <2>1. c \in Nat /\ a \in Nat /\ p \in Nat /\ n \in Nat
    BY <1>0, ClaimsFinite, ClaimsCounted
  <2>2. resource.count = c + a + p /\ resource'.count = resource.count - n
    BY <1>0, <1>4 DEF CountInv
  <2>3. Cardinality(DrawClaims') = c - n
    <3>1. CASE given
      BY <1>0, <1>2, <3>1, ClaimsRemoved
    <3>2. CASE ~given
      BY <1>2, <2>1, <3>2
    <3> QED BY <3>1, <3>2
  <2>4. CallClaims' = a /\ PointerClaims' = p
    BY DEF CallClaims, PointerClaims
  <2> HIDE DEF c, a, p, n
  <2> QED
    BY <2>1, <2>2, <2>3, <2>4 DEF CountInv
<1>9. resource.count \in Nat
  BY <1>0 DEF Types, Resources
<1>10. ClassInv'
  <2>1. pointer # NotMapped =>
           resource'.count = 1 /\ resource'.accessor = "PUBLIC" /\ call = NoCall
    BY <1>0, <1>3, <1>4, <1>9 DEF ClassInv
  <2>2. pointer = NotMapped /\ resource'.count > 0 => resource'.accessor # "PUBLIC"
    BY <1>0, <1>4, <1>9 DEF ClassInv
  <2> QED
    BY <1>0, <1>2a, <1>4, <2>1, <2>2 DEF ClassInv
<1>11. PhaseInv'
  <2>1. destroyed => ~given
    BY <1>0, <1>3 DEF PhaseInv
  <2> QED
    BY <1>0, <1>1, <1>4, <1>9, <2>1 DEF PhaseInv, destroyed, Samples
<1> QED
  BY <1>0, <1>5, <1>6, <1>7, <1>8, <1>10, <1>11, Same DEF IInv

LEMMA StepRetire ==
    ASSUME IInv, NEW s \in Slot, Retire(s)
    PROVE  IInv'
<1>0. draw[s] \in Draws /\ draw[s].textures \in 0 .. 2
  BY DEF IInv, Types, Draws
<1>1. UNCHANGED <<kind, owner, external, internal, memory, latest, dirtyMipmaps,
                  mipmaps, pointer, call, deallocated>>
  BY DEF Retire, RetireTarget, UnlockRect, RetireTexture, contentVars
<1> PICK yes \in BOOLEAN, no \in BOOLEAN : yes /\ ~no
  OBVIOUS
<1>2. CASE RetireTarget(s)
  <2>1. PICK target \in BOOLEAN : target = draw[s].target
    BY <1>0 DEF Draws
  <2>2. PICK at \in {"unlockRect", "textures"} :
           at = IF target THEN "unlockRect" ELSE "textures"
    OBVIOUS
  <2>3. PICK d \in Draws : d = [draw[s] EXCEPT !.at = at]
    BY <1>0, DrawFields
  <2>4. d.at = at /\ d.textures = draw[s].textures
    BY <1>0, <2>3, DrawFields
  <2>5. draw' = [draw EXCEPT ![s] = d]
    BY <1>2, <2>1, <2>2, <2>3 DEF RetireTarget
  <2>6. resource' = IF target THEN Unlocked(resource) ELSE resource
    BY <1>2, <2>1 DEF RetireTarget
  <2>7. Keeps(s, d, target, 0) /\ (target => Claims(draw[s], 0))
    BY <1>2, <2>1, <2>4 DEF RetireTarget, Keeps, Claims
  <2>8. Retired(s, d, target, 0)
    BY <1>1, <2>4, <2>5, <2>6, <2>7 DEF Retired
  <2> QED
    BY <2>8, StepRetired
<1>3. CASE UnlockRect(s)
  <2>1. PICK d \in Draws : d = [draw[s] EXCEPT !.at = "textures"]
    BY <1>0, DrawFields
  <2>2. d.at = "textures" /\ d.textures = draw[s].textures
    BY <1>0, <2>1, DrawFields
  <2>3. draw' = [draw EXCEPT ![s] = d] /\ resource' = resource
    BY <1>3, <2>1 DEF UnlockRect
  <2>4. Keeps(s, d, no, 0)
    BY <1>3, <2>2 DEF UnlockRect, Keeps, Claims
  <2>5. Retired(s, d, no, 0)
    BY <1>1, <2>2, <2>3, <2>4 DEF Retired
  <2> QED
    BY <2>5, StepRetired
<1>4. CASE RetireTexture(s) /\ draw[s].textures > 0
  <2>1. PICK i \in 0 .. 2 : i = draw[s].textures /\ i > 0
    BY <1>0, <1>4
  <2>2. PICK k \in 0 .. 2 : k = i - 1
    BY <2>1
  <2>3. PICK d \in Draws : d = [draw[s] EXCEPT !.textures = k]
    BY <1>0, DrawFields
  <2>4. d.at = "textures" /\ d.textures = k
    BY <1>0, <1>4, <2>3, DrawFields DEF RetireTexture
  <2>5. draw' = [draw EXCEPT ![s] = d]
    BY <1>4, <2>1, <2>2, <2>3 DEF RetireTexture
  <2>6. resource' = Unlocked(resource) /\ draw[s].at = "textures"
    BY <1>4 DEF RetireTexture
  <2>7. Keeps(s, d, yes, i) /\ Claims(draw[s], i)
    BY <2>1, <2>2, <2>4, <2>6 DEF Keeps, Claims
  <2>8. Retired(s, d, yes, i)
    BY <1>1, <2>4, <2>5, <2>6, <2>7 DEF Retired
  <2> QED
    BY <2>8, StepRetired
<1>5. CASE RetireTexture(s) /\ ~(draw[s].textures > 0)
  <2>1. NoDraw \in Draws /\ NoDraw.at = "free" /\ NoDraw.textures = 0
    BY DEF NoDraw, Draws
  <2>2. /\ draw' = [draw EXCEPT ![s] = NoDraw] /\ resource' = resource
        /\ draw[s].at = "textures"
    BY <1>5 DEF RetireTexture
  <2>3. Keeps(s, NoDraw, no, 0)
    BY <1>0, <1>5, <2>1, <2>2 DEF Keeps, Claims
  <2>4. Retired(s, NoDraw, no, 0)
    BY <1>1, <2>1, <2>2, <2>3 DEF Retired
  <2> QED
    BY <2>1, <2>4, StepRetired
<1> QED
  BY <1>2, <1>3, <1>4, <1>5 DEF Retire

LEMMA StepStutter ==
    ASSUME IInv, UNCHANGED vars
    PROVE  IInv'
<1>1. UNCHANGED <<kind, owner, external, internal, memory, latest, dirtyMipmaps, mipmaps,
                  resource, pointer, call, draw, deallocated>>
  BY DEF vars, contentVars
<1>2. Types' /\ DataInv' /\ WriterInv' /\ ReaderInv'
  BY <1>1, Same DEF IInv, Types, WriterInv, ReaderInv, Renders, SamplesOnly, Current, Samples
<1>3. CountInv' /\ ClassInv' /\ PhaseInv'
  BY <1>1 DEF IInv, CountInv, ClassInv, PhaseInv, DrawClaims, CallClaims, PointerClaims,
     Renders, SamplesOnly, destroyed, Samples
<1> QED
  BY <1>2, <1>3 DEF IInv

LEMMA InvStep == IInv /\ [Next]_vars => IInv'
<1> SUFFICES ASSUME IInv, [Next]_vars PROVE IInv'
  OBVIOUS
<1>1. CASE Next
  <2>1. ASSUME NEW lock \in Lock, lockExternal(lock) PROVE IInv'
    BY <2>1, StepMap DEF lockExternal
  <2>2. ASSUME NEW lock \in Lock, lockInternal(lock) PROVE IInv'
    BY <2>2, StepMap DEF lockInternal
  <2>3. CASE App
    BY <2>1, <2>2, <2>3, StepWritePointer, StepDestroy, StepBegin DEF App
  <2>4. CASE unlock
    BY <2>4, StepUnlock
  <2>5. CASE Submit
    BY <2>5, StepGenerateMipSubLevels, StepSetTextureLevel, StepLockTexture,
       StepLockTarget DEF Submit
  <2>6. ASSUME NEW s \in Slot, Render(s) \/ Retire(s) PROVE IInv'
    BY <2>6, StepRender, StepRetire
  <2>7. CASE Done
    <3>1. UNCHANGED vars
      BY <2>7 DEF Done
    <3> QED
      BY <3>1, StepStutter
  <2> QED
    BY <1>1, <2>3, <2>4, <2>5, <2>6, <2>7 DEF Next
<1>2. CASE UNCHANGED vars
  BY <1>2, StepStutter
<1> QED BY <1>1, <1>2

LEMMA InvSpec == Spec => []IInv
<1>1. Init => IInv
  BY InvInit
<1>2. IInv /\ [Next]_vars => IInv'
  BY InvStep
<1> QED
  BY <1>1, <1>2, PTL DEF Spec
-----------------------------------------------------------------------------
(* No change of the contents is lost, for any kind of surface and any       *)
(* number of draw calls in flight.                                          *)
THEOREM ContentsKept == Spec => []Coherent
<1>1. IInv => Coherent
  BY DEF IInv, DataInv
<1> QED
  BY <1>1, InvSpec, PTL

(* What a draw call in flight samples and does not render to is current     *)
(* until it retires: nobody can have claimed the surface to write to it.    *)
THEOREM SamplesCurrent == Spec => []SampledCurrent
<1>1. IInv => SampledCurrent
  <2> SUFFICES ASSUME IInv, NEW s \in Slot, SamplesOnly(s)
               PROVE  memory[internal.buffer] = latest /\ mipmaps = latest
    BY DEF SampledCurrent, SamplesOnly
  <2>1. Current
    BY DEF IInv, ReaderInv
  <2> QED
    BY <2>1 DEF Current, IInv, DataInv, Coherent, WriterInv
<1> QED
  BY <1>1, InvSpec, PTL

(* A surface is destroyed when no draw call has a claim on it, and then     *)
(* gives back its own buffers, each one, and no other.                      *)
THEOREM DestroyedUnused == Spec => []BuffersGivenBack
<1>1. IInv => BuffersGivenBack
  <2> SUFFICES ASSUME IInv, destroyed
               PROVE  /\ \A s \in Slot : draw[s].at # "flight"
                      /\ deallocated \ {0} = {external.buffer, internal.buffer}
                            \ ({0} \cup IF owner = "client" THEN {1} ELSE {})
    BY DEF BuffersGivenBack
  <2>1. resource.count = 0 /\ PhaseInv
    BY DEF IInv, PhaseInv
  <2>2. \A s \in Slot : draw[s].at # "flight"
    <3>1. TAKE s \in Slot
    <3>2. ~Renders(s) /\ draw[s].textures = 0
      BY <2>1, Unclaimed
    <3> QED
      BY <2>1, <3>2 DEF Renders, PhaseInv
  <2> QED
    BY <2>1, <2>2 DEF PhaseInv
<1> QED
  BY <1>1, InvSpec, PTL
-----------------------------------------------------------------------------
(* ImageReferences                                                          *)

USE CountAssumption, WindowAssumption, DrawingAssumption, RuleAssumption, NoneAssumption

ImageType == [refs : Nat, parent : Texture \cup {NONE}, shared : BOOLEAN]
TextureType == [refs : Nat, level : Image \cup {NONE}, surface : Surface \cup {NONE},
                named : BOOLEAN]
SurfaceType == [refs : Nat, back : Image \cup {NONE}, texture : Texture \cup {NONE},
                inSet : BOOLEAN]
ContextType == [refs : Nat, zero : Image \cup {NONE}, attached : Texture \cup {NONE},
                target : Image \cup {NONE}, inSet : BOOLEAN]
Store == [image : [Image -> ImageType], texture : [Texture -> TextureType],
          surface : [Surface -> SurfaceType], context : [Context -> ContextType],
          dangling : BOOLEAN]

\* The level of texture t is its own image: they count their references together.
Own(o, t) == o.texture[t].level # NONE /\ o.image[o.texture[t].level].parent = t

\* The image that a texture has a reference to
Lev(o) == [t \in Texture |-> IF Own(o, t) THEN NONE ELSE o.texture[t].level]

(* n[i] are the references to image i that somebody is to give back, and    *)
(* m[t] those to texture t, the ones to its own image aside.                *)
ImagesCounted(o, n) ==
    \A i \in Image :
        /\ o.image[i].parent = NONE => o.image[i].refs = n[i]
        /\ o.image[i].parent # NONE =>
              o.image[i].refs = 1 /\ o.texture[o.image[i].parent].level = i
        /\ o.image[i].shared => n[i] >= 1
TexturesCounted(o, n, m) ==
    \A t \in Texture :
        /\ o.texture[t].refs = m[t] + (IF Own(o, t) THEN n[o.texture[t].level] ELSE 0)
        /\ o.texture[t].refs = 0 => o.texture[t].level = NONE /\ o.texture[t].surface = NONE
        /\ o.texture[t].named => m[t] >= 1

\* A texture and a surface are linked both ways, while the surface lives.
Linked(o) ==
    \A s \in Surface :
        /\ \A t \in Texture : o.texture[t].surface = s <=> o.surface[s].texture = t
        /\ o.surface[s].texture # NONE => o.surface[s].refs > 0

Counted(o, n, m) ==
    /\ o \in Store /\ n \in [Image -> Nat] /\ m \in [Texture -> Nat]
    /\ o.dangling = FALSE
    /\ ImagesCounted(o, n) /\ TexturesCounted(o, n, m) /\ Linked(o)

(* References counted with the textures that have a pointer to the image:   *)
(* e[i] are the others.                                                     *)
Pointing(D, f, i) == Cardinality({x \in D : f[x] = i})
Total(o, e) == [i \in Image |-> Pointing(Texture, Lev(o), i) + e[i]]

Held(o, e, m) ==
    /\ e \in [Image -> Nat]
    /\ \A i \in Image : o.image[i].shared => e[i] >= 1
    /\ Counted(o, Total(o, e), m)

(* Between calls, the other pointers to an image are those of surfaces and  *)
(* contexts, and that of the EGLImage; a texture is referenced for its name *)
(* and for the framebuffers it is attached to.                              *)
One(b) == IF b THEN 1 ELSE 0
Backs(o) == [s \in Surface |-> o.surface[s].back]
Zeros(o) == [c \in Context |-> o.context[c].zero]
Targets(o) == [c \in Context |-> o.context[c].target]

Extra(o) ==
    [i \in Image |-> Pointing(Surface, Backs(o), i) + Pointing(Context, Zeros(o), i)
                       + Pointing(Context, Targets(o), i) + One(o.image[i].shared)]
Names(o) == [t \in Texture |-> One(o.texture[t].named) + One(Proxied(o, t))]

Exact(o) == Held(o, Extra(o), Names(o))

(* Back buffers and default framebuffers have no parent, only pbuffers that *)
(* are not destroyed are bound to textures, and nothing is left of a deleted*)
(* surface or context.                                                      *)
Tidy(o) ==
    /\ \A s \in Surface :
          /\ o.surface[s].back # NONE => o.image[o.surface[s].back].parent = NONE
          /\ o.surface[s].texture # NONE => o.surface[s].inSet /\ s \notin Window
          /\ o.surface[s].refs = 0 => o.surface[s] = NoSurface
    /\ \A c \in Context :
          /\ o.context[c].zero # NONE => o.image[o.context[c].zero].parent = NONE
          /\ o.context[c].refs = 0 => o.context[c] = NoContext

Sound(o) == Exact(o) /\ Tidy(o)

(* References to surfaces and contexts: f is what each thread made current. *)
CurrentCounted(D, r, f) == \A u \in D : r[u].refs = One(r[u].inSet) + Pointing(Thread, f, u)

CurrentType == [context : Context \cup {NONE}, surface : Surface \cup {NONE}]
SurfaceOf(cur) == [th \in Thread |-> cur[th].surface]
ContextOf(cur) == [th \in Thread |-> cur[th].context]

\* A surface and a context are current on one thread at most, and a surface with a context.
Apart(cur) ==
    \A th \in Thread :
        /\ cur[th].surface # NONE => cur[th].context # NONE
        /\ \A other \in Thread \ {th} :
              /\ cur[th].surface # NONE => cur[other].surface # cur[th].surface
              /\ cur[th].context # NONE => cur[other].context # cur[th].context

\* ... that has its back buffer as the default framebuffer
Shown(o, cur) ==
    \A th \in Thread : cur[th].surface # NONE =>
        o.context[cur[th].context].zero = o.surface[cur[th].surface].back

Consistent(o, cur) ==
    /\ cur \in [Thread -> CurrentType]
    /\ CurrentCounted(Surface, o.surface, SurfaceOf(cur))
    /\ CurrentCounted(Context, o.context, ContextOf(cur))
    /\ Apart(cur) /\ Shown(o, cur)

(* The inductive invariant, for clients that keep the rules                 *)
EGLInv == Sound(Objects) /\ Consistent(Objects, current)

-----------------------------------------------------------------------------
(* Counts, and what a reference that is added or released leaves            *)

Plus(f, a) == [f EXCEPT ![a] = @ + 1]
Minus(f, a) == [f EXCEPT ![a] = @ - 1]

Repointed(f, a, w) == [f EXCEPT ![a] = w]

\* What no reference that is added or released changes
Frame(o, p) ==
    /\ p.context = o.context
    /\ \A s \in Surface :
          /\ p.surface[s].refs = o.surface[s].refs /\ p.surface[s].back = o.surface[s].back
          /\ p.surface[s].inSet = o.surface[s].inSet
          /\ p.surface[s].texture \in {NONE, o.surface[s].texture}
    /\ \A t \in Texture :
          /\ p.texture[t].named = o.texture[t].named
          /\ p.texture[t].surface \in {NONE, o.texture[t].surface}
          /\ p.texture[t].level \in {NONE, o.texture[t].level}
    /\ \A i \in Image :
          /\ p.image[i].shared = o.image[i].shared
          /\ p.image[i].parent \in {NONE, o.image[i].parent}

LEMMA FrameTransitive ==
    ASSUME NEW o, NEW p, NEW q, Frame(o, p), Frame(p, q)
    PROVE  Frame(o, q)
  BY DEF Frame

LEMMA FrameReflexive ==
    ASSUME NEW o
    PROVE  Frame(o, o)
  BY DEF Frame

-----------------------------------------------------------------------------
(* One object is replaced                                                   *)

WithImage(o, i, r) == [o EXCEPT !.image[i] = r]
WithTexture(o, t, r) == [o EXCEPT !.texture[t] = r]
WithSurface(o, s, r) == [o EXCEPT !.surface[s] = r]
WithContext(o, c, r) == [o EXCEPT !.context[c] = r]

LEMMA SetImage ==
    ASSUME NEW o \in Store, NEW i \in Image, NEW r \in ImageType
    PROVE  /\ WithImage(o, i, r) \in Store
           /\ WithImage(o, i, r).texture = o.texture /\ WithImage(o, i, r).surface = o.surface
           /\ WithImage(o, i, r).context = o.context /\ WithImage(o, i, r).dangling = o.dangling
           /\ WithImage(o, i, r).image[i] = r
           /\ \A j \in Image : j # i => WithImage(o, i, r).image[j] = o.image[j]
<1>1. o.image \in [Image -> ImageType]
  BY DEF Store
<1>2. PICK f : f = [o.image EXCEPT ![i] = r]
  OBVIOUS
<1>3. f \in [Image -> ImageType] /\ f[i] = r /\ \A j \in Image : j # i => f[j] = o.image[j]
  BY <1>1, <1>2
<1>4. PICK p : p = [o EXCEPT !.image = f]
  OBVIOUS
<1>5. p = WithImage(o, i, r)
  BY <1>2, <1>4 DEF WithImage
<1> QED
  BY <1>3, <1>4, <1>5 DEF Store

LEMMA SetTexture ==
    ASSUME NEW o \in Store, NEW t \in Texture, NEW r \in TextureType
    PROVE  /\ WithTexture(o, t, r) \in Store
           /\ WithTexture(o, t, r).image = o.image /\ WithTexture(o, t, r).surface = o.surface
           /\ WithTexture(o, t, r).context = o.context /\ WithTexture(o, t, r).dangling = o.dangling
           /\ WithTexture(o, t, r).texture[t] = r
           /\ \A u \in Texture : u # t => WithTexture(o, t, r).texture[u] = o.texture[u]
<1>1. o.texture \in [Texture -> TextureType]
  BY DEF Store
<1>2. PICK f : f = [o.texture EXCEPT ![t] = r]
  OBVIOUS
<1>3. f \in [Texture -> TextureType] /\ f[t] = r
      /\ \A u \in Texture : u # t => f[u] = o.texture[u]
  BY <1>1, <1>2
<1>4. PICK p : p = [o EXCEPT !.texture = f]
  OBVIOUS
<1>5. p = WithTexture(o, t, r)
  BY <1>2, <1>4 DEF WithTexture
<1> QED
  BY <1>3, <1>4, <1>5 DEF Store

LEMMA SetSurface ==
    ASSUME NEW o \in Store, NEW s \in Surface, NEW r \in SurfaceType
    PROVE  /\ WithSurface(o, s, r) \in Store
           /\ WithSurface(o, s, r).image = o.image /\ WithSurface(o, s, r).texture = o.texture
           /\ WithSurface(o, s, r).context = o.context /\ WithSurface(o, s, r).dangling = o.dangling
           /\ WithSurface(o, s, r).surface[s] = r
           /\ \A u \in Surface : u # s => WithSurface(o, s, r).surface[u] = o.surface[u]
<1>1. o.surface \in [Surface -> SurfaceType]
  BY DEF Store
<1>2. PICK f : f = [o.surface EXCEPT ![s] = r]
  OBVIOUS
<1>3. f \in [Surface -> SurfaceType] /\ f[s] = r
      /\ \A u \in Surface : u # s => f[u] = o.surface[u]
  BY <1>1, <1>2
<1>4. PICK p : p = [o EXCEPT !.surface = f]
  OBVIOUS
<1>5. p = WithSurface(o, s, r)
  BY <1>2, <1>4 DEF WithSurface
<1> QED
  BY <1>3, <1>4, <1>5 DEF Store

LEMMA SetContext ==
    ASSUME NEW o \in Store, NEW c \in Context, NEW r \in ContextType
    PROVE  /\ WithContext(o, c, r) \in Store
           /\ WithContext(o, c, r).image = o.image /\ WithContext(o, c, r).texture = o.texture
           /\ WithContext(o, c, r).surface = o.surface /\ WithContext(o, c, r).dangling = o.dangling
           /\ WithContext(o, c, r).context[c] = r
           /\ \A u \in Context : u # c => WithContext(o, c, r).context[u] = o.context[u]
<1>1. o.context \in [Context -> ContextType]
  BY DEF Store
<1>2. PICK f : f = [o.context EXCEPT ![c] = r]
  OBVIOUS
<1>3. f \in [Context -> ContextType] /\ f[c] = r
      /\ \A u \in Context : u # c => f[u] = o.context[u]
  BY <1>1, <1>2
<1>4. PICK p : p = [o EXCEPT !.context = f]
  OBVIOUS
<1>5. p = WithContext(o, c, r)
  BY <1>2, <1>4 DEF WithContext
<1> QED
  BY <1>3, <1>4, <1>5 DEF Store

-----------------------------------------------------------------------------
(* What keeps references counted                                            *)

LEMMA PlusMinus ==
    ASSUME NEW D, NEW f \in [D -> Nat], NEW a
    PROVE  /\ Plus(f, a) \in [D -> Nat]
           /\ (a \in D => f[a] >= 1) => Minus(f, a) \in [D -> Nat]
           /\ a \in D => Plus(f, a)[a] = f[a] + 1 /\ Minus(f, a)[a] = f[a] - 1
           /\ \A b \in D : b # a => Plus(f, a)[b] = f[b] /\ Minus(f, a)[b] = f[b]
           /\ a \notin D => Plus(f, a) = f /\ Minus(f, a) = f
           /\ Minus(Plus(f, a), a) = f
<1>1. PICK g : g = Plus(f, a)
  OBVIOUS
<1>2. PICK h : h = Minus(f, a)
  OBVIOUS
<1>3. (\A b \in D : f[b] \in Nat /\ f[b] + 1 \in Nat) /\ DOMAIN f = D
  OBVIOUS
<1>. g = [b \in D |-> IF b = a THEN f[b] + 1 ELSE f[b]]
  BY <1>3, <1>1 DEF Plus
<1>4. g \in [D -> Nat] /\ \A b \in D : g[b] = IF b = a THEN f[b] + 1 ELSE f[b]
  BY <1>3
<1>5. DOMAIN h = D /\ h = [b \in D |-> h[b]] /\ \A b \in D : h[b] = IF b = a THEN f[b] - 1 ELSE f[b]
  BY <1>2 DEF Minus
<1>6. (a \in D => f[a] >= 1) => h \in [D -> Nat]
  BY <1>5
<1>7. a \notin D => g = f /\ h = f
  BY <1>1, <1>2 DEF Plus, Minus
<1>8. Minus(g, a) = f
  <2>1. \A b \in D : (IF b = a THEN g[b] - 1 ELSE g[b]) = f[b]
    BY <1>4
  <2> QED
    BY <1>4, <2>1 DEF Minus
<1> QED
  BY <1>1, <1>2, <1>4, <1>5, <1>6, <1>7, <1>8

\* An image that has no parent gets or loses references.
LEMMA ImageRefsCounted ==
    ASSUME NEW o, NEW n, NEW m, Counted(o, n, m),
           NEW i \in Image, o.image[i].parent = NONE,
           NEW k \in Nat, o.image[i].shared => k >= 1,
           NEW r \in ImageType, r.refs = k, r.parent = NONE, r.shared = o.image[i].shared,
           NEW p, p = WithImage(o, i, r)
    PROVE  /\ Counted(p, [n EXCEPT ![i] = k], m)
           /\ Lev(p) = Lev(o) /\ Frame(o, p)
           /\ p.surface = o.surface /\ p.texture = o.texture
           /\ p.image[i].refs = k
           /\ \A j \in Image : /\ p.image[j].parent = o.image[j].parent
                               /\ j # i => p.image[j].refs = o.image[j].refs
<1>1. o \in Store /\ n \in [Image -> Nat] /\ m \in [Texture -> Nat] /\ o.dangling = FALSE
      /\ ImagesCounted(o, n) /\ TexturesCounted(o, n, m) /\ Linked(o)
  BY DEF Counted
<1>2. /\ p \in Store /\ p.texture = o.texture /\ p.surface = o.surface
      /\ p.context = o.context /\ p.dangling = o.dangling
      /\ p.image[i] = r /\ \A j \in Image : j # i => p.image[j] = o.image[j]
  BY <1>1, SetImage
<1>3. \A j \in Image : /\ p.image[j].parent = o.image[j].parent
                       /\ p.image[j].shared = o.image[j].shared
                       /\ j # i => p.image[j].refs = o.image[j].refs
  BY <1>2
<1>4. p.image[i].refs = k
  BY <1>2
<1>5. \A u \in Texture : o.texture[u].level \in Image \cup {NONE}
  BY <1>1 DEF Store, TextureType
<1>6. \A u \in Texture : Own(p, u) <=> Own(o, u)
  BY <1>2, <1>3, <1>5 DEF Own
<1>7. \A u \in Texture : Own(o, u) => o.texture[u].level # i
  BY DEF Own
<1>8. PICK q : q = [n EXCEPT ![i] = k]
  OBVIOUS
<1>9. q \in [Image -> Nat] /\ q[i] = k /\ \A j \in Image : j # i => q[j] = n[j]
  BY <1>1, <1>8
<1>10. ImagesCounted(p, q)
  BY <1>1, <1>2, <1>3, <1>4, <1>9 DEF ImagesCounted
<1>11. TexturesCounted(p, q, m)
  <2> SUFFICES ASSUME NEW u \in Texture
               PROVE  o.texture[u].refs = m[u] + (IF Own(o, u) THEN q[o.texture[u].level] ELSE 0)
    BY <1>1, <1>2, <1>6 DEF TexturesCounted
  <2> QED
    BY <1>1, <1>5, <1>7, <1>9 DEF TexturesCounted, Own
<1>12. Linked(p)
  BY <1>1, <1>2 DEF Linked
<1>13. Lev(p) = Lev(o)
  BY <1>2, <1>6 DEF Lev
<1>14. Frame(o, p)
  BY <1>2, <1>3 DEF Frame
<1>15. Counted(p, q, m)
  BY <1>1, <1>2, <1>9, <1>10, <1>11, <1>12 DEF Counted
<1> QED
  BY <1>2, <1>3, <1>4, <1>8, <1>13, <1>14, <1>15

\* A texture that is referenced gets or loses references.
LEMMA TextureRefsCounted ==
    ASSUME NEW o, NEW n, NEW m, Counted(o, n, m),
           NEW t \in Texture, o.texture[t].refs > 0,
           NEW k \in Nat, k > 0, NEW h \in Nat, h - m[t] = k - o.texture[t].refs,
           o.texture[t].named => h >= 1,
           NEW r \in TextureType, r.refs = k, r.level = o.texture[t].level,
           r.surface = o.texture[t].surface, r.named = o.texture[t].named,
           NEW p, p = WithTexture(o, t, r)
    PROVE  /\ Counted(p, n, [m EXCEPT ![t] = h])
           /\ Lev(p) = Lev(o) /\ Frame(o, p)
           /\ p.surface = o.surface /\ p.image = o.image
           /\ p.texture[t].refs = k
           /\ \A u \in Texture : /\ p.texture[u].level = o.texture[u].level
                                 /\ p.texture[u].surface = o.texture[u].surface
                                 /\ u # t => p.texture[u].refs = o.texture[u].refs
<1>1. o \in Store /\ n \in [Image -> Nat] /\ m \in [Texture -> Nat] /\ o.dangling = FALSE
      /\ ImagesCounted(o, n) /\ TexturesCounted(o, n, m) /\ Linked(o)
  BY DEF Counted
<1>2. /\ p \in Store /\ p.image = o.image /\ p.surface = o.surface
      /\ p.context = o.context /\ p.dangling = o.dangling
      /\ p.texture[t] = r /\ \A u \in Texture : u # t => p.texture[u] = o.texture[u]
  BY <1>1, SetTexture
<1>3. \A u \in Texture : /\ p.texture[u].level = o.texture[u].level
                         /\ p.texture[u].surface = o.texture[u].surface
                         /\ p.texture[u].named = o.texture[u].named
                         /\ u # t => p.texture[u].refs = o.texture[u].refs
  BY <1>2
<1>4. p.texture[t].refs = k
  BY <1>2
<1>5. \A u \in Texture : Own(p, u) <=> Own(o, u)
  BY <1>2, <1>3 DEF Own
<1>6. PICK q : q = [m EXCEPT ![t] = h]
  OBVIOUS
<1>7. q \in [Texture -> Nat] /\ q[t] = h /\ \A u \in Texture : u # t => q[u] = m[u]
  BY <1>1, <1>6
<1>8. ImagesCounted(p, n)
  <2>1. \A i \in Image : o.image[i].parent # NONE => o.image[i].parent \in Texture
    BY <1>1 DEF Store, ImageType
  <2> QED
    BY <1>1, <1>2, <1>3, <2>1 DEF ImagesCounted
<1>9. TexturesCounted(p, n, q)
  <2> SUFFICES ASSUME NEW u \in Texture
               PROVE  /\ p.texture[u].refs = q[u] + (IF Own(o, u) THEN n[o.texture[u].level] ELSE 0)
                      /\ p.texture[u].refs = 0 =>
                            o.texture[u].level = NONE /\ o.texture[u].surface = NONE
                      /\ o.texture[u].named => q[u] >= 1
    BY <1>3, <1>5 DEF TexturesCounted
  <2>1. PICK x \in Nat : x = IF Own(o, u) THEN n[o.texture[u].level] ELSE 0
    <3>1. o.texture[u].level \in Image \cup {NONE}
      BY <1>1 DEF Store, TextureType
    <3> QED
      BY <1>1, <3>1 DEF Own
  <2>2. /\ o.texture[u].refs = m[u] + x
        /\ o.texture[u].refs = 0 => o.texture[u].level = NONE /\ o.texture[u].surface = NONE
        /\ o.texture[u].named => m[u] >= 1
    BY <1>1, <2>1 DEF TexturesCounted
  <2>3. CASE u = t
    BY <1>1, <1>4, <1>7, <2>1, <2>2, <2>3
  <2>4. CASE u # t
    BY <1>3, <1>7, <2>1, <2>2, <2>4
  <2> QED
    BY <2>3, <2>4
<1>10. Linked(p)
  BY <1>1, <1>2, <1>3 DEF Linked
<1>11. Lev(p) = Lev(o)
  BY <1>3, <1>5 DEF Lev
<1>12. Frame(o, p)
  BY <1>2, <1>3 DEF Frame
<1>13. Counted(p, n, q)
  BY <1>1, <1>2, <1>7, <1>8, <1>9, <1>10 DEF Counted
<1> QED
  BY <1>2, <1>3, <1>4, <1>6, <1>11, <1>12, <1>13

\* A reference to a texture's own image is one to the texture.
LEMMA Shifted ==
    ASSUME NEW o, NEW n, NEW m, Counted(o, n, m),
           NEW t \in Texture, Own(o, t), NEW i, i = o.texture[t].level
    PROVE  /\ n[i] >= 1 /\ (o.image[i].shared => n[i] >= 2) =>
                 Counted(o, Minus(n, i), Plus(m, t))
           /\ m[t] >= 1 /\ (o.texture[t].named => m[t] >= 2) =>
                 Counted(o, Plus(n, i), Minus(m, t))
<1>1. o \in Store /\ n \in [Image -> Nat] /\ m \in [Texture -> Nat] /\ o.dangling = FALSE
      /\ ImagesCounted(o, n) /\ TexturesCounted(o, n, m) /\ Linked(o)
  BY DEF Counted
<1>2. i \in Image /\ o.image[i].parent = t
  BY <1>1 DEF Own, Store, TextureType
<1>3. \A u \in Texture : o.texture[u].level \in Image \cup {NONE}
  BY <1>1 DEF Store, TextureType
<1>4. \A u \in Texture : Own(o, u) => o.texture[u].level \in Image
                                      /\ (u # t => o.texture[u].level # i)
  BY <1>2, <1>3 DEF Own
<1>5. ASSUME NEW a \in [Image -> Nat], NEW b \in [Texture -> Nat],
             \A j \in Image : j # i => a[j] = n[j],
             \A u \in Texture : u # t => b[u] = m[u],
             a[i] + b[t] = n[i] + m[t],
             o.image[i].shared => a[i] >= 1, o.texture[t].named => b[t] >= 1
      PROVE  Counted(o, a, b)
  <2>1. ImagesCounted(o, a)
    BY <1>1, <1>2, <1>5 DEF ImagesCounted
  <2>2. TexturesCounted(o, a, b)
    <3> SUFFICES ASSUME NEW u \in Texture
                 PROVE  /\ o.texture[u].refs = b[u]
                               + (IF Own(o, u) THEN a[o.texture[u].level] ELSE 0)
                        /\ o.texture[u].named => b[u] >= 1
      BY <1>1 DEF TexturesCounted
    <3>1. CASE u = t
      <4>1. o.texture[t].refs = m[t] + n[i]
        BY <1>1 DEF TexturesCounted
      <4>2. a[i] \in Nat /\ b[t] \in Nat /\ n[i] \in Nat /\ m[t] \in Nat
        BY <1>1, <1>2
      <4> QED
        BY <3>1, <4>1, <4>2, <1>5
    <3>2. CASE u # t
      BY <3>2, <1>1, <1>4, <1>5 DEF TexturesCounted
    <3> QED
      BY <3>1, <3>2
  <2> QED
    BY <1>1, <2>1, <2>2 DEF Counted
<1>6. n[i] \in Nat /\ m[t] \in Nat
  BY <1>1, <1>2
<1>7. ASSUME n[i] >= 1, o.image[i].shared => n[i] >= 2
      PROVE  Counted(o, Minus(n, i), Plus(m, t))
  <2>1. PICK a, b : a = Minus(n, i) /\ b = Plus(m, t)
    OBVIOUS
  <2>2. a \in [Image -> Nat] /\ a[i] = n[i] - 1 /\ \A j \in Image : j # i => a[j] = n[j]
    BY <1>1, <1>2, <1>7, <2>1, PlusMinus
  <2>3. b \in [Texture -> Nat] /\ b[t] = m[t] + 1 /\ \A u \in Texture : u # t => b[u] = m[u]
    BY <1>1, <2>1, PlusMinus
  <2> QED
    BY <1>5, <1>6, <1>7, <2>1, <2>2, <2>3
<1>8. ASSUME m[t] >= 1, o.texture[t].named => m[t] >= 2
      PROVE  Counted(o, Plus(n, i), Minus(m, t))
  <2>1. PICK a, b : a = Plus(n, i) /\ b = Minus(m, t)
    OBVIOUS
  <2>2. a \in [Image -> Nat] /\ a[i] = n[i] + 1 /\ \A j \in Image : j # i => a[j] = n[j]
    BY <1>1, <1>2, <2>1, PlusMinus
  <2>3. b \in [Texture -> Nat] /\ b[t] = m[t] - 1 /\ \A u \in Texture : u # t => b[u] = m[u]
    BY <1>1, <1>8, <2>1, PlusMinus
  <2> QED
    BY <1>5, <1>6, <1>8, <2>1, <2>2, <2>3
<1> QED
  BY <1>7, <1>8

-----------------------------------------------------------------------------
(* AddRef() and release() keep references counted                           *)

\* AddRef(): one more reference to i is to be given back.
LEMMA AddRefCounted ==
    ASSUME NEW o, NEW n, NEW m, Counted(o, n, m),
           NEW i \in Image \cup {NONE}, i # NONE => o.image[i].refs > 0,
           NEW p, p = AddRef(o, i)
    PROVE  /\ Counted(p, Plus(n, i), m)
           /\ Lev(p) = Lev(o) /\ Frame(o, p)
           /\ p.surface = o.surface
           /\ \A t \in Texture : p.texture[t].level = o.texture[t].level
           /\ \A j \in Image : /\ p.image[j].parent = o.image[j].parent
                               /\ p.image[j].refs >= o.image[j].refs
<1>1. o \in Store /\ n \in [Image -> Nat] /\ m \in [Texture -> Nat] /\ o.dangling = FALSE
      /\ ImagesCounted(o, n) /\ TexturesCounted(o, n, m) /\ Linked(o)
  BY DEF Counted
<1>2. \A j \in Image : o.image[j] \in ImageType /\ o.image[j].refs \in Nat
  BY <1>1 DEF Store, ImageType
<1>3. CASE i = NONE
  <2>1. p = o
    BY <1>3 DEF AddRef
  <2>2. Plus(n, i) = n
    BY <1>3, <1>1, PlusMinus
  <2> QED
    BY <1>2, <2>1, <2>2, FrameReflexive
<1>4. CASE i # NONE /\ o.image[i].parent # NONE
  <2>1. PICK t \in Texture : t = o.image[i].parent
    BY <1>4, <1>2 DEF ImageType
  <2>2. i \in Image /\ Own(o, t) /\ i = o.texture[t].level
    BY <1>1, <1>4, <2>1 DEF ImagesCounted, Own
  <2>3. PICK r : r = [o.texture[t] EXCEPT !.refs = @ + 1]
    OBVIOUS
  <2>4. r \in TextureType /\ r.refs = o.texture[t].refs + 1 /\ r.level = o.texture[t].level
        /\ r.surface = o.texture[t].surface /\ r.named = o.texture[t].named
        /\ o.texture[t].refs \in Nat
    BY <1>1, <2>3 DEF TextureType, Store
  <2>5. p = WithTexture(o, t, r)
    <3>1. o.image[i].refs # 0
      BY <1>4, <1>2, <2>2
    <3>2. AddRef(o, i) = [o EXCEPT !.texture[o.image[i].parent].refs = @ + 1]
      BY <1>4, <3>1 DEF AddRef
    <3>3. AddRef(o, i) = [o EXCEPT !.texture[t].refs = @ + 1]
      BY <2>1, <3>2
    <3> QED
      BY <2>3, <3>3 DEF WithTexture
  <2>6. o.texture[t].refs = m[t] + n[i] /\ m[t] \in Nat /\ n[i] \in Nat /\ o.image[i].refs = 1
        /\ (o.texture[t].named => m[t] >= 1)
    BY <1>1, <1>4, <2>2 DEF TexturesCounted, ImagesCounted
  <2>7. o.texture[t].refs > 0
    <3>1. o.texture[t].level # NONE
      BY <2>2
    <3> QED
      BY <1>1, <2>4, <3>1 DEF TexturesCounted
  <2>8. /\ Counted(p, n, [m EXCEPT ![t] = m[t] + 1])
        /\ Lev(p) = Lev(o) /\ Frame(o, p)
        /\ p.surface = o.surface /\ p.image = o.image
        /\ \A u \in Texture : p.texture[u].level = o.texture[u].level
    <3>1. PICK k \in Nat : k = o.texture[t].refs + 1
      BY <2>4
    <3>2. PICK h \in Nat : h = m[t] + 1
      BY <2>6
    <3>3. k > 0 /\ h - m[t] = k - o.texture[t].refs /\ h >= 1
      BY <2>4, <2>6, <3>1, <3>2
    <3>4. /\ Counted(p, n, [m EXCEPT ![t] = h])
          /\ Lev(p) = Lev(o) /\ Frame(o, p)
          /\ p.surface = o.surface /\ p.image = o.image
          /\ \A u \in Texture : p.texture[u].level = o.texture[u].level
      BY <2>4, <2>5, <2>7, <3>1, <3>3, TextureRefsCounted
    <3> QED
      BY <3>2, <3>4
  <2>9. Counted(p, n, Plus(m, t))
    BY <2>8 DEF Plus
  <2>10. Own(p, t) /\ i = p.texture[t].level
    BY <2>2, <2>8, Zenon DEF Own
  <2>11. Plus(m, t)[t] = m[t] + 1 /\ Minus(Plus(m, t), t) = m
    BY <1>1, PlusMinus
  <2>12. p.texture[t].named = o.texture[t].named
    BY <2>8 DEF Frame
  <2>13. Counted(p, Plus(n, i), m)
    <3>1. Plus(m, t)[t] >= 1 /\ (p.texture[t].named => Plus(m, t)[t] >= 2)
      BY <2>6, <2>11, <2>12
    <3>2. Counted(p, Plus(n, i), Minus(Plus(m, t), t))
      BY <2>9, <2>10, <3>1, Shifted
    <3> QED
      BY <3>2, <2>11
  <2> QED
    BY <1>2, <2>8, <2>13
<1>5. CASE i # NONE /\ o.image[i].parent = NONE
  <2>1. i \in Image
    BY <1>5
  <2>2. PICK r : r = [o.image[i] EXCEPT !.refs = @ + 1]
    OBVIOUS
  <2>3. PICK k \in Nat : k = o.image[i].refs + 1 /\ k >= 1
    BY <1>2, <2>1
  <2>4. r \in ImageType /\ r.refs = k /\ r.parent = NONE /\ r.shared = o.image[i].shared
    BY <1>2, <1>5, <2>1, <2>2, <2>3 DEF ImageType
  <2>5. p = WithImage(o, i, r)
    BY <1>5, <2>1, <2>2 DEF AddRef, WithImage
  <2>6. /\ Counted(p, [n EXCEPT ![i] = k], m)
        /\ Lev(p) = Lev(o) /\ Frame(o, p)
        /\ p.surface = o.surface /\ p.texture = o.texture
        /\ p.image[i].refs = k
        /\ \A j \in Image : /\ p.image[j].parent = o.image[j].parent
                            /\ j # i => p.image[j].refs = o.image[j].refs
    BY <1>5, <2>1, <2>3, <2>4, <2>5, ImageRefsCounted
  <2>7. o.image[i].refs = n[i]
    BY <1>1, <1>5, <2>1 DEF ImagesCounted
  <2>8. Counted(p, Plus(n, i), m)
    BY <2>3, <2>6, <2>7 DEF Plus
  <2> QED
    BY <1>2, <2>3, <2>6, <2>8
<1> QED
  BY <1>3, <1>4, <1>5

\* A texture's own image, to which there is no reference, is unbound.
LEMMA OwnDropped ==
    ASSUME NEW o, NEW n, NEW m, Counted(o, n, m),
           NEW t \in Texture, Own(o, t), NEW i, i = o.texture[t].level,
           n[i] = 0, o.texture[t].refs > 0,
           NEW r \in TextureType, r.refs = o.texture[t].refs, r.level = NONE,
           r.surface = o.texture[t].surface, r.named = o.texture[t].named,
           NEW p, p = WithTexture(WithImage(o, i, NoImage), t, r)
    PROVE  /\ Counted(p, n, m) /\ Lev(p) = Lev(o) /\ Frame(o, p)
           /\ p.surface = o.surface
           /\ p.texture[t] = r /\ \A u \in Texture : u # t => p.texture[u] = o.texture[u]
<1>1. o \in Store /\ n \in [Image -> Nat] /\ m \in [Texture -> Nat] /\ o.dangling = FALSE
      /\ ImagesCounted(o, n) /\ TexturesCounted(o, n, m) /\ Linked(o)
  BY DEF Counted
<1>2. i \in Image /\ o.image[i].parent = t /\ i # NONE
  BY <1>1 DEF Own, Store, TextureType
<1>3. NoImage \in ImageType /\ NoImage.refs = 0 /\ NoImage.parent = NONE
      /\ NoImage.shared = FALSE
  BY DEF NoImage, ImageType
<1>4. PICK q : q = WithImage(o, i, NoImage)
  OBVIOUS
<1>5. /\ q \in Store /\ q.texture = o.texture /\ q.surface = o.surface
      /\ q.context = o.context /\ q.dangling = o.dangling
      /\ q.image[i] = NoImage /\ \A j \in Image : j # i => q.image[j] = o.image[j]
  BY <1>1, <1>2, <1>3, <1>4, SetImage
<1>6. /\ p \in Store /\ p.image = q.image /\ p.surface = q.surface
      /\ p.context = q.context /\ p.dangling = q.dangling
      /\ p.texture[t] = r /\ \A u \in Texture : u # t => p.texture[u] = q.texture[u]
  BY <1>4, <1>5, SetTexture
<1>7. \A u \in Texture : u # t => p.texture[u] = o.texture[u]
  BY <1>5, <1>6
<1>8. \A u \in Texture : /\ p.texture[u].refs = o.texture[u].refs
                         /\ p.texture[u].surface = o.texture[u].surface
                         /\ p.texture[u].named = o.texture[u].named
                         /\ u # t => p.texture[u].level = o.texture[u].level
  BY <1>6, <1>7
<1>9. \A j \in Image : j # i => p.image[j] = o.image[j]
  BY <1>5, <1>6
<1>10. p.image[i].refs = 0 /\ p.image[i].parent = NONE /\ p.image[i].shared = FALSE
  BY <1>3, <1>5, <1>6
<1>11. o.image[i].shared = FALSE
  <2>1. ~o.image[i].shared
    BY <1>1, <1>2 DEF ImagesCounted
  <2>2. o.image[i].shared \in BOOLEAN
    BY <1>1, <1>2 DEF Store, ImageType
  <2> QED
    BY <2>1, <2>2
<1>12. \A j \in Image : /\ p.image[j].shared = o.image[j].shared
                        /\ p.image[j].parent = IF j = i THEN NONE ELSE o.image[j].parent
                        /\ p.image[j].refs = IF j = i THEN 0 ELSE o.image[j].refs
  BY <1>9, <1>10, <1>11
<1>13. \A u \in Texture : o.texture[u].level \in Image \cup {NONE}
  BY <1>1 DEF Store, TextureType
<1>14. \A u \in Texture : Own(p, u) <=> Own(o, u) /\ u # t
  <2> SUFFICES ASSUME NEW u \in Texture PROVE Own(p, u) <=> Own(o, u) /\ u # t
    OBVIOUS
  <2>1. CASE u = t
    BY <2>1, <1>6 DEF Own
  <2>2. CASE u # t
    <3>1. u # NONE /\ p.texture[u].level = o.texture[u].level
      BY <2>2, <1>8
    <3>2. CASE o.texture[u].level = NONE
      BY <3>1, <3>2 DEF Own
    <3>3. CASE o.texture[u].level \in Image
      BY <2>2, <3>1, <3>3, <1>2, <1>12 DEF Own
    <3> QED
      BY <3>2, <3>3, <1>13
  <2> QED
    BY <2>1, <2>2
<1>15. \A j \in Image : o.image[j].parent = t => j = i
  BY <1>1, <1>2 DEF ImagesCounted
<1>16. ImagesCounted(p, n)
  <2> DEFINE Good(j) == /\ p.image[j].parent = NONE => p.image[j].refs = n[j]
                        /\ p.image[j].parent # NONE => p.image[j].refs = 1
                              /\ p.texture[p.image[j].parent].level = j
                        /\ p.image[j].shared => n[j] >= 1
  <2> SUFFICES ASSUME NEW j \in Image
               PROVE  Good(j)
    BY Zenon DEF ImagesCounted
  <2>1. o.image[j].parent \in Texture \cup {NONE}
    BY <1>1 DEF Store, ImageType
  <2>2. CASE j = i
    BY <2>2, <1>10
  <2>3. CASE j # i
    <3>1. /\ o.image[j].parent = NONE => o.image[j].refs = n[j]
          /\ o.image[j].parent # NONE => o.image[j].refs = 1
                /\ o.texture[o.image[j].parent].level = j
          /\ o.image[j].shared => n[j] >= 1
      BY <1>1 DEF ImagesCounted
    <3>2. p.image[j] = o.image[j]
      BY <2>3, <1>9
    <3>3. o.image[j].parent # NONE =>
             p.texture[o.image[j].parent].level = o.texture[o.image[j].parent].level
      BY <2>1, <2>3, <1>7, <1>15
    <3> QED
      BY <3>1, <3>2, <3>3
  <2> HIDE DEF Good
  <2> QED
    BY <2>2, <2>3
<1>17. TexturesCounted(p, n, m)
  <2> SUFFICES ASSUME NEW u \in Texture
               PROVE  /\ p.texture[u].refs = m[u] + (IF Own(p, u) THEN n[p.texture[u].level] ELSE 0)
                      /\ p.texture[u].refs = 0 => p.texture[u].level = NONE
                                                  /\ p.texture[u].surface = NONE
                      /\ p.texture[u].named => m[u] >= 1
    BY DEF TexturesCounted
  <2>1. CASE u = t
    <3>1. o.texture[t].refs = m[t] + n[i] /\ m[t] \in Nat
          /\ (o.texture[t].named => m[t] >= 1)
      BY <1>1 DEF TexturesCounted
    <3> QED
      BY <2>1, <3>1, <1>8, <1>14
  <2>2. CASE u # t
    BY <2>2, <1>1, <1>8, <1>14 DEF TexturesCounted
  <2> QED
    BY <2>1, <2>2
<1>18. Linked(p)
  <2>1. p.surface = o.surface /\ \A u \in Texture : p.texture[u].surface = o.texture[u].surface
    BY <1>5, <1>6, <1>8
  <2> QED
    BY <1>1, <2>1 DEF Linked
<1>19. Lev(p) = Lev(o)
  <2>1. \A u \in Texture : (IF Own(p, u) THEN NONE ELSE p.texture[u].level)
                             = (IF Own(o, u) THEN NONE ELSE o.texture[u].level)
    BY <1>6, <1>8, <1>14
  <2> QED
    BY <2>1 DEF Lev
<1>20. Frame(o, p)
  <2>1. p.surface = o.surface /\ p.context = o.context
    BY <1>5, <1>6
  <2>2. ASSUME NEW u \in Texture
        PROVE  /\ p.texture[u].named = o.texture[u].named
               /\ p.texture[u].surface \in {NONE, o.texture[u].surface}
               /\ p.texture[u].level \in {NONE, o.texture[u].level}
    BY <1>6, <1>8
  <2>3. ASSUME NEW j \in Image
        PROVE  /\ p.image[j].shared = o.image[j].shared
               /\ p.image[j].parent \in {NONE, o.image[j].parent}
    BY <1>12
  <2> QED
    BY <2>1, <2>2, <2>3, Zenon DEF Frame
<1> QED
  BY <1>1, <1>5, <1>6, <1>7, <1>16, <1>17, <1>18, <1>19, <1>20 DEF Counted

\* A texture whose image is unbound is deleted with the last reference to it.
LEMMA GoneCounted ==
    ASSUME NEW o, NEW n, NEW m, Counted(o, n, m),
           NEW t \in Texture, o.texture[t].level = NONE, o.texture[t].refs = 1,
           ~o.texture[t].named,
           NEW p, p = Gone(o, t)
    PROVE  /\ Counted(p, n, Minus(m, t)) /\ Lev(p) = Lev(o) /\ Frame(o, p)
           /\ p.image = o.image
           /\ p.texture[t] = NoTexture
           /\ \A u \in Texture : u # t => p.texture[u] = o.texture[u]
<1>1. o \in Store /\ n \in [Image -> Nat] /\ m \in [Texture -> Nat] /\ o.dangling = FALSE
      /\ ImagesCounted(o, n) /\ TexturesCounted(o, n, m) /\ Linked(o)
  BY DEF Counted
<1>2. NoTexture \in TextureType /\ NoTexture.refs = 0 /\ NoTexture.level = NONE
      /\ NoTexture.surface = NONE /\ NoTexture.named = FALSE
  BY DEF NoTexture, TextureType
<1>3. PICK q : q = WithTexture(o, t, NoTexture)
  OBVIOUS
<1>4. /\ q \in Store /\ q.image = o.image /\ q.surface = o.surface
      /\ q.context = o.context /\ q.dangling = o.dangling
      /\ q.texture[t] = NoTexture /\ \A u \in Texture : u # t => q.texture[u] = o.texture[u]
  BY <1>1, <1>2, <1>3, SetTexture
<1>5. o.texture[t].surface \in Surface \cup {NONE}
  BY <1>1 DEF Store, TextureType
<1>6. \A s \in Surface : o.surface[s] \in SurfaceType
  BY <1>1 DEF Store
<1>7. /\ p \in Store /\ p.image = o.image /\ p.texture = q.texture
      /\ p.context = o.context /\ p.dangling = FALSE
      /\ \A s \in Surface :
            /\ p.surface[s].refs = o.surface[s].refs /\ p.surface[s].back = o.surface[s].back
            /\ p.surface[s].inSet = o.surface[s].inSet
            /\ p.surface[s].texture = IF s = o.texture[t].surface THEN NONE
                                      ELSE o.surface[s].texture
  <2>1. CASE o.texture[t].surface = NONE
    <3>1. p = q
      BY <2>1, <1>3 DEF Gone, WithTexture
    <3>2. \A s \in Surface : s # NONE
      OBVIOUS
    <3> QED
      BY <2>1, <3>1, <3>2, <1>1, <1>4
  <2>2. CASE o.texture[t].surface # NONE
    <3>1. PICK s \in Surface : s = o.texture[t].surface
      BY <2>2, <1>5
    <3>2. o.surface[s].texture = t /\ o.surface[s].refs > 0
      <4>1. t # NONE
        OBVIOUS
      <4> QED
        BY <1>1, <3>1, <4>1 DEF Linked
    <3>3. PICK r : r = [q.surface[s] EXCEPT !.texture = NONE]
      OBVIOUS
    <3>4. r \in SurfaceType /\ r.refs = o.surface[s].refs /\ r.back = o.surface[s].back
          /\ r.texture = NONE /\ r.inSet = o.surface[s].inSet
      BY <1>4, <1>6, <3>3 DEF SurfaceType
    <3>5. p = WithSurface(q, s, r)
      <4>1. o.surface[s].refs # 0
        BY <3>2, <1>6 DEF SurfaceType
      <4>2. Gone(o, t) = [[o EXCEPT !.texture[t] = NoTexture] EXCEPT !.surface[s].texture = NONE]
        BY <2>2, <3>1, <4>1 DEF Gone
      <4>3. Gone(o, t) = [q EXCEPT !.surface[s].texture = NONE]
        BY <4>2, <1>3 DEF WithTexture
      <4> QED
        BY <4>3, <3>3 DEF WithSurface
    <3>6. /\ p \in Store /\ p.image = q.image /\ p.texture = q.texture
          /\ p.context = q.context /\ p.dangling = q.dangling
          /\ p.surface[s] = r /\ \A u \in Surface : u # s => p.surface[u] = q.surface[u]
      BY <1>4, <3>4, <3>5, SetSurface
    <3> QED
      BY <1>1, <1>4, <3>1, <3>4, <3>6
  <2> QED
    BY <2>1, <2>2
<1>8. PICK b : b = Minus(m, t)
  OBVIOUS
<1>9. ~Own(o, t) /\ m[t] = 1
  <2>1. ~Own(o, t)
    BY DEF Own
  <2> QED
    BY <1>1, <2>1 DEF TexturesCounted
<1>10. b \in [Texture -> Nat] /\ b[t] = 0 /\ \A u \in Texture : u # t => b[u] = m[u]
  <2>1. m[t] >= 1 /\ m[t] - 1 = 0
    BY <1>9
  <2>2. m \in [Texture -> Nat]
    BY <1>1
  <2>3. Minus(m, t) \in [Texture -> Nat]
    BY <2>1, <2>2, PlusMinus
  <2>4. Minus(m, t)[t] = m[t] - 1 /\ \A u \in Texture : u # t => Minus(m, t)[u] = m[u]
    BY <2>2, PlusMinus
  <2> QED
    BY <1>8, <2>1, <2>3, <2>4
<1>11. \A i \in Image : o.image[i].parent \in (Texture \cup {NONE}) \ {t}
  <2>1. \A i \in Image : o.image[i].parent \in Texture \cup {NONE} /\ i # NONE
    BY <1>1 DEF Store, ImageType
  <2>2. t # NONE
    OBVIOUS
  <2> QED
    BY <1>1, <2>1, <2>2 DEF ImagesCounted
<1>12. \A u \in Texture : Own(p, u) <=> Own(o, u)
  <2> SUFFICES ASSUME NEW u \in Texture PROVE Own(p, u) <=> Own(o, u)
    OBVIOUS
  <2>1. CASE u = t
    BY <2>1, <1>2, <1>4, <1>7, <1>9 DEF Own
  <2>2. CASE u # t
    BY <2>2, <1>4, <1>7 DEF Own
  <2> QED
    BY <2>1, <2>2
<1>13. \A u \in Texture : u # t => p.texture[u] = o.texture[u]
  BY <1>4, <1>7
<1>14. p.texture[t] = NoTexture
  BY <1>4, <1>7
<1>15. ImagesCounted(p, n)
  BY <1>1, <1>7, <1>11, <1>13 DEF ImagesCounted
<1>16. TexturesCounted(p, n, b)
  <2> SUFFICES ASSUME NEW u \in Texture
               PROVE  /\ p.texture[u].refs = b[u] + (IF Own(p, u) THEN n[p.texture[u].level] ELSE 0)
                      /\ p.texture[u].refs = 0 => p.texture[u].level = NONE
                                                  /\ p.texture[u].surface = NONE
                      /\ p.texture[u].named => b[u] >= 1
    BY DEF TexturesCounted
  <2>1. CASE u = t
    BY <2>1, <1>2, <1>9, <1>10, <1>12, <1>14
  <2>2. CASE u # t
    BY <2>2, <1>1, <1>10, <1>12, <1>13 DEF TexturesCounted
  <2> QED
    BY <2>1, <2>2
<1>17. Linked(p)
  <2> SUFFICES ASSUME NEW s \in Surface
               PROVE  /\ \A u \in Texture : p.texture[u].surface = s <=> p.surface[s].texture = u
                      /\ p.surface[s].texture # NONE => p.surface[s].refs > 0
    BY DEF Linked
  <2>1. s # NONE /\ \A u \in Texture : u # NONE
    OBVIOUS
  <2>2. /\ \A u \in Texture : o.texture[u].surface = s <=> o.surface[s].texture = u
        /\ o.surface[s].texture # NONE => o.surface[s].refs > 0
    BY <1>1 DEF Linked
  <2>3. \A u \in Texture : p.texture[u].surface = IF u = t THEN NONE ELSE o.texture[u].surface
    BY <1>2, <1>13, <1>14
  <2>4. /\ p.surface[s].refs = o.surface[s].refs
        /\ p.surface[s].texture = IF s = o.texture[t].surface THEN NONE ELSE o.surface[s].texture
    BY <1>7
  <2>5. CASE s = o.texture[t].surface
    BY <2>1, <2>2, <2>3, <2>4, <2>5
  <2>6. CASE s # o.texture[t].surface
    BY <2>1, <2>2, <2>3, <2>4, <2>6
  <2> QED
    BY <2>5, <2>6
<1>18. Lev(p) = Lev(o)
  <2>1. \A u \in Texture : p.texture[u].level = o.texture[u].level
    BY <1>2, <1>13, <1>14
  <2> QED
    BY <2>1, <1>12 DEF Lev
<1>19. Frame(o, p)
  <2>1. \A u \in Texture : /\ p.texture[u].named = o.texture[u].named
                           /\ p.texture[u].surface \in {NONE, o.texture[u].surface}
                           /\ p.texture[u].level \in {NONE, o.texture[u].level}
    <3>1. o.texture[t].named \in BOOLEAN
      BY <1>1 DEF Store, TextureType
    <3>2. o.texture[t].named = FALSE
      BY <3>1
    <3> QED
      BY <1>2, <1>13, <1>14, <3>2
  <2> QED
    BY <1>7, <2>1 DEF Frame
<1>20. Counted(p, n, b)
  BY <1>1, <1>7, <1>10, <1>15, <1>16, <1>17 DEF Counted
<1> QED
  BY <1>7, <1>8, <1>13, <1>14, <1>18, <1>19, <1>20

LEMMA GoneSame ==
    ASSUME NEW o \in Store, NEW t \in Texture, NEW r \in TextureType,
           r.surface = o.texture[t].surface
    PROVE  Gone(WithTexture(o, t, r), t) = Gone(o, t)
<1>1. PICK q : q = WithTexture(o, t, r)
  OBVIOUS
<1>2. q \in Store /\ q.surface = o.surface /\ q.texture[t].surface = o.texture[t].surface
  BY <1>1, SetTexture
<1>3. [q EXCEPT !.texture[t] = NoTexture] = [o EXCEPT !.texture[t] = NoTexture]
  <2>1. PICK f, g : f = [q.texture EXCEPT ![t] = NoTexture]
                    /\ g = [o.texture EXCEPT ![t] = NoTexture]
    OBVIOUS
  <2>2. f = g
    <3>1. q.texture = [o.texture EXCEPT ![t] = r]
      BY <1>1 DEF WithTexture, Store
    <3>2. o.texture \in [Texture -> TextureType]
      BY DEF Store
    <3> QED
      BY <2>1, <3>1, <3>2
  <2>3. q = [o EXCEPT !.texture = q.texture]
    BY <1>1 DEF WithTexture, Store
  <2> QED
    BY <2>1, <2>2, <2>3 DEF Store
<1> QED
  BY <1>1, <1>2, <1>3 DEF Gone, Dangles

LEMMA DroppedCounted ==
    ASSUME NEW o, NEW n, NEW m, Counted(o, n, m),
           NEW i \in Image, o.image[i].parent = NONE,
           n[i] >= 1, o.image[i].shared => n[i] >= 2,
           NEW p, p = Dropped(o, i)
    PROVE  /\ Counted(p, Minus(n, i), m) /\ Lev(p) = Lev(o) /\ Frame(o, p)
           /\ p.surface = o.surface /\ p.texture = o.texture
<1>1. o \in Store /\ n \in [Image -> Nat] /\ m \in [Texture -> Nat] /\ o.dangling = FALSE
      /\ ImagesCounted(o, n) /\ TexturesCounted(o, n, m) /\ Linked(o)
  BY DEF Counted
<1>2. o.image[i] \in ImageType /\ o.image[i].refs = n[i] /\ n[i] \in Nat
  BY <1>1 DEF Store, ImagesCounted
<1>3. PICK k \in Nat : k = n[i] - 1
  BY <1>2
<1>4. PICK r \in ImageType : /\ r.refs = k /\ r.parent = NONE /\ r.shared = o.image[i].shared
                             /\ p = WithImage(o, i, r)
  <2>1. CASE n[i] = 1
    <3>1. ~o.image[i].shared /\ o.image[i].shared \in BOOLEAN
      BY <2>1, <1>2 DEF ImageType
    <3>2. NoImage \in ImageType /\ NoImage.refs = 0 /\ NoImage.parent = NONE
          /\ NoImage.shared = FALSE
      BY DEF NoImage, ImageType
    <3>3. p = WithImage(o, i, NoImage)
      BY <2>1, <1>2, <3>1 DEF Dropped, WithImage
    <3>4. o.image[i].shared = FALSE
      BY <3>1
    <3>5. NoImage.refs = k
      BY <2>1, <1>3, <3>2
    <3>6. NoImage.shared = o.image[i].shared
      BY <3>2, <3>4
    <3> QED
      BY <3>2, <3>3, <3>5, <3>6
  <2>2. CASE n[i] # 1
    <3>1. PICK r : r = [o.image[i] EXCEPT !.refs = @ - 1]
      OBVIOUS
    <3>2. r \in ImageType /\ r.refs = k /\ r.parent = NONE /\ r.shared = o.image[i].shared
      BY <1>2, <1>3, <3>1 DEF ImageType
    <3>3. p = WithImage(o, i, r)
      BY <2>2, <1>2, <3>1 DEF Dropped, WithImage
    <3> QED
      BY <3>2, <3>3
  <2> QED
    BY <2>1, <2>2
<1>5. o.image[i].shared => k >= 1
  BY <1>2, <1>3
<1>6. /\ Counted(p, [n EXCEPT ![i] = k], m)
      /\ Lev(p) = Lev(o) /\ Frame(o, p)
      /\ p.surface = o.surface /\ p.texture = o.texture
  BY <1>4, <1>5, ImageRefsCounted
<1>7. [n EXCEPT ![i] = k] = Minus(n, i)
  BY <1>3 DEF Minus
<1> QED
  BY <1>6, <1>7

\* An image that lost its parent with the last reference is deleted.
LEMMA OrphanDropped ==
    ASSUME NEW o \in Store, NEW i \in Image, o.image[i].refs = 1, ~o.image[i].shared,
           NEW x, x = [o EXCEPT !.image[i].parent = NONE]
    PROVE  Dropped(x, i) = WithImage(o, i, NoImage)
<1>1. o.image \in [Image -> ImageType] /\ o.image[i] \in ImageType
  BY DEF Store
<1>2. x.image[i].refs = 1 /\ ~x.image[i].shared
  BY <1>1 DEF Store, ImageType
<1>3. Dropped(x, i) = [x EXCEPT !.image[i] = NoImage]
  BY <1>2 DEF Dropped
<1>4. PICK f, g : f = [o.image EXCEPT ![i].parent = NONE]
                  /\ g = [f EXCEPT ![i] = NoImage]
  OBVIOUS
<1>5. g = [o.image EXCEPT ![i] = NoImage]
  BY <1>1, <1>4
<1>6. x = [o EXCEPT !.image = f] /\ x.image = f
  BY <1>4 DEF Store
<1>7. [x EXCEPT !.image[i] = NoImage] = [o EXCEPT !.image = g]
  BY <1>4, <1>6 DEF Store
<1> QED
  BY <1>3, <1>5, <1>7 DEF WithImage

LEMMA ParentReleasedCounted ==
    ASSUME NEW o, NEW n, NEW m, Counted(o, n, m),
           NEW i \in Image, o.image[i].parent # NONE,
           n[i] >= 1, o.image[i].shared => n[i] >= 2,
           NEW p, p = ParentReleased(o, i)
    PROVE  Counted(p, Minus(n, i), m) /\ Lev(p) = Lev(o) /\ Frame(o, p)
<1>1. o \in Store /\ n \in [Image -> Nat] /\ m \in [Texture -> Nat] /\ o.dangling = FALSE
      /\ ImagesCounted(o, n) /\ TexturesCounted(o, n, m) /\ Linked(o)
  BY DEF Counted
<1>2. o.image[i] \in ImageType /\ n[i] \in Nat
  BY <1>1 DEF Store
<1>3. PICK t \in Texture : t = o.image[i].parent
  BY <1>2 DEF ImageType
<1>4. i = o.texture[t].level /\ Own(o, t) /\ o.image[i].refs = 1
  BY <1>1, <1>3 DEF ImagesCounted, Own
<1>5. o.texture[t] \in TextureType /\ o.texture[t].refs \in Nat /\ m[t] \in Nat
      /\ o.texture[t].refs = m[t] + n[i]
      /\ (o.texture[t].named => m[t] >= 1)
  BY <1>1, <1>4 DEF Store, TextureType, TexturesCounted
<1>6. PICK a, b : a = Minus(n, i) /\ b = Plus(m, t)
  OBVIOUS
<1>7. /\ Counted(o, a, b) /\ a[i] = n[i] - 1 /\ b[t] = m[t] + 1
      /\ Minus(b, t) = m
  <2>1. Counted(o, a, b)
    BY <1>4, <1>6, Shifted
  <2> QED
    BY <1>1, <1>6, <2>1, PlusMinus
<1>8. CASE o.texture[t].refs > 1
  <2>1. PICK r : r = [o.texture[t] EXCEPT !.refs = @ - 1]
    OBVIOUS
  <2>2. PICK k \in Nat : k = o.texture[t].refs - 1
    BY <1>5, <1>8
  <2>3. r \in TextureType /\ r.refs = k /\ r.level = o.texture[t].level
        /\ r.surface = o.texture[t].surface /\ r.named = o.texture[t].named
    BY <1>5, <2>1, <2>2 DEF TextureType
  <2>4. p = WithTexture(o, t, r)
    <3>1. ParentReleased(o, i) = [o EXCEPT !.texture[t].refs = @ - 1]
      BY <1>3, <1>8 DEF ParentReleased
    <3> QED
      BY <2>1, <3>1 DEF WithTexture
  <2>5. PICK h \in Nat : h = m[t]
    BY <1>5
  <2>6. k > 0 /\ h - b[t] = k - o.texture[t].refs /\ o.texture[t].refs > 0
        /\ (o.texture[t].named => h >= 1)
    BY <1>5, <1>7, <1>8, <2>2, <2>5
  <2>7. Counted(p, a, [b EXCEPT ![t] = h]) /\ Lev(p) = Lev(o) /\ Frame(o, p)
    BY <1>7, <2>3, <2>4, <2>6, TextureRefsCounted
  <2>8. [b EXCEPT ![t] = h] = m
    <3>1. Minus(b, t) = [b EXCEPT ![t] = b[t] - 1]
      BY DEF Minus
    <3>2. b[t] - 1 = h
      BY <1>5, <1>7, <2>5
    <3> QED
      BY <1>7, <3>1, <3>2
  <2> QED
    BY <1>6, <2>7, <2>8
<1>9. CASE ~(o.texture[t].refs > 1)
  <2>1. o.texture[t].refs = 1 /\ n[i] = 1 /\ m[t] = 0 /\ a[i] = 0
    BY <1>2, <1>5, <1>7, <1>9
  <2>2. o.image[i].shared = FALSE /\ o.texture[t].named = FALSE
    BY <1>2, <1>5, <2>1 DEF ImageType, TextureType
  <2>3. PICK q : q = WithImage(o, i, NoImage)
    OBVIOUS
  <2>4. PICK r : r = [o.texture[t] EXCEPT !.level = NONE]
    OBVIOUS
  <2>5. r \in TextureType /\ r.refs = 1 /\ r.level = NONE
        /\ r.surface = o.texture[t].surface /\ r.named = o.texture[t].named
    BY <1>5, <2>1, <2>4 DEF TextureType
  <2>6. PICK u : u = WithTexture(q, t, r)
    OBVIOUS
  <2>7. /\ Counted(u, a, b) /\ Lev(u) = Lev(o) /\ Frame(o, u)
        /\ u.texture[t] = r
    BY <1>4, <1>7, <2>1, <2>3, <2>5, <2>6, OwnDropped
  <2>8. p = Gone(q, t)
    <3>1. PICK x : x = [o EXCEPT !.image[i].parent = NONE]
      OBVIOUS
    <3>2. p = Gone(Dropped(x, i), t)
      <4>1. ~(o.texture[t].refs = 0 \/ o.texture[t].level # i)
        BY <1>4, <2>1
      <4> QED
        BY <1>3, <1>9, <3>1, <4>1 DEF ParentReleased
    <3>3. Dropped(x, i) = q
      BY <1>1, <1>4, <2>2, <2>3, <3>1, OrphanDropped
    <3> QED
      BY <3>2, <3>3
  <2>9. Gone(u, t) = p
    <3>1. NoImage \in ImageType
      BY DEF NoImage, ImageType
    <3>2. q \in Store /\ q.texture = o.texture
      BY <1>1, <2>3, <3>1, SetImage
    <3> QED
      BY <2>5, <2>6, <2>8, <3>2, GoneSame
  <2>10. Counted(p, a, Minus(b, t)) /\ Lev(p) = Lev(u) /\ Frame(u, p)
    <3>1. u.texture[t].level = NONE /\ u.texture[t].refs = 1 /\ ~u.texture[t].named
      BY <2>2, <2>5, <2>7
    <3>2. p = Gone(u, t) /\ Counted(u, a, b)
      BY <2>7, <2>9
    <3>3. PICK g : g = Gone(u, t)
      OBVIOUS
    <3>4. Counted(g, a, Minus(b, t)) /\ Lev(g) = Lev(u) /\ Frame(u, g)
      BY <3>1, <3>2, <3>3, GoneCounted
    <3> QED
      BY <3>2, <3>3, <3>4
  <2> QED
    BY <1>6, <1>7, <2>7, <2>10, FrameTransitive
<1> QED
  BY <1>8, <1>9

LEMMA ReleasedCounted ==
    ASSUME NEW o, NEW n, NEW m, Counted(o, n, m),
           NEW i \in Image \cup {NONE},
           i # NONE => n[i] >= 1 /\ (o.image[i].shared => n[i] >= 2),
           NEW p, p = Released(o, i)
    PROVE  Counted(p, Minus(n, i), m) /\ Lev(p) = Lev(o) /\ Frame(o, p)
<1>1. o \in Store /\ n \in [Image -> Nat] /\ ImagesCounted(o, n)
  BY DEF Counted
<1>2. CASE i = NONE
  <2>1. p = o
    BY <1>2 DEF Released
  <2>2. Minus(n, i) = n
    BY <1>1, <1>2, PlusMinus
  <2> QED
    BY <2>1, <2>2, FrameReflexive
<1>3. CASE i # NONE
  <2>1. i \in Image /\ n[i] \in Nat
    BY <1>1, <1>3
  <2>2. o.image[i].refs # 0
    BY <1>1, <1>3, <2>1 DEF ImagesCounted
  <2>3. CASE o.image[i].parent = NONE
    <3>1. p = Dropped(o, i)
      BY <1>3, <2>2, <2>3 DEF Released
    <3> QED
      BY <1>3, <2>1, <2>3, <3>1, DroppedCounted
  <2>4. CASE o.image[i].parent # NONE
    <3>1. p = ParentReleased(o, i)
      BY <1>3, <2>2, <2>4 DEF Released
    <3> QED
      BY <1>3, <2>1, <2>4, <3>1, ParentReleasedCounted
  <2> QED
    BY <2>3, <2>4
<1> QED
  BY <1>2, <1>3

\* A texture gets a pointer to an image that is not its own.
LEMMA LevelCounted ==
    ASSUME NEW o, NEW n, NEW m, Counted(o, n, m),
           NEW t \in Texture, ~Own(o, t),
           NEW i \in Image \cup {NONE},
           i # NONE => o.image[i].parent # t /\ o.texture[t].refs > 0,
           NEW r \in TextureType, r.refs = o.texture[t].refs, r.level = i,
           r.surface = o.texture[t].surface, r.named = o.texture[t].named,
           NEW p, p = WithTexture(o, t, r)
    PROVE  /\ Counted(p, n, m) /\ Lev(p) = Repointed(Lev(o), t, i)
           /\ p.image = o.image /\ p.surface = o.surface /\ p.context = o.context
           /\ p.texture[t] = r /\ \A u \in Texture : u # t => p.texture[u] = o.texture[u]
<1>1. o \in Store /\ n \in [Image -> Nat] /\ m \in [Texture -> Nat] /\ o.dangling = FALSE
      /\ ImagesCounted(o, n) /\ TexturesCounted(o, n, m) /\ Linked(o)
  BY DEF Counted
<1>2. /\ p \in Store /\ p.image = o.image /\ p.surface = o.surface
      /\ p.context = o.context /\ p.dangling = o.dangling
      /\ p.texture[t] = r /\ \A u \in Texture : u # t => p.texture[u] = o.texture[u]
  BY <1>1, SetTexture
<1>3. \A u \in Texture : u # NONE
  OBVIOUS
<1>4. \A u \in Texture : Own(p, u) <=> Own(o, u)
  <2> SUFFICES ASSUME NEW u \in Texture PROVE Own(p, u) <=> Own(o, u)
    OBVIOUS
  <2>1. CASE u = t
    BY <2>1, <1>2 DEF Own
  <2>2. CASE u # t
    BY <2>2, <1>2 DEF Own
  <2> QED
    BY <2>1, <2>2
<1>5. \A j \in Image : o.image[j].parent \in (Texture \cup {NONE}) \ {t}
  <2>1. \A j \in Image : o.image[j].parent \in Texture \cup {NONE} /\ j # NONE
    BY <1>1 DEF Store, ImageType
  <2> QED
    BY <1>1, <1>3, <2>1 DEF ImagesCounted, Own
<1>6. ImagesCounted(p, n)
  BY <1>1, <1>2, <1>5 DEF ImagesCounted
<1>7. TexturesCounted(p, n, m)
  <2> SUFFICES ASSUME NEW u \in Texture
               PROVE  /\ p.texture[u].refs = m[u] + (IF Own(p, u) THEN n[p.texture[u].level] ELSE 0)
                      /\ p.texture[u].refs = 0 => p.texture[u].level = NONE
                                                  /\ p.texture[u].surface = NONE
                      /\ p.texture[u].named => m[u] >= 1
    BY DEF TexturesCounted
  <2>1. CASE u = t
    BY <2>1, <1>1, <1>2, <1>4 DEF TexturesCounted
  <2>2. CASE u # t
    BY <2>2, <1>1, <1>2, <1>4 DEF TexturesCounted
  <2> QED
    BY <2>1, <2>2
<1>8. Linked(p)
  <2>1. \A u \in Texture : p.texture[u].surface = o.texture[u].surface
    BY <1>2
  <2> QED
    BY <1>1, <1>2, <2>1 DEF Linked
<1>9. Lev(p) = Repointed(Lev(o), t, i)
  <2>1. \A u \in Texture : (IF Own(p, u) THEN NONE ELSE p.texture[u].level)
                             = IF u = t THEN i ELSE IF Own(o, u) THEN NONE ELSE o.texture[u].level
    BY <1>2, <1>4
  <2> QED
    BY <2>1 DEF Lev, Repointed
<1> QED
  BY <1>1, <1>2, <1>6, <1>7, <1>8, <1>9 DEF Counted

LEMMA UnboundCounted ==
    ASSUME NEW o, NEW n, NEW m, Counted(o, n, m),
           NEW t \in Texture, NEW i, i = o.texture[t].level,
           Own(o, t) => n[i] = 0 /\ o.texture[t].refs > 0,
           ~Own(o, t) /\ i # NONE => n[i] >= 1 /\ (o.image[i].shared => n[i] >= 2),
           NEW p, p = Unbound(o, t)
    PROVE  /\ Counted(p, Minus(n, Lev(o)[t]), m) /\ Lev(p) = Repointed(Lev(o), t, NONE)
           /\ Frame(o, p) /\ p.texture[t].level = NONE
<1>1. o \in Store /\ n \in [Image -> Nat] /\ m \in [Texture -> Nat] /\ o.dangling = FALSE
      /\ ImagesCounted(o, n) /\ TexturesCounted(o, n, m) /\ Linked(o)
  BY DEF Counted
<1>2. o.texture[t] \in TextureType /\ i \in Image \cup {NONE}
  BY <1>1 DEF Store, TextureType
<1>3. PICK f : f = Lev(o)
  OBVIOUS
<1>4. DOMAIN f = Texture /\ f = [u \in Texture |-> f[u]]
      /\ f[t] = IF Own(o, t) THEN NONE ELSE i
  BY <1>3 DEF Lev
<1>5. NONE \notin Image
  OBVIOUS
<1>6. Minus(n, NONE) = n
  BY <1>1, <1>5, PlusMinus
<1>7. CASE i = NONE
  <2>1. p = o
    BY <1>7 DEF Unbound
  <2>2. f[t] = NONE /\ f = Repointed(f, t, NONE)
    BY <1>4, <1>7 DEF Repointed
  <2> QED
    BY <1>3, <1>6, <1>7, <2>1, <2>2, FrameReflexive
<1>8. CASE i # NONE /\ Own(o, t)
  <2>1. i \in Image /\ o.image[i].parent = t /\ o.image[i].refs = 1 /\ ~o.image[i].shared
    <3>1. i \in Image /\ o.image[i].parent = t /\ t # NONE
      BY <1>2, <1>8 DEF Own
    <3> QED
      BY <1>1, <1>8, <3>1 DEF ImagesCounted
  <2>2. PICK x : x = [o EXCEPT !.image[i].parent = NONE]
    OBVIOUS
  <2>3. PICK q : q = WithImage(o, i, NoImage)
    OBVIOUS
  <2>4. Dropped(x, i) = q
    BY <1>1, <2>1, <2>2, <2>3, OrphanDropped
  <2>5. x.image[i].refs = 1 /\ x.image[i].parent = NONE
    <3>1. o.image[i] \in ImageType
      BY <1>1, <2>1 DEF Store
    <3> QED
      BY <1>1, <2>1, <2>2, <3>1 DEF Store, ImageType
  <2>6. Released(x, i) = q
    BY <1>8, <2>4, <2>5 DEF Released
  <2>7. [o EXCEPT !.image[i].parent = IF @ = t THEN NONE ELSE @] = x
    BY <2>1, <2>2
  <2>8. PICK r : r = [o.texture[t] EXCEPT !.level = NONE]
    OBVIOUS
  <2>9. p = [q EXCEPT !.texture[t].level = NONE]
    <3>1. o.image[i].refs # 0
      BY <2>1
    <3> QED
      BY <1>8, <2>6, <2>7, <3>1, Zenon DEF Unbound
  <2>10. NoImage \in ImageType
    BY DEF NoImage, ImageType
  <2>11. q.texture = o.texture
    BY <1>1, <2>1, <2>3, <2>10, SetImage
  <2>12. p = WithTexture(q, t, r)
    BY <2>8, <2>9, <2>11 DEF WithTexture
  <2>13. r \in TextureType /\ r.refs = o.texture[t].refs /\ r.level = NONE
         /\ r.surface = o.texture[t].surface /\ r.named = o.texture[t].named
    BY <1>2, <2>8 DEF TextureType
  <2>14. /\ Counted(p, n, m) /\ Lev(p) = Lev(o) /\ Frame(o, p) /\ p.texture[t] = r
    BY <1>8, <2>3, <2>12, <2>13, OwnDropped
  <2>15. f[t] = NONE /\ f = Repointed(f, t, NONE)
    BY <1>4, <1>8 DEF Repointed
  <2> QED
    BY <1>3, <1>6, <2>13, <2>14, <2>15
<1>9. CASE i # NONE /\ ~Own(o, t)
  <2>1. i \in Image /\ o.image[i].parent # t
    BY <1>2, <1>9 DEF Own
  <2>2. n[i] \in Nat /\ o.image[i].refs # 0
    BY <1>1, <1>9, <2>1 DEF ImagesCounted
  <2>3. PICK q : q = Released(o, i)
    OBVIOUS
  <2>4. Counted(q, Minus(n, i), m) /\ Lev(q) = Lev(o) /\ Frame(o, q)
    BY <1>2, <1>9, <2>3, ReleasedCounted
  <2>5. p = [q EXCEPT !.texture[t].level = NONE]
    <3>1. PICK y : y = [o EXCEPT !.image[i].parent = IF @ = t THEN NONE ELSE @]
      OBVIOUS
    <3>2. y = o
      <4>1. y = [o EXCEPT !.image[i].parent = o.image[i].parent]
        BY <2>1, <3>1
      <4>2. o.image \in [Image -> ImageType] /\ o.image[i] \in ImageType
        BY <1>1, <2>1 DEF Store
      <4>3. [o.image[i] EXCEPT !.parent = o.image[i].parent] = o.image[i]
        BY <4>2 DEF ImageType
      <4>4. [o.image EXCEPT ![i] = o.image[i]] = o.image
        BY <4>2
      <4>5. y = [o EXCEPT !.image = [o.image EXCEPT ![i] = [o.image[i] EXCEPT
                      !.parent = o.image[i].parent]]]
        BY <4>1
      <4>6. y = [o EXCEPT !.image = o.image]
        BY <4>3, <4>4, <4>5
      <4> QED
        BY <1>1, <4>6 DEF Store
    <3> QED
      BY <1>9, <2>2, <2>3, <3>1, <3>2, Zenon DEF Unbound
  <2>6. q \in Store /\ q.texture[t] \in TextureType
    BY <2>4 DEF Counted, Store
  <2>7. PICK r : r = [q.texture[t] EXCEPT !.level = NONE]
    OBVIOUS
  <2>8. r \in TextureType /\ r.refs = q.texture[t].refs /\ r.level = NONE
        /\ r.surface = q.texture[t].surface /\ r.named = q.texture[t].named
    BY <2>6, <2>7 DEF TextureType
  <2>9. p = WithTexture(q, t, r)
    BY <2>5, <2>7 DEF WithTexture
  <2>10. ~Own(q, t)
    <3>1. q.texture[t].level \in {NONE, i} /\ q.image[i].parent \in {NONE, o.image[i].parent}
          /\ t # NONE
      BY <2>1, <2>4 DEF Frame
    <3> QED
      BY <2>1, <3>1 DEF Own
  <2>11. NONE \in Image \cup {NONE}
    OBVIOUS
  <2>12. PICK none \in Image \cup {NONE} : none = NONE
    OBVIOUS
  <2>13. /\ Counted(p, Minus(n, i), m) /\ Lev(p) = Repointed(Lev(q), t, none)
         /\ p.image = q.image /\ p.surface = q.surface /\ p.context = q.context
         /\ p.texture[t] = r /\ \A u \in Texture : u # t => p.texture[u] = q.texture[u]
    BY <2>4, <2>8, <2>9, <2>10, <2>12, LevelCounted
  <2>14. Frame(q, p)
    <3>1. \A u \in Texture : /\ p.texture[u].named = q.texture[u].named
                             /\ p.texture[u].surface = q.texture[u].surface
                             /\ p.texture[u].level \in {NONE, q.texture[u].level}
      BY <2>8, <2>13
    <3> QED
      BY <2>13, <3>1 DEF Frame
  <2>15. Frame(o, p)
    BY <2>4, <2>14, FrameTransitive
  <2> QED
    BY <1>3, <1>4, <1>9, <2>4, <2>8, <2>12, <2>13, <2>15
<1> QED
  BY <1>7, <1>8, <1>9

LEMMA TextureReleasedCounted ==
    ASSUME NEW o, NEW n, NEW m, Counted(o, n, m),
           NEW t \in Texture, NEW i, i = o.texture[t].level,
           m[t] >= 1, o.texture[t].named => m[t] >= 2,
           ~Own(o, t) /\ i # NONE => n[i] >= 1 /\ (o.image[i].shared => n[i] >= 2),
           NEW p, p = TextureReleased(o, t)
    PROVE  /\ Frame(o, p)
           /\ \/ Counted(p, n, Minus(m, t)) /\ Lev(p) = Lev(o)
              \/ /\ Counted(p, Minus(n, Lev(o)[t]), Minus(m, t))
                 /\ Lev(p) = Repointed(Lev(o), t, NONE)
<1>1. o \in Store /\ n \in [Image -> Nat] /\ m \in [Texture -> Nat] /\ o.dangling = FALSE
      /\ ImagesCounted(o, n) /\ TexturesCounted(o, n, m) /\ Linked(o)
  BY DEF Counted
<1>2. o.texture[t] \in TextureType /\ o.texture[t].refs \in Nat /\ m[t] \in Nat /\ t # NONE
  BY <1>1 DEF Store, TextureType
<1>3. /\ Own(o, t) => i \in Image /\ n[i] \in Nat /\ o.texture[t].refs = m[t] + n[i]
      /\ ~Own(o, t) => o.texture[t].refs = m[t]
  <2>1. i \in Image \cup {NONE}
    BY <1>2 DEF TextureType
  <2> QED
    BY <1>1, <1>2, <2>1 DEF TexturesCounted, Own
<1>4. o.texture[t].refs >= 1
  BY <1>2, <1>3
<1>5. CASE o.texture[t].refs = 1
  <2>1. m[t] = 1 /\ (Own(o, t) => n[i] = 0) /\ ~o.texture[t].named
    BY <1>2, <1>3, <1>5
  <2>2. PICK u : u = Unbound(o, t)
    OBVIOUS
  <2>3. PICK a : a = Minus(n, Lev(o)[t])
    OBVIOUS
  <2>4. /\ Counted(u, a, m) /\ Lev(u) = Repointed(Lev(o), t, NONE)
        /\ Frame(o, u) /\ u.texture[t].level = NONE
    <3>1. Own(o, t) => n[i] = 0 /\ o.texture[t].refs > 0
      BY <2>1, <1>5
    <3>2. ~Own(o, t) /\ i # NONE => n[i] >= 1 /\ (o.image[i].shared => n[i] >= 2)
      OBVIOUS
    <3> QED
      BY <3>1, <3>2, <2>2, <2>3, UnboundCounted
  <2>5. p = Gone(u, t)
    BY <1>2, <1>5, <2>2 DEF TextureReleased
  <2>6. u.texture[t].refs = 1
    <3>1. ~Own(u, t)
      BY <2>4 DEF Own
    <3> QED
      BY <2>1, <2>4, <3>1 DEF Counted, TexturesCounted
  <2>7. ~u.texture[t].named
    BY <2>1, <2>4 DEF Frame
  <2>8. Counted(p, a, Minus(m, t)) /\ Lev(p) = Lev(u) /\ Frame(u, p)
    BY <2>4, <2>5, <2>6, <2>7, GoneCounted
  <2> QED
    BY <2>3, <2>4, <2>8, FrameTransitive
<1>6. CASE o.texture[t].refs # 1
  <2>1. PICK r : r = [o.texture[t] EXCEPT !.refs = @ - 1]
    OBVIOUS
  <2>2. PICK k \in Nat : k = o.texture[t].refs - 1
    BY <1>2, <1>4
  <2>3. r \in TextureType /\ r.refs = k /\ r.level = o.texture[t].level
        /\ r.surface = o.texture[t].surface /\ r.named = o.texture[t].named
    BY <1>2, <2>1, <2>2 DEF TextureType
  <2>4. p = WithTexture(o, t, r)
    <3>1. p = [o EXCEPT !.texture[t].refs = @ - 1]
      BY <1>2, <1>4, <1>6 DEF TextureReleased
    <3> QED
      BY <2>1, <3>1 DEF WithTexture
  <2>5. PICK h \in Nat : h = m[t] - 1
    BY <1>2
  <2>6. k > 0 /\ h - m[t] = k - o.texture[t].refs /\ o.texture[t].refs > 0
        /\ (o.texture[t].named => h >= 1)
    BY <1>2, <1>4, <1>6, <2>2, <2>5
  <2>7. Counted(p, n, [m EXCEPT ![t] = h]) /\ Lev(p) = Lev(o) /\ Frame(o, p)
    BY <2>3, <2>4, <2>6, TextureRefsCounted
  <2>8. [m EXCEPT ![t] = h] = Minus(m, t)
    BY <2>5 DEF Minus
  <2> QED
    BY <2>7, <2>8
<1> QED
  BY <1>5, <1>6

-----------------------------------------------------------------------------
(* How many pointers there are to an image                                  *)

LEMMA PointingChanged ==
    ASSUME NEW D, IsFiniteSet(D), NEW a \in D, NEW w, NEW i,
           NEW f, NEW g, g[a] = w, \A x \in D : x # a => g[x] = f[x]
    PROVE  \E k \in Nat : /\ Pointing(D, f, i) = k + (IF f[a] = i THEN 1 ELSE 0)
                          /\ Pointing(D, g, i) = k + (IF w = i THEN 1 ELSE 0)
<1> DEFINE Rest == {x \in D \ {a} : f[x] = i}
<1>1. IsFiniteSet(Rest) /\ Cardinality(Rest) \in Nat
  BY FS_Subset, FS_CardinalityType
<1>2. Cardinality(Rest \cup {a}) = Cardinality(Rest) + 1
  BY <1>1, FS_AddElement
<1>3. {x \in D : f[x] = i} = IF f[a] = i THEN Rest \cup {a} ELSE Rest
  OBVIOUS
<1>4. {x \in D : g[x] = i} = IF w = i THEN Rest \cup {a} ELSE Rest
  OBVIOUS
<1> HIDE DEF Rest
<1>5. Pointing(D, f, i) = Cardinality(Rest) + (IF f[a] = i THEN 1 ELSE 0)
  <2>1. Pointing(D, f, i) = Cardinality(IF f[a] = i THEN Rest \cup {a} ELSE Rest)
    BY <1>3 DEF Pointing
  <2>2. CASE f[a] = i
    BY <2>1, <2>2, <1>2
  <2>3. CASE f[a] # i
    BY <2>1, <2>3, <1>1
  <2> QED
    BY <2>2, <2>3
<1>6. Pointing(D, g, i) = Cardinality(Rest) + (IF w = i THEN 1 ELSE 0)
  <2>1. Pointing(D, g, i) = Cardinality(IF w = i THEN Rest \cup {a} ELSE Rest)
    BY <1>4 DEF Pointing
  <2>2. CASE w = i
    BY <2>1, <2>2, <1>2
  <2>3. CASE w # i
    BY <2>1, <2>3, <1>1
  <2> QED
    BY <2>2, <2>3
<1> QED
  BY <1>1, <1>5, <1>6

LEMMA PointingType ==
    ASSUME NEW D, IsFiniteSet(D), NEW f, NEW i
    PROVE  /\ Pointing(D, f, i) \in Nat
           /\ Pointing(D, f, i) = 0 <=> \A x \in D : f[x] # i
<1>1. IsFiniteSet({x \in D : f[x] = i})
  BY FS_Subset
<1>2. PICK S : S = {x \in D : f[x] = i}
  OBVIOUS
<1>3. Cardinality(S) \in Nat /\ (Cardinality(S) = 0 <=> S = {})
  BY <1>1, <1>2, FS_CardinalityType, FS_EmptySet
<1> QED
  BY <1>2, <1>3 DEF Pointing

LEMMA Finite ==
    IsFiniteSet(Texture) /\ IsFiniteSet(Surface) /\ IsFiniteSet(Context) /\ IsFiniteSet(Thread)
  BY DEF CountAssumption

-----------------------------------------------------------------------------
(* References counted with the textures that have a pointer to the image    *)

LEMMA LevFunction ==
    ASSUME NEW o
    PROVE  /\ Lev(o) = [t \in Texture |-> Lev(o)[t]]
           /\ \A t \in Texture : Lev(o)[t] = IF Own(o, t) THEN NONE ELSE o.texture[t].level
  BY DEF Lev

LEMMA TotalType ==
    ASSUME NEW o, NEW e \in [Image -> Nat]
    PROVE  /\ Total(o, e) \in [Image -> Nat]
           /\ \A i \in Image : Total(o, e)[i] = Pointing(Texture, Lev(o), i) + e[i]
<1>1. \A i \in Image : Pointing(Texture, Lev(o), i) \in Nat /\ e[i] \in Nat
  BY Finite, PointingType
<1> QED
  BY <1>1 DEF Total

LEMMA TotalSame ==
    ASSUME NEW o, NEW p, NEW e, Lev(p) = Lev(o)
    PROVE  Total(p, e) = Total(o, e)
  BY DEF Total

LEMMA TotalPlus ==
    ASSUME NEW o, NEW e \in [Image -> Nat], NEW i
    PROVE  Total(o, Plus(e, i)) = Plus(Total(o, e), i)
<1>1. PICK n : n = Total(o, e)
  OBVIOUS
<1>2. PICK h : h = Plus(e, i)
  OBVIOUS
<1>3. PICK g : g = Plus(n, i)
  OBVIOUS
<1>4. n \in [Image -> Nat] /\ \A j \in Image : n[j] = Pointing(Texture, Lev(o), j) + e[j]
  BY <1>1, TotalType
<1>5. h \in [Image -> Nat] /\ \A j \in Image : h[j] = IF j = i THEN e[j] + 1 ELSE e[j]
  BY <1>2, PlusMinus
<1>6. g \in [Image -> Nat] /\ \A j \in Image : g[j] = IF j = i THEN n[j] + 1 ELSE n[j]
  BY <1>3, <1>4, PlusMinus
<1>7. \A j \in Image : Pointing(Texture, Lev(o), j) \in Nat /\ e[j] \in Nat
  BY Finite, PointingType
<1>8. \A j \in Image : g[j] = Pointing(Texture, Lev(o), j) + h[j]
  BY <1>4, <1>5, <1>6, <1>7
<1>9. g = [j \in Image |-> Pointing(Texture, Lev(o), j) + h[j]]
  BY <1>6, <1>8
<1> QED
  BY <1>1, <1>2, <1>3, <1>9 DEF Total

LEMMA TotalMinus ==
    ASSUME NEW o, NEW e \in [Image -> Nat], NEW i, i \in Image => e[i] >= 1
    PROVE  /\ Total(o, Minus(e, i)) = Minus(Total(o, e), i)
           /\ Minus(e, i) \in [Image -> Nat]
<1>1. PICK n : n = Total(o, e)
  OBVIOUS
<1>2. PICK h : h = Minus(e, i)
  OBVIOUS
<1>3. PICK g : g = Minus(n, i)
  OBVIOUS
<1>4. n \in [Image -> Nat] /\ \A j \in Image : n[j] = Pointing(Texture, Lev(o), j) + e[j]
  BY <1>1, TotalType
<1>5. \A j \in Image : Pointing(Texture, Lev(o), j) \in Nat /\ e[j] \in Nat
  BY Finite, PointingType
<1>6. h \in [Image -> Nat] /\ \A j \in Image : h[j] = IF j = i THEN e[j] - 1 ELSE e[j]
  BY <1>2, PlusMinus
<1>7. g \in [Image -> Nat] /\ \A j \in Image : g[j] = IF j = i THEN n[j] - 1 ELSE n[j]
  <2>1. i \in Image => n[i] >= 1
    BY <1>4, <1>5
  <2> QED
    BY <1>3, <1>4, <2>1, PlusMinus
<1>8. \A j \in Image : g[j] = Pointing(Texture, Lev(o), j) + h[j]
  BY <1>4, <1>6, <1>7, <1>5
<1>9. g = [j \in Image |-> Pointing(Texture, Lev(o), j) + h[j]]
  BY <1>7, <1>8
<1> QED
  BY <1>1, <1>2, <1>3, <1>6, <1>9 DEF Total

\* A texture has a pointer to another image, or to none.
LEMMA TotalChanged ==
    ASSUME NEW o, NEW p, NEW e \in [Image -> Nat], NEW t \in Texture,
           NEW i \in Image \cup {NONE}, Lev(p) = Repointed(Lev(o), t, i)
    PROVE  \A j \in Image :
              Total(p, e)[j] = Total(o, e)[j] + (IF i = j THEN 1 ELSE 0)
                                              - (IF Lev(o)[t] = j THEN 1 ELSE 0)
<1> SUFFICES ASSUME NEW j \in Image
             PROVE  Total(p, e)[j] = Total(o, e)[j] + (IF i = j THEN 1 ELSE 0)
                                              - (IF Lev(o)[t] = j THEN 1 ELSE 0)
  OBVIOUS
<1>1. PICK k \in Nat :
         /\ Pointing(Texture, Lev(o), j) = k + (IF Lev(o)[t] = j THEN 1 ELSE 0)
         /\ Pointing(Texture, Lev(p), j) = k + (IF i = j THEN 1 ELSE 0)
  <2>1. PICK f, g : f = Lev(o) /\ g = Lev(p)
    OBVIOUS
  <2>2. g[t] = i /\ \A x \in Texture : x # t => g[x] = f[x]
    BY <2>1, LevFunction DEF Repointed
  <2>3. \E k \in Nat : /\ Pointing(Texture, f, j) = k + (IF f[t] = j THEN 1 ELSE 0)
                       /\ Pointing(Texture, g, j) = k + (IF i = j THEN 1 ELSE 0)
    BY <2>2, Finite, PointingChanged
  <2> QED
    BY <2>1, <2>3
<1>2. Total(o, e)[j] = Pointing(Texture, Lev(o), j) + e[j]
      /\ Total(p, e)[j] = Pointing(Texture, Lev(p), j) + e[j] /\ e[j] \in Nat
  <2>1. Total(o, e)[j] = Pointing(Texture, Lev(o), j) + e[j]
    BY TotalType
  <2>2. Total(p, e)[j] = Pointing(Texture, Lev(p), j) + e[j]
    BY TotalType
  <2> QED
    BY <2>1, <2>2
<1> QED
  BY <1>1, <1>2

LEMMA TotalUnbound ==
    ASSUME NEW o, NEW p, NEW e \in [Image -> Nat], NEW t \in Texture,
           Lev(p) = Repointed(Lev(o), t, NONE)
    PROVE  Minus(Total(o, e), Lev(o)[t]) = Total(p, e)
<1>1. PICK n : n = Total(o, e)
  OBVIOUS
<1>2. PICK q : q = Total(p, e)
  OBVIOUS
<1>3. n \in [Image -> Nat] /\ q \in [Image -> Nat]
  BY <1>1, <1>2, TotalType
<1>4. PICK i : i = Lev(o)[t]
  OBVIOUS
<1>5. \A j \in Image : q[j] = n[j] - (IF i = j THEN 1 ELSE 0)
  <2>1. PICK none \in Image \cup {NONE} : none = NONE
    OBVIOUS
  <2>2. \A j \in Image : q[j] = n[j] + (IF none = j THEN 1 ELSE 0) - (IF i = j THEN 1 ELSE 0)
    BY <1>1, <1>2, <1>4, <2>1, TotalChanged
  <2>3. \A j \in Image : none # j /\ n[j] \in Nat
    BY <1>3, <2>1
  <2> QED
    BY <2>2, <2>3
<1>6. Minus(n, i) = q
  <2>1. \A j \in Image : q[j] = IF j = i THEN n[j] - 1 ELSE n[j]
    BY <1>3, <1>5
  <2>2. i \in Image \/ i \notin Image
    OBVIOUS
  <2> QED
    BY <1>3, <2>1 DEF Minus
<1> QED
  BY <1>1, <1>2, <1>4, <1>6

LEMMA HeldStore ==
    ASSUME NEW o, NEW e, NEW m, Held(o, e, m)
    PROVE  /\ o \in Store /\ m \in [Texture -> Nat]
           /\ ImagesCounted(o, Total(o, e)) /\ TexturesCounted(o, Total(o, e), m) /\ Linked(o)
           /\ \A i \in Image : /\ o.image[i] \in ImageType /\ o.image[i].refs \in Nat
                               /\ o.image[i].shared \in BOOLEAN
                               /\ o.image[i].parent \in Texture \cup {NONE}
           /\ \A t \in Texture : /\ o.texture[t] \in TextureType /\ o.texture[t].refs \in Nat
                                 /\ o.texture[t].level \in Image \cup {NONE}
                                 /\ o.texture[t].surface \in Surface \cup {NONE}
           /\ \A s \in Surface : o.surface[s] \in SurfaceType
           /\ \A c \in Context : o.context[c] \in ContextType
  BY DEF Held, Counted, Store, ImageType, TextureType

\* No pointer is to a deleted image.
LEMMA HeldAlive ==
    ASSUME NEW o, NEW e, NEW m, Held(o, e, m)
    PROVE  /\ o.dangling = FALSE
           /\ \A i \in Image : Total(o, e)[i] >= 1 => o.image[i].refs > 0
           /\ \A i \in Image : e[i] >= 1 => Total(o, e)[i] >= 1
           /\ \A t \in Texture : o.texture[t].level # NONE =>
                 /\ o.image[o.texture[t].level].refs > 0
                 /\ o.texture[t].refs > 0
                 /\ ~Own(o, t) => Total(o, e)[o.texture[t].level] >= 1 + e[o.texture[t].level]
           /\ \A t \in Texture : m[t] >= 1 => o.texture[t].refs > 0
<1>1. e \in [Image -> Nat] /\ Total(o, e) \in [Image -> Nat]
      /\ \A i \in Image : Total(o, e)[i] = Pointing(Texture, Lev(o), i) + e[i]
  BY TotalType DEF Held
<1>2. /\ o \in Store /\ m \in [Texture -> Nat]
      /\ ImagesCounted(o, Total(o, e)) /\ TexturesCounted(o, Total(o, e), m)
      /\ \A i \in Image : o.image[i].refs \in Nat
      /\ \A t \in Texture : /\ o.texture[t].refs \in Nat
                            /\ o.texture[t].level \in Image \cup {NONE}
  BY HeldStore
<1>3. \A i \in Image : /\ Pointing(Texture, Lev(o), i) \in Nat
                       /\ Pointing(Texture, Lev(o), i) = 0 <=> \A t \in Texture : Lev(o)[t] # i
  BY Finite, PointingType
<1>4. \A i \in Image : Total(o, e)[i] >= 1 => o.image[i].refs > 0
  <2>1. \A i \in Image : i # NONE
    OBVIOUS
  <2> QED
    BY <1>2, <2>1 DEF ImagesCounted
<1>5. \A i \in Image : e[i] >= 1 => Total(o, e)[i] >= 1
  BY <1>1, <1>3
<1>6. ASSUME NEW t \in Texture, o.texture[t].level # NONE
      PROVE  /\ o.image[o.texture[t].level].refs > 0
             /\ o.texture[t].refs > 0
             /\ ~Own(o, t) => Total(o, e)[o.texture[t].level] >= 1 + e[o.texture[t].level]
  <2>1. PICK i \in Image : i = o.texture[t].level
    BY <1>2, <1>6
  <2>2. o.texture[t].refs > 0
    BY <1>2, <1>6 DEF TexturesCounted
  <2>3. CASE Own(o, t)
    <3>1. o.image[i].parent # NONE
      BY <2>1, <2>3 DEF Own
    <3>2. o.image[i].refs = 1
      BY <1>2, <3>1 DEF ImagesCounted
    <3> QED
      BY <2>1, <2>2, <2>3, <3>2
  <2>4. CASE ~Own(o, t)
    <3>1. Lev(o)[t] = i
      BY <2>1, <2>4, LevFunction
    <3>2. Pointing(Texture, Lev(o), i) >= 1
      BY <1>3, <3>1
    <3>3. Total(o, e)[i] >= 1 + e[i] /\ e[i] \in Nat
      BY <1>1, <1>3, <3>2
    <3>4. o.image[i].refs > 0
      BY <1>1, <1>4, <3>3
    <3> QED
      BY <2>1, <2>2, <2>4, <3>3, <3>4
  <2> QED
    BY <2>3, <2>4
<1>7. \A t \in Texture : m[t] >= 1 => o.texture[t].refs > 0
  <2> SUFFICES ASSUME NEW t \in Texture, m[t] >= 1 PROVE o.texture[t].refs > 0
    OBVIOUS
  <2>1. Own(o, t) => Total(o, e)[o.texture[t].level] \in Nat
    BY <1>1, <1>2 DEF Own
  <2> QED
    BY <1>2, <2>1 DEF TexturesCounted
<1>8. o.dangling = FALSE
  BY DEF Held, Counted
<1> QED
  BY <1>4, <1>5, <1>6, <1>7, <1>8

LEMMA HeldAddRef ==
    ASSUME NEW o, NEW e, NEW m, Held(o, e, m),
           NEW i \in Image \cup {NONE}, i # NONE => o.image[i].refs > 0,
           NEW p, p = AddRef(o, i)
    PROVE  /\ Held(p, Plus(e, i), m) /\ Frame(o, p)
           /\ p.surface = o.surface
           /\ \A t \in Texture : p.texture[t].level = o.texture[t].level
           /\ \A j \in Image : /\ p.image[j].parent = o.image[j].parent
                               /\ p.image[j].refs >= o.image[j].refs
<1>1. Counted(o, Total(o, e), m) /\ e \in [Image -> Nat]
      /\ \A j \in Image : o.image[j].shared => e[j] >= 1
  BY DEF Held
<1>2. PICK n : n = Total(o, e)
  OBVIOUS
<1>3. /\ Counted(p, Plus(n, i), m)
      /\ Lev(p) = Lev(o) /\ Frame(o, p)
      /\ p.surface = o.surface
      /\ \A t \in Texture : p.texture[t].level = o.texture[t].level
      /\ \A j \in Image : /\ p.image[j].parent = o.image[j].parent
                          /\ p.image[j].refs >= o.image[j].refs
  BY <1>1, <1>2, AddRefCounted
<1>4. Plus(n, i) = Total(p, Plus(e, i))
  BY <1>1, <1>2, <1>3, TotalPlus, TotalSame
<1>5. Plus(e, i) \in [Image -> Nat] /\ \A j \in Image : Plus(e, i)[j] >= e[j] /\ e[j] \in Nat
  BY <1>1, PlusMinus
<1>6. \A j \in Image : p.image[j].shared => Plus(e, i)[j] >= 1
  BY <1>1, <1>3, <1>5 DEF Frame
<1> QED
  BY <1>3, <1>4, <1>5, <1>6 DEF Held

LEMMA HeldReleased ==
    ASSUME NEW o, NEW e, NEW m, Held(o, e, m),
           NEW i \in Image \cup {NONE},
           i # NONE => e[i] >= 1 /\ (o.image[i].shared => e[i] >= 2),
           NEW p, p = Released(o, i)
    PROVE  Held(p, Minus(e, i), m) /\ Frame(o, p)
<1>1. Counted(o, Total(o, e), m) /\ e \in [Image -> Nat]
      /\ \A j \in Image : o.image[j].shared => e[j] >= 1
  BY DEF Held
<1>2. PICK n : n = Total(o, e)
  OBVIOUS
<1>3. i # NONE => i \in Image /\ n[i] >= e[i] /\ n[i] \in Nat /\ e[i] \in Nat
  <2>1. i # NONE => i \in Image
    OBVIOUS
  <2>2. \A j \in Image : n[j] = Pointing(Texture, Lev(o), j) + e[j] /\ e[j] \in Nat
                         /\ Pointing(Texture, Lev(o), j) \in Nat
    BY <1>1, <1>2, TotalType, Finite, PointingType
  <2> QED
    BY <2>1, <2>2
<1>4. i # NONE => n[i] >= 1 /\ (o.image[i].shared => n[i] >= 2)
  BY <1>3
<1>5. Counted(p, Minus(n, i), m) /\ Lev(p) = Lev(o) /\ Frame(o, p)
  BY <1>1, <1>2, <1>4, ReleasedCounted
<1>6. Minus(n, i) = Total(p, Minus(e, i)) /\ Minus(e, i) \in [Image -> Nat]
  <2>1. i \in Image => e[i] >= 1
    BY NoneAssumption
  <2> QED
    BY <1>1, <1>2, <1>5, <2>1, TotalMinus, TotalSame
<1>7. \A j \in Image : p.image[j].shared => Minus(e, i)[j] >= 1
  <2> SUFFICES ASSUME NEW j \in Image, o.image[j].shared PROVE Minus(e, i)[j] >= 1
    BY <1>5 DEF Frame
  <2>1. CASE j = i
    <3>1. e[i] >= 2 /\ e[i] \in Nat /\ Minus(e, i)[i] = e[i] - 1
      <4>1. i \in Image /\ i # NONE
        BY <2>1
      <4> QED
        BY <1>1, <2>1, <4>1, PlusMinus
    <3> QED
      BY <2>1, <3>1
  <2>2. CASE j # i
    BY <1>1, <2>2, PlusMinus
  <2> QED
    BY <2>1, <2>2
<1> QED
  BY <1>5, <1>6, <1>7 DEF Held

LEMMA HeldUnbound ==
    ASSUME NEW o, NEW e, NEW m, Held(o, e, m),
           NEW t \in Texture,
           Own(o, t) => Total(o, e)[o.texture[t].level] = 0,
           NEW p, p = Unbound(o, t)
    PROVE  Held(p, e, m) /\ Frame(o, p) /\ p.texture[t].level = NONE
<1>1. Counted(o, Total(o, e), m) /\ e \in [Image -> Nat]
      /\ \A j \in Image : o.image[j].shared => e[j] >= 1
  BY DEF Held
<1>2. PICK n, i : n = Total(o, e) /\ i = o.texture[t].level
  OBVIOUS
<1>3. i # NONE => o.texture[t].refs > 0 /\ i \in Image
                  /\ (~Own(o, t) => n[i] >= 1 + e[i]) /\ e[i] \in Nat /\ n[i] \in Nat
  <2>1. i \in Image \cup {NONE}
    BY <1>2, HeldStore
  <2>2. n \in [Image -> Nat]
    BY <1>1, <1>2, TotalType
  <2> QED
    BY <1>1, <1>2, <2>1, <2>2, HeldAlive
<1>4. Own(o, t) => n[i] = 0 /\ o.texture[t].refs > 0
  BY <1>2, <1>3 DEF Own
<1>5. ~Own(o, t) /\ i # NONE => n[i] >= 1 /\ (o.image[i].shared => n[i] >= 2)
  BY <1>1, <1>3
<1>6. /\ Counted(p, Minus(n, Lev(o)[t]), m) /\ Lev(p) = Repointed(Lev(o), t, NONE)
      /\ Frame(o, p) /\ p.texture[t].level = NONE
  BY <1>1, <1>2, <1>4, <1>5, UnboundCounted
<1>7. Minus(n, Lev(o)[t]) = Total(p, e)
  BY <1>1, <1>2, <1>6, TotalUnbound
<1>8. \A j \in Image : p.image[j].shared => e[j] >= 1
  BY <1>1, <1>6 DEF Frame
<1> QED
  BY <1>1, <1>6, <1>7, <1>8 DEF Held

LEMMA HeldTextureReleased ==
    ASSUME NEW o, NEW e, NEW m, Held(o, e, m),
           NEW t \in Texture, m[t] >= 1, o.texture[t].named => m[t] >= 2,
           NEW p, p = TextureReleased(o, t)
    PROVE  Held(p, e, Minus(m, t)) /\ Frame(o, p)
<1>1. Counted(o, Total(o, e), m) /\ e \in [Image -> Nat]
      /\ \A j \in Image : o.image[j].shared => e[j] >= 1
  BY DEF Held
<1>2. PICK n, i : n = Total(o, e) /\ i = o.texture[t].level
  OBVIOUS
<1>3. i # NONE => i \in Image
                  /\ (~Own(o, t) => n[i] >= 1 + e[i]) /\ e[i] \in Nat /\ n[i] \in Nat
  <2>1. i \in Image \cup {NONE}
    BY <1>2, HeldStore
  <2>2. n \in [Image -> Nat]
    BY <1>1, <1>2, TotalType
  <2> QED
    BY <1>1, <1>2, <2>1, <2>2, HeldAlive
<1>4. ~Own(o, t) /\ i # NONE => n[i] >= 1 /\ (o.image[i].shared => n[i] >= 2)
  BY <1>1, <1>3
<1>5. /\ Frame(o, p)
      /\ \/ Counted(p, n, Minus(m, t)) /\ Lev(p) = Lev(o)
         \/ /\ Counted(p, Minus(n, Lev(o)[t]), Minus(m, t))
            /\ Lev(p) = Repointed(Lev(o), t, NONE)
  BY <1>1, <1>2, <1>4, TextureReleasedCounted
<1>6. Counted(p, Total(p, e), Minus(m, t))
  <2>1. CASE Counted(p, n, Minus(m, t)) /\ Lev(p) = Lev(o)
    BY <1>2, <2>1, TotalSame
  <2>2. CASE /\ Counted(p, Minus(n, Lev(o)[t]), Minus(m, t))
             /\ Lev(p) = Repointed(Lev(o), t, NONE)
    <3>1. Minus(n, Lev(o)[t]) = Total(p, e)
      BY <1>1, <1>2, <2>2, TotalUnbound
    <3> QED
      BY <2>2, <3>1
  <2> QED
    BY <1>5, <2>1, <2>2
<1>7. \A j \in Image : p.image[j].shared => e[j] >= 1
  BY <1>1, <1>5 DEF Frame
<1> QED
  BY <1>1, <1>5, <1>6, <1>7 DEF Held

\* Free images stay free while references are only given back.
LEMMA HeldFree ==
    ASSUME NEW o, NEW e, NEW m, Held(o, e, m), NEW p, NEW d, NEW k, Held(p, d, k),
           Frame(o, p), NEW j \in Image, d[j] <= e[j], o.image[j].refs = 0
    PROVE  p.image[j].refs = 0 /\ e[j] = 0 /\ p.image[j].parent = NONE
           /\ ~o.image[j].shared
<1>1. /\ \A i \in Image : /\ Total(o, e)[i] = Pointing(Texture, Lev(o), i) + e[i]
                          /\ Pointing(Texture, Lev(o), i) \in Nat /\ e[i] \in Nat
                          /\ (Pointing(Texture, Lev(o), i) = 0 <=> \A t \in Texture : Lev(o)[t] # i)
  BY TotalType, Finite, PointingType DEF Held
<1>2. /\ \A i \in Image : /\ Total(p, d)[i] = Pointing(Texture, Lev(p), i) + d[i]
                          /\ Pointing(Texture, Lev(p), i) \in Nat /\ d[i] \in Nat
                          /\ (Pointing(Texture, Lev(p), i) = 0 <=> \A t \in Texture : Lev(p)[t] # i)
  BY TotalType, Finite, PointingType DEF Held
<1>3. ImagesCounted(o, Total(o, e)) /\ ImagesCounted(p, Total(p, d)) /\ j # NONE
  BY HeldStore
<1>4. o.image[j].parent = NONE /\ Total(o, e)[j] = 0
  BY <1>3 DEF ImagesCounted
<1>5. e[j] = 0 /\ d[j] = 0 /\ \A t \in Texture : Lev(o)[t] # j
  BY <1>1, <1>2, <1>4
<1>6. p.image[j].parent = NONE
  BY <1>4 DEF Frame
<1>7. \A t \in Texture : Lev(p)[t] # j
  <2> SUFFICES ASSUME NEW t \in Texture, Lev(p)[t] = j PROVE FALSE
    OBVIOUS
  <2>1. p.texture[t].level = j
    BY <1>3, LevFunction
  <2>2. o.texture[t].level = j
    BY <1>3, <2>1 DEF Frame
  <2>3. ~Own(o, t)
    <3>1. t # NONE
      OBVIOUS
    <3> QED
      BY <1>4, <2>2, <3>1 DEF Own
  <2> QED
    BY <1>5, <2>2, <2>3, LevFunction
<1>8. p.image[j].refs = 0
  BY <1>2, <1>3, <1>5, <1>6, <1>7 DEF ImagesCounted
<1>9. ~o.image[j].shared
  BY <1>5 DEF Held
<1> QED
  BY <1>5, <1>6, <1>8, <1>9

\* What is not a reference may change.
LEMMA HeldOther ==
    ASSUME NEW o, NEW e, NEW m, Held(o, e, m),
           NEW p \in Store, p.image = o.image, p.texture = o.texture, p.dangling = o.dangling,
           Linked(p)
    PROVE  Held(p, e, m)
<1>1. \A t \in Texture : Own(p, t) <=> Own(o, t)
  BY DEF Own
<1>2. Lev(p) = Lev(o)
  BY <1>1 DEF Lev
<1>3. Total(p, e) = Total(o, e)
  BY <1>2, TotalSame
<1>4. PICK n : n = Total(o, e)
  OBVIOUS
<1>5. Counted(o, n, m)
  BY <1>4 DEF Held
<1>6. ImagesCounted(p, n)
  BY <1>5 DEF Counted, ImagesCounted
<1>7. TexturesCounted(p, n, m)
  BY <1>1, <1>5 DEF Counted, TexturesCounted
<1>8. Counted(p, n, m)
  BY <1>5, <1>6, <1>7 DEF Counted
<1> QED
  BY <1>3, <1>4, <1>8 DEF Held

LEMMA HeldContext ==
    ASSUME NEW o, NEW e, NEW m, Held(o, e, m),
           NEW c \in Context, NEW r \in ContextType,
           NEW p, p = WithContext(o, c, r)
    PROVE  /\ Held(p, e, m) /\ p.image = o.image /\ p.texture = o.texture
           /\ p.surface = o.surface
           /\ p.context[c] = r /\ \A u \in Context : u # c => p.context[u] = o.context[u]
<1>1. o \in Store /\ Linked(o)
  BY HeldStore
<1>2. /\ p \in Store /\ p.image = o.image /\ p.texture = o.texture
      /\ p.surface = o.surface /\ p.dangling = o.dangling
      /\ p.context[c] = r /\ \A u \in Context : u # c => p.context[u] = o.context[u]
  BY <1>1, SetContext
<1>3. Linked(p)
  BY <1>1, <1>2 DEF Linked
<1> QED
  BY <1>2, <1>3, HeldOther

LEMMA HeldSurface ==
    ASSUME NEW o, NEW e, NEW m, Held(o, e, m),
           NEW s \in Surface, NEW r \in SurfaceType, r.texture = o.surface[s].texture,
           r.texture # NONE => r.refs > 0,
           NEW p, p = WithSurface(o, s, r)
    PROVE  /\ Held(p, e, m) /\ p.image = o.image /\ p.texture = o.texture
           /\ p.context = o.context
           /\ p.surface[s] = r /\ \A u \in Surface : u # s => p.surface[u] = o.surface[u]
<1>1. o \in Store /\ Linked(o)
  BY HeldStore
<1>2. /\ p \in Store /\ p.image = o.image /\ p.texture = o.texture
      /\ p.context = o.context /\ p.dangling = o.dangling
      /\ p.surface[s] = r /\ \A u \in Surface : u # s => p.surface[u] = o.surface[u]
  BY <1>1, SetSurface
<1>3. Linked(p)
  <2> SUFFICES ASSUME NEW u \in Surface
               PROVE  /\ \A t \in Texture : p.texture[t].surface = u <=> p.surface[u].texture = t
                      /\ p.surface[u].texture # NONE => p.surface[u].refs > 0
    BY DEF Linked
  <2>1. CASE u = s
    BY <2>1, <1>1, <1>2 DEF Linked
  <2>2. CASE u # s
    BY <2>2, <1>1, <1>2 DEF Linked
  <2> QED
    BY <2>1, <2>2
<1> QED
  BY <1>2, <1>3, HeldOther

\* An image becomes an EGLImage, or is one no more.
LEMMA HeldShared ==
    ASSUME NEW o, NEW e, NEW m, Held(o, e, m),
           NEW i \in Image, NEW r \in ImageType, r.refs = o.image[i].refs,
           r.parent = o.image[i].parent, r.shared => e[i] >= 1,
           NEW p, p = WithImage(o, i, r)
    PROVE  /\ Held(p, e, m) /\ p.texture = o.texture /\ p.surface = o.surface
           /\ p.context = o.context
           /\ p.image[i] = r /\ \A j \in Image : j # i => p.image[j] = o.image[j]
<1>1. o \in Store /\ Linked(o)
  BY HeldStore
<1>2. /\ p \in Store /\ p.texture = o.texture /\ p.surface = o.surface
      /\ p.context = o.context /\ p.dangling = o.dangling
      /\ p.image[i] = r /\ \A j \in Image : j # i => p.image[j] = o.image[j]
  BY <1>1, SetImage
<1>3. \A j \in Image : /\ p.image[j].parent = o.image[j].parent
                       /\ p.image[j].refs = o.image[j].refs
  BY <1>2
<1>4. \A u \in Texture : o.texture[u].level \in Image \cup {NONE}
  BY HeldStore
<1>5. \A u \in Texture : Own(p, u) <=> Own(o, u)
  BY <1>2, <1>3, <1>4 DEF Own
<1>6. Lev(p) = Lev(o)
  BY <1>2, <1>5 DEF Lev
<1>7. Total(p, e) = Total(o, e)
  BY <1>6, TotalSame
<1>8. PICK n : n = Total(o, e)
  OBVIOUS
<1>9. Counted(o, n, m) /\ e \in [Image -> Nat]
      /\ \A j \in Image : o.image[j].shared => e[j] >= 1
  BY <1>8 DEF Held
<1>10. n[i] >= e[i] /\ n[i] \in Nat /\ e[i] \in Nat
  BY <1>8, <1>9, TotalType, Finite, PointingType
<1>11. ImagesCounted(p, n)
  <2> SUFFICES ASSUME NEW j \in Image
               PROVE  /\ o.image[j].parent = NONE => o.image[j].refs = n[j]
                      /\ o.image[j].parent # NONE => o.image[j].refs = 1
                            /\ o.texture[o.image[j].parent].level = j
                      /\ p.image[j].shared => n[j] >= 1
    BY <1>2, <1>3 DEF ImagesCounted
  <2>1. ImagesCounted(o, n)
    BY <1>9 DEF Counted
  <2>2. p.image[j].shared => n[j] >= 1
    <3>1. CASE j = i
      BY <3>1, <1>2, <1>10
    <3>2. CASE j # i
      BY <3>2, <1>2, <2>1 DEF ImagesCounted
    <3> QED
      BY <3>1, <3>2
  <2> QED
    BY <2>1, <2>2 DEF ImagesCounted
<1>12. TexturesCounted(p, n, m)
  BY <1>2, <1>5, <1>9 DEF Counted, TexturesCounted
<1>13. Linked(p)
  BY <1>1, <1>2 DEF Linked
<1>14. Counted(p, n, m)
  BY <1>2, <1>9, <1>11, <1>12, <1>13 DEF Counted
<1>15. \A j \in Image : p.image[j].shared => e[j] >= 1
  <2> SUFFICES ASSUME NEW j \in Image, p.image[j].shared PROVE e[j] >= 1
    OBVIOUS
  <2>1. CASE j = i
    BY <2>1, <1>2
  <2>2. CASE j # i
    BY <2>2, <1>2, <1>9
  <2> QED
    BY <2>1, <2>2
<1> QED
  BY <1>2, <1>7, <1>8, <1>9, <1>14, <1>15 DEF Held

\* A texture gets its name, or loses it, or is linked to a surface.
LEMMA HeldTexture ==
    ASSUME NEW o, NEW e, NEW m, Held(o, e, m),
           NEW t \in Texture, NEW r \in TextureType, r.refs = o.texture[t].refs,
           r.level = o.texture[t].level, r.named => m[t] >= 1,
           r.refs = 0 => r.surface = NONE,
           NEW p \in Store, p.image = o.image, p.dangling = o.dangling,
           p.texture[t] = r, \A u \in Texture : u # t => p.texture[u] = o.texture[u],
           Linked(p)
    PROVE  Held(p, e, m)
<1>1. \A u \in Texture : p.texture[u].level = o.texture[u].level
                         /\ p.texture[u].refs = o.texture[u].refs
  OBVIOUS
<1>2. \A u \in Texture : Own(p, u) <=> Own(o, u)
  BY <1>1 DEF Own
<1>3. Lev(p) = Lev(o)
  BY <1>1, <1>2 DEF Lev
<1>4. Total(p, e) = Total(o, e)
  BY <1>3, TotalSame
<1>5. PICK n : n = Total(o, e)
  OBVIOUS
<1>6. Counted(o, n, m)
  BY <1>5 DEF Held
<1>7. \A i \in Image : o.image[i].parent \in Texture \cup {NONE}
  BY HeldStore
<1>8. ImagesCounted(p, n)
  BY <1>1, <1>6, <1>7 DEF Counted, ImagesCounted
<1>9. TexturesCounted(p, n, m)
  <2> SUFFICES ASSUME NEW u \in Texture
               PROVE  /\ o.texture[u].refs = m[u] + (IF Own(o, u) THEN n[o.texture[u].level] ELSE 0)
                      /\ o.texture[u].refs = 0 => o.texture[u].level = NONE
                                                  /\ p.texture[u].surface = NONE
                      /\ p.texture[u].named => m[u] >= 1
    BY <1>1, <1>2 DEF TexturesCounted
  <2>1. TexturesCounted(o, n, m)
    BY <1>6 DEF Counted
  <2>2. CASE u = t
    BY <2>1, <2>2 DEF TexturesCounted
  <2>3. CASE u # t
    BY <2>1, <2>3 DEF TexturesCounted
  <2> QED
    BY <2>2, <2>3
<1>10. Counted(p, n, m)
  BY <1>6, <1>8, <1>9 DEF Counted
<1> QED
  BY <1>4, <1>5, <1>10 DEF Held

\* A texture gets a pointer to an image that is referenced for it.
LEMMA HeldLevel ==
    ASSUME NEW o, NEW e, NEW m, Held(o, e, m),
           NEW t \in Texture, o.texture[t].level = NONE, o.texture[t].refs > 0,
           NEW i \in Image, e[i] >= 1, o.image[i].shared => e[i] >= 2,
           NEW r \in TextureType, r.refs = o.texture[t].refs, r.level = i,
           r.surface = o.texture[t].surface, r.named = o.texture[t].named,
           NEW p, p = WithTexture(o, t, r)
    PROVE  /\ Held(p, Minus(e, i), m)
           /\ p.image = o.image /\ p.surface = o.surface /\ p.context = o.context
           /\ p.texture[t] = r /\ \A u \in Texture : u # t => p.texture[u] = o.texture[u]
<1>1. Counted(o, Total(o, e), m) /\ e \in [Image -> Nat]
      /\ \A j \in Image : o.image[j].shared => e[j] >= 1
  BY DEF Held
<1>2. PICK n : n = Total(o, e)
  OBVIOUS
<1>3. ~Own(o, t) /\ t # NONE /\ i # NONE
  BY DEF Own
<1>4. o.image[i].parent # t
  BY <1>1, <1>3 DEF Counted, ImagesCounted
<1>5. /\ Counted(p, n, m) /\ Lev(p) = Repointed(Lev(o), t, i)
      /\ p.image = o.image /\ p.surface = o.surface /\ p.context = o.context
      /\ p.texture[t] = r /\ \A u \in Texture : u # t => p.texture[u] = o.texture[u]
  BY <1>1, <1>2, <1>3, <1>4, LevelCounted
<1>6. Lev(o)[t] = NONE
  BY <1>3, LevFunction
<1>7. PICK q : q = Total(p, e)
  OBVIOUS
<1>8. q \in [Image -> Nat] /\ n \in [Image -> Nat]
      /\ \A j \in Image : q[j] = IF j = i THEN n[j] + 1 ELSE n[j]
  <2>1. q \in [Image -> Nat] /\ n \in [Image -> Nat]
    BY <1>1, <1>2, <1>7, TotalType
  <2>2. \A j \in Image : q[j] = n[j] + (IF i = j THEN 1 ELSE 0) - (IF Lev(o)[t] = j THEN 1 ELSE 0)
    BY <1>1, <1>2, <1>5, <1>7, TotalChanged
  <2>3. \A j \in Image : NONE # j /\ n[j] \in Nat
    BY <2>1
  <2> QED
    BY <1>6, <2>1, <2>2, <2>3
<1>9. Minus(q, i) = n
  <2>1. \A j \in Image : n[j] = IF j = i THEN q[j] - 1 ELSE q[j]
    BY <1>8
  <2> QED
    BY <1>8, <2>1 DEF Minus
<1>10. Total(p, Minus(e, i)) = n /\ Minus(e, i) \in [Image -> Nat]
  BY <1>1, <1>7, <1>9, TotalMinus
<1>11. \A j \in Image : p.image[j].shared => Minus(e, i)[j] >= 1
  <2> SUFFICES ASSUME NEW j \in Image, o.image[j].shared PROVE Minus(e, i)[j] >= 1
    BY <1>5
  <2>1. CASE j = i
    <3>1. e[i] >= 2 /\ e[i] \in Nat /\ Minus(e, i)[i] = e[i] - 1
      BY <1>1, <2>1, PlusMinus
    <3> QED
      BY <2>1, <3>1
  <2>2. CASE j # i
    BY <1>1, <2>2, PlusMinus
  <2> QED
    BY <2>1, <2>2
<1> QED
  BY <1>5, <1>10, <1>11 DEF Held

\* A free image is not referenced at all.
LEMMA HeldNone ==
    ASSUME NEW o, NEW e, NEW m, Held(o, e, m), NEW i \in Image, o.image[i].refs = 0
    PROVE  /\ o.image[i].parent = NONE /\ Total(o, e)[i] = 0 /\ e[i] = 0
           /\ ~o.image[i].shared
           /\ \A t \in Texture : o.texture[t].level # i
<1>1. ImagesCounted(o, Total(o, e))
  BY HeldStore
<1>2. o.image[i].parent = NONE /\ Total(o, e)[i] = 0
  BY <1>1 DEF ImagesCounted
<1>3. e[i] = 0
  BY <1>2, TotalType, Finite, PointingType DEF Held
<1>4. ~o.image[i].shared
  BY <1>3 DEF Held
<1>5. \A t \in Texture : o.texture[t].level # i
  <2>1. i # NONE /\ ~(o.image[i].refs > 0)
    OBVIOUS
  <2> QED
    BY <2>1, HeldAlive
<1> QED
  BY <1>2, <1>3, <1>4, <1>5

LEMMA HeldCreated ==
    ASSUME NEW o, NEW e, NEW m, Held(o, e, m), NEW i \in Image, o.image[i].refs = 0,
           NEW r \in ImageType, r.refs = 1, r.parent = NONE, ~r.shared,
           NEW p, p = WithImage(o, i, r)
    PROVE  /\ Held(p, Plus(e, i), m) /\ Frame(o, p) /\ p.surface = o.surface
           /\ p.texture = o.texture /\ p.image[i].parent = NONE
<1>1. Counted(o, Total(o, e), m) /\ e \in [Image -> Nat]
      /\ \A j \in Image : o.image[j].shared => e[j] >= 1
  BY DEF Held
<1>2. PICK n : n = Total(o, e)
  OBVIOUS
<1>3. o.image[i].parent = NONE /\ n[i] = 0 /\ ~o.image[i].shared
  BY <1>2, HeldNone
<1>4. PICK k \in Nat : k = 1 /\ k >= 1
  OBVIOUS
<1>5. r.shared = o.image[i].shared
  <2>1. o.image[i].shared \in BOOLEAN /\ r.shared \in BOOLEAN
    BY HeldStore DEF ImageType
  <2> QED
    BY <1>3, <2>1
<1>6. /\ Counted(p, [n EXCEPT ![i] = k], m)
      /\ Lev(p) = Lev(o) /\ Frame(o, p)
      /\ p.surface = o.surface /\ p.texture = o.texture
      /\ \A j \in Image : p.image[j].parent = o.image[j].parent
  BY <1>1, <1>2, <1>3, <1>4, <1>5, ImageRefsCounted
<1>7. [n EXCEPT ![i] = k] = Plus(n, i)
  BY <1>3, <1>4 DEF Plus
<1>8. Plus(n, i) = Total(p, Plus(e, i))
  BY <1>1, <1>2, <1>6, TotalPlus, TotalSame
<1>9. Plus(e, i) \in [Image -> Nat] /\ \A j \in Image : Plus(e, i)[j] >= e[j] /\ e[j] \in Nat
  BY <1>1, PlusMinus
<1>10. \A j \in Image : p.image[j].shared => Plus(e, i)[j] >= 1
  BY <1>1, <1>6, <1>9 DEF Frame
<1> QED
  BY <1>3, <1>6, <1>7, <1>8, <1>9, <1>10 DEF Held

LEMMA HeldOwnCreated ==
    ASSUME NEW o, NEW e, NEW m, Held(o, e, m), NEW i \in Image, o.image[i].refs = 0,
           NEW t \in Texture, o.texture[t].level = NONE, o.texture[t].refs > 0,
           NEW r \in ImageType, r.refs = 1, r.parent = t, ~r.shared,
           NEW x \in TextureType, x.refs = o.texture[t].refs, x.level = i,
           x.surface = o.texture[t].surface, x.named = o.texture[t].named,
           NEW p, p = WithTexture(WithImage(o, i, r), t, x)
    PROVE  /\ Held(p, e, m) /\ p.surface = o.surface /\ p.context = o.context
           /\ p.texture[t] = x /\ \A u \in Texture : u # t => p.texture[u] = o.texture[u]
           /\ p.image[i] = r /\ \A j \in Image : j # i => p.image[j] = o.image[j]
<1>1. Counted(o, Total(o, e), m) /\ e \in [Image -> Nat]
      /\ \A j \in Image : o.image[j].shared => e[j] >= 1
  BY DEF Held
<1>2. PICK n : n = Total(o, e)
  OBVIOUS
<1>3. o.image[i].parent = NONE /\ n[i] = 0 /\ ~o.image[i].shared
      /\ \A u \in Texture : o.texture[u].level # i
  BY <1>2, HeldNone
<1>4. PICK q : q = WithImage(o, i, r)
  OBVIOUS
<1>5. o \in Store /\ n \in [Image -> Nat] /\ m \in [Texture -> Nat] /\ o.dangling = FALSE
      /\ ImagesCounted(o, n) /\ TexturesCounted(o, n, m) /\ Linked(o)
  BY <1>1, <1>2 DEF Counted
<1>6. /\ q \in Store /\ q.texture = o.texture /\ q.surface = o.surface
      /\ q.context = o.context /\ q.dangling = o.dangling
      /\ q.image[i] = r /\ \A j \in Image : j # i => q.image[j] = o.image[j]
  BY <1>4, <1>5, SetImage
<1>7. /\ p \in Store /\ p.image = q.image /\ p.surface = q.surface
      /\ p.context = q.context /\ p.dangling = q.dangling
      /\ p.texture[t] = x /\ \A u \in Texture : u # t => p.texture[u] = q.texture[u]
  BY <1>4, <1>6, SetTexture
<1>8. \A u \in Texture : u # t => p.texture[u] = o.texture[u]
  BY <1>6, <1>7
<1>9. p.image[i] = r /\ \A j \in Image : j # i => p.image[j] = o.image[j]
  BY <1>6, <1>7
<1>10. t # NONE /\ i # NONE
  OBVIOUS
<1>11. ~Own(o, t) /\ Own(p, t)
  BY <1>7, <1>9, <1>10 DEF Own
<1>12. \A u \in Texture : u # t => (Own(p, u) <=> Own(o, u))
  <2> SUFFICES ASSUME NEW u \in Texture, u # t PROVE Own(p, u) <=> Own(o, u)
    OBVIOUS
  <2>1. o.texture[u].level \in Image \cup {NONE}
    BY <1>5 DEF Store, TextureType
  <2>2. p.texture[u].level = o.texture[u].level /\ o.texture[u].level # i
    BY <1>3, <1>8
  <2> QED
    BY <2>1, <2>2, <1>9 DEF Own
<1>13. \A j \in Image : o.image[j].parent \in (Texture \cup {NONE}) \ {t}
  <2>1. \A j \in Image : o.image[j].parent \in Texture \cup {NONE} /\ j # NONE
    BY <1>5 DEF Store, ImageType
  <2> QED
    BY <1>5, <1>10, <2>1 DEF ImagesCounted
<1>14. ImagesCounted(p, n)
  <2> SUFFICES ASSUME NEW j \in Image
               PROVE  /\ p.image[j].parent = NONE => p.image[j].refs = n[j]
                      /\ p.image[j].parent # NONE => p.image[j].refs = 1
                            /\ p.texture[p.image[j].parent].level = j
                      /\ p.image[j].shared => n[j] >= 1
    BY DEF ImagesCounted
  <2>1. CASE j = i
    BY <2>1, <1>7, <1>9, <1>10
  <2>2. CASE j # i
    <3>1. p.image[j] = o.image[j]
      BY <2>2, <1>9
    <3>2. o.image[j].parent # NONE =>
             p.texture[o.image[j].parent] = o.texture[o.image[j].parent]
      BY <1>8, <1>13
    <3>3. /\ o.image[j].parent = NONE => o.image[j].refs = n[j]
          /\ o.image[j].parent # NONE => o.image[j].refs = 1
                /\ o.texture[o.image[j].parent].level = j
          /\ o.image[j].shared => n[j] >= 1
      BY <1>5 DEF ImagesCounted
    <3> QED
      BY <3>1, <3>2, <3>3
  <2> QED
    BY <2>1, <2>2
<1>15. TexturesCounted(p, n, m)
  <2> SUFFICES ASSUME NEW u \in Texture
               PROVE  /\ p.texture[u].refs = m[u] + (IF Own(p, u) THEN n[p.texture[u].level] ELSE 0)
                      /\ p.texture[u].refs = 0 => p.texture[u].level = NONE
                                                  /\ p.texture[u].surface = NONE
                      /\ p.texture[u].named => m[u] >= 1
    BY DEF TexturesCounted
  <2>1. CASE u = t
    <3>1. o.texture[t].refs = m[t] + 0 /\ (o.texture[t].named => m[t] >= 1)
      BY <1>5, <1>11 DEF TexturesCounted
    <3> QED
      BY <2>1, <3>1, <1>3, <1>7, <1>11
  <2>2. CASE u # t
    BY <2>2, <1>5, <1>8, <1>12 DEF TexturesCounted
  <2> QED
    BY <2>1, <2>2
<1>16. Linked(p)
  <2>1. p.surface = o.surface /\ \A u \in Texture : p.texture[u].surface = o.texture[u].surface
    BY <1>6, <1>7, <1>8
  <2> QED
    BY <1>5, <2>1 DEF Linked
<1>17. Lev(p) = Lev(o)
  <2>1. \A u \in Texture : (IF Own(p, u) THEN NONE ELSE p.texture[u].level)
                             = (IF Own(o, u) THEN NONE ELSE o.texture[u].level)
    BY <1>8, <1>11, <1>12
  <2> QED
    BY <2>1 DEF Lev
<1>18. Counted(p, n, m)
  BY <1>5, <1>6, <1>7, <1>14, <1>15, <1>16 DEF Counted
<1>19. \A j \in Image : p.image[j].shared => e[j] >= 1
  <2> SUFFICES ASSUME NEW j \in Image, p.image[j].shared PROVE e[j] >= 1
    OBVIOUS
  <2>1. j # i
    BY <1>9
  <2> QED
    BY <1>1, <1>9, <2>1
<1>20. Total(p, e) = n
  BY <1>2, <1>17, TotalSame
<1> QED
  BY <1>1, <1>6, <1>7, <1>8, <1>9, <1>18, <1>19, <1>20 DEF Held

-----------------------------------------------------------------------------
(* The pointers of surfaces, contexts and EGLImages                         *)

LEMMA ExtraType ==
    ASSUME NEW o
    PROVE  /\ Extra(o) \in [Image -> Nat]
           /\ \A i \in Image :
                 /\ Extra(o)[i] = Pointing(Surface, Backs(o), i) + Pointing(Context, Zeros(o), i)
                                    + Pointing(Context, Targets(o), i) + One(o.image[i].shared)
                 /\ Pointing(Surface, Backs(o), i) \in Nat /\ Pointing(Context, Zeros(o), i) \in Nat
                 /\ Pointing(Context, Targets(o), i) \in Nat /\ One(o.image[i].shared) \in {0, 1}
                 /\ o.image[i].shared => One(o.image[i].shared) = 1
                 /\ ~o.image[i].shared => One(o.image[i].shared) = 0
                 /\ o.image[i].shared => Extra(o)[i] >= 1
<1>1. \A i \in Image : /\ Pointing(Surface, Backs(o), i) \in Nat
                       /\ Pointing(Context, Zeros(o), i) \in Nat
                       /\ Pointing(Context, Targets(o), i) \in Nat
  BY Finite, PointingType
<1>2. \A i \in Image : /\ One(o.image[i].shared) \in {0, 1}
                       /\ o.image[i].shared => One(o.image[i].shared) = 1
                       /\ ~o.image[i].shared => One(o.image[i].shared) = 0
  BY DEF One
<1>3. \A i \in Image : One(o.image[i].shared) \in Nat
  BY <1>2
<1> QED
  BY <1>1, <1>2, <1>3 DEF Extra

\* Whoever has a pointer to an image has a reference to it.
LEMMA ExtraHolders ==
    ASSUME NEW o, NEW i \in Image
    PROVE  /\ \A s \in Surface : o.surface[s].back = i =>
                 Extra(o)[i] >= 1 /\ (o.image[i].shared => Extra(o)[i] >= 2)
           /\ \A c \in Context : o.context[c].zero = i \/ o.context[c].target = i =>
                 Extra(o)[i] >= 1 /\ (o.image[i].shared => Extra(o)[i] >= 2)
           /\ \A c \in Context : o.context[c].zero = i /\ o.context[c].target = i =>
                 Extra(o)[i] >= 2 /\ (o.image[i].shared => Extra(o)[i] >= 3)
           /\ Extra(o)[i] = 0 => ~o.image[i].shared
<1>1. PICK b, z, w : /\ b = Pointing(Surface, Backs(o), i)
                     /\ z = Pointing(Context, Zeros(o), i)
                     /\ w = Pointing(Context, Targets(o), i)
  OBVIOUS
<1>2. /\ Extra(o)[i] = b + z + w + One(o.image[i].shared)
      /\ b \in Nat /\ z \in Nat /\ w \in Nat /\ One(o.image[i].shared) \in {0, 1}
      /\ o.image[i].shared => One(o.image[i].shared) = 1
  BY <1>1, ExtraType
<1>3. \A s \in Surface : o.surface[s].back = i => b >= 1
  <2> SUFFICES ASSUME NEW s \in Surface, o.surface[s].back = i PROVE b # 0
    BY <1>2
  <2>1. Backs(o)[s] = i
    BY DEF Backs
  <2> QED
    BY <1>1, <2>1, Finite, PointingType
<1>4. \A c \in Context : o.context[c].zero = i => z >= 1
  <2> SUFFICES ASSUME NEW c \in Context, o.context[c].zero = i PROVE z # 0
    BY <1>2
  <2>1. Zeros(o)[c] = i
    BY DEF Zeros
  <2> QED
    BY <1>1, <2>1, Finite, PointingType
<1>5. \A c \in Context : o.context[c].target = i => w >= 1
  <2> SUFFICES ASSUME NEW c \in Context, o.context[c].target = i PROVE w # 0
    BY <1>2
  <2>1. Targets(o)[c] = i
    BY DEF Targets
  <2> QED
    BY <1>1, <2>1, Finite, PointingType
<1>6. PICK k \in {0, 1} : k = One(o.image[i].shared)
  BY <1>2
<1>7. /\ \A s \in Surface : o.surface[s].back = i => b + z + w + k >= 1 + k
      /\ \A c \in Context : o.context[c].zero = i \/ o.context[c].target = i =>
            b + z + w + k >= 1 + k
      /\ \A c \in Context : o.context[c].zero = i /\ o.context[c].target = i =>
            b + z + w + k >= 2 + k
      /\ b + z + w + k = 0 => k = 0
  <2>1. \A s \in Surface : o.surface[s].back = i => b + z + w + k >= 1 + k
    BY <1>2, <1>3, <1>6
  <2>2. \A c \in Context : o.context[c].zero = i => b + z + w + k >= 1 + k
    BY <1>2, <1>4, <1>6
  <2>3. \A c \in Context : o.context[c].target = i => b + z + w + k >= 1 + k
    BY <1>2, <1>5, <1>6
  <2>4. \A c \in Context : o.context[c].zero = i /\ o.context[c].target = i =>
            b + z + w + k >= 2 + k
    BY <1>2, <1>4, <1>5, <1>6
  <2>5. b + z + w + k = 0 => k = 0
    BY <1>2, <1>6
  <2> QED
    BY <2>1, <2>2, <2>3, <2>4, <2>5
<1>8. PICK e \in Nat : e = Extra(o)[i] /\ e = b + z + w + k
  BY <1>2, <1>6
<1>9. o.image[i].shared => k = 1
  BY <1>2, <1>6
<1>10. /\ \A s \in Surface : o.surface[s].back = i => e >= 1 + k
       /\ \A c \in Context : o.context[c].zero = i \/ o.context[c].target = i => e >= 1 + k
       /\ \A c \in Context : o.context[c].zero = i /\ o.context[c].target = i => e >= 2 + k
       /\ e = 0 => k = 0
  BY <1>7, <1>8
<1>11. 1 + k >= 1 /\ 2 + k >= 2 /\ (k = 1 => 1 + k >= 2 /\ 2 + k >= 3)
  BY <1>6
<1>12. \A x \in Nat : /\ x >= 1 + k => x >= 1 /\ (k = 1 => x >= 2)
                      /\ x >= 2 + k => x >= 2 /\ (k = 1 => x >= 3)
  BY <1>6
<1> QED
  BY <1>8, <1>9, <1>10, <1>12

LEMMA ExtraFrame ==
    ASSUME NEW o, NEW p, Frame(o, p)
    PROVE  Extra(p) = Extra(o) /\ Names(p) = Names(o)
<1>1. Backs(p) = Backs(o) /\ Zeros(p) = Zeros(o) /\ Targets(p) = Targets(o)
  BY DEF Frame, Backs, Zeros, Targets
<1>2. \A i \in Image : p.image[i].shared = o.image[i].shared
  BY DEF Frame
<1>3. \A t \in Texture : p.texture[t].named = o.texture[t].named
  BY DEF Frame
<1>4. \A t \in Texture : Proxied(p, t) = Proxied(o, t)
  BY DEF Frame, Proxied
<1>5. Extra(p) = Extra(o)
  BY <1>1, <1>2 DEF Extra
<1>6. Names(p) = Names(o)
  BY <1>3, <1>4 DEF Names
<1> QED
  BY <1>5, <1>6

\* A surface has another back buffer.
LEMMA ExtraSurface ==
    ASSUME NEW o, NEW p, NEW s \in Surface, NEW w,
           p.context = o.context, \A i \in Image : p.image[i].shared = o.image[i].shared,
           p.surface[s].back = w,
           \A u \in Surface : u # s => p.surface[u].back = o.surface[u].back
    PROVE  \A j \in Image : Extra(p)[j] = Extra(o)[j] + One(w = j) - One(o.surface[s].back = j)
<1> SUFFICES ASSUME NEW j \in Image
             PROVE  Extra(p)[j] = Extra(o)[j] + One(w = j) - One(o.surface[s].back = j)
  OBVIOUS
<1>1. PICK f, g : f = Backs(o) /\ g = Backs(p)
  OBVIOUS
<1>2. g[s] = w /\ f[s] = o.surface[s].back /\ \A x \in Surface : x # s => g[x] = f[x]
  BY <1>1 DEF Backs
<1>3. PICK k \in Nat : /\ Pointing(Surface, f, j) = k + (IF f[s] = j THEN 1 ELSE 0)
                       /\ Pointing(Surface, g, j) = k + (IF w = j THEN 1 ELSE 0)
  BY <1>2, Finite, PointingChanged
<1>4. Zeros(p) = Zeros(o) /\ Targets(p) = Targets(o)
  BY DEF Zeros, Targets
<1>5. p.image[j].shared = o.image[j].shared
  OBVIOUS
<1>6. PICK z, x, h : /\ z = Pointing(Context, Zeros(o), j)
                     /\ x = Pointing(Context, Targets(o), j)
                     /\ h = One(o.image[j].shared)
  OBVIOUS
<1>7. Extra(o)[j] = Pointing(Surface, f, j) + z + x + h
      /\ z \in Nat /\ x \in Nat /\ h \in {0, 1}
  BY <1>1, <1>6, ExtraType
<1>8. Extra(p)[j] = Pointing(Surface, g, j) + z + x + h
  <2>1. Extra(p)[j] = Pointing(Surface, Backs(p), j) + Pointing(Context, Zeros(p), j)
                        + Pointing(Context, Targets(p), j) + One(p.image[j].shared)
    BY ExtraType
  <2> QED
    BY <1>1, <1>4, <1>5, <1>6, <2>1
<1>9. One(w = j) = (IF w = j THEN 1 ELSE 0)
      /\ One(o.surface[s].back = j) = (IF f[s] = j THEN 1 ELSE 0)
  BY <1>2 DEF One
<1> QED
  BY <1>3, <1>7, <1>8, <1>9

\* A context has another default framebuffer and render target.
LEMMA ExtraContext ==
    ASSUME NEW o, NEW p, NEW c \in Context, NEW w, NEW v,
           \A s \in Surface : p.surface[s].back = o.surface[s].back,
           \A i \in Image : p.image[i].shared = o.image[i].shared,
           p.context[c].zero = w, p.context[c].target = v,
           \A u \in Context : u # c => p.context[u].zero = o.context[u].zero
                                       /\ p.context[u].target = o.context[u].target
    PROVE  \A j \in Image : Extra(p)[j] = Extra(o)[j]
                               + One(w = j) - One(o.context[c].zero = j)
                               + One(v = j) - One(o.context[c].target = j)
<1> SUFFICES ASSUME NEW j \in Image
             PROVE  Extra(p)[j] = Extra(o)[j]
                               + One(w = j) - One(o.context[c].zero = j)
                               + One(v = j) - One(o.context[c].target = j)
  OBVIOUS
<1>1. PICK f, g, d, q : f = Zeros(o) /\ g = Zeros(p) /\ d = Targets(o) /\ q = Targets(p)
  OBVIOUS
<1>2. /\ g[c] = w /\ f[c] = o.context[c].zero /\ \A x \in Context : x # c => g[x] = f[x]
      /\ q[c] = v /\ d[c] = o.context[c].target /\ \A x \in Context : x # c => q[x] = d[x]
  BY <1>1 DEF Zeros, Targets
<1>3. PICK k \in Nat : /\ Pointing(Context, f, j) = k + (IF f[c] = j THEN 1 ELSE 0)
                       /\ Pointing(Context, g, j) = k + (IF w = j THEN 1 ELSE 0)
  BY <1>2, Finite, PointingChanged
<1>4. PICK l \in Nat : /\ Pointing(Context, d, j) = l + (IF d[c] = j THEN 1 ELSE 0)
                       /\ Pointing(Context, q, j) = l + (IF v = j THEN 1 ELSE 0)
  BY <1>2, Finite, PointingChanged
<1>5. Backs(p) = Backs(o) /\ p.image[j].shared = o.image[j].shared
  BY DEF Backs
<1>6. PICK b, h : b = Pointing(Surface, Backs(o), j) /\ h = One(o.image[j].shared)
  OBVIOUS
<1>7. Extra(o)[j] = b + Pointing(Context, f, j) + Pointing(Context, d, j) + h
      /\ b \in Nat /\ h \in {0, 1}
  BY <1>1, <1>6, ExtraType
<1>8. Extra(p)[j] = b + Pointing(Context, g, j) + Pointing(Context, q, j) + h
  <2>1. Extra(p)[j] = Pointing(Surface, Backs(p), j) + Pointing(Context, Zeros(p), j)
                        + Pointing(Context, Targets(p), j) + One(p.image[j].shared)
    BY ExtraType
  <2> QED
    BY <1>1, <1>5, <1>6, <2>1
<1>9. One(w = j) = (IF w = j THEN 1 ELSE 0)
      /\ One(o.context[c].zero = j) = (IF f[c] = j THEN 1 ELSE 0)
      /\ One(v = j) = (IF v = j THEN 1 ELSE 0)
      /\ One(o.context[c].target = j) = (IF d[c] = j THEN 1 ELSE 0)
  BY <1>2 DEF One
<1> QED
  BY <1>3, <1>4, <1>7, <1>8, <1>9

LEMMA PlusMinusAt ==
    ASSUME NEW e \in [Image -> Nat], NEW a \in Image \cup {NONE}
    PROVE  /\ Plus(e, a) \in [Image -> Nat]
           /\ \A j \in Image : /\ Plus(e, a)[j] = e[j] + One(a = j)
                               /\ Minus(e, a)[j] = e[j] - One(a = j)
                               /\ e[j] \in Nat /\ One(a = j) \in {0, 1}
<1>1. \A j \in Image : e[j] \in Nat
  OBVIOUS
<1>2. CASE a = NONE
  <2>1. a \notin Image
    BY <1>2
  <2>2. Plus(e, a) = e /\ Minus(e, a) = e
    BY <2>1, PlusMinus
  <2>3. \A j \in Image : One(a = j) = 0
    BY <2>1 DEF One
  <2> QED
    BY <1>1, <2>2, <2>3
<1>3. CASE a \in Image
  <2>1. /\ Plus(e, a) \in [Image -> Nat]
        /\ Plus(e, a)[a] = e[a] + 1 /\ Minus(e, a)[a] = e[a] - 1
        /\ \A b \in Image : b # a => Plus(e, a)[b] = e[b] /\ Minus(e, a)[b] = e[b]
    BY <1>3, PlusMinus
  <2>2. \A j \in Image : One(a = j) = IF j = a THEN 1 ELSE 0
    BY DEF One
  <2> QED
    BY <1>1, <2>1, <2>2
<1> QED
  BY <1>2, <1>3

LEMMA SameFunction ==
    ASSUME NEW d \in [Image -> Nat], NEW e \in [Image -> Nat], \A j \in Image : d[j] = e[j]
    PROVE  d = e
OBVIOUS

\* The pointers of a surface or a context change to what there are references for.
LEMMA SurfaceSet ==
    ASSUME NEW o, NEW d, Held(o, d, Names(o)),
           NEW s \in Surface, NEW r \in SurfaceType, r.texture = o.surface[s].texture,
           r.texture # NONE => r.refs > 0,
           \A j \in Image : d[j] = Extra(o)[j] + One(r.back = j) - One(o.surface[s].back = j),
           NEW p, p = WithSurface(o, s, r)
    PROVE  /\ Exact(p) /\ p.image = o.image /\ p.texture = o.texture
           /\ p.context = o.context
           /\ p.surface[s] = r /\ \A u \in Surface : u # s => p.surface[u] = o.surface[u]
<1>1. /\ Held(p, d, Names(o)) /\ p.image = o.image /\ p.texture = o.texture
      /\ p.context = o.context
      /\ p.surface[s] = r /\ \A u \in Surface : u # s => p.surface[u] = o.surface[u]
  BY HeldSurface
<1>2. Names(p) = Names(o)
  BY <1>1 DEF Names, Proxied
<1>3. PICK w : w = r.back
  OBVIOUS
<1>4. \A j \in Image : Extra(p)[j] = Extra(o)[j] + One(w = j) - One(o.surface[s].back = j)
  <2>1. p.surface[s].back = w /\ p.context = o.context
        /\ \A i \in Image : p.image[i].shared = o.image[i].shared
    BY <1>1, <1>3
  <2>2. \A u \in Surface : u # s => p.surface[u].back = o.surface[u].back
    BY <1>1
  <2> QED
    BY <2>1, <2>2, ExtraSurface
<1>5. \A j \in Image : d[j] = Extra(p)[j]
  BY <1>3, <1>4
<1>6. d = Extra(p)
  <2>1. d \in [Image -> Nat]
    BY DEF Held
  <2>2. Extra(p) \in [Image -> Nat]
    BY ExtraType
  <2> QED
    BY <1>5, <2>1, <2>2, SameFunction
<1> QED
  BY <1>1, <1>2, <1>6 DEF Exact

LEMMA ContextSet ==
    ASSUME NEW o, NEW d, Held(o, d, Names(o)),
           NEW c \in Context, NEW r \in ContextType, r.attached = o.context[c].attached,
           \A j \in Image : d[j] = Extra(o)[j] + One(r.zero = j) - One(o.context[c].zero = j)
                                     + One(r.target = j) - One(o.context[c].target = j),
           NEW p, p = WithContext(o, c, r)
    PROVE  /\ Exact(p) /\ p.image = o.image /\ p.texture = o.texture
           /\ p.surface = o.surface
           /\ p.context[c] = r /\ \A u \in Context : u # c => p.context[u] = o.context[u]
<1>1. /\ Held(p, d, Names(o)) /\ p.image = o.image /\ p.texture = o.texture
      /\ p.surface = o.surface
      /\ p.context[c] = r /\ \A u \in Context : u # c => p.context[u] = o.context[u]
  BY HeldContext
<1>2. Names(p) = Names(o)
  <2>1. \A u \in Context : p.context[u].attached = o.context[u].attached
    BY <1>1
  <2>2. \A t \in Texture : Proxied(p, t) = Proxied(o, t)
    BY <2>1 DEF Proxied
  <2> QED
    BY <1>1, <2>2 DEF Names
<1>3. PICK w, v : w = r.zero /\ v = r.target
  OBVIOUS
<1>4. \A j \in Image : Extra(p)[j] = Extra(o)[j]
                               + One(w = j) - One(o.context[c].zero = j)
                               + One(v = j) - One(o.context[c].target = j)
  <2>1. p.context[c].zero = w
    BY <1>1, <1>3
  <2>2. p.context[c].target = v
    BY <1>1, <1>3
  <2>3. \A i \in Image : p.image[i].shared = o.image[i].shared
    BY <1>1
  <2>4. \A s \in Surface : p.surface[s].back = o.surface[s].back
    BY <1>1
  <2>5. \A u \in Context : u # c => p.context[u].zero = o.context[u].zero
                                       /\ p.context[u].target = o.context[u].target
    BY <1>1
  <2> QED
    BY <2>1, <2>2, <2>3, <2>4, <2>5, ExtraContext
<1>5. \A j \in Image : d[j] = Extra(p)[j]
  BY <1>3, <1>4
<1>6. d = Extra(p)
  <2>1. d \in [Image -> Nat]
    BY DEF Held
  <2>2. Extra(p) \in [Image -> Nat]
    BY ExtraType
  <2> QED
    BY <1>5, <2>1, <2>2, SameFunction
<1> QED
  BY <1>1, <1>2, <1>6 DEF Exact

(* What may change when references are given back, whatever contexts and    *)
(* names become                                                             *)
Loose(o, p) ==
    /\ \A s \in Surface :
          /\ p.surface[s].refs = o.surface[s].refs /\ p.surface[s].back = o.surface[s].back
          /\ p.surface[s].inSet = o.surface[s].inSet
          /\ p.surface[s].texture \in {NONE, o.surface[s].texture}
    /\ \A t \in Texture :
          /\ p.texture[t].surface \in {NONE, o.texture[t].surface}
          /\ p.texture[t].level \in {NONE, o.texture[t].level}
    /\ \A i \in Image :
          /\ p.image[i].shared = o.image[i].shared
          /\ p.image[i].parent \in {NONE, o.image[i].parent}

LEMMA FrameLoose ==
    ASSUME NEW o, NEW p, Frame(o, p)
    PROVE  Loose(o, p) /\ p.context = o.context
BY DEF Frame, Loose

LEMMA TidyLoose ==
    ASSUME NEW o \in Store, NEW p \in Store, Tidy(o), Loose(o, p),
           \A c \in Context : /\ p.context[c].zero = o.context[c].zero
                              /\ p.context[c].refs = 0 => p.context[c] = NoContext
    PROVE  Tidy(p)
<1>1. ASSUME NEW s \in Surface
      PROVE  /\ p.surface[s].back # NONE => p.image[p.surface[s].back].parent = NONE
             /\ p.surface[s].texture # NONE => p.surface[s].inSet /\ s \notin Window
             /\ p.surface[s].refs = 0 => p.surface[s] = NoSurface
  <2>1. /\ o.surface[s].back # NONE => o.image[o.surface[s].back].parent = NONE
        /\ o.surface[s].texture # NONE => o.surface[s].inSet /\ s \notin Window
        /\ o.surface[s].refs = 0 => o.surface[s] = NoSurface
    BY DEF Tidy
  <2>2. p.surface[s] \in SurfaceType /\ o.surface[s] \in SurfaceType
    BY DEF Store
  <2>3. /\ p.surface[s].refs = o.surface[s].refs /\ p.surface[s].back = o.surface[s].back
        /\ p.surface[s].inSet = o.surface[s].inSet
        /\ p.surface[s].texture \in {NONE, o.surface[s].texture}
    BY DEF Loose
  <2>4. p.surface[s].back # NONE => p.image[p.surface[s].back].parent = NONE
    <3>1. p.surface[s].back # NONE => p.surface[s].back \in Image
      BY <2>2 DEF SurfaceType
    <3>2. \A i \in Image : p.image[i].parent \in {NONE, o.image[i].parent}
      BY DEF Loose
    <3> QED
      BY <2>1, <2>3, <3>1, <3>2
  <2>5. p.surface[s].refs = 0 => p.surface[s] = NoSurface
    <3> SUFFICES ASSUME p.surface[s].refs = 0 PROVE p.surface[s] = NoSurface
      OBVIOUS
    <3>1. o.surface[s] = NoSurface
      BY <2>1, <2>3
    <3>2. p.surface[s].refs = 0 /\ p.surface[s].back = NONE /\ p.surface[s].texture = NONE
          /\ p.surface[s].inSet = FALSE
      BY <2>3, <3>1 DEF NoSurface
    <3> QED
      BY <2>2, <3>2 DEF SurfaceType, NoSurface
  <2> QED
    BY <2>1, <2>3, <2>4, <2>5
<1>2. ASSUME NEW c \in Context
      PROVE  /\ p.context[c].zero # NONE => p.image[p.context[c].zero].parent = NONE
             /\ p.context[c].refs = 0 => p.context[c] = NoContext
  <2>1. o.context[c].zero # NONE => o.image[o.context[c].zero].parent = NONE
    BY DEF Tidy
  <2>2. o.context[c] \in ContextType
    BY DEF Store
  <2>3. \A i \in Image : p.image[i].parent \in {NONE, o.image[i].parent}
    BY DEF Loose
  <2>4. o.context[c].zero # NONE => o.context[c].zero \in Image
    BY <2>2 DEF ContextType
  <2> QED
    BY <2>1, <2>3, <2>4
<1> QED
  BY <1>1, <1>2 DEF Tidy

LEMMA TidyFrame ==
    ASSUME NEW o \in Store, NEW p \in Store, Tidy(o), Frame(o, p)
    PROVE  Tidy(p)
BY FrameLoose, TidyLoose DEF Tidy

LEMMA SoundHeld ==
    ASSUME NEW o, Sound(o)
    PROVE  /\ Held(o, Extra(o), Names(o)) /\ Tidy(o) /\ o \in Store
           /\ \A s \in Surface : o.surface[s].back \in Image \cup {NONE}
           /\ \A c \in Context : /\ o.context[c].zero \in Image \cup {NONE}
                                 /\ o.context[c].target \in Image \cup {NONE}
           /\ o.dangling = FALSE
<1>1. Held(o, Extra(o), Names(o)) /\ Tidy(o)
  BY DEF Sound, Exact
<1>2. o \in Store /\ o.dangling = FALSE
  BY <1>1, HeldStore, HeldAlive
<1>3. \A s \in Surface : o.surface[s] \in SurfaceType
  BY <1>1, HeldStore
<1>4. \A c \in Context : o.context[c] \in ContextType
  BY <1>1, HeldStore
<1> QED
  BY <1>1, <1>2, <1>3, <1>4 DEF SurfaceType, ContextType

LEMMA ExactHeld ==
    ASSUME NEW o, Exact(o)
    PROVE  Held(o, Extra(o), Names(o)) /\ o \in Store
BY HeldStore DEF Exact

LEMMA Cleared ==
    ASSUME NEW q \in Store, NEW s \in Surface
    PROVE  /\ [q EXCEPT !.surface[s].texture = NONE, !.surface[s].back = NONE]
                = WithSurface(q, s, [q.surface[s] EXCEPT !.texture = NONE, !.back = NONE])
           /\ [[q EXCEPT !.surface[s].texture = NONE, !.surface[s].back = NONE]
                  EXCEPT !.surface[s] = NoSurface] = WithSurface(q, s, NoSurface)
           /\ [q.surface[s] EXCEPT !.texture = NONE, !.back = NONE] \in SurfaceType
<1>1. PICK x : x = q.surface[s]
  OBVIOUS
<1>2. x \in SurfaceType
  BY <1>1 DEF Store
<1>3. [x EXCEPT !.texture = NONE, !.back = NONE] \in SurfaceType
  BY <1>2 DEF SurfaceType
<1>4. [q EXCEPT !.surface[s].texture = NONE, !.surface[s].back = NONE]
                = WithSurface(q, s, [x EXCEPT !.texture = NONE, !.back = NONE])
  BY <1>1 DEF WithSurface, Store
<1>5. [WithSurface(q, s, [x EXCEPT !.texture = NONE, !.back = NONE])
                  EXCEPT !.surface[s] = NoSurface] = WithSurface(q, s, NoSurface)
  BY DEF WithSurface, Store
<1> QED
  BY <1>1, <1>3, <1>4, <1>5

LEMMA TidySurface ==
    ASSUME NEW o, NEW p, Tidy(o), NEW s \in Surface,
           p.image = o.image, p.context = o.context,
           \A u \in Surface : u # s => p.surface[u] = o.surface[u],
           p.surface[s].back # NONE => p.image[p.surface[s].back].parent = NONE,
           p.surface[s].texture # NONE => p.surface[s].inSet /\ s \notin Window,
           p.surface[s].refs = 0 => p.surface[s] = NoSurface
    PROVE  Tidy(p)
BY DEF Tidy

-----------------------------------------------------------------------------
(* Surfaces and default framebuffers                                        *)

\* The reference of a thread or of the display to a surface is given back.
LEMMA SurfaceReleasedSound ==
    ASSUME NEW o, Sound(o), NEW s \in Surface, o.surface[s].refs >= 1,
           o.surface[s].refs = 1 => o.surface[s].texture = NONE,
           NEW p, p = SurfaceReleased(o, s)
    PROVE  /\ Sound(p) /\ p.context = o.context
           /\ \A u \in Surface : u # s => /\ p.surface[u].refs = o.surface[u].refs
                                          /\ p.surface[u].back = o.surface[u].back
                                          /\ p.surface[u].inSet = o.surface[u].inSet
           /\ o.surface[s].refs = 1 => p.surface[s] = NoSurface
           /\ o.surface[s].refs > 1 => /\ p.surface[s].refs = o.surface[s].refs - 1
                                       /\ p.surface[s].back = o.surface[s].back
                                       /\ p.surface[s].inSet = o.surface[s].inSet
                                       /\ p.surface[s].texture = o.surface[s].texture
<1>1. /\ Held(o, Extra(o), Names(o)) /\ Tidy(o) /\ o \in Store
      /\ s # NONE /\ o.surface[s] \in SurfaceType
  <2>1. s # NONE
    OBVIOUS
  <2> QED
    BY <2>1, SoundHeld, HeldStore
<1>2. PICK x : x = o.surface[s]
  OBVIOUS
<1>3. x.refs \in Nat /\ x.back \in Image \cup {NONE} /\ x.texture \in Texture \cup {NONE}
      /\ x.inSet \in BOOLEAN
  BY <1>1, <1>2 DEF SurfaceType
<1>4. Extra(o) \in [Image -> Nat]
  BY ExtraType
<1>5. CASE x.refs = 1
  <2>1. PICK q : q = Released(o, x.back)
    OBVIOUS
  <2>2. p = WithSurface(q, s, NoSurface) /\ Held(q, Minus(Extra(o), x.back), Names(o))
        /\ Frame(o, q)
    <3>1. x.back # NONE => Extra(o)[x.back] >= 1
                           /\ (o.image[x.back].shared => Extra(o)[x.back] >= 2)
      BY <1>2, <1>3, ExtraHolders
    <3>2. Held(q, Minus(Extra(o), x.back), Names(o)) /\ Frame(o, q)
      BY <1>1, <1>3, <2>1, <3>1, HeldReleased
    <3>3. q \in Store
      BY <3>2, HeldStore
    <3>4. WithoutResources(o, s)
             = [q EXCEPT !.surface[s].texture = NONE, !.surface[s].back = NONE]
      BY <1>2, <1>5, <2>1, Zenon DEF WithoutResources
    <3>5. p = [WithoutResources(o, s) EXCEPT !.surface[s] = NoSurface]
      BY <1>1, <1>2, <1>5 DEF SurfaceReleased
    <3> QED
      BY <3>2, <3>3, <3>4, <3>5, Cleared, Zenon
  <2>3. Extra(q) = Extra(o) /\ Names(q) = Names(o) /\ q \in Store /\ Tidy(q)
    BY <1>1, <2>2, ExtraFrame, TidyFrame, HeldStore
  <2>4. q.surface[s].back = x.back /\ q.surface[s].texture = NONE /\ q.context = o.context
        /\ \A u \in Surface : /\ q.surface[u].refs = o.surface[u].refs
                              /\ q.surface[u].back = o.surface[u].back
                              /\ q.surface[u].inSet = o.surface[u].inSet
    BY <1>2, <1>5, <2>2 DEF Frame
  <2>5. NoSurface \in SurfaceType /\ NoSurface.texture = NONE /\ NoSurface.back = NONE
        /\ NoSurface.refs = 0
    BY DEF NoSurface, SurfaceType
  <2>6. \A j \in Image : Minus(Extra(o), x.back)[j]
                           = Extra(q)[j] + One(NoSurface.back = j) - One(q.surface[s].back = j)
    <3>1. \A j \in Image : Minus(Extra(o), x.back)[j] = Extra(o)[j] - One(x.back = j)
                           /\ Extra(o)[j] \in Nat /\ One(x.back = j) \in {0, 1}
      BY <1>3, <1>4, PlusMinusAt
    <3>2. \A j \in Image : One(NONE = j) = 0
      BY DEF One
    <3> QED
      BY <2>3, <2>4, <2>5, <3>1, <3>2
  <2>7. /\ Exact(p) /\ p.image = q.image /\ p.texture = q.texture
        /\ p.context = q.context
        /\ p.surface[s] = NoSurface /\ \A u \in Surface : u # s => p.surface[u] = q.surface[u]
    BY <2>2, <2>3, <2>4, <2>5, <2>6, SurfaceSet
  <2>8. Tidy(p)
    BY <2>3, <2>5, <2>7, TidySurface
  <2> QED
    BY <1>2, <1>5, <2>4, <2>7, <2>8 DEF Sound
<1>6. CASE x.refs > 1
  <2>1. PICK k \in Nat : k = x.refs - 1 /\ k > 0
    BY <1>3, <1>6
  <2>2. PICK r : r = [x EXCEPT !.refs = k]
    OBVIOUS
  <2>3. r \in SurfaceType /\ r.refs = k /\ r.back = x.back /\ r.texture = x.texture
        /\ r.inSet = x.inSet
    BY <1>1, <1>2, <2>1, <2>2 DEF SurfaceType
  <2>4. p = WithSurface(o, s, r)
    <3>1. p = [o EXCEPT !.surface[s].refs = @ - 1]
      BY <1>1, <1>2, <1>6 DEF SurfaceReleased
    <3> QED
      BY <1>1, <1>2, <2>1, <2>2, <3>1 DEF WithSurface, Store
  <2>5. \A j \in Image : Extra(o)[j] = Extra(o)[j] + One(r.back = j) - One(o.surface[s].back = j)
    <3>1. \A j \in Image : Extra(o)[j] \in Nat /\ One(x.back = j) \in {0, 1}
      BY <1>3, <1>4, PlusMinusAt
    <3> QED
      BY <1>2, <2>3, <3>1
  <2>6. /\ Exact(p) /\ p.image = o.image /\ p.texture = o.texture
        /\ p.context = o.context
        /\ p.surface[s] = r /\ \A u \in Surface : u # s => p.surface[u] = o.surface[u]
    BY <1>1, <1>2, <2>1, <2>3, <2>4, <2>5, SurfaceSet
  <2>7. Tidy(p)
    <3>1. x.back # NONE => o.image[x.back].parent = NONE
      BY <1>1, <1>2 DEF Tidy
    <3>2. x.texture # NONE => x.inSet /\ s \notin Window
      BY <1>1, <1>2 DEF Tidy
    <3> QED
      BY <1>1, <2>1, <2>3, <2>6, <3>1, <3>2, TidySurface
  <2> QED
    BY <1>2, <1>6, <2>1, <2>3, <2>6, <2>7 DEF Sound
<1> QED
  BY <1>2, <1>3, <1>5, <1>6

LEMMA TidyContext ==
    ASSUME NEW o, NEW p, Tidy(o), NEW c \in Context,
           p.image = o.image, p.surface = o.surface,
           \A u \in Context : u # c => p.context[u] = o.context[u],
           p.context[c].zero # NONE => p.image[p.context[c].zero].parent = NONE,
           p.context[c].refs = 0 => p.context[c] = NoContext
    PROVE  Tidy(p)
BY DEF Tidy

\* The references to a surface or a context, and whether it is in its display's set, change.
LEMMA SurfaceKept ==
    ASSUME NEW o, Sound(o), NEW s \in Surface, NEW r \in SurfaceType,
           r.back = o.surface[s].back, r.texture = o.surface[s].texture,
           r.texture # NONE => r.inSet,
           r.refs = 0 => r = NoSurface,
           NEW p, p = WithSurface(o, s, r)
    PROVE  /\ Sound(p) /\ p.image = o.image /\ p.texture = o.texture
           /\ p.context = o.context
           /\ p.surface[s] = r /\ \A u \in Surface : u # s => p.surface[u] = o.surface[u]
<1>1. Held(o, Extra(o), Names(o)) /\ Tidy(o) /\ o.surface[s].back \in Image \cup {NONE}
  BY SoundHeld
<1>2. Extra(o) \in [Image -> Nat]
  BY ExtraType
<1>3. r.texture # NONE => r.refs > 0
  <2>1. r.refs \in Nat
    BY DEF SurfaceType
  <2>2. NoSurface.texture = NONE
    BY DEF NoSurface
  <2> QED
    BY <2>1, <2>2
<1>4. \A j \in Image : Extra(o)[j] = Extra(o)[j] + One(r.back = j) - One(o.surface[s].back = j)
  <2>1. \A j \in Image : Extra(o)[j] \in Nat /\ One(r.back = j) \in {0, 1}
    BY <1>1, <1>2, PlusMinusAt
  <2> QED
    BY <2>1
<1>5. /\ Exact(p) /\ p.image = o.image /\ p.texture = o.texture
      /\ p.context = o.context
      /\ p.surface[s] = r /\ \A u \in Surface : u # s => p.surface[u] = o.surface[u]
  BY <1>1, <1>3, <1>4, SurfaceSet
<1>6. Tidy(p)
  <2>1. /\ o.surface[s].back # NONE => o.image[o.surface[s].back].parent = NONE
        /\ o.surface[s].texture # NONE => s \notin Window
    BY <1>1 DEF Tidy
  <2> QED
    BY <1>1, <1>5, <2>1, TidySurface
<1> QED
  BY <1>5, <1>6 DEF Sound

LEMMA ContextKept ==
    ASSUME NEW o, Sound(o), NEW c \in Context, NEW r \in ContextType,
           r.zero = o.context[c].zero, r.target = o.context[c].target,
           r.attached = o.context[c].attached,
           r.refs = 0 => r = NoContext,
           NEW p, p = WithContext(o, c, r)
    PROVE  /\ Sound(p) /\ p.image = o.image /\ p.texture = o.texture
           /\ p.surface = o.surface
           /\ p.context[c] = r /\ \A u \in Context : u # c => p.context[u] = o.context[u]
<1>1. Held(o, Extra(o), Names(o)) /\ Tidy(o)
      /\ o.context[c].zero \in Image \cup {NONE} /\ o.context[c].target \in Image \cup {NONE}
  BY SoundHeld
<1>2. Extra(o) \in [Image -> Nat]
  BY ExtraType
<1>3. \A j \in Image : Extra(o)[j] = Extra(o)[j] + One(r.zero = j) - One(o.context[c].zero = j)
                                       + One(r.target = j) - One(o.context[c].target = j)
  <2>1. \A j \in Image : Extra(o)[j] \in Nat /\ One(r.zero = j) \in {0, 1}
    BY <1>1, <1>2, PlusMinusAt
  <2>2. \A j \in Image : One(r.target = j) \in {0, 1}
    BY <1>1, <1>2, PlusMinusAt
  <2> QED
    BY <2>1, <2>2
<1>4. /\ Exact(p) /\ p.image = o.image /\ p.texture = o.texture
      /\ p.surface = o.surface
      /\ p.context[c] = r /\ \A u \in Context : u # c => p.context[u] = o.context[u]
  BY <1>1, <1>3, ContextSet
<1>5. Tidy(p)
  <2>1. o.context[c].zero # NONE => o.image[o.context[c].zero].parent = NONE
    BY <1>1 DEF Tidy
  <2> QED
    BY <1>1, <1>4, <2>1, TidyContext
<1> QED
  BY <1>4, <1>5 DEF Sound

\* What is done to textures and images does not change which surfaces there are.
Steady(o, p) ==
    \A s \in Surface : /\ p.surface[s].refs = o.surface[s].refs
                       /\ p.surface[s].back = o.surface[s].back
                       /\ p.surface[s].inSet = o.surface[s].inSet

LEMMA FrameSteady == ASSUME NEW o, NEW p, Frame(o, p) PROVE Steady(o, p)
BY DEF Frame, Steady

\* Whatever a surface or context has a pointer to is not deleted.
LEMMA PointersAlive ==
    ASSUME NEW o, Sound(o)
    PROVE  /\ \A s \in Surface : o.surface[s].back # NONE => o.image[o.surface[s].back].refs > 0
           /\ \A c \in Context :
                 /\ o.context[c].zero # NONE => o.image[o.context[c].zero].refs > 0
                 /\ o.context[c].target # NONE => o.image[o.context[c].target].refs > 0
           /\ \A t \in Texture : o.texture[t].level # NONE => o.image[o.texture[t].level].refs > 0
<1>1. Held(o, Extra(o), Names(o))
  BY SoundHeld
<1>2. /\ \A s \in Surface : o.surface[s].back \in Image \cup {NONE}
      /\ \A c \in Context : /\ o.context[c].zero \in Image \cup {NONE}
                            /\ o.context[c].target \in Image \cup {NONE}
  BY SoundHeld
<1>3. \A i \in Image : Extra(o)[i] >= 1 => o.image[i].refs > 0
  BY <1>1, HeldAlive
<1>4. \A i \in Image : \A s \in Surface : o.surface[s].back = i => Extra(o)[i] >= 1
  BY ExtraHolders
<1>5. \A i \in Image : \A c \in Context :
         o.context[c].zero = i \/ o.context[c].target = i => Extra(o)[i] >= 1
  BY ExtraHolders
<1>6. \A t \in Texture : o.texture[t].level # NONE => o.image[o.texture[t].level].refs > 0
  BY <1>1, HeldAlive
<1>7. \A s \in Surface : o.surface[s].back # NONE => o.image[o.surface[s].back].refs > 0
  BY <1>2, <1>3, <1>4
<1>8. \A c \in Context :
                 /\ o.context[c].zero # NONE => o.image[o.context[c].zero].refs > 0
                 /\ o.context[c].target # NONE => o.image[o.context[c].target].refs > 0
  BY <1>2, <1>3, <1>5
<1> QED
  BY <1>6, <1>7, <1>8

\* The default framebuffer becomes the back buffer of s.
LEMMA WrappedSound ==
    ASSUME NEW o, Sound(o), NEW c \in Context, o.context[c].refs > 0, NEW s \in Surface,
           NEW p, p = Wrapped(o, c, s)
    PROVE  /\ Sound(p) /\ Steady(o, p)
           /\ p.context[c] = [o.context[c] EXCEPT !.zero = o.surface[s].back]
           /\ \A u \in Context : u # c => p.context[u] = o.context[u]
<1>1. /\ Held(o, Extra(o), Names(o)) /\ Tidy(o) /\ o \in Store
      /\ o.context[c] \in ContextType /\ o.surface[s].back \in Image \cup {NONE}
  BY SoundHeld, HeldStore
<1>2. PICK b, x : b = o.surface[s].back /\ x = o.context[c]
  OBVIOUS
<1>3. /\ b \in Image \cup {NONE}
      /\ x \in ContextType /\ x.zero \in Image \cup {NONE} /\ x.target \in Image \cup {NONE}
  BY <1>1, <1>2 DEF ContextType
<1>4. Extra(o) \in [Image -> Nat]
  BY ExtraType
<1>5. PICK q : q = AddRef(o, b)
  OBVIOUS
<1>6. b # NONE => o.image[b].refs > 0
  BY <1>2, PointersAlive
<1>7. Held(q, Plus(Extra(o), b), Names(o)) /\ Frame(o, q)
  BY <1>1, <1>3, <1>5, <1>6, HeldAddRef
<1>8. PICK w : w = Released(q, x.zero)
  OBVIOUS
<1>9. Plus(Extra(o), b) \in [Image -> Nat]
      /\ \A j \in Image : Plus(Extra(o), b)[j] = Extra(o)[j] + One(b = j) /\ Extra(o)[j] \in Nat
                          /\ One(b = j) \in {0, 1}
  BY <1>3, <1>4, PlusMinusAt
<1>10. x.zero # NONE => Plus(Extra(o), b)[x.zero] >= 1
                        /\ (q.image[x.zero].shared => Plus(Extra(o), b)[x.zero] >= 2)
  <2>1. x.zero # NONE => Extra(o)[x.zero] >= 1 /\ (o.image[x.zero].shared => Extra(o)[x.zero] >= 2)
    BY <1>2, <1>3, ExtraHolders
  <2>2. x.zero # NONE => q.image[x.zero].shared = o.image[x.zero].shared
    BY <1>3, <1>7 DEF Frame
  <2> QED
    BY <1>3, <1>9, <2>1, <2>2
<1>11. Held(w, Minus(Plus(Extra(o), b), x.zero), Names(o)) /\ Frame(q, w)
  BY <1>3, <1>7, <1>8, <1>10, HeldReleased
<1>12. Frame(o, w)
  BY <1>7, <1>11, FrameTransitive
<1>13. /\ Extra(w) = Extra(o) /\ Names(w) = Names(o) /\ w \in Store /\ Tidy(w)
       /\ w.context = o.context /\ Steady(o, w)
  <2>1. w \in Store
    BY <1>11, HeldStore
  <2>2. Tidy(w)
    BY <1>1, <1>12, <2>1, TidyFrame
  <2>3. w.context = o.context
    BY <1>12 DEF Frame
  <2> QED
    BY <1>12, <2>1, <2>2, <2>3, ExtraFrame, FrameSteady
<1>14. PICK r : r = [x EXCEPT !.zero = b]
  OBVIOUS
<1>15. r \in ContextType /\ r.zero = b /\ r.target = x.target /\ r.attached = x.attached
       /\ r.refs = x.refs
  BY <1>3, <1>14 DEF ContextType
<1>16. p = WithContext(w, c, r)
  <2>1. p = [w EXCEPT !.context[c].zero = b]
    BY <1>2, <1>5, <1>8 DEF Wrapped
  <2>2. w.context[c] = x
    BY <1>2, <1>13
  <2> QED
    BY <1>13, <1>14, <2>1, <2>2 DEF WithContext, Store
<1>17. \A j \in Image : Minus(Plus(Extra(o), b), x.zero)[j]
                          = Extra(w)[j] + One(r.zero = j) - One(w.context[c].zero = j)
                              + One(r.target = j) - One(w.context[c].target = j)
  <2>1. \A j \in Image : Minus(Plus(Extra(o), b), x.zero)[j] = Plus(Extra(o), b)[j]
                    - One(x.zero = j)
                         /\ One(x.zero = j) \in {0, 1}
    BY <1>3, <1>9, PlusMinusAt
  <2>2. \A j \in Image : One(x.target = j) \in {0, 1}
    BY <1>3, <1>9, PlusMinusAt
  <2>3. w.context[c] = x
    BY <1>2, <1>13
  <2> QED
    BY <1>9, <1>13, <1>15, <2>1, <2>2, <2>3
<1>18. /\ Exact(p) /\ p.image = w.image /\ p.texture = w.texture
       /\ p.surface = w.surface
       /\ p.context[c] = r /\ \A u \in Context : u # c => p.context[u] = w.context[u]
  <2>1. Held(w, Minus(Plus(Extra(o), b), x.zero), Names(w))
    BY <1>11, <1>13
  <2>2. r.attached = w.context[c].attached
    BY <1>2, <1>13, <1>15
  <2> QED
    BY <1>15, <1>16, <1>17, <2>1, <2>2, ContextSet
<1>19. Tidy(p)
  <2>1. b # NONE => w.image[b].parent = NONE
    <3>1. b # NONE => w.surface[s].back = b
      BY <1>2, <1>13 DEF Steady
    <3> QED
      BY <1>13, <3>1 DEF Tidy
  <2>2. r.refs # 0
    BY <1>2, <1>15
  <2> QED
    BY <1>13, <1>15, <1>18, <2>1, <2>2, TidyContext
<1>20. Steady(o, p)
  BY <1>13, <1>18 DEF Steady
<1> QED
  BY <1>2, <1>13, <1>14, <1>18, <1>19, <1>20 DEF Sound

\* applyRenderTarget() of an image that somebody holds
LEMMA RenderTargetSound ==
    ASSUME NEW o, Sound(o), NEW c \in Context, o.context[c].refs > 0,
           NEW i \in Image, o.image[i].refs > 0,
           NEW p, p = Released(Targeted(AddRef(o, i), c, i), i)
    PROVE  /\ Sound(p) /\ Steady(o, p)
           /\ p.context[c] = [o.context[c] EXCEPT !.target = i]
           /\ \A u \in Context : u # c => p.context[u] = o.context[u]
<1>1. /\ Held(o, Extra(o), Names(o)) /\ Tidy(o) /\ o \in Store
      /\ o.context[c] \in ContextType
  BY SoundHeld, HeldStore
<1>2. PICK e, x : e = Extra(o) /\ x = o.context[c]
  OBVIOUS
<1>3. /\ i # NONE /\ i \in Image \cup {NONE}
      /\ x \in ContextType /\ x.zero \in Image \cup {NONE} /\ x.target \in Image \cup {NONE}
  BY <1>1, <1>2 DEF ContextType
<1>4. e \in [Image -> Nat]
  BY <1>2, ExtraType
<1>5. PICK a, b : a = AddRef(o, i) /\ b = AddRef(a, i)
  OBVIOUS
<1>6. Held(a, Plus(e, i), Names(o)) /\ Frame(o, a) /\ a.image[i].refs >= o.image[i].refs
  BY <1>1, <1>2, <1>3, <1>5, HeldAddRef
<1>7. a.image[i].refs > 0
  <2>1. a.image[i].refs \in Nat /\ o.image[i].refs \in Nat
    BY <1>1, <1>6, HeldStore
  <2> QED
    BY <1>6, <2>1
<1>8. PICK f : f = Plus(Plus(e, i), i)
  OBVIOUS
<1>9. Held(b, f, Names(o)) /\ Frame(a, b)
  BY <1>3, <1>5, <1>6, <1>7, <1>8, HeldAddRef
<1>10. f \in [Image -> Nat]
       /\ \A j \in Image : f[j] = e[j] + One(i = j) + One(i = j) /\ e[j] \in Nat
                           /\ One(i = j) \in {0, 1}
  <2>1. Plus(e, i) \in [Image -> Nat]
        /\ \A j \in Image : Plus(e, i)[j] = e[j] + One(i = j) /\ e[j] \in Nat
                            /\ One(i = j) \in {0, 1}
    BY <1>3, <1>4, PlusMinusAt
  <2>2. f \in [Image -> Nat]
        /\ \A j \in Image : f[j] = Plus(e, i)[j] + One(i = j)
    BY <1>3, <1>8, <2>1, PlusMinusAt
  <2> QED
    BY <2>1, <2>2
<1>11. PICK d : d = Released(b, x.target)
  OBVIOUS
<1>12. Frame(o, b)
  BY <1>6, <1>9, FrameTransitive
<1>13. x.target # NONE => f[x.target] >= 1 /\ (b.image[x.target].shared => f[x.target] >= 2)
  <2>1. x.target # NONE => e[x.target] >= 1 /\ (o.image[x.target].shared => e[x.target] >= 2)
    BY <1>2, <1>3, ExtraHolders
  <2>2. x.target # NONE => b.image[x.target].shared = o.image[x.target].shared
    BY <1>3, <1>12 DEF Frame
  <2> QED
    BY <1>3, <1>10, <2>1, <2>2
<1>14. PICK g : g = Minus(f, x.target)
  OBVIOUS
<1>15. Held(d, g, Names(o)) /\ Frame(b, d)
  BY <1>3, <1>9, <1>11, <1>13, <1>14, HeldReleased
<1>16. \A j \in Image : g[j] = f[j] - One(x.target = j) /\ One(x.target = j) \in {0, 1}
  BY <1>3, <1>10, <1>14, PlusMinusAt
<1>17. Frame(o, d)
  BY <1>12, <1>15, FrameTransitive
<1>18. PICK r : r = [x EXCEPT !.target = i]
  OBVIOUS
<1>19. r \in ContextType /\ r.zero = x.zero /\ r.target = i /\ r.attached = x.attached
       /\ r.refs = x.refs
  BY <1>3, <1>18 DEF ContextType
<1>20. /\ d \in Store /\ d.context = o.context /\ d.context[c] = x
       /\ Extra(d) = e /\ Names(d) = Names(o) /\ Tidy(d) /\ Steady(o, d)
  <2>1. d \in Store
    BY <1>15, HeldStore
  <2>2. d.context = o.context
    BY <1>17 DEF Frame
  <2> QED
    BY <1>1, <1>2, <1>17, <2>1, <2>2, ExtraFrame, TidyFrame, FrameSteady
<1>21. PICK w : w = WithContext(d, c, r)
  OBVIOUS
<1>22. /\ Held(w, g, Names(o)) /\ w.image = d.image /\ w.texture = d.texture
       /\ w.surface = d.surface
       /\ w.context[c] = r /\ \A u \in Context : u # c => w.context[u] = d.context[u]
  BY <1>15, <1>19, <1>21, HeldContext
<1>23. p = Released(w, i)
  <2>1. Targeted(a, c, i) = [d EXCEPT !.context[c].target = i]
    <3>1. a.context[c].target = x.target
      BY <1>2, <1>6 DEF Frame
    <3> QED
      BY <1>5, <1>11, <3>1 DEF Targeted
  <2>2. Targeted(a, c, i) = w
    BY <1>18, <1>20, <1>21, <2>1 DEF WithContext, Store
  <2> QED
    BY <1>5, <2>2
<1>24. Names(w) = Names(o)
  <2>1. \A u \in Context : w.context[u].attached = d.context[u].attached
    BY <1>19, <1>20, <1>22
  <2>2. \A t \in Texture : Proxied(w, t) = Proxied(d, t)
    BY <2>1 DEF Proxied
  <2>3. Names(w) = Names(d)
    BY <1>22, <2>2 DEF Names
  <2> QED
    BY <1>20, <2>3
<1>25. \A j \in Image : Extra(w)[j] = e[j] + One(i = j) - One(x.target = j)
  <2>1. PICK z : z = x.zero
    OBVIOUS
  <2>2. \A j \in Image : Extra(w)[j] = Extra(d)[j]
                               + One(z = j) - One(d.context[c].zero = j)
                               + One(i = j) - One(d.context[c].target = j)
    <3>1. w.context[c].zero = z
      BY <1>19, <1>22, <2>1
    <3>2. w.context[c].target = i
      BY <1>19, <1>22
    <3>3. \A j \in Image : w.image[j].shared = d.image[j].shared
      BY <1>22
    <3>4. \A s \in Surface : w.surface[s].back = d.surface[s].back
      BY <1>22
    <3>5. \A u \in Context : u # c => w.context[u].zero = d.context[u].zero
                                       /\ w.context[u].target = d.context[u].target
      BY <1>22
    <3> QED
      BY <3>1, <3>2, <3>3, <3>4, <3>5, ExtraContext
  <2>3. \A j \in Image : One(x.zero = j) \in {0, 1}
    BY <1>3, <1>4, PlusMinusAt
  <2> QED
    BY <1>10, <1>16, <1>20, <2>1, <2>3, <2>2
<1>26. g[i] >= 1 /\ (w.image[i].shared => g[i] >= 2)
  <2>1. One(i = i) = 1
    BY DEF One
  <2>2. w.image[i].shared = o.image[i].shared
    BY <1>17, <1>22 DEF Frame
  <2>3. o.image[i].shared => e[i] >= 1
    BY <1>2, ExtraType
  <2>4. w.image[i].shared => e[i] >= 1
    BY <2>2, <2>3
  <2> QED
    BY <1>10, <1>16, <2>1, <2>3, <2>4
<1>27. Held(p, Minus(g, i), Names(o)) /\ Frame(w, p)
  BY <1>3, <1>22, <1>23, <1>26, HeldReleased
<1>28. Extra(p) = Extra(w) /\ Names(p) = Names(o)
  BY <1>24, <1>27, ExtraFrame
<1>29. g \in [Image -> Nat] /\ Minus(g, i) \in [Image -> Nat]
  BY <1>22, <1>27 DEF Held
<1>30. Minus(g, i) = Extra(p)
  <2>1. \A j \in Image : Minus(g, i)[j] = g[j] - One(i = j)
    BY <1>3, <1>29, PlusMinusAt
  <2>2. \A j \in Image : Minus(g, i)[j] = Extra(p)[j]
    BY <1>10, <1>16, <1>25, <1>28, <2>1
  <2>3. Extra(p) \in [Image -> Nat]
    BY ExtraType
  <2> QED
    BY <1>29, <2>2, <2>3, SameFunction
<1>31. Exact(p)
  BY <1>27, <1>28, <1>30 DEF Exact
<1>32. p \in Store /\ w \in Store
  BY <1>22, <1>27, HeldStore
<1>33. Tidy(w)
  <2>1. x.zero # NONE => d.image[x.zero].parent = NONE
    BY <1>20 DEF Tidy
  <2> QED
    BY <1>2, <1>19, <1>20, <1>22, <2>1, TidyContext
<1>34. Tidy(p)
  BY <1>27, <1>32, <1>33, TidyFrame
<1>35. p.context = w.context
  BY <1>27 DEF Frame
<1>36. Steady(o, p)
  BY <1>20, <1>22, <1>27 DEF Steady, Frame
<1> QED
  BY <1>2, <1>18, <1>20, <1>22, <1>31, <1>34, <1>35, <1>36 DEF Sound

LEMMA LooseSteady ==
    ASSUME NEW o, NEW p, Loose(o, p)
    PROVE  Steady(o, p)
BY DEF Loose, Steady

LEMMA LooseTransitive ==
    ASSUME NEW o, NEW p, NEW q, Loose(o, p), Loose(p, q)
    PROVE  Loose(o, q)
<1>1. ASSUME NEW s \in Surface
      PROVE  /\ q.surface[s].refs = o.surface[s].refs /\ q.surface[s].back = o.surface[s].back
             /\ q.surface[s].inSet = o.surface[s].inSet
             /\ q.surface[s].texture \in {NONE, o.surface[s].texture}
  BY DEF Loose
<1>2. ASSUME NEW t \in Texture
      PROVE  /\ q.texture[t].surface \in {NONE, o.texture[t].surface}
             /\ q.texture[t].level \in {NONE, o.texture[t].level}
  BY DEF Loose
<1>3. ASSUME NEW i \in Image
      PROVE  /\ q.image[i].shared = o.image[i].shared
             /\ q.image[i].parent \in {NONE, o.image[i].parent}
  BY DEF Loose
<1> QED
  BY <1>1, <1>2, <1>3 DEF Loose

LEMMA ExtraLoose ==
    ASSUME NEW o, NEW p, Loose(o, p),
           \A c \in Context : p.context[c].zero = o.context[c].zero
                              /\ p.context[c].target = o.context[c].target
    PROVE  Extra(p) = Extra(o)
<1>1. Backs(p) = Backs(o)
  BY DEF Loose, Backs
<1>2. Zeros(p) = Zeros(o) /\ Targets(p) = Targets(o)
  BY DEF Zeros, Targets
<1>3. \A i \in Image : p.image[i].shared = o.image[i].shared
  BY DEF Loose
<1> QED
  BY <1>1, <1>2, <1>3 DEF Extra

-----------------------------------------------------------------------------
(* Attachments, names and the deletion of contexts                          *)

LEMMA HeldTextureAddRef ==
    ASSUME NEW o, NEW e, NEW m, Held(o, e, m), NEW t \in Texture, o.texture[t].refs > 0,
           NEW p, p = [o EXCEPT !.texture[t].refs = @ + 1]
    PROVE  Held(p, e, Plus(m, t)) /\ Frame(o, p)
<1>1. Counted(o, Total(o, e), m) /\ e \in [Image -> Nat]
      /\ \A j \in Image : o.image[j].shared => e[j] >= 1
  BY DEF Held
<1>2. o \in Store /\ m \in [Texture -> Nat] /\ o.texture[t] \in TextureType
      /\ (o.texture[t].named => m[t] >= 1) /\ t # NONE
  <2>1. t # NONE
    OBVIOUS
  <2> QED
    BY <2>1, HeldStore DEF TexturesCounted
<1>3. PICK x, n : x = o.texture[t] /\ n = Total(o, e)
  OBVIOUS
<1>4. PICK k \in Nat : k = x.refs + 1 /\ k > 0
  BY <1>2, <1>3 DEF TextureType
<1>5. PICK h \in Nat : h = m[t] + 1 /\ h >= 1
  BY <1>2
<1>6. PICK r : r = [x EXCEPT !.refs = k]
  OBVIOUS
<1>7. r \in TextureType /\ r.refs = k /\ r.level = x.level /\ r.surface = x.surface
  BY <1>2, <1>3, <1>6 DEF TextureType
<1>8. r.named = x.named
  BY <1>2, <1>3, <1>6 DEF TextureType
<1>9. p = WithTexture(o, t, r)
  BY <1>2, <1>3, <1>4, <1>6 DEF WithTexture, Store
<1>10. h - m[t] = k - o.texture[t].refs
  BY <1>2, <1>3, <1>4, <1>5 DEF TextureType
<1>11. r.level = o.texture[t].level /\ r.surface = o.texture[t].surface
       /\ r.named = o.texture[t].named
  BY <1>3, <1>7, <1>8
<1>12. o.texture[t].named => h >= 1
  BY <1>5
<1>13. Counted(p, n, [m EXCEPT ![t] = h]) /\ Lev(p) = Lev(o) /\ Frame(o, p)
  BY <1>1, <1>3, <1>4, <1>7, <1>9, <1>10, <1>11, <1>12, TextureRefsCounted
<1>14. [m EXCEPT ![t] = h] = Plus(m, t)
  BY <1>2, <1>5 DEF Plus
<1>15. n = Total(p, e)
  BY <1>3, <1>13, TotalSame
<1>16. \A j \in Image : p.image[j].shared => e[j] >= 1
  BY <1>1, <1>13 DEF Frame
<1> QED
  BY <1>1, <1>13, <1>14, <1>15, <1>16 DEF Held

LEMMA NamesType ==
    ASSUME NEW o
    PROVE  /\ Names(o) \in [Texture -> Nat]
           /\ \A t \in Texture :
                 /\ Names(o)[t] = One(o.texture[t].named) + One(Proxied(o, t))
                 /\ One(o.texture[t].named) \in {0, 1} /\ One(Proxied(o, t)) \in {0, 1}
<1>1. \A t \in Texture : /\ One(o.texture[t].named) \in {0, 1}
                         /\ One(Proxied(o, t)) \in {0, 1}
  BY DEF One
<1> QED
  BY <1>1 DEF Names

LEMMA SameNames ==
    ASSUME NEW d \in [Texture -> Nat], NEW e \in [Texture -> Nat],
           \A t \in Texture : d[t] = e[t]
    PROVE  d = e
OBVIOUS

\* Framebuffer::setColorbuffer() gives the textures as many references as they are held by.
LEMMA AttachedHeld ==
    ASSUME NEW o, NEW e, Held(o, e, Names(o)), NEW c \in Context,
           NEW t \in Texture \cup {NONE}, t # NONE => o.texture[t].refs > 0,
           NEW p, p = Attached(o, c, t)
    PROVE  /\ Held(p, e, Names(p)) /\ Loose(o, p)
           /\ \A u \in Texture : p.texture[u].named = o.texture[u].named
           /\ p.context[c] = [o.context[c] EXCEPT !.attached = t]
           /\ \A d \in Context : d # c => p.context[d] = o.context[d]
<1>1. PICK x, old : x = o.context[c] /\ old = o.context[c].attached
  OBVIOUS
<1>2. o \in Store /\ x \in ContextType /\ old \in Texture \cup {NONE} /\ x.attached = old
  BY <1>1, HeldStore DEF ContextType
<1>3. PICK b : b = IF t = NONE \/ Proxied(o, t) THEN o ELSE [o EXCEPT !.texture[t].refs = @ + 1]
  OBVIOUS
<1>4. PICK m \in [Texture -> Nat] :
         /\ Held(b, e, m) /\ Frame(o, b)
         /\ \A u \in Texture : m[u] = One(o.texture[u].named) + One(Proxied(o, u) \/ u = t)
  <2>1. CASE t = NONE \/ Proxied(o, t)
    <3>1. b = o
      BY <1>3, <2>1
    <3>2. \A u \in Texture : One(Proxied(o, u) \/ u = t) = One(Proxied(o, u))
      BY <2>1 DEF One
    <3>3. \A u \in Texture : Names(o)[u] = One(o.texture[u].named) + One(Proxied(o, u) \/ u = t)
      BY <3>2, NamesType
    <3> QED
      BY <3>1, <3>3, NamesType, FrameReflexive
  <2>2. CASE ~(t = NONE \/ Proxied(o, t))
    <3>1. t \in Texture /\ b = [o EXCEPT !.texture[t].refs = @ + 1]
      BY <1>3, <2>2
    <3>2. Held(b, e, Plus(Names(o), t)) /\ Frame(o, b)
      BY <3>1, HeldTextureAddRef
    <3>3. /\ Plus(Names(o), t) \in [Texture -> Nat]
          /\ Plus(Names(o), t)[t] = Names(o)[t] + 1
          /\ \A u \in Texture : u # t => Plus(Names(o), t)[u] = Names(o)[u]
      <4>1. Names(o) \in [Texture -> Nat]
        BY NamesType
      <4> QED
        BY <3>1, <4>1, PlusMinus
    <3>4. One(Proxied(o, t)) = 0 /\ One(Proxied(o, t) \/ t = t) = 1
      BY <2>2 DEF One
    <3>5. \A u \in Texture : u # t => One(Proxied(o, u) \/ u = t) = One(Proxied(o, u))
      BY DEF One
    <3>6. \A u \in Texture : Plus(Names(o), t)[u]
                                = One(o.texture[u].named) + One(Proxied(o, u) \/ u = t)
      <4> SUFFICES ASSUME NEW u \in Texture
                   PROVE  Plus(Names(o), t)[u] =
                              One(o.texture[u].named) + One(Proxied(o, u) \/ u = t)
        OBVIOUS
      <4>1. Names(o)[u] = One(o.texture[u].named) + One(Proxied(o, u))
            /\ One(o.texture[u].named) \in {0, 1}
        BY NamesType
      <4>2. CASE u = t
        BY <3>3, <3>4, <4>1, <4>2
      <4>3. CASE u # t
        BY <3>3, <3>5, <4>1, <4>3
      <4> QED
        BY <4>2, <4>3
    <3> QED
      BY <3>2, <3>3, <3>6
  <2> QED
    BY <2>1, <2>2
<1>5. PICK r : r = [x EXCEPT !.attached = t]
  OBVIOUS
<1>6. r \in ContextType /\ r.attached = t /\ r.zero = x.zero /\ r.target = x.target
      /\ r.refs = x.refs
  BY <1>2, <1>5 DEF ContextType
<1>7. PICK d : d = WithContext(b, c, r)
  OBVIOUS
<1>8. /\ Held(d, e, m) /\ d.image = b.image /\ d.texture = b.texture /\ d.surface = b.surface
      /\ d.context[c] = r /\ \A u \in Context : u # c => d.context[u] = b.context[u]
  BY <1>4, <1>6, <1>7, HeldContext
<1>9. /\ b \in Store /\ b.context = o.context
      /\ \A u \in Texture : b.texture[u].named = o.texture[u].named
  <2>1. b \in Store
    BY <1>4, HeldStore
  <2> QED
    BY <1>4, <2>1 DEF Frame
<1>10. d = [b EXCEPT !.context[c].attached = t]
  BY <1>1, <1>5, <1>7, <1>9 DEF WithContext, Store
<1>11. \A u \in Texture : Proxied(o, u) \/ u = t <=> Proxied(d, u) \/ u = old
  <2> SUFFICES ASSUME NEW u \in Texture
               PROVE  Proxied(o, u) \/ u = t <=> Proxied(d, u) \/ u = old
    OBVIOUS
  <2>1. d.context[c].attached = t /\ o.context[c].attached = old
    BY <1>1, <1>6, <1>8
  <2>2. \A v \in Context : v # c => d.context[v].attached = o.context[v].attached
    BY <1>8, <1>9
  <2> QED
    BY <2>1, <2>2 DEF Proxied
<1>12. \A u \in Texture : m[u] = One(d.texture[u].named) + One(Proxied(d, u) \/ u = old)
  <2> SUFFICES ASSUME NEW u \in Texture
               PROVE  m[u] = One(d.texture[u].named) + One(Proxied(d, u) \/ u = old)
    OBVIOUS
  <2>1. One(Proxied(o, u) \/ u = t) = One(Proxied(d, u) \/ u = old)
    BY <1>11 DEF One
  <2>2. d.texture[u].named = o.texture[u].named
    BY <1>8, <1>9
  <2>3. One(d.texture[u].named) = One(o.texture[u].named)
    BY <2>2
  <2> QED
    BY <1>4, <2>1, <2>3
<1>13. Loose(o, d)
  <2>1. Loose(o, b)
    BY <1>4, FrameLoose
  <2> QED
    BY <1>8, <2>1 DEF Loose
<1>14. /\ Held(p, e, Names(p)) /\ Frame(d, p)
  <2>1. CASE old = NONE \/ Proxied(d, old)
    <3>1. p = d
      BY <1>1, <1>3, <1>10, <2>1 DEF Attached
    <3>2. \A u \in Texture : One(Proxied(d, u) \/ u = old) = One(Proxied(d, u))
      BY <2>1 DEF One
    <3>3. \A u \in Texture : m[u] = Names(d)[u]
      BY <1>12, <3>2, NamesType
    <3>4. m = Names(d)
      BY <3>3, NamesType, SameNames
    <3> QED
      BY <1>8, <3>1, <3>4, FrameReflexive
  <2>2. CASE ~(old = NONE \/ Proxied(d, old))
    <3>1. old \in Texture /\ p = TextureReleased(d, old)
      BY <1>1, <1>2, <1>3, <1>10, <2>2 DEF Attached
    <3>2. One(Proxied(d, old)) = 0 /\ One(Proxied(d, old) \/ old = old) = 1
      BY <2>2 DEF One
    <3>3. \A u \in Texture : u # old => One(Proxied(d, u) \/ u = old) = One(Proxied(d, u))
      BY DEF One
    <3>4. m[old] = One(d.texture[old].named) + 1 /\ One(d.texture[old].named) \in {0, 1}
      BY <1>12, <3>1, <3>2, NamesType
    <3>5. d.texture[old].named => One(d.texture[old].named) = 1
      BY DEF One
    <3>6. m[old] >= 1 /\ (d.texture[old].named => m[old] >= 2)
      BY <3>4, <3>5
    <3>7. Held(p, e, Minus(m, old)) /\ Frame(d, p)
      BY <1>8, <3>1, <3>6, HeldTextureReleased
    <3>8. /\ Minus(m, old) \in [Texture -> Nat]
          /\ Minus(m, old)[old] = m[old] - 1
          /\ \A u \in Texture : u # old => Minus(m, old)[u] = m[u]
      BY <3>1, <3>6, PlusMinus
    <3>9. \A u \in Texture : Minus(m, old)[u] = Names(d)[u]
      <4> SUFFICES ASSUME NEW u \in Texture PROVE Minus(m, old)[u] = Names(d)[u]
        OBVIOUS
      <4>1. Names(d)[u] = One(d.texture[u].named) + One(Proxied(d, u))
            /\ One(d.texture[u].named) \in {0, 1}
        BY NamesType
      <4>2. CASE u = old
        BY <3>2, <3>4, <3>8, <4>1, <4>2
      <4>3. CASE u # old
        BY <1>12, <3>3, <3>8, <4>1, <4>3
      <4> QED
        BY <4>2, <4>3
    <3>10. Minus(m, old) = Names(d)
      BY <3>8, <3>9, NamesType, SameNames
    <3>11. Names(p) = Names(d)
      BY <3>7, ExtraFrame
    <3> QED
      BY <3>7, <3>10, <3>11
  <2> QED
    BY <2>1, <2>2
<1>15. Loose(o, p) /\ p.context = d.context
  BY <1>13, <1>14, FrameLoose, LooseTransitive
<1>16. \A u \in Texture : p.texture[u].named = o.texture[u].named
  BY <1>8, <1>9, <1>14 DEF Frame
<1> QED
  BY <1>1, <1>5, <1>8, <1>9, <1>14, <1>15, <1>16

\* ResourceManager::deleteTexture(), while the objects may be in a deletion of a context
LEMMA NameDeletedHeld ==
    ASSUME NEW o, NEW e, Held(o, e, Names(o)), NEW t \in Texture, o.texture[t].named,
           NEW p, p = NameDeleted(o, t)
    PROVE  /\ Held(p, e, Names(p)) /\ Loose(o, p) /\ p.context = o.context
           /\ ~p.texture[t].named
           /\ \A u \in Texture : u # t => p.texture[u].named = o.texture[u].named
<1>1. PICK x, m : x = o.texture[t] /\ m = Names(o)
  OBVIOUS
<1>2. o \in Store /\ x \in TextureType /\ Linked(o) /\ (x.refs = 0 => x.surface = NONE)
  BY <1>1, HeldStore DEF TexturesCounted
<1>3. PICK r : r = [x EXCEPT !.named = FALSE]
  OBVIOUS
<1>4. r \in TextureType /\ r.refs = x.refs /\ r.level = x.level /\ r.surface = x.surface
  BY <1>2, <1>3 DEF TextureType
<1>5. ~r.named
  BY <1>2, <1>3 DEF TextureType
<1>6. PICK q : q = WithTexture(o, t, r)
  OBVIOUS
<1>7. q = [o EXCEPT !.texture[t].named = FALSE]
  BY <1>1, <1>2, <1>3, <1>6 DEF WithTexture, Store
<1>8. /\ q \in Store /\ q.image = o.image /\ q.surface = o.surface
      /\ q.context = o.context /\ q.dangling = o.dangling
      /\ q.texture[t] = r /\ \A u \in Texture : u # t => q.texture[u] = o.texture[u]
  BY <1>2, <1>4, <1>6, SetTexture
<1>9. Linked(q)
  <2>1. \A u \in Texture : q.texture[u].surface = o.texture[u].surface
    BY <1>1, <1>4, <1>8
  <2> QED
    BY <1>2, <1>8, <2>1 DEF Linked
<1>10. Held(q, e, m)
  <2>1. r.refs = o.texture[t].refs /\ r.level = o.texture[t].level
    BY <1>1, <1>4
  <2>2. r.named => m[t] >= 1
    BY <1>5
  <2>3. r.refs = 0 => r.surface = NONE
    BY <1>2, <1>4
  <2> QED
    BY <1>1, <1>4, <1>8, <1>9, <2>1, <2>2, <2>3, HeldTexture
<1>11. m \in [Texture -> Nat] /\ m[t] = 1 + One(Proxied(o, t)) /\ One(Proxied(o, t)) \in {0, 1}
  <2>1. One(x.named) = 1
    BY <1>1 DEF One
  <2> QED
    BY <1>1, <2>1, NamesType
<1>12. m[t] >= 1 /\ (q.texture[t].named => m[t] >= 2)
  BY <1>5, <1>8, <1>11
<1>13. p = TextureReleased(q, t)
  BY <1>7 DEF NameDeleted
<1>14. Held(p, e, Minus(m, t)) /\ Frame(q, p)
  BY <1>10, <1>12, <1>13, HeldTextureReleased
<1>15. Names(q) = Minus(m, t)
  <2>1. /\ Minus(m, t) \in [Texture -> Nat] /\ Minus(m, t)[t] = m[t] - 1
        /\ \A u \in Texture : u # t => Minus(m, t)[u] = m[u]
    BY <1>11, <1>12, PlusMinus
  <2>2. \A u \in Texture : Proxied(q, u) = Proxied(o, u)
    BY <1>8 DEF Proxied
  <2>3. Names(q)[t] = One(q.texture[t].named) + One(Proxied(q, t))
    BY NamesType
  <2>4. One(q.texture[t].named) = 0
    BY <1>5, <1>8 DEF One
  <2>5. Names(q)[t] = m[t] - 1
    BY <1>11, <2>2, <2>3, <2>4
  <2>6. \A u \in Texture : u # t => Names(q)[u] = m[u]
    <3> SUFFICES ASSUME NEW u \in Texture, u # t PROVE Names(q)[u] = m[u]
      OBVIOUS
    <3>1. q.texture[u] = o.texture[u] /\ Proxied(q, u) = Proxied(o, u)
      BY <1>8, <2>2
    <3>2. Names(q)[u] = One(o.texture[u].named) + One(Proxied(o, u))
      BY <3>1, NamesType
    <3>3. m[u] = One(o.texture[u].named) + One(Proxied(o, u))
      BY <1>1, NamesType
    <3> QED
      BY <3>2, <3>3
  <2>7. \A u \in Texture : Names(q)[u] = Minus(m, t)[u]
    BY <2>1, <2>5, <2>6
  <2> QED
    BY <2>1, <2>7, NamesType, SameNames
<1>16. Names(p) = Names(q)
  BY <1>14, ExtraFrame
<1>17. Loose(o, q)
  <2>1. \A u \in Texture : q.texture[u].surface = o.texture[u].surface
                           /\ q.texture[u].level = o.texture[u].level
    BY <1>1, <1>4, <1>8
  <2> QED
    BY <1>8, <2>1 DEF Loose
<1>18. Loose(o, p) /\ p.context = o.context
  BY <1>8, <1>14, <1>17, FrameLoose, LooseTransitive
<1>19. \A u \in Texture : p.texture[u].named = q.texture[u].named
  BY <1>14 DEF Frame
<1> QED
  BY <1>5, <1>8, <1>14, <1>15, <1>16, <1>18, <1>19

-----------------------------------------------------------------------------
(* The names that the last context deletes: a recursive function on their   *)
(* subsets, which is shown to exist                                         *)

\* What holds of a set if it holds of its smaller subsets, holds of all.
LEMMA SubsetInduction ==
    ASSUME NEW S, IsFiniteSet(S), NEW Good,
           \A T \in SUBSET S : (\A U \in SUBSET T : U # T => U \in Good) => T \in Good
    PROVE  \A T \in SUBSET S : T \in Good
<1> SUFFICES ASSUME NEW V \in SUBSET S, V \notin Good PROVE FALSE
  OBVIOUS
<1> DEFINE Bad == {T \in SUBSET S : T \notin Good}
<1>1. IsWellFoundedOn(StrictSubsetOrdering(S), SUBSET S)
  <2>1. IsWellFoundedOn(StrictSubsetOrdering(S), FiniteSubsetsOf(S))
    BY FS_StrictSubsetOrderingWellFounded
  <2>2. FiniteSubsetsOf(S) = SUBSET S
    BY FS_FiniteSubsetsOfFinite
  <2> QED
    BY <2>1, <2>2
<1>2. PICK T \in Bad : \A U \in Bad : <<U, T>> \notin StrictSubsetOrdering(S)
  <2>1. Bad \subseteq SUBSET S /\ Bad # {}
    OBVIOUS
  <2> HIDE DEF Bad
  <2> QED
    BY <1>1, <2>1, WFMin
<1>3. \A U \in SUBSET T : U # T => U \in Good
  BY <1>2 DEF StrictSubsetOrdering
<1> QED
  BY <1>3

Chosen(T) == CHOOSE t \in T : TRUE
WithoutStep(o, w, T) == IF T = {} THEN o ELSE NameDeleted(w[T \ {Chosen(T)}], Chosen(T))
IsWithout(o, w, S) == w = [T \in SUBSET S |-> WithoutStep(o, w, T)]
WithoutOf(o, S) == CHOOSE w : IsWithout(o, w, S)
SatisfiesWithout(o, w, S) == \A T \in SUBSET S : w[T] = WithoutStep(o, w, T)

LEMMA ChosenIn == ASSUME NEW T, T # {} PROVE Chosen(T) \in T
BY DEF Chosen

LEMMA WithoutUnique ==
    ASSUME NEW o, NEW S, IsFiniteSet(S), NEW v, NEW w,
           SatisfiesWithout(o, v, S), SatisfiesWithout(o, w, S)
    PROVE  v[S] = w[S]
<1> DEFINE Good == {T \in SUBSET S : v[T] = w[T]}
<1>1. ASSUME NEW T \in SUBSET S, \A U \in SUBSET T : U # T => U \in Good
      PROVE  T \in Good
  <2>1. CASE T = {}
    BY <2>1 DEF WithoutStep, SatisfiesWithout
  <2>2. CASE T # {}
    <3>1. Chosen(T) \in T
      BY <2>2, ChosenIn
    <3> DEFINE r == T \ {Chosen(T)}
    <3>2. r \in Good
      BY <1>1, <3>1
    <3>3. v[T] = NameDeleted(v[r], Chosen(T)) /\ w[T] = NameDeleted(w[r], Chosen(T))
      BY <2>2 DEF WithoutStep, SatisfiesWithout
    <3> QED
      BY <3>2, <3>3
  <2> QED
    BY <2>1, <2>2
<1> HIDE DEF Good
<1>2. \A T \in SUBSET S : T \in Good
  BY <1>1, SubsetInduction
<1> QED
  BY <1>2 DEF Good

LEMMA WithoutExists ==
    ASSUME NEW o, NEW S, IsFiniteSet(S)
    PROVE  \A T \in SUBSET S : IsWithout(o, WithoutOf(o, T), T)
<1> DEFINE Good == {T \in SUBSET S : IsWithout(o, WithoutOf(o, T), T)}
<1>1. ASSUME NEW T \in SUBSET S, \A U \in SUBSET T : U # T => U \in Good
      PROVE  T \in Good
  <2> DEFINE last == IF T = {} THEN o
                     ELSE NameDeleted(WithoutOf(o, T \ {Chosen(T)})[T \ {Chosen(T)}], Chosen(T))
             h == [U \in SUBSET T |-> IF U = T THEN last ELSE WithoutOf(o, U)[U]]
  <2>1. \A U \in SUBSET T : U # T => IsWithout(o, WithoutOf(o, U), U)
    BY <1>1
  <2>2. ASSUME NEW U \in SUBSET T
        PROVE  h[U] = WithoutStep(o, h, U)
    <3>1. CASE U = {}
      <4>1. U # T => WithoutOf(o, U)[U] = o
        BY <2>1, <3>1 DEF IsWithout, WithoutStep
      <4> QED
        BY <3>1, <4>1 DEF WithoutStep
    <3>2. CASE U # {} /\ U = T
      <4>1. Chosen(U) \in U
        BY <3>2, ChosenIn
      <4>2. h[U \ {Chosen(U)}] = WithoutOf(o, U \ {Chosen(U)})[U \ {Chosen(U)}]
        BY <4>1
      <4> QED
        BY <3>2, <4>2 DEF WithoutStep
    <3>3. CASE U # {} /\ U # T
      <4> DEFINE r == U \ {Chosen(U)}
      <4>1. Chosen(U) \in U /\ r \in SUBSET U /\ r # T /\ r # U /\ r \in SUBSET T
        BY <3>3, ChosenIn
      <4>2. IsWithout(o, WithoutOf(o, U), U) /\ IsWithout(o, WithoutOf(o, r), r)
        BY <2>1, <3>3, <4>1
      <4>3. WithoutOf(o, U)[U] = NameDeleted(WithoutOf(o, U)[r], Chosen(U))
        BY <3>3, <4>2 DEF IsWithout, WithoutStep
      <4>4. SatisfiesWithout(o, WithoutOf(o, U), r) /\ SatisfiesWithout(o, WithoutOf(o, r), r)
        BY <4>1, <4>2 DEF IsWithout, SatisfiesWithout
      <4>5. WithoutOf(o, U)[r] = WithoutOf(o, r)[r]
        <5>1. IsFiniteSet(r)
          <6>1. r \in SUBSET S
            OBVIOUS
          <6> QED
            BY <6>1, FS_Subset
        <5> HIDE DEF r
        <5> QED
          BY <4>4, <5>1, WithoutUnique
      <4>6. h[U] = WithoutOf(o, U)[U] /\ h[r] = WithoutOf(o, r)[r]
        BY <3>3, <4>1
      <4> HIDE DEF h
      <4>7. h[U] = NameDeleted(h[r], Chosen(U))
        BY <4>3, <4>5, <4>6
      <4> QED
        BY <3>3, <4>7 DEF WithoutStep
    <3> QED
      BY <3>1, <3>2, <3>3
  <2> HIDE DEF last
  <2>3. IsWithout(o, h, T)
    BY <2>2 DEF IsWithout
  <2> HIDE DEF h
  <2>4. IsWithout(o, WithoutOf(o, T), T)
    BY <2>3 DEF WithoutOf
  <2> QED
    BY <2>4
<1> HIDE DEF Good
<1>2. \A T \in SUBSET S : T \in Good
  BY <1>1, SubsetInduction
<1> QED
  BY <1>2 DEF Good

\* How all names in S are deleted
LEMMA WithoutHeld ==
    ASSUME NEW o, NEW e, Held(o, e, Names(o)), NEW S \in SUBSET Texture,
           \A t \in S : o.texture[t].named,
           NEW p, p = WithoutOf(o, S)[S]
    PROVE  /\ Held(p, e, Names(p)) /\ Loose(o, p) /\ p.context = o.context
           /\ \A t \in S : ~p.texture[t].named
           /\ \A t \in Texture \ S : p.texture[t].named = o.texture[t].named
<1>1. IsFiniteSet(S)
  BY Finite, FS_Subset
<1>2. IsWithout(o, WithoutOf(o, S), S)
  BY <1>1, WithoutExists
<1>3. PICK w : w = WithoutOf(o, S)
  OBVIOUS
<1> DEFINE Kept(T) == /\ Held(w[T], e, Names(w[T])) /\ Loose(o, w[T])
                      /\ w[T].context = o.context
                      /\ \A t \in T : ~w[T].texture[t].named
                      /\ \A t \in Texture \ T : w[T].texture[t].named = o.texture[t].named
           Good == {T \in SUBSET S : Kept(T)}
<1>4. ASSUME NEW T \in SUBSET S, \A U \in SUBSET T : U # T => U \in Good
      PROVE  T \in Good
  <2>1. w[T] = WithoutStep(o, w, T)
    BY <1>2, <1>3 DEF IsWithout
  <2>2. CASE T = {}
    <3>1. w[T] = o
      BY <2>1, <2>2 DEF WithoutStep
    <3> QED
      BY <2>2, <3>1, FrameReflexive, FrameLoose
  <2>3. CASE T # {}
    <3>1. PICK t : t = Chosen(T)
      OBVIOUS
    <3>2. t \in T /\ t \in Texture /\ o.texture[t].named
      BY <2>3, <3>1, ChosenIn
    <3>3. PICK r : r = T \ {t}
      OBVIOUS
    <3>4. r \in SUBSET T /\ r # T /\ t \notin r
      BY <3>2, <3>3
    <3>5. Kept(r)
      BY <1>4, <3>4
    <3>6. PICK b, d : b = w[r] /\ d = w[T]
      OBVIOUS
    <3>7. d = NameDeleted(b, t)
      BY <2>1, <2>3, <3>1, <3>3, <3>6 DEF WithoutStep
    <3>8. /\ Held(b, e, Names(b)) /\ Loose(o, b) /\ b.context = o.context
          /\ \A u \in r : ~b.texture[u].named
          /\ \A u \in Texture \ r : b.texture[u].named = o.texture[u].named
      BY <3>5, <3>6
    <3>9. b.texture[t].named
      BY <3>2, <3>4, <3>8
    <3>10. /\ Held(d, e, Names(d)) /\ Loose(b, d) /\ d.context = b.context
           /\ ~d.texture[t].named
           /\ \A u \in Texture : u # t => d.texture[u].named = b.texture[u].named
      BY <3>2, <3>7, <3>8, <3>9, NameDeletedHeld
    <3>11. Loose(o, d)
      BY <3>8, <3>10, LooseTransitive
    <3>12. \A u \in T : ~d.texture[u].named
      <4> SUFFICES ASSUME NEW u \in T PROVE ~d.texture[u].named
        OBVIOUS
      <4>1. CASE u = t
        BY <3>10, <4>1
      <4>2. CASE u # t
        BY <3>3, <3>8, <3>10, <4>2
      <4> QED
        BY <4>1, <4>2
    <3>13. \A u \in Texture \ T : d.texture[u].named = o.texture[u].named
      BY <3>2, <3>3, <3>8, <3>10
    <3>14. Kept(T)
      BY <3>6, <3>8, <3>10, <3>11, <3>12, <3>13
    <3> QED
      BY <3>14
  <2> QED
    BY <2>2, <2>3
<1> HIDE DEF Good
<1>5. S \in Good
  BY <1>1, <1>4, SubsetInduction
<1> QED
  BY <1>3, <1>5 DEF Good

LEMMA ContextDeletedIs ==
    ASSUME NEW o, NEW c, NEW f, f = Attached(Released(o, o.context[c].zero), c, NONE),
           NEW N, N = IF \E d \in Context \ {c} : o.context[d].refs > 0 THEN {}
                      ELSE {t \in Texture : o.texture[t].named}
    PROVE  ContextDeleted(o, c)
             = WithContext(Released(WithoutOf(f, N)[N], o.context[c].target), c, NoContext)
BY DEF ContextDeleted, WithContext, WithoutOf, IsWithout, WithoutStep, Chosen

LEMMA ContextDeletedSound ==
    ASSUME NEW o, Sound(o), NEW c \in Context, o.context[c].refs > 0,
           NEW p, p = ContextDeleted(o, c)
    PROVE  /\ Sound(p) /\ Steady(o, p)
           /\ p.context[c] = NoContext
           /\ \A u \in Context : u # c => p.context[u] = o.context[u]
<1>1. /\ Held(o, Extra(o), Names(o)) /\ Tidy(o) /\ o \in Store
      /\ o.context[c] \in ContextType
  BY SoundHeld, HeldStore
<1>2. PICK x, e, z, g : x = o.context[c] /\ e = Extra(o) /\ z = o.context[c].zero
                        /\ g = o.context[c].target
  OBVIOUS
<1>3. /\ z \in Image \cup {NONE} /\ g \in Image \cup {NONE} /\ x \in ContextType
      /\ x.zero = z /\ x.target = g
  BY <1>1, <1>2 DEF ContextType
<1>4. e \in [Image -> Nat]
  BY <1>2, ExtraType
<1>5. PICK a : a = Released(o, z)
  OBVIOUS
<1>6. Held(a, Minus(e, z), Names(a)) /\ Frame(o, a)
  <2>1. z # NONE => e[z] >= 1 /\ (o.image[z].shared => e[z] >= 2)
    BY <1>2, <1>3, ExtraHolders
  <2>2. Held(a, Minus(e, z), Names(o)) /\ Frame(o, a)
    BY <1>1, <1>2, <1>3, <1>5, <2>1, HeldReleased
  <2> QED
    BY <2>2, ExtraFrame
<1>7. PICK n : n = Minus(e, z)
  OBVIOUS
<1>8. n \in [Image -> Nat] /\ \A j \in Image : n[j] = e[j] - One(z = j)
  <2>1. n \in [Image -> Nat]
    BY <1>6, <1>7 DEF Held
  <2> QED
    BY <1>3, <1>4, <1>7, <2>1, PlusMinusAt
<1>9. PICK f : f = Attached(a, c, NONE)
  OBVIOUS
<1>10. /\ Held(f, n, Names(f)) /\ Loose(a, f)
       /\ \A u \in Texture : f.texture[u].named = a.texture[u].named
       /\ f.context[c] = [a.context[c] EXCEPT !.attached = NONE]
       /\ \A d \in Context : d # c => f.context[d] = a.context[d]
  BY <1>6, <1>7, <1>9, AttachedHeld
<1>11. PICK N : N = IF \E d \in Context \ {c} : o.context[d].refs > 0 THEN {}
                    ELSE {t \in Texture : o.texture[t].named}
  OBVIOUS
<1>12. PICK w : w = WithoutOf(f, N)[N]
  OBVIOUS
<1>13. Held(w, n, Names(w)) /\ Loose(f, w) /\ w.context = f.context
  <2>1. N \in SUBSET Texture /\ \A t \in N : o.texture[t].named
    BY <1>11
  <2>2. \A t \in Texture : f.texture[t].named = o.texture[t].named
    BY <1>6, <1>10 DEF Frame
  <2>3. \A t \in N : f.texture[t].named
    BY <2>1, <2>2
  <2> QED
    BY <1>10, <1>12, <2>1, <2>3, WithoutHeld
<1>14. Loose(o, w)
  BY <1>6, <1>10, <1>13, FrameLoose, LooseTransitive
<1>15. PICK r : r = Released(w, g)
  OBVIOUS
<1>16. g # NONE => n[g] >= 1 /\ (w.image[g].shared => n[g] >= 2)
  <2>1. g # NONE => e[g] >= 1 /\ (o.image[g].shared => e[g] >= 2)
    BY <1>2, <1>3, ExtraHolders
  <2>2. g # NONE /\ z = g => e[g] >= 2 /\ (o.image[g].shared => e[g] >= 3)
    BY <1>2, <1>3, ExtraHolders
  <2>3. g # NONE => w.image[g].shared = o.image[g].shared
    BY <1>3, <1>14 DEF Loose
  <2>4. g # NONE => n[g] = e[g] - One(z = g) /\ e[g] \in Nat
    BY <1>3, <1>4, <1>8
  <2>5. CASE z = g
    <3>1. One(z = g) = 1
      BY <2>5 DEF One
    <3> QED
      BY <2>2, <2>3, <2>4, <2>5, <3>1
  <2>6. CASE z # g
    <3>1. One(z = g) = 0
      BY <2>6 DEF One
    <3> QED
      BY <2>1, <2>3, <2>4, <3>1
  <2> QED
    BY <2>5, <2>6
<1>17. Held(r, Minus(n, g), Names(r)) /\ Frame(w, r)
  <2>1. Held(r, Minus(n, g), Names(w)) /\ Frame(w, r)
    BY <1>3, <1>13, <1>15, <1>16, HeldReleased
  <2> QED
    BY <2>1, ExtraFrame
<1>18. Loose(o, r) /\ r.context = f.context
  BY <1>13, <1>14, <1>17, FrameLoose, LooseTransitive
<1>19. /\ r.context[c] = [x EXCEPT !.attached = NONE]
       /\ \A d \in Context : d # c => r.context[d] = o.context[d]
  <2>1. a.context = o.context
    BY <1>6 DEF Frame
  <2> QED
    BY <1>2, <1>10, <1>18, <2>1
<1>20. /\ r.context[c].zero = z /\ r.context[c].target = g /\ r.context[c].attached = NONE
       /\ r.context[c].refs = x.refs
  BY <1>3, <1>19 DEF ContextType
<1>21. Extra(r) = e
  <2>1. \A d \in Context : r.context[d].zero = o.context[d].zero
                           /\ r.context[d].target = o.context[d].target
    BY <1>2, <1>19, <1>20
  <2> QED
    BY <1>2, <1>18, <2>1, ExtraLoose
<1>22. r \in Store
  BY <1>17, HeldStore
<1>23. Tidy(r)
  <2>1. \A d \in Context : o.context[d].refs = 0 => o.context[d] = NoContext
    BY <1>1 DEF Tidy
  <2>2. \A d \in Context : /\ r.context[d].zero = o.context[d].zero
                           /\ r.context[d].refs = 0 => r.context[d] = NoContext
    <3> SUFFICES ASSUME NEW d \in Context
                 PROVE  /\ r.context[d].zero = o.context[d].zero
                        /\ r.context[d].refs = 0 => r.context[d] = NoContext
      OBVIOUS
    <3>1. CASE d = c
      <4>1. r.context[c].refs = o.context[c].refs /\ o.context[c].refs # 0
        BY <1>1, <1>2, <1>20 DEF ContextType
      <4> QED
        BY <1>2, <1>20, <3>1, <4>1
    <3>2. CASE d # c
      BY <1>19, <2>1, <3>2
    <3> QED
      BY <3>1, <3>2
  <2> QED
    BY <1>1, <1>18, <1>22, <2>2, TidyLoose
<1>24. p = WithContext(r, c, NoContext)
  BY <1>2, <1>5, <1>9, <1>11, <1>12, <1>15, ContextDeletedIs
<1>25. /\ NoContext \in ContextType /\ NoContext.zero = NONE /\ NoContext.target = NONE
       /\ NoContext.attached = NONE
  BY DEF NoContext, ContextType
<1>26. \A j \in Image : Minus(n, g)[j]
                          = Extra(r)[j] + One(NoContext.zero = j) - One(r.context[c].zero = j)
                              + One(NoContext.target = j) - One(r.context[c].target = j)
  <2>1. \A j \in Image : Minus(n, g)[j] = n[j] - One(g = j) /\ One(g = j) \in {0, 1}
    BY <1>3, <1>8, PlusMinusAt
  <2>2. \A j \in Image : One(NONE = j) = 0
    BY DEF One
  <2>3. \A j \in Image : One(z = j) \in {0, 1} /\ e[j] \in Nat
    BY <1>3, <1>4, PlusMinusAt
  <2> QED
    BY <1>8, <1>20, <1>21, <1>25, <2>1, <2>2, <2>3
<1>27. /\ Exact(p) /\ p.image = r.image /\ p.texture = r.texture /\ p.surface = r.surface
       /\ p.context[c] = NoContext /\ \A u \in Context : u # c => p.context[u] = r.context[u]
  <2>1. NoContext.attached = r.context[c].attached
    BY <1>20, <1>25
  <2> QED
    BY <1>17, <1>24, <1>25, <1>26, <2>1, ContextSet
<1>28. Tidy(p)
  BY <1>23, <1>25, <1>27, TidyContext
<1>29. Steady(o, p)
  BY <1>18, <1>27 DEF Loose, Steady
<1> QED
  BY <1>19, <1>27, <1>28, <1>29 DEF Sound

\* The reference of a thread or of the display to a context is given back.
LEMMA ContextReleasedSound ==
    ASSUME NEW o, Sound(o), NEW c \in Context, o.context[c].refs > 0,
           NEW p, p = ContextReleased(o, c)
    PROVE  /\ Sound(p) /\ Steady(o, p)
           /\ o.context[c].refs = 1 => p.context[c] = NoContext
           /\ o.context[c].refs > 1 => /\ p.context[c].refs = o.context[c].refs - 1
                                       /\ p.context[c].zero = o.context[c].zero
                                       /\ p.context[c].inSet = o.context[c].inSet
           /\ \A u \in Context : u # c => p.context[u] = o.context[u]
<1>1. o \in Store /\ o.context[c] \in ContextType /\ c # NONE
  <2>1. c # NONE
    OBVIOUS
  <2> QED
    BY <2>1, SoundHeld, HeldStore
<1>2. PICK x : x = o.context[c]
  OBVIOUS
<1>3. x.refs \in Nat /\ x.refs > 0
  BY <1>1, <1>2 DEF ContextType
<1>4. CASE x.refs = 1
  <2>1. p = ContextDeleted(o, c)
    BY <1>1, <1>2, <1>4 DEF ContextReleased
  <2>2. /\ Sound(p) /\ Steady(o, p) /\ p.context[c] = NoContext
        /\ \A u \in Context : u # c => p.context[u] = o.context[u]
    BY <2>1, ContextDeletedSound
  <2> QED
    BY <1>2, <1>4, <2>2
<1>5. CASE x.refs # 1
  <2>1. PICK k \in Nat : k = x.refs - 1 /\ k > 0
    BY <1>3, <1>5
  <2>2. PICK r : r = [x EXCEPT !.refs = k]
    OBVIOUS
  <2>3. r \in ContextType /\ r.refs = k /\ r.zero = x.zero /\ r.target = x.target
        /\ r.attached = x.attached /\ r.inSet = x.inSet
    BY <1>1, <1>2, <2>1, <2>2 DEF ContextType
  <2>4. p = WithContext(o, c, r)
    <3>1. p = [o EXCEPT !.context[c].refs = @ - 1]
      BY <1>1, <1>2, <1>5 DEF ContextReleased
    <3> QED
      BY <1>1, <1>2, <2>1, <2>2, <3>1 DEF WithContext, Store
  <2>5. r.refs # 0
    BY <2>1, <2>3
  <2>6. /\ Sound(p) /\ p.surface = o.surface
        /\ p.context[c] = r /\ \A u \in Context : u # c => p.context[u] = o.context[u]
    BY <1>2, <2>3, <2>4, <2>5, ContextKept
  <2>7. Steady(o, p)
    BY <2>6 DEF Steady
  <2> QED
    BY <1>2, <1>5, <2>1, <2>3, <2>6, <2>7
<1> QED
  BY <1>4, <1>5

-----------------------------------------------------------------------------
(* Images that are created, and the calls on textures                       *)

LEMMA ExtraSame ==
    ASSUME NEW o, NEW p,
           \A s \in Surface : p.surface[s].back = o.surface[s].back,
           \A c \in Context : p.context[c].zero = o.context[c].zero
                              /\ p.context[c].target = o.context[c].target,
           \A i \in Image : p.image[i].shared = o.image[i].shared
    PROVE  Extra(p) = Extra(o)
<1>1. Backs(p) = Backs(o)
  BY DEF Backs
<1>2. Zeros(p) = Zeros(o) /\ Targets(p) = Targets(o)
  BY DEF Zeros, Targets
<1> QED
  BY <1>1, <1>2 DEF Extra

LEMMA NamesSame ==
    ASSUME NEW o, NEW p, p.context = o.context,
           \A t \in Texture : p.texture[t].named = o.texture[t].named
    PROVE  Names(p) = Names(o)
<1>1. \A t \in Texture : Proxied(p, t) = Proxied(o, t)
  BY DEF Proxied
<1> QED
  BY <1>1 DEF Names

\* An image becomes an EGLImage, or is one no more.
LEMMA ExtraShared ==
    ASSUME NEW o, NEW p, p.context = o.context,
           \A s \in Surface : p.surface[s].back = o.surface[s].back,
           NEW i \in Image,
           \A j \in Image : j # i => p.image[j].shared = o.image[j].shared
    PROVE  /\ \A j \in Image : j # i => Extra(p)[j] = Extra(o)[j]
           /\ p.image[i].shared /\ ~o.image[i].shared => Extra(p)[i] = Extra(o)[i] + 1
           /\ ~p.image[i].shared /\ o.image[i].shared => Extra(p)[i] = Extra(o)[i] - 1
<1>1. Backs(p) = Backs(o)
  BY DEF Backs
<1>2. Zeros(p) = Zeros(o) /\ Targets(p) = Targets(o)
  BY DEF Zeros, Targets
<1>3. \A j \in Image : j # i => One(p.image[j].shared) = One(o.image[j].shared)
  OBVIOUS
<1>4. \A j \in Image : j # i => Extra(p)[j] = Extra(o)[j]
  <2> SUFFICES ASSUME NEW j \in Image, j # i PROVE Extra(p)[j] = Extra(o)[j]
    OBVIOUS
  <2>1. Extra(p)[j] = Pointing(Surface, Backs(p), j) + Pointing(Context, Zeros(p), j)
                        + Pointing(Context, Targets(p), j) + One(p.image[j].shared)
    BY ExtraType
  <2>2. Extra(o)[j] = Pointing(Surface, Backs(o), j) + Pointing(Context, Zeros(o), j)
                        + Pointing(Context, Targets(o), j) + One(o.image[j].shared)
    BY ExtraType
  <2> QED
    BY <1>1, <1>2, <1>3, <2>1, <2>2
<1>5. PICK k : k = Pointing(Surface, Backs(o), i) + Pointing(Context, Zeros(o), i)
                        + Pointing(Context, Targets(o), i)
  OBVIOUS
<1>6. k \in Nat
  <2>1. Pointing(Surface, Backs(o), i) \in Nat
    BY ExtraType
  <2>2. Pointing(Context, Zeros(o), i) \in Nat
    BY ExtraType
  <2>3. Pointing(Context, Targets(o), i) \in Nat
    BY ExtraType
  <2> QED
    BY <1>5, <2>1, <2>2, <2>3
<1>7. Extra(p)[i] = k + One(p.image[i].shared)
  <2>1. Extra(p)[i] = Pointing(Surface, Backs(p), i) + Pointing(Context, Zeros(p), i)
                        + Pointing(Context, Targets(p), i) + One(p.image[i].shared)
    BY ExtraType
  <2> QED
    BY <1>1, <1>2, <1>5, <2>1
<1>8. Extra(o)[i] = k + One(o.image[i].shared)
  BY <1>5, ExtraType
<1>9. p.image[i].shared /\ ~o.image[i].shared =>
         One(p.image[i].shared) = 1 /\ One(o.image[i].shared) = 0
  BY DEF One
<1>10. ~p.image[i].shared /\ o.image[i].shared =>
         One(p.image[i].shared) = 0 /\ One(o.image[i].shared) = 1
  BY DEF One
<1> QED
  BY <1>4, <1>6, <1>7, <1>8, <1>9, <1>10

\* Images and textures change, and nothing that Tidy() is about.
LEMMA TidyImages ==
    ASSUME NEW o, NEW p, Tidy(o), p.context = o.context, p.surface = o.surface,
           \A s \in Surface : o.surface[s].back # NONE =>
              p.image[o.surface[s].back].parent \in {NONE, o.image[o.surface[s].back].parent},
           \A c \in Context : o.context[c].zero # NONE =>
              p.image[o.context[c].zero].parent \in {NONE, o.image[o.context[c].zero].parent}
    PROVE  Tidy(p)
BY DEF Tidy

LEMMA NewImageFree ==
    ASSUME NEW o, NEW j \in Image, o.image[j].refs = 0
    PROVE  NewImage(o) \in Image /\ o.image[NewImage(o)].refs = 0
BY DEF NewImage

LEMMA NewImageRecord ==
    ASSUME NEW u \in Texture \cup {NONE}, NEW r, r = [NoImage EXCEPT !.refs = 1, !.parent = u]
    PROVE  r \in ImageType /\ r.refs = 1 /\ r.parent = u /\ ~r.shared
BY DEF NoImage, ImageType

\* A surface that no texture is bound to gets a new back buffer.
LEMMA ResetSound ==
    ASSUME NEW o, Sound(o), NEW s \in Surface, o.surface[s].refs > 0,
           o.surface[s].texture = NONE,
           NEW k \in Image, o.image[k].refs = 0,
           NEW p, p = Reset(o, s)
    PROVE  /\ Sound(p) /\ p.context = o.context
           /\ \A u \in Surface : u # s => /\ p.surface[u].refs = o.surface[u].refs
                                          /\ p.surface[u].back = o.surface[u].back
                                          /\ p.surface[u].inSet = o.surface[u].inSet
           /\ p.surface[s].refs = o.surface[s].refs
           /\ p.surface[s].inSet = o.surface[s].inSet
<1>1. /\ Held(o, Extra(o), Names(o)) /\ Tidy(o) /\ o \in Store
      /\ o.surface[s] \in SurfaceType
  BY SoundHeld, HeldStore
<1>2. PICK e, x, b : e = Extra(o) /\ x = o.surface[s] /\ b = o.surface[s].back
  OBVIOUS
<1>3. b \in Image \cup {NONE} /\ x \in SurfaceType /\ x.back = b /\ x.texture = NONE
  BY <1>1, <1>2 DEF SurfaceType
<1>4. e \in [Image -> Nat]
  BY <1>2, ExtraType
<1>5. PICK q : q = Released(o, b)
  OBVIOUS
<1>6. PICK d : d = Minus(e, b)
  OBVIOUS
<1>7. Held(q, d, Names(o)) /\ Frame(o, q)
  <2>1. b # NONE => e[b] >= 1 /\ (o.image[b].shared => e[b] >= 2)
    BY <1>2, <1>3, ExtraHolders
  <2> QED
    BY <1>1, <1>2, <1>3, <1>5, <1>6, <2>1, HeldReleased
<1>8. \A j \in Image : d[j] = e[j] - One(b = j) /\ One(b = j) \in {0, 1} /\ e[j] \in Nat
  BY <1>3, <1>4, <1>6, PlusMinusAt
<1>9. /\ q \in Store /\ q.context = o.context /\ Extra(q) = e /\ Names(q) = Names(o) /\ Tidy(q)
      /\ q.surface[s].texture = NONE /\ q.surface[s].back = b
      /\ q.surface[s].refs = x.refs /\ q.surface[s].inSet = x.inSet
      /\ Steady(o, q)
  <2>1. q \in Store
    BY <1>7, HeldStore
  <2>2. Tidy(q)
    BY <1>1, <1>7, <2>1, TidyFrame
  <2>3. /\ q.context = o.context /\ q.surface[s].texture = NONE /\ q.surface[s].back = b
        /\ q.surface[s].refs = x.refs /\ q.surface[s].inSet = x.inSet
    BY <1>2, <1>3, <1>7 DEF Frame
  <2> QED
    BY <1>2, <1>7, <2>1, <2>2, <2>3, ExtraFrame, FrameSteady
<1>10. q.image[k].refs = 0
  <2>1. d[k] <= e[k]
    BY <1>8
  <2> QED
    BY <1>1, <1>2, <1>7, <2>1, HeldFree
<1>11. PICK y : y = [q.surface[s] EXCEPT !.texture = NONE, !.back = NONE]
  OBVIOUS
<1>12. /\ y \in SurfaceType /\ y.texture = NONE /\ y.back = NONE /\ y.refs = x.refs
       /\ y.inSet = x.inSet
  <2>1. q.surface[s] \in SurfaceType
    BY <1>9 DEF Store
  <2> QED
    BY <1>9, <1>11, <2>1 DEF SurfaceType
<1>13. PICK l : l = WithoutResources(o, s)
  OBVIOUS
<1>14. l = WithSurface(q, s, y)
  <2>1. l = [q EXCEPT !.surface[s].texture = NONE, !.surface[s].back = NONE]
    BY <1>2, <1>5, <1>13 DEF WithoutResources
  <2>2. [q EXCEPT !.surface[s].texture = NONE, !.surface[s].back = NONE]
           = WithSurface(q, s, [q.surface[s] EXCEPT !.texture = NONE, !.back = NONE])
    BY <1>9, Cleared, Zenon
  <2> QED
    BY <1>11, <2>1, <2>2
<1>15. /\ Exact(l) /\ l.image = q.image /\ l.texture = q.texture /\ l.context = q.context
       /\ l.surface[s] = y /\ \A u \in Surface : u # s => l.surface[u] = q.surface[u]
  <2>1. \A j \in Image : d[j] = Extra(q)[j] + One(y.back = j) - One(q.surface[s].back = j)
    <3>1. \A j \in Image : One(NONE = j) = 0
      BY DEF One
    <3> QED
      BY <1>8, <1>9, <1>12, <3>1
  <2>2. y.texture = q.surface[s].texture
    BY <1>9, <1>12
  <2>3. Held(q, d, Names(q))
    BY <1>7, <1>9
  <2> QED
    BY <1>12, <1>14, <2>1, <2>2, <2>3, SurfaceSet
<1>16. PICK i, r : i = NewImage(l) /\ r = [NoImage EXCEPT !.refs = 1, !.parent = NONE]
  OBVIOUS
<1>17. i \in Image /\ l.image[i].refs = 0
  BY <1>10, <1>15, <1>16, NewImageFree
<1>18. r \in ImageType /\ r.refs = 1 /\ r.parent = NONE /\ ~r.shared
  BY <1>16, NewImageRecord
<1>19. PICK n : n = WithImage(l, i, r)
  OBVIOUS
<1>20. Created(l, NONE) = n
  BY <1>16, <1>19 DEF Created, WithImage
<1>21. /\ Held(n, Plus(Extra(l), i), Names(l)) /\ Frame(l, n) /\ n.surface = l.surface
       /\ n.image[i].parent = NONE
  <2>1. Held(l, Extra(l), Names(l))
    BY <1>15, ExactHeld
  <2> QED
    BY <1>17, <1>18, <1>19, <2>1, HeldCreated
<1>22. Extra(n) = Extra(l) /\ Names(n) = Names(l) /\ n \in Store
  BY <1>21, ExtraFrame, HeldStore
<1>23. PICK v : v = [y EXCEPT !.back = i]
  OBVIOUS
<1>24. /\ v \in SurfaceType /\ v.back = i /\ v.texture = NONE /\ v.refs = x.refs
       /\ v.inSet = x.inSet
  BY <1>12, <1>17, <1>23 DEF SurfaceType
<1>25. n.surface[s] = y
  BY <1>15, <1>21
<1>26. p = WithSurface(n, s, v)
  <2>1. p = [n EXCEPT !.surface[s].back = i]
    BY <1>13, <1>16, <1>20 DEF Reset
  <2> QED
    BY <1>22, <1>23, <1>25, <2>1 DEF WithSurface, Store
<1>27. /\ Exact(p) /\ p.image = n.image /\ p.texture = n.texture /\ p.context = n.context
       /\ p.surface[s] = v /\ \A u \in Surface : u # s => p.surface[u] = n.surface[u]
  <2>1. \A j \in Image : Plus(Extra(l), i)[j]
                           = Extra(n)[j] + One(v.back = j) - One(n.surface[s].back = j)
    <3>1. \A j \in Image : One(NONE = j) = 0
      BY DEF One
    <3>2. \A j \in Image : /\ Plus(Extra(l), i)[j] = Extra(l)[j] + One(i = j)
                           /\ Extra(l)[j] \in Nat /\ One(i = j) \in {0, 1}
      <4>1. Extra(l) \in [Image -> Nat]
        BY ExtraType
      <4> QED
        BY <1>17, <4>1, PlusMinusAt
    <3> QED
      BY <1>12, <1>22, <1>24, <1>25, <3>1, <3>2
  <2>2. v.texture = n.surface[s].texture
    BY <1>12, <1>24, <1>25
  <2>3. Held(n, Plus(Extra(l), i), Names(n))
    BY <1>21, <1>22
  <2> QED
    BY <1>24, <1>26, <2>1, <2>2, <2>3, SurfaceSet
<1>28. Tidy(p)
  <2>1. x.refs \in Nat /\ x.refs # 0
    BY <1>2, <1>3 DEF SurfaceType
  <2>2. Tidy(l)
    BY <1>9, <1>12, <1>15, <2>1, TidySurface
  <2>3. Tidy(n)
    <3>1. l \in Store
      BY <1>15, ExactHeld
    <3> QED
      BY <1>21, <1>22, <2>2, <3>1, TidyFrame
  <2>4. v.refs # 0
    BY <1>24, <2>1
  <2> QED
    BY <1>21, <1>24, <1>27, <2>3, <2>4, TidySurface
<1>29. p.context = o.context
  <2>1. n.context = l.context
    BY <1>21 DEF Frame
  <2> QED
    BY <1>9, <1>15, <1>27, <2>1
<1>30. \A u \in Surface : u # s => p.surface[u] = q.surface[u]
  BY <1>15, <1>21, <1>27
<1> QED
  BY <1>2, <1>9, <1>24, <1>27, <1>28, <1>29, <1>30 DEF Sound, Steady

\* Nobody else refers to a texture's own image.
Alone(o, t) == Own(o, t) => Total(o, Extra(o))[o.texture[t].level] = 0

\* eglReleaseTexImage()
LEMMA TexImageReleasedSound ==
    ASSUME NEW o, Sound(o), NEW t \in Texture, o.texture[t].refs > 0, Alone(o, t),
           NEW p, p = TexImageReleased(o, t)
    PROVE  Sound(p) /\ Frame(o, p)
<1>1. Held(o, Extra(o), Names(o)) /\ Tidy(o) /\ o \in Store
  BY SoundHeld
<1>2. p = Unbound(o, t)
  <2>1. o.texture[t].refs # 0
    <3>1. o.texture[t].refs \in Nat
      BY <1>1, HeldStore
    <3> QED
      BY <3>1
  <2> QED
    BY <2>1 DEF TexImageReleased
<1>3. Held(p, Extra(o), Names(o)) /\ Frame(o, p)
  BY <1>1, <1>2, HeldUnbound DEF Alone
<1>4. Extra(p) = Extra(o) /\ Names(p) = Names(o) /\ p \in Store
  BY <1>3, ExtraFrame, HeldStore
<1>5. Tidy(p)
  BY <1>1, <1>3, <1>4, TidyFrame
<1> QED
  BY <1>3, <1>4, <1>5 DEF Sound, Exact

\* No pointer of a surface or a context is to a free image.
LEMMA FreeImage ==
    ASSUME NEW o, NEW e, NEW m, Held(o, e, m), NEW i \in Image, o.image[i].refs = 0,
           e = Extra(o)
    PROVE  /\ \A s \in Surface : o.surface[s].back # i
           /\ \A c \in Context : o.context[c].zero # i /\ o.context[c].target # i
           /\ ~o.image[i].shared
<1>1. e[i] = 0 /\ ~o.image[i].shared
  BY HeldNone
<1>2. /\ \A s \in Surface : o.surface[s].back = i => Extra(o)[i] >= 1
      /\ \A c \in Context : o.context[c].zero = i \/ o.context[c].target = i => Extra(o)[i] >= 1
  BY ExtraHolders
<1>3. ~(e[i] >= 1)
  BY <1>1
<1> QED
  BY <1>1, <1>2, <1>3

\* A name is a reference to its texture.
LEMMA Named ==
    ASSUME NEW o, NEW t \in Texture, o.texture[t].named
    PROVE  Names(o)[t] >= 1
<1>1. One(o.texture[t].named) = 1
  BY DEF One
<1>2. /\ Names(o)[t] = One(o.texture[t].named) + One(Proxied(o, t))
      /\ One(Proxied(o, t)) \in {0, 1}
  BY NamesType
<1> QED
  BY <1>1, <1>2

\* glTexImage2D()
LEMMA SpecifiedSound ==
    ASSUME NEW o, Sound(o), NEW t \in Texture, o.texture[t].named, Alone(o, t),
           NEW k \in Image, o.image[k].refs = 0,
           NEW p, p = Specified(o, t)
    PROVE  Sound(p) /\ Steady(o, p) /\ p.context = o.context
<1>1. Held(o, Extra(o), Names(o)) /\ Tidy(o) /\ o \in Store
  BY SoundHeld
<1>2. PICK e, m, q : e = Extra(o) /\ m = Names(o) /\ q = Unbound(o, t)
  OBVIOUS
<1>3. Held(q, e, m) /\ Frame(o, q) /\ q.texture[t].level = NONE
  BY <1>1, <1>2, HeldUnbound DEF Alone
<1>4. e = Extra(q) /\ m = Names(q) /\ q \in Store /\ Steady(o, q) /\ q.context = o.context
  <2>1. q.context = o.context
    BY <1>3 DEF Frame
  <2> QED
    BY <1>2, <1>3, <2>1, ExtraFrame, HeldStore, FrameSteady
<1>5. Tidy(q)
  BY <1>1, <1>3, <1>4, TidyFrame
<1>6. q.image[k].refs = 0
  <2>1. e[k] <= e[k]
    <3>1. e \in [Image -> Nat]
      BY <1>3 DEF Held
    <3> QED
      BY <3>1
  <2> QED
    BY <1>1, <1>2, <1>3, <2>1, HeldFree
<1>7. q.texture[t].refs > 0
  BY <1>2, <1>3, Named, HeldAlive
<1>8. PICK i, r : i = NewImage(q) /\ r = [NoImage EXCEPT !.refs = 1, !.parent = t]
  OBVIOUS
<1>9. i \in Image /\ q.image[i].refs = 0
  BY <1>6, <1>8, NewImageFree
<1>10. r \in ImageType /\ r.refs = 1 /\ r.parent = t /\ ~r.shared
  BY <1>8, NewImageRecord
<1>11. PICK x, y : x = q.texture[t] /\ y = [x EXCEPT !.level = i]
  OBVIOUS
<1>12. x \in TextureType /\ x.refs = q.texture[t].refs /\ x.surface = q.texture[t].surface
  BY <1>4, <1>11 DEF Store
<1>13. y \in TextureType /\ y.refs = x.refs /\ y.level = i /\ y.surface = x.surface
  BY <1>9, <1>11, <1>12 DEF TextureType
<1>14. y.named = q.texture[t].named
  BY <1>11, <1>12 DEF TextureType
<1>15. p = WithTexture(WithImage(q, i, r), t, y)
  <2>1. p = [Created(q, t) EXCEPT !.texture[t].level = i]
    BY <1>2, <1>8 DEF Specified
  <2>2. PICK n : n = WithImage(q, i, r)
    OBVIOUS
  <2>3. Created(q, t) = n
    BY <1>8, <2>2 DEF Created, WithImage
  <2>4. n \in Store /\ n.texture = q.texture
    BY <1>4, <1>9, <1>10, <2>2, SetImage
  <2> QED
    BY <1>11, <2>1, <2>2, <2>3, <2>4 DEF WithTexture, Store
<1>16. /\ Held(p, e, m) /\ p.surface = q.surface /\ p.context = q.context
       /\ p.texture[t] = y /\ \A u \in Texture : u # t => p.texture[u] = q.texture[u]
       /\ p.image[i] = r /\ \A j \in Image : j # i => p.image[j] = q.image[j]
  BY <1>3, <1>7, <1>9, <1>10, <1>12, <1>13, <1>14, <1>15, HeldOwnCreated
<1>17. /\ \A s \in Surface : q.surface[s].back # i
       /\ \A c \in Context : q.context[c].zero # i /\ q.context[c].target # i
       /\ ~q.image[i].shared
  BY <1>3, <1>4, <1>9, FreeImage
<1>18. Extra(p) = e
  <2>1. \A j \in Image : p.image[j].shared = q.image[j].shared
    <3>1. p.image[i].shared \in BOOLEAN /\ q.image[i].shared \in BOOLEAN
      BY <1>3, <1>9, <1>16, HeldStore
    <3>2. p.image[i].shared = q.image[i].shared
      BY <1>10, <1>16, <1>17, <3>1
    <3> QED
      BY <1>16, <3>2
  <2> QED
    BY <1>4, <1>16, <2>1, ExtraSame
<1>19. Names(p) = m
  <2>1. \A u \in Texture : p.texture[u].named = q.texture[u].named
    BY <1>14, <1>16
  <2> QED
    BY <1>4, <1>16, <2>1, NamesSame
<1>20. Tidy(p)
  <2>1. \A s \in Surface : q.surface[s] \in SurfaceType
    BY <1>3, HeldStore
  <2>2. \A c \in Context : q.context[c] \in ContextType
    BY <1>3, HeldStore
  <2>3. \A s \in Surface : q.surface[s].back # NONE =>
           p.image[q.surface[s].back].parent = q.image[q.surface[s].back].parent
    BY <1>16, <1>17, <2>1 DEF SurfaceType
  <2>4. \A c \in Context : q.context[c].zero # NONE =>
           p.image[q.context[c].zero].parent = q.image[q.context[c].zero].parent
    BY <1>16, <1>17, <2>2 DEF ContextType
  <2> QED
    BY <1>5, <1>16, <2>3, <2>4, TidyImages
<1>21. Steady(o, p)
  BY <1>4, <1>16 DEF Steady
<1> QED
  BY <1>4, <1>16, <1>18, <1>19, <1>20, <1>21 DEF Sound, Exact

\* glEGLImageTargetTexture2DOES()
LEMMA SharedSound ==
    ASSUME NEW o, Sound(o), NEW t \in Texture, o.texture[t].named, Alone(o, t),
           NEW i \in Image, o.image[i].shared,
           NEW p, p = Shared(o, t, i)
    PROVE  Sound(p) /\ Steady(o, p) /\ p.context = o.context
<1>1. Held(o, Extra(o), Names(o)) /\ Tidy(o) /\ o \in Store
  BY SoundHeld
<1>2. PICK e, m, a : e = Extra(o) /\ m = Names(o) /\ a = AddRef(o, i)
  OBVIOUS
<1>3. CASE i = o.texture[t].level
  BY <1>3, FrameReflexive, FrameSteady DEF Shared
<1>4. CASE i # o.texture[t].level
  <2>1. e \in [Image -> Nat] /\ (o.image[i].shared => e[i] >= 1)
    BY <1>2, ExtraType
  <2>2. e[i] >= 1 /\ e[i] \in Nat
    BY <2>1
  <2>3. o.image[i].refs > 0 /\ i # NONE
    BY <1>1, <1>2, <2>2, HeldAlive
  <2>4. PICK f : f = Plus(e, i)
    OBVIOUS
  <2>5. /\ Held(a, f, m) /\ Frame(o, a)
        /\ \A u \in Texture : a.texture[u].level = o.texture[u].level
        /\ \A j \in Image : a.image[j].parent = o.image[j].parent
    BY <1>1, <1>2, <2>3, <2>4, HeldAddRef
  <2>6. f \in [Image -> Nat] /\ f[i] = e[i] + 1
        /\ \A j \in Image : j # i => f[j] = e[j]
    BY <2>1, <2>4, PlusMinus
  <2>7. Own(a, t) => Total(a, f)[a.texture[t].level] = 0
    <3> SUFFICES ASSUME Own(a, t) PROVE Total(a, f)[a.texture[t].level] = 0
      OBVIOUS
    <3>1. PICK l : l = o.texture[t].level
      OBVIOUS
    <3>2. l \in Image \cup {NONE}
      BY <1>1, <3>1, HeldStore
    <3>3. \A u \in Texture : Own(a, u) <=> Own(o, u)
      <4>1. \A u \in Texture : o.texture[u].level \in Image \cup {NONE}
        BY <1>1, HeldStore
      <4> QED
        BY <2>5, <4>1 DEF Own
    <3>4. Lev(a) = Lev(o)
      BY <2>5, <3>3 DEF Lev
    <3>5. l \in Image /\ l # i /\ a.texture[t].level = l
      BY <1>4, <2>5, <3>1, <3>2 DEF Own
    <3>6. Total(o, e)[l] = 0
      BY <1>2, <3>1, <3>3 DEF Alone
    <3>7. Total(o, e)[l] = Pointing(Texture, Lev(o), l) + e[l]
      BY <2>1, <3>5, TotalType
    <3>8. Total(a, f)[l] = Pointing(Texture, Lev(a), l) + f[l]
      BY <2>6, <3>5, TotalType
    <3> QED
      BY <2>6, <3>4, <3>5, <3>6, <3>7, <3>8
  <2>8. PICK b : b = Unbound(a, t)
    OBVIOUS
  <2>9. Held(b, f, m) /\ Frame(a, b) /\ b.texture[t].level = NONE
    BY <2>5, <2>7, <2>8, HeldUnbound
  <2>10. Frame(o, b) /\ b \in Store
    BY <2>5, <2>9, FrameTransitive, HeldStore
  <2>11. b.texture[t].refs > 0
    BY <1>2, <2>9, Named, HeldAlive
  <2>12. PICK x, y : x = b.texture[t] /\ y = [x EXCEPT !.level = i]
    OBVIOUS
  <2>13. x \in TextureType /\ x.refs = b.texture[t].refs /\ x.surface = b.texture[t].surface
    BY <2>10, <2>12 DEF Store
  <2>14. y \in TextureType /\ y.refs = x.refs /\ y.level = i /\ y.surface = x.surface
    BY <2>12, <2>13 DEF TextureType
  <2>15. y.named = b.texture[t].named
    BY <2>12, <2>13 DEF TextureType
  <2>16. p = WithTexture(b, t, y)
    <3>1. p = [b EXCEPT !.texture[t].level = i]
      BY <1>2, <1>4, <2>8 DEF Shared
    <3> QED
      BY <2>10, <2>12, <3>1 DEF WithTexture, Store
  <2>17. f[i] >= 1 /\ (b.image[i].shared => f[i] >= 2)
    BY <2>2, <2>6
  <2>18. /\ Held(p, Minus(f, i), m)
         /\ p.image = b.image /\ p.surface = b.surface /\ p.context = b.context
         /\ p.texture[t] = y /\ \A u \in Texture : u # t => p.texture[u] = b.texture[u]
    BY <2>9, <2>11, <2>13, <2>14, <2>15, <2>16, <2>17, HeldLevel
  <2>19. Minus(f, i) = e
    BY <2>1, <2>4, PlusMinus
  <2>20. Extra(b) = e /\ Names(b) = m /\ b.context = o.context /\ Steady(o, b)
    <3>1. b.context = o.context
      BY <2>10 DEF Frame
    <3> QED
      BY <1>2, <2>10, <3>1, ExtraFrame, FrameSteady
  <2>21. Extra(p) = e
    BY <2>18, <2>20, ExtraSame
  <2>22. Names(p) = m
    <3>1. \A u \in Texture : p.texture[u].named = b.texture[u].named
      BY <2>15, <2>18
    <3> QED
      BY <2>18, <2>20, <3>1, NamesSame
  <2>23. Tidy(p)
    <3>1. Tidy(b)
      BY <1>1, <2>10, TidyFrame
    <3> QED
      BY <2>18, <3>1, TidyImages
  <2>24. Steady(o, p)
    BY <2>18, <2>20 DEF Steady
  <2> QED
    BY <2>18, <2>19, <2>20, <2>21, <2>22, <2>23, <2>24 DEF Sound, Exact
<1> QED
  BY <1>3, <1>4

\* The links of a texture and a surface, neither of which is linked yet
LEMMA Relinked ==
    ASSUME NEW o, NEW p, Linked(o), NEW t \in Texture, NEW s \in Surface,
           o.texture[t].surface = NONE, o.surface[s].texture = NONE,
           p.texture[t].surface = s, p.surface[s].texture = t,
           p.surface[s].refs > 0,
           \A u \in Texture : u # t => p.texture[u].surface = o.texture[u].surface,
           \A v \in Surface : v # s => p.surface[v].texture = o.surface[v].texture
                                       /\ p.surface[v].refs = o.surface[v].refs
    PROVE  Linked(p)
<1>1. t # NONE /\ s # NONE
  OBVIOUS
<1>2. ASSUME NEW v \in Surface, NEW u \in Texture
      PROVE  p.texture[u].surface = v <=> p.surface[v].texture = u
  <2>1. o.texture[u].surface = v <=> o.surface[v].texture = u
    BY DEF Linked
  <2>2. o.texture[u].surface = s <=> o.surface[s].texture = u
    BY DEF Linked
  <2>3. o.texture[t].surface = v <=> o.surface[v].texture = t
    BY DEF Linked
  <2>4. CASE u = t /\ v = s
    BY <2>4
  <2>5. CASE u = t /\ v # s
    BY <1>1, <2>3, <2>5
  <2>6. CASE u # t /\ v = s
    BY <1>1, <2>2, <2>6
  <2>7. CASE u # t /\ v # s
    BY <2>1, <2>7
  <2> QED
    BY <2>4, <2>5, <2>6, <2>7
<1>3. ASSUME NEW v \in Surface
      PROVE  p.surface[v].texture # NONE => p.surface[v].refs > 0
  <2>1. o.surface[v].texture # NONE => o.surface[v].refs > 0
    BY DEF Linked
  <2>2. CASE v = s
    BY <2>2
  <2>3. CASE v # s
    BY <2>1, <2>3
  <2> QED
    BY <2>2, <2>3
<1> QED
  BY <1>2, <1>3 DEF Linked

\* eglBindTexImage()
LEMMA TexImageBoundSound ==
    ASSUME NEW o, Sound(o), NEW t \in Texture, o.texture[t].named, Alone(o, t),
           o.texture[t].surface = NONE,
           NEW s \in Surface, o.surface[s].inSet, o.surface[s].refs > 0, s \notin Window,
           o.surface[s].texture = NONE,
           NEW p, p = TexImageBound(o, t, s)
    PROVE  Sound(p) /\ Steady(o, p) /\ p.context = o.context
<1>1. Held(o, Extra(o), Names(o)) /\ Tidy(o) /\ o \in Store
      /\ o.surface[s].back \in Image \cup {NONE}
  BY SoundHeld
<1>2. PICK e, m, q, i : /\ e = Extra(o) /\ m = Names(o) /\ q = Unbound(o, t)
                        /\ i = o.surface[s].back
  OBVIOUS
<1>3. Held(q, e, m) /\ Frame(o, q) /\ q.texture[t].level = NONE
  BY <1>1, <1>2, HeldUnbound DEF Alone
<1>4. e = Extra(q) /\ q \in Store /\ q.surface[s].back = i
  BY <1>2, <1>3, ExtraFrame, HeldStore DEF Frame
<1>5. /\ i \in Image \cup {NONE}
      /\ i # NONE => e[i] >= 1 /\ (q.image[i].shared => e[i] >= 2)
  <2>1. \A j \in Image : q.surface[s].back = j =>
           Extra(q)[j] >= 1 /\ (q.image[j].shared => Extra(q)[j] >= 2)
    BY ExtraHolders
  <2> QED
    BY <1>1, <1>2, <1>4, <2>1
<1>6. i # NONE => q.image[i].refs > 0
  BY <1>3, <1>5, HeldAlive
<1>7. PICK a, f : a = AddRef(q, i) /\ f = Plus(e, i)
  OBVIOUS
<1>8. /\ Held(a, f, m) /\ Frame(q, a)
      /\ \A u \in Texture : a.texture[u].level = q.texture[u].level
  BY <1>3, <1>5, <1>6, <1>7, HeldAddRef
<1>9. Frame(o, a) /\ a \in Store
  BY <1>3, <1>8, FrameTransitive, HeldStore
<1>10. a.texture[t].refs > 0
  BY <1>2, <1>8, Named, HeldAlive
<1>11. PICK x, y : x = a.texture[t] /\ y = [x EXCEPT !.level = i]
  OBVIOUS
<1>12. /\ x \in TextureType /\ x.refs = a.texture[t].refs /\ x.surface = NONE /\ x.level = NONE
  <2>1. x \in TextureType
    BY <1>9, <1>11 DEF Store
  <2>2. x.surface = NONE
    BY <1>9, <1>11 DEF Frame
  <2> QED
    BY <1>3, <1>8, <1>11, <2>1, <2>2
<1>13. y \in TextureType /\ y.refs = x.refs /\ y.level = i /\ y.surface = NONE
  BY <1>5, <1>11, <1>12 DEF TextureType
<1>14. y.named = a.texture[t].named
  BY <1>11, <1>12 DEF TextureType
<1>15. PICK b : b = WithTexture(a, t, y)
  OBVIOUS
<1>16. /\ Held(b, e, m)
       /\ b.image = a.image /\ b.surface = a.surface /\ b.context = a.context
       /\ b.texture[t] = y /\ \A u \in Texture : u # t => b.texture[u] = a.texture[u]
  <2>1. CASE i = NONE
    <3>1. y = x
      BY <1>11, <1>12, <2>1 DEF TextureType
    <3>2. b = a
      BY <1>9, <1>11, <1>15, <3>1 DEF WithTexture, Store
    <3>3. f = e
      <4>1. e \in [Image -> Nat]
        BY <1>3 DEF Held
      <4>2. i \notin Image
        BY <2>1
      <4> QED
        BY <1>7, <4>1, <4>2, PlusMinus
    <3> QED
      BY <1>8, <1>11, <3>1, <3>2, <3>3
  <2>2. CASE i # NONE
    <3>1. e \in [Image -> Nat] /\ i \in Image
      BY <1>3, <1>5, <2>2 DEF Held
    <3>2. f[i] = e[i] + 1 /\ e[i] \in Nat /\ Minus(f, i) = e
      BY <1>7, <3>1, PlusMinus
    <3>3. a.image[i].shared = q.image[i].shared
      BY <1>8, <3>1 DEF Frame
    <3>4. f[i] >= 1 /\ (a.image[i].shared => f[i] >= 2)
      BY <1>5, <2>2, <3>2, <3>3
    <3>5. y.surface = a.texture[t].surface /\ y.refs = a.texture[t].refs
          /\ a.texture[t].level = NONE
      BY <1>11, <1>12, <1>13
    <3>6. Held(b, Minus(f, i), m)
          /\ b.image = a.image /\ b.surface = a.surface /\ b.context = a.context
          /\ b.texture[t] = y /\ \A u \in Texture : u # t => b.texture[u] = a.texture[u]
      BY <1>8, <1>10, <1>13, <1>14, <1>15, <3>1, <3>4, <3>5, HeldLevel
    <3> QED
      BY <3>2, <3>6
  <2> QED
    BY <2>1, <2>2
<1>17. b \in Store /\ Linked(b) /\ b.surface[s] \in SurfaceType
  BY <1>16, HeldStore
<1>18. /\ b.surface[s].texture = NONE /\ b.surface[s].refs = o.surface[s].refs
       /\ b.surface[s].inSet = o.surface[s].inSet /\ b.surface[s].back = i
  <2>1. b.surface[s] = a.surface[s]
    BY <1>16
  <2>2. a.surface[s].texture = NONE /\ a.surface[s].refs = o.surface[s].refs
        /\ a.surface[s].back = i
    BY <1>2, <1>9 DEF Frame
  <2>3. a.surface[s].inSet = o.surface[s].inSet
    BY <1>9 DEF Frame
  <2> QED
    BY <2>1, <2>2, <2>3
<1>19. PICK r, v : r = [y EXCEPT !.surface = s] /\ v = [b.surface[s] EXCEPT !.texture = t]
  OBVIOUS
<1>20. r \in TextureType /\ r.refs = y.refs /\ r.level = y.level /\ r.surface = s
  BY <1>13, <1>19 DEF TextureType
<1>21. r.named = y.named
  BY <1>13, <1>19 DEF TextureType
<1>22. /\ v \in SurfaceType /\ v.refs = o.surface[s].refs /\ v.back = i /\ v.texture = t
       /\ v.inSet = o.surface[s].inSet
  BY <1>17, <1>18, <1>19 DEF SurfaceType
<1>23. PICK c : c = WithTexture(b, t, r)
  OBVIOUS
<1>24. /\ c \in Store /\ c.image = b.image /\ c.surface = b.surface
       /\ c.context = b.context /\ c.dangling = b.dangling
       /\ c.texture[t] = r /\ \A u \in Texture : u # t => c.texture[u] = b.texture[u]
  BY <1>17, <1>20, <1>23, SetTexture
<1>25. p = WithSurface(c, s, v)
  <2>1. p = [a EXCEPT !.texture[t].level = i, !.texture[t].surface = s,
                      !.surface[s].texture = t]
    BY <1>2, <1>7 DEF TexImageBound
  <2>2. b = [a EXCEPT !.texture[t].level = i]
    BY <1>9, <1>11, <1>15 DEF WithTexture, Store
  <2>3. c = [b EXCEPT !.texture[t].surface = s]
    BY <1>16, <1>17, <1>19, <1>23 DEF WithTexture, Store
  <2>4. WithSurface(c, s, v) = [c EXCEPT !.surface[s].texture = t]
    BY <1>19, <1>24 DEF WithSurface, Store
  <2> QED
    BY <2>1, <2>2, <2>3, <2>4
<1>26. /\ p \in Store /\ p.image = c.image /\ p.texture = c.texture
       /\ p.context = c.context /\ p.dangling = c.dangling
       /\ p.surface[s] = v /\ \A u \in Surface : u # s => p.surface[u] = c.surface[u]
  BY <1>22, <1>24, <1>25, SetSurface
<1>27. Linked(p)
  <2>1. b.texture[t].surface = NONE
    BY <1>13, <1>16
  <2>2. p.texture[t].surface = s /\ p.surface[s].texture = t /\ p.surface[s].refs > 0
    BY <1>20, <1>22, <1>24, <1>26
  <2>3. \A u \in Texture : u # t => p.texture[u].surface = b.texture[u].surface
    BY <1>24, <1>26
  <2>4. \A u \in Surface : u # s => p.surface[u].texture = b.surface[u].texture
                                    /\ p.surface[u].refs = b.surface[u].refs
    BY <1>24, <1>26
  <2> QED
    BY <1>17, <1>18, <2>1, <2>2, <2>3, <2>4, Relinked
<1>28. Held(p, e, m)
  <2>1. r.refs = b.texture[t].refs /\ r.level = b.texture[t].level
    BY <1>16, <1>20
  <2>2. m[t] >= 1
    BY <1>2, Named
  <2>3. r.refs = 0 => r.surface = NONE
    <3>1. r.refs > 0 /\ r.refs \in Nat
      BY <1>10, <1>12, <1>13, <1>20 DEF TextureType
    <3> QED
      BY <3>1
  <2>4. p.image = b.image /\ p.dangling = b.dangling /\ p.texture[t] = r
        /\ \A u \in Texture : u # t => p.texture[u] = b.texture[u]
    BY <1>24, <1>26
  <2> QED
    BY <1>16, <1>20, <1>26, <1>27, <2>1, <2>2, <2>3, <2>4, HeldTexture
<1>29. Extra(p) = e
  <2>1. Extra(a) = e
    BY <1>2, <1>9, ExtraFrame
  <2>2. \A u \in Surface : p.surface[u].back = a.surface[u].back
    BY <1>16, <1>18, <1>22, <1>24, <1>26
  <2>3. p.context = a.context /\ p.image = a.image
    BY <1>16, <1>24, <1>26
  <2> QED
    BY <2>1, <2>2, <2>3, ExtraSame
<1>30. Names(p) = m
  <2>1. Names(a) = m
    BY <1>2, <1>9, ExtraFrame
  <2>2. \A u \in Texture : p.texture[u].named = a.texture[u].named
    BY <1>14, <1>16, <1>21, <1>24, <1>26
  <2> QED
    BY <1>16, <1>24, <1>26, <2>1, <2>2, NamesSame
<1>31. Tidy(p)
  <2>1. Tidy(a)
    BY <1>1, <1>9, TidyFrame
  <2>2. p.image = a.image /\ p.context = a.context
        /\ \A u \in Surface : u # s => p.surface[u] = a.surface[u]
    BY <1>16, <1>24, <1>26
  <2>3. p.surface[s].back # NONE => p.image[p.surface[s].back].parent = NONE
    <3>1. p.surface[s].back = i
      BY <1>22, <1>26
    <3>2. a.surface[s].back = i
      BY <1>16, <1>18
    <3>3. a.surface[s].back # NONE => a.image[a.surface[s].back].parent = NONE
      BY <2>1 DEF Tidy
    <3> QED
      BY <2>2, <3>1, <3>2, <3>3
  <2>4. p.surface[s].inSet
    BY <1>22, <1>26
  <2>5. p.surface[s].refs # 0
    BY <1>22, <1>26
  <2> QED
    BY <2>1, <2>2, <2>3, <2>4, <2>5, TidySurface
<1>32. Steady(o, p)
  <2>1. Steady(o, a)
    BY <1>9, FrameSteady
  <2>2. \A u \in Surface : u # s => p.surface[u] = a.surface[u]
    BY <1>16, <1>24, <1>26
  <2>3. p.surface[s].back = o.surface[s].back
    BY <1>2, <1>22, <1>26
  <2> QED
    <3> SUFFICES ASSUME NEW u \in Surface
                 PROVE  /\ p.surface[u].refs = o.surface[u].refs
                        /\ p.surface[u].back = o.surface[u].back
                        /\ p.surface[u].inSet = o.surface[u].inSet
      BY DEF Steady
    <3>1. CASE u = s
      BY <1>22, <1>26, <2>3, <3>1
    <3>2. CASE u # s
      BY <2>1, <2>2, <3>2 DEF Steady
    <3> QED
      BY <3>1, <3>2
<1>33. p.context = o.context
  BY <1>9, <1>16, <1>24, <1>26 DEF Frame
<1> QED
  BY <1>28, <1>29, <1>30, <1>31, <1>32, <1>33 DEF Sound, Exact

\* An image that has a reference to spare becomes an EGLImage.
LEMMA ImageMarkedSound ==
    ASSUME NEW a, NEW e, NEW f, NEW m, Held(a, f, m), Tidy(a), e = Extra(a), m = Names(a),
           NEW i \in Image, f = Plus(e, i), ~a.image[i].shared,
           NEW r \in ImageType, r.refs = a.image[i].refs, r.parent = a.image[i].parent, r.shared,
           NEW p, p = WithImage(a, i, r)
    PROVE  Sound(p) /\ Steady(a, p) /\ p.context = a.context
<1>1. e \in [Image -> Nat]
  BY ExtraType
<1>2. f \in [Image -> Nat] /\ f[i] = e[i] + 1 /\ \A j \in Image : j # i => f[j] = e[j]
  BY <1>1, PlusMinus
<1>3. e[i] \in Nat
  BY <1>1
<1>4. r.shared => f[i] >= 1
  BY <1>2, <1>3
<1>5. /\ Held(p, f, m) /\ p.texture = a.texture /\ p.surface = a.surface
      /\ p.context = a.context
      /\ p.image[i] = r /\ \A j \in Image : j # i => p.image[j] = a.image[j]
  BY <1>4, HeldShared
<1>6. Extra(p) = f
  <2>1. p.image[i].shared
    BY <1>5
  <2>2. \A j \in Image : j # i => p.image[j].shared = a.image[j].shared
    BY <1>5
  <2>3. \A u \in Surface : p.surface[u].back = a.surface[u].back
    BY <1>5
  <2>4. p.context = a.context
    BY <1>5
  <2>5. /\ \A j \in Image : j # i => Extra(p)[j] = Extra(a)[j]
        /\ p.image[i].shared /\ ~a.image[i].shared => Extra(p)[i] = Extra(a)[i] + 1
    BY <2>2, <2>3, <2>4, ExtraShared
  <2>6. Extra(p)[i] = e[i] + 1
    BY <2>1, <2>5
  <2>7. \A j \in Image : Extra(p)[j] = f[j]
    BY <1>2, <2>5, <2>6
  <2>8. Extra(p) \in [Image -> Nat]
    BY ExtraType
  <2> QED
    BY <1>2, <2>7, <2>8, SameFunction
<1>7. Names(p) = m
  <2>1. \A u \in Texture : p.texture[u].named = a.texture[u].named
    BY <1>5
  <2> QED
    BY <1>5, <2>1, NamesSame
<1>8. Tidy(p)
  <2>1. \A j \in Image : p.image[j].parent = a.image[j].parent
    BY <1>5
  <2>2. /\ \A s \in Surface : a.surface[s].back # NONE => a.surface[s].back \in Image
        /\ \A c \in Context : a.context[c].zero # NONE => a.context[c].zero \in Image
    <3>1. /\ \A s \in Surface : a.surface[s] \in SurfaceType
          /\ \A c \in Context : a.context[c] \in ContextType
      BY HeldStore
    <3> QED
      BY <3>1 DEF SurfaceType, ContextType
  <2>3. p.context = a.context /\ p.surface = a.surface
    BY <1>5
  <2>4. \A s \in Surface : a.surface[s].back # NONE =>
           p.image[a.surface[s].back].parent \in {NONE, a.image[a.surface[s].back].parent}
    BY <2>1, <2>2
  <2>5. \A c \in Context : a.context[c].zero # NONE =>
           p.image[a.context[c].zero].parent \in {NONE, a.image[a.context[c].zero].parent}
    BY <2>1, <2>2
  <2> QED
    BY <2>3, <2>4, <2>5, TidyImages, Zenon
<1>9. Steady(a, p)
  BY <1>5 DEF Steady
<1> QED
  BY <1>5, <1>6, <1>7, <1>8, <1>9 DEF Sound, Exact

\* eglCreateImageKHR()
LEMMA ImageSharedSound ==
    ASSUME NEW o, Sound(o), NEW i \in Image, o.image[i].refs > 0, ~o.image[i].shared,
           NEW p, p = [AddRef(o, i) EXCEPT !.image[i].shared = TRUE]
    PROVE  Sound(p) /\ Steady(o, p) /\ p.context = o.context
<1>1. Held(o, Extra(o), Names(o)) /\ Tidy(o) /\ o \in Store /\ i # NONE
  <2>1. i # NONE
    OBVIOUS
  <2> QED
    BY <2>1, SoundHeld
<1>2. PICK e, m, a : e = Extra(o) /\ m = Names(o) /\ a = AddRef(o, i)
  OBVIOUS
<1>3. PICK f : f = Plus(e, i)
  OBVIOUS
<1>4. Held(a, f, m) /\ Frame(o, a)
  BY <1>1, <1>2, <1>3, HeldAddRef
<1>5. a \in Store /\ e = Extra(a) /\ m = Names(a) /\ a.context = o.context /\ Steady(o, a)
  <2>1. a.context = o.context
    BY <1>4 DEF Frame
  <2> QED
    BY <1>2, <1>4, <2>1, ExtraFrame, HeldStore, FrameSteady
<1>6. Tidy(a)
  BY <1>1, <1>4, <1>5, TidyFrame
<1>7. ~a.image[i].shared
  BY <1>4 DEF Frame
<1>8. PICK x, r : x = a.image[i] /\ r = [x EXCEPT !.shared = TRUE]
  OBVIOUS
<1>9. x \in ImageType
  BY <1>5, <1>8 DEF Store
<1>10. r \in ImageType /\ r.refs = a.image[i].refs /\ r.parent = a.image[i].parent
  BY <1>8, <1>9 DEF ImageType
<1>11. r.shared
  BY <1>8, <1>9 DEF ImageType
<1>12. PICK q : q = WithImage(a, i, r)
  OBVIOUS
<1>13. p = q
  BY <1>2, <1>5, <1>8, <1>12 DEF WithImage, Store
<1>14. Sound(q) /\ Steady(a, q) /\ q.context = a.context
  BY <1>3, <1>4, <1>5, <1>6, <1>7, <1>10, <1>11, <1>12, ImageMarkedSound
<1>15. Steady(o, q)
  BY <1>5, <1>14 DEF Steady
<1> QED
  BY <1>5, <1>13, <1>14, <1>15

\* eglDestroyImageKHR()
LEMMA ImageDestroyedSound ==
    ASSUME NEW o, Sound(o), NEW i \in Image, o.image[i].shared,
           NEW p, p = Released([o EXCEPT !.image[i].shared = FALSE], i)
    PROVE  Sound(p) /\ Steady(o, p) /\ p.context = o.context
<1>1. Held(o, Extra(o), Names(o)) /\ Tidy(o) /\ o \in Store /\ i # NONE
  <2>1. i # NONE
    OBVIOUS
  <2> QED
    BY <2>1, SoundHeld
<1>2. PICK e, m : e = Extra(o) /\ m = Names(o)
  OBVIOUS
<1>3. e \in [Image -> Nat]
  BY <1>2, ExtraType
<1>4. e[i] >= 1
  BY <1>2, ExtraType
<1>5. PICK x, r : x = o.image[i] /\ r = [x EXCEPT !.shared = FALSE]
  OBVIOUS
<1>6. x \in ImageType
  BY <1>1, <1>5 DEF Store
<1>7. r \in ImageType /\ r.refs = x.refs /\ r.parent = x.parent
  BY <1>5, <1>6 DEF ImageType
<1>8. ~r.shared
  BY <1>5, <1>6 DEF ImageType
<1>9. PICK a : a = WithImage(o, i, r)
  OBVIOUS
<1>10. p = Released(a, i)
  <2>1. a = [o EXCEPT !.image[i].shared = FALSE]
    BY <1>1, <1>5, <1>9 DEF WithImage, Store
  <2> QED
    BY <2>1
<1>11. /\ Held(a, e, m) /\ a.texture = o.texture /\ a.surface = o.surface
       /\ a.context = o.context
       /\ a.image[i] = r /\ \A j \in Image : j # i => a.image[j] = o.image[j]
  <2>1. r.refs = o.image[i].refs /\ r.parent = o.image[i].parent
    BY <1>5, <1>7
  <2> QED
    BY <1>1, <1>2, <1>4, <1>7, <1>9, <2>1, HeldShared
<1>12. Held(p, Minus(e, i), m) /\ Frame(a, p)
  <2>1. ~a.image[i].shared
    BY <1>8, <1>11
  <2> QED
    BY <1>1, <1>4, <1>10, <1>11, <2>1, HeldReleased
<1>13. Extra(p) = Minus(e, i)
  <2>1. ~a.image[i].shared
    BY <1>8, <1>11
  <2>2. \A j \in Image : j # i => a.image[j].shared = o.image[j].shared
    BY <1>11
  <2>3. \A u \in Surface : a.surface[u].back = o.surface[u].back
    BY <1>11
  <2>4. /\ \A j \in Image : j # i => Extra(a)[j] = Extra(o)[j]
        /\ ~a.image[i].shared /\ o.image[i].shared => Extra(a)[i] = Extra(o)[i] - 1
    BY <1>11, <2>2, <2>3, ExtraShared
  <2>5. /\ Minus(e, i) \in [Image -> Nat] /\ Minus(e, i)[i] = e[i] - 1
        /\ \A j \in Image : j # i => Minus(e, i)[j] = e[j]
    BY <1>3, <1>4, PlusMinus
  <2>6. \A j \in Image : Extra(a)[j] = Minus(e, i)[j]
    BY <1>2, <2>1, <2>4, <2>5
  <2>7. Extra(a) \in [Image -> Nat]
    BY ExtraType
  <2>8. Extra(p) = Extra(a)
    BY <1>12, ExtraFrame
  <2> QED
    BY <2>5, <2>6, <2>7, <2>8, SameFunction
<1>14. Names(p) = m
  <2>1. \A u \in Texture : a.texture[u].named = o.texture[u].named
    BY <1>11
  <2>2. Names(a) = m
    BY <1>2, <1>11, <2>1, NamesSame
  <2> QED
    BY <1>12, <2>2, ExtraFrame
<1>15. Tidy(a)
  <2>1. \A j \in Image : a.image[j].parent = o.image[j].parent
    BY <1>5, <1>7, <1>11
  <2>2. /\ \A s \in Surface : o.surface[s].back # NONE => o.surface[s].back \in Image
        /\ \A c \in Context : o.context[c].zero # NONE => o.context[c].zero \in Image
    BY SoundHeld
  <2> QED
    BY <1>1, <1>11, <2>1, <2>2, TidyImages
<1>16. Tidy(p)
  <2>1. a \in Store /\ p \in Store
    BY <1>11, <1>12, HeldStore
  <2> QED
    BY <1>12, <1>15, <2>1, TidyFrame
<1>17. Steady(o, p) /\ p.context = o.context
  <2>1. Steady(a, p)
    BY <1>12, FrameSteady
  <2>2. p.context = a.context
    BY <1>12 DEF Frame
  <2> QED
    BY <1>11, <2>1, <2>2 DEF Steady
<1> QED
  BY <1>12, <1>13, <1>14, <1>16, <1>17 DEF Sound, Exact

TextureListed(o, t) == WithTexture(o, t, [o.texture[t] EXCEPT !.refs = 1, !.named = TRUE])

\* A texture gets a name.
LEMMA TextureNamedSound ==
    ASSUME NEW o, Sound(o), NEW t \in Texture, o.texture[t].refs = 0,
           NEW p, p = TextureListed(o, t)
    PROVE  Sound(p) /\ p.surface = o.surface /\ p.context = o.context
<1>1. Held(o, Extra(o), Names(o)) /\ Tidy(o) /\ o \in Store
  BY SoundHeld
<1>2. PICK n, m, x : n = Total(o, Extra(o)) /\ m = Names(o) /\ x = o.texture[t]
  OBVIOUS
<1>3. PICK r : r = [x EXCEPT !.refs = 1, !.named = TRUE]
  OBVIOUS
<1>4. p = WithTexture(o, t, r)
  BY <1>2, <1>3 DEF TextureListed
<1>5. ImagesCounted(o, n) /\ TexturesCounted(o, n, m) /\ Linked(o) /\ o.dangling = FALSE
      /\ m \in [Texture -> Nat] /\ n \in [Image -> Nat] /\ x \in TextureType
  BY <1>1, <1>2, HeldStore, HeldAlive DEF Held, Counted
<1>6. x.level = NONE /\ x.surface = NONE /\ x.refs = 0
  BY <1>2, <1>5 DEF TexturesCounted
<1>7. ~Own(o, t)
  BY <1>2, <1>6 DEF Own
<1>8. m[t] = 0
  <2>1. o.texture[t].refs = m[t] + 0
    BY <1>5, <1>7 DEF TexturesCounted
  <2> QED
    BY <1>5, <2>1
<1>9. r \in TextureType /\ r.refs = 1 /\ r.level = NONE /\ r.surface = NONE
  BY <1>3, <1>5, <1>6 DEF TextureType
<1>10. r.named
  BY <1>3, <1>5 DEF TextureType
<1>11. /\ p \in Store /\ p.image = o.image /\ p.surface = o.surface
       /\ p.context = o.context /\ p.dangling = o.dangling
       /\ p.texture[t] = r /\ \A u \in Texture : u # t => p.texture[u] = o.texture[u]
  BY <1>1, <1>9, <1>4, SetTexture
<1>12. \A u \in Texture : p.texture[u].level = o.texture[u].level
                          /\ p.texture[u].surface = o.texture[u].surface
  BY <1>2, <1>6, <1>9, <1>11
<1>13. \A u \in Texture : Own(p, u) <=> Own(o, u)
  BY <1>11, <1>12 DEF Own
<1>14. Lev(p) = Lev(o)
  BY <1>12, <1>13 DEF Lev
<1>15. PICK h : h = Plus(m, t)
  OBVIOUS
<1>16. h \in [Texture -> Nat] /\ h[t] = 1 /\ \A u \in Texture : u # t => h[u] = m[u]
  BY <1>5, <1>8, <1>15, PlusMinus
<1>17. ImagesCounted(p, n)
  BY <1>5, <1>11, <1>12 DEF ImagesCounted, Store, ImageType
<1>18. TexturesCounted(p, n, h)
  <2> SUFFICES ASSUME NEW u \in Texture
               PROVE  /\ p.texture[u].refs = h[u] + (IF Own(p, u) THEN n[p.texture[u].level] ELSE 0)
                      /\ p.texture[u].refs = 0 => p.texture[u].level = NONE
                                                  /\ p.texture[u].surface = NONE
                      /\ p.texture[u].named => h[u] >= 1
    BY DEF TexturesCounted
  <2>1. CASE u = t
    <3>1. ~Own(p, u)
      BY <1>7, <1>13, <2>1
    <3>2. p.texture[u].refs = 1 /\ h[u] = 1
      BY <1>9, <1>11, <1>16, <2>1
    <3>3. p.texture[u].refs = h[u] + (IF Own(p, u) THEN n[p.texture[u].level] ELSE 0)
      BY <3>1, <3>2
    <3> QED
      BY <3>2, <3>3
  <2>2. CASE u # t
    BY <1>5, <1>11, <1>13, <1>16, <2>2 DEF TexturesCounted
  <2> QED
    BY <2>1, <2>2
<1>19. Linked(p)
  BY <1>5, <1>11, <1>12 DEF Linked
<1>20. Extra(p) = Extra(o)
  BY <1>11, ExtraSame
<1>21. n = Total(p, Extra(o))
  BY <1>2, <1>14, TotalSame
<1>22. Held(p, Extra(o), h)
  <2>1. Counted(p, n, h)
    BY <1>5, <1>11, <1>16, <1>17, <1>18, <1>19 DEF Counted
  <2>2. Extra(o) \in [Image -> Nat] /\ \A j \in Image : o.image[j].shared => Extra(o)[j] >= 1
    BY ExtraType
  <2> QED
    BY <1>11, <1>21, <2>1, <2>2 DEF Held
<1>23. Names(p) = h
  <2>1. \A u \in Texture : Proxied(p, u) = Proxied(o, u)
    BY <1>11 DEF Proxied
  <2>2. One(Proxied(o, t)) = 0
    <3>1. m[t] = One(x.named) + One(Proxied(o, t)) /\ One(x.named) \in {0, 1}
          /\ One(Proxied(o, t)) \in {0, 1}
      BY <1>2, NamesType
    <3> QED
      BY <1>8, <3>1
  <2>3. One(r.named) = 1
    BY <1>10 DEF One
  <2>4. Names(p)[t] = One(p.texture[t].named) + One(Proxied(p, t))
    BY NamesType
  <2>5. Names(p)[t] = h[t]
    <3>1. One(p.texture[t].named) = 1
      BY <1>11, <2>3
    <3>2. One(Proxied(p, t)) = 0
      BY <2>1, <2>2
    <3> QED
      BY <1>16, <2>4, <3>1, <3>2
  <2>6. ASSUME NEW u \in Texture, u # t
        PROVE  Names(p)[u] = h[u]
    <3>1. Names(p)[u] = One(p.texture[u].named) + One(Proxied(p, u))
      BY NamesType
    <3>2. m[u] = One(o.texture[u].named) + One(Proxied(o, u))
      BY <1>2, NamesType
    <3> QED
      BY <1>11, <1>16, <2>1, <2>6, <3>1, <3>2
  <2>7. \A u \in Texture : Names(p)[u] = h[u]
    BY <2>5, <2>6
  <2> QED
    BY <1>16, <2>7, NamesType, SameNames
<1>24. Tidy(p)
  BY <1>1, <1>11, TidyImages
<1> QED
  BY <1>11, <1>20, <1>22, <1>23, <1>24 DEF Sound, Exact

\* The references to contexts and their default framebuffers stay.
SameContexts(o, p) ==
    \A c \in Context : /\ p.context[c].refs = o.context[c].refs
                       /\ p.context[c].inSet = o.context[c].inSet
                       /\ p.context[c].zero = o.context[c].zero

\* glFramebufferTexture2D()
LEMMA AttachedSound ==
    ASSUME NEW o, Sound(o), NEW c \in Context, o.context[c].refs > 0,
           NEW t \in Texture \cup {NONE}, t # NONE => o.texture[t].refs > 0,
           NEW p, p = Attached(o, c, t)
    PROVE  /\ Sound(p) /\ Steady(o, p) /\ SameContexts(o, p)
           /\ \A u \in Texture : p.texture[u].named = o.texture[u].named
<1>1. PICK e : e = Extra(o)
  OBVIOUS
<1>2. Held(o, e, Names(o)) /\ Tidy(o) /\ o \in Store
  BY <1>1, SoundHeld
<1>3. /\ Held(p, e, Names(p)) /\ Loose(o, p)
      /\ \A u \in Texture : p.texture[u].named = o.texture[u].named
      /\ p.context[c] = [o.context[c] EXCEPT !.attached = t]
      /\ \A d \in Context : d # c => p.context[d] = o.context[d]
  BY <1>2, AttachedHeld
<1>4. o.context[c] \in ContextType
  BY <1>2, HeldStore
<1>5. /\ p.context[c].zero = o.context[c].zero /\ p.context[c].target = o.context[c].target
      /\ p.context[c].refs = o.context[c].refs
  BY <1>3, <1>4 DEF ContextType
<1>6. \A d \in Context : p.context[d].zero = o.context[d].zero
                         /\ p.context[d].target = o.context[d].target
  BY <1>3, <1>5
<1>7. Extra(p) = e
  BY <1>1, <1>3, <1>6, ExtraLoose
<1>8. p \in Store
  BY <1>3, HeldStore
<1>9. \A d \in Context : o.context[d].refs = 0 => o.context[d] = NoContext
  BY <1>2 DEF Tidy
<1>10. p.context[c].refs # 0
  BY <1>4, <1>5 DEF ContextType
<1>11. \A d \in Context : p.context[d].refs = 0 => p.context[d] = NoContext
  <2>1. ASSUME NEW d \in Context, p.context[d].refs = 0
        PROVE  p.context[d] = NoContext
    <3>1. d # c
      BY <1>10, <2>1
    <3>2. p.context[d] = o.context[d]
      BY <1>3, <3>1
    <3> QED
      BY <1>9, <2>1, <3>2
  <2> QED
    BY <2>1
<1>12. \A d \in Context : /\ p.context[d].zero = o.context[d].zero
                          /\ p.context[d].refs = 0 => p.context[d] = NoContext
  BY <1>6, <1>11
<1>13. Tidy(p)
  BY <1>2, <1>3, <1>8, <1>12, TidyLoose
<1>14. p.context[c].inSet = o.context[c].inSet
  BY <1>3, <1>4 DEF ContextType
<1>15. SameContexts(o, p)
  BY <1>3, <1>5, <1>14 DEF SameContexts
<1> QED
  BY <1>3, <1>7, <1>13, <1>15, LooseSteady DEF Sound, Exact

\* glDeleteTextures()
LEMMA NameDeletedSound ==
    ASSUME NEW o, Sound(o), NEW t \in Texture, o.texture[t].named,
           NEW p, p = NameDeleted(o, t)
    PROVE  Sound(p) /\ Steady(o, p) /\ p.context = o.context
<1>1. PICK e : e = Extra(o)
  OBVIOUS
<1>2. Held(o, e, Names(o)) /\ Tidy(o) /\ o \in Store
  BY <1>1, SoundHeld
<1>3. Held(p, e, Names(p)) /\ Loose(o, p) /\ p.context = o.context
  BY <1>2, NameDeletedHeld
<1>4. \A d \in Context : p.context[d].zero = o.context[d].zero
                         /\ p.context[d].target = o.context[d].target
  BY <1>3
<1>5. Extra(p) = e
  BY <1>1, <1>3, <1>4, ExtraLoose
<1>6. p \in Store
  BY <1>3, HeldStore
<1>7. \A d \in Context : /\ p.context[d].zero = o.context[d].zero
                         /\ p.context[d].refs = 0 => p.context[d] = NoContext
  BY <1>2, <1>3 DEF Tidy
<1>8. Tidy(p)
  BY <1>2, <1>3, <1>6, <1>7, TidyLoose
<1> QED
  BY <1>3, <1>5, <1>8, LooseSteady DEF Sound, Exact

-----------------------------------------------------------------------------
(* References to surfaces and contexts                                      *)

Recounted(x, k, b) == [x EXCEPT !.refs = k, !.inSet = b]

\* A reference to a surface, or whether it is in its display's set.
LEMMA SurfaceCountedSound ==
    ASSUME NEW o, Sound(o), NEW s \in Surface, NEW k \in Nat, k > 0, NEW b \in BOOLEAN,
           o.surface[s].texture # NONE => b,
           NEW x, x = o.surface[s],
           NEW r, r = Recounted(x, k, b),
           NEW p, p = WithSurface(o, s, r)
    PROVE  /\ Sound(p) /\ p.image = o.image /\ p.texture = o.texture
           /\ p.context = o.context
           /\ \A u \in Surface : /\ p.surface[u].back = o.surface[u].back
                                 /\ p.surface[u].texture = o.surface[u].texture
           /\ p.surface[s].refs = k /\ p.surface[s].inSet = b
           /\ \A u \in Surface : u # s => p.surface[u] = o.surface[u]
<1>1. o \in Store
  BY SoundHeld
<1>2. x \in SurfaceType
  BY <1>1 DEF Store
<1>3. r \in SurfaceType /\ r.back = o.surface[s].back /\ r.texture = o.surface[s].texture
      /\ r.refs = k
  BY <1>2 DEF SurfaceType, Recounted
<1>4. r.inSet = b
  BY <1>2 DEF SurfaceType, Recounted
<1>5. r.texture # NONE => r.inSet
  BY <1>3, <1>4
<1>6. r.refs = 0 => r = NoSurface
  BY <1>3
<1>7. /\ Sound(p) /\ p.image = o.image /\ p.texture = o.texture
      /\ p.context = o.context
      /\ p.surface[s] = r /\ \A u \in Surface : u # s => p.surface[u] = o.surface[u]
  BY <1>3, <1>5, <1>6, SurfaceKept
<1> QED
  BY <1>3, <1>4, <1>7

\* A reference to a context, or whether it is in its display's set.
LEMMA ContextCountedSound ==
    ASSUME NEW o, Sound(o), NEW c \in Context, NEW k \in Nat, k > 0, NEW b \in BOOLEAN,
           NEW x, x = o.context[c],
           NEW r, r = Recounted(x, k, b),
           NEW p, p = WithContext(o, c, r)
    PROVE  /\ Sound(p) /\ p.image = o.image /\ p.texture = o.texture
           /\ p.surface = o.surface
           /\ \A u \in Context : p.context[u].zero = o.context[u].zero
           /\ p.context[c].refs = k /\ p.context[c].inSet = b
           /\ \A u \in Context : u # c => p.context[u] = o.context[u]
<1>1. o \in Store
  BY SoundHeld
<1>2. x \in ContextType
  BY <1>1 DEF Store
<1>3. r \in ContextType /\ r.zero = o.context[c].zero /\ r.target = o.context[c].target
      /\ r.attached = o.context[c].attached /\ r.refs = k
  BY <1>2 DEF ContextType, Recounted
<1>4. r.inSet = b
  BY <1>2 DEF ContextType, Recounted
<1>5. r.refs = 0 => r = NoContext
  BY <1>3
<1>6. /\ Sound(p) /\ p.image = o.image /\ p.texture = o.texture
      /\ p.surface = o.surface
      /\ p.context[c] = r /\ \A u \in Context : u # c => p.context[u] = o.context[u]
  BY <1>3, <1>5, ContextKept
<1> QED
  BY <1>3, <1>4, <1>6

LEMMA OneType == \A b : One(b) \in {0, 1} /\ (b => One(b) = 1) /\ (~b => One(b) = 0)
BY DEF One

LEMMA CountMoved ==
    ASSUME NEW D, NEW r, NEW f, CurrentCounted(D, r, f), NEW th \in Thread, NEW a, NEW g, NEW q,
           g[th] = a, \A x \in Thread : x # th => g[x] = f[x],
           \A u \in D : /\ q[u].inSet = r[u].inSet
                        /\ q[u].refs = r[u].refs + One(a = u) - One(f[th] = u)
    PROVE  CurrentCounted(D, q, g)
<1>1. SUFFICES ASSUME NEW u \in D
               PROVE  q[u].refs = One(q[u].inSet) + Pointing(Thread, g, u)
  BY DEF CurrentCounted
<1>2. PICK k \in Nat : /\ Pointing(Thread, f, u) = k + (IF f[th] = u THEN 1 ELSE 0)
                       /\ Pointing(Thread, g, u) = k + (IF a = u THEN 1 ELSE 0)
  BY Finite, PointingChanged
<1>3. Pointing(Thread, f, u) = k + One(f[th] = u) /\ Pointing(Thread, g, u) = k + One(a = u)
  BY <1>2 DEF One
<1>4. r[u].refs = One(r[u].inSet) + Pointing(Thread, f, u)
  BY DEF CurrentCounted
<1>5. q[u].inSet = r[u].inSet /\ q[u].refs = r[u].refs + One(a = u) - One(f[th] = u)
  OBVIOUS
<1>6. PICK x, y, z : x = One(f[th] = u) /\ y = One(a = u) /\ z = One(r[u].inSet)
  OBVIOUS
<1>7. x \in {0, 1} /\ y \in {0, 1} /\ z \in {0, 1}
  BY <1>6, OneType
<1>8. One(q[u].inSet) = z
  BY <1>5, <1>6
<1>9. q[u].refs = z + (k + x) + y - x /\ Pointing(Thread, g, u) = k + y
  BY <1>3, <1>4, <1>5, <1>6
<1> QED
  BY <1>7, <1>8, <1>9

\* The set no longer holds s.
LEMMA CountDropped ==
    ASSUME NEW D, NEW r, NEW f, CurrentCounted(D, r, f), NEW s \in D, NEW q,
           r[s].inSet, ~q[s].inSet, q[s].refs = r[s].refs - 1,
           \A u \in D : u # s => q[u].inSet = r[u].inSet /\ q[u].refs = r[u].refs
    PROVE  CurrentCounted(D, q, f)
<1>1. Pointing(Thread, f, s) \in Nat
  BY Finite, PointingType
<1>2. One(r[s].inSet) = 1 /\ One(q[s].inSet) = 0
  BY DEF One
<1>3. r[s].refs = One(r[s].inSet) + Pointing(Thread, f, s)
  BY DEF CurrentCounted
<1>4. q[s].refs = One(q[s].inSet) + Pointing(Thread, f, s)
  BY <1>1, <1>2, <1>3
<1>5. \A u \in D : u # s => q[u].refs = One(q[u].inSet) + Pointing(Thread, f, u)
  BY DEF CurrentCounted
<1> QED
  BY <1>4, <1>5 DEF CurrentCounted

\* The set holds a new one.
LEMMA CountAdded ==
    ASSUME NEW D, NEW r, NEW f, CurrentCounted(D, r, f), NEW s \in D, NEW q,
           r[s].refs = 0, q[s].inSet, q[s].refs = 1,
           \A u \in D : u # s => q[u].inSet = r[u].inSet /\ q[u].refs = r[u].refs
    PROVE  CurrentCounted(D, q, f)
<1>1. PICK n, z, w : n = Pointing(Thread, f, s) /\ z = One(r[s].inSet) /\ w = One(q[s].inSet)
  OBVIOUS
<1>2. n \in Nat
  BY <1>1, Finite, PointingType
<1>3. z \in {0, 1} /\ w = 1
  BY <1>1 DEF One
<1>4. 0 = z + n
  BY <1>1 DEF CurrentCounted
<1>5. n = 0
  BY <1>2, <1>3, <1>4
<1>6. q[s].refs = One(q[s].inSet) + Pointing(Thread, f, s)
  <2>1. q[s].refs = w + n
    BY <1>3, <1>5
  <2> QED
    BY <1>1, <2>1
<1>7. \A u \in D : u # s => q[u].refs = One(q[u].inSet) + Pointing(Thread, f, u)
  BY DEF CurrentCounted
<1> QED
  BY <1>6, <1>7 DEF CurrentCounted

LEMMA CountAlive ==
    ASSUME NEW D, NEW r, NEW f, CurrentCounted(D, r, f), NEW u \in D
    PROVE  /\ r[u].refs \in Nat
           /\ r[u].inSet => r[u].refs > 0
           /\ \A th \in Thread : f[th] = u =>
                 r[u].refs > 0 /\ (r[u].refs = 1 => ~r[u].inSet)
                 /\ (r[u].inSet => r[u].refs > 1)
<1>1. PICK n, z : n = Pointing(Thread, f, u) /\ z = One(r[u].inSet)
  OBVIOUS
<1>2. n \in Nat /\ (n = 0 <=> \A x \in Thread : f[x] # u)
  BY <1>1, Finite, PointingType
<1>3. r[u].refs = z + n
  BY <1>1 DEF CurrentCounted
<1>4. z \in {0, 1} /\ (r[u].inSet => z = 1)
  BY <1>1 DEF One
<1>5. r[u].refs \in Nat
  BY <1>2, <1>3, <1>4
<1>6. z = 1 => r[u].refs > 0
  BY <1>2, <1>3
<1>7. ASSUME NEW th \in Thread, f[th] = u
      PROVE  n >= 1
  BY <1>2, <1>7
<1>8. n >= 1 => r[u].refs > 0 /\ (r[u].refs = 1 => z = 0) /\ (z = 1 => r[u].refs > 1)
  BY <1>2, <1>3, <1>4
<1>9. z = 0 => ~r[u].inSet
  BY <1>4
<1> QED
  BY <1>4, <1>5, <1>6, <1>7, <1>8, <1>9

SurfaceAdded(o, a) == IF a = NONE THEN o ELSE [o EXCEPT !.surface[a].refs = @ + 1]
ContextAdded(o, a) == IF a = NONE THEN o ELSE [o EXCEPT !.context[a].refs = @ + 1]

LEMMA SurfaceReferenced ==
    ASSUME NEW o, Sound(o), NEW a \in Surface \cup {NONE}, a # NONE => o.surface[a].refs > 0,
           NEW p, p = SurfaceAdded(o, a)
    PROVE  /\ Sound(p) /\ p.context = o.context
           /\ \A u \in Surface : /\ p.surface[u].inSet = o.surface[u].inSet
                                 /\ p.surface[u].back = o.surface[u].back
                                 /\ p.surface[u].texture = o.surface[u].texture
                                 /\ p.surface[u].refs = o.surface[u].refs + One(a = u)
                                 /\ o.surface[u].refs \in Nat
<1>1. o \in Store
  BY SoundHeld
<1>2. \A u \in Surface : o.surface[u].refs \in Nat
  BY <1>1 DEF Store, SurfaceType
<1>3. CASE a = NONE
  <2>1. p = o
    BY <1>3 DEF SurfaceAdded
  <2>2. \A u \in Surface : a # u
    BY <1>3
  <2>3. \A u \in Surface : One(a = u) = 0
    BY <2>2 DEF One
  <2>4. \A u \in Surface : o.surface[u].refs = o.surface[u].refs + One(a = u)
    BY <1>2, <2>3
  <2> QED
    BY <1>2, <2>1, <2>4
<1>4. CASE a # NONE
  <2>1. a \in Surface
    BY <1>4
  <2>2. PICK x, k, b : x = o.surface[a] /\ k = x.refs + 1 /\ b = x.inSet
    OBVIOUS
  <2>3. x \in SurfaceType /\ k \in Nat /\ k > 0 /\ b \in BOOLEAN
    BY <1>1, <2>1, <2>2 DEF Store, SurfaceType
  <2>4. PICK r : r = Recounted(x, k, b)
    OBVIOUS
  <2>5. PICK q : q = WithSurface(o, a, r)
    OBVIOUS
  <2>6. p = q
    <3>1. p = [o EXCEPT !.surface[a].refs = @ + 1]
      BY <1>4 DEF SurfaceAdded
    <3>2. r = [x EXCEPT !.refs = k]
      BY <2>2, <2>3, <2>4 DEF Recounted, SurfaceType
    <3> QED
      BY <1>1, <2>1, <2>2, <2>5, <3>1, <3>2 DEF WithSurface, Store
  <2>7. o.surface[a].texture # NONE => b
    BY <2>1, <2>2, SoundHeld DEF Tidy
  <2>8. /\ Sound(q) /\ q.image = o.image /\ q.texture = o.texture
        /\ q.context = o.context
        /\ \A u \in Surface : /\ q.surface[u].back = o.surface[u].back
                              /\ q.surface[u].texture = o.surface[u].texture
        /\ q.surface[a].refs = k /\ q.surface[a].inSet = b
        /\ \A u \in Surface : u # a => q.surface[u] = o.surface[u]
    BY <2>1, <2>2, <2>3, <2>4, <2>5, <2>7, SurfaceCountedSound
  <2>9. ASSUME NEW u \in Surface
        PROVE  q.surface[u].inSet = o.surface[u].inSet
               /\ q.surface[u].refs = o.surface[u].refs + One(a = u)
    <3>1. CASE u = a
      <4>1. One(a = u) = 1
        BY <3>1 DEF One
      <4>2. q.surface[u].inSet = o.surface[u].inSet
        BY <2>2, <2>8, <3>1
      <4>3. q.surface[u].refs = o.surface[u].refs + 1
        BY <2>2, <2>8, <3>1
      <4> QED
        BY <4>1, <4>2, <4>3
    <3>2. CASE u # a
      <4>1. One(a = u) = 0
        BY <3>2 DEF One
      <4>2. q.surface[u] = o.surface[u]
        BY <2>8, <3>2
      <4> QED
        BY <1>2, <4>1, <4>2
    <3> QED
      BY <3>1, <3>2
  <2> QED
    BY <1>2, <2>6, <2>8, <2>9
<1> QED
  BY <1>3, <1>4

LEMMA SurfaceUnreferenced ==
    ASSUME NEW o, Sound(o), NEW b \in Surface \cup {NONE},
           b # NONE => o.surface[b].refs > 0,
           b # NONE /\ o.surface[b].refs = 1 => ~o.surface[b].inSet,
           NEW p, p = SurfaceReleased(o, b)
    PROVE  /\ Sound(p) /\ p.context = o.context
           /\ \A u \in Surface : /\ p.surface[u].inSet = o.surface[u].inSet
                                 /\ p.surface[u].refs > 0 => p.surface[u].back = o.surface[u].back
                                 /\ p.surface[u].refs = o.surface[u].refs - One(b = u)
<1>1. o \in Store
  BY SoundHeld
<1>2. \A u \in Surface : o.surface[u].refs \in Nat /\ o.surface[u].inSet \in BOOLEAN
  BY <1>1 DEF Store, SurfaceType
<1>3. CASE b = NONE
  <2>1. p = o
    BY <1>3 DEF SurfaceReleased
  <2>2. \A u \in Surface : b # u
    BY <1>3
  <2>3. \A u \in Surface : One(b = u) = 0
    BY <2>2 DEF One
  <2> QED
    BY <1>2, <2>1, <2>3
<1>4. CASE b # NONE
  <2>1. b \in Surface
    BY <1>4
  <2>2. o.surface[b].refs >= 1
    BY <1>2, <1>4, <2>1
  <2>3. o.surface[b].refs = 1 => o.surface[b].texture = NONE
    BY <1>4, <2>1, SoundHeld DEF Tidy
  <2>4. /\ Sound(p) /\ p.context = o.context
        /\ \A u \in Surface : u # b => /\ p.surface[u].refs = o.surface[u].refs
                                       /\ p.surface[u].back = o.surface[u].back
                                       /\ p.surface[u].inSet = o.surface[u].inSet
        /\ o.surface[b].refs = 1 => p.surface[b] = NoSurface
        /\ o.surface[b].refs > 1 => /\ p.surface[b].refs = o.surface[b].refs - 1
                                    /\ p.surface[b].back = o.surface[b].back
                                    /\ p.surface[b].inSet = o.surface[b].inSet
    BY <2>1, <2>2, <2>3, SurfaceReleasedSound
  <2>5. ASSUME NEW u \in Surface
        PROVE  /\ p.surface[u].inSet = o.surface[u].inSet
               /\ p.surface[u].refs > 0 => p.surface[u].back = o.surface[u].back
               /\ p.surface[u].refs = o.surface[u].refs - One(b = u)
    <3>1. CASE u # b
      <4>1. One(b = u) = 0
        BY <3>1 DEF One
      <4> QED
        BY <1>2, <2>4, <3>1, <4>1
    <3>2. CASE u = b
      <4>1. One(b = u) = 1
        BY <3>2 DEF One
      <4>2. CASE o.surface[b].refs = 1
        <5>1. p.surface[b] = NoSurface
          BY <2>4, <4>2
        <5>2. p.surface[b].refs = 0
          BY <5>1 DEF NoSurface
        <5>3. ~p.surface[b].inSet /\ p.surface[b].inSet \in BOOLEAN
          BY <5>1 DEF NoSurface
        <5>4. p.surface[b].inSet = o.surface[b].inSet
          <6>1. ~o.surface[b].inSet
            BY <1>4, <4>2
          <6>2. o.surface[b].inSet \in BOOLEAN
            BY <1>2, <2>1
          <6> QED
            BY <5>3, <6>1, <6>2
        <5>5. p.surface[u].refs = o.surface[u].refs - One(b = u)
          BY <3>2, <4>1, <4>2, <5>2
        <5> QED
          BY <3>2, <5>2, <5>4, <5>5
      <4>3. CASE o.surface[b].refs > 1
        BY <2>4, <3>2, <4>1, <4>3
      <4> QED
        BY <1>2, <2>1, <2>2, <4>2, <4>3
    <3> QED
      BY <3>1, <3>2
  <2> QED
    BY <2>4, <2>5
<1> QED
  BY <1>3, <1>4

LEMMA ContextReferenced ==
    ASSUME NEW o, Sound(o), NEW a \in Context \cup {NONE},
           NEW p, p = ContextAdded(o, a)
    PROVE  /\ Sound(p) /\ p.surface = o.surface
           /\ \A u \in Context : /\ p.context[u].inSet = o.context[u].inSet
                                 /\ p.context[u].zero = o.context[u].zero
                                 /\ p.context[u].refs = o.context[u].refs + One(a = u)
                                 /\ o.context[u].refs \in Nat
<1>1. o \in Store
  BY SoundHeld
<1>2. \A u \in Context : o.context[u].refs \in Nat
  BY <1>1 DEF Store, ContextType
<1>3. CASE a = NONE
  <2>1. p = o
    BY <1>3 DEF ContextAdded
  <2>2. \A u \in Context : a # u
    BY <1>3
  <2>3. \A u \in Context : One(a = u) = 0
    BY <2>2 DEF One
  <2>4. \A u \in Context : o.context[u].refs = o.context[u].refs + One(a = u)
    BY <1>2, <2>3
  <2> QED
    BY <1>2, <2>1, <2>4
<1>4. CASE a # NONE
  <2>1. a \in Context
    BY <1>4
  <2>2. PICK x, k, b : x = o.context[a] /\ k = x.refs + 1 /\ b = x.inSet
    OBVIOUS
  <2>3. x \in ContextType /\ k \in Nat /\ k > 0 /\ b \in BOOLEAN
    BY <1>1, <2>1, <2>2 DEF Store, ContextType
  <2>4. PICK r : r = Recounted(x, k, b)
    OBVIOUS
  <2>5. PICK q : q = WithContext(o, a, r)
    OBVIOUS
  <2>6. p = q
    <3>1. p = [o EXCEPT !.context[a].refs = @ + 1]
      BY <1>4 DEF ContextAdded
    <3>2. r = [x EXCEPT !.refs = k]
      BY <2>2, <2>3, <2>4 DEF Recounted, ContextType
    <3> QED
      BY <1>1, <2>1, <2>2, <2>5, <3>1, <3>2 DEF WithContext, Store
  <2>7. /\ Sound(q) /\ q.image = o.image /\ q.texture = o.texture
        /\ q.surface = o.surface
        /\ \A u \in Context : q.context[u].zero = o.context[u].zero
        /\ q.context[a].refs = k /\ q.context[a].inSet = b
        /\ \A u \in Context : u # a => q.context[u] = o.context[u]
    BY <2>1, <2>2, <2>3, <2>4, <2>5, ContextCountedSound
  <2>8. ASSUME NEW u \in Context
        PROVE  q.context[u].inSet = o.context[u].inSet
               /\ q.context[u].refs = o.context[u].refs + One(a = u)
    <3>1. CASE u = a
      <4>1. One(a = u) = 1
        BY <3>1 DEF One
      <4>2. q.context[u].inSet = o.context[u].inSet
        BY <2>2, <2>7, <3>1
      <4>3. q.context[u].refs = o.context[u].refs + 1
        BY <2>2, <2>7, <3>1
      <4> QED
        BY <4>1, <4>2, <4>3
    <3>2. CASE u # a
      <4>1. One(a = u) = 0
        BY <3>2 DEF One
      <4>2. q.context[u] = o.context[u]
        BY <2>7, <3>2
      <4> QED
        BY <1>2, <4>1, <4>2
    <3> QED
      BY <3>1, <3>2
  <2> QED
    BY <1>2, <2>6, <2>7, <2>8
<1> QED
  BY <1>3, <1>4

LEMMA ContextReferencedAt ==
    ASSUME NEW o, Sound(o), NEW a \in Context \cup {NONE},
           NEW p, p = ContextAdded(o, a), NEW u \in Context,
           NEW k, k = One(a = u)
    PROVE  /\ p.context[u].inSet = o.context[u].inSet
           /\ p.context[u].zero = o.context[u].zero
           /\ p.context[u].refs = o.context[u].refs + k
           /\ o.context[u].refs \in Nat
BY ContextReferenced

LEMMA ContextUnreferenced ==
    ASSUME NEW o, Sound(o), NEW b \in Context \cup {NONE},
           b # NONE => o.context[b].refs > 0,
           b # NONE /\ o.context[b].refs = 1 => ~o.context[b].inSet,
           NEW p, p = ContextReleased(o, b)
    PROVE  /\ Sound(p) /\ Steady(o, p)
           /\ \A u \in Context : /\ p.context[u].inSet = o.context[u].inSet
                                 /\ p.context[u].refs > 0 => p.context[u].zero = o.context[u].zero
                                 /\ p.context[u].refs = o.context[u].refs - One(b = u)
<1>1. o \in Store
  BY SoundHeld
<1>2. \A u \in Context : o.context[u].refs \in Nat /\ o.context[u].inSet \in BOOLEAN
  BY <1>1 DEF Store, ContextType
<1>3. CASE b = NONE
  <2>1. p = o
    BY <1>3 DEF ContextReleased
  <2>2. \A u \in Context : b # u
    BY <1>3
  <2>3. \A u \in Context : One(b = u) = 0
    BY <2>2 DEF One
  <2>4. Steady(o, p)
    BY <2>1 DEF Steady
  <2> QED
    BY <1>2, <2>1, <2>3, <2>4
<1>4. CASE b # NONE
  <2>1. b \in Context
    BY <1>4
  <2>2. o.context[b].refs > 0
    BY <1>4
  <2>3. /\ Sound(p) /\ Steady(o, p)
        /\ o.context[b].refs = 1 => p.context[b] = NoContext
        /\ o.context[b].refs > 1 => /\ p.context[b].refs = o.context[b].refs - 1
                                    /\ p.context[b].zero = o.context[b].zero
                                    /\ p.context[b].inSet = o.context[b].inSet
        /\ \A u \in Context : u # b => p.context[u] = o.context[u]
    BY <2>1, <2>2, ContextReleasedSound
  <2>4. ASSUME NEW u \in Context
        PROVE  /\ p.context[u].inSet = o.context[u].inSet
               /\ p.context[u].refs > 0 => p.context[u].zero = o.context[u].zero
               /\ p.context[u].refs = o.context[u].refs - One(b = u)
    <3>1. CASE u # b
      <4>1. One(b = u) = 0
        BY <3>1 DEF One
      <4>2. p.context[u] = o.context[u]
        BY <2>3, <3>1
      <4> QED
        BY <1>2, <4>1, <4>2
    <3>2. CASE u = b
      <4>1. One(b = u) = 1
        BY <3>2 DEF One
      <4>2. CASE o.context[b].refs = 1
        <5>1. p.context[b] = NoContext
          BY <2>3, <4>2
        <5>2. p.context[b].refs = 0
          BY <5>1 DEF NoContext
        <5>3. ~p.context[b].inSet /\ p.context[b].inSet \in BOOLEAN
          BY <5>1 DEF NoContext
        <5>4. p.context[b].inSet = o.context[b].inSet
          <6>1. ~o.context[b].inSet
            BY <1>4, <4>2
          <6>2. o.context[b].inSet \in BOOLEAN
            BY <1>2, <2>1
          <6> QED
            BY <5>3, <6>1, <6>2
        <5>5. p.context[u].refs = o.context[u].refs - One(b = u)
          BY <3>2, <4>1, <4>2, <5>2
        <5> QED
          BY <3>2, <5>2, <5>4, <5>5
      <4>3. CASE o.context[b].refs > 1
        BY <2>3, <3>2, <4>1, <4>3
      <4>4. o.context[b].refs = 1 \/ o.context[b].refs > 1
        BY <1>2, <2>1, <2>2
      <4> QED
        BY <4>2, <4>3, <4>4
    <3> QED
      BY <3>1, <3>2
  <2> QED
    BY <2>3, <2>4
<1> QED
  BY <1>3, <1>4

Unlisted(x) == [x EXCEPT !.inSet = FALSE]

LEMMA UnlistedSurface ==
    ASSUME NEW x \in SurfaceType, ~x.inSet
    PROVE  Unlisted(x) = x
<1>1. x = [refs |-> x.refs, back |-> x.back, texture |-> x.texture,
           inSet |-> x.inSet]
  BY DEF SurfaceType
<1>2. Unlisted(x) = [refs |-> x.refs, back |-> x.back, texture |-> x.texture,
                     inSet |-> FALSE]
  BY DEF Unlisted, SurfaceType
<1>3. x.inSet = FALSE
  BY DEF SurfaceType
<1> QED
  BY <1>1, <1>2, <1>3

LEMMA UnlistedContext ==
    ASSUME NEW x \in ContextType, ~x.inSet
    PROVE  Unlisted(x) = x
<1>1. x = [refs |-> x.refs, zero |-> x.zero, attached |-> x.attached, target |-> x.target,
           inSet |-> x.inSet]
  BY DEF ContextType
<1>2. Unlisted(x) = [refs |-> x.refs, zero |-> x.zero, attached |-> x.attached, target |-> x.target,
                     inSet |-> FALSE]
  BY DEF Unlisted, ContextType
<1>3. x.inSet = FALSE
  BY DEF ContextType
<1> QED
  BY <1>1, <1>2, <1>3

SurfaceUnlisted(o, s) == [SurfaceReleased(o, s) EXCEPT !.surface[s].inSet = FALSE]
ContextUnlisted(o, c) == [ContextReleased(o, c) EXCEPT !.context[c].inSet = FALSE]

\* eglDestroySurface()
LEMMA SurfaceDestroyed ==
    ASSUME NEW o, Sound(o), NEW s \in Surface, o.surface[s].refs > 0, o.surface[s].inSet,
           o.surface[s].texture = NONE,
           NEW p, p = SurfaceUnlisted(o, s)
    PROVE  /\ Sound(p) /\ p.context = o.context
           /\ ~p.surface[s].inSet /\ p.surface[s].refs = o.surface[s].refs - 1
           /\ \A u \in Surface : /\ p.surface[u].refs > 0 => p.surface[u].back = o.surface[u].back
                                 /\ u # s => /\ p.surface[u].refs = o.surface[u].refs
                                             /\ p.surface[u].inSet = o.surface[u].inSet
<1>1. o.surface[s].refs \in Nat
  <2>1. o \in Store
    BY SoundHeld
  <2> QED
    BY <2>1 DEF Store, SurfaceType
<1>2. PICK a : a = SurfaceReleased(o, s)
  OBVIOUS
<1>3. o.surface[s].refs >= 1
  BY <1>1
<1>4. /\ Sound(a) /\ a.context = o.context
      /\ \A u \in Surface : u # s => /\ a.surface[u].refs = o.surface[u].refs
                                     /\ a.surface[u].back = o.surface[u].back
                                     /\ a.surface[u].inSet = o.surface[u].inSet
      /\ o.surface[s].refs = 1 => a.surface[s] = NoSurface
      /\ o.surface[s].refs > 1 => /\ a.surface[s].refs = o.surface[s].refs - 1
                                  /\ a.surface[s].back = o.surface[s].back
                                  /\ a.surface[s].texture = o.surface[s].texture
  BY <1>2, <1>3, SurfaceReleasedSound
<1>5. a.surface[s].refs = o.surface[s].refs - 1 /\ a.surface[s].texture = NONE
      /\ (a.surface[s].refs > 0 => a.surface[s].back = o.surface[s].back)
  BY <1>1, <1>3, <1>4 DEF NoSurface
<1>6. PICK x, r, q : x = a.surface[s] /\ r = Unlisted(x) /\ q = WithSurface(a, s, r)
  OBVIOUS
<1>7. a \in Store /\ Tidy(a)
  BY <1>4, SoundHeld
<1>8. x \in SurfaceType
  BY <1>6, <1>7 DEF Store
<1>9. p = q
  BY <1>2, <1>6, <1>7 DEF WithSurface, Unlisted, SurfaceUnlisted, Store
<1>10. r \in SurfaceType /\ r.back = a.surface[s].back /\ r.texture = a.surface[s].texture
       /\ r.refs = a.surface[s].refs
  BY <1>6, <1>8 DEF Unlisted, SurfaceType
<1>11. ~r.inSet
  BY <1>6, <1>8 DEF Unlisted, SurfaceType
<1>12. r.texture # NONE => r.inSet
  BY <1>5, <1>10
<1>13. r.refs = 0 => r = NoSurface
  <2>1. r.refs = 0 => x = NoSurface
    <3>1. a.surface[s].refs = 0 => a.surface[s] = NoSurface
      BY <1>7 DEF Tidy
    <3> QED
      BY <1>6, <1>10, <3>1
  <2>2. x = NoSurface => r = NoSurface
    <3>1. x = NoSurface => ~x.inSet
      BY DEF NoSurface
    <3>2. ~x.inSet => Unlisted(x) = x
      BY <1>8, UnlistedSurface
    <3> QED
      BY <1>6, <3>1, <3>2
  <2> QED
    BY <2>1, <2>2
<1>14. PICK y : y = r
  OBVIOUS
<1>15. /\ Sound(q) /\ q.context = a.context
       /\ q.surface[s] = y /\ \A u \in Surface : u # s => q.surface[u] = a.surface[u]
  <2>1. y \in SurfaceType /\ y.back = a.surface[s].back /\ y.texture = a.surface[s].texture
    BY <1>10, <1>14
  <2>2. (y.texture # NONE => y.inSet) /\ (y.refs = 0 => y = NoSurface)
    BY <1>12, <1>13, <1>14
  <2>3. q = WithSurface(a, s, y)
    BY <1>6, <1>14
  <2> QED
    BY <1>4, <2>1, <2>2, <2>3, SurfaceKept
<1>16. q.surface[s].refs = o.surface[s].refs - 1 /\ q.context = o.context
  BY <1>4, <1>5, <1>10, <1>14, <1>15
<1>17. ~q.surface[s].inSet
  BY <1>11, <1>14, <1>15
<1>18. ASSUME NEW u \in Surface, u # s
       PROVE  /\ q.surface[u].refs = o.surface[u].refs
              /\ q.surface[u].back = o.surface[u].back
              /\ q.surface[u].inSet = o.surface[u].inSet
  BY <1>4, <1>15, <1>18
<1>19. q.surface[s].refs > 0 => q.surface[s].back = o.surface[s].back
  BY <1>5, <1>10, <1>14, <1>15
<1>20. \A u \in Surface : q.surface[u].refs > 0 => q.surface[u].back = o.surface[u].back
  BY <1>18, <1>19
<1> QED
  BY <1>9, <1>15, <1>16, <1>17, <1>18, <1>20

\* eglDestroyContext()
LEMMA ContextDestroyed ==
    ASSUME NEW o, Sound(o), NEW c \in Context, o.context[c].refs > 0, o.context[c].inSet,
           NEW p, p = ContextUnlisted(o, c)
    PROVE  /\ Sound(p) /\ Steady(o, p)
           /\ ~p.context[c].inSet /\ p.context[c].refs = o.context[c].refs - 1
           /\ \A u \in Context : /\ p.context[u].refs > 0 => p.context[u].zero = o.context[u].zero
                                 /\ u # c => /\ p.context[u].refs = o.context[u].refs
                                             /\ p.context[u].inSet = o.context[u].inSet
<1>1. o.context[c].refs \in Nat
  <2>1. o \in Store
    BY SoundHeld
  <2> QED
    BY <2>1 DEF Store, ContextType
<1>2. PICK a : a = ContextReleased(o, c)
  OBVIOUS
<1>3. /\ Sound(a) /\ Steady(o, a)
      /\ o.context[c].refs = 1 => a.context[c] = NoContext
      /\ o.context[c].refs > 1 => /\ a.context[c].refs = o.context[c].refs - 1
                                  /\ a.context[c].zero = o.context[c].zero
      /\ \A u \in Context : u # c => a.context[u] = o.context[u]
  BY <1>2, ContextReleasedSound
<1>4. a.context[c].refs = o.context[c].refs - 1
      /\ (a.context[c].refs > 0 => a.context[c].zero = o.context[c].zero)
  <2>1. o.context[c].refs = 1 \/ o.context[c].refs > 1
    BY <1>1
  <2>2. CASE o.context[c].refs = 1
    BY <1>3, <2>2 DEF NoContext
  <2>3. CASE o.context[c].refs > 1
    BY <1>3, <2>3
  <2> QED
    BY <2>1, <2>2, <2>3
<1>5. PICK x, r, q : x = a.context[c] /\ r = Unlisted(x) /\ q = WithContext(a, c, r)
  OBVIOUS
<1>6. a \in Store /\ Tidy(a)
  BY <1>3, SoundHeld
<1>7. x \in ContextType
  BY <1>5, <1>6 DEF Store
<1>8. p = q
  BY <1>2, <1>5, <1>6 DEF WithContext, Unlisted, ContextUnlisted, Store
<1>9. r \in ContextType /\ r.zero = a.context[c].zero /\ r.target = a.context[c].target
      /\ r.attached = a.context[c].attached /\ r.refs = a.context[c].refs
  BY <1>5, <1>7 DEF Unlisted, ContextType
<1>10. ~r.inSet
  BY <1>5, <1>7 DEF Unlisted, ContextType
<1>11. r.refs = 0 => r = NoContext
  <2>1. r.refs = 0 => x = NoContext
    <3>1. a.context[c].refs = 0 => a.context[c] = NoContext
      BY <1>6 DEF Tidy
    <3> QED
      BY <1>5, <1>9, <3>1
  <2>2. x = NoContext => r = NoContext
    <3>1. x = NoContext => ~x.inSet
      BY DEF NoContext
    <3>2. ~x.inSet => Unlisted(x) = x
      BY <1>7, UnlistedContext
    <3> QED
      BY <1>5, <3>1, <3>2
  <2> QED
    BY <2>1, <2>2
<1>12. PICK y : y = r
  OBVIOUS
<1>13. /\ Sound(q) /\ q.surface = a.surface
       /\ q.context[c] = y /\ \A u \in Context : u # c => q.context[u] = a.context[u]
  <2>1. /\ y \in ContextType /\ y.zero = a.context[c].zero /\ y.target = a.context[c].target
        /\ y.attached = a.context[c].attached
    BY <1>9, <1>12
  <2>2. y.refs = 0 => y = NoContext
    BY <1>11, <1>12
  <2>3. q = WithContext(a, c, y)
    BY <1>5, <1>12
  <2> QED
    BY <1>3, <2>1, <2>2, <2>3, ContextKept
<1>14. q.context[c].refs = o.context[c].refs - 1
  BY <1>4, <1>9, <1>12, <1>13
<1>15. ~q.context[c].inSet
  BY <1>10, <1>12, <1>13
<1>16. \A u \in Context : u # c => q.context[u] = o.context[u]
  BY <1>3, <1>13
<1>17. q.context[c].refs > 0 => q.context[c].zero = o.context[c].zero
  BY <1>4, <1>9, <1>12, <1>13
<1>18. Steady(o, q)
  BY <1>3, <1>13 DEF Steady
<1>19. \A u \in Context : q.context[u].refs > 0 => q.context[u].zero = o.context[u].zero
  BY <1>16, <1>17
<1>20. ASSUME NEW u \in Context, u # c
       PROVE  q.context[u].refs = o.context[u].refs /\ q.context[u].inSet = o.context[u].inSet
  BY <1>16, <1>20
<1> QED
  BY <1>8, <1>13, <1>14, <1>15, <1>18, <1>19, <1>20

-----------------------------------------------------------------------------
(* What threads have made current                                           *)

LEMMA CountSame ==
    ASSUME NEW D, NEW r, NEW f, CurrentCounted(D, r, f), NEW q,
           \A u \in D : q[u].inSet = r[u].inSet /\ q[u].refs = r[u].refs
    PROVE  CurrentCounted(D, q, f)
BY DEF CurrentCounted

LEMMA CurrentOf ==
    ASSUME NEW cur \in [Thread -> CurrentType], NEW th \in Thread
    PROVE  /\ SurfaceOf(cur)[th] = cur[th].surface /\ ContextOf(cur)[th] = cur[th].context
           /\ cur[th].surface \in Surface \cup {NONE} /\ cur[th].context \in Context \cup {NONE}
BY DEF SurfaceOf, ContextOf, CurrentType

LEMMA ConsistentSame ==
    ASSUME NEW o, NEW cur, Consistent(o, cur), NEW p, Steady(o, p),
           \A c \in Context : /\ p.context[c].refs = o.context[c].refs
                              /\ p.context[c].inSet = o.context[c].inSet
                              /\ p.context[c].zero = o.context[c].zero
    PROVE  Consistent(p, cur)
<1>1. \A u \in Surface : p.surface[u].inSet = o.surface[u].inSet
                         /\ p.surface[u].refs = o.surface[u].refs
  BY DEF Steady
<1>2. CurrentCounted(Surface, p.surface, SurfaceOf(cur))
  BY <1>1, CountSame DEF Consistent
<1>3. CurrentCounted(Context, p.context, ContextOf(cur))
  BY CountSame DEF Consistent
<1>4. Shown(p, cur)
  <2>1. SUFFICES ASSUME NEW th \in Thread, cur[th].surface # NONE
                 PROVE  p.context[cur[th].context].zero = p.surface[cur[th].surface].back
    BY DEF Shown
  <2>2. cur[th].context \in Context /\ cur[th].surface \in Surface
    BY <2>1, CurrentOf DEF Consistent, Apart
  <2>3. o.context[cur[th].context].zero = o.surface[cur[th].surface].back
    BY <2>1 DEF Consistent, Shown
  <2> QED
    BY <2>2, <2>3 DEF Steady
<1> QED
  BY <1>2, <1>3, <1>4 DEF Consistent

\* The surface and the context of a thread that are referenced for it
LEMMA CurrentAlive ==
    ASSUME NEW o, NEW cur, Consistent(o, cur), NEW th \in Thread,
           NEW b, b = cur[th].surface, NEW d, d = cur[th].context
    PROVE  /\ b \in Surface \cup {NONE} /\ d \in Context \cup {NONE}
           /\ b # NONE => d # NONE /\ o.context[d].zero = o.surface[b].back
           /\ b # NONE => /\ o.surface[b].refs > 0
                          /\ o.surface[b].refs = 1 => ~o.surface[b].inSet
                          /\ o.surface[b].inSet => o.surface[b].refs > 1
           /\ d # NONE => /\ o.context[d].refs > 0
                          /\ o.context[d].refs = 1 => ~o.context[d].inSet
                          /\ o.context[d].inSet => o.context[d].refs > 1
<1>1. /\ SurfaceOf(cur)[th] = b /\ ContextOf(cur)[th] = d
      /\ b \in Surface \cup {NONE} /\ d \in Context \cup {NONE}
  BY CurrentOf DEF Consistent
<1>2. b # NONE => d # NONE /\ o.context[d].zero = o.surface[b].back
  BY DEF Consistent, Apart, Shown
<1>3. CurrentCounted(Surface, o.surface, SurfaceOf(cur))
      /\ CurrentCounted(Context, o.context, ContextOf(cur))
  BY DEF Consistent
<1>4. b # NONE => /\ o.surface[b].refs > 0
                  /\ o.surface[b].refs = 1 => ~o.surface[b].inSet
                  /\ o.surface[b].inSet => o.surface[b].refs > 1
  BY <1>1, <1>3, CountAlive
<1>5. d # NONE => /\ o.context[d].refs > 0
                  /\ o.context[d].refs = 1 => ~o.context[d].inSet
                  /\ o.context[d].inSet => o.context[d].refs > 1
  BY <1>1, <1>3, CountAlive
<1> QED
  BY <1>1, <1>2, <1>4, <1>5

\* eglMakeCurrent(), before the new default framebuffer is set
LEMMA SwitchedSound ==
    ASSUME NEW o, Sound(o), Consistent(o, current), NEW th \in Thread,
           NEW s \in Surface \cup {NONE}, NEW c \in Context \cup {NONE},
           s # NONE => o.surface[s].refs > 0,
           NEW b, b = current[th].surface, NEW d, d = current[th].context,
           NEW p, p = Switched(o, th, c, s)
    PROVE  /\ Sound(p)
           /\ \A u \in Surface : /\ p.surface[u].inSet = o.surface[u].inSet
                                 /\ p.surface[u].refs = o.surface[u].refs + One(s = u) - One(b = u)
                                 /\ p.surface[u].refs > 0 => p.surface[u].back = o.surface[u].back
           /\ \A u \in Context : /\ p.context[u].inSet = o.context[u].inSet
                                 /\ p.context[u].refs = o.context[u].refs + One(c = u) - One(d = u)
                                 /\ p.context[u].refs > 0 => p.context[u].zero = o.context[u].zero
<1>1. PICK o2 : o2 = SurfaceAdded(o, s)
  OBVIOUS
<1>2. PICK o3 : o3 = SurfaceReleased(o2, b)
  OBVIOUS
<1>3. PICK o4 : o4 = ContextAdded(o3, c)
  OBVIOUS
<1>4. p = ContextReleased(o4, d)
  BY <1>1, <1>2, <1>3, Zenon DEF Switched, SurfaceAdded, ContextAdded
<1>5. /\ Sound(o2) /\ o2.context = o.context
      /\ \A u \in Surface : /\ o2.surface[u].inSet = o.surface[u].inSet
                            /\ o2.surface[u].back = o.surface[u].back
                            /\ o2.surface[u].refs = o.surface[u].refs + One(s = u)
                            /\ o.surface[u].refs \in Nat
  BY <1>1, SurfaceReferenced
<1>6. /\ b \in Surface \cup {NONE} /\ d \in Context \cup {NONE}
      /\ b # NONE => /\ o.surface[b].refs > 0
                     /\ o.surface[b].inSet => o.surface[b].refs > 1
      /\ d # NONE => /\ o.context[d].refs > 0
                     /\ o.context[d].inSet => o.context[d].refs > 1
  BY CurrentAlive
<1>7. /\ b # NONE => o2.surface[b].refs > 0
      /\ b # NONE /\ o2.surface[b].refs = 1 => ~o2.surface[b].inSet
  <2>1. SUFFICES ASSUME b # NONE
                 PROVE  o2.surface[b].refs > 0 /\ (o2.surface[b].refs = 1 => ~o2.surface[b].inSet)
    OBVIOUS
  <2>2. PICK y, k, z : y = o.surface[b].refs /\ k = One(s = b) /\ z = o2.surface[b].refs
    OBVIOUS
  <2>3. y \in Nat /\ y > 0 /\ k \in {0, 1} /\ z = y + k
    BY <1>5, <1>6, <2>1, <2>2, OneType
  <2>4. z > 0 /\ (z = 1 => ~(y > 1))
    BY <2>3
  <2>5. y > 1 \/ ~o2.surface[b].inSet
    BY <1>5, <1>6, <2>1, <2>2
  <2> QED
    BY <2>2, <2>4, <2>5
<1>8. /\ Sound(o3) /\ o3.context = o2.context
      /\ \A u \in Surface : /\ o3.surface[u].inSet = o2.surface[u].inSet
                            /\ o3.surface[u].refs > 0 => o3.surface[u].back = o2.surface[u].back
                            /\ o3.surface[u].refs = o2.surface[u].refs - One(b = u)
  BY <1>2, <1>5, <1>6, <1>7, SurfaceUnreferenced
<1>9. /\ Sound(o4) /\ o4.surface = o3.surface
      /\ \A u \in Context : /\ o4.context[u].inSet = o3.context[u].inSet
                            /\ o4.context[u].zero = o3.context[u].zero
                            /\ o4.context[u].refs = o3.context[u].refs + One(c = u)
                            /\ o3.context[u].refs \in Nat
  <2>1. Sound(o3)
    BY <1>8
  <2>2. o4 = ContextAdded(o3, c)
    BY <1>3
  <2>3. c \in Context \cup {NONE}
    OBVIOUS
  <2>4. Sound(o4) /\ o4.surface = o3.surface
    BY <2>1, <2>2, <2>3, ContextReferenced
  <2>5. ASSUME NEW u \in Context
        PROVE  /\ o4.context[u].inSet = o3.context[u].inSet
               /\ o4.context[u].zero = o3.context[u].zero
               /\ o4.context[u].refs = o3.context[u].refs + One(c = u)
               /\ o3.context[u].refs \in Nat
    <3>1. PICK k : k = One(c = u)
      OBVIOUS
    <3> QED
      BY <2>1, <2>2, <2>3, <3>1, ContextReferencedAt
  <2> QED
    BY <2>4, <2>5
<1>10. o3.context = o.context
  BY <1>5, <1>8
<1>11. /\ d # NONE => o4.context[d].refs > 0
       /\ d # NONE /\ o4.context[d].refs = 1 => ~o4.context[d].inSet
  <2>1. SUFFICES ASSUME d # NONE
                 PROVE  o4.context[d].refs > 0 /\ (o4.context[d].refs = 1 => ~o4.context[d].inSet)
    OBVIOUS
  <2>2. PICK y, k, z : y = o.context[d].refs /\ k = One(c = d) /\ z = o4.context[d].refs
    OBVIOUS
  <2>3. y \in Nat /\ y > 0 /\ k \in {0, 1} /\ z = y + k
    BY <1>6, <1>9, <1>10, <2>1, <2>2, OneType
  <2>4. z > 0 /\ (z = 1 => ~(y > 1))
    BY <2>3
  <2>5. y > 1 \/ ~o4.context[d].inSet
    BY <1>6, <1>9, <1>10, <2>1, <2>2
  <2> QED
    BY <2>2, <2>4, <2>5
<1>12. /\ Sound(p) /\ Steady(o4, p)
       /\ \A u \in Context : /\ p.context[u].inSet = o4.context[u].inSet
                             /\ p.context[u].refs > 0 => p.context[u].zero = o4.context[u].zero
                             /\ p.context[u].refs = o4.context[u].refs - One(d = u)
  BY <1>4, <1>6, <1>9, <1>11, ContextUnreferenced
<1>13. ASSUME NEW u \in Surface
       PROVE  /\ p.surface[u].inSet = o.surface[u].inSet
              /\ p.surface[u].refs = o.surface[u].refs + One(s = u) - One(b = u)
              /\ p.surface[u].refs > 0 => p.surface[u].back = o.surface[u].back
  <2>1. /\ p.surface[u].refs = o3.surface[u].refs /\ p.surface[u].back = o3.surface[u].back
        /\ p.surface[u].inSet = o3.surface[u].inSet
    BY <1>9, <1>12 DEF Steady
  <2>2. p.surface[u].inSet = o.surface[u].inSet
    <3>1. o2.surface[u].inSet = o.surface[u].inSet
      BY <1>5
    <3>2. o3.surface[u].inSet = o2.surface[u].inSet
      BY <1>8
    <3> QED
      BY <2>1, <3>1, <3>2
  <2>3. p.surface[u].refs = o.surface[u].refs + One(s = u) - One(b = u)
    <3>1. o2.surface[u].refs = o.surface[u].refs + One(s = u)
      BY <1>5
    <3>2. o3.surface[u].refs = o2.surface[u].refs - One(b = u)
      BY <1>8
    <3>3. o.surface[u].refs \in Nat /\ One(s = u) \in {0, 1} /\ One(b = u) \in {0, 1}
      BY <1>5, OneType
    <3>4. p.surface[u].refs = o3.surface[u].refs
      BY <2>1
    <3> QED
      BY <3>1, <3>2, <3>3, <3>4
  <2>4. p.surface[u].refs > 0 => p.surface[u].back = o.surface[u].back
    BY <1>5, <1>8, <2>1
  <2> QED
    BY <2>2, <2>3, <2>4
<1>14. ASSUME NEW u \in Context
       PROVE  /\ p.context[u].inSet = o.context[u].inSet
              /\ p.context[u].refs = o.context[u].refs + One(c = u) - One(d = u)
              /\ p.context[u].refs > 0 => p.context[u].zero = o.context[u].zero
  <2>1. p.context[u].inSet = o.context[u].inSet
    <3>1. o4.context[u].inSet = o.context[u].inSet
      BY <1>9, <1>10
    <3>2. p.context[u].inSet = o4.context[u].inSet
      BY <1>12
    <3> QED
      BY <3>1, <3>2
  <2>2. p.context[u].refs = o.context[u].refs + One(c = u) - One(d = u)
    <3>1. o4.context[u].refs = o.context[u].refs + One(c = u)
      BY <1>9, <1>10
    <3>2. p.context[u].refs = o4.context[u].refs - One(d = u)
      BY <1>12
    <3>3. o.context[u].refs \in Nat /\ One(c = u) \in {0, 1} /\ One(d = u) \in {0, 1}
      BY <1>9, <1>10, OneType
    <3> QED
      BY <3>1, <3>2, <3>3
  <2>3. p.context[u].refs > 0 => p.context[u].zero = o.context[u].zero
    BY <1>9, <1>10, <1>12
  <2> QED
    BY <2>1, <2>2, <2>3
<1> QED
  BY <1>12, <1>13, <1>14

\* Surfaces or contexts whose references change from b to a
Moves(D, r, q, a, b) ==
    \A u \in D : q[u].inSet = r[u].inSet /\ q[u].refs = r[u].refs + One(a = u) - One(b = u)

BacksKept(o, p) ==
    \A u \in Surface : p.surface[u].refs > 0 => p.surface[u].back = o.surface[u].back
ZerosKept(o, p, c) ==
    \A u \in Context : p.context[u].refs > 0 /\ u # c => p.context[u].zero = o.context[u].zero
\* What the thread has current changes to s and c.
Makes(cur, th, c, s) ==
    /\ cur \in [Thread -> CurrentType] /\ cur[th].context = c /\ cur[th].surface = s
    /\ \A x \in Thread : x # th => cur[x] = current[x]

LEMMA MovesCounted ==
    ASSUME NEW D, NEW r, NEW f, CurrentCounted(D, r, f), NEW th \in Thread, NEW a, NEW g, NEW q,
           g[th] = a, \A x \in Thread : x # th => g[x] = f[x], NEW b, b = f[th],
           Moves(D, r, q, a, b)
    PROVE  CurrentCounted(D, q, g)
<1>1. \A u \in D : /\ q[u].inSet = r[u].inSet
                   /\ q[u].refs = r[u].refs + One(a = u) - One(f[th] = u)
  BY DEF Moves
<1> QED
  BY <1>1, CountMoved

\* What a thread has current changes: s and c instead of b and d.
LEMMA ConsistentMoved ==
    ASSUME NEW o, Consistent(o, current), NEW th \in Thread,
           NEW b, b = current[th].surface, NEW d, d = current[th].context,
           NEW s \in Surface \cup {NONE}, NEW c \in Context \cup {NONE}, NEW p,
           Moves(Surface, o.surface, p.surface, s, b),
           Moves(Context, o.context, p.context, c, d),
           BacksKept(o, p), ZerosKept(o, p, c),
           s # NONE => c # NONE /\ p.context[c].zero = p.surface[s].back,
           ~CurrentElsewhere(th, c, s),
           NEW cur, Makes(cur, th, c, s)
    PROVE  Consistent(p, cur)
<1> USE DEF Makes
<1>1. current \in [Thread -> CurrentType]
  BY DEF Consistent
<1>2. /\ SurfaceOf(cur)[th] = s /\ ContextOf(cur)[th] = c
      /\ SurfaceOf(current)[th] = b /\ ContextOf(current)[th] = d
  BY <1>1, CurrentOf
<1>3. \A x \in Thread : x # th => /\ SurfaceOf(cur)[x] = SurfaceOf(current)[x]
                                  /\ ContextOf(cur)[x] = ContextOf(current)[x]
  BY <1>1, CurrentOf
<1>4. CurrentCounted(Surface, p.surface, SurfaceOf(cur))
  <2>1. CurrentCounted(Surface, o.surface, SurfaceOf(current))
    BY DEF Consistent
  <2> QED
    BY <1>2, <1>3, <2>1, MovesCounted
<1>5. CurrentCounted(Context, p.context, ContextOf(cur))
  <2>1. CurrentCounted(Context, o.context, ContextOf(current))
    BY DEF Consistent
  <2> QED
    BY <1>2, <1>3, <2>1, MovesCounted
<1>6. Apart(current)
  BY DEF Consistent
<1>7. \A x \in Thread \ {th} : /\ c # NONE => current[x].context # c
                               /\ s # NONE => current[x].surface # s
  BY DEF CurrentElsewhere
<1>8. Apart(cur)
  <2>1. SUFFICES ASSUME NEW x \in Thread
                 PROVE  /\ cur[x].surface # NONE => cur[x].context # NONE
                        /\ \A y \in Thread \ {x} :
                              /\ cur[x].surface # NONE => cur[y].surface # cur[x].surface
                              /\ cur[x].context # NONE => cur[y].context # cur[x].context
    BY DEF Apart
  <2>2. CASE x = th
    <3>1. \A y \in Thread \ {x} : cur[y] = current[y]
      BY <2>2
    <3> QED
      BY <1>7, <2>2, <3>1
  <2>3. CASE x # th
    <3>1. cur[x] = current[x]
      BY <2>3
    <3>2. cur[x].surface # NONE => cur[x].context # NONE
      BY <1>6, <3>1 DEF Apart
    <3>3. ASSUME NEW y \in Thread \ {x}
          PROVE  /\ cur[x].surface # NONE => cur[y].surface # cur[x].surface
                 /\ cur[x].context # NONE => cur[y].context # cur[x].context
      <4>1. CASE y = th
        BY <1>7, <2>3, <3>1, <4>1
      <4>2. CASE y # th
        <5>1. cur[y] = current[y]
          BY <4>2
        <5> QED
          BY <1>6, <3>1, <5>1 DEF Apart
      <4> QED
        BY <4>1, <4>2
    <3> QED
      BY <3>2, <3>3
  <2> QED
    BY <2>2, <2>3
<1>9. Shown(p, cur)
  <2>1. SUFFICES ASSUME NEW x \in Thread, cur[x].surface # NONE
                 PROVE  p.context[cur[x].context].zero = p.surface[cur[x].surface].back
    BY DEF Shown
  <2>2. CASE x = th
    BY <2>1, <2>2
  <2>3. CASE x # th
    <3>1. PICK u, v : u = cur[x].surface /\ v = cur[x].context
      OBVIOUS
    <3>2. current[x].surface = u /\ current[x].context = v /\ u # NONE
      BY <2>1, <2>3, <3>1
    <3>3. u \in Surface /\ v \in Context /\ o.context[v].zero = o.surface[u].back
      BY <3>2, CurrentAlive
    <3>4. v # c
      <4>1. x \in Thread \ {th}
        BY <2>3
      <4> QED
        BY <1>7, <3>2, <3>3, <4>1
    <3>5. p.surface[u].refs > 0
      <4>1. SurfaceOf(cur)[x] = u
        BY <3>1, CurrentOf
      <4> QED
        BY <1>4, <3>3, <4>1, CountAlive
    <3>6. p.context[v].refs > 0
      <4>1. ContextOf(cur)[x] = v
        BY <3>1, CurrentOf
      <4> QED
        BY <1>5, <3>3, <4>1, CountAlive
    <3> QED
      BY <3>1, <3>3, <3>4, <3>5, <3>6 DEF BacksKept, ZerosKept
  <2> QED
    BY <2>2, <2>3
<1> QED
  BY <1>4, <1>5, <1>8, <1>9 DEF Consistent

CurrentWith(cur, th, c, s) == [cur EXCEPT ![th] = [context |-> c, surface |-> s]]

LEMMA CurrentSet ==
    ASSUME NEW cur \in [Thread -> CurrentType], NEW th \in Thread,
           NEW s \in Surface \cup {NONE}, NEW c \in Context \cup {NONE},
           NEW p, p = CurrentWith(cur, th, c, s)
    PROVE  /\ p \in [Thread -> CurrentType] /\ p[th].context = c /\ p[th].surface = s
           /\ \A x \in Thread : x # th => p[x] = cur[x]
<1>1. PICK y : y = [context |-> c, surface |-> s]
  OBVIOUS
<1>2. y \in CurrentType /\ y.context = c /\ y.surface = s
  BY <1>1 DEF CurrentType
<1>3. p = [cur EXCEPT ![th] = y]
  BY <1>1 DEF CurrentWith
<1> QED
  BY <1>2, <1>3

\* eglMakeCurrent()
LEMMA MadeCurrentSound ==
    ASSUME NEW o, Sound(o), Consistent(o, current), NEW th \in Thread,
           NEW s \in Surface \cup {NONE}, NEW c \in Context \cup {NONE},
           c = NONE <=> s = NONE,
           c # NONE => o.context[c].inSet /\ o.surface[s].inSet,
           ~CurrentElsewhere(th, c, s),
           NEW q, q = Switched(o, th, c, s),
           NEW p, c = NONE => p = q, c # NONE => p = Wrapped(q, c, s),
           NEW cur, cur = CurrentWith(current, th, c, s)
    PROVE  Sound(p) /\ Consistent(p, cur)
<1>1. PICK b, d : b = current[th].surface /\ d = current[th].context
  OBVIOUS
<1>2. current \in [Thread -> CurrentType]
  BY DEF Consistent
<1>3. /\ cur \in [Thread -> CurrentType] /\ cur[th].context = c /\ cur[th].surface = s
      /\ \A x \in Thread : x # th => cur[x] = current[x]
  BY <1>2, CurrentSet
<1>4. Makes(cur, th, c, s)
  BY <1>3 DEF Makes
<1>5. s # NONE => o.surface[s].refs > 0
  <2>1. CurrentCounted(Surface, o.surface, SurfaceOf(current))
    BY DEF Consistent
  <2>2. s # NONE => s \in Surface /\ o.surface[s].inSet
    OBVIOUS
  <2> QED
    BY <2>1, <2>2, CountAlive
<1>6. /\ Sound(q)
      /\ \A u \in Surface : /\ q.surface[u].inSet = o.surface[u].inSet
                            /\ q.surface[u].refs = o.surface[u].refs + One(s = u) - One(b = u)
                            /\ q.surface[u].refs > 0 => q.surface[u].back = o.surface[u].back
      /\ \A u \in Context : /\ q.context[u].inSet = o.context[u].inSet
                            /\ q.context[u].refs = o.context[u].refs + One(c = u) - One(d = u)
                            /\ q.context[u].refs > 0 => q.context[u].zero = o.context[u].zero
  BY <1>1, <1>5, SwitchedSound
<1>7. /\ Moves(Surface, o.surface, q.surface, s, b) /\ Moves(Context, o.context, q.context, c, d)
      /\ \A u \in Surface : q.surface[u].refs > 0 => q.surface[u].back = o.surface[u].back
      /\ \A u \in Context : q.context[u].refs > 0 => q.context[u].zero = o.context[u].zero
  BY <1>6 DEF Moves
<1>8. CASE c = NONE
  <2>1. p = q /\ s = NONE
    BY <1>8
  <2>2. s # NONE => c # NONE /\ p.context[c].zero = p.surface[s].back
    BY <2>1
  <2>3. /\ Moves(Surface, o.surface, p.surface, s, b)
        /\ Moves(Context, o.context, p.context, c, d)
    BY <1>7, <2>1
  <2>4. BacksKept(o, p)
    BY <1>7, <2>1 DEF BacksKept
  <2>5. ZerosKept(o, p, c)
    BY <1>7, <2>1 DEF ZerosKept
  <2>6. Consistent(p, cur)
    BY <1>1, <1>4, <2>2, <2>3, <2>4, <2>5, ConsistentMoved
  <2> QED
    BY <1>6, <2>1, <2>6
<1>9. CASE c # NONE
  <2>1. p = Wrapped(q, c, s) /\ c \in Context /\ s \in Surface
    BY <1>9
  <2>2. q.context[c].refs > 0
    <3>1. CurrentCounted(Context, o.context, ContextOf(current))
      BY DEF Consistent
    <3>2. /\ ContextOf(cur)[th] = c /\ ContextOf(current)[th] = d
          /\ \A x \in Thread : x # th => ContextOf(cur)[x] = ContextOf(current)[x]
      BY <1>1, <1>2, <1>3, CurrentOf
    <3>3. CurrentCounted(Context, q.context, ContextOf(cur))
      BY <1>7, <3>1, <3>2, MovesCounted
    <3> QED
      BY <2>1, <3>2, <3>3, CountAlive
  <2>3. /\ Sound(p) /\ Steady(q, p)
        /\ p.context[c] = [q.context[c] EXCEPT !.zero = q.surface[s].back]
        /\ \A u \in Context : u # c => p.context[u] = q.context[u]
    BY <1>6, <2>1, <2>2, WrappedSound
  <2>4. q.context[c] \in ContextType
    <3>1. q \in Store
      BY <1>6, SoundHeld
    <3> QED
      BY <2>1, <3>1 DEF Store
  <2>5. /\ p.context[c].zero = q.surface[s].back /\ p.context[c].refs = q.context[c].refs
    BY <2>3, <2>4 DEF ContextType
  <2>6. p.context[c].inSet = q.context[c].inSet
    BY <2>3, <2>4 DEF ContextType
  <2>7. \A u \in Surface : /\ p.surface[u].inSet = q.surface[u].inSet
                           /\ p.surface[u].refs = q.surface[u].refs
                           /\ p.surface[u].back = q.surface[u].back
    BY <2>3 DEF Steady
  <2>8. Moves(Surface, o.surface, p.surface, s, b)
    BY <1>7, <2>7 DEF Moves
  <2>9. Moves(Context, o.context, p.context, c, d)
    <3>1. \A u \in Context : /\ p.context[u].inSet = q.context[u].inSet
                             /\ p.context[u].refs = q.context[u].refs
      BY <2>3, <2>5, <2>6
    <3> QED
      BY <1>7, <3>1 DEF Moves
  <2>10. BacksKept(o, p)
    BY <1>7, <2>7 DEF BacksKept
  <2>11. ZerosKept(o, p, c)
    BY <1>7, <2>3 DEF ZerosKept
  <2>12. s # NONE => c # NONE /\ p.context[c].zero = p.surface[s].back
    BY <1>9, <2>1, <2>5, <2>7
  <2>13. Consistent(p, cur)
    BY <1>1, <1>4, <2>8, <2>9, <2>10, <2>11, <2>12, ConsistentMoved
  <2> QED
    BY <2>3, <2>13
<1> QED
  BY <1>8, <1>9

\* The references change, and nobody has made anything else current.
LEMMA ConsistentDropped ==
    ASSUME NEW o, Consistent(o, current), NEW p,
           CurrentCounted(Surface, p.surface, SurfaceOf(current)),
           CurrentCounted(Context, p.context, ContextOf(current)),
           BacksKept(o, p), ZerosKept(o, p, NONE)
    PROVE  Consistent(p, current)
<1>1. Shown(p, current)
  <2>1. SUFFICES ASSUME NEW x \in Thread, current[x].surface # NONE
                 PROVE  p.context[current[x].context].zero = p.surface[current[x].surface].back
    BY DEF Shown
  <2>2. PICK u, v : u = current[x].surface /\ v = current[x].context
    OBVIOUS
  <2>3. u \in Surface /\ v \in Context /\ v # NONE /\ o.context[v].zero = o.surface[u].back
    BY <2>1, <2>2, CurrentAlive
  <2>4. SurfaceOf(current)[x] = u /\ ContextOf(current)[x] = v
    BY <2>2, CurrentOf DEF Consistent
  <2>5. p.surface[u].refs > 0
    BY <2>3, <2>4, CountAlive
  <2>6. p.context[v].refs > 0
    BY <2>3, <2>4, CountAlive
  <2> QED
    BY <2>2, <2>3, <2>5, <2>6 DEF BacksKept, ZerosKept
<1> QED
  BY <1>1 DEF Consistent

Drops(D, r, q, s) ==
    /\ r[s].inSet /\ ~q[s].inSet /\ q[s].refs = r[s].refs - 1
    /\ \A u \in D : u # s => q[u].inSet = r[u].inSet /\ q[u].refs = r[u].refs

LEMMA DropsCounted ==
    ASSUME NEW D, NEW r, NEW f, CurrentCounted(D, r, f), NEW s \in D, NEW q, Drops(D, r, q, s)
    PROVE  CurrentCounted(D, q, f)
<1>1. /\ r[s].inSet /\ ~q[s].inSet /\ q[s].refs = r[s].refs - 1
      /\ \A u \in D : u # s => q[u].inSet = r[u].inSet /\ q[u].refs = r[u].refs
  BY DEF Drops
<1> QED
  BY <1>1, CountDropped

LEMMA SurfaceDestroyedConsistent ==
    ASSUME NEW o, Sound(o), Consistent(o, current), NEW s \in Surface, o.surface[s].inSet,
           \A t \in Texture : o.texture[t].surface # s,
           NEW p, p = SurfaceUnlisted(o, s)
    PROVE  Sound(p) /\ Consistent(p, current)
<1>1. o.surface[s].texture = NONE
  <2>1. o \in Store /\ Linked(o)
    BY SoundHeld, HeldStore
  <2>2. o.surface[s].texture \in Texture \cup {NONE}
    BY <2>1 DEF Store, SurfaceType
  <2> QED
    BY <2>1, <2>2 DEF Linked
<1>2. CurrentCounted(Surface, o.surface, SurfaceOf(current))
      /\ CurrentCounted(Context, o.context, ContextOf(current))
  BY DEF Consistent
<1>3. o.surface[s].refs > 0
  BY <1>2, CountAlive
<1>4. /\ Sound(p) /\ p.context = o.context
      /\ ~p.surface[s].inSet /\ p.surface[s].refs = o.surface[s].refs - 1
      /\ \A u \in Surface : /\ p.surface[u].refs > 0 => p.surface[u].back = o.surface[u].back
                            /\ u # s => /\ p.surface[u].refs = o.surface[u].refs
                                        /\ p.surface[u].inSet = o.surface[u].inSet
  BY <1>1, <1>3, SurfaceDestroyed
<1>5. Drops(Surface, o.surface, p.surface, s)
  BY <1>4 DEF Drops
<1>6. CurrentCounted(Surface, p.surface, SurfaceOf(current))
  BY <1>2, <1>5, DropsCounted
<1>7. BacksKept(o, p)
  BY <1>4 DEF BacksKept
<1>8. ZerosKept(o, p, NONE)
  BY <1>4 DEF ZerosKept
<1>9. CurrentCounted(Context, p.context, ContextOf(current))
  BY <1>2, <1>4
<1>10. Consistent(p, current)
  BY <1>6, <1>7, <1>8, <1>9, ConsistentDropped
<1> QED
  BY <1>4, <1>10

LEMMA ContextDestroyedConsistent ==
    ASSUME NEW o, Sound(o), Consistent(o, current), NEW c \in Context, o.context[c].inSet,
           NEW p, p = ContextUnlisted(o, c)
    PROVE  Sound(p) /\ Consistent(p, current)
<1>1. CurrentCounted(Surface, o.surface, SurfaceOf(current))
      /\ CurrentCounted(Context, o.context, ContextOf(current))
  BY DEF Consistent
<1>2. o.context[c].refs > 0
  BY <1>1, CountAlive
<1>3. /\ Sound(p) /\ Steady(o, p)
      /\ ~p.context[c].inSet /\ p.context[c].refs = o.context[c].refs - 1
      /\ \A u \in Context : /\ p.context[u].refs > 0 => p.context[u].zero = o.context[u].zero
                            /\ u # c => /\ p.context[u].refs = o.context[u].refs
                                        /\ p.context[u].inSet = o.context[u].inSet
  BY <1>2, ContextDestroyed
<1>4. Drops(Context, o.context, p.context, c)
  BY <1>3 DEF Drops
<1>5. CurrentCounted(Context, p.context, ContextOf(current))
  BY <1>1, <1>4, DropsCounted
<1>6. CurrentCounted(Surface, p.surface, SurfaceOf(current))
  <2>1. \A u \in Surface : p.surface[u].inSet = o.surface[u].inSet
                           /\ p.surface[u].refs = o.surface[u].refs
    BY <1>3 DEF Steady
  <2> QED
    BY <1>1, <2>1, CountSame
<1>7. BacksKept(o, p)
  BY <1>3 DEF BacksKept, Steady
<1>8. ZerosKept(o, p, NONE)
  BY <1>3 DEF ZerosKept
<1>9. Consistent(p, current)
  BY <1>5, <1>6, <1>7, <1>8, ConsistentDropped
<1> QED
  BY <1>3, <1>9

LEMMA MovesNone ==
    ASSUME NEW D, NEW r, NEW a, \A u \in D : r[u].refs \in Nat
    PROVE  Moves(D, r, r, a, a)
<1>1. ASSUME NEW u \in D
      PROVE  r[u].refs = r[u].refs + One(a = u) - One(a = u)
  BY OneType
<1> QED
  BY <1>1 DEF Moves

LEMMA NoneMoves ==
    ASSUME NEW D, NONE \notin D, NEW r, NEW q, NEW b,
           \A u \in D : /\ r[u].refs \in Nat /\ q[u].inSet = r[u].inSet
                        /\ q[u].refs = r[u].refs - One(b = u)
    PROVE  Moves(D, r, q, NONE, b)
<1>1. ASSUME NEW u \in D
      PROVE  q[u].refs = r[u].refs + One(NONE = u) - One(b = u)
  <2>1. One(NONE = u) = 0
    BY DEF One
  <2>2. One(b = u) \in {0, 1} /\ r[u].refs \in Nat /\ q[u].refs = r[u].refs - One(b = u)
    BY OneType
  <2> QED
    BY <2>1, <2>2
<1> QED
  BY <1>1 DEF Moves

\* A thread's surface, which is destroyed, is current no more.
LEMMA SurfaceLeft ==
    ASSUME NEW o, Sound(o), Consistent(o, current), NEW th \in Thread,
           NEW b, b = current[th].surface, NEW d, d = current[th].context,
           NEW p, p = SurfaceReleased(o, b), NEW cur, Makes(cur, th, d, NONE)
    PROVE  Sound(p) /\ Consistent(p, cur)
<1>1. /\ b \in Surface \cup {NONE} /\ d \in Context \cup {NONE}
      /\ b # NONE => o.surface[b].refs > 0 /\ (o.surface[b].refs = 1 => ~o.surface[b].inSet)
  BY CurrentAlive
<1>2. /\ Sound(p) /\ p.context = o.context
      /\ \A u \in Surface : /\ p.surface[u].inSet = o.surface[u].inSet
                            /\ p.surface[u].refs > 0 => p.surface[u].back = o.surface[u].back
                            /\ p.surface[u].refs = o.surface[u].refs - One(b = u)
  BY <1>1, SurfaceUnreferenced
<1>3. o \in Store
  BY SoundHeld
<1>4. /\ \A u \in Surface : o.surface[u].refs \in Nat
      /\ \A u \in Context : o.context[u].refs \in Nat
  BY <1>3 DEF Store, SurfaceType, ContextType
<1>5. Moves(Surface, o.surface, p.surface, NONE, b)
  BY <1>2, <1>4, NoneMoves
<1>6. Moves(Context, o.context, p.context, d, d)
  BY <1>2, <1>4, MovesNone
<1>7. BacksKept(o, p) /\ ZerosKept(o, p, d)
  BY <1>2 DEF BacksKept, ZerosKept
<1>8. ~CurrentElsewhere(th, d, NONE)
  BY DEF CurrentElsewhere, Consistent, Apart
<1>9. Consistent(p, cur)
  <2>1. PICK s : s = NONE
    OBVIOUS
  <2>2. s # NONE => d # NONE /\ p.context[d].zero = p.surface[s].back
    BY <2>1
  <2>3. Moves(Surface, o.surface, p.surface, s, b) /\ ~CurrentElsewhere(th, d, s)
        /\ Makes(cur, th, d, s) /\ s \in Surface \cup {NONE}
    BY <1>5, <1>8, <2>1
  <2> QED
    BY <1>1, <1>6, <1>7, <2>2, <2>3, ConsistentMoved
<1> QED
  BY <1>2, <1>9

\* A thread's context, which is destroyed, is current no more, nor is its surface.
LEMMA ContextLeft ==
    ASSUME NEW o, Sound(o), Consistent(o, current), NEW th \in Thread,
           NEW b, b = current[th].surface, NEW d, d = current[th].context,
           NEW p, p = SurfaceReleased(ContextReleased(o, d), b),
           NEW cur, Makes(cur, th, NONE, NONE)
    PROVE  Sound(p) /\ Consistent(p, cur)
<1>1. /\ b \in Surface \cup {NONE} /\ d \in Context \cup {NONE}
      /\ b # NONE => o.surface[b].refs > 0 /\ (o.surface[b].refs = 1 => ~o.surface[b].inSet)
      /\ d # NONE => o.context[d].refs > 0 /\ (o.context[d].refs = 1 => ~o.context[d].inSet)
  BY CurrentAlive
<1>2. PICK q : q = ContextReleased(o, d)
  OBVIOUS
<1>3. /\ Sound(q) /\ Steady(o, q)
      /\ \A u \in Context : /\ q.context[u].inSet = o.context[u].inSet
                            /\ q.context[u].refs > 0 => q.context[u].zero = o.context[u].zero
                            /\ q.context[u].refs = o.context[u].refs - One(d = u)
  BY <1>1, <1>2, ContextUnreferenced
<1>4. \A u \in Surface : /\ q.surface[u].inSet = o.surface[u].inSet
                         /\ q.surface[u].refs = o.surface[u].refs
                         /\ q.surface[u].back = o.surface[u].back
  BY <1>3 DEF Steady
<1>5. /\ b # NONE => q.surface[b].refs > 0
      /\ b # NONE /\ q.surface[b].refs = 1 => ~q.surface[b].inSet
  BY <1>1, <1>4
<1>6. p = SurfaceReleased(q, b)
  BY <1>2
<1>7. /\ Sound(p) /\ p.context = q.context
      /\ \A u \in Surface : /\ p.surface[u].inSet = q.surface[u].inSet
                            /\ p.surface[u].refs > 0 => p.surface[u].back = q.surface[u].back
                            /\ p.surface[u].refs = q.surface[u].refs - One(b = u)
  BY <1>1, <1>3, <1>5, <1>6, SurfaceUnreferenced
<1>8. o \in Store
  BY SoundHeld
<1>9. /\ \A u \in Surface : o.surface[u].refs \in Nat
      /\ \A u \in Context : o.context[u].refs \in Nat
  BY <1>8 DEF Store, SurfaceType, ContextType
<1>10. Moves(Surface, o.surface, p.surface, NONE, b)
  <2>1. ASSUME NEW u \in Surface
        PROVE  p.surface[u].inSet = o.surface[u].inSet
    <3>1. p.surface[u].inSet = q.surface[u].inSet
      BY <1>7
    <3>2. q.surface[u].inSet = o.surface[u].inSet
      BY <1>4
    <3> QED
      BY <3>1, <3>2
  <2>2. ASSUME NEW u \in Surface
        PROVE  p.surface[u].refs = o.surface[u].refs - One(b = u)
    <3>1. p.surface[u].refs = q.surface[u].refs - One(b = u)
      BY <1>7
    <3>2. q.surface[u].refs = o.surface[u].refs
      BY <1>4
    <3> QED
      BY <3>1, <3>2
  <2>3. \A u \in Surface : /\ o.surface[u].refs \in Nat
                           /\ p.surface[u].inSet = o.surface[u].inSet
                           /\ p.surface[u].refs = o.surface[u].refs - One(b = u)
    BY <1>9, <2>1, <2>2
  <2> QED
    BY <2>3, NoneMoves
<1>11. Moves(Context, o.context, p.context, NONE, d)
  <2>1. \A u \in Context : /\ o.context[u].refs \in Nat
                           /\ p.context[u].inSet = o.context[u].inSet
                           /\ p.context[u].refs = o.context[u].refs - One(d = u)
    BY <1>3, <1>7, <1>9
  <2> QED
    BY <2>1, NoneMoves
<1>12. BacksKept(o, p)
  BY <1>4, <1>7 DEF BacksKept
<1>13. ZerosKept(o, p, NONE)
  BY <1>3, <1>7 DEF ZerosKept
<1>14. Consistent(p, cur)
  <2>1. PICK s, c : s = NONE /\ c = NONE
    OBVIOUS
  <2>2. s # NONE => c # NONE /\ p.context[c].zero = p.surface[s].back
    BY <2>1
  <2>3. ~CurrentElsewhere(th, c, s)
    BY <2>1 DEF CurrentElsewhere
  <2>4. /\ Moves(Surface, o.surface, p.surface, s, b) /\ Moves(Context, o.context, p.context, c, d)
        /\ ZerosKept(o, p, c) /\ Makes(cur, th, c, s)
        /\ s \in Surface \cup {NONE} /\ c \in Context \cup {NONE}
    BY <1>10, <1>11, <1>13, <2>1
  <2> QED
    BY <1>12, <2>2, <2>3, <2>4, ConsistentMoved
<1> QED
  BY <1>7, <1>14

\* Nobody has made current the surface that gets another back buffer.
LEMMA ConsistentElsewhere ==
    ASSUME NEW o, Consistent(o, current), NEW s \in Surface,
           \A x \in Thread : current[x].surface # s, NEW p,
           CurrentCounted(Surface, p.surface, SurfaceOf(current)), p.context = o.context,
           \A u \in Surface : u # s => p.surface[u].back = o.surface[u].back
    PROVE  Consistent(p, current)
<1>1. Shown(p, current)
  <2>1. SUFFICES ASSUME NEW x \in Thread, current[x].surface # NONE
                 PROVE  p.context[current[x].context].zero = p.surface[current[x].surface].back
    BY DEF Shown
  <2>2. PICK u, v : u = current[x].surface /\ v = current[x].context
    OBVIOUS
  <2>3. u \in Surface /\ o.context[v].zero = o.surface[u].back /\ u # s
    BY <2>1, <2>2, CurrentAlive
  <2> QED
    BY <2>2, <2>3
<1> QED
  BY <1>1 DEF Consistent

Adds(D, r, q, s) ==
    /\ r[s].refs = 0 /\ q[s].inSet /\ q[s].refs = 1
    /\ \A u \in D : u # s => q[u].inSet = r[u].inSet /\ q[u].refs = r[u].refs

LEMMA AddsCounted ==
    ASSUME NEW D, NEW r, NEW f, CurrentCounted(D, r, f), NEW s \in D, NEW q, Adds(D, r, q, s)
    PROVE  CurrentCounted(D, q, f)
<1>1. /\ r[s].refs = 0 /\ q[s].inSet /\ q[s].refs = 1
      /\ \A u \in D : u # s => q[u].inSet = r[u].inSet /\ q[u].refs = r[u].refs
  BY DEF Adds
<1> QED
  BY <1>1, CountAdded

SurfaceListed(o, s) == [o EXCEPT !.surface[s].refs = 1, !.surface[s].inSet = TRUE]

\* eglCreateWindowSurface() and eglCreatePbufferSurface()
LEMMA SurfaceCreatedSound ==
    ASSUME NEW o, Sound(o), Consistent(o, current), NEW s \in Surface, o.surface[s].refs = 0,
           NEW i \in Image, o.image[i].refs = 0,
           NEW p, p = Reset(SurfaceListed(o, s), s)
    PROVE  Sound(p) /\ Consistent(p, current)
<1>1. o \in Store /\ Tidy(o)
  BY SoundHeld
<1>2. o.surface[s] = NoSurface
  BY <1>1 DEF Tidy
<1>3. o.surface[s].texture = NONE
  BY <1>2 DEF NoSurface
<1>4. PICK x, k, b : x = o.surface[s] /\ k = 1 /\ b = TRUE
  OBVIOUS
<1>5. PICK r, q : r = Recounted(x, k, b) /\ q = WithSurface(o, s, r)
  OBVIOUS
<1>6. x \in SurfaceType
  BY <1>1, <1>4 DEF Store
<1>7. q = SurfaceListed(o, s)
  BY <1>1, <1>4, <1>5, <1>6 DEF WithSurface, SurfaceListed, Recounted, Store, SurfaceType
<1>8. /\ Sound(q) /\ q.image = o.image /\ q.context = o.context
      /\ \A u \in Surface : /\ q.surface[u].back = o.surface[u].back
                            /\ q.surface[u].texture = o.surface[u].texture
      /\ q.surface[s].refs = k /\ q.surface[s].inSet = b
      /\ \A u \in Surface : u # s => q.surface[u] = o.surface[u]
  <2>1. k \in Nat /\ k > 0 /\ b \in BOOLEAN
    BY <1>4
  <2>2. o.surface[s].texture # NONE => b
    BY <1>3
  <2>3. x = o.surface[s]
    BY <1>4
  <2> QED
    BY <1>5, <2>1, <2>2, <2>3, SurfaceCountedSound
<1>9. q.surface[s].refs > 0 /\ q.surface[s].texture = NONE /\ q.image[i].refs = 0
  BY <1>3, <1>4, <1>8
<1>10. p = Reset(q, s)
  BY <1>7
<1>11. /\ Sound(p) /\ p.context = q.context
       /\ \A u \in Surface : u # s => /\ p.surface[u].refs = q.surface[u].refs
                                      /\ p.surface[u].back = q.surface[u].back
                                      /\ p.surface[u].inSet = q.surface[u].inSet
       /\ p.surface[s].refs = q.surface[s].refs
       /\ p.surface[s].inSet = q.surface[s].inSet
  BY <1>8, <1>9, <1>10, ResetSound
<1>12. p.surface[s].refs = 1
  BY <1>4, <1>8, <1>11
<1>13. p.surface[s].inSet
  BY <1>4, <1>8, <1>11
<1>14. Adds(Surface, o.surface, p.surface, s)
  <2>1. \A u \in Surface : u # s => p.surface[u].inSet = o.surface[u].inSet
                                    /\ p.surface[u].refs = o.surface[u].refs
    BY <1>8, <1>11
  <2> QED
    BY <1>12, <1>13, <2>1 DEF Adds
<1>15. CurrentCounted(Surface, o.surface, SurfaceOf(current))
  BY DEF Consistent
<1>16. CurrentCounted(Surface, p.surface, SurfaceOf(current))
  BY <1>14, <1>15, AddsCounted
<1>17. \A y \in Thread : current[y].surface # s
  <2>1. ASSUME NEW y \in Thread, current[y].surface = s
        PROVE  FALSE
    <3>1. o.surface[s].refs > 0
      BY <2>1, CurrentAlive
    <3> QED
      BY <3>1
  <2> QED
    BY <2>1
<1>18. p.context = o.context
       /\ \A u \in Surface : u # s => p.surface[u].back = o.surface[u].back
  BY <1>8, <1>11
<1>19. Consistent(p, current)
  BY <1>16, <1>17, <1>18, ConsistentElsewhere
<1> QED
  BY <1>11, <1>19

ContextListed(o, c) == WithContext(o, c, Recounted(o.context[c], 1, TRUE))

\* eglCreateContext()
LEMMA ContextCreatedSound ==
    ASSUME NEW o, Sound(o), Consistent(o, current), NEW c \in Context, o.context[c].refs = 0,
           NEW p, p = ContextListed(o, c)
    PROVE  Sound(p) /\ Consistent(p, current)
<1>1. PICK x, k, b : x = o.context[c] /\ k = 1 /\ b = TRUE
  OBVIOUS
<1>2. PICK r : r = Recounted(x, k, b)
  OBVIOUS
<1>3. p = WithContext(o, c, r)
  BY <1>1, <1>2 DEF ContextListed
<1>4. /\ Sound(p) /\ p.image = o.image /\ p.texture = o.texture
      /\ p.surface = o.surface
      /\ \A u \in Context : p.context[u].zero = o.context[u].zero
      /\ p.context[c].refs = k /\ p.context[c].inSet = b
      /\ \A u \in Context : u # c => p.context[u] = o.context[u]
  <2>1. k \in Nat /\ k > 0 /\ b \in BOOLEAN
    BY <1>1
  <2>2. x = o.context[c]
    BY <1>1
  <2> QED
    BY <1>2, <1>3, <2>1, <2>2, ContextCountedSound
<1>5. p.context[c].refs = 1
  BY <1>4, <1>1
<1>6. p.context[c].inSet
  BY <1>4, <1>1
<1>7. Adds(Context, o.context, p.context, c)
  <2>1. \A u \in Context : u # c => p.context[u].inSet = o.context[u].inSet
                                    /\ p.context[u].refs = o.context[u].refs
    BY <1>4
  <2> QED
    BY <1>5, <1>6, <2>1 DEF Adds
<1>8. CurrentCounted(Context, o.context, ContextOf(current))
      /\ CurrentCounted(Surface, o.surface, SurfaceOf(current))
  BY DEF Consistent
<1>9. CurrentCounted(Context, p.context, ContextOf(current))
  BY <1>7, <1>8, AddsCounted
<1>10. CurrentCounted(Surface, p.surface, SurfaceOf(current))
  BY <1>4, <1>8
<1>11. BacksKept(o, p) /\ ZerosKept(o, p, NONE)
  BY <1>4 DEF BacksKept, ZerosKept
<1>12. Consistent(p, current)
  BY <1>9, <1>10, <1>11, ConsistentDropped
<1> QED
  BY <1>4, <1>12

\* A window gets a back buffer of another size.
LEMMA WindowReset ==
    ASSUME NEW o, Sound(o), Consistent(o, current),
           NEW s \in Surface, s \in Window, o.surface[s].inSet,
           NEW i \in Image, o.image[i].refs = 0,
           NEW q, q = Reset(o, s)
    PROVE  /\ Sound(q) /\ q.context = o.context
           /\ \A u \in Surface : u # s => q.surface[u].back = o.surface[u].back
           /\ CurrentCounted(Surface, q.surface, SurfaceOf(current))
<1>1. CurrentCounted(Surface, o.surface, SurfaceOf(current))
  BY DEF Consistent
<1>2. o.surface[s].refs > 0
  BY <1>1, CountAlive
<1>3. o.surface[s].texture = NONE
  BY SoundHeld DEF Tidy
<1>4. Sound(q) /\ q.context = o.context
  BY <1>2, <1>3, ResetSound
<1>5. \A u \in Surface : u # s => /\ q.surface[u].refs = o.surface[u].refs
                                  /\ q.surface[u].back = o.surface[u].back
                                  /\ q.surface[u].inSet = o.surface[u].inSet
  BY <1>2, <1>3, ResetSound
<1>6. q.surface[s].refs = o.surface[s].refs
  BY <1>2, <1>3, ResetSound
<1>7. q.surface[s].inSet = o.surface[s].inSet
  BY <1>2, <1>3, ResetSound
<1>8. \A u \in Surface : q.surface[u].inSet = o.surface[u].inSet
                         /\ q.surface[u].refs = o.surface[u].refs
  BY <1>5, <1>6, <1>7
<1>9. CurrentCounted(Surface, q.surface, SurfaceOf(current))
  BY <1>1, <1>8, CountSame
<1> QED
  BY <1>4, <1>9, <1>5

\* eglSwapBuffers() of a window that has another size
LEMMA ResizedSound ==
    ASSUME NEW o, Sound(o), Consistent(o, current), NEW th \in Thread,
           NEW s \in Surface, s \in Window, o.surface[s].inSet,
           ~CurrentElsewhere(th, NONE, s),
           NEW i \in Image, o.image[i].refs = 0,
           NEW q, q = Reset(o, s),
           NEW d, d = current[th].context,
           NEW p, current[th].surface = s => p = Wrapped(q, d, s),
           current[th].surface # s => p = q
    PROVE  Sound(p) /\ Consistent(p, current)
<1>1. CurrentCounted(Context, o.context, ContextOf(current))
  BY DEF Consistent
<1>2. /\ Sound(q) /\ q.context = o.context
      /\ \A u \in Surface : u # s => q.surface[u].back = o.surface[u].back
      /\ CurrentCounted(Surface, q.surface, SurfaceOf(current))
  BY WindowReset
<1>3. CurrentCounted(Surface, q.surface, SurfaceOf(current))
  BY <1>2
<1>4. \A x \in Thread \ {th} : current[x].surface # s
  <2>1. s # NONE
    OBVIOUS
  <2> QED
    BY <2>1 DEF CurrentElsewhere
<1>5. CASE current[th].surface # s
  <2>1. \A x \in Thread : current[x].surface # s
    BY <1>4, <1>5
  <2>2. \A u \in Surface : u # s => q.surface[u].back = o.surface[u].back
    BY <1>2
  <2>3. q.context = o.context
    BY <1>2
  <2>4. Consistent(q, current)
    BY <1>3, <2>1, <2>2, <2>3, ConsistentElsewhere
  <2> QED
    BY <1>2, <1>5, <2>4
<1>6. CASE current[th].surface = s
  <2>1. d \in Context /\ d # NONE /\ o.context[d].refs > 0
    <3>1. s # NONE
      OBVIOUS
    <3> QED
      BY <1>6, <3>1, CurrentAlive
  <2>2. q.context[d].refs > 0 /\ p = Wrapped(q, d, s)
    BY <1>2, <1>6, <2>1
  <2>3. /\ Sound(p) /\ Steady(q, p)
        /\ p.context[d] = [q.context[d] EXCEPT !.zero = q.surface[s].back]
        /\ \A u \in Context : u # d => p.context[u] = q.context[u]
    BY <1>2, <2>1, <2>2, WrappedSound
  <2>4. q.context[d] \in ContextType
    <3>1. q \in Store
      BY <1>2, SoundHeld
    <3> QED
      BY <2>1, <3>1 DEF Store
  <2>5. p.context[d].zero = q.surface[s].back /\ p.context[d].refs = q.context[d].refs
    BY <2>3, <2>4 DEF ContextType
  <2>6. p.context[d].inSet = q.context[d].inSet
    BY <2>3, <2>4 DEF ContextType
  <2>7. \A u \in Surface : /\ p.surface[u].inSet = q.surface[u].inSet
                           /\ p.surface[u].refs = q.surface[u].refs
                           /\ p.surface[u].back = q.surface[u].back
    BY <2>3 DEF Steady
  <2>8. CurrentCounted(Surface, p.surface, SurfaceOf(current))
    <3>1. \A u \in Surface : p.surface[u].inSet = q.surface[u].inSet
                             /\ p.surface[u].refs = q.surface[u].refs
      BY <2>7
    <3> QED
      BY <1>3, <3>1, CountSame
  <2>9. CurrentCounted(Context, p.context, ContextOf(current))
    <3>1. \A u \in Context : p.context[u].inSet = q.context[u].inSet
                             /\ p.context[u].refs = q.context[u].refs
      BY <2>3, <2>5, <2>6
    <3>2. CurrentCounted(Context, q.context, ContextOf(current))
      BY <1>1, <1>2
    <3> QED
      BY <3>1, <3>2, CountSame
  <2>10. Shown(p, current)
    <3>1. SUFFICES ASSUME NEW x \in Thread, current[x].surface # NONE
                   PROVE  p.context[current[x].context].zero = p.surface[current[x].surface].back
      BY DEF Shown
    <3>2. CASE x = th
      BY <1>6, <2>5, <2>7, <3>2
    <3>3. CASE x # th
      <4>1. PICK u, v : u = current[x].surface /\ v = current[x].context
        OBVIOUS
      <4>2. u \in Surface /\ o.context[v].zero = o.surface[u].back /\ v \in Context
        BY <3>1, <4>1, CurrentAlive
      <4>3. u # s
        BY <1>4, <3>3, <4>1
      <4>4. v # d
        <5>1. Apart(current) /\ x \in Thread \ {th}
          BY <3>3 DEF Consistent
        <5>2. current[x].context # current[th].context
          BY <2>1, <5>1 DEF Apart
        <5> QED
          BY <4>1, <5>2
      <4> QED
        BY <1>2, <2>3, <2>7, <4>1, <4>2, <4>3, <4>4
    <3> QED
      BY <3>2, <3>3
  <2>11. Consistent(p, current)
    BY <2>8, <2>9, <2>10 DEF Consistent
  <2> QED
    BY <2>3, <2>11
<1> QED
  BY <1>5, <1>6

-----------------------------------------------------------------------------
(* Every action keeps the invariant                                         *)

LEMMA Became ==
    ASSUME NEW p, Sound(p), Become(p), Consistent(p, current')
    PROVE  EGLInv'
<1>1. p \in Store
  BY SoundHeld
<1>2. p = [image |-> p.image, texture |-> p.texture, surface |-> p.surface,
           context |-> p.context, dangling |-> p.dangling]
  BY <1>1 DEF Store
<1>3. Objects' = p
  BY <1>2 DEF Objects, Become
<1> QED
  BY <1>3 DEF EGLInv

LEMMA ObjectsAre ==
    /\ Objects.image = image /\ Objects.texture = texture /\ Objects.surface = surface
    /\ Objects.context = context /\ Objects.dangling = dangling
BY DEF Objects

\* The calls in which surfaces and contexts are neither created nor destroyed nor made current
LEMMA BecameSteady ==
    ASSUME EGLInv, NEW p, Sound(p), Become(p), UNCHANGED current, Steady(Objects, p),
           \A c \in Context : /\ p.context[c].refs = context[c].refs
                              /\ p.context[c].inSet = context[c].inSet
                              /\ p.context[c].zero = context[c].zero
    PROVE  EGLInv'
<1>1. PICK o, cur : o = Objects /\ cur = current
  OBVIOUS
<1>2. Consistent(o, cur) /\ Steady(o, p)
  BY <1>1 DEF EGLInv
<1>3. \A c \in Context : /\ p.context[c].refs = o.context[c].refs
                         /\ p.context[c].inSet = o.context[c].inSet
                         /\ p.context[c].zero = o.context[c].zero
  BY <1>1, ObjectsAre
<1>4. Consistent(p, cur)
  BY <1>2, <1>3, ConsistentSame
<1>5. Consistent(p, current')
  BY <1>1, <1>4
<1> QED
  BY <1>5, Became

\* The image of a texture that a client may specify, if it is its own, has no other holder.
LEMMA MaySpecifyAlone ==
    ASSUME Sound(Objects), ~Respecifies, NEW t \in Texture, MaySpecify(t)
    PROVE  Alone(Objects, t) /\ Objects.texture[t].named
<1>1. PICK o : o = Objects
  OBVIOUS
<1>2. /\ o.image = image /\ o.texture = texture /\ o.surface = surface /\ o.context = context
  BY <1>1, ObjectsAre
<1>3. texture[t].named /\ ~HeldByOthers(t)
  BY DEF MaySpecify
<1>4. o.texture[t].named
  BY <1>2, <1>3
<1>5. ASSUME Own(o, t)
      PROVE  Total(o, Extra(o))[o.texture[t].level] = 0
  <2>1. PICK i : i = o.texture[t].level
    OBVIOUS
  <2>2. i # NONE /\ o.image[i].parent = t
    BY <1>5, <2>1 DEF Own
  <2>3. Sound(o) /\ o \in Store /\ Tidy(o)
    BY <1>1, SoundHeld
  <2>4. i \in Image
    BY <2>1, <2>2, <2>3 DEF Store, TextureType
  <2>5. /\ ~o.image[i].shared
        /\ \A u \in Texture \ {t} : o.texture[u].level # i
        /\ \A c \in Context : o.context[c].target # i
    BY <1>2, <1>3, <2>1, <2>2 DEF HeldByOthers
  <2>6. t # NONE
    OBVIOUS
  <2>7. /\ \A s \in Surface : o.surface[s].back # i
        /\ \A c \in Context : o.context[c].zero # i
    BY <2>2, <2>3, <2>4, <2>6 DEF Tidy
  <2>8. Pointing(Texture, Lev(o), i) = 0
    <3>1. ASSUME NEW u \in Texture
          PROVE  Lev(o)[u] # i
      <4>1. Lev(o)[u] = IF Own(o, u) THEN NONE ELSE o.texture[u].level
        BY LevFunction
      <4>2. CASE u = t
        BY <1>5, <2>2, <4>1, <4>2
      <4>3. CASE u # t
        BY <2>2, <2>5, <4>1, <4>3
      <4> QED
        BY <4>2, <4>3
    <3> QED
      BY <3>1, Finite, PointingType
  <2>9. Pointing(Surface, Backs(o), i) = 0
    <3>1. \A s \in Surface : Backs(o)[s] # i
      BY <2>7 DEF Backs
    <3> QED
      BY <3>1, Finite, PointingType
  <2>10. Pointing(Context, Zeros(o), i) = 0
    <3>1. \A c \in Context : Zeros(o)[c] # i
      BY <2>7 DEF Zeros
    <3> QED
      BY <3>1, Finite, PointingType
  <2>11. Pointing(Context, Targets(o), i) = 0
    <3>1. \A c \in Context : Targets(o)[c] # i
      BY <2>5 DEF Targets
    <3> QED
      BY <3>1, Finite, PointingType
  <2>12. One(o.image[i].shared) = 0
    BY <2>5 DEF One
  <2>13. Extra(o)[i] = 0
    <3>1. Extra(o)[i] = Pointing(Surface, Backs(o), i) + Pointing(Context, Zeros(o), i)
                          + Pointing(Context, Targets(o), i) + One(o.image[i].shared)
      BY <2>4, ExtraType
    <3> QED
      BY <2>9, <2>10, <2>11, <2>12, <3>1
  <2>14. Total(o, Extra(o))[i] = Pointing(Texture, Lev(o), i) + Extra(o)[i]
    BY <2>4 DEF Total
  <2> QED
    BY <2>1, <2>8, <2>13, <2>14
<1> QED
  BY <1>1, <1>4, <1>5 DEF Alone

LEMMA MemoryFree ==
    ASSUME HasMemory
    PROVE  \E i \in Image : Objects.image[i].refs = 0
BY ObjectsAre DEF HasMemory

LEMMA CreateSurfaceStep ==
    ASSUME EGLInv, NEW s \in Surface, createSurface(s)
    PROVE  EGLInv'
<1>1. PICK o : o = Objects
  OBVIOUS
<1>2. Sound(o) /\ Consistent(o, current)
  BY <1>1 DEF EGLInv
<1>3. o.surface[s].refs = 0
  BY <1>1, ObjectsAre DEF createSurface
<1>4. PICK i \in Image : o.image[i].refs = 0
  BY <1>1, MemoryFree DEF createSurface
<1>5. PICK p : p = Reset(SurfaceListed(o, s), s)
  OBVIOUS
<1>6. Become(p) /\ current' = current
  BY <1>1, <1>5 DEF createSurface, SurfaceListed
<1>7. Sound(p) /\ Consistent(p, current)
  BY <1>2, <1>3, <1>4, <1>5, SurfaceCreatedSound
<1> QED
  BY <1>6, <1>7, Became

LEMMA CreateContextStep ==
    ASSUME EGLInv, NEW c \in Context, createContext(c)
    PROVE  EGLInv'
<1>1. PICK o : o = Objects
  OBVIOUS
<1>2. Sound(o) /\ Consistent(o, current)
  BY <1>1 DEF EGLInv
<1>3. o.context[c].refs = 0
  BY <1>1, ObjectsAre DEF createContext
<1>4. PICK p : p = ContextListed(o, c)
  OBVIOUS
<1>5. Become(p) /\ current' = current
  <2>1. PICK x, r : x = context[c] /\ r = Recounted(x, 1, TRUE)
    OBVIOUS
  <2>2. o \in Store
    BY <1>2, SoundHeld
  <2>3. /\ o.context = context /\ o.image = image /\ o.texture = texture /\ o.surface = surface
        /\ o.dangling = dangling
    BY <1>1, ObjectsAre
  <2>4. x \in ContextType /\ context \in [Context -> ContextType]
    BY <2>1, <2>2, <2>3 DEF Store
  <2>5. r \in ContextType
    BY <2>1, <2>4 DEF Recounted, ContextType
  <2>6. p = WithContext(o, c, r)
    BY <1>4, <2>1, <2>3 DEF ContextListed
  <2>7. p = [o EXCEPT !.context[c] = r]
    BY <2>6 DEF WithContext
  <2>8. /\ p.image = o.image /\ p.texture = o.texture /\ p.surface = o.surface
        /\ p.dangling = o.dangling /\ p.context = [o.context EXCEPT ![c] = r]
    BY <2>2, <2>7 DEF Store
  <2>9. context' = [context EXCEPT ![c] = r]
    <3>1. context' = [context EXCEPT ![c].refs = 1, ![c].inSet = TRUE]
      BY DEF createContext
    <3> QED
      BY <2>1, <2>4, <3>1 DEF Recounted, ContextType
  <2> QED
    BY <2>3, <2>8, <2>9 DEF createContext, Become
<1>6. Sound(p) /\ Consistent(p, current)
  BY <1>2, <1>3, <1>4, ContextCreatedSound
<1> QED
  BY <1>5, <1>6, Became

LEMMA MakeCurrentStep ==
    ASSUME EGLInv, NEW th \in Thread, NEW c \in Context \cup {NONE},
           NEW s \in Surface \cup {NONE}, makeCurrent(th, c, s)
    PROVE  EGLInv'
<1>1. PICK o : o = Objects
  OBVIOUS
<1>2. Sound(o) /\ Consistent(o, current)
  BY <1>1 DEF EGLInv
<1>3. /\ c = NONE <=> s = NONE
      /\ c # NONE => o.context[c].inSet /\ o.surface[s].inSet
      /\ ~CurrentElsewhere(th, c, s)
  BY <1>1, ObjectsAre DEF makeCurrent
<1>4. PICK q, cur : q = Switched(o, th, c, s) /\ cur = CurrentWith(current, th, c, s)
  OBVIOUS
<1>5. PICK p : p = IF c = NONE THEN q ELSE Wrapped(q, c, s)
  OBVIOUS
<1>6. Become(p)
  BY <1>1, <1>4, <1>5 DEF makeCurrent
<1>7. current' = cur
  BY <1>4 DEF makeCurrent, CurrentWith
<1>8. (c = NONE => p = q) /\ (c # NONE => p = Wrapped(q, c, s))
  BY <1>5
<1>9. Sound(p) /\ Consistent(p, cur)
  BY <1>2, <1>3, <1>4, <1>8, MadeCurrentSound
<1> QED
  BY <1>6, <1>7, <1>9, Became

LEMMA SwapStep ==
    ASSUME EGLInv, NEW th \in Thread, NEW s \in Surface, swap(th, s)
    PROVE  EGLInv'
<1>1. PICK o : o = Objects
  OBVIOUS
<1>2. Sound(o) /\ Consistent(o, current)
  BY <1>1 DEF EGLInv
<1>3. s \in Window /\ o.surface[s].inSet /\ ~CurrentElsewhere(th, NONE, s)
  BY <1>1, ObjectsAre DEF swap
<1>4. PICK i \in Image : o.image[i].refs = 0
  BY <1>1, MemoryFree DEF swap
<1>5. PICK q, d, p : q = Reset(o, s) /\ d = current[th].context /\ p = Resized(th, s)
  OBVIOUS
<1>6. Become(p) /\ current' = current
  BY <1>5 DEF swap
<1>7. /\ current[th].surface = s => p = Wrapped(q, d, s)
      /\ current[th].surface # s => p = q
  BY <1>1, <1>5 DEF Resized
<1>8. Sound(p) /\ Consistent(p, current)
  BY <1>2, <1>3, <1>4, <1>5, <1>7, ResizedSound
<1> QED
  BY <1>6, <1>8, Became

LEMMA DestroySurfaceStep ==
    ASSUME EGLInv, ~LinksOutlive, NEW th \in Thread, NEW s \in Surface, destroySurface(th, s)
    PROVE  EGLInv'
<1>1. PICK o : o = Objects
  OBVIOUS
<1>2. Sound(o) /\ Consistent(o, current)
  BY <1>1 DEF EGLInv
<1>3. o.surface[s].inSet /\ \A t \in Texture : o.texture[t].surface # s
  BY <1>1, ObjectsAre DEF destroySurface
<1>4. PICK q : q = SurfaceUnlisted(o, s)
  OBVIOUS
<1>5. Sound(q) /\ Consistent(q, current)
  BY <1>2, <1>3, <1>4, SurfaceDestroyedConsistent
<1>6. CASE current[th].surface = s
  <2>1. PICK d, p, cur : /\ d = current[th].context /\ p = SurfaceReleased(q, s)
                         /\ cur = [current EXCEPT ![th].surface = NONE]
    OBVIOUS
  <2>2. Become(p) /\ current' = cur
    BY <1>1, <1>4, <1>6, <2>1 DEF destroySurface, SurfaceUnlisted
  <2>3. Makes(cur, th, d, NONE)
    <3>1. current \in [Thread -> CurrentType]
      BY <1>2 DEF Consistent
    <3>2. PICK x, y : x = current[th] /\ y = [x EXCEPT !.surface = NONE]
      OBVIOUS
    <3>3. x \in CurrentType /\ x.context = d
      BY <2>1, <3>1, <3>2
    <3>4. y \in CurrentType /\ y.context = d /\ y.surface = NONE
      BY <3>2, <3>3 DEF CurrentType
    <3>5. cur = [current EXCEPT ![th] = y]
      BY <2>1, <3>2
    <3> QED
      BY <3>1, <3>4, <3>5 DEF Makes
  <2>4. Sound(p) /\ Consistent(p, cur)
    <3>1. PICK b : b = current[th].surface
      OBVIOUS
    <3>2. p = SurfaceReleased(q, b)
      BY <1>6, <2>1, <3>1
    <3>3. d = current[th].context
      BY <2>1
    <3> QED
      BY <1>5, <2>3, <3>1, <3>2, <3>3, SurfaceLeft
  <2> QED
    BY <2>2, <2>4, Became
<1>7. CASE current[th].surface # s
  <2>1. Become(q) /\ current' = current
    BY <1>1, <1>4, <1>7 DEF destroySurface, SurfaceUnlisted
  <2> QED
    BY <1>5, <2>1, Became
<1> QED
  BY <1>6, <1>7

LEMMA DestroyContextStep ==
    ASSUME EGLInv, NEW th \in Thread, NEW c \in Context, destroyContext(th, c)
    PROVE  EGLInv'
<1>1. PICK o : o = Objects
  OBVIOUS
<1>2. Sound(o) /\ Consistent(o, current)
  BY <1>1 DEF EGLInv
<1>3. o.context[c].inSet
  BY <1>1, ObjectsAre DEF destroyContext
<1>4. PICK q : q = ContextUnlisted(o, c)
  OBVIOUS
<1>5. Sound(q) /\ Consistent(q, current)
  BY <1>2, <1>3, <1>4, ContextDestroyedConsistent
<1>6. CASE current[th].context = c
  <2>1. PICK b, d, p, cur : /\ b = current[th].surface /\ d = current[th].context
                            /\ p = SurfaceReleased(ContextReleased(q, d), b)
                            /\ cur = CurrentWith(current, th, NONE, NONE)
    OBVIOUS
  <2>2. Become(p) /\ current' = cur
    BY <1>1, <1>4, <1>6, <2>1 DEF destroyContext, ContextUnlisted, CurrentWith
  <2>3. Makes(cur, th, NONE, NONE)
    <3>1. current \in [Thread -> CurrentType]
      BY <1>2 DEF Consistent
    <3>2. PICK s, e : s = NONE /\ e = NONE
      OBVIOUS
    <3>3. s \in Surface \cup {NONE} /\ e \in Context \cup {NONE}
          /\ cur = CurrentWith(current, th, e, s)
      BY <2>1, <3>2
    <3>4. /\ cur \in [Thread -> CurrentType] /\ cur[th].context = e /\ cur[th].surface = s
          /\ \A x \in Thread : x # th => cur[x] = current[x]
      BY <3>1, <3>3, CurrentSet
    <3> QED
      BY <3>2, <3>4 DEF Makes
  <2>4. b = current[th].surface /\ d = current[th].context
        /\ p = SurfaceReleased(ContextReleased(q, d), b)
    BY <2>1
  <2>5. Sound(p) /\ Consistent(p, cur)
    BY <1>5, <2>3, <2>4, ContextLeft
  <2> QED
    BY <2>2, <2>5, Became
<1>7. CASE current[th].context # c
  <2>1. Become(q) /\ current' = current
    BY <1>1, <1>4, <1>7 DEF destroyContext, ContextUnlisted
  <2> QED
    BY <1>5, <2>1, Became
<1> QED
  BY <1>6, <1>7

LEMMA BindTexImageStep ==
    ASSUME EGLInv, ~Respecifies, ~LinksOutlive,
           NEW th \in Thread, NEW s \in Surface, NEW t \in Texture, bindTexImage(th, s, t)
    PROVE  EGLInv'
<1>1. PICK o : o = Objects
  OBVIOUS
<1>2. Sound(o) /\ Consistent(o, current)
  BY <1>1 DEF EGLInv
<1>3. /\ s \notin Window /\ o.surface[s].inSet /\ o.surface[s].texture = NONE
      /\ o.texture[t].surface = NONE
  BY <1>1, ObjectsAre DEF bindTexImage
<1>4. o.texture[t].named /\ Alone(o, t)
  BY <1>1, <1>2, MaySpecifyAlone DEF bindTexImage
<1>5. o.surface[s].refs > 0
  <2>1. CurrentCounted(Surface, o.surface, SurfaceOf(current))
    BY <1>2 DEF Consistent
  <2> QED
    BY <1>3, <2>1, CountAlive
<1>6. PICK p : p = TexImageBound(o, t, s)
  OBVIOUS
<1>7. Become(p) /\ UNCHANGED current
  BY <1>1, <1>6 DEF bindTexImage
<1>8. Sound(p) /\ Steady(o, p) /\ p.context = o.context
  BY <1>2, <1>3, <1>4, <1>5, <1>6, TexImageBoundSound
<1>9. Steady(Objects, p) /\ p.context = context
  BY <1>1, <1>8, ObjectsAre
<1> QED
  BY <1>7, <1>8, <1>9, BecameSteady

LEMMA ReleaseTexImageStep ==
    ASSUME EGLInv, ~Respecifies, NEW s \in Surface, releaseTexImage(s)
    PROVE  EGLInv'
<1>1. PICK o, t : o = Objects /\ t = surface[s].texture
  OBVIOUS
<1>2. Sound(o) /\ Consistent(o, current)
  BY <1>1 DEF EGLInv
<1>3. t \in Texture
  <2>1. o \in Store /\ t # NONE /\ t = o.surface[s].texture
    BY <1>1, <1>2, ObjectsAre, SoundHeld DEF releaseTexImage
  <2> QED
    BY <2>1 DEF Store, SurfaceType
<1>4. o.texture[t].named /\ Alone(o, t)
  BY <1>1, <1>2, <1>3, MaySpecifyAlone DEF releaseTexImage
<1>5. o.texture[t].refs > 0
  BY <1>2, <1>3, <1>4, Named, SoundHeld, HeldAlive
<1>6. PICK p : p = TexImageReleased(o, t)
  OBVIOUS
<1>7. Become(p) /\ UNCHANGED current
  BY <1>1, <1>6 DEF releaseTexImage
<1>8. Sound(p) /\ Frame(o, p)
  BY <1>2, <1>3, <1>4, <1>5, <1>6, TexImageReleasedSound
<1>9. Steady(o, p)
  BY <1>8, FrameSteady
<1>10. Steady(Objects, p) /\ p.context = context
  BY <1>1, <1>8, <1>9, ObjectsAre DEF Frame
<1> QED
  BY <1>7, <1>8, <1>10, BecameSteady

LEMMA CreateImageStep ==
    ASSUME EGLInv, NEW t \in Texture, createImage(t)
    PROVE  EGLInv'
<1>1. PICK o, i : o = Objects /\ i = texture[t].level
  OBVIOUS
<1>2. Sound(o)
  BY <1>1 DEF EGLInv
<1>3. o.texture[t].level = i /\ i # NONE /\ ~o.image[i].shared
  BY <1>1, ObjectsAre DEF createImage
<1>4. o.image[i].refs > 0 /\ i \in Image
  <2>1. o \in Store
    BY <1>2, SoundHeld
  <2>2. i \in Image
    BY <1>3, <2>1 DEF Store, TextureType
  <2> QED
    BY <1>2, <1>3, <2>2, PointersAlive
<1>5. PICK p : p = [AddRef(o, i) EXCEPT !.image[i].shared = TRUE]
  OBVIOUS
<1>6. Become(p) /\ UNCHANGED current
  BY <1>1, <1>5 DEF createImage
<1>7. Sound(p) /\ Steady(o, p) /\ p.context = o.context
  BY <1>2, <1>3, <1>4, <1>5, ImageSharedSound
<1>8. Steady(Objects, p) /\ p.context = context
  BY <1>1, <1>7, ObjectsAre
<1> QED
  BY <1>6, <1>7, <1>8, BecameSteady

LEMMA DestroyImageStep ==
    ASSUME EGLInv, NEW i \in Image, destroyImage(i)
    PROVE  EGLInv'
<1>1. PICK o : o = Objects
  OBVIOUS
<1>2. Sound(o)
  BY <1>1 DEF EGLInv
<1>3. o.image[i].shared
  BY <1>1, ObjectsAre DEF destroyImage
<1>4. PICK p : p = Released([o EXCEPT !.image[i].shared = FALSE], i)
  OBVIOUS
<1>5. Become(p) /\ UNCHANGED current
  BY <1>1, <1>4 DEF destroyImage
<1>6. Sound(p) /\ Steady(o, p) /\ p.context = o.context
  BY <1>2, <1>3, <1>4, ImageDestroyedSound
<1>7. Steady(Objects, p) /\ p.context = context
  BY <1>1, <1>6, ObjectsAre
<1> QED
  BY <1>5, <1>6, <1>7, BecameSteady

LEMMA BindTextureStep ==
    ASSUME EGLInv, NEW t \in Texture, bindTexture(t)
    PROVE  EGLInv'
<1>1. PICK o : o = Objects
  OBVIOUS
<1>2. Sound(o) /\ o \in Store
  BY <1>1, SoundHeld DEF EGLInv
<1>3. /\ o.context = context /\ o.image = image /\ o.texture = texture /\ o.surface = surface
      /\ o.dangling = dangling
  BY <1>1, ObjectsAre
<1>4. o.texture[t].refs = 0
  BY <1>3 DEF bindTexture
<1>5. PICK p : p = TextureListed(o, t)
  OBVIOUS
<1>6. Become(p) /\ UNCHANGED current
  <2>1. PICK x, r : x = texture[t] /\ r = [x EXCEPT !.refs = 1, !.named = TRUE]
    OBVIOUS
  <2>2. p = WithTexture(o, t, r)
    BY <1>3, <1>5, <2>1 DEF TextureListed
  <2>3. x \in TextureType /\ texture \in [Texture -> TextureType]
    BY <1>2, <1>3, <2>1 DEF Store
  <2>4. /\ p.image = o.image /\ p.context = o.context /\ p.surface = o.surface
        /\ p.dangling = o.dangling /\ p.texture = [o.texture EXCEPT ![t] = r]
    BY <1>2, <2>2 DEF WithTexture, Store
  <2>5. texture' = [texture EXCEPT ![t] = r]
    <3>1. texture' = [texture EXCEPT ![t].refs = 1, ![t].named = TRUE]
      BY DEF bindTexture
    <3> QED
      BY <1>3, <2>1, <2>3, <3>1 DEF TextureType
  <2> QED
    BY <1>3, <2>4, <2>5 DEF bindTexture, Become
<1>7. Sound(p) /\ p.surface = o.surface /\ p.context = o.context
  BY <1>2, <1>4, <1>5, TextureNamedSound
<1>8. Steady(Objects, p) /\ p.context = context
  BY <1>1, <1>7, ObjectsAre DEF Steady
<1> QED
  BY <1>6, <1>7, <1>8, BecameSteady

LEMMA TexImageStep ==
    ASSUME EGLInv, ~Respecifies, NEW t \in Texture, texImage(t)
    PROVE  EGLInv'
<1>1. PICK o : o = Objects
  OBVIOUS
<1>2. Sound(o)
  BY <1>1 DEF EGLInv
<1>3. o.texture[t].named /\ Alone(o, t)
  BY <1>1, <1>2, MaySpecifyAlone DEF texImage
<1>4. PICK i \in Image : o.image[i].refs = 0
  BY <1>1, MemoryFree DEF texImage
<1>5. PICK p : p = Specified(o, t)
  OBVIOUS
<1>6. Become(p) /\ UNCHANGED current
  BY <1>1, <1>5 DEF texImage
<1>7. Sound(p) /\ Steady(o, p) /\ p.context = o.context
  BY <1>2, <1>3, <1>4, <1>5, SpecifiedSound
<1>8. Steady(Objects, p) /\ p.context = context
  BY <1>1, <1>7, ObjectsAre
<1> QED
  BY <1>6, <1>7, <1>8, BecameSteady

LEMMA ImageTargetTextureStep ==
    ASSUME EGLInv, ~Respecifies, NEW t \in Texture, NEW i \in Image, imageTargetTexture(t, i)
    PROVE  EGLInv'
<1>1. PICK o : o = Objects
  OBVIOUS
<1>2. Sound(o)
  BY <1>1 DEF EGLInv
<1>3. o.texture[t].named /\ Alone(o, t)
  BY <1>1, <1>2, MaySpecifyAlone DEF imageTargetTexture
<1>4. o.image[i].shared
  BY <1>1, ObjectsAre DEF imageTargetTexture
<1>5. PICK p : p = Shared(o, t, i)
  OBVIOUS
<1>6. Become(p) /\ UNCHANGED current
  BY <1>1, <1>5 DEF imageTargetTexture
<1>7. Sound(p) /\ Steady(o, p) /\ p.context = o.context
  BY <1>2, <1>3, <1>4, <1>5, SharedSound
<1>8. Steady(Objects, p) /\ p.context = context
  BY <1>1, <1>7, ObjectsAre
<1> QED
  BY <1>6, <1>7, <1>8, BecameSteady

LEMMA FramebufferTextureStep ==
    ASSUME EGLInv, NEW c \in Context, context[c].refs > 0, NEW t \in Texture,
           framebufferTexture(c, t)
    PROVE  EGLInv'
<1>1. PICK o : o = Objects
  OBVIOUS
<1>2. Sound(o)
  BY <1>1 DEF EGLInv
<1>3. o.texture[t].named /\ o.context[c].refs > 0
  BY <1>1, ObjectsAre DEF framebufferTexture
<1>4. o.texture[t].refs > 0
  BY <1>2, <1>3, Named, SoundHeld, HeldAlive
<1>5. PICK p : p = Attached(o, c, t)
  OBVIOUS
<1>6. Become(p) /\ UNCHANGED current
  BY <1>1, <1>5 DEF framebufferTexture
<1>7. Sound(p) /\ Steady(o, p) /\ SameContexts(o, p)
  <2>1. t \in Texture \cup {NONE}
    OBVIOUS
  <2>2. t # NONE => o.texture[t].refs > 0
    BY <1>4
  <2>3. o.context[c].refs > 0
    BY <1>3
  <2> QED
    BY <1>2, <1>5, <2>1, <2>2, <2>3, AttachedSound
<1>8. Steady(Objects, p) /\ \A d \in Context : /\ p.context[d].refs = context[d].refs
                                              /\ p.context[d].inSet = context[d].inSet
                                              /\ p.context[d].zero = context[d].zero
  BY <1>1, <1>7, ObjectsAre DEF SameContexts
<1> QED
  BY <1>6, <1>7, <1>8, BecameSteady

LEMMA DeleteTextureStep ==
    ASSUME EGLInv, NEW c \in Context, context[c].refs > 0, NEW t \in Texture,
           NEW bound \in BOOLEAN, deleteTexture(c, t, bound)
    PROVE  EGLInv'
<1>1. PICK o : o = Objects
  OBVIOUS
<1>2. Sound(o) /\ Consistent(o, current)
  BY <1>1 DEF EGLInv
<1>3. o.texture[t].named /\ o.context[c].refs > 0
  BY <1>1, ObjectsAre DEF deleteTexture
<1>4. PICK q : q = IF bound /\ context[c].attached = t THEN Attached(o, c, NONE) ELSE o
  OBVIOUS
<1>5. PICK p : p = NameDeleted(q, t)
  OBVIOUS
<1>6. Become(p) /\ UNCHANGED current
  BY <1>1, <1>4, <1>5 DEF deleteTexture
<1>7. /\ Sound(q) /\ Steady(o, q) /\ SameContexts(o, q)
      /\ q.texture[t].named
  <2>1. CASE q = o
    BY <1>2, <1>3, <2>1 DEF Steady, SameContexts
  <2>2. CASE q = Attached(o, c, NONE)
    <3>1. PICK u : u = NONE
      OBVIOUS
    <3>2. u \in Texture \cup {NONE}
      BY <3>1
    <3>3. u # NONE => o.texture[u].refs > 0
      BY <3>1
    <3>4. q = Attached(o, c, u)
      BY <2>2, <3>1
    <3>5. o.context[c].refs > 0
      BY <1>3
    <3>6. /\ Sound(q) /\ Steady(o, q) /\ SameContexts(o, q)
          /\ \A v \in Texture : q.texture[v].named = o.texture[v].named
      BY <1>2, <3>2, <3>3, <3>4, <3>5, AttachedSound
    <3> QED
      BY <1>3, <3>6
  <2> QED
    BY <1>4, <2>1, <2>2
<1>8. Sound(p) /\ Steady(q, p) /\ p.context = q.context
  BY <1>5, <1>7, NameDeletedSound
<1>9. Steady(o, p) /\ SameContexts(o, p)
  BY <1>7, <1>8 DEF Steady, SameContexts
<1>10. Steady(Objects, p) /\ \A d \in Context : /\ p.context[d].refs = context[d].refs
                                               /\ p.context[d].inSet = context[d].inSet
                                               /\ p.context[d].zero = context[d].zero
  BY <1>1, <1>9, ObjectsAre DEF SameContexts
<1> QED
  BY <1>6, <1>8, <1>10, BecameSteady

LEMMA ApplyRenderTargetStep ==
    ASSUME EGLInv, NEW c \in Context, context[c].refs > 0, NEW other \in BOOLEAN,
           applyRenderTarget(c, other)
    PROVE  EGLInv'
<1>1. PICK o : o = Objects
  OBVIOUS
<1>2. Sound(o) /\ o \in Store
  BY <1>1, SoundHeld DEF EGLInv
<1>3. o.context[c].refs > 0
  BY <1>1, ObjectsAre
<1>4. PICK i : i = IF other THEN texture[context[c].attached].level ELSE context[c].zero
  OBVIOUS
<1>5. i # NONE /\ UNCHANGED current /\ (other => context[c].attached # NONE)
  BY <1>4 DEF applyRenderTarget
<1>6. PICK p : p = Released(Targeted(AddRef(o, i), c, i), i)
  OBVIOUS
<1>7. Become(p)
  BY <1>1, <1>4, <1>6 DEF applyRenderTarget
<1>8. i \in Image /\ o.image[i].refs > 0
  <2>1. CASE other
    <3>1. PICK t : t = context[c].attached
      OBVIOUS
    <3>2. t \in Texture
      BY <1>1, <1>2, <1>5, <2>1, <3>1, ObjectsAre DEF Store, ContextType
    <3>3. o.texture[t].level = i
      BY <1>1, <1>4, <2>1, <3>1, ObjectsAre
    <3>4. i \in Image
      BY <1>2, <1>5, <3>2, <3>3 DEF Store, TextureType
    <3> QED
      BY <1>2, <1>5, <3>2, <3>3, <3>4, PointersAlive
  <2>2. CASE ~other
    <3>1. o.context[c].zero = i
      BY <1>1, <1>4, <2>2, ObjectsAre
    <3>2. i \in Image
      BY <1>2, <1>5, <3>1 DEF Store, ContextType
    <3> QED
      BY <1>2, <1>5, <3>1, <3>2, PointersAlive
  <2> QED
    BY <2>1, <2>2
<1>9. /\ Sound(p) /\ Steady(o, p)
      /\ p.context[c] = [o.context[c] EXCEPT !.target = i]
      /\ \A u \in Context : u # c => p.context[u] = o.context[u]
  BY <1>2, <1>3, <1>6, <1>8, RenderTargetSound
<1>10. o.context[c] \in ContextType
  BY <1>2 DEF Store
<1>11. p.context[c].refs = o.context[c].refs /\ p.context[c].zero = o.context[c].zero
  BY <1>9, <1>10 DEF ContextType
<1>12. p.context[c].inSet = o.context[c].inSet
  BY <1>9, <1>10 DEF ContextType
<1>13. SameContexts(o, p)
  BY <1>9, <1>11, <1>12 DEF SameContexts
<1>14. Steady(Objects, p) /\ \A d \in Context : /\ p.context[d].refs = context[d].refs
                                               /\ p.context[d].inSet = context[d].inSet
                                               /\ p.context[d].zero = context[d].zero
  BY <1>1, <1>9, <1>13, ObjectsAre DEF SameContexts
<1> QED
  BY <1>5, <1>7, <1>9, <1>14, BecameSteady

LEMMA EGLInvInit ==
    ASSUME EGLInit
    PROVE  EGLInv
<1>1. PICK o : o = Objects
  OBVIOUS
<1>2. /\ \A i \in Image : o.image[i] = NoImage
      /\ \A t \in Texture : o.texture[t] = NoTexture
      /\ \A s \in Surface : o.surface[s] = NoSurface
      /\ \A c \in Context : o.context[c] = NoContext
      /\ o.dangling = FALSE
  BY <1>1, ObjectsAre DEF EGLInit
<1>3. /\ NoImage \in ImageType /\ NoTexture \in TextureType
      /\ NoSurface \in SurfaceType /\ NoContext \in ContextType
  <2>1. NoImage \in ImageType
    BY DEF NoImage, ImageType
  <2>2. NoTexture \in TextureType
    BY DEF NoTexture, TextureType
  <2>3. NoSurface \in SurfaceType
    BY DEF NoSurface, SurfaceType
  <2>4. NoContext \in ContextType
    BY DEF NoContext, ContextType
  <2> QED
    BY <2>1, <2>2, <2>3, <2>4
<1>4. o \in Store
  <2>1. /\ image \in [Image -> ImageType] /\ texture \in [Texture -> TextureType]
        /\ surface \in [Surface -> SurfaceType] /\ context \in [Context -> ContextType]
        /\ dangling \in BOOLEAN
    BY <1>3 DEF EGLInit
  <2> QED
    BY <1>1, <2>1 DEF Objects, Store
<1>5. /\ \A i \in Image : /\ o.image[i].refs = 0 /\ o.image[i].parent = NONE
                          /\ ~o.image[i].shared
      /\ \A t \in Texture : /\ o.texture[t].refs = 0 /\ o.texture[t].level = NONE
                            /\ o.texture[t].surface = NONE /\ ~o.texture[t].named
      /\ \A s \in Surface : /\ o.surface[s].refs = 0 /\ o.surface[s].back = NONE
                            /\ o.surface[s].texture = NONE /\ ~o.surface[s].inSet
      /\ \A c \in Context : /\ o.context[c].refs = 0 /\ o.context[c].zero = NONE
                            /\ o.context[c].target = NONE /\ o.context[c].attached = NONE
                            /\ ~o.context[c].inSet
  BY <1>2 DEF NoImage, NoTexture, NoSurface, NoContext
<1>6. \A t \in Texture : Lev(o)[t] = NONE /\ ~Own(o, t)
  BY <1>5, LevFunction DEF Own
<1>7. PICK e, m, n : e = Extra(o) /\ m = Names(o) /\ n = Total(o, e)
  OBVIOUS
<1>8. /\ e \in [Image -> Nat] /\ m \in [Texture -> Nat] /\ n \in [Image -> Nat]
  BY <1>7, ExtraType, NamesType, TotalType
<1>9. \A i \in Image : e[i] = 0 /\ n[i] = 0
  <2>1. SUFFICES ASSUME NEW i \in Image
                 PROVE  e[i] = 0 /\ n[i] = 0
    OBVIOUS
  <2>2. i # NONE
    OBVIOUS
  <2>3. Pointing(Surface, Backs(o), i) = 0
    <3>1. \A s \in Surface : Backs(o)[s] # i
      BY <1>5, <2>2 DEF Backs
    <3> QED
      BY <3>1, Finite, PointingType
  <2>4. Pointing(Context, Zeros(o), i) = 0
    <3>1. \A c \in Context : Zeros(o)[c] # i
      BY <1>5, <2>2 DEF Zeros
    <3> QED
      BY <3>1, Finite, PointingType
  <2>5. Pointing(Context, Targets(o), i) = 0
    <3>1. \A c \in Context : Targets(o)[c] # i
      BY <1>5, <2>2 DEF Targets
    <3> QED
      BY <3>1, Finite, PointingType
  <2>6. Pointing(Texture, Lev(o), i) = 0
    <3>1. \A t \in Texture : Lev(o)[t] # i
      BY <1>6, <2>2
    <3> QED
      BY <3>1, Finite, PointingType
  <2>7. One(o.image[i].shared) = 0
    BY <1>5 DEF One
  <2>8. Extra(o)[i] = Pointing(Surface, Backs(o), i) + Pointing(Context, Zeros(o), i)
                        + Pointing(Context, Targets(o), i) + One(o.image[i].shared)
    BY ExtraType
  <2>9. e[i] = 0
    BY <1>7, <2>3, <2>4, <2>5, <2>7, <2>8
  <2>10. Total(o, e)[i] = Pointing(Texture, Lev(o), i) + e[i]
    BY DEF Total
  <2> QED
    BY <1>7, <2>6, <2>9, <2>10
<1>10. \A t \in Texture : m[t] = 0
  <2>1. SUFFICES ASSUME NEW t \in Texture
                 PROVE  m[t] = 0
    OBVIOUS
  <2>2. One(o.texture[t].named) = 0
    BY <1>5 DEF One
  <2>3. ~Proxied(o, t)
    BY <1>5 DEF Proxied
  <2>4. One(Proxied(o, t)) = 0
    BY <2>3 DEF One
  <2>5. Names(o)[t] = One(o.texture[t].named) + One(Proxied(o, t))
    BY NamesType
  <2> QED
    BY <1>7, <2>2, <2>4, <2>5
<1>11. ImagesCounted(o, n)
  BY <1>5, <1>9 DEF ImagesCounted
<1>12. TexturesCounted(o, n, m)
  BY <1>5, <1>6, <1>10 DEF TexturesCounted
<1>13. Linked(o)
  BY <1>5 DEF Linked
<1>14. Exact(o)
  BY <1>2, <1>4, <1>5, <1>7, <1>8, <1>11, <1>12, <1>13 DEF Exact, Held, Counted
<1>15. Tidy(o)
  BY <1>2, <1>5 DEF Tidy
<1>16. current = [th \in Thread |-> [context |-> NONE, surface |-> NONE]]
  BY DEF EGLInit
<1>17. /\ current \in [Thread -> CurrentType]
       /\ \A th \in Thread : current[th].context = NONE /\ current[th].surface = NONE
  BY <1>16 DEF CurrentType
<1>18. CurrentCounted(Surface, o.surface, SurfaceOf(current))
  <2>1. SUFFICES ASSUME NEW u \in Surface
                 PROVE  o.surface[u].refs = One(o.surface[u].inSet)
                                              + Pointing(Thread, SurfaceOf(current), u)
    BY DEF CurrentCounted
  <2>2. \A th \in Thread : SurfaceOf(current)[th] # u
    BY <1>17 DEF SurfaceOf
  <2>3. Pointing(Thread, SurfaceOf(current), u) = 0
    BY <2>2, Finite, PointingType
  <2>4. One(o.surface[u].inSet) = 0
    BY <1>5 DEF One
  <2> QED
    BY <1>5, <2>3, <2>4
<1>19. CurrentCounted(Context, o.context, ContextOf(current))
  <2>1. SUFFICES ASSUME NEW u \in Context
                 PROVE  o.context[u].refs = One(o.context[u].inSet)
                                              + Pointing(Thread, ContextOf(current), u)
    BY DEF CurrentCounted
  <2>2. \A th \in Thread : ContextOf(current)[th] # u
    BY <1>17 DEF ContextOf
  <2>3. Pointing(Thread, ContextOf(current), u) = 0
    BY <2>2, Finite, PointingType
  <2>4. One(o.context[u].inSet) = 0
    BY <1>5 DEF One
  <2> QED
    BY <1>5, <2>3, <2>4
<1>20. Apart(current) /\ Shown(o, current)
  BY <1>17 DEF Apart, Shown
<1> QED
  BY <1>1, <1>14, <1>15, <1>17, <1>18, <1>19, <1>20 DEF EGLInv, Sound, Consistent

LEMMA CallStep ==
    ASSUME EGLInv, ~Respecifies, NEW c \in Context, context[c].refs > 0, Call(c)
    PROVE  EGLInv'
<1>1. PICK t \in Texture : \/ bindTexture(t) \/ texImage(t) \/ framebufferTexture(c, t)
                           \/ \E i \in Image : imageTargetTexture(t, i)
                           \/ \E bound \in BOOLEAN : deleteTexture(c, t, bound)
  BY DEF Call
<1>2. CASE bindTexture(t)
  BY <1>2, BindTextureStep
<1>3. CASE texImage(t)
  BY <1>3, TexImageStep
<1>4. CASE framebufferTexture(c, t)
  BY <1>4, FramebufferTextureStep
<1>5. CASE \E i \in Image : imageTargetTexture(t, i)
  BY <1>5, ImageTargetTextureStep
<1>6. CASE \E bound \in BOOLEAN : deleteTexture(c, t, bound)
  BY <1>6, DeleteTextureStep
<1> QED
  BY <1>1, <1>2, <1>3, <1>4, <1>5, <1>6

LEMMA EGLInvStep ==
    ASSUME EGLInv, ~Respecifies, ~LinksOutlive, EGLNext
    PROVE  EGLInv'
<1>1. ASSUME NEW s \in Surface, createSurface(s) \/ releaseTexImage(s)
      PROVE  EGLInv'
  BY <1>1, CreateSurfaceStep, ReleaseTexImageStep
<1>2. ASSUME NEW c \in Context, createContext(c)
      PROVE  EGLInv'
  BY <1>2, CreateContextStep
<1>3. ASSUME NEW t \in Texture, createImage(t)
      PROVE  EGLInv'
  BY <1>3, CreateImageStep
<1>4. ASSUME NEW i \in Image, destroyImage(i)
      PROVE  EGLInv'
  BY <1>4, DestroyImageStep
<1>5. ASSUME NEW th \in Drawing, NEW c \in Context \cup {NONE}, NEW s \in Surface \cup {NONE},
             makeCurrent(th, c, s)
      PROVE  EGLInv'
  <2>1. th \in Thread
    OBVIOUS
  <2> QED
    BY <1>5, <2>1, MakeCurrentStep
<1>6. ASSUME NEW th \in Thread, NEW s \in Surface,
             \/ destroySurface(th, s) \/ swap(th, s)
             \/ \E t \in Texture : bindTexImage(th, s, t)
      PROVE  EGLInv'
  <2>1. CASE destroySurface(th, s)
    BY <2>1, DestroySurfaceStep
  <2>2. CASE swap(th, s)
    BY <2>2, SwapStep
  <2>3. CASE \E t \in Texture : bindTexImage(th, s, t)
    BY <2>3, BindTexImageStep
  <2> QED
    BY <1>6, <2>1, <2>2, <2>3
<1>7. ASSUME NEW th \in Thread, NEW c \in Context, destroyContext(th, c)
      PROVE  EGLInv'
  BY <1>7, DestroyContextStep
<1>8. ASSUME NEW th \in Drawing, NEW c, c = current[th].context, c # NONE,
             Call(c) \/ \E other \in BOOLEAN : applyRenderTarget(c, other)
      PROVE  EGLInv'
  <2>1. th \in Thread
    OBVIOUS
  <2>2. PICK o : o = Objects
    OBVIOUS
  <2>3. Consistent(o, current)
    BY <2>2 DEF EGLInv
  <2>4. c \in Context /\ o.context[c].refs > 0
    BY <1>8, <2>1, <2>3, CurrentAlive
  <2>5. context[c].refs > 0
    BY <2>2, <2>4, ObjectsAre
  <2> QED
    BY <1>8, <2>4, <2>5, CallStep, ApplyRenderTargetStep
<1> QED
  BY <1>1, <1>2, <1>3, <1>4, <1>5, <1>6, <1>7, <1>8 DEF EGLNext

LEMMA EGLInvSame ==
    ASSUME EGLInv, UNCHANGED eglVars
    PROVE  EGLInv'
<1>1. Objects' = Objects /\ current' = current
  BY DEF eglVars, Objects
<1> QED
  BY <1>1 DEF EGLInv

\* A client that keeps the rules
LEMMA EGLInvariant ==
    ASSUME ~Respecifies, ~LinksOutlive
    PROVE  EGLSpec => []EGLInv
<1>1. EGLInit => EGLInv
  BY EGLInvInit
<1>2. EGLInv /\ [EGLNext]_eglVars => EGLInv'
  BY EGLInvStep, EGLInvSame
<1> QED
  BY <1>1, <1>2, PTL DEF EGLSpec

-----------------------------------------------------------------------------
(* The holders of an image are as many as its references                    *)

LEMMA TaggedUnion ==
    ASSUME NEW U, IsFiniteSet(U), NEW S, IsFiniteSet(S), NEW tag,
           \A x : <<x, tag>> \notin U
    PROVE  /\ IsFiniteSet(U \cup (S \X {tag}))
           /\ Cardinality(U \cup (S \X {tag})) = Cardinality(U) + Cardinality(S)
<1>1. IsFiniteSet({tag}) /\ Cardinality({tag}) = 1
  BY FS_Singleton
<1>2. PICK T : T = S \X {tag}
  OBVIOUS
<1>3. IsFiniteSet(T) /\ Cardinality(T) = Cardinality(S) * 1
  BY <1>1, <1>2, FS_Product
<1>4. Cardinality(S) \in Nat /\ Cardinality(U) \in Nat
  BY FS_CardinalityType
<1>5. Cardinality(T) = Cardinality(S)
  BY <1>3, <1>4
<1>6. U \cap T = {}
  BY <1>2
<1>7. Cardinality(U \cap T) = 0
  BY <1>6, FS_EmptySet
<1>8. /\ IsFiniteSet(U \cup T)
      /\ Cardinality(U \cup T) = Cardinality(U) + Cardinality(T) - Cardinality(U \cap T)
  BY <1>3, FS_Union
<1>9. Cardinality(U \cup T) = Cardinality(U) + Cardinality(S)
  BY <1>4, <1>5, <1>7, <1>8
<1> QED
  BY <1>2, <1>8, <1>9

Fivefold(A, B, C, D, E) ==
    {<<x, "texture">> : x \in A} \cup {<<x, "surface">> : x \in B}
    \cup {<<x, "framebuffer">> : x \in C} \cup {<<x, "device">> : x \in D}
    \cup {<<x, "EGLImage">> : x \in E}

LEMMA FivefoldCount ==
    ASSUME NEW A, NEW B, NEW C, NEW D, NEW E, IsFiniteSet(A), IsFiniteSet(B), IsFiniteSet(C),
           IsFiniteSet(D), IsFiniteSet(E), NEW H, H = Fivefold(A, B, C, D, E)
    PROVE  Cardinality(H) = Cardinality(A) + Cardinality(B) + Cardinality(C) + Cardinality(D)
                              + Cardinality(E)
<1>1. PICK U1 : U1 = {} \cup (A \X {"texture"})
  OBVIOUS
<1>2. PICK U2 : U2 = U1 \cup (B \X {"surface"})
  OBVIOUS
<1>3. PICK U3 : U3 = U2 \cup (C \X {"framebuffer"})
  OBVIOUS
<1>4. PICK U4 : U4 = U3 \cup (D \X {"device"})
  OBVIOUS
<1>5. PICK U5 : U5 = U4 \cup (E \X {"EGLImage"})
  OBVIOUS
<1>6. IsFiniteSet({}) /\ Cardinality({}) = 0
  BY FS_EmptySet
<1>7. IsFiniteSet(U1) /\ Cardinality(U1) = 0 + Cardinality(A)
  BY <1>1, <1>6, TaggedUnion
<1>8. IsFiniteSet(U2) /\ Cardinality(U2) = Cardinality(U1) + Cardinality(B)
  <2>1. \A x : <<x, "surface">> \notin U1
    BY <1>1
  <2> QED
    BY <1>2, <1>7, <2>1, TaggedUnion
<1>9. IsFiniteSet(U3) /\ Cardinality(U3) = Cardinality(U2) + Cardinality(C)
  <2>1. \A x : <<x, "framebuffer">> \notin U2
    BY <1>1, <1>2
  <2> QED
    BY <1>3, <1>8, <2>1, TaggedUnion
<1>10. IsFiniteSet(U4) /\ Cardinality(U4) = Cardinality(U3) + Cardinality(D)
  <2>1. \A x : <<x, "device">> \notin U3
    BY <1>1, <1>2, <1>3
  <2> QED
    BY <1>4, <1>9, <2>1, TaggedUnion
<1>11. IsFiniteSet(U5) /\ Cardinality(U5) = Cardinality(U4) + Cardinality(E)
  <2>1. \A x : <<x, "EGLImage">> \notin U4
    BY <1>1, <1>2, <1>3, <1>4
  <2> QED
    BY <1>5, <1>10, <2>1, TaggedUnion
<1>12. H = U5
  <2>1. \A S, tag : {<<x, tag>> : x \in S} = S \X {tag}
    OBVIOUS
  <2> QED
    BY <1>1, <1>2, <1>3, <1>4, <1>5, <2>1 DEF Fivefold
<1>13. /\ Cardinality(A) \in Nat /\ Cardinality(B) \in Nat /\ Cardinality(C) \in Nat
       /\ Cardinality(D) \in Nat /\ Cardinality(E) \in Nat
  BY FS_CardinalityType
<1>14. PICK a, b, c, d, e \in Nat :
           /\ a = Cardinality(A) /\ b = Cardinality(B) /\ c = Cardinality(C)
           /\ d = Cardinality(D) /\ e = Cardinality(E)
  BY <1>13
<1>15. Cardinality(U3) = a + b + c
  BY <1>7, <1>8, <1>9, <1>14
<1>16. Cardinality(U5) = a + b + c + d + e
  BY <1>10, <1>11, <1>14, <1>15
<1> QED
  BY <1>12, <1>14, <1>16

LEMMA HoldersCounted ==
    ASSUME NEW i \in Image
    PROVE  Cardinality(Holders(i)) = Total(Objects, Extra(Objects))[i]
<1>1. PICK o : o = Objects
  OBVIOUS
<1>2. /\ o.image = image /\ o.texture = texture /\ o.surface = surface /\ o.context = context
  BY <1>1, ObjectsAre
<1>3. PICK A : A = {t \in Texture : texture[t].level = i /\ image[i].parent # t}
  OBVIOUS
<1>4. PICK B : B = {s \in Surface : surface[s].back = i}
  OBVIOUS
<1>5. PICK C : C = {c \in Context : context[c].zero = i}
  OBVIOUS
<1>6. PICK D : D = {c \in Context : context[c].target = i}
  OBVIOUS
<1>7. PICK E : E = {x \in {i} : image[x].shared}
  OBVIOUS
<1>8. /\ IsFiniteSet(A) /\ IsFiniteSet(B) /\ IsFiniteSet(C) /\ IsFiniteSet(D) /\ IsFiniteSet(E)
  <2>1. IsFiniteSet({i})
    BY FS_Singleton
  <2>2. /\ A \subseteq Texture /\ B \subseteq Surface /\ C \subseteq Context /\ D \subseteq Context
        /\ E \subseteq {i}
    BY <1>3, <1>4, <1>5, <1>6, <1>7
  <2> QED
    BY <2>1, <2>2, Finite, FS_Subset
<1>9. Cardinality(A) = Pointing(Texture, Lev(o), i)
  <2>1. i # NONE
    BY DEF NoneAssumption
  <2>2. \A t \in Texture : Lev(o)[t] = i <=> texture[t].level = i /\ image[i].parent # t
    <3>1. SUFFICES ASSUME NEW t \in Texture
                   PROVE  Lev(o)[t] = i <=> texture[t].level = i /\ image[i].parent # t
      OBVIOUS
    <3>2. Lev(o)[t] = IF Own(o, t) THEN NONE ELSE texture[t].level
      BY <1>2, LevFunction
    <3>3. texture[t].level = i => (Own(o, t) <=> image[i].parent = t)
      BY <1>2, <2>1 DEF Own
    <3> QED
      BY <2>1, <3>2, <3>3
  <2>3. A = {t \in Texture : Lev(o)[t] = i}
    BY <1>3, <2>2
  <2> QED
    BY <2>3 DEF Pointing
<1>10. /\ Cardinality(B) = Pointing(Surface, Backs(o), i)
       /\ Cardinality(C) = Pointing(Context, Zeros(o), i)
       /\ Cardinality(D) = Pointing(Context, Targets(o), i)
  <2>1. /\ B = {s \in Surface : Backs(o)[s] = i} /\ C = {c \in Context : Zeros(o)[c] = i}
        /\ D = {c \in Context : Targets(o)[c] = i}
    BY <1>2, <1>4, <1>5, <1>6 DEF Backs, Zeros, Targets
  <2> QED
    BY <2>1 DEF Pointing
<1>11. Cardinality(E) = One(o.image[i].shared)
  <2>1. CASE image[i].shared
    <3>1. E = {i}
      BY <1>7, <2>1
    <3> QED
      BY <1>2, <2>1, <3>1, FS_Singleton DEF One
  <2>2. CASE ~image[i].shared
    <3>1. E = {}
      BY <1>7, <2>2
    <3> QED
      BY <1>2, <2>2, <3>1, FS_EmptySet DEF One
  <2> QED
    BY <2>1, <2>2
<1>12. Cardinality(Holders(i)) = Cardinality(A) + Cardinality(B) + Cardinality(C) + Cardinality(D)
                                   + Cardinality(E)
  <2>1. PICK H : H = Holders(i)
    OBVIOUS
  <2>2. H = Fivefold(A, B, C, D, E)
    BY <1>3, <1>4, <1>5, <1>6, <1>7, <2>1 DEF Holders, Fivefold
  <2> QED
    BY <1>8, <2>1, <2>2, FivefoldCount
<1>13. /\ Cardinality(A) \in Nat /\ Cardinality(B) \in Nat /\ Cardinality(C) \in Nat
       /\ Cardinality(D) \in Nat /\ Cardinality(E) \in Nat
  BY <1>8, FS_CardinalityType
<1>14. Total(o, Extra(o))[i] = Pointing(Texture, Lev(o), i) + Extra(o)[i]
  BY DEF Total
<1>15. Extra(o)[i] = Cardinality(B) + Cardinality(C) + Cardinality(D) + Cardinality(E)
  BY <1>10, <1>11 DEF Extra
<1> QED
  BY <1>1, <1>9, <1>12, <1>13, <1>14, <1>15

LEMMA ExactReferences ==
    ASSUME EGLInv
    PROVE  ReferencesExact
<1>1. PICK o, n, m : o = Objects /\ n = Total(o, Extra(o)) /\ m = Names(o)
  OBVIOUS
<1>2. /\ o.image = image /\ o.texture = texture /\ o.surface = surface /\ o.context = context
  BY <1>1, ObjectsAre
<1>3. Sound(o) /\ Consistent(o, current)
  BY <1>1 DEF EGLInv
<1>4. /\ o \in Store /\ n \in [Image -> Nat]
      /\ ImagesCounted(o, n) /\ TexturesCounted(o, n, m)
  BY <1>1, <1>3, SoundHeld DEF Held, Counted
<1>5. ASSUME NEW i \in Image
      PROVE  /\ Cardinality(Holders(i)) = n[i]
             /\ image[i].refs = IF image[i].parent = NONE THEN Cardinality(Holders(i)) ELSE 1
  <2>1. Cardinality(Holders(i)) = n[i]
    BY <1>1, HoldersCounted
  <2> QED
    BY <1>2, <1>4, <2>1 DEF ImagesCounted
<1>6. ASSUME NEW t \in Texture, NEW own, own = {i \in Image : image[i].parent = t}
      PROVE  /\ own \subseteq {texture[t].level}
             /\ texture[t].refs = (IF texture[t].named THEN 1 ELSE 0)
                   + (IF Proxied(o, t) THEN 1 ELSE 0) + Cardinality(UNION {Holders(i) : i \in own})
  <2>1. t # NONE
    BY DEF NoneAssumption
  <2>2. own \subseteq {texture[t].level}
    BY <1>2, <1>4, <1>6, <2>1 DEF ImagesCounted
  <2>3. texture[t].refs = m[t] + (IF Own(o, t) THEN n[texture[t].level] ELSE 0)
    BY <1>2, <1>4 DEF TexturesCounted
  <2>4. m[t] = One(texture[t].named) + One(Proxied(o, t))
    BY <1>1, <1>2 DEF Names
  <2>5. One(texture[t].named) \in Nat /\ One(Proxied(o, t)) \in Nat
    BY OneType
  <2>6. CASE Own(o, t)
    <3>1. /\ texture[t].level # NONE /\ image[texture[t].level].parent = t
          /\ texture[t].level \in Image \cup {NONE}
      BY <1>2, <1>4, <2>6 DEF Own, Store, TextureType
    <3>2. own = {texture[t].level}
      BY <1>6, <2>2, <3>1
    <3>3. UNION {Holders(i) : i \in own} = Holders(texture[t].level)
      BY <3>2
    <3>4. Cardinality(UNION {Holders(i) : i \in own}) = n[texture[t].level]
      BY <1>5, <3>1, <3>3
    <3> QED
      BY <2>2, <2>3, <2>4, <2>5, <2>6, <3>4 DEF One
  <2>7. CASE ~Own(o, t)
    <3>1. own = {}
      BY <1>2, <1>6, <2>1, <2>2, <2>7 DEF Own, NoneAssumption
    <3>2. UNION {Holders(i) : i \in own} = {}
      BY <3>1
    <3>3. Cardinality(UNION {Holders(i) : i \in own}) = 0
      BY <3>2, FS_EmptySet
    <3> QED
      BY <2>2, <2>3, <2>4, <2>5, <2>7, <3>3 DEF One
  <2> QED
    BY <2>6, <2>7
<1>7. ASSUME NEW s \in Surface
      PROVE  surface[s].refs = (IF surface[s].inSet THEN 1 ELSE 0)
                                 + Cardinality({th \in Thread : current[th].surface = s})
  <2>1. surface[s].refs = One(surface[s].inSet) + Pointing(Thread, SurfaceOf(current), s)
    BY <1>2, <1>3 DEF Consistent, CurrentCounted
  <2>2. {th \in Thread : SurfaceOf(current)[th] = s} = {th \in Thread : current[th].surface = s}
    BY DEF SurfaceOf
  <2> QED
    BY <2>1, <2>2 DEF Pointing, One
<1>8. ASSUME NEW c \in Context
      PROVE  context[c].refs = (IF context[c].inSet THEN 1 ELSE 0)
                                 + Cardinality({th \in Thread : current[th].context = c})
  <2>1. context[c].refs = One(context[c].inSet) + Pointing(Thread, ContextOf(current), c)
    BY <1>2, <1>3 DEF Consistent, CurrentCounted
  <2>2. {th \in Thread : ContextOf(current)[th] = c} = {th \in Thread : current[th].context = c}
    BY DEF ContextOf
  <2> QED
    BY <2>1, <2>2 DEF Pointing, One
<1> QED
  BY <1>1, <1>5, <1>6, <1>7, <1>8 DEF ReferencesExact

-----------------------------------------------------------------------------
(* For a client that neither respecifies textures that others hold nor      *)
(* destroys surfaces before the textures they were bound to: no sequence of *)
(* EGL and OpenGL ES calls on any number of threads, contexts, surfaces and *)
(* textures uses one that release() deleted, or deletes an EGLImage before  *)
(* eglDestroyImageKHR(), and no texture or render target is a deleted image.*)
THEOREM ImagesNeverDangle ==
    ASSUME ~Respecifies, ~LinksOutlive
    PROVE  EGLSpec => []NothingDangles
<1>1. EGLInv => NothingDangles
  <2>1. SUFFICES ASSUME EGLInv
                 PROVE  NothingDangles
    OBVIOUS
  <2>2. PICK o : o = Objects
    OBVIOUS
  <2>3. /\ Sound(o)
        /\ o.image = image /\ o.texture = texture /\ o.context = context /\ o.dangling = dangling
    BY <2>1, <2>2, ObjectsAre DEF EGLInv
  <2>4. ~dangling
    BY <2>3, SoundHeld
  <2>5. \A t \in Texture : texture[t].level # NONE => image[texture[t].level].refs > 0
    BY <2>3, PointersAlive
  <2>6. \A c \in Context : context[c].target # NONE => image[context[c].target].refs > 0
    BY <2>3, PointersAlive
  <2> QED
    BY <2>4, <2>5, <2>6 DEF NothingDangles
<1> QED
  BY <1>1, EGLInvariant, PTL

(* For such a client, the default framebuffer of a context is the back      *)
(* buffer of the surface that is current with it, after every makeCurrent() *)
(* and resize: what is drawn is what the next swap shows.                   *)
THEOREM DrawingIsShown ==
    ASSUME ~Respecifies, ~LinksOutlive
    PROVE  EGLSpec => []ZeroIsBackBuffer
<1>1. EGLInv => ZeroIsBackBuffer
  BY ObjectsAre DEF EGLInv, Consistent, Shown, ZeroIsBackBuffer
<1> QED
  BY <1>1, EGLInvariant, PTL

(* For such a client, addRef() and release() keep the counts of images,     *)
(* textures, surfaces and contexts equal to those who hold them: none is    *)
(* deleted too early, and none is kept when its last holder is gone.        *)
THEOREM ReferencesCounted ==
    ASSUME ~Respecifies, ~LinksOutlive
    PROVE  EGLSpec => []ReferencesExact
<1>1. EGLInv => ReferencesExact
  BY ExactReferences
<1> QED
  BY <1>1, EGLInvariant, PTL
=============================================================================
