------------------------- MODULE BufferObject_proofs -------------------------
(***************************************************************************)
(* Proofs about BufferObject for any resources and any finite number of    *)
(* draw calls in flight, for clients that do not specify a mapped buffer   *)
(* anew (for the others the properties do not hold).                       *)
(***************************************************************************)
EXTENDS BufferObject, FiniteSetTheorems, TLAPS

USE SlotAssumption, NoneAssumption

(* The inductive invariant.                                                *)
Resources == [accessor : {"PUBLIC", "PRIVATE"}, count : Nat,
              orphaned : BOOLEAN, freed : BOOLEAN]

TypeOK ==
    /\ mContents \in Content \cup {NONE}
    /\ mIsMapped \in BOOLEAN
    /\ resource \in [Content -> Resources]
    /\ pointer \in Content \cup {NONE}
    /\ draw \in [Slot -> [content : Content \cup {NONE}, intact : BOOLEAN]]
    /\ call \in {"none", "bufferSubData", "mapRange", "draw", "deleted"}

(* What is mapped is the contents, which calls that wait do not lose.      *)
MappingInv ==
    /\ mIsMapped <=> pointer # NONE
    /\ pointer # NONE => pointer = mContents
    /\ call \in {"bufferSubData", "mapRange", "draw"} => mContents # NONE
    /\ call \in {"mapRange", "draw"} => ~mIsMapped

(* The class of the claims says whose they are.                            *)
ClassInv ==
    \A c \in Content : /\ Readers(c) # {} => resource[c].accessor = "PRIVATE"
                       /\ pointer = c => resource[c].accessor = "PUBLIC"

(* A deleted resource is not in use, and the contents are not to be deleted. *)
LiveInv ==
    \A c \in Content : /\ resource[c].freed => Readers(c) = {} /\ c # pointer
                       /\ c = mContents => ~resource[c].freed /\ ~resource[c].orphaned

IInv == TypeOK /\ MappingInv /\ ClassInv /\ ClaimsExact /\ LiveInv /\ DrawInputsStable
------------------------------------------------------------------------------
(* The draw calls that read a resource                                      *)

LEMMA ReadersFinite ==
    ASSUME NEW c
    PROVE  /\ IsFiniteSet(Readers(c))
           /\ Cardinality(Readers(c)) \in Nat
           /\ Cardinality(Readers(c)) = 0 <=> Readers(c) = {}
PROOF
  <1>1. IsFiniteSet(Readers(c))
    BY FS_Subset DEF Readers
  <1> QED
    BY <1>1, FS_CardinalityType, FS_EmptySet

(* A resource that nobody claims has no readers, and the other way round.   *)
LEMMA Unclaimed ==
    ASSUME TypeOK, ClaimsExact, NEW c \in Content
    PROVE  resource[c].count = 0 <=> Readers(c) = {} /\ pointer # c
  BY ReadersFinite DEF ClaimsExact, TypeOK

(* A step that changes no resource's number of claims, or reader, or the    *)
(* mapping keeps the claims exact.                                          *)
LEMMA ReadersSame ==
    ASSUME draw' = draw, NEW c
    PROVE  Readers(c)' = Readers(c)
  BY DEF Readers
------------------------------------------------------------------------------
LEMMA InitEstablishes ==
    ASSUME Init
    PROVE  IInv
PROOF
  <1>1. \A c \in Content : Readers(c) = {}
    BY DEF Init, Readers, NoDraw
  <1>2. \A c \in Content : Cardinality(Readers(c)) = 0
    BY <1>1, FS_EmptySet
  <1>3. \A c \in Content : resource[c] = [accessor |-> "PUBLIC", count |-> 0,
                                          orphaned |-> FALSE, freed |-> TRUE]
    BY DEF Init, Freed, NewResource
  <1>4. TypeOK
    <2>1. resource \in [Content -> Resources]
      BY DEF Init, Freed, NewResource, Resources
    <2>2. draw \in [Slot -> [content : Content \cup {NONE}, intact : BOOLEAN]]
      BY DEF Init, NoDraw
    <2> QED
      BY <2>1, <2>2 DEF TypeOK, Init
  <1>5. ClaimsExact
    BY <1>2, <1>3 DEF Init, ClaimsExact
  <1>6. DrawInputsStable
    BY DEF Init, NoDraw, DrawInputsStable
  <1>7. MappingInv /\ ClassInv /\ LiveInv
    BY <1>1, <1>3 DEF Init, MappingInv, ClassInv, LiveInv
  <1> QED
    BY <1>4, <1>5, <1>6, <1>7 DEF IInv
------------------------------------------------------------------------------
(* Destructing the contents changes no claims, and deletes what nobody reads. *)
LEMMA DestructKeeps ==
    ASSUME IInv, ~mIsMapped, NEW left, left = DestructContents(mContents)
    PROVE  /\ left \in [Content -> Resources]
           /\ \A c \in Content : /\ left[c].count = resource[c].count
                                 /\ left[c].accessor = resource[c].accessor
                                 /\ Readers(c) # {} => ~left[c].freed
                                 /\ c # mContents => left[c] = resource[c]
           /\ Gone(resource, left) = draw
PROOF
  <1>1. CASE mContents = NONE
    <2>1. left = resource
      BY <1>1 DEF DestructContents
    <2>2. Gone(resource, left) = [s \in Slot |-> draw[s]]
      BY <2>1 DEF Gone
    <2>3. Gone(resource, left) = draw
      BY <2>2 DEF IInv, TypeOK
    <2> QED
      BY <2>1, <2>3 DEF IInv, TypeOK, LiveInv
  <1>2. CASE mContents # NONE
    <2>1. mContents \in Content /\ resource \in [Content -> Resources]
      BY <1>2 DEF IInv, TypeOK
    <2>2. left = [resource EXCEPT ![mContents] = Destructed(@)]
      BY <1>2 DEF DestructContents
    <2>3. resource[mContents].count = 0 => Readers(mContents) = {}
      BY <2>1, Unclaimed DEF IInv
    <2>4. /\ Destructed(resource[mContents]) \in Resources
          /\ Destructed(resource[mContents]).count = resource[mContents].count
          /\ Destructed(resource[mContents]).accessor = resource[mContents].accessor
          /\ resource[mContents].count # 0 =>
                Destructed(resource[mContents]).freed = resource[mContents].freed
      BY <2>1 DEF Resources, Destructed
    <2>5. ~resource[mContents].freed
      BY <2>1 DEF IInv, LiveInv
    <2>6. \A c \in Content : /\ left[c].count = resource[c].count
                             /\ left[c].accessor = resource[c].accessor
                             /\ c # mContents => left[c] = resource[c]
      BY <2>1, <2>2, <2>4
    <2>7. \A c \in Content : Readers(c) # {} => ~left[c].freed
      BY <2>1, <2>2, <2>3, <2>4, <2>5 DEF IInv, LiveInv
    <2>8. \A s \in Slot : draw[s].content # NONE => ~left[draw[s].content].freed
      <3>1. \A s \in Slot : draw[s].content # NONE =>
               draw[s].content \in Content /\ s \in Readers(draw[s].content)
        BY DEF IInv, TypeOK, Readers
      <3> QED
        BY <2>7, <3>1
    <2>9. Gone(resource, left) = [s \in Slot |-> draw[s]]
      BY <2>8 DEF Gone
    <2>10. Gone(resource, left) = draw
      BY <2>9 DEF IInv, TypeOK
    <2> QED
      BY <2>1, <2>2, <2>4, <2>6, <2>7, <2>10
  <1> QED
    BY <1>1, <1>2

LEMMA bufferDataPreserves ==
    ASSUME IInv, RespecifyMapped = FALSE, NEW size \in {0, 1}, bufferData(size)
    PROVE  IInv'
PROOF
  <1> DEFINE left == DestructContents(mContents)
  <1>0. ~mIsMapped /\ mIsMapped' = mIsMapped /\ pointer = NONE /\ pointer' = NONE
    BY DEF bufferData, IInv, MappingInv
  <1>1. /\ left \in [Content -> Resources]
        /\ \A c \in Content : /\ left[c].count = resource[c].count
                              /\ left[c].accessor = resource[c].accessor
                              /\ Readers(c) # {} => ~left[c].freed
                              /\ c # mContents => left[c] = resource[c]
        /\ Gone(resource, left) = draw
    BY <1>0, DestructKeeps
  <1>2. draw' = draw /\ call' = call /\ call = "none"
    BY <1>1 DEF bufferData
  <1>3. \A c : Readers(c)' = Readers(c)
    BY <1>2 DEF Readers
  <1>4. CASE size > 0
    <2>1. PICK c \in Content : /\ left[c].freed
                               /\ \A s \in Slot : draw[s].content # c
                               /\ mContents' = c
                               /\ resource' = [left EXCEPT ![c] = NewResource]
      BY <1>4 DEF bufferData
    <2> HIDE DEF left
    <2>2. Readers(c) = {}
      BY <2>1 DEF Readers
    <2>3. NewResource = [accessor |-> "PUBLIC", count |-> 0,
                         orphaned |-> FALSE, freed |-> FALSE]
      BY DEF NewResource
    <2>4. \A d \in Content : resource'[d] = IF d = c THEN NewResource ELSE left[d]
      BY <2>1, <1>1
    <2>5. TypeOK'
      <3>1. NewResource \in Resources
        BY <2>3 DEF Resources
      <3>2. resource' \in [Content -> Resources]
        BY <3>1, <2>1, <1>1
      <3> QED
        BY <3>2, <1>0, <1>2, <2>1 DEF IInv, TypeOK
    <2>6. MappingInv'
      BY <1>0, <1>2, <2>1 DEF MappingInv
    <2>7. ClassInv'
      BY <1>0, <1>1, <1>3, <2>2, <2>4 DEF IInv, ClassInv
    <2>8. ClaimsExact'
      <3>1. Cardinality(Readers(c)) = 0
        BY <2>2, FS_EmptySet
      <3> QED
        BY <1>0, <1>1, <1>3, <2>3, <2>4, <3>1 DEF IInv, ClaimsExact
    <2>9. LiveInv'
      BY <1>0, <1>1, <1>3, <2>1, <2>2, <2>3, <2>4 DEF LiveInv
    <2>10. DrawInputsStable'
      BY <1>2 DEF IInv, DrawInputsStable
    <2> QED
      BY <2>5, <2>6, <2>7, <2>8, <2>9, <2>10 DEF IInv
  <1>5. CASE ~(size > 0)
    <2>1. mContents' = NONE /\ resource' = left
      BY <1>5 DEF bufferData
    <2> HIDE DEF left
    <2>2. TypeOK'
      BY <1>0, <1>1, <1>2, <2>1 DEF IInv, TypeOK
    <2>3. MappingInv'
      BY <1>0, <1>2, <2>1 DEF MappingInv
    <2>4. ClassInv' /\ ClaimsExact'
      BY <1>0, <1>1, <1>3, <2>1 DEF IInv, ClassInv, ClaimsExact
    <2>5. LiveInv'
      BY <1>0, <1>1, <1>3, <2>1 DEF LiveInv
    <2> QED
      BY <2>2, <2>3, <2>4, <2>5, <1>2 DEF IInv, DrawInputsStable
  <1> QED
    BY <1>4, <1>5

LEMMA deleteBufferPreserves ==
    ASSUME IInv, RespecifyMapped = FALSE, deleteBuffer
    PROVE  IInv'
PROOF
  <1>0. ~mIsMapped /\ mIsMapped' = FALSE /\ pointer = NONE /\ pointer' = NONE /\ mContents' = NONE
    BY DEF deleteBuffer, IInv, MappingInv
  <1>1. /\ resource' \in [Content -> Resources]
        /\ \A c \in Content : /\ resource'[c].count = resource[c].count
                              /\ resource'[c].accessor = resource[c].accessor
                              /\ Readers(c) # {} => ~resource'[c].freed
        /\ draw' = draw
    BY <1>0, DestructKeeps DEF deleteBuffer
  <1>2. \A c : Readers(c)' = Readers(c)
    BY <1>1 DEF Readers
  <1>3. call' = "deleted"
    BY DEF deleteBuffer
  <1>4. TypeOK'
    BY <1>0, <1>1, <1>3 DEF IInv, TypeOK
  <1>5. MappingInv'
    BY <1>0, <1>3 DEF MappingInv
  <1>6. ClassInv' /\ ClaimsExact'
    BY <1>0, <1>1, <1>2 DEF IInv, ClassInv, ClaimsExact
  <1>7. LiveInv'
    BY <1>0, <1>1, <1>2 DEF LiveInv
  <1> QED
    BY <1>4, <1>5, <1>6, <1>7, <1>1 DEF IInv, DrawInputsStable
------------------------------------------------------------------------------
(* What claiming and giving up a claim do to a resource that is in use.     *)
LEMMA LockedValue ==
    ASSUME NEW r \in Resources, NEW a \in {"PUBLIC", "PRIVATE"}
    PROVE  /\ Locked(r, a) \in Resources
           /\ Locked(r, a).count = r.count + 1
           /\ Locked(r, a).accessor = a
           /\ Locked(r, a).freed = r.freed
           /\ Locked(r, a).orphaned = r.orphaned
PROOF
  <1>1. PICK q : q = [r EXCEPT !.count = r.count + 1]
    OBVIOUS
  <1>2. r.count + 1 \in Nat
    BY DEF Resources
  <1>3. /\ q \in Resources
        /\ q.count = r.count + 1 /\ q.freed = r.freed /\ q.orphaned = r.orphaned
    BY <1>1, <1>2 DEF Resources
  <1>4. Locked(r, a) = [q EXCEPT !.accessor = a]
    BY <1>1 DEF Locked
  <1> QED
    BY <1>3, <1>4 DEF Resources

LEMMA UnlockedValue ==
    ASSUME NEW r \in Resources, r.count > 0
    PROVE  /\ Unlocked(r) \in Resources
           /\ Unlocked(r).count = r.count - 1
           /\ Unlocked(r).accessor = r.accessor
           /\ Unlocked(r).freed <=> r.count = 1 /\ r.orphaned
           /\ Unlocked(r).orphaned = r.orphaned
PROOF
  <1>1. PICK f \in BOOLEAN : f = (r.count = 1 /\ r.orphaned)
    OBVIOUS
  <1>2. PICK q : q = [r EXCEPT !.count = r.count - 1]
    OBVIOUS
  <1>3. r.count - 1 \in Nat
    BY DEF Resources
  <1>4. /\ q \in Resources
        /\ q.count = r.count - 1 /\ q.accessor = r.accessor /\ q.orphaned = r.orphaned
    BY <1>2, <1>3 DEF Resources
  <1>5. Unlocked(r) = [q EXCEPT !.freed = f]
    BY <1>1, <1>2 DEF Unlocked
  <1>6. /\ Unlocked(r) \in Resources
        /\ Unlocked(r).count = q.count /\ Unlocked(r).accessor = q.accessor
        /\ Unlocked(r).orphaned = q.orphaned /\ Unlocked(r).freed = f
    BY <1>1, <1>4, <1>5 DEF Resources
  <1> QED
    BY <1>1, <1>4, <1>6
------------------------------------------------------------------------------
(* Calls that lock the contents                                             *)

LEMMA BeginPreserves ==
    ASSUME IInv, NEW c \in {"bufferSubData", "mapRange", "draw"}, Begin(c),
           c \in {"mapRange", "draw"} => ~mIsMapped
    PROVE  IInv'
PROOF
  <1>1. UNCHANGED <<mContents, mIsMapped, resource, pointer, draw>>
    BY DEF Begin
  <1>2. \A d : Readers(d)' = Readers(d)
    BY <1>1 DEF Readers
  <1>3. TypeOK'
    BY <1>1 DEF IInv, TypeOK, Begin
  <1>4. MappingInv'
    BY <1>1 DEF IInv, MappingInv, Begin
  <1> QED
    BY <1>1, <1>2, <1>3, <1>4 DEF IInv, ClassInv, ClaimsExact, LiveInv, DrawInputsStable

(* Whoever may write has made sure that no draw call reads.                 *)
LEMMA WriterAlone ==
    ASSUME IInv, NEW c \in Content,
           pointer = c \/ Grants(resource[c], "PUBLIC")
    PROVE  Readers(c) = {} /\ Disturbed(c) = draw
PROOF
  <1>1. Readers(c) = {}
    <2>1. CASE pointer = c
      BY <2>1 DEF IInv, ClassInv
    <2>2. CASE resource[c].count = 0
      BY <2>2, Unclaimed DEF IInv
    <2>3. CASE resource[c].accessor = "PUBLIC"
      BY <2>3 DEF IInv, ClassInv
    <2> QED
      BY <2>1, <2>2, <2>3 DEF Grants
  <1>2. Disturbed(c) = [s \in Slot |-> draw[s]]
    BY <1>1 DEF Disturbed, Readers
  <1>3. Disturbed(c) = draw
    BY <1>2 DEF IInv, TypeOK
  <1> QED
    BY <1>1, <1>3

LEMMA bufferSubDataPreserves ==
    ASSUME IInv, bufferSubData
    PROVE  IInv'
PROOF
  <1>1. mContents \in Content
    BY DEF IInv, TypeOK, MappingInv, bufferSubData
  <1>2. draw' = draw
    BY <1>1, WriterAlone DEF bufferSubData
  <1>3. Readers(mContents) = {} /\ \A d : Readers(d)' = Readers(d)
    BY <1>1, <1>2, WriterAlone DEF bufferSubData, Readers
  <1>4. /\ resource[mContents] \in Resources
        /\ ~resource[mContents].freed /\ ~resource[mContents].orphaned
    BY <1>1 DEF IInv, TypeOK, LiveInv
  <1>5. PICK r \in Resources : /\ r = Unlocked(Locked(resource[mContents], "PUBLIC"))
                               /\ r.count = resource[mContents].count
                               /\ r.accessor = "PUBLIC"
                               /\ ~r.freed /\ ~r.orphaned
    <2>1. resource[mContents].count \in Nat
      BY <1>4 DEF Resources
    <2>2. PICK l \in Resources : /\ l = Locked(resource[mContents], "PUBLIC")
                                 /\ l.count = resource[mContents].count + 1
                                 /\ l.accessor = "PUBLIC"
                                 /\ ~l.freed /\ ~l.orphaned
      BY <1>4, LockedValue
    <2> QED
      BY <2>1, <2>2, UnlockedValue
  <1>6. resource' = [resource EXCEPT ![mContents] = r]
    BY <1>5 DEF bufferSubData
  <1>7. \A d \in Content : resource'[d] = IF d = mContents THEN r ELSE resource[d]
    BY <1>1, <1>6 DEF IInv, TypeOK
  <1>8. UNCHANGED <<mContents, mIsMapped, pointer>> /\ call' = "none"
    BY DEF bufferSubData
  <1>9. TypeOK'
    <2>1. resource' \in [Content -> Resources]
      BY <1>5, <1>6 DEF IInv, TypeOK
    <2> QED
      BY <1>2, <1>8, <2>1 DEF IInv, TypeOK
  <1>10. MappingInv'
    BY <1>8 DEF IInv, MappingInv
  <1>11. ClassInv' /\ ClaimsExact' /\ LiveInv'
    BY <1>3, <1>5, <1>7, <1>8 DEF IInv, ClassInv, ClaimsExact, LiveInv
  <1> QED
    BY <1>9, <1>10, <1>11, <1>2 DEF IInv, DrawInputsStable

LEMMA mapRangePreserves ==
    ASSUME IInv, mapRange
    PROVE  IInv'
PROOF
  <1>1. mContents \in Content /\ pointer = NONE
    BY DEF IInv, TypeOK, MappingInv, mapRange
  <1>2. draw' = draw
    BY DEF mapRange
  <1>3. Readers(mContents) = {} /\ \A d : Readers(d)' = Readers(d)
    BY <1>1, <1>2, WriterAlone DEF mapRange, Readers
  <1>4. /\ resource[mContents] \in Resources
        /\ ~resource[mContents].freed /\ ~resource[mContents].orphaned
    BY <1>1 DEF IInv, TypeOK, LiveInv
  <1>5. PICK r \in Resources : /\ r = Locked(resource[mContents], "PUBLIC")
                               /\ r.count = resource[mContents].count + 1
                               /\ r.accessor = "PUBLIC"
                               /\ ~r.freed /\ ~r.orphaned
    BY <1>4, LockedValue
  <1>6. resource' = [resource EXCEPT ![mContents] = r]
    BY <1>5 DEF mapRange
  <1>7. \A d \in Content : resource'[d] = IF d = mContents THEN r ELSE resource[d]
    BY <1>1, <1>6 DEF IInv, TypeOK
  <1>8. mContents' = mContents /\ mIsMapped' = TRUE /\ pointer' = mContents /\ call' = "none"
    BY DEF mapRange
  <1>9. TypeOK'
    <2>1. resource' \in [Content -> Resources]
      BY <1>5, <1>6 DEF IInv, TypeOK
    <2> QED
      BY <1>1, <1>2, <1>8, <2>1 DEF IInv, TypeOK
  <1>10. MappingInv'
    BY <1>1, <1>8 DEF IInv, MappingInv
  <1>11. ClassInv' /\ LiveInv'
    BY <1>1, <1>3, <1>5, <1>7, <1>8 DEF IInv, ClassInv, LiveInv
  <1>12. ClaimsExact'
    <2>1. \A d \in Content : /\ Cardinality(Readers(d)) \in Nat
                             /\ resource[d].count = Cardinality(Readers(d))
      BY <1>1, ReadersFinite DEF IInv, ClaimsExact
    <2> QED
      BY <1>1, <1>3, <1>5, <1>7, <1>8, <2>1 DEF ClaimsExact
  <1> QED
    BY <1>9, <1>10, <1>11, <1>12, <1>2 DEF IInv, DrawInputsStable

LEMMA WriteMappedPreserves ==
    ASSUME IInv, WriteMapped
    PROVE  IInv'
PROOF
  <1>1. pointer \in Content
    BY DEF IInv, TypeOK, WriteMapped
  <1>2. draw' = draw
    BY <1>1, WriterAlone DEF WriteMapped
  <1>3. UNCHANGED vars
    BY <1>2 DEF WriteMapped, vars
  <1>4. \A d : Readers(d)' = Readers(d)
    BY <1>2 DEF Readers
  <1> QED
    BY <1>3, <1>4 DEF vars, IInv, TypeOK, MappingInv, ClassInv, ClaimsExact, LiveInv,
                      DrawInputsStable

(* unmap() gives up the claim of the mapping, the only one there is.        *)
LEMMA unmapPreserves ==
    ASSUME IInv, unmap
    PROVE  IInv'
PROOF
  <1>1. pointer = mContents /\ mContents \in Content
    BY DEF IInv, TypeOK, MappingInv, unmap
  <1>2. /\ resource[mContents] \in Resources
        /\ ~resource[mContents].freed /\ ~resource[mContents].orphaned
        /\ Readers(mContents) = {}
    BY <1>1, WriterAlone DEF IInv, TypeOK, LiveInv
  <1>3. resource[mContents].count = 1
    <2>1. Cardinality(Readers(mContents)) = 0
      BY <1>2, FS_EmptySet
    <2> QED
      BY <1>1, <2>1 DEF IInv, ClaimsExact
  <1>4. PICK r \in Resources : /\ r = Unlocked(resource[mContents])
                               /\ r.count = 0
                               /\ ~r.freed /\ ~r.orphaned
    BY <1>2, <1>3, UnlockedValue
  <1>5. resource' = [resource EXCEPT ![mContents] = r]
    BY <1>1, <1>4, NoneAssumption DEF unmap
  <1>6. \A d \in Content : resource'[d] = IF d = mContents THEN r ELSE resource[d]
    BY <1>1, <1>5 DEF IInv, TypeOK
  <1>7. draw' = draw
    <2>1. draw' = Gone(resource, resource')
      BY DEF unmap
    <2>2. \A s \in Slot : draw[s].content # NONE =>
             draw[s].content \in Content /\ s \in Readers(draw[s].content)
      BY DEF IInv, TypeOK, Readers
    <2>3. \A s \in Slot : draw[s].content # NONE => ~resource'[draw[s].content].freed
      BY <1>2, <1>4, <1>6, <2>2 DEF IInv, LiveInv
    <2>4. draw' = [s \in Slot |-> draw[s]]
      BY <2>1, <2>3 DEF Gone
    <2> QED
      BY <2>4 DEF IInv, TypeOK
  <1>8. \A d : Readers(d)' = Readers(d)
    BY <1>7 DEF Readers
  <1>9. mContents' = mContents /\ mIsMapped' = FALSE /\ pointer' = NONE /\ call' = call
        /\ call = "none"
    BY DEF unmap
  <1>10. TypeOK'
    <2>1. resource' \in [Content -> Resources]
      BY <1>4, <1>5 DEF IInv, TypeOK
    <2> QED
      BY <1>7, <1>9, <2>1 DEF IInv, TypeOK
  <1>11. MappingInv'
    BY <1>9 DEF MappingInv
  <1>12. ClassInv' /\ LiveInv'
    BY <1>1, <1>2, <1>4, <1>6, <1>8, <1>9 DEF IInv, ClassInv, LiveInv
  <1>13. ClaimsExact'
    <2>1. Cardinality(Readers(mContents)) = 0
      BY <1>2, FS_EmptySet
    <2> QED
      BY <1>1, <1>4, <1>6, <1>8, <1>9, <2>1 DEF IInv, ClaimsExact
  <1> QED
    BY <1>7, <1>10, <1>11, <1>12, <1>13 DEF IInv, DrawInputsStable

(* A draw call is one more reader of the contents.                          *)
LEMMA drawBufferPreserves ==
    ASSUME IInv, drawBuffer
    PROVE  IInv'
PROOF
  <1>1. mContents \in Content /\ pointer = NONE /\ mIsMapped = FALSE
    BY DEF IInv, TypeOK, MappingInv, drawBuffer
  <1>2. PICK n \in Slot :
           /\ draw[n] = NoDraw
           /\ draw' = [draw EXCEPT ![n] = [content |-> mContents, intact |-> TRUE]]
    BY DEF drawBuffer
  <1>3. /\ resource[mContents] \in Resources
        /\ ~resource[mContents].freed /\ ~resource[mContents].orphaned
    BY <1>1 DEF IInv, TypeOK, LiveInv
  <1>4. resource[mContents].accessor = "PUBLIC" => resource[mContents].count = 0
    <2>1. resource[mContents].accessor = "PUBLIC" => Readers(mContents) = {}
      BY <1>1 DEF IInv, ClassInv
    <2> QED
      BY <1>1, <2>1, Unclaimed, NoneAssumption DEF IInv
  <1>5. Relinquished(resource[mContents], "PUBLIC") = resource[mContents]
    BY <1>3, <1>4 DEF Relinquished, Resources
  <1>6. PICK r \in Resources : /\ r = Locked(resource[mContents], "PRIVATE")
                               /\ r.count = resource[mContents].count + 1
                               /\ r.accessor = "PRIVATE"
                               /\ ~r.freed /\ ~r.orphaned
    BY <1>3, LockedValue
  <1>7. resource' = [resource EXCEPT ![mContents] = r]
    BY <1>5, <1>6 DEF drawBuffer
  <1>8. \A d \in Content : resource'[d] = IF d = mContents THEN r ELSE resource[d]
    BY <1>1, <1>7 DEF IInv, TypeOK
  <1>9. mContents' = mContents /\ mIsMapped' = mIsMapped /\ pointer' = pointer /\ call' = "none"
    BY DEF drawBuffer
  <1>10. \A s \in Slot : draw'[s] = IF s = n THEN [content |-> mContents, intact |-> TRUE]
                                             ELSE draw[s]
    BY <1>2 DEF IInv, TypeOK
  <1>11. /\ Readers(mContents)' = Readers(mContents) \cup {n}
         /\ n \notin Readers(mContents)
         /\ \A d \in Content : d # mContents => Readers(d)' = Readers(d)
    BY <1>1, <1>2, <1>9, <1>10, NoneAssumption DEF Readers, NoDraw
  <1>12. Cardinality(Readers(mContents)') = Cardinality(Readers(mContents)) + 1
    BY <1>11, ReadersFinite, FS_AddElement
  <1>13. TypeOK'
    <2>1. resource' \in [Content -> Resources]
      BY <1>6, <1>7 DEF IInv, TypeOK
    <2>2. draw' \in [Slot -> [content : Content \cup {NONE}, intact : BOOLEAN]]
      BY <1>1, <1>2 DEF IInv, TypeOK
    <2> QED
      BY <1>9, <2>1, <2>2 DEF IInv, TypeOK
  <1>14. MappingInv'
    BY <1>1, <1>9 DEF IInv, MappingInv
  <1>15. ClassInv' /\ LiveInv'
    BY <1>1, <1>6, <1>8, <1>9, <1>11, NoneAssumption DEF IInv, ClassInv, LiveInv
  <1>16. ClaimsExact'
    <2>1. \A d \in Content : resource[d].count = Cardinality(Readers(d))
      BY <1>1, ReadersFinite DEF IInv, ClaimsExact
    <2>2. ASSUME NEW d \in Content
          PROVE  resource'[d].count = Cardinality(Readers(d)')
      <3>1. CASE d = mContents
        BY <1>6, <1>8, <1>9, <1>12, <2>1, <3>1
      <3>2. CASE d # mContents
        <4>1. Readers(d)' = Readers(d) /\ resource'[d] = resource[d]
          BY <1>8, <1>11, <3>2
        <4> QED
          BY <2>1, <4>1
      <3> QED
        BY <3>1, <3>2
    <2>3. \A d \in Content : Cardinality(Readers(d)') \in Nat /\ pointer' # d
      BY <1>1, <1>9, <1>11, <1>12, ReadersFinite, NoneAssumption
    <2> QED
      BY <2>2, <2>3 DEF ClaimsExact
  <1>17. DrawInputsStable'
    BY <1>10 DEF IInv, DrawInputsStable
  <1> QED
    BY <1>13, <1>14, <1>15, <1>16, <1>17 DEF IInv

(* Retirement takes a reader away; the last one may delete the resource.    *)
LEMMA RetirePreserves ==
    ASSUME IInv, NEW n \in Slot, Retire(n)
    PROVE  IInv'
PROOF
  <1>0. draw[n].content \in Content
    BY DEF IInv, TypeOK, DrawInputsStable, NoDraw, Retire
  <1>1. PICK c \in Content : c = draw[n].content
    BY <1>0
  <1>2. n \in Readers(c) /\ ~resource[c].freed /\ pointer # c
    <2>1. n \in Readers(c)
      BY <1>1 DEF Readers
    <2>2. pointer # c
      BY <1>1, <2>1 DEF IInv, ClassInv
    <2> QED
      BY <1>1, <2>1, <2>2 DEF IInv, LiveInv
  <1>3. /\ draw' = [draw EXCEPT ![n] = NoDraw]
        /\ resource' = [resource EXCEPT ![c] = Unlocked(@)]
        /\ UNCHANGED <<mContents, mIsMapped, pointer, call>>
    BY <1>1 DEF Retire
  <1>4. \A s \in Slot : draw'[s] = IF s = n THEN NoDraw ELSE draw[s]
    BY <1>3 DEF IInv, TypeOK
  <1>5. /\ Readers(c)' = Readers(c) \ {n}
        /\ \A d \in Content : d # c => Readers(d)' = Readers(d)
    <2>1. \A d \in Content : Readers(d)' = {s \in Slot : draw'[s].content = d}
      BY DEF Readers
    <2>2. \A d \in Content, s \in Slot : draw'[s].content = d <=> s # n /\ draw[s].content = d
      BY <1>4, NoneAssumption DEF NoDraw
    <2>3. \A d \in Content : Readers(d)' = Readers(d) \ {n}
      BY <2>1, <2>2 DEF Readers
    <2>4. \A d \in Content : d # c => n \notin Readers(d)
      BY <1>1 DEF Readers
    <2> QED
      BY <1>1, <2>3, <2>4
  <1>6. Cardinality(Readers(c)') = Cardinality(Readers(c)) - 1
    BY <1>2, <1>5, ReadersFinite, FS_RemoveElement
  <1>7. resource[c] \in Resources /\ resource[c].count = Cardinality(Readers(c))
    BY <1>1, <1>2, ReadersFinite DEF IInv, TypeOK, ClaimsExact
  <1>8. resource[c].count > 0
    BY <1>2, <1>7, ReadersFinite
  <1>9. PICK r \in Resources : /\ r = Unlocked(resource[c])
                               /\ r.count = resource[c].count - 1
                               /\ r.accessor = resource[c].accessor
                               /\ r.freed <=> resource[c].count = 1 /\ resource[c].orphaned
                               /\ r.orphaned = resource[c].orphaned
    BY <1>7, <1>8, UnlockedValue
  <1>10. resource' = [resource EXCEPT ![c] = r]
    BY <1>3, <1>9
  <1>11. \A d \in Content : resource'[d] = IF d = c THEN r ELSE resource[d]
    BY <1>1, <1>10 DEF IInv, TypeOK
  <1>12. r.freed => Readers(c)' = {}
    <2>1. r.freed => Cardinality(Readers(c)') = 0
      BY <1>6, <1>7, <1>9, ReadersFinite
    <2>2. IsFiniteSet(Readers(c)')
      BY <1>5, ReadersFinite, FS_RemoveElement
    <2> QED
      BY <2>1, <2>2, FS_EmptySet
  <1>13. TypeOK'
    <2>1. resource' \in [Content -> Resources]
      BY <1>9, <1>10 DEF IInv, TypeOK
    <2>2. draw' \in [Slot -> [content : Content \cup {NONE}, intact : BOOLEAN]]
      BY <1>3 DEF IInv, TypeOK, NoDraw
    <2> QED
      BY <1>3, <2>1, <2>2 DEF IInv, TypeOK
  <1>14. MappingInv'
    BY <1>3 DEF IInv, MappingInv
  <1>15. ClassInv'
    <2>1. \A d \in Content : Readers(d)' # {} => Readers(d) # {}
      BY <1>1, <1>5
    <2>2. \A d \in Content : resource'[d].accessor = resource[d].accessor
      BY <1>9, <1>11
    <2> QED
      BY <1>3, <2>1, <2>2 DEF IInv, ClassInv
  <1>16. ClaimsExact'
    <2>1. ASSUME NEW d \in Content
          PROVE  resource'[d].count = Cardinality(Readers(d)') + (IF pointer' = d THEN 1 ELSE 0)
      <3>1. CASE d = c
        <4>1. resource'[d].count = Cardinality(Readers(d)')
          BY <1>6, <1>7, <1>9, <1>11, <3>1
        <4>2. Cardinality(Readers(d)') \in Nat
          BY <1>5, <3>1, ReadersFinite, FS_RemoveElement, FS_CardinalityType
        <4> QED
          BY <1>2, <1>3, <3>1, <4>1, <4>2
      <3>2. CASE d # c
        BY <1>3, <1>5, <1>11, <3>2 DEF IInv, ClaimsExact
      <3> QED
        BY <3>1, <3>2
    <2> QED
      BY <2>1 DEF ClaimsExact
  <1>17. LiveInv'
    <2>1. \A d \in Content : Readers(d) = {} => Readers(d)' = {}
      BY <1>1, <1>5
    <2>2. c = mContents => ~r.freed /\ ~r.orphaned
      BY <1>1, <1>9 DEF IInv, LiveInv
    <2> QED
      BY <1>2, <1>3, <1>11, <1>12, <2>1, <2>2 DEF IInv, LiveInv
  <1>18. DrawInputsStable'
    BY <1>4 DEF IInv, DrawInputsStable, NoDraw
  <1> QED
    BY <1>13, <1>14, <1>15, <1>16, <1>17, <1>18 DEF IInv
------------------------------------------------------------------------------
LEMMA NextPreserves ==
    ASSUME IInv, RespecifyMapped = FALSE, [Next]_vars
    PROVE  IInv'
PROOF
  <1>1. CASE UNCHANGED vars
    <2>1. \A c : Readers(c)' = Readers(c)
      BY <1>1 DEF vars, Readers
    <2> QED
      BY <1>1, <2>1 DEF vars, IInv, TypeOK, MappingInv, ClassInv, ClaimsExact, LiveInv,
                        DrawInputsStable
  <1>2. CASE \E size \in {0, 1} : bufferData(size)
    BY <1>2, bufferDataPreserves
  <1>3. CASE Begin("bufferSubData")
    BY <1>3, BeginPreserves
  <1>4. CASE ~mIsMapped /\ (Begin("mapRange") \/ Begin("draw"))
    BY <1>4, BeginPreserves
  <1>5. CASE deleteBuffer
    BY <1>5, deleteBufferPreserves
  <1>6. CASE Return
    BY <1>6, bufferSubDataPreserves, mapRangePreserves, drawBufferPreserves DEF Return
  <1>7. CASE WriteMapped
    BY <1>7, WriteMappedPreserves
  <1>8. CASE unmap
    BY <1>8, unmapPreserves
  <1>9. CASE \E s \in Slot : Retire(s)
    BY <1>9, RetirePreserves
  <1>10. CASE Done
    BY <1>1, <1>10 DEF Done
  <1> QED
    BY <1>1, <1>2, <1>3, <1>4, <1>5, <1>6, <1>7, <1>8, <1>9, <1>10 DEF Next, Call

THEOREM Invariance ==
    ASSUME RespecifyMapped = FALSE
    PROVE  Spec => []IInv
PROOF
  <1>1. Init => IInv
    BY InitEstablishes
  <1>2. IInv /\ [Next]_vars => IInv'
    BY NextPreserves
  <1> QED
    BY <1>1, <1>2, PTL DEF Spec

(* A draw call in flight reads the contents as they were when it was        *)
(* submitted, whatever updates, mappings, respecifications and the deletion *)
(* of the buffer object come between.                                       *)
THEOREM InputsStable ==
    ASSUME RespecifyMapped = FALSE
    PROVE  Spec => []DrawInputsStable
PROOF
  <1>1. IInv => DrawInputsStable
    BY DEF IInv
  <1> QED
    BY <1>1, Invariance, PTL

(* Every claim on the contents is that of a draw call in flight or of the   *)
(* mapping: none is given up twice or kept.                                 *)
THEOREM ClaimsOfUsers ==
    ASSUME RespecifyMapped = FALSE
    PROVE  Spec => []ClaimsExact
PROOF
  <1>1. IInv => ClaimsExact
    BY DEF IInv
  <1> QED
    BY <1>1, Invariance, PTL
==============================================================================
