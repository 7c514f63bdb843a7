--------------------------- MODULE RoutineCache_proofs ---------------------------
(***************************************************************************)
(* Proofs about RoutineCache for any states, any addresses of routines,    *)
(* any finite number of draw calls in flight and any sizes up to 8: the    *)
(* cache is the list of recent states (KeepsRecentStates), and when every  *)
(* draw call updates its state ("update" is TRUE), draw calls run their    *)
(* own routines, which are bound by those who use them.                    *)
(***************************************************************************)
EXTENDS RoutineCache, FiniteSetTheorems, SequenceTheorems, TLAPS

USE RoutineAssumption, SizeAssumption, DrawAssumption, NoneAssumption

Place == 0 .. size - 1
Routines == [alive : BOOLEAN, for : State \cup {NONE}, bindCount : Nat]

TypeOK ==
    /\ size \in {1, 2, 4, 8}
    /\ top \in Int /\ fill \in Int
    /\ key \in [Place -> State \cup {NONE}]
    /\ ref \in [Place -> Place]
    /\ data \in [Place -> Routine \cup {NONE}]
    /\ routine \in [Routine -> Routines]
    /\ DOMAIN draw = DrawCall

InCache(r) == \E p \in Place : data[p] = r
Users(r) == {d \in DrawCall : draw[d].runs = r}

(* The ring: no routine is in two places, no key belongs to two places, and *)
(* the key of a place is what the routine in it was generated for.          *)
RingInv ==
    /\ \A p, q \in Place : data[p] = data[q] /\ data[p] # NONE => p = q
    /\ \A p, q \in Place : ref[p] = ref[q] => p = q
    /\ \A p \in Place : data[p] # NONE => key[ref[p]] = routine[data[p]].for
    /\ \A p \in Place : data[p] = NONE => key[ref[p]] = NONE

CountInv ==
    \A r \in Routine :
        /\ InCache(r) => routine[r].bindCount = 1 + Cardinality(Users(r))
        /\ ~InCache(r) => routine[r].bindCount = Cardinality(Users(r))
        /\ routine[r].alive <=> routine[r].bindCount > 0

(* What is in use; a routine that was looked up stays in the cache until it *)
(* is bound, which is why nothing has to be bound before.                   *)
UseInv ==
    /\ \A d \in DrawCall :
          \/ draw[d] = NoDraw
          \/ draw[d].runs \in Routine /\ routine[draw[d].runs].for = draw[d].for
    /\ \/ app = Ready
       \/ /\ app.pc = "bind" /\ app.runs \in Routine /\ app.for \in State
          /\ InCache(app.runs)
          /\ routine[app.runs].for = app.for

IInv == TypeOK /\ RingInv /\ CountInv /\ UseInv
-----------------------------------------------------------------------------
(* Places and users                                                         *)

LEMMA Masked ==
    ASSUME size \in {1, 2, 4, 8}, NEW i \in Int
    PROVE  Mask(i) \in Place
<1>1. CASE size = 1
  BY <1>1 DEF Mask, Place
<1>2. CASE size = 2
  BY <1>2 DEF Mask, Place
<1>3. CASE size = 4
  BY <1>3 DEF Mask, Place
<1>4. CASE size = 8
  BY <1>4 DEF Mask, Place
<1> QED
  BY <1>1, <1>2, <1>3, <1>4

LEMMA PowerOfTwo ==
    ASSUME NEW n \in CacheSize
    PROVE  ceilPow2(n) \in {1, 2, 4, 8}
<1> DEFINE Is(p) == p >= n /\ \A q \in {1, 2, 4, 8} : q >= n => p <= q
<1>1. n \in 1 .. 8
  OBVIOUS
<1>2. \E p \in {1, 2, 4, 8} : Is(p)
  <2>1. CASE n <= 1
    BY <1>1, <2>1
  <2>2. CASE n > 1 /\ n <= 2
    BY <1>1, <2>2
  <2>3. CASE n > 2 /\ n <= 4
    BY <1>1, <2>3
  <2>4. CASE n > 4
    BY <1>1, <2>4
  <2> QED
    BY <1>1, <2>1, <2>2, <2>3, <2>4
<1> HIDE DEF Is
<1>3. ceilPow2(n) = CHOOSE p \in {1, 2, 4, 8} : Is(p)
  BY DEF ceilPow2, Is
<1> QED
  BY <1>2, <1>3

LEMMA UsersFinite ==
    ASSUME NEW r
    PROVE  /\ IsFiniteSet(Users(r))
           /\ Cardinality(Users(r)) \in Nat
           /\ Cardinality(Users(r)) = 0 <=> Users(r) = {}
<1>1. IsFiniteSet(Users(r))
  BY FS_Subset DEF Users
<1> QED
  BY <1>1, FS_CardinalityType, FS_EmptySet

\* A routine that is not bound has no users, and is not in the cache.
LEMMA Unbinding ==
    ASSUME TypeOK, CountInv, NEW r \in Routine
    PROVE  /\ ~routine[r].alive => ~InCache(r) /\ Users(r) = {}
           /\ Users(r) # {} => routine[r].bindCount > 0
           /\ Users(r) # {} /\ InCache(r) => routine[r].bindCount > 1
           /\ InCache(r) => routine[r].bindCount > 0
<1>1. routine[r].bindCount \in Nat /\ Cardinality(Users(r)) \in Nat
  BY UsersFinite DEF TypeOK, Routines
<1>2. Users(r) # {} => Cardinality(Users(r)) > 0
  BY <1>1, UsersFinite
<1> QED
  BY <1>1, <1>2, UsersFinite DEF CountInv

\* What unbind() leaves.
LEMMA UnboundIs ==
    ASSUME NEW f \in [Routine -> Routines], NEW r \in Routine, f[r].bindCount > 0
    PROVE  /\ Unbound(f, r) \in [Routine -> Routines]
           /\ \A q \in Routine \ {r} : Unbound(f, r)[q] = f[q]
           /\ Unbound(f, r)[r].bindCount = f[r].bindCount - 1
           /\ f[r].bindCount = 1 => ~Unbound(f, r)[r].alive
           /\ f[r].bindCount > 1 => /\ Unbound(f, r)[r].alive = f[r].alive
                                    /\ Unbound(f, r)[r].for = f[r].for
<1>1. PICK x : x = f[r]
  OBVIOUS
<1>2. x \in Routines /\ x.bindCount \in Nat /\ x.bindCount > 0
  BY <1>1 DEF Routines
<1>3. PICK y : y = IF f[r].bindCount = 1 THEN NoRoutine
                   ELSE [f[r] EXCEPT !.bindCount = f[r].bindCount - 1]
  OBVIOUS
<1>4. Unbound(f, r) = [f EXCEPT ![r] = y]
  BY <1>3 DEF Unbound
<1>5. CASE x.bindCount = 1
  <2>1. y = NoRoutine
    BY <1>1, <1>3, <1>5
  <2>2. y \in Routines /\ y.bindCount = 0 /\ y.alive = FALSE
    BY <2>1 DEF NoRoutine, Routines
  <2> QED
    BY <1>1, <1>4, <1>5, <2>2
<1>6. CASE x.bindCount # 1
  <2>1. y = [x EXCEPT !.bindCount = x.bindCount - 1]
    BY <1>1, <1>3, <1>6
  <2>2. x.bindCount - 1 \in Nat
    BY <1>2
  <2>3. /\ y \in Routines /\ y.bindCount = x.bindCount - 1
        /\ y.alive = x.alive /\ y.for = x.for
    BY <1>2, <2>1, <2>2 DEF Routines
  <2> QED
    BY <1>1, <1>2, <1>4, <1>6, <2>3
<1> QED
  BY <1>5, <1>6
-----------------------------------------------------------------------------
(* The invariant                                                            *)

LEMMA Initially == Init => IInv
<1> SUFFICES ASSUME Init PROVE IInv
  OBVIOUS
<1>1. PICK n \in CacheSize :
        /\ size = ceilPow2(n)
        /\ key = [i \in 0 .. ceilPow2(n) - 1 |-> NONE]
        /\ ref = [i \in 0 .. ceilPow2(n) - 1 |-> i]
        /\ data = [i \in 0 .. ceilPow2(n) - 1 |-> NONE]
  BY DEF Init
<1>2. size \in {1, 2, 4, 8}
  BY <1>1, PowerOfTwo
<1>3. NoRoutine \in Routines /\ NoRoutine.bindCount = 0 /\ NoRoutine.alive = FALSE
  BY DEF NoRoutine, Routines
<1>4. TypeOK
  BY <1>1, <1>2, <1>3 DEF Init, TypeOK, Place
<1>5. RingInv
  <2>1. \A p \in Place : key[p] = NONE /\ ref[p] = p /\ data[p] = NONE
    BY <1>1 DEF Place
  <2> QED
    BY <2>1 DEF RingInv
<1>6. CountInv
  <2> SUFFICES ASSUME NEW r \in Routine
               PROVE  /\ InCache(r) => routine[r].bindCount = 1 + Cardinality(Users(r))
                      /\ ~InCache(r) => routine[r].bindCount = Cardinality(Users(r))
                      /\ routine[r].alive <=> routine[r].bindCount > 0
    BY DEF CountInv
  <2>2. ~InCache(r)
    BY <1>1 DEF InCache, Place
  <2>3. Users(r) = {}
    BY DEF Users, Init, NoDraw
  <2>4. Cardinality(Users(r)) = 0
    BY <2>3, FS_EmptySet
  <2>5. routine[r] = NoRoutine
    BY DEF Init
  <2> QED
    BY <1>3, <2>2, <2>4, <2>5
<1>7. UseInv
  BY DEF Init, UseInv
<1> QED
  BY <1>4, <1>5, <1>6, <1>7 DEF IInv

\* A hit: an entry and the key that belongs to it move up together.
LEMMA HitStep ==
    ASSUME IInv, NEW s \in State, NEW i \in Searched, QueryHit(s, i)
    PROVE  IInv'
<1>1. i \in Int /\ i + 1 \in Int
  BY DEF Searched, IInv, TypeOK
<1>2. PICK p \in Place, q \in Place : p = Mask(i) /\ q = Mask(i + 1)
  BY <1>1, Masked DEF IInv, TypeOK
<1>3. key[ref[p]] = s
  BY <1>2 DEF QueryHit, Hits, KeyAt
<1>4. data[p] \in Routine
  BY <1>3 DEF IInv, RingInv, TypeOK
<1>5. /\ UNCHANGED <<size, top, fill, key, routine, draw>>
      /\ app' = [pc |-> "bind", runs |-> data[p], for |-> s]
      /\ \/ UNCHANGED <<data, ref>>
         \/ /\ data' = [data EXCEPT ![p] = data[q], ![q] = data[p]]
            /\ ref' = [ref EXCEPT ![p] = ref[q], ![q] = ref[p]]
  BY <1>2 DEF QueryHit, MoveUp
\* Where the entry of a place came from.
<1>6. PICK from \in [Place -> Place] :
        /\ \A x \in Place : data'[x] = data[from[x]] /\ ref'[x] = ref[from[x]]
        /\ \A x, y \in Place : from[x] = from[y] => x = y
        /\ \A y \in Place : \E x \in Place : from[x] = y
  <2>1. CASE UNCHANGED <<data, ref>>
    <3>1. [x \in Place |-> x] \in [Place -> Place]
      OBVIOUS
    <3> QED
      BY <2>1, <3>1
  <2>2. CASE /\ data' = [data EXCEPT ![p] = data[q], ![q] = data[p]]
             /\ ref' = [ref EXCEPT ![p] = ref[q], ![q] = ref[p]]
    <3> DEFINE from == [x \in Place |-> IF x = q THEN p ELSE IF x = p THEN q ELSE x]
    <3>1. \A x \in Place : from[x] = IF x = q THEN p ELSE IF x = p THEN q ELSE x
      OBVIOUS
    <3>2. from \in [Place -> Place]
      OBVIOUS
    <3> HIDE DEF from
    <3>3. \A x \in Place : data'[x] = data[from[x]] /\ ref'[x] = ref[from[x]]
      BY <2>2, <3>1 DEF IInv, TypeOK
    <3>4. \A x, y \in Place : from[x] = from[y] => x = y
      BY <3>1
    <3>5. \A y \in Place : from[from[y]] = y /\ from[y] \in Place
      BY <3>1, <3>2
    <3> QED
      BY <3>2, <3>3, <3>4, <3>5
  <2> QED
    BY <1>5, <2>1, <2>2
<1>7. Place' = Place
  BY <1>5 DEF Place
<1>8. TypeOK'
  <2>1. data' \in [Place -> Routine \cup {NONE}] /\ ref' \in [Place -> Place]
    BY <1>5 DEF IInv, TypeOK
  <2> QED
    BY <1>5, <1>7, <2>1 DEF IInv, TypeOK
<1>9. \A r : InCache(r)' <=> InCache(r)
  BY <1>6, <1>7 DEF InCache
<1>10. \A r : Users(r)' = Users(r)
  BY <1>5 DEF Users
<1>11. RingInv'
  <2> SUFFICES /\ \A x, y \in Place : data'[x] = data'[y] /\ data'[x] # NONE => x = y
               /\ \A x, y \in Place : ref'[x] = ref'[y] => x = y
               /\ \A x \in Place : data'[x] # NONE => key[ref'[x]] = routine[data'[x]].for
               /\ \A x \in Place : data'[x] = NONE => key[ref'[x]] = NONE
    BY <1>5, <1>7 DEF RingInv
  <2>1. \A x \in Place : from[x] \in Place /\ data'[x] = data[from[x]] /\ ref'[x] = ref[from[x]]
    BY <1>6
  <2>2. \A x, y \in Place : data'[x] = data'[y] /\ data'[x] # NONE => x = y
    BY <1>6, <2>1 DEF IInv, RingInv
  <2>3. \A x, y \in Place : ref'[x] = ref'[y] => x = y
    BY <1>6, <2>1 DEF IInv, RingInv
  <2>4. \A x \in Place : data'[x] # NONE => key[ref'[x]] = routine[data'[x]].for
    BY <2>1 DEF IInv, RingInv
  <2>5. \A x \in Place : data'[x] = NONE => key[ref'[x]] = NONE
    BY <2>1 DEF IInv, RingInv
  <2> QED
    BY <2>2, <2>3, <2>4, <2>5
<1>12. CountInv'
  BY <1>5, <1>9, <1>10 DEF IInv, CountInv
<1>13. UseInv'
  <2>1. InCache(data[p])
    BY DEF InCache
  <2>2. routine[data[p]].for = s
    BY <1>3, <1>4 DEF IInv, RingInv
  <2>3. /\ app'.pc = "bind" /\ app'.runs \in Routine /\ app'.for \in State
        /\ InCache(app.runs)' /\ routine'[app'.runs].for = app'.for
    <3>1. app'.pc = "bind" /\ app'.runs = data[p] /\ app'.for = s
      BY <1>5
    <3>2. InCache(app.runs)'
      BY <1>6, <1>7, <2>1, <3>1 DEF InCache
    <3> QED
      BY <1>4, <1>5, <2>2, <3>1, <3>2
  <2> QED
    BY <1>5, <2>3 DEF IInv, UseInv
<1> QED
  BY <1>8, <1>11, <1>12, <1>13 DEF IInv

\* A miss: the routine generated takes the place of the oldest one, which is
\* unbound; it lives on if draw calls use it.
LEMMA MissStep ==
    ASSUME IInv, NEW s \in State, QueryMiss(s)
    PROVE  IInv'
<1>1. PICK r \in Routine :
        /\ Allocated(r) /\ Add(s, r)
        /\ app' = [pc |-> "bind", runs |-> r, for |-> s]
        /\ draw' = draw
  BY DEF QueryMiss
<1>2. PICK new \in Place : new = Mask(top + 1)
  BY Masked DEF IInv, TypeOK
<1>3. PICK old \in Routine \cup {NONE} : old = data[new]
  BY DEF IInv, TypeOK
<1>4. PICK fresh : fresh = [alive |-> TRUE, for |-> s, bindCount |-> 1]
  OBVIOUS
<1>5. PICK generated : generated = [routine EXCEPT ![r] = fresh]
  OBVIOUS
<1>6. /\ top' = new
      /\ fill' = IF fill + 1 < size THEN fill + 1 ELSE size
      /\ key' = [key EXCEPT ![ref[new]] = s]
      /\ routine' = IF old = NONE THEN generated ELSE Unbound(generated, old)
      /\ data' = [data EXCEPT ![new] = r]
      /\ size' = size /\ ref' = ref
  BY <1>1, <1>2, <1>3, <1>4, <1>5 DEF Add
<1>7. /\ fresh \in Routines /\ fresh.alive = TRUE /\ fresh.for = s /\ fresh.bindCount = 1
      /\ generated \in [Routine -> Routines]
      /\ generated[r] = fresh
      /\ \A x \in Routine \ {r} : generated[x] = routine[x]
  BY <1>4, <1>5 DEF IInv, TypeOK, Routines
<1>8. Place' = Place
  BY <1>6 DEF Place
<1>9. ~InCache(r) /\ Users(r) = {}
  BY <1>1, Unbinding DEF Allocated, IInv
<1>10. old # r /\ (old # NONE => InCache(old))
  BY <1>3, <1>9 DEF InCache
<1>11. \A x \in Place : data'[x] = (IF x = new THEN r ELSE data[x]) /\ data[x] # r
  BY <1>6, <1>9 DEF IInv, TypeOK, InCache
<1>12. \A x \in Routine : InCache(x)' <=> x = r \/ (InCache(x) /\ x # old)
  <2>1. TAKE x \in Routine
  <2>2. InCache(x)' <=> \E p \in Place : data'[p] = x
    BY <1>8 DEF InCache
  <2>3. ASSUME x = r PROVE \E p \in Place : data'[p] = x
    BY <1>11, <2>3
  <2>4. ASSUME InCache(x), x # old PROVE \E p \in Place : data'[p] = x
    BY <1>3, <1>11, <2>4 DEF InCache
  <2>5. ASSUME NEW p \in Place, data'[p] = x, x # r
        PROVE  InCache(x) /\ x # old
    <3>1. p # new /\ data[p] = x
      BY <1>11, <2>5
    <3>2. x # NONE
      OBVIOUS
    <3> QED
      BY <1>3, <3>1, <3>2 DEF IInv, RingInv, InCache
  <2> QED
    BY <2>2, <2>3, <2>4, <2>5
<1>13. \A x : Users(x)' = Users(x)
  BY <1>1 DEF Users
\* What happens to the routines: one is made, one is perhaps unbound.
<1>14. /\ routine' \in [Routine -> Routines]
       /\ routine'[r] = fresh
       /\ \A x \in Routine \ {r, old} : routine'[x] = routine[x]
       /\ old # NONE =>
            /\ routine'[old].bindCount = Cardinality(Users(old))
            /\ routine'[old].alive <=> routine'[old].bindCount > 0
            /\ Users(old) # {} => routine'[old].for = routine[old].for
  <2>1. CASE old = NONE
    BY <1>6, <1>7, <2>1
  <2>2. CASE old # NONE
    <3>1. old \in Routine /\ generated[old] = routine[old]
      BY <1>7, <1>10, <2>2
    <3>2. /\ routine[old].bindCount = 1 + Cardinality(Users(old))
          /\ routine[old].alive <=> routine[old].bindCount > 0
      BY <1>10, <2>2, <3>1 DEF IInv, CountInv
    <3>3. Cardinality(Users(old)) \in Nat
      BY UsersFinite
    <3>4. generated[old].bindCount > 0
      BY <3>1, <3>2, <3>3
    <3>5. routine' = Unbound(generated, old)
      BY <1>6, <2>2
    <3>6. /\ routine' \in [Routine -> Routines]
          /\ \A x \in Routine \ {old} : routine'[x] = generated[x]
          /\ routine'[old].bindCount = routine[old].bindCount - 1
          /\ routine[old].bindCount = 1 => ~routine'[old].alive
          /\ routine[old].bindCount > 1 => /\ routine'[old].alive = routine[old].alive
                                           /\ routine'[old].for = routine[old].for
      <4>1. generated \in [Routine -> Routines] /\ old \in Routine
        BY <1>7, <3>1
      <4>2. PICK g : g = Unbound(generated, old)
        OBVIOUS
      <4>3. /\ g \in [Routine -> Routines]
            /\ \A x \in Routine \ {old} : g[x] = generated[x]
            /\ g[old].bindCount = generated[old].bindCount - 1
            /\ generated[old].bindCount = 1 => ~g[old].alive
            /\ generated[old].bindCount > 1 => /\ g[old].alive = generated[old].alive
                                               /\ g[old].for = generated[old].for
        BY <3>4, <4>1, <4>2, UnboundIs
      <4> QED
        BY <3>1, <3>5, <4>2, <4>3
    <3>7. routine'[old].bindCount = Cardinality(Users(old))
      BY <3>2, <3>3, <3>6
    <3>8. routine'[old].alive <=> routine'[old].bindCount > 0
      <4>1. CASE Cardinality(Users(old)) = 0
        BY <3>2, <3>6, <3>7, <4>1
      <4>2. CASE Cardinality(Users(old)) > 0
        BY <3>2, <3>3, <3>6, <3>7, <4>2
      <4> QED
        BY <3>3, <4>1, <4>2
    <3>9. Users(old) # {} => routine'[old].for = routine[old].for
      BY <3>2, <3>3, <3>6, UsersFinite
    <3>10. routine'[r] = fresh
      BY <1>7, <1>10, <3>6
    <3>11. \A x \in Routine \ {r, old} : routine'[x] = routine[x]
      BY <1>7, <3>6
    <3> QED
      BY <3>6, <3>7, <3>8, <3>9, <3>10, <3>11
  <2> QED
    BY <2>1, <2>2
<1>15. TypeOK'
  <2>1. /\ key' \in [Place -> State \cup {NONE}]
        /\ data' \in [Place -> Routine \cup {NONE}]
    BY <1>6 DEF IInv, TypeOK
  <2>2. top' \in Int /\ fill' \in Int
    BY <1>6 DEF IInv, TypeOK, Place
  <2> QED
    BY <1>1, <1>6, <1>8, <1>14, <2>1, <2>2 DEF IInv, TypeOK
<1>16. RingInv'
  <2>1. \A p \in Place : p # new => ref[p] # ref[new]
    BY DEF IInv, RingInv
  <2>2. /\ key'[ref[new]] = s
        /\ \A p \in Place : p # new => key'[ref[p]] = key[ref[p]]
    BY <1>6, <2>1 DEF IInv, TypeOK
  <2>3. \A p, q \in Place : data'[p] = data'[q] /\ data'[p] # NONE => p = q
    BY <1>11 DEF IInv, RingInv
  <2>4. \A p, q \in Place : ref[p] = ref[q] => p = q
    BY DEF IInv, RingInv
  <2>5. ASSUME NEW p \in Place, data'[p] # NONE
        PROVE  key'[ref[p]] = routine'[data'[p]].for
    <3>1. CASE p = new
      BY <1>7, <1>11, <1>14, <2>2, <3>1
    <3>2. CASE p # new
      <4>1. data'[p] = data[p] /\ data[p] # r /\ data[p] \in Routine
        BY <1>11, <2>5, <3>2 DEF IInv, TypeOK
      <4>2. data[p] # old
        BY <1>3, <4>1, <3>2 DEF IInv, RingInv
      <4>3. key[ref[p]] = routine[data[p]].for
        BY <4>1 DEF IInv, RingInv
      <4> QED
        BY <1>14, <2>2, <3>2, <4>1, <4>2, <4>3
    <3> QED
      BY <3>1, <3>2
  <2>6. ASSUME NEW p \in Place, data'[p] = NONE
        PROVE  key'[ref[p]] = NONE
    <3>1. p # new /\ data[p] = NONE
      BY <1>11, <2>6
    <3> QED
      BY <2>2, <3>1 DEF IInv, RingInv
  <2> QED
    BY <1>6, <1>8, <2>3, <2>4, <2>5, <2>6 DEF RingInv
<1>17. CountInv'
  <2> SUFFICES ASSUME NEW x \in Routine
               PROVE  /\ InCache(x)' => routine'[x].bindCount = 1 + Cardinality(Users(x))
                      /\ ~InCache(x)' => routine'[x].bindCount = Cardinality(Users(x))
                      /\ routine'[x].alive <=> routine'[x].bindCount > 0
    BY <1>13 DEF CountInv
  <2>1. CASE x = r
    <3>1. Cardinality(Users(x)) = 0 /\ InCache(x)'
      BY <1>9, <1>12, <2>1, UsersFinite
    <3> QED
      BY <1>7, <1>14, <2>1, <3>1
  <2>2. CASE x = old
    BY <1>10, <1>12, <1>14, <2>2
  <2>3. CASE x # r /\ x # old
    BY <1>12, <1>14, <2>3 DEF IInv, CountInv
  <2> QED
    BY <2>1, <2>2, <2>3
<1>18. UseInv'
  <2>1. ASSUME NEW d \in DrawCall, draw[d] # NoDraw
        PROVE  draw[d].runs \in Routine /\ routine'[draw[d].runs].for = draw[d].for
    <3>1. draw[d].runs \in Routine /\ routine[draw[d].runs].for = draw[d].for
      BY <2>1 DEF IInv, UseInv
    <3>2. Users(draw[d].runs) # {}
      BY DEF Users
    <3>3. draw[d].runs # r
      BY <1>9, <3>2
    <3> QED
      BY <1>14, <3>1, <3>2, <3>3
  <2>2. app'.pc = "bind" /\ app'.runs = r /\ app'.for = s
    BY <1>1
  <2>3. InCache(app.runs)'
    BY <1>8, <1>11, <2>2 DEF InCache
  <2>4. routine'[app'.runs].for = app'.for
    BY <1>7, <1>14, <2>2
  <2> QED
    BY <1>1, <2>1, <2>2, <2>3, <2>4 DEF UseInv
<1> QED
  BY <1>15, <1>16, <1>17, <1>18 DEF IInv

\* Submission binds the routine that was looked up: it is in the cache still.
LEMMA SubmitStep ==
    ASSUME IInv, NEW d \in DrawCall, submit(d)
    PROVE  IInv'
<1>1. PICK r \in Routine : r = app.runs
  <2>1. app # Ready
    BY DEF submit, Ready
  <2> QED
    BY <2>1 DEF IInv, UseInv
<1>2. /\ draw[d] = NoDraw
      /\ InCache(r) /\ routine[r].for = app.for
  BY <1>1 DEF submit, IInv, UseInv, Ready
<1>3. PICK x : x = [routine[r] EXCEPT !.bindCount = routine[r].bindCount + 1]
  OBVIOUS
<1>4. PICK use : use = [runs |-> r, for |-> app.for]
  OBVIOUS
<1>5. /\ routine' = [routine EXCEPT ![r] = x]
      /\ draw' = [draw EXCEPT ![d] = use]
      /\ app' = Ready
      /\ UNCHANGED cache
  <2>1. routine' = [routine EXCEPT ![r].bindCount = @ + 1]
    BY <1>1 DEF submit, Bound
  <2> QED
    BY <1>1, <1>3, <1>4, <2>1 DEF submit
<1>6. /\ x \in Routines /\ x.bindCount = routine[r].bindCount + 1
      /\ x.alive = routine[r].alive /\ x.for = routine[r].for
  BY <1>3 DEF IInv, TypeOK, Routines
<1>7. use.runs = r /\ use.for = app.for
  BY <1>4
<1>8. Place' = Place
  BY <1>5 DEF Place, cache
<1>9. /\ routine'[r] = x
      /\ \A q \in Routine \ {r} : routine'[q] = routine[q]
      /\ draw'[d] = use
      /\ \A e \in DrawCall \ {d} : draw'[e] = draw[e]
  BY <1>5 DEF IInv, TypeOK
<1>10. TypeOK'
  BY <1>5, <1>6, <1>8 DEF IInv, TypeOK, cache
<1>11. \A q : InCache(q)' <=> InCache(q)
  BY <1>5, <1>8 DEF InCache, cache
<1>12. d \notin Users(r) /\ Users(r)' = Users(r) \cup {d}
  <2>1. draw[d].runs = NONE
    BY <1>2 DEF NoDraw
  <2> QED
    BY <1>7, <1>9, <2>1 DEF Users
<1>13. \A q \in Routine \ {r} : Users(q)' = Users(q)
  <2>1. draw[d].runs = NONE
    BY <1>2 DEF NoDraw
  <2> QED
    BY <1>7, <1>9, <2>1 DEF Users
<1>14. Cardinality(Users(r)') = Cardinality(Users(r)) + 1
  BY <1>12, UsersFinite, FS_AddElement
<1>15. RingInv'
  <2>1. \A p \in Place : data[p] # NONE => routine'[data[p]].for = routine[data[p]].for
    BY <1>6, <1>9 DEF IInv, TypeOK
  <2> QED
    BY <1>5, <1>8, <2>1 DEF IInv, RingInv, cache
<1>16. CountInv'
  <2> SUFFICES ASSUME NEW q \in Routine
               PROVE  /\ InCache(q) => routine'[q].bindCount = 1 + Cardinality(Users(q)')
                      /\ ~InCache(q) => routine'[q].bindCount = Cardinality(Users(q)')
                      /\ routine'[q].alive <=> routine'[q].bindCount > 0
    BY <1>11 DEF CountInv
  <2>1. CASE q = r
    <3>1. routine[r].bindCount = 1 + Cardinality(Users(r)) /\ Cardinality(Users(r)) \in Nat
      BY <1>2, UsersFinite DEF IInv, CountInv
    <3>2. routine[r].alive
      <4>1. routine[r].bindCount > 0
        BY <3>1
      <4> QED
        BY ONLY IInv, r \in Routine, <4>1, Zenon DEF IInv, CountInv
    <3>3. routine'[r].bindCount = 1 + Cardinality(Users(r)') /\ routine'[r].bindCount > 0
      BY <1>6, <1>9, <1>14, <3>1
    <3>4. routine'[r].alive
      BY <1>6, <1>9, <3>2
    <3> QED
      BY <1>2, <2>1, <3>3, <3>4
  <2>2. CASE q # r
    BY <1>9, <1>13, <2>2 DEF IInv, CountInv
  <2> QED
    BY <2>1, <2>2
<1>17. UseInv'
  <2>1. ASSUME NEW e \in DrawCall, draw'[e] # NoDraw
        PROVE  draw'[e].runs \in Routine /\ routine'[draw'[e].runs].for = draw'[e].for
    <3>1. CASE e = d
      BY <1>2, <1>6, <1>7, <1>9, <3>1
    <3>2. CASE e # d
      <4>1. draw'[e] = draw[e]
        BY <1>9, <3>2
      <4>2. draw[e].runs \in Routine /\ routine[draw[e].runs].for = draw[e].for
        BY <2>1, <4>1 DEF IInv, UseInv
      <4> QED
        BY <1>6, <1>9, <4>1, <4>2
    <3> QED
      BY <3>1, <3>2
  <2> QED
    BY <1>5, <2>1 DEF UseInv
<1> QED
  BY <1>10, <1>15, <1>16, <1>17 DEF IInv

\* Retirement unbinds it; the last one frees a routine that left the cache.
LEMMA RetireStep ==
    ASSUME IInv, NEW d \in DrawCall, retire(d)
    PROVE  IInv'
<1>1. PICK r \in Routine : r = draw[d].runs
  BY DEF retire, IInv, UseInv
<1>2. d \in Users(r)
  BY <1>1 DEF Users
<1>3. /\ routine' = Unbound(routine, r)
      /\ draw' = [draw EXCEPT ![d] = NoDraw]
      /\ UNCHANGED <<cache, app>>
  BY <1>1 DEF retire
<1>4. Cardinality(Users(r)) \in Nat /\ Cardinality(Users(r)) > 0
  BY <1>2, UsersFinite
<1>5. /\ routine[r].bindCount \in Nat /\ routine[r].bindCount > 0
      /\ InCache(r) => routine[r].bindCount > 1
      /\ routine[r].alive
  <2>1. routine[r].bindCount \in Nat
    BY DEF IInv, TypeOK, Routines
  <2>2. routine[r].bindCount > 0 /\ (InCache(r) => routine[r].bindCount > 1)
    BY <1>2, Unbinding DEF IInv
  <2> QED
    BY <2>1, <2>2 DEF IInv, CountInv
<1>6. /\ routine' \in [Routine -> Routines]
      /\ \A q \in Routine \ {r} : routine'[q] = routine[q]
      /\ routine'[r].bindCount = routine[r].bindCount - 1
      /\ routine[r].bindCount = 1 => ~routine'[r].alive
      /\ routine[r].bindCount > 1 => /\ routine'[r].alive = routine[r].alive
                                     /\ routine'[r].for = routine[r].for
  <2>1. routine \in [Routine -> Routines]
    BY DEF IInv, TypeOK
  <2>2. routine[r].bindCount > 0
    BY <1>5
  <2> QED
    BY <1>3, <2>1, <2>2, UnboundIs, Zenon
<1>7. Place' = Place
  BY <1>3 DEF Place, cache
<1>8. draw'[d] = NoDraw /\ \A e \in DrawCall \ {d} : draw'[e] = draw[e]
  BY <1>3 DEF IInv, TypeOK
<1>9. NoDraw.runs = NONE
  BY DEF NoDraw
<1>10. Users(r)' = Users(r) \ {d}
  BY <1>8, <1>9 DEF Users
<1>11. \A q \in Routine \ {r} : Users(q)' = Users(q)
  BY <1>1, <1>8, <1>9 DEF Users
<1>12. Cardinality(Users(r)') = Cardinality(Users(r)) - 1
  BY <1>2, <1>10, UsersFinite, FS_RemoveElement
<1>13. \A q : InCache(q)' <=> InCache(q)
  BY <1>3, <1>7 DEF InCache, cache
<1>14. TypeOK'
  BY <1>3, <1>6, <1>7 DEF IInv, TypeOK, cache
<1>15. RingInv'
  <2>1. \A p \in Place : data[p] # NONE => routine'[data[p]].for = routine[data[p]].for
    BY <1>5, <1>6 DEF IInv, TypeOK, InCache
  <2> QED
    BY <1>3, <1>7, <2>1 DEF IInv, RingInv, cache
<1>16. CountInv'
  <2> SUFFICES ASSUME NEW q \in Routine
               PROVE  /\ InCache(q) => routine'[q].bindCount = 1 + Cardinality(Users(q)')
                      /\ ~InCache(q) => routine'[q].bindCount = Cardinality(Users(q)')
                      /\ routine'[q].alive <=> routine'[q].bindCount > 0
    BY <1>13 DEF CountInv
  <2>1. CASE q = r
    <3>1. /\ InCache(r) => routine[r].bindCount = 1 + Cardinality(Users(r))
          /\ ~InCache(r) => routine[r].bindCount = Cardinality(Users(r))
      BY DEF IInv, CountInv
    <3>2. routine'[r].alive <=> routine'[r].bindCount > 0
      <4>1. CASE routine[r].bindCount = 1
        BY <1>6, <4>1
      <4>2. CASE routine[r].bindCount > 1
        <5>1. routine'[r].bindCount > 0
          BY <1>5, <1>6, <4>2
        <5> QED
          BY <1>5, <1>6, <4>2, <5>1, Zenon
      <4> QED
        BY <1>5, <4>1, <4>2
    <3> QED
      BY <1>4, <1>6, <1>12, <2>1, <3>1, <3>2
  <2>2. CASE q # r
    BY <1>6, <1>11, <2>2 DEF IInv, CountInv
  <2> QED
    BY <2>1, <2>2
<1>17. UseInv'
  <2>1. ASSUME NEW e \in DrawCall, draw'[e] # NoDraw
        PROVE  draw'[e].runs \in Routine /\ routine'[draw'[e].runs].for = draw'[e].for
    <3>1. e # d /\ draw'[e] = draw[e]
      BY <1>8, <2>1
    <3>2. draw[e].runs \in Routine /\ routine[draw[e].runs].for = draw[e].for
      BY <2>1, <3>1 DEF IInv, UseInv
    <3>3. CASE draw[e].runs = r
      <4>1. e \in Users(r)'
        BY <3>1, <3>3 DEF Users
      <4>2. Cardinality(Users(r)') # 0
        <5>1. IsFiniteSet(Users(r)')
          BY <1>10, UsersFinite, FS_RemoveElement
        <5> QED
          BY <4>1, <5>1, FS_EmptySet
      <4>3. Cardinality(Users(r)) > 1
        BY <1>4, <1>12, <4>2
      <4>4. routine[r].bindCount > 1
        BY <1>4, <4>3 DEF IInv, CountInv
      <4> QED
        BY <1>6, <3>1, <3>2, <3>3, <4>4
    <3>4. CASE draw[e].runs # r
      BY <1>6, <3>1, <3>2, <3>4
    <3> QED
      BY <3>3, <3>4
  <2>2. ASSUME app # Ready
        PROVE  /\ app.pc = "bind" /\ app.runs \in Routine /\ app.for \in State
               /\ InCache(app.runs) /\ routine'[app.runs].for = app.for
    BY <1>5, <1>6, <2>2 DEF IInv, UseInv
  <2>3. app' = app
    BY <1>3
  <2>4. app # Ready => InCache(app.runs)'
    BY <1>3, <1>7, <2>2 DEF InCache, cache
  <2> QED
    BY <2>1, <2>2, <2>3, <2>4 DEF UseInv
<1> QED
  BY <1>14, <1>15, <1>16, <1>17 DEF IInv

\* The cache is replaced while nothing is in flight: it binds the routines in
\* it once each, and nothing else does, so that all of them are freed.
LEMMA ConfigureStep ==
    ASSUME IInv, NEW n \in CacheSize, updateConfiguration(n)
    PROVE  IInv'
<1>1. /\ \A d \in DrawCall : draw[d] = NoDraw
      /\ routine' = UnboundAll
      /\ NewCache(n)
      /\ app' = app /\ draw' = draw
  BY DEF updateConfiguration
<1>2. app = Ready
  BY DEF updateConfiguration, IInv, UseInv
<1>3. size' \in {1, 2, 4, 8}
  BY <1>1, PowerOfTwo DEF NewCache
<1>4. \A p \in Place' : key'[p] = NONE /\ ref'[p] = p /\ data'[p] = NONE
  BY <1>1 DEF NewCache, Place
<1>5. \A r \in Routine : routine'[r] \in Routines /\ routine'[r].bindCount = 0 /\ ~routine'[r].alive
  <2>1. TAKE r \in Routine
  <2>2. routine \in [Routine -> Routines] /\ routine[r] \in Routines /\ routine[r].bindCount \in Nat
    BY DEF IInv, TypeOK, Routines
  <2>3. Users(r) = {}
    BY <1>1 DEF Users, NoDraw
  <2>4. Cardinality(Users(r)) = 0
    BY <2>3, FS_EmptySet
  <2>5. CASE InCache(r)
    <3>1. routine'[r] = Unbound(routine, r)[r]
      BY <1>1, <2>5 DEF UnboundAll, InCache, Place
    <3>2. routine[r].bindCount = 1
      BY <2>4, <2>5 DEF IInv, CountInv
    <3>3. /\ Unbound(routine, r) \in [Routine -> Routines]
          /\ Unbound(routine, r)[r].bindCount = 1 - 1
          /\ ~Unbound(routine, r)[r].alive
      <4>1. routine[r].bindCount > 0
        BY <3>2
      <4>2. /\ Unbound(routine, r) \in [Routine -> Routines]
            /\ Unbound(routine, r)[r].bindCount = routine[r].bindCount - 1
            /\ routine[r].bindCount = 1 => ~Unbound(routine, r)[r].alive
        BY <2>2, <4>1, UnboundIs
      <4> QED
        BY <3>2, <4>2
    <3>4. 1 - 1 = 0 /\ Unbound(routine, r)[r] \in Routines
      BY <3>3
    <3> QED
      BY <3>1, <3>3, <3>4
  <2>6. CASE ~InCache(r)
    <3>1. routine'[r] = routine[r]
      BY <1>1, <2>6 DEF UnboundAll, InCache, Place
    <3>2. routine[r].bindCount = 0 /\ ~routine[r].alive
      BY <2>4, <2>6 DEF IInv, CountInv
    <3> QED
      BY <2>2, <3>1, <3>2
  <2> QED
    BY <2>5, <2>6
<1>6. TypeOK'
  <2>1. routine' \in [Routine -> Routines]
    BY <1>1, <1>5 DEF UnboundAll
  <2>2. /\ key' \in [Place' -> State \cup {NONE}]
        /\ ref' \in [Place' -> Place']
        /\ data' \in [Place' -> Routine \cup {NONE}]
    BY <1>1 DEF NewCache, Place
  <2>3. top' \in Int /\ fill' \in Int
    BY <1>1 DEF NewCache
  <2> QED
    BY <1>1, <1>3, <2>1, <2>2, <2>3 DEF IInv, TypeOK
<1>7. RingInv'
  BY <1>4 DEF RingInv
<1>8. CountInv'
  <2> SUFFICES ASSUME NEW r \in Routine
               PROVE  /\ ~InCache(r)' /\ routine'[r].bindCount = Cardinality(Users(r)')
                      /\ routine'[r].alive <=> routine'[r].bindCount > 0
    BY DEF CountInv
  <2>1. ~InCache(r)'
    BY <1>4 DEF InCache
  <2>2. Users(r)' = {}
    BY <1>1 DEF Users, NoDraw
  <2> QED
    BY <1>5, <2>1, <2>2, FS_EmptySet
<1>9. UseInv'
  BY <1>1, <1>2 DEF UseInv
<1> QED
  BY <1>6, <1>7, <1>8, <1>9 DEF IInv

LEMMA Step ==
    ASSUME Instancing = FALSE, IInv, [Next]_vars
    PROVE  IInv'
<1>1. CASE UNCHANGED vars
  <2>1. UNCHANGED <<size, top, fill, key, ref, data, routine, app, draw>>
    BY <1>1 DEF vars, cache
  <2>2. Place' = Place /\ \A r : Users(r)' = Users(r) /\ InCache(r)' = InCache(r)
    BY <2>1 DEF Place, Users, InCache
  <2>3. TypeOK'
    BY <2>1, <2>2 DEF IInv, TypeOK
  <2>4. RingInv'
    BY <2>1, <2>2 DEF IInv, RingInv
  <2>5. CountInv'
    BY <2>1, <2>2 DEF IInv, CountInv
  <2>6. UseInv'
    BY <2>1, <2>2 DEF IInv, UseInv
  <2> QED
    BY <2>3, <2>4, <2>5, <2>6 DEF IInv
<1>2. CASE \E n \in CacheSize : updateConfiguration(n)
  BY <1>2, ConfigureStep
<1>3. ASSUME NEW s \in State, lookUp(s)
      PROVE  IInv'
  <2>1. QueryMiss(s) \/ \E i \in Searched : QueryHit(s, i)
    BY <1>3 DEF lookUp
  <2> QED
    BY <2>1, MissStep, HitStep
<1>4. CASE \E d \in DrawCall : submit(d) \/ retire(d)
  BY <1>4, SubmitStep, RetireStep
<1> QED
  BY <1>1, <1>2, <1>3, <1>4 DEF Next

LEMMA Invariance == ASSUME Instancing = FALSE PROVE Spec => []IInv
<1>1. IInv /\ [Next]_vars => IInv'
  BY Step
<1> QED
  BY Initially, <1>1, PTL DEF Spec

(* What a draw call in flight runs, and what is about to be submitted, was  *)
(* generated for its state and is not freed (LRUCache::query() and add(),   *)
(* Routine::bind() and unbind()).                                           *)
THEOREM RunsItsRoutine ==
    ASSUME Instancing = FALSE
    PROVE  Spec => []DrawRunsItsRoutine
<1>1. ASSUME IInv PROVE DrawRunsItsRoutine
  <2> SUFFICES ASSUME NEW use \in {draw[d] : d \in DrawCall} \cup {app}, use.runs # NONE
               PROVE  routine[use.runs].alive /\ routine[use.runs].for = use.for
    BY DEF DrawRunsItsRoutine
  <2>1. CASE use = app
    <3>1. app # Ready
      BY <2>1 DEF Ready
    <3>2. app.runs \in Routine /\ InCache(app.runs) /\ routine[app.runs].for = app.for
      BY <1>1, <3>1 DEF IInv, UseInv
    <3>3. routine[app.runs].alive
      BY <1>1, <3>2, Unbinding DEF IInv
    <3> QED
      BY <2>1, <3>2, <3>3
  <2>2. CASE \E d \in DrawCall : use = draw[d]
    <3>1. PICK d \in DrawCall : use = draw[d]
      BY <2>2
    <3>2. draw[d] # NoDraw
      BY <3>1 DEF NoDraw
    <3>3. draw[d].runs \in Routine /\ routine[draw[d].runs].for = draw[d].for
      BY <1>1, <3>2 DEF IInv, UseInv
    <3>4. Users(draw[d].runs) # {}
      BY DEF Users
    <3>5. routine[draw[d].runs].alive
      BY <1>1, <3>3, <3>4, Unbinding DEF IInv
    <3> QED
      BY <3>1, <3>3, <3>5
  <2> QED
    BY <2>1, <2>2
<1> QED
  BY Invariance, <1>1, PTL

(* A routine is bound once for its place in the cache and once for each     *)
(* draw call in flight, and is freed when the last of them is done with it. *)
THEOREM BoundByUsers ==
    ASSUME Instancing = FALSE
    PROVE  Spec => []BindingsExact
<1>1. ASSUME IInv PROVE BindingsExact
  <2> SUFFICES ASSUME NEW r \in Routine
               PROVE  LET bindings == Cardinality({i \in 0 .. size - 1 : data[i] = r})
                                        + Cardinality(Users(r))
                      IN  /\ routine[r].bindCount = bindings
                          /\ routine[r].alive <=> bindings > 0
    BY DEF BindingsExact, Users
  <2> DEFINE at == {i \in 0 .. size - 1 : data[i] = r}
  <2>1. r # NONE
    OBVIOUS
  <2>2. CASE InCache(r)
    <3>1. PICK p \in Place : at = {p}
      BY <1>1, <2>1, <2>2 DEF IInv, RingInv, InCache, Place
    <3>2. Cardinality(at) = 1
      BY <3>1, FS_Singleton
    <3> QED
      BY <1>1, <2>2, <3>2 DEF IInv, CountInv
  <2>3. CASE ~InCache(r)
    <3>1. at = {}
      BY <2>3 DEF InCache, Place
    <3>2. Cardinality(at) = 0
      BY <3>1, FS_EmptySet
    <3>3. Cardinality(Users(r)) \in Nat
      BY UsersFinite
    <3> QED
      BY <1>1, <2>3, <3>2, <3>3 DEF IInv, CountInv
  <2> QED
    BY <2>2, <2>3
<1> QED
  BY Invariance, <1>1, PTL
-----------------------------------------------------------------------------
(* The refinement: what the ring lists, from the top down.  It depends on   *)
(* the places only, and so it holds with "update" FALSE too.                *)

Listable ==
    /\ size \in {1, 2, 4, 8}
    /\ top \in Int /\ fill \in 0 .. size
    /\ key \in [Place -> State \cup {NONE}]
    /\ ref \in [Place -> Place]
    /\ \A p, q \in Place : ref[p] = ref[q] => p = q

\* Places less than the size of the ring apart are different ones.
LEMMA MaskApart ==
    ASSUME size \in {1, 2, 4, 8}, NEW i \in Int, NEW j \in Int, i < j, j < i + size
    PROVE  Mask(i) # Mask(j)
<1>1. CASE size = 1
  BY <1>1 DEF Mask
<1>2. CASE size = 2
  BY <1>2 DEF Mask
<1>3. CASE size = 4
  BY <1>3 DEF Mask
<1>4. CASE size = 8
  BY <1>4 DEF Mask
<1> QED
  BY <1>1, <1>2, <1>3, <1>4

\* add() leaves "top" masked: the places below it are the same ones.
LEMMA MaskedTop ==
    ASSUME size \in {1, 2, 4, 8}, NEW i \in Int, NEW k \in Int
    PROVE  Mask(Mask(i) - k) = Mask(i - k)
<1>1. CASE size = 1
  BY <1>1 DEF Mask
<1>2. CASE size = 2
  BY <1>2 DEF Mask
<1>3. CASE size = 4
  BY <1>3 DEF Mask
<1>4. CASE size = 8
  BY <1>4 DEF Mask
<1> QED
  BY <1>1, <1>2, <1>3, <1>4

LEMMA ListedIs ==
    ASSUME Listable
    PROVE  /\ Listed \in Seq(State \cup {NONE})
           /\ Len(Listed) = fill
           /\ \A n \in 1 .. fill : Listed[n] = key[ref[Mask(top - n + 1)]]
<1>1. fill \in Nat /\ top \in Int
  BY DEF Listable
<1>2. \A n \in 1 .. fill : Mask(top - n + 1) \in Place
  BY <1>1, Masked DEF Listable
<1>3. \A n \in 1 .. fill : KeyAt(top - n + 1) \in State \cup {NONE}
  BY <1>2 DEF KeyAt, Listable
<1>4. Listed \in [1 .. fill -> State \cup {NONE}]
  BY <1>3 DEF Listed
<1>5. Listed \in Seq(State \cup {NONE})
  BY <1>1, <1>4, SeqDef
<1>6. Len(Listed) = fill
  <2>1. DOMAIN Listed = 1 .. fill
    BY <1>4
  <2>2. Len(Listed) \in Nat /\ DOMAIN Listed = 1 .. Len(Listed)
    BY <1>5, LenProperties
  <2> QED
    BY <1>1, <2>1, <2>2
<1> QED
  BY <1>5, <1>6 DEF Listed, KeyAt

\* What add() makes of a list, entry by entry.
LEMMA Pushing ==
    ASSUME NEW S, NEW s \in S, NEW old \in Seq(S), NEW new \in Seq(S),
           NEW limit \in Nat \ {0}, Len(old) <= limit,
           Len(new) = IF Len(old) < limit THEN Len(old) + 1 ELSE limit,
           new[1] = s, \A n \in 2 .. Len(new) : new[n] = old[n - 1]
    PROVE  new = <<s>> \o (IF Len(old) < limit THEN old ELSE Abstract!Front(old))
<1>1. Len(old) \in Nat /\ \A n \in 1 .. Len(old) : old[n] \in S
  BY LenProperties, ElementOfSeq
<1>2. PICK rest : rest = IF Len(old) < limit THEN old ELSE Abstract!Front(old)
  OBVIOUS
<1>3. /\ rest \in Seq(S) /\ Len(rest) = Len(new) - 1
      /\ \A n \in 1 .. Len(rest) : rest[n] = old[n]
  <2>1. CASE Len(old) < limit
    BY <1>1, <1>2, <2>1
  <2>2. CASE ~(Len(old) < limit)
    <3>1. Len(old) = limit
      BY <1>1, <2>2
    <3>2. rest = SubSeq(old, 1, limit - 1)
      BY <1>2, <2>2, <3>1 DEF Abstract!Front
    <3>3. /\ SubSeq(old, 1, limit - 1) \in Seq(S)
          /\ Len(SubSeq(old, 1, limit - 1)) = IF 1 <= limit - 1 THEN (limit - 1) - 1 + 1 ELSE 0
          /\ \A i \in 1 .. (limit - 1) - 1 + 1 : SubSeq(old, 1, limit - 1)[i] = old[1 + i - 1]
      <4>1. \A i \in 1 .. limit - 1 : old[i] \in S
        BY <1>1, <3>1
      <4> QED
        BY <4>1, SubSeqProperties
    <3>4. Len(rest) = limit - 1 /\ Len(new) = limit
      BY <2>2, <3>2, <3>3
    <3> QED
      BY <3>2, <3>3, <3>4
  <2> QED
    BY <2>1, <2>2
<1>4. <<s>> \in Seq(S) /\ Len(<<s>>) = 1 /\ <<s>>[1] = s
  OBVIOUS
<1>5. /\ <<s>> \o rest \in Seq(S)
      /\ Len(<<s>> \o rest) = 1 + Len(rest)
      /\ \A n \in 1 .. 1 + Len(rest) :
            (<<s>> \o rest)[n] = IF n <= 1 THEN <<s>>[n] ELSE rest[n - 1]
  BY <1>3, <1>4, ConcatProperties
<1>6. Len(new) \in Nat /\ Len(rest) \in Nat
  BY <1>3, LenProperties
<1>7. Len(<<s>> \o rest) = Len(new)
  BY <1>3, <1>5, <1>6
<1>8. \A n \in 1 .. Len(new) : new[n] = (<<s>> \o rest)[n]
  <2> SUFFICES ASSUME NEW n \in 1 .. Len(new) PROVE new[n] = (<<s>> \o rest)[n]
    OBVIOUS
  <2>1. CASE n = 1
    BY <1>3, <1>4, <1>5, <1>6, <2>1
  <2>2. CASE n # 1
    <3>1. n \in 2 .. Len(new) /\ n - 1 \in 1 .. Len(rest) /\ n \in 1 .. 1 + Len(rest) /\ ~(n <= 1)
      BY <1>3, <1>6, <2>2
    <3>2. new[n] = old[n - 1] /\ rest[n - 1] = old[n - 1]
      BY <1>3, <3>1
    <3> QED
      BY <1>5, <3>1, <3>2
  <2> QED
    BY <2>1, <2>2
<1>9. new = <<s>> \o rest
  BY <1>5, <1>7, <1>8, SeqEqual
<1> QED
  BY <1>2, <1>9

LEMMA ListableInitially == Init => Listable /\ Abstract!RSInit
<1> SUFFICES ASSUME Init PROVE Listable /\ Abstract!RSInit
  OBVIOUS
<1>1. PICK n \in CacheSize :
        /\ size = ceilPow2(n)
        /\ key = [i \in 0 .. ceilPow2(n) - 1 |-> NONE]
        /\ ref = [i \in 0 .. ceilPow2(n) - 1 |-> i]
  BY DEF Init
<1>2. size \in {1, 2, 4, 8} /\ top = 0 /\ fill = 0
  BY <1>1, PowerOfTwo DEF Init
<1>3. Listable
  BY <1>1, <1>2 DEF Listable, Place
<1>4. Listed = << >>
  <2>1. Listed \in Seq(State \cup {NONE}) /\ Len(Listed) = 0
    BY <1>2, <1>3, ListedIs
  <2> QED
    BY <2>1, EmptySeq
<1>5. size \in {ceilPow2(m) : m \in CacheSize}
  BY <1>1
<1> QED
  BY <1>3, <1>4, <1>5 DEF Abstract!RSInit

LEMMA HitMoves ==
    ASSUME Listable, NEW s \in State, NEW i \in Searched, QueryHit(s, i)
    PROVE  Listable' /\ (UNCHANGED Abstract!RSvars \/ Abstract!RSNext)
<1>1. i \in Int /\ i <= top /\ i >= top - fill + 1 /\ fill \in Nat /\ top \in Int
  BY DEF Searched, Listable
<1>2. UNCHANGED <<size, top, fill, key>> /\ Place' = Place
  BY DEF QueryHit, Place
<1>3. CASE i = top
  <2>1. ref' = ref
    BY <1>3 DEF QueryHit
  <2> QED
    BY <1>2, <2>1 DEF Listable, Listed, KeyAt, Mask, Abstract!RSvars, Place
<1>4. CASE i # top
  <2>1. PICK p \in Place, q \in Place : p = Mask(i) /\ q = Mask(i + 1)
    BY <1>1, Masked DEF Listable
  <2>2. ref' = [ref EXCEPT ![p] = ref[q], ![q] = ref[p]]
    BY <1>4, <2>1 DEF QueryHit, MoveUp
  <2>3. i + 1 <= top /\ i + 1 \in Int
    BY <1>1, <1>4
  <2>4. size \in Nat /\ fill <= size /\ size > 1
    BY <1>1, <2>3 DEF Listable
  <2>5. p # q
    BY <1>1, <2>1, <2>3, <2>4, MaskApart DEF Listable
  <2>6. /\ ref' \in [Place -> Place]
        /\ ref'[p] = ref[q] /\ ref'[q] = ref[p]
        /\ \A x \in Place \ {p, q} : ref'[x] = ref[x]
    BY <2>2, <2>5 DEF Listable
  <2>7. Listable'
    <3>1. \A x, y \in Place : ref'[x] = ref'[y] => x = y
      BY <2>6 DEF Listable
    <3> QED
      BY <1>2, <2>6, <3>1 DEF Listable
  <2>8. PICK n \in 2 .. fill : n = top - i + 1
    BY <1>1, <2>3
  <2>9. Listed' = [Listed EXCEPT ![n] = Listed[n - 1], ![n - 1] = Listed[n]]
    <3>1. \A m \in 1 .. fill : top - m + 1 \in Int /\ Mask(top - m + 1) \in Place
      BY <1>1, Masked DEF Listable
    <3>2. top - n + 1 = i /\ top - (n - 1) + 1 = i + 1
      BY <1>1, <2>8
    <3>3. /\ Listed = [m \in 1 .. fill |-> key[ref[Mask(top - m + 1)]]]
          /\ Listed' = [m \in 1 .. fill |-> key[ref'[Mask(top - m + 1)]]]
      BY <1>2 DEF Listed, KeyAt, Mask
    <3>4. Listed[n] = key[ref[p]] /\ Listed[n - 1] = key[ref[q]]
      <4>1. n \in 1 .. fill /\ n - 1 \in 1 .. fill
        BY <1>1
      <4> QED
        BY <2>1, <3>2, <3>3, <4>1
    <3>5. \A m \in 1 .. fill :
            key[ref'[Mask(top - m + 1)]] = IF m = n - 1 THEN Listed[n]
                                           ELSE IF m = n THEN Listed[n - 1] ELSE Listed[m]
      <4> SUFFICES ASSUME NEW m \in 1 .. fill
                   PROVE  key[ref'[Mask(top - m + 1)]] = IF m = n - 1 THEN Listed[n]
                                           ELSE IF m = n THEN Listed[n - 1] ELSE Listed[m]
        OBVIOUS
      <4>1. CASE m = n - 1
        BY <2>1, <2>6, <3>2, <3>4, <4>1
      <4>2. CASE m = n
        <5>1. m # n - 1
          BY <4>2
        <5> QED
          BY <2>1, <2>6, <3>2, <3>4, <4>2, <5>1
      <4>3. CASE m # n - 1 /\ m # n
        <5>1. PICK j \in Int : j = top - m + 1
          BY <3>1
        <5>2. j # i /\ j # i + 1 /\ j <= top /\ j >= top - fill + 1
          BY <1>1, <2>8, <4>3, <5>1
        <5>3. Mask(j) # p
          <6>1. CASE j < i
            BY <1>1, <2>1, <2>4, <5>2, <6>1, MaskApart DEF Listable
          <6>2. CASE j > i
            BY <1>1, <2>1, <2>4, <5>2, <6>2, MaskApart DEF Listable
          <6> QED
            BY <1>1, <5>2, <6>1, <6>2
        <5>4. Mask(j) # q
          <6>1. CASE j < i + 1
            BY <1>1, <2>1, <2>3, <2>4, <5>2, <6>1, MaskApart DEF Listable
          <6>2. CASE j > i + 1
            BY <1>1, <2>1, <2>3, <2>4, <5>2, <6>2, MaskApart DEF Listable
          <6> QED
            BY <1>1, <5>2, <6>1, <6>2
        <5>5. ref'[Mask(j)] = ref[Mask(j)]
          BY <2>6, <3>1, <5>1, <5>3, <5>4
        <5> QED
          BY <3>3, <4>3, <5>1, <5>5
      <4> QED
        BY <4>1, <4>2, <4>3
    <3>6. [Listed EXCEPT ![n] = Listed[n - 1], ![n - 1] = Listed[n]]
            = [m \in 1 .. fill |-> IF m = n - 1 THEN Listed[n]
                                   ELSE IF m = n THEN Listed[n - 1] ELSE Listed[m]]
      <4>1. DOMAIN Listed = 1 .. fill
        BY <3>3
      <4>2. PICK a : a = Listed[n]
        OBVIOUS
      <4>3. PICK b : b = Listed[n - 1]
        OBVIOUS
      <4>4. n - 1 # n /\ n \in 1 .. fill /\ n - 1 \in 1 .. fill
        BY <1>1
      <4>5. PICK f : f = Listed
        OBVIOUS
      <4>6. f = [m \in DOMAIN f |-> f[m]]
        BY <3>3, <4>5
      <4>7. [f EXCEPT ![n] = b, ![n - 1] = a]
              = [m \in 1 .. fill |-> IF m = n - 1 THEN a ELSE IF m = n THEN b ELSE f[m]]
        BY <4>1, <4>4, <4>5, <4>6
      <4> QED
        BY <4>2, <4>3, <4>5, <4>7
    <3> QED
      BY <3>3, <3>5, <3>6
  <2>10. n \in 2 .. Len(Listed)
    BY ListedIs
  <2>11. Abstract!Found(n)
    BY <1>2, <2>9, <2>10 DEF Abstract!Found
  <2> QED
    BY <2>7, <2>10, <2>11 DEF Abstract!RSNext
<1> QED
  BY <1>3, <1>4

LEMMA MissInserts ==
    ASSUME Listable, NEW s \in State, QueryMiss(s)
    PROVE  Listable' /\ Abstract!RSNext
<1>1. PICK r \in Routine : Add(s, r)
  BY DEF QueryMiss
<1>2. PICK new \in Place : new = Mask(top + 1)
  BY Masked DEF Listable
<1>3. /\ top' = new
      /\ fill' = IF fill + 1 < size THEN fill + 1 ELSE size
      /\ key' = [key EXCEPT ![ref[new]] = s]
      /\ UNCHANGED <<size, ref>> /\ Place' = Place
  BY <1>1, <1>2 DEF Add, Place
<1>4. /\ size \in Nat /\ size > 0 /\ fill \in Nat /\ fill <= size /\ top \in Int
      /\ ref[new] \in Place /\ new \in Int
  BY DEF Listable, Place
<1>5. fill' \in 0 .. size /\ fill' = IF fill < size THEN fill + 1 ELSE size
  BY <1>3, <1>4
<1>6. /\ key' \in [Place -> State \cup {NONE}] /\ key'[ref[new]] = s
      /\ \A x \in Place \ {ref[new]} : key'[x] = key[x]
  BY <1>3, <1>4 DEF Listable
<1>7. Listable'
  BY <1>3, <1>4, <1>5, <1>6 DEF Listable
<1>8. /\ Listed \in Seq(State \cup {NONE}) /\ Len(Listed) = fill
      /\ \A n \in 1 .. fill : Listed[n] = key[ref[Mask(top - n + 1)]]
  BY ListedIs
<1>9. Listed' = [n \in 1 .. fill' |-> key'[ref[Mask(new - n + 1)]]]
  BY <1>3 DEF Listed, KeyAt, Mask
<1>10. \A n \in 1 .. fill' :
        /\ Mask(new - n + 1) = Mask(top + 1 - (n - 1))
        /\ Mask(new - n + 1) \in Place
  <2> SUFFICES ASSUME NEW n \in 1 .. fill'
               PROVE  /\ Mask(new - n + 1) = Mask(top + 1 - (n - 1))
                      /\ Mask(new - n + 1) \in Place
    OBVIOUS
  <2>1. n - 1 \in Int /\ top + 1 \in Int /\ new - (n - 1) = new - n + 1 /\ new - n + 1 \in Int
    BY <1>4, <1>5
  <2>2. Mask(new - (n - 1)) = Mask(top + 1 - (n - 1))
    BY <1>2, <2>1, MaskedTop DEF Listable
  <2> QED
    BY <2>1, <2>2, Masked DEF Listable
<1>11. /\ Listed' \in Seq(State \cup {NONE}) /\ Len(Listed') = fill'
  <2>1. fill' \in Nat
    BY <1>4, <1>5
  <2>2. Listed' \in [1 .. fill' -> State \cup {NONE}]
    BY <1>6, <1>9, <1>10 DEF Listable
  <2>3. Listed' \in Seq(State \cup {NONE})
    BY <2>1, <2>2, SeqDef
  <2>4. Len(Listed') \in Nat /\ DOMAIN (Listed') = 1 .. Len(Listed')
    BY <2>3, LenProperties
  <2>5. DOMAIN (Listed') = 1 .. fill'
    BY <2>2
  <2> QED
    BY <2>1, <2>3, <2>4, <2>5
<1>12. Listed'[1] = s
  <2>1. 1 \in 1 .. fill'
    BY <1>4, <1>5
  <2>2. new - 1 + 1 = new /\ top + 1 - (1 - 1) = top + 1
    BY <1>4
  <2>3. Mask(new - 1 + 1) = new
    BY <1>2, <1>10, <2>1, <2>2
  <2> QED
    BY <1>6, <1>9, <2>1, <2>3
<1>13. \A n \in 2 .. fill' : Listed'[n] = Listed[n - 1]
  <2> SUFFICES ASSUME NEW n \in 2 .. fill' PROVE Listed'[n] = Listed[n - 1]
    OBVIOUS
  <2>1. n \in 1 .. fill' /\ n - 1 \in 1 .. fill /\ n - 1 < size
    BY <1>4, <1>5
  <2>2. PICK j \in Int : j = top - (n - 1) + 1
    BY <1>4
  <2>3. j = top + 1 - (n - 1) /\ j < top + 1 /\ top + 1 < j + size /\ top + 1 \in Int
    BY <1>4, <2>1, <2>2
  <2>4. Mask(j) # new
    BY <1>2, <2>3, MaskApart DEF Listable
  <2>5. Mask(j) \in Place
    BY Masked DEF Listable
  <2>6. ref[Mask(j)] \in Place \ {ref[new]}
    BY <2>4, <2>5 DEF Listable
  <2>7. Listed'[n] = key'[ref[Mask(j)]]
    BY <1>9, <1>10, <2>1, <2>3
  <2>8. Listed[n - 1] = key[ref[Mask(j)]]
    BY <1>8, <2>1, <2>2
  <2> QED
    BY <1>6, <2>6, <2>7, <2>8
<1>14. Listed' = <<s>> \o (IF Len(Listed) < size THEN Listed ELSE Abstract!Front(Listed))
  <2> DEFINE old == Listed
  <2> DEFINE now == Listed'
  <2> DEFINE S == State \cup {NONE}
  <2>1. /\ s \in S /\ old \in Seq(S) /\ now \in Seq(S) /\ size \in Nat \ {0}
        /\ Len(old) <= size
        /\ Len(now) = IF Len(old) < size THEN Len(old) + 1 ELSE size
        /\ now[1] = s
        /\ \A n \in 2 .. Len(now) : now[n] = old[n - 1]
    BY <1>4, <1>5, <1>8, <1>11, <1>12, <1>13
  <2> HIDE DEF old, now, S
  <2>2. now = <<s>> \o (IF Len(old) < size THEN old ELSE Abstract!Front(old))
    BY <2>1, Pushing
  <2> QED
    BY <2>2 DEF old, now
<1>15. ~Abstract!Contains(Listed, s)
  <2> SUFFICES ASSUME NEW n \in 1 .. fill, Listed[n] = s PROVE FALSE
    BY <1>8 DEF Abstract!Contains
  <2>1. top - n + 1 \in Searched
    BY <1>4 DEF Searched
  <2>2. KeyAt(top - n + 1) = s
    BY <1>8 DEF KeyAt
  <2> QED
    BY <2>1, <2>2 DEF QueryMiss, Hits
<1>16. Abstract!Inserted(s)
  BY <1>3, <1>14, <1>15 DEF Abstract!Inserted
<1> QED
  BY <1>7, <1>16 DEF Abstract!RSNext

LEMMA ConfigureReplaces ==
    ASSUME Listable, NEW n \in CacheSize, updateConfiguration(n)
    PROVE  Listable' /\ Abstract!RSNext
<1>1. /\ size' = ceilPow2(n) /\ top' = 0 /\ fill' = 0
      /\ key' = [i \in 0 .. size' - 1 |-> NONE]
      /\ ref' = [i \in 0 .. size' - 1 |-> i]
  BY DEF updateConfiguration, NewCache
<1>2. size' \in {1, 2, 4, 8}
  BY <1>1, PowerOfTwo
<1>3. Listable'
  BY <1>1, <1>2 DEF Listable, Place
<1>4. Listed' = << >>
  <2>1. Listed' \in [1 .. 0 -> State]
    BY <1>1 DEF Listed
  <2>2. Listed' \in Seq(State) /\ DOMAIN (Listed') = {}
    BY <2>1, SeqDef
  <2>3. Len(Listed') \in Nat /\ 1 .. Len(Listed') = {}
    BY <2>2, LenProperties
  <2>4. Len(Listed') = 0
    <3>1. PICK l \in Nat : l = Len(Listed')
      BY <2>3
    <3>2. l > 0 => 1 \in 1 .. l
      OBVIOUS
    <3> QED
      BY <2>3, <3>1, <3>2
  <2> QED
    BY <2>2, <2>4, EmptySeq
<1>5. size' \in {ceilPow2(m) : m \in CacheSize}
  BY <1>1
<1> QED
  BY <1>3, <1>4, <1>5 DEF Abstract!Replaced, Abstract!RSNext

(* The ring with its permuted keys is, step by step, the list of distinct   *)
(* states of RecentStates: a hit moves an entry up by one place, a miss     *)
(* puts the new one first and drops the last of a full list, also when the  *)
(* ring wraps around (LRUCache::query() and add()).                         *)
THEOREM KeepsRecentStates == Spec => ImplementsRecentStates
<1>1. Init => Listable /\ Abstract!RSInit
  BY ListableInitially
<1>2. Listable /\ [Next]_vars => Listable' /\ [Abstract!RSNext]_(Abstract!RSvars)
  <2> SUFFICES ASSUME Listable, [Next]_vars
               PROVE  Listable' /\ (Abstract!RSNext \/ UNCHANGED Abstract!RSvars)
    OBVIOUS
  <2>1. ASSUME UNCHANGED cache
        PROVE  Listable' /\ UNCHANGED Abstract!RSvars
    <3>1. UNCHANGED <<size, top, fill, key, ref>>
      BY <2>1 DEF cache
    <3> QED
      BY <3>1 DEF Listable, Place, Listed, KeyAt, Mask, Abstract!RSvars
  <2>2. CASE UNCHANGED vars
    BY <2>1, <2>2 DEF vars
  <2>3. ASSUME NEW n \in CacheSize, updateConfiguration(n)
        PROVE  Listable' /\ Abstract!RSNext
    BY <2>3, ConfigureReplaces
  <2>4. ASSUME NEW s \in State, lookUp(s)
        PROVE  Listable' /\ (Abstract!RSNext \/ UNCHANGED Abstract!RSvars)
    <3>1. CASE QueryMiss(s)
      BY <3>1, MissInserts
    <3>2. ASSUME NEW i \in Searched, QueryHit(s, i)
          PROVE  Listable' /\ (Abstract!RSNext \/ UNCHANGED Abstract!RSvars)
      BY <3>2, HitMoves
    <3>3. CASE LookUpNothing(s)
      BY <2>1, <3>3 DEF LookUpNothing
    <3> QED
      BY <2>4, <3>1, <3>2, <3>3 DEF lookUp
  <2>5. ASSUME NEW d \in DrawCall, submit(d) \/ retire(d)
        PROVE  Listable' /\ UNCHANGED Abstract!RSvars
    <3>1. UNCHANGED cache
      BY <2>5 DEF submit, retire
    <3> QED
      BY <2>1, <3>1
  <2> QED
    BY <2>2, <2>3, <2>4, <2>5 DEF Next
<1> QED
  BY <1>1, <1>2, PTL DEF Spec, ImplementsRecentStates, Abstract!RSSpec
=============================================================================
