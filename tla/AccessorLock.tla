---------------------------- MODULE AccessorLock ----------------------------
(***************************************************************************)
(* What the lock of a sw::Resource promises its clients                    *)
(* (src/src/Common/Resource.hpp): claims of one accessor class may be held *)
(* together, claims of two classes never, and a resource handed to         *)
(* destruct() is deleted once, when its last claim is gone.                *)
(***************************************************************************)
EXTENDS Naturals

CONSTANT Accessor

VARIABLES
    claims,   \* claims[a]: the claims of accessor class a now granted
    status    \* "live", "orphaned" (destruct() was called) or "deleted"

vars == <<claims, status>>

NoClaims == [a \in Accessor |-> 0]

Init ==
    /\ claims = NoClaims
    /\ status = "live"

\* Class c may be granted a claim when no other class has one.
Free(c) == \A a \in Accessor \ {c} : claims[a] = 0

Grant(c) ==
    /\ status # "deleted"
    /\ Free(c)
    /\ claims' = [claims EXCEPT ![c] = @ + 1]
    /\ UNCHANGED status

Release(a) ==
    /\ claims[a] > 0
    /\ claims' = [claims EXCEPT ![a] = @ - 1]
    /\ UNCHANGED status

\* All claims of one class are given up together.
ReleaseAll(a) ==
    /\ claims[a] > 0
    /\ claims' = [claims EXCEPT ![a] = 0]
    /\ UNCHANGED status

\* The claims of class r are given up for one claim of class c, with no
\* moment in between at which another class could get in.
Convert(r, c) ==
    /\ status # "deleted"
    /\ claims[r] > 0
    /\ claims' = [NoClaims EXCEPT ![c] = 1]
    /\ UNCHANGED status

Destruct ==
    /\ status = "live"
    /\ status' = "orphaned"
    /\ UNCHANGED claims

\* A resource is deleted only when nobody has a claim on it.
Delete ==
    /\ status = "orphaned"
    /\ claims = NoClaims
    /\ status' = "deleted"
    /\ UNCHANGED claims

Next ==
    \/ \E a \in Accessor : Grant(a) \/ Release(a) \/ ReleaseAll(a)
    \/ \E r, c \in Accessor : Convert(r, c)
    \/ Destruct
    \/ Delete

Spec == Init /\ [][Next]_vars
=============================================================================
