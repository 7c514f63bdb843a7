--------------------------- MODULE ResourceClaims ---------------------------
(***************************************************************************)
(* What a call of sw::Resource (src/src/Common/Resource.cpp) does to the   *)
(* resource, as a value: for modules in which many resources are used by   *)
(* one application thread and by draw calls in flight.  Resource.tla has   *)
(* the lock itself, with its waiting threads.                              *)
(***************************************************************************)
EXTENDS Integers

\* A resource: the class and the number of its claims, whether destruct() was
\* called, whether it was deleted.
NewResource == [accessor |-> "PUBLIC", count |-> 0, orphaned |-> FALSE,
                freed |-> FALSE]

UnlockedButOne(r) ==                \* mutated: if(count > 1) count--
    [r EXCEPT !.count = IF @ > 1 THEN @ - 1 ELSE @]

\* unlock()
Unlocked(r) == [r EXCEPT !.count = @ - 1, !.freed = r.count = 1 /\ r.orphaned]

\* destruct()
Destructed(r) == IF r.count = 0 THEN [r EXCEPT !.freed = TRUE]
                                ELSE [r EXCEPT !.orphaned = TRUE]

\* lock(claimer) does not have to wait, and what it does then
Grants(r, claimer) == r.count = 0 \/ r.accessor = claimer
Locked(r, claimer) == [r EXCEPT !.count = @ + 1, !.accessor = claimer]

\* lock(relinquisher, claimer): claims of class relinquisher are given up first
Relinquished(r, relinquisher) ==
    IF r.count > 0 /\ r.accessor = relinquisher THEN [r EXCEPT !.count = 0] ELSE r
=============================================================================
