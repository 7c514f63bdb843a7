--------------------------- MODULE MCRoutineCache ---------------------------
(* An instance of RoutineCache for TLC.  States and DrawCall objects are     *)
(* interchangeable.  Keys are reached only through "ref", a permutation, so  *)
(* that states with the same key in each place behave alike.                 *)
EXTENDS RoutineCache, TLC

SevenRoutines == 1 .. 7
Symmetric == Permutations(State) \cup Permutations(DrawCall)
Places == <<size, top, fill, [i \in DOMAIN ref |-> key[ref[i]]], data, routine, app, draw>>
=============================================================================
