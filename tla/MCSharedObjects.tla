--------------------------- MODULE MCSharedObjects ---------------------------
(* Instances of SharedObjects for TLC.  Contexts are interchangeable.       *)
EXTENDS SharedObjects, TLC

Symmetry == Permutations(Context)
=============================================================================
