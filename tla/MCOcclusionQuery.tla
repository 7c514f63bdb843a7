-------------------------- MODULE MCOcclusionQuery --------------------------
(* The instance of OcclusionQuery for TLC is given by the cfg file alone.   *)
EXTENDS OcclusionQuery
=============================================================================
