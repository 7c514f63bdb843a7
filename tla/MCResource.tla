----------------------------- MODULE MCResource -----------------------------
(* The instance of Resource for TLC is all in MCResource.cfg.               *)
EXTENDS Resource
=============================================================================
