--------------------------- MODULE MCBufferObject ---------------------------
(* Instances of BufferObject for TLC.                                       *)
EXTENDS BufferObject
=============================================================================
