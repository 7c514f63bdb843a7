------------------------- MODULE MCStreamingBuffers -------------------------
(* An instance of StreamingBuffers for TLC.                                 *)
EXTENDS StreamingBuffers

Attributes == 1 .. 2
Resources == 1 .. 5
SourcesOf == {<<2, 2>>, <<2, 0>>}
DrawCalls == 1 .. 2
=============================================================================
