------------------------- MODULE MCPrimitiveBatches -------------------------
(* An instance of PrimitiveBatches for TLC.                                 *)
EXTENDS PrimitiveBatches

List(drawType, elements, batchSize) ==
    [drawType |-> drawType, elements |-> elements, batchSize |-> batchSize,
     indices |-> <<>>, texldl |-> FALSE]

(* Indices in steps of five through eight vertices: a cache holds four.     *)
Indexed(drawType, elements, batchSize, texldl) ==
    [List(drawType, elements, batchSize) EXCEPT
        !.indices = [k \in 1..elements |-> (5 * k) % 8],
        !.texldl = texldl]

MCDrawCalls ==
    {List("POINTLIST", 3, 2), List("LINELIST", 7, 2), List("LINESTRIP", 4, 2),
     List("LINELOOP", 3, 2), List("TRIANGLELIST", 6, 1),
     List("TRIANGLESTRIP", 6, 3), List("TRIANGLEFAN", 5, 2),
     List("QUADLIST", 8, 2),
     Indexed("POINTLIST", 3, 2, FALSE), Indexed("LINESTRIP", 5, 3, TRUE),
     Indexed("LINELOOP", 3, 2, FALSE), Indexed("TRIANGLELIST", 6, 1, TRUE),
     Indexed("TRIANGLESTRIP", 6, 3, FALSE), Indexed("TRIANGLEFAN", 5, 2, FALSE)}
=============================================================================
