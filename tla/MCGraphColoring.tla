--------------------------- MODULE MCGraphColoring ---------------------------
(* Small levels of the hierarchy for GraphColoring and LevelColoring. *)
EXTENDS LevelColoring

(* A path 0 - 1 - 2 - 3, and 4, which has a link to 2; 2 lies in two fans  *)
(* of faces, and its list has only those of the other one.  The path needs *)
(* two colours or three, depending on the order.                           *)
PathVertices == 0 .. 4
PathAdj == [v \in PathVertices |->
    CASE v = 0 -> {1} [] v = 1 -> {0, 2} [] v = 2 -> {1, 3} [] v = 3 -> {2} [] v = 4 -> {2}]

(* A face (4, 4, 2) makes the list of 4 read 4, 2, 4. *)
PathDoubles == {[v \in PathVertices |-> {}], [v \in PathVertices |-> {v} \cap {4}]}

(* Two triangles that share an edge. *)
DiamondVertices == 0 .. 3
DiamondAdj == [v \in DiamondVertices |->
    CASE v = 0 -> {1, 2} [] v = 1 -> {0, 2, 3} [] v = 2 -> {0, 1, 3} [] v = 3 -> {1, 2}]

DiamondDoubles == {[v \in DiamondVertices |-> {}]}
=============================================================================
