-------------------------- MODULE MCMeshPreparation --------------------------
(* Small meshes and clouds for DirectedEdge and MeshPreparation. *)
EXTENDS MeshPreparation

Triangle(a, b, c) == Sub!Triangle(a, b, c)

(* Two faces back to back: every vertex is surrounded. *)
Pillow == (0 :> Triangle(0, 1, 2)) @@ (1 :> Triangle(0, 2, 1))

(* An open fan around vertex 0. *)
Fan == (0 :> Triangle(0, 1, 2)) @@ (1 :> Triangle(2, 3, 0)) @@ (2 :> Triangle(4, 0, 3))

(* Three faces at one edge: 0 -> 1 twice, 1 -> 0 once. *)
Book == (0 :> Triangle(0, 1, 2)) @@ (1 :> Triangle(1, 0, 3)) @@ (2 :> Triangle(0, 1, 4))

(* Two faces that traverse their common edge in the same direction. *)
Unoriented == (0 :> Triangle(0, 1, 2)) @@ (1 :> Triangle(0, 1, 3))

(* Two faces that share only a vertex. *)
Bowtie == (0 :> Triangle(0, 1, 2)) @@ (1 :> Triangle(3, 4, 0))

(* The two sides of a triangle, one side twice: an edge of the other side  *)
(* is linked to two edges, in either order.                                *)
Doubled == (0 :> Triangle(0, 1, 2)) @@ (1 :> Triangle(0, 1, 2)) @@ (2 :> Triangle(2, 1, 0))

(* A face with two equal corners. *)
Collapsed == (0 :> Triangle(0, 0, 1)) @@ (1 :> Triangle(1, 0, 2))

(* A face with a vertex that does not exist. *)
BadReference == (0 :> Triangle(0, 1, 2)) @@ (1 :> Triangle(1, 0, 5))

SmallMeshes == {Fan, Book, Unoriented, Bowtie, Doubled, Collapsed, BadReference, Pillow}

(* The three faces at one edge, and one more at a side of one of them.     *)
Flap == Book @@ (3 :> Triangle(2, 1, 5))

(* A square of four faces around vertex 4. *)
Square == (0 :> Triangle(0, 1, 4)) @@ (1 :> Triangle(1, 2, 4))
            @@ (2 :> Triangle(2, 3, 4)) @@ (3 :> Triangle(3, 0, 4))

(* A closed surface. *)
Tetrahedron == (0 :> Triangle(0, 1, 2)) @@ (1 :> Triangle(0, 3, 1))
                @@ (2 :> Triangle(1, 3, 2)) @@ (3 :> Triangle(2, 3, 0))

(* A face with two equal corners, alone: its vertex is linked with itself. *)
Sliver == (0 :> Triangle(0, 0, 1))

MoreMeshes == {Flap, Square, Tetrahedron, Sliver}
AllMeshes == SmallMeshes \cup MoreMeshes \cup {<< >>}

Vertex(k) == CASE k = 0 -> <<0, 0>> [] k = 1 -> <<80, 0>> [] k = 2 -> <<64, 64>>
               [] k = 3 -> <<-32, 80>> [] k = 4 -> <<-96, 0>> [] k = 5 -> <<160, 48>>
Counts == [m \in AllMeshes |->
    CASE m = << >> -> 1 [] m = Sliver -> 2 [] m = Pillow -> 3 [] m \in {Unoriented, Collapsed, Tetrahedron} -> 4
      [] m = Flap -> 6 [] OTHER -> 5]
Positions == [m \in AllMeshes |-> [v \in 0 .. Counts[m] - 1 |->
                IF m = Square /\ v = 4 THEN <<32, 32>> ELSE Vertex(v)]]
ThreadsOf == [m \in AllMeshes |-> IF m \in SmallMeshes THEN Cardinality(Workers) ELSE 1]

(* One point among the neighbors of all; two pairs; a chain with a point   *)
(* apart.                                                                  *)
Star == (0 :> {0, 1}) @@ (1 :> {0, 1}) @@ (2 :> {0, 2}) @@ (3 :> {0, 1, 3})
Pairs == (0 :> {0, 1}) @@ (1 :> {0, 1}) @@ (2 :> {2, 3}) @@ (3 :> {2, 3})
Chain == (0 :> {0, 1}) @@ (1 :> {1, 2}) @@ (2 :> {2, 3}) @@ (3 :> {2, 3}) @@ (4 :> {4})
SmallClouds == {Star, Pairs, Chain}

Symmetry == Permutations(Workers)
=============================================================================
