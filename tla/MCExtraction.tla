---------------------------- MODULE MCExtraction ----------------------------
(* Small graphs for ExtractFaces: the neighbors of every vertex, sorted by *)
(* direction, clockwise.                                                   *)
EXTENDS Extraction, TLC

(* Every graph with at least four edges on the vertices of a tetrahedron,  *)
(* with every order of the links around each vertex: also those of bodies  *)
(* with holes.  The square and the triangle with an antenna are among them.*)
Ids == 0 .. 3
AllPairs == {p \in SUBSET Ids : Cardinality(p) = 2}
Around(pairs, v) == {u \in Ids : {u, v} \in pairs}
Orders(set) ==
    {s \in [1 .. Cardinality(set) -> set] : Range(s) = set /\ (set # {} => \A x \in set : s[1] <= x)}
Rotations(pairs) ==
    {g \in [Ids -> UNION {Orders(Around(pairs, v)) : v \in Ids}] :
        \A v \in Ids : g[v] \in Orders(Around(pairs, v))}

SmallGraphs == UNION {Rotations(pairs) : pairs \in {p \in SUBSET AllPairs : Cardinality(p) >= 4}}

(* A vertex with two links to another one, side by side, as step 5 leaves  *)
(* them when it joins two neighbors of the vertex.                         *)
Twin(g, l) == [g EXCEPT ![l[1]] = InsertAt(@, l[2], @[l[2]])]
TwinGraphs == {Twin(g, <<0, k>>) : g \in Rotations(AllPairs), k \in 1 .. 3}

(* Quads in a row.  With three of them the outside is an octagon, with     *)
(* four it is too large to be a face or a hole.                            *)
Ladder(n) ==
    LET beside(u, row) == IF u \in row THEN <<u>> ELSE << >>
        lower == 0 .. n
        upper == n + 1 .. 2 * n + 1
    IN [v \in lower |-> <<v + n + 1>> \o beside(v + 1, lower) \o beside(v - 1, lower)]
       @@ [v \in upper |-> beside(v + 1, upper) \o <<v - n - 1>> \o beside(v - 1, upper)]

(* Two nonagons side by side, too large for a face as well.  One vertex of *)
(* the common edge has two links to the other.                             *)
Nonagons ==
    Twin([v \in 0 .. 15 |-> <<(v + 15) % 16, (v + 1) % 16>> \o
            (CASE v = 4 -> <<12>> [] v = 12 -> <<4>> [] OTHER -> << >>)], <<4, 3>>)

(* A ring with a dead end at two neighboring vertices, on the same side:   *)
(* no walk comes round on that side before step 8 has dropped the ends.    *)
Whiskers(n) ==
    [v \in 0 .. n + 1 |->
        IF v >= n THEN <<v - n>>
        ELSE <<(v + n - 1) % n, (v + 1) % n>> \o (IF v < 2 THEN <<v + n>> ELSE << >>)]

(* Two triangles with a common vertex, and a dead end at each on the       *)
(* outside: the outside is a hexagonal hole that passes the common vertex  *)
(* twice, unless step 8 begins with that vertex.                           *)
BowTie(n) ==
    LET list == << <<1, 2, 3, 4>>, <<2, 0, 5>>, <<0, 1>>, <<4, 0, 6>>, <<0, 3>>, <<1>>, <<3>> >>
        back(v) == (v + 7 - n) % 7
    IN [v \in 0 .. 6 |-> [k \in DOMAIN list[back(v) + 1] |-> (list[back(v) + 1][k] + n) % 7]]
BowTies == {BowTie(n) : n \in {0, 3}}

LargerGraphs == {Ladder(3), Ladder(4), Nonagons, Whiskers(3), Whiskers(6), Whiskers(7)} \cup BowTies

AllGraphs == (3 :> SmallGraphs \cup TwinGraphs \cup {Whiskers(3)} \cup BowTies) @@ (4 :> SmallGraphs \cup TwinGraphs \cup LargerGraphs)

(* Graphs to be snapped: five points, the first four a square or a kite    *)
(* with the last one inside or close to a corner, with seven edges and two *)
(* of the points on a crease.                                              *)
(* With coordinates that are multiples of 16 every midpoint is exact.      *)
Layouts == {
    << <<0, 0>>, <<80, 0>>, <<80, 80>>, <<0, 80>>, <<32, 16>> >>,
    << <<0, 0>>, <<96, 0>>, <<64, 48>>, <<32, 64>>, <<80, 0>> >>}
SnapIds == 0 .. 4
SnapPairs == {p \in SUBSET SnapIds : Cardinality(p) = 2}
Ring == {{0, 1}, {1, 2}, {2, 3}, {0, 3}}

UnsortedGraphs ==
    {[points |-> [v \in SnapIds |-> layout[v + 1]],
      lists |-> [v \in SnapIds |-> [u \in SnapIds |-> IF {u, v} \in pairs THEN 1 ELSE 0]],
      marked |-> {0, 1}, posy |-> n] :
        layout \in Layouts, n \in {3, 4},
        pairs \in {p \in SUBSET SnapPairs : Ring \subseteq p /\ Cardinality(p) = 7}}
=============================================================================
