------------------------------ MODULE Adjacency ------------------------------
(***************************************************************************)
(* generate_adjacency_matrix_uniform and _cotan of src/src/adjacency.cpp:  *)
(* the links of a vertex are found on a walk around it.  A first loop over *)
(* the vertices counts the links, a second one writes them to the ranges   *)
(* the counts reserve.  Every vertex is independent of the others, and the *)
(* two functions differ only in the weights.                               *)
(***************************************************************************)
EXTENDS EdgeMaps, Sequences

(* The edges the walk visits from V2E[v]: to a boundary, or until it would *)
(* be at its first edge again.  Empty where the code skips the vertex.     *)
Around(m, v) ==
    LET stop == m.V2E[v]
        size == Cardinality(DOMAIN m.E2E)
        walk[k \in 1 .. size] ==
            IF k = 1 THEN stop
            ELSE LET edge == walk[k - 1]
                 IN IF edge = INVALID \/ m.E2E[edge] = INVALID THEN INVALID
                    ELSE dedge_next(m.E2E[edge])
        ends == {k \in 1 .. size : walk[k] # INVALID /\
                    (m.E2E[walk[k]] = INVALID \/ dedge_next(m.E2E[walk[k]]) = stop)}
    IN IF m.nonManifold[v] \/ stop = INVALID THEN << >>
       ELSE [k \in 1 .. (CHOOSE n \in ends : \A j \in ends : n <= j) |-> walk[k]]

AtBoundary(m, edge) == m.E2E[edge] = INVALID

(* The first loop. *)
neighborhoodSize(m, v) ==
    LET boundary == {k \in DOMAIN Around(m, v) : AtBoundary(m, Around(m, v)[k])}
    IN Len(Around(m, v)) + Cardinality(boundary)

(* Mutant of LinksOf: the end of a closed walk is written as well. *)
LinksOfAlsoLast(m, v) ==
    LET walk == Around(m, v)
    IN IF walk = << >> THEN << >>
       ELSE <<SourceIn(m.F, dedge_prev(Head(walk)))>> \o [k \in DOMAIN walk |-> TargetIn(m.F, walk[k])]

(* The second loop: the vertex before the first edge, then the targets,    *)
(* but for the last one of a closed walk.                                  *)
LinksOf(m, v) ==
    LET walk == Around(m, v)
        written == SelectSeq(walk, LAMBDA e : AtBoundary(m, e) \/ dedge_next(m.E2E[e]) # Head(walk))
    IN IF walk = << >> THEN << >>
       ELSE <<SourceIn(m.F, dedge_prev(Head(walk)))>>
                \o [k \in DOMAIN written |-> TargetIn(m.F, written[k])]
=============================================================================
