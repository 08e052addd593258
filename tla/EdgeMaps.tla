------------------------------ MODULE EdgeMaps ------------------------------
(***************************************************************************)
(* What build_dedge (src/src/dedge.cpp) promises about a mesh: the numbers *)
(* of its directed edges, and which results are admissible.  The threads   *)
(* decide between them only where several edges claim the same opposite,   *)
(* or where the faces of a vertex form more than one fan.                  *)
(***************************************************************************)
EXTENDS Naturals, FiniteSets

CONSTANTS
    Deg,                \* F.rows(): the number of corners of a face
    INVALID             \* (uint32_t) -1

ASSUME DegAssumption == Deg \in Nat \ {0}
ASSUME InvalidAssumption == INVALID \notin Nat

(* A mesh is F, a function on 0 .. faces - 1 to functions on 0 .. Deg - 1. *)
EdgesOf(F) == 0 .. Deg * Cardinality(DOMAIN F) - 1

dedge_prev(e) == IF e % Deg = 0 THEN e + (Deg - 1) ELSE e - 1
dedge_next(e) == IF e % Deg = Deg - 1 THEN e - (Deg - 1) ELSE e + 1

SourceIn(F, e) == F[e \div Deg][e % Deg]
TargetIn(F, e) == SourceIn(F, dedge_next(e))

ProperEdges(F) == {e \in EdgesOf(F) : SourceIn(F, e) # TargetIn(F, e)}
OutgoingIn(F, v) == {e \in ProperEdges(F) : SourceIn(F, e) = v}
ReverseIn(F, e) == {x \in OutgoingIn(F, TargetIn(F, e)) : TargetIn(F, x) = SourceIn(F, e)}

(* Of several opposites, all ends are non-manifold. *)
NonManifoldIn(F) ==
    UNION {{SourceIn(F, e), TargetIn(F, e)} :
        e \in {x \in ProperEdges(F) : Cardinality(ReverseIn(F, x)) > 1}}

(* The edges that are written to E2E[e]: an edge with a single opposite is *)
(* linked both ways if it has the smaller number.                          *)
Linkers(F, e) ==
    IF e \notin ProperEdges(F) THEN {}
    ELSE {x \in ReverseIn(F, e) :
            \/ e < x /\ ReverseIn(F, e) = {x}
            \/ x < e /\ ReverseIn(F, x) = {e}}

(* All functions that choose a member of each set, or the default.         *)
Selections(sets, default) ==
    LET open == {x \in DOMAIN sets : Cardinality(sets[x]) > 1}
        picks == {c \in [open -> UNION {sets[x] : x \in open}] : \A x \in open : c[x] \in sets[x]}
    IN {[x \in DOMAIN sets |->
            IF x \in open THEN c[x]
            ELSE IF sets[x] = {} THEN default ELSE CHOOSE y \in sets[x] : TRUE] : c \in picks}

-----------------------------------------------------------------------------
(* The backward walk around a vertex, from edge to edge.                   *)
Before(E2E, e) == E2E[dedge_prev(e)]

(* The edges the walk visits until there is none before (a boundary) or it *)
(* is back at its start; none if it never ends.                            *)
Visited(E2E, start) ==
    LET size == Cardinality(DOMAIN E2E)
        walk[n \in 0 .. size] ==
            IF n = 0 THEN start
            ELSE LET edge == walk[n - 1] IN IF edge = INVALID THEN INVALID ELSE Before(E2E, edge)
        ends == {n \in 1 .. size : walk[n] \in {INVALID, start}}
    IN IF ends = {} THEN {} ELSE {walk[k] : k \in 0 .. (CHOOSE n \in ends : \A m \in ends : n <= m) - 1}

HasBoundary(E2E, start) == \E e \in Visited(E2E, start) : Before(E2E, e) = INVALID

(* The boundary edge, or the smallest edge. *)
FirstEdge(E2E, start) ==
    IF HasBoundary(E2E, start)
    THEN CHOOSE e \in Visited(E2E, start) : Before(E2E, e) = INVALID
    ELSE CHOOSE e \in Visited(E2E, start) : \A x \in Visited(E2E, start) : e <= x

(* The admissible results for a mesh with these vertices.                  *)
EdgeMapsOf(F, vertices) ==
    LET nonManifold == [v \in vertices |-> v \in NonManifoldIn(F)]
        firsts(E2E) == [v \in vertices |->
            IF nonManifold[v] THEN {} ELSE {FirstEdge(E2E, e) : e \in OutgoingIn(F, v)}]
    IN UNION {{[V2E |-> V2E, E2E |-> E2E, nonManifold |-> nonManifold,
                boundary |-> [v \in vertices |-> V2E[v] # INVALID /\ Before(E2E, V2E[v]) = INVALID]]
                : V2E \in Selections(firsts(E2E), INVALID)}
            : E2E \in Selections([e \in EdgesOf(F) |-> Linkers(F, e)], INVALID)}
=============================================================================
