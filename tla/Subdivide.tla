------------------------------ MODULE Subdivide ------------------------------
(***************************************************************************)
(* subdivide of src/src/subdivide.cpp: the edges of a triangle mesh that   *)
(* are too long are split in the middle, the longest first, and the        *)
(* directed edges are kept up to date.                                     *)
(*                                                                         *)
(* Points are in the plane with integer coordinates, chosen so that every  *)
(* midpoint is exact; lengths are squared, as in the code.  The queue is a *)
(* set: of two equal entries the second finds its edge split already, or   *)
(* its number reused by an edge that has an entry of its own.              *)
(***************************************************************************)
EXTENDS EdgeMaps, Integers, Sequences, TLC

VARIABLES
    mesh,               \* F, V, V2E, E2E, boundary, nonManifold
    queue,              \* edges with the length they had when they were queued
    maxLength           \* squared

Dot(p, q) == p[1] * q[1] + p[2] * q[2]
Minus(p, q) == <<p[1] - q[1], p[2] - q[2]>>
squaredNorm(p) == Dot(p, p)
Midpoint(p, q) == <<(p[1] + q[1]) \div 2, (p[2] + q[2]) \div 2>>

Length(m, e) == squaredNorm(Minus(m.V[SourceIn(m.F, e)], m.V[TargetIn(m.F, e)]))
TooLong(m, limit, edges) == {<<e, Length(m, e)>> : e \in {x \in edges : Length(m, x) > limit}}

(* At first every long edge is queued once, unless an end is non-manifold. *)
InitialQueue(m, limit) ==
    TooLong(m, limit, {e \in EdgesOf(m.F) :
        /\ ~m.nonManifold[SourceIn(m.F, e)] /\ ~m.nonManifold[TargetIn(m.F, e)]
        /\ m.E2E[e] = INVALID \/ m.E2E[e] > e})

Begin(m) ==
    /\ mesh' = m
    /\ queue' = InitialQueue(m, maxLength')

-----------------------------------------------------------------------------
Triangle(a, b, c) == (0 :> a) @@ (1 :> b) @@ (2 :> c)
EdgesOfFace(f) == {3 * f, 3 * f + 1, 3 * f + 2}

(* Mutant of sE2E: an edge that has an opposite already keeps it. *)
sE2EOneWay(E2E, a, b) == IF b \in DOMAIN E2E THEN (a :> b) @@ E2E ELSE (b :> a) @@ (a :> b) @@ E2E

(* sE2E: an edge is linked, and its opposite back. *)
sE2E(E2E, a, b) == IF b = INVALID THEN (a :> b) @@ E2E ELSE (b :> a) @@ (a :> b) @@ E2E

(* A sequence of such links <<a, b>>. *)
SetLinks(E2E, links) ==
    LET after[k \in 0 .. Len(links)] ==
            IF k = 0 THEN E2E ELSE sE2E(after[k - 1], links[k][1], links[k][2])
    IN after[Len(links)]

(*        /   v0  \                                                        *)
(*       /  1 | 0  \         f0: vn, v0p, v0      f1: vn, v0, v1p          *)
(*      v1p - vn - v0p       f2: vn, v1p, v1      f3: vn, v1, v0p          *)
(*       \  2 | 3  /         at a boundary only f0 and f3                  *)
(*        \   v1  /                                                        *)
Split(m, e0) ==
    LET e1 == m.E2E[e0]
        is_boundary == e1 = INVALID
        nF == Cardinality(DOMAIN m.F)
        vn == Cardinality(DOMAIN m.V)
        f0 == e0 \div 3
        f1 == e1 \div 3
        f2 == nF
        f3 == IF is_boundary THEN nF ELSE nF + 1
        v0 == SourceIn(m.F, e0)
        v1 == TargetIn(m.F, e0)
        v0p == SourceIn(m.F, dedge_prev(e0))
        v1p == SourceIn(m.F, dedge_prev(e1))
        near == SetLinks(m.E2E,
                    <<<<3 * f0, 3 * f3 + 2>>,
                      <<3 * f0 + 1, m.E2E[dedge_prev(e0)]>>,
                      <<3 * f3 + 1, m.E2E[dedge_next(e0)]>>>>)
        far == IF is_boundary
               THEN <<<<3 * f0 + 2, INVALID>>, <<3 * f3, INVALID>>>>
               ELSE <<<<3 * f0 + 2, 3 * f1>>,
                      <<3 * f1 + 1, near[dedge_next(e1)]>>,
                      <<3 * f1 + 2, 3 * f2>>,
                      <<3 * f2 + 1, near[dedge_prev(e1)]>>,
                      <<3 * f2 + 2, 3 * f3>>>>
        nearFaces == (f3 :> Triangle(vn, v1, v0p)) @@ (f0 :> Triangle(vn, v0p, v0)) @@ m.F
        nearFirst == (v0p :> 3 * f0 + 1) @@ (v1 :> 3 * f3 + 1) @@ (vn :> 3 * f0)
                        @@ (v0 :> 3 * f0 + 2) @@ m.V2E
    IN [F |-> IF is_boundary THEN nearFaces
              ELSE (f2 :> Triangle(vn, v1p, v1)) @@ (f1 :> Triangle(vn, v0, v1p)) @@ nearFaces,
        V |-> (vn :> Midpoint(m.V[v0], m.V[v1])) @@ m.V,
        E2E |-> SetLinks(near, far),
        V2E |-> IF is_boundary THEN nearFirst ELSE (v1p :> 3 * f1 + 2) @@ nearFirst,
        boundary |-> (vn :> is_boundary) @@ m.boundary,
        nonManifold |-> (vn :> FALSE) @@ m.nonManifold]

(* Mutant of Touched: the new faces are left out. *)
TouchedOld(m, s) == {f \in DOMAIN m.F : s.F[f] # m.F[f]}

(* The faces a split has written. *)
Touched(m, s) == {f \in DOMAIN s.F : f \notin DOMAIN m.F \/ s.F[f] # m.F[f]}

(* The longest edge is taken; it may have been split already. *)
Pop(entry) ==
    /\ entry \in queue
    /\ \A other \in queue : other[2] <= entry[2]

IsStale(entry) == Length(mesh, entry[1]) # entry[2]

Skip ==
    /\ \E entry \in queue : Pop(entry) /\ IsStale(entry) /\ queue' = queue \ {entry}
    /\ UNCHANGED <<mesh, maxLength>>

SplitLongest ==
    /\ \E entry \in queue :
         /\ Pop(entry)
         /\ ~IsStale(entry)
         /\ mesh' = Split(mesh, entry[1])
         /\ queue' = (queue \ {entry})
                \cup TooLong(mesh', maxLength, UNION {EdgesOfFace(f) : f \in Touched(mesh, mesh')})
    /\ UNCHANGED maxLength
=============================================================================
