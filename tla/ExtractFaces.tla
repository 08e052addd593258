---------------------------- MODULE ExtractFaces ----------------------------
(***************************************************************************)
(* Steps 7 to 9 of extract_faces (src/src/extract.cpp): the faces of the   *)
(* output mesh are closed walks through the graph of extract_graph, whose  *)
(* links are sorted by their direction around each vertex.  Faces of an    *)
(* unwanted degree are cut or filled around a centroid, holes are closed,  *)
(* and a quad-dominant mesh may be subdivided into one of quads only.      *)
(*                                                                         *)
(* The thread is alone.  Positions only matter for the corner at which a   *)
(* large polygon is cut: any corner.  Vertices are 0 .. nV - 1, lists and  *)
(* faces start at 1, an edge is a face and a corner, and INVALID is -1    *)
(* for a vertex and NoEdge for an edge.                                    *)
(***************************************************************************)
EXTENDS Integers, FiniteSets, Sequences, SequencesExt

CONSTANTS
    Graphs,             \* for posy 3 and 4: sequences of neighbors for each vertex
    PureQuads,          \* the values of pure_quad
    FillHoles           \* the values of fill_holes

VARIABLES
    adj,                \* the links of each vertex: [id, used]
    posy, pure_quad, fill_holes, \* parameters
    simple,             \* no vertex has two links to another (not in the code)
    phase,              \* the step under way
    deg, at,            \* the loop variables: a degree, and a link <<i, j>>
    verts,              \* what fill_face has still to fill
    F, nV,              \* the faces and the number of vertices
    irregular_faces,    \* the faces around each centroid
    polygons,           \* every polygon that was filled (not in the code)
    E2E, E2E_v,         \* opposite edges, and the vertices put on edges
    oldF                \* F before the subdivision (not in the code)

parameters == <<posy, pure_quad, fill_holes, simple>>
loops == <<deg, at>>
mesh == <<F, nV, irregular_faces, polygons>>
edges == <<E2E, E2E_v, oldF>>
vars == <<adj, parameters, phase, loops, verts, mesh, edges>>

INVALID == -1
NoEdge == <<INVALID, 0>>
TheOnly(set) == CHOOSE x \in set : TRUE

nV_old == Cardinality(DOMAIN adj)
Links == UNION {{v} \X DOMAIN adj[v] : v \in DOMAIN adj}
Used(l) == adj[l[1]][l[2]].used
Target(l) == adj[l[1]][l[2]].id

(* The links in the order of the two loops over i and j. *)
Precedes(l, k) == l[1] < k[1] \/ (l[1] = k[1] /\ l[2] < k[2])
FirstOf(links) == CHOOSE l \in links : \A k \in links : l = k \/ Precedes(l, k)
After(l) == {k \in Links : Precedes(l, k)}

Phases == {"faces", "fill face", "mark", "holes", "fill hole", "split", "split irregular", "done"}

TypeOK ==
    /\ \A v \in DOMAIN adj : \A l \in Range(adj[v]) : l.id \in DOMAIN adj /\ l.used \in BOOLEAN
    /\ phase \in Phases
    /\ deg \in 3 .. 8
    /\ nV \in Nat
    /\ \A f \in DOMAIN F : Len(F[f]) = posy /\ Range(F[f]) \subseteq 0 .. nV - 1
    /\ \A group \in Range(irregular_faces) : Range(group) \subseteq DOMAIN F
    /\ Range(verts) \subseteq DOMAIN adj

Init ==
    /\ posy \in DOMAIN Graphs       \* triangles or quads
    /\ \E g \in Graphs[posy] :
         /\ simple = (\A v \in DOMAIN g : IsInjective(g[v]))
         /\ adj = [v \in DOMAIN g |-> [k \in DOMAIN g[v] |-> [id |-> g[v][k], used |-> FALSE]]]
    /\ pure_quad \in PureQuads /\ (pure_quad => posy = 4)
    /\ fill_holes \in FillHoles
    /\ phase = "faces"
    /\ deg = 3
    /\ at = FirstOf(Links)
    /\ verts = << >>
    /\ F = << >> /\ nV = nV_old
    /\ irregular_faces = << >>
    /\ polygons = << >>
    /\ E2E = << >> /\ E2E_v = << >> /\ oldF = << >>

-----------------------------------------------------------------------------
(* extract_face: walk to the end of a link, and on with the link next to   *)
(* the way back, until the walk is at its first vertex again.              *)

(* The first way back, 0 if there is none. *)
WayBack(l) ==
    LET back == {k \in DOMAIN adj[Target(l)] : adj[Target(l)][k].id = l[1]}
    IN IF back = {} THEN 0 ELSE CHOOSE k \in back : \A m \in back : k <= m

Turn(l) ==
    LET rank == Len(adj[Target(l)])
    IN IF l = NoEdge \/ WayBack(l) = 0 \/ rank = 1 THEN NoEdge ELSE <<Target(l), (WayBack(l) % rank) + 1>>

(* The walk from a link, its first link at 1; it stays at a dead end.      *)
Walk(l) ==
    LET walk[n \in 1 .. Cardinality(Links) + 1] ==
            IF n = 1 THEN l ELSE TheOnly({Turn(link) : link \in {walk[n - 1]}})
    IN [n \in 1 .. Cardinality(Links) + 1 |-> walk[n]]

(* The length of the walk until it is back, 0 if it does not come back     *)
(* over links that are not used.                                           *)
Closed(l) ==
    LET walk == Walk(l)
        back == {n \in 1 .. Len(walk) - 1 : walk[n + 1][1] = l[1]}
        size == CHOOSE n \in back : \A m \in back : n <= m
    IN IF back = {} \/ (\E k \in 1 .. size : Used(walk[k])) THEN 0 ELSE size

(* The walk ends: nothing bounds it where a face of any size is wanted.    *)
Ends(l) ==
    LET walk == Walk(l)
    IN \E k \in DOMAIN walk :
        \/ walk[k] = NoEdge
        \/ walk[k] # NoEdge /\ (Used(walk[k]) \/ (k > 1 /\ walk[k][1] = l[1]))

(* Mutant of FaceLinks: the last link of a face is not marked. *)
FaceLinksButLast(l) == Range(SubSeq(Walk(l), 1, Closed(l) - 1))

FaceLinks(l) == Range(SubSeq(Walk(l), 1, Closed(l)))

(* A face of the wanted degree (any degree: 0) begins at this link. *)
IsFace(l, targetSize) ==
    LET size == Closed(l) IN size # 0 /\ (targetSize = 0 \/ size = targetSize)

Extract(l) ==
    LET links == FaceLinks(l)
    IN /\ adj' = [v \in DOMAIN adj |-> [k \in DOMAIN adj[v] |->
                [adj[v][k] EXCEPT !.used = @ \/ <<v, k>> \in links]]]
       /\ verts' = [k \in 1 .. Closed(l) |-> Walk(l)[k][1]]

-----------------------------------------------------------------------------
(* fill_face, one turn of its loop at a time.                              *)

Fills == phase \in {"fill face", "fill hole"}
Corner(k) == verts[((k - 1) % Len(verts)) + 1]

FillEnds ==
    /\ verts' = << >>
    /\ phase' = IF phase = "fill face" THEN "faces" ELSE "holes"
    /\ UNCHANGED <<adj, parameters, loops, polygons, edges>>

(* A polygon of the right degree, or nothing. *)
FillLast ==
    /\ Fills
    /\ \/ Len(verts) <= 2 /\ UNCHANGED F
       \/ Len(verts) = posy /\ F' = Append(F, verts)
    /\ UNCHANGED <<nV, irregular_faces>>
    /\ FillEnds

(* Mutant of Cut: one corner too many is dropped. *)
CutTooMuch(best) == {((best + k - 1) % Len(verts)) + 1 : k \in 1 .. posy - 1}

(* The corners that are inside the new face. *)
Cut(best) == {((best + k - 1) % Len(verts)) + 1 : k \in 1 .. posy - 2}

(* A large polygon: a face is cut off at the corner with the best angles. *)
FillCut ==
    /\ Fills
    /\ Len(verts) > 2 /\ Len(verts) # posy
    /\ Len(verts) > posy + 1 \/ posy = 3
    /\ \E best \in 1 .. Len(verts) :
         /\ F' = Append(F, [k \in 1 .. posy |-> Corner(best + k - 1)])
         /\ verts' = [k \in 1 .. Len(verts) - Cardinality(Cut(best)) |->
                        verts[CHOOSE i \in DOMAIN verts \ Cut(best) :
                            Cardinality({m \in DOMAIN verts \ Cut(best) : m <= i}) = k]]
    /\ UNCHANGED <<adj, parameters, phase, loops, nV, irregular_faces, polygons, edges>>

Centroid == nV

(* A triangle or pentagon of a quad mesh: triangles around a centroid,     *)
(* written as quads whose last two corners are the same.                   *)
FillCentroid ==
    /\ Fills
    /\ posy = 4 /\ Len(verts) \in {3, 5}
    /\ F' = F \o [k \in DOMAIN verts |-> <<verts[k], Corner(k + 1), Centroid, Centroid>>]
    /\ nV' = nV + 1
    /\ irregular_faces' = Append(irregular_faces, [k \in DOMAIN verts |-> Len(F) + k])
    /\ FillEnds

-----------------------------------------------------------------------------
(* Step 7: faces of degree 3, then 4, ... then 8, from every link.         *)
AfterHoles == IF posy = 4 /\ pure_quad THEN "split" ELSE "done"

(* Mutant of LargestDegree: the loop ends before the last degree. *)
DegreeBefore == 7

LargestDegree == 8

NextLinkOrDegree ==
    IF After(at) # {} THEN at' = FirstOf(After(at)) /\ UNCHANGED <<deg, phase>>
    ELSE IF deg < LargestDegree THEN at' = FirstOf(Links) /\ deg' = deg + 1 /\ UNCHANGED phase
    ELSE phase' = (IF fill_holes THEN "mark" ELSE AfterHoles) /\ UNCHANGED <<deg, at>>

TryFace ==
    /\ phase = "faces"
    /\ IF IsFace(at, deg)
       THEN /\ Extract(at)
            /\ polygons' = Append(polygons, verts')
            /\ phase' = "fill face"
            /\ UNCHANGED loops
       ELSE NextLinkOrDegree /\ UNCHANGED <<adj, verts, polygons>>
    /\ UNCHANGED <<parameters, F, nV, irregular_faces, edges>>

-----------------------------------------------------------------------------
(* Step 8: only the links along a border stay, on both sides: those that   *)
(* are not used but whose way back is.  Then any closed walk is a hole.    *)

Back(l) == <<Target(l), WayBack(l)>>
Border == {l \in Links : ~Used(l) /\ WayBack(l) # 0 /\ Used(Back(l))}

(* Mutant of Kept: only the side that is not used stays. *)
KeptOneSide == Border

Kept == Border \cup {Back(l) : l \in Border}

MarkBorder ==
    /\ phase = "mark"
    /\ LET kept(v) == {k \in DOMAIN adj[v] : <<v, k>> \in Kept}
           nth(v, n) == CHOOSE k \in kept(v) : Cardinality({m \in kept(v) : m <= k}) = n
       IN adj' = [v \in DOMAIN adj |-> [n \in 1 .. Cardinality(kept(v)) |-> adj[v][nth(v, n)]]]
    /\ IF Kept = {} THEN phase' = AfterHoles /\ at' = <<1, 1>>
       ELSE phase' = "holes" /\ at' = FirstOf({<<v, 1>> : v \in {l[1] : l \in Kept}})
    /\ UNCHANGED <<parameters, deg, verts, mesh, edges>>

(* Holes of degree 7 and more stay open. *)
TryHole ==
    /\ phase = "holes" /\ Ends(at)
    /\ IF IsFace(at, 0)
       THEN /\ Extract(at)
            /\ IF Closed(at) < 7
               THEN polygons' = Append(polygons, verts') /\ phase' = "fill hole"
               ELSE UNCHANGED <<polygons, phase>>
            /\ UNCHANGED at
       ELSE /\ IF After(at) # {} THEN at' = FirstOf(After(at)) /\ UNCHANGED phase
               ELSE phase' = AfterHoles /\ at' = <<1, 1>>
            /\ UNCHANGED <<adj, verts, polygons>>
    /\ UNCHANGED <<parameters, deg, F, nV, irregular_faces, edges>>

-----------------------------------------------------------------------------
(* Step 9: every edge gets a vertex in its middle, every quad one in its   *)
(* center.  The opposite edges are those of build_dedge (DirectedEdge).    *)

AllEdges(faces) == {e \in (DOMAIN faces) \X (1 .. posy) : faces[e[1]][e[2]] # faces[e[1]][(e[2] % posy) + 1]}
Begin(faces, e) == faces[e[1]][e[2]]
End(faces, e) == faces[e[1]][(e[2] % posy) + 1]
Opposites(faces, e) ==
    {x \in AllEdges(faces) : Begin(faces, x) = End(faces, e) /\ End(faces, x) = Begin(faces, e)}

(* An edge with a single edge the other way, later in F, links both to     *)
(* each other; of several that link the same edge, the last to do so wins. *)
(* All that E2E may be:                                                    *)
OppositeEdges(faces) ==
    LET single == {p \in {<<e, Opposites(faces, e)>> : e \in AllEdges(faces)} : Cardinality(p[2]) = 1}
        pairs == {<<p[1], TheOnly(p[2])>> : p \in single}
        linkers(e) == {p[1] : p \in {q \in pairs : q[2] = e /\ Precedes(q[1], e)}}
                        \cup {p[2] : p \in {q \in pairs : q[1] = e /\ Precedes(e, q[2])}}
        linked == {<<e, linkers(e)>> : e \in AllEdges(faces)}
        several == {p[1] : p \in {q \in linked : Cardinality(q[2]) > 1}}
        known == {<<p[1], TheOnly(p[2])>> : p \in {q \in linked : Cardinality(q[2]) = 1}}
        choices == {c \in [several -> UNION {p[2] : p \in linked}] :
                        \A e \in several : c[e] \in linkers(e)}
    IN {[e \in (DOMAIN faces) \X (1 .. posy) |->
            IF e \in several THEN choice[e]
            ELSE IF \E p \in known : p[1] = e THEN (CHOOSE p \in known : p[1] = e)[2]
            ELSE NoEdge] : choice \in choices}

BuildDedge ==
    /\ phase = "split" /\ oldF = << >>
    /\ E2E' \in OppositeEdges(F)
    /\ E2E_v' = [e \in (DOMAIN F) \X (1 .. posy) |-> INVALID]
    /\ oldF' = F
    /\ at' = <<1, 1>>
    /\ phase' = IF F = << >> THEN "done" ELSE "split"
    /\ UNCHANGED <<adj, parameters, deg, verts, mesh>>

(* Mutant of Shared: a vertex of the other side is never found. *)
SharedNever(on, e) == INVALID

(* The vertex that the other side has put on the edge. *)
Shared(on, e) == IF E2E[e] = NoEdge THEN INVALID ELSE on[E2E[e]]

(* The vertices on some edges, one after the other: those of the other     *)
(* side, or new ones.  The record is the number of vertices, E2E_v, and    *)
(* the vertices; those to skip get none.                                   *)
Middles(count, es, skip) ==
    LET after[k \in 0 .. Len(es)] ==
            IF k = 0 THEN [nV |-> count, on |-> E2E_v, ec |-> << >>]
            ELSE LET r == after[k - 1]
                     e == es[k]
                 IN IF e \in skip THEN [r EXCEPT !.ec = Append(@, INVALID)]
                    ELSE IF Shared(r.on, e) # INVALID THEN [r EXCEPT !.ec = Append(@, Shared(r.on, e))]
                    ELSE [nV |-> r.nV + 1, on |-> [r.on EXCEPT ![e] = r.nV], ec |-> Append(r.ec, r.nV)]
    IN after[Len(es)]

(* A quad becomes a quad at each of its corners, the first in its place. *)
SplitFace ==
    /\ phase = "split" /\ oldF # << >>
    /\ LET f == at[1]
           degenerate == {<<f, k>> : k \in {j \in 1 .. 4 : F[f][j] = F[f][(j % 4) + 1]}}
           middles == Middles(nV + 1, [k \in 1 .. 4 |-> <<f, k>>], degenerate)
           ec == middles.ec
           quad(k) == <<ec[k], F[f][(k % 4) + 1], ec[(k % 4) + 1], nV>>
           corners == SelectSeq(<<1, 2, 3, 4>>, LAMBDA k :
                        ec[k] # INVALID /\ ec[(k % 4) + 1] # INVALID)
           quads == [k \in DOMAIN corners |-> quad(corners[k])]
       IN /\ IF F[f][3] = F[f][4] \/ quads = << >>
             THEN UNCHANGED F
             ELSE F' = [F EXCEPT ![f] = Head(quads)] \o Tail(quads)
          /\ IF F[f][3] = F[f][4]
             THEN UNCHANGED <<nV, E2E_v>>
             ELSE nV' = middles.nV /\ E2E_v' = middles.on
          /\ IF f < Len(oldF) THEN at' = <<f + 1, 1>> /\ UNCHANGED phase
             ELSE at' = <<1, 1>> /\ phase' = "split irregular"
    /\ UNCHANGED <<adj, parameters, deg, verts, irregular_faces, polygons, E2E, oldF>>

(* The triangles around a centroid become a quad at each corner of the     *)
(* polygon.                                                                *)
SplitIrregular ==
    /\ phase = "split irregular"
    /\ IF at[1] > Len(irregular_faces)
       THEN phase' = "done" /\ UNCHANGED <<F, nV, E2E_v, at>>
       ELSE LET group == irregular_faces[at[1]]
                next(k) == (k % Len(group)) + 1
                middles == Middles(nV, [k \in DOMAIN group |-> <<group[k], 1>>], {})
                centroid == F[Head(group)][4]
                quad(k) == <<middles.ec[k], F[group[next(k)]][1], middles.ec[next(k)], centroid>>
            IN /\ F' = [f \in DOMAIN F |->
                    IF f \in Range(group) THEN quad(CHOOSE k \in DOMAIN group : group[k] = f) ELSE F[f]]
               /\ nV' = middles.nV
               /\ E2E_v' = middles.on
               /\ at' = <<at[1] + 1, 1>>
               /\ UNCHANGED phase
    /\ UNCHANGED <<adj, parameters, deg, verts, irregular_faces, polygons, E2E, oldF>>

-----------------------------------------------------------------------------
Finished == phase = "done" /\ UNCHANGED vars

Next ==
    \/ TryFace \/ FillLast \/ FillCut \/ FillCentroid \/ MarkBorder \/ TryHole
    \/ BuildDedge \/ SplitFace \/ SplitIrregular \/ Finished

Spec == Init /\ [][Next]_vars

-----------------------------------------------------------------------------
Pairs == (0 .. nV - 1) \X (0 .. nV - 1)

(* How often polygons pass from one vertex to another. *)
Passes(faces, u, v) ==
    Cardinality({e \in UNION {{f} \X DOMAIN faces[f] : f \in DOMAIN faces} :
        faces[e[1]][e[2]] = u /\ faces[e[1]][(e[2] % Len(faces[e[1]])) + 1] = v})

(* The sizes of the walk when it is back at its link and met no vertex     *)
(* twice.                                                                  *)
RingSizes(l) ==
    LET walk == Walk(l)
    IN {n \in 1 .. Len(walk) - 1 : walk[n + 1] = l /\ Cardinality({walk[k][1] : k \in 1 .. n}) = n}

(* Whatever the order of vertices and links, step 7 finds exactly the      *)
(* rings of three to eight links, although it tries degree after degree    *)
(* and stops a walk at the first vertex, not at the first link             *)
(* (extract.cpp:534-574, 664-679).                                         *)
RingsAreFaces ==
    phase = "mark" /\ simple =>
        \A l \in Links : \A n \in RingSizes(l) : Used(l) <=> n \in 3 .. 8

(* After step 8 every hole with less than seven edges is closed, unless    *)
(* holes touch in a vertex: marking the border leaves every vertex of a    *)
(* hole the way on and the way back, and no other (extract.cpp:687-740).   *)
Open(faces) == {p \in Pairs : Passes(faces, p[1], p[2]) > 0 /\ Passes(faces, p[2], p[1]) = 0}
Starts(pairs) == {p[1] : p \in pairs}
Stops(pairs) == {p[2] : p \in pairs}

SmallHolesAreClosed ==
    fill_holes /\ simple /\ (phase = "done" \/ (phase = "split" /\ oldF = << >>)) =>
        LET border == Open(polygons)
        IN Cardinality(Starts(border)) = Cardinality(border) =>
            \A hole \in (SUBSET border) \ {{}} : Starts(hole) = Stops(hole) => Cardinality(hole) >= 7

(* No link belongs to two faces, also across the marking of the border     *)
(* (extract.cpp:540, 567-570, 699).                                        *)
FacesAreDisjoint ==
    phase \in {"mark", "split", "done"} /\ simple => \A p \in Pairs : Passes(polygons, p[1], p[2]) <= 1

(* The faces of a polygon have its outline: along every other edge as many *)
(* faces pass one way as the other (extract.cpp:577-654).                  *)
Net(faces, u, v) == Passes(faces, u, v) - Passes(faces, v, u)

FacesCoverPolygons ==
    phase \in {"mark", "split", "done"} /\ oldF = << >> =>
        \A p \in Pairs : p[1] # p[2] => Net(F, p[1], p[2]) = Net(polygons, p[1], p[2])

(* No link belongs to two faces, the faces that fill a polygon keep its    *)
(* outline, every corner is a vertex of the output and every entry of      *)
(* irregular_faces one of its faces (extract.cpp:561-654).                 *)
FacesInv == TypeOK /\ FacesAreDisjoint /\ FacesCoverPolygons

(* Every degenerate face belongs to a centroid, so that the subdivision    *)
(* leaves only quads with four corners, and no cracks: an edge of the      *)
(* result without another side is half of an edge that had none before,    *)
(* if the mesh was a manifold (extract.cpp:756-874, 896).                  *)
Manifold(faces) == \A p \in Pairs : p[1] # p[2] => Passes(faces, p[1], p[2]) <= 1
Proper(face) == Cardinality(Range(face)) = Len(face)

SubdivisionIsWatertight ==
    phase = "done" /\ oldF # << >> /\ Manifold(oldF)
        /\ (\A f \in DOMAIN oldF : Proper(oldF[f]) \/ \E g \in Range(irregular_faces) : f \in Range(g)) =>
            /\ \A f \in DOMAIN F : Proper(F[f])
            /\ Cardinality(Open(F)) = 2 * Cardinality({p \in Open(oldF) : p[1] # p[2]})
=============================================================================
