----------------------------- MODULE Extraction -----------------------------
(***************************************************************************)
(* extract_graph from step 5 on and extract_faces (src/src/extract.cpp),   *)
(* with the sanitizer and the reordering of the result                     *)
(* (src/src/reorder.cpp): the graph is snapped (Snapping) and sorted, its  *)
(* faces are found and split (ExtractFaces), then the faces are cleaned    *)
(* (Sanitizer), get their normals, are cleaned again and numbered anew.    *)
(*                                                                         *)
(* The thread is alone.  Points are known until the links are sorted; from *)
(* there on a quad may have any winding.  Smoothing and the relaxation of  *)
(* reflex corners change positions only and are left out, and so are       *)
(* creases after step 6.                                                   *)
(***************************************************************************)
EXTENDS ExtractFaces, Sanitizer

CONSTANTS
    SnapInputs,         \* graphs before step 5: points, lists, marked, posy
    Thresh              \* thresh, squared

VARIABLES
    O, links, crease, loop, candidates, changed, changed_inner, given,
    stage,              \* the part of the two functions under way
    out, nOut,          \* F and the number of vertices, from the end of step 9 on
    copies,             \* the vertices that the last ones of out are copies of
    Nf                  \* the corners that each face normal was computed from

S == INSTANCE Snapping

graph == <<O, links, crease, loop, candidates, changed, changed_inner, given>>
result == <<out, nOut, copies, Nf>>
allvars == <<vars, graph, stage, result>>

NoMesh == out = << >> /\ nOut = 0 /\ copies = << >> /\ Nf = << >>

(* Graphs as ExtractFaces has them, with nothing left to snap. *)
StartSorted ==
    /\ Init
    /\ S!Begin(<< >>, << >>, {})
    /\ stage = "faces"

(* Both callers snap, close holes and, of quads, want quads alone.         *)
StartUnsorted ==
    /\ \E input \in SnapInputs :
         /\ S!Begin(input.points, input.lists, input.marked)
         /\ adj = [v \in DOMAIN input.points |-> << >>]
         /\ posy = input.posy
    /\ pure_quad = (posy = 4) /\ fill_holes = TRUE
    /\ simple = TRUE
    /\ phase = "faces" /\ deg = 3 /\ at = <<1, 1>> /\ verts = << >>
    /\ F = << >> /\ nV = nV_old /\ irregular_faces = << >> /\ polygons = << >>
    /\ E2E = << >> /\ E2E_v = << >> /\ oldF = << >>
    /\ stage = "snap"

ExtractionInit == (StartSorted \/ StartUnsorted) /\ NoMesh

-----------------------------------------------------------------------------
Snap ==
    /\ stage = "snap"
    /\ S!SnapStep(posy)
    /\ UNCHANGED <<vars, stage, result>>

(* Step 6, and the start of extract_faces with the links it leaves. *)
Orient ==
    /\ stage = "snap"
    /\ S!LoopDone(posy) /\ ~changed
    /\ LET list == [v \in DOMAIN O |-> S!Oriented(v)]
       IN /\ adj' = [v \in DOMAIN O |-> [k \in DOMAIN list[v] |-> [id |-> list[v][k], used |-> FALSE]]]
          /\ simple' = \A v \in DOMAIN O : IsInjective(list[v])
          /\ at' = FirstOf({<<v, 1>> : v \in S!Survivors})
    /\ O' = << >> /\ links' = << >> /\ given' = << >> /\ crease' = {}
    /\ loop' = "find"
    /\ stage' = "faces"
    /\ UNCHANGED <<candidates, changed, changed_inner>>
    /\ UNCHANGED <<posy, pure_quad, fill_holes, phase, deg, verts, mesh, edges, result>>

FindFaces ==
    /\ stage = "faces"
    /\ Next /\ phase # "done"
    /\ UNCHANGED <<graph, stage, result>>

-----------------------------------------------------------------------------
(* The bound on windings: no quad is against its normals, or the first.    *)
Against(faces) == {{}} \cup {{f} : f \in {q \in Quads(faces) : \A p \in Quads(faces) : q <= p}}

(* sanitize_coarse_quads: the faces, and the vertices it adds.             *)
Sanitize(faces) ==
    /\ \E against \in Against(Deduplicated(faces)) :
         LET clean == SanitizeCoarse(faces, nV, against)
         IN /\ out' = clean.faces
            /\ copies' = clean.origin
            /\ nOut' = nV + Len(clean.origin)
            /\ Nf' = [f \in DOMAIN clean.faces \cap DOMAIN Nf |-> Nf[f]]

KeepFaces == out' = F /\ nOut' = nV /\ copies' = << >> /\ UNCHANGED Nf

SanitizeFirst ==
    /\ stage = "faces" /\ phase = "done"
    /\ IF pure_quad \/ irregular_faces = << >> THEN Sanitize(F) ELSE KeepFaces
    /\ stage' = "normals"
    /\ UNCHANGED <<vars, graph>>

WithNormals == [f \in DOMAIN out |-> Corners(out[f])]

(* The normals, and the sanitizer if it has not been there before.         *)
FaceNormals ==
    /\ stage = "normals"
    /\ Nf' = WithNormals
    /\ stage' = IF posy = 4 /\ ~pure_quad /\ irregular_faces # << >> THEN "sanitize" ELSE "final"
    /\ UNCHANGED <<vars, graph, out, nOut, copies>>

SanitizeLate ==
    /\ stage = "sanitize"
    /\ Sanitize(out)
    /\ stage' = "final"
    /\ UNCHANGED <<vars, graph>>

(* sanitize_final_mesh: degenerate faces go, with their normals, and quads *)
(* are turned, and get a new normal.                                       *)
SanitizeFinal ==
    /\ stage = "final"
    /\ LET kept == {f \in DOMAIN out : ~Degenerate(out[f])}
           faces == Elements(out, kept)
       IN \E against \in Against(faces) :
            /\ out' = Flipped(faces, against)
            /\ Nf' = [f \in DOMAIN faces |->
                        IF f \in against THEN Corners(faces[f]) ELSE Elements(Nf, kept)[f]]
    /\ stage' = "reorder"
    /\ UNCHANGED <<vars, graph, nOut, copies>>

-----------------------------------------------------------------------------
(* Step 12, reorder_mesh: the faces in the order of a breadth-first search *)
(* over opposite edges; unprocessed.begin() is the first face in some      *)
(* libraries and the last one in others.                                   *)
Beginning(unprocessed) ==
    {f \in unprocessed : (\A g \in unprocessed : f <= g) \/ (\A g \in unprocessed : f >= g)}

(* Mutant of Neighbors: nothing keeps a face from being queued twice. *)
NeighborsAgain(opposite, f, unprocessed) ==
    LET others == {k \in 1 .. posy : opposite[<<f, k>>] # NoEdge}
    IN [n \in 1 .. Cardinality(others) |-> opposite[<<f, CHOOSE k \in others :
            Cardinality({m \in others : m <= k}) = n>>][1]]

(* The neighbors of f to be queued, in the order of its edges. *)
Neighbors(opposite, f, unprocessed) ==
    LET next(k) == opposite[<<f, k>>][1]
        new(k) == opposite[<<f, k>>] # NoEdge /\ next(k) \in unprocessed
        fresh == {k \in 1 .. posy : new(k) /\ \A m \in 1 .. k - 1 : new(m) => next(m) # next(k)}
    IN Elements([k \in 1 .. posy |-> next(k)], fresh)

(* The faces of a component, from one of them on. *)
Component(opposite, start, unprocessed) ==
    LET after[n \in 0 .. Len(out)] ==
            IF n = 0 THEN <<start>>
            ELSE LET queued == after[n - 1]
                 IN IF n > Len(queued) THEN queued
                    ELSE queued \o Neighbors(opposite, queued[n], unprocessed \ Range(queued))
    IN after[Len(out)]

(* The orders that the search may find. *)
FaceOrders(opposite) ==
    LET after[n \in 0 .. Len(out)] ==
            IF n = 0 THEN {<< >>}
            ELSE UNION {LET unprocessed == DOMAIN out \ Range(order)
                        IN IF unprocessed = {} THEN {order}
                           ELSE {order \o Component(opposite, f, unprocessed) : f \in Beginning(unprocessed)} :
                            order \in after[n - 1]}
    IN after[Len(out)]

(* Vertices are numbered when they are first met. *)
Numbered(faces) ==
    LET met == FlattenSeq(faces)
        first == {k \in DOMAIN met : \A m \in 1 .. k - 1 : met[m] # met[k]}
        number(v) == Cardinality({k \in first : k < (CHOOSE m \in first : met[m] = v)})
    IN [f \in DOMAIN faces |-> [k \in DOMAIN faces[f] |-> number(faces[f][k])]]

Reorder ==
    /\ stage = "reorder"
    /\ \E opposite \in OppositeEdges(out) : \E order \in FaceOrders(opposite) :
         LET faces == [n \in DOMAIN order |-> out[order[n]]]
         IN /\ out' = Numbered(faces)
            /\ nOut' = Cardinality(UNION {Range(face) : face \in Range(out)})
            /\ Nf' = [n \in DOMAIN order |-> Nf[order[n]]]
    /\ copies' = << >>
    /\ stage' = "end"
    /\ UNCHANGED <<vars, graph>>

-----------------------------------------------------------------------------
Ended == stage = "end" /\ UNCHANGED allvars

Step ==
    \/ Snap \/ Orient \/ FindFaces \/ SanitizeFirst \/ FaceNormals
    \/ SanitizeLate \/ SanitizeFinal \/ Reorder

ExtractionNext == Step \/ Ended

(* A single thread goes on as long as it can: weak fairness of Step, with  *)
(* its ENABLED written out, which TLC would be slow to evaluate.  Step is  *)
(* possible until the end, as the check for deadlock shows.                *)
GoesOn == []<>(stage = "end") \/ []<><<Step>>_allvars

ExtractionSpec == ExtractionInit /\ [][ExtractionNext]_allvars /\ GoesOn

-----------------------------------------------------------------------------
(* Both do-while loops of step 5, all walks without a bound of step 8 and  *)
(* the rest come to an end: an edge that a vertex was moved onto is gone,  *)
(* and a removed diagonal never leads to one that was removed before       *)
(* (extract.cpp:328-498, 551-573).                                         *)
ExtractionEnds == <>(stage = "end")

(* What the sanitizer leaves: faces with distinct corners, no two with the *)
(* same, around every vertex one fan, and the faces of before that had     *)
(* three corners or four, each once, with their normals.  That is          *)
(* if no triangle is torn: if its third corner gets a new vertex, the      *)
(* fourth does not, and it is a quad from then on.  Of quads alone no      *)
(* triangle is left (extraction_sanitizer.cpp:29-212, 203-207, 505-520,    *)
(* extract.cpp:896-898).                                                   *)
OriginOf(v) == IF v < nV THEN v ELSE copies[v - nV + 1]
Origins(face) == {OriginOf(v) : v \in Corners(face)}
Sanitized == stage \in {"final", "reorder"} \/ (stage = "normals" /\ (pure_quad \/ irregular_faces = << >>))

DistinctFaces ==
    /\ \A face \in Range(out) : Cardinality(Corners(face)) = Degree(face)
    /\ \A f, g \in DOMAIN out : Corners(out[f]) = Corners(out[g]) => f = g
OneFan == \A v \in 0 .. nOut - 1 : Cardinality(FansAt(out, v)) <= 1

KeepsFaces ==
    {Origins(face) : face \in Range(out)} = {Corners(face) : face \in Range(Deduplicated(F)) \ {Invalid}}

TriangleTorn ==
    LET faces == Deduplicated(F)
    IN posy = 4 /\ \E f \in DOMAIN faces : faces[f] # Invalid
                    /\ Degree(faces[f]) = 3 /\ Cardinality(FansAt(faces, faces[f][3])) > 1

(* Nothing moves the normals when the sanitizer comes after them. *)
FacesDropped == \E f \in DOMAIN F : Deduplicated(F)[f] = Invalid
KeepsNormals == \A f \in DOMAIN out : {OriginOf(v) : v \in Nf[f]} = Origins(out[f])

(* Where step 10 throws otherwise. *)
NoTriangles == pure_quad => \A face \in Range(out) : Degree(face) = 4

OutputIsClean ==
    /\ Sanitized => DistinctFaces /\ NoTriangles
    /\ Sanitized /\ ~TriangleTorn => OneFan /\ KeepsFaces
    /\ stage = "reorder" /\ (pure_quad \/ ~FacesDropped) => KeepsNormals

(* The result is the same mesh, with the faces in another order and the    *)
(* vertices under other numbers, none left out and none without a face,    *)
(* and every face has kept its normal (reorder.cpp:53-106).                *)
SameMesh ==
    LET old == {[normal |-> Nf[f], face |-> out[f]] : f \in DOMAIN out}
        new == [n \in DOMAIN out' |-> CHOOSE x \in old : x.normal = Nf'[n]]
        renamed == UNION {{<<new[n].face[k], out'[n][k]>> : k \in 1 .. posy} : n \in DOMAIN out'}
    IN /\ Len(out') = Len(out)
       /\ {new[n] : n \in DOMAIN out'} = old
       /\ \A p, q \in renamed : p[1] = q[1] <=> p[2] = q[2]
       /\ {p[2] : p \in renamed} = 0 .. nOut' - 1

ReorderKeepsMesh == [][stage = "reorder" => SameMesh]_allvars
=============================================================================
