--------------------------- MODULE MeshPreparation ---------------------------
(***************************************************************************)
(* What RetopoEngine::execute (src/src/retopo_engine.cpp) does with its    *)
(* input before the fields are solved; batch.cpp and the viewer make the   *)
(* same calls.  A mesh gets its directed edges (DirectedEdge), is          *)
(* subdivided if it is too coarse (Subdivide), gets its directed edges     *)
(* again, and its vertices are linked (Adjacency).  The points of a cloud  *)
(* are linked with their neighbors (PointCloud).  From the links, the      *)
(* levels of the hierarchy follow (DownsampleGraph).                       *)
(*                                                                         *)
(* The second build_dedge is one step that chooses one of the results the  *)
(* first, detailed one is shown to give (BuildsEdgeMap).                   *)
(***************************************************************************)
EXTENDS DirectedEdge, Integers, Sequences, SequencesExt

CONSTANTS
    Position,           \* V: the points of each mesh
    MaxLengths,         \* the maximum lengths, squared, a subdivision is asked for
    Clouds, SmallestShare, MaxDepth,
    LargestHierarchy    \* only graphs up to this size get a hierarchy here

ASSUME TrianglesAssumption == Deg = 3
ASSUME PositionAssumption == \A m \in Meshes : DOMAIN Position[m] = 0 .. VertexCount[m] - 1
(* The points of a cloud have the numbers 0 .. V.cols() - 1, and there is one. *)
ASSUME CloudsAssumption ==
    \A found \in Clouds :
        /\ IsFiniteSet(DOMAIN found) /\ DOMAIN found # {}
        /\ DOMAIN found = 0 .. Cardinality(DOMAIN found) - 1
        /\ found \in [DOMAIN found -> SUBSET (DOMAIN found)]
ASSUME HierarchyAssumption == MaxDepth \in Nat \ {0} /\ LargestHierarchy \in Nat

VARIABLES
    stage,              \* the call under way
    mesh, queue, maxLength,
    adj_sets, adj_size, adj, left, back,
    levels, collapsed, copying

Sub == INSTANCE Subdivide
Links == INSTANCE Adjacency
Cloud == INSTANCE PointCloud
Down == INSTANCE DownsampleGraph

subdivision == <<mesh, queue, maxLength>>
cloud == <<adj_sets, adj_size, adj, left, back>>
hierarchy == <<levels, collapsed, copying>>
preparation == <<vars, stage, subdivision, cloud, hierarchy>>

PreparationInit ==
    /\ Init
    /\ stage = IF F = << >> THEN "points" ELSE "mesh"
    /\ mesh = << >> /\ queue = {} /\ maxLength = 0
    /\ adj_sets = << >> /\ adj_size = << >> /\ adj = << >> /\ left = << >> /\ back = << >>
    /\ levels = << >> /\ collapsed = << >> /\ copying = FALSE

-----------------------------------------------------------------------------
BuildStep ==
    /\ stage = "mesh"
    /\ Next
    /\ UNCHANGED <<stage, subdivision, cloud, hierarchy>>

Built == [F |-> F, V |-> Position[F], V2E |-> V2E, E2E |-> E2E,
          nonManifold |-> nonManifold, boundary |-> boundary]

(* The lists of build_dedge are freed. *)
Free ==
    /\ first' = [e \in Edges |-> 0] /\ second' = first'
    /\ pc' = [w \in Workers |-> "idle"] /\ cur' = [w \in Workers |-> 0]
    /\ idx' = [w \in Workers |-> INVALID]
    /\ UNCHANGED <<F, V2E, result, pass, todo, thrown>>

(* The mesh is fine enough, or there is a maximum length. *)
FineEnough ==
    /\ stage = "mesh" /\ pass = "done"
    /\ Free
    /\ mesh' = Built
    /\ stage' = "links"
    /\ UNCHANGED <<queue, maxLength, cloud, hierarchy>>

TooCoarse ==
    /\ stage = "mesh" /\ pass = "done"
    /\ Free
    /\ maxLength' \in MaxLengths
    /\ Sub!Begin(Built)
    /\ stage' = "subdivide"
    /\ UNCHANGED <<cloud, hierarchy>>

SubdivideStep ==
    /\ stage = "subdivide"
    /\ Sub!Skip \/ Sub!SplitLongest
    /\ UNCHANGED <<vars, stage, cloud, hierarchy>>

BuildAgain ==
    /\ stage = "subdivide" /\ queue = {}
    /\ \E m \in EdgeMapsOf(mesh.F, DOMAIN mesh.V) : mesh' = m @@ mesh
    /\ stage' = "links"
    /\ UNCHANGED <<vars, queue, maxLength, cloud, hierarchy>>

LinkVertices ==
    /\ stage = "links"
    /\ Down!BeginLevels([v \in DOMAIN mesh.V |->
            [k \in DOMAIN Links!LinksOf(mesh, v) |-> [id |-> Links!LinksOf(mesh, v)[k], weight |-> 1]]])
    /\ stage' = "levels"
    /\ UNCHANGED <<vars, subdivision, cloud>>

(* A cloud has no faces. *)
SearchNeighbors ==
    /\ stage = "points"
    /\ \E found \in Clouds : Cloud!Prepare(found)
    /\ stage' = "lists"
    /\ UNCHANGED <<vars, subdivision, hierarchy>>

LinkPoints ==
    /\ stage = "lists"
    /\ \E i \in Cloud!Points : Cloud!WriteLink(i) \/ Cloud!WriteBack(i)
    /\ UNCHANGED <<vars, stage, subdivision, hierarchy>>

PointsAreLinked ==
    /\ stage = "lists" /\ Cloud!Filled
    /\ Down!BeginLevels([i \in Cloud!Points |->
            [k \in DOMAIN adj[i] |-> [id |-> adj[i][k], weight |-> 1]]])
    /\ stage' = "levels"
    /\ UNCHANGED <<vars, subdivision, cloud>>

BuildLevels ==
    /\ stage = "levels"
    /\ Cardinality(DOMAIN levels[1].adj) <= LargestHierarchy
    /\ Down!LevelStep
    /\ UNCHANGED <<vars, stage, subdivision, cloud>>

Prepared ==
    /\ stage = "levels"
    /\ Cardinality(DOMAIN levels[1].adj) <= LargestHierarchy => ~Down!More
    /\ UNCHANGED preparation

PreparationNext ==
    \/ BuildStep \/ FineEnough \/ TooCoarse \/ SubdivideStep \/ BuildAgain \/ LinkVertices
    \/ SearchNeighbors \/ LinkPoints \/ PointsAreLinked \/ BuildLevels \/ Prepared

PreparationSpec == PreparationInit /\ [][PreparationNext]_preparation

-----------------------------------------------------------------------------
Cross(p, q) == p[1] * q[2] - p[2] * q[1]
Area(faces, V) ==
    FoldSet(LAMBDA f, sum :
                sum + Cross(Sub!Minus(V[faces[f][1]], V[faces[f][0]]), Sub!Minus(V[faces[f][2]], V[faces[f][0]])),
            0, DOMAIN faces)

(* On a mesh without marked vertices, the directed edges and boundary      *)
(* flags that the splits keep up to date are at any time those that        *)
(* build_dedge would find, and the surface stays covered once: no split    *)
(* opens a crack or lets faces overlap (subdivide.cpp:97-154).  The two    *)
(* sides of one triangle are no such mesh: their halves meet in one edge.  *)
(* Neither is a face with two equal corners, which can be split from both  *)
(* sides of an edge at once.                                               *)
IsComplex(faces) ==
    /\ \A f \in DOMAIN faces : IsInjective(faces[f])
    /\ \A f, g \in DOMAIN faces : f # g => Range(faces[f]) # Range(faces[g])

SubdivisionConforms ==
    stage = "subdivide" /\ IsComplex(F) /\ (\A v \in DOMAIN nonManifold : ~nonManifold[v]) =>
        /\ \E m \in EdgeMapsOf(mesh.F, DOMAIN mesh.V) :
                m.E2E = mesh.E2E /\ m.boundary = mesh.boundary
        /\ \A v \in DOMAIN mesh.V : mesh.V2E[v] # INVALID => SourceIn(mesh.F, mesh.V2E[v]) = v
        /\ Area(mesh.F, mesh.V) = Area(F, Position[F])

(* When the queue is empty no edge is too long, unless an end was marked   *)
(* from the start: each edge is only queued from one side, and its number  *)
(* may have passed to another edge when its turn comes                     *)
(* (subdivide.cpp:46-53, 85-90, 156-169).                                  *)
Marked(v) == v \in DOMAIN nonManifold /\ nonManifold[v]

EdgesAreShort ==
    stage = "subdivide" /\ queue = {} =>
        \A e \in EdgesOf(mesh.F) :
            \/ Sub!Length(mesh, e) <= maxLength
            \/ Marked(SourceIn(mesh.F, e)) \/ Marked(TargetIn(mesh.F, e))

(* The links of a vertex fit into the range that was counted for them.     *)
(* They lead to all its neighbors, once, and each of these has a link back *)
(* - unless one of the two is marked, has more than one fan of faces, or a *)
(* face with two equal corners: there a vertex is linked with itself       *)
(* (adjacency.cpp:35-51, 70-90).                                           *)
Around(v) == {TargetIn(mesh.F, e) : e \in OutgoingIn(mesh.F, v)}
                \cup {SourceIn(mesh.F, e) : e \in {x \in ProperEdges(mesh.F) : TargetIn(mesh.F, x) = v}}
IsFan(v) ==
    /\ ~mesh.nonManifold[v]
    /\ \A f \in DOMAIN mesh.F : v \in Range(mesh.F[f]) => IsInjective(mesh.F[f])
    /\ \E e \in OutgoingIn(mesh.F, v) : Visited(mesh.E2E, e) = OutgoingIn(mesh.F, v)

LinksAreNeighbors ==
    stage = "links" =>
        \A v \in DOMAIN mesh.V :
            LET linked == Links!LinksOf(mesh, v)
            IN /\ Len(linked) = Links!neighborhoodSize(mesh, v)
               /\ IsFan(v) =>
                    /\ Range(linked) = Around(v)
                    /\ Cardinality(Range(linked)) = Len(linked)
                    /\ \A u \in Range(linked) : IsFan(u) => v \in Range(Links!LinksOf(mesh, u))

(* No list of a point outgrows the place that was counted for it while the *)
(* threads fill it, and at the end it is full.  The links are mutual,      *)
(* never double, and stay within a component; only small components have   *)
(* none (adjacency.cpp:264-277, 306-331).                                  *)
PointLinksAreMutual ==
    stage = "lists" =>
        \A i \in Cloud!Points :
            IF adj_size[i] = INVALID THEN adj[i] = << >>
            ELSE /\ Len(adj[i]) <= adj_size[i]
                 /\ IsInjective(adj[i])
                 /\ Cloud!Filled =>
                        /\ Len(adj[i]) = adj_size[i]
                        /\ \A k \in Range(adj[i]) : i \in Range(adj[k])

(* The levels cover each other, and pairs were linked and matched as far   *)
(* as possible (hierarchy.cpp:67-130).                                     *)
LevelsCover == stage = "levels" => Down!LevelsMatch

(* The links of a level carry all the weight of the finer one              *)
(* (hierarchy.cpp:132-203).                                                *)
WeightsConform == stage = "levels" => Down!WeightsAddUp

(* Links lead to the neighbors, on the first level and on the coarser ones *)
(* (adjacency.cpp:35-90, hierarchy.cpp:132-203).                           *)
LinksConform == LinksAreNeighbors /\ WeightsConform
=============================================================================
