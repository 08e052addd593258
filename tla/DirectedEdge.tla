---------------------------- MODULE DirectedEdge ----------------------------
(***************************************************************************)
(* build_dedge of src/src/dedge.cpp: from the faces of a mesh, in three    *)
(* parallel passes, for every edge its opposite (E2E) and for every vertex *)
(* an outgoing edge (V2E).                                                 *)
(*                                                                         *)
(* Pass 1 chains the outgoing edges of every vertex into a list, without   *)
(* locks, by compare-and-exchange.  Pass 2 searches the lists for opposite *)
(* edges.  Pass 3 turns around every vertex, backwards, to find its first  *)
(* edge.  A pass only starts when the one before it is complete.  What a   *)
(* pass only reads does not change while it runs, so the searches of       *)
(* passes 2 and 3 are one step each.                                       *)
(***************************************************************************)
EXTENDS EdgeMaps

CONSTANTS
    Meshes,             \* the matrices F
    VertexCount,        \* V.cols() for each of them
    Workers,            \* the threads
    Threads             \* how many of them work on each mesh

(* The faces of a mesh have the numbers 0 .. F.cols() - 1. *)
ASSUME FacesAssumption ==
    \A m \in Meshes : IsFiniteSet(DOMAIN m) /\ DOMAIN m = 0 .. Cardinality(DOMAIN m) - 1
ASSUME VertexCountAssumption == VertexCount \in [Meshes -> Nat \ {0}]
ASSUME ThreadsAssumption == Threads \in [Meshes -> Nat \ {0}]

VARIABLES
    F,                  \* the mesh
    V2E, E2E,           \* the result
    nonManifold, boundary,
    first, second,      \* tmp: the target of an edge and the next edge of its list
    pass,               \* the pass under way, "done" or "failed"
    todo,               \* the faces the current pass has left
    pc,                 \* where each worker is
    cur,                \* the edge each worker works on
    idx,                \* its place in a list, or the opposite it has found
    thrown              \* a worker has met an out-of-bounds vertex

lists  == <<V2E, first, second>>
result == <<E2E, nonManifold, boundary>>
locals == <<pc, cur, idx>>
vars   == <<F, lists, result, pass, todo, locals, thrown>>

Faces == DOMAIN F
Edges == EdgesOf(F)
Vertices == 0 .. VertexCount[F] - 1

Source(e) == SourceIn(F, e)
Target(e) == TargetIn(F, e)
Degenerate(e) == Source(e) = Target(e)

(* The edges of the list of v. *)
ListOf(v) ==
    LET walk[n \in 0 .. Cardinality(Edges)] ==
            IF n = 0 THEN V2E[v]
            ELSE LET it == walk[n - 1] IN IF it = INVALID THEN INVALID ELSE second[it]
    IN {walk[n] : n \in 0 .. Cardinality(Edges)} \ {INVALID}

-----------------------------------------------------------------------------
Pcs == {"idle", "edge", "head cas", "head", "tail cas", "tail",
        "flag", "link", "link back", "thrown"}

TypeOK ==
    /\ F \in Meshes
    /\ V2E \in [Vertices -> Edges \cup {INVALID}]
    /\ E2E \in [Edges -> Edges \cup {INVALID}]
    /\ nonManifold \in [Vertices -> BOOLEAN]
    /\ boundary \in [Vertices -> BOOLEAN]
    /\ first \in [Edges -> Vertices]
    /\ second \in [Edges -> Edges \cup {INVALID}]
    /\ pass \in {"insert", "search", "turn", "done", "failed"}
    /\ todo \subseteq Faces
    /\ pc \in [Workers -> Pcs]
    /\ cur \in [Workers -> Edges \cup {0}]
    /\ idx \in [Workers -> Edges \cup {INVALID}]
    /\ thrown \in BOOLEAN

Init ==
    /\ F \in Meshes
    /\ V2E = [v \in Vertices |-> INVALID]
    /\ E2E = [e \in Edges |-> INVALID]
    /\ nonManifold = [v \in Vertices |-> FALSE]
    /\ boundary = [v \in Vertices |-> FALSE]
    /\ first = [e \in Edges |-> 0]
    /\ second = [e \in Edges |-> 0]
    /\ pass = "insert"
    /\ todo = Faces
    /\ pc = [w \in Workers |-> "idle"]
    /\ cur = [w \in Workers |-> 0]
    /\ idx = [w \in Workers |-> INVALID]
    /\ thrown = FALSE

-----------------------------------------------------------------------------
(* The loops over the faces, of passes 1 and 2.                            *)

TakeFace(w) ==
    /\ pass \in {"insert", "search"}
    /\ pc[w] = "idle"
    /\ Cardinality({x \in Workers : pc[x] # "idle"}) < Threads[F]
    /\ \E f \in todo :
         /\ todo' = todo \ {f}
         /\ cur' = [cur EXCEPT ![w] = Deg * f]
    /\ pc' = [pc EXCEPT ![w] = "edge"]
    /\ UNCHANGED <<F, lists, result, pass, idx, thrown>>

(* On to the next edge of the face, or to the end of the face. *)
Advance(w) ==
    /\ idx' = [idx EXCEPT ![w] = INVALID]
    /\ IF cur[w] % Deg = Deg - 1
       THEN pc' = [pc EXCEPT ![w] = "idle"] /\ cur' = [cur EXCEPT ![w] = 0]
       ELSE pc' = [pc EXCEPT ![w] = "edge"] /\ cur' = [cur EXCEPT ![w] = @ + 1]

(* On with this edge, with a place that was read. *)
With(w, place, where) ==
    /\ idx' = [idx EXCEPT ![w] = place]
    /\ pc' = [pc EXCEPT ![w] = where]
    /\ UNCHANGED cur

Goto(w, where) == With(w, idx[w], where)

OutOfBounds(e) == Source(e) \notin Vertices \/ Target(e) \notin Vertices

(* Pass 1: the entry of the edge is prepared ... *)
BeginInsert(w) ==
    /\ pass = "insert"
    /\ pc[w] = "edge"
    /\ LET e == cur[w]
       IN \/ /\ OutOfBounds(e)
             /\ thrown' = TRUE
             /\ Goto(w, "thrown")
             /\ UNCHANGED <<first, second>>
          \/ /\ ~OutOfBounds(e)
             /\ IF Degenerate(e)
                THEN Advance(w) /\ UNCHANGED <<first, second>>
                ELSE /\ first' = [first EXCEPT ![e] = Target(e)]
                     /\ second' = [second EXCEPT ![e] = INVALID]
                     /\ Goto(w, "head cas")
             /\ UNCHANGED thrown
    /\ UNCHANGED <<F, V2E, result, pass, todo>>

(* Mutant of HeadCas: the head is stored without a comparison. *)
HeadStore(w) ==
    /\ pc[w] = "head cas"
    /\ V2E' = [V2E EXCEPT ![Source(cur[w])] = cur[w]]
    /\ Advance(w)
    /\ UNCHANGED <<F, first, second, result, pass, todo, thrown>>

(* ... it becomes the head of the list if there is none ... *)
HeadCas(w) ==
    /\ pc[w] = "head cas"
    /\ IF V2E[Source(cur[w])] = INVALID
       THEN V2E' = [V2E EXCEPT ![Source(cur[w])] = cur[w]] /\ Advance(w)
       ELSE Goto(w, "head") /\ UNCHANGED V2E
    /\ UNCHANGED <<F, first, second, result, pass, todo, thrown>>

HeadRead(w) ==
    /\ pc[w] = "head"
    /\ With(w, V2E[Source(cur[w])], "tail cas")
    /\ UNCHANGED <<F, lists, result, pass, todo, thrown>>

(* ... and otherwise it is appended to the last entry. *)
TailCas(w) ==
    /\ pc[w] = "tail cas"
    /\ IF second[idx[w]] = INVALID
       THEN second' = [second EXCEPT ![idx[w]] = cur[w]] /\ Advance(w)
       ELSE Goto(w, "tail") /\ UNCHANGED second
    /\ UNCHANGED <<F, V2E, first, result, pass, todo, thrown>>

TailRead(w) ==
    /\ pc[w] = "tail"
    /\ With(w, second[idx[w]], "tail cas")
    /\ UNCHANGED <<F, lists, result, pass, todo, thrown>>

(* Pass 2: the edges back from the target of e to its source. *)
Opposites(e) == {x \in ListOf(Target(e)) : first[x] = Source(e)}

Search(w) ==
    /\ pass = "search"
    /\ pc[w] = "edge"
    /\ LET e == cur[w]
       IN IF ~Degenerate(e) /\ Cardinality(Opposites(e)) > 1 THEN Goto(w, "flag")
          ELSE IF ~Degenerate(e) /\ \E x \in Opposites(e) : e < x
          THEN \E x \in Opposites(e) : With(w, x, "link")
          ELSE Advance(w)
    /\ UNCHANGED <<F, lists, result, pass, todo, thrown>>

(* Several opposites: both ends are non-manifold. *)
Flag(w) ==
    /\ pc[w] = "flag"
    /\ nonManifold' = [nonManifold EXCEPT ![Source(cur[w])] = TRUE, ![Target(cur[w])] = TRUE]
    /\ Advance(w)
    /\ UNCHANGED <<F, lists, E2E, boundary, pass, todo, thrown>>

(* One opposite: the edge with the smaller number links both ways. *)
Link(w) ==
    /\ pc[w] = "link"
    /\ E2E' = [E2E EXCEPT ![cur[w]] = idx[w]]
    /\ Goto(w, "link back")
    /\ UNCHANGED <<F, lists, nonManifold, boundary, pass, todo, thrown>>

LinkBack(w) ==
    /\ pc[w] = "link back"
    /\ E2E' = [E2E EXCEPT ![idx[w]] = cur[w]]
    /\ Advance(w)
    /\ UNCHANGED <<F, lists, nonManifold, boundary, pass, todo, thrown>>

-----------------------------------------------------------------------------
(* Pass 3, the loop over the vertices, all of them in one step: the turn   *)
(* around a vertex reads no entry that another one writes.                 *)

(* Mutant of Turn: the head of the list stays the first edge. *)
TurnKeepsHead ==
    /\ pass = "turn"
    /\ V2E' = [v \in Vertices |-> IF nonManifold[v] THEN INVALID ELSE V2E[v]]
    /\ boundary' = [v \in Vertices |-> V2E'[v] # INVALID /\ HasBoundary(E2E, V2E[v])]
    /\ pass' = "done"
    /\ UNCHANGED <<F, first, second, E2E, nonManifold, todo, locals, thrown>>

Start(v) == V2E[v] # INVALID /\ ~nonManifold[v]

Turn ==
    /\ pass = "turn"
    /\ \A v \in Vertices : Start(v) => Visited(E2E, V2E[v]) # {}
    /\ V2E' = [v \in Vertices |-> IF Start(v) THEN FirstEdge(E2E, V2E[v]) ELSE INVALID]
    /\ boundary' = [v \in Vertices |-> Start(v) /\ HasBoundary(E2E, V2E[v])]
    /\ pass' = "done"
    /\ UNCHANGED <<F, first, second, E2E, nonManifold, todo, locals, thrown>>

-----------------------------------------------------------------------------
(* A pass is complete when nothing is left of it; an exception ends the    *)
(* call after the threads have come to an end.                             *)
NextPass ==
    /\ \A w \in Workers : pc[w] \in {"idle", "thrown"}
    /\ \/ thrown /\ pass = "insert" /\ pass' = "failed" /\ UNCHANGED todo
       \/ ~thrown /\ todo = {} /\ pass = "insert" /\ pass' = "search" /\ todo' = Faces
       \/ todo = {} /\ pass = "search" /\ pass' = "turn" /\ UNCHANGED todo
    /\ UNCHANGED <<F, lists, result, locals, thrown>>

Worker(w) ==
    \/ TakeFace(w)
    \/ BeginInsert(w) \/ HeadCas(w) \/ HeadRead(w) \/ TailCas(w) \/ TailRead(w)
    \/ Search(w) \/ Flag(w) \/ Link(w) \/ LinkBack(w)

Finished == pass \in {"done", "failed"} /\ UNCHANGED vars

Next == (\E w \in Workers : Worker(w)) \/ Turn \/ NextPass \/ Finished

Spec == Init /\ [][Next]_vars

-----------------------------------------------------------------------------
(* However the insertions overlap, no edge is lost: after pass 1 the list  *)
(* of a vertex has exactly its outgoing edges (dedge.cpp:47-52).           *)
ListsAreComplete == pass = "search" => \A v \in Vertices : ListOf(v) = OutgoingIn(F, v)

(* No insertion is lost, and every list entry is an edge or the end, also  *)
(* when a thread has thrown in between (dedge.cpp:34-64).                  *)
ListInv == TypeOK /\ ListsAreComplete

(* Away from the vertices that were marked, an edge is linked with its     *)
(* only opposite, both ways, whenever there is one - although an edge with *)
(* one opposite may be one of several opposites itself (dedge.cpp:78-96).  *)
OppositesAreMutual ==
    pass \in {"turn", "done"} =>
        \A e \in ProperEdges(F) :
            ~(nonManifold[Source(e)] /\ nonManifold[Target(e)]) =>
                /\ E2E[e] = INVALID <=> ReverseIn(F, e) = {}
                /\ E2E[e] # INVALID => ReverseIn(F, e) = {E2E[e]} /\ E2E[E2E[e]] = e

(* Whatever the order of the insertions, opposites are mutual and the      *)
(* result is one of those that the mesh alone admits: every turn ends, the *)
(* first edge of a vertex is the one without an edge before it or the      *)
(* smallest of its fan, and only several fans, or several claims to one    *)
(* opposite, leave a choice (dedge.cpp:78-139).                            *)
BuildsEdgeMap ==
    /\ OppositesAreMutual
    /\ pass = "done" =>
        [V2E |-> V2E, E2E |-> E2E, nonManifold |-> nonManifold, boundary |-> boundary]
            \in EdgeMapsOf(F, Vertices)
=============================================================================
