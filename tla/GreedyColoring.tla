--------------------------- MODULE GreedyColoring ---------------------------
(***************************************************************************)
(* What the colouring of a level of the hierarchy promises: the vertices   *)
(* take the smallest colour that none of their neighbours has, one after   *)
(* the other, in an order nobody chose.                                    *)
(*                                                                         *)
(* With its fixed pseudo-random order this is also, step by step, the      *)
(* sequential generate_graph_coloring_deterministic of                     *)
(* src/src/hierarchy.cpp.                                                  *)
(***************************************************************************)
EXTENDS Naturals

CONSTANTS
    Vertices,           \* the vertices of the level
    Adj,                \* Adj[v]: the vertices v has a link to
    Uncolored           \* the colour of a vertex before it has one

VARIABLE color          \* colour of each vertex, or Uncolored

ColorsAround(v) == {color[u] : u \in Adj[v]} \ {Uncolored}

(* The first colour that is not around v is 0 or follows one that is. *)
FirstFree(v) ==
    {c \in {0} \cup {d + 1 : d \in ColorsAround(v)} :
        c \notin ColorsAround(v) /\ 0 .. c - 1 \subseteq ColorsAround(v)}

Init == color = [v \in Vertices |-> Uncolored]

ColorVertex(v) ==
    /\ color[v] = Uncolored
    /\ \E c \in FirstFree(v) : color' = [color EXCEPT ![v] = c]

Next == \E v \in Vertices : ColorVertex(v)

Spec == Init /\ [][Next]_color
=============================================================================
