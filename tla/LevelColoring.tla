---------------------------- MODULE LevelColoring ----------------------------
(***************************************************************************)
(* All of generate_graph_coloring (src/src/hierarchy.cpp): the threads     *)
(* first shuffle the vertices (ParallelShuffle), then colour them          *)
(* (GraphColoring).  Both loops use the same mutexes.                      *)
(***************************************************************************)
EXTENDS GraphColoring

ASSUME NumberedAssumption == Vertices = 0 .. Cardinality(Vertices) - 1

VARIABLES
    loop,               \* which of the two loops runs
    perm,               \* the order of the vertices
    range,              \* the entries of perm no worker has shuffled yet
    swap,               \* where each worker is in the first loop
    j, k, tmp           \* and its local variables there

shufflevars == <<perm, range, swap, j, k, tmp>>
levelvars == <<vars, loop, shufflevars>>

Shuffle == INSTANCE ParallelShuffle WITH
    Size <- Cardinality(Vertices), todo <- range, pc <- swap

LevelInit == Init /\ Shuffle!Init /\ loop = "shuffle"

ShuffleStep(w) ==
    /\ loop = "shuffle"
    /\ Shuffle!Worker(w)
    /\ UNCHANGED <<loop, doubled, color, todo, pc, cur, left, used, data, total, phases>>

(* The second loop begins.  It hands out the ranges of perm in any order,  *)
(* so that the order perm has got is not looked at: it is forgotten.       *)
ColoringBegins ==
    /\ loop = "shuffle"
    /\ Shuffle!Done
    /\ loop' = "color"
    /\ perm' = [i \in Vertices |-> i]
    /\ j' = [w \in Workers |-> 0] /\ k' = j' /\ tmp' = j'
    /\ UNCHANGED <<vars, range, swap>>

InLoop(A) == loop = "color" /\ A /\ UNCHANGED <<loop, shufflevars>>

LevelNext ==
    \/ \E w \in Workers : ShuffleStep(w)
    \/ ColoringBegins
    \/ InLoop(Next)

LevelSpec == LevelInit /\ [][LevelNext]_levelvars

(* Every thread keeps running, as in GraphColoring. *)
LevelFairSpec ==
    /\ LevelSpec
    /\ WF_levelvars(ColoringBegins)
    /\ WF_levelvars(InLoop(Collect))
    /\ \A w \in Workers : WF_levelvars(ShuffleStep(w)) /\ WF_levelvars(InLoop(Worker(w)))

-----------------------------------------------------------------------------
(* No vertex is lost or coloured twice, however the swaps overlap, and the *)
(* phases have the sizes the joined counts reserve for them                *)
(* (hierarchy.cpp:293-310, 321, 369-386).                                  *)
EveryVertexHasItsPlace == Shuffle!TypeOK /\ Shuffle!StaysPermutation /\ PhasesAreCounted
=============================================================================
