---------------------------- MODULE ExtractGraph ----------------------------
(***************************************************************************)
(* extract_graph (src/src/extract.cpp) up to step 5: the clusters that the *)
(* threads leave (CollapseGraph) get their positions, and the graph they   *)
(* form is snapped by the calling thread alone (Snapping).                 *)
(*                                                                         *)
(* The position of a cluster, a weighted mean of those of its members, is  *)
(* an input.  adj_new is one variable in the code; it is links from step 5 *)
(* on.                                                                     *)
(***************************************************************************)
EXTENDS CollapseGraph

CONSTANTS
    Placements,         \* positions for as many clusters as there can be
    Creases,            \* crease_in and the vertices with constraints
    Thresh              \* thresh, squared

VARIABLES
    posy,               \* an argument that only step 5 looks at: it is chosen there
    snapping,           \* step 5 has begun
    O, links, crease, loop, candidates, changed, changed_inner, given

Snap == INSTANCE Snapping

snapvars == <<O, links, crease, loop, candidates, changed, changed_inner, given>>
allvars == <<vars, posy, snapping, snapvars>>

ASSUME PlacementsAssumption == \A placed \in Placements : DOMAIN placed = Ids

ExtractGraphInit ==
    /\ Init
    /\ posy = 4
    /\ snapping = FALSE
    /\ Snap!Begin(<< >>, << >>, {})

Collapsing ==
    /\ Next /\ phase # "done"
    /\ UNCHANGED <<posy, snapping, snapvars>>

-----------------------------------------------------------------------------
(* Step 4.  A cluster is marked if one of its members was, also if step 3a *)
(* has taken its links.                                                    *)

CreaseOut(crease_in) == {vertex_map[rep[i]] : i \in {x \in crease_in : rep[x] \in DOMAIN vertex_map}}

(* Every vertex has each of its links once. *)
Lists == [n \in Vertices |-> [k \in Vertices |-> IF k \in adj_new[n] THEN 1 ELSE 0]]

AssignPositions ==
    /\ phase = "done" /\ ~snapping
    /\ \E placed \in Placements, crease_in \in Creases :
         /\ O' = [n \in Vertices |-> placed[n]]
         /\ links' = Lists /\ given' = Lists
         /\ crease' = CreaseOut(crease_in)
    /\ loop' = "find" /\ candidates' = {} /\ changed' = FALSE /\ changed_inner' = FALSE
    /\ snapping' = TRUE
    /\ posy' \in {3, 4}
    /\ UNCHANGED vars

-----------------------------------------------------------------------------
SnapStep ==
    /\ snapping
    /\ Snap!SnapStep(posy)
    /\ UNCHANGED <<vars, posy, snapping>>

(* Nothing has changed: step 6 follows (Extraction). *)
Snapped ==
    /\ snapping /\ Snap!LoopDone(posy) /\ ~changed
    /\ UNCHANGED allvars

ExtractGraphNext == Collapsing \/ AssignPositions \/ SnapStep \/ Snapped

ExtractGraphSpec == ExtractGraphInit /\ [][ExtractGraphNext]_allvars

ExtractGraphFairSpec == ExtractGraphSpec /\ Fairness

-----------------------------------------------------------------------------
(* Whatever the threads made of the links and wherever the clusters lie,   *)
(* step 5 finds a graph, and leaves one with the same parts; creases are   *)
(* on vertices that have links, or lost them before (extract.cpp:268-274,  *)
(* 391-416, 424-441, 483-492).                                             *)
GraphIsKept == snapping => Snap!SnappingKeepsGraph
=============================================================================
