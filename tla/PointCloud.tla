----------------------------- MODULE PointCloud -----------------------------
(***************************************************************************)
(* generate_adjacency_matrix_pointcloud of src/src/adjacency.cpp: without  *)
(* a mesh, a point is linked with its nearest neighbors and with those it  *)
(* is a nearest neighbor of.  Small components are given up.               *)
(*                                                                         *)
(* The searches are independent of each other, and joining sets commutes   *)
(* (LockedSets): together they are one step.  The threads that write the   *)
(* links meet in the adj of their points: there every write is a step.     *)
(* Nothing depends on the order in which the searches return the points:   *)
(* it is left open.                                                        *)
(***************************************************************************)
EXTENDS Naturals, FiniteSets, Sequences

CONSTANTS
    Clouds,             \* for each cloud, what findKNearest returns for its points
    SmallestShare,      \* a component with fewer points than 1/SmallestShare is small (100)
    INVALID

VARIABLES
    adj_sets,           \* the nearest neighbors of each point
    adj_size,           \* the size of its list, INVALID for a point that is given up
    adj,                \* its list: the links written so far, up to adj_offset
    left,               \* the neighbors the loop over its adj_set has left
    back                \* the neighbor whose link back is under way, or INVALID

cloudvars == <<adj_sets, adj_size, adj, left, back>>

Points == DOMAIN adj_sets

(* Who is near whom, without regard to the direction, gives the sets.      *)
Component(near, i) ==
    LET step(set) == set \cup {k \in DOMAIN near : \E x \in set : k \in near[x] \/ x \in near[k]}
        reach[n \in 0 .. Cardinality(DOMAIN near)] == IF n = 0 THEN {i} ELSE step(reach[n - 1])
    IN reach[Cardinality(DOMAIN near)]

(* Mutant of AddedTo: also those that it has as a neighbor itself. *)
AddedToAll(near, k) == {i \in DOMAIN near : k \in near[i]}

(* Those that have k as a neighbor, but not the other way. *)
AddedTo(near, k) == {i \in DOMAIN near : k \in near[i] /\ i \notin near[k]}

IsSmall(near, i) == Cardinality(Component(near, i)) * SmallestShare < Cardinality(DOMAIN near)

(* The searches, the counts, and the allocation. *)
Prepare(found) ==
    LET near == [i \in DOMAIN found |-> found[i] \ {i}]
    IN /\ adj_sets' = near
       /\ adj_size' = [i \in DOMAIN near |->
            IF IsSmall(near, i) THEN INVALID ELSE Cardinality(near[i]) + Cardinality(AddedTo(near, i))]
       /\ adj' = [i \in DOMAIN near |-> << >>]
       /\ left' = near
       /\ back' = [i \in DOMAIN near |-> INVALID]

Pending(i) == adj_size[i] # INVALID /\ left[i] # {}

WriteLink(i) ==
    /\ Pending(i) /\ back[i] = INVALID
    /\ \E k \in left[i] :
         /\ adj' = [adj EXCEPT ![i] = Append(@, k)]
         /\ IF i \in adj_sets[k]
            THEN left' = [left EXCEPT ![i] = @ \ {k}] /\ UNCHANGED back
            ELSE back' = [back EXCEPT ![i] = k] /\ UNCHANGED left
    /\ UNCHANGED <<adj_sets, adj_size>>

WriteBack(i) ==
    /\ Pending(i) /\ back[i] # INVALID
    /\ adj' = [adj EXCEPT ![back[i]] = Append(@, i)]
    /\ left' = [left EXCEPT ![i] = @ \ {back[i]}]
    /\ back' = [back EXCEPT ![i] = INVALID]
    /\ UNCHANGED <<adj_sets, adj_size>>

Filled == \A i \in Points : ~Pending(i)
=============================================================================
