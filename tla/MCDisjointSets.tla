--------------------------- MODULE MCDisjointSets ---------------------------
(* Small instances of DisjointSets, and what it implements. *)
EXTENDS DisjointSets

CONSTANTS Nobody

(* The loop of extract.cpp over four vertices, that of adjacency.cpp over  *)
(* three points.                                                           *)
SmallUses == {
    [ops |-> {"find", "lock"}, ids |-> 0 .. 3],
    [ops |-> {"find", "unite"}, ids |-> 0 .. 2]}

(* No loop of the program locks and unites (extract.cpp:68-169,            *)
(* adjacency.cpp:247-261).                                                 *)
ASSUME LoopsAssumption == \A u \in Uses : "lock" \notin u.ops \/ "unite" \notin u.ops

(* The root above each entry. *)
Roots[x \in Ids] == IF parent(x) = x THEN x ELSE Roots[parent(x)]

HolderOf(x) == IF \E w \in Workers : x \in held[w] THEN CHOOSE w \in Workers : x \in held[w] ELSE Nobody

Sets == INSTANCE LockedSets WITH
    rep <- Roots,
    holder <- [x \in Ids |-> HolderOf(x)]

(* Whatever the threads do, the array is a partition with locks whose      *)
(* parts change only by a join of two whole parts, under both locks or     *)
(* with neither locked; path halving changes nothing (dset.h:30-155).      *)
ImplementsLockedSets == Sets!Spec
=============================================================================
