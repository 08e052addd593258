-------------------------- MODULE MCCollapseGraph ---------------------------
(* Small graphs to collapse, places for the clusters they leave, and what  *)
(* the collapse implements.                                                *)
EXTENDS ExtractGraph, TLC

(* Three clusters of two in a row, the first and the second joined by two  *)
(* links.                                                                  *)
ThreeClusters == [same |-> {<<0, 1>>, <<2, 3>>, <<4, 5>>}, next |-> {<<1, 2>>, <<0, 3>>, <<3, 4>>}]

(* A triangle that collapses, the last edge inside the cluster. *)
Triangle == [same |-> {<<0, 1>>, <<1, 2>>, <<0, 2>>}, next |-> {<<2, 3>>}]

(* A ring that collapses except between two vertices that are kept apart:  *)
(* two edges are refused, and which ones depends on the order.             *)
Ring == [same |-> {<<0, 1>>, <<1, 2>>, <<2, 3>>, <<3, 4>>, <<0, 4>>}, next |-> {<<0, 2>>}]

SmallInputs == {ThreeClusters, Triangle, Ring}

(* The first cluster lies close to the edge between the other two, close   *)
(* to its end, or far away.                                                *)
Corners(a, b, c) == [n \in Ids |-> CASE n = 0 -> a [] n = 1 -> b [] n = 2 -> c [] OTHER -> <<0, 0>>]
Layouts == {
    Corners(<<32, 16>>, <<0, 0>>, <<96, 0>>),
    Corners(<<16, 0>>, <<0, 0>>, <<80, 0>>),
    Corners(<<0, 80>>, <<0, 0>>, <<80, 0>>)}

MarkedVertices == {{}, {0, 2}, {1, 3, 5}}

(* An edge is decided when it is dropped, found in conflict, or united. *)
Undecided(w) == pc[w] \in {"first", "second", "check", "gather", "merge", "unite"}
                    \/ (pc[w] = "release" /\ ~Inside(w))

Open ==
    IF phase = "classify" THEN input.same
    ELSE IF phase = "collapse" THEN todo \cup {item[w] : w \in {v \in Workers : Undecided(v)}}
    ELSE {}

Collapse == INSTANCE GreedyCollapse WITH open <- Open

(* However the threads interleave, the clusters are those of some order of *)
(* the edges, each decided once (extract.cpp:110-171).                     *)
ImplementsGreedyCollapse == Collapse!Spec

(* The promise of unite_unlock, "no other concurrent unite() involving the *)
(* same sets", is kept: every use of dset is one that LockedSets allows    *)
(* (dset.h:137-140).                                                       *)
UsesLockedSets == Sets!Spec
=============================================================================
