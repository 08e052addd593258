--------------------------- MODULE GreedyCollapse ---------------------------
(***************************************************************************)
(* What collapse_edges of extract_graph (src/src/extract.cpp) promises: it *)
(* goes once through the edges of length zero, in any order, and joins the *)
(* clusters at the ends of an edge unless that would join two vertices     *)
(* that are an edge of length one apart.                                   *)
(***************************************************************************)
EXTENDS Naturals

CONSTANTS Ids

VARIABLES
    input,              \* the classified edges: same (collapse) and next (keep)
    rep,                \* the representative of the cluster of each vertex
    open                \* the edges to collapse that are undecided

vars == <<input, rep, open>>

(* An edge to keep leads from cluster a to cluster b. *)
Linked(a, b) ==
    \E e \in input.next : {rep[e[1]], rep[e[2]]} = {a, b}

Init ==
    /\ rep = [x \in Ids |-> x]
    /\ open = input.same

(* One edge is decided; either representative may become the new one. *)
Decide(e) ==
    LET a == rep[e[1]]
        b == rep[e[2]]
    IN /\ open' = open \ {e}
       /\ IF a = b \/ Linked(a, b)
          THEN UNCHANGED rep
          ELSE \E target \in {a, b} :
                 rep' = [x \in Ids |-> IF rep[x] \in {a, b} THEN target ELSE rep[x]]
       /\ UNCHANGED input

Next == \E e \in open : Decide(e)

Spec == Init /\ [][Next]_vars
=============================================================================
