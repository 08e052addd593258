-------------------------- MODULE MCViewerSession ---------------------------
(* Sessions for ViewerSession. *)
EXTENDS ViewerSession

(* The brush with one more mesh and two levels; each attractor with the    *)
(* first mesh, and the level its strokes are applied to.                   *)
SmallSessions == {
    [tools |-> {"edge"}, meshes |-> 2, levels |-> 2, saves |-> FALSE],
    [tools |-> {"attractO"}, meshes |-> 1, levels |-> 1, saves |-> FALSE],
    [tools |-> {"attractP"}, meshes |-> 1, levels |-> 1, saves |-> FALSE],
    [tools |-> {}, meshes |-> 1, levels |-> 2, saves |-> TRUE]}

(* A stroke and a reload: the smallest session in which an edit can        *)
(* survive.                                                                *)
EditSession == {[tools |-> {"attractO"}, meshes |-> 2, levels |-> 1, saves |-> FALSE]}
=============================================================================
