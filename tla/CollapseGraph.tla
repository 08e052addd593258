--------------------------- MODULE CollapseGraph ----------------------------
(***************************************************************************)
(* Steps 1 to 3a of extract_graph (src/src/extract.cpp): the links between *)
(* vertices are classified by how far their positions are apart on the     *)
(* integer grid; vertices at the same position are joined into clusters by *)
(* several threads; what remains becomes the graph of the output mesh.     *)
(*                                                                         *)
(* The disjoint sets are used through LockedSets, which DisjointSets       *)
(* implements: rep and holder are its variables, and a call of try_lock,   *)
(* find or unlock is one step: a try_lock that fails has a moment in its   *)
(* interval at which the entry was locked or no root.                      *)
(* Positions only matter through the class of a link, links that are too   *)
(* long are left out.  The edges to collapse are sorted by an error, that  *)
(* is, in some order.                                                      *)
(***************************************************************************)
EXTENDS Naturals, FiniteSets, FiniteSetsExt

CONSTANTS
    Ids,                \* the vertices: 0 .. mRes.size() - 1
    Workers,            \* the threads of the parallel loops
    Nobody,
    Inputs,             \* links <<i, j>>, i < j: [same |-> ..., next |-> ...]
    CounterValues       \* the number of values of a uint16_t

ASSUME IdsAssumption == IsFiniteSet(Ids) /\ Ids = 0 .. Cardinality(Ids) - 1 /\ Ids # {}
ASSUME NobodyAssumption == Nobody \notin Workers
ASSUME CounterAssumption == CounterValues \in Nat \ {0}
ASSUME InputsAssumption ==
    \A i \in Inputs :
        /\ i.same \subseteq Ids \X Ids /\ i.next \subseteq Ids \X Ids
        /\ i.same \cap i.next = {}
        /\ \A e \in i.same \cup i.next : e[1] < e[2]

VARIABLES
    input,
    rep, holder,        \* dset
    adj_new,            \* the neighbors of a vertex, later of a cluster
    nCollapses,         \* how many edges were collapsed into a cluster
    phase,              \* the step under way
    todo,               \* the vertices or edges the current step has left
    pc,                 \* where each worker is
    item,               \* the vertex or the edge it has taken
    edge,               \* that edge between representatives
    left, temp,         \* the links it has not looked at yet, and its neighbors
    vertex_map,         \* the number of a cluster in the output
    invented            \* operator[] had to add an entry to vertex_map

dset == <<rep, holder>>
locals == <<pc, item, edge, left, temp>>
graph == <<adj_new, nCollapses>>
vars == <<input, dset, graph, phase, todo, locals, vertex_map, invented>>

Sets == INSTANCE LockedSets

None == <<0, 0>>

(* A vertex that waits for its turn is written as a pair, like an edge. *)
Items(vertices) == {<<x, x>> : x \in vertices}

Phases == {"classify", "collapse", "assign", "relabel", "clean", "done"}
Pcs == {"idle", "links", "push", "first", "second", "release", "check",
        "skip", "skip second", "gather", "merge", "unite", "unlock"}

TypeOK ==
    /\ input \in Inputs
    /\ rep \in [Ids -> Ids]
    /\ holder \in [Ids -> Workers \cup {Nobody}]
    /\ adj_new \in [Ids -> SUBSET Ids]
    /\ nCollapses \in [Ids -> 0 .. CounterValues - 1]
    /\ phase \in Phases
    /\ todo \subseteq Ids \X Ids
    /\ pc \in [Workers -> Pcs]
    /\ item \in [Workers -> Ids \X Ids]
    /\ edge \in [Workers -> Ids \X Ids]
    /\ left \in [Workers -> SUBSET (Ids \X Ids)]
    /\ temp \in [Workers -> SUBSET Ids]
    /\ DOMAIN vertex_map \subseteq Ids
    /\ invented \in BOOLEAN

Init ==
    /\ input \in Inputs
    /\ Sets!Init
    /\ adj_new = [x \in Ids |-> {}]
    /\ nCollapses = [x \in Ids |-> 0]
    /\ phase = "classify"
    /\ todo = Items(Ids)
    /\ pc = [w \in Workers |-> "idle"]
    /\ item = [w \in Workers |-> None]
    /\ edge = [w \in Workers |-> None]
    /\ left = [w \in Workers |-> {}]
    /\ temp = [w \in Workers |-> {}]
    /\ vertex_map = [x \in {} |-> 0]
    /\ invented = FALSE

Goto(w, place) == pc' = [pc EXCEPT ![w] = place]
Free(x) == holder[x] = Nobody
Lock(w, x) == holder' = [holder EXCEPT ![x] = w] /\ UNCHANGED rep
Unlock(x) == holder' = [holder EXCEPT ![x] = Nobody] /\ UNCHANGED rep

-----------------------------------------------------------------------------
(* Step 1, classify_edges.  A vertex stays locked while its links are      *)
(* classified; the spinning of try_lock is waiting.                        *)

TakeVertex(w) ==
    /\ phase = "classify" /\ pc[w] = "idle"
    /\ \E v \in todo :
         /\ Free(v[1])
         /\ Lock(w, v[1])
         /\ todo' = todo \ {v}
         /\ item' = [item EXCEPT ![w] = v]
         /\ left' = [left EXCEPT ![w] = {e \in input.same \cup input.next : e[1] = v[1]}]
    /\ Goto(w, "links")
    /\ UNCHANGED <<input, graph, phase, edge, temp, vertex_map, invented>>

(* collapse_edge_vec.push_back: the edges of length zero are collected in  *)
(* input.same, of which Collapse takes all.                                *)
SameLink(w) ==
    /\ pc[w] = "links"
    /\ \E e \in left[w] \cap input.same : left' = [left EXCEPT ![w] = @ \ {e}]
    /\ UNCHANGED <<input, dset, graph, phase, todo, pc, item, edge, temp, vertex_map, invented>>

NextLink(w) ==
    /\ pc[w] = "links"
    /\ \E e \in left[w] \cap input.next :
         /\ Free(e[2])
         /\ Lock(w, e[2])
         /\ edge' = [edge EXCEPT ![w] = e]
         /\ left' = [left EXCEPT ![w] = @ \ {e}]
    /\ Goto(w, "push")
    /\ UNCHANGED <<input, graph, phase, todo, item, temp, vertex_map, invented>>

(* Mutant of Push: only the first vertex learns of the link. *)
PushOneWay(w) ==
    /\ pc[w] = "push"
    /\ LET i == edge[w][1]
           j == edge[w][2]
       IN adj_new' = [adj_new EXCEPT ![i] = @ \cup {j}] /\ Unlock(j)
    /\ edge' = [edge EXCEPT ![w] = None]
    /\ Goto(w, "links")
    /\ UNCHANGED <<input, nCollapses, phase, todo, item, left, temp, vertex_map, invented>>

Push(w) ==
    /\ pc[w] = "push"
    /\ LET i == edge[w][1]
           j == edge[w][2]
       IN adj_new' = [adj_new EXCEPT ![i] = @ \cup {j}, ![j] = @ \cup {i}] /\ Unlock(j)
    /\ edge' = [edge EXCEPT ![w] = None]
    /\ Goto(w, "links")
    /\ UNCHANGED <<input, nCollapses, phase, todo, item, left, temp, vertex_map, invented>>

VertexDone(w) ==
    /\ pc[w] = "links" /\ left[w] = {}
    /\ Unlock(item[w][1])
    /\ item' = [item EXCEPT ![w] = None]
    /\ Goto(w, "idle")
    /\ UNCHANGED <<input, graph, phase, todo, edge, left, temp, vertex_map, invented>>

-----------------------------------------------------------------------------
(* Step 2, collapse_edges.                                                 *)

TakeEdge(w) ==
    /\ phase = "collapse" /\ pc[w] = "idle"
    /\ \E e \in todo :
         /\ todo' = todo \ {e}
         /\ item' = [item EXCEPT ![w] = e]
         /\ edge' = [edge EXCEPT ![w] = e]
    /\ Goto(w, "first")
    /\ UNCHANGED <<input, dset, graph, phase, left, temp, vertex_map, invented>>

Smaller(e) == IF e[1] > e[2] THEN e[2] ELSE e[1]
Larger(e) == IF e[1] > e[2] THEN e[1] ELSE e[2]

(* try_lock of the smaller number; it becomes the representative even if   *)
(* the lock is taken.                                                      *)
LockFirst(w) ==
    /\ pc[w] = "first"
    /\ LET a == rep[Smaller(edge[w])]
       IN /\ edge' = [edge EXCEPT ![w] = <<a, Larger(edge[w])>>]
          /\ IF Free(a) THEN Lock(w, a) /\ Goto(w, "second") ELSE UNCHANGED <<dset, pc>>
    /\ UNCHANGED <<input, graph, phase, todo, item, left, temp, vertex_map, invented>>

(* Mutant of LockSecond: the lock bit is set without looking at it. *)
LockSecondAnyway(w) ==
    /\ pc[w] = "second"
    /\ LET b == rep[edge[w][2]]
       IN /\ edge' = [edge EXCEPT ![w] = <<edge[w][1], b>>]
          /\ IF edge[w][1] # b THEN Lock(w, b) /\ Goto(w, "check") ELSE Goto(w, "release") /\ UNCHANGED dset
    /\ UNCHANGED <<input, graph, phase, todo, item, left, temp, vertex_map, invented>>

LockSecond(w) ==
    /\ pc[w] = "second"
    /\ LET b == rep[edge[w][2]]
       IN /\ edge' = [edge EXCEPT ![w] = <<edge[w][1], b>>]
          /\ IF Free(b) THEN Lock(w, b) /\ Goto(w, "check") ELSE Goto(w, "release") /\ UNCHANGED dset
    /\ UNCHANGED <<input, graph, phase, todo, item, left, temp, vertex_map, invented>>

(* The lock of an edge inside a cluster can never be had twice. *)
Inside(w) == edge[w][1] = edge[w][2]

DropItem(w) ==
    /\ item' = [item EXCEPT ![w] = None]
    /\ edge' = [edge EXCEPT ![w] = None]
    /\ Goto(w, "idle")

(* Mutant of Release: the first lock is kept while the second is awaited. *)
ReleaseNothing(w) ==
    /\ pc[w] = "release"
    /\ IF Inside(w) THEN DropItem(w) /\ Unlock(edge[w][1])
       ELSE Goto(w, "second") /\ UNCHANGED <<dset, item, edge>>
    /\ UNCHANGED <<input, graph, phase, todo, left, temp, vertex_map, invented>>

Release(w) ==
    /\ pc[w] = "release"
    /\ Unlock(edge[w][1])
    /\ IF Inside(w) THEN DropItem(w) ELSE Goto(w, "first") /\ UNCHANGED <<item, edge>>
    /\ UNCHANGED <<input, graph, phase, todo, left, temp, vertex_map, invented>>

(* Is b a neighbor of a?  Both are locked, hence the answer stays true. *)
Contained(a, b) == \E k \in adj_new[a] : rep[k] = b

Check(w) ==
    /\ pc[w] = "check"
    /\ LET a == edge[w][1]
           b == edge[w][2]
       IN IF Contained(a, b)
          THEN Goto(w, "skip") /\ UNCHANGED left
          ELSE /\ left' = [left EXCEPT ![w] = ({a} \X adj_new[a]) \cup ({b} \X adj_new[b])]
               /\ Goto(w, "gather")
    /\ UNCHANGED <<input, dset, graph, phase, todo, item, edge, temp, vertex_map, invented>>

(* A conflict: the two unlocks. *)
Skip(w) ==
    /\ \/ pc[w] = "skip" /\ Unlock(edge[w][1]) /\ Goto(w, "skip second") /\ UNCHANGED <<item, edge>>
       \/ pc[w] = "skip second" /\ Unlock(edge[w][2]) /\ DropItem(w)
    /\ UNCHANGED <<input, graph, phase, todo, left, temp, vertex_map, invented>>

(* The neighbors of both clusters, one find after the other. *)
Gather(w) ==
    /\ pc[w] = "gather"
    /\ IF left[w] = {} THEN Goto(w, "merge") /\ UNCHANGED <<left, temp>>
       ELSE /\ \E link \in left[w] :
                 /\ temp' = [temp EXCEPT ![w] = @ \cup {rep[link[2]]}]
                 /\ left' = [left EXCEPT ![w] = @ \ {link}]
            /\ UNCHANGED pc
    /\ UNCHANGED <<input, dset, graph, phase, todo, item, edge, vertex_map, invented>>

(* Mutant of Neighbors: the neighbors of the first cluster are lost. *)
NeighborsOfSecond(w) == adj_new[edge[w][2]]

Neighbors(w) == temp[w]

Collapsed(a, b) == (nCollapses[a] + nCollapses[b] + 1) % CounterValues

(* unite_index_locked names the target, from ranks that are left out here; *)
(* from now on edge is <<child, target>>.                                  *)
Merge(w) ==
    /\ pc[w] = "merge"
    /\ \E child, target \in {edge[w][1], edge[w][2]} :
         /\ child # target
         /\ adj_new' = [adj_new EXCEPT ![child] = {}, ![target] = Neighbors(w)]
         /\ nCollapses' = [nCollapses EXCEPT ![target] = Collapsed(child, target)]
         /\ edge' = [edge EXCEPT ![w] = <<child, target>>]
    /\ temp' = [temp EXCEPT ![w] = {}]
    /\ Goto(w, "unite")
    /\ UNCHANGED <<input, dset, phase, todo, item, left, vertex_map, invented>>

(* unite_unlock: the store of the child, and the store of the target. *)
Unite(w) ==
    /\ pc[w] = "unite"
    /\ Sets!UniteLocked(w, edge[w][1], edge[w][2])
    /\ Goto(w, "unlock")
    /\ UNCHANGED <<input, graph, phase, todo, item, edge, left, temp, vertex_map, invented>>

UnlockTarget(w) ==
    /\ pc[w] = "unlock"
    /\ Unlock(edge[w][2])
    /\ DropItem(w)
    /\ UNCHANGED <<input, graph, phase, todo, left, temp, vertex_map, invented>>

-----------------------------------------------------------------------------
(* Step 3: clusters with neighbors are numbered and moved to their place;  *)
(* then the neighbors of each are renamed, in parallel.                    *)

Clusters == {i \in Ids : adj_new[i] # {}}
NumberOf(i) == Cardinality({k \in Clusters : k < i})
ClusterAt(n) == CHOOSE i \in Clusters : NumberOf(i) = n

Assign ==
    /\ phase = "assign"
    /\ vertex_map' = [i \in Clusters |-> NumberOf(i)]
    /\ LET moved(n) == n < Cardinality(Clusters)
       IN /\ adj_new' = [n \in Ids |-> IF moved(n) THEN adj_new[ClusterAt(n)] ELSE {}]
          /\ nCollapses' = [n \in Ids |-> IF moved(n) THEN nCollapses[ClusterAt(n)] ELSE 0]
    /\ todo' = Items({NumberOf(i) : i \in Clusters})
    /\ phase' = "relabel"
    /\ UNCHANGED <<input, dset, locals, invented>>

(* vertex_map[...] adds a 0 for a cluster it does not know. *)
Lookup(x) == IF x \in DOMAIN vertex_map THEN vertex_map[x] ELSE 0

Relabel ==
    /\ phase = "relabel"
    /\ \E v \in todo :
         /\ todo' = todo \ {v}
         /\ adj_new' = [adj_new EXCEPT ![v[1]] = {Lookup(rep[k]) : k \in @}]
         /\ invented' = (invented \/ \E k \in adj_new[v[1]] : rep[k] \notin DOMAIN vertex_map)
    /\ UNCHANGED <<input, dset, nCollapses, phase, locals, vertex_map>>

-----------------------------------------------------------------------------
(* Step 3a: vertices that stand for far fewer collapses than the average   *)
(* lose their links, on both sides.                                        *)

Vertices == 0 .. Cardinality(DOMAIN vertex_map) - 1
Spurious(n) ==
    10 * Cardinality(Vertices) * nCollapses[n] <= MapThenSumSet(LAMBDA k : nCollapses[k], Vertices)

Cleaned(n) ==
    IF Spurious(n) THEN {} ELSE adj_new[n] \ {k \in Vertices : Spurious(k) /\ n \in adj_new[k]}

Clean ==
    /\ phase = "clean"
    /\ adj_new' = [n \in Ids |-> IF n \in Vertices THEN Cleaned(n) ELSE {}]
    /\ phase' = "done"
    /\ UNCHANGED <<input, dset, nCollapses, todo, locals, vertex_map, invented>>

-----------------------------------------------------------------------------
(* The end of a parallel loop. *)
NextPhase ==
    /\ todo = {} /\ \A w \in Workers : pc[w] = "idle"
    /\ \/ phase = "classify" /\ phase' = "collapse" /\ todo' = input.same
       \/ phase = "collapse" /\ phase' = "assign" /\ UNCHANGED todo
       \/ phase = "relabel" /\ phase' = "clean" /\ UNCHANGED todo
    /\ UNCHANGED <<input, dset, graph, locals, vertex_map, invented>>

Worker(w) ==
    \/ TakeVertex(w) \/ SameLink(w) \/ NextLink(w) \/ Push(w) \/ VertexDone(w)
    \/ TakeEdge(w) \/ LockFirst(w) \/ LockSecond(w) \/ Release(w)
    \/ Check(w) \/ Skip(w) \/ Gather(w) \/ Merge(w) \/ Unite(w) \/ UnlockTarget(w)

Finished == phase = "done" /\ UNCHANGED vars

Next == (\E w \in Workers : Worker(w)) \/ NextPhase \/ Assign \/ Relabel \/ Clean \/ Finished

Spec == Init /\ [][Next]_vars

(* Every thread is scheduled, and the calling thread continues. *)
Fairness ==
    /\ \A w \in Workers : WF_vars(Worker(w))
    /\ WF_vars(NextPhase) /\ WF_vars(Assign) /\ WF_vars(Relabel) /\ WF_vars(Clean)

-----------------------------------------------------------------------------
Members(r) == {x \in Ids : rep[x] = r}
Roots == {x \in Ids : rep[x] = x}
NeighborReps(r) == {rep[k] : k \in adj_new[r]}

(* While the threads collapse edges, two clusters that nobody works on     *)
(* know of each other, or neither does; and they do exactly if an edge to  *)
(* keep leads from one to the other.  The collapse only asks one of the    *)
(* two (extract.cpp:139-144), and the renaming in step 3 relies on it      *)
(* (extract.cpp:229).                                                      *)
NeighborsAreKnown ==
    phase \in {"collapse", "assign"} =>
        \A a, b \in {r \in Roots : Free(r)} :
            b \in NeighborReps(a) <=>
                \E e \in input.next : {rep[e[1]], rep[e[2]]} = {a, b}

(* The two ends of an edge to keep are never joined (extract.cpp:139-151). *)
KeptApart == \A e \in input.next : rep[e[1]] # rep[e[2]]

(* A cluster that nobody works on was made by as many collapses as it has  *)
(* members, less one: the measure of step 3a (extract.cpp:164, 242-256).   *)
CollapsesAreCounted ==
    phase = "collapse" =>
        \A r \in Roots : Free(r) => nCollapses[r] = (Cardinality(Members(r)) - 1) % CounterValues

(* The graph handed to the extraction of faces has links both ways, none   *)
(* to itself and none to a vertex that does not exist, and no thread had   *)
(* to add to vertex_map (extract.cpp:229, 241-257).                        *)
OutputIsAGraph ==
    /\ ~invented
    /\ phase \in {"clean", "done"} =>
        \A n \in Ids : \A k \in adj_new[n] : k \in Vertices /\ k # n /\ n \in adj_new[k]

(* What the collapse relies on whenever it takes an edge, the types, the   *)
(* counters and the neighbors of all clusters that are free; what it must  *)
(* never do, join the ends of an edge to keep; and what the next steps     *)
(* rely on: the graph it leaves (extract.cpp:119-171, 241-257).            *)
ClusterInv == TypeOK /\ NeighborsAreKnown /\ CollapsesAreCounted /\ KeptApart /\ OutputIsAGraph

(* The loops end although locks are only tried and given back on failure   *)
(* (extract.cpp:119-134).                                                  *)
CollapseEnds == <>(phase = "done")
=============================================================================
