------------------------ MODULE CollapseGraphProofs -------------------------
(***************************************************************************)
(* Proofs about CollapseGraph, for every graph and any number of threads,  *)
(* and about ExtractGraph, which goes on with the clusters it leaves.      *)
(*                                                                         *)
(* Frame says which locks a thread has at each place, that only            *)
(* representatives are locked, and what a phase leaves to do.  On it rests *)
(* KnownInv: a cluster that no thread is rewriting knows its neighbors,    *)
(* and a thread that has both locks finds out whether the two clusters     *)
(* must stay apart although others join the clusters around them.          *)
(*                                                                         *)
(* Of snapping, two kinds of steps matter: one moves a side of a triangle  *)
(* (TriangleKeeps), one joins two vertices (MergeKeeps).  Both leave the   *)
(* sets of vertices that no link leads out of what they were, but for the  *)
(* vertex that is gone.                                                    *)
(***************************************************************************)
EXTENDS MCCollapseGraph, FiniteSetTheorems, TLAPS

HasVertex == {"links", "push"}
HasFirst == {"second", "release", "check", "skip", "gather", "merge", "unite"}
HasSecond == {"push", "check", "skip", "skip second", "gather", "merge", "unite", "unlock"}
HasBoth == HasFirst \cap HasSecond

(* Thread w has locked x. *)
Holds(w, x) ==
    \/ pc[w] \in HasVertex /\ x = item[w][1]
    \/ pc[w] \in HasFirst /\ x = edge[w][1]
    \/ pc[w] \in HasSecond /\ x = edge[w][2]

LocksInv ==
    /\ \A x \in Ids, w \in Workers : holder[x] = w <=> Holds(w, x)
    /\ \A w \in Workers : pc[w] \in HasBoth => edge[w][1] # edge[w][2]

(* Every entry has a representative; only representatives are locked. *)
RepInv ==
    /\ \A x \in Ids : rep[rep[x]] = rep[x]
    /\ \A x \in Ids : holder[x] # Nobody => rep[x] = x
    /\ phase = "classify" => \A x \in Ids : rep[x] = x

(* What each phase and place implies for the local variables. *)
PlaceInv ==
    /\ phase = "classify" => todo \subseteq Items(Ids)
    /\ phase = "collapse" => todo \subseteq input.same
    /\ \A x \in DOMAIN vertex_map : vertex_map[x] \in Ids
    /\ \A w \in Workers :
        /\ phase = "classify" => pc[w] \in {"idle"} \cup HasVertex
        /\ phase = "collapse" => pc[w] \notin HasVertex
        /\ phase \notin {"classify", "collapse"} => pc[w] = "idle"
        /\ pc[w] \in HasVertex => \A e \in left[w] : e \in input.same \cup input.next /\ e[1] = item[w][1]
        /\ pc[w] = "push" => edge[w] \in input.next /\ edge[w][1] = item[w][1]
        /\ pc[w] \notin {"gather", "merge"} => temp[w] = {}
        /\ pc[w] = "merge" => left[w] = {}

Frame == TypeOK /\ LocksInv /\ RepInv /\ PlaceInv

-----------------------------------------------------------------------------
(* An edge to keep that step 1 has still to add. *)
Pending(e) ==
    \/ <<e[1], e[1]>> \in todo
    \/ \E w \in Workers : \/ pc[w] \in HasVertex /\ e \in left[w]
                          \/ pc[w] = "push" /\ edge[w] = e

ClassifyInv ==
    phase = "classify" =>
        /\ \A a, b \in Ids : b \in adj_new[a] => <<a, b>> \in input.next \/ <<b, a>> \in input.next
        /\ \A e \in input.next : Pending(e) \/ (e[2] \in adj_new[e[1]] /\ e[1] \in adj_new[e[2]])
        /\ \A x \in Ids : nCollapses[x] = 0

(* Clusters a and b must stay apart. *)
Linked(a, b) == \E e \in input.next : {rep[e[1]], rep[e[2]]} = {a, b}

(* Some thread has rewritten cluster x and joins it with another. *)
Joining(x) == \E w \in Workers : pc[w] = "unite" /\ x \in {edge[w][1], edge[w][2]}

Known(a) == \A b \in Roots : b \in NeighborReps(a) <=> Linked(a, b)

(* What thread w has collected, and has still to look at, are the          *)
(* neighbors of its two clusters.                                          *)
Gathered(w) ==
    \A y \in Ids :
        y \in NeighborReps(edge[w][1]) \cup NeighborReps(edge[w][2]) <=>
            \/ \E k \in temp[w] : rep[k] = y
            \/ \E e \in left[w] : rep[e[2]] = y

(* The target has the neighbors of both clusters. *)
Merged(w) ==
    /\ adj_new[edge[w][1]] = {}
    /\ \A y \in Roots : y \in NeighborReps(edge[w][2]) <=>
                            Linked(edge[w][1], y) \/ Linked(edge[w][2], y)

Knows(w) ==
    /\ pc[w] \in {"gather", "merge", "unite"} => ~Linked(edge[w][1], edge[w][2])
    /\ pc[w] \in {"gather", "merge"} => Gathered(w)
    /\ pc[w] = "unite" => Merged(w)

KnownInv ==
    phase \in {"collapse", "assign"} =>
        /\ \A x \in Ids : rep[x] # x => adj_new[x] = {}
        /\ \A a \in Roots : ~Joining(a) => Known(a)
        /\ \A w \in Workers : Knows(w)

(* The counter of a cluster, and that of a target before the other cluster *)
(* is joined to it.                                                        *)
Counted(r) == nCollapses[r] = (Cardinality(Members(r)) - 1) % CounterValues

CountedTogether(a, b) ==
    nCollapses[b] = (Cardinality(Members(a)) + Cardinality(Members(b)) - 1) % CounterValues

CountInv ==
    phase = "collapse" =>
        /\ \A r \in Roots : ~Joining(r) => Counted(r)
        /\ \A w \in Workers : pc[w] = "unite" => CountedTogether(edge[w][1], edge[w][2])

(* vertex_map numbers the clusters that have neighbors. *)
Numbered ==
    LET D == DOMAIN vertex_map
    IN /\ D \subseteq Roots
       /\ \A a \in D : vertex_map[a] \in Vertices
       /\ \A a, b \in D : vertex_map[a] = vertex_map[b] => a = b
       /\ \A n \in Vertices : \E a \in D : vertex_map[a] = n
       /\ \A a \in D, b \in Roots : Linked(a, b) => b \in D

(* Vertex n has the links of cluster a, before and after the renaming. *)
Moved(n, a) == \A y \in Ids : y \in NeighborReps(n) <=> y \in Roots /\ Linked(a, y)

Relabelled(n, a) ==
    \A k \in Ids : k \in adj_new[n] <=> \E b \in Roots : Linked(a, b) /\ vertex_map[b] = k

(* Is vertex n still to be renamed? *)
Waits(n) == phase = "relabel" /\ <<n, n>> \in todo

NumberInv ==
    /\ Numbered
    /\ Vertices \subseteq Ids
    /\ \A n \in Ids \ Vertices : adj_new[n] = {}
    /\ \A a \in DOMAIN vertex_map :
            IF Waits(vertex_map[a]) THEN Moved(vertex_map[a], a) ELSE Relabelled(vertex_map[a], a)
    /\ phase = "relabel" => todo \subseteq Items(Vertices)

OutputInv ==
    /\ phase \in {"relabel", "clean"} => NumberInv
    /\ OutputIsAGraph

(* The edge that a thread works on is the one it has taken. *)
SameEnds(w) ==
    \/ rep[edge[w][1]] = rep[item[w][1]] /\ rep[edge[w][2]] = rep[item[w][2]]
    \/ rep[edge[w][1]] = rep[item[w][2]] /\ rep[edge[w][2]] = rep[item[w][1]]

Busy == {"first", "second", "release", "check", "gather", "merge", "unite"}

(* The edges that the threads have taken are no longer there, and no two   *)
(* threads have the same.                                                  *)
TakenInv ==
    phase = "collapse" =>
        /\ \A w \in Workers : pc[w] # "idle" => item[w] \in input.same /\ item[w] \notin todo
        /\ \A w, v \in Workers : pc[w] # "idle" /\ pc[v] # "idle" /\ item[w] = item[v] => w = v
        /\ \A w \in Workers : pc[w] \in Busy => SameEnds(w)

-----------------------------------------------------------------------------
(* Types.                                                                  *)

(* The vertices are finitely many natural numbers, 0 among them. *)
LEMMA IdsAre == 0 \in Ids /\ Ids \subseteq Nat /\ IsFiniteSet(Ids) /\ Cardinality(Ids) \in Nat
<1>1. IsFiniteSet(Ids) /\ Cardinality(Ids) \in Nat
  BY IdsAssumption, FS_CardinalityType
<1>2. PICK n \in Nat : n = Cardinality(Ids)
  BY <1>1
<1>3. Ids = 0 .. n - 1 /\ Ids # {}
  BY <1>2, IdsAssumption
<1> QED
  BY <1>1, <1>3

(* An idle worker has a pair as its item as well. *)
LEMMA NoneIsPair == None \in Ids \X Ids
BY IdsAre DEF None

(* What InputsAssumption says of the graph at hand. *)
LEMMA InputIs ==
    ASSUME TypeOK
    PROVE  /\ input.same \subseteq Ids \X Ids /\ input.next \subseteq Ids \X Ids
           /\ input.same \cap input.next = {}
           /\ \A e \in input.same \cup input.next : e[1] \in Ids /\ e[2] \in Ids /\ e[1] # e[2]
<1>1. /\ input.same \subseteq Ids \X Ids /\ input.next \subseteq Ids \X Ids
      /\ input.same \cap input.next = {}
      /\ \A e \in input.same \cup input.next : e[1] < e[2]
  BY InputsAssumption DEF TypeOK
<1>2. \A e \in input.same \cup input.next : e[1] \in Ids /\ e[2] \in Ids
  BY <1>1
<1>3. \A a, b \in Nat : a < b => a # b
  OBVIOUS
<1> QED
  BY <1>1, <1>2, <1>3, IdsAre, Zenon

(* The types of what one worker keeps. *)
LEMMA LocalType ==
    ASSUME TypeOK, NEW w \in Workers
    PROVE  /\ item[w] \in Ids \X Ids /\ item[w][1] \in Ids /\ item[w][2] \in Ids
           /\ edge[w] \in Ids \X Ids /\ edge[w][1] \in Ids /\ edge[w][2] \in Ids
           /\ left[w] \subseteq Ids \X Ids /\ temp[w] \subseteq Ids
           /\ \A x \in Ids : rep[x] \in Ids
BY DEF TypeOK

(* A counter stays one. *)
LEMMA CountType ==
    ASSUME NEW n \in Int
    PROVE  n % CounterValues \in 0 .. CounterValues - 1
BY CounterAssumption

(* Locking or unlocking one vertex keeps the sets and the types. *)
LEMMA LocksType ==
    ASSUME TypeOK, NEW w \in Workers, NEW x \in Ids, Lock(w, x) \/ Unlock(x)
    PROVE  rep' = rep /\ rep' \in [Ids -> Ids] /\ holder' \in [Ids -> Workers \cup {Nobody}]
BY DEF TypeOK, Lock, Unlock

(* Dropping the item keeps the types. *)
LEMMA DropType ==
    ASSUME TypeOK, NEW w \in Workers, DropItem(w)
    PROVE  /\ pc' \in [Workers -> Pcs] /\ item' \in [Workers -> Ids \X Ids]
           /\ edge' \in [Workers -> Ids \X Ids]
BY NoneIsPair DEF TypeOK, DropItem, Goto, Pcs

(* A link is added on both sides. *)
LEMMA PushAdds ==
    ASSUME TypeOK, NEW i \in Ids, NEW j \in Ids,
           adj_new' = [adj_new EXCEPT ![i] = @ \cup {j}, ![j] = @ \cup {i}]
    PROVE  /\ adj_new' \in [Ids -> SUBSET Ids]
           /\ \A x, y \in Ids : y \in adj_new'[x] <=>
                \/ y \in adj_new[x]
                \/ x = i /\ y = j
                \/ x = j /\ y = i
<1>1. PICK f : f = [adj_new EXCEPT ![i] = adj_new[i] \cup {j}]
  OBVIOUS
<1>2. /\ f \in [Ids -> SUBSET Ids]
      /\ \A x \in Ids : f[x] = IF x = i THEN adj_new[x] \cup {j} ELSE adj_new[x]
  BY <1>1 DEF TypeOK
<1>3. adj_new' = [f EXCEPT ![j] = f[j] \cup {i}]
  BY <1>1 DEF TypeOK
<1>4. \A x \in Ids : adj_new'[x] = IF x = j THEN f[x] \cup {i} ELSE f[x]
  BY <1>2, <1>3
<1> QED
  BY <1>2, <1>3, <1>4

(* Steps of the first phase keep the types. *)
LEMMA ClassifyType ==
    ASSUME TypeOK, NEW w \in Workers,
           TakeVertex(w) \/ SameLink(w) \/ NextLink(w) \/ Push(w) \/ VertexDone(w)
    PROVE  TypeOK'
<1>1. CASE TakeVertex(w)
  <2>1. PICK v \in todo : /\ Lock(w, v[1]) /\ todo' = todo \ {v}
                          /\ item' = [item EXCEPT ![w] = v]
                          /\ left' = [left EXCEPT ![w] = {e \in input.same \cup input.next : e[1] = v[1]}]
    BY <1>1 DEF TakeVertex
  <2>2. v \in Ids \X Ids /\ v[1] \in Ids
    BY DEF TypeOK
  <2>3. rep' \in [Ids -> Ids] /\ holder' \in [Ids -> Workers \cup {Nobody}]
    BY <2>1, <2>2, LocksType
  <2>4. {e \in input.same \cup input.next : e[1] = v[1]} \subseteq Ids \X Ids
    BY InputIs
  <2>5. left' \in [Workers -> SUBSET (Ids \X Ids)]
    BY <2>1, <2>4 DEF TypeOK
  <2>6. pc' \in [Workers -> Pcs]
    BY <1>1 DEF TakeVertex, TypeOK, Goto, Pcs
  <2>7. item' \in [Workers -> Ids \X Ids] /\ todo' \subseteq Ids \X Ids
    BY <2>1, <2>2 DEF TypeOK
  <2> QED
    BY <1>1, <2>3, <2>5, <2>6, <2>7 DEF TakeVertex, TypeOK, graph
<1>2. CASE SameLink(w)
  BY <1>2 DEF SameLink, TypeOK, dset, graph
<1>3. CASE NextLink(w)
  <2>1. PICK e \in left[w] : /\ Lock(w, e[2])
                             /\ edge' = [edge EXCEPT ![w] = e]
                             /\ left' = [left EXCEPT ![w] = @ \ {e}]
    BY <1>3 DEF NextLink
  <2>2. e \in Ids \X Ids /\ e[2] \in Ids
    BY LocalType
  <2>3. rep' \in [Ids -> Ids] /\ holder' \in [Ids -> Workers \cup {Nobody}]
    BY <2>1, <2>2, LocksType
  <2>4. left' \in [Workers -> SUBSET (Ids \X Ids)] /\ edge' \in [Workers -> Ids \X Ids]
    BY <2>1, <2>2 DEF TypeOK
  <2>5. pc' \in [Workers -> Pcs]
    BY <1>3 DEF NextLink, TypeOK, Goto, Pcs
  <2> QED
    BY <1>3, <2>3, <2>4, <2>5 DEF NextLink, TypeOK, graph
<1>4. CASE Push(w)
  <2>1. PICK i \in Ids, j \in Ids : i = edge[w][1] /\ j = edge[w][2]
    BY LocalType
  <2>2. adj_new' = [adj_new EXCEPT ![i] = @ \cup {j}, ![j] = @ \cup {i}] /\ Unlock(j)
    BY <1>4, <2>1 DEF Push
  <2>3. rep' \in [Ids -> Ids] /\ holder' \in [Ids -> Workers \cup {Nobody}]
    BY <2>1, <2>2, LocksType
  <2>4. adj_new' \in [Ids -> SUBSET Ids]
    BY <2>2, PushAdds
  <2>5. pc' \in [Workers -> Pcs] /\ edge' \in [Workers -> Ids \X Ids]
    BY <1>4, NoneIsPair DEF Push, TypeOK, Goto, Pcs
  <2> QED
    BY <1>4, <2>3, <2>4, <2>5 DEF Push, TypeOK
<1>5. CASE VertexDone(w)
  <2>1. rep' \in [Ids -> Ids] /\ holder' \in [Ids -> Workers \cup {Nobody}]
    BY <1>5, LocalType, LocksType DEF VertexDone
  <2>2. pc' \in [Workers -> Pcs] /\ item' \in [Workers -> Ids \X Ids]
    BY <1>5, NoneIsPair DEF VertexDone, TypeOK, Goto, Pcs
  <2> QED
    BY <1>5, <2>1, <2>2 DEF VertexDone, TypeOK, graph
<1> QED
  BY <1>1, <1>2, <1>3, <1>4, <1>5

(* Steps of the second phase keep the types. *)
LEMMA CollapseType ==
    ASSUME TypeOK, NEW w \in Workers,
           \/ TakeEdge(w) \/ LockFirst(w) \/ LockSecond(w) \/ Release(w) \/ Check(w) \/ Skip(w)
           \/ Gather(w) \/ Merge(w) \/ Unite(w) \/ UnlockTarget(w)
    PROVE  TypeOK'
<1>1. CASE TakeEdge(w)
  <2>1. PICK e \in todo : /\ todo' = todo \ {e} /\ item' = [item EXCEPT ![w] = e]
                          /\ edge' = [edge EXCEPT ![w] = e]
    BY <1>1 DEF TakeEdge
  <2>2. e \in Ids \X Ids /\ pc' \in [Workers -> Pcs]
    BY <1>1 DEF TypeOK, TakeEdge, Goto, Pcs
  <2> QED
    BY <1>1, <2>1, <2>2 DEF TakeEdge, TypeOK, dset, graph
<1>2. CASE LockFirst(w)
  <2>1. PICK a \in Ids, b \in Ids : a = rep[Smaller(edge[w])] /\ b = Larger(edge[w])
    BY LocalType DEF Smaller, Larger
  <2>2. edge' = [edge EXCEPT ![w] = <<a, b>>]
    BY <1>2, <2>1 DEF LockFirst
  <2>3. /\ rep' \in [Ids -> Ids] /\ holder' \in [Ids -> Workers \cup {Nobody}]
        /\ pc' \in [Workers -> Pcs]
    <3>1. CASE Free(a)
      BY <1>2, <2>1, <3>1, LocksType DEF LockFirst, Goto, Pcs, TypeOK
    <3>2. CASE ~Free(a)
      BY <1>2, <2>1, <3>2 DEF LockFirst, dset, TypeOK
    <3> QED
      BY <3>1, <3>2
  <2>4. edge' \in [Workers -> Ids \X Ids]
    BY <2>2 DEF TypeOK
  <2> QED
    BY <1>2, <2>3, <2>4 DEF LockFirst, TypeOK, graph
<1>3. CASE LockSecond(w)
  <2>1. PICK a \in Ids, b \in Ids : a = edge[w][1] /\ b = rep[edge[w][2]]
    BY LocalType
  <2>2. edge' = [edge EXCEPT ![w] = <<a, b>>]
    BY <1>3, <2>1 DEF LockSecond
  <2>3. /\ rep' \in [Ids -> Ids] /\ holder' \in [Ids -> Workers \cup {Nobody}]
        /\ pc' \in [Workers -> Pcs]
    <3>1. CASE Free(b)
      BY <1>3, <2>1, <3>1, LocksType DEF LockSecond, Goto, Pcs, TypeOK
    <3>2. CASE ~Free(b)
      BY <1>3, <2>1, <3>2 DEF LockSecond, dset, Goto, Pcs, TypeOK
    <3> QED
      BY <3>1, <3>2
  <2>4. edge' \in [Workers -> Ids \X Ids]
    BY <2>2 DEF TypeOK
  <2> QED
    BY <1>3, <2>3, <2>4 DEF LockSecond, TypeOK, graph
<1>4. CASE Release(w)
  <2>1. rep' \in [Ids -> Ids] /\ holder' \in [Ids -> Workers \cup {Nobody}]
    BY <1>4, LocalType, LocksType DEF Release
  <2>2. /\ pc' \in [Workers -> Pcs] /\ item' \in [Workers -> Ids \X Ids]
        /\ edge' \in [Workers -> Ids \X Ids]
    <3>1. CASE Inside(w)
      BY <1>4, <3>1, DropType DEF Release
    <3>2. CASE ~Inside(w)
      BY <1>4, <3>2 DEF Release, Goto, Pcs, TypeOK
    <3> QED
      BY <3>1, <3>2
  <2> QED
    BY <1>4, <2>1, <2>2 DEF Release, TypeOK, graph
<1>5. CASE Check(w)
  <2>1. PICK a \in Ids, b \in Ids : a = edge[w][1] /\ b = edge[w][2]
    BY LocalType
  <2>2. pc' \in [Workers -> Pcs]
    BY <1>5 DEF Check, Goto, Pcs, TypeOK
  <2>3. left' \in [Workers -> SUBSET (Ids \X Ids)]
    <3> DEFINE S == ({a} \X adj_new[a]) \cup ({b} \X adj_new[b])
    <3>1. S \subseteq Ids \X Ids
      BY DEF TypeOK
    <3>2. \/ left' = left
          \/ left' = [left EXCEPT ![w] = S]
      BY <1>5, <2>1 DEF Check
    <3> HIDE DEF S
    <3> QED
      BY <3>1, <3>2 DEF TypeOK
  <2> QED
    BY <1>5, <2>2, <2>3 DEF Check, TypeOK, dset, graph
<1>6. CASE Skip(w)
  <2>1. rep' \in [Ids -> Ids] /\ holder' \in [Ids -> Workers \cup {Nobody}]
    BY <1>6, LocalType, LocksType DEF Skip
  <2>2. /\ pc' \in [Workers -> Pcs] /\ item' \in [Workers -> Ids \X Ids]
        /\ edge' \in [Workers -> Ids \X Ids]
    <3>1. CASE pc[w] = "skip"
      BY <1>6, <3>1 DEF Skip, Goto, Pcs, TypeOK
    <3>2. CASE pc[w] # "skip"
      BY <1>6, <3>2, DropType DEF Skip
    <3> QED
      BY <3>1, <3>2
  <2> QED
    BY <1>6, <2>1, <2>2 DEF Skip, TypeOK, graph
<1>7. CASE Gather(w)
  <2>1. CASE left[w] = {}
    BY <1>7, <2>1 DEF Gather, TypeOK, dset, graph, Goto, Pcs
  <2>2. CASE left[w] # {}
    <3>1. PICK link \in left[w] : /\ temp' = [temp EXCEPT ![w] = @ \cup {rep[link[2]]}]
                                  /\ left' = [left EXCEPT ![w] = @ \ {link}]
      BY <1>7, <2>2 DEF Gather
    <3>2. rep[link[2]] \in Ids
      BY LocalType
    <3>3. temp' \in [Workers -> SUBSET Ids] /\ left' \in [Workers -> SUBSET (Ids \X Ids)]
      BY <3>1, <3>2 DEF TypeOK
    <3> QED
      BY <1>7, <2>2, <3>3 DEF Gather, TypeOK, dset, graph
  <2> QED
    BY <2>1, <2>2
<1>8. CASE Merge(w)
  <2>1. PICK c \in Ids, t \in Ids :
          /\ adj_new' = [adj_new EXCEPT ![c] = {}, ![t] = Neighbors(w)]
          /\ nCollapses' = [nCollapses EXCEPT ![t] = Collapsed(c, t)]
          /\ edge' = [edge EXCEPT ![w] = <<c, t>>]
    <3>1. {edge[w][1], edge[w][2]} \subseteq Ids
      BY LocalType
    <3> QED
      BY <1>8, <3>1 DEF Merge
  <2>2. Neighbors(w) \subseteq Ids
    BY LocalType DEF Neighbors
  <2>3. Collapsed(c, t) \in 0 .. CounterValues - 1
    <3>1. \A x \in Ids : nCollapses[x] \in Nat
      BY CounterAssumption DEF TypeOK
    <3> QED
      BY <3>1, CountType DEF Collapsed
  <2>4. adj_new' \in [Ids -> SUBSET Ids]
    BY <2>1, <2>2 DEF TypeOK
  <2>5. nCollapses' \in [Ids -> 0 .. CounterValues - 1]
    BY <2>1, <2>3 DEF TypeOK
  <2>6. edge' \in [Workers -> Ids \X Ids]
    BY <2>1 DEF TypeOK
  <2>7. temp' \in [Workers -> SUBSET Ids] /\ pc' \in [Workers -> Pcs]
    BY <1>8 DEF Merge, Goto, Pcs, TypeOK
  <2> QED
    BY <1>8, <2>4, <2>5, <2>6, <2>7 DEF Merge, TypeOK, dset
<1>9. CASE Unite(w)
  <2>1. PICK a \in Ids, b \in Ids : a = edge[w][1] /\ b = edge[w][2]
    BY LocalType
  <2>2. rep' \in [Ids -> Ids]
    BY <1>9, <2>1 DEF Unite, Sets!UniteLocked, Sets!Join, TypeOK
  <2>3. holder' \in [Ids -> Workers \cup {Nobody}]
    BY <1>9, <2>1 DEF Unite, Sets!UniteLocked, TypeOK
  <2>4. pc' \in [Workers -> Pcs]
    BY <1>9 DEF Unite, Goto, Pcs, TypeOK
  <2> QED
    BY <1>9, <2>2, <2>3, <2>4 DEF Unite, TypeOK, graph
<1>10. CASE UnlockTarget(w)
  <2>1. rep' \in [Ids -> Ids] /\ holder' \in [Ids -> Workers \cup {Nobody}]
    BY <1>10, LocalType, LocksType DEF UnlockTarget
  <2>2. /\ pc' \in [Workers -> Pcs] /\ item' \in [Workers -> Ids \X Ids]
        /\ edge' \in [Workers -> Ids \X Ids]
    BY <1>10, DropType DEF UnlockTarget
  <2> QED
    BY <1>10, <2>1, <2>2 DEF UnlockTarget, TypeOK, graph
<1> QED
  BY <1>1, <1>2, <1>3, <1>4, <1>5, <1>6, <1>7, <1>8, <1>9, <1>10

-----------------------------------------------------------------------------
(* The frame of a worker's step.                                           *)

(* The other threads do not move. *)
Others(w) ==
    \A v \in Workers \ {w} :
        /\ pc'[v] = pc[v] /\ item'[v] = item[v] /\ edge'[v] = edge[v]
        /\ left'[v] = left[v] /\ temp'[v] = temp[v]

(* A step of one worker that keeps its own locks in order keeps Frame: it  *)
(* says nothing of the locks of the others.                                *)
LEMMA FrameStep ==
    ASSUME Frame, NEW w \in Workers, Others(w), TypeOK', RepInv',
           input' = input, phase' = phase, todo' \subseteq todo, vertex_map' = vertex_map,
           \A x \in Ids : holder'[x] = w <=> Holds(w, x)',
           \A x \in Ids, v \in Workers \ {w} : holder'[x] = v <=> holder[x] = v,
           pc'[w] \in HasBoth => edge'[w][1] # edge'[w][2],
           phase = "classify" => pc'[w] \in {"idle"} \cup HasVertex,
           phase = "collapse" => pc'[w] \notin HasVertex,
           phase \in {"classify", "collapse"},
           pc'[w] \in HasVertex =>
               \A e \in left'[w] : e \in input.same \cup input.next /\ e[1] = item'[w][1],
           pc'[w] = "push" => edge'[w] \in input.next /\ edge'[w][1] = item'[w][1],
           pc'[w] \notin {"gather", "merge"} => temp'[w] = {},
           pc'[w] = "merge" => left'[w] = {}
    PROVE  Frame'
<1>1. LocksInv'
  <2>1. \A x \in Ids, v \in Workers \ {w} : Holds(v, x)' <=> Holds(v, x)
    BY DEF Others, Holds
  <2>2. \A x \in Ids, v \in Workers : holder'[x] = v <=> Holds(v, x)'
    BY <2>1 DEF Frame, LocksInv
  <2>3. \A v \in Workers : pc'[v] \in HasBoth => edge'[v][1] # edge'[v][2]
    BY DEF Frame, LocksInv, Others
  <2> QED
    BY <2>2, <2>3 DEF LocksInv
<1>2. PlaceInv'
  <2>1. /\ phase' = "classify" => todo' \subseteq Items(Ids)
        /\ phase' = "collapse" => todo' \subseteq input'.same
        /\ \A x \in DOMAIN vertex_map' : vertex_map'[x] \in Ids
    BY DEF Frame, PlaceInv, Items
  <2>2. ASSUME NEW v \in Workers
        PROVE  /\ phase' = "classify" => pc'[v] \in {"idle"} \cup HasVertex
               /\ phase' = "collapse" => pc'[v] \notin HasVertex
               /\ phase' \notin {"classify", "collapse"} => pc'[v] = "idle"
               /\ pc'[v] \in HasVertex =>
                    \A e \in left'[v] : e \in input'.same \cup input'.next /\ e[1] = item'[v][1]
               /\ pc'[v] = "push" => edge'[v] \in input'.next /\ edge'[v][1] = item'[v][1]
               /\ pc'[v] \notin {"gather", "merge"} => temp'[v] = {}
               /\ pc'[v] = "merge" => left'[v] = {}
    <3>1. CASE v = w
      BY <3>1
    <3>2. CASE v # w
      BY <3>2 DEF Others, Frame, PlaceInv
    <3> QED
      BY <3>1, <3>2
  <2> QED
    BY <2>1, <2>2 DEF PlaceInv
<1> QED
  BY <1>1, <1>2 DEF Frame

(* Representatives where no cluster is joined. *)
LEMMA SameReps ==
    ASSUME Frame, rep' = rep, phase' = phase,
           \A x \in Ids : holder'[x] \in {Nobody, holder[x]} \/ rep[x] = x
    PROVE  RepInv'
BY DEF Frame, RepInv

(* Steps of the first phase keep Frame. *)
LEMMA FrameClassify ==
    ASSUME Frame, NEW w \in Workers,
           TakeVertex(w) \/ SameLink(w) \/ NextLink(w) \/ Push(w) \/ VertexDone(w)
    PROVE  Frame'
<1>1. TypeOK /\ TypeOK'
  BY ClassifyType DEF Frame
<1> DEFINE i == item[w][1]
           j == edge[w][2]
<1>2. /\ i \in Ids /\ j \in Ids /\ edge[w][1] \in Ids
      /\ \A e \in input.same \cup input.next : e[1] \in Ids /\ e[2] \in Ids /\ e[1] # e[2]
  BY <1>1, LocalType, InputIs
<1>3. /\ \A x \in Ids : holder[x] = w <=> Holds(w, x)
      /\ pc[w] \in HasVertex => \A e \in left[w] : e \in input.same \cup input.next /\ e[1] = i
      /\ pc[w] = "push" => edge[w] \in input.next /\ edge[w][1] = i
      /\ temp[w] = {} \/ pc[w] \in {"gather", "merge"}
      /\ \A x \in Ids : holder[x] # Nobody => rep[x] = x
      /\ phase = "classify" => \A x \in Ids : rep[x] = x
      /\ phase = "classify" => todo \subseteq Items(Ids)
  BY DEF Frame, LocksInv, PlaceInv, RepInv
<1>4. pc[w] \in HasVertex => phase = "classify"
  <2>1. phase \in Phases
    BY <1>1 DEF TypeOK
  <2> QED
    BY <2>1 DEF Frame, PlaceInv, HasVertex, Phases
<1>5. /\ pc \in [Workers -> Pcs] /\ item \in [Workers -> Ids \X Ids] /\ edge \in [Workers -> Ids \X Ids]
      /\ left \in [Workers -> SUBSET (Ids \X Ids)] /\ holder \in [Ids -> Workers \cup {Nobody}]
  BY <1>1 DEF TypeOK
<1>6. CASE TakeVertex(w)
  <2>1. PICK v \in todo : /\ Free(v[1]) /\ Lock(w, v[1]) /\ todo' = todo \ {v}
                          /\ item' = [item EXCEPT ![w] = v]
                          /\ left' = [left EXCEPT ![w] = {e \in input.same \cup input.next : e[1] = v[1]}]
    BY <1>6 DEF TakeVertex
  <2>2. PICK x \in Ids : x = v[1]
    BY <2>1, <1>1 DEF TypeOK
  <2>3. /\ phase = "classify" /\ pc[w] = "idle" /\ pc'[w] = "links"
        /\ item'[w] = v /\ left'[w] = {e \in input.same \cup input.next : e[1] = x}
        /\ edge' = edge /\ temp' = temp /\ input' = input /\ phase' = phase /\ vertex_map' = vertex_map
        /\ holder[x] = Nobody /\ holder' = [holder EXCEPT ![x] = w] /\ rep' = rep
    BY <1>5, <1>6, <2>1, <2>2 DEF TakeVertex, Goto, Free, Lock
  <2>4. Others(w)
    BY <1>5, <1>6, <2>1, <2>3 DEF Others, TakeVertex, Goto
  <2>5. \A z \in Ids : ~Holds(w, z)
    BY <2>3 DEF Holds, HasVertex, HasFirst, HasSecond
  <2>6. \A z \in Ids : Holds(w, z)' <=> z = x
    BY <2>2, <2>3 DEF Holds, HasVertex, HasFirst, HasSecond
  <2>7. \A z \in Ids : holder'[z] = IF z = x THEN w ELSE holder[z]
    BY <1>5, <2>3
  <2>8. RepInv'
    BY <1>3, <2>3, <2>7, SameReps
  <2>9. \A z \in Ids : holder'[z] = w <=> Holds(w, z)'
    BY <1>3, <2>5, <2>6, <2>7
  <2>10. \A z \in Ids, u \in Workers \ {w} : holder'[z] = u <=> holder[z] = u
    BY <2>3, <2>7, NobodyAssumption
  <2> QED
    BY <1>1, <1>3, <2>1, <2>2, <2>3, <2>4, <2>8, <2>9, <2>10, FrameStep DEF HasVertex, HasBoth, HasFirst
<1>7. CASE SameLink(w)
  <2>1. PICK e \in left[w] : left' = [left EXCEPT ![w] = @ \ {e}]
    BY <1>7 DEF SameLink
  <2>2. /\ pc[w] = "links" /\ pc' = pc /\ item' = item /\ edge' = edge /\ temp' = temp
        /\ left'[w] = left[w] \ {e}
        /\ input' = input /\ phase' = phase /\ vertex_map' = vertex_map /\ todo' = todo
        /\ holder' = holder /\ rep' = rep
    BY <1>5, <1>7, <2>1 DEF SameLink, dset, graph
  <2>3. Others(w)
    BY <1>5, <2>1, <2>2 DEF Others
  <2>4. \A z \in Ids : Holds(w, z)' <=> Holds(w, z)
    BY <2>2 DEF Holds
  <2>5. RepInv'
    BY <2>2, SameReps
  <2> QED
    BY <1>1, <1>3, <1>4, <2>2, <2>3, <2>4, <2>5, FrameStep DEF HasVertex, HasBoth, HasFirst
<1>8. CASE NextLink(w)
  <2>1. PICK e \in left[w] \cap input.next :
          /\ Free(e[2]) /\ Lock(w, e[2])
          /\ edge' = [edge EXCEPT ![w] = e]
          /\ left' = [left EXCEPT ![w] = @ \ {e}]
    BY <1>8 DEF NextLink
  <2>2. PICK y \in Ids : y = e[2] /\ e[1] = i /\ y # i
    BY <1>2, <1>3, <1>8, <2>1 DEF NextLink, HasVertex
  <2>3. /\ pc[w] = "links" /\ pc'[w] = "push" /\ edge'[w] = e /\ left'[w] = left[w] \ {e}
        /\ item' = item /\ temp' = temp /\ input' = input /\ phase' = phase
        /\ vertex_map' = vertex_map /\ todo' = todo
        /\ holder[y] = Nobody /\ holder' = [holder EXCEPT ![y] = w] /\ rep' = rep
    BY <1>5, <1>8, <2>1, <2>2 DEF NextLink, Goto, Free, Lock
  <2>4. Others(w)
    BY <1>5, <1>8, <2>1, <2>3 DEF Others, NextLink, Goto
  <2>5. \A z \in Ids : Holds(w, z) <=> z = i
    BY <2>3 DEF Holds, HasVertex, HasFirst, HasSecond
  <2>6. \A z \in Ids : Holds(w, z)' <=> z \in {i, y}
    BY <2>2, <2>3 DEF Holds, HasVertex, HasFirst, HasSecond
  <2>7. \A z \in Ids : holder'[z] = IF z = y THEN w ELSE holder[z]
    BY <1>5, <2>3
  <2>8. RepInv'
    BY <1>3, <1>4, <2>3, <2>7, SameReps DEF HasVertex
  <2>9. \A z \in Ids : holder'[z] = w <=> Holds(w, z)'
    BY <1>3, <2>5, <2>6, <2>7
  <2>10. \A z \in Ids, u \in Workers \ {w} : holder'[z] = u <=> holder[z] = u
    BY <2>3, <2>7, NobodyAssumption
  <2> QED
    BY <1>1, <1>3, <1>4, <2>1, <2>2, <2>3, <2>4, <2>8, <2>9, <2>10, FrameStep
       DEF HasVertex, HasBoth, HasFirst
<1>9. CASE Push(w)
  <2>1. /\ pc[w] = "push" /\ pc'[w] = "links" /\ left' = left
        /\ item' = item /\ temp' = temp /\ input' = input /\ phase' = phase
        /\ vertex_map' = vertex_map /\ todo' = todo
        /\ holder' = [holder EXCEPT ![j] = Nobody] /\ rep' = rep
    BY <1>5, <1>9 DEF Push, Goto, Unlock
  <2>2. Others(w)
    BY <1>5, <1>9, <2>1 DEF Others, Push, Goto
  <2>3. i # j
    BY <1>2, <1>3, <2>1
  <2>4. \A z \in Ids : Holds(w, z) <=> z \in {i, j}
    BY <2>1 DEF Holds, HasVertex, HasFirst, HasSecond
  <2>5. \A z \in Ids : Holds(w, z)' <=> z = i
    BY <2>1 DEF Holds, HasVertex, HasFirst, HasSecond
  <2>6. \A z \in Ids : holder'[z] = IF z = j THEN Nobody ELSE holder[z]
    BY <1>5, <2>1
  <2>7. RepInv'
    BY <2>1, <2>6, SameReps
  <2>8. holder[j] = w
    BY <1>2, <1>3, <2>4
  <2>9. \A z \in Ids : holder'[z] = w <=> Holds(w, z)'
    BY <1>3, <2>3, <2>4, <2>5, <2>6, NobodyAssumption
  <2>10. \A z \in Ids, u \in Workers \ {w} : holder'[z] = u <=> holder[z] = u
    BY <2>6, <2>8, NobodyAssumption
  <2> QED
    BY <1>1, <1>3, <1>4, <2>1, <2>2, <2>7, <2>9, <2>10, FrameStep DEF HasVertex, HasBoth, HasFirst
<1>10. CASE VertexDone(w)
  <2>1. /\ pc[w] = "links" /\ pc'[w] = "idle" /\ left' = left
        /\ edge' = edge /\ temp' = temp /\ input' = input /\ phase' = phase
        /\ vertex_map' = vertex_map /\ todo' = todo
        /\ holder' = [holder EXCEPT ![i] = Nobody] /\ rep' = rep
    BY <1>5, <1>10 DEF VertexDone, Goto, Unlock, graph
  <2>2. Others(w)
    BY <1>5, <1>10, <2>1 DEF Others, VertexDone, Goto
  <2>3. \A z \in Ids : Holds(w, z) <=> z = i
    BY <2>1 DEF Holds, HasVertex, HasFirst, HasSecond
  <2>4. \A z \in Ids : ~Holds(w, z)'
    BY <2>1 DEF Holds, HasVertex, HasFirst, HasSecond
  <2>5. \A z \in Ids : holder'[z] = IF z = i THEN Nobody ELSE holder[z]
    BY <1>5, <2>1
  <2>6. RepInv'
    BY <2>1, <2>5, SameReps
  <2>7. holder[i] = w
    BY <1>2, <1>3, <2>3
  <2>8. \A z \in Ids : holder'[z] = w <=> Holds(w, z)'
    BY <1>3, <2>3, <2>4, <2>5, NobodyAssumption
  <2>9. \A z \in Ids, u \in Workers \ {w} : holder'[z] = u <=> holder[z] = u
    BY <2>5, <2>7, NobodyAssumption
  <2> QED
    BY <1>1, <1>3, <1>4, <2>1, <2>2, <2>6, <2>8, <2>9, FrameStep DEF HasVertex, HasBoth, HasFirst
<1> QED
  BY <1>6, <1>7, <1>8, <1>9, <1>10

(* Steps of the second phase keep Frame: in particular a worker that goes  *)
(* on has locked representatives, and only Unite changes who is one.       *)
LEMMA FrameCollapse ==
    ASSUME Frame, NEW w \in Workers,
           \/ TakeEdge(w) \/ LockFirst(w) \/ LockSecond(w) \/ Release(w) \/ Check(w) \/ Skip(w)
           \/ Gather(w) \/ Merge(w) \/ Unite(w) \/ UnlockTarget(w)
    PROVE  Frame'
<1>1. TypeOK /\ TypeOK'
  BY CollapseType DEF Frame
<1> DEFINE a == edge[w][1]
           b == edge[w][2]
<1>2. /\ a \in Ids /\ b \in Ids
      /\ \A x \in Ids : rep[x] \in Ids
  BY <1>1, LocalType
<1>3. /\ \A x \in Ids : holder[x] = w <=> Holds(w, x)
      /\ pc[w] \in HasBoth => a # b
      /\ temp[w] = {} \/ pc[w] \in {"gather", "merge"}
      /\ \A x \in Ids : holder[x] # Nobody => rep[x] = x
      /\ \A x \in Ids : rep[rep[x]] = rep[x]
      /\ phase = "collapse" => pc[w] \notin HasVertex
  BY DEF Frame, LocksInv, PlaceInv, RepInv
<1>4. /\ pc \in [Workers -> Pcs] /\ item \in [Workers -> Ids \X Ids] /\ edge \in [Workers -> Ids \X Ids]
      /\ left \in [Workers -> SUBSET (Ids \X Ids)] /\ holder \in [Ids -> Workers \cup {Nobody}]
      /\ temp \in [Workers -> SUBSET Ids] /\ rep \in [Ids -> Ids]
  BY <1>1 DEF TypeOK
<1>5. /\ phase = "collapse" /\ phase' = phase /\ input' = input /\ vertex_map' = vertex_map
      /\ todo' \subseteq todo
  <2>1. /\ phase' = phase /\ input' = input /\ vertex_map' = vertex_map /\ todo' \subseteq todo
        /\ phase = "collapse" \/ pc[w] \notin {"idle"} \cup HasVertex
    BY DEF TakeEdge, LockFirst, LockSecond, Release, Check, Skip, Gather, Merge, Unite, UnlockTarget,
       HasVertex
  <2>2. phase \in Phases
    BY <1>1 DEF TypeOK
  <2> QED
    BY <2>1, <2>2 DEF Frame, PlaceInv, HasVertex, Phases
<1>6. Others(w)
  BY <1>4 DEF TakeEdge, LockFirst, LockSecond, Release, Check, Skip, Gather, Merge, Unite,
     UnlockTarget, Others, DropItem, Goto, dset, graph
<1>7. ASSUME holder' = holder, rep' = rep, \A z \in Ids : Holds(w, z)' <=> Holds(w, z),
             pc'[w] \in HasBoth => edge'[w][1] # edge'[w][2], pc'[w] \notin HasVertex,
             pc'[w] \notin {"gather", "merge"} => temp'[w] = {},
             pc'[w] = "merge" => left'[w] = {}
      PROVE  Frame'
  <2>1. RepInv'
    BY <1>5, <1>7, SameReps
  <2> QED
    BY <1>1, <1>3, <1>5, <1>6, <1>7, <2>1, FrameStep DEF HasVertex
<1>8. ASSUME NEW x \in Ids, holder[x] = Nobody, rep[x] = x, holder' = [holder EXCEPT ![x] = w], rep' = rep,
             \A z \in Ids : Holds(w, z)' <=> Holds(w, z) \/ z = x,
             pc'[w] \in HasBoth => edge'[w][1] # edge'[w][2], pc'[w] \notin HasVertex,
             pc'[w] \notin {"gather", "merge"}, temp'[w] = {}
      PROVE  Frame'
  <2>1. \A z \in Ids : holder'[z] = IF z = x THEN w ELSE holder[z]
    BY <1>4, <1>8
  <2>2. RepInv'
    BY <1>3, <1>5, <1>8, <2>1, SameReps
  <2>3. \A z \in Ids : holder'[z] = w <=> Holds(w, z)'
    BY <1>3, <1>8, <2>1
  <2>4. \A z \in Ids, u \in Workers \ {w} : holder'[z] = u <=> holder[z] = u
    BY <1>8, <2>1, NobodyAssumption
  <2> QED
    BY <1>1, <1>3, <1>5, <1>6, <1>8, <2>2, <2>3, <2>4, FrameStep DEF HasVertex
<1>9. ASSUME NEW x \in Ids, holder[x] = w, holder' = [holder EXCEPT ![x] = Nobody], RepInv',
             \A z \in Ids : Holds(w, z)' <=> Holds(w, z) /\ z # x,
             pc'[w] \notin HasBoth, pc'[w] \notin HasVertex,
             pc'[w] \notin {"gather", "merge"}, temp'[w] = {}
      PROVE  Frame'
  <2>1. \A z \in Ids : holder'[z] = IF z = x THEN Nobody ELSE holder[z]
    BY <1>4, <1>9
  <2>2. \A z \in Ids : holder'[z] = w <=> Holds(w, z)'
    BY <1>3, <1>9, <2>1, NobodyAssumption
  <2>3. \A z \in Ids, u \in Workers \ {w} : holder'[z] = u <=> holder[z] = u
    BY <1>9, <2>1, NobodyAssumption
  <2> QED
    BY <1>1, <1>3, <1>5, <1>6, <1>9, <2>2, <2>3, FrameStep DEF HasVertex
<1>10. ASSUME NEW x \in Ids, holder[x] = w, Unlock(x)
       PROVE  RepInv'
  <2>1. \A z \in Ids : holder'[z] = IF z = x THEN Nobody ELSE holder[z]
    BY <1>4, <1>10 DEF Unlock
  <2> QED
    BY <1>5, <1>10, <2>1, SameReps DEF Unlock
<1>11. CASE TakeEdge(w)
  <2>1. pc[w] = "idle" /\ pc'[w] = "first" /\ temp' = temp /\ holder' = holder /\ rep' = rep
    BY <1>4, <1>11 DEF TakeEdge, Goto, dset
  <2>2. \A z \in Ids : ~Holds(w, z) /\ ~Holds(w, z)'
    BY <2>1 DEF Holds, HasVertex, HasFirst, HasSecond
  <2> QED
    BY <1>3, <1>7, <2>1, <2>2 DEF HasVertex, HasBoth, HasFirst
<1>12. CASE LockFirst(w)
  <2>1. PICK x \in Ids, y \in Ids : /\ x = rep[Smaller(edge[w])] /\ rep[x] = x
                                    /\ edge' = [edge EXCEPT ![w] = <<x, y>>]
    BY <1>2, <1>3, <1>12 DEF LockFirst, Smaller, Larger
  <2>2. pc[w] = "first" /\ temp' = temp /\ edge'[w] = <<x, y>> /\ temp[w] = {}
    BY <1>3, <1>4, <1>12, <2>1 DEF LockFirst
  <2>3. \A z \in Ids : ~Holds(w, z)
    BY <2>2 DEF Holds, HasVertex, HasFirst, HasSecond
  <2>4. CASE Free(x)
    <3>1. pc'[w] = "second" /\ holder[x] = Nobody /\ holder' = [holder EXCEPT ![x] = w] /\ rep' = rep
      BY <1>4, <1>12, <2>1, <2>4 DEF LockFirst, Goto, Free, Lock
    <3>2. \A z \in Ids : Holds(w, z)' <=> z = x
      BY <2>2, <3>1 DEF Holds, HasVertex, HasFirst, HasSecond
    <3> QED
      BY <1>8, <2>1, <2>2, <2>3, <3>1, <3>2 DEF HasVertex, HasBoth, HasSecond
  <2>5. CASE ~Free(x)
    <3>1. pc' = pc /\ holder' = holder /\ rep' = rep
      BY <1>12, <2>1, <2>5 DEF LockFirst, dset
    <3>2. \A z \in Ids : ~Holds(w, z)'
      BY <2>2, <3>1 DEF Holds, HasVertex, HasFirst, HasSecond
    <3> QED
      BY <1>7, <2>2, <2>3, <3>1, <3>2 DEF HasVertex, HasBoth, HasFirst
  <2> QED
    BY <2>4, <2>5
<1>13. CASE LockSecond(w)
  <2>1. PICK x \in Ids, y \in Ids : /\ x = a /\ y = rep[b] /\ rep[y] = y
                                    /\ edge' = [edge EXCEPT ![w] = <<x, y>>]
    BY <1>2, <1>3, <1>13 DEF LockSecond
  <2>2. pc[w] = "second" /\ temp' = temp /\ edge'[w] = <<x, y>> /\ temp[w] = {}
    BY <1>3, <1>4, <1>13, <2>1 DEF LockSecond
  <2>3. \A z \in Ids : Holds(w, z) <=> z = x
    BY <2>1, <2>2 DEF Holds, HasVertex, HasFirst, HasSecond
  <2>4. CASE Free(y)
    <3>1. pc'[w] = "check" /\ holder[y] = Nobody /\ holder' = [holder EXCEPT ![y] = w] /\ rep' = rep
      BY <1>4, <1>13, <2>1, <2>4 DEF LockSecond, Goto, Free, Lock
    <3>2. \A z \in Ids : Holds(w, z)' <=> z = x \/ z = y
      BY <2>2, <3>1 DEF Holds, HasVertex, HasFirst, HasSecond
    <3>3. x # y
      BY <1>3, <2>3, <3>1, NobodyAssumption
    <3>4. edge'[w][1] # edge'[w][2]
      BY <2>2, <3>3
    <3> QED
      BY <1>8, <2>1, <2>2, <2>3, <3>1, <3>2, <3>4 DEF HasVertex
  <2>5. CASE ~Free(y)
    <3>1. pc'[w] = "release" /\ holder' = holder /\ rep' = rep
      BY <1>4, <1>13, <2>1, <2>5 DEF LockSecond, dset, Goto
    <3>2. \A z \in Ids : Holds(w, z)' <=> z = x
      BY <2>2, <3>1 DEF Holds, HasVertex, HasFirst, HasSecond
    <3> QED
      BY <1>7, <2>2, <2>3, <3>1, <3>2 DEF HasVertex, HasBoth, HasSecond
  <2> QED
    BY <2>4, <2>5
<1>14. CASE Release(w)
  <2>1. /\ pc[w] = "release" /\ pc'[w] \in {"idle", "first"} /\ temp' = temp
        /\ Unlock(a) /\ temp[w] = {}
    BY <1>3, <1>4, <1>14 DEF Release, DropItem, Goto
  <2>2. \A z \in Ids : Holds(w, z) <=> z = a
    BY <2>1 DEF Holds, HasVertex, HasFirst, HasSecond
  <2>3. \A z \in Ids : ~Holds(w, z)'
    BY <2>1 DEF Holds, HasVertex, HasFirst, HasSecond
  <2>4. holder[a] = w
    BY <1>2, <1>3, <2>2
  <2>5. RepInv' /\ holder' = [holder EXCEPT ![a] = Nobody]
    BY <1>2, <1>10, <2>1, <2>4 DEF Unlock
  <2> QED
    BY <1>2, <1>9, <2>1, <2>2, <2>3, <2>4, <2>5 DEF HasVertex, HasBoth, HasFirst
<1>15. CASE Check(w)
  <2>1. /\ pc[w] = "check" /\ pc'[w] \in {"skip", "gather"} /\ temp' = temp /\ edge' = edge /\ item' = item
        /\ temp[w] = {} /\ holder' = holder /\ rep' = rep
    BY <1>3, <1>4, <1>15 DEF Check, Goto, dset
  <2>2. \A z \in Ids : Holds(w, z)' <=> Holds(w, z)
    BY <2>1 DEF Holds, HasVertex, HasFirst, HasSecond
  <2>3. a # b
    BY <1>3, <2>1 DEF HasBoth, HasFirst, HasSecond
  <2>4. pc'[w] \notin HasVertex /\ temp'[w] = {} /\ pc'[w] # "merge" /\ edge'[w][1] # edge'[w][2]
    BY <2>1, <2>3 DEF HasVertex
  <2> QED
    BY <1>7, <2>1, <2>2, <2>4
<1>16. CASE Skip(w) /\ pc[w] = "skip"
  <2>1. /\ pc'[w] = "skip second" /\ temp' = temp /\ edge' = edge /\ item' = item
        /\ Unlock(a) /\ temp[w] = {}
    BY <1>3, <1>4, <1>16 DEF Skip, Goto
  <2>2. \A z \in Ids : Holds(w, z) <=> z = a \/ z = b
    BY <1>16, <2>1 DEF Holds, HasVertex, HasFirst, HasSecond
  <2>3. \A z \in Ids : Holds(w, z)' <=> z = b
    BY <2>1 DEF Holds, HasVertex, HasFirst, HasSecond
  <2>4. holder[a] = w
    BY <1>2, <1>3, <2>2
  <2>5. RepInv' /\ holder' = [holder EXCEPT ![a] = Nobody]
    BY <1>2, <1>10, <2>1, <2>4 DEF Unlock
  <2>6. a # b
    BY <1>3, <1>16 DEF HasBoth, HasFirst, HasSecond
  <2> QED
    BY <1>2, <1>9, <2>1, <2>2, <2>3, <2>4, <2>5, <2>6 DEF HasVertex, HasBoth, HasFirst
<1>17. ASSUME pc[w] \in {"skip second", "unlock"}, pc'[w] = "idle", temp' = temp, Unlock(b)
       PROVE  Frame'
  <2>1. \A z \in Ids : Holds(w, z) <=> z = b
    BY <1>17 DEF Holds, HasVertex, HasFirst, HasSecond
  <2>2. \A z \in Ids : ~Holds(w, z)'
    BY <1>17 DEF Holds, HasVertex, HasFirst, HasSecond
  <2>3. holder[b] = w
    BY <1>2, <1>3, <2>1
  <2>4. RepInv' /\ holder' = [holder EXCEPT ![b] = Nobody]
    BY <1>2, <1>10, <1>17, <2>3 DEF Unlock
  <2>5. pc'[w] \notin HasBoth /\ pc'[w] \notin HasVertex /\ temp'[w] = {}
    BY <1>3, <1>17 DEF HasBoth, HasFirst, HasVertex
  <2> QED
    BY <1>2, <1>9, <1>17, <2>1, <2>2, <2>3, <2>4, <2>5
<1>18. CASE Skip(w) /\ pc[w] # "skip"
  BY <1>4, <1>17, <1>18 DEF Skip, DropItem, Goto
<1>19. CASE UnlockTarget(w)
  BY <1>4, <1>17, <1>19 DEF UnlockTarget, DropItem, Goto
<1>20. CASE Gather(w)
  <2>1. /\ pc[w] = "gather" /\ pc'[w] \in {"gather", "merge"} /\ edge' = edge /\ item' = item
        /\ holder' = holder /\ rep' = rep /\ (pc'[w] = "merge" => left'[w] = {})
    BY <1>4, <1>20 DEF Gather, Goto, dset
  <2>2. \A z \in Ids : Holds(w, z)' <=> Holds(w, z)
    BY <2>1 DEF Holds, HasVertex, HasFirst, HasSecond
  <2>3. a # b
    BY <1>3, <2>1 DEF HasBoth, HasFirst, HasSecond
  <2>4. pc'[w] \notin HasVertex /\ edge'[w][1] # edge'[w][2]
    BY <2>1, <2>3 DEF HasVertex
  <2> QED
    BY <1>7, <2>1, <2>2, <2>4
<1>21. CASE Merge(w)
  <2>1. PICK c \in {a, b}, t \in {a, b} : c # t /\ edge' = [edge EXCEPT ![w] = <<c, t>>]
    BY <1>21 DEF Merge
  <2>2. /\ pc[w] = "merge" /\ pc'[w] = "unite" /\ temp'[w] = {} /\ item' = item
        /\ holder' = holder /\ rep' = rep /\ edge'[w] = <<c, t>>
    BY <1>4, <1>21, <2>1 DEF Merge, Goto, dset
  <2>3. \A z \in Ids : Holds(w, z)' <=> Holds(w, z)
    <3>1. \A z \in Ids : Holds(w, z) <=> z = a \/ z = b
      BY <2>2 DEF Holds, HasVertex, HasFirst, HasSecond
    <3>2. \A z \in Ids : Holds(w, z)' <=> z = c \/ z = t
      BY <2>2 DEF Holds, HasVertex, HasFirst, HasSecond
    <3>3. {c, t} = {a, b}
      BY <2>1
    <3> QED
      BY <3>1, <3>2, <3>3
  <2>4. pc'[w] \notin HasVertex /\ edge'[w][1] # edge'[w][2] /\ pc'[w] # "merge"
    BY <2>1, <2>2 DEF HasVertex
  <2> QED
    BY <1>7, <2>2, <2>3, <2>4
<1>22. CASE Unite(w)
  <2>1. /\ pc[w] = "unite" /\ pc'[w] = "unlock" /\ temp' = temp /\ edge' = edge /\ item' = item
        /\ holder' = [holder EXCEPT ![a] = Nobody] /\ temp[w] = {}
        /\ rep' = [x \in Ids |-> IF rep[x] = a THEN b ELSE rep[x]]
    BY <1>3, <1>4, <1>22 DEF Unite, Goto, Sets!UniteLocked, Sets!Join
  <2>2. \A z \in Ids : Holds(w, z) <=> z = a \/ z = b
    BY <2>1 DEF Holds, HasVertex, HasFirst, HasSecond
  <2>3. \A z \in Ids : Holds(w, z)' <=> z = b
    BY <2>1 DEF Holds, HasVertex, HasFirst, HasSecond
  <2>4. holder[a] = w /\ holder[b] = w /\ a # b
    BY <1>2, <1>3, <2>1, <2>2 DEF HasBoth, HasFirst, HasSecond
  <2>5. rep[a] = a /\ rep[b] = b
    BY <1>2, <1>3, <2>4, NobodyAssumption
  <2>6. RepInv'
    <3>1. \A x \in Ids : rep'[rep'[x]] = rep'[x]
      BY <1>2, <1>3, <2>1, <2>4, <2>5
    <3>2. \A x \in Ids : holder'[x] = IF x = a THEN Nobody ELSE holder[x]
      BY <1>4, <2>1
    <3>3. \A x \in Ids : holder'[x] # Nobody => rep'[x] = x
      BY <1>3, <2>1, <2>5, <3>2
    <3> QED
      BY <1>5, <3>1, <3>3 DEF RepInv
  <2>7. pc'[w] \notin HasBoth /\ pc'[w] \notin HasVertex /\ temp'[w] = {}
    BY <2>1 DEF HasBoth, HasFirst, HasVertex
  <2> QED
    BY <1>2, <1>9, <2>1, <2>2, <2>3, <2>4, <2>6, <2>7
<1> QED
  BY <1>11, <1>12, <1>13, <1>14, <1>15, <1>16, <1>18, <1>19, <1>20, <1>21, <1>22

-----------------------------------------------------------------------------
(* The steps of the calling thread.                                        *)

(* NumberOf numbers the clusters without a gap, and ClusterAt is its       *)
(* inverse.                                                                *)
LEMMA Numbering ==
    /\ IsFiniteSet(Clusters) /\ Cardinality(Clusters) \in Nat
    /\ 0 .. Cardinality(Clusters) - 1 \subseteq Ids
    /\ \A i \in Clusters : NumberOf(i) \in 0 .. Cardinality(Clusters) - 1
    /\ \A i, j \in Clusters : NumberOf(i) = NumberOf(j) => i = j
    /\ \A n \in 0 .. Cardinality(Clusters) - 1 :
            ClusterAt(n) \in Clusters /\ NumberOf(ClusterAt(n)) = n
<1> DEFINE Before(i) == {k \in Clusters : k < i}
<1>1. Clusters \in SUBSET Ids
  BY DEF Clusters
<1>2. /\ IsFiniteSet(Clusters) /\ Cardinality(Clusters) \in Nat
      /\ Cardinality(Clusters) <= Cardinality(Ids)
  BY <1>1, IdsAre, FS_Subset, FS_CardinalityType
<1>3. PICK m \in Nat : m = Cardinality(Clusters)
  BY <1>2
<1>4. PICK c \in Nat : c = Cardinality(Ids) /\ Ids = 0 .. c - 1
  BY IdsAre, IdsAssumption
<1>5. 0 .. m - 1 \subseteq Ids
  <2>1. m <= c
    BY <1>2, <1>3, <1>4
  <2>2. \A k \in 0 .. m - 1 : k \in 0 .. c - 1
    BY <2>1
  <2> QED
    BY <1>4, <2>2
<1>6. ASSUME NEW i \in Clusters
      PROVE  /\ IsFiniteSet(Before(i)) /\ Cardinality(Before(i)) \in Nat
             /\ Cardinality(Before(i)) < m
             /\ \A j \in Clusters : i < j => Cardinality(Before(i)) < Cardinality(Before(j))
  <2>1. ASSUME NEW S \in SUBSET Clusters, NEW T \in SUBSET S, i \in S, i \notin T
        PROVE  /\ IsFiniteSet(T) /\ Cardinality(T) \in Nat
               /\ Cardinality(T) < Cardinality(S)
    <3>1. IsFiniteSet(S) /\ Cardinality(S) \in Nat
      BY <1>2, FS_Subset, FS_CardinalityType
    <3>2. /\ IsFiniteSet(T) /\ Cardinality(T) \in Nat
          /\ Cardinality(T) <= Cardinality(S)
          /\ Cardinality(S) = Cardinality(T) => S = T
      BY <3>1, FS_Subset, FS_CardinalityType
    <3>3. S # T
      BY <2>1
    <3> QED
      BY <3>1, <3>2, <3>3
  <2>2. Before(i) \in SUBSET Clusters /\ i \notin Before(i)
    BY <1>1, IdsAre
  <2>3. ASSUME NEW j \in Clusters, i < j
        PROVE  Before(j) \in SUBSET Clusters /\ Before(i) \in SUBSET Before(j) /\ i \in Before(j)
    <3>1. i \in Nat /\ j \in Nat /\ \A k \in Clusters : k \in Nat
      BY <1>1, IdsAre
    <3>2. \A k \in Clusters : k < i => k < j
      BY <2>3, <3>1
    <3> QED
      BY <2>3, <3>2
  <2> HIDE DEF Before
  <2>4. /\ IsFiniteSet(Before(i)) /\ Cardinality(Before(i)) \in Nat
        /\ Cardinality(Before(i)) < Cardinality(Clusters)
    BY <2>1, <2>2
  <2>5. ASSUME NEW j \in Clusters, i < j
        PROVE  Cardinality(Before(i)) < Cardinality(Before(j))
    BY <2>1, <2>2, <2>3, <2>5
  <2> QED
    BY <1>3, <2>4, <2>5
<1>7. \A i \in Clusters : NumberOf(i) = Cardinality(Before(i))
  BY DEF NumberOf
<1> HIDE DEF Before
<1>8. \A i \in Clusters : NumberOf(i) \in 0 .. m - 1
  BY <1>6, <1>7, <1>3
<1>9. \A i, j \in Clusters : NumberOf(i) = NumberOf(j) => i = j
  <2>1. SUFFICES ASSUME NEW i \in Clusters, NEW j \in Clusters, NumberOf(i) = NumberOf(j), i # j
                 PROVE  FALSE
    OBVIOUS
  <2>2. i < j \/ j < i
    BY <1>1, <2>1, IdsAre
  <2> QED
    BY <1>6, <1>7, <2>1, <2>2
<1>10. \A n \in 0 .. m - 1 : \E i \in Clusters : NumberOf(i) = n
  <2> DEFINE f == [i \in Clusters |-> NumberOf(i)]
             T == 0 .. m - 1
  <2>1. f \in Injection(Clusters, T)
    BY <1>8, <1>9 DEF Injection, IsInjective
  <2>2. IsFiniteSet(T) /\ Cardinality(T) = m
    BY FS_Interval
  <2>3. \A i \in Clusters : f[i] = NumberOf(i)
    OBVIOUS
  <2> HIDE DEF f, T
  <2>4. f \in Surjection(Clusters, T)
    BY <1>3, <2>1, <2>2, FS_Injection
  <2>5. \A n \in T : \E i \in Clusters : f[i] = n
    BY <2>4 DEF Surjection
  <2> QED
    BY <2>3, <2>5 DEF T
<1>11. \A n \in 0 .. m - 1 : ClusterAt(n) \in Clusters /\ NumberOf(ClusterAt(n)) = n
  BY <1>10 DEF ClusterAt
<1> QED
  BY <1>2, <1>3, <1>5, <1>8, <1>9, <1>11

(* Frame holds in the beginning. *)
LEMMA FrameInit == Init => Frame
<1> SUFFICES ASSUME Init PROVE Frame
  OBVIOUS
<1>1. /\ rep = [x \in Ids |-> x] /\ holder = [x \in Ids |-> Nobody]
      /\ adj_new = [x \in Ids |-> {}] /\ nCollapses = [x \in Ids |-> 0]
      /\ phase = "classify" /\ todo = Items(Ids)
      /\ pc = [w \in Workers |-> "idle"]
      /\ item = [w \in Workers |-> None] /\ edge = [w \in Workers |-> None]
      /\ left = [w \in Workers |-> {}] /\ temp = [w \in Workers |-> {}]
      /\ DOMAIN vertex_map = {} /\ invented = FALSE /\ input \in Inputs
  BY DEF Init, Sets!Init
<1>2. TypeOK
  <2>1. nCollapses \in [Ids -> 0 .. CounterValues - 1]
    BY <1>1, CounterAssumption
  <2>2. /\ item \in [Workers -> Ids \X Ids] /\ edge \in [Workers -> Ids \X Ids]
    BY <1>1, NoneIsPair
  <2>3. todo \subseteq Ids \X Ids
    BY <1>1 DEF Items
  <2> QED
    BY <1>1, <2>1, <2>2, <2>3 DEF TypeOK, Pcs, Phases
<1>3. LocksInv
  <2>1. \A w \in Workers : pc[w] = "idle"
    BY <1>1
  <2> QED
    BY <1>1, <2>1, NobodyAssumption DEF LocksInv, Holds, HasVertex, HasFirst, HasSecond, HasBoth
<1>4. RepInv
  BY <1>1 DEF RepInv
<1>5. PlaceInv
  BY <1>1 DEF PlaceInv, HasVertex
<1> QED
  BY <1>2, <1>3, <1>4, <1>5 DEF Frame

(* A step of the calling thread leaves the threads and dset alone. *)
LEMMA FrameCaller ==
    ASSUME Frame, TypeOK', UNCHANGED <<input, dset, locals>>, phase' # "classify",
           phase' = "collapse" => todo' \subseteq input.same,
           \A w \in Workers : pc[w] = "idle",
           \A x \in DOMAIN vertex_map' : vertex_map'[x] \in Ids
    PROVE  Frame'
<1>1. /\ input' = input /\ rep' = rep /\ holder' = holder /\ pc' = pc /\ item' = item /\ edge' = edge
      /\ left' = left /\ temp' = temp
  BY DEF dset, locals
<1>2. LocksInv' /\ RepInv'
  BY <1>1 DEF Frame, LocksInv, RepInv, Holds
<1>3. PlaceInv'
  BY <1>1 DEF Frame, PlaceInv, HasVertex
<1> QED
  BY <1>2, <1>3 DEF Frame

(* The steps of the calling thread keep Frame. *)
LEMMA FrameSequential ==
    ASSUME Frame, NextPhase \/ Assign \/ Relabel \/ Clean
    PROVE  Frame'
<1>1. TypeOK
  BY DEF Frame
<1>2. /\ UNCHANGED <<input, dset, locals>>
      /\ \A w \in Workers : pc[w] = "idle"
  <2>1. UNCHANGED <<input, dset, locals>>
    BY DEF NextPhase, Assign, Relabel, Clean
  <2> QED
    BY <2>1 DEF Frame, PlaceInv, NextPhase, Assign, Relabel, Clean
<1>3. /\ rep' = rep /\ holder' = holder /\ pc' = pc /\ item' = item /\ edge' = edge
      /\ left' = left /\ temp' = temp /\ input' = input
  BY <1>2 DEF dset, locals
<1>4. \A x \in DOMAIN vertex_map : vertex_map[x] \in Ids
  BY DEF Frame, PlaceInv
<1>5. CASE NextPhase
  <2>1. /\ phase' # "classify" /\ phase' \in Phases
        /\ phase' = "collapse" => todo' = input.same
        /\ todo' \subseteq Ids \X Ids
        /\ adj_new' = adj_new /\ nCollapses' = nCollapses /\ vertex_map' = vertex_map
        /\ invented' = invented
    BY <1>1, <1>5, InputIs DEF NextPhase, Phases, graph, TypeOK
  <2>2. TypeOK'
    BY <1>1, <1>3, <2>1 DEF TypeOK
  <2> QED
    BY <1>2, <1>4, <2>1, <2>2, FrameCaller
<1>6. CASE Assign
  <2>1. \A i \in Clusters : NumberOf(i) \in Ids /\ i \in Ids
    BY Numbering DEF Clusters
  <2>2. \A n \in Ids : n < Cardinality(Clusters) => ClusterAt(n) \in Ids
    BY Numbering, IdsAre DEF Clusters
  <2>3. vertex_map' = [i \in Clusters |-> NumberOf(i)] /\ phase' = "relabel" /\ invented' = invented
    BY <1>6 DEF Assign
  <2>4. adj_new' \in [Ids -> SUBSET Ids]
    BY <1>1, <1>6, <2>2 DEF Assign, TypeOK
  <2>5. nCollapses' \in [Ids -> 0 .. CounterValues - 1]
    <3>1. 0 \in 0 .. CounterValues - 1
      BY CounterAssumption
    <3> QED
      BY <1>1, <1>6, <2>2, <3>1 DEF Assign, TypeOK
  <2>6. todo' \subseteq Ids \X Ids
    BY <1>6, <2>1 DEF Assign, Items
  <2>7. DOMAIN vertex_map' \subseteq Ids /\ \A x \in DOMAIN vertex_map' : vertex_map'[x] \in Ids
    BY <2>1, <2>3
  <2>8. TypeOK'
    BY <1>1, <1>3, <2>3, <2>4, <2>5, <2>6, <2>7 DEF TypeOK, Phases
  <2> QED
    BY <1>2, <2>3, <2>7, <2>8, FrameCaller
<1>7. CASE Relabel
  <2>1. PICK v \in todo :
          /\ todo' = todo \ {v}
          /\ adj_new' = [adj_new EXCEPT ![v[1]] = {Lookup(rep[k]) : k \in @}]
          /\ invented' = (invented \/ \E k \in adj_new[v[1]] : rep[k] \notin DOMAIN vertex_map)
    BY <1>7 DEF Relabel
  <2>2. v[1] \in Ids
    BY <1>1 DEF TypeOK
  <2>3. \A x \in Ids : Lookup(x) \in Ids
    BY <1>4, IdsAre DEF Lookup
  <2>4. adj_new' \in [Ids -> SUBSET Ids]
    BY <1>1, <2>1, <2>2, <2>3 DEF TypeOK
  <2>5. invented' \in BOOLEAN
    BY <1>1, <2>1 DEF TypeOK
  <2>6. /\ phase' = phase /\ phase = "relabel" /\ nCollapses' = nCollapses /\ vertex_map' = vertex_map
        /\ todo' \subseteq todo
    BY <1>7, <2>1 DEF Relabel
  <2>7. TypeOK'
    BY <1>1, <1>3, <2>4, <2>5, <2>6 DEF TypeOK
  <2> QED
    BY <1>2, <1>4, <2>6, <2>7, FrameCaller
<1>8. CASE Clean
  <2>1. adj_new' \in [Ids -> SUBSET Ids]
    BY <1>1, <1>8 DEF Clean, Cleaned, TypeOK
  <2>2. /\ phase' = "done" /\ nCollapses' = nCollapses /\ vertex_map' = vertex_map /\ todo' = todo
        /\ invented' = invented
    BY <1>8 DEF Clean
  <2>3. TypeOK'
    BY <1>1, <1>3, <2>1, <2>2 DEF TypeOK, Phases
  <2> QED
    BY <1>2, <1>4, <2>2, <2>3, FrameCaller
<1> QED
  BY <1>5, <1>6, <1>7, <1>8

(* Frame depends on the variables only. *)
LEMMA FrameStutter ==
    ASSUME Frame, UNCHANGED vars
    PROVE  Frame'
<1>1. /\ input' = input /\ rep' = rep /\ holder' = holder /\ adj_new' = adj_new
      /\ nCollapses' = nCollapses /\ phase' = phase /\ todo' = todo /\ pc' = pc /\ item' = item
      /\ edge' = edge /\ left' = left /\ temp' = temp /\ vertex_map' = vertex_map /\ invented' = invented
  BY DEF vars, dset, graph, locals
<1> QED
  BY <1>1 DEF Frame, TypeOK, LocksInv, RepInv, PlaceInv, Holds

(* Every step keeps Frame. *)
LEMMA FrameNext ==
    ASSUME Frame, [Next]_vars
    PROVE  Frame'
<1>1. ASSUME NEW w \in Workers, Worker(w)
      PROVE  Frame'
  BY <1>1, FrameClassify, FrameCollapse DEF Worker
<1> QED
  BY <1>1, FrameSequential, FrameStutter DEF Next, Finished

-----------------------------------------------------------------------------
(* Every use of dset is one that LockedSets allows.                        *)

(* A step of a worker is a call of the sets that LockedSets allows, or     *)
(* none.                                                                   *)
LEMMA SetsWorker ==
    ASSUME Frame, NEW w \in Workers, Worker(w)
    PROVE  [Sets!Next]_(Sets!vars)
<1> DEFINE i == item[w][1]
           a == edge[w][1]
           b == edge[w][2]
<1>1. /\ i \in Ids /\ a \in Ids /\ b \in Ids
      /\ \A x \in Ids : rep[x] \in Ids
      /\ item[w] \in Ids \X Ids /\ edge[w] \in Ids \X Ids
  BY LocalType DEF Frame
<1>2. /\ \A x \in Ids : holder[x] = w <=> Holds(w, x)
      /\ pc[w] \in HasBoth => a # b
      /\ \A x \in Ids : rep[rep[x]] = rep[x]
      /\ phase = "classify" => \A x \in Ids : rep[x] = x
      /\ pc[w] \in HasVertex => phase = "classify"
  <2>1. phase \in Phases
    BY DEF Frame, TypeOK
  <2> QED
    BY <2>1 DEF Frame, LocksInv, RepInv, PlaceInv, HasVertex, Phases
<1>3. ASSUME NEW x \in Ids, rep[x] = x, Free(x), Lock(w, x)
      PROVE  Sets!Next
  <2>1. Sets!TryLock(w, x)
    BY <1>3 DEF Free, Lock, Sets!TryLock
  <2> QED
    BY <2>1 DEF Sets!Next
<1>4. ASSUME NEW x \in Ids, Holds(w, x), Unlock(x)
      PROVE  Sets!Next
  <2>1. Sets!Unlock(w, x)
    BY <1>2, <1>4 DEF Unlock, Sets!Unlock
  <2> QED
    BY <2>1 DEF Sets!Next
<1>5. ASSUME UNCHANGED dset
      PROVE  [Sets!Next]_(Sets!vars)
  BY <1>5 DEF dset, Sets!vars
<1>6. CASE TakeVertex(w)
  <2>1. PICK v \in todo : Free(v[1]) /\ Lock(w, v[1])
    BY <1>6 DEF TakeVertex
  <2>2. v[1] \in Ids /\ rep[v[1]] = v[1]
    BY <1>2, <1>6 DEF Frame, TypeOK, TakeVertex
  <2> QED
    BY <1>3, <2>1, <2>2
<1>7. CASE NextLink(w)
  <2>1. PICK e \in left[w] : Free(e[2]) /\ Lock(w, e[2])
    BY <1>7 DEF NextLink
  <2>2. e[2] \in Ids /\ rep[e[2]] = e[2]
    BY <1>2, <1>7 DEF Frame, TypeOK, NextLink, HasVertex
  <2> QED
    BY <1>3, <2>1, <2>2
<1>8. CASE Push(w)
  BY <1>1, <1>4, <1>8 DEF Push, Holds, HasSecond
<1>9. CASE VertexDone(w)
  BY <1>1, <1>4, <1>9 DEF VertexDone, Holds, HasVertex
<1>10. CASE LockFirst(w)
  <2>1. PICK x \in Ids : x = rep[Smaller(edge[w])] /\ rep[x] = x
    BY <1>1, <1>2 DEF Smaller
  <2> QED
    BY <1>3, <1>5, <1>10, <2>1 DEF LockFirst, dset
<1>11. CASE LockSecond(w)
  <2>1. PICK x \in Ids : x = rep[b] /\ rep[x] = x
    BY <1>1, <1>2
  <2> QED
    BY <1>3, <1>5, <1>11, <2>1 DEF LockSecond
<1>12. CASE Release(w)
  BY <1>1, <1>4, <1>12 DEF Release, Holds, HasFirst
<1>13. CASE Skip(w)
  BY <1>1, <1>4, <1>13 DEF Skip, Holds, HasFirst, HasSecond
<1>14. CASE Unite(w)
  <2>1. Sets!UniteLocked(w, a, b)
    BY <1>14 DEF Unite
  <2> QED
    BY <1>1, <2>1 DEF Sets!Next
<1>15. CASE UnlockTarget(w)
  BY <1>1, <1>4, <1>15 DEF UnlockTarget, Holds, HasSecond
<1>16. CASE SameLink(w) \/ TakeEdge(w) \/ Check(w) \/ Gather(w) \/ Merge(w)
  BY <1>5, <1>16 DEF SameLink, TakeEdge, Check, Gather, Merge
<1> QED
  BY <1>6, <1>7, <1>8, <1>9, <1>10, <1>11, <1>12, <1>13, <1>14, <1>15, <1>16 DEF Worker

(* So is every step. *)
LEMMA SetsNext ==
    ASSUME Frame, [Next]_vars
    PROVE  [Sets!Next]_(Sets!vars)
<1>1. ASSUME UNCHANGED dset
      PROVE  [Sets!Next]_(Sets!vars)
  BY <1>1 DEF dset, Sets!vars
<1>2. UNCHANGED vars => UNCHANGED dset
  BY DEF vars, dset
<1> QED
  BY <1>1, <1>2, SetsWorker DEF Next, NextPhase, Assign, Relabel, Clean, Finished

-----------------------------------------------------------------------------
(* What the clusters know of each other.                                   *)

(* Linked, written out for the provers. *)
LEMMA LinkedIs ==
    \A x, y : Linked(x, y) <=> \E e \in input.next : \/ rep[e[1]] = x /\ rep[e[2]] = y
                                                     \/ rep[e[1]] = y /\ rep[e[2]] = x
BY DEF Linked

(* The same after a step. *)
LEMMA LinkedIsNext ==
    \A x, y : Linked(x, y)' <=> \E e \in input'.next : \/ rep'[e[1]] = x /\ rep'[e[2]] = y
                                                       \/ rep'[e[1]] = y /\ rep'[e[2]] = x
<1>1. (\A x, y : Linked(x, y) <=> \E e \in input.next : \/ rep[e[1]] = x /\ rep[e[2]] = y
                                                        \/ rep[e[1]] = y /\ rep[e[2]] = x)'
  BY LinkedIs, PTL
<1> QED
  BY <1>1

(* An edge to keep links both ways. *)
LEMMA LinkedIsSymmetric == \A a, b : Linked(a, b) <=> Linked(b, a)
BY LinkedIs

(* No cluster holds both ends of an edge to keep. *)
LEMMA NotLinkedToItself ==
    ASSUME KeptApart, NEW a
    PROVE  ~Linked(a, a)
BY LinkedIs DEF KeptApart

(* NeighborReps, written out for the provers. *)
LEMMA NeighborRepsAre ==
    \A a, b : b \in NeighborReps(a) <=> \E k \in adj_new[a] : rep[k] = b
BY DEF NeighborReps

(* Two threads never have locked the same cluster. *)
LEMMA LocksAreDisjoint ==
    ASSUME Frame, NEW w \in Workers, NEW v \in Workers, NEW x \in Ids, Holds(w, x), Holds(v, x)
    PROVE  w = v
BY DEF Frame, LocksInv

(* The ends of an edge, when both are locked, are two representatives. *)
LEMMA EndsAre ==
    ASSUME Frame, NEW w \in Workers, pc[w] \in HasBoth
    PROVE  /\ edge[w][1] \in Ids /\ edge[w][2] \in Ids /\ edge[w][1] # edge[w][2]
           /\ rep[edge[w][1]] = edge[w][1] /\ rep[edge[w][2]] = edge[w][2]
           /\ Holds(w, edge[w][1]) /\ Holds(w, edge[w][2])
<1>1. edge[w][1] \in Ids /\ edge[w][2] \in Ids
  BY LocalType DEF Frame
<1>2. Holds(w, edge[w][1]) /\ Holds(w, edge[w][2])
  BY DEF Holds, HasBoth
<1>3. holder[edge[w][1]] = w /\ holder[edge[w][2]] = w
  BY <1>1, <1>2 DEF Frame, LocksInv
<1> QED
  BY <1>1, <1>2, <1>3, NobodyAssumption DEF Frame, LocksInv, RepInv

(* Two threads that join clusters work on four different ones. *)
LEMMA EndsAreDisjoint ==
    ASSUME Frame, NEW w \in Workers, NEW v \in Workers, w # v, pc[w] \in HasBoth, pc[v] \in HasBoth
    PROVE  /\ edge[v][1] # edge[w][1] /\ edge[v][1] # edge[w][2]
           /\ edge[v][2] # edge[w][1] /\ edge[v][2] # edge[w][2]
BY EndsAre, LocksAreDisjoint

(* The links between clusters after a is joined to b. *)
LEMMA JoinLinks ==
    ASSUME TypeOK, NEW a \in Ids, NEW b \in Ids, a # b, rep[a] = a, rep[b] = b,
           rep' = [x \in Ids |-> IF rep[x] = a THEN b ELSE rep[x]], input' = input
    PROVE  /\ \A x, y \in Ids \ {a, b} : Linked(x, y)' <=> Linked(x, y)
           /\ \A x \in Ids \ {a, b} : Linked(x, b)' <=> Linked(x, a) \/ Linked(x, b)
           /\ \A x \in Ids \ {a, b} : Linked(b, x)' <=> Linked(a, x) \/ Linked(b, x)
           /\ Linked(b, b)' <=> \/ Linked(a, b)
                                \/ Linked(a, a)
                                \/ Linked(b, b)
<1> DEFINE Ends(e, x, y) == \/ rep[e[1]] = x /\ rep[e[2]] = y
                            \/ rep[e[1]] = y /\ rep[e[2]] = x
<1>1. \A x, y : Linked(x, y) <=> \E e \in input.next : Ends(e, x, y)
  BY LinkedIs
<1>2. \A e \in input.next : e[1] \in Ids /\ e[2] \in Ids
  BY InputIs
<1> DEFINE Later(e, x, y) == \/ rep'[e[1]] = x /\ rep'[e[2]] = y
                             \/ rep'[e[1]] = y /\ rep'[e[2]] = x
<1>3. \A x, y : Linked(x, y)' <=> \E e \in input.next : Later(e, x, y)
  BY LinkedIsNext
<1>4. ASSUME NEW e \in input.next
      PROVE  /\ \A x, y \in Ids \ {a, b} : Later(e, x, y) <=> Ends(e, x, y)
             /\ \A x \in Ids \ {a, b} : Later(e, x, b) <=> Ends(e, x, a) \/ Ends(e, x, b)
             /\ \A x \in Ids \ {a, b} : Later(e, b, x) <=> Ends(e, a, x) \/ Ends(e, b, x)
             /\ Later(e, b, b) <=> \/ Ends(e, a, b)
                                   \/ Ends(e, a, a)
                                   \/ Ends(e, b, b)
  <2>1. PICK p \in Ids, q \in Ids : p = rep[e[1]] /\ q = rep[e[2]]
    BY <1>2 DEF TypeOK
  <2>2. /\ rep'[e[1]] = IF p = a THEN b ELSE p
        /\ rep'[e[2]] = IF q = a THEN b ELSE q
    BY <1>2, <2>1
  <2> QED
    BY <2>1, <2>2
<1> HIDE DEF Ends, Later
<1> QED
  BY <1>1, <1>3, <1>4

(* The neighbors of a cluster after a is joined to b. *)
LEMMA JoinNeighbors ==
    ASSUME TypeOK, NEW a \in Ids, NEW b \in Ids, a # b,
           rep' = [x \in Ids |-> IF rep[x] = a THEN b ELSE rep[x]], adj_new' = adj_new, NEW x \in Ids
    PROVE  /\ \A y \in Ids \ {a, b} : (y \in NeighborReps(x))' <=> y \in NeighborReps(x)
           /\ (b \in NeighborReps(x))' <=> a \in NeighborReps(x) \/ b \in NeighborReps(x)
<1>1. \A k \in adj_new[x] : k \in Ids
  BY DEF TypeOK
<1>2. \A k \in adj_new[x] : rep'[k] = IF rep[k] = a THEN b ELSE rep[k]
  BY <1>1
<1>3. \A y \in Ids : (y \in NeighborReps(x))' <=> \E k \in adj_new[x] : rep'[k] = y
  BY DEF NeighborReps
<1>4. \A y \in Ids \ {a, b} : \A k \in adj_new[x] : rep'[k] = y <=> rep[k] = y
  BY <1>2
<1>5. \A k \in adj_new[x] : rep'[k] = b <=> rep[k] = a \/ rep[k] = b
  BY <1>2
<1>6. \A y : y \in NeighborReps(x) <=> \E k \in adj_new[x] : rep[k] = y
  BY NeighborRepsAre
<1>7. \A y \in Ids \ {a, b} : (y \in NeighborReps(x))' <=> y \in NeighborReps(x)
  BY <1>3, <1>4, <1>6
<1>8. (b \in NeighborReps(x))' <=> a \in NeighborReps(x) \/ b \in NeighborReps(x)
  BY <1>3, <1>5, <1>6
<1> QED
  BY <1>7, <1>8

(* A step that leaves alone what the others know. *)
LEMMA KnownQuiet ==
    ASSUME KnownInv, NEW w \in Workers, Others(w),
           rep' = rep, adj_new' = adj_new, input' = input, phase' = phase,
           pc[w] # "unite", pc'[w] # "unite",
           phase \in {"collapse", "assign"} => Knows(w)'
    PROVE  KnownInv'
<1> SUFFICES ASSUME phase \in {"collapse", "assign"}
             PROVE  /\ \A x \in Ids : rep'[x] # x => adj_new'[x] = {}
                    /\ \A a \in Roots' : ~Joining(a)' => Known(a)'
                    /\ \A v \in Workers : Knows(v)'
  BY DEF KnownInv
<1>1. /\ \A x \in Ids : rep[x] # x => adj_new[x] = {}
      /\ \A a \in Roots : ~Joining(a) => Known(a)
      /\ \A v \in Workers : Knows(v)
  BY DEF KnownInv
<1>2. \A a : Joining(a)' <=> Joining(a)
  BY DEF Joining, Others
<1>3. /\ Roots' = Roots
      /\ \A a : Known(a)' <=> Known(a)
      /\ \A a, b : Linked(a, b)' <=> Linked(a, b)
      /\ \A a : NeighborReps(a)' = NeighborReps(a)
  BY DEF Roots, Known, Linked, NeighborReps
<1>4. ASSUME NEW v \in Workers, v # w
      PROVE  Knows(v)'
  <2>1. pc'[v] = pc[v] /\ edge'[v] = edge[v] /\ left'[v] = left[v] /\ temp'[v] = temp[v]
    BY <1>4 DEF Others
  <2>2. Gathered(v)' <=> Gathered(v)
    BY <1>3, <2>1 DEF Gathered
  <2>3. Merged(v)' <=> Merged(v)
    BY <1>3, <2>1 DEF Merged
  <2> QED
    BY <1>1, <1>3, <2>1, <2>2, <2>3 DEF Knows
<1> QED
  BY <1>1, <1>2, <1>3, <1>4

(* A thread with both locks, before it has rewritten anything. *)
LEMMA NobodyJoinsHere ==
    ASSUME Frame, NEW w \in Workers, pc[w] \in HasBoth \ {"unite"}
    PROVE  ~Joining(edge[w][1]) /\ ~Joining(edge[w][2])
BY EndsAreDisjoint DEF Joining, HasBoth, HasFirst, HasSecond

(* A worker that has looked at all links of its clusters knows whether     *)
(* they must stay apart (extract.cpp:138-146).                             *)
LEMMA KnownCheck ==
    ASSUME Frame, KnownInv, NEW w \in Workers, Check(w)
    PROVE  KnownInv'
<1> DEFINE a == edge[w][1]
           b == edge[w][2]
<1>1. TypeOK
  BY DEF Frame
<1>2. /\ pc[w] = "check" /\ rep' = rep /\ adj_new' = adj_new /\ input' = input /\ phase' = phase
      /\ edge' = edge /\ temp' = temp /\ temp[w] = {}
      /\ left[w] = left[w]
  BY DEF Check, dset, graph, Frame, PlaceInv
<1>3. Others(w)
  BY <1>1 DEF Check, Others, Goto, TypeOK
<1>4. CASE Contained(a, b)
  <2>1. pc'[w] = "skip"
    BY <1>1, <1>4 DEF Check, Goto, TypeOK
  <2> QED
    BY <1>2, <1>3, <2>1, KnownQuiet DEF Knows
<1>5. CASE ~Contained(a, b)
  <2>1. pc'[w] = "gather" /\ left'[w] = ({a} \X adj_new[a]) \cup ({b} \X adj_new[b])
    BY <1>1, <1>5 DEF Check, Goto, TypeOK
  <2> SUFFICES ASSUME phase \in {"collapse", "assign"} PROVE Knows(w)'
    BY <1>2, <1>3, <2>1, KnownQuiet
  <2>2. a \in Ids /\ b \in Ids /\ a \in Roots /\ b \in Roots /\ ~Joining(a)
    BY <1>2, EndsAre, NobodyJoinsHere DEF HasBoth, HasFirst, HasSecond, Roots
  <2>3. ~Linked(a, b)
    BY <1>5, <2>2, NeighborRepsAre DEF KnownInv, Known, Contained
  <2>4. \A c : NeighborReps(c)' = NeighborReps(c)
    BY <1>2 DEF NeighborReps
  <2>5. Linked(a, b)' <=> Linked(a, b)
    BY <1>2 DEF Linked
  <2>6. Gathered(w)'
    <3> DEFINE K == adj_new[a] \cup adj_new[b]
    <3>1. \A y \in Ids : y \in NeighborReps(a) \cup NeighborReps(b) <=> \E k \in K : rep[k] = y
      BY NeighborRepsAre
    <3>2. \A k \in adj_new[a] : <<a, k>> \in left'[w]
      BY <2>1
    <3>3. \A k \in adj_new[b] : <<b, k>> \in left'[w]
      BY <2>1
    <3>4. \A k \in K : \E e \in left'[w] : e[2] = k
      <4> SUFFICES ASSUME NEW k \in K PROVE \E e \in left'[w] : e[2] = k
        OBVIOUS
      <4>1. <<a, k>>[2] = k /\ <<b, k>>[2] = k
        OBVIOUS
      <4> QED
        BY <3>2, <3>3, <4>1
    <3>5. \A e \in left'[w] : e[2] \in K
      BY <2>1
    <3> HIDE DEF K
    <3> QED
      BY <1>2, <2>4, <3>1, <3>4, <3>5 DEF Gathered
  <2> QED
    BY <1>2, <2>1, <2>3, <2>5, <2>6 DEF Knows
<1> QED
  BY <1>4, <1>5

(* The neighbors gathered from both clusters are all that either has       *)
(* (extract.cpp:153-157).                                                  *)
LEMMA KnownGather ==
    ASSUME Frame, KnownInv, NEW w \in Workers, Gather(w)
    PROVE  KnownInv'
<1>1. TypeOK /\ RepInv
  BY DEF Frame
<1>2. /\ pc[w] = "gather" /\ pc'[w] \in {"gather", "merge"} /\ rep' = rep /\ adj_new' = adj_new
      /\ input' = input /\ phase' = phase /\ edge' = edge
  BY <1>1 DEF Gather, dset, graph, Goto, TypeOK
<1>3. Others(w)
  BY <1>1 DEF Gather, Others, Goto, TypeOK
<1> SUFFICES ASSUME phase \in {"collapse", "assign"} PROVE Knows(w)'
  BY <1>2, <1>3, KnownQuiet
<1>4. ~Linked(edge[w][1], edge[w][2]) /\ Gathered(w)
  BY <1>2 DEF KnownInv, Knows
<1>5. \A c : NeighborReps(c)' = NeighborReps(c)
  BY <1>2 DEF NeighborReps
<1>6. Linked(edge[w][1], edge[w][2])' <=> Linked(edge[w][1], edge[w][2])
  BY <1>2 DEF Linked
<1>7. \A y \in Ids : (\E k \in temp'[w] : rep[k] = y) \/ (\E e \in left'[w] : rep[e[2]] = y)
                        <=> (\E k \in temp[w] : rep[k] = y) \/ (\E e \in left[w] : rep[e[2]] = y)
  <2>1. CASE left[w] = {}
    BY <2>1 DEF Gather
  <2>2. CASE left[w] # {}
    <3>1. PICK link \in left[w] : /\ temp' = [temp EXCEPT ![w] = @ \cup {rep[link[2]]}]
                                  /\ left' = [left EXCEPT ![w] = @ \ {link}]
      BY <2>2 DEF Gather
    <3>2. temp'[w] = temp[w] \cup {rep[link[2]]} /\ left'[w] = left[w] \ {link}
      BY <1>1, <3>1 DEF TypeOK
    <3>3. rep[rep[link[2]]] = rep[link[2]]
      BY <1>1 DEF TypeOK, RepInv
    <3> QED
      BY <3>2, <3>3
  <2> QED
    BY <2>1, <2>2
<1>8. Gathered(w)'
  BY <1>2, <1>4, <1>5, <1>7 DEF Gathered
<1> QED
  BY <1>2, <1>4, <1>6, <1>8 DEF Knows

(* Renaming one cluster in the links of its neighbors loses no link        *)
(* (extract.cpp:159-167).                                                  *)
LEMMA KnownMerge ==
    ASSUME Frame, KnownInv, NEW w \in Workers, Merge(w)
    PROVE  KnownInv'
<1>1. TypeOK /\ TypeOK'
  BY CollapseType DEF Frame
<1> DEFINE a == edge[w][1]
           b == edge[w][2]
<1>2. PICK c \in {a, b}, t \in {a, b} :
        /\ c # t
        /\ adj_new' = [adj_new EXCEPT ![c] = {}, ![t] = temp[w]]
        /\ edge' = [edge EXCEPT ![w] = <<c, t>>]
  BY DEF Merge, Neighbors
<1>3. /\ pc[w] = "merge" /\ pc'[w] = "unite" /\ rep' = rep
      /\ input' = input /\ phase' = phase /\ edge'[w] = <<c, t>> /\ left[w] = {}
  BY <1>1, <1>2 DEF Merge, dset, Goto, TypeOK, Frame, PlaceInv
<1>4. Others(w)
  BY <1>1, <1>2 DEF Merge, Others, Goto, TypeOK
<1>5. a \in Ids /\ b \in Ids /\ rep[a] = a /\ rep[b] = b /\ a # b
  BY <1>3, EndsAre DEF HasBoth, HasFirst, HasSecond
<1>6. a \in Roots /\ b \in Roots /\ ~Joining(a) /\ ~Joining(b)
  BY <1>3, <1>5, NobodyJoinsHere DEF HasBoth, HasFirst, HasSecond, Roots
<1>7. {c, t} = {a, b} /\ c \in Ids /\ t \in Ids
  BY <1>2, <1>5
<1>8. adj_new'[c] = {} /\ adj_new'[t] = temp[w] /\ \A x \in Ids \ {a, b} : adj_new'[x] = adj_new[x]
  <2>1. adj_new \in [Ids -> SUBSET Ids]
    BY <1>1 DEF TypeOK
  <2> QED
    BY <1>2, <1>7, <2>1
<1> SUFFICES ASSUME phase \in {"collapse", "assign"}
             PROVE  /\ \A x \in Ids : rep'[x] # x => adj_new'[x] = {}
                    /\ \A x \in Roots' : ~Joining(x)' => Known(x)'
                    /\ \A v \in Workers : Knows(v)'
  BY <1>3 DEF KnownInv
<1>9. /\ \A x \in Ids : rep[x] # x => adj_new[x] = {}
      /\ \A x \in Roots : ~Joining(x) => Known(x)
      /\ \A v \in Workers : Knows(v)
  BY DEF KnownInv
<1>10. /\ Roots' = Roots
       /\ \A x, y : Linked(x, y)' <=> Linked(x, y)
       /\ \A x \in Ids \ {a, b} : NeighborReps(x)' = NeighborReps(x)
  BY <1>3, <1>8 DEF Roots, Linked, NeighborReps
<1>11. ASSUME NEW x \in Ids, rep'[x] # x
       PROVE  adj_new'[x] = {}
  BY <1>3, <1>5, <1>8, <1>9, <1>11
<1>12. ASSUME NEW x \in Roots', ~Joining(x)'
       PROVE  Known(x)'
  <2>1. x # a /\ x # b
    <3>1. \A v \in Workers : pc'[v] = "unite" => x \notin {edge'[v][1], edge'[v][2]}
      BY <1>12 DEF Joining
    <3> QED
      BY <1>3, <1>7, <3>1
  <2>2. ~Joining(x)
    <3>1. \A v \in Workers \ {w} : pc[v] = "unite" => x \notin {edge[v][1], edge[v][2]}
      BY <1>4, <1>12 DEF Joining, Others
    <3> QED
      BY <1>3, <3>1 DEF Joining
  <2>3. Known(x) /\ x \in Ids
    BY <1>9, <1>10, <1>12, <2>2 DEF Roots
  <2> QED
    BY <1>10, <2>1, <2>3 DEF Known
<1>13. ASSUME NEW v \in Workers, v # w
       PROVE  Knows(v)'
  <2>1. pc'[v] = pc[v] /\ edge'[v] = edge[v] /\ left'[v] = left[v] /\ temp'[v] = temp[v]
    BY <1>4, <1>13 DEF Others
  <2>2. CASE pc[v] \notin {"gather", "merge", "unite"}
    BY <2>1, <2>2 DEF Knows
  <2>3. CASE pc[v] \in {"gather", "merge", "unite"}
    <3>1. /\ edge[v][1] \in Ids \ {a, b} /\ edge[v][2] \in Ids \ {a, b}
      BY <1>3, <1>13, <2>3, EndsAre, EndsAreDisjoint DEF HasBoth, HasFirst, HasSecond
    <3>2. Gathered(v)' <=> Gathered(v)
      BY <1>3, <1>10, <2>1, <3>1 DEF Gathered
    <3>3. Merged(v)' <=> Merged(v)
      BY <1>3, <1>8, <1>10, <2>1, <3>1 DEF Merged
    <3> QED
      BY <1>9, <1>10, <2>1, <3>2, <3>3 DEF Knows
  <2> QED
    BY <2>2, <2>3
<1>14. Knows(w)'
  <2>1. ~Linked(a, b) /\ Gathered(w)
    BY <1>3, <1>9 DEF Knows
  <2>2. ~Linked(c, t)
    BY <1>2, <2>1, LinkedIsSymmetric
  <2>3. \A y \in Ids : (y \in NeighborReps(t))' <=> y \in NeighborReps(a) \/ y \in NeighborReps(b)
    <3>1. \A y \in Ids : y \in NeighborReps(a) \/ y \in NeighborReps(b) <=> \E k \in temp[w] : rep[k] = y
      BY <1>3, <2>1 DEF Gathered
    <3>2. \A y \in Ids : (y \in NeighborReps(t))' <=> \E k \in temp[w] : rep[k] = y
      BY <1>3, <1>8 DEF NeighborReps
    <3> QED
      BY <3>1, <3>2
  <2>4. \A y \in Roots : y \in NeighborReps(a) \/ y \in NeighborReps(b) <=> Linked(a, y) \/ Linked(b, y)
    BY <1>6, <1>9 DEF Known
  <2>5. \A y \in Roots : Linked(a, y) \/ Linked(b, y) <=> Linked(c, y) \/ Linked(t, y)
    BY <1>2
  <2>6. Merged(w)'
    <3>1. \A y \in Roots : y \in Ids
      BY DEF Roots
    <3>2. \A y \in Roots : (y \in NeighborReps(t))' <=> Linked(c, y) \/ Linked(t, y)
      BY <2>3, <2>4, <2>5, <3>1
    <3> QED
      BY <1>3, <1>8, <1>10, <3>2 DEF Merged
  <2> QED
    BY <1>3, <1>10, <2>2, <2>6 DEF Knows
<1> QED
  BY <1>11, <1>12, <1>13, <1>14

(* The new cluster knows the neighbors of both, and no others are joined   *)
(* that an edge links (extract.cpp:169).                                   *)
LEMMA KnownUnite ==
    ASSUME Frame, KnownInv, KeptApart, NEW w \in Workers, Unite(w)
    PROVE  KnownInv' /\ KeptApart'
<1>1. TypeOK /\ TypeOK'
  BY CollapseType DEF Frame
<1>e. PICK a \in Ids, b \in Ids : a = edge[w][1] /\ b = edge[w][2]
  BY <1>1, LocalType
<1>2. /\ pc[w] = "unite" /\ pc'[w] = "unlock" /\ edge' = edge /\ left' = left /\ temp' = temp
      /\ adj_new' = adj_new /\ input' = input /\ phase' = phase
      /\ rep' = [x \in Ids |-> IF rep[x] = a THEN b ELSE rep[x]]
  BY <1>1, <1>e DEF Unite, Goto, graph, Sets!UniteLocked, Sets!Join, TypeOK
<1>3. Others(w)
  BY <1>1 DEF Unite, Others, Goto, TypeOK
<1>4. a \in Ids /\ b \in Ids /\ rep[a] = a /\ rep[b] = b /\ a # b
  BY <1>2, <1>e, EndsAre DEF HasBoth, HasFirst, HasSecond
<1>5. phase \in {"collapse", "assign"}
  <2>1. phase \in Phases
    BY <1>1 DEF TypeOK
  <2> QED
    BY <1>2, <2>1 DEF Frame, PlaceInv, Phases, HasVertex
<1>6. /\ \A x \in Ids : rep[x] # x => adj_new[x] = {}
      /\ \A x \in Roots : ~Joining(x) => Known(x)
      /\ \A v \in Workers : Knows(v)
  BY <1>5 DEF KnownInv
<1>7. ~Linked(a, b) /\ Merged(w)
  BY <1>2, <1>6, <1>e DEF Knows
<1>8. /\ \A x, y \in Ids \ {a, b} : Linked(x, y)' <=> Linked(x, y)
      /\ \A x \in Ids \ {a, b} : Linked(x, b)' <=> Linked(x, a) \/ Linked(x, b)
      /\ \A x \in Ids \ {a, b} : Linked(b, x)' <=> Linked(a, x) \/ Linked(b, x)
      /\ ~Linked(b, b)'
  <2>1. ~Linked(a, a) /\ ~Linked(b, b)
    BY NotLinkedToItself
  <2> QED
    BY <1>1, <1>2, <1>4, <1>7, <2>1, JoinLinks
<1>9. \A x \in Ids : /\ \A y \in Ids \ {a, b} : (y \in NeighborReps(x))' <=> y \in NeighborReps(x)
                     /\ (b \in NeighborReps(x))' <=> a \in NeighborReps(x) \/ b \in NeighborReps(x)
  <2> QED
    BY <1>1, <1>2, <1>4, JoinNeighbors
<1>10. \A x \in Ids : rep'[x] = IF rep[x] = a THEN b ELSE rep[x]
  BY <1>2
<1>11. \A x : x \in Roots' <=> x \in Roots /\ x # a
  BY <1>4, <1>10 DEF Roots
<1>12. KeptApart'
  <2> SUFFICES ASSUME NEW e \in input.next PROVE rep'[e[1]] # rep'[e[2]]
    BY <1>2 DEF KeptApart
  <2>1. e[1] \in Ids /\ e[2] \in Ids /\ rep[e[1]] # rep[e[2]]
    BY <1>1, InputIs DEF KeptApart
  <2>2. ~(rep[e[1]] = a /\ rep[e[2]] = b) /\ ~(rep[e[1]] = b /\ rep[e[2]] = a)
    BY <1>7, LinkedIs
  <2> QED
    BY <1>10, <2>1, <2>2
<1>13. ASSUME NEW x \in Ids, rep'[x] # x
       PROVE  adj_new'[x] = {}
  <2>1. CASE x = a
    BY <1>2, <1>7, <1>e, <2>1 DEF Merged
  <2>2. CASE x # a
    BY <1>2, <1>4, <1>6, <1>10, <1>13, <2>2
  <2> QED
    BY <2>1, <2>2
<1>14. ASSUME NEW x \in Roots', ~Joining(x)'
       PROVE  Known(x)'
  <2>1. x \in Roots /\ x # a /\ x \in Ids
    BY <1>11, <1>14 DEF Roots
  <2>2. \A y \in Roots' : y \in Ids /\ y # a /\ y \in Roots
    BY <1>11 DEF Roots
  <2>3. CASE x = b
    <3>1. \A y \in Roots : y \in NeighborReps(b) <=> Linked(a, y) \/ Linked(b, y)
      BY <1>7, <1>e DEF Merged
    <3>2. a \in Roots /\ b \in Roots
      BY <1>4 DEF Roots
    <3>3. ~(b \in NeighborReps(b))'
      BY <1>4, <1>7, <1>9, <3>1, <3>2, NotLinkedToItself, LinkedIsSymmetric
    <3>4. ASSUME NEW y \in Roots'
          PROVE  (y \in NeighborReps(b))' <=> Linked(b, y)'
      BY <1>4, <1>8, <1>9, <2>2, <3>1, <3>3, <3>4
    <3> QED
      BY <2>3, <3>4 DEF Known
  <2>4. CASE x # b
    <3>1. ~Joining(x)
      <4>1. \A v \in Workers \ {w} : pc[v] = "unite" => x \notin {edge[v][1], edge[v][2]}
        BY <1>3, <1>14 DEF Joining, Others
      <4> QED
        BY <1>e, <2>1, <2>4, <4>1 DEF Joining
    <3>2. \A y \in Roots : y \in NeighborReps(x) <=> Linked(x, y)
      BY <1>6, <2>1, <3>1 DEF Known
    <3>3. a \in Roots /\ b \in Roots
      BY <1>4 DEF Roots
    <3>4. ASSUME NEW y \in Roots'
          PROVE  (y \in NeighborReps(x))' <=> Linked(x, y)'
      BY <1>4, <1>8, <1>9, <2>1, <2>2, <2>4, <3>2, <3>3, <3>4
    <3> QED
      BY <3>4 DEF Known
  <2> QED
    BY <2>3, <2>4
<1>15. ASSUME NEW v \in Workers, v # w
       PROVE  Knows(v)'
  <2>1. pc'[v] = pc[v] /\ edge'[v] = edge[v] /\ left'[v] = left[v] /\ temp'[v] = temp[v]
    BY <1>3, <1>15 DEF Others
  <2>2. CASE pc[v] \notin {"gather", "merge", "unite"}
    BY <2>1, <2>2 DEF Knows
  <2>3. CASE pc[v] \in {"gather", "merge", "unite"}
    <3>e. PICK c \in Ids, d \in Ids : c = edge[v][1] /\ d = edge[v][2]
      BY <1>1, LocalType
    <3>1. c \in Ids \ {a, b} /\ d \in Ids \ {a, b}
      BY <1>2, <1>15, <1>e, <2>3, <3>e, EndsAreDisjoint DEF HasBoth, HasFirst, HasSecond
    <3>2. ~Linked(c, d)'
      BY <1>6, <1>8, <2>3, <3>1, <3>e DEF Knows
    <3>3. ASSUME Gathered(v)
          PROVE  Gathered(v)'
      <4> DEFINE Seen(y) == \/ \E k \in temp[v] : rep[k] = y
                            \/ \E e \in left[v] : rep[e[2]] = y
                 SeenNow(y) == \/ \E k \in temp[v] : rep'[k] = y
                               \/ \E e \in left[v] : rep'[e[2]] = y
      <4>1. /\ \A k \in temp[v] : k \in Ids
            /\ \A e \in left[v] : e[2] \in Ids
        BY <1>1, LocalType
      <4>2. \A y \in Ids : y \in NeighborReps(c) \/ y \in NeighborReps(d) <=> Seen(y)
        BY <3>3, <3>e DEF Gathered
      <4>3. \A y \in Ids \ {a, b} : SeenNow(y) <=> Seen(y)
        BY <1>10, <4>1
      <4>4. SeenNow(b) <=> Seen(a) \/ Seen(b)
        BY <1>4, <1>10, <4>1
      <4>5. ~SeenNow(a)
        BY <1>4, <1>10, <4>1
      <4>6. ~(a \in NeighborReps(c))' /\ ~(a \in NeighborReps(d))'
        <5>1. \A k \in Ids : rep'[k] # a
          BY <1>4, <1>10
        <5>2. adj_new'[c] \subseteq Ids /\ adj_new'[d] \subseteq Ids
          BY <1>1, <3>1 DEF TypeOK
        <5> QED
          BY <5>1, <5>2 DEF NeighborReps
      <4> HIDE DEF Seen, SeenNow
      <4>7. \A y \in Ids : (y \in NeighborReps(c))' \/ (y \in NeighborReps(d))' <=> SeenNow(y)
        BY <1>4, <1>9, <3>1, <4>2, <4>3, <4>4, <4>5, <4>6
      <4>8. edge'[v] = edge[v] /\ temp'[v] = temp[v] /\ left'[v] = left[v]
        BY <2>1
      <4> QED
        BY <3>e, <4>7, <4>8 DEF Gathered, SeenNow
    <3>4. ASSUME Merged(v)
          PROVE  Merged(v)'
      <4>1. \A y \in Roots : y \in NeighborReps(d) <=> Linked(c, y) \/ Linked(d, y)
        BY <3>4, <3>e DEF Merged
      <4>2. \A y \in Roots' : y \in Ids /\ y # a /\ y \in Roots
        BY <1>11 DEF Roots
      <4>3. a \in Roots /\ b \in Roots
        BY <1>4 DEF Roots
      <4>4. ASSUME NEW y \in Roots'
            PROVE  (y \in NeighborReps(d))' <=> Linked(c, y)' \/ Linked(d, y)'
        <5>1. CASE y = b
          BY <1>4, <1>8, <1>9, <3>1, <4>1, <4>3, <5>1
        <5>2. CASE y # b
          BY <1>8, <1>9, <3>1, <4>1, <4>2, <5>2
        <5> QED
          BY <5>1, <5>2
      <4>5. adj_new'[edge'[v][1]] = {}
        BY <1>2, <2>1, <3>4 DEF Merged
      <4> QED
        BY <2>1, <3>e, <4>4, <4>5 DEF Merged
    <3> QED
      BY <1>6, <2>1, <3>2, <3>3, <3>4, <3>e DEF Knows
  <2> QED
    BY <2>2, <2>3
<1>16. Knows(w)'
  BY <1>2 DEF Knows
<1>17. KnownInv'
  BY <1>13, <1>14, <1>15, <1>16 DEF KnownInv
<1> QED
  BY <1>12, <1>17

(* Step 1 loses no link. *)
LEMMA ClassifyKeeps ==
    ASSUME Frame, ClassifyInv, NEW w \in Workers,
           TakeVertex(w) \/ SameLink(w) \/ NextLink(w) \/ Push(w) \/ VertexDone(w)
    PROVE  ClassifyInv' /\ rep' = rep /\ input' = input /\ phase' = phase /\ phase = "classify"
<1>1. TypeOK /\ TypeOK'
  BY ClassifyType DEF Frame
<1>2. phase = "classify"
  <2>1. phase \in Phases /\ (phase = "classify" \/ pc[w] \in HasVertex)
    BY <1>1 DEF TypeOK, TakeVertex, SameLink, NextLink, Push, VertexDone, HasVertex
  <2> QED
    BY <2>1 DEF Frame, PlaceInv, Phases, HasVertex
<1>3. /\ \A a, b \in Ids : b \in adj_new[a] => <<a, b>> \in input.next \/ <<b, a>> \in input.next
      /\ \A e \in input.next : Pending(e) \/ (e[2] \in adj_new[e[1]] /\ e[1] \in adj_new[e[2]])
      /\ \A x \in Ids : nCollapses[x] = 0
  BY <1>2 DEF ClassifyInv
<1>4. /\ input.same \cap input.next = {}
      /\ \A e \in input.next : e[1] \in Ids /\ e[2] \in Ids /\ e = <<e[1], e[2]>>
  BY <1>1, InputIs
<1>5. rep' = rep /\ input' = input /\ phase' = phase /\ nCollapses' = nCollapses
  BY DEF TakeVertex, SameLink, NextLink, Push, VertexDone, Lock, Unlock, dset, graph
<1>6. /\ pc \in [Workers -> Pcs] /\ left \in [Workers -> SUBSET (Ids \X Ids)]
      /\ edge \in [Workers -> Ids \X Ids]
  BY <1>1 DEF TypeOK
<1>7. Others(w)
  BY <1>1 DEF TakeVertex, SameLink, NextLink, Push, VertexDone, Others, Goto, TypeOK
<1>8. \A e : (\E v \in Workers \ {w} : \/ pc'[v] \in HasVertex /\ e \in left'[v]
                                       \/ pc'[v] = "push" /\ edge'[v] = e)
             <=> (\E v \in Workers \ {w} : \/ pc[v] \in HasVertex /\ e \in left[v]
                                           \/ pc[v] = "push" /\ edge[v] = e)
  BY <1>7 DEF Others
<1> DEFINE Mine(e) == \/ <<e[1], e[1]>> \in todo
                      \/ pc[w] \in HasVertex /\ e \in left[w]
                      \/ pc[w] = "push" /\ edge[w] = e
           MineNow(e) == \/ <<e[1], e[1]>> \in todo'
                         \/ pc'[w] \in HasVertex /\ e \in left'[w]
                         \/ pc'[w] = "push" /\ edge'[w] = e
<1>9. ASSUME NEW e
      PROVE  (Pending(e) <=> \/ Mine(e)
                             \/ \E v \in Workers \ {w} : \/ pc[v] \in HasVertex /\ e \in left[v]
                                                         \/ pc[v] = "push" /\ edge[v] = e)
  BY DEF Pending
<1>10. ASSUME NEW e, MineNow(e) \/ \E v \in Workers \ {w} : \/ pc'[v] \in HasVertex /\ e \in left'[v]
                                                            \/ pc'[v] = "push" /\ edge'[v] = e
       PROVE  Pending(e)'
  BY <1>10 DEF Pending
<1>11. ASSUME \A a, b \in Ids : b \in adj_new'[a] => <<a, b>> \in input.next \/ <<b, a>> \in input.next,
              \A a \in Ids : adj_new[a] \subseteq adj_new'[a],
              \A e \in input.next : Mine(e) => \/ MineNow(e)
                                               \/ e[2] \in adj_new'[e[1]] /\ e[1] \in adj_new'[e[2]]
       PROVE  ClassifyInv'
  <2>1. ASSUME NEW e \in input.next
        PROVE  Pending(e)' \/ (e[2] \in adj_new'[e[1]] /\ e[1] \in adj_new'[e[2]])
    <3> HIDE DEF Mine, MineNow
    <3> QED
      BY <1>3, <1>4, <1>8, <1>9, <1>10, <1>11
  <2> QED
    BY <1>3, <1>5, <1>11, <2>1 DEF ClassifyInv
<1>12. CASE TakeVertex(w)
  <2>1. PICK v \in todo : /\ todo' = todo \ {v}
                          /\ left' = [left EXCEPT ![w] = {e \in input.same \cup input.next : e[1] = v[1]}]
    BY <1>12 DEF TakeVertex
  <2>2. /\ pc[w] = "idle" /\ pc'[w] = "links" /\ adj_new' = adj_new
        /\ left'[w] = {e \in input.same \cup input.next : e[1] = v[1]}
    BY <1>6, <1>12, <2>1 DEF TakeVertex, Goto, graph
  <2>3. \A e \in input.next : Mine(e) => MineNow(e)
    <3> SUFFICES ASSUME NEW e \in input.next, Mine(e) PROVE MineNow(e)
      OBVIOUS
    <3>1. <<e[1], e[1]>> \in todo
      BY <2>2 DEF HasVertex
    <3>2. CASE v = <<e[1], e[1]>>
      BY <2>2, <3>2 DEF HasVertex
    <3>3. CASE v # <<e[1], e[1]>>
      BY <2>1, <3>1, <3>3
    <3> QED
      BY <3>2, <3>3
  <2> QED
    BY <1>2, <1>5, <1>3, <1>11, <2>2, <2>3
<1>13. CASE SameLink(w)
  <2>1. PICK e \in left[w] \cap input.same : left' = [left EXCEPT ![w] = @ \ {e}]
    BY <1>13 DEF SameLink
  <2>2. /\ pc' = pc /\ edge' = edge /\ todo' = todo /\ adj_new' = adj_new
        /\ left'[w] = left[w] \ {e}
    BY <1>6, <1>13, <2>1 DEF SameLink, graph
  <2>3. \A d \in input.next : Mine(d) => MineNow(d)
    BY <1>4, <2>1, <2>2
  <2> QED
    BY <1>2, <1>5, <1>3, <1>11, <2>2, <2>3
<1>14. CASE NextLink(w)
  <2>1. PICK e \in left[w] \cap input.next : /\ edge' = [edge EXCEPT ![w] = e]
                                             /\ left' = [left EXCEPT ![w] = @ \ {e}]
    BY <1>14 DEF NextLink
  <2>2. /\ pc[w] = "links" /\ pc'[w] = "push" /\ todo' = todo /\ adj_new' = adj_new
        /\ left'[w] = left[w] \ {e} /\ edge'[w] = e
    BY <1>6, <1>14, <2>1 DEF NextLink, Goto, graph
  <2>3. \A d \in input.next : Mine(d) => MineNow(d)
    BY <2>1, <2>2 DEF HasVertex
  <2> QED
    BY <1>2, <1>5, <1>3, <1>11, <2>2, <2>3
<1>15. CASE Push(w)
  <2>1. PICK i \in Ids, j \in Ids : i = edge[w][1] /\ j = edge[w][2]
    BY <1>1, LocalType
  <2>2. adj_new' = [adj_new EXCEPT ![i] = @ \cup {j}, ![j] = @ \cup {i}]
    BY <1>15, <2>1 DEF Push
  <2>3. \A x, y \in Ids : y \in adj_new'[x] <=>
                \/ y \in adj_new[x]
                \/ x = i /\ y = j
                \/ x = j /\ y = i
    BY <1>1, <2>2, PushAdds
  <2>4. /\ pc[w] = "push" /\ pc'[w] = "links" /\ todo' = todo /\ left' = left
        /\ edge[w] \in input.next /\ edge[w] = <<i, j>>
    BY <1>4, <1>6, <1>15, <2>1 DEF Push, Goto, Frame, PlaceInv
  <2>5. \A d \in input.next : Mine(d) => \/ MineNow(d)
                                         \/ d[2] \in adj_new'[d[1]] /\ d[1] \in adj_new'[d[2]]
    BY <2>1, <2>3, <2>4 DEF HasVertex
  <2>6. \A a, b \in Ids : b \in adj_new'[a] => <<a, b>> \in input.next \/ <<b, a>> \in input.next
    BY <1>3, <2>3, <2>4
  <2>7. \A a \in Ids : adj_new[a] \subseteq adj_new'[a]
    BY <1>1, <2>3 DEF TypeOK
  <2> QED
    BY <1>2, <1>5, <1>11, <2>5, <2>6, <2>7
<1>16. CASE VertexDone(w)
  <2>1. pc[w] = "links" /\ left[w] = {} /\ todo' = todo /\ adj_new' = adj_new
    BY <1>16 DEF VertexDone, graph
  <2>2. \A d \in input.next : Mine(d) => MineNow(d)
    BY <2>1
  <2> QED
    BY <1>2, <1>5, <1>3, <1>11, <2>1, <2>2
<1> QED
  BY <1>2, <1>5, <1>12, <1>13, <1>14, <1>15, <1>16

(* Step 2 begins with clusters of one that know each other. *)
LEMMA ClassifyEnds ==
    ASSUME Frame, ClassifyInv, NextPhase, phase = "classify"
    PROVE  KnownInv'
<1>1. TypeOK
  BY DEF Frame
<1>2. /\ todo = {} /\ phase' = "collapse" /\ \A w \in Workers : pc[w] = "idle"
      /\ rep' = rep /\ adj_new' = adj_new /\ input' = input /\ pc' = pc
  BY DEF NextPhase, dset, graph, locals
<1>3. \A x \in Ids : rep[x] = x
  BY DEF Frame, RepInv
<1>4. /\ \A a, b \in Ids : b \in adj_new[a] => <<a, b>> \in input.next \/ <<b, a>> \in input.next
      /\ \A e \in input.next : e[2] \in adj_new[e[1]] /\ e[1] \in adj_new[e[2]]
  BY <1>2 DEF ClassifyInv, Pending, HasVertex
<1>5. \A e \in input.next : e[1] \in Ids /\ e[2] \in Ids
  BY <1>1, InputIs
<1>6. \A x \in Ids : rep'[x] # x => adj_new'[x] = {}
  BY <1>2, <1>3
<1>7. ASSUME NEW a \in Ids, NEW b \in Ids
      PROVE  (b \in NeighborReps(a))' <=> Linked(a, b)'
  <2>1. (b \in NeighborReps(a))' <=> b \in adj_new[a]
    <3>1. adj_new[a] \subseteq Ids
      BY <1>1 DEF TypeOK
    <3> QED
      BY <1>2, <1>3, <3>1 DEF NeighborReps
  <2>2. Linked(a, b)' <=> \E e \in input.next : \/ e[1] = a /\ e[2] = b
                                                \/ e[1] = b /\ e[2] = a
    BY <1>2, <1>3, <1>5, LinkedIsNext
  <2>3. ASSUME NEW x, NEW y, <<x, y>> \in input.next
        PROVE  \E e \in input.next : e[1] = x /\ e[2] = y
    BY <2>3
  <2> QED
    BY <1>4, <2>1, <2>2, <2>3
<1>8. \A a \in Roots' : Known(a)'
  BY <1>7 DEF Known, Roots
<1>9. \A w \in Workers : Knows(w)'
  BY <1>2 DEF Knows
<1> QED
  BY <1>6, <1>8, <1>9 DEF KnownInv

ApartInv == ClassifyInv /\ KnownInv /\ KeptApart

(* ApartInv holds in the beginning. *)
LEMMA ApartInit == Init => ApartInv
<1> SUFFICES ASSUME Init PROVE ApartInv
  OBVIOUS
<1>1. /\ rep = [x \in Ids |-> x] /\ adj_new = [x \in Ids |-> {}] /\ nCollapses = [x \in Ids |-> 0]
      /\ phase = "classify" /\ todo = Items(Ids)
  BY DEF Init, Sets!Init
<1>2. \A e \in input.next : e[1] \in Ids /\ e[2] \in Ids /\ e[1] # e[2]
  BY FrameInit, InputIs DEF Frame
<1>3. KeptApart
  BY <1>1, <1>2 DEF KeptApart
<1>4. ClassifyInv
  BY <1>1, <1>2 DEF ClassifyInv, Pending, Items
<1> QED
  BY <1>1, <1>3, <1>4 DEF ApartInv, KnownInv

(* Steps of the second phase keep ApartInv. *)
LEMMA ApartCollapse ==
    ASSUME Frame, ApartInv, NEW w \in Workers,
           \/ TakeEdge(w) \/ LockFirst(w) \/ LockSecond(w) \/ Release(w) \/ Check(w) \/ Skip(w)
           \/ Gather(w) \/ Merge(w) \/ Unite(w) \/ UnlockTarget(w)
    PROVE  ApartInv'
<1>1. TypeOK
  BY DEF Frame
<1>2. phase = "collapse" /\ phase' = phase /\ input' = input
  <2>1. phase = "collapse" \/ pc[w] \notin {"idle"} \cup HasVertex
    BY DEF TakeEdge, LockFirst, LockSecond, Release, Check, Skip, Gather, Merge, Unite, UnlockTarget,
       HasVertex
  <2>2. phase' = phase /\ input' = input
    BY DEF TakeEdge, LockFirst, LockSecond, Release, Check, Skip, Gather, Merge, Unite, UnlockTarget
  <2>3. phase \in Phases
    BY <1>1 DEF TypeOK
  <2> QED
    BY <2>1, <2>2, <2>3 DEF Frame, PlaceInv, HasVertex, Phases
<1>3. ClassifyInv'
  BY <1>2 DEF ClassifyInv
<1>4. rep' = rep => KeptApart'
  BY <1>2 DEF KeptApart, ApartInv
<1>5. CASE TakeEdge(w) \/ LockFirst(w) \/ LockSecond(w) \/ Release(w) \/ Skip(w) \/ UnlockTarget(w)
  <2>1. /\ pc[w] \notin {"gather", "merge", "unite"} /\ pc'[w] \notin {"gather", "merge", "unite"}
        /\ rep' = rep /\ adj_new' = adj_new
    BY <1>1, <1>5 DEF TakeEdge, LockFirst, LockSecond, Release, Skip, UnlockTarget, Lock, Unlock,
       DropItem, Goto, TypeOK, dset, graph
  <2>2. Others(w)
    BY <1>1, <1>5 DEF TakeEdge, LockFirst, LockSecond, Release, Skip, UnlockTarget, Others, DropItem,
       Goto, TypeOK, dset
  <2>3. Knows(w)'
    BY <2>1 DEF Knows
  <2>4. KnownInv'
    BY <1>2, <2>1, <2>2, <2>3, KnownQuiet DEF ApartInv
  <2> QED
    BY <1>3, <1>4, <2>1, <2>4 DEF ApartInv
<1>6. CASE Check(w)
  BY <1>3, <1>4, <1>6, KnownCheck DEF ApartInv, Check, dset
<1>7. CASE Gather(w)
  BY <1>3, <1>4, <1>7, KnownGather DEF ApartInv, Gather, dset
<1>8. CASE Merge(w)
  BY <1>3, <1>4, <1>8, KnownMerge DEF ApartInv, Merge, dset
<1>9. CASE Unite(w)
  BY <1>3, <1>9, KnownUnite DEF ApartInv
<1> QED
  BY <1>5, <1>6, <1>7, <1>8, <1>9

(* Every step keeps ApartInv. *)
LEMMA ApartNext ==
    ASSUME Frame, ApartInv, [Next]_vars
    PROVE  ApartInv'
<1>1. ASSUME NEW w \in Workers, Worker(w)
      PROVE  ApartInv'
  <2>1. CASE TakeVertex(w) \/ SameLink(w) \/ NextLink(w) \/ Push(w) \/ VertexDone(w)
    <3>1. ClassifyInv' /\ rep' = rep /\ input' = input /\ phase' = phase /\ phase = "classify"
      BY <2>1, ClassifyKeeps DEF ApartInv
    <3> QED
      BY <3>1 DEF ApartInv, KnownInv, KeptApart
  <2> QED
    BY <1>1, <2>1, ApartCollapse DEF Worker
<1>2. ASSUME UNCHANGED <<input, dset, graph, pc, edge, left, temp>>, phase' # "classify",
             phase' \in {"collapse", "assign"} => phase \in {"collapse", "assign"}
      PROVE  ApartInv'
  <2>1. /\ input' = input /\ rep' = rep /\ adj_new' = adj_new /\ pc' = pc /\ edge' = edge
        /\ left' = left /\ temp' = temp
    BY <1>2 DEF dset, graph
  <2>2. KeptApart' /\ ClassifyInv'
    BY <1>2, <2>1 DEF ApartInv, KeptApart, ClassifyInv
  <2>3. KnownInv'
    <3>1. /\ Roots' = Roots
          /\ \A a, b : Linked(a, b)' <=> Linked(a, b)
          /\ \A a : NeighborReps(a)' = NeighborReps(a)
          /\ \A a : Joining(a)' <=> Joining(a)
      BY <2>1 DEF Roots, Linked, NeighborReps, Joining
    <3>2. \A a : Known(a)' <=> Known(a)
      BY <3>1 DEF Known
    <3>3. ASSUME NEW w \in Workers
          PROVE  Knows(w)' <=> Knows(w)
      <4>1. (Gathered(w)' <=> Gathered(w)) /\ (Merged(w)' <=> Merged(w))
        BY <2>1, <3>1 DEF Gathered, Merged
      <4> QED
        BY <2>1, <3>1, <4>1 DEF Knows
    <3> QED
      BY <1>2, <2>1, <3>1, <3>2, <3>3 DEF ApartInv, KnownInv
  <2> QED
    BY <2>2, <2>3 DEF ApartInv
<1>3. CASE NextPhase
  <2>1. CASE phase = "classify"
    <3>1. KnownInv'
      BY <1>3, <2>1, ClassifyEnds DEF ApartInv
    <3>2. rep' = rep /\ input' = input /\ phase' = "collapse"
      BY <1>3, <2>1 DEF NextPhase, dset
    <3> QED
      BY <3>1, <3>2 DEF ApartInv, KeptApart, ClassifyInv
  <2>2. CASE phase # "classify"
    BY <1>2, <1>3, <2>2 DEF NextPhase, locals
  <2> QED
    BY <2>1, <2>2
<1>4. CASE Assign \/ Relabel \/ Clean
  <2>1. rep' = rep /\ input' = input /\ phase' \notin {"classify", "collapse", "assign"}
    BY <1>4 DEF Assign, Relabel, Clean, dset
  <2> QED
    BY <2>1 DEF ApartInv, KeptApart, ClassifyInv, KnownInv
<1>5. CASE UNCHANGED vars
  <2>1. /\ UNCHANGED <<input, dset, graph, pc, edge, left, temp>> /\ phase' = phase
        /\ todo' = todo
    BY <1>5 DEF vars, locals
  <2>2. CASE phase # "classify"
    BY <1>2, <2>1, <2>2
  <2>3. CASE phase = "classify"
    <3>1. /\ input' = input /\ rep' = rep /\ adj_new' = adj_new /\ pc' = pc /\ edge' = edge
          /\ left' = left /\ nCollapses' = nCollapses
      BY <2>1 DEF dset, graph
    <3> QED
      BY <2>1, <2>3, <3>1 DEF ApartInv, KnownInv, KeptApart, ClassifyInv, Pending
  <2> QED
    BY <2>2, <2>3
<1> QED
  BY <1>1, <1>3, <1>4, <1>5 DEF Next, Finished

(* What the invariant of the run says of it. *)
LEMMA ApartIsKnown ==
    ASSUME Frame, KnownInv
    PROVE  NeighborsAreKnown
<1> SUFFICES ASSUME phase \in {"collapse", "assign"},
                    NEW a \in Roots, NEW b \in Roots, Free(a), Free(b)
             PROVE  b \in NeighborReps(a) <=> Linked(a, b)
  BY DEF NeighborsAreKnown, Linked
<1>1. ~Joining(a)
  <2> SUFFICES ASSUME NEW w \in Workers, pc[w] = "unite", a = edge[w][1] \/ a = edge[w][2]
               PROVE  FALSE
    BY DEF Joining
  <2>1. Holds(w, a) /\ a \in Ids
    BY EndsAre DEF HasBoth, HasFirst, HasSecond
  <2> QED
    BY <2>1, NobodyAssumption DEF Frame, LocksInv, Free
<1> QED
  BY <1>1 DEF KnownInv, Known

-----------------------------------------------------------------------------
(* The clusters are those of some order of the edges.                      *)

(* What a step of w does to the edges that are taken. *)
LEMMA TakenStep ==
    ASSUME TypeOK, TakenInv, NEW w \in Workers, Others(w), input' = input, phase' = phase, todo' = todo,
           pc[w] # "idle",
           pc'[w] # "idle" => item'[w] = item[w],
           phase = "collapse" /\ pc'[w] \in Busy => SameEnds(w)',
           \A v \in Workers \ {w} : SameEnds(v) => SameEnds(v)'
    PROVE  TakenInv'
<1> SUFFICES ASSUME phase = "collapse"
             PROVE  /\ \A v \in Workers : pc'[v] # "idle" => item'[v] \in input.same /\ item'[v] \notin todo
                    /\ \A u, v \in Workers : pc'[u] # "idle" /\ pc'[v] # "idle" /\ item'[u] = item'[v] => u = v
                    /\ \A v \in Workers : pc'[v] \in Busy => SameEnds(v)'
  BY DEF TakenInv
<1>1. /\ \A v \in Workers : pc[v] # "idle" => item[v] \in input.same /\ item[v] \notin todo
      /\ \A u, v \in Workers : pc[u] # "idle" /\ pc[v] # "idle" /\ item[u] = item[v] => u = v
      /\ \A v \in Workers : pc[v] \in Busy => SameEnds(v)
  BY DEF TakenInv
<1>2. \A v \in Workers : pc'[v] # "idle" => pc[v] # "idle" /\ item'[v] = item[v]
  BY DEF Others
<1>3. \A v \in Workers \ {w} : pc'[v] = pc[v]
  BY DEF Others
<1> QED
  BY <1>1, <1>2, <1>3

(* Joining clusters keeps the ends together. *)
LEMMA EndsStay ==
    ASSUME TypeOK, NEW v \in Workers, SameEnds(v), edge'[v] = edge[v], item'[v] = item[v],
           \/ rep' = rep
           \/ \E a, b \in Ids : rep' = [x \in Ids |-> IF rep[x] = a THEN b ELSE rep[x]]
    PROVE  SameEnds(v)'
<1>1. PICK x \in Ids, y \in Ids, p \in Ids, q \in Ids :
        x = edge[v][1] /\ y = edge[v][2] /\ p = item[v][1] /\ q = item[v][2]
  BY LocalType
<1>2. \/ rep[x] = rep[p] /\ rep[y] = rep[q]
      \/ rep[x] = rep[q] /\ rep[y] = rep[p]
  BY <1>1 DEF SameEnds
<1>3. \A k, n \in Ids : rep[k] = rep[n] => rep'[k] = rep'[n]
  <2>1. CASE rep' = rep
    BY <2>1
  <2>2. ASSUME NEW a \in Ids, NEW b \in Ids, rep' = [k \in Ids |-> IF rep[k] = a THEN b ELSE rep[k]]
        PROVE  \A k, n \in Ids : rep[k] = rep[n] => rep'[k] = rep'[n]
    BY <2>2
  <2> QED
    BY <2>1, <2>2
<1>4. \/ rep'[x] = rep'[p] /\ rep'[y] = rep'[q]
      \/ rep'[x] = rep'[q] /\ rep'[y] = rep'[p]
  BY <1>2, <1>3
<1> QED
  BY <1>1, <1>4 DEF SameEnds

(* Steps of the second phase keep TakenInv. *)
LEMMA TakenCollapse ==
    ASSUME Frame, TakenInv, NEW w \in Workers,
           \/ TakeEdge(w) \/ LockFirst(w) \/ LockSecond(w) \/ Release(w) \/ Check(w) \/ Skip(w)
           \/ Gather(w) \/ Merge(w) \/ Unite(w) \/ UnlockTarget(w)
    PROVE  TakenInv'
<1>1. TypeOK /\ RepInv
  BY DEF Frame
<1>2. phase' = phase /\ input' = input
  BY DEF TakeEdge, LockFirst, LockSecond, Release, Check, Skip, Gather, Merge, Unite, UnlockTarget
<1>3. Others(w)
  BY <1>1 DEF TakeEdge, LockFirst, LockSecond, Release, Check, Skip, Gather, Merge, Unite,
     UnlockTarget, Others, DropItem, Goto, dset, graph, TypeOK
<1>4. PICK x \in Ids, y \in Ids : x = edge[w][1] /\ y = edge[w][2] /\ edge[w] = <<x, y>>
  BY <1>1 DEF TypeOK
<1>5. /\ pc \in [Workers -> Pcs] /\ item \in [Workers -> Ids \X Ids] /\ edge \in [Workers -> Ids \X Ids]
      /\ \A k \in Ids : rep[k] \in Ids /\ rep[rep[k]] = rep[k]
  BY <1>1 DEF TypeOK, RepInv
<1>6. pc[w] \in Busy /\ phase = "collapse" => SameEnds(w)
  BY DEF TakenInv
<1>7. ASSUME rep' = rep
      PROVE  \A v \in Workers \ {w} : SameEnds(v) => SameEnds(v)'
  BY <1>1, <1>3, <1>7, EndsStay DEF Others
<1>8. CASE TakeEdge(w)
  <2>1. PICK e \in todo : /\ todo' = todo \ {e} /\ item' = [item EXCEPT ![w] = e]
                          /\ edge' = [edge EXCEPT ![w] = e]
    BY <1>8 DEF TakeEdge
  <2>2. /\ phase = "collapse" /\ pc[w] = "idle" /\ pc'[w] = "first" /\ rep' = rep
        /\ item'[w] = e /\ edge'[w] = e
    BY <1>5, <1>8, <2>1 DEF TakeEdge, Goto, dset
  <2>3. e \in input.same
    BY <2>2 DEF Frame, PlaceInv
  <2>4. /\ \A v \in Workers : pc[v] # "idle" => item[v] \in input.same /\ item[v] \notin todo
        /\ \A u, v \in Workers : pc[u] # "idle" /\ pc[v] # "idle" /\ item[u] = item[v] => u = v
        /\ \A v \in Workers : pc[v] \in Busy => SameEnds(v)
    BY <2>2 DEF TakenInv
  <2>5. \A v \in Workers \ {w} : pc'[v] = pc[v] /\ item'[v] = item[v]
    BY <1>3 DEF Others
  <2>6. \A v \in Workers : pc'[v] # "idle" => item'[v] \in input.same /\ item'[v] \notin todo'
    BY <2>1, <2>2, <2>3, <2>4, <2>5
  <2>7. \A u, v \in Workers : pc'[u] # "idle" /\ pc'[v] # "idle" /\ item'[u] = item'[v] => u = v
    BY <2>2, <2>4, <2>5
  <2>8. \A v \in Workers : pc'[v] \in Busy => SameEnds(v)'
    <3>1. SameEnds(w)'
      BY <2>2 DEF SameEnds
    <3>2. \A v \in Workers \ {w} : SameEnds(v) => SameEnds(v)'
      BY <1>7, <2>2
    <3> QED
      BY <2>4, <2>5, <3>1, <3>2
  <2> QED
    BY <1>2, <2>6, <2>7, <2>8 DEF TakenInv
<1>9. ASSUME NEW p \in Ids, NEW q \in Ids, edge' = [edge EXCEPT ![w] = <<p, q>>], item' = item, rep' = rep,
             \/ rep[p] = rep[x] /\ rep[q] = rep[y]
             \/ rep[p] = rep[y] /\ rep[q] = rep[x],
             SameEnds(w)
      PROVE  SameEnds(w)'
  <2>1. edge'[w] = <<p, q>> /\ item'[w] = item[w]
    BY <1>5, <1>9
  <2>2. /\ edge'[w][1] = p /\ edge'[w][2] = q
        /\ rep'[edge'[w][1]] = rep[p] /\ rep'[edge'[w][2]] = rep[q]
    BY <1>9, <2>1
  <2>3. \/ rep[x] = rep[item[w][1]] /\ rep[y] = rep[item[w][2]]
        \/ rep[x] = rep[item[w][2]] /\ rep[y] = rep[item[w][1]]
    BY <1>4, <1>9 DEF SameEnds
  <2> QED
    BY <1>9, <2>1, <2>2, <2>3 DEF SameEnds
<1>10. CASE LockFirst(w)
  <2>1. PICK p \in Ids, q \in Ids : p = rep[Smaller(edge[w])] /\ q = Larger(edge[w])
    BY <1>4, <1>5 DEF Smaller, Larger
  <2>2. /\ edge' = [edge EXCEPT ![w] = <<p, q>>] /\ item' = item /\ rep' = rep /\ todo' = todo
        /\ pc[w] = "first" /\ pc'[w] \in {"first", "second"}
    BY <1>5, <1>10, <2>1 DEF LockFirst, Lock, Goto, dset
  <2>3. \/ Smaller(edge[w]) = x /\ Larger(edge[w]) = y
        \/ Smaller(edge[w]) = y /\ Larger(edge[w]) = x
    BY <1>4 DEF Smaller, Larger
  <2>4. \/ rep[p] = rep[x] /\ rep[q] = rep[y]
        \/ rep[p] = rep[y] /\ rep[q] = rep[x]
    BY <1>5, <2>1, <2>3
  <2>5. phase = "collapse" => SameEnds(w)'
    BY <1>6, <1>9, <2>2, <2>4 DEF Busy
  <2> QED
    BY <1>1, <1>2, <1>3, <1>7, <2>2, <2>5, TakenStep
<1>11. CASE LockSecond(w)
  <2>1. PICK q \in Ids : q = rep[y]
    BY <1>5
  <2>2. /\ edge' = [edge EXCEPT ![w] = <<x, q>>] /\ item' = item /\ rep' = rep /\ todo' = todo
        /\ pc[w] = "second" /\ pc'[w] \in {"check", "release"}
    BY <1>4, <1>5, <1>11, <2>1 DEF LockSecond, Lock, Goto, dset
  <2>3. phase = "collapse" => SameEnds(w)'
    BY <1>5, <1>6, <1>9, <2>1, <2>2 DEF Busy
  <2> QED
    BY <1>1, <1>2, <1>3, <1>7, <2>2, <2>3, TakenStep
<1>12. CASE Release(w)
  <2>1. /\ rep' = rep /\ todo' = todo /\ pc[w] = "release"
        /\ pc'[w] = "idle" \/ (pc'[w] = "first" /\ item' = item /\ edge' = edge)
    BY <1>5, <1>12 DEF Release, Unlock, Goto, DropItem
  <2>2. phase = "collapse" /\ pc'[w] \in Busy => SameEnds(w)'
    BY <1>1, <1>6, <2>1, EndsStay DEF Busy
  <2> QED
    BY <1>1, <1>2, <1>3, <1>7, <2>1, <2>2, TakenStep
<1>13. CASE Check(w) \/ Gather(w)
  <2>1. /\ rep' = rep /\ todo' = todo /\ pc[w] \in Busy /\ pc[w] # "idle" /\ item' = item /\ edge' = edge
    BY <1>5, <1>13 DEF Check, Gather, Goto, dset, Busy
  <2>2. phase = "collapse" /\ pc'[w] \in Busy => SameEnds(w)'
    BY <1>1, <1>6, <2>1, EndsStay
  <2> QED
    BY <1>1, <1>2, <1>3, <1>7, <2>1, <2>2, TakenStep
<1>14. CASE Skip(w) \/ UnlockTarget(w)
  <2>1. /\ rep' = rep /\ todo' = todo /\ pc[w] # "idle" /\ pc'[w] \notin Busy
        /\ pc'[w] # "idle" => item'[w] = item[w]
    BY <1>5, <1>14 DEF Skip, UnlockTarget, Unlock, Goto, DropItem, Busy
  <2> QED
    BY <1>1, <1>2, <1>3, <1>7, <2>1, TakenStep
<1>15. CASE Merge(w)
  <2>1. PICK c \in {x, y}, t \in {x, y} : c # t /\ edge' = [edge EXCEPT ![w] = <<c, t>>]
    BY <1>4, <1>15 DEF Merge
  <2>2. /\ rep' = rep /\ todo' = todo /\ pc[w] = "merge" /\ item' = item /\ pc'[w] = "unite"
    BY <1>5, <1>15 DEF Merge, dset, Goto
  <2>3. phase = "collapse" => SameEnds(w)'
    BY <1>6, <1>9, <2>1, <2>2 DEF Busy
  <2> QED
    BY <1>1, <1>2, <1>3, <1>7, <2>2, <2>3, TakenStep
<1>16. CASE Unite(w)
  <2>1. /\ todo' = todo /\ pc[w] = "unite" /\ item' = item /\ edge' = edge /\ pc'[w] = "unlock"
        /\ rep' = [k \in Ids |-> IF rep[k] = x THEN y ELSE rep[k]]
    BY <1>4, <1>5, <1>16 DEF Unite, Goto, Sets!UniteLocked, Sets!Join
  <2>2. \A v \in Workers \ {w} : SameEnds(v) => SameEnds(v)'
    BY <1>1, <1>3, <2>1, EndsStay DEF Others
  <2> QED
    BY <1>1, <1>2, <1>3, <2>1, <2>2, TakenStep DEF Busy
<1> QED
  BY <1>8, <1>10, <1>11, <1>12, <1>13, <1>14, <1>15, <1>16

(* TakenInv holds in the beginning. *)
LEMMA TakenInit == Init => TakenInv
BY DEF Init, TakenInv

(* Every step keeps TakenInv. *)
LEMMA TakenNext ==
    ASSUME Frame, TakenInv, [Next]_vars
    PROVE  TakenInv'
<1>1. ASSUME NEW w \in Workers, Worker(w)
      PROVE  TakenInv'
  <2>1. CASE TakeVertex(w) \/ SameLink(w) \/ NextLink(w) \/ Push(w) \/ VertexDone(w)
    <3>1. phase' = phase /\ (phase = "classify" \/ pc[w] \in HasVertex) /\ phase \in Phases
      BY <2>1 DEF TakeVertex, SameLink, NextLink, Push, VertexDone, HasVertex, Frame, TypeOK
    <3>2. phase' = "classify"
      BY <3>1 DEF Frame, PlaceInv, HasVertex, Phases
    <3> QED
      BY <3>2 DEF TakenInv
  <2> QED
    BY <1>1, <2>1, TakenCollapse DEF Worker
<1>2. CASE NextPhase
  <2>1. \A w \in Workers : pc'[w] = "idle"
    BY <1>2 DEF NextPhase, locals
  <2> QED
    BY <2>1 DEF TakenInv, Busy
<1>3. CASE Assign \/ Relabel \/ Clean
  BY <1>3 DEF Assign, Relabel, Clean, TakenInv
<1>4. CASE UNCHANGED vars
  <2>1. /\ input' = input /\ rep' = rep /\ phase' = phase /\ todo' = todo /\ pc' = pc
        /\ item' = item /\ edge' = edge
    BY <1>4 DEF vars, dset, locals
  <2> QED
    BY <2>1 DEF TakenInv, SameEnds
<1> QED
  BY <1>1, <1>2, <1>3, <1>4 DEF Next, Finished

(* Nothing is decided in a step that leaves these alone. *)
LEMMA NothingDecided ==
    ASSUME input' = input, rep' = rep, Open' = Open
    PROVE  [Collapse!Next]_(Collapse!vars)
BY DEF Collapse!vars

(* An edge stays open while its thread is before the decision. *)
LEMMA OpenStays ==
    ASSUME TypeOK, NEW w \in Workers, Others(w), input' = input, phase' = phase, todo' = todo,
           Undecided(w) <=> Undecided(w)',
           Undecided(w) => item'[w] = item[w]
    PROVE  Open' = Open
<1>1. \A v \in Workers : Undecided(v)' <=> Undecided(v)
  <2>1. \A v \in Workers \ {w} : Undecided(v)' <=> Undecided(v)
    BY DEF Others, Undecided, Inside
  <2> QED
    BY <2>1
<1>2. \A v \in Workers : Undecided(v) => item'[v] = item[v]
  BY DEF Others
<1>3. {item'[v] : v \in {u \in Workers : Undecided(u)'}} = {item[v] : v \in {u \in Workers : Undecided(u)}}
  BY <1>1, <1>2
<1> QED
  BY <1>3 DEF Open

(* The edge of w is decided. *)
LEMMA OpenDecided ==
    ASSUME TypeOK, TakenInv, NEW w \in Workers, Others(w), input' = input, todo' = todo,
           phase = "collapse", phase' = phase, Undecided(w), ~Undecided(w)'
    PROVE  item[w] \in Open /\ Open' = Open \ {item[w]}
<1>1. \A v \in Workers \ {w} : (Undecided(v)' <=> Undecided(v)) /\ item'[v] = item[v]
  BY DEF Others, Undecided, Inside
<1>2. \A v \in Workers : Undecided(v) => pc[v] # "idle"
  BY DEF Undecided
<1>3. item[w] \notin todo /\ \A v \in Workers \ {w} : Undecided(v) => item[v] # item[w]
  BY <1>2 DEF TakenInv
<1>4. {item'[v] : v \in {u \in Workers : Undecided(u)'}}
        = {item[v] : v \in {u \in Workers : Undecided(u)}} \ {item[w]}
  <2>1. \A v \in Workers : Undecided(v)' <=> Undecided(v) /\ v # w
    BY <1>1
  <2> QED
    BY <1>1, <1>3, <2>1
<1>5. Open = todo \cup {item[v] : v \in {u \in Workers : Undecided(u)}}
  BY DEF Open
<1>6. Open' = todo \cup {item'[v] : v \in {u \in Workers : Undecided(u)'}}
  BY DEF Open
<1>7. item[w] \in {item[v] : v \in {u \in Workers : Undecided(u)}}
  OBVIOUS
<1> QED
  BY <1>3, <1>4, <1>5, <1>6, <1>7

(* A step of a worker decides one edge as GreedyCollapse does, or none. *)
LEMMA CollapseWorker ==
    ASSUME Frame, ApartInv, TakenInv, NEW w \in Workers,
           \/ TakeEdge(w) \/ LockFirst(w) \/ LockSecond(w) \/ Release(w) \/ Check(w) \/ Skip(w)
           \/ Gather(w) \/ Merge(w) \/ Unite(w) \/ UnlockTarget(w)
    PROVE  [Collapse!Next]_(Collapse!vars)
<1>1. TypeOK /\ RepInv
  BY DEF Frame
<1>2. phase = "collapse" /\ phase' = phase /\ input' = input
  <2>1. phase = "collapse" \/ pc[w] \notin {"idle"} \cup HasVertex
    BY DEF TakeEdge, LockFirst, LockSecond, Release, Check, Skip, Gather, Merge, Unite, UnlockTarget,
       HasVertex
  <2>2. phase' = phase /\ input' = input
    BY DEF TakeEdge, LockFirst, LockSecond, Release, Check, Skip, Gather, Merge, Unite, UnlockTarget
  <2>3. phase \in Phases
    BY <1>1 DEF TypeOK
  <2> QED
    BY <2>1, <2>2, <2>3 DEF Frame, PlaceInv, HasVertex, Phases
<1>3. Others(w)
  BY <1>1 DEF TakeEdge, LockFirst, LockSecond, Release, Check, Skip, Gather, Merge, Unite,
     UnlockTarget, Others, DropItem, Goto, dset, graph, TypeOK
<1>4. PICK x \in Ids, y \in Ids : x = edge[w][1] /\ y = edge[w][2]
  BY <1>1, LocalType
<1>5. PICK p \in Ids, q \in Ids : p = item[w][1] /\ q = item[w][2]
  BY <1>1, LocalType
<1>6. /\ pc \in [Workers -> Pcs] /\ item \in [Workers -> Ids \X Ids] /\ edge \in [Workers -> Ids \X Ids]
      /\ \A k \in Ids : rep[k] \in Ids /\ rep[rep[k]] = rep[k]
  BY <1>1 DEF TypeOK, RepInv
<1>7. pc[w] \in Busy => \/ rep[x] = rep[p] /\ rep[y] = rep[q]
                        \/ rep[x] = rep[q] /\ rep[y] = rep[p]
  BY <1>2, <1>4, <1>5 DEF TakenInv, SameEnds
<1>8. ASSUME rep' = rep, todo' = todo, Undecided(w) <=> Undecided(w)',
             Undecided(w) => item'[w] = item[w]
      PROVE  [Collapse!Next]_(Collapse!vars)
  BY <1>1, <1>2, <1>3, <1>8, OpenStays, NothingDecided
<1>9. ASSUME todo' = todo, Undecided(w), ~Undecided(w)',
             IF rep[p] = rep[q] \/ Collapse!Linked(rep[p], rep[q])
             THEN rep' = rep
             ELSE \E target \in {rep[p], rep[q]} :
                    rep' = [k \in Ids |-> IF rep[k] \in {rep[p], rep[q]} THEN target ELSE rep[k]]
      PROVE  [Collapse!Next]_(Collapse!vars)
  <2>1. PICK e : e = item[w]
    OBVIOUS
  <2>2. e \in Open /\ Open' = Open \ {e}
    BY <1>1, <1>2, <1>3, <1>9, <2>1, OpenDecided
  <2>3. Collapse!Decide(e)
    BY <1>2, <1>5, <1>9, <2>1, <2>2 DEF Collapse!Decide
  <2> QED
    BY <2>2, <2>3 DEF Collapse!Next
<1>10. \A c, d : Collapse!Linked(c, d) <=> Linked(c, d)
  BY DEF Collapse!Linked, Linked
<1>11. CASE TakeEdge(w)
  <2>1. PICK e \in todo : /\ todo' = todo \ {e} /\ item' = [item EXCEPT ![w] = e]
    BY <1>11 DEF TakeEdge
  <2>2. pc[w] = "idle" /\ pc'[w] = "first" /\ rep' = rep /\ item'[w] = e
    BY <1>6, <1>11, <2>1 DEF TakeEdge, Goto, dset
  <2>3. ~Undecided(w) /\ Undecided(w)'
    BY <2>2 DEF Undecided
  <2>4. \A v \in Workers \ {w} : (Undecided(v)' <=> Undecided(v)) /\ item'[v] = item[v]
    BY <1>3 DEF Others, Undecided, Inside
  <2>5. {item'[v] : v \in {u \in Workers : Undecided(u)'}}
            = {item[v] : v \in {u \in Workers : Undecided(u)}} \cup {e}
    <3>1. \A v \in Workers : Undecided(v)' <=> Undecided(v) \/ v = w
      BY <2>3, <2>4
    <3> QED
      BY <2>2, <2>3, <2>4, <3>1
  <2>6. Open' = Open
    <3>1. Open = todo \cup {item[v] : v \in {u \in Workers : Undecided(u)}}
      BY <1>2 DEF Open
    <3>2. Open' = todo' \cup {item'[v] : v \in {u \in Workers : Undecided(u)'}}
      BY <1>2 DEF Open
    <3> QED
      BY <2>1, <2>5, <3>1, <3>2
  <2> QED
    BY <1>2, <2>2, <2>6, NothingDecided
<1>12. CASE LockFirst(w)
  <2>1. rep' = rep /\ todo' = todo /\ item' = item /\ pc[w] = "first" /\ pc'[w] \in {"first", "second"}
    BY <1>6, <1>12 DEF LockFirst, Lock, Goto, dset
  <2> QED
    BY <1>8, <2>1 DEF Undecided
<1>13. CASE LockSecond(w)
  <2>1. /\ rep' = rep /\ todo' = todo /\ item' = item /\ pc[w] = "second"
        /\ pc'[w] \in {"check", "release"} /\ edge'[w] = <<x, rep[y]>>
    BY <1>4, <1>6, <1>13 DEF LockSecond, Lock, Goto, dset
  <2>2. CASE pc'[w] = "release" /\ x = rep[y]
    <3>1. edge'[w][1] = edge'[w][2]
      BY <2>1, <2>2
    <3>2. Undecided(w) /\ ~Undecided(w)'
      BY <2>1, <2>2, <3>1 DEF Undecided, Inside
    <3>3. rep[p] = rep[q]
      BY <1>6, <1>7, <2>1, <2>2 DEF Busy
    <3> QED
      BY <1>9, <2>1, <3>2, <3>3
  <2>3. CASE ~(pc'[w] = "release" /\ x = rep[y])
    <3>1. edge'[w][1] = x /\ edge'[w][2] = rep[y]
      BY <2>1
    <3>2. Undecided(w) /\ Undecided(w)'
      BY <2>1, <2>3, <3>1 DEF Undecided, Inside
    <3> QED
      BY <1>8, <2>1, <3>2
  <2> QED
    BY <2>2, <2>3
<1>14. CASE Release(w)
  <2>1. CASE Inside(w)
    <3>1. rep' = rep /\ todo' = todo /\ pc[w] = "release" /\ pc'[w] = "idle"
      BY <1>6, <1>14, <2>1 DEF Release, Unlock, DropItem, Goto
    <3>2. ~Undecided(w) /\ ~Undecided(w)'
      BY <2>1, <3>1 DEF Undecided
    <3> QED
      BY <1>8, <3>1, <3>2
  <2>2. CASE ~Inside(w)
    <3>1. rep' = rep /\ todo' = todo /\ pc[w] = "release" /\ pc'[w] = "first" /\ item' = item
      BY <1>6, <1>14, <2>2 DEF Release, Unlock, Goto
    <3>2. Undecided(w) /\ Undecided(w)'
      BY <2>2, <3>1 DEF Undecided
    <3> QED
      BY <1>8, <3>1, <3>2
  <2> QED
    BY <2>1, <2>2
<1>15. CASE Check(w)
  <2>1. rep' = rep /\ todo' = todo /\ item' = item /\ pc[w] = "check"
    BY <1>15 DEF Check, dset
  <2>2. CASE Contained(x, y)
    <3>1. pc'[w] = "skip"
      BY <1>4, <1>6, <1>15, <2>2 DEF Check, Goto
    <3>2. Undecided(w) /\ ~Undecided(w)'
      BY <2>1, <3>1 DEF Undecided
    <3>3. x \in Roots /\ y \in Roots /\ rep[x] = x /\ rep[y] = y /\ ~Joining(x)
      BY <1>4, <2>1, EndsAre, NobodyJoinsHere DEF HasBoth, HasFirst, HasSecond, Roots
    <3>4. Linked(x, y)
      BY <1>2, <2>2, <3>3, NeighborRepsAre DEF ApartInv, KnownInv, Known, Contained
    <3>5. Collapse!Linked(rep[p], rep[q])
      BY <1>7, <1>10, <2>1, <3>3, <3>4, LinkedIsSymmetric DEF Busy
    <3> QED
      BY <1>9, <2>1, <3>2, <3>5
  <2>3. CASE ~Contained(x, y)
    <3>1. pc'[w] = "gather"
      BY <1>4, <1>6, <1>15, <2>3 DEF Check, Goto
    <3> QED
      BY <1>8, <2>1, <3>1 DEF Undecided
  <2> QED
    BY <2>2, <2>3
<1>16. CASE Skip(w) \/ UnlockTarget(w)
  <2>1. rep' = rep /\ todo' = todo /\ pc[w] \in {"skip", "skip second", "unlock"}
        /\ pc'[w] \in {"skip second", "idle"}
    BY <1>6, <1>16 DEF Skip, UnlockTarget, Unlock, Goto, DropItem
  <2> QED
    BY <1>8, <2>1 DEF Undecided
<1>17. CASE Gather(w) \/ Merge(w)
  <2>1. rep' = rep /\ todo' = todo /\ item' = item /\ pc[w] \in {"gather", "merge"}
        /\ pc'[w] \in {"gather", "merge", "unite"}
    BY <1>6, <1>17 DEF Gather, Merge, Goto, dset
  <2> QED
    BY <1>8, <2>1 DEF Undecided
<1>18. CASE Unite(w)
  <2>1. /\ todo' = todo /\ pc[w] = "unite" /\ pc'[w] = "unlock"
        /\ rep' = [k \in Ids |-> IF rep[k] = x THEN y ELSE rep[k]]
    BY <1>4, <1>6, <1>18 DEF Unite, Goto, Sets!UniteLocked, Sets!Join
  <2>2. Undecided(w) /\ ~Undecided(w)'
    BY <2>1 DEF Undecided
  <2>3. x # y /\ rep[x] = x /\ rep[y] = y
    BY <1>4, <2>1, EndsAre DEF HasBoth, HasFirst, HasSecond
  <2>4. ~Linked(x, y)
    BY <1>2, <1>4, <2>1 DEF ApartInv, KnownInv, Knows
  <2>5. \/ rep[p] = x /\ rep[q] = y
        \/ rep[p] = y /\ rep[q] = x
    BY <1>7, <2>1, <2>3 DEF Busy
  <2>6. rep[p] # rep[q] /\ ~Collapse!Linked(rep[p], rep[q])
    BY <1>10, <2>3, <2>4, <2>5, LinkedIsSymmetric
  <2>7. rep' = [k \in Ids |-> IF rep[k] \in {rep[p], rep[q]} THEN y ELSE rep[k]]
    <3>1. \A k \in Ids : (IF rep[k] = x THEN y ELSE rep[k])
                            = (IF rep[k] \in {rep[p], rep[q]} THEN y ELSE rep[k])
      BY <2>5
    <3> QED
      BY <2>1, <3>1
  <2>8. y \in {rep[p], rep[q]}
    BY <2>5
  <2> QED
    BY <1>9, <2>1, <2>2, <2>6, <2>7, <2>8
<1> QED
  BY <1>11, <1>12, <1>13, <1>14, <1>15, <1>16, <1>17, <1>18

(* The clusters begin as those of GreedyCollapse. *)
LEMMA CollapseInit == Init => Collapse!Init
BY DEF Init, Collapse!Init, Open, Sets!Init

(* Every step is one of GreedyCollapse or leaves its variables alone. *)
LEMMA CollapseNext ==
    ASSUME Frame, ApartInv, TakenInv, [Next]_vars
    PROVE  [Collapse!Next]_(Collapse!vars)
<1>1. ASSUME NEW w \in Workers, Worker(w)
      PROVE  [Collapse!Next]_(Collapse!vars)
  <2>1. CASE TakeVertex(w) \/ SameLink(w) \/ NextLink(w) \/ Push(w) \/ VertexDone(w)
    <3>1. rep' = rep /\ input' = input /\ phase' = phase /\ phase = "classify"
      BY <2>1, ClassifyKeeps DEF ApartInv
    <3> QED
      BY <3>1, NothingDecided DEF Open
  <2> QED
    BY <1>1, <2>1, CollapseWorker DEF Worker
<1>2. CASE NextPhase
  <2>1. /\ todo = {} /\ \A w \in Workers : pc[w] = "idle"
        /\ input' = input /\ rep' = rep /\ pc' = pc /\ item' = item
    BY <1>2 DEF NextPhase, dset, locals
  <2>2. /\ \A w \in Workers : ~Undecided(w)
        /\ \A w \in Workers : ~Undecided(w)'
    BY <2>1 DEF Undecided
  <2>3. /\ {item[w] : w \in {v \in Workers : Undecided(v)}} = {}
        /\ {item'[w] : w \in {v \in Workers : Undecided(v)'}} = {}
    BY <2>2
  <2>4. \/ phase = "classify" /\ phase' = "collapse" /\ todo' = input.same
        \/ phase = "collapse" /\ phase' = "assign"
        \/ phase = "relabel" /\ phase' = "clean"
    BY <1>2 DEF NextPhase
  <2>5. Open' = Open
    BY <2>1, <2>3, <2>4 DEF Open
  <2> QED
    BY <2>1, <2>5, NothingDecided
<1>3. CASE Assign \/ Relabel \/ Clean
  <2>1. /\ rep' = rep /\ input' = input /\ phase \notin {"classify", "collapse"}
        /\ phase' \notin {"classify", "collapse"}
    BY <1>3 DEF Assign, Relabel, Clean, dset
  <2> QED
    BY <2>1, NothingDecided DEF Open
<1>4. CASE UNCHANGED vars
  <2>1. /\ input' = input /\ rep' = rep /\ phase' = phase /\ todo' = todo /\ pc' = pc
        /\ item' = item /\ edge' = edge
    BY <1>4 DEF vars, dset, locals
  <2>2. \A w \in Workers : Undecided(w)' <=> Undecided(w)
    BY <2>1 DEF Undecided, Inside
  <2>3. {item'[w] : w \in {v \in Workers : Undecided(v)'}} = {item[w] : w \in {v \in Workers : Undecided(v)}}
    BY <2>1, <2>2
  <2> QED
    BY <2>1, <2>3, NothingDecided DEF Open
<1> QED
  BY <1>1, <1>2, <1>3, <1>4 DEF Next, Finished

-----------------------------------------------------------------------------
(* The counters.                                                           *)

(* Sums of counters that have wrapped. *)
LEMMA DivMod ==
    ASSUME NEW m \in Nat, m > 0, NEW p \in Int
    PROVE  \E i \in Int : p = m * i + (p % m) /\ p % m \in 0 .. m - 1
<1>1. p % m \in 0 .. m - 1
  OBVIOUS
<1>2. p = m * (p \div m) + (p % m)
  BY Z3
<1>3. p \div m \in Int
  OBVIOUS
<1> QED
  BY <1>1, <1>2, <1>3

(* A number has one remainder. *)
LEMMA ModUnique ==
    ASSUME NEW m \in Nat, m > 0, NEW i \in Int, NEW j \in Int,
           NEW r \in 0 .. m - 1, NEW s \in 0 .. m - 1, m * i + r = m * j + s
    PROVE  r = s
<1>1. ASSUME NEW a \in Int, NEW b \in Int, a < b PROVE m * a + m <= m * b
  <2>1. PICK d \in Nat : b = a + 1 + d
    <3>1. b - a - 1 \in Nat /\ b = a + 1 + (b - a - 1)
      BY <1>1
    <3> QED
      BY <3>1
  <2>2. m * (a + 1 + d) = m * a + m + m * d
    OBVIOUS
  <2>3. m * d \in Nat /\ m * a \in Int
    OBVIOUS
  <2> QED
    BY <2>1, <2>2, <2>3
<1>2. m * i \in Int /\ m * j \in Int
  OBVIOUS
<1>3. CASE i < j
  BY <1>1, <1>2, <1>3
<1>4. CASE j < i
  BY <1>1, <1>2, <1>4
<1>5. CASE i = j
  BY <1>2, <1>5
<1> QED
  BY <1>3, <1>4, <1>5

(* Adding remainders gives the remainder of the sum. *)
LEMMA ModSum ==
    ASSUME NEW m \in Nat, m > 0, NEW p \in Int, NEW q \in Int
    PROVE  ((p % m) + (q % m) + 1) % m = (p + q + 1) % m
<1>1. PICK i \in Int, a \in 0 .. m - 1 : p = m * i + a /\ a = p % m
  BY DivMod
<1>2. PICK j \in Int, b \in 0 .. m - 1 : q = m * j + b /\ b = q % m
  BY DivMod
<1>3. PICK k \in Int, r \in 0 .. m - 1 : a + b + 1 = m * k + r /\ r = (a + b + 1) % m
  <2>1. a + b + 1 \in Int
    OBVIOUS
  <2> QED
    BY <2>1, DivMod
<1>4. PICK l \in Int, s \in 0 .. m - 1 : p + q + 1 = m * l + s /\ s = (p + q + 1) % m
  <2>1. p + q + 1 \in Int
    OBVIOUS
  <2> QED
    BY <2>1, DivMod
<1>5. m * (i + j + k) + r = m * l + s
  <2>1. m * (i + j + k) = m * i + m * j + m * k
    OBVIOUS
  <2>2. PICK x \in Int, y \in Int, z \in Int, u \in Int : x = m * i /\ y = m * j /\ z = m * k /\ u = m * l
    OBVIOUS
  <2>3. /\ p = x + a /\ q = y + b /\ a + b + 1 = z + r /\ p + q + 1 = u + s
        /\ m * (i + j + k) = x + y + z
    BY <1>1, <1>2, <1>3, <1>4, <2>1, <2>2
  <2>4. x + y + z + r = u + s
    BY <2>3
  <2> QED
    BY <2>2, <2>3, <2>4
<1>6. r = s
  <2>1. i + j + k \in Int
    OBVIOUS
  <2> QED
    BY <1>5, <2>1, ModUnique
<1> QED
  BY <1>1, <1>2, <1>3, <1>4, <1>6

(* There is at least one value of the counter. *)
LEMMA CountersAre == CounterValues \in Nat /\ CounterValues > 0
BY CounterAssumption

(* A cluster has finitely many members. *)
LEMMA SizesAre ==
    \A r : IsFiniteSet(Members(r)) /\ Cardinality(Members(r)) \in Nat
<1> SUFFICES ASSUME NEW r PROVE IsFiniteSet(Members(r)) /\ Cardinality(Members(r)) \in Nat
  OBVIOUS
<1>1. Members(r) \in SUBSET Ids
  BY DEF Members
<1> QED
  BY <1>1, IdsAre, FS_Subset, FS_CardinalityType

(* A step that neither counts nor unites keeps the counts. *)
LEMMA CountQuiet ==
    ASSUME CountInv, NEW w \in Workers, Others(w), rep' = rep, nCollapses' = nCollapses, phase' = phase,
           pc[w] # "unite", pc'[w] # "unite"
    PROVE  CountInv'
<1>1. /\ Roots' = Roots
      /\ \A r : Counted(r)' <=> Counted(r)
      /\ \A a, b : CountedTogether(a, b)' <=> CountedTogether(a, b)
  BY DEF Roots, Counted, CountedTogether, Members
<1>2. \A r : Joining(r)' <=> Joining(r)
  BY DEF Joining, Others
<1>3. \A v \in Workers : pc'[v] = "unite" => pc[v] = "unite" /\ edge'[v] = edge[v]
  BY DEF Others
<1> QED
  BY <1>1, <1>2, <1>3 DEF CountInv

(* The count of the target is that of the cluster about to be              *)
(* (extract.cpp:165).                                                      *)
LEMMA CountMerge ==
    ASSUME Frame, CountInv, NEW w \in Workers, Merge(w)
    PROVE  CountInv'
<1>1. TypeOK
  BY DEF Frame
<1>2. PICK a \in Ids, b \in Ids : a = edge[w][1] /\ b = edge[w][2]
  BY <1>1, LocalType
<1>3. PICK c \in {a, b}, t \in {a, b} :
        /\ c # t
        /\ nCollapses' = [nCollapses EXCEPT ![t] = Collapsed(c, t)]
        /\ edge' = [edge EXCEPT ![w] = <<c, t>>]
  BY <1>2 DEF Merge
<1>4. /\ pc[w] = "merge" /\ pc'[w] = "unite" /\ rep' = rep /\ phase' = phase /\ edge'[w] = <<c, t>>
  BY <1>1, <1>3 DEF Merge, dset, Goto, TypeOK
<1>5. Others(w)
  BY <1>1, <1>3 DEF Merge, Others, Goto, TypeOK
<1>6. a \in Roots /\ b \in Roots /\ ~Joining(a) /\ ~Joining(b)
  BY <1>2, <1>4, EndsAre, NobodyJoinsHere DEF HasBoth, HasFirst, HasSecond, Roots
<1> SUFFICES ASSUME phase = "collapse"
             PROVE  /\ \A r \in Roots' : ~Joining(r)' => Counted(r)'
                    /\ \A v \in Workers : pc'[v] = "unite" => CountedTogether(edge[v][1], edge[v][2])'
  BY <1>4 DEF CountInv
<1>7. /\ \A r \in Roots : ~Joining(r) => Counted(r)
      /\ \A v \in Workers : pc[v] = "unite" => CountedTogether(edge[v][1], edge[v][2])
  BY DEF CountInv
<1>8. Roots' = Roots /\ \A r : Members(r)' = Members(r)
  BY <1>4 DEF Roots, Members
<1>9. nCollapses'[t] = Collapsed(c, t) /\ \A r \in Ids \ {a, b} : nCollapses'[r] = nCollapses[r]
  BY <1>1, <1>2, <1>3 DEF TypeOK
<1>10. ASSUME NEW r \in Roots', ~Joining(r)'
       PROVE  Counted(r)'
  <2>1. \A v \in Workers : pc'[v] = "unite" => r # edge'[v][1] /\ r # edge'[v][2]
    BY <1>10 DEF Joining
  <2>2. r # a /\ r # b
    BY <1>3, <1>4, <2>1
  <2>3. ~Joining(r)
    BY <1>4, <1>5, <2>1 DEF Joining, Others
  <2> QED
    BY <1>7, <1>8, <1>9, <1>10, <2>2, <2>3 DEF Counted, Roots
<1>11. CountedTogether(c, t)'
  <2>1. PICK x \in Nat, y \in Nat : x = Cardinality(Members(c)) /\ y = Cardinality(Members(t))
    BY SizesAre
  <2>2. nCollapses[c] = (x - 1) % CounterValues /\ nCollapses[t] = (y - 1) % CounterValues
    BY <1>3, <1>6, <1>7, <2>1 DEF Counted
  <2>3. (((x - 1) % CounterValues) + ((y - 1) % CounterValues) + 1) % CounterValues
            = ((x - 1) + (y - 1) + 1) % CounterValues
    <3>1. x - 1 \in Int /\ y - 1 \in Int
      OBVIOUS
    <3> QED
      BY <3>1, CountersAre, ModSum
  <2>4. (x - 1) + (y - 1) + 1 = x + y - 1
    OBVIOUS
  <2>5. nCollapses'[t] = (x + y - 1) % CounterValues
    BY <1>9, <2>2, <2>3, <2>4 DEF Collapsed
  <2> QED
    BY <1>8, <2>1, <2>5 DEF CountedTogether
<1>12. ASSUME NEW v \in Workers, pc'[v] = "unite"
       PROVE  CountedTogether(edge[v][1], edge[v][2])'
  <2>1. CASE v = w
    BY <1>4, <1>11, <2>1
  <2>2. CASE v # w
    <3>1. pc[v] = "unite" /\ edge'[v] = edge[v]
      BY <1>5, <1>12, <2>2 DEF Others
    <3>2. PICK x \in Ids, y \in Ids : x = edge[v][1] /\ y = edge[v][2]
      BY <1>1, LocalType
    <3>3. y # a /\ y # b
      BY <1>2, <1>4, <2>2, <3>1, <3>2, EndsAreDisjoint DEF HasBoth, HasFirst, HasSecond
    <3>4. CountedTogether(x, y)
      BY <1>7, <3>1, <3>2
    <3>5. CountedTogether(x, y)'
      BY <1>8, <1>9, <3>3, <3>4 DEF CountedTogether
    <3> QED
      BY <3>1, <3>2, <3>5
  <2> QED
    BY <2>1, <2>2
<1> QED
  BY <1>10, <1>12

(* The cluster then has the members of both. *)
LEMMA CountUnite ==
    ASSUME Frame, CountInv, NEW w \in Workers, Unite(w)
    PROVE  CountInv'
<1>1. TypeOK
  BY DEF Frame
<1>2. PICK a \in Ids, b \in Ids : a = edge[w][1] /\ b = edge[w][2]
  BY <1>1, LocalType
<1>3. /\ pc[w] = "unite" /\ pc'[w] = "unlock" /\ edge' = edge /\ nCollapses' = nCollapses
      /\ phase' = phase
      /\ rep' = [x \in Ids |-> IF rep[x] = a THEN b ELSE rep[x]]
  BY <1>1, <1>2 DEF Unite, Goto, graph, Sets!UniteLocked, Sets!Join, TypeOK
<1>4. Others(w)
  BY <1>1 DEF Unite, Others, Goto, TypeOK
<1>5. rep[a] = a /\ rep[b] = b /\ a # b
  BY <1>2, <1>3, EndsAre DEF HasBoth, HasFirst, HasSecond
<1> SUFFICES ASSUME phase = "collapse"
             PROVE  /\ \A r \in Roots' : ~Joining(r)' => Counted(r)'
                    /\ \A v \in Workers : pc'[v] = "unite" => CountedTogether(edge[v][1], edge[v][2])'
  BY <1>3 DEF CountInv
<1>6. /\ \A r \in Roots : ~Joining(r) => Counted(r)
      /\ \A v \in Workers : pc[v] = "unite" => CountedTogether(edge[v][1], edge[v][2])
  BY DEF CountInv
<1>7. \A x \in Ids : rep'[x] = IF rep[x] = a THEN b ELSE rep[x]
  BY <1>3
<1>8. \A r \in Ids \ {a, b} : Members(r)' = Members(r)
  BY <1>7 DEF Members
<1>9. Members(b)' = Members(a) \cup Members(b) /\ Members(a) \cap Members(b) = {}
  BY <1>5, <1>7 DEF Members
<1>10. Counted(b)'
  <2>1. Cardinality(Members(a) \cup Members(b)) = Cardinality(Members(a)) + Cardinality(Members(b))
    <3>1. PICK A, B : A = Members(a) /\ B = Members(b)
      OBVIOUS
    <3>2. IsFiniteSet(A) /\ IsFiniteSet(B) /\ A \cap B = {} /\ Cardinality(A) \in Nat /\ Cardinality(B) \in Nat
      BY <1>9, <3>1, SizesAre
    <3>3. Cardinality(A \cup B) = Cardinality(A) + Cardinality(B) - Cardinality(A \cap B)
      BY <3>2, FS_Union
    <3>4. Cardinality(A \cap B) = 0
      BY <3>2, FS_EmptySet
    <3>5. Cardinality(A \cup B) = Cardinality(A) + Cardinality(B)
      BY <3>2, <3>3, <3>4
    <3> QED
      BY <3>1, <3>5
  <2>2. CountedTogether(a, b)
    BY <1>2, <1>3, <1>6
  <2>3. Cardinality(Members(b)') = Cardinality(Members(a)) + Cardinality(Members(b))
    BY <1>9, <2>1
  <2>4. nCollapses'[b] = (Cardinality(Members(b)') - 1) % CounterValues
    <3>1. PICK x \in Nat, y \in Nat : x = Cardinality(Members(a)) /\ y = Cardinality(Members(b))
      BY SizesAre
    <3>2. nCollapses[b] = (x + y - 1) % CounterValues
      BY <2>2, <3>1, Zenon DEF CountedTogether
    <3>3. Cardinality(Members(b)') = x + y
      BY <2>3, <3>1
    <3> QED
      BY <1>3, <3>2, <3>3
  <2> QED
    BY <2>4 DEF Counted
<1>11. ASSUME NEW r \in Roots', ~Joining(r)'
       PROVE  Counted(r)'
  <2>1. CASE r = b
    BY <1>10, <2>1
  <2>2. CASE r # b
    <3>1. r \in Ids /\ rep[r] = r /\ r # a
      BY <1>5, <1>7, <1>11, <2>2 DEF Roots
    <3>2. ~Joining(r)
      <4>1. \A v \in Workers \ {w} : pc[v] = "unite" => r # edge[v][1] /\ r # edge[v][2]
        BY <1>4, <1>11 DEF Joining, Others
      <4> QED
        BY <1>2, <2>2, <3>1, <4>1 DEF Joining
    <3> QED
      BY <1>3, <1>6, <1>8, <2>2, <3>1, <3>2 DEF Counted, Roots
  <2> QED
    BY <2>1, <2>2
<1>12. ASSUME NEW v \in Workers, pc'[v] = "unite"
       PROVE  CountedTogether(edge[v][1], edge[v][2])'
  <2>1. v # w
    BY <1>3, <1>12
  <2>2. pc[v] = "unite" /\ edge'[v] = edge[v]
    BY <1>4, <1>12, <2>1 DEF Others
  <2>3. PICK x \in Ids, y \in Ids : x = edge[v][1] /\ y = edge[v][2]
    BY <1>1, LocalType
  <2>4. x # a /\ x # b /\ y # a /\ y # b
    BY <1>2, <1>3, <2>1, <2>2, <2>3, EndsAreDisjoint DEF HasBoth, HasFirst, HasSecond
  <2>5. CountedTogether(x, y)
    BY <1>6, <2>2, <2>3
  <2>6. CountedTogether(x, y)'
    BY <1>3, <1>8, <2>4, <2>5 DEF CountedTogether
  <2> QED
    BY <2>2, <2>3, <2>6
<1> QED
  BY <1>11, <1>12

(* The counts start with single vertices and nothing collapsed. *)
LEMMA CountStarts ==
    ASSUME Frame, ClassifyInv, NextPhase, phase = "classify"
    PROVE  CountInv'
<1>1. TypeOK /\ \A x \in Ids : rep[x] = x /\ nCollapses[x] = 0
  BY DEF Frame, RepInv, ClassifyInv
<1>2. rep' = rep /\ nCollapses' = nCollapses /\ \A w \in Workers : pc'[w] = "idle"
  BY DEF NextPhase, dset, graph, locals
<1>3. ASSUME NEW r \in Ids
      PROVE  Counted(r)'
  <2>1. Members(r)' = {r}
    BY <1>1, <1>2 DEF Members
  <2>2. Cardinality({r}) - 1 = 0
    BY FS_Singleton
  <2>3. 0 % CounterValues = 0
    BY CountersAre
  <2> QED
    BY <1>1, <1>2, <2>1, <2>2, <2>3 DEF Counted
<1> QED
  BY <1>2, <1>3 DEF CountInv, Roots

(* CountInv says nothing of the first phase. *)
LEMMA CountInit == Init => CountInv
BY DEF Init, CountInv

(* Every step keeps the counts. *)
LEMMA CountNext ==
    ASSUME Frame, ApartInv, CountInv, [Next]_vars
    PROVE  CountInv'
<1>1. ASSUME NEW w \in Workers, Worker(w)
      PROVE  CountInv'
  <2>1. CASE TakeVertex(w) \/ SameLink(w) \/ NextLink(w) \/ Push(w) \/ VertexDone(w)
    <3>1. phase' = phase /\ phase = "classify"
      BY <2>1, ClassifyKeeps DEF ApartInv
    <3> QED
      BY <3>1 DEF CountInv
  <2>2. CASE Merge(w)
    BY <2>2, CountMerge
  <2>3. CASE Unite(w)
    BY <2>3, CountUnite
  <2>4. CASE \/ TakeEdge(w) \/ LockFirst(w) \/ LockSecond(w) \/ Release(w) \/ Check(w) \/ Skip(w)
             \/ Gather(w) \/ UnlockTarget(w)
    <3>1. TypeOK
      BY DEF Frame
    <3>2. /\ pc[w] # "unite" /\ pc'[w] # "unite" /\ rep' = rep /\ nCollapses' = nCollapses /\ phase' = phase
      BY <2>4, <3>1 DEF TakeEdge, LockFirst, LockSecond, Release, Check, Skip, Gather, UnlockTarget,
         Lock, Unlock, DropItem, Goto, TypeOK, dset, graph
    <3>3. Others(w)
      BY <2>4, <3>1 DEF TakeEdge, LockFirst, LockSecond, Release, Check, Skip, Gather, UnlockTarget,
         Others, DropItem, Goto, TypeOK, dset
    <3> QED
      BY <3>2, <3>3, CountQuiet
  <2> QED
    BY <1>1, <2>1, <2>2, <2>3, <2>4 DEF Worker
<1>2. CASE NextPhase
  <2>1. CASE phase = "classify"
    BY <1>2, <2>1, CountStarts DEF ApartInv
  <2>2. CASE phase # "classify"
    BY <1>2, <2>2 DEF NextPhase, CountInv
  <2> QED
    BY <2>1, <2>2
<1>3. CASE Assign \/ Relabel \/ Clean
  BY <1>3 DEF Assign, Relabel, Clean, CountInv
<1>4. CASE UNCHANGED vars
  <2>1. rep' = rep /\ nCollapses' = nCollapses /\ phase' = phase /\ pc' = pc /\ edge' = edge
    BY <1>4 DEF vars, dset, graph, locals
  <2>2. /\ Roots' = Roots
        /\ \A r : Counted(r)' <=> Counted(r)
        /\ \A a, b : CountedTogether(a, b)' <=> CountedTogether(a, b)
        /\ \A r : Joining(r)' <=> Joining(r)
    BY <2>1 DEF Roots, Counted, CountedTogether, Members, Joining
  <2> QED
    BY <2>1, <2>2 DEF CountInv
<1> QED
  BY <1>1, <1>2, <1>3, <1>4 DEF Next, Finished

(* The counts of free clusters are what CollapsesAreCounted says. *)
LEMMA CountIsShown ==
    ASSUME Frame, CountInv
    PROVE  CollapsesAreCounted
<1> SUFFICES ASSUME phase = "collapse", NEW r \in Roots, Free(r), Joining(r)
             PROVE  FALSE
  BY DEF CollapsesAreCounted, CountInv, Counted
<1>1. PICK w \in Workers : pc[w] = "unite" /\ (r = edge[w][1] \/ r = edge[w][2])
  BY DEF Joining
<1>2. Holds(w, r) /\ r \in Ids
  BY <1>1, EndsAre DEF HasBoth, HasFirst, HasSecond
<1> QED
  BY <1>2, NobodyAssumption DEF Frame, LocksInv, Free

-----------------------------------------------------------------------------
(* The graph that is left.                                                 *)

(* Between the steps every cluster knows its neighbors. *)
LEMMA AllKnown ==
    ASSUME Frame, KnownInv, phase = "assign"
    PROVE  /\ \A x \in Ids : rep[x] # x => adj_new[x] = {}
           /\ \A a \in Roots, y \in Ids : y \in NeighborReps(a) <=> y \in Roots /\ Linked(a, y)
<1>1. /\ \A x \in Ids : rep[x] # x => adj_new[x] = {}
      /\ \A a \in Roots : ~Joining(a) => Known(a)
  BY DEF KnownInv
<1>2. \A a : ~Joining(a)
  BY DEF Joining, Frame, PlaceInv
<1>3. \A a \in Roots, y \in Ids : y \in NeighborReps(a) => y \in Roots
  <2> SUFFICES ASSUME NEW a \in Roots, NEW y \in Ids, y \in NeighborReps(a)
               PROVE  y \in Roots
    OBVIOUS
  <2>1. PICK k \in adj_new[a] : rep[k] = y
    BY NeighborRepsAre
  <2>2. k \in Ids
    BY DEF Frame, TypeOK, Roots
  <2> QED
    BY <2>1, <2>2 DEF Frame, RepInv, Roots
<1> QED
  BY <1>1, <1>2, <1>3 DEF Known

(* Clusters get the numbers from 0 on, each its own (extract.cpp:205-219). *)
LEMMA OutputAssign ==
    ASSUME Frame, KnownInv, OutputInv, Assign
    PROVE  OutputInv'
<1>1. TypeOK
  BY DEF Frame
<1>2. PICK m \in Nat : m = Cardinality(Clusters)
  BY Numbering
<1>3. /\ phase = "assign" /\ phase' = "relabel"
      /\ vertex_map' = [i \in Clusters |-> NumberOf(i)]
      /\ adj_new' = [n \in Ids |-> IF n < m THEN adj_new[ClusterAt(n)] ELSE {}]
      /\ todo' = Items({NumberOf(i) : i \in Clusters})
      /\ input' = input /\ rep' = rep /\ invented' = invented
  BY <1>2 DEF Assign, dset
<1>4. /\ \A i \in Clusters : NumberOf(i) \in 0 .. m - 1
      /\ \A i, j \in Clusters : NumberOf(i) = NumberOf(j) => i = j
      /\ \A n \in 0 .. m - 1 : ClusterAt(n) \in Clusters /\ NumberOf(ClusterAt(n)) = n
      /\ 0 .. m - 1 \subseteq Ids
  BY <1>2, Numbering
<1>5. DOMAIN vertex_map' = Clusters /\ \A i \in Clusters : vertex_map'[i] = NumberOf(i)
  BY <1>3
<1>6. Vertices' = 0 .. m - 1
  BY <1>2, <1>5 DEF Vertices
<1>7. /\ Roots' = Roots
      /\ \A a, b : Linked(a, b)' <=> Linked(a, b)
  BY <1>3 DEF Roots, Linked
<1>8. /\ \A x \in Ids : rep[x] # x => adj_new[x] = {}
      /\ \A a \in Roots, y \in Ids : y \in NeighborReps(a) <=> y \in Roots /\ Linked(a, y)
  BY <1>3, AllKnown
<1>9. Clusters \subseteq Roots
  BY <1>8 DEF Clusters, Roots
<1>10. ASSUME NEW a \in Clusters, NEW b \in Roots, Linked(a, b)
       PROVE  b \in Clusters
  <2>1. a \in NeighborReps(b)
    BY <1>8, <1>9, <1>10, LinkedIsSymmetric DEF Roots
  <2> QED
    BY <2>1, NeighborRepsAre DEF Clusters, Roots
<1>11. Numbered'
  <2>1. Clusters \subseteq Roots' /\ \A a \in Clusters : vertex_map'[a] \in Vertices'
    BY <1>4, <1>5, <1>6, <1>7, <1>9
  <2>2. \A a, b \in Clusters : vertex_map'[a] = vertex_map'[b] => a = b
    BY <1>4, <1>5
  <2>3. \A n \in Vertices' : \E a \in Clusters : vertex_map'[a] = n
    BY <1>4, <1>5, <1>6
  <2>4. \A a \in Clusters, b \in Roots' : Linked(a, b)' => b \in Clusters
    BY <1>7, <1>10
  <2> QED
    BY <1>5, <2>1, <2>2, <2>3, <2>4 DEF Numbered
<1>12. \A n \in Ids \ Vertices' : adj_new'[n] = {}
  <2>1. \A n \in Ids : n < m => n \in 0 .. m - 1
    BY IdsAre
  <2> QED
    BY <1>3, <1>6, <2>1
<1>13. ASSUME NEW a \in Clusters
       PROVE  Waits(vertex_map[a])' /\ Moved(vertex_map[a], a)'
  <2>1. PICK n \in 0 .. m - 1 : n = NumberOf(a) /\ n = vertex_map'[a]
    BY <1>4, <1>5
  <2>2. ClusterAt(n) = a
    BY <1>4, <2>1
  <2>3. n \in Ids /\ n < m
    BY <1>4, <2>1
  <2>4. adj_new'[n] = adj_new[a]
    BY <1>3, <2>2, <2>3
  <2>5. <<n, n>> \in todo'
    BY <1>3, <2>1 DEF Items
  <2>6. Waits(n)'
    BY <1>3, <2>5 DEF Waits
  <2>7. \A y \in Ids : (y \in NeighborReps(n))' <=> y \in NeighborReps(a)
    BY <1>3, <2>4 DEF NeighborReps
  <2>8. Moved(n, a)'
    BY <1>7, <1>8, <1>9, <2>7 DEF Moved
  <2> QED
    BY <2>1, <2>6, <2>8
<1>14. todo' \subseteq Items(Vertices')
  BY <1>3, <1>4, <1>6 DEF Items
<1>15. NumberInv'
  BY <1>4, <1>5, <1>6, <1>11, <1>12, <1>13, <1>14 DEF NumberInv
<1>16. OutputIsAGraph'
  BY <1>3 DEF OutputInv, OutputIsAGraph
<1> QED
  BY <1>15, <1>16 DEF OutputInv

(* The links get the numbers of the clusters they lead to, all of which    *)
(* have one (extract.cpp:222-237).                                         *)
LEMMA OutputRelabel ==
    ASSUME Frame, OutputInv, Relabel
    PROVE  OutputInv'
<1>1. TypeOK
  BY DEF Frame
<1>2. PICK v \in todo :
        /\ todo' = todo \ {v}
        /\ adj_new' = [adj_new EXCEPT ![v[1]] = {Lookup(rep[k]) : k \in @}]
        /\ invented' = (invented \/ \E k \in adj_new[v[1]] : rep[k] \notin DOMAIN vertex_map)
  BY DEF Relabel
<1>3. phase = "relabel" /\ phase' = phase /\ input' = input /\ rep' = rep /\ vertex_map' = vertex_map
  BY DEF Relabel, dset
<1>4. NumberInv
  BY <1>3 DEF OutputInv
<1> DEFINE D == DOMAIN vertex_map
<1>5. /\ D \subseteq Roots
      /\ \A a \in D : vertex_map[a] \in Vertices
      /\ \A a, b \in D : vertex_map[a] = vertex_map[b] => a = b
      /\ \A n \in Vertices : \E a \in D : vertex_map[a] = n
      /\ \A a \in D, b \in Roots : Linked(a, b) => b \in D
  BY <1>4 DEF NumberInv, Numbered
<1>6. PICK n \in Vertices : v = <<n, n>>
  BY <1>3, <1>4 DEF NumberInv, Items
<1>7. n \in Ids /\ v[1] = n /\ adj_new[n] \subseteq Ids
  BY <1>1, <1>4, <1>6 DEF NumberInv, TypeOK
<1>8. PICK a \in D : vertex_map[a] = n
  BY <1>5, <1>6
<1>9. Waits(n) /\ Moved(n, a)
  <2>1. Waits(n)
    BY <1>2, <1>3, <1>6 DEF Waits
  <2> QED
    BY <1>4, <1>8, <2>1 DEF NumberInv
<1>10. \A k \in adj_new[n] : rep[k] \in Ids /\ rep[k] \in Roots /\ Linked(a, rep[k]) /\ rep[k] \in D
  <2> SUFFICES ASSUME NEW k \in adj_new[n]
               PROVE  rep[k] \in Ids /\ rep[k] \in Roots /\ Linked(a, rep[k]) /\ rep[k] \in D
    OBVIOUS
  <2>1. rep[k] \in Ids /\ rep[k] \in NeighborReps(n)
    BY <1>1, <1>7, NeighborRepsAre DEF TypeOK
  <2>2. rep[k] \in Roots /\ Linked(a, rep[k])
    BY <1>9, <2>1 DEF Moved
  <2> QED
    BY <1>5, <2>1, <2>2
<1>11. ~invented /\ ~invented'
  BY <1>2, <1>7, <1>10 DEF OutputInv, OutputIsAGraph
<1>12. /\ adj_new'[n] = {vertex_map[rep[k]] : k \in adj_new[n]}
       /\ \A x \in Ids \ {n} : adj_new'[x] = adj_new[x]
  <2>1. adj_new \in [Ids -> SUBSET Ids]
    BY <1>1 DEF TypeOK
  <2>2. adj_new' = [adj_new EXCEPT ![n] = {Lookup(rep[k]) : k \in adj_new[n]}]
    BY <1>2, <1>7
  <2>3. \A k \in adj_new[n] : Lookup(rep[k]) = vertex_map[rep[k]]
    BY <1>10 DEF Lookup
  <2> QED
    BY <1>7, <2>1, <2>2, <2>3
<1>13. /\ Roots' = Roots /\ Vertices' = Vertices
       /\ \A b, c : Linked(b, c)' <=> Linked(b, c)
  BY <1>3 DEF Roots, Vertices, Linked
<1>14. Relabelled(n, a)'
  <2>1. \A b \in Roots : Linked(a, b) => \E k \in adj_new[n] : rep[k] = b
    BY <1>9, NeighborRepsAre DEF Moved, Roots
  <2>2. \A k : k \in adj_new'[n] <=> \E b \in Roots : Linked(a, b) /\ vertex_map[b] = k
    BY <1>10, <1>12, <2>1
  <2> QED
    BY <1>3, <1>13, <2>2 DEF Relabelled
<1>15. ASSUME NEW b \in D
       PROVE  IF Waits(vertex_map[b])' THEN Moved(vertex_map[b], b)' ELSE Relabelled(vertex_map[b], b)'
  <2>1. PICK k \in Ids : k = vertex_map[b]
    BY <1>4, <1>5 DEF NumberInv
  <2>2. CASE k = n
    <3>1. b = a
      BY <1>5, <1>8, <2>1, <2>2
    <3>2. ~Waits(n)'
      BY <1>2, <1>6 DEF Waits
    <3> QED
      BY <1>3, <1>14, <2>1, <2>2, <3>1, <3>2
  <2>3. CASE k # n
    <3>1. adj_new'[k] = adj_new[k]
      BY <1>12, <2>1, <2>3
    <3>2. Waits(k)' <=> Waits(k)
      BY <1>2, <1>3, <1>6, <2>3 DEF Waits
    <3>3. Moved(k, b)' <=> Moved(k, b)
      BY <1>3, <1>13, <3>1 DEF Moved, NeighborReps
    <3>4. Relabelled(k, b)' <=> Relabelled(k, b)
      BY <1>3, <1>13, <3>1 DEF Relabelled
    <3>5. IF Waits(k) THEN Moved(k, b) ELSE Relabelled(k, b)
      BY <1>4, <2>1 DEF NumberInv
    <3> QED
      BY <1>3, <2>1, <3>2, <3>3, <3>4, <3>5
  <2> QED
    BY <2>2, <2>3
<1>16. Numbered'
  BY <1>3, <1>5, <1>13 DEF Numbered
<1>17. /\ \A x \in Ids \ Vertices : adj_new'[x] = {}
       /\ todo' \subseteq Items(Vertices)
  BY <1>2, <1>3, <1>4, <1>6, <1>12 DEF NumberInv
<1>18. NumberInv'
  BY <1>3, <1>4, <1>13, <1>15, <1>16, <1>17 DEF NumberInv
<1> QED
  BY <1>3, <1>11, <1>18 DEF OutputInv, OutputIsAGraph

(* When all are renamed, the links lead both ways. *)
LEMMA OutputRenamed ==
    ASSUME Frame, KeptApart, OutputInv, NextPhase, phase = "relabel"
    PROVE  OutputInv'
<1>1. TypeOK
  BY DEF Frame
<1>2. /\ todo = {} /\ phase' = "clean" /\ todo' = todo /\ input' = input /\ rep' = rep
      /\ adj_new' = adj_new /\ vertex_map' = vertex_map /\ invented' = invented
  BY DEF NextPhase, dset, graph
<1>3. NumberInv
  BY DEF OutputInv
<1>4. /\ DOMAIN vertex_map \subseteq Roots
      /\ \A a \in DOMAIN vertex_map : vertex_map[a] \in Vertices
      /\ \A a, b \in DOMAIN vertex_map : vertex_map[a] = vertex_map[b] => a = b
      /\ \A n \in Vertices : \E a \in DOMAIN vertex_map : vertex_map[a] = n
      /\ \A a \in DOMAIN vertex_map, b \in Roots : Linked(a, b) => b \in DOMAIN vertex_map
      /\ Vertices \subseteq Ids
  BY <1>3 DEF NumberInv, Numbered
<1>5. \A a \in DOMAIN vertex_map : Relabelled(vertex_map[a], a)
  BY <1>2, <1>3 DEF NumberInv, Waits
<1>6. ASSUME NEW n \in Ids, NEW k \in adj_new[n]
      PROVE  k \in Vertices /\ k # n /\ n \in adj_new[k]
  <2>1. n \in Vertices /\ k \in Ids
    BY <1>1, <1>3, <1>6 DEF NumberInv, TypeOK
  <2>2. PICK a \in DOMAIN vertex_map : vertex_map[a] = n
    BY <1>4, <2>1
  <2>3. PICK b \in Roots : Linked(a, b) /\ vertex_map[b] = k
    BY <1>5, <1>6, <2>1, <2>2 DEF Relabelled
  <2>4. b \in DOMAIN vertex_map /\ a \in Roots /\ Linked(b, a) /\ a # b
    BY <1>4, <2>2, <2>3, LinkedIsSymmetric, NotLinkedToItself
  <2>5. k \in Vertices /\ k # n
    BY <1>4, <2>2, <2>3, <2>4
  <2>6. n \in adj_new[k]
    BY <1>4, <1>5, <2>1, <2>2, <2>3, <2>4 DEF Relabelled
  <2> QED
    BY <2>5, <2>6
<1>7. Vertices' = Vertices /\ Roots' = Roots /\ \A a, b : Linked(a, b)' <=> Linked(a, b)
  BY <1>2 DEF Vertices, Roots, Linked
<1>8. \A n, a : Relabelled(n, a)' <=> Relabelled(n, a)
  BY <1>2, <1>7 DEF Relabelled
<1>9. \A n : ~Waits(n)'
  BY <1>2 DEF Waits
<1>10. NumberInv'
  <2>1. Numbered'
    BY <1>2, <1>4, <1>7 DEF Numbered
  <2>2. \A a \in DOMAIN vertex_map' : ~Waits(vertex_map[a])' /\ Relabelled(vertex_map[a], a)'
    BY <1>2, <1>5, <1>8, <1>9
  <2>3. \A n \in Ids \ Vertices' : adj_new'[n] = {}
    BY <1>2, <1>3, <1>7 DEF NumberInv
  <2> QED
    BY <1>2, <1>4, <1>7, <2>1, <2>2, <2>3 DEF NumberInv
<1>11. OutputIsAGraph'
  BY <1>2, <1>6, <1>7 DEF OutputInv, OutputIsAGraph
<1> QED
  BY <1>10, <1>11 DEF OutputInv

(* What is left after the clean-up is a graph (extract.cpp:241-258). *)
LEMMA OutputClean ==
    ASSUME Frame, OutputInv, Clean
    PROVE  OutputInv'
<1>1. /\ phase = "clean" /\ phase' = "done" /\ vertex_map' = vertex_map /\ invented' = invented
      /\ adj_new' = [n \in Ids |-> IF n \in Vertices THEN Cleaned(n) ELSE {}]
  BY DEF Clean
<1>2. /\ ~invented
      /\ \A n \in Ids : \A k \in adj_new[n] : k \in Vertices /\ k # n /\ n \in adj_new[k]
      /\ Vertices \subseteq Ids
  BY <1>1 DEF OutputInv, OutputIsAGraph, NumberInv
<1>3. Vertices' = Vertices
  BY <1>1 DEF Vertices
<1>4. ASSUME NEW n \in Ids, NEW k \in adj_new'[n]
      PROVE  k \in Vertices /\ k # n /\ n \in adj_new'[k]
  <2>1. n \in Vertices /\ k \in Cleaned(n)
    BY <1>1, <1>4
  <2>2. ~Spurious(n) /\ k \in adj_new[n] /\ ~(Spurious(k) /\ n \in adj_new[k] /\ k \in Vertices)
    BY <2>1 DEF Cleaned
  <2>3. k \in Vertices /\ k # n /\ n \in adj_new[k] /\ k \in Ids
    BY <1>2, <2>2
  <2>4. n \in Cleaned(k)
    BY <2>2, <2>3 DEF Cleaned
  <2> QED
    BY <1>1, <2>3, <2>4
<1> QED
  BY <1>1, <1>2, <1>3, <1>4 DEF OutputInv, OutputIsAGraph

(* OutputInv says nothing of the first phases. *)
LEMMA OutputInit == Init => OutputInv
BY DEF Init, OutputInv, OutputIsAGraph

(* Every step keeps OutputInv. *)
LEMMA OutputNext ==
    ASSUME Frame, ApartInv, OutputInv, [Next]_vars
    PROVE  OutputInv'
<1>1. ASSUME NEW w \in Workers, Worker(w)
      PROVE  OutputInv'
  <2>1. /\ invented' = invented /\ phase' = phase
        /\ phase \in {"classify", "collapse"} \/ pc[w] # "idle"
    BY <1>1 DEF Worker, TakeVertex, SameLink, NextLink, Push, VertexDone, TakeEdge, LockFirst,
       LockSecond, Release, Check, Skip, Gather, Merge, Unite, UnlockTarget
  <2>2. phase \in {"classify", "collapse"}
    BY <2>1 DEF Frame, PlaceInv
  <2> QED
    BY <2>1, <2>2 DEF OutputInv, OutputIsAGraph
<1>2. CASE NextPhase
  <2>1. CASE phase = "relabel"
    BY <1>2, <2>1, OutputRenamed DEF ApartInv
  <2>2. CASE phase # "relabel"
    <3>1. invented' = invented /\ phase' \in {"collapse", "assign"}
      BY <1>2, <2>2 DEF NextPhase
    <3> QED
      BY <3>1 DEF OutputInv, OutputIsAGraph
  <2> QED
    BY <2>1, <2>2
<1>3. CASE UNCHANGED vars
  <2>1. /\ input' = input /\ rep' = rep /\ adj_new' = adj_new /\ phase' = phase /\ todo' = todo
        /\ vertex_map' = vertex_map /\ invented' = invented
    BY <1>3 DEF vars, dset, graph
  <2>2. Vertices' = Vertices /\ Roots' = Roots /\ \A a, b : Linked(a, b)' <=> Linked(a, b)
    BY <2>1 DEF Vertices, Roots, Linked
  <2>3. /\ \A n, a : (Relabelled(n, a)' <=> Relabelled(n, a)) /\ (Moved(n, a)' <=> Moved(n, a))
        /\ \A n : Waits(n)' <=> Waits(n)
    BY <2>1, <2>2 DEF Relabelled, Moved, Waits, NeighborReps
  <2>4. ASSUME NumberInv
        PROVE  NumberInv'
    <3>1. Numbered'
      BY <2>1, <2>2, <2>4 DEF NumberInv, Numbered
    <3> QED
      BY <2>1, <2>2, <2>3, <2>4, <3>1 DEF NumberInv
  <2>5. OutputIsAGraph'
    BY <2>1, <2>2 DEF OutputInv, OutputIsAGraph
  <2> QED
    BY <2>1, <2>4, <2>5 DEF OutputInv
<1> QED
  BY <1>1, <1>2, <1>3, OutputAssign, OutputRelabel, OutputClean DEF Next, Finished, ApartInv

-----------------------------------------------------------------------------
(* The invariant of steps 1 to 3a: the locks of every place, the           *)
(* representatives, the links each cluster has or is getting, the edges    *)
(* that are taken, the counters, and the numbers of the output vertices    *)
(* (extract.cpp:66-257).                                                   *)
IInv == Frame /\ ApartInv /\ TakenInv /\ CountInv /\ OutputInv

(* The inductive invariant, and with it the types, hold in every reachable *)
(* state, for every graph and however many threads collapse it             *)
(* (extract.cpp:66-258).                                                   *)
THEOREM ClusterInvariance == Spec => []IInv
<1>1. Init => IInv
  BY FrameInit, ApartInit, TakenInit, CountInit, OutputInit DEF IInv
<1>2. IInv /\ [Next]_vars => IInv'
  BY FrameNext, ApartNext, TakenNext, CountNext, OutputNext DEF IInv
<1> QED
  BY <1>1, <1>2, PTL DEF Spec

(* Whatever the graph and however many threads collapse its edges: two     *)
(* clusters nobody works on know of each other exactly if an edge to keep  *)
(* leads between them, counters count the collapses modulo their width,    *)
(* the ends of an edge to keep are never joined, and the graph that is     *)
(* left has links both ways, none to itself, none to a missing vertex      *)
(* (extract.cpp:119-171, 229, 241-257).                                    *)
THEOREM ClustersAreRight == Spec => []ClusterInv
<1>1. IInv => ClusterInv
  BY ApartIsKnown, CountIsShown DEF IInv, Frame, ApartInv, OutputInv, ClusterInv
<1> QED
  BY <1>1, ClusterInvariance, PTL

(* Every use of the disjoint sets is one that their specification allows:  *)
(* unite_unlock is only called for two different parts that the calling    *)
(* thread has locked (dset.h:137-140, extract.cpp:153-171).                *)
THEOREM SetsAreUsedAsPromised == Spec => UsesLockedSets
<1>1. Init => Sets!Init
  BY DEF Init
<1>2. Frame /\ [Next]_vars => [Sets!Next]_(Sets!vars)
  BY SetsNext
<1>3. Spec => []Frame
  <2>1. IInv => Frame
    BY DEF IInv
  <2> QED
    BY <2>1, ClusterInvariance, PTL
<1> QED
  BY <1>1, <1>2, <1>3, PTL DEF Spec, UsesLockedSets, Sets!Spec

(* The parallel collapse is a sequential one: the clusters are those that  *)
(* some order of the edges gives, each edge decided once, refused exactly  *)
(* if its ends are one cluster or an edge to keep leads between them       *)
(* (extract.cpp:110-171).                                                  *)
THEOREM CollapseIsGreedy == Spec => ImplementsGreedyCollapse
<1>1. Init => Collapse!Init
  BY CollapseInit
<1>2. IInv /\ [Next]_vars => [Collapse!Next]_(Collapse!vars)
  BY CollapseNext DEF IInv
<1> QED
  BY <1>1, <1>2, ClusterInvariance, PTL DEF Spec, ImplementsGreedyCollapse, Collapse!Spec
-----------------------------------------------------------------------------
(* Snapping.  Which vertices have links, and what it is that they keep,    *)
(* for any lists.                                                          *)
IsLists(lists, V) == lists \in [V -> [V -> Nat]]
Mutual(lists, V) ==
    /\ \A u, v \in V : lists[u][v] > 0 <=> lists[v][u] > 0
    /\ \A v \in V : ~(lists[v][v] > 0)
WithLinks(lists, V) == {v \in V : \E u \in V : lists[v][u] > 0}

KeepsParts(lists, first, V) ==
    /\ WithLinks(lists, V) \subseteq WithLinks(first, V)
    /\ \A u, v \in WithLinks(lists, V) : Snap!Connected(lists, u, v) <=> Snap!Connected(first, u, v)
    /\ \A v \in WithLinks(first, V) : \E u \in WithLinks(lists, V) : Snap!Connected(first, v, u)

(* To be connected is reflexive and transitive. *)
LEMMA ConnectedFollows ==
    ASSUME NEW lists, NEW u, NEW v, NEW w,
           Snap!Connected(lists, u, v), Snap!Connected(lists, v, w)
    PROVE  Snap!Connected(lists, u, w)
BY DEF Snap!Connected

(* A step that connects nothing new, cuts nothing that is left, and leaves *)
(* a way to something that is left keeps the parts.                        *)
LEMMA StepKeepsParts ==
    ASSUME NEW V, NEW first, NEW old, NEW new,
           KeepsParts(old, first, V),
           WithLinks(new, V) \subseteq WithLinks(old, V),
           \A u, v \in WithLinks(new, V) : Snap!Connected(new, u, v) <=> Snap!Connected(old, u, v),
           \A u \in WithLinks(old, V) : \E w \in WithLinks(new, V) : Snap!Connected(old, u, w)
    PROVE  KeepsParts(new, first, V)
<1>1. \A u, v \in WithLinks(new, V) : Snap!Connected(new, u, v) <=> Snap!Connected(first, u, v)
  BY DEF KeepsParts
<1>2. ASSUME NEW v \in WithLinks(first, V)
      PROVE  \E w \in WithLinks(new, V) : Snap!Connected(first, v, w)
  <2>1. PICK u \in WithLinks(old, V) : Snap!Connected(first, v, u)
    BY DEF KeepsParts
  <2>2. PICK w \in WithLinks(new, V) : Snap!Connected(old, u, w)
    OBVIOUS
  <2>3. Snap!Connected(first, u, w)
    BY <2>2 DEF KeepsParts
  <2>4. Snap!Connected(first, v, w)
    BY <2>1, <2>3, ConnectedFollows
  <2> QED
    BY <2>4
<1> QED
  BY <1>1, <1>2 DEF KeepsParts

(* Of a triangle a, b, c with a side from a to b, the side from b to c     *)
(* gives way to the one from a to c.                                       *)
IsTriangleStep(old, new, V, a, b, c) ==
    /\ a \in V /\ b \in V /\ c \in V /\ a # b /\ b # c /\ a # c
    /\ old[a][b] > 0 /\ (old[b][c] > 0 \/ old[a][c] > 0)
    /\ \A u, v \in V :
        new[u][v] > 0 <=> \/ old[u][v] > 0 /\ ~(u = b /\ v = c) /\ ~(u = c /\ v = b)
                          \/ u = a /\ v = c
                          \/ u = c /\ v = a

(* Such a step leads out of the same sets as before.                       *)
LEMMA TriangleKeepsClosed ==
    ASSUME NEW V, NEW old, NEW new, IsLists(old, V), IsLists(new, V), Mutual(old, V),
           NEW a, NEW b, NEW c, IsTriangleStep(old, new, V, a, b, c),
           NEW part \in SUBSET V
    PROVE  Snap!Closed(old, part) <=> Snap!Closed(new, part)
<1>1. DOMAIN old = V /\ DOMAIN new = V
  BY DEF IsLists
<1>2. old[a][b] > 0 /\ old[b][a] > 0 /\ a \in V /\ b \in V /\ c \in V
  BY DEF IsTriangleStep, Mutual
<1>3. ASSUME Snap!Closed(old, part)
      PROVE  Snap!Closed(new, part)
  <2>1. \A v \in part, u \in V : old[v][u] > 0 => u \in part
    BY <1>1, <1>3 DEF Snap!Closed
  <2>2. old[b][c] > 0 \/ old[a][c] > 0
    BY DEF IsTriangleStep
  <2>3. a \in part => c \in part
    BY <1>2, <2>1, <2>2
  <2>4. c \in part => a \in part
    BY <1>2, <2>1, <2>2 DEF Mutual
  <2>5. ASSUME NEW v \in part, NEW u \in V, new[v][u] > 0
        PROVE  u \in part
    <3>1. old[v][u] > 0 \/ (v = a /\ u = c) \/ (v = c /\ u = a)
      BY <2>5 DEF IsTriangleStep
    <3> QED
      BY <2>1, <2>3, <2>4, <3>1
  <2> QED
    BY <1>1, <2>5 DEF Snap!Closed
<1>4. ASSUME Snap!Closed(new, part)
      PROVE  Snap!Closed(old, part)
  <2>1. \A v \in part, u \in V : new[v][u] > 0 => u \in part
    BY <1>1, <1>4 DEF Snap!Closed
  <2>2. new[a][b] > 0 /\ new[b][a] > 0 /\ new[a][c] > 0 /\ new[c][a] > 0
    BY <1>2 DEF IsTriangleStep
  <2>3. ASSUME NEW v \in part, NEW u \in V, old[v][u] > 0
        PROVE  u \in part
    <3>1. new[v][u] > 0 \/ (v = b /\ u = c) \/ (v = c /\ u = b)
      BY <2>3 DEF IsTriangleStep
    <3> QED
      BY <1>2, <2>1, <2>2, <3>1
  <2> QED
    BY <1>1, <2>3 DEF Snap!Closed
<1> QED
  BY <1>3, <1>4

(* So nothing becomes connected or cut off, and no vertex loses all links. *)
LEMMA TriangleKeeps ==
    ASSUME NEW V, NEW first, NEW old, NEW new, IsLists(old, V), IsLists(new, V),
           Mutual(old, V), KeepsParts(old, first, V),
           NEW a, NEW b, NEW c, IsTriangleStep(old, new, V, a, b, c)
    PROVE  Mutual(new, V) /\ KeepsParts(new, first, V) /\ WithLinks(new, V) = WithLinks(old, V)
<1>1. Mutual(new, V)
  <2>1. ASSUME NEW u \in V, NEW v \in V
        PROVE  new[u][v] > 0 <=> new[v][u] > 0
    BY DEF Mutual, IsTriangleStep
  <2>2. ASSUME NEW v \in V
        PROVE  ~(new[v][v] > 0)
    BY DEF Mutual, IsTriangleStep
  <2> QED
    BY <2>1, <2>2 DEF Mutual
<1>2. WithLinks(new, V) = WithLinks(old, V)
  <2>1. a \in WithLinks(old, V) /\ b \in WithLinks(old, V) /\ c \in WithLinks(old, V)
    BY DEF WithLinks, IsTriangleStep, Mutual
  <2>2. a \in WithLinks(new, V) /\ b \in WithLinks(new, V) /\ c \in WithLinks(new, V)
    BY DEF WithLinks, IsTriangleStep, Mutual
  <2>3. ASSUME NEW v \in V \ {a, b, c}
        PROVE  v \in WithLinks(new, V) <=> v \in WithLinks(old, V)
    BY DEF WithLinks, IsTriangleStep
  <2> QED
    BY <2>1, <2>2, <2>3 DEF WithLinks
<1>3. \A part \in SUBSET V : Snap!Closed(old, part) <=> Snap!Closed(new, part)
  BY TriangleKeepsClosed
<1>4. \A u, v : Snap!Connected(new, u, v) <=> Snap!Connected(old, u, v)
  BY <1>3 DEF Snap!Connected, IsLists
<1>5. \A u : Snap!Connected(old, u, u)
  BY DEF Snap!Connected
<1>6. \A u \in WithLinks(old, V) : \E w \in WithLinks(new, V) : Snap!Connected(old, u, w)
  BY <1>2, <1>5
<1>7. KeepsParts(new, first, V)
  BY <1>2, <1>4, <1>6, StepKeepsParts
<1> QED
  BY <1>1, <1>2, <1>7

(* i takes over the links of m; a way leads from the one to the other, and *)
(* one of them has a link to a third vertex.                               *)
IsMergeStep(old, new, V, i, m) ==
    /\ i \in V /\ m \in V /\ i # m
    /\ \A part \in SUBSET V : Snap!Closed(old, part) => (i \in part <=> m \in part)
    /\ \E t \in V \ {i, m} : old[i][t] > 0 \/ old[m][t] > 0
    /\ \A u, v \in V :
        new[u][v] > 0 <=> /\ u # m /\ v # m /\ u # v
                          /\ \/ old[u][v] > 0
                             \/ u = i /\ old[m][v] > 0
                             \/ v = i /\ old[u][m] > 0

(* m is gone, everything else is connected as before.                      *)
LEMMA MergeKeeps ==
    ASSUME NEW V, NEW first, NEW old, NEW new, IsLists(old, V), IsLists(new, V),
           Mutual(old, V), KeepsParts(old, first, V),
           NEW i, NEW m, IsMergeStep(old, new, V, i, m)
    PROVE  /\ Mutual(new, V) /\ KeepsParts(new, first, V)
           /\ WithLinks(new, V) = (WithLinks(old, V) \ {m}) \cup {i}
<1>1. Mutual(new, V)
  <2>1. ASSUME NEW u \in V, NEW v \in V
        PROVE  new[u][v] > 0 <=> new[v][u] > 0
    BY DEF Mutual, IsMergeStep
  <2>2. ASSUME NEW v \in V
        PROVE  ~(new[v][v] > 0)
    BY DEF Mutual, IsMergeStep
  <2> QED
    BY <2>1, <2>2 DEF Mutual
<1>2. i \in V /\ m \in V /\ i # m
  BY DEF IsMergeStep
<1>3. i \in WithLinks(new, V) /\ m \notin WithLinks(new, V)
  BY DEF WithLinks, IsMergeStep
<1>4. ASSUME NEW v \in V \ {i, m}
      PROVE  v \in WithLinks(new, V) <=> v \in WithLinks(old, V)
  <2>1. ASSUME NEW u \in V, new[v][u] > 0
        PROVE  v \in WithLinks(old, V)
    BY <2>1, <1>2 DEF IsMergeStep, WithLinks
  <2>2. ASSUME NEW u \in V, old[v][u] > 0
        PROVE  v \in WithLinks(new, V)
    <3>1. CASE u = m
      <4>1. new[v][i] > 0
        BY <2>2, <1>2, <3>1 DEF IsMergeStep
      <4> QED
        BY <4>1, <1>2 DEF WithLinks
    <3>2. CASE u # m
      <4>1. u # v
        BY <2>2 DEF Mutual
      <4>2. new[v][u] > 0
        BY <2>2, <1>2, <3>2, <4>1 DEF IsMergeStep
      <4> QED
        BY <4>2 DEF WithLinks
    <3> QED
      BY <3>1, <3>2
  <2> QED
    BY <2>1, <2>2 DEF WithLinks
<1>5. WithLinks(new, V) = (WithLinks(old, V) \ {m}) \cup {i}
  BY <1>2, <1>3, <1>4 DEF WithLinks
<1>6. DOMAIN old = V /\ DOMAIN new = V
  BY DEF IsLists
<1>7. ASSUME NEW part \in SUBSET V, Snap!Closed(old, part)
      PROVE  Snap!Closed(new, part)
  <2>1. \A v \in part, u \in V : old[v][u] > 0 => u \in part
    BY <1>6, <1>7 DEF Snap!Closed
  <2>2. i \in part <=> m \in part
    BY <1>7 DEF IsMergeStep
  <2>3. ASSUME NEW v \in part, NEW u \in V, new[v][u] > 0
        PROVE  u \in part
    <3>1. \/ old[v][u] > 0
          \/ v = i /\ old[m][u] > 0
          \/ u = i /\ old[v][m] > 0
      BY <2>3 DEF IsMergeStep
    <3> QED
      BY <1>2, <2>1, <2>2, <3>1
  <2> QED
    BY <1>6, <2>3 DEF Snap!Closed
<1>8. ASSUME NEW part \in SUBSET V, Snap!Closed(new, part)
      PROVE  LET whole == IF i \in part THEN part \cup {m} ELSE part \ {m}
             IN whole \in SUBSET V /\ Snap!Closed(old, whole)
  <2> DEFINE whole == IF i \in part THEN part \cup {m} ELSE part \ {m}
  <2>1. \A v \in part, u \in V : new[v][u] > 0 => u \in part
    BY <1>6, <1>8 DEF Snap!Closed
  <2>2. whole \in SUBSET V /\ (i \in whole <=> i \in part) /\ (m \in whole <=> i \in part)
        /\ \A v \in V \ {m} : v \in whole <=> v \in part
    BY <1>2
  <2> HIDE DEF whole
  <2>3. ASSUME NEW v \in whole, NEW u \in V, old[v][u] > 0
        PROVE  u \in whole
    <3>1. v \in V /\ u # v
      BY <2>2, <2>3 DEF Mutual
    <3>2. CASE v # m /\ u # m
      <4>1. new[v][u] > 0
        BY <2>3, <3>1, <3>2 DEF IsMergeStep
      <4> QED
        BY <2>1, <2>2, <3>1, <3>2, <4>1
    <3>3. CASE v = m
      <4>1. u = i \/ new[i][u] > 0
        BY <1>2, <2>3, <3>1, <3>3 DEF IsMergeStep
      <4> QED
        BY <1>2, <2>1, <2>2, <3>1, <3>3, <4>1
    <3>4. CASE u = m
      <4>1. v = i \/ new[v][i] > 0
        BY <1>2, <2>3, <3>1, <3>4 DEF IsMergeStep
      <4> QED
        BY <1>2, <2>1, <2>2, <3>1, <3>4, <4>1
    <3> QED
      BY <3>2, <3>3, <3>4
  <2>4. Snap!Closed(old, whole)
    BY <1>6, <2>2, <2>3 DEF Snap!Closed
  <2> QED
    BY <2>2, <2>4 DEF whole
<1>9. ASSUME NEW u \in V \ {m}, NEW v \in V \ {m}
      PROVE  Snap!Connected(new, u, v) <=> Snap!Connected(old, u, v)
  <2>1. ASSUME Snap!Connected(new, u, v), NEW part \in SUBSET V, Snap!Closed(old, part), u \in part
        PROVE  v \in part
    BY <1>6, <1>7, <2>1 DEF Snap!Connected
  <2>2. ASSUME Snap!Connected(old, u, v), NEW part \in SUBSET V, Snap!Closed(new, part), u \in part
        PROVE  v \in part
    <3> DEFINE whole == IF i \in part THEN part \cup {m} ELSE part \ {m}
    <3>1. whole \in SUBSET V /\ Snap!Closed(old, whole)
      BY <1>8, <2>2
    <3>2. u \in whole /\ (v \in whole => v \in part)
      BY <2>2
    <3> HIDE DEF whole
    <3> QED
      BY <1>6, <2>2, <3>1, <3>2 DEF Snap!Connected
  <2> QED
    BY <1>6, <2>1, <2>2 DEF Snap!Connected
<1>10. ASSUME NEW u \in WithLinks(old, V)
       PROVE  \E w \in WithLinks(new, V) : Snap!Connected(old, u, w)
  <2>1. CASE u # m
    <3>1. u \in WithLinks(new, V) /\ Snap!Connected(old, u, u)
      BY <1>5, <2>1 DEF Snap!Connected
    <3> QED
      BY <3>1
  <2>2. CASE u = m
    <3>1. Snap!Connected(old, m, i)
      BY <1>6 DEF IsMergeStep, Snap!Connected
    <3> QED
      BY <1>3, <2>2, <3>1
  <2> QED
    BY <2>1, <2>2
<1>11. i \in WithLinks(old, V)
  <2>1. PICK t \in V \ {i, m} : old[i][t] > 0 \/ old[m][t] > 0
    BY DEF IsMergeStep
  <2>2. CASE old[i][t] > 0
    BY <1>2, <2>2 DEF WithLinks
  <2>3. CASE ~(\E x \in V : old[i][x] > 0)
    <3>1. Snap!Closed(old, {i})
      BY <1>2, <1>6, <2>3 DEF Snap!Closed
    <3> QED
      BY <1>2, <3>1 DEF IsMergeStep
  <2> QED
    BY <1>2, <2>3 DEF WithLinks
<1>12. WithLinks(new, V) \subseteq WithLinks(old, V)
  BY <1>5, <1>11
<1>13. \A u, v \in WithLinks(new, V) : Snap!Connected(new, u, v) <=> Snap!Connected(old, u, v)
  BY <1>3, <1>9 DEF WithLinks
<1>14. KeepsParts(new, first, V)
  BY <1>10, <1>12, <1>13, StepKeepsParts
<1> QED
  BY <1>1, <1>5, <1>14

(* What is known while step 5 is at work.  A candidate for snapping names  *)
(* a vertex and the ends of an edge, the vertex being none of the two as   *)
(* long as the links it was found by are there.                            *)
SnapTypes ==
    /\ IsLists(links, Snap!Vertices) /\ IsLists(given, Snap!Vertices)
    /\ crease \subseteq Snap!Vertices
    /\ loop \in {"find", "snap", "remove"}
    /\ loop = "snap" => \A c \in candidates :
        /\ c.t \in Snap!Vertices \X Snap!Vertices \X Snap!Vertices
        /\ c.t[3] # c.t[1]
    /\ loop = "remove" => candidates \subseteq Snap!Vertices \X Snap!Vertices

SnapGraph ==
    /\ Mutual(links, Snap!Vertices)
    /\ KeepsParts(links, given, Snap!Vertices)
    /\ crease \subseteq WithLinks(links, Snap!Vertices) \cup (Snap!Vertices \ WithLinks(given, Snap!Vertices))

SnapInv == SnapTypes /\ SnapGraph

(* The invariant says what is promised.                                    *)
LEMMA SnapInvSuffices ==
    ASSUME SnapInv
    PROVE  Snap!SnappingKeepsGraph
<1> DEFINE V == Snap!Vertices
<1>1. DOMAIN links = V /\ DOMAIN given = V
  BY DEF SnapInv, SnapTypes, IsLists
<1>2. Snap!Survivors = WithLinks(links, V)
  BY DEF Snap!Survivors, Snap!LinkedTo, Snap!HasLink, WithLinks
<1>3. Snap!HadLinks = WithLinks(given, V)
  BY DEF Snap!HadLinks, WithLinks
<1>4. Snap!LinksAreMutual
  BY DEF Snap!LinksAreMutual, Snap!HasLink, SnapInv, SnapGraph, Mutual
<1>5. Snap!PartsAreKept
  BY <1>2, <1>3 DEF Snap!PartsAreKept, SnapInv, SnapGraph, KeepsParts
<1> QED
  BY <1>2, <1>3, <1>4, <1>5 DEF Snap!SnappingKeepsGraph, SnapInv, SnapGraph

(* Snapping one vertex.                                                    *)
LEMMA MergeKeepsGraph ==
    ASSUME SnapInv, NEW i \in Snap!Vertices, NEW m \in Snap!Vertices, i # m,
           IsLists(links, Snap!Vertices),
           \A part \in SUBSET Snap!Vertices : Snap!Closed(links, part) => (i \in part <=> m \in part),
           \E t \in Snap!Vertices \ {i, m} : links[i][t] > 0 \/ links[m][t] > 0,
           Snap!Merge(i, m), UNCHANGED given
    PROVE  /\ DOMAIN O' = DOMAIN O /\ IsLists(links', Snap!Vertices) /\ crease' \subseteq Snap!Vertices
           /\ SnapGraph'
<1> DEFINE V == Snap!Vertices
           updated == (Snap!LinkedTo(i) \cup Snap!LinkedTo(m)) \ {i, m}
<1>1. DOMAIN O' = DOMAIN O /\ Snap!Vertices' = V
  BY DEF Snap!Merge, Snap!Vertices
<1>2. /\ \A u, v \in V : links[u][v] \in Nat
      /\ Mutual(links, V)
      /\ \A n \in V : DOMAIN links[n] = V
  BY DEF SnapInv, SnapGraph, IsLists
<1>3. links' = [n \in V |->
            IF n = m THEN [x \in V |-> 0]
            ELSE IF n = i THEN [x \in V |-> IF x \in updated THEN 1 ELSE 0]
            ELSE IF n \in Snap!LinkedTo(m) THEN Snap!Renamed(i, m, n)
            ELSE links[n]]
  BY DEF Snap!Merge
<1>4. \A v, u \in V : u \in Snap!LinkedTo(v) <=> links[v][u] > 0
  BY DEF Snap!LinkedTo, Snap!HasLink
<1>5. \A n \in V : Snap!Renamed(i, m, n) = [x \in V |->
            IF x = m THEN 0 ELSE IF x = i THEN links[n][i] + links[n][m] ELSE links[n][x]]
  BY <1>2 DEF Snap!Renamed
<1>6. \A n \in V : links'[n] =
            IF n = m THEN [x \in V |-> 0]
            ELSE IF n = i THEN [x \in V |-> IF x \in updated THEN 1 ELSE 0]
            ELSE IF n \in Snap!LinkedTo(m) THEN Snap!Renamed(i, m, n)
            ELSE links[n]
  BY <1>3
<1>7. ASSUME NEW u \in V, NEW v \in V
      PROVE  /\ links'[u][v] \in Nat
             /\ links'[u][v] > 0 <=>
                    /\ u # m /\ v # m /\ u # v
                    /\ \/ links[u][v] > 0
                       \/ u = i /\ links[m][v] > 0
                       \/ v = i /\ links[u][m] > 0
  <2>1. CASE u = m
    <3>1. links'[u] = [x \in V |-> 0]
      BY <1>6, <2>1
    <3> QED
      BY <2>1, <3>1
  <2>2. CASE u = i
    <3>1. links'[u][v] = IF v \in updated THEN 1 ELSE 0
      BY <1>6, <2>2
    <3>2. v \in updated <=> v # i /\ v # m /\ (links[i][v] > 0 \/ links[m][v] > 0)
      BY <1>4
    <3> HIDE DEF updated
    <3> QED
      BY <2>2, <3>1, <3>2
  <2>3. CASE u # m /\ u # i /\ links[m][u] > 0
    <3>1. links'[u][v] = IF v = m THEN 0 ELSE IF v = i THEN links[u][i] + links[u][m] ELSE links[u][v]
      <4>1. links'[u] = Snap!Renamed(i, m, u)
        BY <1>4, <1>6, <2>3
      <4>2. links'[u] = [x \in V |->
                IF x = m THEN 0 ELSE IF x = i THEN links[u][i] + links[u][m] ELSE links[u][x]]
        BY <1>5, <4>1
      <4> QED
        BY <4>2
    <3>2. links[u][v] \in Nat /\ links[u][i] \in Nat /\ links[u][m] \in Nat
      BY <1>2
    <3>3. ~(links[u][u] > 0)
      BY <1>2 DEF Mutual
    <3>4. CASE v = m
      BY <3>1, <3>4
    <3>5. CASE v = i
      BY <2>3, <3>1, <3>2, <3>5
    <3>6. CASE v # m /\ v # i
      BY <2>3, <3>1, <3>2, <3>3, <3>6
    <3> QED
      BY <3>4, <3>5, <3>6
  <2>4. CASE u # m /\ u # i /\ ~(links[m][u] > 0)
    <3>1. links'[u][v] = links[u][v]
      BY <1>4, <1>6, <2>4
    <3>2. ~(links[u][m] > 0) /\ ~(links[u][u] > 0)
      BY <1>2, <2>4 DEF Mutual
    <3> QED
      BY <1>2, <2>4, <3>1, <3>2
  <2> QED
    BY <2>1, <2>2, <2>3, <2>4
<1>8. IsLists(links', V)
  <2>1. ASSUME NEW n \in V
        PROVE  links'[n] = [x \in V |-> links'[n][x]]
    <3>1. CASE n = m
      <4>1. links'[n] = [x \in V |-> 0]
        BY <1>6, <3>1
      <4> QED
        BY <4>1
    <3>2. CASE n = i
      <4>1. links'[n] = [x \in V |-> IF x \in updated THEN 1 ELSE 0]
        BY <1>6, <3>2
      <4> HIDE DEF updated
      <4> QED
        BY <4>1
    <3>3. CASE n # m /\ n # i /\ n \in Snap!LinkedTo(m)
      <4>1. links'[n] = Snap!Renamed(i, m, n)
        BY <1>6, <3>3
      <4> QED
        BY <1>5, <4>1
    <3>4. CASE n # m /\ n # i /\ n \notin Snap!LinkedTo(m)
      <4>1. links'[n] = links[n] /\ links[n] \in [V -> Nat]
        BY <1>6, <3>4 DEF IsLists
      <4> QED
        BY <4>1
    <3> QED
      BY <3>1, <3>2, <3>3, <3>4
  <2>2. links' = [n \in V |-> links'[n]]
    BY <1>3
  <2> QED
    BY <1>7, <2>1, <2>2 DEF IsLists
<1>9. IsMergeStep(links, links', V, i, m)
  BY <1>7 DEF IsMergeStep
<1>10. /\ Mutual(links', V) /\ KeepsParts(links', given, V)
       /\ WithLinks(links', V) = (WithLinks(links, V) \ {m}) \cup {i}
  BY <1>8, <1>9, MergeKeeps DEF SnapInv, SnapGraph
<1>11. crease' = IF m \in crease THEN (crease \ {m}) \cup {i} ELSE crease
  BY DEF Snap!Merge
<1>12. crease \subseteq V /\ crease \subseteq WithLinks(links, V) \cup (V \ WithLinks(given, V))
  BY DEF SnapInv, SnapTypes, SnapGraph
<1>13. crease' \subseteq V /\ crease' \subseteq WithLinks(links', V) \cup (V \ WithLinks(given, V))
  BY <1>10, <1>11, <1>12
<1> QED
  BY <1>1, <1>8, <1>10, <1>13 DEF SnapGraph

(* The same for a step that only moves a side of a triangle.               *)
LEMMA TriangleKeepsGraph ==
    ASSUME SnapInv, NEW new, IsLists(new, Snap!Vertices),
           NEW a, NEW b, NEW c, IsTriangleStep(links, new, Snap!Vertices, a, b, c),
           NEW marked, marked \subseteq crease \cup {a}
    PROVE  /\ Mutual(new, Snap!Vertices)
           /\ KeepsParts(new, given, Snap!Vertices)
           /\ marked \subseteq Snap!Vertices
           /\ marked \subseteq WithLinks(new, Snap!Vertices) \cup (Snap!Vertices \ WithLinks(given, Snap!Vertices))
<1> DEFINE V == Snap!Vertices
<1>1. /\ Mutual(new, V) /\ KeepsParts(new, given, V) /\ WithLinks(new, V) = WithLinks(links, V)
  BY TriangleKeeps DEF SnapInv, SnapTypes, SnapGraph
<1>2. a \in WithLinks(links, V)
  BY DEF IsTriangleStep, WithLinks
<1>3. crease \subseteq V /\ crease \subseteq WithLinks(links, V) \cup (V \ WithLinks(given, V))
  BY DEF SnapInv, SnapTypes, SnapGraph
<1> QED
  BY <1>1, <1>2, <1>3 DEF WithLinks

(* Two entries of the lists are cut out, and nothing else.                 *)
LEMMA CutIs ==
    ASSUME IsLists(links, Snap!Vertices), NEW j \in Snap!Vertices, NEW k \in Snap!Vertices
    PROVE  /\ IsLists(Snap!Cut(j, k), Snap!Vertices)
           /\ \A u, v \in Snap!Vertices : Snap!Cut(j, k)[u][v] =
                IF (u = j /\ v = k) \/ (u = k /\ v = j) THEN 0 ELSE links[u][v]
<1> DEFINE V == Snap!Vertices
<1>1. links \in [V -> [V -> Nat]]
  BY DEF IsLists
<1>2. Snap!Cut(j, k) = [links EXCEPT ![j][k] = 0, ![k][j] = 0]
  BY DEF Snap!Cut
<1> DEFINE once == [links EXCEPT ![j] = [links[j] EXCEPT ![k] = 0]]
<1>3. once \in [V -> [V -> Nat]]
      /\ \A u, v \in V : once[u][v] = IF u = j /\ v = k THEN 0 ELSE links[u][v]
  BY <1>1
<1>4. Snap!Cut(j, k) = [once EXCEPT ![k] = [once[k] EXCEPT ![j] = 0]]
  BY <1>2
<1> HIDE DEF once
<1> QED
  BY <1>3, <1>4 DEF IsLists

(* i moves onto the edge from j to k, which leads over i from now on.      *)
LEMMA SlideKeepsGraph ==
    ASSUME SnapInv, NEW i \in Snap!Vertices, NEW j \in Snap!Vertices, NEW k \in Snap!Vertices,
           i # j, j # k, i # k, links[i][j] > 0, links[j][k] > 0,
           Snap!Slide(i, j, k), UNCHANGED given
    PROVE  /\ DOMAIN O' = DOMAIN O /\ IsLists(links', Snap!Vertices) /\ crease' \subseteq Snap!Vertices
           /\ SnapGraph'
<1> DEFINE V == Snap!Vertices
           cut == Snap!Cut(j, k)
<1>1. DOMAIN O' = DOMAIN O /\ Snap!Vertices' = V
  BY DEF Snap!Slide, Snap!Vertices
<1>2. IsLists(links, V) /\ Mutual(links, V) /\ \A u, v \in V : links[u][v] \in Nat
  BY DEF SnapInv, SnapTypes, SnapGraph, IsLists
<1>3. /\ IsLists(cut, V)
      /\ \A u, v \in V : cut[u][v] =
                IF (u = j /\ v = k) \/ (u = k /\ v = j) THEN 0 ELSE links[u][v]
  BY <1>2, CutIs
<1>4. links' = IF links[k][i] > 0 THEN cut
               ELSE [cut EXCEPT ![i][k] = @ + 1, ![k][i] = @ + 1]
  BY DEF Snap!Slide, Snap!HasLink
<1> HIDE DEF cut
<1>5. IsLists(links', V) /\ IsTriangleStep(links, links', V, i, j, k)
  <2>1. CASE links[k][i] > 0
    <3>1. links[i][k] > 0
      BY <1>2, <2>1 DEF Mutual
    <3>2. \A u, v \in V : links'[u][v] > 0 <=>
                \/ links[u][v] > 0 /\ ~(u = j /\ v = k) /\ ~(u = k /\ v = j)
                \/ u = i /\ v = k
                \/ u = k /\ v = i
      BY <1>3, <1>4, <2>1, <3>1
    <3> QED
      BY <1>3, <1>4, <2>1, <3>2 DEF IsTriangleStep
  <2>2. CASE ~(links[k][i] > 0)
    <3> DEFINE once == [cut EXCEPT ![i] = [cut[i] EXCEPT ![k] = cut[i][k] + 1]]
    <3>1. cut \in [V -> [V -> Nat]]
      BY <1>3 DEF IsLists
    <3>2. once \in [V -> [V -> Nat]]
          /\ \A u, v \in V : once[u][v] = IF u = i /\ v = k THEN cut[i][k] + 1 ELSE cut[u][v]
      BY <3>1
    <3>3. links' = [once EXCEPT ![k] = [once[k] EXCEPT ![i] = once[k][i] + 1]]
      BY <1>4, <2>2
    <3> HIDE DEF once
    <3>4. links' \in [V -> [V -> Nat]]
          /\ \A u, v \in V : links'[u][v] = IF u = k /\ v = i THEN once[k][i] + 1 ELSE once[u][v]
      BY <3>2, <3>3
    <3>5. \A u, v \in V : cut[u][v] \in Nat /\ once[u][v] \in Nat
      BY <3>1, <3>2
    <3>6. ASSUME NEW u \in V, NEW v \in V
          PROVE  links'[u][v] > 0 <=>
                    \/ links[u][v] > 0 /\ ~(u = j /\ v = k) /\ ~(u = k /\ v = j)
                    \/ u = i /\ v = k
                    \/ u = k /\ v = i
      <4>1. CASE u = k /\ v = i
        BY <3>4, <3>5, <4>1
      <4>2. CASE u = i /\ v = k
        BY <3>2, <3>4, <3>5, <4>2
      <4>3. CASE ~(u = k /\ v = i) /\ ~(u = i /\ v = k)
        <5>1. links'[u][v] = cut[u][v]
          BY <3>2, <3>4, <4>3
        <5> QED
          BY <1>3, <4>3, <5>1
      <4> QED
        BY <4>1, <4>2, <4>3
    <3> QED
      BY <3>4, <3>6 DEF IsTriangleStep, IsLists
  <2> QED
    BY <2>1, <2>2
<1>6. crease' \subseteq crease \cup {i}
  BY DEF Snap!Slide
<1>7. PICK new, marked : new = links' /\ marked = crease'
  OBVIOUS
<1>8. /\ Mutual(new, V) /\ KeepsParts(new, given, V) /\ marked \subseteq V
      /\ marked \subseteq WithLinks(new, V) \cup (V \ WithLinks(given, V))
  BY <1>5, <1>6, <1>7, TriangleKeepsGraph
<1> QED
  BY <1>1, <1>5, <1>7, <1>8 DEF SnapGraph

-----------------------------------------------------------------------------
(* Each step of step 5.                                                    *)
(* The steps of the inner loop: what is found ...                          *)
LEMMA FindCandidatesKeeps ==
    ASSUME SnapInv, Snap!FindCandidates
    PROVE  SnapInv'
<1>1. /\ O' = O /\ links' = links /\ crease' = crease /\ given' = given /\ loop' = "snap"
      /\ candidates' = {[t |-> t, height |-> Snap!Height(t[1], t[2], t[3])] : t \in Snap!Triples}
  BY DEF Snap!FindCandidates
<1>2. Snap!Vertices' = Snap!Vertices
  BY <1>1 DEF Snap!Vertices
<1>3. ASSUME NEW c \in candidates'
      PROVE  c.t \in Snap!Vertices \X Snap!Vertices \X Snap!Vertices /\ c.t[3] # c.t[1]
  <2>1. PICK t \in Snap!Triples : c = [t |-> t, height |-> Snap!Height(t[1], t[2], t[3])]
    BY <1>1, <1>3
  <2>2. c.t = t
    BY <2>1
  <2> QED
    BY <2>2 DEF Snap!Triples
<1>4. SnapTypes'
  BY <1>1, <1>2, <1>3 DEF SnapInv, SnapTypes
<1>5. SnapGraph'
  BY <1>1, <1>2 DEF SnapInv, SnapGraph
<1> QED
  BY <1>4, <1>5 DEF SnapInv

(* ... and what is done with it.                                           *)
LEMMA TakeCandidateKeeps ==
    ASSUME SnapInv, Snap!TakeCandidate
    PROVE  SnapInv'
<1> DEFINE V == Snap!Vertices
<1>1. loop = "snap" /\ loop' = "snap" /\ given' = given
  BY DEF Snap!TakeCandidate
<1>2. PICK c \in candidates :
        /\ candidates' = candidates \ {c}
        /\ \/ ~Snap!IsValid(c) /\ UNCHANGED <<O, links, crease, changed, changed_inner>>
           \/ /\ Snap!IsValid(c)
              /\ IF Snap!Near(c.t[1], c.t[2]) THEN Snap!Merge(c.t[1], c.t[2])
                 ELSE IF Snap!Near(c.t[1], c.t[3]) THEN Snap!Merge(c.t[1], c.t[3])
                 ELSE Snap!Slide(c.t[1], c.t[2], c.t[3])
  BY DEF Snap!TakeCandidate
<1>3. PICK i, j, k : i = c.t[1] /\ j = c.t[2] /\ k = c.t[3]
  OBVIOUS
<1>4. i \in V /\ j \in V /\ k \in V /\ i # k
  BY <1>1, <1>3 DEF SnapInv, SnapTypes
<1>5. \A d \in candidates' : d.t \in V \X V \X V /\ d.t[3] # d.t[1]
  BY <1>1, <1>2 DEF SnapInv, SnapTypes
<1>6. IsLists(links, V) /\ IsLists(given, V) /\ Mutual(links, V) /\ DOMAIN links = V
  BY DEF SnapInv, SnapTypes, SnapGraph, IsLists
<1>7. ASSUME DOMAIN O' = DOMAIN O /\ IsLists(links', V) /\ crease' \subseteq V, SnapGraph'
      PROVE  SnapInv'
  <2>1. V' = V
    BY <1>7 DEF Snap!Vertices
  <2> QED
    BY <1>1, <1>5, <1>6, <1>7, <2>1 DEF SnapInv, SnapTypes
<1>8. CASE UNCHANGED <<O, links, crease>>
  <2>1. V' = V
    BY <1>8 DEF Snap!Vertices
  <2> QED
    BY <1>1, <1>5, <1>8, <2>1 DEF SnapInv, SnapTypes, SnapGraph
<1>9. CASE Snap!IsValid(c)
  <2>1. links[i][j] > 0 /\ links[j][k] > 0
    BY <1>3, <1>9 DEF Snap!IsValid, Snap!HasLink
  <2>2. i # j /\ j # k /\ links[j][i] > 0 /\ links[k][j] > 0
    BY <1>4, <1>6, <2>1 DEF Mutual
  <2>3. \A part \in SUBSET V : Snap!Closed(links, part) =>
            (i \in part <=> j \in part) /\ (i \in part <=> k \in part)
    BY <1>4, <1>6, <2>1, <2>2 DEF Snap!Closed
  <2>4. CASE Snap!Merge(i, j)
    <3>1. \E t \in V \ {i, j} : links[i][t] > 0 \/ links[j][t] > 0
      BY <1>4, <2>1, <2>2
    <3> QED
      BY <1>1, <1>4, <1>6, <1>7, <2>2, <2>3, <2>4, <3>1, MergeKeepsGraph
  <2>5. CASE Snap!Merge(i, k)
    <3>1. \E t \in V \ {i, k} : links[i][t] > 0 \/ links[k][t] > 0
      BY <1>4, <2>1, <2>2
    <3> QED
      BY <1>1, <1>4, <1>6, <1>7, <2>2, <2>3, <2>5, <3>1, MergeKeepsGraph
  <2>6. CASE Snap!Slide(i, j, k)
    BY <1>1, <1>4, <1>7, <2>1, <2>2, <2>6, SlideKeepsGraph
  <2> QED
    BY <1>2, <1>3, <1>8, <1>9, <2>4, <2>5, <2>6
<1> QED
  BY <1>2, <1>8, <1>9

(* The same for the diagonals.                                             *)
LEMMA FindDiagonalsKeeps ==
    ASSUME SnapInv, NEW sides, Snap!FindDiagonals(sides)
    PROVE  SnapInv'
<1>1. /\ O' = O /\ links' = links /\ crease' = crease /\ given' = given /\ loop' = "remove"
      /\ candidates' \subseteq Snap!Vertices \X Snap!Vertices
  BY DEF Snap!FindDiagonals
<1>2. Snap!Vertices' = Snap!Vertices
  BY <1>1 DEF Snap!Vertices
<1> QED
  BY <1>1, <1>2 DEF SnapInv, SnapTypes, SnapGraph

(* The cardinality that Snapping uses is the usual one.                    *)
LEMMA SnapCardinality == \A set : Snap!Cardinality(set) = Cardinality(set)
BY DEF Cardinality, Snap!Cardinality

(* A side of two triangles is one of a triangle. *)
LEMMA DiagonalHasTriangle ==
    ASSUME NEW i \in Snap!Vertices, NEW j \in Snap!Vertices, IsLists(links, Snap!Vertices),
           Snap!Triangles(i, j) = 2
    PROVE  \E k \in Snap!Vertices \ {j} : links[j][k] > 0 /\ links[i][k] > 0
<1> DEFINE both == {v \in Snap!Vertices \ {j} : Snap!HasLink(j, v)}
           sides == UNION {{k} \X (1 .. links[i][k]) : k \in both}
<1>1. Cardinality(sides) = 2
  BY SnapCardinality DEF Snap!Triangles
<1>2. sides # {}
  BY <1>1, FS_EmptySet
<1>3. PICK k \in both : {k} \X (1 .. links[i][k]) # {}
  BY <1>2
<1>4. links[i][k] \in Nat
  BY DEF IsLists
<1>5. links[i][k] > 0
  BY <1>3, <1>4
<1> QED
  BY <1>5 DEF Snap!HasLink

(* A diagonal that goes leaves the third vertex of a triangle on the way.  *)
LEMMA TakeDiagonalKeeps ==
    ASSUME SnapInv, Snap!TakeDiagonal
    PROVE  SnapInv'
<1> DEFINE V == Snap!Vertices
<1>1. loop = "remove" /\ loop' = "remove" /\ given' = given /\ O' = O /\ crease' = crease
  BY DEF Snap!TakeDiagonal
<1>2. PICK p \in candidates :
        /\ candidates' = candidates \ {p}
        /\ IF Snap!Triangles(p[1], p[2]) = 2 THEN links' = Snap!Cut(p[1], p[2])
           ELSE UNCHANGED links
  BY DEF Snap!TakeDiagonal
<1>3. V' = V
  BY <1>1 DEF Snap!Vertices
<1>4. p \in V \X V /\ candidates' \subseteq V \X V
  BY <1>1, <1>2 DEF SnapInv, SnapTypes
<1>5. CASE UNCHANGED links
  BY <1>1, <1>3, <1>4, <1>5 DEF SnapInv, SnapTypes, SnapGraph
<1>6. CASE Snap!Triangles(p[1], p[2]) = 2
  <2>1. PICK i, j : i = p[1] /\ j = p[2]
    OBVIOUS
  <2>2. i \in V /\ j \in V /\ links' = Snap!Cut(i, j) /\ Snap!Triangles(i, j) = 2
    BY <1>2, <1>4, <1>6, <2>1
  <2>3. IsLists(links, V) /\ Mutual(links, V)
    BY DEF SnapInv, SnapTypes, SnapGraph
  <2>4. PICK k \in V \ {j} : links[j][k] > 0 /\ links[i][k] > 0
    BY <2>2, <2>3, DiagonalHasTriangle
  <2>5. /\ IsLists(links', V)
        /\ \A u, v \in V : links'[u][v] = IF (u = i /\ v = j) \/ (u = j /\ v = i) THEN 0 ELSE links[u][v]
    BY <2>2, <2>3, CutIs
  <2>6. k # i /\ links[k][i] > 0 /\ links[k][j] > 0
    BY <2>2, <2>3, <2>4 DEF Mutual
  <2>7. CASE i = j
    <3>1. links' = links
      <4>1. \A u, v \in V : links'[u][v] = links[u][v]
        <5>1. ASSUME NEW u \in V, NEW v \in V
              PROVE  links'[u][v] = links[u][v]
          <6>1. CASE u = i /\ v = i
            <7>1. links[i][i] \in Nat /\ ~(links[i][i] > 0)
              BY <2>2, <2>3 DEF Mutual, IsLists
            <7> QED
              BY <2>5, <2>7, <6>1, <7>1
          <6> QED
            BY <2>5, <2>7, <6>1
        <5> QED
          BY <5>1
      <4> QED
        BY <2>3, <2>5, <4>1 DEF IsLists
    <3> QED
      BY <1>5, <3>1
  <2>8. CASE i # j
    <3>1. IsTriangleStep(links, links', V, k, i, j)
      BY <2>2, <2>4, <2>5, <2>6, <2>8 DEF IsTriangleStep
    <3>2. PICK new : new = links'
      OBVIOUS
    <3>3. Mutual(new, V) /\ KeepsParts(new, given, V) /\ crease \subseteq V
          /\ crease \subseteq WithLinks(new, V) \cup (V \ WithLinks(given, V))
      BY <2>5, <3>1, <3>2, TriangleKeepsGraph
    <3> QED
      BY <1>1, <1>3, <1>4, <2>5, <3>2, <3>3 DEF SnapInv, SnapTypes, SnapGraph
  <2> QED
    BY <2>7, <2>8
<1> QED
  BY <1>2, <1>5, <1>6

(* All of step 5.                                                          *)
LEMMA SnapStepKeeps ==
    ASSUME SnapInv, NEW sides, Snap!SnapStep(sides)
    PROVE  SnapInv'
<1>1. CASE Snap!FindAgain \/ Snap!StartAgain(sides)
  <2>1. O' = O /\ links' = links /\ crease' = crease /\ given' = given /\ loop' = "find"
    BY <1>1 DEF Snap!FindAgain, Snap!StartAgain
  <2>2. Snap!Vertices' = Snap!Vertices
    BY <2>1 DEF Snap!Vertices
  <2> QED
    BY <2>1, <2>2 DEF SnapInv, SnapTypes, SnapGraph
<1> QED
  BY <1>1, FindCandidatesKeeps, TakeCandidateKeeps, FindDiagonalsKeeps, TakeDiagonalKeeps DEF Snap!SnapStep

-----------------------------------------------------------------------------
(* The graph of steps 1 to 4 is one to snap.  Every number that step 3 has *)
(* given is one of a vertex.                                               *)
MapInv == phase \in {"relabel", "clean", "done"} => \A a \in DOMAIN vertex_map : vertex_map[a] \in Vertices

(* There are no more clusters than vertices.                               *)
LEMMA VerticesAreIds ==
    ASSUME TypeOK
    PROVE  Vertices \subseteq Ids
<1>1. DOMAIN vertex_map \subseteq Ids /\ IsFiniteSet(Ids)
  BY IdsAssumption DEF TypeOK
<1>2. Cardinality(DOMAIN vertex_map) <= Cardinality(Ids)
  BY <1>1, FS_Subset
<1>3. Cardinality(DOMAIN vertex_map) \in Nat /\ Cardinality(Ids) \in Nat
  BY <1>1, FS_Subset, FS_CardinalityType
<1> QED
  BY <1>2, <1>3, IdsAssumption DEF Vertices

(* Step 5 starts with what was handed over.                                *)
LEMMA AssignPositionsStarts ==
    ASSUME IInv, MapInv, AssignPositions
    PROVE  SnapInv'
<1>1. TypeOK /\ OutputIsAGraph /\ phase = "done"
  BY DEF IInv, Frame, OutputInv, AssignPositions
<1>2. PICK placed \in Placements, crease_in \in Creases :
        /\ O' = [n \in Vertices |-> placed[n]]
        /\ links' = Lists /\ given' = Lists /\ crease' = CreaseOut(crease_in)
        /\ loop' = "find"
  BY DEF AssignPositions
<1>3. Snap!Vertices' = Vertices
  BY <1>2 DEF Snap!Vertices
<1>4. IsLists(Lists, Vertices) /\ \A n, k \in Vertices : Lists[n][k] > 0 <=> k \in adj_new[n]
  BY DEF Lists, IsLists
<1>5. Mutual(Lists, Vertices)
  <2>1. \A n \in Vertices : \A k \in adj_new[n] : k # n /\ n \in adj_new[k]
    BY <1>1, VerticesAreIds DEF OutputIsAGraph
  <2> QED
    BY <1>4, <2>1 DEF Mutual
<1>6. KeepsParts(Lists, Lists, Vertices)
  BY DEF KeepsParts, Snap!Connected
<1>7. crease' \subseteq Vertices
  BY <1>1, <1>2 DEF CreaseOut, MapInv
<1>8. PICK lists : lists = Lists
  OBVIOUS
<1>9. SnapTypes'
  BY <1>2, <1>3, <1>4, <1>7, <1>8 DEF SnapTypes
<1>10. SnapGraph'
  BY <1>2, <1>3, <1>5, <1>6, <1>7, <1>8 DEF SnapGraph
<1> QED
  BY <1>9, <1>10 DEF SnapInv

(* Up to step 4, and from step 5 on. *)
GraphInv == IInv /\ MapInv /\ (snapping => phase = "done" /\ SnapInv)

(* Every step of extract_graph up to step 5 keeps the invariant.           *)
LEMMA GraphInvNext ==
    ASSUME GraphInv, [ExtractGraphNext]_allvars
    PROVE  GraphInv'
<1>1. IInv /\ MapInv /\ (snapping => phase = "done" /\ SnapInv)
  BY DEF GraphInv
<1>2. [Next]_vars
  BY DEF ExtractGraphNext, Collapsing, AssignPositions, SnapStep, Snapped, allvars
<1>3. IInv'
  BY <1>1, <1>2, FrameNext, ApartNext, TakenNext, CountNext, OutputNext DEF IInv
<1>4. CASE Collapsing
  <2>1. ~snapping /\ ~snapping' /\ Next /\ phase # "done"
    BY <1>1, <1>4 DEF Collapsing
  <2>2. ASSUME phase' \in {"relabel", "clean"}
        PROVE  MapInv'
    <3>1. Numbered'
      BY <1>3, <2>2 DEF IInv, OutputInv, NumberInv
    <3>2. \A a \in DOMAIN vertex_map' : vertex_map'[a] \in Vertices'
      BY <3>1 DEF Numbered
    <3> QED
      BY <3>2 DEF MapInv
  <2>3. ASSUME phase' = "done"
        PROVE  MapInv'
    <3>1. phase = "clean" /\ vertex_map' = vertex_map
      BY <2>1, <2>3 DEF Next, Worker, TakeVertex, SameLink, NextLink, Push, VertexDone, TakeEdge, LockFirst, LockSecond,
         Release, Check, Skip, Gather, Merge, Unite, UnlockTarget, NextPhase, Assign, Relabel, Clean, Finished
    <3>2. \A a \in DOMAIN vertex_map : vertex_map[a] \in Vertices
      BY <1>1, <3>1 DEF MapInv
    <3>3. Vertices' = Vertices
      BY <3>1 DEF Vertices
    <3> QED
      BY <3>1, <3>2, <3>3 DEF MapInv
  <2>4. ASSUME phase' \notin {"relabel", "clean", "done"}
        PROVE  MapInv'
    BY <2>4 DEF MapInv
  <2>5. MapInv'
    BY <2>2, <2>3, <2>4
  <2> QED
    BY <1>3, <2>1, <2>5 DEF GraphInv
<1>5. CASE AssignPositions
  <2>1. phase = "done" /\ UNCHANGED vars
    BY <1>5 DEF AssignPositions
  <2>2. MapInv' /\ phase' = "done"
    BY <1>1, <2>1 DEF MapInv, Vertices, vars
  <2>3. SnapInv'
    BY <1>1, <1>5, AssignPositionsStarts
  <2> QED
    BY <1>3, <2>2, <2>3 DEF GraphInv
<1>6. CASE SnapStep
  <2>1. snapping /\ Snap!SnapStep(posy) /\ UNCHANGED <<vars, snapping>>
    BY <1>6 DEF SnapStep
  <2>2. MapInv' /\ phase' = "done"
    BY <1>1, <2>1 DEF MapInv, Vertices, vars
  <2>3. SnapInv'
    BY <1>1, <2>1, SnapStepKeeps
  <2> QED
    BY <1>3, <2>2, <2>3 DEF GraphInv
<1>7. CASE Snapped \/ UNCHANGED allvars
  <2>1. UNCHANGED <<vars, snapping, O, links, crease, loop, candidates, given>>
    BY <1>7 DEF Snapped, allvars, snapvars
  <2>2. MapInv' /\ phase' = phase
    BY <1>1, <2>1 DEF MapInv, Vertices, vars
  <2>3. SnapInv => SnapInv'
    BY <2>1 DEF SnapInv, SnapTypes, SnapGraph, Snap!Vertices
  <2> QED
    BY <1>1, <1>3, <2>1, <2>2, <2>3 DEF GraphInv
<1> QED
  BY <1>4, <1>5, <1>6, <1>7 DEF ExtractGraphNext

(* Whatever mesh and however many threads collapse it, wherever the        *)
(* clusters lie and whatever is marked: what step 5 is given is a graph,   *)
(* and it keeps its links mutual, its parts, and the creases on vertices   *)
(* that are left (extract.cpp:66-257, 268-295, 323-499).                   *)
THEOREM SnappingIsSafe == ExtractGraphSpec => []GraphIsKept
<1>1. ExtractGraphInit => GraphInv
  <2>1. Init => IInv
    BY FrameInit, ApartInit, TakenInit, CountInit, OutputInit DEF IInv
  <2> QED
    BY <2>1 DEF ExtractGraphInit, Init, MapInv, GraphInv
<1>2. GraphInv /\ [ExtractGraphNext]_allvars => GraphInv'
  BY GraphInvNext
<1>3. GraphInv => GraphIsKept
  BY SnapInvSuffices DEF GraphInv, GraphIsKept
<1> QED
  BY <1>1, <1>2, <1>3, PTL DEF ExtractGraphSpec
=============================================================================
