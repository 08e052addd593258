------------------------- MODULE LevelColoringProofs -------------------------
(***************************************************************************)
(* Proofs about GraphColoring and LevelColoring, for every graph (its      *)
(* links may be one-way, and its lists may name any vertex twice, the one  *)
(* they belong to included), every set of threads and every number of      *)
(* colours.                                                                *)
(*                                                                         *)
(* Why two neighbours never get the same colour: while a worker chooses,   *)
(* it holds the mutexes of the whole neighbourhood (HoldsNeighborhood),    *)
(* so the colours it has read are still those of the neighbours            *)
(* (SeesNeighbors) when it excludes them; and as all of them are below its *)
(* number of colours (KnowsUsed), a new colour is excluded by none.        *)
(*                                                                         *)
(* Why nobody waits in a circle: the mutexes a worker holds are below the  *)
(* one it waits for (Ascending), but for one case, in which it waits for   *)
(* the mutex it has just locked (IsPassed): it met a doubled entry.  That  *)
(* worker never returns, and no assumption keeps it out.                   *)
(*                                                                         *)
(* What is shown of the second loop alone holds of generate_graph_coloring *)
(* as a whole.  The two loops share the mutexes.  While the first one runs *)
(* the second has not begun (NotBegun), and a mutex is held by a thread    *)
(* that is between its lock and its unlock (SwapHolds), so that all are    *)
(* free when the second begins and it starts as GraphColoring does.  The   *)
(* shuffle keeps a permutation because a thread that has saved perm[j]     *)
(* holds both mutexes (SwapLocks): nobody else writes the entry            *)
(* (SwapSaved), and no two half-done swaps have an entry in common.        *)
(***************************************************************************)
EXTENDS LevelColoring, FiniteSetTheorems, NaturalsInduction, WellFoundedInduction, TLAPS

(* A worker in its first loop holds what it has passed, later everything,  *)
(* and in the last loop what is left.                                      *)
HoldsNeighborhood ==
    \A w \in Workers :
        /\ pc[w] \in {"lock", "read", "choose"} => cur[w] \in Vertices
        /\ pc[w] = "lock" => \A v \in Closed(cur[w]) \ left[w] : mutex[v] = w
        /\ pc[w] \in {"read", "choose"} => \A v \in Closed(cur[w]) : mutex[v] = w
        /\ pc[w] = "unlock" => left[w] # {} /\ \A v \in left[w] : mutex[v] = w

(* The neighbours that were read are excluded with the colour they have.   *)
SeesNeighbors ==
    \A w \in Workers :
        /\ pc[w] = "read" =>
             \A u \in Adj[cur[w]] \ left[w] : color[u] \in used[w] \cup {Uncolored}
        /\ pc[w] = "choose" =>
             \A u \in Adj[cur[w]] : color[u] \in used[w] \cup {Uncolored}

(* The excluded colours are among the known ones. *)
KnowsUsed ==
    \A w \in Workers :
        pc[w] \in {"lock", "read", "choose"} =>
            \A c \in used[w] : c < Len(data[w])

(* The neighbours that are left to be read are neighbours. *)
ReadsNeighbors ==
    \A w \in Workers : pc[w] = "read" => left[w] \subseteq Adj[cur[w]]

IInv == TypeOK /\ HoldsNeighborhood /\ SeesNeighbors /\ KnowsUsed /\ ReadsNeighbors /\ ProperColoring

-----------------------------------------------------------------------------
(* The helpers.                                                            *)

(* Least picks an element of a non-empty set of numbers, and a smallest    *)
(* one.                                                                    *)
LEMMA LeastIsLeast ==
    ASSUME NEW S \in SUBSET Nat, S # {}
    PROVE  Least(S) \in S /\ \A y \in S : Least(S) <= y
<1>1. \E x \in S : \A y \in S : ~(<<y, x>> \in OpToRel(<, Nat))
  BY NatLessThanWellFounded, WFMin, Zenon
<1>2. PICK x \in S : \A y \in S : ~(<<y, x>> \in OpToRel(<, Nat))
  BY <1>1
<1>3. ASSUME NEW y \in S
      PROVE  ~(y < x)
  BY <1>2, <<y, x>> \in Nat \X Nat, Zenon DEF OpToRel
<1>4. \A y \in S : x <= y
  BY <1>3
<1> QED
  BY <1>4 DEF Least

(* A ColorData that is extended stays one, of the expected length.         *)
LEMMA ExtendIsData ==
    ASSUME NEW d \in Seq(Nat), NEW n \in Nat
    PROVE  /\ Extend(d, n) \in Seq(Nat)
           /\ Len(Extend(d, n)) = IF Len(d) < n THEN n ELSE Len(d)
<1> DEFINE m == IF Len(d) < n THEN n ELSE Len(d)
<1>1. m \in Nat
  OBVIOUS
<1>2. Extend(d, n) \in [1 .. m -> Nat]
  BY DEF Extend
<1> QED
  BY <1>1, <1>2 DEF Extend

(* Counting one colour leaves a sequence that reaches as far as the        *)
(* colour.                                                                 *)
LEMMA CountOneIsData ==
    ASSUME NEW d \in Seq(Nat), NEW c \in Nat
    PROVE  /\ CountOne(d, c) \in Seq(Nat)
           /\ Len(CountOne(d, c)) = Len(Extend(d, c + 1))
<1> DEFINE e == Extend(d, c + 1)
<1>1. e \in Seq(Nat) /\ Len(e) \in Nat /\ DOMAIN e = 1 .. Len(e)
  BY ExtendIsData
<1>2. \A i \in DOMAIN e : e[i] \in Nat
  BY <1>1
<1>3. CountOne(d, c) \in [1 .. Len(e) -> Nat]
  BY <1>1, <1>2 DEF CountOne
<1>4. ASSUME NEW n \in Nat, NEW g \in [1 .. n -> Nat]
      PROVE  g \in Seq(Nat) /\ Len(g) = n
  OBVIOUS
<1> QED
  BY <1>1, <1>3, <1>4

(* Joined counts reach as far as the longer of the two. *)
LEMMA JoinIsData ==
    ASSUME NEW d \in Seq(Nat), NEW e \in Seq(Nat)
    PROVE  /\ JoinData(d, e) \in Seq(Nat)
           /\ Len(JoinData(d, e)) = IF Len(d) < Len(e) THEN Len(e) ELSE Len(d)
<1> DEFINE m == IF Len(d) < Len(e) THEN Len(e) ELSE Len(d)
<1>1. m \in Nat
  OBVIOUS
<1>2. JoinData(d, e) \in [1 .. m -> Nat]
  BY DEF JoinData
<1> QED
  BY <1>1, <1>2 DEF JoinData

(* The chosen colour is a new one or a known one, and not an excluded one. *)
LEMMA ChoiceIsFree ==
    ASSUME TypeOK, KnowsUsed, NEW w \in Workers, pc[w] = "choose"
    PROVE  /\ Choice(w) \in 0 .. Len(data[w])
           /\ Choice(w) \notin used[w]
           /\ ~OutOfColors(w) => Choice(w) \in Colors
<1>1. /\ data[w] \in Seq(Nat) /\ Len(data[w]) \in Nat /\ Len(data[w]) <= ColorLimit
      /\ ColorLimit \in Nat
  BY ColorLimitAssumption DEF TypeOK
<1>2. CASE Possible(w) # {}
  <2>1. Possible(w) \subseteq Nat
    BY <1>1 DEF Possible
  <2>2. Choice(w) \in Possible(w)
    BY <1>2, <2>1, LeastIsLeast DEF Choice
  <2>3. Choice(w) \in 0 .. Len(data[w]) - 1 /\ Choice(w) \notin used[w]
    BY <2>2 DEF Possible
  <2> QED
    BY <1>1, <2>3 DEF Colors
<1>3. CASE Possible(w) = {}
  <2>1. Choice(w) = Len(data[w])
    BY <1>3 DEF Choice
  <2>2. Len(data[w]) \notin used[w]
    BY <1>1 DEF KnowsUsed
  <2> QED
    BY <1>1, <1>3, <2>1, <2>2 DEF OutOfColors, Colors
<1> QED
  BY <1>2, <1>3

-----------------------------------------------------------------------------
(* The invariant.                                                          *)

(* The invariant holds in the beginning, and after every step: one lemma   *)
(* for each.                                                               *)
LEMMA InitInvariant == Init => IInv
<1> SUFFICES ASSUME Init PROVE IInv
  OBVIOUS
<1>1. TypeOK
  BY ColorLimitAssumption DEF Init, TypeOK, Pcs
<1> QED
  BY <1>1 DEF Init, IInv, HoldsNeighborhood, SeesNeighbors, KnowsUsed, ReadsNeighbors,
     ProperColoring

(* A worker takes a vertex (hierarchy.cpp:323). *)
LEMMA TakeInvariant ==
    ASSUME IInv, NEW w \in Workers, Take(w)
    PROVE  IInv'
<1>1. PICK v \in todo : cur'[w] = v /\ left'[w] = Closed(v) /\ pc'[w] = "lock" /\ used'[w] = {}
               /\ todo' = todo \ {v}
               /\ cur' = [cur EXCEPT ![w] = v]
               /\ left' = [left EXCEPT ![w] = Closed(v)]
  BY DEF Take, IInv, TypeOK
<1>2. v \in Vertices /\ Closed(v) \subseteq Vertices
  BY <1>1, AdjAssumption DEF IInv, TypeOK, Closed
<1>3. TypeOK'
  BY <1>1, <1>2 DEF Take, IInv, TypeOK, Pcs
<1>4. \A x \in Workers \ {w} : /\ pc'[x] = pc[x] /\ cur'[x] = cur[x]
                               /\ left'[x] = left[x] /\ used'[x] = used[x]
  BY <1>1 DEF Take, IInv, TypeOK
<1>5. UNCHANGED <<color, mutex, data>>
  BY DEF Take
<1>6. HoldsNeighborhood'
  BY <1>1, <1>2, <1>4, <1>5 DEF IInv, HoldsNeighborhood, Closed
<1>7. SeesNeighbors'
  BY <1>1, <1>4, <1>5 DEF IInv, SeesNeighbors
<1>8. KnowsUsed'
  BY <1>1, <1>4, <1>5 DEF IInv, KnowsUsed
<1>9. ProperColoring'
  BY <1>5 DEF IInv, ProperColoring
<1>10. ReadsNeighbors'
  BY <1>1, <1>4, <1>5 DEF IInv, ReadsNeighbors
<1> QED
  BY <1>3, <1>6, <1>7, <1>8, <1>9, <1>10 DEF IInv

(* It locks the next of the neighborhood (hierarchy.cpp:329). *)
LEMMA LockInvariant ==
    ASSUME IInv, NEW w \in Workers, Lock(w)
    PROVE  IInv'
<1>0. cur[w] \in Vertices /\ left[w] \subseteq Vertices /\ Adj[cur[w]] \subseteq Vertices
      /\ Closed(cur[w]) \subseteq Vertices
  <2>1. cur[w] \in Vertices
    BY DEF IInv, HoldsNeighborhood, Lock
  <2>2. left[w] \subseteq Vertices
    BY DEF IInv, TypeOK
  <2> QED
    BY <2>1, <2>2, AdjAssumption DEF Closed
<1>1. PICK v \in NextToLock(w) :
        /\ mutex[v] = Nobody
        /\ mutex' = [mutex EXCEPT ![v] = w]
        /\ \/ UNCHANGED <<left, pc>>
           \/ /\ left[w] # {v}
              /\ left' = [left EXCEPT ![w] = left[w] \ {v}]
              /\ UNCHANGED pc
           \/ /\ left[w] = {v}
              /\ left' = [left EXCEPT ![w] = Adj[cur[w]]]
              /\ pc' = [pc EXCEPT ![w] = IF Adj[cur[w]] = {} THEN "choose" ELSE "read"]
  BY DEF Lock
<1>2. UNCHANGED <<doubled, color, todo, cur, used, data, total, phases>> /\ pc[w] = "lock"
  BY DEF Lock
<1>3. TypeOK'
  BY <1>0, <1>1, <1>2 DEF IInv, TypeOK, Pcs
<1>4. \A x \in Workers \ {w} : pc'[x] = pc[x] /\ left'[x] = left[x]
  BY <1>1 DEF IInv, TypeOK
<1>5. ASSUME NEW x \in Workers, NEW u \in Vertices, mutex[u] = x
      PROVE  mutex'[u] = x
  BY <1>1, <1>5, NobodyAssumption DEF IInv, TypeOK
<1>6. \A u \in Closed(cur[w]) : u \notin left[w] \/ u = v => mutex'[u] = w
  BY <1>0, <1>1, <1>2, <1>5 DEF IInv, TypeOK, HoldsNeighborhood
<1>7. CASE /\ left[w] = {v}
           /\ left' = [left EXCEPT ![w] = Adj[cur[w]]]
           /\ pc' = [pc EXCEPT ![w] = IF Adj[cur[w]] = {} THEN "choose" ELSE "read"]
  <2>1. pc'[w] = (IF Adj[cur[w]] = {} THEN "choose" ELSE "read") /\ left'[w] = Adj[cur[w]]
    BY <1>1, <1>7 DEF IInv, TypeOK
  <2>2. \A u \in Closed(cur[w]) : mutex'[u] = w
    BY <1>6, <1>7
  <2>3. ASSUME NEW x \in Workers \ {w}
        PROVE  /\ pc'[x] \in {"lock", "read", "choose"} => cur'[x] \in Vertices
               /\ pc'[x] = "lock" => \A u \in Closed(cur'[x]) \ left'[x] : mutex'[u] = x
               /\ pc'[x] \in {"read", "choose"} => \A u \in Closed(cur'[x]) : mutex'[u] = x
               /\ pc'[x] = "unlock" => left'[x] # {} /\ \A u \in left'[x] : mutex'[u] = x
    <3>1. left[x] \subseteq Vertices /\ (cur[x] \in Vertices => Closed(cur[x]) \subseteq Vertices)
      BY AdjAssumption DEF Closed, IInv, TypeOK
    <3> QED
      BY <1>2, <1>4, <1>5, <3>1 DEF IInv, HoldsNeighborhood
  <2>4. HoldsNeighborhood'
    BY <1>0, <1>2, <2>1, <2>2, <2>3 DEF HoldsNeighborhood
  <2>5. SeesNeighbors'
    BY <1>2, <1>4, <2>1 DEF IInv, SeesNeighbors
  <2>6. KnowsUsed'
    BY <1>2, <1>4 DEF IInv, KnowsUsed
  <2>7. ReadsNeighbors'
    BY <1>2, <1>4, <2>1 DEF IInv, ReadsNeighbors
  <2> QED
    BY <1>2, <1>3, <2>4, <2>5, <2>6, <2>7 DEF IInv, ProperColoring
<1>8. CASE pc' = pc /\ (left' = left \/ left' = [left EXCEPT ![w] = left[w] \ {v}])
  <2>1. pc' = pc /\ (left'[w] = left[w] \/ left'[w] = left[w] \ {v})
    BY <1>8 DEF IInv, TypeOK
  <2>2. ASSUME NEW x \in Workers
        PROVE  /\ pc'[x] \in {"lock", "read", "choose"} => cur'[x] \in Vertices
               /\ pc'[x] = "lock" => \A u \in Closed(cur'[x]) \ left'[x] : mutex'[u] = x
               /\ pc'[x] \in {"read", "choose"} => \A u \in Closed(cur'[x]) : mutex'[u] = x
               /\ pc'[x] = "unlock" => left'[x] # {} /\ \A u \in left'[x] : mutex'[u] = x
    <3>1. left[x] \subseteq Vertices /\ (cur[x] \in Vertices => Closed(cur[x]) \subseteq Vertices)
      BY AdjAssumption DEF Closed, IInv, TypeOK
    <3>2. CASE x = w
      BY <1>0, <1>2, <1>6, <2>1, <3>2
    <3>3. CASE x # w
      BY <1>2, <1>4, <1>5, <3>1, <3>3 DEF IInv, HoldsNeighborhood
    <3> QED
      BY <3>2, <3>3
  <2>3. HoldsNeighborhood'
    BY <2>2 DEF HoldsNeighborhood
  <2>4. SeesNeighbors'
    BY <1>2, <1>4, <2>1 DEF IInv, SeesNeighbors
  <2>5. KnowsUsed'
    BY <1>2, <2>1 DEF IInv, KnowsUsed
  <2>6. ReadsNeighbors'
    BY <1>2, <1>4, <2>1 DEF IInv, ReadsNeighbors
  <2> QED
    BY <1>2, <1>3, <2>3, <2>4, <2>5, <2>6 DEF IInv, ProperColoring
<1> QED
  BY <1>1, <1>7, <1>8

(* It reads a neighbor (hierarchy.cpp:333-342). *)
LEMMA ReadInvariant ==
    ASSUME IInv, NEW w \in Workers, Read(w)
    PROVE  IInv'
<1>1. PICK u \in left[w] :
        /\ IF color[u] = Uncolored
           THEN UNCHANGED <<used, data>>
           ELSE /\ used' = [used EXCEPT ![w] = used[w] \cup {color[u]}]
                /\ data' = [data EXCEPT ![w] = Extend(data[w], color[u] + 1)]
        /\ left' = [left EXCEPT ![w] = left[w] \ {u}]
        /\ pc' = [pc EXCEPT ![w] = IF left[w] = {u} THEN "choose" ELSE "read"]
  BY DEF Read
<1>2. UNCHANGED <<doubled, color, mutex, todo, cur, total, phases>> /\ pc[w] = "read"
  BY DEF Read
<1>3. u \in Vertices /\ (color[u] # Uncolored => color[u] \in Colors)
  BY <1>1 DEF IInv, TypeOK
<1>4. /\ data'[w] \in Seq(Nat) /\ Len(data'[w]) <= ColorLimit
      /\ Len(data[w]) <= Len(data'[w])
      /\ color[u] # Uncolored => color[u] < Len(data'[w])
  <2>1. data[w] \in Seq(Nat) /\ Len(data[w]) <= ColorLimit /\ ColorLimit \in Nat
    BY ColorLimitAssumption DEF IInv, TypeOK
  <2>2. CASE color[u] = Uncolored
    BY <1>1, <2>1, <2>2
  <2>3. CASE color[u] # Uncolored
    <3>1. data'[w] = Extend(data[w], color[u] + 1)
      BY <1>1, <2>3 DEF IInv, TypeOK
    <3>2. color[u] \in Nat /\ color[u] < ColorLimit
      BY <1>3, <2>1, <2>3 DEF Colors
    <3> QED
      BY <2>1, <3>1, <3>2, ExtendIsData
  <2> QED
    BY <2>2, <2>3
<1>5. /\ color[u] \in used'[w] \cup {Uncolored}
      /\ used[w] \subseteq used'[w]
      /\ used'[w] \subseteq used[w] \cup {color[u]}
      /\ used'[w] \subseteq Colors
  BY <1>1, <1>3 DEF IInv, TypeOK
<1>6. \A x \in Workers \ {w} : /\ pc'[x] = pc[x] /\ left'[x] = left[x]
                               /\ used'[x] = used[x] /\ data'[x] = data[x]
  BY <1>1 DEF IInv, TypeOK
<1>7. /\ pc'[w] = (IF left[w] = {u} THEN "choose" ELSE "read")
      /\ left'[w] = left[w] \ {u}
  BY <1>1 DEF IInv, TypeOK
<1>8. TypeOK'
  <2>1. /\ used' \in [Workers -> SUBSET Colors]
        /\ data' \in [Workers -> Seq(Nat)]
        /\ \A x \in Workers : Len(data'[x]) <= ColorLimit
    <3>1. DOMAIN used' = Workers /\ DOMAIN data' = Workers
      BY <1>1 DEF IInv, TypeOK
    <3>2. used' = [x \in Workers |-> used'[x]] /\ data' = [x \in Workers |-> data'[x]]
      BY <1>1 DEF IInv, TypeOK
    <3> QED
      BY <1>4, <1>5, <1>6, <3>2 DEF IInv, TypeOK
  <2>2. pc' \in [Workers -> Pcs] /\ left' \in [Workers -> SUBSET Vertices]
    BY <1>1 DEF IInv, TypeOK, Pcs
  <2> QED
    BY <1>2, <2>1, <2>2 DEF IInv, TypeOK
<1>9. HoldsNeighborhood'
  BY <1>2, <1>6, <1>7 DEF IInv, HoldsNeighborhood
<1>10. SeesNeighbors'
  BY <1>2, <1>5, <1>6, <1>7 DEF IInv, SeesNeighbors
<1>11. KnowsUsed'
  <2>1. \A c \in used'[w] : c < Len(data'[w])
    <3>1. \A c \in used[w] : c < Len(data[w]) /\ c \in Nat
      BY <1>2 DEF IInv, KnowsUsed, TypeOK, Colors
    <3>2. Len(data[w]) \in Nat /\ Len(data'[w]) \in Nat
      BY <1>4 DEF IInv, TypeOK
    <3>3. color[u] = Uncolored => used'[w] = used[w]
      BY <1>1
    <3> QED
      BY <1>4, <1>5, <3>1, <3>2, <3>3
  <2> QED
    BY <1>6, <1>2, <2>1 DEF IInv, KnowsUsed
<1>12. ReadsNeighbors'
  BY <1>2, <1>6, <1>7 DEF IInv, ReadsNeighbors
<1> QED
  BY <1>2, <1>8, <1>9, <1>10, <1>11, <1>12 DEF IInv, ProperColoring

(* While w chooses, its vertex is in no neighbourhood that another worker  *)
(* holds: what the others have read stays true.                            *)
LEMMA ChooseInvariant ==
    ASSUME IInv, NEW w \in Workers, Choose(w)
    PROVE  IInv'
<1> DEFINE v == cur[w]
           c == Choice(w)
<1>1. /\ pc[w] = "choose" /\ ~OutOfColors(w)
      /\ color' = [color EXCEPT ![v] = c]
      /\ data' = [data EXCEPT ![w] = CountOne(data[w], c)]
      /\ left' = [left EXCEPT ![w] = Closed(v)]
      /\ pc' = [pc EXCEPT ![w] = "unlock"]
      /\ UNCHANGED <<doubled, mutex, todo, cur, used, total, phases>>
  BY DEF Choose
<1>2. v \in Vertices /\ Closed(v) \subseteq Vertices /\ mutex[v] = w
  <2>1. v \in Vertices /\ mutex[v] = w
    BY <1>1 DEF IInv, HoldsNeighborhood, Closed
  <2> QED
    BY <2>1, AdjAssumption DEF Closed
<1>3. c \in 0 .. Len(data[w]) /\ c \notin used[w] /\ c \in Colors
  BY <1>1, ChoiceIsFree DEF IInv
<1>4. data'[w] \in Seq(Nat) /\ Len(data'[w]) <= ColorLimit
  <2>1. data[w] \in Seq(Nat) /\ Len(data[w]) \in Nat /\ Len(data[w]) <= ColorLimit
        /\ ColorLimit \in Nat
    BY ColorLimitAssumption DEF IInv, TypeOK
  <2>2. c \in Nat /\ c + 1 <= ColorLimit
    BY <1>3, <2>1 DEF Colors
  <2>3. /\ Extend(data[w], c + 1) \in Seq(Nat)
        /\ Len(Extend(data[w], c + 1)) = IF Len(data[w]) < c + 1 THEN c + 1 ELSE Len(data[w])
    BY <2>1, <2>2, ExtendIsData
  <2>4. data'[w] = CountOne(data[w], c)
    BY <1>1 DEF IInv, TypeOK
  <2>5. /\ CountOne(data[w], c) \in Seq(Nat)
        /\ Len(CountOne(data[w], c)) = Len(Extend(data[w], c + 1))
    BY <2>1, <2>2, CountOneIsData
  <2> QED
    BY <2>1, <2>2, <2>3, <2>4, <2>5
<1>5. \A x \in Workers \ {w} : pc'[x] = pc[x] /\ left'[x] = left[x] /\ data'[x] = data[x]
  BY <1>1 DEF IInv, TypeOK
<1>6. pc'[w] = "unlock"
  BY <1>1 DEF IInv, TypeOK
<1>7. color'[v] = c /\ \A u \in Vertices \ {v} : color'[u] = color[u]
  BY <1>1, <1>2 DEF IInv, TypeOK
<1>8. TypeOK'
  <2>1. color' \in [Vertices -> Colors \cup {Uncolored}]
    BY <1>1, <1>3 DEF IInv, TypeOK
  <2>2. /\ data' \in [Workers -> Seq(Nat)]
        /\ \A x \in Workers : Len(data'[x]) <= ColorLimit
    <3>1. data' = [x \in Workers |-> data'[x]]
      BY <1>1 DEF IInv, TypeOK
    <3> QED
      BY <1>4, <1>5, <3>1 DEF IInv, TypeOK
  <2>3. pc' \in [Workers -> Pcs] /\ left' \in [Workers -> SUBSET Vertices]
    BY <1>1, <1>2 DEF IInv, TypeOK, Pcs
  <2> QED
    BY <1>1, <2>1, <2>2, <2>3 DEF IInv, TypeOK
<1>9. HoldsNeighborhood'
  <2>1. \A u \in Closed(v) : mutex'[u] = w
    BY <1>1 DEF IInv, HoldsNeighborhood
  <2>2. left'[w] = Closed(v) /\ Closed(v) # {}
    BY <1>1 DEF IInv, TypeOK, Closed
  <2>3. ASSUME NEW x \in Workers
        PROVE  /\ pc'[x] \in {"lock", "read", "choose"} => cur'[x] \in Vertices
               /\ pc'[x] = "lock" => \A u \in Closed(cur'[x]) \ left'[x] : mutex'[u] = x
               /\ pc'[x] \in {"read", "choose"} => \A u \in Closed(cur'[x]) : mutex'[u] = x
               /\ pc'[x] = "unlock" => left'[x] # {} /\ \A u \in left'[x] : mutex'[u] = x
    <3>1. CASE x = w
      BY <1>6, <2>1, <2>2, <3>1
    <3>2. CASE x # w
      BY <1>1, <1>5, <3>2 DEF IInv, HoldsNeighborhood
    <3> QED
      BY <3>1, <3>2
  <2> QED
    BY <2>3 DEF HoldsNeighborhood
<1>10. SeesNeighbors'
  <2>1. ASSUME NEW x \in Workers \ {w}, pc[x] \in {"read", "choose"}
        PROVE  cur[x] \in Vertices /\ \A u \in Adj[cur[x]] : u \in Vertices /\ color'[u] = color[u]
    <3>1. cur[x] \in Vertices /\ v \notin Closed(cur[x])
      BY <1>2, <2>1 DEF IInv, HoldsNeighborhood
    <3>2. \A u \in Adj[cur[x]] : u \in Vertices /\ u # v
      BY <3>1, AdjAssumption DEF Closed
    <3> QED
      BY <1>7, <3>1, <3>2
  <2>2. ASSUME NEW x \in Workers
        PROVE  /\ pc'[x] = "read" =>
                    \A u \in Adj[cur'[x]] \ left'[x] : color'[u] \in used'[x] \cup {Uncolored}
               /\ pc'[x] = "choose" =>
                    \A u \in Adj[cur'[x]] : color'[u] \in used'[x] \cup {Uncolored}
    <3>1. CASE x = w
      BY <1>6, <3>1
    <3>2. CASE x # w
      BY <1>1, <1>5, <2>1, <3>2 DEF IInv, SeesNeighbors
    <3> QED
      BY <3>1, <3>2
  <2> QED
    BY <2>2 DEF SeesNeighbors
<1>11. KnowsUsed'
  BY <1>1, <1>5, <1>6 DEF IInv, KnowsUsed
<1>12. ProperColoring'
  <2>1. \A u \in Adj[v] : color[u] # c
    BY <1>1, <1>3, UncoloredAssumption DEF IInv, SeesNeighbors, Colors
  <2>2. v \notin Adj[v]
    BY <1>2, AdjAssumption
  <2>3. ASSUME NEW a \in Vertices, NEW b \in Vertices, a \in Adj[b], b \in Adj[a],
               color'[a] # Uncolored
        PROVE  color'[a] # color'[b]
    <3>1. CASE a = v
      BY <1>7, <2>1, <2>2, <2>3, <3>1
    <3>2. CASE b = v
      BY <1>7, <2>1, <2>2, <2>3, <3>2
    <3>3. CASE a # v /\ b # v
      BY <1>7, <2>3, <3>3 DEF IInv, ProperColoring
    <3> QED
      BY <3>1, <3>2, <3>3
  <2> QED
    BY <2>3 DEF ProperColoring
<1>13. ReadsNeighbors'
  BY <1>1, <1>5, <1>6 DEF IInv, ReadsNeighbors
<1> QED
  BY <1>8, <1>9, <1>10, <1>11, <1>12, <1>13 DEF IInv

(* There is no colour left (hierarchy.cpp:354). *)
LEMMA ThrowInvariant ==
    ASSUME IInv, NEW w \in Workers, Throw(w)
    PROVE  IInv'
<1>1. TypeOK'
  BY DEF Throw, IInv, TypeOK, Pcs
<1>2. \A x \in Workers : pc'[x] = "thrown" \/ pc'[x] = pc[x]
  BY DEF Throw, IInv, TypeOK
<1>3. UNCHANGED <<color, mutex, cur, left, used, data>>
  BY DEF Throw
<1> QED
  BY <1>1, <1>2, <1>3
  DEF IInv, HoldsNeighborhood, SeesNeighbors, KnowsUsed, ReadsNeighbors,
     ProperColoring

(* It unlocks the next of the neighborhood (hierarchy.cpp:364). *)
LEMMA UnlockInvariant ==
    ASSUME IInv, NEW w \in Workers, Unlock(w)
    PROVE  IInv'
<1> DEFINE v == Least(left[w])
<1>1. /\ pc[w] = "unlock"
      /\ mutex' = [mutex EXCEPT ![v] = Nobody]
      /\ left' = [left EXCEPT ![w] = left[w] \ {v}]
      /\ IF left[w] = {v}
         THEN /\ pc' = [pc EXCEPT ![w] = "idle"]
              /\ cur' = [cur EXCEPT ![w] = Nobody]
         ELSE UNCHANGED <<pc, cur>>
      /\ UNCHANGED <<doubled, color, todo, used, data, total, phases>>
  BY DEF Unlock
<1>2. v \in left[w] /\ v \in Vertices /\ mutex[v] = w
  <2>1. left[w] # {} /\ left[w] \subseteq Vertices /\ left[w] \in SUBSET Nat
    BY <1>1, VerticesAssumption DEF IInv, HoldsNeighborhood, TypeOK
  <2>2. v \in left[w]
    BY <2>1, LeastIsLeast
  <2> QED
    BY <1>1, <2>1, <2>2 DEF IInv, HoldsNeighborhood
<1>3. TypeOK'
  BY <1>1, NobodyAssumption DEF IInv, TypeOK, Pcs
<1>4. \A x \in Workers \ {w} : pc'[x] = pc[x] /\ left'[x] = left[x] /\ cur'[x] = cur[x]
  BY <1>1 DEF IInv, TypeOK
<1>5. /\ left'[w] = left[w] \ {v}
      /\ pc'[w] = IF left[w] = {v} THEN "idle" ELSE "unlock"
  BY <1>1 DEF IInv, TypeOK
<1>6. \A u \in Vertices : mutex'[u] = mutex[u] \/ u = v
  BY <1>1 DEF IInv, TypeOK
<1>7. HoldsNeighborhood'
  <2>1. ASSUME NEW x \in Workers
        PROVE  /\ pc'[x] \in {"lock", "read", "choose"} => cur'[x] \in Vertices
               /\ pc'[x] = "lock" => \A u \in Closed(cur'[x]) \ left'[x] : mutex'[u] = x
               /\ pc'[x] \in {"read", "choose"} => \A u \in Closed(cur'[x]) : mutex'[u] = x
               /\ pc'[x] = "unlock" => left'[x] # {} /\ \A u \in left'[x] : mutex'[u] = x
    <3>1. left[x] \subseteq Vertices /\ (cur[x] \in Vertices => Closed(cur[x]) \subseteq Vertices)
      BY AdjAssumption DEF Closed, IInv, TypeOK
    <3>2. CASE x = w
      <4>1. left[w] # {} /\ \A u \in left[w] : mutex[u] = w
        BY <1>1 DEF IInv, HoldsNeighborhood
      <4> QED
        BY <1>2, <1>5, <1>6, <3>1, <3>2, <4>1
    <3>3. CASE x # w
      <4>1. \A u \in Vertices : mutex[u] = x => mutex'[u] = x
        BY <1>2, <1>6, <3>3
      <4> QED
        BY <1>4, <3>1, <3>3, <4>1 DEF IInv, HoldsNeighborhood
    <3> QED
      BY <3>2, <3>3
  <2> QED
    BY <2>1 DEF HoldsNeighborhood
<1>8. SeesNeighbors' /\ KnowsUsed'
  BY <1>1, <1>4, <1>5 DEF IInv, SeesNeighbors, KnowsUsed
<1>9. ReadsNeighbors'
  BY <1>1, <1>4, <1>5 DEF IInv, ReadsNeighbors
<1> QED
  BY <1>1, <1>3, <1>7, <1>8, <1>9 DEF IInv, ProperColoring

(* Two counts are joined (hierarchy.cpp:371). *)
LEMMA JoinInvariant ==
    ASSUME IInv, NEW w \in Workers, Join(w)
    PROVE  IInv'
<1>1. /\ total' = JoinData(total, data[w])
      /\ data' = [data EXCEPT ![w] = << >>]
      /\ pc[w] = "idle"
      /\ UNCHANGED <<doubled, color, mutex, todo, pc, cur, left, used, phases>>
  BY DEF Join
<1>2. total' \in Seq(Nat) /\ Len(total') <= ColorLimit
  <2>1. total \in Seq(Nat) /\ data[w] \in Seq(Nat) /\ Len(total) <= ColorLimit
        /\ Len(data[w]) <= ColorLimit
    BY DEF IInv, TypeOK
  <2> QED
    BY <1>1, <2>1, JoinIsData
<1>3. TypeOK'
  BY <1>1, <1>2, ColorLimitAssumption DEF IInv, TypeOK
<1>4. \A x \in Workers \ {w} : data'[x] = data[x]
  BY <1>1 DEF IInv, TypeOK
<1>5. KnowsUsed'
  BY <1>1, <1>4 DEF IInv, KnowsUsed
<1> QED
  BY <1>1, <1>3, <1>5
  DEF IInv, HoldsNeighborhood, SeesNeighbors, ReadsNeighbors, ProperColoring

(* The vertices are put into their phases (hierarchy.cpp:378-386). *)
LEMMA CollectInvariant ==
    ASSUME IInv, Collect
    PROVE  IInv'
<1>1. phases' = [i \in 1 .. Len(total) |-> {v \in Vertices : color[v] = i - 1}]
  BY DEF Collect
<1>2. phases' \in Seq(SUBSET Vertices)
  <2>1. Len(total) \in Nat
    BY DEF IInv, TypeOK
  <2>2. phases' \in [1 .. Len(total) -> SUBSET Vertices]
    BY <1>1
  <2> QED
    BY <2>1, <2>2
<1> QED
  BY <1>2 DEF Collect, IInv, TypeOK, HoldsNeighborhood, SeesNeighbors, KnowsUsed, ReadsNeighbors,
     ProperColoring

(* Every step keeps the invariant. *)
LEMMA NextInvariant == IInv /\ [Next]_vars => IInv'
<1> SUFFICES ASSUME IInv, [Next]_vars PROVE IInv'
  OBVIOUS
<1>1. CASE UNCHANGED vars
  BY <1>1 DEF vars, IInv, TypeOK, HoldsNeighborhood, SeesNeighbors, KnowsUsed, ReadsNeighbors,
     ProperColoring
<1>2. ASSUME NEW w \in Workers, Worker(w)
      PROVE  IInv'
  BY <1>2, TakeInvariant, LockInvariant, ReadInvariant, ChooseInvariant, ThrowInvariant,
     UnlockInvariant, JoinInvariant DEF Worker
<1>3. CASE Collect
  BY <1>3, CollectInvariant
<1> QED
  BY <1>1, <1>2, <1>3 DEF Next, Spin, Finished

-----------------------------------------------------------------------------
(* The theorems.                                                           *)

(* The inductive invariant, and with it the types, hold in every reachable *)
(* state.                                                                  *)
THEOREM ColoringInvariance == Spec => []IInv
<1>1. Init => IInv
  BY InitInvariant
<1>2. IInv /\ [Next]_vars => IInv'
  BY NextInvariant
<1> QED
  BY <1>1, <1>2, PTL DEF Spec

(* The bounds of TypeOK hold: no colour beyond the last one is ever used   *)
(* (hierarchy.cpp:352-361).                                                *)
THEOREM ColorsAreBounded == Spec => []TypeOK
<1>1. IInv => TypeOK
  BY DEF IInv
<1> QED
  BY <1>1, ColoringInvariance, PTL

(* Whatever the threads do, two vertices linked both ways never have the   *)
(* same colour (hierarchy.cpp:323-361).                                    *)
THEOREM ColoringIsProper == Spec => []ProperColoring
<1>1. IInv => ProperColoring
  BY DEF IInv
<1> QED
  BY <1>1, ColoringInvariance, PTL

-----------------------------------------------------------------------------
(* The refinement of GreedyColoring.                                       *)

(* Every excluded colour is the colour of some neighbour. *)
UsedIsAround ==
    \A w \in Workers :
        /\ pc[w] = "lock" => used[w] = {}
        /\ pc[w] \in {"read", "choose"} => used[w] \subseteq Greedy!ColorsAround(cur[w])

(* A vertex is taken by one worker, once, and has no colour before.        *)
TakenOnce ==
    /\ \A v \in todo : color[v] = Uncolored
    /\ \A w \in Workers : pc[w] \in {"lock", "read", "choose"} => color[cur[w]] = Uncolored
    /\ \A w \in Workers : pc[w] # "idle" => cur[w] \in Vertices \ todo
    /\ \A w, x \in Workers :
          w # x /\ pc[w] # "idle" /\ pc[x] # "idle" => cur[w] # cur[x]

GInv == IInv /\ UsedIsAround /\ TakenOnce

(* The colouring begins as the sequential one. *)
LEMMA InitRefinement == Init => GInv /\ Greedy!Init
<1> SUFFICES ASSUME Init PROVE GInv /\ Greedy!Init
  OBVIOUS
<1>1. UsedIsAround /\ TakenOnce
  BY DEF Init, UsedIsAround, TakenOnce
<1>2. Greedy!Init
  BY DEF Init, Greedy!Init
<1> QED
  BY <1>1, <1>2, InitInvariant DEF GInv

(* Choosing is the only step that colours, and it colours as the           *)
(* sequential algorithm does.                                              *)
LEMMA ChooseIsGreedy ==
    ASSUME GInv, NEW w \in Workers, Choose(w)
    PROVE  Greedy!Next
<1> DEFINE v == cur[w]
           c == Choice(w)
<1>1. /\ pc[w] = "choose" /\ color' = [color EXCEPT ![v] = c]
      /\ v \in Vertices /\ color[v] = Uncolored
  BY DEF Choose, GInv, TakenOnce, IInv, HoldsNeighborhood
<1>2. c \in 0 .. Len(data[w]) /\ c \notin used[w] /\ Len(data[w]) \in Nat
  BY <1>1, ChoiceIsFree DEF GInv, IInv, TypeOK
<1>3. used[w] = Greedy!ColorsAround(v)
  <2>1. used[w] \subseteq Greedy!ColorsAround(v)
    BY <1>1 DEF GInv, UsedIsAround
  <2>2. \A u \in Adj[v] : color[u] \in used[w] \cup {Uncolored}
    BY <1>1 DEF GInv, IInv, SeesNeighbors
  <2> QED
    BY <2>1, <2>2 DEF Greedy!ColorsAround
<1>4. 0 .. c - 1 \subseteq used[w]
  <2>1. ASSUME NEW d \in 0 .. c - 1, d \notin used[w]
        PROVE  FALSE
    <3>1. d \in Possible(w)
      BY <1>2, <2>1 DEF Possible
    <3>2. Possible(w) \in SUBSET Nat
      BY <1>2 DEF Possible
    <3>3. c = Least(Possible(w))
      BY <3>1 DEF Choice
    <3>4. c <= d
      BY <3>1, <3>2, <3>3, LeastIsLeast
    <3> QED
      BY <1>2, <2>1, <3>4
  <2> QED
    BY <2>1
<1>5. c \in {0} \cup {d + 1 : d \in Greedy!ColorsAround(v)}
  <2>1. CASE c = 0
    BY <2>1
  <2>2. CASE c # 0
    <3>1. c - 1 \in 0 .. c - 1 /\ (c - 1) + 1 = c
      BY <1>2, <2>2
    <3> QED
      BY <1>3, <1>4, <3>1
  <2> QED
    BY <2>1, <2>2
<1>6. c \in Greedy!FirstFree(v)
  BY <1>2, <1>3, <1>4, <1>5 DEF Greedy!FirstFree
<1>7. Greedy!ColorVertex(v)
  BY <1>1, <1>6 DEF Greedy!ColorVertex
<1> QED
  BY <1>1, <1>7 DEF Greedy!Next

(* No two workers ever have the same vertex, nor one that is coloured. *)
LEMMA TakenOnceInvariant == GInv /\ [Next]_vars => TakenOnce'
<1> SUFFICES ASSUME GInv, [Next]_vars PROVE TakenOnce'
  OBVIOUS
<1> USE DEF GInv
<1>1. CASE UNCHANGED vars
  BY <1>1 DEF vars, TakenOnce
<1>2. ASSUME NEW w \in Workers, Take(w)
      PROVE  TakenOnce'
  <2>1. PICK v \in todo : /\ todo' = todo \ {v}
                          /\ cur' = [cur EXCEPT ![w] = v]
    BY <1>2 DEF Take
  <2>2. pc' = [pc EXCEPT ![w] = "lock"] /\ UNCHANGED color /\ pc[w] = "idle"
    BY <1>2 DEF Take
  <2>3. todo \subseteq Vertices /\ DOMAIN cur = Workers /\ DOMAIN pc = Workers
    BY DEF IInv, TypeOK
  <2> QED
    BY <2>1, <2>2, <2>3 DEF TakenOnce
<1>3. ASSUME NEW w \in Workers, Choose(w)
      PROVE  TakenOnce'
  <2>1. /\ pc' = [pc EXCEPT ![w] = "unlock"] /\ pc[w] = "choose"
        /\ color' = [color EXCEPT ![cur[w]] = Choice(w)]
        /\ UNCHANGED <<cur, todo>>
    BY <1>3 DEF Choose
  <2>2. /\ todo \subseteq Vertices /\ DOMAIN color = Vertices /\ DOMAIN pc = Workers
        /\ cur[w] \in Vertices \ todo
    BY <2>1 DEF IInv, TypeOK, TakenOnce
  <2>3. \A v \in todo' : color'[v] = Uncolored
    BY <2>1, <2>2 DEF TakenOnce
  <2>4. ASSUME NEW x \in Workers, pc'[x] \in {"lock", "read", "choose"}
        PROVE  color'[cur'[x]] = Uncolored
    <3>1. x # w /\ pc[x] = pc'[x]
      BY <2>1, <2>2, <2>4
    <3>2. cur[x] # cur[w] /\ cur[x] \in Vertices /\ color[cur[x]] = Uncolored
      BY <2>1, <2>4, <3>1 DEF TakenOnce
    <3> QED
      BY <2>1, <2>2, <3>2
  <2>5. \A x \in Workers : pc'[x] # "idle" => pc[x] # "idle"
    BY <2>1, <2>2
  <2> QED
    BY <2>1, <2>3, <2>4, <2>5 DEF TakenOnce
<1>4. ASSUME NEW w \in Workers, Lock(w) \/ Read(w) \/ Throw(w)
      PROVE  TakenOnce'
  <2>1. UNCHANGED <<color, todo, cur>>
    BY <1>4 DEF Lock, Read, Throw
  <2>2. pc[w] \in {"lock", "read", "choose"} /\ \A x \in Workers : x # w => pc'[x] = pc[x]
    BY <1>4 DEF Lock, Read, Throw, IInv, TypeOK
  <2> QED
    BY <2>1, <2>2 DEF TakenOnce
<1>5. ASSUME NEW w \in Workers, Unlock(w)
      PROVE  TakenOnce'
  <2>1. /\ UNCHANGED <<color, todo>> /\ pc[w] = "unlock"
        /\ \/ pc' = [pc EXCEPT ![w] = "idle"] /\ cur' = [cur EXCEPT ![w] = Nobody]
           \/ UNCHANGED <<pc, cur>>
    BY <1>5 DEF Unlock
  <2>2. DOMAIN pc = Workers /\ DOMAIN cur = Workers
    BY DEF IInv, TypeOK
  <2> QED
    BY <2>1, <2>2 DEF TakenOnce
<1>6. ASSUME NEW w \in Workers, Join(w)
      PROVE  TakenOnce'
  BY <1>6 DEF Join, TakenOnce
<1>7. CASE Collect
  BY <1>7 DEF Collect, TakenOnce
<1> QED
  BY <1>1, <1>2, <1>3, <1>4, <1>5, <1>6, <1>7 DEF Next, Worker, Spin, Finished

(* Every colour a worker excludes is that of a neighbor. *)
LEMMA UsedIsAroundInvariant == GInv /\ [Next]_vars => UsedIsAround'
<1> SUFFICES ASSUME GInv, [Next]_vars PROVE UsedIsAround'
  OBVIOUS
<1> USE DEF GInv
<1>1. CASE UNCHANGED vars
  BY <1>1 DEF vars, UsedIsAround, Greedy!ColorsAround
<1>2. ASSUME NEW w \in Workers, Take(w)
      PROVE  UsedIsAround'
  <2>1. /\ pc' = [pc EXCEPT ![w] = "lock"] /\ used' = [used EXCEPT ![w] = {}]
        /\ UNCHANGED color /\ \A x \in Workers : x # w => cur'[x] = cur[x]
    BY <1>2 DEF Take, IInv, TypeOK
  <2>2. DOMAIN pc = Workers /\ DOMAIN used = Workers
    BY DEF IInv, TypeOK
  <2> QED
    BY <2>1, <2>2 DEF UsedIsAround, Greedy!ColorsAround
<1>3. ASSUME NEW w \in Workers, Lock(w)
      PROVE  UsedIsAround'
  <2>1. /\ UNCHANGED <<color, cur, used>> /\ pc[w] = "lock"
        /\ \A x \in Workers : x # w => pc'[x] = pc[x]
    BY <1>3 DEF Lock, IInv, TypeOK
  <2> QED
    BY <2>1 DEF UsedIsAround, Greedy!ColorsAround
<1>4. ASSUME NEW w \in Workers, Read(w)
      PROVE  UsedIsAround'
  <2>1. PICK u \in left[w] :
          IF color[u] = Uncolored THEN UNCHANGED <<used, data>>
          ELSE used' = [used EXCEPT ![w] = used[w] \cup {color[u]}]
    BY <1>4 DEF Read
  <2>2. /\ UNCHANGED <<color, cur>> /\ pc[w] = "read" /\ pc'[w] # "lock"
        /\ \A x \in Workers : x # w => pc'[x] = pc[x]
    BY <1>4 DEF Read, IInv, TypeOK
  <2>3. DOMAIN used = Workers
    BY DEF IInv, TypeOK
  <2>4. u \in Adj[cur[w]]
    BY <2>1, <2>2 DEF IInv, ReadsNeighbors
  <2>5. used'[w] \subseteq used[w] \cup Greedy!ColorsAround(cur[w])
    BY <2>1, <2>3, <2>4 DEF Greedy!ColorsAround
  <2>6. \A x \in Workers : x # w => used'[x] = used[x]
    BY <2>1, <2>3
  <2> QED
    BY <2>2, <2>5, <2>6 DEF UsedIsAround, Greedy!ColorsAround
<1>5. ASSUME NEW w \in Workers, Choose(w)
      PROVE  UsedIsAround'
  <2>1. /\ pc' = [pc EXCEPT ![w] = "unlock"] /\ pc[w] = "choose"
        /\ color' = [color EXCEPT ![cur[w]] = Choice(w)]
        /\ UNCHANGED <<cur, used>>
    BY <1>5 DEF Choose
  <2>2. color[cur[w]] = Uncolored /\ DOMAIN color = Vertices /\ DOMAIN pc = Workers
    BY <2>1 DEF TakenOnce, IInv, TypeOK
  <2>3. \A u : color[u] # Uncolored => color'[u] = color[u]
    BY <2>1, <2>2
  <2>4. \A x \in Workers : Greedy!ColorsAround(cur[x]) \subseteq Greedy!ColorsAround(cur[x])'
    BY <2>1, <2>3 DEF Greedy!ColorsAround
  <2> QED
    BY <2>1, <2>2, <2>4 DEF UsedIsAround
<1>6. ASSUME NEW w \in Workers, Throw(w)
      PROVE  UsedIsAround'
  <2>1. /\ UNCHANGED <<color, cur, used>>
        /\ \A x \in Workers : pc'[x] = "thrown" \/ pc'[x] = pc[x]
    BY <1>6 DEF Throw, IInv, TypeOK
  <2> QED
    BY <2>1 DEF UsedIsAround, Greedy!ColorsAround
<1>7. ASSUME NEW w \in Workers, Unlock(w)
      PROVE  UsedIsAround'
  <2>1. /\ UNCHANGED <<color, used>>
        /\ \A x \in Workers : x # w => pc'[x] = pc[x] /\ cur'[x] = cur[x]
        /\ pc'[w] \in {"idle", "unlock"}
    BY <1>7 DEF Unlock, IInv, TypeOK
  <2> QED
    BY <2>1 DEF UsedIsAround, Greedy!ColorsAround
<1>8. ASSUME NEW w \in Workers, Join(w)
      PROVE  UsedIsAround'
  BY <1>8 DEF Join, UsedIsAround, Greedy!ColorsAround
<1>9. CASE Collect
  BY <1>9 DEF Collect, UsedIsAround, Greedy!ColorsAround
<1> QED
  BY <1>1, <1>2, <1>3, <1>4, <1>5, <1>6, <1>7, <1>8, <1>9 DEF Next, Worker, Spin, Finished

(* Every other step leaves the colours alone. *)
LEMMA StepIsGreedy == GInv /\ [Next]_vars => [Greedy!Next]_color
<1> SUFFICES ASSUME GInv, [Next]_vars PROVE [Greedy!Next]_color
  OBVIOUS
<1>1. ASSUME NEW w \in Workers, Choose(w)
      PROVE  Greedy!Next
  BY <1>1, ChooseIsGreedy
<1>2. ASSUME NEW w \in Workers, Worker(w), ~Choose(w)
      PROVE  UNCHANGED color
  BY <1>2 DEF Worker, Take, Lock, Read, Throw, Unlock, Join
<1>3. Collect \/ UNCHANGED vars => UNCHANGED color
  BY DEF Collect, vars
<1> QED
  BY <1>1, <1>2, <1>3 DEF Next, Spin, Finished

(* The parallel colouring implements the sequential one, in the order in   *)
(* which the workers choose (hierarchy.cpp:209-390).                       *)
THEOREM ColoringRefines == Spec => ImplementsGreedyColoring
<1>1. Init => GInv /\ Greedy!Init
  BY InitRefinement
<1>2. GInv /\ [Next]_vars => GInv'
  BY NextInvariant, UsedIsAroundInvariant, TakenOnceInvariant DEF GInv
<1>3. GInv /\ [Next]_vars => [Greedy!Next]_color
  BY StepIsGreedy
<1> QED
  BY <1>1, <1>2, <1>3, PTL DEF Spec, ImplementsGreedyColoring, Greedy!Spec

-----------------------------------------------------------------------------
(* No circular wait.                                                       *)

(* v is an entry of its neighbourhood that w has got to: it is behind it,  *)
(* or it is doubled and the next one is v again.                           *)
IsPassed(w, v) ==
    /\ v \in Closed(cur[w])
    /\ v \notin left[w] \/ (v = Least(left[w]) /\ v \in doubled[cur[w]])

(* A mutex is held by a worker that is at work on its neighbourhood.       *)
OnlyHolds ==
    \A v \in Vertices, w \in Workers :
        mutex[v] = w =>
            /\ pc[w] # "idle"
            /\ pc[w] = "lock" => IsPassed(w, v)
            /\ pc[w] \in {"read", "choose"} => v \in Closed(cur[w])
            /\ pc[w] = "unlock" => v \in left[w]

(* A worker locks its neighbourhood in ascending order.                    *)
Ascending ==
    \A w \in Workers :
        pc[w] = "lock" =>
            /\ left[w] # {}
            /\ left[w] \subseteq Closed(cur[w])
            /\ \A u \in Closed(cur[w]) \ left[w], v \in left[w] : u < v

LocksInv == IInv /\ OnlyHolds /\ Ascending

(* A finite set of numbers has a largest one: of the subsets that have     *)
(* none take a smallest, and remove an element from it.                    *)
LEMMA FiniteSetHasLargest ==
    ASSUME NEW S \in SUBSET Nat, IsFiniteSet(S), S # {}
    PROVE  \E m \in S : \A y \in S : y <= m
<1> DEFINE Bounded(T) == \E m \in T : \A y \in T : y <= m
           Bad == {T \in SUBSET S : T # {} /\ ~Bounded(T)}
           Sizes == {Cardinality(T) : T \in Bad}
<1> SUFFICES ASSUME S \in Bad PROVE FALSE
  OBVIOUS
<1>1. \A T \in SUBSET S : IsFiniteSet(T) /\ Cardinality(T) \in Nat
  BY FS_Subset, FS_CardinalityType
<1>2. Sizes \in SUBSET Nat /\ Sizes # {}
  BY <1>1
<1>3. PICK T \in Bad : Cardinality(T) = Least(Sizes)
  <2> HIDE DEF Bad
  <2>1. Least(Sizes) \in Sizes
    BY <1>2, LeastIsLeast
  <2> QED
    BY <2>1
<1>4. \A U \in Bad : Cardinality(T) <= Cardinality(U)
  <2> HIDE DEF Bad
  <2>1. \A y \in Sizes : Least(Sizes) <= y
    BY <1>2, LeastIsLeast
  <2> QED
    BY <1>3, <2>1
<1>5. T \in SUBSET S /\ T # {} /\ ~Bounded(T)
  OBVIOUS
<1>6. PICK x \in T : TRUE
  BY <1>5
<1> DEFINE U == T \ {x}
<1>7. Cardinality(U) = Cardinality(T) - 1 /\ Cardinality(T) \in Nat
  BY <1>1, <1>5, <1>6, FS_RemoveElement
<1>8. U \notin Bad
  <2> HIDE DEF Bad, U
  <2>1. CASE U \in Bad
    <3>1. Cardinality(T) <= Cardinality(U)
      BY <1>4, <2>1
    <3> QED
      BY <1>7, <3>1
  <2> QED
    BY <2>1
<1>9. U = {} \/ Bounded(U)
  BY <1>5, <1>8
<1>10. x \in Nat /\ T \subseteq Nat
  BY <1>5, <1>6
<1>11. CASE U = {}
  <2>1. \A y \in T : y = x
    BY <1>11
  <2> QED
    BY <1>5, <1>6, <1>10, <2>1
<1>12. CASE Bounded(U)
  <2>1. PICK m \in U : \A y \in U : y <= m
    BY <1>12
  <2>2. m \in T /\ m \in Nat
    BY <1>10, <2>1
  <2>3. CASE x <= m
    <3>1. \A y \in T : y <= m
      BY <2>1, <2>3
    <3> QED
      BY <1>5, <2>2, <3>1
  <2>4. CASE ~(x <= m)
    <3>1. \A y \in T : y <= x
      BY <1>10, <2>1, <2>2, <2>4
    <3> QED
      BY <1>5, <1>6, <3>1
  <2> QED
    BY <2>3, <2>4
<1> QED
  BY <1>9, <1>11, <1>12

(* What a worker waits for or gets next is a vertex of its neighbourhood.  *)
LEMMA NextToLockIsLeft ==
    ASSUME LocksInv, NEW w \in Workers, pc[w] = "lock"
    PROVE  /\ cur[w] \in Vertices
           /\ left[w] \subseteq Vertices
           /\ Least(left[w]) \in left[w]
           /\ \A v \in left[w] : Least(left[w]) <= v
<1>1. cur[w] \in Vertices
  BY DEF LocksInv, IInv, HoldsNeighborhood
<1>2. left[w] \subseteq Vertices /\ left[w] \in SUBSET Nat /\ left[w] # {}
  BY VerticesAssumption DEF LocksInv, IInv, TypeOK, Ascending
<1> QED
  BY <1>1, <1>2, LeastIsLeast

(* Of the vertices the workers of a group wait for take the largest.  Its  *)
(* holder has not passed it, or it would wait for a larger one: it has     *)
(* locked it at a doubled entry and waits for itself.                      *)
LEMMA NobodyIsInACircle == LocksInv => NoCircularWait
<1> SUFFICES ASSUME LocksInv,
                    NEW W \in SUBSET Workers, NEW a \in W, Blocked(a),
                    \A w \in W : pc[w] = "idle" \/ \E x \in W : WaitsFor(w, x)
             PROVE  \E w \in W : Hung(w)
  BY DEF NoCircularWait
<1> DEFINE Waiting == {w \in W : pc[w] # "idle"}
           WaitedFor == {Least(left[w]) : w \in Waiting}
<1>1. ASSUME NEW w \in Waiting
      PROVE  pc[w] = "lock" /\ \E x \in W : mutex[Least(left[w])] = x
  BY DEF WaitsFor, NextToLock
<1>2. \A w \in Waiting : Least(left[w]) \in left[w] /\ left[w] \subseteq Vertices
  BY <1>1, NextToLockIsLeft
<1>3. WaitedFor \in SUBSET Vertices /\ WaitedFor # {}
  <2>1. a \in Waiting
    BY DEF Blocked
  <2> QED
    BY <1>2, <2>1
<1>4. WaitedFor \in SUBSET Nat /\ IsFiniteSet(WaitedFor)
  BY <1>3, VerticesAssumption, FS_Subset
<1>5. PICK m \in WaitedFor : \A y \in WaitedFor : y <= m
  <2> HIDE DEF WaitedFor
  <2> QED
    BY <1>3, <1>4, FiniteSetHasLargest
<1>6. PICK w \in Waiting : m = Least(left[w])
  OBVIOUS
<1>7. m \in Vertices
  BY <1>3
<1>8. PICK x \in W : mutex[m] = x
  BY <1>1, <1>6
<1>9. pc[x] # "idle"
  BY <1>7, <1>8 DEF LocksInv, OnlyHolds
<1>10. pc[x] = "lock" /\ x \in Waiting
  BY <1>1, <1>9
<1>11. IsPassed(x, m)
  BY <1>7, <1>8, <1>10 DEF LocksInv, OnlyHolds
<1>12. Least(left[x]) \in left[x] /\ Least(left[x]) \in WaitedFor
  BY <1>2, <1>10
<1>13. CASE m \notin left[x]
  <2>1. m \in Closed(cur[x]) \ left[x]
    BY <1>11, <1>13 DEF IsPassed
  <2>2. m < Least(left[x])
    BY <1>10, <1>12, <2>1 DEF LocksInv, Ascending
  <2>3. Least(left[x]) <= m
    BY <1>5, <1>12
  <2>4. m \in Nat /\ Least(left[x]) \in Nat
    BY <1>4, <1>12
  <2> QED
    BY <2>2, <2>3, <2>4
<1>14. CASE m \in left[x]
  <2>1. m = Least(left[x]) /\ m \in doubled[cur[x]]
    BY <1>11, <1>14 DEF IsPassed
  <2> QED
    BY <1>8, <1>10, <2>1 DEF Hung, WaitsFor, NextToLock
<1> QED
  BY <1>13, <1>14

(* Taking a mutex: it was free, and it is the lowest that is left.         *)
LEMMA LockKeepsLocks ==
    ASSUME LocksInv, NEW w \in Workers, Lock(w)
    PROVE  OnlyHolds' /\ Ascending'
<1>1. /\ pc[w] = "lock" /\ UNCHANGED <<doubled, cur>>
      /\ cur[w] \in Vertices /\ left[w] \subseteq Vertices
      /\ left[w] \subseteq Closed(cur[w])
  BY NextToLockIsLeft DEF Lock, LocksInv, Ascending
<1> DEFINE v == Least(left[w])
<1>2. v \in left[w] /\ v \in Vertices /\ \A u \in left[w] : v <= u
  BY <1>1, NextToLockIsLeft
<1>3. /\ mutex[v] = Nobody
      /\ mutex' = [mutex EXCEPT ![v] = w]
      /\ \/ /\ v \in doubled[cur[w]]
            /\ UNCHANGED <<left, pc>>
         \/ /\ left[w] # {v}
            /\ left' = [left EXCEPT ![w] = left[w] \ {v}]
            /\ UNCHANGED pc
         \/ /\ left[w] = {v}
            /\ left' = [left EXCEPT ![w] = Adj[cur[w]]]
            /\ pc' = [pc EXCEPT ![w] = IF Adj[cur[w]] = {} THEN "choose" ELSE "read"]
  BY DEF Lock, NextToLock
<1>4. \A x \in Workers \ {w} : pc'[x] = pc[x] /\ left'[x] = left[x] /\ cur'[x] = cur[x]
  BY <1>1, <1>3 DEF LocksInv, IInv, TypeOK
<1>5. mutex'[v] = w /\ \A u \in Vertices \ {v} : mutex'[u] = mutex[u]
  BY <1>2, <1>3 DEF LocksInv, IInv, TypeOK
<1>6. \/ v \in doubled[cur[w]] /\ pc'[w] = "lock" /\ left'[w] = left[w]
      \/ left[w] = {v} /\ pc'[w] \in {"read", "choose"}
      \/ left[w] # {v} /\ pc'[w] = "lock" /\ left'[w] = left[w] \ {v}
  BY <1>1, <1>3 DEF LocksInv, IInv, TypeOK
<1>7. OnlyHolds'
  <2>1. ASSUME NEW u \in Vertices, NEW x \in Workers, mutex'[u] = x
        PROVE  /\ pc'[x] # "idle"
               /\ pc'[x] = "lock" => IsPassed(x, u)'
               /\ pc'[x] \in {"read", "choose"} => u \in Closed(cur'[x])
               /\ pc'[x] = "unlock" => u \in left'[x]
    <3>1. CASE u = v
      <4>1. x = w
        BY <1>5, <2>1, <3>1
      <4>2. pc'[w] = "lock" => IsPassed(w, u)'
        BY <1>1, <1>2, <1>6, <3>1 DEF IsPassed
      <4>3. pc'[w] \in {"lock", "read", "choose"} /\ v \in Closed(cur'[w])
        BY <1>1, <1>2, <1>6
      <4> QED
        BY <3>1, <4>1, <4>2, <4>3
    <3>2. CASE u # v
      <4>1. mutex[u] = x
        BY <1>5, <2>1, <3>2
      <4>2. CASE x = w
        <5>1. u \in Closed(cur[w]) \ left[w]
          BY <1>1, <3>2, <4>1, <4>2 DEF LocksInv, OnlyHolds, IsPassed
        <5>2. pc'[w] = "lock" => IsPassed(w, u)'
          BY <1>1, <1>6, <5>1 DEF IsPassed
        <5>3. pc'[w] \in {"lock", "read", "choose"} /\ u \in Closed(cur'[w])
          BY <1>1, <1>6, <5>1
        <5> QED
          BY <4>2, <5>2, <5>3
      <4>3. CASE x # w
        BY <1>1, <1>4, <4>1, <4>3 DEF LocksInv, OnlyHolds, IsPassed
      <4> QED
        BY <4>2, <4>3
    <3> QED
      BY <3>1, <3>2
  <2> QED
    BY <2>1 DEF OnlyHolds
<1>8. Ascending'
  <2>1. ASSUME pc'[w] = "lock"
        PROVE  /\ left'[w] # {}
               /\ left'[w] \subseteq Closed(cur'[w])
               /\ \A u \in Closed(cur'[w]) \ left'[w], y \in left'[w] : u < y
    <3>0. CASE left'[w] = left[w]
      BY <1>1, <3>0 DEF LocksInv, Ascending
    <3> SUFFICES ASSUME left'[w] # left[w]
                 PROVE  /\ left'[w] # {}
                        /\ left'[w] \subseteq Closed(cur'[w])
                        /\ \A u \in Closed(cur'[w]) \ left'[w], y \in left'[w] : u < y
      BY <3>0
    <3>1. left'[w] = left[w] \ {v} /\ left[w] # {v}
      BY <1>6, <2>1
    <3>2. left'[w] # {} /\ left'[w] \subseteq Closed(cur'[w])
      BY <1>1, <1>2, <3>1
    <3>3. ASSUME NEW u \in Closed(cur'[w]) \ left'[w], NEW y \in left'[w]
          PROVE  u < y
      <4>1. y \in left[w] /\ y # v /\ y \in Nat /\ v \in Nat
        BY <1>1, <1>2, <3>1, VerticesAssumption
      <4>2. CASE u = v
        BY <1>2, <4>1, <4>2
      <4>3. CASE u # v
        <5>1. u \in Closed(cur[w]) \ left[w]
          BY <1>1, <3>1, <4>3
        <5> QED
          BY <1>1, <4>1, <5>1 DEF LocksInv, Ascending
      <4> QED
        BY <4>2, <4>3
    <3> QED
      BY <3>2, <3>3
  <2> QED
    BY <1>4, <2>1 DEF LocksInv, Ascending
<1> QED
  BY <1>7, <1>8

(* Giving a mutex back: it is the lowest of those that are held.           *)
LEMMA UnlockKeepsLocks ==
    ASSUME LocksInv, NEW w \in Workers, Unlock(w)
    PROVE  OnlyHolds' /\ Ascending'
<1> DEFINE v == Least(left[w])
<1>1. /\ pc[w] = "unlock"
      /\ mutex' = [mutex EXCEPT ![v] = Nobody]
      /\ left' = [left EXCEPT ![w] = left[w] \ {v}]
      /\ IF left[w] = {v}
         THEN /\ pc' = [pc EXCEPT ![w] = "idle"]
              /\ cur' = [cur EXCEPT ![w] = Nobody]
         ELSE UNCHANGED <<pc, cur>>
      /\ UNCHANGED doubled
  BY DEF Unlock
<1>2. v \in left[w] /\ v \in Vertices
  <2>1. left[w] # {} /\ left[w] \subseteq Vertices /\ left[w] \in SUBSET Nat
    BY <1>1, VerticesAssumption DEF LocksInv, IInv, HoldsNeighborhood, TypeOK
  <2>2. v \in left[w]
    BY <2>1, LeastIsLeast
  <2> QED
    BY <2>1, <2>2
<1>3. \A x \in Workers \ {w} : pc'[x] = pc[x] /\ left'[x] = left[x] /\ cur'[x] = cur[x]
  BY <1>1 DEF LocksInv, IInv, TypeOK
<1>4. /\ left'[w] = left[w] \ {v}
      /\ pc'[w] = IF left[w] = {v} THEN "idle" ELSE "unlock"
  BY <1>1 DEF LocksInv, IInv, TypeOK
<1>5. mutex'[v] = Nobody /\ \A u \in Vertices \ {v} : mutex'[u] = mutex[u]
  BY <1>1, <1>2 DEF LocksInv, IInv, TypeOK
<1>6. OnlyHolds'
  <2>1. ASSUME NEW u \in Vertices, NEW x \in Workers, mutex'[u] = x
        PROVE  /\ pc'[x] # "idle"
               /\ pc'[x] = "lock" => IsPassed(x, u)'
               /\ pc'[x] \in {"read", "choose"} => u \in Closed(cur'[x])
               /\ pc'[x] = "unlock" => u \in left'[x]
    <3>1. u # v /\ mutex[u] = x
      BY <1>5, <2>1, NobodyAssumption
    <3>2. CASE x = w
      <4>1. u \in left[w]
        BY <1>1, <3>1, <3>2 DEF LocksInv, OnlyHolds, IsPassed
      <4> QED
        BY <1>4, <3>1, <3>2, <4>1
    <3>3. CASE x # w
      BY <1>1, <1>3, <3>1, <3>3 DEF LocksInv, OnlyHolds, IsPassed
    <3> QED
      BY <3>2, <3>3
  <2> QED
    BY <2>1 DEF OnlyHolds
<1>7. Ascending'
  BY <1>3, <1>4 DEF LocksInv, Ascending
<1> QED
  BY <1>6, <1>7

(* A worker holds mutexes of its neighborhood only, below all that it      *)
(* waits for.                                                              *)
LEMMA NextKeepsLocks == LocksInv /\ [Next]_vars => OnlyHolds' /\ Ascending'
<1> SUFFICES ASSUME LocksInv, [Next]_vars PROVE OnlyHolds' /\ Ascending'
  OBVIOUS
<1>1. CASE UNCHANGED vars
  BY <1>1 DEF vars, LocksInv, OnlyHolds, IsPassed, Ascending
<1>2. ASSUME NEW w \in Workers, Take(w)
      PROVE  OnlyHolds' /\ Ascending'
  <2>1. /\ pc[w] = "idle" /\ pc'[w] = "lock" /\ UNCHANGED <<doubled, mutex>>
        /\ left'[w] = Closed(cur'[w]) /\ Closed(cur'[w]) # {}
        /\ \A x \in Workers \ {w} : pc'[x] = pc[x] /\ left'[x] = left[x] /\ cur'[x] = cur[x]
    BY <1>2 DEF Take, LocksInv, IInv, TypeOK, Closed
  <2> QED
    BY <2>1 DEF LocksInv, OnlyHolds, IsPassed, Ascending
<1>3. ASSUME NEW w \in Workers, Read(w)
      PROVE  OnlyHolds' /\ Ascending'
  <2>1. /\ pc[w] = "read" /\ pc'[w] \in {"read", "choose"} /\ UNCHANGED <<doubled, mutex, cur>>
        /\ \A x \in Workers \ {w} : pc'[x] = pc[x] /\ left'[x] = left[x]
    BY <1>3 DEF Read, LocksInv, IInv, TypeOK
  <2> QED
    BY <2>1 DEF LocksInv, OnlyHolds, IsPassed, Ascending
<1>4. ASSUME NEW w \in Workers, Choose(w)
      PROVE  OnlyHolds' /\ Ascending'
  <2>1. /\ pc[w] = "choose" /\ pc'[w] = "unlock" /\ UNCHANGED <<doubled, mutex, cur>>
        /\ left'[w] = Closed(cur[w])
        /\ \A x \in Workers \ {w} : pc'[x] = pc[x] /\ left'[x] = left[x]
    BY <1>4 DEF Choose, LocksInv, IInv, TypeOK
  <2> QED
    BY <2>1 DEF LocksInv, OnlyHolds, IsPassed, Ascending
<1>5. ASSUME NEW w \in Workers, Throw(w)
      PROVE  OnlyHolds' /\ Ascending'
  <2>1. /\ pc[w] = "choose" /\ pc'[w] = "thrown" /\ UNCHANGED <<doubled, mutex, cur, left>>
        /\ \A x \in Workers \ {w} : pc'[x] = pc[x]
    BY <1>5 DEF Throw, LocksInv, IInv, TypeOK
  <2> QED
    BY <2>1 DEF LocksInv, OnlyHolds, IsPassed, Ascending
<1>6. ASSUME NEW w \in Workers, Join(w)
      PROVE  OnlyHolds' /\ Ascending'
  BY <1>6 DEF Join, LocksInv, OnlyHolds, IsPassed, Ascending
<1>7. CASE Collect
  BY <1>7 DEF Collect, LocksInv, OnlyHolds, IsPassed, Ascending
<1> QED
  BY <1>1, <1>2, <1>3, <1>4, <1>5, <1>6, <1>7, LockKeepsLocks, UnlockKeepsLocks
  DEF Next, Worker, Spin, Finished

(* Before the loop nobody holds anything. *)
LEMMA InitLocks == Init => LocksInv
<1> SUFFICES ASSUME Init PROVE LocksInv
  OBVIOUS
<1>1. OnlyHolds /\ Ascending
  BY NobodyAssumption DEF Init, OnlyHolds, Ascending
<1> QED
  BY <1>1, InitInvariant DEF LocksInv

(* However many threads there are, and whatever the lists of links are,    *)
(* no group of threads waits in a circle unless one of them waits for      *)
(* itself: it has locked a vertex its neighbourhood has more than once,    *)
(* and spins on that mutex (hierarchy.cpp:323-330).                        *)
THEOREM NobodyWaitsInCircles == Spec => []NoCircularWait
<1>1. Init => LocksInv
  BY InitLocks
<1>2. LocksInv /\ [Next]_vars => LocksInv'
  BY NextInvariant, NextKeepsLocks DEF LocksInv
<1>3. LocksInv => NoCircularWait
  BY NobodyIsInACircle
<1> QED
  BY <1>1, <1>2, <1>3, PTL DEF Spec

-----------------------------------------------------------------------------
(* The phases.                                                             *)

(* nNodes[c] of a ColorData *)
CountOf(d, c) == IF c < Len(d) THEN d[c + 1] ELSE 0

Colored(c) == {v \in Vertices : color[v] = c}

(* Every known colour is the colour of a vertex. *)
KnownAreUsed ==
    /\ \A w \in Workers : \A c \in 0 .. Len(data[w]) - 1 : Colored(c) # {}
    /\ \A c \in 0 .. Len(total) - 1 : Colored(c) # {}
    /\ \A v \in Vertices : \A c \in Colors : color[v] \in Nat /\ c < color[v] => Colored(c) # {}

(* Without a colour is only what is to be taken or at work. *)
UncoloredAreToCome ==
    \A v \in Vertices :
        color[v] = Uncolored =>
            v \in todo \/ \E w \in Workers : cur[w] = v /\ pc[w] \in Pcs \ {"idle", "unlock"}

(* Each vertex is counted once: in the ColorData of the worker who[v], or, *)
(* once that was joined, in the joined one.                                *)
CountedBy(who) ==
    \A c \in Colors :
        /\ \A w \in Workers : CountOf(data[w], c) = Cardinality({v \in Colored(c) : who[v] = w})
        /\ CountOf(total, c) = Cardinality({v \in Colored(c) : who[v] = Nobody})

CountedOnce == \E who \in [Vertices -> Workers \cup {Nobody}] : CountedBy(who)

(* The result is made of the final colours. *)
Collected ==
    phases # << >> =>
        /\ phases = [i \in 1 .. Len(total) |-> Colored(i - 1)]
        /\ todo = {}
        /\ \A w \in Workers : pc[w] = "idle" /\ data[w] = << >>

PhaseInv == KnownAreUsed /\ UncoloredAreToCome /\ CountedOnce /\ Collected

(* A colour that is added to a ColorData is counted from zero.             *)
LEMMA CountOfExtend ==
    ASSUME NEW d \in Seq(Nat), NEW n \in Nat, NEW c \in Nat
    PROVE  CountOf(Extend(d, n), c) = CountOf(d, c)
<1> DEFINE m == IF Len(d) < n THEN n ELSE Len(d)
           e == [i \in 1 .. m |-> IF i <= Len(d) THEN d[i] ELSE 0]
<1>1. Len(d) \in Nat /\ m \in Nat /\ Len(d) <= m
  OBVIOUS
<1>2. Extend(d, n) = e
  BY DEF Extend
<1>3. Len(e) = m
  <2>1. Len(Extend(d, n)) = m
    BY ExtendIsData
  <2> QED
    BY <1>2, <2>1
<1>4. \A i \in 1 .. m : e[i] = IF i <= Len(d) THEN d[i] ELSE 0
  OBVIOUS
<1> HIDE DEF e
<1>5. CASE c < m
  <2>1. c + 1 \in 1 .. m
    BY <1>1, <1>5
  <2>2. e[c + 1] = IF c + 1 <= Len(d) THEN d[c + 1] ELSE 0
    BY <1>4, <2>1
  <2> QED
    BY <1>1, <1>2, <1>3, <1>5, <2>2 DEF CountOf
<1>6. CASE ~(c < m)
  BY <1>1, <1>2, <1>3, <1>6 DEF CountOf
<1> QED
  BY <1>5, <1>6

(* One more of the counted colour, and of no other.                        *)
LEMMA CountOfCountOne ==
    ASSUME NEW d \in Seq(Nat), NEW h \in Nat, NEW c \in Nat
    PROVE  CountOf(CountOne(d, h), c) = CountOf(d, c) + (IF c = h THEN 1 ELSE 0)
<1> DEFINE e == Extend(d, h + 1)
           f == CountOne(d, h)
<1>1. e \in Seq(Nat) /\ Len(e) \in Nat /\ h < Len(e) /\ DOMAIN e = 1 .. Len(e)
  <2>1. e \in Seq(Nat) /\ Len(e) = IF Len(d) < h + 1 THEN h + 1 ELSE Len(d)
    BY ExtendIsData
  <2> QED
    BY <2>1
<1>2. Len(f) = Len(e)
  BY CountOneIsData
<1>3. CountOf(d, c) = CountOf(e, c)
  BY CountOfExtend
<1>4. \A i \in 1 .. Len(e) : f[i] = e[i] + (IF i = h + 1 THEN 1 ELSE 0)
  BY <1>1 DEF CountOne
<1> HIDE DEF e, f
<1>5. CASE c < Len(e)
  <2>1. c + 1 \in 1 .. Len(e) /\ (c + 1 = h + 1 <=> c = h)
    BY <1>1, <1>5
  <2>2. f[c + 1] = e[c + 1] + (IF c = h THEN 1 ELSE 0)
    BY <1>4, <2>1
  <2> QED
    BY <1>2, <1>3, <1>5, <2>2 DEF CountOf, f
<1>6. CASE ~(c < Len(e))
  BY <1>1, <1>2, <1>3, <1>6 DEF CountOf, f
<1> QED
  BY <1>5, <1>6

(* Joining adds the counts.                                                *)
LEMMA CountOfJoin ==
    ASSUME NEW d \in Seq(Nat), NEW e \in Seq(Nat), NEW c \in Nat
    PROVE  CountOf(JoinData(d, e), c) = CountOf(d, c) + CountOf(e, c)
<1> DEFINE m == IF Len(d) < Len(e) THEN Len(e) ELSE Len(d)
           f == JoinData(d, e)
<1>1. Len(d) \in Nat /\ Len(e) \in Nat /\ m \in Nat /\ Len(d) <= m /\ Len(e) <= m
  OBVIOUS
<1>2. Len(f) = m
  BY JoinIsData
<1>3. \A i \in 1 .. m : f[i] = (IF i <= Len(d) THEN d[i] ELSE 0) + (IF i <= Len(e) THEN e[i] ELSE 0)
  BY DEF JoinData
<1>4. c < Len(d) => d[c + 1] \in Nat
  <2>1. c < Len(d) => c + 1 \in 1 .. Len(d)
    BY <1>1
  <2> QED
    BY <2>1
<1>5. c < Len(e) => e[c + 1] \in Nat
  <2>1. c < Len(e) => c + 1 \in 1 .. Len(e)
    BY <1>1
  <2> QED
    BY <2>1
<1> HIDE DEF f
<1>6. CASE c < m
  <2>1. c + 1 \in 1 .. m
    BY <1>1, <1>6
  <2>2. f[c + 1] = (IF c + 1 <= Len(d) THEN d[c + 1] ELSE 0)
                 + (IF c + 1 <= Len(e) THEN e[c + 1] ELSE 0)
    BY <1>3, <2>1
  <2>3. (c + 1 <= Len(d) <=> c < Len(d)) /\ (c + 1 <= Len(e) <=> c < Len(e))
    BY <1>1
  <2> QED
    BY <1>2, <1>6, <2>2, <2>3 DEF CountOf, f
<1>7. CASE ~(c < m)
  BY <1>1, <1>2, <1>7 DEF CountOf, f
<1> QED
  BY <1>6, <1>7

(* What a thread has at hand while it is at work is not yet collected.     *)
LEMMA NothingCollected ==
    ASSUME PhaseInv, NEW w \in Workers, pc[w] # "idle" \/ data[w] # << >>
    PROVE  phases = << >>
BY DEF PhaseInv, Collected

(* A share of the vertices has a size. *)
LEMMA ShareIsFinite ==
    ASSUME NEW S \in SUBSET Vertices
    PROVE  IsFiniteSet(S) /\ Cardinality(S) \in Nat
BY VerticesAssumption, FS_Subset, FS_CardinalityType

(* The known colours after those of a neighbour were learnt.               *)
LEMMA ReadKeepsPhases ==
    ASSUME GInv, PhaseInv, NEW w \in Workers, Read(w)
    PROVE  PhaseInv'
<1>1. PICK u \in left[w] :
        IF color[u] = Uncolored THEN UNCHANGED <<used, data>>
        ELSE data' = [data EXCEPT ![w] = Extend(data[w], color[u] + 1)]
  BY DEF Read
<1>2. /\ pc[w] = "read" /\ pc'[w] \in {"read", "choose"}
      /\ UNCHANGED <<color, todo, cur, total, phases>>
      /\ \A x \in Workers \ {w} : pc'[x] = pc[x]
  BY DEF Read, GInv, IInv, TypeOK
<1>3. u \in Vertices /\ color[u] \in Colors \cup {Uncolored} /\ ColorLimit \in Nat
  BY <1>1, ColorLimitAssumption DEF GInv, IInv, TypeOK
<1>4. \A x \in Workers \ {w} : data'[x] = data[x]
  BY <1>1, <1>3 DEF GInv, IInv, TypeOK
<1>5. CASE color[u] = Uncolored
  <2>1. data' = data
    BY <1>1, <1>5
  <2>2. \A c : Colored(c)' = Colored(c)
    BY <1>2 DEF Colored
  <2>3. KnownAreUsed' /\ CountedOnce' /\ Collected'
    BY <1>2, <2>1, <2>2, NothingCollected
    DEF PhaseInv, KnownAreUsed, CountedOnce, CountedBy, Collected
  <2> QED
    BY <1>2, <2>3 DEF PhaseInv, UncoloredAreToCome, Pcs
<1>6. CASE color[u] # Uncolored
  <2>1. data'[w] = Extend(data[w], color[u] + 1)
    BY <1>1, <1>6 DEF GInv, IInv, TypeOK
  <2>2. data[w] \in Seq(Nat) /\ Len(data[w]) \in Nat /\ color[u] \in Nat /\ color[u] \in Colors
    BY <1>3, <1>6 DEF GInv, IInv, TypeOK, Colors
  <2>3. \A c : Colored(c)' = Colored(c)
    BY <1>2 DEF Colored
  <2>4. \A c \in Colors : CountOf(data'[w], c) = CountOf(data[w], c)
    BY <2>1, <2>2, CountOfExtend DEF Colors
  <2>5. CountedOnce'
    <3>1. PICK who \in [Vertices -> Workers \cup {Nobody}] : CountedBy(who)
      BY DEF PhaseInv, CountedOnce
    <3>2. CountedBy(who)'
      <4>1. ASSUME NEW c \in Colors
            PROVE  /\ \A x \in Workers :
                        CountOf(data'[x], c) = Cardinality({v \in Colored(c)' : who[v] = x})
                   /\ CountOf(total', c) = Cardinality({v \in Colored(c)' : who[v] = Nobody})
        BY <1>2, <1>4, <2>3, <2>4, <3>1 DEF CountedBy
      <4> QED
        BY <4>1 DEF CountedBy
    <3> QED
      BY <3>2 DEF CountedOnce
  <2>6. KnownAreUsed'
    <3>1. ASSUME NEW c \in 0 .. Len(data'[w]) - 1
          PROVE  Colored(c) # {}
      <4>1. Len(data'[w]) = IF Len(data[w]) < color[u] + 1 THEN color[u] + 1 ELSE Len(data[w])
        BY <2>1, <2>2, ExtendIsData
      <4>2. c \in 0 .. Len(data[w]) - 1 \/ c = color[u] \/ c \in 0 .. color[u] - 1
        BY <2>2, <4>1
      <4>3. CASE c \in 0 .. Len(data[w]) - 1
        BY <4>3 DEF PhaseInv, KnownAreUsed
      <4>4. CASE c = color[u]
        BY <1>3, <4>4 DEF Colored
      <4>5. CASE c \in 0 .. color[u] - 1
        <5>1. c \in Colors /\ c < color[u]
          BY <1>3, <2>2, <4>5 DEF Colors
        <5> QED
          BY <1>3, <2>2, <5>1 DEF PhaseInv, KnownAreUsed
      <4> QED
        BY <4>2, <4>3, <4>4, <4>5
    <3>2. \A x \in Workers : \A c \in 0 .. Len(data'[x]) - 1 : Colored(c)' # {}
      BY <1>4, <2>3, <3>1 DEF PhaseInv, KnownAreUsed
    <3> QED
      BY <1>2, <2>3, <3>2 DEF PhaseInv, KnownAreUsed
  <2>7. phases' = << >>
    BY <1>2, NothingCollected
  <2> QED
    BY <1>2, <2>5, <2>6, <2>7 DEF PhaseInv, UncoloredAreToCome, Collected, Pcs
<1> QED
  BY <1>5, <1>6

(* The vertex that gets its colour is counted by the worker that chose it. *)
LEMMA ChooseKeepsPhases ==
    ASSUME GInv, PhaseInv, NEW w \in Workers, Choose(w)
    PROVE  PhaseInv'
<1>0. /\ Choice(w) \in 0 .. Len(data[w]) /\ Choice(w) \in Colors
      /\ cur[w] \in Vertices
  BY ChoiceIsFree DEF Choose, GInv, IInv, HoldsNeighborhood
<1>a. PICK c \in Colors : c = Choice(w)
  BY <1>0
<1>b. PICK v \in Vertices : v = cur[w]
  BY <1>0
<1>1. /\ pc[w] = "choose" /\ ~OutOfColors(w)
      /\ color' = [color EXCEPT ![v] = c]
      /\ data' = [data EXCEPT ![w] = CountOne(data[w], c)]
      /\ pc' = [pc EXCEPT ![w] = "unlock"]
      /\ UNCHANGED <<todo, cur, total, phases>>
  BY <1>a, <1>b DEF Choose
<1>2. color[v] = Uncolored
  BY <1>1, <1>b DEF GInv, TakenOnce
<1>3. c \in 0 .. Len(data[w]) /\ c \in Nat
  BY <1>0, <1>a DEF Colors
<1>4. data[w] \in Seq(Nat) /\ Len(data[w]) \in Nat /\ ColorLimit \in Nat
  BY ColorLimitAssumption DEF GInv, IInv, TypeOK
<1>5. /\ data'[w] = CountOne(data[w], c)
      /\ \A x \in Workers \ {w} : data'[x] = data[x] /\ pc'[x] = pc[x]
      /\ pc'[w] = "unlock"
  BY <1>1 DEF GInv, IInv, TypeOK
<1>6. color'[v] = c /\ \A u \in Vertices \ {v} : color'[u] = color[u]
  BY <1>1, <1>2 DEF GInv, IInv, TypeOK
<1>7. c # Uncolored /\ \A d \in Nat : d # Uncolored
  BY <1>3, UncoloredAssumption
<1>8. /\ Colored(c)' = Colored(c) \cup {v}
      /\ \A d \in Nat : v \notin Colored(d)
      /\ \A d \in Nat : d # c => Colored(d)' = Colored(d)
  BY <1>2, <1>6, <1>7 DEF Colored
<1>9. KnownAreUsed'
  <2>1. \A d \in Nat : Colored(d) # {} => Colored(d)' # {}
    BY <1>8
  <2>2. \A d \in 0 .. c : Colored(d)' # {}
    <3>1. ASSUME NEW d \in 0 .. c, d # c
          PROVE  Colored(d)' # {}
      <4>1. d \in 0 .. Len(data[w]) - 1 /\ d \in Nat
        BY <1>3, <1>4, <3>1
      <4> QED
        BY <2>1, <4>1 DEF PhaseInv, KnownAreUsed
    <3>2. Colored(c)' # {}
      BY <1>8
    <3> QED
      BY <3>1, <3>2
  <2>3. ASSUME NEW d \in 0 .. Len(data'[w]) - 1
        PROVE  Colored(d)' # {}
    <3>1. Len(data'[w]) = IF Len(data[w]) < c + 1 THEN c + 1 ELSE Len(data[w])
      <4>1. Len(data'[w]) = Len(Extend(data[w], c + 1))
        BY <1>3, <1>4, <1>5, CountOneIsData
      <4>2. Len(Extend(data[w], c + 1)) = IF Len(data[w]) < c + 1 THEN c + 1 ELSE Len(data[w])
        BY <1>3, <1>4, ExtendIsData
      <4> QED
        BY <4>1, <4>2
    <3>2. d \in Nat /\ (d \in 0 .. c \/ d \in 0 .. Len(data[w]) - 1)
      BY <1>3, <1>4, <3>1
    <3> QED
      BY <2>1, <2>2, <3>2 DEF PhaseInv, KnownAreUsed
  <2>4. \A x \in Workers : \A d \in 0 .. Len(data'[x]) - 1 : Colored(d)' # {}
    <3>1. ASSUME NEW x \in Workers \ {w}, NEW d \in 0 .. Len(data[x]) - 1
          PROVE  Colored(d)' # {}
      <4>1. d \in Nat
        BY <3>1 DEF GInv, IInv, TypeOK
      <4> QED
        BY <2>1, <4>1 DEF PhaseInv, KnownAreUsed
    <3> QED
      BY <1>5, <2>3, <3>1
  <2>5. ASSUME NEW d \in 0 .. Len(total') - 1
        PROVE  Colored(d)' # {}
    <3>1. d \in Nat /\ d \in 0 .. Len(total) - 1
      BY <1>1 DEF GInv, IInv, TypeOK
    <3> QED
      BY <2>1, <3>1 DEF PhaseInv, KnownAreUsed
  <2>6. ASSUME NEW u \in Vertices, NEW d \in Colors, color'[u] \in Nat, d < color'[u]
        PROVE  Colored(d)' # {}
    <3>1. d \in Nat
      BY <1>4 DEF Colors
    <3>2. CASE u = v
      <4>1. d \in 0 .. c
        BY <1>3, <1>6, <2>6, <3>1, <3>2
      <4> QED
        BY <2>2, <4>1
    <3>3. CASE u # v
      BY <1>6, <2>1, <2>6, <3>1, <3>3 DEF PhaseInv, KnownAreUsed
    <3> QED
      BY <3>2, <3>3
  <2> QED
    BY <2>4, <2>5, <2>6 DEF KnownAreUsed
<1>10. UncoloredAreToCome'
  <2>1. ASSUME NEW u \in Vertices, color'[u] = Uncolored, u \notin todo
        PROVE  \E x \in Workers : cur'[x] = u /\ pc'[x] \in Pcs \ {"idle", "unlock"}
    <3>1. u # v /\ color[u] = Uncolored
      BY <1>6, <1>7, <2>1
    <3>2. PICK x \in Workers : cur[x] = u /\ pc[x] \in Pcs \ {"idle", "unlock"}
      BY <2>1, <3>1 DEF PhaseInv, UncoloredAreToCome
    <3>3. x # w
      BY <1>b, <3>1, <3>2
    <3> QED
      BY <1>1, <1>5, <3>2, <3>3
  <2> QED
    BY <1>1, <2>1 DEF UncoloredAreToCome
<1>11. CountedOnce'
  <2>1. PICK who \in [Vertices -> Workers \cup {Nobody}] : CountedBy(who)
    BY DEF PhaseInv, CountedOnce
  <2> DEFINE now == [who EXCEPT ![v] = w]
  <2>2. /\ now \in [Vertices -> Workers \cup {Nobody}]
        /\ now[v] = w /\ \A u \in Vertices \ {v} : now[u] = who[u]
    BY <1>2, <2>1
  <2> HIDE DEF now
  <2>3. w # Nobody /\ \A d : Colored(d) \subseteq Vertices
    BY NobodyAssumption DEF Colored
  <2>4. ASSUME NEW d \in Colors, NEW x \in Workers \cup {Nobody}, d # c \/ x # w
        PROVE  {u \in Colored(d)' : now[u] = x} = {u \in Colored(d) : who[u] = x}
    <3>1. d \in Nat
      BY <1>4 DEF Colors
    <3> QED
      BY <1>8, <2>2, <2>3, <2>4, <3>1
  <2>5. Cardinality({u \in Colored(c)' : now[u] = w})
          = Cardinality({u \in Colored(c) : who[u] = w}) + 1
    <3> DEFINE S == {u \in Colored(c) : who[u] = w}
    <3>1. {u \in Colored(c)' : now[u] = w} = S \cup {v} /\ v \notin S
      BY <1>3, <1>8, <2>2, <2>3
    <3>2. IsFiniteSet(S)
      BY <2>3, ShareIsFinite
    <3> HIDE DEF S
    <3>3. Cardinality(S \cup {v}) = Cardinality(S) + 1
      BY <3>1, <3>2, FS_AddElement
    <3> QED
      BY <3>1, <3>3 DEF S
  <2>6. ASSUME NEW d \in Colors
        PROVE  CountOf(data'[w], d) = CountOf(data[w], d) + (IF d = c THEN 1 ELSE 0)
    BY <1>3, <1>4, <1>5, CountOfCountOne DEF Colors
  <2>7. ASSUME NEW d \in Colors, NEW x \in Workers
        PROVE  CountOf(data'[x], d) = Cardinality({u \in Colored(d)' : now[u] = x})
    <3>1. CountOf(data[x], d) = Cardinality({u \in Colored(d) : who[u] = x})
      BY <2>1 DEF CountedBy
    <3>2. CASE x # w
      BY <1>5, <2>4, <3>1, <3>2
    <3>3. CASE x = w /\ d # c
      <4>1. CountOf(data[w], d) \in Nat
        <5>1. Cardinality({u \in Colored(d) : who[u] = x}) \in Nat
          BY <2>3, ShareIsFinite
        <5> QED
          BY <3>1, <3>3, <5>1
      <4>2. CountOf(data'[w], d) = CountOf(data[w], d)
        BY <2>6, <3>3, <4>1
      <4>3. {u \in Colored(d)' : now[u] = x} = {u \in Colored(d) : who[u] = x}
        BY <2>4, <3>3
      <4> QED
        BY <3>1, <3>3, <4>2, <4>3
    <3>4. CASE x = w /\ d = c
      BY <2>5, <2>6, <3>1, <3>4
    <3> QED
      BY <3>2, <3>3, <3>4
  <2>8. ASSUME NEW d \in Colors
        PROVE  CountOf(total', d) = Cardinality({u \in Colored(d)' : now[u] = Nobody})
    BY <1>1, <2>1, <2>3, <2>4 DEF CountedBy
  <2>9. CountedBy(now)'
    BY <2>7, <2>8 DEF CountedBy
  <2> QED
    BY <2>2, <2>9 DEF CountedOnce
<1>12. phases' = << >>
  BY <1>1, NothingCollected
<1> QED
  BY <1>9, <1>10, <1>11, <1>12 DEF PhaseInv, Collected

(* The vertices that a joined ColorData counted are in the joined one.     *)
LEMMA JoinKeepsPhases ==
    ASSUME GInv, PhaseInv, NEW w \in Workers, Join(w)
    PROVE  PhaseInv'
<1>1. /\ pc[w] = "idle" /\ data[w] # << >>
      /\ total' = JoinData(total, data[w])
      /\ data' = [data EXCEPT ![w] = << >>]
      /\ UNCHANGED <<color, todo, pc, cur, phases>>
  BY DEF Join
<1>2. /\ data[w] \in Seq(Nat) /\ total \in Seq(Nat)
      /\ Len(data[w]) \in Nat /\ Len(total) \in Nat
      /\ ColorLimit \in Nat
  BY ColorLimitAssumption DEF GInv, IInv, TypeOK
<1>3. data'[w] = << >> /\ \A x \in Workers \ {w} : data'[x] = data[x]
  BY <1>1 DEF GInv, IInv, TypeOK
<1>4. \A c : Colored(c)' = Colored(c)
  BY <1>1 DEF Colored
<1>5. KnownAreUsed'
  <2>1. Len(total') = IF Len(total) < Len(data[w]) THEN Len(data[w]) ELSE Len(total)
    BY <1>1, <1>2, JoinIsData
  <2>2. ASSUME NEW c \in 0 .. Len(total') - 1
        PROVE  Colored(c) # {}
    <3>1. c \in 0 .. Len(total) - 1 \/ c \in 0 .. Len(data[w]) - 1
      BY <1>2, <2>1
    <3> QED
      BY <3>1 DEF PhaseInv, KnownAreUsed
  <2>3. 0 .. Len(data'[w]) - 1 = {}
    <3>1. Len(data'[w]) = 0
      BY <1>3
    <3> QED
      BY <3>1
  <2>4. \A x \in Workers : \A c \in 0 .. Len(data'[x]) - 1 : Colored(c)' # {}
    BY <1>3, <1>4, <2>3 DEF PhaseInv, KnownAreUsed
  <2> QED
    BY <1>1, <1>4, <2>2, <2>4 DEF PhaseInv, KnownAreUsed
<1>6. CountedOnce'
  <2>1. PICK who \in [Vertices -> Workers \cup {Nobody}] : CountedBy(who)
    BY DEF PhaseInv, CountedOnce
  <2> DEFINE now == [u \in Vertices |-> IF who[u] = w THEN Nobody ELSE who[u]]
  <2>2. /\ now \in [Vertices -> Workers \cup {Nobody}]
        /\ \A u \in Vertices : now[u] = IF who[u] = w THEN Nobody ELSE who[u]
    BY <2>1
  <2> HIDE DEF now
  <2>3. w # Nobody /\ \A d : Colored(d) \subseteq Vertices
    BY NobodyAssumption DEF Colored
  <2>4. ASSUME NEW d \in Colors
        PROVE  CountOf(data'[w], d) = Cardinality({u \in Colored(d)' : now[u] = w})
    <3>1. CountOf(data'[w], d) = 0
      <4>1. Len(data'[w]) = 0 /\ d \in Nat
        BY <1>2, <1>3 DEF Colors
      <4> QED
        BY <4>1 DEF CountOf
    <3>2. {u \in Colored(d)' : now[u] = w} = {}
      BY <1>4, <2>2, <2>3
    <3> QED
      BY <3>1, <3>2, FS_EmptySet
  <2>5. ASSUME NEW d \in Colors, NEW x \in Workers \ {w}
        PROVE  CountOf(data'[x], d) = Cardinality({u \in Colored(d)' : now[u] = x})
    <3>1. x # Nobody
      BY NobodyAssumption
    <3>2. {u \in Colored(d)' : now[u] = x} = {u \in Colored(d) : who[u] = x}
      BY <1>4, <2>2, <2>3, <3>1
    <3>3. CountOf(data[x], d) = Cardinality({u \in Colored(d) : who[u] = x})
      BY <2>1 DEF CountedBy
    <3> QED
      BY <1>3, <3>2, <3>3
  <2>6. ASSUME NEW d \in Colors
        PROVE  CountOf(total', d) = Cardinality({u \in Colored(d)' : now[u] = Nobody})
    <3> DEFINE S == {u \in Colored(d) : who[u] = Nobody}
               T == {u \in Colored(d) : who[u] = w}
    <3>1. {u \in Colored(d)' : now[u] = Nobody} = S \cup T /\ S \cap T = {}
      BY <1>4, <2>2, <2>3
    <3>2. /\ IsFiniteSet(S) /\ Cardinality(S) \in Nat
          /\ IsFiniteSet(T) /\ Cardinality(T) \in Nat
      BY <2>3, ShareIsFinite
    <3>3. CountOf(total, d) = Cardinality(S) /\ CountOf(data[w], d) = Cardinality(T)
      BY <2>1 DEF CountedBy
    <3>4. CountOf(total', d) = CountOf(total, d) + CountOf(data[w], d)
      BY <1>1, <1>2, CountOfJoin DEF Colors
    <3> HIDE DEF S, T
    <3>5. Cardinality(S \cup T) = Cardinality(S) + Cardinality(T) - Cardinality({})
      BY <3>1, <3>2, FS_Union
    <3>6. Cardinality(S \cup T) = Cardinality(S) + Cardinality(T)
      BY <3>2, <3>5, FS_EmptySet
    <3> QED
      BY <3>1, <3>3, <3>4, <3>6
  <2>7. CountedBy(now)'
    BY <2>4, <2>5, <2>6 DEF CountedBy
  <2> QED
    BY <2>2, <2>7 DEF CountedOnce
<1>7. phases' = << >>
  BY <1>1, NothingCollected
<1> QED
  BY <1>1, <1>5, <1>6, <1>7 DEF PhaseInv, UncoloredAreToCome, Collected

(* The counts are those of the coloured vertices, however they are joined. *)
LEMMA NextKeepsPhases == GInv /\ PhaseInv /\ [Next]_vars => PhaseInv'
<1> SUFFICES ASSUME GInv, PhaseInv, [Next]_vars PROVE PhaseInv'
  OBVIOUS
<1>1. CASE UNCHANGED vars
  <2>1. UNCHANGED <<color, todo, pc, cur, data, total, phases>>
    BY <1>1 DEF vars
  <2>2. \A c : Colored(c)' = Colored(c)
    BY <2>1 DEF Colored
  <2> QED
    BY <2>1, <2>2 DEF PhaseInv, KnownAreUsed, UncoloredAreToCome, CountedOnce, CountedBy, Collected
<1>2. ASSUME NEW w \in Workers, UNCHANGED <<color, data, total, phases>>,
             UncoloredAreToCome', phases = << >>
      PROVE  PhaseInv'
  <2>1. \A c : Colored(c)' = Colored(c)
    BY <1>2 DEF Colored
  <2> QED
    BY <1>2, <2>1 DEF PhaseInv, KnownAreUsed, CountedOnce, CountedBy, Collected
<1>3. ASSUME NEW w \in Workers, Take(w)
      PROVE  PhaseInv'
  <2>1. PICK v \in todo : /\ todo' = todo \ {v} /\ cur'[w] = v /\ pc'[w] = "lock"
    BY <1>3 DEF Take, GInv, IInv, TypeOK
  <2>2. /\ pc[w] = "idle" /\ UNCHANGED <<color, data, total, phases>>
        /\ \A x \in Workers \ {w} : pc'[x] = pc[x] /\ cur'[x] = cur[x]
    BY <1>3 DEF Take, GInv, IInv, TypeOK
  <2>3. UncoloredAreToCome'
    BY <2>1, <2>2 DEF PhaseInv, UncoloredAreToCome, Pcs
  <2>4. phases = << >>
    BY <2>1 DEF PhaseInv, Collected
  <2> QED
    BY <1>2, <2>2, <2>3, <2>4
<1>4. ASSUME NEW w \in Workers, Lock(w) \/ Throw(w)
      PROVE  PhaseInv'
  <2>1. /\ pc[w] \in {"lock", "choose"} /\ pc'[w] \in Pcs \ {"idle", "unlock"}
        /\ UNCHANGED <<color, data, total, phases, cur, todo>>
        /\ \A x \in Workers \ {w} : pc'[x] = pc[x]
    BY <1>4 DEF Lock, Throw, GInv, IInv, TypeOK, Pcs
  <2>2. UncoloredAreToCome'
    BY <2>1 DEF PhaseInv, UncoloredAreToCome
  <2>3. phases = << >>
    BY <2>1, NothingCollected
  <2> QED
    BY <1>2, <2>1, <2>2, <2>3
<1>5. ASSUME NEW w \in Workers, Unlock(w)
      PROVE  PhaseInv'
  <2>1. /\ pc[w] = "unlock" /\ UNCHANGED <<color, data, total, phases, todo>>
        /\ \A x \in Workers \ {w} : pc'[x] = pc[x] /\ cur'[x] = cur[x]
    BY <1>5 DEF Unlock, GInv, IInv, TypeOK
  <2>2. UncoloredAreToCome'
    BY <2>1 DEF PhaseInv, UncoloredAreToCome
  <2>3. phases = << >>
    BY <2>1, NothingCollected
  <2> QED
    BY <1>2, <2>1, <2>2, <2>3
<1>6. CASE Collect
  <2>1. UNCHANGED <<color, todo, pc, cur, data, total>>
    BY <1>6 DEF Collect
  <2>2. \A c : Colored(c)' = Colored(c)
    BY <2>1 DEF Colored
  <2>3. KnownAreUsed' /\ UncoloredAreToCome' /\ CountedOnce'
    BY <2>1, <2>2 DEF PhaseInv, KnownAreUsed, UncoloredAreToCome, CountedOnce, CountedBy
  <2>4. Collected'
    <3>1. phases' = [i \in 1 .. Len(total) |-> Colored(i - 1)]
      BY <1>6 DEF Collect, Colored
    <3>2. todo = {} /\ \A w \in Workers : pc[w] = "idle" /\ data[w] = << >>
      BY <1>6 DEF Collect
    <3> QED
      BY <2>1, <2>2, <3>1, <3>2 DEF Collected
  <2> QED
    BY <2>3, <2>4 DEF PhaseInv
<1> QED
  BY <1>1, <1>3, <1>4, <1>5, <1>6, ReadKeepsPhases, ChooseKeepsPhases, JoinKeepsPhases
  DEF Next, Worker, Spin, Finished

(* Nothing is counted in the beginning. *)
LEMMA InitPhases == Init => PhaseInv
<1> SUFFICES ASSUME Init PROVE PhaseInv
  OBVIOUS
<1>1. /\ \A v \in Vertices : color[v] = Uncolored
      /\ \A w \in Workers : data[w] = << >>
      /\ total = << >> /\ phases = << >> /\ todo = Vertices
  BY DEF Init
<1>2. \A c \in Colors : c # Uncolored /\ c \in Nat
  BY UncoloredAssumption, ColorLimitAssumption DEF Colors
<1>3. \A c \in Colors : Colored(c) = {}
  BY <1>1, <1>2 DEF Colored
<1>4. \A c \in Nat : CountOf(<< >>, c) = 0
  <2>1. Len(<< >>) = 0
    OBVIOUS
  <2> QED
    BY <2>1 DEF CountOf
<1>5. CountedOnce
  <2> DEFINE who == [v \in Vertices |-> Nobody]
  <2>1. ASSUME NEW c \in Colors, NEW x
        PROVE  Cardinality({v \in Colored(c) : who[v] = x}) = 0
    <3> HIDE DEF who
    <3>1. {v \in Colored(c) : who[v] = x} = {}
      BY <1>3
    <3> QED
      BY <3>1, FS_EmptySet
  <2>2. who \in [Vertices -> Workers \cup {Nobody}]
    OBVIOUS
  <2> HIDE DEF who
  <2>3. CountedBy(who)
    BY <1>1, <1>2, <1>4, <2>1 DEF CountedBy
  <2> QED
    BY <2>2, <2>3 DEF CountedOnce
<1>6. KnownAreUsed
  <2>1. 0 .. Len(<< >>) - 1 = {}
    <3>1. Len(<< >>) = 0
      OBVIOUS
    <3> QED
      BY <3>1
  <2> QED
    BY <1>1, <2>1, UncoloredAssumption DEF KnownAreUsed
<1> QED
  BY <1>1, <1>5, <1>6 DEF PhaseInv, UncoloredAreToCome, Collected

(* The counts are right once everything is joined.                         *)
LEMMA PhasesFollow == TypeOK /\ PhaseInv => PhasesAreCounted
<1> SUFFICES ASSUME TypeOK, PhaseInv, phases # << >>
             PROVE  /\ \A v \in Vertices : \E i \in 1 .. Len(phases) : v \in phases[i]
                    /\ \A i \in 1 .. Len(phases) :
                         Cardinality(phases[i]) = total[i] /\ total[i] > 0
  BY DEF PhasesAreCounted
<1>1. /\ phases = [i \in 1 .. Len(total) |-> Colored(i - 1)]
      /\ todo = {}
      /\ \A w \in Workers : pc[w] = "idle" /\ data[w] = << >>
  BY DEF PhaseInv, Collected
<1>2. total \in Seq(Nat) /\ Len(total) \in Nat /\ Len(total) <= ColorLimit /\ ColorLimit \in Nat
  BY ColorLimitAssumption DEF TypeOK
<1>3. Len(phases) = Len(total) /\ \A i \in 1 .. Len(total) : phases[i] = Colored(i - 1)
  <2>1. DOMAIN phases = 1 .. Len(total) /\ phases \in Seq(SUBSET Vertices)
    BY <1>1 DEF TypeOK
  <2>2. DOMAIN phases = 1 .. Len(phases) /\ Len(phases) \in Nat
    BY <2>1
  <2>3. Len(phases) = Len(total)
    BY <1>2, <2>1, <2>2
  <2> QED
    BY <1>1, <2>3
<1>4. PICK who \in [Vertices -> Workers \cup {Nobody}] : CountedBy(who)
  BY DEF PhaseInv, CountedOnce
<1>5. ASSUME NEW v \in Vertices, color[v] \in Colors
      PROVE  who[v] = Nobody
  <2>1. ASSUME NEW w \in Workers, who[v] = w
        PROVE  FALSE
    <3> DEFINE S == {u \in Colored(color[v]) : who[u] = w}
    <3>1. v \in S /\ S \in SUBSET Vertices
      BY <1>5, <2>1 DEF Colored
    <3>2. CountOf(data[w], color[v]) = Cardinality(S)
      BY <1>4, <1>5 DEF CountedBy
    <3>3. CountOf(data[w], color[v]) = 0
      <4>1. data[w] = << >> /\ color[v] \in Nat /\ Len(<< >>) = 0
        BY <1>1, <1>2, <1>5 DEF Colors
      <4> QED
        BY <4>1 DEF CountOf
    <3> HIDE DEF S
    <3>4. IsFiniteSet(S)
      BY <3>1, ShareIsFinite
    <3> QED
      BY <3>1, <3>2, <3>3, <3>4, FS_EmptySet
  <2> QED
    BY <2>1
<1>6. ASSUME NEW c \in Colors
      PROVE  CountOf(total, c) = Cardinality(Colored(c))
  <2>1. {v \in Colored(c) : who[v] = Nobody} = Colored(c)
    BY <1>5, <1>6 DEF Colored
  <2> QED
    BY <1>4, <2>1 DEF CountedBy
<1>7. ASSUME NEW c \in Colors, Colored(c) # {}
      PROVE  Cardinality(Colored(c)) > 0
  <2>1. IsFiniteSet(Colored(c)) /\ Cardinality(Colored(c)) \in Nat
    BY ShareIsFinite DEF Colored
  <2>2. Cardinality(Colored(c)) # 0
    BY <1>7, <2>1, FS_EmptySet
  <2> QED
    BY <2>1, <2>2
<1>8. ASSUME NEW v \in Vertices
      PROVE  \E i \in 1 .. Len(phases) : v \in phases[i]
  <2>1. color[v] # Uncolored
    BY <1>1 DEF PhaseInv, UncoloredAreToCome
  <2>2. color[v] \in Colors /\ color[v] \in Nat
    BY <1>2, <2>1 DEF TypeOK, Colors
  <2>3. v \in Colored(color[v])
    BY DEF Colored
  <2>4. CountOf(total, color[v]) > 0
    BY <1>6, <1>7, <2>2, <2>3
  <2>5. color[v] < Len(total)
    BY <1>2, <2>2, <2>4 DEF CountOf
  <2>6. color[v] + 1 \in 1 .. Len(total) /\ (color[v] + 1) - 1 = color[v]
    BY <1>2, <2>2, <2>5
  <2>7. phases[color[v] + 1] = Colored(color[v])
    BY <1>3, <2>6
  <2> QED
    BY <1>3, <2>3, <2>6, <2>7
<1>9. ASSUME NEW i \in 1 .. Len(phases)
      PROVE  Cardinality(phases[i]) = total[i] /\ total[i] > 0
  <2>1. i - 1 \in Colors /\ i - 1 \in 0 .. Len(total) - 1 /\ i \in 1 .. Len(total)
    BY <1>2, <1>3 DEF Colors
  <2>2. phases[i] = Colored(i - 1)
    BY <1>3, <2>1
  <2>3. CountOf(total, i - 1) = total[i]
    <3>1. i - 1 < Len(total) /\ (i - 1) + 1 = i
      BY <1>2, <2>1
    <3> QED
      BY <3>1 DEF CountOf
  <2>4. Colored(i - 1) # {}
    BY <2>1 DEF PhaseInv, KnownAreUsed
  <2> QED
    BY <1>6, <1>7, <2>1, <2>2, <2>3, <2>4
<1> QED
  BY <1>8, <1>9

(* In the result every vertex is in its phase and the phases have the      *)
(* sizes that were reserved for them, however the vertices are shared out  *)
(* and the partial counts joined (hierarchy.cpp:369-386).                  *)
THEOREM PhasesAreComplete == Spec => []PhasesAreCounted
<1>1. Init => GInv /\ PhaseInv
  BY InitRefinement, InitPhases
<1>2. GInv /\ PhaseInv /\ [Next]_vars => GInv' /\ PhaseInv'
  BY NextInvariant, UsedIsAroundInvariant, TakenOnceInvariant, NextKeepsPhases DEF GInv
<1>3. GInv /\ PhaseInv => PhasesAreCounted
  BY PhasesFollow DEF GInv, IInv
<1> QED
  BY <1>1, <1>2, <1>3, PTL DEF Spec

-----------------------------------------------------------------------------
(* The whole function: both loops share the mutexes.                       *)

(* From the first lock to the last unlock, and from the second lock to its *)
(* unlock.                                                                 *)
HoldsJ == {"lock k", "read", "write j", "write k", "unlock k", "unlock j"}
HoldsK == {"read", "write j", "write k", "unlock k"}

(* A thread in the first loop holds what it locked. *)
SwapLocks ==
    \A w \in Workers :
        /\ swap[w] # "idle" => j[w] < k[w]
        /\ swap[w] \in HoldsJ => mutex[j[w]] = w
        /\ swap[w] \in HoldsK => mutex[k[w]] = w

(* Nobody holds anything else. *)
SwapHolds ==
    \A i \in Vertices, w \in Workers :
        loop = "shuffle" /\ mutex[i] = w =>
            (swap[w] \in HoldsJ /\ i = j[w]) \/ (swap[w] \in HoldsK /\ i = k[w])

(* The temporary has what perm[j] has. *)
SwapSaved == \A w \in Workers : swap[w] = "write j" => tmp[w] = perm[j[w]]

ShuffleInv ==
    /\ Shuffle!TypeOK
    /\ SwapLocks
    /\ SwapHolds
    /\ SwapSaved
    /\ Shuffle!StaysPermutation

(* The second loop has not begun. *)
NotBegun ==
    /\ doubled \in Doubles
    /\ color = [v \in Vertices |-> Uncolored]
    /\ todo = Vertices
    /\ pc = [w \in Workers |-> "idle"]
    /\ cur = [w \in Workers |-> Nobody]
    /\ left = [w \in Workers |-> {}]
    /\ used = [w \in Workers |-> {}]
    /\ data = [w \in Workers |-> << >>]
    /\ total = << >>
    /\ phases = << >>

ColorInv == LocksInv /\ GInv /\ PhaseInv

LevelInv ==
    /\ loop \in {"shuffle", "color"}
    /\ ShuffleInv
    /\ loop = "shuffle" => NotBegun
    /\ loop = "color" => ColorInv /\ \A w \in Workers : swap[w] = "idle"

-----------------------------------------------------------------------------
(* The first loop.                                                         *)

(* The entries of perm have the numbers of the vertices. *)
LEMMA PositionsAreVertices ==
    Shuffle!Positions = Vertices /\ 0 \in Vertices /\ Cardinality(Vertices) \in Nat
<1>1. Cardinality(Vertices) \in Nat
  BY VerticesAssumption, FS_CardinalityType
<1>2. Shuffle!Positions = Vertices
  BY NumberedAssumption DEF Shuffle!Positions
<1>3. 0 .. Cardinality(Vertices) - 1 # {}
  BY NumberedAssumption, VerticesAssumption
<1>4. 0 \in 0 .. Cardinality(Vertices) - 1
  BY <1>1, <1>3
<1> QED
  BY <1>1, <1>2, <1>4, NumberedAssumption

(* The types of the first loop, written out. *)
ShuffleTypes ==
    /\ perm \in [Vertices -> Vertices]
    /\ mutex \in [Vertices -> Workers \cup {Nobody}]
    /\ range \subseteq Vertices
    /\ swap \in [Workers -> Shuffle!Pcs]
    /\ j \in [Workers -> Vertices]
    /\ k \in [Workers -> Vertices]
    /\ tmp \in [Workers -> Vertices]

(* The types of the shuffle, written out for the provers. *)
LEMMA ShuffleTypesAre == Shuffle!TypeOK <=> ShuffleTypes
BY PositionsAreVertices DEF Shuffle!TypeOK, ShuffleTypes

(* A thread in the first loop knows whether it holds its mutexes. *)
LEMMA HeldIsHeld ==
    ASSUME ShuffleInv, loop = "shuffle", NEW w \in Workers, NEW x \in Workers, w # x
    PROVE  /\ swap[w] \in HoldsK => k[w] \in Vertices /\ mutex[k[w]] = w
           /\ swap[w] \in HoldsJ => j[w] \in Vertices /\ mutex[j[w]] = w
           /\ swap[w] \in HoldsK /\ swap[x] \in HoldsK => k[w] # k[x]
           /\ swap[w] \in HoldsJ /\ swap[x] \in HoldsK => j[w] # k[x]
           /\ swap[w] \in HoldsJ /\ swap[x] \in HoldsJ => j[w] # j[x]
BY ShuffleTypesAre DEF ShuffleInv, ShuffleTypes, SwapLocks

(* A step that neither writes perm nor ends or begins a half-done swap.    *)
LEMMA PermutationKept ==
    ASSUME ShuffleInv, UNCHANGED perm,
           \A x \in Workers : swap'[x] = "write k" <=> swap[x] = "write k",
           \A x \in Workers : swap[x] = "write k" => k'[x] = k[x] /\ tmp'[x] = tmp[x]
    PROVE  Shuffle!StaysPermutation'
<1> USE DEF ShuffleInv
<1>1. Shuffle!HalfSwapped' = Shuffle!HalfSwapped
  BY DEF Shuffle!HalfSwapped
<1>2. \A x \in Shuffle!HalfSwapped : k'[x] = k[x] /\ tmp'[x] = tmp[x]
  BY DEF Shuffle!HalfSwapped
<1>3. {k'[x] : x \in Shuffle!HalfSwapped} = {k[x] : x \in Shuffle!HalfSwapped}
  BY <1>2
<1>4. {tmp'[x] : x \in Shuffle!HalfSwapped} = {tmp[x] : x \in Shuffle!HalfSwapped}
  BY <1>2
<1> QED
  BY <1>1, <1>3, <1>4 DEF Shuffle!StaysPermutation, Shuffle!Positions

(* One lemma for each step of the shuffle. Here a worker takes an index    *)
(* (hierarchy.cpp:293-304).                                                *)
LEMMA TakeKeepsShuffle ==
    ASSUME ShuffleInv, loop = "shuffle", UNCHANGED loop, NEW w \in Workers, Shuffle!Take(w)
    PROVE  ShuffleInv'
<1>0. ShuffleTypes
  BY ShuffleTypesAre DEF ShuffleInv
<1>a. PICK i \in range : \E r \in i .. Cardinality(Vertices) - 1 :
        /\ range' = range \ {i}
        /\ IF i = r THEN UNCHANGED <<j, k, swap>>
           ELSE /\ j' = [j EXCEPT ![w] = i]
                /\ k' = [k EXCEPT ![w] = r]
                /\ swap' = [swap EXCEPT ![w] = "lock j"]
  BY DEF Shuffle!Take
<1>1. PICK r \in i .. Cardinality(Vertices) - 1 :
        /\ range' = range \ {i}
        /\ IF i = r THEN UNCHANGED <<j, k, swap>>
           ELSE /\ j' = [j EXCEPT ![w] = i]
                /\ k' = [k EXCEPT ![w] = r]
                /\ swap' = [swap EXCEPT ![w] = "lock j"]
  BY <1>a
<1>2. swap[w] = "idle" /\ UNCHANGED <<perm, mutex, tmp>>
  BY DEF Shuffle!Take
<1>3. i \in Vertices /\ i \in Nat /\ r \in Vertices /\ r \in Nat /\ i <= r
  <2>1. i \in Vertices /\ i \in Nat
    BY <1>0, <1>1, VerticesAssumption DEF ShuffleTypes
  <2>2. r \in 0 .. Cardinality(Vertices) - 1 /\ i <= r
    <3> DEFINE n == Cardinality(Vertices)
    <3>1. n \in Nat /\ r \in i .. n - 1
      BY PositionsAreVertices
    <3> HIDE DEF n
    <3>2. r \in 0 .. n - 1 /\ i <= r
      BY <2>1, <3>1
    <3> QED
      BY <3>2 DEF n
  <2>3. r \in Vertices
    BY <2>2, NumberedAssumption
  <2> QED
    BY <2>1, <2>2, <2>3, VerticesAssumption
<1>4. CASE i = r
  <2>1. UNCHANGED <<j, k, swap>>
    BY <1>1, <1>4
  <2>2. ShuffleTypes'
    BY <1>0, <1>1, <1>2, <2>1 DEF ShuffleTypes, Shuffle!Pcs
  <2>3. Shuffle!TypeOK'
    BY <2>2, ShuffleTypesAre, PTL
  <2>4. Shuffle!StaysPermutation'
    BY <1>2, <2>1, PermutationKept
  <2> QED
    BY <1>2, <2>1, <2>3, <2>4 DEF ShuffleInv, SwapLocks, SwapHolds, SwapSaved
<1>5. CASE i # r
  <2>1. /\ j'[w] = i /\ k'[w] = r /\ swap'[w] = "lock j"
        /\ \A x \in Workers \ {w} : j'[x] = j[x] /\ k'[x] = k[x] /\ swap'[x] = swap[x]
    BY <1>0, <1>1, <1>5 DEF ShuffleTypes
  <2>2. ShuffleTypes'
    <3>1. range' \subseteq Vertices
      BY <1>0, <1>1 DEF ShuffleTypes
    <3>2. swap' \in [Workers -> Shuffle!Pcs]
      BY <1>0, <1>1, <1>5 DEF ShuffleTypes, Shuffle!Pcs
    <3>3. j' \in [Workers -> Vertices] /\ k' \in [Workers -> Vertices]
      BY <1>0, <1>1, <1>3, <1>5 DEF ShuffleTypes
    <3> QED
      BY <1>0, <1>2, <3>1, <3>2, <3>3 DEF ShuffleTypes, Shuffle!Pcs
  <2>3. Shuffle!TypeOK'
    BY <2>2, ShuffleTypesAre, PTL
  <2>4. Shuffle!StaysPermutation'
    BY <1>2, <2>1, PermutationKept
  <2>5. i < r
    BY <1>3, <1>5
  <2>6. SwapLocks'
    <3>1. ASSUME NEW x \in Workers
          PROVE  /\ swap'[x] # "idle" => j'[x] < k'[x]
                 /\ swap'[x] \in HoldsJ => mutex'[j'[x]] = x
                 /\ swap'[x] \in HoldsK => mutex'[k'[x]] = x
      <4>1. CASE x = w
        BY <2>1, <2>5, <4>1 DEF HoldsJ, HoldsK
      <4>2. CASE x # w
        BY <1>2, <2>1, <4>2 DEF ShuffleInv, SwapLocks
      <4> QED
        BY <4>1, <4>2
    <3> QED
      BY <3>1 DEF SwapLocks
  <2>7. SwapHolds'
    BY <1>2, <2>1 DEF ShuffleInv, SwapHolds, HoldsJ, HoldsK
  <2>8. SwapSaved'
    BY <1>2, <2>1 DEF ShuffleInv, SwapSaved
  <2> QED
    BY <2>3, <2>4, <2>6, <2>7, <2>8 DEF ShuffleInv
<1> QED
  BY <1>4, <1>5

(* It locks one of the two positions (hierarchy.cpp:305-306). *)
LEMMA LockKeepsShuffle ==
    ASSUME ShuffleInv, loop = "shuffle", UNCHANGED loop, NEW w \in Workers,
           Shuffle!LockJ(w) \/ Shuffle!LockK(w)
    PROVE  ShuffleInv'
<1>0. ShuffleTypes
  BY ShuffleTypesAre DEF ShuffleInv
<1>1. PICK i \in Vertices :
        /\ mutex[i] = Nobody /\ mutex' = [mutex EXCEPT ![i] = w]
        /\ UNCHANGED <<perm, range, j, k, tmp>>
        /\ \/ i = j[w] /\ swap[w] = "lock j" /\ swap' = [swap EXCEPT ![w] = "lock k"]
           \/ i = k[w] /\ swap[w] = "lock k" /\ swap' = [swap EXCEPT ![w] = "read"]
  <2>1. j[w] \in Vertices /\ k[w] \in Vertices
    BY <1>0 DEF ShuffleTypes
  <2> QED
    BY <2>1 DEF Shuffle!LockJ, Shuffle!LockK, Shuffle!Acquire
<1>2. mutex'[i] = w /\ \A u \in Vertices \ {i} : mutex'[u] = mutex[u]
  BY <1>0, <1>1 DEF ShuffleTypes
<1>3. /\ \A x \in Workers \ {w} : swap'[x] = swap[x]
      /\ \/ i = j[w] /\ swap[w] = "lock j" /\ swap'[w] = "lock k"
         \/ i = k[w] /\ swap[w] = "lock k" /\ swap'[w] = "read"
  BY <1>0, <1>1 DEF ShuffleTypes
<1>4. ShuffleTypes'
  <2>1. swap' \in [Workers -> Shuffle!Pcs]
    BY <1>0, <1>1 DEF ShuffleTypes, Shuffle!Pcs
  <2>2. mutex' \in [Vertices -> Workers \cup {Nobody}]
    BY <1>0, <1>1 DEF ShuffleTypes
  <2> QED
    BY <1>0, <1>1, <2>1, <2>2 DEF ShuffleTypes, Shuffle!Pcs
<1>5. Shuffle!TypeOK'
  BY <1>4, ShuffleTypesAre, PTL
<1>6. Shuffle!StaysPermutation'
  BY <1>1, <1>3, PermutationKept
<1>7. \A x \in Workers, u \in Vertices : mutex[u] = x => mutex'[u] = x
  BY <1>1, <1>2, NobodyAssumption
<1>8. SwapLocks'
  <2>1. ASSUME NEW x \in Workers
        PROVE  /\ swap'[x] # "idle" => j'[x] < k'[x]
               /\ swap'[x] \in HoldsJ => mutex'[j'[x]] = x
               /\ swap'[x] \in HoldsK => mutex'[k'[x]] = x
    <3>1. j[x] \in Vertices /\ k[x] \in Vertices
      BY <1>0 DEF ShuffleTypes
    <3>2. CASE x = w
      BY <1>1, <1>2, <1>3, <1>7, <3>1, <3>2 DEF ShuffleInv, SwapLocks, HoldsJ, HoldsK
    <3>3. CASE x # w
      BY <1>1, <1>3, <1>7, <3>1, <3>3 DEF ShuffleInv, SwapLocks
    <3> QED
      BY <3>2, <3>3
  <2> QED
    BY <2>1 DEF SwapLocks
<1>9. SwapHolds'
  <2>1. ASSUME NEW u \in Vertices, NEW x \in Workers, mutex'[u] = x
        PROVE  (swap'[x] \in HoldsJ /\ u = j'[x]) \/ (swap'[x] \in HoldsK /\ u = k'[x])
    <3>1. CASE u = i
      <4>1. x = w
        BY <1>2, <2>1, <3>1
      <4> QED
        BY <1>1, <1>3, <3>1, <4>1 DEF HoldsJ, HoldsK
    <3>2. CASE u # i
      <4>1. (swap[x] \in HoldsJ /\ u = j[x]) \/ (swap[x] \in HoldsK /\ u = k[x])
        BY <1>2, <2>1, <3>2 DEF ShuffleInv, SwapHolds
      <4> QED
        BY <1>1, <1>3, <4>1 DEF HoldsJ, HoldsK
    <3> QED
      BY <3>1, <3>2
  <2> QED
    BY <2>1 DEF SwapHolds
<1>10. SwapSaved'
  BY <1>1, <1>3 DEF ShuffleInv, SwapSaved
<1> QED
  BY <1>5, <1>6, <1>8, <1>9, <1>10 DEF ShuffleInv

(* It unlocks one of them (hierarchy.cpp:305-308). *)
LEMMA UnlockKeepsShuffle ==
    ASSUME ShuffleInv, loop = "shuffle", UNCHANGED loop, NEW w \in Workers,
           Shuffle!UnlockJ(w) \/ Shuffle!UnlockK(w)
    PROVE  ShuffleInv'
<1>0. ShuffleTypes
  BY ShuffleTypesAre DEF ShuffleInv
<1>1. PICK i \in Vertices :
        /\ mutex' = [mutex EXCEPT ![i] = Nobody]
        /\ UNCHANGED <<perm, range, j, k, tmp>>
        /\ \/ i = k[w] /\ swap[w] = "unlock k" /\ swap' = [swap EXCEPT ![w] = "unlock j"]
           \/ i = j[w] /\ swap[w] = "unlock j" /\ swap' = [swap EXCEPT ![w] = "idle"]
  <2>1. j[w] \in Vertices /\ k[w] \in Vertices
    BY <1>0 DEF ShuffleTypes
  <2> QED
    BY <2>1 DEF Shuffle!UnlockJ, Shuffle!UnlockK, Shuffle!Release
<1>2. mutex'[i] = Nobody /\ \A u \in Vertices \ {i} : mutex'[u] = mutex[u]
  BY <1>0, <1>1 DEF ShuffleTypes
<1>3. /\ \A x \in Workers \ {w} : swap'[x] = swap[x]
      /\ \/ i = k[w] /\ swap[w] = "unlock k" /\ swap'[w] = "unlock j"
         \/ i = j[w] /\ swap[w] = "unlock j" /\ swap'[w] = "idle"
  BY <1>0, <1>1 DEF ShuffleTypes
<1>4. ShuffleTypes'
  <2>1. swap' \in [Workers -> Shuffle!Pcs]
    BY <1>0, <1>1 DEF ShuffleTypes, Shuffle!Pcs
  <2>2. mutex' \in [Vertices -> Workers \cup {Nobody}]
    BY <1>0, <1>1 DEF ShuffleTypes
  <2> QED
    BY <1>0, <1>1, <2>1, <2>2 DEF ShuffleTypes, Shuffle!Pcs
<1>5. Shuffle!TypeOK'
  BY <1>4, ShuffleTypesAre, PTL
<1>6. Shuffle!StaysPermutation'
  BY <1>1, <1>3, PermutationKept
<1>7. mutex[i] = w
  BY <1>1 DEF ShuffleInv, SwapLocks, HoldsJ, HoldsK
<1>8. SwapLocks'
  <2>1. ASSUME NEW x \in Workers
        PROVE  /\ swap'[x] # "idle" => j'[x] < k'[x]
               /\ swap'[x] \in HoldsJ => mutex'[j'[x]] = x
               /\ swap'[x] \in HoldsK => mutex'[k'[x]] = x
    <3>1. j[x] \in Vertices /\ k[x] \in Vertices
      BY <1>0 DEF ShuffleTypes
    <3>2. CASE x = w
      <4>1. swap[w] # "idle" => j[w] < k[w]
        BY DEF ShuffleInv, SwapLocks
      <4>2. CASE swap[w] = "unlock k"
        <5>1. i = k[w] /\ swap'[w] = "unlock j" /\ mutex[j[w]] = w /\ j[w] < k[w]
          BY <1>3, <4>1, <4>2 DEF ShuffleInv, SwapLocks, HoldsJ
        <5>2. j[w] # i
          <6>1. j[w] \in Nat /\ k[w] \in Nat
            <7>1. j[w] \in Vertices /\ k[w] \in Vertices
              BY <3>1, <3>2
            <7>2. Vertices \subseteq Nat
              BY VerticesAssumption
            <7> QED
              BY <7>1, <7>2
          <6>2. \A a, b \in Nat : a < b => a # b
            OBVIOUS
          <6>3. j[w] # k[w]
            BY <5>1, <6>1, <6>2, Zenon
          <6> QED
            BY <5>1, <6>3
        <5>3. mutex'[j[w]] = w
          BY <1>2, <3>1, <3>2, <5>1, <5>2
        <5> QED
          BY <1>1, <3>2, <5>1, <5>3 DEF HoldsJ, HoldsK
      <4>3. CASE swap[w] # "unlock k"
        <5>1. swap'[w] = "idle"
          BY <1>3, <4>3
        <5> QED
          BY <3>2, <5>1 DEF HoldsJ, HoldsK
      <4> QED
        BY <4>2, <4>3
    <3>3. CASE x # w
      <4>1. \A u \in Vertices : mutex[u] = x => mutex'[u] = x
        BY <1>2, <1>7, <3>3
      <4> QED
        BY <1>1, <1>3, <3>1, <3>3, <4>1 DEF ShuffleInv, SwapLocks
    <3> QED
      BY <3>2, <3>3
  <2> QED
    BY <2>1 DEF SwapLocks
<1>9. SwapHolds'
  <2>1. ASSUME NEW u \in Vertices, NEW x \in Workers, mutex'[u] = x
        PROVE  (swap'[x] \in HoldsJ /\ u = j'[x]) \/ (swap'[x] \in HoldsK /\ u = k'[x])
    <3>1. u # i /\ mutex[u] = x
      BY <1>2, <2>1, NobodyAssumption
    <3>2. (swap[x] \in HoldsJ /\ u = j[x]) \/ (swap[x] \in HoldsK /\ u = k[x])
      BY <3>1 DEF ShuffleInv, SwapHolds
    <3> QED
      BY <1>1, <1>3, <3>1, <3>2 DEF HoldsJ, HoldsK
  <2> QED
    BY <2>1 DEF SwapHolds
<1>10. SwapSaved'
  BY <1>1, <1>3 DEF ShuffleInv, SwapSaved
<1> QED
  BY <1>5, <1>6, <1>8, <1>9, <1>10 DEF ShuffleInv

(* A step between the locks and the unlocks. *)
LEMMA SwapKeepsLocks ==
    ASSUME ShuffleInv, UNCHANGED <<loop, mutex, j, k>>, NEW w \in Workers,
           swap[w] \in HoldsK, swap'[w] \in HoldsK,
           \A x \in Workers \ {w} : swap'[x] = swap[x]
    PROVE  SwapLocks' /\ SwapHolds'
<1>1. \A x \in Workers : /\ swap'[x] \in HoldsJ <=> swap[x] \in HoldsJ
                         /\ swap'[x] \in HoldsK <=> swap[x] \in HoldsK
  BY DEF HoldsJ, HoldsK
<1>2. \A x \in Workers : swap'[x] # "idle" => swap[x] # "idle"
  BY DEF HoldsK
<1>3. SwapLocks'
  BY <1>1, <1>2 DEF ShuffleInv, SwapLocks
<1>4. SwapHolds'
  BY <1>1 DEF ShuffleInv, SwapHolds
<1> QED
  BY <1>3, <1>4

(* It reads both entries (hierarchy.cpp:307). *)
LEMMA SwapReadKeepsShuffle ==
    ASSUME ShuffleInv, loop = "shuffle", UNCHANGED loop, NEW w \in Workers, Shuffle!SwapRead(w)
    PROVE  ShuffleInv'
<1>0. ShuffleTypes
  BY ShuffleTypesAre DEF ShuffleInv
<1>1. /\ swap[w] = "read"
      /\ tmp' = [tmp EXCEPT ![w] = perm[j[w]]]
      /\ swap' = [swap EXCEPT ![w] = "write j"]
      /\ UNCHANGED <<perm, mutex, range, j, k>>
  BY DEF Shuffle!SwapRead
<1>2. /\ tmp'[w] = perm[j[w]] /\ swap'[w] = "write j"
      /\ \A x \in Workers \ {w} : tmp'[x] = tmp[x] /\ swap'[x] = swap[x]
  BY <1>0, <1>1 DEF ShuffleTypes
<1>3. ShuffleTypes'
  <2>1. perm[j[w]] \in Vertices
    BY <1>0 DEF ShuffleTypes
  <2>2. tmp' \in [Workers -> Vertices]
    BY <1>0, <1>1, <2>1 DEF ShuffleTypes
  <2>3. swap' \in [Workers -> Shuffle!Pcs]
    BY <1>0, <1>1 DEF ShuffleTypes, Shuffle!Pcs
  <2> QED
    BY <1>0, <1>1, <2>2, <2>3 DEF ShuffleTypes, Shuffle!Pcs
<1>4. Shuffle!TypeOK'
  BY <1>3, ShuffleTypesAre, PTL
<1>5. Shuffle!StaysPermutation'
  BY <1>1, <1>2, PermutationKept
<1>6. SwapLocks' /\ SwapHolds'
  BY <1>1, <1>2, SwapKeepsLocks DEF HoldsK
<1>7. SwapSaved'
  BY <1>1, <1>2 DEF ShuffleInv, SwapSaved
<1> QED
  BY <1>4, <1>5, <1>6, <1>7 DEF ShuffleInv

(* The first write begins a half-done swap: entry k is not counted any     *)
(* more, its value is in entry j now and that of entry j in the temporary. *)
LEMMA SwapWriteJKeepsShuffle ==
    ASSUME ShuffleInv, loop = "shuffle", UNCHANGED loop, NEW w \in Workers, Shuffle!SwapWriteJ(w)
    PROVE  ShuffleInv'
<1>0. ShuffleTypes
  BY ShuffleTypesAre DEF ShuffleInv
<1>1. /\ swap[w] = "write j"
      /\ perm' = [perm EXCEPT ![j[w]] = perm[k[w]]]
      /\ swap' = [swap EXCEPT ![w] = "write k"]
      /\ UNCHANGED <<mutex, range, j, k, tmp>>
  BY DEF Shuffle!SwapWriteJ
<1>2. j[w] \in Vertices /\ k[w] \in Vertices /\ perm[k[w]] \in Vertices /\ j[w] # k[w]
  <2>1. j[w] \in Vertices /\ k[w] \in Vertices /\ perm[k[w]] \in Vertices
    BY <1>0 DEF ShuffleTypes
  <2>2. j[w] < k[w] /\ j[w] \in Nat /\ k[w] \in Nat
    BY <1>1, <2>1, VerticesAssumption DEF ShuffleInv, SwapLocks
  <2> QED
    BY <2>1, <2>2
<1>3. /\ swap'[w] = "write k"
      /\ \A x \in Workers \ {w} : swap'[x] = swap[x]
      /\ perm'[j[w]] = perm[k[w]]
      /\ \A u \in Vertices \ {j[w]} : perm'[u] = perm[u]
  BY <1>0, <1>1, <1>2 DEF ShuffleTypes
<1>4. ShuffleTypes'
  <2>1. perm' \in [Vertices -> Vertices]
    BY <1>0, <1>1, <1>2 DEF ShuffleTypes
  <2>2. swap' \in [Workers -> Shuffle!Pcs]
    BY <1>0, <1>1 DEF ShuffleTypes, Shuffle!Pcs
  <2> QED
    BY <1>0, <1>1, <2>1, <2>2 DEF ShuffleTypes, Shuffle!Pcs
<1>5. Shuffle!TypeOK'
  BY <1>4, ShuffleTypesAre, PTL
<1>6. SwapLocks' /\ SwapHolds'
  BY <1>1, <1>3, SwapKeepsLocks DEF HoldsK
<1>7. SwapSaved'
  <2>1. ASSUME NEW x \in Workers, swap'[x] = "write j"
        PROVE  tmp'[x] = perm'[j'[x]]
    <3>1. x # w /\ swap[x] = "write j"
      BY <1>3, <2>1
    <3>2. j[x] # j[w] /\ j[x] \in Vertices
      BY <1>1, <3>1, HeldIsHeld DEF HoldsJ
    <3>3. tmp[x] = perm[j[x]]
      BY <3>1 DEF ShuffleInv, SwapSaved
    <3> QED
      BY <1>1, <1>3, <3>2, <3>3
  <2> QED
    BY <2>1 DEF SwapSaved
<1>8. Shuffle!StaysPermutation'
  <2> DEFINE H == Shuffle!HalfSwapped
             K == {k[x] : x \in H}
             P == {perm[u] : u \in Vertices \ K} \cup {tmp[x] : x \in H}
             Q == {perm'[u] : u \in Vertices \ (K \cup {k[w]})} \cup {tmp[x] : x \in H \cup {w}}
  <2>1. /\ Shuffle!HalfSwapped' = H \cup {w}
        /\ \A x \in H : x \in Workers /\ x # w /\ swap[x] = "write k"
    BY <1>1, <1>3 DEF Shuffle!HalfSwapped
  <2>2. {k'[x] : x \in Shuffle!HalfSwapped'} = K \cup {k[w]}
    BY <1>1, <2>1
  <2>3. {tmp'[x] : x \in Shuffle!HalfSwapped'} = {tmp[x] : x \in H \cup {w}}
    BY <1>1, <2>1
  <2>4. j[w] \notin K /\ k[w] \notin K
    <3>1. \A x \in H : k[x] # j[w] /\ k[x] # k[w]
      BY <1>1, <2>1, HeldIsHeld DEF HoldsJ, HoldsK
    <3> QED
      BY <3>1
  <2>5. P = Vertices
    BY PositionsAreVertices DEF ShuffleInv, Shuffle!StaysPermutation
  <2>6. tmp[w] = perm[j[w]]
    BY <1>1 DEF ShuffleInv, SwapSaved
  <2>7. P \subseteq Q
    <3>1. ASSUME NEW u \in Vertices \ K
          PROVE  perm[u] \in Q
      <4>1. CASE u = j[w]
        BY <2>6, <4>1
      <4>2. CASE u = k[w]
        <5>1. perm'[j[w]] = perm[u] /\ j[w] \in Vertices \ (K \cup {k[w]})
          BY <1>2, <1>3, <2>4, <4>2
        <5> QED
          BY <5>1
      <4>3. CASE u # j[w] /\ u # k[w]
        <5>1. perm'[u] = perm[u] /\ u \in Vertices \ (K \cup {k[w]})
          BY <1>3, <4>3
        <5> QED
          BY <5>1
      <4> QED
        BY <4>1, <4>2, <4>3
    <3>2. \A x \in H : tmp[x] \in Q
      OBVIOUS
    <3> QED
      BY <3>1, <3>2
  <2>8. Q \subseteq Vertices
    <3>1. \A u \in Vertices : perm'[u] \in Vertices
      BY <1>4 DEF ShuffleTypes
    <3>2. \A x \in H \cup {w} : tmp[x] \in Vertices
      BY <1>0, <2>1 DEF ShuffleTypes
    <3> QED
      BY <3>1, <3>2
  <2>9. Q = Vertices
    BY <2>5, <2>7, <2>8
  <2> QED
    BY <2>2, <2>3, <2>9, PositionsAreVertices DEF Shuffle!StaysPermutation, Shuffle!Positions
<1> QED
  BY <1>5, <1>6, <1>7, <1>8 DEF ShuffleInv

(* The second write ends it. *)
LEMMA SwapWriteKKeepsShuffle ==
    ASSUME ShuffleInv, loop = "shuffle", UNCHANGED loop, NEW w \in Workers, Shuffle!SwapWriteK(w)
    PROVE  ShuffleInv'
<1>0. ShuffleTypes
  BY ShuffleTypesAre DEF ShuffleInv
<1>1. /\ swap[w] = "write k"
      /\ perm' = [perm EXCEPT ![k[w]] = tmp[w]]
      /\ swap' = [swap EXCEPT ![w] = "unlock k"]
      /\ UNCHANGED <<mutex, range, j, k, tmp>>
  BY DEF Shuffle!SwapWriteK
<1>2. k[w] \in Vertices /\ tmp[w] \in Vertices
  BY <1>0 DEF ShuffleTypes
<1>3. /\ swap'[w] = "unlock k"
      /\ \A x \in Workers \ {w} : swap'[x] = swap[x]
      /\ perm'[k[w]] = tmp[w]
      /\ \A u \in Vertices \ {k[w]} : perm'[u] = perm[u]
  BY <1>0, <1>1, <1>2 DEF ShuffleTypes
<1>4. ShuffleTypes'
  <2>1. perm' \in [Vertices -> Vertices]
    BY <1>0, <1>1, <1>2 DEF ShuffleTypes
  <2>2. swap' \in [Workers -> Shuffle!Pcs]
    BY <1>0, <1>1 DEF ShuffleTypes, Shuffle!Pcs
  <2> QED
    BY <1>0, <1>1, <2>1, <2>2 DEF ShuffleTypes, Shuffle!Pcs
<1>5. Shuffle!TypeOK'
  BY <1>4, ShuffleTypesAre, PTL
<1>6. SwapLocks' /\ SwapHolds'
  BY <1>1, <1>3, SwapKeepsLocks DEF HoldsK
<1>7. SwapSaved'
  <2>1. ASSUME NEW x \in Workers, swap'[x] = "write j"
        PROVE  tmp'[x] = perm'[j'[x]]
    <3>1. x # w /\ swap[x] = "write j"
      BY <1>3, <2>1
    <3>2. j[x] # k[w] /\ j[x] \in Vertices
      BY <1>1, <3>1, HeldIsHeld DEF HoldsJ, HoldsK
    <3>3. tmp[x] = perm[j[x]]
      BY <3>1 DEF ShuffleInv, SwapSaved
    <3> QED
      BY <1>1, <1>3, <3>2, <3>3
  <2> QED
    BY <2>1 DEF SwapSaved
<1>8. Shuffle!StaysPermutation'
  <2> DEFINE H == Shuffle!HalfSwapped
             K == {k[x] : x \in H}
             L == {k[x] : x \in H \ {w}}
             P == {perm[u] : u \in Vertices \ K} \cup {tmp[x] : x \in H}
             Q == {perm'[u] : u \in Vertices \ L} \cup {tmp[x] : x \in H \ {w}}
  <2>1. /\ Shuffle!HalfSwapped' = H \ {w} /\ w \in H
        /\ \A x \in H : x \in Workers /\ swap[x] = "write k"
    BY <1>1, <1>3 DEF Shuffle!HalfSwapped
  <2>2. {k'[x] : x \in Shuffle!HalfSwapped'} = L
    BY <1>1, <2>1
  <2>3. {tmp'[x] : x \in Shuffle!HalfSwapped'} = {tmp[x] : x \in H \ {w}}
    BY <1>1, <2>1
  <2>4. k[w] \notin L /\ K = L \cup {k[w]}
    <3>1. \A x \in H \ {w} : k[x] # k[w]
      BY <1>1, <2>1, HeldIsHeld DEF HoldsK
    <3> QED
      BY <2>1, <3>1
  <2>5. P = Vertices
    BY PositionsAreVertices DEF ShuffleInv, Shuffle!StaysPermutation
  <2>6. P \subseteq Q
    <3>1. ASSUME NEW u \in Vertices \ K
          PROVE  perm[u] \in Q
      <4>1. perm'[u] = perm[u] /\ u \in Vertices \ L
        BY <1>3, <2>4
      <4> QED
        BY <4>1
    <3>2. tmp[w] \in Q
      <4>1. perm'[k[w]] = tmp[w] /\ k[w] \in Vertices \ L
        BY <1>2, <1>3, <2>4
      <4> QED
        BY <4>1
    <3>3. \A x \in H : tmp[x] \in Q
      BY <3>2
    <3> QED
      BY <3>1, <3>3
  <2>7. Q \subseteq Vertices
    <3>1. \A u \in Vertices : perm'[u] \in Vertices
      BY <1>4 DEF ShuffleTypes
    <3>2. \A x \in H : tmp[x] \in Vertices
      BY <1>0, <2>1 DEF ShuffleTypes
    <3> QED
      BY <3>1, <3>2
  <2>8. Q = Vertices
    BY <2>5, <2>6, <2>7
  <2> QED
    BY <2>2, <2>3, <2>8, PositionsAreVertices DEF Shuffle!StaysPermutation, Shuffle!Positions
<1> QED
  BY <1>5, <1>6, <1>7, <1>8 DEF ShuffleInv

(* Every step of a worker keeps the invariant of the shuffle. *)
LEMMA WorkerKeepsShuffle ==
    ASSUME ShuffleInv, loop = "shuffle", UNCHANGED loop, NEW w \in Workers, Shuffle!Worker(w)
    PROVE  ShuffleInv'
BY TakeKeepsShuffle, LockKeepsShuffle, UnlockKeepsShuffle, SwapReadKeepsShuffle,
   SwapWriteJKeepsShuffle, SwapWriteKKeepsShuffle DEF Shuffle!Worker

-----------------------------------------------------------------------------
(* Both loops.                                                             *)

(* Before a loop no value is saved and no lock is held.                    *)
LEMMA InitLevel == LevelInit => LevelInv
<1> SUFFICES ASSUME LevelInit PROVE LevelInv
  OBVIOUS
<1>1. NotBegun /\ loop = "shuffle"
  BY DEF LevelInit, Init, NotBegun
<1>2. /\ perm = [i \in Vertices |-> i]
      /\ mutex = [i \in Vertices |-> Nobody]
      /\ range = Vertices
      /\ swap = [w \in Workers |-> "idle"]
      /\ j = [w \in Workers |-> 0] /\ k = [w \in Workers |-> 0] /\ tmp = [w \in Workers |-> 0]
  BY PositionsAreVertices DEF LevelInit, Shuffle!Init
<1>3. ShuffleTypes
  BY <1>2, PositionsAreVertices DEF ShuffleTypes, Shuffle!Pcs
<1>4. SwapLocks /\ SwapHolds /\ SwapSaved
  BY <1>2, NobodyAssumption DEF SwapLocks, SwapHolds, SwapSaved, HoldsJ, HoldsK
<1>5. Shuffle!StaysPermutation
  <2>1. Shuffle!HalfSwapped = {}
    BY <1>2 DEF Shuffle!HalfSwapped
  <2> QED
    BY <1>2, <2>1, PositionsAreVertices DEF Shuffle!StaysPermutation
<1> QED
  BY <1>1, <1>3, <1>4, <1>5, ShuffleTypesAre DEF LevelInv, ShuffleInv

(* When the shuffle is done all mutexes are free, and the second loop      *)
(* starts from its own initial state.                                      *)
LEMMA BeginsAtInit == LevelInv /\ ColoringBegins => Init
<1> SUFFICES ASSUME LevelInv, ColoringBegins PROVE Init
  OBVIOUS
<1>1. loop = "shuffle" /\ NotBegun /\ \A w \in Workers : swap[w] = "idle"
  BY DEF ColoringBegins, Shuffle!Done, LevelInv
<1>2. mutex \in [Vertices -> Workers \cup {Nobody}]
  BY ShuffleTypesAre DEF LevelInv, ShuffleInv, ShuffleTypes
<1>3. \A v \in Vertices : mutex[v] \notin Workers
  BY <1>1 DEF LevelInv, ShuffleInv, SwapHolds, HoldsJ, HoldsK
<1>4. \A v \in Vertices : mutex[v] = Nobody
  BY <1>2, <1>3
<1>5. mutex = [v \in Vertices |-> Nobody]
  BY <1>2, <1>4
<1> QED
  BY <1>1, <1>5 DEF NotBegun, Init

(* Every step of the colouring keeps its invariants together. *)
LEMMA ColorNext == ColorInv /\ [Next]_vars => ColorInv'
BY NextInvariant, NextKeepsLocks, UsedIsAroundInvariant, TakenOnceInvariant, NextKeepsPhases
DEF ColorInv, LocksInv, GInv

(* They hold in the beginning. *)
LEMMA InitColor == Init => ColorInv
BY InitLocks, InitRefinement, InitPhases DEF ColorInv

(* No thread is in the first loop any more.                                *)
IsIdle == loop = "color" /\ \A w \in Workers : swap[w] = "idle"

(* Then the order is all that is left of it. *)
LEMMA IdleShuffle == ShuffleTypes /\ IsIdle /\ Shuffle!StaysPermutation => ShuffleInv
BY ShuffleTypesAre DEF IsIdle, ShuffleInv, SwapLocks, SwapHolds, SwapSaved, HoldsJ, HoldsK

(* When the shuffle has ended, perm is a permutation and the colouring     *)
(* begins (hierarchy.cpp:310-316).                                         *)
LEMMA BeginsKeepsLevel == LevelInv /\ ColoringBegins => LevelInv'
<1> SUFFICES ASSUME LevelInv, ColoringBegins PROVE LevelInv'
  OBVIOUS
<1>1. /\ loop' = "color"
      /\ perm' = [i \in Vertices |-> i]
      /\ j' = [w \in Workers |-> 0] /\ k' = j' /\ tmp' = j'
      /\ UNCHANGED <<vars, range, swap>>
      /\ \A w \in Workers : swap[w] = "idle"
  BY DEF ColoringBegins, Shuffle!Done
<1>2. ColorInv'
  <2>1. ColorInv
    BY BeginsAtInit, InitColor
  <2> QED
    BY <1>1, <2>1, ColorNext
<1>3. ShuffleTypes'
  <2>1. mutex' = mutex
    BY <1>1 DEF vars
  <2>2. j' \in [Workers -> Vertices]
    BY <1>1, PositionsAreVertices
  <2>3. perm' \in [Vertices -> Vertices]
    BY <1>1
  <2>4. ShuffleTypes
    BY ShuffleTypesAre DEF LevelInv, ShuffleInv
  <2> QED
    BY <1>1, <2>1, <2>2, <2>3, <2>4 DEF ShuffleTypes, Shuffle!Pcs
<1>4. Shuffle!StaysPermutation'
  <2>1. Shuffle!HalfSwapped' = {}
    BY <1>1 DEF Shuffle!HalfSwapped
  <2> QED
    BY <1>1, <2>1, PositionsAreVertices DEF Shuffle!StaysPermutation, Shuffle!Positions
<1>5. IsIdle'
  BY <1>1 DEF IsIdle
<1>6. ShuffleInv'
  BY <1>3, <1>4, <1>5, IdleShuffle, PTL
<1> QED
  BY <1>2, <1>5, <1>6 DEF LevelInv, IsIdle

(* The steps of the colouring leave the permutation alone. *)
LEMMA LoopKeepsLevel == LevelInv /\ InLoop(Next) => LevelInv'
<1> SUFFICES ASSUME LevelInv, InLoop(Next) PROVE LevelInv'
  OBVIOUS
<1>1. /\ loop = "color" /\ loop' = "color" /\ Next
      /\ UNCHANGED <<perm, range, swap, j, k, tmp>>
  BY DEF InLoop, shufflevars
<1>2. ColorInv'
  BY <1>1, ColorNext DEF LevelInv
<1>3. ShuffleTypes'
  <2>1. mutex' \in [Vertices -> Workers \cup {Nobody}]
    BY <1>2 DEF ColorInv, GInv, IInv, TypeOK
  <2>2. ShuffleTypes
    BY ShuffleTypesAre DEF LevelInv, ShuffleInv
  <2> QED
    BY <1>1, <2>1, <2>2 DEF ShuffleTypes, Shuffle!Pcs
<1>4. \A w \in Workers : swap[w] = "idle"
  BY <1>1 DEF LevelInv
<1>5. Shuffle!StaysPermutation'
  BY <1>1, <1>4, PermutationKept DEF LevelInv
<1>6. IsIdle'
  BY <1>1, <1>4 DEF IsIdle
<1>7. ShuffleInv'
  BY <1>3, <1>5, <1>6, IdleShuffle, PTL
<1> QED
  BY <1>2, <1>6, <1>7 DEF LevelInv, IsIdle

(* Every step keeps the invariant. *)
LEMMA LevelStep == LevelInv /\ [LevelNext]_levelvars => LevelInv'
<1> SUFFICES ASSUME LevelInv, [LevelNext]_levelvars PROVE LevelInv'
  OBVIOUS
<1>1. ASSUME NEW w \in Workers, ShuffleStep(w)
      PROVE  LevelInv'
  <2>1. /\ loop = "shuffle" /\ Shuffle!Worker(w) /\ UNCHANGED loop
        /\ UNCHANGED <<doubled, color, todo, pc, cur, left, used, data, total, phases>>
    BY <1>1 DEF ShuffleStep
  <2>2. ShuffleInv'
    BY <2>1, WorkerKeepsShuffle DEF LevelInv
  <2>3. NotBegun'
    BY <2>1 DEF LevelInv, NotBegun
  <2> QED
    BY <2>1, <2>2, <2>3 DEF LevelInv
<1>2. CASE UNCHANGED levelvars
  <2>1. UNCHANGED <<loop, vars, perm, range, swap, j, k, tmp>>
    BY <1>2 DEF levelvars, shufflevars
  <2>2. UNCHANGED <<doubled, color, mutex, todo, pc, cur, left, used, data, total, phases>>
    BY <2>1 DEF vars
  <2>3. ColorInv => ColorInv'
    BY <2>1, ColorNext
  <2>4. NotBegun => NotBegun'
    BY <2>2 DEF NotBegun
  <2>5. ShuffleTypes /\ ShuffleTypes'
    <3>1. ShuffleTypes
      BY ShuffleTypesAre DEF LevelInv, ShuffleInv
    <3> QED
      BY <2>1, <2>2, <3>1 DEF ShuffleTypes, Shuffle!Pcs
  <2>6. Shuffle!TypeOK'
    BY <2>5, ShuffleTypesAre, PTL
  <2>7. Shuffle!StaysPermutation'
    BY <2>1, PermutationKept DEF LevelInv
  <2>8. SwapLocks' /\ SwapHolds' /\ SwapSaved'
    BY <2>1, <2>2 DEF LevelInv, ShuffleInv, SwapLocks, SwapHolds, SwapSaved
  <2> QED
    BY <2>1, <2>3, <2>4, <2>6, <2>7, <2>8 DEF LevelInv, ShuffleInv
<1> QED
  BY <1>1, <1>2, BeginsKeepsLevel, LoopKeepsLevel DEF LevelNext

-----------------------------------------------------------------------------
(* The theorems.                                                           *)

(* What a state of either loop is like: the order is a permutation or      *)
(* about to be one again, and the colouring has begun from nothing.        *)
THEOREM LevelInvariance == LevelSpec => []LevelInv
<1>1. LevelInit => LevelInv
  BY InitLevel
<1>2. LevelInv /\ [LevelNext]_levelvars => LevelInv'
  BY LevelStep
<1> QED
  BY <1>1, <1>2, PTL DEF LevelSpec

(* No vertex is lost or coloured twice, however the swaps overlap, and the *)
(* phases have the sizes the joined counts reserve for them                *)
(* (hierarchy.cpp:293-310, 321, 369-386).                                  *)
THEOREM VerticesHaveTheirPlace == LevelSpec => []EveryVertexHasItsPlace
<1>1. LevelInv => EveryVertexHasItsPlace
  <2> SUFFICES ASSUME LevelInv PROVE PhasesAreCounted
    BY DEF LevelInv, ShuffleInv, EveryVertexHasItsPlace
  <2>1. CASE loop = "shuffle"
    BY <2>1 DEF LevelInv, NotBegun, PhasesAreCounted
  <2>2. CASE loop = "color"
    BY <2>2, PhasesFollow DEF LevelInv, ColorInv, GInv, IInv
  <2> QED
    BY <2>1, <2>2 DEF LevelInv
<1> QED
  BY <1>1, LevelInvariance, PTL

(* In the whole of generate_graph_coloring two vertices that are linked    *)
(* both ways never have the same colour, and no threads wait in a circle   *)
(* unless one of them waits for itself at a doubled entry, whatever the    *)
(* lists of links are (hierarchy.cpp:323-361).                             *)
THEOREM LevelIsSafe == LevelSpec => [](TypeOK /\ ProperColoring /\ NoCircularWait)
<1>1. LevelInv => TypeOK /\ ProperColoring /\ NoCircularWait
  <2> SUFFICES ASSUME LevelInv PROVE TypeOK /\ ProperColoring /\ NoCircularWait
    OBVIOUS
  <2>1. CASE loop = "shuffle"
    <3>1. NotBegun
      BY <2>1 DEF LevelInv
    <3>2. mutex \in [Vertices -> Workers \cup {Nobody}]
      BY ShuffleTypesAre DEF LevelInv, ShuffleInv, ShuffleTypes
    <3>3. TypeOK
      BY <3>1, <3>2, ColorLimitAssumption DEF NotBegun, TypeOK, Pcs
    <3>4. ProperColoring /\ NoCircularWait
      BY <3>1 DEF NotBegun, ProperColoring, NoCircularWait, Blocked
    <3> QED
      BY <3>3, <3>4
  <2>2. CASE loop = "color"
    BY <2>2, NobodyIsInACircle DEF LevelInv, ColorInv, GInv, IInv
  <2> QED
    BY <2>1, <2>2 DEF LevelInv
<1> QED
  BY <1>1, LevelInvariance, PTL

(* The threads together colour as the sequential algorithm does, in the    *)
(* order in which they choose (hierarchy.cpp:209-390).                     *)
THEOREM LevelRefines == LevelSpec => ImplementsGreedyColoring
<1>1. LevelInit => Greedy!Init
  BY DEF LevelInit, Init, Greedy!Init
<1>2. LevelInv /\ [LevelNext]_levelvars => [Greedy!Next]_color
  <2> SUFFICES ASSUME LevelInv, [LevelNext]_levelvars PROVE [Greedy!Next]_color
    OBVIOUS
  <2>1. CASE InLoop(Next)
    <3>1. GInv /\ Next
      BY <2>1 DEF InLoop, LevelInv, ColorInv
    <3> QED
      BY <3>1, StepIsGreedy
  <2>2. ASSUME NEW w \in Workers, ShuffleStep(w)
        PROVE  UNCHANGED color
    BY <2>2 DEF ShuffleStep
  <2>3. ColoringBegins => UNCHANGED color
    BY DEF ColoringBegins, vars
  <2>4. UNCHANGED levelvars => UNCHANGED color
    BY DEF levelvars, vars
  <2> QED
    BY <2>1, <2>2, <2>3, <2>4 DEF LevelNext
<1> QED
  BY <1>1, <1>2, LevelInvariance, PTL DEF LevelSpec, ImplementsGreedyColoring, Greedy!Spec
=============================================================================
