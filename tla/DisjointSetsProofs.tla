------------------------- MODULE DisjointSetsProofs -------------------------
(***************************************************************************)
(* Proofs about DisjointSets, for every number of indices and threads.     *)
(*                                                                         *)
(* The entries are trees: a map rep to the roots exists that every entry   *)
(* shares with its parent (Partition).  A tree whose root has rank r has   *)
(* at least 2^r members, which bounds the ranks.  A thread relies on what  *)
(* it has read although others go on (Reads): ranks only rise, an entry    *)
(* with a parent keeps its rank, and a path only leads further up within   *)
(* its tree.  An entry with the lock bit belongs to one thread and no      *)
(* other writes to it (LocksOwned).                                        *)
(***************************************************************************)
EXTENDS MCDisjointSets, FiniteSetTheorems, NaturalsInduction, WellFoundedInduction, TLAPS

(* Each locked entry is a root, and belongs to one thread. *)
LocksOwned ==
    /\ \A x \in Ids : mData[x].locked => parent(x) = x /\ \E w \in Workers : x \in held[w]
    /\ \A x \in Ids, w \in Workers : x \in held[w] => mData[x].locked
    /\ \A x \in Ids, w, v \in Workers : x \in held[w] /\ x \in held[v] => w = v

(* What a thread has read and relies on. *)
Reads(w) ==
    LET me == local[w]
    IN /\ me.pc \in {"grand", "halve"} =>
            parent(me.id) # me.id /\ Below(me.id, me.value.parent)
       /\ me.pc = "halve" => Below(me.id, me.new_parent)
       /\ me.pc = "lock" => ~me.value.locked /\ me.value.parent = me.id
       /\ me.pc \in {"rank1", "rank2", "link", "bump", "store", "store root"} => me.id1 # me.id2
       /\ me.pc = "rank2" => me.r1 <= rank(me.id1)
       /\ me.pc \in {"link", "bump"} => me.r2 <= rank(me.id2)
       /\ me.pc \in {"link", "store"} => ~Swap(me.id1, me.id2, me.r1, me.r2)
       /\ me.pc = "store" => me.id1 \in held[w] /\ me.r1 = rank(me.id1)
       /\ me.pc \in {"store", "store root"} => me.id2 \in held[w] /\ me.r2 = rank(me.id2)

(* The members of the tree with root r. *)
Part(rep, r) == {x \in Ids : rep[x] = r}

(* rep has the roots of the trees. *)
Partition(rep) ==
    \A x \in Ids :
        /\ rep[parent(x)] = rep[x]
        /\ parent(rep[x]) = rep[x]
        /\ parent(x) = x => rep[x] = x
        /\ rep[x] # x => Below(x, rep[x])

(* A tree of rank r has 2^r members. *)
Sizes(rep) ==
    \A x \in Ids : parent(x) = x => 2 ^ rank(x) <= Cardinality(Part(rep, x))

(* It has twice as many where a thread is about to raise the rank. *)
Rises(rep, w) ==
    LET me == local[w]
    IN /\ me.pc = "bump" /\ parent(me.id2) = me.id2 /\ rank(me.id2) = me.r2
            => 2 ^ (me.r2 + 1) <= Cardinality(Part(rep, me.id2))
       /\ me.pc = "store root" /\ me.r1 = me.r2
            => 2 ^ (me.r2 + 1) <= Cardinality(Part(rep, me.id2))

(* The path of a thread stays in its tree. *)
Path(rep, w) ==
    LET me == local[w]
    IN /\ me.pc \in {"grand", "halve"} => rep[me.value.parent] = rep[me.id]
       /\ me.pc = "halve" => rep[me.new_parent] = rep[me.id]

Trees(rep) ==
    /\ Partition(rep)
    /\ Sizes(rep)
    /\ \A w \in Workers : Rises(rep, w) /\ Path(rep, w)

IInv ==
    /\ TypeOK
    /\ Ordered
    /\ LocksOwned
    /\ \A w \in Workers : Reads(w)
    /\ \E rep \in [Ids -> Ids] : Trees(rep)

-----------------------------------------------------------------------------
(* Powers of two.                                                          *)

(* They count subsets. *)
LEMMA PowerIsCount ==
    ASSUME NEW n \in Nat
    PROVE  2 ^ n = Cardinality(SUBSET (1 .. n)) /\ IsFiniteSet(SUBSET (1 .. n))
<1> DEFINE S == 1 .. n
<1>1. IsFiniteSet(S) /\ Cardinality(S) = n
  BY FS_Interval
<1> HIDE DEF S
<1>2. IsFiniteSet(SUBSET S) /\ Cardinality(SUBSET S) = 2 ^ Cardinality(S)
  BY <1>1, FS_SUBSET
<1>3. Cardinality(SUBSET S) = 2 ^ n
  BY <1>1, <1>2, Zenon
<1> QED
  BY <1>2, <1>3, Zenon DEF S

(* They are numbers, and grow at least as fast as the exponent.            *)
LEMMA PowerType ==
    ASSUME NEW n \in Nat
    PROVE  2 ^ n \in Nat /\ n <= 2 ^ n
<1> DEFINE p == 2 ^ n
           f == [i \in 1 .. n |-> {i}]
           T == SUBSET (1 .. n)
<1>1. IsFiniteSet(T) /\ p = Cardinality(T)
  BY PowerIsCount
<1>2. p \in Nat
  BY <1>1, FS_CardinalityType
<1>3. f \in Injection(1 .. n, T)
  BY DEF Injection, IsInjective
<1>4. Cardinality(1 .. n) <= Cardinality(T)
  BY <1>1, <1>3, FS_Injection
<1>5. Cardinality(1 .. n) = n
  BY FS_Interval
<1> HIDE DEF p, T
<1>6. p \in Nat /\ n <= p
  BY <1>1, <1>2, <1>4, <1>5
<1> QED
  BY <1>6 DEF p

(* One more exponent doubles: a set with one more element has the subsets  *)
(* without it and as many with it.                                         *)
LEMMA PowerDoubles ==
    ASSUME NEW n \in Nat
    PROVE  2 ^ (n + 1) = 2 ^ n + 2 ^ n
<1> DEFINE S == SUBSET (1 .. n)
           T == {s \cup {n + 1} : s \in S}
           f == [s \in S |-> s \cup {n + 1}]
           p == 2 ^ n
           q == 2 ^ (n + 1)
<1>1. p = Cardinality(S) /\ IsFiniteSet(S) /\ p \in Nat
  BY PowerIsCount, PowerType
<1>2. q = Cardinality(SUBSET (1 .. n + 1))
  BY PowerIsCount
<1>3. SUBSET (1 .. n + 1) = S \cup T
  <2>1. 1 .. n + 1 = (1 .. n) \cup {n + 1}
    OBVIOUS
  <2>2. ASSUME NEW s \in SUBSET (1 .. n + 1)
        PROVE  s \in S \cup T
    <3>1. CASE n + 1 \in s
      <4>1. s \ {n + 1} \in S /\ s = (s \ {n + 1}) \cup {n + 1}
        BY <2>1, <3>1
      <4> QED
        BY <4>1
    <3>2. CASE n + 1 \notin s
      BY <2>1, <3>2
    <3> QED
      BY <3>1, <3>2
  <2>3. S \cup T \subseteq SUBSET (1 .. n + 1)
    <3>1. \A s \in S : s \subseteq 1 .. n + 1 /\ s \cup {n + 1} \subseteq 1 .. n + 1
      BY <2>1
    <3> QED
      BY <3>1
  <2>4. SUBSET (1 .. n + 1) \subseteq S \cup T
    BY <2>2
  <2> QED
    BY <2>3, <2>4
<1>4. S \cap T = {}
  <2>1. \A s \in S : n + 1 \notin s
    OBVIOUS
  <2> QED
    BY <2>1
<1>5. f \in Bijection(S, T)
  <2>1. \A s, t \in S : s \cup {n + 1} = t \cup {n + 1} => s = t
    <3>1. \A s \in S : s = (s \cup {n + 1}) \ {n + 1}
      OBVIOUS
    <3> QED
      BY <3>1
  <2>2. f \in Injection(S, T)
    <3> HIDE DEF S
    <3> QED
      BY <2>1 DEF Injection, IsInjective
  <2>3. f \in Surjection(S, T)
    <3> HIDE DEF S
    <3> QED
      BY DEF Surjection
  <2> QED
    BY <2>2, <2>3 DEF Bijection
<1>6. IsFiniteSet(T) /\ Cardinality(T) = p
  <2>1. ExistsBijection(S, T)
    BY <1>5 DEF ExistsBijection
  <2> HIDE DEF S, T
  <2> QED
    BY <1>1, <2>1, FS_Bijection
<1> HIDE DEF S, T, f, p, q
<1>7. Cardinality(S \cup T) = Cardinality(S) + Cardinality(T) - Cardinality({})
  BY <1>1, <1>4, <1>6, FS_Union
<1>8. Cardinality({}) = 0
  BY FS_EmptySet
<1>9. q = p + p - 0
  BY <1>1, <1>2, <1>3, <1>6, <1>7, <1>8, Zenon
<1>10. q = p + p
  BY <1>1, <1>9
<1> QED
  BY <1>10 DEF p, q

-----------------------------------------------------------------------------
(* Entries, ranks and the order.                                           *)

(* The numbers are finitely many natural ones. *)
LEMMA IdsAre == Ids \subseteq Nat /\ IsFiniteSet(Ids) /\ Cardinality(Ids) \in Nat
BY IdsAssumption, FS_CardinalityType

(* A rank is a number whose power of two does not exceed the entries.      *)
LEMMA RanksAre ==
    /\ Ranks \subseteq Nat
    /\ 0 \in Ranks
    /\ \A r \in Nat : 2 ^ r <= Cardinality(Ids) => r \in Ranks
<1>1. \A r \in Nat : 2 ^ r <= Cardinality(Ids) => r \in Ranks
  <2> SUFFICES ASSUME NEW r \in Nat, 2 ^ r <= Cardinality(Ids)
               PROVE  r \in 0 .. Cardinality(Ids)
    BY DEF Ranks
  <2> DEFINE p == 2 ^ r
  <2>1. p \in Nat /\ r <= p /\ p <= Cardinality(Ids)
    BY PowerType
  <2> HIDE DEF p
  <2> QED
    BY <2>1, IdsAre
<1>2. Ranks \subseteq Nat
  BY IdsAre DEF Ranks
<1>3. 2 ^ 0 = 1
  OBVIOUS
<1>4. Cardinality(Ids) >= 1
  <2>1. Cardinality(Ids) # 0
    BY IdsAssumption, FS_EmptySet
  <2> QED
    BY <2>1, IdsAre
<1> QED
  BY <1>1, <1>2, <1>3, <1>4

(* The types of one entry. *)
LEMMA EntryType ==
    ASSUME TypeOK, NEW x \in Ids
    PROVE  /\ mData[x].locked \in BOOLEAN
           /\ rank(x) \in Ranks /\ rank(x) \in Nat
           /\ parent(x) \in Ids /\ parent(x) \in Nat /\ x \in Nat
           /\ mData[x] = Entry(mData[x].locked, rank(x), parent(x))
<1>1. mData[x] \in Entries
  BY DEF TypeOK
<1> QED
  BY <1>1, RanksAre, IdsAre DEF Entries, Entry, rank, parent

(* The types of what one call keeps. *)
LEMMA LocalType ==
    ASSUME TypeOK, NEW w \in Workers
    PROVE  /\ local[w] \in Locals
           /\ local[w].pc \in Pcs
           /\ local[w].op \in {"find", "lock", "unite", "unite second"}
           /\ local[w].id \in Ids /\ local[w].new_parent \in Ids
           /\ local[w].value \in Entries /\ local[w].value.parent \in Ids
           /\ local[w].id1 \in Ids /\ local[w].id2 \in Ids
           /\ local[w].r1 \in Ranks /\ local[w].r2 \in Ranks
           /\ local[w].r1 \in Nat /\ local[w].r2 \in Nat
<1>1. local[w] \in Locals
  BY DEF TypeOK
<1>2. local[w].value \in Entries /\ local[w].r1 \in Ranks /\ local[w].r2 \in Ranks
  BY <1>1 DEF Locals
<1> QED
  BY <1>1, <1>2, RanksAre DEF Locals, Entries

(* Below is a strict order. *)
LEMMA BelowIsOrder ==
    ASSUME TypeOK, NEW x \in Ids, NEW y \in Ids, NEW z \in Ids
    PROVE  /\ ~Below(x, x)
           /\ Below(x, y) /\ Below(y, z) => Below(x, z)
BY EntryType DEF Below

(* A step from mData to mData': ranks only rise, and a child stays a child *)
(* of its rank.                                                            *)
Grows ==
    \A x \in Ids :
        /\ rank(x) <= rank(x)'
        /\ parent(x) # x => parent(x)' # x /\ rank(x)' = rank(x)

(* Ranks and parents are of the types that compare. *)
LEMMA RankType == TypeOK => \A x \in Ids : rank(x) \in Nat /\ parent(x) \in Ids
BY EntryType

(* The same after a step. *)
LEMMA RankTypeNext == TypeOK' => \A x \in Ids : rank(x)' \in Nat /\ parent(x)' \in Ids
<1>1. TypeOK' => (\A x \in Ids : rank(x) \in Nat /\ parent(x) \in Ids)'
  BY RankType, PTL
<1> QED
  BY <1>1

(* What is above a child stays above it. *)
LEMMA BelowStays ==
    ASSUME TypeOK, TypeOK', Grows, NEW x \in Ids, NEW y \in Ids,
           parent(x) # x, Below(x, y)
    PROVE  Below(x, y)'
<1>1. /\ rank(x) \in Nat /\ rank(y) \in Nat /\ x \in Nat /\ y \in Nat
  BY EntryType
<1>2. rank(x)' = rank(x) /\ rank(y) <= rank(y)'
  BY DEF Grows
<1>3. rank(y)' \in Nat
  BY RankTypeNext
<1> QED
  BY <1>1, <1>2, <1>3 DEF Below

(* The order is kept if new parents are above their children. *)
LEMMA OrderedStays ==
    ASSUME TypeOK, TypeOK', Grows, Ordered,
           \A x, y \in Ids : parent(x)' = y /\ parent(x) # y => Below(x, y)'
    PROVE  Ordered'
<1> SUFFICES ASSUME NEW x \in Ids, parent(x)' # x
             PROVE  Below(x, parent(x))'
  BY DEF Ordered
<1>1. PICK y \in Ids : parent(x)' = y
  BY RankTypeNext
<1>2. CASE parent(x) = y
  <2>1. parent(x) # x /\ Below(x, y)
    BY <1>1, <1>2 DEF Ordered
  <2>2. Below(x, y)'
    BY <2>1, BelowStays
  <2> QED
    BY <1>1, <2>2 DEF Below
<1>3. CASE parent(x) # y
  <2>1. Below(x, y)'
    BY <1>1, <1>3
  <2> QED
    BY <1>1, <2>1 DEF Below
<1> QED
  BY <1>2, <1>3

(* So are the roots where an entry moves within its tree and all roots     *)
(* remain.                                                                 *)
LEMMA PartitionStays ==
    ASSUME TypeOK, TypeOK', Grows, NEW rep \in [Ids -> Ids], Partition(rep),
           \A x \in Ids : parent(x) = x => parent(x)' = x,
           \A x, y \in Ids : parent(x)' = y => rep[y] = rep[x]
    PROVE  Partition(rep)'
<1> SUFFICES ASSUME NEW x \in Ids
             PROVE  /\ rep[parent(x)'] = rep[x]
                    /\ parent(rep[x])' = rep[x]
                    /\ parent(x)' = x => rep[x] = x
                    /\ rep[x] # x => Below(x, rep[x])'
  BY DEF Partition
<1>1. rep[parent(x)'] = rep[x]
  BY RankTypeNext
<1>2. PICK r \in Ids : rep[x] = r
  OBVIOUS
<1>3. parent(r)' = r
  BY <1>2 DEF Partition
<1>4. parent(x)' = x => rep[x] = x
  BY DEF Grows, Partition
<1>5. ASSUME r # x
      PROVE  Below(x, r)'
  <2>1. parent(x) # x /\ Below(x, r)
    BY <1>2, <1>5 DEF Partition
  <2> QED
    BY <2>1, BelowStays
<1> QED
  BY <1>1, <1>2, <1>3, <1>4, <1>5 DEF Below

(* A share of the entries has a size, and a larger share a larger one.     *)
LEMMA PartSize ==
    ASSUME NEW S \in SUBSET Ids, NEW T \in SUBSET S
    PROVE  /\ IsFiniteSet(S) /\ Cardinality(S) \in Nat
           /\ IsFiniteSet(T) /\ Cardinality(T) \in Nat
           /\ Cardinality(T) <= Cardinality(S)
           /\ Cardinality(S) <= Cardinality(Ids)
<1>1. IsFiniteSet(S) /\ Cardinality(S) <= Cardinality(Ids)
  BY IdsAre, FS_Subset
<1>2. IsFiniteSet(T) /\ Cardinality(T) <= Cardinality(S)
  BY <1>1, FS_Subset
<1> QED
  BY <1>1, <1>2, FS_CardinalityType

(* Some worker's step: its new local variables, those of the others.       *)
LEMMA Moves ==
    ASSUME TypeOK, NEW w \in Workers, NEW new \in Locals, local' = [local EXCEPT ![w] = new]
    PROVE  /\ local' \in [Workers -> Locals]
           /\ local'[w] = new
           /\ \A v \in Workers \ {w} : local'[v] = local[v]
BY DEF TypeOK

(* A thread that does not step keeps what it relies on, while others write *)
(* only entries that it has not locked and trees only grow.                *)
LEMMA OthersStay ==
    ASSUME TypeOK, TypeOK', Grows, LocksOwned, NEW v \in Workers,
           NEW rep \in [Ids -> Ids], NEW now \in [Ids -> Ids],
           Reads(v), Rises(rep, v), Path(rep, v),
           local'[v] = local[v], held'[v] = held[v],
           \A x \in held[v] : mData'[x] = mData[x],
           \A x \in Ids : parent(x)' = x => Part(rep, x) \subseteq Part(now, x),
           \A x, y \in Ids : rep[x] = rep[y] => now[x] = now[y]
    PROVE  Reads(v)' /\ Rises(now, v)' /\ Path(now, v)'
<1> DEFINE me == local[v]
<1>1. /\ me.id \in Ids /\ me.new_parent \in Ids /\ me.value.parent \in Ids
      /\ me.id1 \in Ids /\ me.id2 \in Ids
      /\ me.r1 \in Nat /\ me.r2 \in Nat
  BY LocalType
<1>2. \A x \in Ids : rank(x) \in Nat /\ rank(x)' \in Nat /\ rank(x) <= rank(x)'
  BY RankType, RankTypeNext DEF Grows
<1>3. PICK my : my = me
  OBVIOUS
<1>4. local'[v] = my /\ local[v] = my
  BY <1>3
<1>5. \A x \in held[v] : x \in Ids /\ parent(x) = x /\ parent(x)' = x /\ rank(x)' = rank(x)
  <2>1. held[v] \subseteq Ids
    BY DEF TypeOK
  <2> QED
    BY <2>1 DEF LocksOwned, parent, rank
<1> HIDE DEF me
<1>6. Reads(v)'
  <2>1. ASSUME my.pc \in {"grand", "halve"}
        PROVE  parent(my.id)' # my.id /\ Below(my.id, my.value.parent)'
    <3>1. parent(my.id) # my.id /\ Below(my.id, my.value.parent)
      BY <1>4, <2>1 DEF Reads
    <3>2. Below(my.id, my.value.parent)'
      BY <1>1, <1>3, <3>1, BelowStays
    <3> QED
      BY <1>1, <1>3, <3>1, <3>2 DEF Grows
  <2>2. ASSUME my.pc = "halve"
        PROVE  Below(my.id, my.new_parent)'
    <3>1. parent(my.id) # my.id /\ Below(my.id, my.new_parent)
      BY <1>4, <2>2 DEF Reads
    <3> QED
      BY <1>1, <1>3, <3>1, BelowStays
  <2>3. my.pc = "lock" => ~my.value.locked /\ my.value.parent = my.id
    BY <1>4 DEF Reads
  <2>4. my.pc \in {"rank1", "rank2", "link", "bump", "store", "store root"} => my.id1 # my.id2
    BY <1>4 DEF Reads
  <2>5. my.pc = "rank2" => my.r1 <= rank(my.id1)'
    <3>1. my.pc = "rank2" => my.r1 <= rank(my.id1)
      BY <1>4 DEF Reads
    <3> QED
      BY <1>1, <1>2, <1>3, <3>1
  <2>6. my.pc \in {"link", "bump"} => my.r2 <= rank(my.id2)'
    <3>1. my.pc \in {"link", "bump"} => my.r2 <= rank(my.id2)
      BY <1>4 DEF Reads
    <3> QED
      BY <1>1, <1>2, <1>3, <3>1
  <2>7. my.pc \in {"link", "store"} => ~Swap(my.id1, my.id2, my.r1, my.r2)
    BY <1>4 DEF Reads
  <2>8. my.pc = "store" => my.id1 \in held'[v] /\ my.r1 = rank(my.id1)'
    BY <1>4, <1>5 DEF Reads
  <2>9. my.pc \in {"store", "store root"} => my.id2 \in held'[v] /\ my.r2 = rank(my.id2)'
    BY <1>4, <1>5 DEF Reads
  <2> QED
    BY <1>4, <2>1, <2>2, <2>3, <2>4, <2>5, <2>6, <2>7, <2>8, <2>9 DEF Reads, Below
<1>7. Rises(now, v)'
  <2> DEFINE was == Part(rep, my.id2)
             is == Part(now, my.id2)
             p == 2 ^ (my.r2 + 1)
  <2>1. SUFFICES ASSUME \/ my.pc = "bump" /\ parent(my.id2)' = my.id2 /\ rank(my.id2)' = my.r2
                        \/ my.pc = "store root" /\ my.r1 = my.r2
                 PROVE  p <= Cardinality(is)
    BY <1>4 DEF Rises
  <2>2. parent(my.id2) = my.id2 /\ parent(my.id2)' = my.id2
    <3>1. CASE my.pc = "bump"
      BY <1>1, <1>3, <2>1, <3>1 DEF Grows
    <3>2. CASE my.pc = "store root"
      <4>1. my.id2 \in held[v]
        BY <1>4, <3>2 DEF Reads
      <4> QED
        BY <4>1, <1>5
    <3> QED
      BY <2>1, <3>1, <3>2
  <2>3. p <= Cardinality(was)
    <3>1. CASE my.pc = "bump"
      <4>1. my.r2 <= rank(my.id2)
        BY <1>4, <3>1 DEF Reads
      <4>2. rank(my.id2)' = my.r2
        BY <2>1, <3>1
      <4>3. rank(my.id2) = my.r2
        BY <1>1, <1>2, <1>3, <4>1, <4>2
      <4> QED
        BY <1>4, <2>2, <3>1, <4>3 DEF Rises
    <3>2. CASE my.pc = "store root"
      BY <1>4, <2>1, <3>2 DEF Rises
    <3> QED
      BY <2>1, <3>1, <3>2
  <2>4. was \subseteq is /\ is \subseteq Ids
    BY <1>1, <1>3, <2>2 DEF Part
  <2>5. p \in Nat
    BY <1>1, <1>3, PowerType
  <2> HIDE DEF was, is, p
  <2>6. Cardinality(was) \in Nat /\ Cardinality(is) \in Nat /\ Cardinality(was) <= Cardinality(is)
    BY <2>4, PartSize
  <2> QED
    BY <2>3, <2>5, <2>6
<1>8. Path(now, v)'
  BY <1>1, <1>3, <1>4 DEF Path
<1> QED
  BY <1>6, <1>7, <1>8

(* It is enough to look at the entries, the locks and the thread that      *)
(* steps.                                                                  *)
LEMMA StepIsEnough ==
    ASSUME IInv, NEW w \in Workers, TypeOK', Grows, Ordered', LocksOwned', Reads(w)',
           NEW rep \in [Ids -> Ids], NEW now \in [Ids -> Ids], Trees(rep),
           Partition(now)', Sizes(now)', Rises(now, w)', Path(now, w)',
           \A v \in Workers \ {w} : local'[v] = local[v] /\ held'[v] = held[v],
           \A v \in Workers \ {w} : \A x \in held[v] : mData'[x] = mData[x],
           \A x \in Ids : parent(x)' = x => Part(rep, x) \subseteq Part(now, x),
           \A x, y \in Ids : rep[x] = rep[y] => now[x] = now[y]
    PROVE  IInv'
<1>1. ASSUME NEW v \in Workers \ {w}
      PROVE  Reads(v)' /\ Rises(now, v)' /\ Path(now, v)'
  <2>1. TypeOK /\ LocksOwned /\ Reads(v) /\ Rises(rep, v) /\ Path(rep, v)
    BY DEF IInv, Trees
  <2> QED
    BY <2>1, OthersStay
<1>2. \A v \in Workers : Reads(v)' /\ Rises(now, v)' /\ Path(now, v)'
  BY <1>1
<1>3. Trees(now)'
  BY <1>2 DEF Trees
<1> QED
  BY <1>2, <1>3 DEF IInv

(* In particular where it only reads. *)
LEMMA ReadingStep ==
    ASSUME IInv, NEW w \in Workers, UNCHANGED <<mData, held, use>>,
           local' \in [Workers -> Locals],
           \A v \in Workers \ {w} : local'[v] = local[v],
           Reads(w)',
           \A rep \in [Ids -> Ids] : Trees(rep) => Rises(rep, w)' /\ Path(rep, w)'
    PROVE  IInv'
<1>1. PICK rep \in [Ids -> Ids] : Trees(rep)
  BY DEF IInv
<1>2. TypeOK'
  BY DEF IInv, TypeOK
<1>3. \A x \in Ids : rank(x) \in Nat
  BY RankType DEF IInv
<1>4. Grows /\ Ordered' /\ LocksOwned'
  BY <1>3 DEF IInv, Grows, Ordered, LocksOwned, Below, rank, parent
<1>5. Partition(rep)' /\ Sizes(rep)'
  BY <1>1 DEF Trees, Partition, Sizes, Below, rank, parent
<1>6. \A x \in Ids : Part(rep, x) \subseteq Part(rep, x)
  OBVIOUS
<1> QED
  BY <1>1, <1>2, <1>4, <1>5, <1>6, StepIsEnough

(* A thread that has read nothing. *)
LEMMA NothingRead ==
    ASSUME NEW w \in Workers, local'[w].pc \in {"idle", "look", "try"}, NEW rep
    PROVE  Reads(w)' /\ Rises(rep, w)' /\ Path(rep, w)'
BY DEF Reads, Rises, Path

(* A thread outside every call has locals as well. *)
LEMMA IdleIsLocal == Idle \in Locals /\ Idle.pc = "idle" /\ AnyId \in Ids
<1>1. AnyId \in Ids
  BY IdsAssumption DEF AnyId
<1>2. Entry(FALSE, 0, AnyId) \in Entries
  BY <1>1, RanksAre DEF Entries, Entry
<1> QED
  BY <1>1, <1>2, RanksAre DEF Idle, Locals, Pcs

(* A return. *)
LEMMA Returns ==
    ASSUME TypeOK, NEW w \in Workers, Return(w)
    PROVE  /\ local' \in [Workers -> Locals]
           /\ local'[w].pc = "idle"
           /\ \A v \in Workers \ {w} : local'[v] = local[v]
BY IdleIsLocal DEF Return, TypeOK

(* The invariant holds after every step: one lemma for each. Here a call   *)
(* begins and touches no entry.                                            *)
LEMMA CallKeeps ==
    ASSUME IInv, NEW w \in Workers, CallFind(w) \/ CallTryLock(w) \/ CallUnite(w)
    PROVE  IInv'
<1>1. TypeOK /\ UNCHANGED <<mData, held, use>>
  BY DEF IInv, CallFind, CallTryLock, CallUnite
<1>2. PICK x \in use.ids, y \in use.ids, op \in {"find", "lock", "unite", "unite second"} :
        \/ local' = [local EXCEPT ![w].pc = "look", ![w].id = x]
        \/ local' = [local EXCEPT ![w].pc = "look", ![w].op = op, ![w].id = x]
        \/ local' = [local EXCEPT ![w].pc = "look", ![w].op = op, ![w].id = x, ![w].id2 = y]
  BY DEF CallFind, CallTryLock, CallUnite
<1>3. x \in Ids /\ y \in Ids
  BY <1>1, UsesAssumption DEF TypeOK
<1>4. /\ local' \in [Workers -> Locals]
      /\ local'[w].pc = "look"
      /\ \A v \in Workers \ {w} : local'[v] = local[v]
  <2>1. PICK old \in Locals : old = local[w]
    BY <1>1 DEF TypeOK
  <2>2. PICK new \in Locals : new.pc = "look" /\ local' = [local EXCEPT ![w] = new]
    <3>1. CASE local' = [local EXCEPT ![w].pc = "look", ![w].id = x]
      <4> DEFINE new == [old EXCEPT !.pc = "look", !.id = x]
      <4>1. new \in Locals /\ new.pc = "look"
        BY <1>3 DEF Locals, Pcs
      <4>2. local' = [local EXCEPT ![w] = new]
        BY <1>1, <2>1, <3>1 DEF TypeOK, Locals
      <4> QED
        BY <4>1, <4>2
    <3>2. CASE local' = [local EXCEPT ![w].pc = "look", ![w].op = op, ![w].id = x]
      <4> DEFINE new == [old EXCEPT !.pc = "look", !.op = op, !.id = x]
      <4>1. new \in Locals /\ new.pc = "look"
        BY <1>3 DEF Locals, Pcs
      <4>2. local' = [local EXCEPT ![w] = new]
        BY <1>1, <2>1, <3>2 DEF TypeOK, Locals
      <4> QED
        BY <4>1, <4>2
    <3>3. CASE local' = [local EXCEPT ![w].pc = "look", ![w].op = op, ![w].id = x, ![w].id2 = y]
      <4> DEFINE new == [old EXCEPT !.pc = "look", !.op = op, !.id = x, !.id2 = y]
      <4>1. new \in Locals /\ new.pc = "look"
        BY <1>3 DEF Locals, Pcs
      <4>2. local' = [local EXCEPT ![w] = new]
        BY <1>1, <2>1, <3>3 DEF TypeOK, Locals
      <4> QED
        BY <4>1, <4>2
    <3> QED
      BY <1>2, <3>1, <3>2, <3>3
  <2> QED
    BY <1>1, <2>2, Moves
<1> QED
  BY <1>1, <1>4, NothingRead, ReadingStep

(* find() reads the parent (dset.h:31-32). *)
LEMMA LookKeeps ==
    ASSUME IInv, NEW w \in Workers, Look(w)
    PROVE  IInv'
<1>1. /\ TypeOK /\ Ordered /\ UNCHANGED <<mData, held, use>>
      /\ parent(local[w].id) # local[w].id
  BY DEF IInv, Look
<1>2. PICK x \in Ids, e \in Entries : x = local[w].id /\ e = mData[x]
  BY <1>1, LocalType DEF TypeOK
<1>3. /\ local' \in [Workers -> Locals]
      /\ local'[w].pc = "grand" /\ local'[w].id = x /\ local'[w].value = e
      /\ \A v \in Workers \ {w} : local'[v] = local[v]
  <2>1. local \in [Workers -> Locals] /\ "grand" \in Pcs
    BY <1>1 DEF TypeOK, Pcs
  <2>2. local' = [local EXCEPT ![w].pc = "grand", ![w].value = e]
    BY <1>2 DEF Look
  <2> QED
    BY <1>2, <2>1, <2>2 DEF Locals
<1>4. e.parent = parent(x) /\ parent(x)' = parent(x) /\ parent(x) # x /\ e.parent \in Ids
  BY <1>1, <1>2, EntryType DEF parent
<1>5. Below(x, e.parent)'
  BY <1>1, <1>4 DEF Ordered, Below, rank
<1>6. Reads(w)'
  BY <1>3, <1>4, <1>5 DEF Reads
<1>7. ASSUME NEW rep \in [Ids -> Ids], Trees(rep)
      PROVE  Rises(rep, w)' /\ Path(rep, w)'
  BY <1>3, <1>4, <1>7 DEF Rises, Path, Trees, Partition
<1> QED
  BY <1>1, <1>3, <1>6, <1>7, ReadingStep

(* find() returns a root, or what was one (dset.h:41). *)
LEMMA FoundKeeps ==
    ASSUME IInv, NEW w \in Workers, Found(w)
    PROVE  IInv'
<1>1. TypeOK /\ UNCHANGED <<mData, held, use>>
  BY DEF IInv, Found
<1> DEFINE me == local[w]
<1>2. \/ Return(w)
      \/ Goto(w, "try")
      \/ local' = [local EXCEPT ![w].id1 = me.id, ![w].id = me.id2, ![w].op = "unite second"]
      \/ me.id # me.id1 /\ local' = [local EXCEPT ![w].id2 = me.id, ![w].pc = "rank1"]
  BY DEF Found
<1>3. PICK x \in Ids, x1 \in Ids, x2 \in Ids : me.id = x /\ me.id1 = x1 /\ me.id2 = x2
  BY <1>1, LocalType
<1>4. PICK old \in Locals : old = local[w] /\ old.pc = "look" /\ local \in [Workers -> Locals]
  BY <1>1 DEF TypeOK, Found, At
<1>5. CASE Return(w)
  BY <1>1, <1>5, Returns, NothingRead, ReadingStep
<1>6. CASE Goto(w, "try")
  <2>1. /\ local' \in [Workers -> Locals]
        /\ local'[w].pc = "try"
        /\ \A v \in Workers \ {w} : local'[v] = local[v]
    BY <1>4, <1>6 DEF Goto, Locals, Pcs
  <2> QED
    BY <1>1, <2>1, NothingRead, ReadingStep
<1>7. CASE local' = [local EXCEPT ![w].id1 = x, ![w].id = x2, ![w].op = "unite second"]
  <2>1. /\ local' \in [Workers -> Locals]
        /\ local'[w].pc = "look"
        /\ \A v \in Workers \ {w} : local'[v] = local[v]
    <3> DEFINE new == [old EXCEPT !.id1 = x, !.id = x2, !.op = "unite second"]
    <3>1. new \in Locals /\ new.pc = "look"
      BY <1>4 DEF Locals
    <3>2. local' = [local EXCEPT ![w] = new]
      BY <1>4, <1>7 DEF Locals
    <3> HIDE DEF new
    <3> QED
      BY <1>1, <3>1, <3>2, Moves
  <2> QED
    BY <1>1, <2>1, NothingRead, ReadingStep
<1>8. CASE x # x1 /\ local' = [local EXCEPT ![w].id2 = x, ![w].pc = "rank1"]
  <2>1. /\ local' \in [Workers -> Locals]
        /\ local'[w].pc = "rank1" /\ local'[w].id1 = x1 /\ local'[w].id2 = x
        /\ \A v \in Workers \ {w} : local'[v] = local[v]
    <3> DEFINE new == [old EXCEPT !.id2 = x, !.pc = "rank1"]
    <3>1. new \in Locals /\ new.pc = "rank1" /\ new.id1 = x1 /\ new.id2 = x
      BY <1>3, <1>4 DEF Locals, Pcs
    <3>2. local' = [local EXCEPT ![w] = new]
      BY <1>4, <1>8 DEF Locals
    <3> HIDE DEF new
    <3> QED
      BY <1>1, <3>1, <3>2, Moves
  <2>2. Reads(w)' /\ \A rep : Rises(rep, w)' /\ Path(rep, w)'
    BY <1>8, <2>1 DEF Reads, Rises, Path
  <2> QED
    BY <1>1, <2>1, <2>2, ReadingStep
<1> QED
  BY <1>2, <1>3, <1>5, <1>6, <1>7, <1>8

(* find() reads the grandparent (dset.h:33). *)
LEMMA GrandKeeps ==
    ASSUME IInv, NEW w \in Workers, Grand(w)
    PROVE  IInv'
<1>1. TypeOK /\ Ordered /\ Reads(w) /\ UNCHANGED <<mData, held, use>>
  BY DEF IInv, Grand
<1>2. PICK x \in Ids, e \in Entries, p \in Ids, g \in Ids :
        x = local[w].id /\ e = local[w].value /\ p = e.parent /\ g = parent(p)
  BY <1>1, LocalType, EntryType
<1>3. /\ local' \in [Workers -> Locals]
      /\ local'[w].pc = "halve" /\ local'[w].id = x /\ local'[w].value = e
      /\ local'[w].new_parent = g
      /\ \A v \in Workers \ {w} : local'[v] = local[v]
  <2>1. local \in [Workers -> Locals] /\ "halve" \in Pcs
    BY <1>1 DEF TypeOK, Pcs
  <2>2. local' = [local EXCEPT ![w].pc = "halve", ![w].new_parent = g]
    BY <1>2 DEF Grand
  <2> QED
    BY <1>2, <2>1, <2>2 DEF Locals
<1>4. parent(x) # x /\ Below(x, p)
  BY <1>1, <1>2 DEF Reads, Grand, At
<1>5. Below(x, g)
  <2>1. g = p \/ Below(p, g)
    BY <1>1, <1>2 DEF Ordered
  <2> QED
    BY <1>1, <1>4, <2>1, BelowIsOrder
<1>6. parent(x)' # x /\ Below(x, p)' /\ Below(x, g)'
  BY <1>1, <1>4, <1>5 DEF Below, rank, parent
<1>7. Reads(w)'
  BY <1>2, <1>3, <1>6 DEF Reads
<1>8. ASSUME NEW rep \in [Ids -> Ids], Trees(rep)
      PROVE  Rises(rep, w)' /\ Path(rep, w)'
  <2>1. rep[p] = rep[x]
    BY <1>2, <1>8 DEF Trees, Path, Grand, At
  <2>2. rep[g] = rep[p]
    BY <1>2, <1>8 DEF Trees, Partition
  <2> QED
    BY <1>2, <1>3, <2>1, <2>2 DEF Rises, Path
<1> QED
  BY <1>1, <1>3, <1>7, <1>8, ReadingStep

(* try_lock() looks at its entry (dset.h:95-100). *)
LEMMA TryKeeps ==
    ASSUME IInv, NEW w \in Workers, Try(w)
    PROVE  IInv'
<1>1. TypeOK /\ UNCHANGED <<mData, held, use>>
  BY DEF IInv, Try
<1>2. PICK old \in Locals, x \in Ids, e \in Entries :
        old = local[w] /\ x = old.id /\ e = mData[x] /\ local \in [Workers -> Locals]
  BY <1>1, LocalType DEF TypeOK
<1>3. CASE Return(w)
  BY <1>1, <1>3, Returns, NothingRead, ReadingStep
<1>4. CASE ~e.locked /\ e.parent = x /\ local' = [local EXCEPT ![w].pc = "lock", ![w].value = e]
  <2> DEFINE new == [old EXCEPT !.pc = "lock", !.value = e]
  <2>1. new \in Locals /\ new.pc = "lock" /\ new.value = e /\ new.id = x
    BY <1>2 DEF Locals, Pcs
  <2>2. local' = [local EXCEPT ![w] = new]
    BY <1>2, <1>4 DEF Locals
  <2> HIDE DEF new
  <2>3. local' \in [Workers -> Locals] /\ local'[w] = new /\ \A v \in Workers \ {w} : local'[v] = local[v]
    BY <1>1, <2>1, <2>2, Moves
  <2>4. Reads(w)' /\ \A rep : Rises(rep, w)' /\ Path(rep, w)'
    BY <1>4, <2>1, <2>3 DEF Reads, Rises, Path
  <2> QED
    BY <1>1, <2>3, <2>4, ReadingStep
<1> QED
  BY <1>2, <1>3, <1>4 DEF Try, parent

(* unite_unlock() begins: the thread holds both roots (dset.h:126-132). *)
LEMMA UniteUnlockKeeps ==
    ASSUME IInv, NEW w \in Workers, UniteUnlock(w)
    PROVE  IInv'
<1>1. TypeOK /\ UNCHANGED <<mData, held, use>>
  BY DEF IInv, UniteUnlock
<1>2. PICK x \in held[w], y \in held[w], r \in Ranks, s \in Ranks :
        /\ x \in Ids /\ y \in Ids /\ x # y
        /\ r = rank(x) /\ s = rank(y)
        /\ ~Swap(x, y, r, s)
        /\ local' = [local EXCEPT ![w].pc = "store", ![w].id1 = x, ![w].id2 = y,
             ![w].r1 = r, ![w].r2 = s]
  <2>1. held[w] \subseteq Ids
    BY <1>1 DEF TypeOK
  <2>2. PICK x \in held[w], y \in held[w] :
          /\ x # y /\ ~Swap(x, y, rank(x), rank(y))
          /\ local' = [local EXCEPT ![w].pc = "store", ![w].id1 = x, ![w].id2 = y,
               ![w].r1 = rank(x), ![w].r2 = rank(y)]
    BY DEF UniteUnlock
  <2>3. x \in Ids /\ y \in Ids /\ rank(x) \in Ranks /\ rank(y) \in Ranks
    BY <1>1, <2>1, EntryType
  <2> QED
    BY <2>2, <2>3
<1>3. PICK old \in Locals : old = local[w] /\ local \in [Workers -> Locals]
  BY <1>1 DEF TypeOK
<1> DEFINE new == [old EXCEPT !.pc = "store", !.id1 = x, !.id2 = y, !.r1 = r, !.r2 = s]
<1>4. /\ new \in Locals /\ new.pc = "store"
      /\ new.id1 = x /\ new.id2 = y /\ new.r1 = r /\ new.r2 = s
  BY <1>2 DEF Locals, Pcs
<1>5. local' = [local EXCEPT ![w] = new]
  BY <1>2, <1>3 DEF Locals
<1> HIDE DEF new
<1>6. local' \in [Workers -> Locals] /\ local'[w] = new /\ \A v \in Workers \ {w} : local'[v] = local[v]
  BY <1>1, <1>4, <1>5, Moves
<1>7. rank(x)' = r /\ rank(y)' = s /\ x \in held'[w] /\ y \in held'[w]
  BY <1>1, <1>2 DEF rank
<1>8. Reads(w)' /\ \A rep : Rises(rep, w)' /\ Path(rep, w)'
  BY <1>2, <1>4, <1>6, <1>7 DEF Reads, Rises, Path
<1> QED
  BY <1>1, <1>6, <1>8, ReadingStep

(* unite() reads the first rank, maybe an old one (dset.h:63). *)
LEMMA ReadRank1Keeps ==
    ASSUME IInv, NEW w \in Workers, ReadRank1(w)
    PROVE  IInv'
<1>1. TypeOK /\ Reads(w) /\ UNCHANGED <<mData, held, use>>
  BY DEF IInv, ReadRank1
<1>2. PICK old \in Locals, x \in Ids, y \in Ids, r \in Ranks :
        /\ old = local[w] /\ local \in [Workers -> Locals]
        /\ x = old.id1 /\ y = old.id2 /\ r = rank(x)
  BY <1>1, LocalType, EntryType DEF TypeOK
<1> DEFINE new == [old EXCEPT !.pc = "rank2", !.r1 = r]
<1>3. new \in Locals /\ new.pc = "rank2" /\ new.id1 = x /\ new.id2 = y /\ new.r1 = r
  BY <1>2 DEF Locals, Pcs
<1>4. local' = [local EXCEPT ![w] = new]
  BY <1>2 DEF ReadRank1, Locals
<1> HIDE DEF new
<1>5. local' \in [Workers -> Locals] /\ local'[w] = new /\ \A v \in Workers \ {w} : local'[v] = local[v]
  BY <1>1, <1>3, <1>4, Moves
<1>6. x # y /\ r <= rank(x)'
  <2>1. r <= r
    BY RanksAre
  <2> QED
    BY <1>1, <1>2, <2>1 DEF Reads, ReadRank1, At, rank
<1>7. Reads(w)' /\ \A rep : Rises(rep, w)' /\ Path(rep, w)'
  BY <1>2, <1>3, <1>5, <1>6 DEF Reads, Rises, Path
<1> QED
  BY <1>1, <1>5, <1>7, ReadingStep

(* unite() reads the second rank and orders the two (dset.h:63-68). *)
LEMMA ReadRank2Keeps ==
    ASSUME IInv, NEW w \in Workers, ReadRank2(w)
    PROVE  IInv'
<1>1. TypeOK /\ Reads(w) /\ UNCHANGED <<mData, held, use>>
  BY DEF IInv, ReadRank2
<1>2. PICK old \in Locals, x \in Ids, y \in Ids, r \in Ranks, s \in Ranks :
        /\ old = local[w] /\ local \in [Workers -> Locals]
        /\ x = old.id1 /\ y = old.id2 /\ r = old.r1 /\ s = rank(y)
  BY <1>1, LocalType, EntryType DEF TypeOK
<1>3. r \in Nat /\ s \in Nat /\ x \in Nat /\ y \in Nat /\ rank(x) \in Nat
  BY <1>1, <1>2, RanksAre, EntryType
<1>4. x # y /\ r <= rank(x) /\ rank(x)' = rank(x) /\ rank(y)' = s
  BY <1>1, <1>2 DEF Reads, ReadRank2, At, rank
<1>5. CASE Swap(x, y, r, s)
  <2> DEFINE new == [old EXCEPT !.pc = "link", !.id1 = y, !.id2 = x, !.r1 = s, !.r2 = r]
  <2>1. /\ new \in Locals /\ new.pc = "link"
        /\ new.id1 = y /\ new.id2 = x /\ new.r1 = s /\ new.r2 = r
    BY <1>2 DEF Locals, Pcs
  <2>2. local' = [local EXCEPT ![w] = new]
    BY <1>2, <1>5 DEF ReadRank2, Locals
  <2> HIDE DEF new
  <2>3. local' \in [Workers -> Locals] /\ local'[w] = new /\ \A v \in Workers \ {w} : local'[v] = local[v]
    BY <1>1, <2>1, <2>2, Moves
  <2>4. ~Swap(y, x, s, r)
    BY <1>3, <1>5 DEF Swap
  <2>5. Reads(w)' /\ \A rep : Rises(rep, w)' /\ Path(rep, w)'
    BY <1>4, <2>1, <2>3, <2>4 DEF Reads, Rises, Path
  <2> QED
    BY <1>1, <2>3, <2>5, ReadingStep
<1>6. CASE ~Swap(x, y, r, s)
  <2> DEFINE new == [old EXCEPT !.pc = "link", !.r2 = s]
  <2>1. /\ new \in Locals /\ new.pc = "link"
        /\ new.id1 = x /\ new.id2 = y /\ new.r1 = r /\ new.r2 = s
    BY <1>2 DEF Locals, Pcs
  <2>2. local' = [local EXCEPT ![w] = new]
    BY <1>2, <1>6 DEF ReadRank2, Locals
  <2> HIDE DEF new
  <2>3. local' \in [Workers -> Locals] /\ local'[w] = new /\ \A v \in Workers \ {w} : local'[v] = local[v]
    BY <1>1, <2>1, <2>2, Moves
  <2>4. s <= rank(y)'
    BY <1>3, <1>4
  <2>5. Reads(w)' /\ \A rep : Rises(rep, w)' /\ Path(rep, w)'
    BY <1>4, <1>6, <2>1, <2>3, <2>4 DEF Reads, Rises, Path
  <2> QED
    BY <1>1, <2>3, <2>5, ReadingStep
<1> QED
  BY <1>5, <1>6

(* The entry has changed since: unite() starts over (dset.h:73-74). *)
LEMMA AgainKeeps ==
    ASSUME IInv, NEW w \in Workers, Again(w)
    PROVE  IInv'
<1>1. TypeOK /\ UNCHANGED <<mData, held, use>>
  BY DEF IInv, Again
<1>2. PICK old \in Locals, x \in Ids, a \in Ids, zero \in Ranks :
        /\ old = local[w] /\ local \in [Workers -> Locals]
        /\ x = old.id1 /\ a = AnyId /\ zero = 0
  BY <1>1, LocalType, RanksAre, IdleIsLocal DEF TypeOK
<1> DEFINE new == [old EXCEPT !.pc = "look", !.op = "unite", !.id = x,
                     !.id1 = a, !.r1 = zero, !.r2 = zero]
<1>3. new \in Locals /\ new.pc = "look"
  BY <1>2 DEF Locals, Pcs
<1>4. local' = [local EXCEPT ![w] = new]
  BY <1>2 DEF Again, Locals
<1> HIDE DEF new
<1>5. local' \in [Workers -> Locals] /\ local'[w] = new /\ \A v \in Workers \ {w} : local'[v] = local[v]
  BY <1>1, <1>3, <1>4, Moves
<1> QED
  BY <1>1, <1>3, <1>5, NothingRead, ReadingStep

-----------------------------------------------------------------------------
(* Steps that write an entry.                                              *)

(* Where no parent changes, the trees stay. *)
LEMMA SameParents ==
    ASSUME IInv, NEW w \in Workers, TypeOK', Grows, LocksOwned', Reads(w)',
           NEW rep \in [Ids -> Ids], Trees(rep), Rises(rep, w)', Path(rep, w)',
           \A v \in Workers \ {w} : local'[v] = local[v] /\ held'[v] = held[v],
           \A v \in Workers \ {w} : \A x \in held[v] : mData'[x] = mData[x],
           \A x \in Ids : parent(x)' = parent(x),
           \A x \in Ids : \/ rank(x)' = rank(x)
                          \/ 2 ^ rank(x)' <= Cardinality(Part(rep, x))
    PROVE  IInv'
<1>1. TypeOK /\ Ordered
  BY DEF IInv
<1>2. Ordered'
  BY <1>1, OrderedStays
<1>3. Partition(rep) /\ Sizes(rep)
  BY DEF Trees
<1>4. Partition(rep)'
  <2>1. \A x, y \in Ids : parent(x)' = y => rep[y] = rep[x]
    BY <1>3 DEF Partition
  <2> QED
    BY <1>1, <1>3, <2>1, PartitionStays
<1>5. Sizes(rep)'
  BY <1>3, Zenon DEF Sizes, Part
<1>6. \A x \in Ids : Part(rep, x) \subseteq Part(rep, x)
  OBVIOUS
<1> QED
  BY <1>2, <1>4, <1>5, <1>6, StepIsEnough

(* unlock() clears the bit of an entry the thread holds (dset.h:108-111). *)
LEMMA UnlockKeeps ==
    ASSUME IInv, NEW w \in Workers, Unlock(w)
    PROVE  IInv'
<1>1. TypeOK /\ LocksOwned /\ Reads(w) /\ UNCHANGED <<local, use>> /\ local[w].pc = "idle"
  BY DEF IInv, Unlock, At
<1>2. PICK x \in held[w] : /\ mData' = [mData EXCEPT ![x].locked = FALSE]
                           /\ held' = [held EXCEPT ![w] = @ \ {x}]
  BY DEF Unlock
<1>3. x \in Ids /\ \A v \in Workers : held[v] \subseteq Ids
  BY <1>1 DEF TypeOK
<1>4. PICK rep \in [Ids -> Ids] : Trees(rep)
  BY DEF IInv
<1>5. TypeOK'
  BY <1>1, <1>2, <1>3 DEF TypeOK, Entries
<1>6. \A z \in Ids : /\ parent(z)' = parent(z) /\ rank(z)' = rank(z)
                     /\ z # x => mData'[z] = mData[z]
                     /\ mData'[x].locked = FALSE
  BY <1>1, <1>2, <1>3 DEF TypeOK, Entries, parent, rank
<1>7. Grows
  BY <1>1, <1>6, RankType DEF Grows
<1>8. /\ \A v \in Workers \ {w} : held'[v] = held[v] /\ x \notin held[v]
      /\ held'[w] = held[w] \ {x}
  BY <1>1, <1>2, <1>3 DEF TypeOK, LocksOwned
<1>9. LocksOwned'
  <2>1. ASSUME NEW z \in Ids, mData'[z].locked
        PROVE  parent(z)' = z /\ \E v \in Workers : z \in held'[v]
    <3>1. z # x /\ mData[z].locked
      BY <1>6, <2>1
    <3>2. parent(z) = z /\ \E v \in Workers : z \in held[v]
      BY <1>1, <3>1 DEF LocksOwned
    <3> QED
      BY <1>6, <1>8, <3>1, <3>2
  <2>2. \A z \in Ids, v \in Workers : z \in held'[v] => z \in held[v] /\ z # x
    BY <1>8
  <2>3. \A z \in Ids, v \in Workers : z \in held'[v] => mData'[z].locked
    BY <1>1, <1>6, <2>2 DEF LocksOwned
  <2> QED
    BY <1>1, <2>1, <2>2, <2>3 DEF LocksOwned
<1>10. Reads(w)' /\ Rises(rep, w)' /\ Path(rep, w)'
  BY <1>1, NothingRead
<1>11. \A v \in Workers \ {w} : \A z \in held[v] : mData'[z] = mData[z]
  BY <1>3, <1>6, <1>8
<1> QED
  BY <1>1, <1>4, <1>5, <1>6, <1>7, <1>8, <1>9, <1>10, <1>11, SameParents

(* try_lock() sets the bit of a root that has not changed (dset.h:105). *)
LEMMA LockCasKeeps ==
    ASSUME IInv, NEW w \in Workers, LockCas(w)
    PROVE  IInv'
<1>1. TypeOK /\ LocksOwned /\ Reads(w) /\ Return(w) /\ use' = use /\ local[w].pc = "lock"
  BY DEF IInv, LockCas, At
<1>2. /\ local' \in [Workers -> Locals] /\ local'[w].pc = "idle"
      /\ \A v \in Workers \ {w} : local'[v] = local[v]
  BY <1>1, Returns
<1>3. PICK rep \in [Ids -> Ids] : Trees(rep)
  BY DEF IInv
<1>4. PICK x \in Ids : x = local[w].id
  BY <1>1, LocalType
<1>5. CASE mData' = mData /\ held' = held
  BY <1>1, <1>2, <1>5, NothingRead, ReadingStep
<1>6. CASE /\ mData[x] = local[w].value
           /\ mData' = [mData EXCEPT ![x].locked = TRUE]
           /\ held' = [held EXCEPT ![w] = @ \cup {x}]
  <2>1. ~mData[x].locked /\ parent(x) = x
    BY <1>1, <1>4, <1>6 DEF Reads, parent
  <2>2. \A v \in Workers : held[v] \subseteq Ids /\ x \notin held[v]
    BY <1>1, <2>1 DEF TypeOK, LocksOwned
  <2>3. TypeOK'
    BY <1>1, <1>2, <1>4, <1>6 DEF TypeOK, Entries
  <2>4. \A z \in Ids : /\ parent(z)' = parent(z) /\ rank(z)' = rank(z)
                       /\ z # x => mData'[z] = mData[z]
                       /\ mData'[x].locked = TRUE
    BY <1>1, <1>4, <1>6 DEF TypeOK, Entries, parent, rank
  <2>5. Grows
    BY <1>1, <2>4, RankType DEF Grows
  <2>6. /\ \A v \in Workers \ {w} : held'[v] = held[v]
        /\ held'[w] = held[w] \cup {x}
    BY <1>1, <1>6 DEF TypeOK
  <2>7. LocksOwned'
    <3>1. \A z \in Ids, v \in Workers : z \in held'[v] <=> z \in held[v] \/ (z = x /\ v = w)
      BY <2>6
    <3>2. ASSUME NEW z \in Ids, mData'[z].locked
          PROVE  parent(z)' = z /\ \E v \in Workers : z \in held'[v]
      <4>1. CASE z = x
        BY <2>1, <2>4, <3>1, <4>1
      <4>2. CASE z # x
        <5>1. parent(z) = z /\ \E v \in Workers : z \in held[v]
          BY <1>1, <2>4, <3>2, <4>2 DEF LocksOwned
        <5> QED
          BY <2>4, <3>1, <5>1
      <4> QED
        BY <4>1, <4>2
    <3>3. \A z \in Ids, v \in Workers : z \in held'[v] => mData'[z].locked
      BY <1>1, <2>2, <2>4, <3>1 DEF LocksOwned
    <3>4. \A z \in Ids, u, v \in Workers : z \in held'[u] /\ z \in held'[v] => u = v
      BY <1>1, <2>2, <3>1 DEF LocksOwned
    <3> QED
      BY <3>2, <3>3, <3>4 DEF LocksOwned
  <2>8. Reads(w)' /\ Rises(rep, w)' /\ Path(rep, w)'
    BY <1>2, NothingRead
  <2>9. \A v \in Workers \ {w} : \A z \in held[v] : mData'[z] = mData[z]
    BY <2>2, <2>4
  <2> QED
    BY <1>2, <1>3, <2>3, <2>4, <2>5, <2>6, <2>7, <2>8, <2>9, SameParents
<1> QED
  BY <1>4, <1>5, <1>6 DEF LockCas

(* A rank that was about to rise fits. *)
LEMMA RaisedRank ==
    ASSUME NEW rep \in [Ids -> Ids], NEW x \in Ids, NEW r \in Nat,
           2 ^ r <= Cardinality(Part(rep, x))
    PROVE  r \in Ranks
<1> DEFINE p == 2 ^ r
           S == Part(rep, x)
<1>1. S \in SUBSET Ids
  BY DEF Part
<1>2. p \in Nat
  BY PowerType
<1> HIDE DEF p, S
<1>3. Cardinality(S) \in Nat /\ Cardinality(S) <= Cardinality(Ids)
  BY <1>1, PartSize
<1>4. p <= Cardinality(S)
  BY DEF p, S
<1>5. p <= Cardinality(Ids)
  BY <1>2, <1>3, <1>4, IdsAre
<1> QED
  BY <1>5, RanksAre DEF p

(* The rank of a root grows only with the number of its members            *)
(* (dset.h:76-81).                                                         *)
LEMMA BumpKeeps ==
    ASSUME IInv, NEW w \in Workers, Bump(w)
    PROVE  IInv'
<1>1. /\ TypeOK /\ LocksOwned /\ Reads(w) /\ Return(w) /\ local[w].pc = "bump"
      /\ held' = held /\ use' = use
  BY DEF IInv, Bump, At
<1>2. /\ local' \in [Workers -> Locals] /\ local'[w].pc = "idle"
      /\ \A v \in Workers \ {w} : local'[v] = local[v]
  BY <1>1, Returns
<1>3. PICK rep \in [Ids -> Ids] : Trees(rep)
  BY DEF IInv
<1>4. PICK x \in Ids, r \in Ranks : x = local[w].id2 /\ r = local[w].r2
  BY <1>1, LocalType
<1>5. CASE mData' = mData
  BY <1>1, <1>2, <1>5, NothingRead, ReadingStep
<1>6. CASE mData[x] = Entry(FALSE, r, x) /\ mData' = [mData EXCEPT ![x].rank = r + 1]
  <2>1. ~mData[x].locked /\ rank(x) = r /\ parent(x) = x /\ r \in Nat
    BY <1>6, RanksAre DEF Entry, rank, parent
  <2>2. PICK s \in Nat : s = r + 1
    BY <2>1
  <2>3. 2 ^ s <= Cardinality(Part(rep, x))
    BY <1>1, <1>3, <1>4, <2>1, <2>2 DEF Trees, Rises
  <2>4. s \in Ranks
    BY <2>3, RaisedRank
  <2>5. TypeOK'
    BY <1>1, <1>2, <1>6, <2>2, <2>4 DEF TypeOK, Entries
  <2>6. \A z \in Ids : /\ parent(z)' = parent(z)
                       /\ z # x => mData'[z] = mData[z] /\ rank(z)' = rank(z)
                       /\ mData'[z].locked = mData[z].locked
                       /\ rank(x)' = s
    <3>1. mData' = [mData EXCEPT ![x].rank = s] /\ mData \in [Ids -> Entries]
      BY <1>1, <1>6, <2>2 DEF TypeOK
    <3> QED
      BY <3>1, <2>4 DEF Entries, parent, rank
  <2>7. Grows
    BY <1>1, <2>1, <2>2, <2>6, RankType DEF Grows
  <2>8. LocksOwned'
    BY <1>1, <2>6 DEF LocksOwned
  <2>9. Reads(w)' /\ Rises(rep, w)' /\ Path(rep, w)'
    BY <1>2, NothingRead
  <2>10. \A v \in Workers \ {w} : \A z \in held[v] : mData'[z] = mData[z]
    BY <1>1, <2>1, <2>6 DEF LocksOwned, TypeOK
  <2>11. \A z \in Ids : \/ rank(z)' = rank(z)
                        \/ 2 ^ rank(z)' <= Cardinality(Part(rep, z))
    BY <2>3, <2>6, Zenon
  <2> QED
    BY <1>1, <1>2, <1>3, <2>5, <2>6, <2>7, <2>8, <2>9, <2>10, <2>11, SameParents
<1> QED
  BY <1>4, <1>5, <1>6 DEF Bump

(* unite_unlock() stores the new root, unlocked (dset.h:135-137). *)
LEMMA StoreRootKeeps ==
    ASSUME IInv, NEW w \in Workers, StoreRoot(w)
    PROVE  IInv'
<1>1. /\ TypeOK /\ LocksOwned /\ Reads(w) /\ Return(w) /\ local[w].pc = "store root"
      /\ use' = use
  BY DEF IInv, StoreRoot, At
<1>2. /\ local' \in [Workers -> Locals] /\ local'[w].pc = "idle"
      /\ \A v \in Workers \ {w} : local'[v] = local[v]
  BY <1>1, Returns
<1>3. PICK rep \in [Ids -> Ids] : Trees(rep)
  BY DEF IInv
<1>4. PICK x \in Ids, r \in Ranks : x = local[w].id2 /\ r = local[w].r2
  BY <1>1, LocalType
<1>5. x \in held[w] /\ rank(x) = r /\ parent(x) = x /\ r \in Nat
  BY <1>1, <1>4, RanksAre DEF Reads, LocksOwned
<1>6. PICK s \in Nat : s = r + (IF local[w].r1 = r THEN 1 ELSE 0)
  BY <1>5
<1>7. s \in Ranks /\ (s = r \/ 2 ^ s <= Cardinality(Part(rep, x)))
  <2>1. CASE local[w].r1 = r
    <3>1. s = r + 1
      BY <1>6, <2>1
    <3>2. 2 ^ s <= Cardinality(Part(rep, x))
      BY <1>1, <1>3, <1>4, <2>1, <3>1 DEF Trees, Rises
    <3> QED
      BY <3>2, RaisedRank
  <2>2. CASE local[w].r1 # r
    BY <1>5, <1>6, <2>2
  <2> QED
    BY <2>1, <2>2
<1>8. /\ mData' = [mData EXCEPT ![x] = Entry(FALSE, s, x)]
      /\ held' = [held EXCEPT ![w] = @ \ {x}]
  BY <1>4, <1>6 DEF StoreRoot
<1>9. PICK e \in Entries : e = Entry(FALSE, s, x) /\ e.locked = FALSE /\ e.rank = s /\ e.parent = x
  <2>1. Entry(FALSE, s, x) \in Entries
    BY <1>7 DEF Entries, Entry
  <2> QED
    BY <2>1 DEF Entry
<1>10. TypeOK'
  BY <1>1, <1>2, <1>8, <1>9 DEF TypeOK
<1>11. \A z \in Ids : /\ z # x => mData'[z] = mData[z] /\ rank(z)' = rank(z) /\ parent(z)' = parent(z)
                      /\ ~mData'[x].locked /\ rank(x)' = s /\ parent(x)' = x
  BY <1>1, <1>8, <1>9 DEF TypeOK, parent, rank
<1>12. \A z \in Ids : parent(z)' = parent(z)
  BY <1>5, <1>11
<1>13. Grows
  <2>1. r <= s
    BY <1>5, <1>6
  <2>2. \A z \in Ids : rank(z) \in Nat
    BY <1>1, RankType
  <2> QED
    BY <1>5, <1>11, <2>1, <2>2 DEF Grows
<1>14. /\ \A v \in Workers \ {w} : held'[v] = held[v] /\ x \notin held[v]
       /\ held'[w] = held[w] \ {x}
  BY <1>1, <1>5, <1>8 DEF TypeOK, LocksOwned
<1>15. LocksOwned'
  <2>1. ASSUME NEW z \in Ids, mData'[z].locked
        PROVE  parent(z)' = z /\ \E v \in Workers : z \in held'[v]
    <3>1. z # x /\ mData[z].locked
      BY <1>11, <2>1
    <3>2. parent(z) = z /\ \E v \in Workers : z \in held[v]
      BY <1>1, <3>1 DEF LocksOwned
    <3> QED
      BY <1>11, <1>14, <3>1, <3>2
  <2>2. \A z \in Ids, v \in Workers : z \in held'[v] => z \in held[v] /\ z # x
    BY <1>14
  <2>3. \A z \in Ids, v \in Workers : z \in held'[v] => mData'[z].locked
    BY <1>1, <1>11, <2>2 DEF LocksOwned
  <2> QED
    BY <1>1, <2>1, <2>2, <2>3 DEF LocksOwned
<1>16. Reads(w)' /\ Rises(rep, w)' /\ Path(rep, w)'
  BY <1>2, NothingRead
<1>17. \A v \in Workers \ {w} : \A z \in held[v] : mData'[z] = mData[z]
  BY <1>1, <1>11, <1>14 DEF TypeOK
<1>18. \A z \in Ids : \/ rank(z)' = rank(z)
                      \/ 2 ^ rank(z)' <= Cardinality(Part(rep, z))
  BY <1>5, <1>7, <1>11, Zenon
<1> QED
  BY <1>2, <1>3, <1>10, <1>12, <1>13, <1>14, <1>15, <1>16, <1>17, <1>18, SameParents

(* Halving moves an entry within its tree. *)
LEMMA HalveKeeps ==
    ASSUME IInv, NEW w \in Workers, Halve(w)
    PROVE  IInv'
<1>1. /\ TypeOK /\ Ordered /\ LocksOwned /\ Reads(w) /\ local[w].pc = "halve"
      /\ held' = held /\ use' = use
  BY DEF IInv, Halve, At
<1>2. PICK old \in Locals, x \in Ids, g \in Ids, a \in Ids, e \in Entries :
        /\ old = local[w] /\ local \in [Workers -> Locals]
        /\ x = old.id /\ g = old.new_parent /\ a = AnyId /\ e = Idle.value
  <2>1. Idle.value \in Entries
    BY IdleIsLocal DEF Locals
  <2> QED
    BY <1>1, <2>1, LocalType, IdleIsLocal DEF TypeOK
<1> DEFINE new == [old EXCEPT !.pc = "look", !.id = g, !.value = e, !.new_parent = a]
<1>3. new \in Locals /\ new.pc = "look"
  BY <1>2 DEF Locals, Pcs
<1>4. local' = [local EXCEPT ![w] = new]
  BY <1>2 DEF Halve, Locals
<1> HIDE DEF new
<1>5. local' \in [Workers -> Locals] /\ local'[w] = new /\ \A v \in Workers \ {w} : local'[v] = local[v]
  BY <1>1, <1>3, <1>4, Moves
<1>6. CASE mData' = mData
  BY <1>1, <1>3, <1>5, <1>6, NothingRead, ReadingStep
<1>7. CASE mData' = [mData EXCEPT ![x].parent = g]
  <2>1. PICK rep \in [Ids -> Ids] : Trees(rep)
    BY DEF IInv
  <2>2. parent(x) # x /\ Below(x, g) /\ rep[g] = rep[x]
    BY <1>1, <1>2, <2>1 DEF Reads, Trees, Path
  <2>3. x # g
    BY <1>1, <2>2, BelowIsOrder
  <2>4. TypeOK'
    BY <1>1, <1>2, <1>5, <1>7 DEF TypeOK, Entries
  <2>5. \A z \in Ids : /\ rank(z)' = rank(z) /\ mData'[z].locked = mData[z].locked
                       /\ z # x => parent(z)' = parent(z) /\ mData'[z] = mData[z]
                       /\ parent(x)' = g
    BY <1>1, <1>2, <1>7 DEF TypeOK, Entries, parent, rank
  <2>6. Grows
    BY <1>1, <2>3, <2>5, RankType DEF Grows
  <2>7. Ordered'
    <3>1. Below(x, g)'
      BY <2>2, <2>5 DEF Below
    <3>2. \A z, y \in Ids : parent(z)' = y /\ parent(z) # y => z = x /\ y = g
      BY <2>5
    <3>3. \A z, y \in Ids : parent(z)' = y /\ parent(z) # y => Below(z, y)'
      BY <3>1, <3>2
    <3> QED
      BY <1>1, <2>4, <2>6, <3>3, OrderedStays
  <2>8. LocksOwned'
    BY <1>1, <2>2, <2>5 DEF LocksOwned
  <2>9. Partition(rep)'
    <3>1. \A z \in Ids : parent(z) = z => parent(z)' = z
      BY <2>2, <2>5
    <3>2. \A z, y \in Ids : parent(z)' = y => rep[y] = rep[z]
      BY <2>1, <2>2, <2>5 DEF Trees, Partition
    <3>3. Partition(rep)
      BY <2>1 DEF Trees
    <3> QED
      BY <1>1, <2>4, <2>6, <3>1, <3>2, <3>3, PartitionStays
  <2>10. Sizes(rep)'
    <3>1. \A z \in Ids : parent(z)' = z => parent(z) = z
      BY <2>3, <2>5
    <3> QED
      BY <2>1, <2>5, <3>1 DEF Trees, Sizes, Part
  <2>11. Reads(w)' /\ Rises(rep, w)' /\ Path(rep, w)'
    BY <1>3, <1>5, NothingRead
  <2>12. \A v \in Workers \ {w} : \A z \in held[v] : mData'[z] = mData[z]
    BY <1>1, <2>2, <2>5 DEF LocksOwned, TypeOK
  <2>13. \A z \in Ids : Part(rep, z) \subseteq Part(rep, z)
    OBVIOUS
  <2> QED
    BY <1>1, <1>5, <2>1, <2>4, <2>6, <2>7, <2>8, <2>9, <2>10, <2>11, <2>12, <2>13, StepIsEnough
<1> QED
  BY <1>2, <1>6, <1>7 DEF Halve

(* The roots when the tree of c is put under t. *)
Joined(rep, c, t) == [x \in Ids |-> IF rep[x] = c THEN rep[t] ELSE rep[x]]

(* The tree of t is not the tree of a root that may be put under it. *)
LEMMA OtherTree ==
    ASSUME TypeOK, NEW rep \in [Ids -> Ids], Partition(rep), NEW c \in Ids, NEW t \in Ids,
           Below(c, t)
    PROVE  rep[t] # c
<1> SUFFICES ASSUME rep[t] = c
             PROVE  FALSE
  OBVIOUS
<1>1. c # t
  BY BelowIsOrder
<1>2. Below(t, c)
  BY <1>1 DEF Partition
<1> QED
  BY <1>2, BelowIsOrder

(* A root is put under an entry above it. *)
LEMMA TreesAreJoined ==
    ASSUME IInv, NEW w \in Workers, TypeOK', LocksOwned', Reads(w)',
           NEW rep \in [Ids -> Ids], Trees(rep), NEW c \in Ids, NEW t \in Ids,
           parent(c) = c, Below(c, t), parent(c)' = t,
           Rises(Joined(rep, c, t), w)', Path(Joined(rep, c, t), w)',
           \A x \in Ids : rank(x)' = rank(x),
           \A x \in Ids \ {c} : parent(x)' = parent(x),
           \A v \in Workers \ {w} : local'[v] = local[v] /\ held'[v] = held[v],
           \A v \in Workers \ {w} : \A x \in held[v] : mData'[x] = mData[x]
    PROVE  IInv'
<1> DEFINE now == Joined(rep, c, t)
<1>1. TypeOK /\ Ordered /\ Partition(rep) /\ Sizes(rep)
  BY DEF IInv, Trees
<1>2. PICK q \in Ids : q = rep[t]
  OBVIOUS
<1>3. q # c /\ c # t /\ rep[c] = c /\ parent(q) = q
  BY <1>1, <1>2, OtherTree, BelowIsOrder DEF Partition
<1>4. /\ now \in [Ids -> Ids]
      /\ \A x \in Ids : now[x] = IF rep[x] = c THEN q ELSE rep[x]
  BY <1>2 DEF Joined
<1> HIDE DEF now
<1>5. Grows
  BY <1>1, <1>3, RankType DEF Grows
<1>6. \A x, y \in Ids : Below(x, y) => Below(x, y)'
  BY DEF Below
<1>7. Ordered'
  <2>1. \A x, y \in Ids : parent(x)' = y /\ parent(x) # y => x = c /\ y = t
    OBVIOUS
  <2>2. \A x, y \in Ids : parent(x)' = y /\ parent(x) # y => Below(x, y)'
    BY <1>6, <2>1
  <2> QED
    BY <1>1, <1>5, <2>2, OrderedStays
<1>8. \A x \in Ids : parent(x)' = x => parent(x) = x /\ x # c
  BY <1>3
<1>9. \A x \in Ids : parent(x)' = x => Part(rep, x) \subseteq Part(now, x)
  BY <1>4, <1>8 DEF Part
<1>10. Partition(now)'
  <2> SUFFICES ASSUME NEW x \in Ids
               PROVE  /\ now[parent(x)'] = now[x]
                      /\ parent(now[x])' = now[x]
                      /\ parent(x)' = x => now[x] = x
                      /\ now[x] # x => Below(x, now[x])'
    BY DEF Partition
  <2>1. now[parent(x)'] = now[x]
    <3>1. CASE x = c
      BY <1>2, <1>3, <1>4, <3>1
    <3>2. CASE x # c
      <4>1. parent(x)' = parent(x) /\ parent(x) \in Ids /\ rep[parent(x)] = rep[x]
        BY <1>1, <3>2, EntryType DEF Partition
      <4> QED
        BY <1>4, <4>1
    <3> QED
      BY <3>1, <3>2
  <2>2. PICK n \in Ids : n = now[x]
    BY <1>4
  <2>3. n # c /\ parent(n) = n
    BY <1>1, <1>3, <1>4, <2>2 DEF Partition
  <2>4. parent(n)' = n
    BY <2>3
  <2>5. parent(x)' = x => now[x] = x
    BY <1>1, <1>4, <1>8 DEF Partition
  <2>6. ASSUME n # x
        PROVE  Below(x, n)
    <3>1. CASE rep[x] = c
      <4>1. n = q
        BY <1>4, <2>2, <3>1
      <4>2. t = q \/ Below(t, q)
        BY <1>1, <1>2 DEF Partition
      <4>3. x = c \/ Below(x, c)
        BY <1>1, <3>1 DEF Partition
      <4>4. Below(c, q)
        BY <1>1, <4>2, BelowIsOrder
      <4> QED
        BY <1>1, <4>1, <4>3, <4>4, BelowIsOrder
    <3>2. CASE rep[x] # c
      BY <1>1, <1>4, <2>2, <2>6, <3>2 DEF Partition
    <3> QED
      BY <3>1, <3>2
  <2>7. n # x => Below(x, n)'
    BY <1>6, <2>6
  <2> QED
    BY <2>1, <2>2, <2>4, <2>5, <2>7 DEF Below
<1>11. Sizes(now)'
  <2> SUFFICES ASSUME NEW x \in Ids, parent(x)' = x
               PROVE  2 ^ rank(x)' <= Cardinality(Part(now, x))
    BY DEF Sizes, Part
  <2> DEFINE p == 2 ^ rank(x)
             S == Part(rep, x)
             T == Part(now, x)
  <2>1. p <= Cardinality(S)
    BY <1>1, <1>8 DEF Sizes
  <2>2. S \subseteq T /\ T \subseteq Ids
    BY <1>9 DEF Part
  <2>3. p \in Nat
    BY <1>1, EntryType, PowerType
  <2>4. rank(x)' = rank(x)
    OBVIOUS
  <2> HIDE DEF S, T
  <2>5. Cardinality(S) \in Nat /\ Cardinality(T) \in Nat /\ Cardinality(S) <= Cardinality(T)
    BY <2>2, PartSize
  <2>6. p <= Cardinality(T)
    <3> HIDE DEF p
    <3> QED
      BY <2>1, <2>3, <2>5
  <2> QED
    BY <2>4, <2>6 DEF T
<1>12. \A x, y \in Ids : rep[x] = rep[y] => now[x] = now[y]
  BY <1>4
<1>13. Rises(now, w)' /\ Path(now, w)'
  BY DEF now
<1> QED
  BY <1>4, <1>5, <1>7, <1>9, <1>10, <1>11, <1>12, <1>13, StepIsEnough

(* Two trees of one rank make one of twice the size. *)
LEMMA JoinedSize ==
    ASSUME TypeOK, NEW rep \in [Ids -> Ids], Trees(rep), NEW c \in Ids, NEW t \in Ids, NEW r \in Nat,
           c # t, parent(c) = c, parent(t) = t, rank(c) = r, rank(t) = r
    PROVE  2 ^ (r + 1) <= Cardinality(Part(Joined(rep, c, t), t))
<1> DEFINE p == 2 ^ r
           q == 2 ^ (r + 1)
           S == Part(rep, c)
           T == Part(rep, t)
           U == Part(Joined(rep, c, t), t)
<1>1. p \in Nat /\ q = p + p
  BY PowerType, PowerDoubles
<1>2. p <= Cardinality(S) /\ p <= Cardinality(T)
  BY DEF Trees, Sizes
<1>3. rep[t] = t
  BY DEF Trees, Partition
<1>4. S \subseteq Ids /\ T \subseteq Ids /\ U \subseteq Ids /\ S \cup T \subseteq U /\ S \cap T = {}
  BY <1>3 DEF Part, Joined
<1> HIDE DEF p, q, S, T, U
<1>5. /\ IsFiniteSet(S) /\ IsFiniteSet(T)
      /\ Cardinality(S) \in Nat /\ Cardinality(T) \in Nat /\ Cardinality(U) \in Nat
  BY <1>4, PartSize
<1>6. Cardinality(S \cup T) = Cardinality(S) + Cardinality(T) - Cardinality(S \cap T)
  BY <1>5, FS_Union
<1>7. Cardinality(S \cap T) = 0
  BY <1>4, FS_EmptySet
<1>8. Cardinality(S \cup T) <= Cardinality(U)
  BY <1>4, PartSize
<1>9. q <= Cardinality(U)
  BY <1>1, <1>2, <1>5, <1>6, <1>7, <1>8
<1> QED
  BY <1>9 DEF q, U

(* unite() links a root to one of at least its rank (dset.h:73-83). *)
LEMMA LinkKeeps ==
    ASSUME IInv, NEW w \in Workers, Link(w)
    PROVE  IInv'
<1>1. /\ TypeOK /\ LocksOwned /\ Reads(w) /\ local[w].pc = "link" /\ Unlinked(w)
      /\ held' = held /\ use' = use
  BY DEF IInv, Link, At
<1>2. PICK old \in Locals, c \in Ids, t \in Ids, r \in Ranks, s \in Ranks :
        /\ old = local[w] /\ local \in [Workers -> Locals] /\ old.pc = "link"
        /\ c = old.id1 /\ t = old.id2 /\ r = old.r1 /\ s = old.r2
  BY <1>1, LocalType DEF TypeOK
<1>3. PICK rep \in [Ids -> Ids] : Trees(rep)
  BY DEF IInv
<1>4. r \in Nat /\ s \in Nat /\ c \in Nat /\ t \in Nat /\ rank(t) \in Nat
  BY <1>1, <1>2, RanksAre, EntryType
<1>5. parent(c) = c /\ rank(c) = r /\ ~mData[c].locked
  BY <1>1, <1>2 DEF Unlinked, Entry, parent, rank
<1>6. c # t /\ s <= rank(t) /\ ~Swap(c, t, r, s)
  BY <1>1, <1>2 DEF Reads
<1>7. Below(c, t)
  <2>1. ~(r > s) /\ ~(r = s /\ c < t)
    BY <1>6 DEF Swap
  <2>2. r < rank(t) \/ (r = rank(t) /\ t < c)
    BY <1>4, <1>6, <2>1
  <2> QED
    BY <1>5, <2>2 DEF Below
<1>8. mData' = [mData EXCEPT ![c].parent = t]
  BY <1>2 DEF Link
<1>9. /\ local' \in [Workers -> Locals]
      /\ \A v \in Workers \ {w} : local'[v] = local[v]
      /\ \/ local'[w].pc = "idle"
         \/ /\ r = s /\ local'[w].pc = "bump"
            /\ local'[w].id1 = c /\ local'[w].id2 = t /\ local'[w].r2 = s
  <2>1. CASE Return(w)
    BY <1>1, <2>1, Returns
  <2>2. CASE r = s /\ Goto(w, "bump")
    <3> DEFINE new == [old EXCEPT !.pc = "bump"]
    <3>1. /\ new \in Locals /\ new.pc = "bump"
          /\ new.id1 = c /\ new.id2 = t /\ new.r2 = s
      BY <1>2 DEF Locals, Pcs
    <3>2. local' = [local EXCEPT ![w] = new]
      BY <1>2, <2>2 DEF Goto
    <3> HIDE DEF new
    <3> QED
      BY <1>1, <2>2, <3>1, <3>2, Moves
  <2> QED
    BY <1>2, <2>1, <2>2 DEF Link
<1>10. TypeOK'
  BY <1>1, <1>8, <1>9 DEF TypeOK, Entries
<1>11. \A z \in Ids : /\ rank(z)' = rank(z) /\ mData'[z].locked = mData[z].locked
                      /\ z # c => parent(z)' = parent(z) /\ mData'[z] = mData[z]
                      /\ parent(c)' = t
  BY <1>1, <1>8 DEF TypeOK, Entries, parent, rank
<1>12. LocksOwned'
  BY <1>1, <1>5, <1>11 DEF LocksOwned
<1>13. \A v \in Workers \ {w} : \A z \in held[v] : mData'[z] = mData[z]
  BY <1>1, <1>5, <1>11 DEF LocksOwned, TypeOK
<1>14. Reads(w)'
  BY <1>6, <1>9, <1>11 DEF Reads
<1> DEFINE now == Joined(rep, c, t)
<1>15. Path(now, w)'
  BY <1>9 DEF Path
<1>16. Rises(now, w)'
  <2> SUFFICES ASSUME local'[w].pc = "bump", parent(t)' = t, rank(t)' = s,
                      r = s, local'[w].id2 = t, local'[w].r2 = s
               PROVE  2 ^ (s + 1) <= Cardinality(Part(now, t))
    BY <1>9 DEF Rises, Part
  <2>1. parent(t) = t /\ rank(t) = s
    BY <1>6, <1>11
  <2> QED
    BY <1>1, <1>3, <1>4, <1>5, <1>6, <2>1, JoinedSize
<1> HIDE DEF now
<1> QED
  BY <1>1, <1>3, <1>5, <1>7, <1>9, <1>10, <1>11, <1>12, <1>13, <1>14, <1>15, <1>16, TreesAreJoined
     DEF now

(* unite_unlock() links the first root, locked until then (dset.h:134). *)
LEMMA StoreChildKeeps ==
    ASSUME IInv, NEW w \in Workers, StoreChild(w)
    PROVE  IInv'
<1>1. /\ TypeOK /\ LocksOwned /\ Reads(w) /\ local[w].pc = "store"
      /\ use' = use
  BY DEF IInv, StoreChild, At
<1>2. PICK old \in Locals, c \in Ids, t \in Ids, r \in Ranks, s \in Ranks :
        /\ old = local[w] /\ local \in [Workers -> Locals] /\ old.pc = "store"
        /\ c = old.id1 /\ t = old.id2 /\ r = old.r1 /\ s = old.r2
  BY <1>1, LocalType DEF TypeOK
<1>3. PICK rep \in [Ids -> Ids] : Trees(rep)
  BY DEF IInv
<1>4. r \in Nat /\ s \in Nat /\ c \in Nat /\ t \in Nat
  BY <1>1, <1>2, RanksAre, EntryType
<1>5. /\ c # t /\ c \in held[w] /\ t \in held[w] /\ rank(c) = r /\ rank(t) = s
      /\ ~Swap(c, t, r, s)
  BY <1>1, <1>2 DEF Reads
<1>6. parent(c) = c /\ parent(t) = t
  BY <1>1, <1>5 DEF LocksOwned
<1>7. Below(c, t)
  <2>1. ~(r > s) /\ ~(r = s /\ c < t)
    BY <1>5 DEF Swap
  <2>2. r < s \/ (r = s /\ t < c)
    BY <1>4, <1>5, <2>1
  <2> QED
    BY <1>5, <2>2 DEF Below
<1>8. /\ mData' = [mData EXCEPT ![c] = Entry(FALSE, r, t)]
      /\ held' = [held EXCEPT ![w] = @ \ {c}]
  BY <1>2 DEF StoreChild
<1>9. PICK e \in Entries : e = Entry(FALSE, r, t) /\ e.locked = FALSE /\ e.rank = r /\ e.parent = t
  <2>1. Entry(FALSE, r, t) \in Entries
    BY DEF Entries, Entry
  <2> QED
    BY <2>1 DEF Entry
<1>10. /\ local' \in [Workers -> Locals]
       /\ \A v \in Workers \ {w} : local'[v] = local[v]
       /\ local'[w].pc = "store root" /\ local'[w].id1 = c /\ local'[w].id2 = t
       /\ local'[w].r1 = r /\ local'[w].r2 = s
  <2> DEFINE new == [old EXCEPT !.pc = "store root"]
  <2>1. /\ new \in Locals /\ new.pc = "store root"
        /\ new.id1 = c /\ new.id2 = t /\ new.r1 = r /\ new.r2 = s
    BY <1>2 DEF Locals, Pcs
  <2>2. local' = [local EXCEPT ![w] = new]
    BY <1>2 DEF StoreChild, Goto
  <2> HIDE DEF new
  <2> QED
    BY <1>1, <2>1, <2>2, Moves
<1>11. TypeOK'
  BY <1>1, <1>8, <1>9, <1>10 DEF TypeOK
<1>12. \A z \in Ids : /\ z # c => /\ mData'[z] = mData[z] /\ rank(z)' = rank(z)
                                  /\ parent(z)' = parent(z)
                      /\ mData'[c].locked = FALSE /\ rank(c)' = r /\ parent(c)' = t
  BY <1>1, <1>8, <1>9 DEF TypeOK, parent, rank
<1>13. \A z \in Ids : rank(z)' = rank(z)
  BY <1>5, <1>12
<1>14. /\ \A v \in Workers \ {w} : held'[v] = held[v] /\ c \notin held[v]
       /\ held'[w] = held[w] \ {c}
  BY <1>1, <1>5, <1>8 DEF TypeOK, LocksOwned
<1>15. LocksOwned'
  <2>1. ASSUME NEW z \in Ids, mData'[z].locked
        PROVE  parent(z)' = z /\ \E v \in Workers : z \in held'[v]
    <3>1. z # c /\ mData[z].locked
      BY <1>12, <2>1
    <3>2. parent(z) = z /\ \E v \in Workers : z \in held[v]
      BY <1>1, <3>1 DEF LocksOwned
    <3> QED
      BY <1>12, <1>14, <3>1, <3>2
  <2>2. \A z \in Ids, v \in Workers : z \in held'[v] => z \in held[v] /\ z # c
    BY <1>14
  <2>3. \A z \in Ids, v \in Workers : z \in held'[v] => mData'[z].locked
    BY <1>1, <1>12, <2>2 DEF LocksOwned
  <2> QED
    BY <1>1, <2>1, <2>2, <2>3 DEF LocksOwned
<1>16. \A v \in Workers \ {w} : \A z \in held[v] : mData'[z] = mData[z]
  BY <1>1, <1>12, <1>14 DEF TypeOK
<1>17. Reads(w)'
  BY <1>5, <1>10, <1>13, <1>14 DEF Reads
<1> DEFINE now == Joined(rep, c, t)
<1>18. Path(now, w)'
  BY <1>10 DEF Path
<1>19. Rises(now, w)'
  <2> SUFFICES ASSUME r = s
               PROVE  2 ^ (s + 1) <= Cardinality(Part(now, t))
    BY <1>10 DEF Rises, Part
  <2> QED
    BY <1>1, <1>3, <1>4, <1>5, <1>6, JoinedSize
<1>20. /\ parent(c)' = t
       /\ \A z \in Ids \ {c} : parent(z)' = parent(z)
       /\ \A v \in Workers \ {w} : local'[v] = local[v] /\ held'[v] = held[v]
  BY <1>10, <1>12, <1>14
<1> HIDE DEF now
<1>21. Rises(Joined(rep, c, t), w)' /\ Path(Joined(rep, c, t), w)'
  BY <1>18, <1>19 DEF now
<1> QED
  BY <1>3, <1>6, <1>7, <1>11, <1>13, <1>15, <1>16, <1>17, <1>20, <1>21, TreesAreJoined

-----------------------------------------------------------------------------
(* The theorem.                                                            *)

(* The invariant holds in the beginning. *)
LEMMA InitTrees == Init => IInv
<1> SUFFICES ASSUME Init
             PROVE  IInv
  OBVIOUS
<1>1. /\ mData = [x \in Ids |-> Entry(FALSE, 0, x)]
      /\ local = [w \in Workers |-> Idle] /\ held = [w \in Workers |-> {}] /\ use \in Uses
  BY DEF Init
<1>2. \A x \in Ids : mData[x].locked = FALSE /\ rank(x) = 0 /\ parent(x) = x
  BY <1>1 DEF Entry, rank, parent
<1>3. TypeOK
  <2>1. mData \in [Ids -> Entries]
    BY <1>1, RanksAre DEF Entry, Entries
  <2>2. local \in [Workers -> Locals]
    BY <1>1, IdleIsLocal
  <2> QED
    BY <1>1, <2>1, <2>2 DEF TypeOK
<1>4. Ordered /\ LocksOwned
  BY <1>1, <1>2 DEF Ordered, LocksOwned
<1>5. \A w \in Workers : local[w].pc = "idle"
  BY <1>1, IdleIsLocal
<1>6. \A w \in Workers : Reads(w)
  BY <1>5 DEF Reads
<1> DEFINE rep == [x \in Ids |-> x]
<1>7. Partition(rep)
  BY <1>2 DEF Partition
<1>8. Sizes(rep)
  <2> SUFFICES ASSUME NEW x \in Ids
               PROVE  2 ^ rank(x) <= Cardinality(Part(rep, x))
    BY DEF Sizes
  <2>1. Part(rep, x) = {x}
    BY DEF Part
  <2>2. Cardinality({x}) = 1
    BY FS_Singleton
  <2>3. 2 ^ 0 = 1
    OBVIOUS
  <2>4. 2 ^ rank(x) = 2 ^ 0
    BY <1>2
  <2> QED
    BY <2>1, <2>2, <2>3, <2>4
<1>9. \A w \in Workers : Rises(rep, w) /\ Path(rep, w)
  BY <1>5 DEF Rises, Path
<1>10. rep \in [Ids -> Ids] /\ Trees(rep)
  BY <1>7, <1>8, <1>9 DEF Trees
<1> QED
  BY <1>3, <1>4, <1>6, <1>10 DEF IInv

(* Every step keeps the invariant. *)
LEMMA NextKeepsTrees == IInv /\ [Next]_vars => IInv'
<1> SUFFICES ASSUME IInv, [Next]_vars
             PROVE  IInv'
  OBVIOUS
<1>1. CASE Next
  <2>1. PICK w \in Workers :
          \/ CallFind(w) \/ CallTryLock(w) \/ CallUnite(w)
          \/ Unlock(w) \/ UniteUnlock(w) \/ Step(w)
    BY <1>1 DEF Next
  <2> QED
    BY <2>1, CallKeeps, LookKeeps, FoundKeeps, GrandKeeps, HalveKeeps, TryKeeps, LockCasKeeps,
       UnlockKeeps, UniteUnlockKeeps, StoreChildKeeps, StoreRootKeeps, ReadRank1Keeps,
       ReadRank2Keeps, LinkKeeps, AgainKeeps, BumpKeeps DEF Step
<1>2. CASE UNCHANGED vars
  <2>1. UNCHANGED <<mData, local, held, use>>
    BY <1>2 DEF vars
  <2>2. TypeOK' /\ Ordered' /\ LocksOwned'
    BY <2>1 DEF IInv, TypeOK, Ordered, Below, LocksOwned, parent, rank
  <2>3. \A w \in Workers : Reads(w)'
    BY <2>1 DEF IInv, Reads, Below, parent, rank
  <2>4. PICK rep \in [Ids -> Ids] : Trees(rep)
    BY DEF IInv
  <2>5. Trees(rep)'
    BY <2>1, <2>4 DEF Trees, Partition, Sizes, Rises, Path, Below, parent, rank
  <2> QED
    BY <2>2, <2>3, <2>4, <2>5 DEF IInv
<1> QED
  BY <1>1, <1>2

(* The sets are trees at all times. *)
THEOREM TreesInvariance == Spec => []IInv
<1> QED
  BY InitTrees, NextKeepsTrees, PTL DEF Spec

(* Whatever the threads call and however their steps mix: parents are      *)
(* above their children, so that find ends at a root; ranks stay below the *)
(* logarithm of the size, far from the lock bit; a locked entry is a root  *)
(* that exactly one thread has locked (dset.h:25-155).                     *)
THEOREM SetsAreForests == Spec => []SetInv
<1>1. IInv => SetInv
  <2> SUFFICES ASSUME IInv
               PROVE  LocksAreExclusive
    BY DEF IInv, SetInv
  <2>1. LocksOwned
    BY DEF IInv
  <2>2. ASSUME NEW x \in Ids
        PROVE  LET owners == {w \in Workers : x \in held[w]}
               IN IF mData[x].locked THEN parent(x) = x /\ Cardinality(owners) = 1 ELSE owners = {}
    <3>1. CASE mData[x].locked
      <4>1. PICK w \in Workers : x \in held[w]
        BY <2>1, <3>1 DEF LocksOwned
      <4>2. {v \in Workers : x \in held[v]} = {w}
        BY <2>1, <4>1 DEF LocksOwned
      <4>3. Cardinality({w}) = 1
        BY FS_Singleton
      <4> QED
        BY <2>1, <3>1, <4>2, <4>3 DEF LocksOwned
    <3>2. CASE ~mData[x].locked
      BY <2>1, <3>2 DEF LocksOwned
    <3> QED
      BY <3>1, <3>2
  <2> QED
    BY <2>2 DEF LocksAreExclusive
<1> QED
  BY <1>1, TreesInvariance, PTL

-----------------------------------------------------------------------------
(* The abstract specification.                                             *)

(* A set of entries has one that no other is above. *)
LEMMA SetHasTop ==
    ASSUME TypeOK, NEW S \in SUBSET Ids, S # {}
    PROVE  \E y \in S : \A z \in S : ~Below(y, z)
<1> DEFINE n == Cardinality(Ids)
           D == {n - rank(x) : x \in S}
<1>1. n \in Nat /\ \A x \in Ids : rank(x) \in Nat /\ rank(x) <= n /\ x \in Nat
  <2>1. \A x \in Ids : rank(x) \in 0 .. n
    BY EntryType DEF Ranks
  <2> QED
    BY <2>1, IdsAre
<1> HIDE DEF n
<1>2. \A T \in SUBSET Nat : T # {} => \E k \in T : \A m \in T : k <= m
  <2> SUFFICES ASSUME NEW T \in SUBSET Nat, T # {}
               PROVE  \E k \in T : \A m \in T : k <= m
    OBVIOUS
  <2>1. \E k \in T : \A m \in T : ~(<<m, k>> \in OpToRel(<, Nat))
    BY NatLessThanWellFounded, WFMin, Zenon
  <2>2. PICK k \in T : \A m \in T : ~(<<m, k>> \in OpToRel(<, Nat))
    BY <2>1
  <2>3. ASSUME NEW m \in T
        PROVE  ~(m < k)
    BY <2>2, <<m, k>> \in Nat \X Nat, Zenon DEF OpToRel
  <2> QED
    BY <2>3
<1>3. D \in SUBSET Nat /\ D # {}
  BY <1>1
<1>4. PICK k \in D : \A m \in D : k <= m
  BY <1>2, <1>3
<1>5. PICK t \in S : k = n - rank(t)
  OBVIOUS
<1>6. \A x \in S : rank(x) <= rank(t)
  BY <1>1, <1>4, <1>5
<1> DEFINE E == {x \in S : rank(x) = rank(t)}
<1>7. E \in SUBSET Nat /\ E # {}
  BY <1>1
<1>8. PICK y \in E : \A z \in E : y <= z
  BY <1>2, <1>7
<1>9. \A z \in S : ~Below(y, z)
  BY <1>1, <1>6, <1>8 DEF Below
<1> QED
  BY <1>9

(* Roots is the only map that sends each entry where its parent goes and   *)
(* each root to itself, and there is one.                                  *)
LEMMA RootsAre ==
    TypeOK /\ Ordered =>
        \A f : f = [x \in Ids |-> IF parent(x) = x THEN x ELSE f[parent(x)]] => Roots = f
<1> SUFFICES ASSUME TypeOK, Ordered, NEW f,
                    f = [x \in Ids |-> IF parent(x) = x THEN x ELSE f[parent(x)]]
             PROVE  Roots = f
  OBVIOUS
<1>1. PICK g : g = Roots
  OBVIOUS
<1>2. g = [x \in Ids |-> IF parent(x) = x THEN x ELSE g[parent(x)]]
  BY <1>1 DEF Roots
<1> DEFINE S == {x \in Ids : f[x] # g[x]}
<1>3. CASE S = {}
  <2>1. \A x \in Ids : f[x] = g[x]
    BY <1>3
  <2>2. f = [x \in Ids |-> f[x]] /\ g = [x \in Ids |-> g[x]]
    BY <1>2
  <2>3. f = g
    BY <2>1, <2>2
  <2> QED
    BY <1>1, <2>3
<1>4. CASE S # {}
  <2>1. PICK y \in S : \A z \in S : ~Below(y, z)
    BY <1>4, SetHasTop
  <2>2. parent(y) \in Ids
    BY EntryType
  <2>3. /\ f[y] = IF parent(y) = y THEN y ELSE f[parent(y)]
        /\ g[y] = IF parent(y) = y THEN y ELSE g[parent(y)]
    BY <1>2
  <2>4. parent(y) # y /\ parent(y) \in S
    BY <2>2, <2>3
  <2> QED
    BY <2>1, <2>4 DEF Ordered
<1> QED
  BY <1>3, <1>4

(* The roots after a step are those that its parents determine. *)
LEMMA RootsAreNext ==
    TypeOK' /\ Ordered' =>
        \A f : f = [x \in Ids |-> IF parent(x)' = x THEN x ELSE f[parent(x)']] => Roots' = f
<1>1. (TypeOK /\ Ordered)' =>
        (\A f : f = [x \in Ids |-> IF parent(x) = x THEN x ELSE f[parent(x)]] => Roots = f)'
  BY RootsAre, PTL
<1> QED
  BY <1>1

(* So it is the partition of the invariant. *)
LEMMA RootsArePartition ==
    ASSUME IInv
    PROVE  Roots \in [Ids -> Ids] /\ Trees(Roots)
<1>1. PICK rep \in [Ids -> Ids] : Trees(rep)
  BY DEF IInv
<1>2. \A x \in Ids : rep[x] = IF parent(x) = x THEN x ELSE rep[parent(x)]
  BY <1>1 DEF Trees, Partition
<1>3. rep = [x \in Ids |-> IF parent(x) = x THEN x ELSE rep[parent(x)]]
  BY <1>2
<1>4. Roots = rep
  BY <1>3, RootsAre DEF IInv
<1> QED
  BY <1>1, <1>4

(* The operations are those of the loop. *)
UsedBy(w) ==
    LET me == local[w]
    IN /\ me.op = "lock" => "lock" \in use.ops
       /\ me.op \in {"unite", "unite second"} => "unite" \in use.ops
       /\ me.pc \in {"try", "lock"} => "lock" \in use.ops
       /\ me.pc \in {"rank1", "rank2", "link"} => "unite" \in use.ops
       /\ held[w] # {} => "lock" \in use.ops

UseInv == \A w \in Workers : UsedBy(w)

(* Whether the program uses locks is decided in the beginning. *)
LEMMA UseInvariance == Spec => []UseInv
<1>1. Init => UseInv
  <2> SUFFICES ASSUME Init, NEW w \in Workers
               PROVE  UsedBy(w)
    BY DEF UseInv
  <2>1. local[w] = Idle /\ held[w] = {}
    BY DEF Init
  <2>2. local[w].op = "find" /\ local[w].pc = "idle"
    BY <2>1 DEF Idle
  <2> QED
    BY <2>1, <2>2 DEF UsedBy
<1>2. IInv /\ UseInv /\ [Next]_vars => UseInv'
  <2> SUFFICES ASSUME IInv, UseInv, [Next]_vars
               PROVE  UseInv'
    OBVIOUS
  <2>1. TypeOK /\ TypeOK'
    BY NextKeepsTrees DEF IInv
  <2>2. /\ local \in [Workers -> Locals] /\ held \in [Workers -> SUBSET Ids]
        /\ \A v \in Workers : local[v] \in Locals
    BY <2>1 DEF TypeOK
  <2>3. ASSUME NEW w \in Workers,
               \/ CallFind(w) \/ CallTryLock(w) \/ CallUnite(w)
               \/ Unlock(w) \/ UniteUnlock(w) \/ Step(w)
        PROVE  UseInv'
    <3>1. use' = use
      BY <2>3 DEF CallFind, CallTryLock, CallUnite, Unlock, UniteUnlock, Step, Look, Found, Grand,
         Halve, Try, LockCas, StoreChild, StoreRoot, ReadRank1, ReadRank2, Link, Again, Bump
    <3>2. \A v \in Workers \ {w} : local'[v] = local[v] /\ held'[v] = held[v]
      <4>1. \A v \in Workers \ {w} : local'[v] = local[v]
        BY <2>2, <2>3 DEF CallFind, CallTryLock, CallUnite, Unlock, UniteUnlock, Step, Look, Found,
           Grand, Halve, Try, LockCas, StoreChild, StoreRoot, ReadRank1, ReadRank2, Link, Again, Bump,
           Goto, Return
      <4>2. \A v \in Workers \ {w} : held'[v] = held[v]
        BY <2>2, <2>3 DEF CallFind, CallTryLock, CallUnite, Unlock, UniteUnlock, Step, Look, Found,
           Grand, Halve, Try, LockCas, StoreChild, StoreRoot, ReadRank1, ReadRank2, Link, Again, Bump
      <4> QED
        BY <4>1, <4>2
    <3>3. UsedBy(w)
      BY DEF UseInv
    <3>4. UsedBy(w)'
      <4>1. held'[w] # {} => "lock" \in use.ops
        <5>1. held'[w] \subseteq held[w] \/ local[w].pc = "lock"
          BY <2>2, <2>3 DEF CallFind, CallTryLock, CallUnite, Unlock, UniteUnlock, Step, Look, Found,
             Grand, Halve, Try, LockCas, StoreChild, StoreRoot, ReadRank1, ReadRank2, Link, Again, Bump, At
        <5> QED
          BY <3>3, <5>1 DEF UsedBy
      <4>2. PICK old \in Locals, a \in Ids, now \in Locals :
              old = local[w] /\ a = AnyId /\ now = local'[w]
        BY <2>1, IdleIsLocal DEF TypeOK
      <4>3. Return(w) => now.pc = "idle" /\ now.op = "find"
        <5>1. Return(w) => now = Idle
          BY <2>2, <4>2 DEF Return
        <5> QED
          BY <5>1 DEF Idle
      <4>4. ASSUME CallFind(w)
            PROVE  now.pc = "look" /\ now.op = old.op
        BY <2>2, <4>2, <4>4 DEF CallFind, At, Goto, Return, Locals
      <4>5. ASSUME CallTryLock(w)
            PROVE  now.pc = "look" /\ now.op = "lock" /\ "lock" \in use.ops
        <5>1. PICK x \in use.ids :
                local' = [local EXCEPT ![w].pc = "look", ![w].op = "lock", ![w].id = x]
          BY <4>5 DEF CallTryLock
        <5>2. now = [old EXCEPT !.pc = "look", !.op = "lock", !.id = x]
          BY <2>2, <4>2, <5>1
        <5> QED
          BY <4>2, <4>5, <5>2 DEF CallTryLock, Locals
      <4>6. ASSUME CallUnite(w)
            PROVE  now.pc = "look" /\ now.op = "unite" /\ "unite" \in use.ops
        <5>1. PICK x \in use.ids, y \in use.ids :
                local' = [local EXCEPT ![w].pc = "look", ![w].op = "unite", ![w].id = x, ![w].id2 = y]
          BY <4>6 DEF CallUnite
        <5>2. now = [old EXCEPT !.pc = "look", !.op = "unite", !.id = x, !.id2 = y]
          BY <2>2, <4>2, <5>1
        <5> QED
          BY <4>2, <4>6, <5>2 DEF CallUnite, Locals
      <4>7. ASSUME Unlock(w)
            PROVE  now = old
        BY <2>2, <4>2, <4>7 DEF Unlock, At, Goto, Return, Locals
      <4>8. ASSUME UniteUnlock(w)
            PROVE  now.pc = "store" /\ now.op = old.op
        <5>1. PICK x, y, r, s :
                local' = [local EXCEPT ![w].pc = "store", ![w].id1 = x, ![w].id2 = y, ![w].r1 = r, ![w].r2 = s]
          <6>1. PICK x, y : local' = [local EXCEPT ![w].pc = "store", ![w].id1 = x, ![w].id2 = y,
                               ![w].r1 = rank(x), ![w].r2 = rank(y)]
            BY <4>8 DEF UniteUnlock
          <6>2. PICK r, s : r = rank(x) /\ s = rank(y)
            OBVIOUS
          <6> QED
            BY <6>1, <6>2
        <5>2. now = [old EXCEPT !.pc = "store", !.id1 = x, !.id2 = y, !.r1 = r, !.r2 = s]
          BY <2>2, <4>2, <5>1
        <5> QED
          BY <4>2, <4>8, <5>2 DEF UniteUnlock, Locals
      <4>9. ASSUME Look(w)
            PROVE  now.pc = "grand" /\ now.op = old.op
        BY <2>2, <4>2, <4>9 DEF Look, At, Goto, Return, Locals
      <4>10. ASSUME Found(w)
            PROVE  \/ Return(w)
                   \/ old.op = "lock" /\ now.pc = "try" /\ now.op = old.op
                   \/ old.op = "unite" /\ now.pc = "look" /\ now.op = "unite second"
                   \/ old.op = "unite second" /\ now.pc = "rank1" /\ now.op = old.op
        <5>1. CASE Return(w)
          BY <5>1
        <5>2. CASE old.op = "lock" /\ Goto(w, "try")
          <6>1. now = [old EXCEPT !.pc = "try"]
            BY <2>2, <4>2, <5>2 DEF Goto
          <6> QED
            BY <4>2, <5>2, <6>1 DEF Locals
        <5>3. CASE /\ old.op = "unite"
                   /\ local' = [local EXCEPT ![w].id1 = old.id, ![w].id = old.id2, ![w].op = "unite second"]
          <6>1. PICK x, y : x = old.id /\ y = old.id2
            OBVIOUS
          <6>2. now = [old EXCEPT !.id1 = x, !.id = y, !.op = "unite second"]
            BY <2>2, <4>2, <5>3, <6>1
          <6>3. now.pc = old.pc /\ now.op = "unite second"
            BY <4>2, <6>2 DEF Locals
          <6> QED
            BY <4>2, <4>10, <5>3, <6>3 DEF Found, At
        <5>4. CASE old.op = "unite second" /\ local' = [local EXCEPT ![w].id2 = old.id, ![w].pc = "rank1"]
          <6>1. PICK x : x = old.id
            OBVIOUS
          <6>2. now = [old EXCEPT !.id2 = x, !.pc = "rank1"]
            BY <2>2, <4>2, <5>4, <6>1
          <6> QED
            BY <4>2, <5>4, <6>2 DEF Locals
        <5> QED
          BY <4>2, <4>10, <5>1, <5>2, <5>3, <5>4 DEF Found
      <4>11. ASSUME Grand(w)
            PROVE  now.pc = "halve" /\ now.op = old.op
        BY <2>2, <4>2, <4>11 DEF Grand, At, Goto, Return, Locals
      <4>12. ASSUME Halve(w)
            PROVE  now.pc = "look" /\ now.op = old.op
        BY <2>2, <4>2, <4>12 DEF Halve, At, Goto, Return, Locals
      <4>13. ASSUME Try(w)
            PROVE  \/ Return(w)
                   \/ old.pc = "try" /\ now.pc = "lock" /\ now.op = old.op
        <5>1. CASE Return(w)
          BY <5>1
        <5>2. CASE \E e : local' = [local EXCEPT ![w].pc = "lock", ![w].value = e]
          <6>1. PICK e : local' = [local EXCEPT ![w].pc = "lock", ![w].value = e]
            BY <5>2
          <6>2. now = [old EXCEPT !.pc = "lock", !.value = e]
            BY <2>2, <4>2, <6>1
          <6> QED
            BY <4>2, <4>13, <6>2 DEF Try, At, Locals
        <5> QED
          BY <4>13, <5>1, <5>2 DEF Try
      <4>14. ASSUME StoreChild(w)
            PROVE  now.pc = "store root" /\ now.op = old.op
        BY <2>2, <4>2, <4>14 DEF StoreChild, At, Goto, Return, Locals
      <4>15. ASSUME ReadRank1(w)
            PROVE  old.pc = "rank1" /\ now.pc = "rank2" /\ now.op = old.op
        BY <2>2, <4>2, <4>15 DEF ReadRank1, At, Goto, Return, Locals
      <4>16. ASSUME ReadRank2(w)
            PROVE  old.pc = "rank2" /\ now.pc = "link" /\ now.op = old.op
        BY <2>2, <4>2, <4>16 DEF ReadRank2, At, Goto, Return, Locals
      <4>17. ASSUME Link(w)
            PROVE  \/ Return(w)
                   \/ now.pc = "bump" /\ now.op = old.op
        <5>1. CASE Return(w)
          BY <5>1
        <5>2. CASE Goto(w, "bump")
          <6>1. now = [old EXCEPT !.pc = "bump"]
            BY <2>2, <4>2, <5>2 DEF Goto
          <6> QED
            BY <4>2, <6>1 DEF Locals
        <5> QED
          BY <4>17, <5>1, <5>2 DEF Link
      <4>18. ASSUME Again(w)
            PROVE  old.pc = "link" /\ now.pc = "look" /\ now.op = "unite"
        BY <2>2, <4>2, <4>18 DEF Again, At, Goto, Return, Locals
      <4>19. Return(w) => UsedBy(w)'
        BY <3>1, <4>1, <4>2, <4>3 DEF UsedBy
      <4>20. CASE Return(w)
        BY <4>19, <4>20
      <4>21. CASE ~Return(w)
        <5>1. old.op = "lock" => "lock" \in use.ops
          BY <3>3, <4>2 DEF UsedBy
        <5>2. old.op \in {"unite", "unite second"} => "unite" \in use.ops
          BY <3>3, <4>2 DEF UsedBy
        <5>3. old.pc \in {"try", "lock"} => "lock" \in use.ops
          BY <3>3, <4>2 DEF UsedBy
        <5>4. old.pc \in {"rank1", "rank2", "link"} => "unite" \in use.ops
          BY <3>3, <4>2 DEF UsedBy
        <5>5. Step(w) => Look(w) \/ Found(w) \/ Grand(w) \/ Halve(w) \/ Try(w) \/ StoreChild(w)
                            \/ ReadRank1(w) \/ ReadRank2(w) \/ Link(w) \/ Again(w)
          BY <4>21 DEF Step, LockCas, StoreRoot, Bump
        <5>6. /\ now.op = "lock" => "lock" \in use.ops
              /\ now.op \in {"unite", "unite second"} => "unite" \in use.ops
              /\ now.pc \in {"try", "lock"} => "lock" \in use.ops
              /\ now.pc \in {"rank1", "rank2", "link"} => "unite" \in use.ops
          BY <2>3, <4>4, <4>5, <4>6, <4>7, <4>8, <4>9, <4>10, <4>11, <4>12, <4>13, <4>14, <4>15, <4>16, <4>17, <4>18, <4>21,
             <5>1, <5>2, <5>3, <5>4, <5>5
        <5> QED
          BY <3>1, <4>1, <4>2, <5>6 DEF UsedBy
      <4> QED
        BY <4>20, <4>21
    <3> QED
      BY <3>1, <3>2, <3>4 DEF UseInv, UsedBy
  <2>4. CASE Next
    BY <2>3, <2>4 DEF Next
  <2>5. CASE UNCHANGED vars
    BY <2>5 DEF vars, UseInv, UsedBy
  <2> QED
    BY <2>4, <2>5
<1> QED
  BY <1>1, <1>2, TreesInvariance, PTL DEF Spec

(* The holder of a lock is the thread that has it. *)
LEMMA HoldersAre ==
    LocksOwned =>
        \A x \in Ids :
            /\ \A w \in Workers : x \in held[w] => HolderOf(x) = w
            /\ (\A w \in Workers : x \notin held[w]) => HolderOf(x) = Nobody
BY DEF LocksOwned, HolderOf

(* Who holds an entry after a step. *)
LEMMA HoldersAreNext ==
    LocksOwned' =>
        \A x \in Ids :
            /\ \A w \in Workers : x \in held'[w] => HolderOf(x)' = w
            /\ (\A w \in Workers : x \notin held'[w]) => HolderOf(x)' = Nobody
<1>1. LocksOwned' =>
        (\A x \in Ids :
            /\ \A w \in Workers : x \in held[w] => HolderOf(x) = w
            /\ (\A w \in Workers : x \notin held[w]) => HolderOf(x) = Nobody)'
  BY HoldersAre, PTL
<1> QED
  BY <1>1

(* Roots after a step. *)
LEMMA RootsBecome ==
    ASSUME IInv', NEW f \in [Ids -> Ids],
           \A x \in Ids : f[x] = IF parent(x)' = x THEN x ELSE f[parent(x)']
    PROVE  Roots' = f
<1>1. f = [x \in Ids |-> IF parent(x)' = x THEN x ELSE f[parent(x)']]
  OBVIOUS
<1> QED
  BY <1>1, RootsAreNext DEF IInv

(* The parts stay while the parents stay. *)
LEMMA RootsStay ==
    ASSUME IInv, IInv', \A x \in Ids : parent(x)' = parent(x)
    PROVE  Roots' = Roots
<1>1. PICK f \in [Ids -> Ids] : f = Roots /\ Trees(f)
  BY RootsArePartition
<1>2. \A x \in Ids : f[x] = IF parent(x)' = x THEN x ELSE f[parent(x)']
  BY <1>1 DEF Trees, Partition
<1>3. Roots' = f
  BY <1>2, RootsBecome
<1> QED
  BY <1>1, <1>3

(* What a thread does alone is not seen. *)
LEMMA Unseen ==
    ASSUME Roots' = Roots, held' = held
    PROVE  UNCHANGED Sets!vars
BY DEF Sets!vars, HolderOf

(* An unlock of x. *)
LEMMA UnlockIsUnlock ==
    ASSUME IInv, IInv', NEW w \in Workers, NEW x \in held[w], Roots' = Roots,
           held' = [held EXCEPT ![w] = @ \ {x}]
    PROVE  Sets!Next
<1>1. LocksOwned /\ LocksOwned' /\ TypeOK
  BY DEF IInv
<1>2. x \in Ids
  BY <1>1 DEF TypeOK
<1>3. \A z \in Ids, v \in Workers : z \in held'[v] <=> z \in held[v] /\ (v = w => z # x)
  BY <1>1 DEF TypeOK
<1>4. \A v \in Workers : x \notin held'[v]
  BY <1>1, <1>2, <1>3 DEF LocksOwned
<1>5. HolderOf(x) = w /\ HolderOf(x)' = Nobody
  BY <1>1, <1>2, <1>4, HoldersAre, HoldersAreNext
<1>6. ASSUME NEW z \in Ids \ {x}
      PROVE  HolderOf(z)' = HolderOf(z)
  <2>1. CASE \E v \in Workers : z \in held[v]
    <3>1. PICK v \in Workers : z \in held[v]
      BY <2>1
    <3>2. z \in held'[v]
      BY <1>3, <3>1
    <3> QED
      BY <1>1, <3>1, <3>2, HoldersAre, HoldersAreNext
  <2>2. CASE \A v \in Workers : z \notin held[v]
    <3>1. \A v \in Workers : z \notin held'[v]
      BY <1>3, <2>2
    <3> QED
      BY <1>1, <2>2, <3>1, HoldersAre, HoldersAreNext
  <2> QED
    BY <2>1, <2>2
<1>7. [z \in Ids |-> HolderOf(z)'] = [[z \in Ids |-> HolderOf(z)] EXCEPT ![x] = Nobody]
  BY <1>2, <1>5, <1>6
<1>8. Sets!Unlock(w, x)
  BY <1>2, <1>5, <1>7 DEF Sets!Unlock
<1> QED
  BY <1>2, <1>8 DEF Sets!Next

(* A lock of x. *)
LEMMA LockIsTryLock ==
    ASSUME IInv, IInv', NEW w \in Workers, LockCas(w)
    PROVE  Sets!Next \/ UNCHANGED Sets!vars
<1>1. LocksOwned /\ LocksOwned' /\ TypeOK /\ Reads(w) /\ local[w].pc = "lock"
  BY DEF IInv, LockCas, At
<1>2. PICK x \in Ids : x = local[w].id
  BY <1>1, LocalType
<1>3. CASE mData' = mData /\ held' = held
  <2>1. \A z \in Ids : parent(z)' = parent(z)
    BY <1>3 DEF parent
  <2> QED
    BY <1>3, <2>1, RootsStay, Unseen
<1>4. CASE /\ mData[x] = local[w].value
           /\ mData' = [mData EXCEPT ![x].locked = TRUE]
           /\ held' = [held EXCEPT ![w] = @ \cup {x}]
  <2>1. ~mData[x].locked /\ parent(x) = x
    BY <1>1, <1>2, <1>4 DEF Reads, parent
  <2>2. \A z \in Ids : parent(z)' = parent(z)
    BY <1>1, <1>2, <1>4 DEF TypeOK, Entries, parent
  <2>3. Roots' = Roots
    BY <2>2, RootsStay
  <2>4. \A z \in Ids, v \in Workers : z \in held'[v] <=> z \in held[v] \/ (v = w /\ z = x)
    BY <1>1, <1>4 DEF TypeOK
  <2>5. \A v \in Workers : x \notin held[v]
    BY <1>1, <2>1 DEF LocksOwned
  <2>6. HolderOf(x) = Nobody /\ HolderOf(x)' = w
    BY <1>1, <2>4, <2>5, HoldersAre, HoldersAreNext
  <2>7. ASSUME NEW z \in Ids \ {x}
        PROVE  HolderOf(z)' = HolderOf(z)
    <3>1. CASE \E v \in Workers : z \in held[v]
      <4>1. PICK v \in Workers : z \in held[v]
        BY <3>1
      <4>2. z \in held'[v]
        BY <2>4, <4>1
      <4> QED
        BY <1>1, <4>1, <4>2, HoldersAre, HoldersAreNext
    <3>2. CASE \A v \in Workers : z \notin held[v]
      <4>1. \A v \in Workers : z \notin held'[v]
        BY <2>4, <3>2
      <4> QED
        BY <1>1, <3>2, <4>1, HoldersAre, HoldersAreNext
    <3> QED
      BY <3>1, <3>2
  <2>8. [z \in Ids |-> HolderOf(z)'] = [[z \in Ids |-> HolderOf(z)] EXCEPT ![x] = w]
    BY <2>6, <2>7
  <2>9. Roots[x] = x
    BY <2>1, RootsArePartition DEF Trees, Partition
  <2>10. Sets!TryLock(w, x)
    BY <2>3, <2>6, <2>8, <2>9 DEF Sets!TryLock
  <2> QED
    BY <2>10 DEF Sets!Next
<1> QED
  BY <1>2, <1>3, <1>4 DEF LockCas

(* Roots after a root c is put under t. *)
LEMMA RootsAreJoined ==
    ASSUME IInv, IInv', NEW c \in Ids, NEW t \in Ids, parent(c) = c, Below(c, t), parent(c)' = t,
           \A x \in Ids \ {c} : parent(x)' = parent(x)
    PROVE  /\ Roots' = [x \in Ids |-> IF Roots[x] = c THEN Roots[t] ELSE Roots[x]]
           /\ Roots[c] = c /\ Roots[t] # c /\ Roots[t] \in Ids
           /\ Roots[Roots[t]] = Roots[t]
<1>1. PICK f \in [Ids -> Ids] : f = Roots /\ Trees(f)
  BY RootsArePartition
<1>2. TypeOK /\ Partition(f)
  BY <1>1 DEF IInv, Trees
<1>3. f[c] = c /\ f[t] # c /\ f[t] \in Ids /\ f[f[t]] = f[t] /\ c # t
  BY <1>1, <1>2, OtherTree, BelowIsOrder DEF Partition
<1> DEFINE now == [x \in Ids |-> IF f[x] = c THEN f[t] ELSE f[x]]
<1>4. ASSUME NEW x \in Ids
      PROVE  now[x] = IF parent(x)' = x THEN x ELSE now[parent(x)']
  <2>1. CASE x = c
    BY <1>3, <2>1
  <2>2. CASE x # c
    <3>1. parent(x)' = parent(x) /\ parent(x) \in Ids /\ f[parent(x)] = f[x]
      BY <1>2, <2>2, EntryType DEF Partition
    <3>2. parent(x) = x => f[x] = x
      BY <1>2 DEF Partition
    <3> QED
      BY <2>2, <3>1, <3>2
  <2> QED
    BY <2>1, <2>2
<1>5. now \in [Ids -> Ids]
  BY <1>3
<1> HIDE DEF now
<1>6. Roots' = now
  BY <1>4, <1>5, RootsBecome
<1> QED
  BY <1>1, <1>3, <1>6 DEF now

(* Storing the first entry is the call UniteLocked of LockedSets           *)
(* (dset.h:134).                                                           *)
LEMMA StoreChildIsUniteLocked ==
    ASSUME IInv, IInv', NEW w \in Workers, StoreChild(w)
    PROVE  Sets!Next
<1>1. LocksOwned /\ LocksOwned' /\ TypeOK /\ Reads(w) /\ local[w].pc = "store"
  BY DEF IInv, StoreChild, At
<1>2. PICK c \in Ids, t \in Ids, r \in Nat, s \in Nat :
        /\ c = local[w].id1 /\ t = local[w].id2 /\ r = local[w].r1 /\ s = local[w].r2
  BY <1>1, LocalType
<1>3. /\ c # t /\ c \in held[w] /\ t \in held[w] /\ rank(c) = r /\ rank(t) = s
      /\ ~Swap(c, t, r, s)
  BY <1>1, <1>2 DEF Reads
<1>4. parent(c) = c /\ parent(t) = t /\ c \in Nat /\ t \in Nat
  BY <1>1, <1>3, IdsAre DEF LocksOwned
<1>5. Below(c, t)
  <2>1. ~(r > s) /\ ~(r = s /\ c < t)
    BY <1>3 DEF Swap
  <2>2. r < s \/ (r = s /\ t < c)
    BY <1>2, <1>3, <1>4, <2>1
  <2> QED
    BY <1>3, <2>2 DEF Below
<1>6. /\ mData' = [mData EXCEPT ![c] = Entry(FALSE, r, t)]
      /\ held' = [held EXCEPT ![w] = @ \ {c}]
  BY <1>2 DEF StoreChild
<1>7. parent(c)' = t /\ \A x \in Ids \ {c} : parent(x)' = parent(x)
  BY <1>1, <1>6 DEF TypeOK, parent, Entry
<1>8. /\ Roots' = [x \in Ids |-> IF Roots[x] = c THEN Roots[t] ELSE Roots[x]]
      /\ Roots[t] = t
  BY <1>4, <1>5, <1>7, RootsAreJoined, RootsArePartition DEF Trees, Partition
<1>9. \A z \in Ids, v \in Workers : z \in held'[v] <=> z \in held[v] /\ (v = w => z # c)
  BY <1>1, <1>6 DEF TypeOK
<1>10. \A v \in Workers : c \notin held'[v]
  BY <1>1, <1>3, <1>9 DEF LocksOwned
<1>11. HolderOf(c) = w /\ HolderOf(t) = w /\ HolderOf(c)' = Nobody
  BY <1>1, <1>3, <1>10, HoldersAre, HoldersAreNext
<1>12. ASSUME NEW z \in Ids \ {c}
       PROVE  HolderOf(z)' = HolderOf(z)
  <2>1. CASE \E v \in Workers : z \in held[v]
    <3>1. PICK v \in Workers : z \in held[v]
      BY <2>1
    <3>2. z \in held'[v]
      BY <1>9, <3>1
    <3> QED
      BY <1>1, <3>1, <3>2, HoldersAre, HoldersAreNext
  <2>2. CASE \A v \in Workers : z \notin held[v]
    <3>1. \A v \in Workers : z \notin held'[v]
      BY <1>9, <2>2
    <3> QED
      BY <1>1, <2>2, <3>1, HoldersAre, HoldersAreNext
  <2> QED
    BY <2>1, <2>2
<1>13. [z \in Ids |-> HolderOf(z)'] = [[z \in Ids |-> HolderOf(z)] EXCEPT ![c] = Nobody]
  BY <1>11, <1>12
<1>14. Sets!Join(c, t)
  BY <1>8 DEF Sets!Join
<1>15. Sets!UniteLocked(w, c, t)
  BY <1>3, <1>11, <1>13, <1>14 DEF Sets!UniteLocked
<1> QED
  BY <1>15 DEF Sets!Next

(* The compare-and-exchange of unite() is the call Unite (dset.h:73-83). *)
LEMMA LinkIsUnite ==
    ASSUME IInv, IInv', UseInv, NEW w \in Workers, Link(w)
    PROVE  Sets!Next
<1>1. /\ LocksOwned /\ LocksOwned' /\ TypeOK /\ Reads(w) /\ local[w].pc = "link"
      /\ Unlinked(w) /\ held' = held
  BY DEF IInv, Link, At
<1>2. PICK c \in Ids, t \in Ids, r \in Nat, s \in Nat :
        /\ c = local[w].id1 /\ t = local[w].id2 /\ r = local[w].r1 /\ s = local[w].r2
  BY <1>1, LocalType
<1>3. c # t /\ s <= rank(t) /\ ~Swap(c, t, r, s)
  BY <1>1, <1>2 DEF Reads
<1>4. parent(c) = c /\ rank(c) = r
  BY <1>1, <1>2 DEF Unlinked, Entry, parent, rank
<1>5. Below(c, t)
  <2>1. ~(r > s) /\ ~(r = s /\ c < t)
    BY <1>3 DEF Swap
  <2>2. rank(t) \in Nat /\ c \in Nat /\ t \in Nat
    BY <1>1, EntryType
  <2>3. r < rank(t) \/ (r = rank(t) /\ t < c)
    BY <1>2, <1>3, <2>1, <2>2
  <2> QED
    BY <1>4, <2>3 DEF Below
<1>6. mData' = [mData EXCEPT ![c].parent = t]
  BY <1>2 DEF Link
<1>7. parent(c)' = t /\ \A x \in Ids \ {c} : parent(x)' = parent(x)
  BY <1>1, <1>6 DEF TypeOK, Entries, parent
<1>8. PICK q \in Ids : q = Roots[t]
  BY <1>4, <1>5, <1>7, RootsAreJoined
<1>9. /\ Roots' = [x \in Ids |-> IF Roots[x] = c THEN q ELSE Roots[x]]
      /\ Roots[c] = c /\ q # c /\ Roots[q] = q
  BY <1>4, <1>5, <1>7, <1>8, RootsAreJoined
<1>10. \A v \in Workers : held[v] = {}
  <2>1. "unite" \in use.ops
    BY <1>1 DEF UseInv, UsedBy
  <2>2. "lock" \notin use.ops
    BY <1>1, <2>1, LoopsAssumption DEF TypeOK
  <2> QED
    BY <2>2 DEF UseInv, UsedBy
<1>11. HolderOf(c) = Nobody /\ HolderOf(q) = Nobody
  BY <1>1, <1>10, HoldersAre
<1>12. \A z \in Ids : HolderOf(z)' = HolderOf(z)
  BY <1>1 DEF HolderOf
<1>13. [z \in Ids |-> HolderOf(z)'] = [z \in Ids |-> HolderOf(z)]
  BY <1>12
<1>14. Sets!Join(c, q)
  BY <1>9 DEF Sets!Join
<1>15. Sets!Unite(c, q)
  BY <1>9, <1>11, <1>13, <1>14 DEF Sets!Unite
<1> QED
  BY <1>15 DEF Sets!Next

(* Every step is one of the abstract specification, or not seen. *)
LEMMA StepIsSeen ==
    ASSUME IInv, IInv', UseInv, NEW w \in Workers,
           \/ CallFind(w) \/ CallTryLock(w) \/ CallUnite(w)
           \/ Unlock(w) \/ UniteUnlock(w) \/ Step(w)
    PROVE  Sets!Next \/ UNCHANGED Sets!vars
<1>1. /\ TypeOK /\ LocksOwned /\ Reads(w)
      /\ mData \in [Ids -> Entries] /\ \A v \in Workers : held[v] \subseteq Ids
  BY DEF IInv, TypeOK
<1>2. CASE mData' = mData /\ held' = held
  <2>1. \A x \in Ids : parent(x)' = parent(x)
    BY <1>2 DEF parent
  <2> QED
    BY <1>2, <2>1, RootsStay, Unseen
<1>3. CASE Unlock(w)
  <2>1. PICK x \in held[w] : /\ mData' = [mData EXCEPT ![x].locked = FALSE]
                             /\ held' = [held EXCEPT ![w] = @ \ {x}]
    BY <1>3 DEF Unlock
  <2>2. \A z \in Ids : parent(z)' = parent(z)
    BY <1>1, <2>1 DEF Entries, parent
  <2> QED
    BY <2>1, <2>2, RootsStay, UnlockIsUnlock
<1>4. CASE StoreRoot(w)
  <2>1. PICK x \in Ids : /\ x \in held[w]
                         /\ \E s : mData' = [mData EXCEPT ![x] = Entry(FALSE, s, x)]
                         /\ held' = [held EXCEPT ![w] = @ \ {x}]
    <3>1. local[w].id2 \in held[w] /\ local[w].id2 \in Ids
      BY <1>1, <1>4, LocalType DEF Reads, StoreRoot, At
    <3> QED
      BY <1>4, <3>1 DEF StoreRoot
  <2>2. parent(x) = x
    BY <1>1, <2>1 DEF LocksOwned
  <2>3. \A z \in Ids : parent(z)' = parent(z)
    BY <1>1, <2>1, <2>2 DEF Entry, parent
  <2> QED
    BY <2>1, <2>3, RootsStay, UnlockIsUnlock
<1>5. CASE Bump(w) /\ mData' # mData
  <2>1. PICK x \in Ids : (\E s : mData' = [mData EXCEPT ![x].rank = s]) /\ held' = held
    BY <1>1, <1>5, LocalType DEF Bump
  <2>2. \A z \in Ids : parent(z)' = parent(z)
    BY <1>1, <2>1 DEF Entries, parent
  <2> QED
    BY <2>1, <2>2, RootsStay, Unseen
<1>6. CASE Halve(w) /\ mData' # mData
  <2>1. PICK x \in Ids, g \in Ids :
          /\ x = local[w].id /\ g = local[w].new_parent
          /\ mData' = [mData EXCEPT ![x].parent = g] /\ held' = held
    BY <1>1, <1>6, LocalType DEF Halve
  <2>2. PICK f \in [Ids -> Ids] : f = Roots /\ Trees(f)
    BY RootsArePartition
  <2>3. parent(x) # x /\ Below(x, g) /\ f[g] = f[x]
    BY <1>1, <1>6, <2>1, <2>2 DEF Halve, At, Reads, Trees, Path
  <2>4. x # g
    BY <1>1, <2>3, BelowIsOrder
  <2>5. parent(x)' = g /\ \A z \in Ids \ {x} : parent(z)' = parent(z)
    BY <1>1, <2>1 DEF Entries, parent
  <2>6. \A z \in Ids : f[z] = IF parent(z)' = z THEN z ELSE f[parent(z)']
    BY <2>2, <2>3, <2>4, <2>5 DEF Trees, Partition
  <2>7. Roots' = Roots
    BY <2>2, <2>6, RootsBecome
  <2> QED
    BY <2>1, <2>7, Unseen
<1>7. CASE LockCas(w)
  BY <1>7, LockIsTryLock
<1>8. CASE StoreChild(w)
  BY <1>8, StoreChildIsUniteLocked
<1>9. CASE Link(w)
  BY <1>9, LinkIsUnite
<1>10. CASE \/ CallFind(w) \/ CallTryLock(w) \/ CallUnite(w) \/ UniteUnlock(w)
            \/ Look(w) \/ Found(w) \/ Grand(w) \/ Try(w) \/ ReadRank1(w) \/ ReadRank2(w) \/ Again(w)
  <2>1. mData' = mData /\ held' = held
    BY <1>10 DEF CallFind, CallTryLock, CallUnite, UniteUnlock, Look, Found, Grand, Try, ReadRank1,
       ReadRank2, Again
  <2> QED
    BY <1>2, <2>1
<1>11. CASE (Bump(w) \/ Halve(w)) /\ mData' = mData
  BY <1>2, <1>11 DEF Bump, Halve
<1> QED
  BY <1>3, <1>4, <1>5, <1>6, <1>7, <1>8, <1>9, <1>10, <1>11 DEF Step

(* For every number of indices and threads, in a loop that locks or one    *)
(* that unites: find with its path halving is not seen from outside, a     *)
(* successful try_lock gets a whole part that was free, and parts are only *)
(* joined whole, by the holder of both locks or where there are no locks   *)
(* (dset.h:30-155, extract.cpp:68-169, adjacency.cpp:247-261).             *)
THEOREM SetsAreLockedSets == Spec => ImplementsLockedSets
<1>1. Init => Sets!Init
  <2> SUFFICES ASSUME Init
               PROVE  Sets!Init
    OBVIOUS
  <2>1. TypeOK /\ Ordered /\ LocksOwned
    BY InitTrees DEF IInv
  <2>2. \A x \in Ids : parent(x) = x
    BY DEF Init, parent, Entry
  <2>3. PICK f : f = [x \in Ids |-> x]
    OBVIOUS
  <2>4. f = [x \in Ids |-> IF parent(x) = x THEN x ELSE f[parent(x)]]
    BY <2>2, <2>3
  <2>5. Roots = [x \in Ids |-> x]
    BY <2>1, <2>3, <2>4, RootsAre
  <2>6. \A w \in Workers : held[w] = {}
    BY DEF Init
  <2>7. \A x \in Ids : HolderOf(x) = Nobody
    BY <2>1, <2>6, HoldersAre
  <2> QED
    BY <2>5, <2>7 DEF Sets!Init
<1>2. IInv /\ IInv' /\ UseInv /\ [Next]_vars => [Sets!Next]_(Sets!vars)
  <2> SUFFICES ASSUME IInv, IInv', UseInv, [Next]_vars
               PROVE  Sets!Next \/ UNCHANGED Sets!vars
    OBVIOUS
  <2>1. CASE Next
    <3>1. PICK w \in Workers :
            \/ CallFind(w) \/ CallTryLock(w) \/ CallUnite(w)
            \/ Unlock(w) \/ UniteUnlock(w) \/ Step(w)
      BY <2>1 DEF Next
    <3> QED
      BY <3>1, StepIsSeen
  <2>2. CASE UNCHANGED vars
    <3>1. \A x \in Ids : parent(x)' = parent(x)
      BY <2>2 DEF vars, parent
    <3>2. held' = held
      BY <2>2 DEF vars
    <3> QED
      BY <3>1, <3>2, RootsStay, Unseen
  <2> QED
    BY <2>1, <2>2
<1> QED
  BY <1>1, <1>2, TreesInvariance, UseInvariance, PTL DEF Spec, ImplementsLockedSets, Sets!Spec
=============================================================================
