------------------------ MODULE MeshPreparationProofs ------------------------
(***************************************************************************)
(* Proofs about DirectedEdge, alone and as MeshPreparation runs it, and    *)
(* about the levels and the links of clouds that MeshPreparation makes:    *)
(* for every mesh, every cloud and every number of threads.                *)
(*                                                                         *)
(* Why no edge is lost: the edges of a vertex that have entered (Listed)   *)
(* are chained at any time, with a place in the list each (Chained).  An   *)
(* entry is appended to one that was entered before, in the step that      *)
(* finds no other entry behind it, and it has none behind itself as long   *)
(* as it has not entered (WorkersKnow); so the chain stays one.  An edge   *)
(* has only one worker (WorkersApart).                                     *)
(*                                                                         *)
(* Why a turn around a vertex ends: opposites are one-to-one, hence so is  *)
(* the way from an edge to the next; the first edge that a turn visits     *)
(* twice is the one it began with, where the code stops (TurnsEnd).        *)
(*                                                                         *)
(* Why levels match: a vertex gets into a pair once at most.  Why the      *)
(* links of points are mutual: the loops that count and those that write   *)
(* test the same conditions from opposite ends (ListsAreWritten).          *)
(***************************************************************************)
EXTENDS MeshPreparation, FiniteSetTheorems, NaturalsInduction, WellFoundedInduction, TLAPS

(* An edge is pending as long as its face has not been taken, or the       *)
(* worker that took the face has not come past it.                         *)
Pending(e) ==
    \/ e \div Deg \in todo
    \/ \E w \in Workers : pc[w] # "idle" /\ cur[w] \div Deg = e \div Deg /\ cur[w] <= e

Entered(e) == pass = "insert" => ~Pending(e)
Searched(e) == pass = "search" => ~Pending(e)

(* The edges that have got into the list of v. *)
Listed(v) == {e \in OutgoingIn(F, v) : Entered(e)}

(* No two workers have the same face, and none has one that is left.       *)
WorkersApart ==
    \A w \in Workers : pc[w] # "idle" =>
        /\ cur[w] \in Edges
        /\ cur[w] \div Deg \notin todo
        /\ \A x \in Workers \ {w} : pc[x] # "idle" => cur[x] \div Deg # cur[w] \div Deg

(* What a worker knows of the edge it works on. *)
Knows(w) ==
    /\ pc[w] # "idle" => pass \in {"insert", "search", "failed"}
    /\ pc[w] = "thrown" => thrown
    /\ pc[w] \in {"head cas", "head", "tail cas", "tail"} =>
         /\ pass = "insert"
         /\ cur[w] \in OutgoingIn(F, Source(cur[w]))
         /\ ~OutOfBounds(cur[w])
         /\ first[cur[w]] = Target(cur[w])
         /\ second[cur[w]] = INVALID
    /\ pc[w] = "head" => V2E[Source(cur[w])] # INVALID
    /\ pc[w] \in {"tail cas", "tail"} => idx[w] \in Listed(Source(cur[w]))
    /\ pc[w] = "tail" => second[idx[w]] # INVALID
    /\ pc[w] \in {"flag", "link", "link back"} => pass = "search" /\ cur[w] \in ProperEdges(F)
    /\ pc[w] = "flag" => Cardinality(ReverseIn(F, cur[w])) > 1
    /\ pc[w] \in {"link", "link back"} => ReverseIn(F, cur[w]) = {idx[w]} /\ cur[w] < idx[w]
    /\ pc[w] = "link back" => E2E[cur[w]] # INVALID

WorkersKnow == \A w \in Workers : Knows(w)

(* With the places the entered edges have in their lists: the list of a    *)
(* vertex begins with its first entry, every entry but the first follows   *)
(* another, and the places are counted.                                    *)
Chained(rank) ==
    \A v \in Vertices :
        /\ V2E[v] = INVALID => Listed(v) = {}
        /\ V2E[v] # INVALID => V2E[v] \in Listed(v) /\ rank[V2E[v]] = 0
        /\ \A e \in Listed(v) :
             /\ rank[e] < Cardinality(Listed(v))
             /\ second[e] # INVALID => second[e] \in Listed(v) /\ rank[second[e]] = rank[e] + 1
             /\ e # V2E[v] => \E x \in Listed(v) : second[x] = e

ListsAreChains == pass \in {"insert", "search", "turn"} => \E rank \in [Edges -> Nat] : Chained(rank)

(* The edges that have entered lists are in bounds and have their target.  *)
EntriesAreSound ==
    /\ pass # "failed" => \A e \in Edges : Entered(e) => ~OutOfBounds(e)
    /\ pass \in {"insert", "search"} => \A e \in ProperEdges(F) : Entered(e) => first[e] = Target(e)
    /\ pass \in {"search", "turn", "done"} => ~thrown

(* What was marked and linked so far. *)
SearchIsSound ==
    /\ \A v \in Vertices : nonManifold[v] => v \in NonManifoldIn(F)
    /\ \A e \in Edges : E2E[e] # INVALID => E2E[e] \in Linkers(F, e)

SearchIsComplete ==
    pass \in {"search", "turn", "done"} =>
        \A e \in ProperEdges(F) : Searched(e) =>
            /\ Cardinality(ReverseIn(F, e)) > 1 => nonManifold[Source(e)] /\ nonManifold[Target(e)]
            /\ \A x \in Edges : ReverseIn(F, e) = {x} /\ e < x => E2E[e] # INVALID /\ E2E[x] # INVALID

BuildInv ==
    /\ TypeOK
    /\ WorkersApart
    /\ WorkersKnow
    /\ ListsAreChains
    /\ EntriesAreSound
    /\ SearchIsSound
    /\ SearchIsComplete

-----------------------------------------------------------------------------
(* Numbers.                                                                *)

(* A number is made of quotient and remainder ... *)
LEMMA Division ==
    ASSUME NEW e \in Nat
    PROVE  e \div Deg \in Nat /\ e % Deg \in 0 .. Deg - 1 /\ e = Deg * (e \div Deg) + (e % Deg)
<1> DEFINE q == e \div Deg
           r == e % Deg
<1>1. q \in Nat /\ r \in 0 .. Deg - 1
  BY DegAssumption
<1>2. ASSUME NEW d \in Nat \ {0}, NEW p \in Nat, p = e \div d, NEW s \in Nat, s = e % d
      PROVE  e = d * p + s
  BY <1>2, Z3
<1>3. e = Deg * q + r
  BY <1>1, <1>2, DegAssumption
<1> QED
  BY <1>1, <1>3

(* ... in one way. *)
LEMMA DivisionIsUnique ==
    ASSUME NEW e \in Nat, NEW q \in Nat, NEW r \in 0 .. Deg - 1, e = Deg * q + r
    PROVE  e \div Deg = q /\ e % Deg = r
  BY DegAssumption

(* The next corner of a face that has one has the next number. *)
LEMMA NextCorner ==
    ASSUME NEW e \in Nat, e % Deg # Deg - 1
    PROVE  (e + 1) \div Deg = e \div Deg /\ (e + 1) % Deg = (e % Deg) + 1
<1> DEFINE q == e \div Deg
           r == e % Deg
<1>1. q \in Nat /\ r \in 0 .. Deg - 1 /\ e = Deg * q + r
  BY Division
<1>2. Deg * q \in Nat
  BY <1>1, DegAssumption
<1>3. r + 1 \in 0 .. Deg - 1 /\ e + 1 = Deg * q + (r + 1)
  BY <1>1, <1>2, DegAssumption
<1> HIDE DEF q, r
<1> QED
  BY <1>1, <1>3, DivisionIsUnique DEF q, r

(* The last corner of a face has the largest number. *)
LEMMA LastCorner ==
    ASSUME NEW e \in Nat, NEW x \in Nat, e \div Deg = x \div Deg, e % Deg = Deg - 1
    PROVE  x <= e
<1> DEFINE q == e \div Deg
<1>1. q \in Nat /\ e = Deg * q + (Deg - 1)
  BY Division
<1>2. x % Deg \in 0 .. Deg - 1 /\ x = Deg * q + (x % Deg)
  BY Division
<1>3. Deg * q \in Nat
  BY <1>1, DegAssumption
<1> QED
  BY <1>1, <1>2, <1>3, DegAssumption

(* The first corner of a face has the smallest number. *)
LEMMA FirstCorner ==
    ASSUME NEW f \in Nat
    PROVE  /\ Deg * f \in Nat /\ (Deg * f) \div Deg = f
           /\ \A x \in Nat : x \div Deg = f => Deg * f <= x
<1>1. Deg * f \in Nat /\ 0 \in 0 .. Deg - 1
  BY DegAssumption
<1>2. (Deg * f) \div Deg = f
  BY <1>1, DivisionIsUnique, Deg * f = Deg * f + 0
<1>3. ASSUME NEW x \in Nat, x \div Deg = f
      PROVE  Deg * f <= x
  <2>1. x % Deg \in 0 .. Deg - 1 /\ x = Deg * f + (x % Deg)
    BY <1>3, Division
  <2> QED
    BY <1>1, <2>1, DegAssumption
<1> QED
  BY <1>1, <1>2, <1>3

(* The edges are the corners of the faces. *)
LEMMA EdgesAreCorners ==
    ASSUME F \in Meshes
    PROVE  /\ IsFiniteSet(Edges)
           /\ \A e \in Edges : e \in Nat /\ e \div Deg \in Faces
           /\ \A e \in Nat : e \div Deg \in Faces => e \in Edges
<1> DEFINE n == Cardinality(Faces)
<1>1. IsFiniteSet(Faces) /\ Faces = 0 .. n - 1
  BY FacesAssumption DEF Faces
<1>2. n \in Nat
  BY <1>1, FS_CardinalityType
<1> HIDE DEF n
<1>3. Deg * n \in Nat
  BY <1>2, DegAssumption
<1>4. Edges = 0 .. Deg * n - 1
  BY DEF Edges, EdgesOf, n, Faces
<1>5. IsFiniteSet(Edges)
  BY <1>3, <1>4, FS_Interval
<1>6. ASSUME NEW e \in Nat
      PROVE  e \in Edges <=> e \div Deg \in Faces
  <2> DEFINE q == e \div Deg
             r == e % Deg
  <2>1. q \in Nat /\ r \in 0 .. Deg - 1 /\ e = Deg * q + r
    BY Division
  <2>2. ASSUME NEW d \in Nat \ {0}, NEW m \in Nat, NEW p \in Nat, NEW s \in 0 .. d - 1
        PROVE  d * p + s <= d * m - 1 <=> p <= m - 1
    <3>1. CASE p <= m - 1
      <4>1. d * p + d <= d * m
        BY <3>1, Z3
      <4> QED
        BY <3>1, <4>1, Z3
    <3>2. CASE m <= p
      <4>1. d * m <= d * p
        BY <3>2, Z3
      <4> QED
        BY <3>2, <4>1, Z3
    <3> QED
      BY <3>1, <3>2
  <2>3. e <= Deg * n - 1 <=> q <= n - 1
    BY <1>2, <2>1, <2>2, DegAssumption
  <2> QED
    BY <1>1, <1>2, <1>3, <1>4, <2>1, <2>3
<1> QED
  BY <1>3, <1>4, <1>5, <1>6

-----------------------------------------------------------------------------
(* The way of the workers through the faces.                               *)

(* A worker that stays at its edge lets nothing pass. *)
LEMMA StayingKeeps ==
    ASSUME WorkersApart, NEW w \in Workers, NEW place, NEW where, pc \in [Workers -> Pcs],
           pc[w] # "idle", where # "idle", With(w, place, where), UNCHANGED <<F, todo, pass>>
    PROVE  /\ WorkersApart'
           /\ \A e : Pending(e)' <=> Pending(e)
           /\ \A e : (Entered(e)' <=> Entered(e)) /\ (Searched(e)' <=> Searched(e))
           /\ \A v : Listed(v)' = Listed(v)
<1>1. cur' = cur /\ \A x \in Workers : pc'[x] # "idle" <=> pc[x] # "idle"
  BY DEF With
<1>2. WorkersApart'
  BY <1>1 DEF WorkersApart, Edges
<1>3. \A e : Pending(e)' <=> Pending(e)
  BY <1>1 DEF Pending
<1>4. \A e : (Entered(e)' <=> Entered(e)) /\ (Searched(e)' <=> Searched(e))
  BY <1>3 DEF Entered, Searched
<1>5. \A v : Listed(v)' = Listed(v)
  BY <1>4 DEF Listed
<1> QED
  BY <1>2, <1>3, <1>4, <1>5

(* A worker that goes on has passed its edge and no other. *)
LEMMA AdvancePasses ==
    ASSUME F \in Meshes, WorkersApart, NEW w \in Workers,
           pc \in [Workers -> Pcs], cur \in [Workers -> Edges \cup {0}],
           pc[w] # "idle", Advance(w), UNCHANGED <<F, todo, pass>>
    PROVE  /\ WorkersApart'
           /\ \A e \in Edges : Pending(e)' <=> Pending(e) /\ e # cur[w]
           /\ \A e \in Edges : Entered(e)' <=> Entered(e) \/ e = cur[w]
           /\ \A e \in Edges : Searched(e)' <=> Searched(e) \/ e = cur[w]
<1> DEFINE c == cur[w]
<1>1. c \in Edges /\ c \div Deg \notin todo
  BY DEF WorkersApart
<1>2. c \in Nat /\ \A e \in Edges : e \in Nat
  BY <1>1, EdgesAreCorners
<1>3. \A x \in Workers \ {w} : pc'[x] = pc[x] /\ cur'[x] = cur[x]
  BY DEF Advance
<1>4. \A x \in Workers \ {w} : pc[x] # "idle" => cur[x] \div Deg # c \div Deg
  BY DEF WorkersApart
<1>5. CASE c % Deg = Deg - 1
  <2>1. pc'[w] = "idle"
    BY <1>5 DEF Advance
  <2>2. WorkersApart'
    BY <1>3, <2>1 DEF WorkersApart, Edges
  <2>3. \A e \in Edges : e \div Deg = c \div Deg => e <= c
    BY <1>2, <1>5, LastCorner
  <2>4. ASSUME NEW e \in Edges
        PROVE  Pending(e)' <=> Pending(e) /\ e # c
    <3>1. e \div Deg = c \div Deg /\ c <= e => e = c
      BY <1>2, <2>3
    <3>2. c <= c
      BY <1>2
    <3> QED
      BY <1>1, <1>3, <1>4, <2>1, <3>1, <3>2 DEF Pending
  <2> QED
    BY <2>2, <2>4 DEF Entered, Searched
<1>6. CASE c % Deg # Deg - 1
  <2>1. pc'[w] = "edge" /\ cur'[w] = c + 1
    BY <1>6 DEF Advance
  <2>2. (c + 1) \div Deg = c \div Deg
    BY <1>2, <1>6, NextCorner
  <2>3. c + 1 \in Edges
    BY <1>1, <1>2, <2>2, EdgesAreCorners
  <2>4. WorkersApart'
    BY <1>1, <1>3, <1>4, <2>1, <2>2, <2>3 DEF WorkersApart, Edges
  <2>5. ASSUME NEW e \in Edges
        PROVE  Pending(e)' <=> Pending(e) /\ e # c
    <3>1. c + 1 <= e <=> c <= e /\ e # c
      BY <1>2
    <3> QED
      BY <1>1, <1>3, <1>4, <2>1, <2>2, <3>1 DEF Pending
  <2> QED
    BY <2>4, <2>5 DEF Entered, Searched
<1> QED
  BY <1>5, <1>6

(* A worker that takes a face has all its edges before it. *)
LEMMA TakingKeeps ==
    ASSUME TypeOK, WorkersApart, NEW w \in Workers, TakeFace(w)
    PROVE  /\ WorkersApart'
           /\ cur' \in [Workers -> Edges \cup {0}]
           /\ \A e \in Edges : Pending(e)' <=> Pending(e)
           /\ \A e \in Edges : (Entered(e)' <=> Entered(e)) /\ (Searched(e)' <=> Searched(e))
           /\ \A v : Listed(v)' = Listed(v)
<1>1. PICK f \in todo : todo' = todo \ {f} /\ cur' = [cur EXCEPT ![w] = Deg * f]
  BY DEF TakeFace
<1>2. F \in Meshes /\ f \in Faces /\ pc \in [Workers -> Pcs] /\ cur \in [Workers -> Edges \cup {0}]
  BY <1>1 DEF TypeOK
<1>3. f \in Nat
  BY <1>2, FacesAssumption, FS_CardinalityType DEF Faces
<1>4. Deg * f \in Edges /\ (Deg * f) \div Deg = f /\ \A x \in Nat : x \div Deg = f => Deg * f <= x
  BY <1>2, <1>3, FirstCorner, EdgesAreCorners
<1> DEFINE c == Deg * f
<1>5. c \in Edges /\ c \div Deg = f /\ \A x \in Edges : x \div Deg = f => c <= x
  BY <1>2, <1>4, EdgesAreCorners
<1>6. pc[w] = "idle" /\ pc' = [pc EXCEPT ![w] = "edge"] /\ cur' = [cur EXCEPT ![w] = c]
  BY <1>1 DEF TakeFace
<1> HIDE DEF c
<1>7. UNCHANGED <<F, pass>>
  BY DEF TakeFace
<1>8. WorkersApart'
  BY <1>1, <1>2, <1>5, <1>6, <1>7 DEF WorkersApart, Edges
<1>9. \A e \in Edges : Pending(e)' <=> Pending(e)
  BY <1>1, <1>2, <1>5, <1>6 DEF Pending
<1>10. \A e \in Edges : (Entered(e)' <=> Entered(e)) /\ (Searched(e)' <=> Searched(e))
  BY <1>7, <1>9 DEF Entered, Searched
<1>11. \A v : Listed(v)' = Listed(v)
  BY <1>7, <1>10 DEF Listed, OutgoingIn, ProperEdges, Edges
<1> QED
  BY <1>2, <1>5, <1>6, <1>8, <1>9, <1>10, <1>11

-----------------------------------------------------------------------------
(* What a step keeps.                                                      *)

(* Lists to which nothing is appended stay chained. *)
LEMMA ChainsStay ==
    ASSUME TypeOK, ListsAreChains, UNCHANGED <<F, V2E, pass>>,
           \A v \in Vertices : Listed(v)' = Listed(v),
           \A v \in Vertices : \A e \in Listed(v) : second'[e] = second[e]
    PROVE  ListsAreChains'
<1> SUFFICES ASSUME pass \in {"insert", "search", "turn"}
             PROVE  \E rank \in [Edges -> Nat] : Chained(rank)'
  BY DEF ListsAreChains, Edges
<1>1. PICK rank \in [Edges -> Nat] : Chained(rank)
  BY DEF ListsAreChains
<1>2. Vertices' = Vertices
  BY DEF Vertices
<1>3. ASSUME NEW v \in Vertices
      PROVE  /\ V2E'[v] = INVALID => Listed(v)' = {}
             /\ V2E'[v] # INVALID => V2E'[v] \in Listed(v)' /\ rank[V2E'[v]] = 0
             /\ \A e \in Listed(v)' :
                  /\ rank[e] < Cardinality(Listed(v)')
                  /\ second'[e] # INVALID => second'[e] \in Listed(v)' /\ rank[second'[e]] = rank[e] + 1
                  /\ e # V2E'[v] => \E x \in Listed(v)' : second'[x] = e
  BY <1>1 DEF Chained
<1> QED
  BY <1>2, <1>3 DEF Chained

(* What holds of the search does not depend on the lists. *)
LEMMA SearchStays ==
    ASSUME SearchIsSound, SearchIsComplete, UNCHANGED <<F, pass, E2E, nonManifold>>,
           pass \in {"search", "turn", "done"} => \A e \in Edges : Searched(e)' <=> Searched(e)
    PROVE  SearchIsSound' /\ SearchIsComplete'
<1>1. ProperEdges(F) \subseteq Edges
  BY DEF ProperEdges, Edges
<1> QED
  BY <1>1 DEF SearchIsSound, SearchIsComplete, Source, Target, Vertices, Edges

(* An edge that someone works on is pending, and listed nowhere; nobody    *)
(* else works on it.                                                       *)
LEMMA CurrentIsPending ==
    ASSUME F \in Meshes, WorkersApart, NEW w \in Workers, pc[w] # "idle"
    PROVE  /\ cur[w] \in Edges /\ cur[w] \in Nat /\ cur[w] # INVALID
           /\ Pending(cur[w])
           /\ pass = "insert" => \A v : cur[w] \notin Listed(v)
           /\ \A x \in Workers \ {w} : pc[x] # "idle" => cur[x] # cur[w]
<1>1. cur[w] \in Edges /\ cur[w] \in Nat
  BY EdgesAreCorners DEF WorkersApart
<1>2. cur[w] <= cur[w] /\ cur[w] # INVALID
  BY <1>1, InvalidAssumption
<1>3. Pending(cur[w])
  BY <1>2 DEF Pending
<1>4. pass = "insert" => \A v : cur[w] \notin Listed(v)
  BY <1>3 DEF Listed, Entered
<1>5. \A x \in Workers \ {w} : pc[x] # "idle" => cur[x] # cur[w]
  BY DEF WorkersApart
<1> QED
  BY <1>1, <1>2, <1>3, <1>4, <1>5

(* Listed edges are edges. *)
LEMMA ListedAreEdges ==
    ASSUME NEW v
    PROVE  Listed(v) \subseteq OutgoingIn(F, v) /\ OutgoingIn(F, v) \subseteq Edges
  BY DEF Listed, OutgoingIn, ProperEdges, Edges

(* While edges are inserted, a worker still knows what it knew if its own  *)
(* entry and the place it has read were left as they are.                  *)
LEMMA StillKnows ==
    ASSUME pass = "insert", NEW x \in Workers, Knows(x), UNCHANGED <<F, pass>>,
           pc'[x] = pc[x], cur'[x] = cur[x], idx'[x] = idx[x], thrown => thrown',
           pc[x] \in {"head cas", "head", "tail cas", "tail"} =>
                first'[cur[x]] = first[cur[x]] /\ second'[cur[x]] = second[cur[x]],
           pc[x] = "head" => V2E'[Source(cur[x])] # INVALID,
           pc[x] = "tail" => second'[idx[x]] # INVALID,
           \A v : Listed(v) \subseteq Listed(v)'
    PROVE  Knows(x)'
<1>1. pc[x] \notin {"flag", "link", "link back"}
  BY DEF Knows
<1>2. \A e : Source(e)' = Source(e) /\ Target(e)' = Target(e) /\ OutOfBounds(e)' = OutOfBounds(e)
  BY DEF Source, Target, OutOfBounds, Vertices
<1>3. CASE pc[x] \in {"head cas", "head", "tail cas", "tail"}
  <2>1. /\ cur[x] \in OutgoingIn(F, Source(cur[x])) /\ ~OutOfBounds(cur[x])
        /\ first[cur[x]] = Target(cur[x]) /\ second[cur[x]] = INVALID
    BY <1>3 DEF Knows
  <2>2. PICK v : v = Source(cur[x])
    OBVIOUS
  <2>3. pc[x] \in {"tail cas", "tail"} => idx'[x] \in Listed(v)'
    BY <2>2 DEF Knows
  <2>4. Source(cur[x])' = v
    BY <2>2 DEF Source
  <2> QED
    BY <1>1, <1>2, <1>3, <2>1, <2>2, <2>3, <2>4 DEF Knows
<1>4. CASE pc[x] \notin {"head cas", "head", "tail cas", "tail"}
  BY <1>1, <1>4 DEF Knows
<1> QED
  BY <1>3, <1>4

(* The entry is prepared, or the vertex is out of bounds. *)
LEMMA BeginInsertKeeps ==
    ASSUME BuildInv, NEW w \in Workers, BeginInsert(w)
    PROVE  BuildInv'
<1> DEFINE e == cur[w]
<1>1. /\ TypeOK /\ WorkersApart /\ WorkersKnow /\ ListsAreChains /\ EntriesAreSound
      /\ SearchIsSound /\ SearchIsComplete
      /\ F \in Meshes /\ pass = "insert" /\ pc[w] = "edge" /\ pc[w] # "idle"
      /\ pc \in [Workers -> Pcs] /\ cur \in [Workers -> Edges \cup {0}] /\ idx \in [Workers -> Edges \cup {INVALID}]
      /\ UNCHANGED <<F, V2E, E2E, nonManifold, boundary, pass, todo>>
  BY DEF BuildInv, TypeOK, BeginInsert, result
<1>2. /\ e \in Edges /\ e \in Nat /\ e # INVALID
      /\ Pending(e)
      /\ \A v : e \notin Listed(v)
      /\ \A x \in Workers \ {w} : pc[x] # "idle" => cur[x] # e
  BY <1>1, CurrentIsPending
<1>3. CASE OutOfBounds(e)
  <2>1. /\ thrown' = TRUE /\ With(w, idx[w], "thrown") /\ UNCHANGED <<first, second>>
    BY <1>1, <1>3 DEF BeginInsert, Goto
  <2>2. /\ WorkersApart' /\ \A x : (Entered(x)' <=> Entered(x)) /\ (Searched(x)' <=> Searched(x))
        /\ \A v : Listed(v)' = Listed(v)
    BY <1>1, <2>1, StayingKeeps
  <2>3. cur' = cur /\ idx' = idx /\ pc' = [pc EXCEPT ![w] = "thrown"]
    BY <1>1, <2>1 DEF With
  <2>4. TypeOK'
    BY <1>1, <2>1, <2>3 DEF TypeOK, Pcs, Edges, Vertices, Faces
  <2>5. WorkersKnow'
    BY <1>1, <2>1, <2>2, <2>3 DEF WorkersKnow, Knows, Source, Target, OutOfBounds, Vertices
  <2>6. ListsAreChains'
    BY <1>1, <2>1, <2>2, ChainsStay
  <2>7. EntriesAreSound'
    BY <1>1, <2>1, <2>2 DEF EntriesAreSound, Source, Target, OutOfBounds, Vertices, Edges
  <2> QED
    BY <1>1, <2>2, <2>4, <2>5, <2>6, <2>7, SearchStays DEF BuildInv
<1>4. CASE ~OutOfBounds(e) /\ Degenerate(e)
  <2>1. Advance(w) /\ UNCHANGED <<first, second, thrown>>
    BY <1>4 DEF BeginInsert
  <2>2. /\ WorkersApart'
        /\ \A x \in Edges : Entered(x)' <=> Entered(x) \/ x = e
    BY <1>1, <2>1, AdvancePasses
  <2>3. \A v : Listed(v)' = Listed(v)
    <3>1. \A v : e \notin OutgoingIn(F, v)
      BY <1>4 DEF OutgoingIn, ProperEdges, Degenerate, Source, Target
    <3> QED
      BY <1>1, <2>2, <3>1, ListedAreEdges DEF Listed
  <2>4. /\ \A x \in Workers \ {w} : pc'[x] = pc[x] /\ cur'[x] = cur[x] /\ idx'[x] = idx[x]
        /\ pc'[w] \in {"idle", "edge"}
        /\ pc' \in [Workers -> Pcs] /\ idx' \in [Workers -> Edges \cup {INVALID}]
    BY <1>1, <2>1 DEF Advance, Pcs
  <2>5. cur' \in [Workers -> Edges \cup {0}]
    BY <1>1, <2>1, <2>2 DEF Advance, WorkersApart, Edges
  <2>6. TypeOK'
    BY <1>1, <2>1, <2>4, <2>5 DEF TypeOK, Edges, Vertices, Faces
  <2>7. WorkersKnow'
    BY <1>1, <2>1, <2>3, <2>4 DEF WorkersKnow, Knows, Source, Target, OutOfBounds, Vertices
  <2>8. ListsAreChains'
    BY <1>1, <2>1, <2>3, ChainsStay
  <2>9. EntriesAreSound'
    <3>1. e \notin ProperEdges(F) /\ ProperEdges(F) \subseteq Edges
      BY <1>4 DEF ProperEdges, Degenerate, Source, Target, Edges
    <3> QED
      BY <1>1, <1>4, <2>1, <2>2, <3>1 DEF EntriesAreSound, Source, Target, OutOfBounds, Vertices, Edges
  <2> QED
    BY <1>1, <2>2, <2>6, <2>7, <2>8, <2>9, SearchStays DEF BuildInv
<1>5. CASE ~OutOfBounds(e) /\ ~Degenerate(e)
  <2>1. /\ first' = [first EXCEPT ![e] = Target(e)]
        /\ second' = [second EXCEPT ![e] = INVALID]
        /\ With(w, idx[w], "head cas") /\ thrown' = thrown
    BY <1>1, <1>5 DEF BeginInsert, Goto
  <2>2. /\ WorkersApart' /\ \A x : (Entered(x)' <=> Entered(x)) /\ (Searched(x)' <=> Searched(x))
        /\ \A v : Listed(v)' = Listed(v)
    BY <1>1, <2>1, StayingKeeps
  <2>3. cur' = cur /\ idx' = idx /\ pc' = [pc EXCEPT ![w] = "head cas"]
    BY <1>1, <2>1 DEF With
  <2>4. e \in OutgoingIn(F, Source(e)) /\ Source(e) \in Vertices /\ Target(e) \in Vertices
    BY <1>2, <1>5 DEF OutgoingIn, ProperEdges, Degenerate, Source, Target, Edges, OutOfBounds
  <2>5. first \in [Edges -> Vertices] /\ second \in [Edges -> Edges \cup {INVALID}]
    BY <1>1 DEF TypeOK
  <2>6. /\ first' \in [Edges -> Vertices] /\ second' \in [Edges -> Edges \cup {INVALID}]
        /\ first'[e] = Target(e) /\ second'[e] = INVALID
        /\ \A x \in Edges \ {e} : first'[x] = first[x] /\ second'[x] = second[x]
    BY <1>2, <2>1, <2>4, <2>5
  <2>7. TypeOK'
    BY <1>1, <2>1, <2>3, <2>6 DEF TypeOK, Pcs, Edges, Vertices, Faces
  <2>8. WorkersKnow'
    <3>1. ASSUME NEW x \in Workers \ {w}, pc[x] # "idle"
          PROVE  /\ first'[cur[x]] = first[cur[x]] /\ second'[cur[x]] = second[cur[x]]
                 /\ pc[x] \in {"tail cas", "tail"} => second'[idx[x]] = second[idx[x]]
      <4>1. cur[x] \in Edges \ {e}
        BY <1>1, <1>2, <3>1, CurrentIsPending
      <4>2. pc[x] \in {"tail cas", "tail"} => idx[x] \in Edges \ {e}
        BY <1>1, <1>2, ListedAreEdges DEF WorkersKnow, Knows
      <4> QED
        BY <2>6, <4>1, <4>2
    <3>2. pc'[w] = "head cas" /\ \A x \in Workers \ {w} : pc'[x] = pc[x]
      BY <1>1, <2>3
    <3>3. Knows(w)'
      BY <1>1, <1>5, <2>3, <2>4, <2>6, <3>2 DEF Knows, Source, Target, OutOfBounds, Vertices
    <3>4. ASSUME NEW x \in Workers \ {w}
          PROVE  Knows(x)'
      <4>1. /\ pc'[x] = pc[x] /\ cur'[x] = cur[x] /\ idx'[x] = idx[x] /\ Knows(x)
            /\ pc[x] = "tail" => second'[idx[x]] # INVALID
        BY <1>1, <2>3, <3>1, <3>2 DEF WorkersKnow, Knows
      <4>2. pc[x] = "head" => V2E'[Source(cur[x])] # INVALID
        BY <1>1, <4>1 DEF Knows
      <4> QED
        BY <1>1, <2>1, <2>2, <3>1, <4>1, <4>2, StillKnows
    <3> QED
      BY <3>3, <3>4 DEF WorkersKnow
  <2>9. ListsAreChains'
    <3>1. \A v \in Vertices : \A x \in Listed(v) : second'[x] = second[x]
      BY <1>2, <2>6, ListedAreEdges
    <3> QED
      BY <1>1, <2>1, <2>2, <3>1, ChainsStay
  <2>10. EntriesAreSound'
    <3>1. ProperEdges(F) \subseteq Edges
      BY DEF ProperEdges, Edges
    <3>2. ~Entered(e)
      BY <1>1, <1>2 DEF Entered
    <3> QED
      BY <1>1, <2>1, <2>2, <2>6, <3>1, <3>2 DEF EntriesAreSound, Source, Target, OutOfBounds, Vertices, Edges
  <2> QED
    BY <1>1, <2>2, <2>7, <2>8, <2>9, <2>10, SearchStays DEF BuildInv
<1> QED
  BY <1>3, <1>4, <1>5

(* What is common to the two ways into a list. *)
LEMMA EntryEnters ==
    ASSUME BuildInv, NEW w \in Workers, pc[w] \in {"head cas", "tail cas"}, Advance(w),
           UNCHANGED <<F, first, result, pass, todo, thrown>>
    PROVE  /\ WorkersApart' /\ EntriesAreSound' /\ SearchIsSound' /\ SearchIsComplete' /\ Knows(w)'
           /\ pc' \in [Workers -> Pcs] /\ cur' \in [Workers -> Edges \cup {0}]
           /\ idx' \in [Workers -> Edges \cup {INVALID}]
           /\ \A x \in Workers \ {w} : pc'[x] = pc[x] /\ cur'[x] = cur[x] /\ idx'[x] = idx[x]
           /\ \A v : Listed(v)' = Listed(v) \cup (IF v = Source(cur[w]) THEN {cur[w]} ELSE {})
<1> DEFINE e == cur[w]
<1>1. /\ TypeOK /\ WorkersApart /\ WorkersKnow /\ EntriesAreSound
      /\ SearchIsSound /\ SearchIsComplete
      /\ F \in Meshes /\ pc[w] # "idle"
      /\ pc \in [Workers -> Pcs] /\ cur \in [Workers -> Edges \cup {0}] /\ idx \in [Workers -> Edges \cup {INVALID}]
      /\ UNCHANGED <<F, first, E2E, nonManifold, pass, todo, thrown>>
  BY DEF BuildInv, TypeOK, result
<1>2. /\ pass = "insert" /\ e \in OutgoingIn(F, Source(e)) /\ ~OutOfBounds(e) /\ first[e] = Target(e)
  BY <1>1 DEF WorkersKnow, Knows
<1>3. e \in Edges
  BY <1>1, CurrentIsPending
<1>4. /\ WorkersApart'
      /\ \A x \in Edges : Entered(x)' <=> Entered(x) \/ x = e
  BY <1>1, AdvancePasses
<1>5. EntriesAreSound'
  <2>1. ProperEdges(F) \subseteq Edges
    BY DEF ProperEdges, Edges
  <2> QED
    BY <1>1, <1>2, <1>4, <2>1 DEF EntriesAreSound, Source, Target, OutOfBounds, Vertices, Edges
<1>6. SearchIsSound' /\ SearchIsComplete'
  BY <1>1, <1>2, SearchStays
<1>7. /\ \A x \in Workers \ {w} : pc'[x] = pc[x] /\ cur'[x] = cur[x] /\ idx'[x] = idx[x]
      /\ pc'[w] \in {"idle", "edge"}
      /\ pc' \in [Workers -> Pcs] /\ idx' \in [Workers -> Edges \cup {INVALID}]
  BY <1>1 DEF Advance, Pcs
<1>8. cur' \in [Workers -> Edges \cup {0}]
  BY <1>1, <1>4 DEF Advance, WorkersApart, Edges
<1>9. Knows(w)'
  BY <1>1, <1>2, <1>7 DEF Knows
<1>10. ASSUME NEW v
       PROVE  Listed(v)' = Listed(v) \cup (IF v = Source(e) THEN {e} ELSE {})
  <2>1. OutgoingIn(F, v) \subseteq Edges
    BY ListedAreEdges
  <2>2. e \in OutgoingIn(F, v) <=> v = Source(e)
    BY <1>2 DEF OutgoingIn, Source
  <2>3. Listed(v)' = {x \in OutgoingIn(F, v) : Entered(x)'}
    BY <1>1 DEF Listed
  <2> QED
    BY <1>4, <2>1, <2>2, <2>3 DEF Listed
<1> QED
  BY <1>4, <1>5, <1>6, <1>7, <1>8, <1>9, <1>10

(* The head of an empty list, or on to its head. *)
LEMMA HeadCasKeeps ==
    ASSUME BuildInv, NEW w \in Workers, HeadCas(w)
    PROVE  BuildInv'
<1> DEFINE e == cur[w]
<1>0. PICK s : s = Source(e)
  OBVIOUS
<1>1. /\ TypeOK /\ WorkersApart /\ WorkersKnow /\ ListsAreChains /\ EntriesAreSound
      /\ SearchIsSound /\ SearchIsComplete
      /\ F \in Meshes /\ pc[w] = "head cas" /\ pc[w] # "idle"
      /\ pc \in [Workers -> Pcs] /\ cur \in [Workers -> Edges \cup {0}] /\ idx \in [Workers -> Edges \cup {INVALID}]
      /\ V2E \in [Vertices -> Edges \cup {INVALID}]
      /\ UNCHANGED <<F, first, second, result, E2E, nonManifold, boundary, pass, todo, thrown>>
  BY DEF BuildInv, TypeOK, HeadCas, result
<1>2. /\ pass = "insert" /\ e \in OutgoingIn(F, s) /\ ~OutOfBounds(e) /\ s \in Vertices
      /\ first[e] = Target(e) /\ second[e] = INVALID
  BY <1>0, <1>1 DEF WorkersKnow, Knows, OutOfBounds
<1>3. /\ e \in Edges /\ e \in Nat /\ e # INVALID
      /\ \A v : e \notin Listed(v)
      /\ \A x \in Workers \ {w} : pc[x] # "idle" => cur[x] # e
  BY <1>1, <1>2, CurrentIsPending
<1>4. CASE V2E[s] = INVALID
  <2>1. V2E' = [V2E EXCEPT ![s] = e] /\ Advance(w)
    BY <1>0, <1>4 DEF HeadCas
  <2>2. /\ WorkersApart' /\ EntriesAreSound' /\ SearchIsSound' /\ SearchIsComplete' /\ Knows(w)'
        /\ pc' \in [Workers -> Pcs] /\ cur' \in [Workers -> Edges \cup {0}]
        /\ idx' \in [Workers -> Edges \cup {INVALID}]
        /\ \A x \in Workers \ {w} : pc'[x] = pc[x] /\ cur'[x] = cur[x] /\ idx'[x] = idx[x]
        /\ \A v : Listed(v)' = Listed(v) \cup (IF v = s THEN {e} ELSE {})
    BY <1>0, <1>1, <2>1, EntryEnters
  <2>3. /\ V2E' \in [Vertices -> Edges \cup {INVALID}] /\ V2E'[s] = e
        /\ \A v \in Vertices \ {s} : V2E'[v] = V2E[v]
    BY <1>1, <1>2, <1>3, <2>1
  <2>4. TypeOK'
    BY <1>1, <2>2, <2>3 DEF TypeOK, Edges, Vertices, Faces
  <2>5. ListsAreChains'
    <3>1. PICK rank \in [Edges -> Nat] : Chained(rank)
      BY <1>1, <1>2 DEF ListsAreChains
    <3> DEFINE r == [rank EXCEPT ![e] = 0]
    <3>2. /\ r \in [Edges -> Nat] /\ r[e] = 0 /\ \A x \in Edges \ {e} : r[x] = rank[x]
      BY <1>3, <3>1
    <3> HIDE DEF r
    <3>3. Listed(s) = {} /\ Listed(s)' = {e}
      BY <1>2, <1>4, <2>2, <3>1 DEF Chained
    <3>4. Cardinality({e}) = 1
      BY FS_Singleton
    <3>5. ASSUME NEW v \in Vertices
          PROVE  /\ V2E'[v] = INVALID => Listed(v)' = {}
                 /\ V2E'[v] # INVALID => V2E'[v] \in Listed(v)' /\ r[V2E'[v]] = 0
                 /\ \A x \in Listed(v)' :
                      /\ r[x] < Cardinality(Listed(v)')
                      /\ second'[x] # INVALID => second'[x] \in Listed(v)' /\ r[second'[x]] = r[x] + 1
                      /\ x # V2E'[v] => \E y \in Listed(v)' : second'[y] = x
      <4>1. CASE v = s
        <5>1. Listed(v)' = {e} /\ Cardinality(Listed(v)') = 1 /\ V2E'[v] = e
          BY <2>3, <3>3, <3>4, <4>1
        <5>2. second'[e] = INVALID /\ r[e] = 0
          BY <1>1, <1>2, <3>2
        <5> QED
          BY <1>3, <5>1, <5>2
      <4>2. CASE v # s
        <5>1. Listed(v)' = Listed(v) /\ V2E'[v] = V2E[v] /\ second' = second
          BY <1>1, <2>2, <2>3, <4>2
        <5>2. \A x \in Listed(v) : x \in Edges /\ r[x] = rank[x]
          BY <1>3, <3>2, ListedAreEdges
        <5> QED
          BY <3>1, <5>1, <5>2 DEF Chained
      <4> QED
        BY <4>1, <4>2
    <3>6. Vertices' = Vertices /\ Edges' = Edges
      BY <1>1 DEF Vertices, Edges
    <3> QED
      BY <3>2, <3>5, <3>6 DEF Chained, ListsAreChains
  <2>6. ASSUME NEW x \in Workers \ {w}
        PROVE  Knows(x)'
    <3>1. Knows(x) /\ (pc[x] \in {"head cas", "head", "tail cas", "tail"} => Source(cur[x]) \in Vertices)
      BY <1>1 DEF WorkersKnow, Knows, OutOfBounds
    <3>2. pc[x] = "head" => V2E'[Source(cur[x])] # INVALID
      BY <1>3, <2>3, <3>1 DEF Knows
    <3>3. /\ pc'[x] = pc[x] /\ cur'[x] = cur[x] /\ idx'[x] = idx[x]
          /\ pc[x] = "tail" => second'[idx[x]] # INVALID
          /\ \A v : Listed(v) \subseteq Listed(v)'
      BY <1>1, <2>2, <3>1 DEF Knows
    <3> QED
      BY <1>1, <1>2, <3>1, <3>2, <3>3, StillKnows
  <2> QED
    BY <2>2, <2>4, <2>5, <2>6 DEF BuildInv, WorkersKnow
<1>5. CASE V2E[s] # INVALID
  <2>1. With(w, idx[w], "head") /\ UNCHANGED V2E
    BY <1>0, <1>5 DEF HeadCas, Goto
  <2>2. /\ WorkersApart' /\ \A x : (Entered(x)' <=> Entered(x)) /\ (Searched(x)' <=> Searched(x))
        /\ \A v : Listed(v)' = Listed(v)
    BY <1>1, <2>1, StayingKeeps
  <2>3. cur' = cur /\ idx' = idx /\ pc' = [pc EXCEPT ![w] = "head"]
    BY <1>1, <2>1 DEF With
  <2>4. TypeOK'
    BY <1>1, <2>1, <2>3 DEF TypeOK, Pcs, Edges, Vertices, Faces
  <2>5. Knows(w)'
    <3>1. pc'[w] = "head" /\ Source(e)' = s
      BY <1>0, <1>1, <2>3 DEF Source
    <3> QED
      BY <1>0, <1>1, <1>2, <1>5, <2>1, <2>3, <3>1 DEF Knows, Target, OutOfBounds, Vertices, Source
  <2>6. ASSUME NEW x \in Workers \ {w}
        PROVE  Knows(x)'
    <3>1. /\ Knows(x) /\ pc'[x] = pc[x] /\ cur'[x] = cur[x] /\ idx'[x] = idx[x]
          /\ pc[x] = "head" => V2E'[Source(cur[x])] # INVALID
          /\ pc[x] = "tail" => second'[idx[x]] # INVALID
      BY <1>1, <2>1, <2>3 DEF WorkersKnow, Knows
    <3> QED
      BY <1>1, <1>2, <2>2, <3>1, StillKnows
  <2>7. ListsAreChains'
    BY <1>1, <2>1, <2>2, ChainsStay
  <2>8. EntriesAreSound'
    BY <1>1, <2>2 DEF EntriesAreSound, Source, Target, OutOfBounds, Vertices, Edges
  <2> QED
    BY <1>1, <2>2, <2>4, <2>5, <2>6, <2>7, <2>8, SearchStays DEF BuildInv, WorkersKnow
<1> QED
  BY <1>4, <1>5

(* The head of the list is read. *)
LEMMA HeadReadKeeps ==
    ASSUME BuildInv, NEW w \in Workers, HeadRead(w)
    PROVE  BuildInv'
<1> DEFINE e == cur[w]
<1>0. PICK s : s = Source(e)
  OBVIOUS
<1>1. /\ TypeOK /\ WorkersApart /\ WorkersKnow /\ ListsAreChains /\ EntriesAreSound
      /\ SearchIsSound /\ SearchIsComplete
      /\ F \in Meshes /\ pc[w] = "head" /\ pc[w] # "idle"
      /\ pc \in [Workers -> Pcs] /\ cur \in [Workers -> Edges \cup {0}] /\ idx \in [Workers -> Edges \cup {INVALID}]
      /\ V2E \in [Vertices -> Edges \cup {INVALID}]
      /\ UNCHANGED <<F, V2E, first, second, E2E, nonManifold, boundary, pass, todo, thrown>>
  BY DEF BuildInv, TypeOK, HeadRead, result, lists
<1>2. /\ pass = "insert" /\ e \in OutgoingIn(F, s) /\ ~OutOfBounds(e) /\ s \in Vertices
      /\ first[e] = Target(e) /\ second[e] = INVALID /\ V2E[s] # INVALID
  BY <1>0, <1>1 DEF WorkersKnow, Knows, OutOfBounds
<1>3. With(w, V2E[s], "tail cas")
  BY <1>0 DEF HeadRead
<1>4. /\ WorkersApart' /\ \A x : (Entered(x)' <=> Entered(x)) /\ (Searched(x)' <=> Searched(x))
      /\ \A v : Listed(v)' = Listed(v)
  BY <1>1, <1>3, StayingKeeps
<1>5. V2E[s] \in Listed(s) /\ V2E[s] \in Edges
  BY <1>1, <1>2, ListedAreEdges DEF ListsAreChains, Chained
<1>6. cur' = cur /\ idx' = [idx EXCEPT ![w] = V2E[s]] /\ pc' = [pc EXCEPT ![w] = "tail cas"]
  BY <1>1, <1>3 DEF With
<1>7. TypeOK'
  BY <1>1, <1>5, <1>6 DEF TypeOK, Pcs, Edges, Vertices, Faces
<1>8. Knows(w)'
  <2>1. pc'[w] = "tail cas" /\ idx'[w] \in Listed(s)' /\ Source(e)' = s
    BY <1>0, <1>1, <1>4, <1>5, <1>6 DEF Source
  <2> QED
    BY <1>0, <1>1, <1>2, <1>6, <2>1 DEF Knows, Target, OutOfBounds, Vertices, Source
<1>9. ASSUME NEW x \in Workers \ {w}
      PROVE  Knows(x)'
  <2>1. /\ Knows(x) /\ pc'[x] = pc[x] /\ cur'[x] = cur[x] /\ idx'[x] = idx[x]
        /\ pc[x] = "head" => V2E'[Source(cur[x])] # INVALID
        /\ pc[x] = "tail" => second'[idx[x]] # INVALID
    BY <1>1, <1>6 DEF WorkersKnow, Knows
  <2> QED
    BY <1>1, <1>2, <1>4, <2>1, StillKnows
<1>10. ListsAreChains'
  BY <1>1, <1>4, ChainsStay
<1>11. EntriesAreSound'
  BY <1>1, <1>4 DEF EntriesAreSound, Source, Target, OutOfBounds, Vertices, Edges
<1> QED
  BY <1>1, <1>4, <1>7, <1>8, <1>9, <1>10, <1>11, SearchStays DEF BuildInv, WorkersKnow

(* On to the entry behind the one that was read. *)
LEMMA TailReadKeeps ==
    ASSUME BuildInv, NEW w \in Workers, TailRead(w)
    PROVE  BuildInv'
<1> DEFINE e == cur[w]
<1>0. PICK s : s = Source(e)
  OBVIOUS
<1>1. /\ TypeOK /\ WorkersApart /\ WorkersKnow /\ ListsAreChains /\ EntriesAreSound
      /\ SearchIsSound /\ SearchIsComplete
      /\ F \in Meshes /\ pc[w] = "tail" /\ pc[w] # "idle"
      /\ pc \in [Workers -> Pcs] /\ cur \in [Workers -> Edges \cup {0}] /\ idx \in [Workers -> Edges \cup {INVALID}]
      /\ UNCHANGED <<F, V2E, first, second, E2E, nonManifold, boundary, pass, todo, thrown>>
  BY DEF BuildInv, TypeOK, TailRead, result, lists
<1>2. /\ pass = "insert" /\ e \in OutgoingIn(F, s) /\ ~OutOfBounds(e) /\ s \in Vertices
      /\ first[e] = Target(e) /\ second[e] = INVALID
      /\ idx[w] \in Listed(s) /\ second[idx[w]] # INVALID
  BY <1>0, <1>1 DEF WorkersKnow, Knows, OutOfBounds
<1>3. With(w, second[idx[w]], "tail cas")
  BY DEF TailRead
<1>4. /\ WorkersApart' /\ \A x : (Entered(x)' <=> Entered(x)) /\ (Searched(x)' <=> Searched(x))
      /\ \A v : Listed(v)' = Listed(v)
  BY <1>1, <1>3, StayingKeeps
<1>5. second[idx[w]] \in Listed(s) /\ second[idx[w]] \in Edges
  BY <1>1, <1>2, ListedAreEdges DEF ListsAreChains, Chained
<1>6. cur' = cur /\ idx' = [idx EXCEPT ![w] = second[idx[w]]] /\ pc' = [pc EXCEPT ![w] = "tail cas"]
  BY <1>1, <1>3 DEF With
<1>7. TypeOK'
  BY <1>1, <1>5, <1>6 DEF TypeOK, Pcs, Edges, Vertices, Faces
<1>8. Knows(w)'
  <2>1. pc'[w] = "tail cas" /\ idx'[w] \in Listed(s)' /\ Source(e)' = s
    BY <1>0, <1>1, <1>4, <1>5, <1>6 DEF Source
  <2> QED
    BY <1>0, <1>1, <1>2, <1>6, <2>1 DEF Knows, Target, OutOfBounds, Vertices, Source
<1>9. ASSUME NEW x \in Workers \ {w}
      PROVE  Knows(x)'
  <2>1. /\ Knows(x) /\ pc'[x] = pc[x] /\ cur'[x] = cur[x] /\ idx'[x] = idx[x]
        /\ pc[x] = "head" => V2E'[Source(cur[x])] # INVALID
        /\ pc[x] = "tail" => second'[idx[x]] # INVALID
    BY <1>1, <1>6 DEF WorkersKnow, Knows
  <2> QED
    BY <1>1, <1>2, <1>4, <2>1, StillKnows
<1>10. ListsAreChains'
  BY <1>1, <1>4, ChainsStay
<1>11. EntriesAreSound'
  BY <1>1, <1>4 DEF EntriesAreSound, Source, Target, OutOfBounds, Vertices, Edges
<1> QED
  BY <1>1, <1>4, <1>7, <1>8, <1>9, <1>10, <1>11, SearchStays DEF BuildInv, WorkersKnow

(* Behind the last entry of the list, or on to the entry behind.           *)
LEMMA TailCasKeeps ==
    ASSUME BuildInv, NEW w \in Workers, TailCas(w)
    PROVE  BuildInv'
<1> DEFINE e == cur[w]
           i == idx[w]
<1>0. PICK s : s = Source(e)
  OBVIOUS
<1>1. /\ TypeOK /\ WorkersApart /\ WorkersKnow /\ ListsAreChains /\ EntriesAreSound
      /\ SearchIsSound /\ SearchIsComplete
      /\ F \in Meshes /\ pc[w] = "tail cas" /\ pc[w] # "idle"
      /\ pc \in [Workers -> Pcs] /\ cur \in [Workers -> Edges \cup {0}] /\ idx \in [Workers -> Edges \cup {INVALID}]
      /\ second \in [Edges -> Edges \cup {INVALID}]
      /\ UNCHANGED <<F, V2E, first, result, E2E, nonManifold, boundary, pass, todo, thrown>>
  BY DEF BuildInv, TypeOK, TailCas, result
<1>2. /\ pass = "insert" /\ e \in OutgoingIn(F, s) /\ ~OutOfBounds(e) /\ s \in Vertices
      /\ first[e] = Target(e) /\ second[e] = INVALID /\ i \in Listed(s)
  BY <1>0, <1>1 DEF WorkersKnow, Knows, OutOfBounds
<1>3. /\ e \in Edges /\ e \in Nat /\ e # INVALID
      /\ \A v : e \notin Listed(v)
      /\ \A x \in Workers \ {w} : pc[x] # "idle" => cur[x] # e
      /\ i \in Edges /\ i # e
  BY <1>1, <1>2, CurrentIsPending, ListedAreEdges
<1>4. CASE second[i] = INVALID
  <2>1. second' = [second EXCEPT ![i] = e] /\ Advance(w)
    BY <1>4 DEF TailCas
  <2>2. /\ WorkersApart' /\ EntriesAreSound' /\ SearchIsSound' /\ SearchIsComplete' /\ Knows(w)'
        /\ pc' \in [Workers -> Pcs] /\ cur' \in [Workers -> Edges \cup {0}]
        /\ idx' \in [Workers -> Edges \cup {INVALID}]
        /\ \A x \in Workers \ {w} : pc'[x] = pc[x] /\ cur'[x] = cur[x] /\ idx'[x] = idx[x]
        /\ \A v : Listed(v)' = Listed(v) \cup (IF v = s THEN {e} ELSE {})
    BY <1>0, <1>1, <2>1, EntryEnters
  <2>3. /\ second' \in [Edges -> Edges \cup {INVALID}] /\ second'[i] = e
        /\ \A x \in Edges \ {i} : second'[x] = second[x]
    BY <1>1, <1>3, <2>1
  <2>4. TypeOK'
    BY <1>1, <2>2, <2>3 DEF TypeOK, Edges, Vertices, Faces
  <2>5. ListsAreChains'
    <3>1. PICK rank \in [Edges -> Nat] : Chained(rank)
      BY <1>1, <1>2 DEF ListsAreChains
    <3> DEFINE r == [rank EXCEPT ![e] = rank[i] + 1]
    <3>2. rank[i] \in Nat
      BY <1>3
    <3>3. /\ r \in [Edges -> Nat] /\ r[e] = rank[i] + 1 /\ \A x \in Edges \ {e} : r[x] = rank[x]
      BY <1>3, <3>1, <3>2
    <3> HIDE DEF r
    <3>4. ASSUME NEW v \in Vertices
          PROVE  /\ V2E'[v] = INVALID => Listed(v)' = {}
                 /\ V2E'[v] # INVALID => V2E'[v] \in Listed(v)' /\ r[V2E'[v]] = 0
                 /\ \A x \in Listed(v)' :
                      /\ r[x] < Cardinality(Listed(v)')
                      /\ second'[x] # INVALID => second'[x] \in Listed(v)' /\ r[second'[x]] = r[x] + 1
                      /\ x # V2E'[v] => \E y \in Listed(v)' : second'[y] = x
      <4>1. /\ V2E[v] = INVALID => Listed(v) = {}
            /\ V2E[v] # INVALID => V2E[v] \in Listed(v) /\ rank[V2E[v]] = 0
            /\ \A x \in Listed(v) :
                 /\ rank[x] < Cardinality(Listed(v))
                 /\ second[x] # INVALID => second[x] \in Listed(v) /\ rank[second[x]] = rank[x] + 1
                 /\ x # V2E[v] => \E y \in Listed(v) : second[y] = x
        BY <3>1 DEF Chained
      <4>2. V2E'[v] = V2E[v]
        BY <1>1
      <4>3. \A x \in Listed(v) : x \in Edges /\ x # e /\ r[x] = rank[x]
        BY <1>3, <3>3, ListedAreEdges
      <4>4. CASE v # s
        <5>1. Listed(v)' = Listed(v)
          BY <2>2, <4>4
        <5>2. i \notin Listed(v)
          BY <1>2, <4>4 DEF Listed, OutgoingIn
        <5>3. \A x \in Listed(v) : second'[x] = second[x]
          BY <2>3, <4>3, <5>2
        <5> QED
          BY <4>1, <4>2, <4>3, <5>1, <5>3
      <4>5. CASE v = s
        <5>1. Listed(v)' = Listed(v) \cup {e} /\ i \in Listed(v) /\ e \notin Listed(v)
          BY <1>2, <1>3, <2>2, <4>5
        <5>2. /\ Cardinality(Listed(v)') = Cardinality(Listed(v)) + 1
              /\ Cardinality(Listed(v)) \in Nat
          <6>1. IsFiniteSet(Listed(v))
            BY <1>1, EdgesAreCorners, ListedAreEdges, FS_Subset
          <6> QED
            BY <5>1, <6>1, FS_AddElement, FS_CardinalityType
        <5>3. V2E[v] # INVALID
          BY <4>1, <5>1
        <5>4. ASSUME NEW x \in Listed(v)
              PROVE  /\ r[x] < Cardinality(Listed(v)')
                     /\ second'[x] # INVALID => second'[x] \in Listed(v)' /\ r[second'[x]] = r[x] + 1
                     /\ x # V2E'[v] => \E y \in Listed(v)' : second'[y] = x
          <6>1. r[x] < Cardinality(Listed(v)')
            BY <3>1, <4>1, <4>3, <5>2
          <6>2. second'[x] # INVALID => second'[x] \in Listed(v)' /\ r[second'[x]] = r[x] + 1
            <7>1. CASE x = i
              BY <2>3, <3>3, <4>3, <5>1, <7>1
            <7>2. CASE x # i
              BY <2>3, <4>1, <4>3, <5>1, <7>2
            <7> QED
              BY <7>1, <7>2
          <6>3. ASSUME x # V2E'[v]
                PROVE  \E y \in Listed(v)' : second'[y] = x
            <7>1. PICK y \in Listed(v) : second[y] = x
              BY <4>1, <4>2, <6>3
            <7>2. y # i /\ second'[y] = x
              BY <1>3, <1>4, <2>3, <4>3, <7>1, InvalidAssumption, EdgesAreCorners, <1>1
            <7> QED
              BY <5>1, <7>1, <7>2
          <6> QED
            BY <6>1, <6>2, <6>3
        <5>5. /\ r[e] < Cardinality(Listed(v)')
              /\ second'[e] = INVALID
              /\ second'[i] = e
          BY <1>2, <1>3, <2>3, <3>2, <3>3, <4>1, <5>1, <5>2
        <5>6. V2E'[v] # INVALID /\ V2E'[v] \in Listed(v)' /\ r[V2E'[v]] = 0
          BY <4>1, <4>2, <4>3, <5>1, <5>3
        <5>7. /\ r[e] < Cardinality(Listed(v)')
              /\ second'[e] # INVALID => second'[e] \in Listed(v)' /\ r[second'[e]] = r[e] + 1
              /\ \E y \in Listed(v)' : second'[y] = e
          BY <5>1, <5>5
        <5>8. \A x \in Listed(v)' : x \in Listed(v) \/ x = e
          BY <5>1
        <5> HIDE DEF e
        <5> QED
          BY <5>4, <5>6, <5>7, <5>8
      <4> QED
        BY <4>4, <4>5
    <3>5. Vertices' = Vertices /\ Edges' = Edges
      BY <1>1 DEF Vertices, Edges
    <3> QED
      BY <3>3, <3>4, <3>5 DEF Chained, ListsAreChains
  <2>6. ASSUME NEW x \in Workers \ {w}
        PROVE  Knows(x)'
    <3>1. /\ Knows(x) /\ pc'[x] = pc[x] /\ cur'[x] = cur[x] /\ idx'[x] = idx[x]
          /\ \A v : Listed(v) \subseteq Listed(v)'
      BY <1>1, <2>2 DEF WorkersKnow
    <3>2. ASSUME pc[x] \in {"head cas", "head", "tail cas", "tail"}
          PROVE  second'[cur[x]] = second[cur[x]]
      <4>1. cur[x] \in Edges /\ \A v : cur[x] \notin Listed(v)
        BY <1>1, <1>2, <3>2, CurrentIsPending
      <4> QED
        BY <1>2, <2>3, <4>1
    <3>3. pc[x] = "tail" => second'[idx[x]] # INVALID
      <4>1. pc[x] = "tail" => idx[x] \in Edges /\ second[idx[x]] # INVALID
        BY <3>1, ListedAreEdges DEF Knows
      <4> QED
        BY <1>3, <2>3, <4>1
    <3>4. pc[x] = "head" => V2E'[Source(cur[x])] # INVALID
      BY <1>1, <3>1 DEF Knows
    <3> QED
      BY <1>1, <1>2, <3>1, <3>2, <3>3, <3>4, StillKnows
  <2> QED
    BY <2>2, <2>4, <2>5, <2>6 DEF BuildInv, WorkersKnow
<1>5. CASE second[i] # INVALID
  <2>1. With(w, i, "tail") /\ UNCHANGED second
    BY <1>5 DEF TailCas, Goto
  <2>2. /\ WorkersApart' /\ \A x : (Entered(x)' <=> Entered(x)) /\ (Searched(x)' <=> Searched(x))
        /\ \A v : Listed(v)' = Listed(v)
    BY <1>1, <2>1, StayingKeeps
  <2>3. cur' = cur /\ idx' = idx /\ pc' = [pc EXCEPT ![w] = "tail"]
    BY <1>1, <2>1 DEF With
  <2>4. TypeOK'
    BY <1>1, <2>1, <2>3 DEF TypeOK, Pcs, Edges, Vertices, Faces
  <2>5. Knows(w)'
    <3>1. pc'[w] = "tail" /\ Source(e)' = s /\ idx'[w] \in Listed(s)'
      BY <1>0, <1>1, <1>2, <2>2, <2>3 DEF Source
    <3> QED
      BY <1>0, <1>1, <1>2, <1>5, <2>1, <2>3, <3>1 DEF Knows, Target, OutOfBounds, Vertices, Source
  <2>6. ASSUME NEW x \in Workers \ {w}
        PROVE  Knows(x)'
    <3>1. /\ Knows(x) /\ pc'[x] = pc[x] /\ cur'[x] = cur[x] /\ idx'[x] = idx[x]
          /\ pc[x] = "head" => V2E'[Source(cur[x])] # INVALID
          /\ pc[x] = "tail" => second'[idx[x]] # INVALID
      BY <1>1, <2>1, <2>3 DEF WorkersKnow, Knows
    <3> QED
      BY <1>1, <1>2, <2>1, <2>2, <3>1, StillKnows
  <2>7. ListsAreChains'
    BY <1>1, <2>1, <2>2, ChainsStay
  <2>8. EntriesAreSound'
    BY <1>1, <2>2 DEF EntriesAreSound, Source, Target, OutOfBounds, Vertices, Edges
  <2> QED
    BY <1>1, <2>2, <2>4, <2>5, <2>6, <2>7, <2>8, SearchStays DEF BuildInv, WorkersKnow
<1> QED
  BY <1>4, <1>5

-----------------------------------------------------------------------------
(* The walks.                                                              *)

(* A set of numbers with 0 and every successor has all of them. *)
LEMMA SetInduction ==
    ASSUME NEW S, 0 \in S, \A n \in Nat : n \in S => n + 1 \in S
    PROVE  \A n \in Nat : n \in S
<1> DEFINE R == Nat \ S
<1> SUFFICES ASSUME R # {} PROVE FALSE
  OBVIOUS
<1>1. \E x \in R : \A y \in R : ~(<<y, x>> \in OpToRel(<, Nat))
  BY NatLessThanWellFounded, WFMin, Zenon
<1>2. PICK x \in R : \A y \in R : ~(<<y, x>> \in OpToRel(<, Nat))
  BY <1>1
<1>3. x \in Nat /\ x # 0
  BY <1>2
<1>4. x - 1 \in Nat /\ x - 1 < x /\ (x - 1) + 1 = x
  BY <1>3
<1>5. x - 1 \in R
  BY <1>2, <1>4
<1>6. <<x - 1, x>> \in OpToRel(<, Nat)
  BY <1>3, <1>4, <<x - 1, x>> \in Nat \X Nat DEF OpToRel
<1> QED
  BY <1>2, <1>5, <1>6

(* The walks of a length through S, from a with the steps h. *)
Walks(S, a, h, size) == {f \in [0 .. size -> S] : f[0] = a /\ \A n \in 1 .. size : f[n] = h[f[n - 1]]}

(* A walk of any length can be taken. *)
LEMMA WalkExists ==
    ASSUME NEW S, NEW a \in S, NEW h \in [S -> S], NEW size \in Nat
    PROVE  \E f : f \in Walks(S, a, h, size)
<1> DEFINE I == {m \in Nat : \E f \in [0 .. m -> S] : f[0] = a /\ \A n \in 1 .. m : f[n] = h[f[n - 1]]}
<1>1. 0 \in I
  <2> DEFINE f == [n \in 0 .. 0 |-> a]
  <2>1. f \in [0 .. 0 -> S] /\ f[0] = a /\ \A n \in 1 .. 0 : f[n] = h[f[n - 1]]
    OBVIOUS
  <2> QED
    BY <2>1
<1>2. ASSUME NEW m \in Nat, m \in I
      PROVE  m + 1 \in I
  <2>1. PICK f \in [0 .. m -> S] : f[0] = a /\ \A n \in 1 .. m : f[n] = h[f[n - 1]]
    BY <1>2
  <2> DEFINE g == [n \in 0 .. m + 1 |-> IF n = m + 1 THEN h[f[m]] ELSE f[n]]
  <2>2. f[m] \in S /\ h[f[m]] \in S
    BY <2>1
  <2>3. \A n \in 0 .. m + 1 : n # m + 1 => n \in 0 .. m
    OBVIOUS
  <2>4. g \in [0 .. m + 1 -> S]
    BY <2>1, <2>2, <2>3
  <2>5. g[0] = a
    BY <2>1
  <2>6. ASSUME NEW n \in 1 .. m + 1
        PROVE  g[n] = h[g[n - 1]]
    <3>1. n - 1 \in 0 .. m /\ g[n - 1] = f[n - 1]
      OBVIOUS
    <3>2. CASE n = m + 1
      BY <3>1, <3>2
    <3>3. CASE n # m + 1
      <4>1. n \in 1 .. m /\ g[n] = f[n]
        BY <3>3
      <4> QED
        BY <2>1, <3>1, <4>1
    <3> QED
      BY <3>2, <3>3
  <2> HIDE DEF g
  <2> QED
    BY <2>4, <2>5, <2>6
<1> HIDE DEF I
<1>3. size \in I
  BY <1>1, <1>2, SetInduction
<1> QED
  BY <1>3 DEF I, Walks

(* The entries that are found in the list of v are those that are listed. *)
LEMMA ListIsListed ==
    ASSUME TypeOK, NEW v \in Vertices, NEW rank \in [Edges -> Nat], Chained(rank)
    PROVE  ListOf(v) = Listed(v)
<1> DEFINE size == Cardinality(Edges)
           S == Edges \cup {INVALID}
           h == [x \in S |-> IF x = INVALID THEN INVALID ELSE second[x]]
           walk == CHOOSE g : g = [n \in 0 .. Cardinality(Edges) |->
                       IF n = 0 THEN V2E[v]
                       ELSE LET it == g[n - 1] IN IF it = INVALID THEN INVALID ELSE second[it]]
<1>1. /\ F \in Meshes /\ V2E[v] \in S /\ second \in [Edges -> S]
  BY DEF TypeOK
<1>2. IsFiniteSet(Edges) /\ \A e \in Edges : e \in Nat
  BY <1>1, EdgesAreCorners
<1>3. size \in Nat
  BY <1>2, FS_CardinalityType
<1>4. /\ V2E[v] = INVALID => Listed(v) = {}
      /\ V2E[v] # INVALID => V2E[v] \in Listed(v) /\ rank[V2E[v]] = 0
      /\ \A e \in Listed(v) :
           /\ rank[e] < Cardinality(Listed(v))
           /\ second[e] # INVALID => second[e] \in Listed(v) /\ rank[second[e]] = rank[e] + 1
           /\ e # V2E[v] => \E x \in Listed(v) : second[x] = e
  BY DEF Chained
<1>5. h \in [S -> S]
  BY <1>1
<1>6. PICK f : f \in Walks(S, V2E[v], h, size)
  <2> HIDE DEF S, h, size
  <2> QED
    BY <1>1, <1>3, <1>5, WalkExists
<1>7. f = [n \in 0 .. Cardinality(Edges) |->
              IF n = 0 THEN V2E[v]
              ELSE LET it == f[n - 1] IN IF it = INVALID THEN INVALID ELSE second[it]]
  <2>1. ASSUME NEW n \in 0 .. size
        PROVE  f[n] = IF n = 0 THEN V2E[v] ELSE IF f[n - 1] = INVALID THEN INVALID ELSE second[f[n - 1]]
    <3>1. CASE n = 0
      BY <1>6, <3>1 DEF Walks
    <3>2. CASE n # 0
      <4>1. n \in 1 .. size /\ n - 1 \in 0 .. size
        BY <1>3, <3>2
      <4>2. f[n] = h[f[n - 1]] /\ f[n - 1] \in S
        BY <1>6, <4>1 DEF Walks
      <4> QED
        BY <3>2, <4>2
    <3> QED
      BY <3>1, <3>2
  <2> QED
    BY <1>6, <2>1 DEF Walks
<1>8. walk = [n \in 0 .. Cardinality(Edges) |->
              IF n = 0 THEN V2E[v]
              ELSE LET it == walk[n - 1] IN IF it = INVALID THEN INVALID ELSE second[it]]
  BY <1>7
<1>9. ListOf(v) = {walk[n] : n \in 0 .. size} \ {INVALID}
  BY DEF ListOf
<1> HIDE DEF walk
<1>10. walk[0] = V2E[v]
  BY <1>3, <1>8
<1>11. ASSUME NEW n \in Nat, n + 1 \in 0 .. size
       PROVE  walk[n + 1] = IF walk[n] = INVALID THEN INVALID ELSE second[walk[n]]
  <2>1. (n + 1) - 1 = n /\ n + 1 # 0
    BY <1>11
  <2> QED
    BY <1>8, <1>11, <2>1
<1>12. ASSUME NEW n \in 0 .. size
       PROVE  walk[n] \in Listed(v) \cup {INVALID}
  <2> DEFINE I == {m \in Nat : m \in 0 .. size => walk[m] \in Listed(v) \cup {INVALID}}
  <2>1. 0 \in I
    BY <1>4, <1>10
  <2>2. ASSUME NEW m \in Nat, m \in I
        PROVE  m + 1 \in I
    <3> SUFFICES ASSUME m + 1 \in 0 .. size PROVE walk[m + 1] \in Listed(v) \cup {INVALID}
      OBVIOUS
    <3>1. m \in 0 .. size
      BY <1>3
    <3>2. walk[m] \in Listed(v) \cup {INVALID}
      BY <2>2, <3>1
    <3>3. walk[m + 1] = IF walk[m] = INVALID THEN INVALID ELSE second[walk[m]]
      BY <1>11
    <3> QED
      BY <1>4, <3>2, <3>3
  <2> HIDE DEF I
  <2>3. n \in I
    BY <1>3, <2>1, <2>2, SetInduction
  <2> QED
    BY <2>3 DEF I
<1>13. ASSUME NEW e \in Listed(v)
       PROVE  rank[e] \in 0 .. size /\ walk[rank[e]] = e
  <2> DEFINE I == {m \in Nat : \A x \in Listed(v) : rank[x] = m => m \in 0 .. size /\ walk[m] = x}
  <2>1. Listed(v) \subseteq Edges /\ Cardinality(Listed(v)) <= size /\ Cardinality(Listed(v)) \in Nat
    BY <1>2, ListedAreEdges, FS_Subset, FS_CardinalityType
  <2>2. \A x \in Listed(v) : rank[x] \in 0 .. size
    BY <1>3, <1>4, <2>1
  <2>3. \A x \in Listed(v) : x = V2E[v] \/ \E y \in Listed(v) : second[y] = x /\ rank[x] = rank[y] + 1
    <3>1. INVALID \notin Listed(v)
      BY <1>2, <2>1, InvalidAssumption
    <3> QED
      BY <1>4, <3>1
  <2>4. 0 \in I
    <3>1. ASSUME NEW x \in Listed(v), rank[x] = 0
          PROVE  x = V2E[v]
      BY <2>1, <2>2, <2>3, <3>1
    <3> QED
      BY <1>3, <1>10, <3>1
  <2>5. ASSUME NEW m \in Nat, m \in I
        PROVE  m + 1 \in I
    <3> SUFFICES ASSUME NEW x \in Listed(v), rank[x] = m + 1
                 PROVE  m + 1 \in 0 .. size /\ walk[m + 1] = x
      OBVIOUS
    <3>1. m + 1 \in 0 .. size
      BY <2>2
    <3>2. x # V2E[v]
      BY <1>4
    <3>3. PICK y \in Listed(v) : second[y] = x /\ rank[x] = rank[y] + 1
      BY <2>3, <3>2
    <3>4. rank[y] = m
      BY <2>2, <3>3
    <3>5. walk[m] = y /\ y # INVALID
      BY <1>2, <2>1, <2>5, <3>4, InvalidAssumption
    <3> QED
      BY <1>11, <3>1, <3>3, <3>5
  <2> HIDE DEF I
  <2>6. rank[e] \in I
    BY <2>1, <2>4, <2>5, SetInduction
  <2> QED
    BY <2>6 DEF I
<1>14. INVALID \notin Listed(v)
  BY <1>2, ListedAreEdges, InvalidAssumption
<1> QED
  BY <1>9, <1>12, <1>13, <1>14

-----------------------------------------------------------------------------
(* The search.                                                             *)

(* A set without a second element. *)
LEMMA SingleElement ==
    ASSUME NEW S, IsFiniteSet(S), NEW x \in S, ~(Cardinality(S) > 1)
    PROVE  S = {x}
<1>1. /\ IsFiniteSet(S \ {x}) /\ Cardinality(S \ {x}) = Cardinality(S) - 1
      /\ Cardinality(S) \in Nat /\ Cardinality(S \ {x}) \in Nat
  BY FS_RemoveElement, FS_CardinalityType
<1>2. Cardinality(S \ {x}) = 0
  BY <1>1
<1>3. S \ {x} = {}
  BY <1>1, <1>2, FS_EmptySet
<1> QED
  BY <1>3

(* What the search finds are the reverse edges. *)
LEMMA OppositesAreReverse ==
    ASSUME BuildInv, pass = "search", NEW e \in ProperEdges(F)
    PROVE  Opposites(e) = ReverseIn(F, e)
<1>1. TypeOK /\ ListsAreChains /\ EntriesAreSound
  BY DEF BuildInv
<1>2. e \in Edges /\ Target(e) \in Vertices
  BY <1>1 DEF EntriesAreSound, Entered, OutOfBounds, ProperEdges, Edges
<1>3. PICK rank \in [Edges -> Nat] : Chained(rank)
  BY <1>1 DEF ListsAreChains
<1>4. ListOf(Target(e)) = Listed(Target(e))
  BY <1>1, <1>2, <1>3, ListIsListed
<1>5. Listed(Target(e)) = OutgoingIn(F, Target(e))
  BY DEF Listed, Entered
<1>6. \A x \in OutgoingIn(F, Target(e)) : first[x] = Target(x)
  BY <1>1 DEF EntriesAreSound, Entered, OutgoingIn
<1> QED
  BY <1>4, <1>5, <1>6 DEF Opposites, ReverseIn, Source, Target

(* Reverse edges are edges, finitely many, and reverse the other way, too. *)
LEMMA ReverseIsMutual ==
    ASSUME F \in Meshes, NEW e \in ProperEdges(F)
    PROVE  /\ ReverseIn(F, e) \subseteq ProperEdges(F) /\ ProperEdges(F) \subseteq Edges
           /\ IsFiniteSet(ReverseIn(F, e))
           /\ \A x \in ReverseIn(F, e) : e \in ReverseIn(F, x) /\ x # e
<1>1. ReverseIn(F, e) \subseteq ProperEdges(F) /\ ProperEdges(F) \subseteq Edges
  BY DEF ReverseIn, OutgoingIn, ProperEdges, Edges
<1>2. IsFiniteSet(ReverseIn(F, e))
  BY <1>1, EdgesAreCorners, FS_Subset
<1>3. \A x \in ReverseIn(F, e) : e \in ReverseIn(F, x) /\ x # e
  BY DEF ReverseIn, OutgoingIn, ProperEdges
<1> QED
  BY <1>1, <1>2, <1>3

(* Nothing is inserted any more. *)
LEMMA SearchKeepsLists ==
    ASSUME BuildInv, pass \in {"search", "turn"}, UNCHANGED <<F, V2E, first, second, pass, thrown>>
    PROVE  ListsAreChains' /\ EntriesAreSound'
<1>1. \A v : Listed(v)' = Listed(v)
  BY DEF Listed, Entered
<1>2. ListsAreChains'
  BY <1>1, ChainsStay DEF BuildInv
<1>3. EntriesAreSound'
  BY DEF BuildInv, EntriesAreSound, Entered, Source, Target, OutOfBounds, Vertices, Edges
<1> QED
  BY <1>2, <1>3

(* While opposites are searched, a worker still knows what it knew if no   *)
(* link is taken back.                                                     *)
LEMMA SearcherStillKnows ==
    ASSUME pass = "search", NEW x \in Workers, Knows(x), UNCHANGED <<F, pass, thrown>>,
           pc'[x] = pc[x], cur'[x] = cur[x], idx'[x] = idx[x],
           pc[x] = "link back" => E2E'[cur[x]] # INVALID
    PROVE  Knows(x)'
<1>1. pc[x] \notin {"head cas", "head", "tail cas", "tail"}
  BY DEF Knows
<1> QED
  BY <1>1 DEF Knows

(* An edge with several opposites is to be marked, one with a single,      *)
(* larger one is to be linked, and the others are passed.                  *)
LEMMA SearchKeeps ==
    ASSUME BuildInv, NEW w \in Workers, Search(w)
    PROVE  BuildInv'
<1> DEFINE e == cur[w]
<1>1. /\ TypeOK /\ WorkersApart /\ WorkersKnow
      /\ SearchIsSound /\ SearchIsComplete
      /\ F \in Meshes /\ pass = "search" /\ pc[w] = "edge" /\ pc[w] # "idle"
      /\ pc \in [Workers -> Pcs] /\ cur \in [Workers -> Edges \cup {0}] /\ idx \in [Workers -> Edges \cup {INVALID}]
      /\ UNCHANGED <<F, V2E, first, second, E2E, nonManifold, boundary, pass, todo, thrown>>
  BY DEF BuildInv, TypeOK, Search, result, lists
<1>2. e \in Edges
  BY <1>1, CurrentIsPending
<1>3. ListsAreChains' /\ EntriesAreSound'
  BY <1>1, SearchKeepsLists
<1>4. Degenerate(e) <=> e \notin ProperEdges(F)
  BY <1>2 DEF Degenerate, ProperEdges, Source, Target, Edges
<1>5. ~Degenerate(e) => Opposites(e) = ReverseIn(F, e)
  BY <1>1, <1>4, OppositesAreReverse
<1>6. ASSUME NEW place \in Edges \cup {INVALID}, NEW where \in Pcs, where # "idle", With(w, place, where),
             (Knows(w))'
      PROVE  BuildInv'
  <2>1. /\ WorkersApart' /\ \A x : (Entered(x)' <=> Entered(x)) /\ (Searched(x)' <=> Searched(x))
    BY <1>1, <1>6, StayingKeeps
  <2>2. cur' = cur /\ idx' = [idx EXCEPT ![w] = place] /\ pc' = [pc EXCEPT ![w] = where]
    BY <1>1, <1>6 DEF With
  <2>3. TypeOK'
    BY <1>1, <2>2 DEF TypeOK, Edges, Vertices, Faces
  <2>4. ASSUME NEW x \in Workers \ {w}
        PROVE  Knows(x)'
    <3>1. /\ Knows(x) /\ pc'[x] = pc[x] /\ cur'[x] = cur[x] /\ idx'[x] = idx[x]
          /\ pc[x] = "link back" => E2E'[cur[x]] # INVALID
      BY <1>1, <2>2 DEF WorkersKnow, Knows
    <3> QED
      BY <1>1, <3>1, SearcherStillKnows
  <2> QED
    BY <1>1, <1>3, <1>6, <2>1, <2>3, <2>4, SearchStays DEF BuildInv, WorkersKnow
<1>7. CASE ~Degenerate(e) /\ Cardinality(Opposites(e)) > 1
  <2>1. With(w, idx[w], "flag")
    BY <1>7 DEF Search, Goto
  <2>2. pc'[w] = "flag" /\ cur'[w] = e
    BY <1>1, <2>1 DEF With
  <2>3. (Knows(w))'
    BY <1>1, <1>4, <1>5, <1>7, <2>2 DEF Knows
  <2> QED
    BY <1>1, <1>6, <2>1, <2>3 DEF Pcs
<1>8. CASE ~Degenerate(e) /\ ~(Cardinality(Opposites(e)) > 1) /\ \E x \in Opposites(e) : e < x
  <2>1. PICK x \in Opposites(e) : With(w, x, "link")
    BY <1>8 DEF Search
  <2>2. x \in ReverseIn(F, e) /\ IsFiniteSet(ReverseIn(F, e)) /\ ReverseIn(F, e) \subseteq Edges
    BY <1>1, <1>4, <1>5, <1>8, <2>1, ReverseIsMutual
  <2>3. ReverseIn(F, e) = {x}
    BY <1>5, <1>8, <2>2, SingleElement
  <2>4. e < x
    BY <1>5, <1>8, <2>3
  <2>5. pc'[w] = "link" /\ cur'[w] = e /\ idx'[w] = x
    BY <1>1, <2>1 DEF With
  <2>6. (Knows(w))'
    BY <1>1, <1>4, <1>8, <2>3, <2>4, <2>5 DEF Knows
  <2> QED
    BY <1>1, <1>6, <2>1, <2>2, <2>6 DEF Pcs
<1>9. CASE \/ Degenerate(e)
           \/ ~(Cardinality(Opposites(e)) > 1) /\ ~\E x \in Opposites(e) : e < x
  <2>1. Advance(w)
    BY <1>9 DEF Search
  <2>2. /\ WorkersApart'
        /\ \A x \in Edges : Searched(x)' <=> Searched(x) \/ x = e
    BY <1>1, <2>1, AdvancePasses
  <2>3. /\ \A x \in Workers \ {w} : pc'[x] = pc[x] /\ cur'[x] = cur[x] /\ idx'[x] = idx[x]
        /\ pc'[w] \in {"idle", "edge"}
        /\ pc' \in [Workers -> Pcs] /\ idx' \in [Workers -> Edges \cup {INVALID}]
    BY <1>1, <2>1 DEF Advance, Pcs
  <2>4. cur' \in [Workers -> Edges \cup {0}]
    BY <1>1, <2>1, <2>2 DEF Advance, WorkersApart, Edges
  <2>5. TypeOK'
    BY <1>1, <2>3, <2>4 DEF TypeOK, Edges, Vertices, Faces
  <2>6. Knows(w)'
    BY <1>1, <2>3 DEF Knows
  <2>7. ASSUME NEW x \in Workers \ {w}
        PROVE  Knows(x)'
    <3>1. Knows(x) /\ (pc[x] = "link back" => E2E'[cur[x]] # INVALID)
      BY <1>1 DEF WorkersKnow, Knows
    <3> QED
      BY <1>1, <2>3, <3>1, SearcherStillKnows
  <2>8. SearchIsSound'
    BY <1>1 DEF SearchIsSound, Vertices, Edges
  <2>9. SearchIsComplete'
    <3>1. ProperEdges(F) \subseteq Edges
      BY DEF ProperEdges, Edges
    <3>2. ASSUME NEW y \in ProperEdges(F), Searched(y)'
          PROVE  /\ Cardinality(ReverseIn(F, y)) > 1 => nonManifold[Source(y)] /\ nonManifold[Target(y)]
                 /\ \A x \in Edges : ReverseIn(F, y) = {x} /\ y < x => E2E[y] # INVALID /\ E2E[x] # INVALID
      <4>1. CASE Searched(y)
        BY <1>1, <4>1 DEF SearchIsComplete
      <4>2. CASE y = e
        BY <1>4, <1>5, <1>9, <4>2
      <4> QED
        BY <2>2, <3>1, <3>2, <4>1, <4>2
    <3> QED
      BY <1>1, <3>2 DEF SearchIsComplete, Source, Target, Edges
  <2> QED
    BY <1>3, <2>2, <2>5, <2>6, <2>7, <2>8, <2>9 DEF BuildInv, WorkersKnow
<1> QED
  BY <1>7, <1>8, <1>9

(* What is common to the two ways to pass an edge that had opposites.      *)
LEMMA FoundPasses ==
    ASSUME BuildInv, NEW w \in Workers, pc[w] \in {"flag", "link back"}, Advance(w),
           UNCHANGED <<F, lists, boundary, pass, todo, thrown>>
    PROVE  /\ WorkersApart' /\ ListsAreChains' /\ EntriesAreSound' /\ Knows(w)'
           /\ \A x \in Edges : Searched(x)' <=> Searched(x) \/ x = cur[w]
           /\ \A x \in Workers \ {w} : pc'[x] = pc[x] /\ cur'[x] = cur[x] /\ idx'[x] = idx[x]
           /\ E2E' \in [Edges -> Edges \cup {INVALID}] /\ nonManifold' \in [Vertices -> BOOLEAN] => TypeOK'
<1>1. /\ TypeOK /\ WorkersApart /\ WorkersKnow /\ F \in Meshes /\ pc[w] # "idle"
      /\ pc \in [Workers -> Pcs] /\ cur \in [Workers -> Edges \cup {0}] /\ idx \in [Workers -> Edges \cup {INVALID}]
      /\ UNCHANGED <<F, V2E, first, second, boundary, pass, todo, thrown>>
  BY DEF BuildInv, TypeOK, lists
<1>2. pass = "search"
  BY <1>1 DEF WorkersKnow, Knows
<1>3. ListsAreChains' /\ EntriesAreSound'
  BY <1>1, <1>2, SearchKeepsLists
<1>4. /\ WorkersApart'
      /\ \A x \in Edges : Searched(x)' <=> Searched(x) \/ x = cur[w]
  BY <1>1, AdvancePasses
<1>5. /\ \A x \in Workers \ {w} : pc'[x] = pc[x] /\ cur'[x] = cur[x] /\ idx'[x] = idx[x]
      /\ pc'[w] \in {"idle", "edge"}
      /\ pc' \in [Workers -> Pcs] /\ idx' \in [Workers -> Edges \cup {INVALID}]
  BY <1>1 DEF Advance, Pcs
<1>6. cur' \in [Workers -> Edges \cup {0}]
  BY <1>1, <1>4 DEF Advance, WorkersApart, Edges
<1>7. Knows(w)'
  BY <1>1, <1>2, <1>5 DEF Knows
<1>8. ASSUME E2E' \in [Edges -> Edges \cup {INVALID}], nonManifold' \in [Vertices -> BOOLEAN]
      PROVE  TypeOK'
  BY <1>1, <1>5, <1>6, <1>8 DEF TypeOK, Edges, Vertices, Faces
<1> QED
  BY <1>3, <1>4, <1>5, <1>7, <1>8

(* Both ends of an edge with several opposites are marked. *)
LEMMA FlagKeeps ==
    ASSUME BuildInv, NEW w \in Workers, Flag(w)
    PROVE  BuildInv'
<1> DEFINE e == cur[w]
<1>1. /\ TypeOK /\ WorkersApart /\ WorkersKnow /\ SearchIsSound /\ SearchIsComplete
      /\ F \in Meshes /\ pc[w] = "flag" /\ pc[w] # "idle"
      /\ E2E \in [Edges -> Edges \cup {INVALID}] /\ nonManifold \in [Vertices -> BOOLEAN]
      /\ UNCHANGED <<F, lists, boundary, pass, todo, thrown>> /\ UNCHANGED <<F, E2E, pass, thrown>>
      /\ Advance(w)
      /\ nonManifold' = [nonManifold EXCEPT ![Source(e)] = TRUE, ![Target(e)] = TRUE]
  BY DEF BuildInv, TypeOK, Flag
<1>2. pass = "search" /\ e \in ProperEdges(F) /\ Cardinality(ReverseIn(F, e)) > 1
  BY <1>1 DEF WorkersKnow, Knows
<1>3. /\ WorkersApart' /\ ListsAreChains' /\ EntriesAreSound' /\ Knows(w)'
      /\ \A x \in Edges : Searched(x)' <=> Searched(x) \/ x = e
      /\ \A x \in Workers \ {w} : pc'[x] = pc[x] /\ cur'[x] = cur[x] /\ idx'[x] = idx[x]
      /\ E2E' \in [Edges -> Edges \cup {INVALID}] /\ nonManifold' \in [Vertices -> BOOLEAN] => TypeOK'
  BY <1>1, FoundPasses
<1>4. /\ nonManifold' \in [Vertices -> BOOLEAN]
      /\ \A v \in Vertices : nonManifold'[v] <=> nonManifold[v] \/ v = Source(e) \/ v = Target(e)
  BY <1>1
<1>5. TypeOK'
  BY <1>1, <1>3, <1>4
<1>6. ASSUME NEW x \in Workers \ {w}
      PROVE  Knows(x)'
  <2>1. Knows(x) /\ (pc[x] = "link back" => E2E'[cur[x]] # INVALID)
    BY <1>1 DEF WorkersKnow, Knows
  <2> QED
    BY <1>1, <1>2, <1>3, <2>1, SearcherStillKnows
<1>7. Source(e) \in NonManifoldIn(F) /\ Target(e) \in NonManifoldIn(F)
  BY <1>2 DEF NonManifoldIn, Source, Target
<1>8. SearchIsSound'
  BY <1>1, <1>4, <1>7 DEF SearchIsSound, Vertices, Edges
<1>9. SearchIsComplete'
  <2>1. ProperEdges(F) \subseteq Edges
    BY DEF ProperEdges, Edges
  <2>2. ASSUME NEW y \in ProperEdges(F), Searched(y)'
        PROVE  /\ Cardinality(ReverseIn(F, y)) > 1 => nonManifold'[Source(y)] /\ nonManifold'[Target(y)]
               /\ \A x \in Edges : ReverseIn(F, y) = {x} /\ y < x => E2E[y] # INVALID /\ E2E[x] # INVALID
    <3>0. y \in Edges => Source(y) \in Vertices /\ Target(y) \in Vertices
      BY <1>2 DEF BuildInv, EntriesAreSound, Entered, OutOfBounds
    <3>1. CASE Searched(y)
      BY <1>1, <1>2, <1>4, <2>1, <3>0, <3>1 DEF SearchIsComplete
    <3>2. CASE y = e
      <4>1. nonManifold'[Source(y)] /\ nonManifold'[Target(y)]
        BY <1>4, <2>1, <3>0, <3>2
      <4>2. \A x : ReverseIn(F, y) # {x}
        <5>1. ASSUME NEW x, ReverseIn(F, y) = {x}
              PROVE  FALSE
          <6>1. Cardinality({x}) = 1
            BY FS_Singleton
          <6> QED
            BY <1>2, <3>2, <5>1, <6>1
        <5> QED
          BY <5>1
      <4> QED
        BY <4>1, <4>2
    <3> QED
      BY <1>3, <2>1, <2>2, <3>1, <3>2
  <2> QED
    BY <1>1, <2>2 DEF SearchIsComplete, Source, Target, Edges
<1> QED
  BY <1>3, <1>5, <1>6, <1>8, <1>9 DEF BuildInv, WorkersKnow

(* The smaller edge is linked with its only opposite. *)
LEMMA LinkKeeps ==
    ASSUME BuildInv, NEW w \in Workers, Link(w)
    PROVE  BuildInv'
<1> DEFINE e == cur[w]
           i == idx[w]
<1>1. /\ TypeOK /\ WorkersApart /\ WorkersKnow /\ SearchIsSound /\ SearchIsComplete
      /\ F \in Meshes /\ pc[w] = "link" /\ pc[w] # "idle"
      /\ pc \in [Workers -> Pcs] /\ cur \in [Workers -> Edges \cup {0}] /\ idx \in [Workers -> Edges \cup {INVALID}]
      /\ E2E \in [Edges -> Edges \cup {INVALID}]
      /\ UNCHANGED <<F, V2E, first, second, nonManifold, boundary, pass, todo, thrown>>
      /\ E2E' = [E2E EXCEPT ![e] = i]
      /\ With(w, i, "link back")
  BY DEF BuildInv, TypeOK, Link, Goto, lists
<1>2. pass = "search" /\ e \in ProperEdges(F) /\ ReverseIn(F, e) = {i} /\ e < i
  BY <1>1 DEF WorkersKnow, Knows
<1>3. /\ e \in Edges /\ i \in Edges /\ i # INVALID
  BY <1>1, <1>2, ReverseIsMutual, EdgesAreCorners, InvalidAssumption
<1>4. /\ WorkersApart' /\ \A x : Searched(x)' <=> Searched(x)
  BY <1>1, StayingKeeps
<1>5. ListsAreChains' /\ EntriesAreSound'
  BY <1>1, <1>2, SearchKeepsLists
<1>6. cur' = cur /\ idx' = idx /\ pc' = [pc EXCEPT ![w] = "link back"]
  BY <1>1 DEF With
<1>7. /\ E2E' \in [Edges -> Edges \cup {INVALID}] /\ E2E'[e] = i
      /\ \A x \in Edges \ {e} : E2E'[x] = E2E[x]
  BY <1>1, <1>3
<1>8. TypeOK'
  BY <1>1, <1>6, <1>7 DEF TypeOK, Pcs, Edges, Vertices, Faces
<1>9. Knows(w)'
  <2>1. pc'[w] = "link back"
    BY <1>1, <1>6
  <2> QED
    BY <1>1, <1>2, <1>3, <1>6, <1>7, <2>1 DEF Knows
<1>10. ASSUME NEW x \in Workers \ {w}
       PROVE  Knows(x)'
  <2>1. Knows(x) /\ pc'[x] = pc[x] /\ cur'[x] = cur[x] /\ idx'[x] = idx[x]
    BY <1>1, <1>6 DEF WorkersKnow
  <2>2. pc[x] = "link back" => E2E'[cur[x]] # INVALID
    <3>1. pc[x] = "link back" => cur[x] \in Edges /\ E2E[cur[x]] # INVALID
      BY <1>1, <2>1, CurrentIsPending DEF Knows
    <3> QED
      BY <1>3, <1>7, <3>1
  <2> QED
    BY <1>1, <1>2, <2>1, <2>2, SearcherStillKnows
<1>11. SearchIsSound'
  <2>1. i \in Linkers(F, e)
    BY <1>2 DEF Linkers
  <2> QED
    BY <1>1, <1>7, <2>1 DEF SearchIsSound, Vertices, Edges
<1>12. SearchIsComplete'
  <2>1. ProperEdges(F) \subseteq Edges
    BY DEF ProperEdges, Edges
  <2>2. \A x \in Edges : E2E[x] # INVALID => E2E'[x] # INVALID
    BY <1>3, <1>7
  <2> QED
    BY <1>1, <1>2, <1>4, <2>1, <2>2 DEF SearchIsComplete, Source, Target, Edges
<1> QED
  BY <1>4, <1>5, <1>8, <1>9, <1>10, <1>11, <1>12 DEF BuildInv, WorkersKnow

(* The opposite is linked with the smaller edge. *)
LEMMA LinkBackKeeps ==
    ASSUME BuildInv, NEW w \in Workers, LinkBack(w)
    PROVE  BuildInv'
<1> DEFINE e == cur[w]
           i == idx[w]
<1>1. /\ TypeOK /\ WorkersApart /\ WorkersKnow /\ SearchIsSound /\ SearchIsComplete
      /\ F \in Meshes /\ pc[w] = "link back" /\ pc[w] # "idle"
      /\ E2E \in [Edges -> Edges \cup {INVALID}] /\ nonManifold \in [Vertices -> BOOLEAN]
      /\ UNCHANGED <<F, lists, boundary, pass, todo, thrown>> /\ UNCHANGED <<F, nonManifold, pass, thrown>>
      /\ Advance(w)
      /\ E2E' = [E2E EXCEPT ![i] = e]
  BY DEF BuildInv, TypeOK, LinkBack
<1>2. /\ pass = "search" /\ e \in ProperEdges(F) /\ ReverseIn(F, e) = {i} /\ e < i
      /\ E2E[e] # INVALID
  BY <1>1 DEF WorkersKnow, Knows
<1>3. /\ e \in Edges /\ i \in Edges /\ i \in ProperEdges(F) /\ e # INVALID /\ e \in ReverseIn(F, i)
  BY <1>1, <1>2, ReverseIsMutual, EdgesAreCorners, InvalidAssumption
<1>4. /\ WorkersApart' /\ ListsAreChains' /\ EntriesAreSound' /\ Knows(w)'
      /\ \A x \in Edges : Searched(x)' <=> Searched(x) \/ x = e
      /\ \A x \in Workers \ {w} : pc'[x] = pc[x] /\ cur'[x] = cur[x] /\ idx'[x] = idx[x]
      /\ E2E' \in [Edges -> Edges \cup {INVALID}] /\ nonManifold' \in [Vertices -> BOOLEAN] => TypeOK'
  BY <1>1, FoundPasses
<1>5. /\ E2E' \in [Edges -> Edges \cup {INVALID}] /\ E2E'[i] = e
      /\ \A x \in Edges \ {i} : E2E'[x] = E2E[x]
  BY <1>1, <1>3
<1>6. \A x \in Edges : E2E[x] # INVALID => E2E'[x] # INVALID
  BY <1>3, <1>5
<1>7. TypeOK'
  BY <1>1, <1>4, <1>5
<1>8. ASSUME NEW x \in Workers \ {w}
      PROVE  Knows(x)'
  <2>1. Knows(x)
    BY <1>1 DEF WorkersKnow
  <2>2. pc[x] = "link back" => E2E'[cur[x]] # INVALID
    <3>1. pc[x] = "link back" => cur[x] \in Edges /\ E2E[cur[x]] # INVALID
      BY <1>1, <2>1, CurrentIsPending DEF Knows
    <3> QED
      BY <1>6, <3>1
  <2> QED
    BY <1>1, <1>2, <1>4, <2>1, <2>2, SearcherStillKnows
<1>9. SearchIsSound'
  <2>1. e \in Linkers(F, i)
    BY <1>2, <1>3 DEF Linkers
  <2> QED
    BY <1>1, <1>5, <2>1 DEF SearchIsSound, Vertices, Edges
<1>10. SearchIsComplete'
  <2>1. ProperEdges(F) \subseteq Edges
    BY DEF ProperEdges, Edges
  <2>2. ASSUME NEW y \in ProperEdges(F), Searched(y)'
        PROVE  /\ Cardinality(ReverseIn(F, y)) > 1 => nonManifold[Source(y)] /\ nonManifold[Target(y)]
               /\ \A x \in Edges : ReverseIn(F, y) = {x} /\ y < x => E2E'[y] # INVALID /\ E2E'[x] # INVALID
    <3>1. CASE Searched(y)
      BY <1>1, <1>2, <1>6, <2>1, <3>1 DEF SearchIsComplete
    <3>2. CASE y = e
      <4>1. ~(Cardinality(ReverseIn(F, y)) > 1)
        BY <1>2, <3>2, FS_Singleton
      <4>2. E2E'[e] # INVALID /\ E2E'[i] # INVALID
        BY <1>2, <1>3, <1>5, <1>6
      <4> QED
        BY <1>2, <3>2, <4>1, <4>2
    <3> QED
      BY <1>4, <2>1, <2>2, <3>1, <3>2
  <2> QED
    BY <1>1, <2>2 DEF SearchIsComplete, Source, Target, Edges
<1> QED
  BY <1>4, <1>7, <1>8, <1>9, <1>10 DEF BuildInv, WorkersKnow

-----------------------------------------------------------------------------
(* The passes.                                                             *)

(* A face is taken. *)
LEMMA TakeFaceKeeps ==
    ASSUME BuildInv, NEW w \in Workers, TakeFace(w)
    PROVE  BuildInv'
<1>1. /\ TypeOK /\ WorkersApart /\ WorkersKnow /\ ListsAreChains /\ EntriesAreSound
      /\ SearchIsSound /\ SearchIsComplete
      /\ pass \in {"insert", "search"} /\ pc[w] = "idle" /\ pc \in [Workers -> Pcs]
      /\ pc' = [pc EXCEPT ![w] = "edge"] /\ \A x \in Workers \ {w} : cur'[x] = cur[x]
      /\ todo' \subseteq todo
      /\ UNCHANGED <<F, V2E, first, second, E2E, nonManifold, boundary, pass, idx, thrown>>
  BY DEF BuildInv, TypeOK, TakeFace, lists, result
<1>2. /\ WorkersApart' /\ cur' \in [Workers -> Edges \cup {0}]
      /\ \A e \in Edges : (Entered(e)' <=> Entered(e)) /\ (Searched(e)' <=> Searched(e))
      /\ \A v : Listed(v)' = Listed(v)
  BY <1>1, TakingKeeps
<1>3. TypeOK'
  BY <1>1, <1>2 DEF TypeOK, Pcs, Edges, Vertices, Faces
<1>4. Knows(w)'
  <2>1. pc'[w] = "edge"
    BY <1>1
  <2> QED
    BY <1>1, <2>1 DEF Knows
<1>5. ASSUME NEW x \in Workers \ {w}
      PROVE  Knows(x)'
  <2>1. Knows(x) /\ pc'[x] = pc[x] /\ cur'[x] = cur[x] /\ idx'[x] = idx[x]
    BY <1>1 DEF WorkersKnow
  <2>2. CASE pass = "insert"
    <3>1. pc[x] = "head" => V2E'[Source(cur[x])] # INVALID
      BY <1>1, <2>1 DEF Knows
    <3>2. pc[x] = "tail" => second'[idx[x]] # INVALID
      BY <1>1, <2>1 DEF Knows
    <3> QED
      BY <1>1, <1>2, <2>1, <2>2, <3>1, <3>2, StillKnows
  <2>3. CASE pass = "search"
    <3>1. pc[x] = "link back" => E2E'[cur[x]] # INVALID
      BY <1>1, <2>1 DEF Knows
    <3> QED
      BY <1>1, <2>1, <2>3, <3>1, SearcherStillKnows
  <2> QED
    BY <1>1, <2>2, <2>3
<1>6. ListsAreChains'
  BY <1>1, <1>2, ChainsStay
<1>7. EntriesAreSound'
  <2>1. ProperEdges(F) \subseteq Edges
    BY DEF ProperEdges, Edges
  <2> QED
    BY <1>1, <1>2, <2>1 DEF EntriesAreSound, Source, Target, OutOfBounds, Vertices, Edges
<1> QED
  BY <1>1, <1>2, <1>3, <1>4, <1>5, <1>6, <1>7, SearchStays DEF BuildInv, WorkersKnow

(* A pass that is complete has passed all edges, and the next one begins,  *)
(* or none after an exception.                                             *)
LEMMA NextPassKeeps ==
    ASSUME BuildInv, NextPass
    PROVE  BuildInv'
<1>1. /\ TypeOK /\ WorkersApart /\ WorkersKnow /\ ListsAreChains /\ EntriesAreSound
      /\ SearchIsSound /\ SearchIsComplete /\ F \in Meshes
      /\ \A w \in Workers : pc[w] \in {"idle", "thrown"}
      /\ UNCHANGED <<F, V2E, first, second, E2E, nonManifold, boundary, pc, cur, idx, thrown>>
  BY DEF BuildInv, TypeOK, NextPass, lists, result, locals
<1>2. TypeOK'
  BY <1>1 DEF TypeOK, NextPass, Edges, Vertices, Faces
<1>3. SearchIsSound'
  BY <1>1 DEF SearchIsSound, Vertices, Edges
<1>4. ASSUME ~thrown
      PROVE  /\ \A w \in Workers : pc[w] = "idle" /\ pc'[w] = "idle"
             /\ WorkersApart' /\ WorkersKnow'
             /\ todo = {} => \A e : ~Pending(e)
  <2>1. \A w \in Workers : pc[w] = "idle" /\ pc'[w] = "idle"
    BY <1>1, <1>4 DEF WorkersKnow, Knows
  <2> QED
    BY <2>1 DEF WorkersApart, WorkersKnow, Knows, Pending
<1>5. CASE thrown /\ pass = "insert" /\ pass' = "failed" /\ UNCHANGED todo
  <2>1. WorkersApart'
    BY <1>1, <1>5 DEF WorkersApart, Edges
  <2>2. WorkersKnow'
    BY <1>1, <1>5 DEF WorkersKnow, Knows
  <2> QED
    BY <1>2, <1>3, <1>5, <2>1, <2>2 DEF BuildInv, ListsAreChains, EntriesAreSound, SearchIsComplete
<1>6. CASE ~thrown /\ todo = {} /\ pass = "insert" /\ pass' = "search" /\ todo' = Faces
  <2>1. \A e : Entered(e) /\ Entered(e)'
    BY <1>4, <1>6 DEF Entered
  <2>2. \A v : Listed(v)' = Listed(v)
    BY <1>1, <2>1 DEF Listed
  <2>3. ListsAreChains'
    <3>1. PICK rank \in [Edges -> Nat] : Chained(rank)
      BY <1>1, <1>6 DEF ListsAreChains
    <3>2. Chained(rank)'
      BY <1>1, <2>2, <3>1 DEF Chained, Vertices
    <3> QED
      BY <1>1, <3>1, <3>2 DEF ListsAreChains, Edges
  <2>4. EntriesAreSound'
    BY <1>1, <1>6, <2>1 DEF EntriesAreSound, Source, Target, OutOfBounds, Vertices, Edges
  <2>5. SearchIsComplete'
    <3>1. \A e \in Edges : ~Searched(e)'
      BY <1>1, <1>6, EdgesAreCorners DEF Searched, Pending
    <3>2. ProperEdges(F) \subseteq Edges
      BY DEF ProperEdges, Edges
    <3> QED
      BY <1>1, <3>1, <3>2 DEF SearchIsComplete
  <2> QED
    BY <1>2, <1>3, <1>4, <1>6, <2>3, <2>4, <2>5 DEF BuildInv
<1>7. CASE todo = {} /\ pass = "search" /\ pass' = "turn" /\ UNCHANGED todo
  <2>1. ~thrown
    BY <1>1, <1>7 DEF EntriesAreSound
  <2>2. \A e : Searched(e)
    BY <1>4, <1>7, <2>1 DEF Searched
  <2>3. \A v : Listed(v)' = Listed(v)
    BY <1>1, <1>7 DEF Listed, Entered
  <2>4. ListsAreChains'
    <3>1. PICK rank \in [Edges -> Nat] : Chained(rank)
      BY <1>1, <1>7 DEF ListsAreChains
    <3>2. Chained(rank)'
      BY <1>1, <2>3, <3>1 DEF Chained, Vertices
    <3> QED
      BY <1>1, <3>1, <3>2 DEF ListsAreChains, Edges
  <2>5. EntriesAreSound'
    BY <1>1, <1>7 DEF EntriesAreSound, Entered, Source, Target, OutOfBounds, Vertices, Edges
  <2>6. SearchIsComplete'
    BY <1>1, <1>7, <2>2 DEF SearchIsComplete, Source, Target, Edges
  <2> QED
    BY <1>2, <1>3, <1>4, <2>1, <2>4, <2>5, <2>6 DEF BuildInv
<1> QED
  BY <1>5, <1>6, <1>7 DEF NextPass

(* The first edge, if there is one.                                        *)
LEMMA EdgesContainZero ==
    ASSUME F \in Meshes
    PROVE  Edges # {} => 0 \in Edges
<1>1. Cardinality(DOMAIN F) \in Nat
  BY FacesAssumption, FS_CardinalityType
<1>2. Deg * Cardinality(DOMAIN F) \in Nat
  BY <1>1, DegAssumption
<1> QED
  BY <1>2 DEF Edges, EdgesOf

(* Nothing has entered. *)
LEMMA InitBuild ==
    ASSUME Init
    PROVE  BuildInv
<1>1. F \in Meshes /\ pass = "insert" /\ todo = Faces /\ \A w \in Workers : pc[w] = "idle"
  BY DEF Init
<1>2. \A e \in Edges : e \in Nat /\ ~Entered(e)
  BY <1>1, EdgesAreCorners DEF Entered, Pending
<1>3. TypeOK
  <2>1. 0 \in Vertices
    BY <1>1, VertexCountAssumption DEF Vertices
  <2>2. Edges # {} => 0 \in Edges
    BY <1>1, EdgesContainZero
  <2> QED
    BY <2>1, <2>2 DEF Init, TypeOK, Pcs
<1>4. \A v : Listed(v) = {}
  BY <1>2, ListedAreEdges DEF Listed
<1>5. ListsAreChains
  <2>1. [e \in Edges |-> 0] \in [Edges -> Nat]
    OBVIOUS
  <2>2. \A v \in Vertices : V2E[v] = INVALID
    BY DEF Init
  <2>3. Chained([e \in Edges |-> 0])
    BY <1>4, <2>2 DEF Chained
  <2> QED
    BY <2>1, <2>3 DEF ListsAreChains
<1>6. EntriesAreSound
  BY <1>1, <1>2 DEF EntriesAreSound, ProperEdges, Edges
<1>7. SearchIsSound /\ SearchIsComplete
  BY <1>1 DEF Init, SearchIsSound, SearchIsComplete
<1>8. WorkersApart /\ WorkersKnow
  BY <1>1 DEF WorkersApart, WorkersKnow, Knows
<1> QED
  BY <1>3, <1>5, <1>6, <1>7, <1>8 DEF BuildInv

-----------------------------------------------------------------------------
(* The turn.                                                               *)

(* The corner before one of a face, and the corner after it.               *)
LEMMA CornerBefore ==
    ASSUME F \in Meshes, NEW e \in Edges
    PROVE  dedge_prev(e) \in Edges /\ dedge_next(dedge_prev(e)) = e
<1>1. e \in Nat /\ e \div Deg \in Faces
  BY EdgesAreCorners
<1> DEFINE q == e \div Deg
           r == e % Deg
           p == dedge_prev(e)
<1>2. q \in Nat /\ r \in 0 .. Deg - 1 /\ e = Deg * q + r
  BY <1>1, Division
<1>3. Deg * q \in Nat
  BY <1>2, DegAssumption
<1>4. CASE r = 0
  <2>1. p = e + (Deg - 1)
    BY <1>4 DEF dedge_prev
  <2>2. p \in Nat /\ p = Deg * q + (Deg - 1) /\ Deg - 1 \in 0 .. Deg - 1
    <3> HIDE DEF p, q, r
    <3> QED
      BY <1>2, <1>3, <1>4, <2>1, DegAssumption
  <2>3. p \div Deg = q /\ p % Deg = Deg - 1
    <3> HIDE DEF p, q, r
    <3> QED
      BY <1>2, <2>2, DivisionIsUnique
  <2>4. dedge_next(p) = p - (Deg - 1)
    BY <2>3 DEF dedge_next
  <2>5. p - (Deg - 1) = e
    <3> HIDE DEF p, q, r
    <3> QED
      BY <1>1, <2>1, DegAssumption
  <2> QED
    BY <1>1, <2>2, <2>3, <2>4, <2>5, EdgesAreCorners
<1>5. CASE r # 0
  <2>1. p = e - 1
    BY <1>5 DEF dedge_prev
  <2>2. p \in Nat /\ p = Deg * q + (r - 1) /\ r - 1 \in 0 .. Deg - 1 /\ r - 1 # Deg - 1
    <3> HIDE DEF p, q, r
    <3> QED
      BY <1>1, <1>2, <1>3, <1>5, <2>1, DegAssumption
  <2>3. p \div Deg = q /\ p % Deg = r - 1
    <3> HIDE DEF p, q, r
    <3> QED
      BY <1>2, <2>2, DivisionIsUnique
  <2>4. dedge_next(p) = p + 1
    BY <2>2, <2>3 DEF dedge_next
  <2>5. p + 1 = e
    <3> HIDE DEF p, q, r
    <3> QED
      BY <1>1, <2>1
  <2> QED
    BY <1>1, <2>2, <2>3, <2>4, <2>5, EdgesAreCorners
<1> QED
  BY <1>4, <1>5

(* A non-empty set of numbers has a smallest one. *)
LEMMA HasLeast ==
    ASSUME NEW S \in SUBSET Nat, S # {}
    PROVE  \E x \in S : \A y \in S : x <= y
<1>1. \E x \in S : \A y \in S : ~(<<y, x>> \in OpToRel(<, Nat))
  BY NatLessThanWellFounded, WFMin, Zenon
<1>2. PICK x \in S : \A y \in S : ~(<<y, x>> \in OpToRel(<, Nat))
  BY <1>1
<1>3. ASSUME NEW y \in S
      PROVE  ~(y < x)
  BY <1>2, <<y, x>> \in Nat \X Nat, Zenon DEF OpToRel
<1>4. \A y \in S : x <= y
  BY <1>3
<1> QED
  BY <1>4

(* The turn from edge to edge, with its length. *)
TurnStep(M) == [x \in Edges \cup {INVALID} |-> IF x = INVALID THEN INVALID ELSE Before(M, x)]

(* The turn is a walk, and ends in front of the first edge that is none,   *)
(* or is the first one again.                                              *)
LEMMA VisitedIsWalked ==
    ASSUME F \in Meshes, NEW M \in [Edges -> Edges \cup {INVALID}], NEW start \in Edges
    PROVE  \E walk \in Walks(Edges \cup {INVALID}, start, TurnStep(M), Cardinality(Edges)) :
             \/ /\ Visited(M, start) = {}
                /\ \A n \in 1 .. Cardinality(Edges) : walk[n] \notin {INVALID, start}
             \/ \E n \in 1 .. Cardinality(Edges) :
                  /\ walk[n] \in {INVALID, start}
                  /\ \A k \in 1 .. n - 1 : walk[k] \notin {INVALID, start}
                  /\ Visited(M, start) = {walk[k] : k \in 0 .. n - 1}
<1> DEFINE size == Cardinality(DOMAIN M)
           S == Edges \cup {INVALID}
           walk == CHOOSE g : g = [n \in 0 .. Cardinality(DOMAIN M) |->
                       IF n = 0 THEN start
                       ELSE LET edge == g[n - 1] IN IF edge = INVALID THEN INVALID ELSE Before(M, edge)]
           ends == {n \in 1 .. size : walk[n] \in {INVALID, start}}
<1>1. size \in Nat /\ size = Cardinality(Edges)
  BY EdgesAreCorners, FS_CardinalityType
<1>2. TurnStep(M) \in [S -> S]
  BY CornerBefore DEF TurnStep, Before
<1>3. PICK f : f \in Walks(S, start, TurnStep(M), size)
  <2> HIDE DEF S, size
  <2>1. start \in S
    BY DEF S
  <2> QED
    BY <1>1, <1>2, <2>1, WalkExists
<1>4. f = [n \in 0 .. Cardinality(DOMAIN M) |->
              IF n = 0 THEN start
              ELSE LET edge == f[n - 1] IN IF edge = INVALID THEN INVALID ELSE Before(M, edge)]
  <2>1. ASSUME NEW n \in 0 .. size
        PROVE  f[n] = IF n = 0 THEN start ELSE IF f[n - 1] = INVALID THEN INVALID ELSE Before(M, f[n - 1])
    <3>1. CASE n = 0
      BY <1>3, <3>1 DEF Walks
    <3>2. CASE n # 0
      <4>1. n \in 1 .. size /\ n - 1 \in 0 .. size
        BY <1>1, <3>2
      <4>2. f[n] = TurnStep(M)[f[n - 1]] /\ f[n - 1] \in S
        BY <1>3, <4>1 DEF Walks
      <4> QED
        BY <3>2, <4>2 DEF TurnStep
    <3> QED
      BY <3>1, <3>2
  <2> QED
    BY <1>3, <2>1 DEF Walks
<1>5. walk = [n \in 0 .. Cardinality(DOMAIN M) |->
              IF n = 0 THEN start
              ELSE LET edge == walk[n - 1] IN IF edge = INVALID THEN INVALID ELSE Before(M, edge)]
  BY <1>4
<1>6. Visited(M, start) =
        IF ends = {} THEN {} ELSE {walk[k] : k \in 0 .. (CHOOSE n \in ends : \A m \in ends : n <= m) - 1}
  BY DEF Visited
<1> HIDE DEF walk
<1>7. walk \in Walks(S, start, TurnStep(M), Cardinality(Edges))
  <2> DEFINE I == {n \in Nat : n \in 0 .. size => walk[n] \in S}
  <2>1. walk[0] = start
    BY <1>1, <1>5
  <2>2. ASSUME NEW n \in Nat, n + 1 \in 0 .. size
        PROVE  n \in 0 .. size /\ walk[n + 1] = IF walk[n] = INVALID THEN INVALID ELSE Before(M, walk[n])
    <3>1. (n + 1) - 1 = n /\ n + 1 # 0 /\ n \in 0 .. size
      BY <1>1, <2>2
    <3> QED
      BY <1>5, <2>2, <3>1
  <2>3. 0 \in I
    BY <2>1
  <2>4. ASSUME NEW n \in Nat, n \in I
        PROVE  n + 1 \in I
    <3> SUFFICES ASSUME n + 1 \in 0 .. size PROVE walk[n + 1] \in S
      OBVIOUS
    <3>1. walk[n] \in S /\ walk[n + 1] = IF walk[n] = INVALID THEN INVALID ELSE Before(M, walk[n])
      BY <2>2, <2>4
    <3> QED
      BY <3>1, CornerBefore DEF Before
  <2>5. \A n \in 0 .. size : walk[n] \in S
    <3> HIDE DEF I
    <3>1. \A n \in Nat : n \in I
      BY <2>3, <2>4, SetInduction
    <3> QED
      BY <1>1, <3>1 DEF I
  <2>6. walk \in [0 .. size -> S]
    BY <1>5, <2>5
  <2>7. ASSUME NEW n \in 1 .. size
        PROVE  walk[n] = TurnStep(M)[walk[n - 1]]
    <3>1. n - 1 \in Nat /\ (n - 1) + 1 = n /\ n \in 0 .. size
      BY <1>1
    <3>2. n - 1 \in 0 .. size /\ walk[n] = IF walk[n - 1] = INVALID THEN INVALID ELSE Before(M, walk[n - 1])
      BY <2>2, <3>1
    <3> QED
      BY <2>5, <3>2 DEF TurnStep
  <2> QED
    BY <1>1, <2>1, <2>6, <2>7 DEF Walks
<1>8. CASE ends = {}
  BY <1>1, <1>6, <1>7, <1>8
<1>9. CASE ends # {}
  <2>1. ends \subseteq Nat
    BY <1>1
  <2> DEFINE n == CHOOSE n \in ends : \A m \in ends : n <= m
  <2>2. n \in ends /\ \A m \in ends : n <= m
    <3> HIDE DEF ends
    <3> QED
      BY <1>9, <2>1, HasLeast
  <2>3. n \in 1 .. Cardinality(Edges) /\ walk[n] \in {INVALID, start}
    BY <1>1, <2>2
  <2>4. Visited(M, start) = {walk[k] : k \in 0 .. n - 1}
    BY <1>6, <1>9
  <2> HIDE DEF n
  <2>5. \A k \in 1 .. n - 1 : walk[k] \notin {INVALID, start}
    <3>1. \A k \in 1 .. n - 1 : k \in 1 .. size /\ ~(n <= k)
      BY <1>1, <2>3
    <3> QED
      BY <2>2, <3>1
  <2> QED
    BY <1>7, <2>3, <2>4, <2>5
<1> QED
  BY <1>8, <1>9

(* A turn that ends has seen edges only, the first of them included; the   *)
(* edge it results in is one of them, and has none before it if and only   *)
(* if the turn has met a boundary.                                         *)
LEMMA FirstEdgeIsVisited ==
    ASSUME F \in Meshes, NEW M \in [Edges -> Edges \cup {INVALID}], NEW start \in Edges,
           Visited(M, start) # {}
    PROVE  /\ Visited(M, start) \subseteq Edges
           /\ FirstEdge(M, start) \in Visited(M, start)
           /\ HasBoundary(M, start) <=> Before(M, FirstEdge(M, start)) = INVALID
<1>1. PICK walk \in Walks(Edges \cup {INVALID}, start, TurnStep(M), Cardinality(Edges)) :
        \/ /\ Visited(M, start) = {}
           /\ \A n \in 1 .. Cardinality(Edges) : walk[n] \notin {INVALID, start}
        \/ \E n \in 1 .. Cardinality(Edges) :
             /\ walk[n] \in {INVALID, start}
             /\ \A k \in 1 .. n - 1 : walk[k] \notin {INVALID, start}
             /\ Visited(M, start) = {walk[k] : k \in 0 .. n - 1}
  BY VisitedIsWalked, Zenon
<1>2. PICK n \in 1 .. Cardinality(Edges) :
          /\ \A k \in 1 .. n - 1 : walk[k] \notin {INVALID, start}
          /\ Visited(M, start) = {walk[k] : k \in 0 .. n - 1}
  BY <1>1
<1>3. Cardinality(Edges) \in Nat /\ \A e \in Edges : e \in Nat
  BY EdgesAreCorners, FS_CardinalityType
<1>4. ASSUME NEW k \in 0 .. n - 1
      PROVE  walk[k] \in Edges
  <2>1. k \in 0 .. Cardinality(Edges)
    BY <1>3
  <2>2. walk[k] \in Edges \cup {INVALID} /\ walk[0] = start
    BY <2>1 DEF Walks
  <2>3. CASE k = 0
    BY <2>2, <2>3
  <2>4. CASE k # 0
    <3>1. k \in 1 .. n - 1
      BY <1>3, <2>4
    <3> QED
      BY <1>2, <2>2, <3>1
  <2> QED
    BY <2>3, <2>4
<1>5. Visited(M, start) \subseteq Edges
  BY <1>2, <1>4
<1>6. CASE HasBoundary(M, start)
  <2>1. \E e \in Visited(M, start) : Before(M, e) = INVALID
    BY <1>6 DEF HasBoundary
  <2> QED
    BY <1>5, <1>6, <2>1 DEF FirstEdge
<1>7. CASE ~HasBoundary(M, start)
  <2>1. \E e \in Visited(M, start) : \A x \in Visited(M, start) : e <= x
    BY <1>3, <1>5, HasLeast
  <2>2. FirstEdge(M, start) \in Visited(M, start)
    BY <1>7, <2>1 DEF FirstEdge
  <2> QED
    BY <1>5, <1>7, <2>2 DEF HasBoundary
<1> QED
  BY <1>6, <1>7

(* The turn changes only what it is for. *)
LEMMA TurnKeeps ==
    ASSUME BuildInv, Turn
    PROVE  BuildInv'
<1>1. /\ TypeOK /\ WorkersApart /\ WorkersKnow /\ ListsAreChains /\ EntriesAreSound
      /\ SearchIsSound /\ SearchIsComplete /\ F \in Meshes
      /\ E2E \in [Edges -> Edges \cup {INVALID}]
      /\ V2E \in [Vertices -> Edges \cup {INVALID}]
      /\ pass = "turn" /\ pass' = "done"
      /\ UNCHANGED <<F, first, second, E2E, nonManifold, todo, pc, cur, idx, thrown>>
  BY DEF BuildInv, TypeOK, Turn, locals
<1>2. ASSUME NEW v \in Vertices, Start(v)
      PROVE  FirstEdge(E2E, V2E[v]) \in Edges
  <2>1. V2E[v] \in Edges /\ Visited(E2E, V2E[v]) # {}
    BY <1>1, <1>2 DEF Start, Turn
  <2> QED
    BY <1>1, <2>1, FirstEdgeIsVisited
<1>3. V2E' \in [Vertices -> Edges \cup {INVALID}]
  BY <1>2 DEF Turn
<1>4. boundary' \in [Vertices -> BOOLEAN]
  <2>1. \A v \in Vertices : (Start(v) /\ HasBoundary(E2E, V2E[v])) \in BOOLEAN
    BY DEF Start, HasBoundary
  <2> QED
    BY <2>1 DEF Turn
<1>5. TypeOK'
  BY <1>1, <1>3, <1>4 DEF TypeOK, Edges, Vertices, Faces
<1>6. \A w \in Workers : pc'[w] = "idle"
  <2>1. \A w \in Workers : pc[w] = "idle"
    BY <1>1 DEF WorkersKnow, Knows
  <2> QED
    BY <1>1, <2>1
<1>7. WorkersApart' /\ WorkersKnow'
  BY <1>6 DEF WorkersApart, WorkersKnow, Knows
<1>8. EntriesAreSound'
  BY <1>1 DEF EntriesAreSound, Entered, Source, Target, OutOfBounds, Vertices, Edges
<1>9. SearchIsSound' /\ SearchIsComplete'
  BY <1>1 DEF SearchIsSound, SearchIsComplete, Searched, Vertices, Edges, Source, Target
<1> QED
  BY <1>1, <1>5, <1>7, <1>8, <1>9 DEF BuildInv, ListsAreChains

(* A step that changes nothing. *)
LEMMA StutterKeeps ==
    ASSUME BuildInv, UNCHANGED vars
    PROVE  BuildInv'
<1>1. UNCHANGED <<F, V2E, first, second, E2E, nonManifold, boundary, pass, todo, pc, cur, idx, thrown>>
  BY DEF vars, lists, result, locals
<1>2. TypeOK'
  BY <1>1 DEF BuildInv, TypeOK, Edges, Vertices, Faces
<1>3. WorkersApart'
  BY <1>1 DEF BuildInv, WorkersApart, Edges
<1>4. \A e : (Entered(e)' <=> Entered(e)) /\ (Searched(e)' <=> Searched(e))
  BY <1>1 DEF Entered, Searched, Pending
<1>5. \A v : Listed(v)' = Listed(v)
  BY <1>1, <1>4 DEF Listed
<1>6. \A w \in Workers : Knows(w)'
  BY <1>1, <1>5 DEF BuildInv, WorkersKnow, Knows, Source, Target, OutOfBounds, Vertices
<1>7. ListsAreChains'
  BY <1>1, <1>5, ChainsStay DEF BuildInv
<1>8. EntriesAreSound'
  BY <1>1, <1>4 DEF BuildInv, EntriesAreSound, Source, Target, OutOfBounds, Vertices, Edges
<1> QED
  BY <1>1, <1>2, <1>3, <1>4, <1>6, <1>7, <1>8, SearchStays DEF BuildInv, WorkersKnow

(* Every step keeps the invariant. *)
LEMMA NextKeeps ==
    ASSUME BuildInv, [Next]_vars
    PROVE  BuildInv'
<1>1. ASSUME NEW w \in Workers, Worker(w)
      PROVE  BuildInv'
  BY <1>1, TakeFaceKeeps, BeginInsertKeeps, HeadCasKeeps, HeadReadKeeps, TailCasKeeps, TailReadKeeps,
     SearchKeeps, FlagKeeps, LinkKeeps, LinkBackKeeps
  DEF Worker
<1> QED
  BY <1>1, TurnKeeps, NextPassKeeps, StutterKeeps DEF Next, Finished

-----------------------------------------------------------------------------
(* What follows from the invariant.                                        *)

(* When all edges have entered, the lists have them all. *)
LEMMA InvImpliesListInv ==
    ASSUME BuildInv
    PROVE  ListInv
<1>1. ASSUME pass = "search", NEW v \in Vertices
      PROVE  ListOf(v) = OutgoingIn(F, v)
  <2>1. PICK rank \in [Edges -> Nat] : Chained(rank)
    BY <1>1 DEF BuildInv, ListsAreChains
  <2>2. ListOf(v) = Listed(v)
    BY <1>1, <2>1, ListIsListed DEF BuildInv
  <2> QED
    BY <1>1, <2>2 DEF Listed, Entered
<1> QED
  BY <1>1 DEF ListInv, ListsAreComplete, BuildInv

(* When all edges have been searched, the marks are those of the mesh, and *)
(* the opposite of an edge is one of those that admit it, if there is one. *)
LEMMA SearchResult ==
    ASSUME BuildInv, pass \in {"turn", "done"}
    PROVE  /\ \A v \in Vertices : nonManifold[v] <=> v \in NonManifoldIn(F)
           /\ \A e \in Edges : E2E[e] \in Linkers(F, e) \/ (E2E[e] = INVALID /\ Linkers(F, e) = {})
           /\ \A e \in Edges : Source(e) \in Vertices /\ Target(e) \in Vertices
<1>1. /\ TypeOK /\ SearchIsSound /\ SearchIsComplete /\ EntriesAreSound /\ F \in Meshes
      /\ ProperEdges(F) \subseteq Edges
  BY DEF BuildInv, TypeOK, ProperEdges, Edges
<1>2. \A e \in Edges : Source(e) \in Vertices /\ Target(e) \in Vertices
  BY <1>1 DEF EntriesAreSound, Entered, OutOfBounds
<1>3. \A e : Searched(e)
  BY DEF Searched
<1>4. ASSUME NEW v \in Vertices
      PROVE  nonManifold[v] <=> v \in NonManifoldIn(F)
  <2>1. ASSUME v \in NonManifoldIn(F)
        PROVE  nonManifold[v]
    <3>1. PICK e \in ProperEdges(F) : Cardinality(ReverseIn(F, e)) > 1 /\ v \in {SourceIn(F, e), TargetIn(F, e)}
      BY <2>1 DEF NonManifoldIn
    <3> QED
      BY <1>1, <1>3, <3>1 DEF SearchIsComplete, Source, Target
  <2> QED
    BY <1>1, <2>1 DEF SearchIsSound
<1>5. ASSUME NEW e \in Edges, E2E[e] = INVALID
      PROVE  Linkers(F, e) = {}
  <2> SUFFICES ASSUME NEW x \in Linkers(F, e) PROVE FALSE
    OBVIOUS
  <2>1. /\ e \in ProperEdges(F) /\ x \in ReverseIn(F, e)
        /\ \/ e < x /\ ReverseIn(F, e) = {x}
           \/ x < e /\ ReverseIn(F, x) = {e}
    BY DEF Linkers
  <2>2. x \in ProperEdges(F) /\ x \in Edges
    BY <1>1, <2>1, ReverseIsMutual
  <2> QED
    BY <1>1, <1>3, <1>5, <2>1, <2>2 DEF SearchIsComplete
<1> QED
  BY <1>1, <1>2, <1>4, <1>5 DEF SearchIsSound

(* Where not both ends are marked, an edge has at most one opposite, and   *)
(* so has that one.                                                        *)
LEMMA InvImpliesMutual ==
    ASSUME BuildInv
    PROVE  OppositesAreMutual
<1> SUFFICES ASSUME pass \in {"turn", "done"}, NEW e \in ProperEdges(F),
                    ~(nonManifold[Source(e)] /\ nonManifold[Target(e)])
             PROVE  /\ E2E[e] = INVALID <=> ReverseIn(F, e) = {}
                    /\ E2E[e] # INVALID => ReverseIn(F, e) = {E2E[e]} /\ E2E[E2E[e]] = e
  BY DEF OppositesAreMutual
<1>1. F \in Meshes /\ e \in Edges /\ \A x \in Edges : x \in Nat /\ x # INVALID
  BY EdgesAreCorners, InvalidAssumption DEF BuildInv, TypeOK, ProperEdges, Edges
<1>2. /\ \A v \in Vertices : nonManifold[v] <=> v \in NonManifoldIn(F)
      /\ \A x \in Edges : E2E[x] \in Linkers(F, x) \/ (E2E[x] = INVALID /\ Linkers(F, x) = {})
      /\ \A x \in Edges : Source(x) \in Vertices /\ Target(x) \in Vertices
  BY SearchResult
<1>3. ASSUME NEW x \in ProperEdges(F), {Source(x), Target(x)} = {Source(e), Target(e)}
      PROVE  ~(Cardinality(ReverseIn(F, x)) > 1)
  <2> SUFFICES ASSUME Cardinality(ReverseIn(F, x)) > 1 PROVE FALSE
    OBVIOUS
  <2>1. Source(x) \in NonManifoldIn(F) /\ Target(x) \in NonManifoldIn(F)
    BY DEF NonManifoldIn, Source, Target
  <2>2. Source(e) \in NonManifoldIn(F) /\ Target(e) \in NonManifoldIn(F)
    BY <1>3, <2>1
  <2> QED
    BY <1>1, <1>2, <2>2
<1>4. CASE ReverseIn(F, e) = {}
  <2>1. Linkers(F, e) = {}
    BY <1>4 DEF Linkers
  <2> QED
    BY <1>1, <1>2, <1>4, <2>1
<1>5. CASE ReverseIn(F, e) # {}
  <2>1. PICK x : x \in ReverseIn(F, e)
    BY <1>5
  <2>2. /\ x \in ProperEdges(F) /\ x \in Edges /\ e \in ReverseIn(F, x) /\ x # e
        /\ IsFiniteSet(ReverseIn(F, e)) /\ IsFiniteSet(ReverseIn(F, x))
    BY <1>1, <2>1, ReverseIsMutual
  <2>3. Source(x) = Target(e) /\ Target(x) = Source(e)
    BY <2>1 DEF ReverseIn, OutgoingIn, Source, Target
  <2>4. ReverseIn(F, e) = {x} /\ ReverseIn(F, x) = {e}
    <3>1. ~(Cardinality(ReverseIn(F, e)) > 1) /\ ~(Cardinality(ReverseIn(F, x)) > 1)
      BY <1>3, <2>2, <2>3
    <3> QED
      BY <2>1, <2>2, <3>1, SingleElement
  <2>5. e < x \/ x < e
    BY <1>1, <2>2
  <2>6. Linkers(F, e) = {x} /\ Linkers(F, x) = {e}
    BY <2>2, <2>4, <2>5 DEF Linkers
  <2>7. E2E[e] = x /\ E2E[x] = e
    BY <1>1, <1>2, <2>2, <2>6
  <2> QED
    BY <1>1, <2>2, <2>4, <2>7
<1> QED
  BY <1>4, <1>5

(* A function that takes a member of each set, or the default where there  *)
(* is none, is a selection.                                                *)
LEMMA IsSelection ==
    ASSUME NEW D, NEW sets, DOMAIN sets = D, NEW default, NEW s, s = [x \in D |-> s[x]],
           \A x \in D : IsFiniteSet(sets[x]) /\ (s[x] \in sets[x] \/ (sets[x] = {} /\ s[x] = default))
    PROVE  s \in Selections(sets, default)
<1> DEFINE open == {x \in DOMAIN sets : Cardinality(sets[x]) > 1}
           picks == {c \in [open -> UNION {sets[x] : x \in open}] : \A x \in open : c[x] \in sets[x]}
           p == [x \in open |-> s[x]]
           made(c) == [x \in DOMAIN sets |->
                          IF x \in open THEN c[x]
                          ELSE IF sets[x] = {} THEN default ELSE CHOOSE y \in sets[x] : TRUE]
<1>1. ASSUME NEW x \in open
      PROVE  s[x] \in sets[x]
  <2>1. ~(Cardinality({}) > 1)
    BY FS_EmptySet
  <2> QED
    BY <2>1
<1>2. p \in picks
  BY <1>1
<1>3. ASSUME NEW x \in D
      PROVE  made(p)[x] = s[x]
  <2>1. CASE x \in open
    BY <2>1
  <2>2. CASE x \notin open /\ sets[x] = {}
    BY <2>2
  <2>3. CASE x \notin open /\ sets[x] # {}
    <3>1. sets[x] = {s[x]}
      BY <2>3, SingleElement
    <3>2. (CHOOSE y \in sets[x] : TRUE) = s[x]
      BY <3>1
    <3> QED
      BY <2>3, <3>2
  <2> QED
    BY <2>1, <2>2, <2>3
<1>4. s = made(p)
  BY <1>3
<1>5. Selections(sets, default) = {made(c) : c \in picks}
  BY DEF Selections
<1> HIDE DEF made, picks, p
<1> QED
  BY <1>2, <1>4, <1>5

(* The turn completes one of the results that the mesh admits. *)
LEMMA TurnBuilds ==
    ASSUME BuildInv, Turn
    PROVE  [V2E |-> V2E', E2E |-> E2E, nonManifold |-> nonManifold, boundary |-> boundary']
                \in EdgeMapsOf(F, Vertices)
<1>1. /\ TypeOK /\ ListsAreChains /\ F \in Meshes
      /\ E2E \in [Edges -> Edges \cup {INVALID}]
      /\ V2E \in [Vertices -> Edges \cup {INVALID}]
      /\ nonManifold \in [Vertices -> BOOLEAN]
      /\ pass = "turn"
      /\ V2E' = [v \in Vertices |-> IF Start(v) THEN FirstEdge(E2E, V2E[v]) ELSE INVALID]
      /\ boundary' = [v \in Vertices |-> Start(v) /\ HasBoundary(E2E, V2E[v])]
      /\ \A v \in Vertices : Start(v) => Visited(E2E, V2E[v]) # {}
  BY DEF BuildInv, TypeOK, Turn
<1>2. /\ IsFiniteSet(Edges) /\ INVALID \notin Edges
  BY <1>1, EdgesAreCorners, InvalidAssumption
<1>3. /\ \A v \in Vertices : nonManifold[v] <=> v \in NonManifoldIn(F)
      /\ \A e \in Edges : E2E[e] \in Linkers(F, e) \/ (E2E[e] = INVALID /\ Linkers(F, e) = {})
  BY <1>1, SearchResult
<1> DEFINE opposites == [e \in Edges |-> Linkers(F, e)]
           marks == [v \in Vertices |-> v \in NonManifoldIn(F)]
           firsts == [v \in Vertices |-> IF marks[v] THEN {} ELSE {FirstEdge(E2E, e) : e \in OutgoingIn(F, v)}]
<1>4. E2E \in Selections(opposites, INVALID)
  <2>1. \A e \in Edges : IsFiniteSet(Linkers(F, e))
    <3>1. \A e \in Edges : Linkers(F, e) \subseteq Edges
      BY <1>1, ReverseIsMutual DEF Linkers
    <3> QED
      BY <1>2, <3>1, FS_Subset
  <2>2. E2E = [e \in Edges |-> E2E[e]] /\ DOMAIN opposites = Edges
    BY <1>1
  <2>3. \A e \in Edges : IsFiniteSet(opposites[e])
                         /\ (E2E[e] \in opposites[e] \/ (opposites[e] = {} /\ E2E[e] = INVALID))
    BY <1>3, <2>1
  <2> HIDE DEF opposites
  <2> QED
    BY <2>2, <2>3, IsSelection
<1>5. nonManifold = marks
  <2>1. \A v \in Vertices : nonManifold[v] = marks[v]
    BY <1>1, <1>3
  <2> QED
    BY <1>1, <2>1
<1>6. ASSUME NEW v \in Vertices
      PROVE  /\ Start(v) => /\ ~marks[v] /\ V2E[v] \in OutgoingIn(F, v) /\ V2E[v] \in Edges
                            /\ Visited(E2E, V2E[v]) # {}
             /\ ~Start(v) => marks[v] \/ OutgoingIn(F, v) = {}
  <2>1. marks[v] <=> nonManifold[v]
    BY <1>3
  <2>2. PICK rank \in [Edges -> Nat] : Chained(rank)
    BY <1>1 DEF ListsAreChains
  <2>3. Listed(v) = OutgoingIn(F, v)
    BY <1>1 DEF Listed, Entered
  <2>4. /\ V2E[v] = INVALID => OutgoingIn(F, v) = {}
        /\ V2E[v] # INVALID => V2E[v] \in OutgoingIn(F, v)
    BY <2>2, <2>3 DEF Chained
  <2> QED
    BY <1>1, <2>1, <2>4 DEF Start
<1>7. V2E' \in Selections(firsts, INVALID)
  <2>1. ASSUME NEW v \in Vertices
        PROVE  /\ IsFiniteSet(firsts[v])
               /\ V2E'[v] \in firsts[v] \/ (firsts[v] = {} /\ V2E'[v] = INVALID)
    <3>1. CASE marks[v]
      <4>1. firsts[v] = {} /\ V2E'[v] = INVALID
        BY <1>1, <1>6, <3>1
      <4> QED
        BY <4>1, FS_EmptySet
    <3>2. CASE ~marks[v]
      <4>1. firsts[v] = {FirstEdge(E2E, e) : e \in OutgoingIn(F, v)}
        BY <3>2
      <4>2. IsFiniteSet(firsts[v])
        <5>1. IsFiniteSet(OutgoingIn(F, v))
          BY <1>2, ListedAreEdges, FS_Subset
        <5>2. [e \in OutgoingIn(F, v) |-> FirstEdge(E2E, e)] \in Surjection(OutgoingIn(F, v), firsts[v])
          BY <4>1 DEF Surjection
        <5> QED
          BY <5>1, <5>2, FS_Surjection
      <4>3. CASE Start(v)
        BY <1>1, <1>6, <4>1, <4>2, <4>3
      <4>4. CASE ~Start(v)
        BY <1>1, <1>6, <3>2, <4>1, <4>2, <4>4
      <4> QED
        BY <4>3, <4>4
    <3> QED
      BY <3>1, <3>2
  <2>2. V2E' = [v \in Vertices |-> V2E'[v]] /\ DOMAIN firsts = Vertices
    BY <1>1
  <2> HIDE DEF firsts
  <2> QED
    BY <2>1, <2>2, IsSelection
<1>8. boundary' = [v \in Vertices |-> V2E'[v] # INVALID /\ Before(E2E, V2E'[v]) = INVALID]
  <2>1. ASSUME NEW v \in Vertices
        PROVE  (Start(v) /\ HasBoundary(E2E, V2E[v])) <=> (V2E'[v] # INVALID /\ Before(E2E, V2E'[v]) = INVALID)
    <3>1. CASE Start(v)
      <4>1. /\ FirstEdge(E2E, V2E[v]) \in Edges
            /\ HasBoundary(E2E, V2E[v]) <=> Before(E2E, FirstEdge(E2E, V2E[v])) = INVALID
        BY <1>1, <1>6, <3>1, FirstEdgeIsVisited
      <4>2. V2E'[v] = FirstEdge(E2E, V2E[v])
        BY <1>1, <3>1
      <4> QED
        BY <1>2, <3>1, <4>1, <4>2
    <3>2. CASE ~Start(v)
      BY <1>1, <3>2
    <3> QED
      BY <3>1, <3>2
  <2>2. \A v \in Vertices : (Start(v) /\ HasBoundary(E2E, V2E[v]))
                            = (V2E'[v] # INVALID /\ Before(E2E, V2E'[v]) = INVALID)
    BY <2>1 DEF Start, HasBoundary
  <2> QED
    BY <1>1, <2>2, Zenon
<1>9. EdgesOf(F) = Edges
  BY DEF Edges
<1> DEFINE outcome(V, B) == [V2E |-> V, E2E |-> E2E, nonManifold |-> marks, boundary |-> B]
           ends(V) == [v \in Vertices |-> V[v] # INVALID /\ Before(E2E, V[v]) = INVALID]
<1>10. {outcome(V, ends(V)) : V \in Selections(firsts, INVALID)} \subseteq EdgeMapsOf(F, Vertices)
  <2> DEFINE fansOf(E) == [v \in Vertices |-> IF marks[v] THEN {} ELSE {FirstEdge(E, e) : e \in OutgoingIn(F, v)}]
             resultOf(E, V) == [V2E |-> V, E2E |-> E, nonManifold |-> marks,
                                boundary |-> [v \in Vertices |-> V[v] # INVALID /\ Before(E, V[v]) = INVALID]]
             resultsOf(E) == {resultOf(E, V) : V \in Selections(fansOf(E), INVALID)}
  <2>1. EdgeMapsOf(F, Vertices) = UNION {resultsOf(E) : E \in Selections(opposites, INVALID)}
    BY <1>9 DEF EdgeMapsOf
  <2>2. resultsOf(E2E) = {outcome(V, ends(V)) : V \in Selections(firsts, INVALID)}
    OBVIOUS
  <2> HIDE DEF resultsOf, opposites
  <2>3. resultsOf(E2E) \subseteq EdgeMapsOf(F, Vertices)
    BY <1>4, <2>1
  <2> QED
    BY <2>2, <2>3
<1> HIDE DEF firsts, marks
<1> QED
  BY <1>5, <1>7, <1>8, <1>10

-----------------------------------------------------------------------------
(* The theorems.                                                           *)

ResultIsEdgeMap ==
    pass = "done" =>
        [V2E |-> V2E, E2E |-> E2E, nonManifold |-> nonManifold, boundary |-> boundary]
            \in EdgeMapsOf(F, Vertices)

EdgeMapInv == BuildInv /\ ResultIsEdgeMap

(* Steps of DirectedEdge keep the result. *)
LEMMA NextKeepsEdgeMap ==
    ASSUME EdgeMapInv, [Next]_vars
    PROVE  EdgeMapInv'
<1>1. BuildInv'
  BY NextKeeps DEF EdgeMapInv
<1>3. ASSUME pass' = "done"
      PROVE  [V2E |-> V2E', E2E |-> E2E', nonManifold |-> nonManifold', boundary |-> boundary']
                \in EdgeMapsOf(F', Vertices')
  <2>1. CASE Turn
    <3>1. UNCHANGED <<F, E2E, nonManifold>>
      BY <2>1 DEF Turn
    <3> QED
      BY <2>1, <3>1, TurnBuilds DEF EdgeMapInv, Vertices
  <2>2. CASE UNCHANGED vars
    BY <1>3, <2>2 DEF EdgeMapInv, ResultIsEdgeMap, Vertices, vars, lists, result
  <2>3. CASE (\E w \in Workers : Worker(w)) \/ NextPass
    <3>1. ASSUME NEW w \in Workers, Worker(w)
          PROVE  pass' = pass /\ pass # "done"
      <4>1. pass' = pass
        BY <3>1 DEF Worker, TakeFace, BeginInsert, HeadCas, HeadRead, TailCas, TailRead, Search, Flag, Link, LinkBack
      <4>2. pc[w] # "idle" \/ pass \in {"insert", "search"}
        BY <3>1 DEF Worker, TakeFace, BeginInsert, HeadCas, HeadRead, TailCas, TailRead, Search, Flag, Link, LinkBack
      <4> QED
        BY <4>1, <4>2 DEF EdgeMapInv, BuildInv, WorkersKnow, Knows
    <3> QED
      BY <1>3, <2>3, <3>1 DEF NextPass
  <2> QED
    BY <2>1, <2>2, <2>3 DEF Next, Finished
<1> QED
  BY <1>1, <1>3 DEF EdgeMapInv, ResultIsEdgeMap

(* Before the step, the state of the build is the first one.               *)
LEMMA InitEdgeMap ==
    ASSUME Init
    PROVE  EdgeMapInv
  BY InitBuild DEF EdgeMapInv, ResultIsEdgeMap, Init

(* Once the result is handed on, its lists are freed and nothing is left   *)
(* to be known.                                                            *)
LEMMA FreeKeepsEdgeMap ==
    ASSUME EdgeMapInv, Free, pass = "done"
    PROVE  EdgeMapInv'
<1>1. UNCHANGED <<F, V2E, E2E, nonManifold, boundary, pass, todo, thrown>>
  BY DEF Free, result
<1>2. /\ F' = F /\ V2E' = V2E /\ E2E' = E2E /\ nonManifold' = nonManifold /\ boundary' = boundary
      /\ pass' = "done" /\ todo' = todo /\ thrown' = thrown
      /\ first' = [e \in Edges |-> 0] /\ second' = [e \in Edges |-> 0]
      /\ pc' = [w \in Workers |-> "idle"] /\ cur' = [w \in Workers |-> 0]
      /\ idx' = [w \in Workers |-> INVALID]
  BY <1>1 DEF Free
<1>3. Edges' = Edges /\ Vertices' = Vertices /\ Faces' = Faces
  BY <1>2 DEF Edges, Vertices, Faces
<1>4. TypeOK'
  <2>1. TypeOK /\ F \in Meshes
    BY DEF EdgeMapInv, BuildInv, TypeOK
  <2>2. 0 \in Vertices
    BY <2>1, VertexCountAssumption DEF Vertices
  <2>3. Edges # {} => 0 \in Edges
    BY <2>1, EdgesContainZero
  <2> QED
    BY <1>2, <1>3, <2>1, <2>2, <2>3 DEF TypeOK, Pcs
<1>5. WorkersApart' /\ WorkersKnow'
  BY <1>2 DEF WorkersApart, WorkersKnow, Knows
<1>6. ListsAreChains'
  BY <1>2 DEF ListsAreChains
<1>7. EntriesAreSound'
  <2>1. EntriesAreSound
    BY DEF EdgeMapInv, BuildInv
  <2>2. \A e : Entered(e)
    BY DEF Entered
  <2> QED
    BY <1>2, <1>3, <2>1, <2>2 DEF EntriesAreSound, OutOfBounds, Source, Target
<1>8. SearchIsSound' /\ SearchIsComplete'
  <2>1. SearchIsSound /\ SearchIsComplete
    BY DEF EdgeMapInv, BuildInv
  <2>2. \A e : Searched(e)
    BY DEF Searched
  <2> QED
    BY <1>2, <1>3, <2>1, <2>2 DEF SearchIsSound, SearchIsComplete, Source, Target
<1>9. ResultIsEdgeMap'
  BY <1>2, <1>3 DEF EdgeMapInv, ResultIsEdgeMap
<1> QED
  BY <1>4, <1>5, <1>6, <1>7, <1>8, <1>9 DEF EdgeMapInv, BuildInv

(* The other calls of the preparation leave the result alone.              *)
LEMMA PreparationKeepsEdgeMap ==
    ASSUME EdgeMapInv, [PreparationNext]_preparation
    PROVE  EdgeMapInv'
<1>1. CASE BuildStep
  BY <1>1, NextKeepsEdgeMap DEF BuildStep
<1>2. CASE FineEnough \/ TooCoarse
  BY <1>2, FreeKeepsEdgeMap DEF FineEnough, TooCoarse
<1>3. CASE UNCHANGED vars
  BY <1>3, NextKeepsEdgeMap
<1>4. CASE SubdivideStep \/ BuildAgain \/ LinkVertices
  BY <1>3, <1>4 DEF SubdivideStep, BuildAgain, LinkVertices
<1>5. CASE SearchNeighbors \/ LinkPoints \/ PointsAreLinked
  BY <1>3, <1>5 DEF SearchNeighbors, LinkPoints, PointsAreLinked
<1>6. CASE BuildLevels \/ Prepared \/ UNCHANGED preparation
  BY <1>3, <1>6 DEF BuildLevels, Prepared, preparation
<1> QED
  BY <1>1, <1>2, <1>4, <1>5, <1>6 DEF PreparationNext

LEMMA InvImpliesBuilds ==
    ASSUME EdgeMapInv
    PROVE  ListInv /\ BuildsEdgeMap
<1>1. ListInv /\ OppositesAreMutual
  BY InvImpliesListInv, InvImpliesMutual DEF EdgeMapInv
<1> QED
  BY <1>1 DEF EdgeMapInv, ResultIsEdgeMap, BuildsEdgeMap

(* build_dedge alone: for every mesh, number of threads and order of their *)
(* steps, no insertion is lost, and the search finds the lists complete.   *)
THEOREM BuildKeepsLists == Spec => []ListInv
<1>1. Init => EdgeMapInv
  BY InitEdgeMap
<1>2. EdgeMapInv /\ [Next]_vars => EdgeMapInv'
  BY NextKeepsEdgeMap
<1>3. EdgeMapInv => ListInv
  BY InvImpliesBuilds
<1> QED
  BY <1>1, <1>2, <1>3, PTL DEF Spec

(* The same, as the preparation of a mesh calls it.                        *)
THEOREM PreparationKeepsLists == PreparationSpec => []ListInv
<1>1. PreparationInit => EdgeMapInv
  BY InitEdgeMap DEF PreparationInit
<1>2. EdgeMapInv /\ [PreparationNext]_preparation => EdgeMapInv'
  BY PreparationKeepsEdgeMap
<1>3. EdgeMapInv => ListInv
  BY InvImpliesBuilds
<1> QED
  BY <1>1, <1>2, <1>3, PTL DEF PreparationSpec

(* build_dedge implements EdgeMapsOf: opposites are mutual, and the result *)
(* is one of those that the mesh alone admits.                             *)
THEOREM BuildGivesEdgeMap == Spec => []BuildsEdgeMap
<1>1. Init => EdgeMapInv
  BY InitEdgeMap
<1>2. EdgeMapInv /\ [Next]_vars => EdgeMapInv'
  BY NextKeepsEdgeMap
<1>3. EdgeMapInv => BuildsEdgeMap
  BY InvImpliesBuilds
<1> QED
  BY <1>1, <1>2, <1>3, PTL DEF Spec

(* The same, as the preparation of a mesh calls it: what it subdivides or  *)
(* links is such a result.                                                 *)
THEOREM PreparationGetsEdgeMap == PreparationSpec => []BuildsEdgeMap
<1>1. PreparationInit => EdgeMapInv
  BY InitEdgeMap DEF PreparationInit
<1>2. EdgeMapInv /\ [PreparationNext]_preparation => EdgeMapInv'
  BY PreparationKeepsEdgeMap
<1>3. EdgeMapInv => BuildsEdgeMap
  BY InvImpliesBuilds
<1> QED
  BY <1>1, <1>2, <1>3, PTL DEF PreparationSpec

-----------------------------------------------------------------------------
(* That the turns end.                                                     *)

(* A walk whose steps can be undone comes back to where it began: it does  *)
(* not repeat an edge without having repeated the first one before.        *)
LEMMA WalkReturns ==
    ASSUME NEW S, IsFiniteSet(S), NEW walk, NEW undo,
           \A n \in 0 .. Cardinality(S) : walk[n] \in S,
           \A n \in 1 .. Cardinality(S) : undo[walk[n]] = walk[n - 1]
    PROVE  \E n \in 1 .. Cardinality(S) : walk[n] = walk[0]
<1>0. ASSUME NEW D, NEW f \in [D -> S], IsFiniteSet(D), Cardinality(S) < Cardinality(D)
      PROVE  \E x, y \in D : x # y /\ f[x] = f[y]
  BY <1>0, FS_PigeonHole
<1> DEFINE size == Cardinality(S)
           I == {i \in 0 .. size : \E j \in 0 .. size : i < j /\ walk[i] = walk[j]}
<1>1. size \in Nat
  BY FS_CardinalityType
<1>2. I # {}
  <2> DEFINE f == [n \in 0 .. size |-> walk[n]]
  <2>1. f \in [0 .. size -> S]
    OBVIOUS
  <2>2. IsFiniteSet(0 .. size) /\ Cardinality(S) < Cardinality(0 .. size)
    <3>1. IsFiniteSet(0 .. size) /\ Cardinality(0 .. size) = IF 0 > size THEN 0 ELSE size - 0 + 1
      BY <1>1, FS_Interval
    <3> QED
      BY <1>1, <3>1
  <2>3. \E x, y \in 0 .. size : x # y /\ f[x] = f[y]
    <3> HIDE DEF f, size
    <3> QED
      BY <1>0, <2>1, <2>2
  <2>4. PICK x \in 0 .. size, y \in 0 .. size : x # y /\ walk[x] = walk[y]
    BY <2>3
  <2>5. x < y \/ y < x
    BY <1>1, <2>4
  <2> QED
    BY <2>4, <2>5
<1>3. PICK i \in I : \A k \in I : i <= k
  <2>1. I \subseteq Nat
    BY <1>1
  <2> HIDE DEF I
  <2> QED
    BY <1>2, <2>1, HasLeast
<1>4. PICK j \in 0 .. size : i < j /\ walk[i] = walk[j]
  BY <1>3
<1>5. CASE i = 0
  <2>1. j \in 1 .. size
    BY <1>1, <1>4, <1>5
  <2> QED
    BY <1>4, <1>5, <2>1
<1>6. CASE i # 0
  <2>1. /\ i \in 1 .. size /\ j \in 1 .. size
        /\ i - 1 \in 0 .. size /\ j - 1 \in 0 .. size /\ i - 1 < j - 1 /\ ~(i <= i - 1)
    BY <1>1, <1>3, <1>4, <1>6
  <2>2. walk[i - 1] = walk[j - 1]
    BY <1>4, <2>1
  <2>3. i - 1 \in I
    BY <2>1, <2>2
  <2> HIDE DEF I
  <2> QED
    BY <1>3, <2>1, <2>3
<1> QED
  BY <1>5, <1>6

(* Every turn comes to an end: what Turn asks for, and the loop of the     *)
(* third pass relies on (dedge.cpp:108-139).                               *)
EveryTurnEnds ==
    pass = "turn" => \A v \in Vertices : Start(v) => Visited(E2E, V2E[v]) # {}

(* Around a vertex that was not marked the opposites are mutual, and the   *)
(* turn never leaves the vertex.                                           *)
LEMMA InvImpliesEnds ==
    ASSUME BuildInv
    PROVE  EveryTurnEnds
<1> SUFFICES ASSUME pass = "turn", NEW v \in Vertices, Start(v), Visited(E2E, V2E[v]) = {}
             PROVE  FALSE
  BY DEF EveryTurnEnds
<1>1. /\ TypeOK /\ ListsAreChains /\ SearchIsSound /\ F \in Meshes
      /\ E2E \in [Edges -> Edges \cup {INVALID}]
      /\ OppositesAreMutual
      /\ V2E[v] # INVALID /\ ~nonManifold[v]
  BY InvImpliesMutual DEF BuildInv, TypeOK, Start
<1>2. V2E[v] \in OutgoingIn(F, v) /\ OutgoingIn(F, v) \subseteq Edges
  <2>1. PICK rank \in [Edges -> Nat] : Chained(rank)
    BY <1>1 DEF ListsAreChains
  <2>2. V2E[v] \in Listed(v)
    BY <1>1, <2>1 DEF Chained
  <2> QED
    BY <2>2, ListedAreEdges
<1> DEFINE size == Cardinality(Edges)
           start == V2E[v]
<1>3. /\ IsFiniteSet(Edges) /\ size \in Nat /\ INVALID \notin Edges
  BY <1>1, EdgesAreCorners, FS_CardinalityType, InvalidAssumption
<1>4. PICK walk \in Walks(Edges \cup {INVALID}, start, TurnStep(E2E), Cardinality(Edges)) :
        \A n \in 1 .. Cardinality(Edges) : walk[n] \notin {INVALID, start}
  <2>1. \E walk \in Walks(Edges \cup {INVALID}, start, TurnStep(E2E), Cardinality(Edges)) :
          \/ /\ Visited(E2E, start) = {}
             /\ \A n \in 1 .. Cardinality(Edges) : walk[n] \notin {INVALID, start}
          \/ \E n \in 1 .. Cardinality(Edges) :
               /\ walk[n] \in {INVALID, start}
               /\ \A k \in 1 .. n - 1 : walk[k] \notin {INVALID, start}
               /\ Visited(E2E, start) = {walk[k] : k \in 0 .. n - 1}
    BY <1>1, <1>2, VisitedIsWalked, Zenon
  <2>2. \A walk : \A n \in 1 .. Cardinality(Edges) : {walk[k] : k \in 0 .. n - 1} # {}
    <3>1. \A n \in 1 .. Cardinality(Edges) : 0 \in 0 .. n - 1
      BY <1>3
    <3> QED
      BY <3>1
  <2> QED
    BY <2>1, <2>2
<1>5. /\ walk[0] = start
      /\ \A n \in 0 .. size : walk[n] \in Edges
      /\ \A n \in 1 .. size : n - 1 \in 0 .. size /\ walk[n] = E2E[dedge_prev(walk[n - 1])]
  <2>1. walk[0] = start /\ \A n \in 0 .. size : walk[n] \in Edges \cup {INVALID}
    BY DEF Walks
  <2>2. \A n \in 0 .. size : n # 0 => n \in 1 .. size
    BY <1>3
  <2>3. \A n \in 0 .. size : walk[n] \in Edges
    BY <1>2, <1>4, <2>1, <2>2
  <2>4. \A n \in 1 .. size : n - 1 \in 0 .. size /\ n \in 0 .. size
    BY <1>3
  <2>5. \A n \in 1 .. size : walk[n] = TurnStep(E2E)[walk[n - 1]]
    BY DEF Walks
  <2> QED
    BY <1>3, <2>1, <2>3, <2>4, <2>5 DEF TurnStep, Before
<1>6. ASSUME NEW e \in OutgoingIn(F, v), NEW x \in Edges, x = E2E[dedge_prev(e)]
      PROVE  x \in OutgoingIn(F, v) /\ dedge_next(E2E[x]) = e
  <2> DEFINE p == dedge_prev(e)
  <2>1. /\ p \in Edges /\ dedge_next(p) = e /\ Source(e) = v
    BY <1>1, <1>2, CornerBefore DEF OutgoingIn, Source
  <2>2. Target(p) = v
    BY <2>1 DEF Target, TargetIn, Source
  <2>3. E2E[p] # INVALID
    BY <1>3, <1>6
  <2>4. p \in ProperEdges(F)
    BY <1>1, <2>1, <2>3 DEF SearchIsSound, Linkers
  <2>5. ReverseIn(F, p) = {x} /\ E2E[x] = p
    BY <1>1, <1>6, <2>2, <2>3, <2>4 DEF OppositesAreMutual
  <2> HIDE DEF p
  <2>6. x \in OutgoingIn(F, v)
    BY <2>2, <2>5 DEF ReverseIn, Target
  <2> QED
    BY <2>1, <2>5, <2>6
<1>7. \A n \in 0 .. size : walk[n] \in OutgoingIn(F, v)
  <2> DEFINE J == {n \in Nat : n \in 0 .. size => walk[n] \in OutgoingIn(F, v)}
  <2>1. 0 \in J
    BY <1>2, <1>5
  <2>2. ASSUME NEW n \in Nat, n \in J
        PROVE  n + 1 \in J
    <3> SUFFICES ASSUME n + 1 \in 0 .. size PROVE walk[n + 1] \in OutgoingIn(F, v)
      OBVIOUS
    <3>1. n + 1 \in 1 .. size /\ (n + 1) - 1 = n /\ n \in 0 .. size
      BY <1>3
    <3>2. walk[n] \in OutgoingIn(F, v) /\ walk[n + 1] \in Edges /\ walk[n + 1] = E2E[dedge_prev(walk[n])]
      BY <1>5, <2>2, <3>1
    <3> QED
      BY <1>6, <3>2
  <2> HIDE DEF J
  <2>3. \A n \in Nat : n \in J
    BY <2>1, <2>2, SetInduction
  <2> QED
    BY <1>3, <2>3 DEF J
<1>8. \E n \in 1 .. size : walk[n] = walk[0]
  <2> DEFINE undo == [x \in Edges |-> dedge_next(E2E[x])]
  <2>1. \A n \in 1 .. size : undo[walk[n]] = walk[n - 1]
    <3> SUFFICES ASSUME NEW n \in 1 .. size PROVE undo[walk[n]] = walk[n - 1]
      OBVIOUS
    <3>1. n - 1 \in 0 .. size /\ n \in 0 .. size /\ walk[n] = E2E[dedge_prev(walk[n - 1])]
      BY <1>3, <1>5
    <3>2. walk[n] \in Edges /\ walk[n - 1] \in OutgoingIn(F, v)
      BY <1>5, <1>7, <3>1
    <3> QED
      BY <1>6, <3>1, <3>2
  <2> HIDE DEF undo
  <2> QED
    BY <1>3, <1>5, <2>1, WalkReturns
<1> QED
  BY <1>4, <1>5, <1>8

(* No turn of the third pass goes round for ever, for every mesh.          *)
THEOREM TurnsEnd == PreparationSpec => []EveryTurnEnds
<1>1. PreparationInit => EdgeMapInv
  BY InitEdgeMap DEF PreparationInit
<1>2. EdgeMapInv /\ [PreparationNext]_preparation => EdgeMapInv'
  BY PreparationKeepsEdgeMap
<1>3. EdgeMapInv => EveryTurnEnds
  BY InvImpliesEnds DEF EdgeMapInv
<1> QED
  BY <1>1, <1>2, <1>3, PTL DEF PreparationSpec

-----------------------------------------------------------------------------
(* The levels (DownsampleGraph).                                           *)

(* Sequences whose entries need no type.                                   *)
IsSequence(s) == s \in Seq(Range(s))

LEMMA Appending ==
    ASSUME NEW s, IsSequence(s), NEW x
    PROVE  /\ IsSequence(Append(s, x))
           /\ Len(s) \in Nat /\ DOMAIN s = 1 .. Len(s)
           /\ Len(Append(s, x)) = Len(s) + 1
           /\ DOMAIN Append(s, x) = 1 .. Len(s) + 1
           /\ Append(s, x)[Len(s) + 1] = x
           /\ \A k \in DOMAIN s : Append(s, x)[k] = s[k]
           /\ Range(Append(s, x)) = Range(s) \cup {x}
<1> DEFINE T == Range(s) \cup {x}
           t == Append(s, x)
<1>1. s \in Seq(Range(s))
  BY DEF IsSequence
<1>2. \A k \in 1 .. Len(s) : s[k] \in Range(s)
  BY <1>1
<1>3. s \in Seq(T) /\ x \in T
  BY <1>1, <1>2
<1>4. /\ Len(s) \in Nat /\ DOMAIN s = 1 .. Len(s)
      /\ t \in Seq(T) /\ Len(t) = Len(s) + 1 /\ t[Len(s) + 1] = x
      /\ \A k \in 1 .. Len(s) : t[k] = s[k]
      /\ DOMAIN t = 1 .. Len(s) + 1
  BY <1>3
<1>5. Range(t) = T
  <2>1. \A k \in DOMAIN t : k \in DOMAIN s \/ k = Len(s) + 1
    BY <1>4
  <2>2. Range(t) \subseteq T
    <3> SUFFICES ASSUME NEW k \in DOMAIN t PROVE t[k] \in T
      BY DEF Range
    <3> QED
      BY <1>4, <2>1 DEF Range
  <2>3. Range(s) \subseteq Range(t)
    BY <1>4 DEF Range
  <2>4. x \in Range(t)
    <3>1. Len(s) + 1 \in DOMAIN t
      BY <1>4
    <3> QED
      BY <1>4, <3>1 DEF Range
  <2> QED
    BY <2>2, <2>3, <2>4
<1> QED
  BY <1>4, <1>5 DEF IsSequence

(* The entries of a pair ... *)
LEMMA PairEntries ==
    ASSUME NEW u, NEW v
    PROVE  Len(<<u, v>>) = 2 /\ <<u, v>>[1] = u /\ <<u, v>>[2] = v /\ Range(<<u, v>>) = {u, v}
<1>1. DOMAIN <<u, v>> = {1, 2}
  OBVIOUS
<1>2. Range(<<u, v>>) = {<<u, v>>[k] : k \in {1, 2}}
  BY <1>1 DEF Range
<1> QED
  BY <1>2

(* ... and of a vertex alone. *)
LEMMA SingleEntry ==
    ASSUME NEW u
    PROVE  Len(<<u>>) = 1 /\ <<u>>[1] = u /\ Range(<<u>>) = {u} /\ IsSequence(<<u>>)
<1>1. DOMAIN <<u>> = {1}
  OBVIOUS
<1>2. Range(<<u>>) = {<<u>>[k] : k \in {1}}
  BY <1>1 DEF Range
<1> QED
  BY <1>2 DEF IsSequence

(* The hierarchy's own name for the entries of a sequence. *)
LEMMA SameRange == \A f : Down!Range(f) = Range(f)
  BY DEF Down!Range, Range

(* The vertices that are in a pair, and those that are not. *)
InPair(v) == \E k \in DOMAIN collapsed : Len(collapsed[k]) = 2 /\ v \in Range(collapsed[k])

(* The pairs and, at last, the single vertices, are apart; pairs were      *)
(* linked; when the pairs are complete, no link is left between vertices   *)
(* outside of pairs.                                                       *)
Places(D) == {<<pair[1], pair[2]>> : pair \in D \X D} \cup {<<v>> : v \in D}

PairsAreApart ==
    \A k, l \in DOMAIN collapsed : k # l => Range(collapsed[k]) \cap Range(collapsed[l]) = {}

PairsWereLinked ==
    \A k \in DOMAIN collapsed :
        Len(collapsed[k]) = 2 => Down!Linked(Down!adjacent, collapsed[k][1], collapsed[k][2])

PairsAreComplete ==
    IF copying
    THEN \A u, v \in DOMAIN Down!adjacent :
            ~InPair(u) /\ ~InPair(v) => ~Down!Linked(Down!adjacent, u, v)
    ELSE \A k \in DOMAIN collapsed : Len(collapsed[k]) = 2

HierarchyInv ==
    /\ IsSequence(levels) /\ Len(levels) > 0
    /\ IsSequence(collapsed) /\ Range(collapsed) \subseteq Places(DOMAIN Down!adjacent)
    /\ PairsAreApart
    /\ PairsWereLinked
    /\ PairsAreComplete
    /\ Down!LevelsMatch

LEMMA PlaceEntries ==
    ASSUME NEW D, NEW p \in Places(D)
    PROVE  \/ Len(p) = 2 /\ p[1] \in D /\ p[2] \in D /\ Range(p) = {p[1], p[2]}
           \/ Len(p) = 1 /\ p[1] \in D /\ Range(p) = {p[1]}
<1>1. CASE \E pair \in D \X D : p = <<pair[1], pair[2]>>
  <2>1. PICK pair \in D \X D : p = <<pair[1], pair[2]>>
    BY <1>1
  <2>2. PICK u, v : u = pair[1] /\ v = pair[2]
    OBVIOUS
  <2>3. u \in D /\ v \in D /\ p = <<u, v>>
    BY <2>1, <2>2
  <2> QED
    BY <2>3, PairEntries
<1>2. CASE \E v \in D : p = <<v>>
  BY <1>2, SingleEntry
<1> QED
  BY <1>1, <1>2 DEF Places

LEMMA EmptySequence == IsSequence(<< >>) /\ Range(<< >>) = {} /\ DOMAIN << >> = {} /\ Len(<< >>) = 0
  BY DEF IsSequence, Range

LEMMA BeginLevelsStarts ==
    ASSUME NEW a, Down!BeginLevels(a)
    PROVE  HierarchyInv'
<1>1. levels' = << Down!Finest(a) >> /\ collapsed' = << >> /\ copying' = FALSE
  BY DEF Down!BeginLevels
<1>2. IsSequence(<< Down!Finest(a) >>) /\ Len(<< Down!Finest(a) >>) = 1
  BY SingleEntry
<1>3. (IsSequence(levels) /\ Len(levels) = 1)'
  BY <1>1, <1>2
<1>4. (IsSequence(collapsed) /\ Range(collapsed) = {} /\ DOMAIN collapsed = {})'
  BY <1>1, EmptySequence
<1>5. (PairsAreApart /\ PairsWereLinked /\ PairsAreComplete)'
  BY <1>1, <1>4 DEF PairsAreApart, PairsWereLinked, PairsAreComplete
<1>6. Down!LevelsMatch'
  BY <1>3 DEF Down!LevelsMatch, Down!IsNew
<1> QED
  BY <1>3, <1>4, <1>5, <1>6 DEF HierarchyInv

LEMMA CollapseKeeps ==
    ASSUME HierarchyInv, Down!Collapse
    PROVE  HierarchyInv'
<1>1. PICK pair \in Down!Eligible : collapsed' = Append(collapsed, <<pair[1], pair[2]>>)
  BY DEF Down!Collapse
<1>2. PICK u, v : u = pair[1] /\ v = pair[2]
  OBVIOUS
<1> DEFINE D == DOMAIN Down!adjacent
           n == Len(collapsed)
<1>3. /\ u \in D /\ v \in D /\ Down!Linked(Down!adjacent, u, v)
      /\ ~Down!mergeFlag(u) /\ ~Down!mergeFlag(v)
      /\ collapsed' = Append(collapsed, <<u, v>>)
  BY <1>1, <1>2 DEF Down!Eligible
<1>4. levels' = levels /\ copying' = FALSE /\ ~copying
  BY DEF Down!Collapse
<1>5. Down!adjacent' = Down!adjacent
  BY <1>4 DEF Down!adjacent
<1>6. /\ IsSequence(collapsed') /\ n \in Nat /\ DOMAIN collapsed = 1 .. n
      /\ DOMAIN collapsed' = 1 .. n + 1 /\ collapsed'[n + 1] = <<u, v>>
      /\ \A k \in DOMAIN collapsed : collapsed'[k] = collapsed[k]
      /\ Range(collapsed') = Range(collapsed) \cup {<<u, v>>}
  BY <1>3, Appending DEF HierarchyInv
<1>7. \A k \in DOMAIN collapsed' : k \in DOMAIN collapsed \/ k = n + 1
  BY <1>6
<1>8. (Range(collapsed) \subseteq Places(DOMAIN Down!adjacent))'
  <2>1. <<u, v>> \in Places(D)
    <3>1. <<u, v>> \in D \X D /\ <<u, v>>[1] = u /\ <<u, v>>[2] = v
      BY <1>3
    <3> QED
      BY <3>1 DEF Places
  <2> QED
    BY <1>5, <1>6, <2>1 DEF HierarchyInv
<1>9. \A k \in DOMAIN collapsed : Range(collapsed[k]) \cap {u, v} = {}
  BY <1>3, SameRange DEF Down!mergeFlag
<1>10. PairsAreApart'
  <2>1. Range(collapsed'[n + 1]) = {u, v}
    BY <1>6, PairEntries
  <2>2. \A k, l \in DOMAIN collapsed : k # l => Range(collapsed[k]) \cap Range(collapsed[l]) = {}
    BY DEF HierarchyInv, PairsAreApart
  <2>3. ASSUME NEW k \in DOMAIN collapsed', NEW l \in DOMAIN collapsed', k # l
        PROVE  Range(collapsed'[k]) \cap Range(collapsed'[l]) = {}
    <3>1. CASE k \in DOMAIN collapsed /\ l \in DOMAIN collapsed
      BY <1>6, <2>2, <2>3, <3>1
    <3>2. CASE k = n + 1 \/ l = n + 1
      BY <1>6, <1>7, <1>9, <2>1, <2>3, <3>2
    <3> QED
      BY <1>7, <3>1, <3>2
  <2> QED
    BY <2>3 DEF PairsAreApart
<1>11. PairsWereLinked'
  BY <1>3, <1>5, <1>6, <1>7, PairEntries DEF HierarchyInv, PairsWereLinked
<1>12. PairsAreComplete'
  <2>1. Len(collapsed'[n + 1]) = 2
    BY <1>6, PairEntries
  <2>2. \A k \in DOMAIN collapsed : Len(collapsed[k]) = 2
    BY <1>4 DEF HierarchyInv, PairsAreComplete
  <2>3. \A k \in DOMAIN collapsed' : Len(collapsed'[k]) = 2
    BY <1>6, <1>7, <2>1, <2>2
  <2> QED
    BY <1>4, <2>3 DEF PairsAreComplete
<1>13. Down!LevelsMatch'
  <2>1. collapsed' # << >>
    BY <1>6, EmptySequence
  <2> QED
    BY <2>1 DEF Down!LevelsMatch, Down!IsNew
<1> QED
  BY <1>4, <1>6, <1>8, <1>10, <1>11, <1>12, <1>13 DEF HierarchyInv

LEMMA CollapsingEndsKeeps ==
    ASSUME HierarchyInv, Down!CollapsingEnds
    PROVE  HierarchyInv'
<1>1. levels' = levels /\ collapsed' = collapsed /\ copying' = TRUE /\ ~copying /\ Down!Eligible = {}
  BY DEF Down!CollapsingEnds
<1>2. Down!adjacent' = Down!adjacent
  BY <1>1 DEF Down!adjacent
<1>3. (PairsAreApart /\ PairsWereLinked)'
  BY <1>1, <1>2 DEF HierarchyInv, PairsAreApart, PairsWereLinked
<1>4. PairsAreComplete'
  <2>1. ASSUME NEW u \in DOMAIN Down!adjacent, NEW v \in DOMAIN Down!adjacent, ~InPair(u), ~InPair(v)
        PROVE  ~Down!Linked(Down!adjacent, u, v)
    <3>1. ~Down!mergeFlag(u) /\ ~Down!mergeFlag(v)
      BY <1>1, <2>1, SameRange DEF HierarchyInv, PairsAreComplete, InPair, Down!mergeFlag
    <3>2. <<u, v>> \in (DOMAIN Down!adjacent) \X (DOMAIN Down!adjacent) /\ <<u, v>>[1] = u /\ <<u, v>>[2] = v
      OBVIOUS
    <3>3. <<u, v>> \notin Down!Eligible
      BY <1>1
    <3> QED
      BY <3>1, <3>2, <3>3 DEF Down!Eligible
  <2> QED
    BY <1>1, <1>2, <2>1 DEF PairsAreComplete, InPair
<1>5. Down!LevelsMatch'
  BY <1>1 DEF Down!LevelsMatch, Down!IsNew
<1> QED
  BY <1>1, <1>2, <1>3, <1>4, <1>5 DEF HierarchyInv

LEMMA CopyKeeps ==
    ASSUME HierarchyInv, Down!copy_uncollapsed
    PROVE  HierarchyInv'
<1>1. PICK v \in Down!Uncollapsed : collapsed' = Append(collapsed, <<v>>)
  BY DEF Down!copy_uncollapsed
<1> DEFINE D == DOMAIN Down!adjacent
           n == Len(collapsed)
<1>2. v \in D /\ ~Down!mergeFlag(v)
  BY <1>1 DEF Down!Uncollapsed
<1>3. levels' = levels /\ copying' = copying /\ copying
  BY DEF Down!copy_uncollapsed
<1>4. Down!adjacent' = Down!adjacent
  BY <1>3 DEF Down!adjacent
<1>5. /\ IsSequence(collapsed') /\ n \in Nat /\ DOMAIN collapsed = 1 .. n
      /\ DOMAIN collapsed' = 1 .. n + 1 /\ collapsed'[n + 1] = <<v>>
      /\ \A k \in DOMAIN collapsed : collapsed'[k] = collapsed[k]
      /\ Range(collapsed') = Range(collapsed) \cup {<<v>>}
  BY <1>1, Appending DEF HierarchyInv
<1>6. \A k \in DOMAIN collapsed' : k \in DOMAIN collapsed \/ k = n + 1
  BY <1>5
<1>7. (Range(collapsed) \subseteq Places(DOMAIN Down!adjacent))'
  BY <1>2, <1>4, <1>5 DEF HierarchyInv, Places
<1>8. \A k \in DOMAIN collapsed : v \notin Range(collapsed[k])
  BY <1>2, SameRange DEF Down!mergeFlag
<1>9. PairsAreApart'
  <2>1. Range(collapsed'[n + 1]) = {v}
    BY <1>5, SingleEntry
  <2>2. \A k, l \in DOMAIN collapsed : k # l => Range(collapsed[k]) \cap Range(collapsed[l]) = {}
    BY DEF HierarchyInv, PairsAreApart
  <2>3. ASSUME NEW k \in DOMAIN collapsed', NEW l \in DOMAIN collapsed', k # l
        PROVE  Range(collapsed'[k]) \cap Range(collapsed'[l]) = {}
    <3>1. CASE k \in DOMAIN collapsed /\ l \in DOMAIN collapsed
      BY <1>5, <2>2, <2>3, <3>1
    <3>2. CASE k = n + 1 \/ l = n + 1
      BY <1>5, <1>6, <1>8, <2>1, <2>3, <3>2
    <3> QED
      BY <1>6, <3>1, <3>2
  <2> QED
    BY <2>3 DEF PairsAreApart
<1>10. PairsWereLinked'
  BY <1>4, <1>5, <1>6, SingleEntry DEF HierarchyInv, PairsWereLinked
<1>11. PairsAreComplete'
  <2>1. \A x : InPair(x) => InPair(x)'
    BY <1>5 DEF InPair
  <2> QED
    BY <1>3, <1>4, <2>1 DEF HierarchyInv, PairsAreComplete
<1>12. Down!LevelsMatch'
  BY <1>3 DEF Down!LevelsMatch, Down!IsNew
<1> QED
  BY <1>3, <1>5, <1>7, <1>9, <1>10, <1>11, <1>12 DEF HierarchyInv

(* The maps of a complete matching agree, and keep what is known of the    *)
(* pairs.                                                                  *)
LEMMA CoarsenKeeps ==
    ASSUME HierarchyInv, Down!Coarsen
    PROVE  HierarchyInv'
<1> DEFINE D == DOMAIN Down!adjacent
           n == Len(collapsed)
           up == Down!to_upper
           down == Down!to_lower
           level == [adj |-> [i \in DOMAIN up |-> Down!CoarseLinks(i)], to_upper |-> up, to_lower |-> down]
<1>1. /\ copying /\ Down!Uncollapsed = {}
      /\ levels' = Append(levels, level) /\ collapsed' = << >> /\ copying' = FALSE
  BY DEF Down!Coarsen
<1>2. n \in Nat /\ DOMAIN collapsed = 1 .. n
  BY Appending DEF HierarchyInv
<1>3. up = [i \in 0 .. n - 1 |-> collapsed[i + 1]] /\ DOMAIN up = 0 .. n - 1
  BY DEF Down!to_upper
<1>4. \A i \in DOMAIN up : i + 1 \in DOMAIN collapsed /\ up[i] = collapsed[i + 1]
  <2> HIDE DEF up, n
  <2> QED
    BY <1>2, <1>3
<1>5. \A k \in DOMAIN collapsed : k - 1 \in DOMAIN up /\ up[k - 1] = collapsed[k]
  <2> HIDE DEF up, n
  <2>1. \A k \in 1 .. n : k - 1 \in 0 .. n - 1 /\ (k - 1) + 1 = k
    BY <1>2
  <2> QED
    BY <1>2, <1>3, <2>1
<1>6. \A i \in DOMAIN up :
        \/ Len(up[i]) = 2 /\ up[i][1] \in D /\ up[i][2] \in D /\ Range(up[i]) = {up[i][1], up[i][2]}
        \/ Len(up[i]) = 1 /\ up[i][1] \in D /\ Range(up[i]) = {up[i][1]}
  <2>1. \A k \in DOMAIN collapsed : collapsed[k] \in Places(D)
    BY DEF HierarchyInv, Range
  <2> HIDE DEF up, D
  <2> QED
    BY <1>4, <2>1, PlaceEntries
<1>7. \A i, j \in DOMAIN up : i # j => Range(up[i]) \cap Range(up[j]) = {}
  <2> HIDE DEF up
  <2>1. ASSUME NEW i \in DOMAIN up, NEW j \in DOMAIN up, i # j
        PROVE  Range(up[i]) \cap Range(up[j]) = {}
    <3>1. i + 1 # j + 1
      BY <1>2, <1>3, <2>1
    <3> QED
      BY <1>4, <2>1, <3>1 DEF HierarchyInv, PairsAreApart
  <2> QED
    BY <2>1
<1>8. \A v \in D : \E i \in DOMAIN up : v \in Range(up[i])
  <2>1. \A v \in D : \E k \in DOMAIN collapsed : v \in Range(collapsed[k])
    BY <1>1, SameRange DEF Down!Uncollapsed, Down!mergeFlag
  <2> HIDE DEF up, D
  <2> QED
    BY <1>5, <2>1
<1>9. down = [v \in D |-> CHOOSE i \in DOMAIN up : v \in Range(up[i])]
  BY SameRange DEF Down!to_lower
<1>10. \A v \in D : down[v] \in DOMAIN up /\ v \in Range(up[down[v]])
  <2> HIDE DEF up, D, down
  <2> QED
    BY <1>8, <1>9
<1>11. \A i \in DOMAIN up : Range(up[i]) = {v \in DOMAIN down : down[v] = i}
  <2>1. DOMAIN down = D
    BY <1>9
  <2> HIDE DEF up, D, down
  <2>2. ASSUME NEW i \in DOMAIN up, NEW v
        PROVE  v \in Range(up[i]) <=> v \in D /\ down[v] = i
    <3>1. ASSUME v \in Range(up[i])
          PROVE  v \in D /\ down[v] = i
      <4>1. v \in D
        BY <1>6, <3>1
      <4>2. v \in Range(up[down[v]]) /\ down[v] \in DOMAIN up
        BY <1>10, <4>1
      <4> QED
        BY <1>7, <3>1, <4>1, <4>2
    <3> QED
      BY <1>10, <3>1
  <2> QED
    BY <2>1, <2>2
<1>12. \A i \in DOMAIN up : Len(up[i]) \in 1 .. 2
                            /\ (Len(up[i]) = 2 => Down!Linked(Down!adjacent, up[i][1], up[i][2]))
  <2> HIDE DEF up
  <2>1. \A i \in DOMAIN up : Len(up[i]) = 2 => Down!Linked(Down!adjacent, up[i][1], up[i][2])
    BY <1>4 DEF HierarchyInv, PairsWereLinked
  <2> QED
    BY <1>6, <2>1
<1>13. ASSUME NEW i \in DOMAIN up, NEW k \in DOMAIN up, i # k, Len(up[i]) = 1, Len(up[k]) = 1
       PROVE  ~Down!Linked(Down!adjacent, up[i][1], up[k][1])
  <2>1. ASSUME NEW j \in DOMAIN up, Len(up[j]) = 1
        PROVE  up[j][1] \in D /\ ~InPair(up[j][1])
    <3> HIDE DEF up, D
    <3>1. up[j][1] \in D /\ up[j][1] \in Range(up[j])
      BY <1>6, <2>1
    <3>2. ASSUME NEW l \in DOMAIN collapsed, Len(collapsed[l]) = 2, up[j][1] \in Range(collapsed[l])
          PROVE  FALSE
      <4>1. l - 1 \in DOMAIN up /\ up[l - 1] = collapsed[l]
        BY <1>5
      <4>2. l - 1 # j
        BY <2>1, <3>2, <4>1
      <4> QED
        BY <1>7, <3>1, <3>2, <4>1, <4>2
    <3> QED
      BY <3>1, <3>2 DEF InPair
  <2>2. \A u, v \in D : ~InPair(u) /\ ~InPair(v) => ~Down!Linked(Down!adjacent, u, v)
    BY <1>1 DEF HierarchyInv, PairsAreComplete
  <2> HIDE DEF up, D
  <2> QED
    BY <1>13, <2>1, <2>2
<1>14. /\ IsSequence(levels') /\ Len(levels) \in Nat /\ Len(levels') = Len(levels) + 1
       /\ levels'[Len(levels')] = level /\ levels'[Len(levels') - 1] = levels[Len(levels)]
  <2> HIDE DEF level
  <2>1. Len(levels) \in DOMAIN levels
    BY Appending DEF HierarchyInv
  <2>2. /\ IsSequence(levels') /\ Len(levels) \in Nat /\ Len(levels') = Len(levels) + 1
        /\ levels'[Len(levels) + 1] = level /\ levels'[Len(levels)] = levels[Len(levels)]
    BY <1>1, <2>1, Appending DEF HierarchyInv
  <2>3. Len(levels') - 1 = Len(levels)
    BY <2>2
  <2> QED
    BY <2>2, <2>3
<1>15. (Down!Coarsest)' = level /\ (Down!Finer)' = Down!adjacent
  <2>1. Down!Finer' = levels'[Len(levels') - 1].adj /\ Down!Coarsest' = levels'[Len(levels')]
    BY DEF Down!Finer, Down!Coarsest
  <2> QED
    BY <1>14, <2>1 DEF Down!adjacent
<1>16. Down!LevelsMatch'
  <2>1. level.to_upper = up /\ level.to_lower = down /\ DOMAIN level.adj = DOMAIN up
    OBVIOUS
  <2>2. DOMAIN down = D
    BY <1>9
  <2> HIDE DEF level, up, down, D
  <2>3. DOMAIN Down!Coarsest'.to_lower = DOMAIN Down!Finer' /\ DOMAIN Down!Coarsest'.to_upper = DOMAIN Down!Coarsest'.adj
    BY <1>15, <2>1, <2>2 DEF D
  <2>4. \A i \in DOMAIN up :
          /\ Down!Range(up[i]) = {v \in DOMAIN down : down[v] = i}
          /\ Len(up[i]) \in 1 .. 2
          /\ Len(up[i]) = 2 => Down!Linked(Down!adjacent, up[i][1], up[i][2])
    BY <1>11, <1>12, SameRange
  <2>5. \A i, k \in DOMAIN up :
          i # k /\ Len(up[i]) = 1 /\ Len(up[k]) = 1 => ~Down!Linked(Down!adjacent, up[i][1], up[k][1])
    BY <1>13
  <2> QED
    BY <1>15, <2>1, <2>3, <2>4, <2>5 DEF Down!LevelsMatch
<1>17. (IsSequence(collapsed) /\ Range(collapsed) = {} /\ DOMAIN collapsed = {})'
  BY <1>1, EmptySequence
<1>18. (PairsAreApart /\ PairsWereLinked /\ PairsAreComplete)'
  BY <1>1, <1>17 DEF PairsAreApart, PairsWereLinked, PairsAreComplete
<1> QED
  BY <1>14, <1>16, <1>17, <1>18 DEF HierarchyInv

(* The hierarchy exists from the first level on. *)
LevelInv == stage = "levels" => HierarchyInv

LEMMA PreparationKeepsLevels ==
    ASSUME LevelInv, [PreparationNext]_preparation
    PROVE  LevelInv'
<1>1. CASE BuildLevels
  <2>1. HierarchyInv /\ Down!LevelStep
    BY <1>1 DEF LevelInv, BuildLevels
  <2>2. HierarchyInv'
    BY <2>1, CollapseKeeps, CollapsingEndsKeeps, CopyKeeps, CoarsenKeeps DEF Down!LevelStep
  <2> QED
    BY <2>2 DEF LevelInv
<1>2. CASE LinkVertices \/ PointsAreLinked
  <2>1. PICK a : Down!BeginLevels(a)
    BY <1>2 DEF LinkVertices, PointsAreLinked
  <2> QED
    BY <2>1, BeginLevelsStarts DEF LevelInv
<1>3. CASE UNCHANGED <<stage, hierarchy>>
  <2>1. stage' = stage /\ levels' = levels /\ collapsed' = collapsed /\ copying' = copying
    BY <1>3 DEF hierarchy
  <2>2. Down!adjacent' = Down!adjacent /\ Down!LevelsMatch' = Down!LevelsMatch
    BY <2>1 DEF Down!adjacent, Down!LevelsMatch, Down!IsNew, Down!Coarsest, Down!Finer
  <2>3. HierarchyInv => HierarchyInv'
    BY <2>1, <2>2 DEF HierarchyInv, PairsAreApart, PairsWereLinked, PairsAreComplete, InPair
  <2> QED
    BY <2>1, <2>3 DEF LevelInv
<1>4. CASE FineEnough \/ TooCoarse \/ BuildAgain \/ SearchNeighbors
  BY <1>4 DEF FineEnough, TooCoarse, BuildAgain, SearchNeighbors, LevelInv
<1>5. CASE BuildStep \/ SubdivideStep \/ LinkPoints \/ Prepared \/ UNCHANGED preparation
  BY <1>3, <1>5 DEF BuildStep, SubdivideStep, LinkPoints, Prepared, preparation
<1> QED
  BY <1>1, <1>2, <1>4, <1>5 DEF PreparationNext

(* Whatever the links, and the order in which they are collapsed and the   *)
(* rest is copied: each level covers the one before it, pairs were linked, *)
(* and none was left that could have been formed.                          *)
THEOREM LevelsAreCovers == PreparationSpec => []LevelsCover
<1>1. PreparationInit => LevelInv
  BY DEF PreparationInit, LevelInv
<1>2. LevelInv /\ [PreparationNext]_preparation => LevelInv'
  BY PreparationKeepsLevels
<1>3. LevelInv => LevelsCover
  BY DEF LevelInv, HierarchyInv, LevelsCover
<1> QED
  BY <1>1, <1>2, <1>3, PTL DEF PreparationSpec

-----------------------------------------------------------------------------
(* The links of points (PointCloud).                                       *)

(* A sequence without repetition is as long as the set of its entries.     *)
LEMMA EntriesCounted ==
    ASSUME NEW s, IsSequence(s), IsInjective(s)
    PROVE  IsFiniteSet(Range(s)) /\ Cardinality(Range(s)) = Len(s)
<1>1. /\ Len(s) \in Nat /\ DOMAIN s = 1 .. Len(s)
      /\ s \in [1 .. Len(s) -> Range(s)]
  BY DEF IsSequence
<1>2. s \in Bijection(1 .. Len(s), Range(s))
  BY <1>1 DEF Bijection, Injection, Surjection, IsInjective, Range
<1>3. ExistsBijection(1 .. Len(s), Range(s))
  BY <1>2 DEF ExistsBijection
<1> QED
  BY <1>1, <1>3, FS_NatBijection, FS_CountingElements

(* The size of a set is the same to all modules. *)
LEMMA SameCardinality == \A S : Cloud!Cardinality(S) = Cardinality(S)
  BY DEF Cloud!Cardinality, Cardinality

(* A set of points with all that are near to one of them.                  *)
Grown(near, set) == set \cup {k \in DOMAIN near : \E x \in set : k \in near[x] \/ x \in near[k]}
Growth(near) == [set \in SUBSET (DOMAIN near) |-> Grown(near, set)]

LEMMA ComponentIsGrown ==
    ASSUME NEW near, IsFiniteSet(DOMAIN near), NEW i \in DOMAIN near
    PROVE  \E reach \in Walks(SUBSET (DOMAIN near), {i}, Growth(near), Cardinality(DOMAIN near)) :
             Cloud!Component(near, i) = reach[Cardinality(DOMAIN near)]
<1> DEFINE D == DOMAIN near
           size == Cardinality(D)
           S == SUBSET D
           reach == CHOOSE g : g = [n \in 0 .. Cloud!Cardinality(DOMAIN near) |->
                        IF n = 0 THEN {i}
                        ELSE g[n - 1] \cup {k \in DOMAIN near : \E x \in g[n - 1] : k \in near[x] \/ x \in near[k]}]
<1>1. size \in Nat
  BY FS_CardinalityType
<1>2. Growth(near) \in [S -> S] /\ {i} \in S
  BY DEF Growth, Grown
<1>3. PICK f : f \in Walks(S, {i}, Growth(near), size)
  <2> HIDE DEF S, size
  <2> QED
    BY <1>1, <1>2, WalkExists
<1>4. f = [n \in 0 .. Cloud!Cardinality(DOMAIN near) |->
              IF n = 0 THEN {i}
              ELSE f[n - 1] \cup {k \in DOMAIN near : \E x \in f[n - 1] : k \in near[x] \/ x \in near[k]}]
  <2>1. ASSUME NEW n \in 0 .. size
        PROVE  f[n] = IF n = 0 THEN {i} ELSE Grown(near, f[n - 1])
    <3>1. CASE n = 0
      BY <1>3, <3>1 DEF Walks
    <3>2. CASE n # 0
      <4>1. n \in 1 .. size /\ n - 1 \in 0 .. size
        BY <1>1, <3>2
      <4>2. f[n] = Growth(near)[f[n - 1]] /\ f[n - 1] \in S
        BY <1>3, <4>1 DEF Walks
      <4> QED
        BY <3>2, <4>2 DEF Growth
    <3> QED
      BY <3>1, <3>2
  <2> QED
    BY <1>3, <2>1, SameCardinality DEF Walks, Grown
<1>5. reach = [n \in 0 .. size |->
              IF n = 0 THEN {i}
              ELSE reach[n - 1] \cup {k \in DOMAIN near : \E x \in reach[n - 1] : k \in near[x] \/ x \in near[k]}]
  <2>1. reach = [n \in 0 .. Cloud!Cardinality(DOMAIN near) |->
              IF n = 0 THEN {i}
              ELSE reach[n - 1] \cup {k \in DOMAIN near : \E x \in reach[n - 1] : k \in near[x] \/ x \in near[k]}]
    BY <1>4
  <2> HIDE DEF reach
  <2> QED
    BY <2>1, SameCardinality
<1>6. Cloud!Component(near, i) = reach[size]
  BY SameCardinality DEF Cloud!Component
<1> HIDE DEF reach
<1>7. ASSUME NEW n \in Nat, n + 1 \in 0 .. size
      PROVE  n \in 0 .. size /\ reach[n + 1] = Grown(near, reach[n])
  <2>1. (n + 1) - 1 = n /\ n + 1 # 0 /\ n \in 0 .. size
    BY <1>1, <1>7
  <2> QED
    BY <1>5, <1>7, <2>1 DEF Grown
<1>8. \A n \in 0 .. size : reach[n] \in S
  <2> DEFINE I == {n \in Nat : n \in 0 .. size => reach[n] \in S}
  <2>1. 0 \in I
    BY <1>1, <1>5
  <2>2. ASSUME NEW n \in Nat, n \in I
        PROVE  n + 1 \in I
    BY <1>7, <2>2 DEF Grown
  <2> HIDE DEF I
  <2>3. \A n \in Nat : n \in I
    BY <2>1, <2>2, SetInduction
  <2> QED
    BY <1>1, <2>3 DEF I
<1>9. reach \in [0 .. size -> S] /\ reach[0] = {i}
  BY <1>1, <1>5, <1>8
<1>10. ASSUME NEW n \in 1 .. size
       PROVE  reach[n] = Growth(near)[reach[n - 1]]
  <2>1. n - 1 \in Nat /\ (n - 1) + 1 = n /\ n \in 0 .. size
    BY <1>1
  <2>2. n - 1 \in 0 .. size /\ reach[n] = Grown(near, reach[n - 1])
    BY <1>7, <2>1
  <2> QED
    BY <1>8, <2>2 DEF Growth
<1>11. reach \in Walks(S, {i}, Growth(near), size)
  BY <1>9, <1>10 DEF Walks
<1> QED
  BY <1>6, <1>11

(* The component is closed: as long as it grows, it grows by a point, and  *)
(* there are no more points than steps.  It is the smallest such set.      *)
LEMMA ComponentIsClosed ==
    ASSUME NEW near, IsFiniteSet(DOMAIN near), NEW i \in DOMAIN near
    PROVE  /\ Cloud!Component(near, i) \in SUBSET (DOMAIN near)
           /\ i \in Cloud!Component(near, i)
           /\ Grown(near, Cloud!Component(near, i)) = Cloud!Component(near, i)
           /\ \A C \in SUBSET (DOMAIN near) :
                i \in C /\ Grown(near, C) = C => Cloud!Component(near, i) \subseteq C
<1> DEFINE D == DOMAIN near
           size == Cardinality(D)
<1>1. PICK reach \in Walks(SUBSET D, {i}, Growth(near), size) : Cloud!Component(near, i) = reach[size]
  BY ComponentIsGrown
<1>2. size \in Nat
  BY FS_CardinalityType
<1>3. reach[0] = {i} /\ \A n \in 0 .. size : reach[n] \in SUBSET D
  BY DEF Walks
<1>4. ASSUME NEW n \in Nat, n + 1 \in 0 .. size
      PROVE  n \in 0 .. size /\ reach[n + 1] = Grown(near, reach[n])
  <2>1. n + 1 \in 1 .. size /\ (n + 1) - 1 = n /\ n \in 0 .. size
    BY <1>2, <1>4
  <2>2. reach[n + 1] = Growth(near)[reach[(n + 1) - 1]]
    BY <2>1 DEF Walks
  <2> QED
    BY <1>3, <2>1, <2>2 DEF Growth
<1>5. \A n \in 0 .. size : i \in reach[n] /\ (Grown(near, reach[n]) = reach[n] \/ Cardinality(reach[n]) > n)
  <2> DEFINE I == {n \in Nat : n \in 0 .. size =>
                    i \in reach[n] /\ (Grown(near, reach[n]) = reach[n] \/ Cardinality(reach[n]) > n)}
  <2>1. 0 \in I
    <3>1. Cardinality({i}) = 1
      BY FS_Singleton
    <3>2. i \in reach[0] /\ Cardinality(reach[0]) > 0
      BY <1>3, <3>1
    <3> QED
      BY <3>2
  <2>2. ASSUME NEW n \in Nat, n \in I
        PROVE  n + 1 \in I
    <3> SUFFICES ASSUME n + 1 \in 0 .. size
                 PROVE  /\ i \in reach[n + 1]
                        /\ Grown(near, reach[n + 1]) = reach[n + 1] \/ Cardinality(reach[n + 1]) > n + 1
      OBVIOUS
    <3>1. n \in 0 .. size /\ reach[n + 1] = Grown(near, reach[n])
      BY <1>4
    <3>2. i \in reach[n] /\ (Grown(near, reach[n]) = reach[n] \/ Cardinality(reach[n]) > n)
      BY <2>2, <3>1
    <3>3. i \in reach[n + 1] /\ reach[n] \subseteq reach[n + 1]
      BY <3>1, <3>2 DEF Grown
    <3>4. CASE Grown(near, reach[n]) = reach[n]
      BY <3>1, <3>3, <3>4
    <3>5. CASE Grown(near, reach[n]) # reach[n] /\ Cardinality(reach[n]) > n
      <4>1. IsFiniteSet(reach[n + 1]) /\ IsFiniteSet(reach[n])
        BY <1>3, <3>1, FS_Subset
      <4>2. Cardinality(reach[n]) <= Cardinality(reach[n + 1]) /\ Cardinality(reach[n]) # Cardinality(reach[n + 1])
        <5>1. reach[n] \in SUBSET reach[n + 1] /\ reach[n + 1] # reach[n]
          BY <3>1, <3>3, <3>5
        <5> QED
          BY <4>1, <5>1, FS_Subset
      <4>3. Cardinality(reach[n]) \in Nat /\ Cardinality(reach[n + 1]) \in Nat
        BY <4>1, FS_CardinalityType
      <4> QED
        BY <3>3, <3>5, <4>2, <4>3
    <3> QED
      BY <3>2, <3>4, <3>5
  <2> HIDE DEF I
  <2>3. \A n \in Nat : n \in I
    BY <2>1, <2>2, SetInduction
  <2> QED
    BY <1>2, <2>3 DEF I
<1>6. size \in 0 .. size
  BY <1>2
<1>7. Grown(near, reach[size]) = reach[size]
  <2>1. reach[size] \in SUBSET D
    BY <1>3, <1>6
  <2>2. Cardinality(reach[size]) <= size /\ Cardinality(reach[size]) \in Nat
    BY <2>1, FS_Subset, FS_CardinalityType
  <2> QED
    BY <1>2, <1>5, <1>6, <2>2
<1>8. ASSUME NEW C \in SUBSET D, i \in C, Grown(near, C) = C
      PROVE  reach[size] \subseteq C
  <2> DEFINE I == {n \in Nat : n \in 0 .. size => reach[n] \subseteq C}
  <2>1. 0 \in I
    BY <1>3, <1>8
  <2>2. ASSUME NEW n \in Nat, n \in I
        PROVE  n + 1 \in I
    <3> SUFFICES ASSUME n + 1 \in 0 .. size PROVE reach[n + 1] \subseteq C
      OBVIOUS
    <3>1. reach[n + 1] = Grown(near, reach[n]) /\ reach[n] \subseteq C
      BY <1>4, <2>2
    <3>2. Grown(near, reach[n]) \subseteq Grown(near, C)
      BY <3>1 DEF Grown
    <3> QED
      BY <1>8, <3>1, <3>2
  <2> HIDE DEF I
  <2>3. \A n \in Nat : n \in I
    BY <2>1, <2>2, SetInduction
  <2> QED
    BY <1>2, <2>3 DEF I
<1> QED
  BY <1>1, <1>3, <1>5, <1>6, <1>7, <1>8

(* Points that are near to each other are given up together, or not at     *)
(* all.                                                                    *)
LEMMA SmallTogether ==
    ASSUME NEW near, IsFiniteSet(DOMAIN near), NEW i \in DOMAIN near, NEW k \in DOMAIN near,
           k \in near[i]
    PROVE  Cloud!IsSmall(near, i) <=> Cloud!IsSmall(near, k)
<1>1. k \in Cloud!Component(near, i)
  BY ComponentIsClosed DEF Grown
<1>2. i \in Cloud!Component(near, k)
  BY ComponentIsClosed DEF Grown
<1>3. Cloud!Component(near, i) = Cloud!Component(near, k)
  BY <1>1, <1>2, ComponentIsClosed
<1> QED
  BY <1>3 DEF Cloud!IsSmall

(* What is known of the lists while they are filled.                       *)
CloudTypes ==
    /\ \E n \in Nat : adj_sets \in [0 .. n -> SUBSET (0 .. n)]
    /\ \A i \in DOMAIN adj_sets : i \notin adj_sets[i]
    /\ adj_size = [i \in DOMAIN adj_sets |->
            IF Cloud!IsSmall(adj_sets, i) THEN INVALID
            ELSE Cardinality(adj_sets[i]) + Cardinality(Cloud!AddedTo(adj_sets, i))]
    /\ left \in [DOMAIN adj_sets -> SUBSET (DOMAIN adj_sets)]
    /\ back \in [DOMAIN adj_sets -> (DOMAIN adj_sets) \cup {INVALID}]
    /\ DOMAIN adj = DOMAIN adj_sets

(* The loop over the neighbors of a point ... *)
LoopsKnow ==
    \A i \in DOMAIN adj_sets :
        /\ left[i] \subseteq adj_sets[i]
        /\ back[i] # INVALID => back[i] \in left[i] /\ i \notin adj_sets[back[i]]
        /\ adj_size[i] = INVALID => left[i] = adj_sets[i] /\ back[i] = INVALID

(* ... and the links that all loops together have written so far. *)
Written(i) ==
    {k \in adj_sets[i] : k \notin left[i] \/ back[i] = k}
        \cup {k \in Cloud!AddedTo(adj_sets, i) : i \notin left[k]}

ListsAreWritten ==
    \A i \in DOMAIN adj_sets :
        IsSequence(adj[i]) /\ IsInjective(adj[i]) /\ Range(adj[i]) = Written(i)

CloudInv == CloudTypes /\ LoopsKnow /\ ListsAreWritten

LEMMA PrepareStarts ==
    ASSUME NEW found \in Clouds, Cloud!Prepare(found)
    PROVE  CloudInv'
<1> DEFINE near == [i \in DOMAIN found |-> found[i] \ {i}]
<1>1. /\ adj_sets' = near
      /\ adj_size' = [i \in DOMAIN near |-> IF Cloud!IsSmall(near, i) THEN INVALID
                        ELSE Cardinality(near[i]) + Cardinality(Cloud!AddedTo(near, i))]
      /\ adj' = [i \in DOMAIN near |-> << >>]
      /\ left' = near
      /\ back' = [i \in DOMAIN near |-> INVALID]
  BY SameCardinality DEF Cloud!Prepare
<1>2. PICK n \in Nat : found \in [0 .. n -> SUBSET (0 .. n)]
  <2> DEFINE n == Cardinality(DOMAIN found) - 1
  <2>1. IsFiniteSet(DOMAIN found) /\ DOMAIN found # {} /\ DOMAIN found = 0 .. n
        /\ found \in [DOMAIN found -> SUBSET (DOMAIN found)]
    BY CloudsAssumption
  <2>2. n \in Nat
    BY <2>1, FS_CardinalityType, FS_EmptySet
  <2>3. found \in [0 .. n -> SUBSET (0 .. n)]
    BY <2>1
  <2> QED
    BY <2>2, <2>3
<1>3. near \in [0 .. n -> SUBSET (0 .. n)] /\ DOMAIN near = 0 .. n /\ \A i \in DOMAIN near : i \notin near[i]
  BY <1>2
<1> HIDE DEF near
<1>4. CloudTypes'
  BY <1>1, <1>3 DEF CloudTypes
<1>5. LoopsKnow'
  BY <1>1, <1>3 DEF LoopsKnow
<1>6. ListsAreWritten'
  <2>1. ASSUME NEW i \in DOMAIN near
        PROVE  IsSequence(adj'[i]) /\ IsInjective(adj'[i]) /\ Range(adj'[i]) = Written(i)'
    <3>1. adj'[i] = << >>
      BY <1>1
    <3>2. IsInjective(<< >>)
      BY DEF IsInjective
    <3>3. \A k \in near[i] : k \in left'[i] /\ back'[i] # k
      BY <1>1, <1>3, InvalidAssumption
    <3>4. \A k \in Cloud!AddedTo(near, i) : i \in left'[k]
      BY <1>1 DEF Cloud!AddedTo
    <3>5. Written(i)' = {}
      BY <1>1, <3>3, <3>4 DEF Written
    <3> QED
      BY <3>1, <3>2, <3>5, EmptySequence
  <2> QED
    BY <1>1, <2>1 DEF ListsAreWritten
<1> QED
  BY <1>4, <1>5, <1>6 DEF CloudInv

(* A list takes one more entry. *)
LEMMA EntryAppended ==
    ASSUME NEW s, IsSequence(s), IsInjective(s), NEW x, x \notin Range(s)
    PROVE  IsSequence(Append(s, x)) /\ IsInjective(Append(s, x)) /\ Range(Append(s, x)) = Range(s) \cup {x}
<1> DEFINE t == Append(s, x)
           n == Len(s)
<1>1. /\ IsSequence(t) /\ n \in Nat /\ DOMAIN s = 1 .. n /\ DOMAIN t = 1 .. n + 1
      /\ t[n + 1] = x /\ \A k \in DOMAIN s : t[k] = s[k]
      /\ Range(t) = Range(s) \cup {x}
  BY Appending
<1>2. \A k \in DOMAIN s : s[k] \in Range(s)
  BY DEF Range
<1> HIDE DEF t, n
<1>3. \A k \in DOMAIN t : k \in DOMAIN s \/ k = n + 1
  BY <1>1
<1>4. ASSUME NEW a \in DOMAIN t, NEW b \in DOMAIN t, t[a] = t[b]
      PROVE  a = b
  BY <1>1, <1>2, <1>3, <1>4 DEF IsInjective
<1>5. IsInjective(t)
  BY <1>4 DEF IsInjective
<1> QED
  BY <1>1, <1>5 DEF t

LEMMA WriteLinkKeeps ==
    ASSUME CloudInv, NEW i \in Cloud!Points, Cloud!WriteLink(i)
    PROVE  CloudInv'
<1> DEFINE P == DOMAIN adj_sets
<1>1. PICK k \in left[i] :
        /\ adj' = [adj EXCEPT ![i] = Append(@, k)]
        /\ IF i \in adj_sets[k]
           THEN left' = [left EXCEPT ![i] = @ \ {k}] /\ back' = back
           ELSE back' = [back EXCEPT ![i] = k] /\ left' = left
  BY DEF Cloud!WriteLink
<1>2. /\ adj_sets' = adj_sets /\ adj_size' = adj_size
      /\ adj_size[i] # INVALID /\ back[i] = INVALID /\ i \in P
  BY DEF Cloud!WriteLink, Cloud!Pending, Cloud!Points
<1>3. /\ CloudTypes /\ LoopsKnow /\ ListsAreWritten
      /\ left \in [P -> SUBSET P] /\ back \in [P -> P \cup {INVALID}] /\ DOMAIN adj = P
      /\ k \in adj_sets[i] /\ k \in P /\ k # INVALID /\ INVALID \notin adj_sets[i]
  <2>1. INVALID \notin P
    BY InvalidAssumption DEF CloudInv, CloudTypes
  <2> QED
    BY <1>2, <2>1 DEF CloudInv, CloudTypes, LoopsKnow
<1>4. /\ k \notin Written(i)
      /\ \A j \in P \ {i} : adj'[j] = adj[j] /\ left'[j] = left[j] /\ back'[j] = back[j]
      /\ adj'[i] = Append(adj[i], k)
  <2>1. k \notin Cloud!AddedTo(adj_sets, i)
    BY <1>3 DEF Cloud!AddedTo
  <2>2. k \notin Written(i)
    BY <1>2, <1>3, <2>1 DEF Written
  <2> QED
    BY <1>1, <1>2, <1>3, <2>2
<1>5. IsSequence(adj'[i]) /\ IsInjective(adj'[i]) /\ Range(adj'[i]) = Written(i) \cup {k}
  <2>1. IsSequence(adj[i]) /\ IsInjective(adj[i]) /\ Range(adj[i]) = Written(i)
    BY <1>2, <1>3 DEF ListsAreWritten
  <2> QED
    BY <1>4, <2>1, EntryAppended
<1>6. CASE i \in adj_sets[k]
  <2>1. left' = [left EXCEPT ![i] = @ \ {k}] /\ back' = back
    BY <1>1, <1>6
  <2>2. left'[i] = left[i] \ {k}
    BY <1>2, <1>3, <2>1
  <2>3. CloudTypes'
    BY <1>1, <1>2, <1>3, <2>1 DEF CloudTypes
  <2>4. LoopsKnow'
    BY <1>2, <1>3, <1>4, <2>1, <2>2 DEF LoopsKnow
  <2>5. Written(i)' = Written(i) \cup {k}
    <3>1. \A x \in Cloud!AddedTo(adj_sets, i) : left'[x] = left[x]
      BY <1>3, <1>4 DEF Cloud!AddedTo, CloudTypes
    <3> QED
      BY <1>2, <1>3, <2>1, <2>2, <3>1 DEF Written
  <2>6. ASSUME NEW j \in P \ {i}
        PROVE  Written(j)' = Written(j)
    <3>1. \A x \in Cloud!AddedTo(adj_sets, j) : j \notin left'[x] <=> j \notin left[x]
      BY <1>2, <1>3, <1>4, <1>6, <2>2 DEF Cloud!AddedTo
    <3> QED
      BY <1>2, <1>4, <2>1, <3>1 DEF Written
  <2>7. ListsAreWritten'
    BY <1>2, <1>3, <1>4, <1>5, <2>5, <2>6 DEF ListsAreWritten
  <2> QED
    BY <2>3, <2>4, <2>7 DEF CloudInv
<1>7. CASE i \notin adj_sets[k]
  <2>1. back' = [back EXCEPT ![i] = k] /\ left' = left
    BY <1>1, <1>7
  <2>2. back'[i] = k
    BY <1>2, <1>3, <2>1
  <2>3. CloudTypes'
    BY <1>1, <1>2, <1>3, <2>1 DEF CloudTypes
  <2>4. LoopsKnow'
    BY <1>2, <1>3, <1>4, <1>7, <2>1, <2>2 DEF LoopsKnow
  <2>5. Written(i)' = Written(i) \cup {k}
    BY <1>2, <1>3, <2>1, <2>2 DEF Written
  <2>6. ASSUME NEW j \in P \ {i}
        PROVE  Written(j)' = Written(j)
    BY <1>2, <1>4, <2>1 DEF Written
  <2>7. ListsAreWritten'
    BY <1>2, <1>3, <1>4, <1>5, <2>5, <2>6 DEF ListsAreWritten
  <2> QED
    BY <2>3, <2>4, <2>7 DEF CloudInv
<1> QED
  BY <1>6, <1>7

LEMMA WriteBackKeeps ==
    ASSUME CloudInv, NEW i \in Cloud!Points, Cloud!WriteBack(i)
    PROVE  CloudInv'
<1> DEFINE P == DOMAIN adj_sets
<1>1. PICK k : k = back[i]
  OBVIOUS
<1>2. /\ adj_sets' = adj_sets /\ adj_size' = adj_size
      /\ adj_size[i] # INVALID /\ k # INVALID /\ i \in P
      /\ adj' = [adj EXCEPT ![k] = Append(@, i)]
      /\ left' = [left EXCEPT ![i] = @ \ {k}]
      /\ back' = [back EXCEPT ![i] = INVALID]
  BY <1>1 DEF Cloud!WriteBack, Cloud!Pending, Cloud!Points
<1>3. /\ CloudTypes /\ LoopsKnow /\ ListsAreWritten
      /\ left \in [P -> SUBSET P] /\ back \in [P -> P \cup {INVALID}] /\ DOMAIN adj = P
      /\ k \in left[i] /\ k \in adj_sets[i] /\ k \in P /\ i \notin adj_sets[k] /\ k # i
      /\ INVALID \notin P /\ \A j \in P : adj_sets[j] \subseteq P
  <2>1. INVALID \notin P
    BY InvalidAssumption DEF CloudInv, CloudTypes
  <2> QED
    BY <1>1, <1>2, <2>1 DEF CloudInv, CloudTypes, LoopsKnow
<1>4. /\ left'[i] = left[i] \ {k} /\ back'[i] = INVALID
      /\ adj'[k] = Append(adj[k], i)
      /\ \A j \in P \ {k} : adj'[j] = adj[j]
      /\ \A j \in P \ {i} : left'[j] = left[j] /\ back'[j] = back[j]
  BY <1>2, <1>3
<1>5. i \in Cloud!AddedTo(adj_sets, k) /\ i \notin Written(k)
  BY <1>2, <1>3 DEF Cloud!AddedTo, Written
<1>6. IsSequence(adj'[k]) /\ IsInjective(adj'[k]) /\ Range(adj'[k]) = Written(k) \cup {i}
  <2>1. IsSequence(adj[k]) /\ IsInjective(adj[k]) /\ Range(adj[k]) = Written(k)
    BY <1>3 DEF ListsAreWritten
  <2> QED
    BY <1>4, <1>5, <2>1, EntryAppended
<1>7. CloudTypes'
  BY <1>2, <1>3 DEF CloudTypes
<1>8. LoopsKnow'
  BY <1>2, <1>3, <1>4 DEF LoopsKnow
<1>9. Written(k)' = Written(k) \cup {i}
  <2>1. \A x \in Cloud!AddedTo(adj_sets, k) : k \notin left'[x] <=> k \notin left[x] \/ x = i
    BY <1>3, <1>4 DEF Cloud!AddedTo
  <2> QED
    BY <1>2, <1>3, <1>4, <1>5, <2>1 DEF Written
<1>10. ASSUME NEW j \in P \ {k}
       PROVE  Written(j)' = Written(j)
  <2>1. \A x \in Cloud!AddedTo(adj_sets, j) : j \notin left'[x] <=> j \notin left[x]
    BY <1>3, <1>4 DEF Cloud!AddedTo
  <2>2. {x \in adj_sets[j] : x \notin left'[j] \/ back'[j] = x} = {x \in adj_sets[j] : x \notin left[j] \/ back[j] = x}
    <3>1. CASE j = i
      BY <1>1, <1>2, <1>3, <1>4, <3>1
    <3>2. CASE j # i
      BY <1>4, <3>2
    <3> QED
      BY <3>1, <3>2
  <2>3. Written(j)' = {x \in adj_sets[j] : x \notin left'[j] \/ back'[j] = x}
                        \cup {x \in Cloud!AddedTo(adj_sets, j) : j \notin left'[x]}
    BY <1>2 DEF Written
  <2>4. {x \in Cloud!AddedTo(adj_sets, j) : j \notin left'[x]} = {x \in Cloud!AddedTo(adj_sets, j) : j \notin left[x]}
    BY <2>1
  <2> QED
    BY <2>2, <2>3, <2>4 DEF Written
<1>11. ListsAreWritten'
  <2>1. ASSUME NEW j \in P
        PROVE  IsSequence(adj'[j]) /\ IsInjective(adj'[j]) /\ Range(adj'[j]) = Written(j)'
    <3>1. CASE j = k
      BY <1>6, <1>9, <3>1
    <3>2. CASE j # k
      <4>1. IsSequence(adj[j]) /\ IsInjective(adj[j]) /\ Range(adj[j]) = Written(j)
        BY <1>3 DEF ListsAreWritten
      <4>2. adj'[j] = adj[j] /\ Written(j)' = Written(j)
        BY <1>4, <1>10, <3>2
      <4> QED
        BY <4>1, <4>2
    <3> QED
      BY <3>1, <3>2
  <2> QED
    BY <1>2, <2>1 DEF ListsAreWritten
<1> QED
  BY <1>7, <1>8, <1>11 DEF CloudInv

(* The lists are as long as they were counted, and links are mutual.       *)
LEMMA WrittenIsMutual ==
    ASSUME CloudInv, NEW i \in Cloud!Points
    PROVE  IF adj_size[i] = INVALID THEN adj[i] = << >>
           ELSE /\ Len(adj[i]) <= adj_size[i]
                /\ IsInjective(adj[i])
                /\ Cloud!Filled =>
                       /\ Len(adj[i]) = adj_size[i]
                       /\ \A k \in Range(adj[i]) : i \in Range(adj[k])
<1> DEFINE P == DOMAIN adj_sets
           added(j) == Cloud!AddedTo(adj_sets, j)
           all(j) == adj_sets[j] \cup added(j)
<1>1. /\ i \in P /\ CloudTypes /\ LoopsKnow /\ ListsAreWritten /\ IsFiniteSet(P)
      /\ INVALID \notin P /\ \A j \in P : adj_sets[j] \subseteq P /\ added(j) \subseteq P
  <2>1. PICK n \in Nat : adj_sets \in [0 .. n -> SUBSET (0 .. n)]
    BY DEF CloudInv, CloudTypes
  <2>2. IsFiniteSet(0 .. n)
    BY FS_Interval
  <2> QED
    BY <2>1, <2>2, InvalidAssumption DEF CloudInv, Cloud!Points, Cloud!AddedTo
<1>2. ASSUME NEW j \in P
      PROVE  /\ IsSequence(adj[j]) /\ IsInjective(adj[j]) /\ Range(adj[j]) = Written(j)
             /\ Written(j) \subseteq all(j)
             /\ IsFiniteSet(adj_sets[j]) /\ IsFiniteSet(added(j)) /\ adj_sets[j] \cap added(j) = {}
  <2>1. IsFiniteSet(adj_sets[j]) /\ IsFiniteSet(added(j))
    BY <1>1, FS_Subset
  <2>2. adj_sets[j] \cap added(j) = {}
    BY DEF Cloud!AddedTo
  <2> QED
    BY <1>1, <2>1, <2>2 DEF ListsAreWritten, Written
<1>3. ASSUME NEW j \in P, NEW k \in P, k \in adj_sets[j]
      PROVE  adj_size[j] = INVALID <=> adj_size[k] = INVALID
  <2>1. \A x \in P : adj_size[x] = INVALID <=> Cloud!IsSmall(adj_sets, x)
    <3>1. \A x \in P : Cardinality(adj_sets[x]) + Cardinality(added(x)) # INVALID
      <4>1. \A x \in P : Cardinality(adj_sets[x]) \in Nat /\ Cardinality(added(x)) \in Nat
        BY <1>2, FS_CardinalityType
      <4> QED
        BY <4>1, InvalidAssumption
    <3> QED
      BY <1>1, <3>1 DEF CloudTypes
  <2> QED
    BY <1>1, <1>3, <2>1, SmallTogether
<1>4. CASE adj_size[i] = INVALID
  <2>1. \A k \in adj_sets[i] : k \in left[i] /\ back[i] # k
    BY <1>1, <1>4 DEF LoopsKnow
  <2>2. \A k \in added(i) : i \in left[k]
    <3> SUFFICES ASSUME NEW k \in added(i) PROVE i \in left[k]
      OBVIOUS
    <3>1. k \in P /\ i \in adj_sets[k]
      BY DEF Cloud!AddedTo
    <3>2. adj_size[k] = INVALID
      BY <1>1, <1>3, <1>4, <3>1
    <3> QED
      BY <1>1, <3>1, <3>2 DEF LoopsKnow
  <2>3. Range(adj[i]) = {}
    BY <1>1, <1>2, <2>1, <2>2 DEF Written
  <2>4. adj[i] \in Seq({})
    BY <1>1, <1>2, <2>3 DEF IsSequence
  <2>5. adj[i] = << >>
    BY <2>4
  <2> QED
    BY <1>4, <2>5
<1>5. CASE adj_size[i] # INVALID
  <2>1. adj_size[i] = Cardinality(all(i)) /\ IsFiniteSet(all(i))
    <3>1. adj_size[i] = Cardinality(adj_sets[i]) + Cardinality(added(i))
      BY <1>1, <1>5 DEF CloudTypes
    <3>2. /\ IsFiniteSet(all(i))
          /\ Cardinality(all(i)) = Cardinality(adj_sets[i]) + Cardinality(added(i)) - Cardinality({})
      BY <1>1, <1>2, FS_Union
    <3>3. Cardinality({}) = 0 /\ Cardinality(adj_sets[i]) \in Nat /\ Cardinality(added(i)) \in Nat
      BY <1>1, <1>2, FS_EmptySet, FS_CardinalityType
    <3> QED
      BY <3>1, <3>2, <3>3
  <2>2. Len(adj[i]) = Cardinality(Written(i))
    BY <1>1, <1>2, EntriesCounted
  <2>3. Len(adj[i]) <= adj_size[i]
    <3>1. Written(i) \in SUBSET all(i)
      BY <1>1, <1>2
    <3> QED
      BY <2>1, <2>2, <3>1, FS_Subset
  <2>4. ASSUME Cloud!Filled
        PROVE  Len(adj[i]) = adj_size[i] /\ \A k \in Range(adj[i]) : i \in Range(adj[k])
    <3>1. \A j \in P : adj_size[j] # INVALID => left[j] = {}
      BY <2>4 DEF Cloud!Filled, Cloud!Pending, Cloud!Points
    <3>2. ASSUME NEW j \in P, adj_size[j] # INVALID
          PROVE  Written(j) = all(j)
      <4>1. left[j] = {}
        BY <3>1, <3>2
      <4>2. ASSUME NEW k \in added(j)
            PROVE  j \notin left[k]
        <5>1. k \in P /\ j \in adj_sets[k]
          BY DEF Cloud!AddedTo
        <5>2. adj_size[k] # INVALID
          BY <1>3, <3>2, <5>1
        <5> QED
          BY <3>1, <5>1, <5>2
      <4> QED
        BY <4>1, <4>2 DEF Written
    <3>3. Written(i) = all(i)
      BY <1>1, <1>5, <3>2
    <3>4. ASSUME NEW k \in Range(adj[i])
          PROVE  i \in Range(adj[k])
      <4>1. k \in all(i) /\ k \in P
        BY <1>1, <1>2, <3>3
      <4>2. k \in adj_sets[i] \/ i \in adj_sets[k]
        BY <4>1 DEF Cloud!AddedTo
      <4>3. adj_size[k] # INVALID
        BY <1>1, <1>3, <1>5, <4>1, <4>2
      <4>4. i \in all(k)
        BY <1>1, <4>1 DEF Cloud!AddedTo
      <4> QED
        BY <1>2, <3>2, <4>1, <4>3, <4>4
    <3> QED
      BY <2>1, <2>2, <3>3, <3>4
  <2> QED
    BY <1>1, <1>2, <1>5, <2>3, <2>4
<1> QED
  BY <1>4, <1>5

LinkInv == stage = "lists" => CloudInv

LEMMA PreparationKeepsLinks ==
    ASSUME LinkInv, [PreparationNext]_preparation
    PROVE  LinkInv'
<1>1. CASE SearchNeighbors
  <2>1. PICK found \in Clouds : Cloud!Prepare(found)
    BY <1>1 DEF SearchNeighbors
  <2> QED
    BY <2>1, PrepareStarts DEF LinkInv
<1>2. CASE LinkPoints
  <2>1. PICK i \in Cloud!Points : Cloud!WriteLink(i) \/ Cloud!WriteBack(i)
    BY <1>2 DEF LinkPoints
  <2>2. CloudInv
    BY <1>2 DEF LinkPoints, LinkInv
  <2>3. CloudInv'
    BY <2>1, <2>2, WriteLinkKeeps, WriteBackKeeps
  <2> QED
    BY <2>3 DEF LinkInv
<1>3. CASE UNCHANGED <<stage, cloud>>
  <2>1. /\ stage' = stage /\ adj_sets' = adj_sets /\ adj_size' = adj_size
        /\ adj' = adj /\ left' = left /\ back' = back
    BY <1>3 DEF cloud
  <2>2. CloudTypes => CloudTypes'
    BY <2>1 DEF CloudTypes
  <2>3. (LoopsKnow => LoopsKnow') /\ (ListsAreWritten => ListsAreWritten')
    BY <2>1 DEF LoopsKnow, ListsAreWritten, Written
  <2> QED
    BY <2>1, <2>2, <2>3 DEF LinkInv, CloudInv
<1>4. CASE FineEnough \/ TooCoarse \/ BuildAgain \/ LinkVertices \/ PointsAreLinked
  BY <1>4 DEF FineEnough, TooCoarse, BuildAgain, LinkVertices, PointsAreLinked, LinkInv
<1>5. CASE BuildStep \/ SubdivideStep \/ BuildLevels \/ Prepared \/ UNCHANGED preparation
  BY <1>3, <1>5 DEF BuildStep, SubdivideStep, BuildLevels, Prepared, preparation
<1> QED
  BY <1>1, <1>2, <1>4, <1>5 DEF PreparationNext

(* Whatever the searches return, and however the threads interleave: no    *)
(* list of a point outgrows its place, and in the end the links are mutual *)
(* and never double.                                                       *)
THEOREM PointLinksHold == PreparationSpec => []PointLinksAreMutual
<1>1. PreparationInit => LinkInv
  BY DEF PreparationInit, LinkInv
<1>2. LinkInv /\ [PreparationNext]_preparation => LinkInv'
  BY PreparationKeepsLinks
<1>3. LinkInv => PointLinksAreMutual
  BY WrittenIsMutual DEF LinkInv, PointLinksAreMutual
<1> QED
  BY <1>1, <1>2, <1>3, PTL DEF PreparationSpec
=============================================================================
