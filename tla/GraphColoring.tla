---------------------------- MODULE GraphColoring ----------------------------
(***************************************************************************)
(* generate_graph_coloring of src/src/hierarchy.cpp: worker threads colour *)
(* the vertices of a level in parallel.  The smoothing sweeps later visit  *)
(* the vertices of one colour (a phase) in parallel, without locks.        *)
(*                                                                         *)
(* A worker locks the mutexes of a vertex and of all its neighbours, one   *)
(* by one and in ascending order, reads the colours of the neighbours,     *)
(* chooses one and unlocks.  The neighbourhood is a sorted vector, and it  *)
(* has an entry twice when the list of links has: a face with two equal    *)
(* corners, which build_dedge() lets pass, gives its vertex a link to      *)
(* itself (adjacency.cpp:80-83), next to the entry the vertex has anyway.  *)
(* The mutexes are not recursive, so that a worker that meets an entry a   *)
(* second time waits for itself.  The entries that are there twice are     *)
(* doubled.  Only Lock depends on them: a worker never gets past one, and  *)
(* to read a colour twice, or its own, which is INVALID_COLOR, would       *)
(* change nothing.                                                         *)
(*                                                                         *)
(* Each worker counts the vertices per colour in *)
(* a ColorData of its own, here the sequence of its nNodes[0..nColors-1];  *)
(* parallel_reduce joins them.  The shuffled order perm and the way the    *)
(* scheduler hands out its ranges are left open: a worker takes any vertex *)
(* that is left, and may be joined whenever it is between two of them.     *)
(***************************************************************************)
EXTENDS Naturals, Sequences, FiniteSets

CONSTANTS
    Vertices,           \* the vertices of the level, 0 .. size - 1 in the code
    Adj,                \* Adj[v]: the other vertices v has a link to
    Doubles,            \* which entries of the neighbourhoods may be doubled
    Workers,            \* the threads
    Nobody,             \* no thread, no vertex
    Uncolored,          \* INVALID_COLOR
    ColorLimit          \* INVALID_COLOR - 1: how many colours there are (254)

ASSUME VerticesAssumption == Vertices \subseteq Nat /\ Vertices # {} /\ IsFiniteSet(Vertices)
ASSUME AdjAssumption ==
    Adj \in [Vertices -> SUBSET Vertices] /\ \A v \in Vertices : v \notin Adj[v]
ASSUME DoublesAssumption ==
    /\ Doubles # {} /\ Doubles \subseteq [Vertices -> SUBSET Vertices]
    /\ \A d \in Doubles : \A v \in Vertices : d[v] \subseteq {v} \cup Adj[v]
ASSUME NobodyAssumption == Nobody \notin Workers \cup Nat
ASSUME UncoloredAssumption == Uncolored \notin Nat
ASSUME ColorLimitAssumption == ColorLimit \in Nat

VARIABLES
    doubled,            \* doubled[v]: the entries v's neighbourhood has more than once
    color,              \* color[v]
    mutex,              \* mutex[v]: who holds it, or Nobody
    todo,               \* the vertices no worker has taken yet
    pc,                 \* where each worker is
    cur,                \* i, the vertex each worker works on
    left,               \* the vertices the current loop of each worker has left
    used,               \* the colours with possible_colors[c] = false
    data,               \* the ColorData of each worker
    total,              \* the ColorData joined so far
    phases              \* the result, empty before it is there

vars == <<doubled, color, mutex, todo, pc, cur, left, used, data, total, phases>>

Colors == 0 .. ColorLimit - 1
Pcs == {"idle", "lock", "read", "choose", "unlock", "thrown"}

TypeOK ==
    /\ doubled \in Doubles
    /\ color \in [Vertices -> Colors \cup {Uncolored}]
    /\ mutex \in [Vertices -> Workers \cup {Nobody}]
    /\ todo \subseteq Vertices
    /\ pc \in [Workers -> Pcs]
    /\ cur \in [Workers -> Vertices \cup {Nobody}]
    /\ left \in [Workers -> SUBSET Vertices]
    /\ used \in [Workers -> SUBSET Colors]
    /\ data \in [Workers -> Seq(Nat)]
    /\ total \in Seq(Nat)
    /\ \A w \in Workers : Len(data[w]) <= ColorLimit
    /\ Len(total) <= ColorLimit
    /\ phases \in Seq(SUBSET Vertices)

Init ==
    /\ doubled \in Doubles
    /\ color = [v \in Vertices |-> Uncolored]
    /\ mutex = [v \in Vertices |-> Nobody]
    /\ todo = Vertices
    /\ pc = [w \in Workers |-> "idle"]
    /\ cur = [w \in Workers |-> Nobody]
    /\ left = [w \in Workers |-> {}]
    /\ used = [w \in Workers |-> {}]
    /\ data = [w \in Workers |-> << >>]
    /\ total = << >>
    /\ phases = << >>

-----------------------------------------------------------------------------
(* Helpers.                                                                *)

Least(S) == CHOOSE x \in S : \A y \in S : x <= y

(* Mutant of Closed: only the vertex itself is locked. *)
ClosedWithoutNeighbors(v) == {v}

(* The entries of neighborhood. *)
Closed(v) == {v} \cup Adj[v]

(* A ColorData that knows the colours below n. *)
Extend(d, n) ==
    [i \in 1 .. (IF Len(d) < n THEN n ELSE Len(d)) |-> IF i <= Len(d) THEN d[i] ELSE 0]

(* One more vertex of colour c. *)
CountOne(d, c) == [i \in DOMAIN Extend(d, c + 1) |-> Extend(d, c + 1)[i] + (IF i = c + 1 THEN 1 ELSE 0)]

(* The reduction: the counts of two ColorData are added. *)
JoinData(d, e) ==
    [i \in 1 .. (IF Len(d) < Len(e) THEN Len(e) ELSE Len(d)) |->
        (IF i <= Len(d) THEN d[i] ELSE 0) + (IF i <= Len(e) THEN e[i] ELSE 0)]

-----------------------------------------------------------------------------
(* A worker takes the next vertex of its range. *)
Take(w) ==
    /\ pc[w] = "idle"
    /\ \E v \in todo :
         /\ todo' = todo \ {v}
         /\ cur' = [cur EXCEPT ![w] = v]
         /\ left' = [left EXCEPT ![w] = Closed(v)]
    /\ used' = [used EXCEPT ![w] = {}]
    /\ pc' = [pc EXCEPT ![w] = "lock"]
    /\ UNCHANGED <<doubled, color, mutex, data, total, phases>>

(* Mutant of NextToLock: the neighbourhood is not sorted, the vertex       *)
(* itself comes first.                                                     *)
NextToLockSelfFirst(w) == IF cur[w] \in left[w] THEN {cur[w]} ELSE {Least(left[w])}

NextToLock(w) == {Least(left[w])}

(* mutex[j].lock() for the next j of the sorted neighbourhood; a worker    *)
(* whose mutex is taken spins.  After a doubled entry j is the same vertex *)
(* again.                                                                  *)
Lock(w) ==
    /\ pc[w] = "lock"
    /\ \E v \in NextToLock(w) :
         /\ mutex[v] = Nobody
         /\ mutex' = [mutex EXCEPT ![v] = w]
         /\ \/ /\ v \in doubled[cur[w]]
               /\ UNCHANGED <<left, pc>>
            \/ /\ v \notin doubled[cur[w]] /\ left[w] # {v}
               /\ left' = [left EXCEPT ![w] = @ \ {v}]
               /\ UNCHANGED pc
            \/ /\ v \notin doubled[cur[w]] /\ left[w] = {v}
               /\ left' = [left EXCEPT ![w] = Adj[cur[w]]]
               /\ pc' = [pc EXCEPT ![w] = IF Adj[cur[w]] = {} THEN "choose" ELSE "read"]
    /\ UNCHANGED <<doubled, color, todo, cur, used, data, total, phases>>

(* The colour of one neighbour is read: it becomes impossible, and the     *)
(* worker learns of the colours up to it.                                  *)
Read(w) ==
    /\ pc[w] = "read"
    /\ \E u \in left[w] :
         /\ IF color[u] = Uncolored
            THEN UNCHANGED <<used, data>>
            ELSE /\ used' = [used EXCEPT ![w] = @ \cup {color[u]}]
                 /\ data' = [data EXCEPT ![w] = Extend(@, color[u] + 1)]
         /\ left' = [left EXCEPT ![w] = @ \ {u}]
         /\ pc' = [pc EXCEPT ![w] = IF left[w] = {u} THEN "choose" ELSE "read"]
    /\ UNCHANGED <<doubled, color, mutex, todo, cur, total, phases>>

(* possible_colors, below nColors *)
Possible(w) == {c \in 0 .. Len(data[w]) - 1 : c \notin used[w]}

(* Mutant of Choice: always a new colour. *)
ChoiceAlwaysNew(w) == Len(data[w])

Choice(w) == IF Possible(w) # {} THEN Least(Possible(w)) ELSE Len(data[w])

(* Mutant of OutOfColors: compared with INVALID_COLOR itself. *)
OutOfColorsLate(w) == Possible(w) = {} /\ Len(data[w]) = ColorLimit + 1

OutOfColors(w) == Possible(w) = {} /\ Len(data[w]) = ColorLimit

(* The first possible colour, or a new one. *)
Choose(w) ==
    /\ pc[w] = "choose"
    /\ ~OutOfColors(w)
    /\ color' = [color EXCEPT ![cur[w]] = Choice(w)]
    /\ data' = [data EXCEPT ![w] = CountOne(@, Choice(w))]
    /\ left' = [left EXCEPT ![w] = Closed(cur[w])]
    /\ pc' = [pc EXCEPT ![w] = "unlock"]
    /\ UNCHANGED <<doubled, mutex, todo, cur, used, total, phases>>

(* "Ran out of colors during graph coloring!": the exception leaves the    *)
(* body of the loop with all mutexes locked.                               *)
Throw(w) ==
    /\ pc[w] = "choose"
    /\ OutOfColors(w)
    /\ pc' = [pc EXCEPT ![w] = "thrown"]
    /\ UNCHANGED <<doubled, color, mutex, todo, cur, left, used, data, total, phases>>

(* Mutant of Unlock: the last mutex of the neighbourhood stays locked. *)
UnlockAllButLast(w) ==
    /\ pc[w] = "unlock"
    /\ LET v == Least(left[w])
       IN /\ left' = [left EXCEPT ![w] = @ \ {v}]
          /\ IF left[w] = {v}
             THEN /\ pc' = [pc EXCEPT ![w] = "idle"]
                  /\ cur' = [cur EXCEPT ![w] = Nobody]
                  /\ UNCHANGED mutex
             ELSE /\ mutex' = [mutex EXCEPT ![v] = Nobody]
                  /\ UNCHANGED <<pc, cur>>
    /\ UNCHANGED <<doubled, color, todo, used, data, total, phases>>

(* mutex[j].unlock() *)
Unlock(w) ==
    /\ pc[w] = "unlock"
    /\ LET v == Least(left[w])
       IN /\ mutex' = [mutex EXCEPT ![v] = Nobody]
          /\ left' = [left EXCEPT ![w] = @ \ {v}]
          /\ IF left[w] = {v}
             THEN /\ pc' = [pc EXCEPT ![w] = "idle"]
                  /\ cur' = [cur EXCEPT ![w] = Nobody]
             ELSE UNCHANGED <<pc, cur>>
    /\ UNCHANGED <<doubled, color, todo, used, data, total, phases>>

(* The partial result of a worker is joined; a range it takes later starts *)
(* with an empty one.                                                      *)
Join(w) ==
    /\ pc[w] = "idle"
    /\ data[w] # << >>
    /\ total' = JoinData(total, data[w])
    /\ data' = [data EXCEPT ![w] = << >>]
    /\ UNCHANGED <<doubled, color, mutex, todo, pc, cur, left, used, phases>>

(* After the reduction the vertices are put into the phase of their        *)
(* colour.                                                                 *)
Collect ==
    /\ phases = << >>
    /\ todo = {}
    /\ \A w \in Workers : pc[w] = "idle" /\ data[w] = << >>
    /\ phases' = [i \in 1 .. Len(total) |-> {v \in Vertices : color[v] = i - 1}]
    /\ UNCHANGED <<doubled, color, mutex, todo, pc, cur, left, used, data, total>>

Worker(w) == Take(w) \/ Lock(w) \/ Read(w) \/ Choose(w) \/ Throw(w) \/ Unlock(w) \/ Join(w)

(* The result is there, or an exception keeps the caller from it. *)
Finished ==
    /\ phases # << >> \/ \E w \in Workers : pc[w] = "thrown"
    /\ UNCHANGED vars

(* A thread spins on a mutex that is taken: by x, or by itself because the *)
(* entry is doubled.                                                       *)
Blocked(w) == pc[w] = "lock" /\ \A v \in NextToLock(w) : mutex[v] # Nobody
WaitsFor(w, x) == pc[w] = "lock" /\ \A v \in NextToLock(w) : mutex[v] = x
Hung(w) == WaitsFor(w, w) /\ NextToLock(w) \subseteq doubled[cur[w]]
Spin(w) == Blocked(w) /\ UNCHANGED vars

Next == (\E w \in Workers : Worker(w) \/ Spin(w)) \/ Collect \/ Finished

Spec == Init /\ [][Next]_vars

(* Every thread keeps running.  A spin_mutex is not fair: nothing more is  *)
(* assumed of it.                                                          *)
FairSpec == Spec /\ WF_vars(Collect) /\ \A w \in Workers : WF_vars(Worker(w))

-----------------------------------------------------------------------------
(* Two vertices that are linked both ways never get the same colour, so    *)
(* that the sweeps may visit the vertices of one phase in parallel         *)
(* (hierarchy.cpp:323-361).                                                *)
ProperColoring ==
    \A u, v \in Vertices :
        u \in Adj[v] /\ v \in Adj[u] /\ color[u] # Uncolored => color[u] # color[v]

(* Workers never wait for each other in a circle, nor for one that is      *)
(* between two vertices; in any group of workers where it looks like that  *)
(* one waits for itself, at a doubled entry (hierarchy.cpp:323-330).       *)
NoCircularWait ==
    \A W \in SUBSET Workers :
        (\E w \in W : Blocked(w)) /\ (\A w \in W : pc[w] = "idle" \/ \E x \in W : WaitsFor(w, x))
            => \E w \in W : Hung(w)

(* In the result every vertex is in exactly one phase, the phases have the *)
(* sizes that were counted (and reserved) for them and none is empty       *)
(* (hierarchy.cpp:369-386).                                                *)
PhasesAreCounted ==
    phases # << >> =>
        /\ \A v \in Vertices : \E i \in 1 .. Len(phases) : v \in phases[i]
        /\ \A i \in 1 .. Len(phases) : Cardinality(phases[i]) = total[i] /\ total[i] > 0

(* The parallel colouring does nothing the sequential one could not do in  *)
(* some order of the vertices (hierarchy.cpp:209-390).                     *)
Greedy == INSTANCE GreedyColoring
ImplementsGreedyColoring == Greedy!Spec

(* The colouring ends, with a result or with an exception on its way; it   *)
(* does not if a worker waits for itself, and then the others do what is   *)
(* left until they need a mutex it holds (hierarchy.cpp:316-366).          *)
ColoringEnds ==
    <>(\/ phases # << >>
       \/ \E w \in Workers : pc[w] = "thrown"
       \/ /\ \E w \in Workers : Hung(w)
          /\ \A w \in Workers : Blocked(w) \/ (pc[w] = "idle" /\ todo = {}))

(* What the message of the exception is for: once a worker has thrown,     *)
(* the others come to an end too, so that the scheduler can hand the       *)
(* exception to the caller.                                                *)
ErrorIsReported ==
    (\E w \in Workers : pc[w] = "thrown") ~> (\A w \in Workers : pc[w] \in {"idle", "thrown"})
=============================================================================
