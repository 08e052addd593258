--------------------------- MODULE ParallelShuffle ---------------------------
(***************************************************************************)
(* The order in which generate_graph_coloring (src/src/hierarchy.cpp)      *)
(* visits the vertices: worker threads shuffle perm in place.  Each entry  *)
(* is swapped with one that is not before it, under the mutexes of both,   *)
(* the lower one locked first.  The random number is any number.           *)
(***************************************************************************)
EXTENDS Naturals, FiniteSets

CONSTANTS
    Size,               \* the number of vertices, not 0
    Workers,            \* the threads
    Nobody              \* no thread

VARIABLES
    perm,               \* perm[0 .. size - 1]
    mutex,              \* mutex[i]: who holds it, or Nobody
    todo,               \* the values of i no worker has taken yet
    pc,                 \* where each worker is
    j, k,               \* the locals of each worker, j < k
    tmp                 \* the temporary of std::swap(perm[j], perm[k])

vars == <<perm, mutex, todo, pc, j, k, tmp>>

Positions == 0 .. Size - 1
Pcs == {"idle", "lock j", "lock k", "read", "write j", "write k", "unlock k", "unlock j"}

TypeOK ==
    /\ perm \in [Positions -> Positions]
    /\ mutex \in [Positions -> Workers \cup {Nobody}]
    /\ todo \subseteq Positions
    /\ pc \in [Workers -> Pcs]
    /\ j \in [Workers -> Positions]
    /\ k \in [Workers -> Positions]
    /\ tmp \in [Workers -> Positions]

Init ==
    /\ perm = [i \in Positions |-> i]
    /\ mutex = [i \in Positions |-> Nobody]
    /\ todo = Positions
    /\ pc = [w \in Workers |-> "idle"]
    /\ j = [w \in Workers |-> 0]
    /\ k = [w \in Workers |-> 0]
    /\ tmp = [w \in Workers |-> 0]

-----------------------------------------------------------------------------
(* The next i of a range and its random partner; an entry that would be    *)
(* swapped with itself is skipped.                                         *)
Take(w) ==
    /\ pc[w] = "idle"
    /\ \E i \in todo : \E r \in i .. Size - 1 :
         /\ todo' = todo \ {i}
         /\ IF i = r THEN UNCHANGED <<j, k, pc>>
            ELSE /\ j' = [j EXCEPT ![w] = i]
                 /\ k' = [k EXCEPT ![w] = r]
                 /\ pc' = [pc EXCEPT ![w] = "lock j"]
    /\ UNCHANGED <<perm, mutex, tmp>>

Acquire(w, i, from, to) ==
    /\ pc[w] = from
    /\ mutex[i] = Nobody
    /\ mutex' = [mutex EXCEPT ![i] = w]
    /\ pc' = [pc EXCEPT ![w] = to]
    /\ UNCHANGED <<perm, todo, j, k, tmp>>

LockJ(w) == Acquire(w, j[w], "lock j", "lock k")

(* Mutant of LockK: the second lock is forgotten. *)
LockKForgotten(w) ==
    /\ pc[w] = "lock k"
    /\ pc' = [pc EXCEPT ![w] = "read"]
    /\ UNCHANGED <<perm, mutex, todo, j, k, tmp>>

LockK(w) == Acquire(w, k[w], "lock k", "read")

(* std::swap *)
SwapRead(w) ==
    /\ pc[w] = "read"
    /\ tmp' = [tmp EXCEPT ![w] = perm[j[w]]]
    /\ pc' = [pc EXCEPT ![w] = "write j"]
    /\ UNCHANGED <<perm, mutex, todo, j, k>>

SwapWriteJ(w) ==
    /\ pc[w] = "write j"
    /\ perm' = [perm EXCEPT ![j[w]] = perm[k[w]]]
    /\ pc' = [pc EXCEPT ![w] = "write k"]
    /\ UNCHANGED <<mutex, todo, j, k, tmp>>

SwapWriteK(w) ==
    /\ pc[w] = "write k"
    /\ perm' = [perm EXCEPT ![k[w]] = tmp[w]]
    /\ pc' = [pc EXCEPT ![w] = "unlock k"]
    /\ UNCHANGED <<mutex, todo, j, k, tmp>>

Release(w, i, from, to) ==
    /\ pc[w] = from
    /\ mutex' = [mutex EXCEPT ![i] = Nobody]
    /\ pc' = [pc EXCEPT ![w] = to]
    /\ UNCHANGED <<perm, todo, j, k, tmp>>

UnlockK(w) == Release(w, k[w], "unlock k", "unlock j")
UnlockJ(w) == Release(w, j[w], "unlock j", "idle")

Worker(w) ==
    \/ Take(w) \/ LockJ(w) \/ LockK(w)
    \/ SwapRead(w) \/ SwapWriteJ(w) \/ SwapWriteK(w)
    \/ UnlockK(w) \/ UnlockJ(w)

(* The loop has come to its end. *)
Done == todo = {} /\ \A w \in Workers : pc[w] = "idle"

Next == \E w \in Workers : Worker(w)

Spec == Init /\ [][Next]_vars

-----------------------------------------------------------------------------
(* No vertex is lost or visited twice, however the swaps overlap: apart    *)
(* from the entries whose value is still in the temporary of a worker, the *)
(* entries are a permutation (hierarchy.cpp:293-310).                      *)
HalfSwapped == {w \in Workers : pc[w] = "write k"}

StaysPermutation ==
    {perm[i] : i \in Positions \ {k[w] : w \in HalfSwapped}} \cup {tmp[w] : w \in HalfSwapped}
        = Positions
=============================================================================
