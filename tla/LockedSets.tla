----------------------------- MODULE LockedSets -----------------------------
(***************************************************************************)
(* What class DisjointSets of src/ext/dset/dset.h promises: a partition of *)
(* the numbers Ids in which every part has a representative, a lock for    *)
(* each part, and two ways to join parts: the holder of both locks joins   *)
(* them (extract.cpp), or anyone does (adjacency.cpp).                     *)
(***************************************************************************)
EXTENDS Naturals

CONSTANTS Ids, Workers, Nobody

VARIABLES
    rep,                \* the representative of the part of each number
    holder              \* who has locked the part, for each representative

vars == <<rep, holder>>

Init ==
    /\ rep = [x \in Ids |-> x]
    /\ holder = [x \in Ids |-> Nobody]

Join(a, b) == rep' = [x \in Ids |-> IF rep[x] = a THEN b ELSE rep[x]]

TryLock(w, a) ==
    /\ rep[a] = a
    /\ holder[a] = Nobody
    /\ holder' = [holder EXCEPT ![a] = w]
    /\ UNCHANGED rep

Unlock(w, a) ==
    /\ holder[a] = w
    /\ holder' = [holder EXCEPT ![a] = Nobody]
    /\ UNCHANGED rep

(* The part of a becomes a part of that of b, which stays locked. *)
UniteLocked(w, a, b) ==
    /\ a # b
    /\ holder[a] = w /\ holder[b] = w
    /\ Join(a, b)
    /\ holder' = [holder EXCEPT ![a] = Nobody]

(* Two parts that nobody has locked are joined. *)
Unite(a, b) ==
    /\ a # b
    /\ rep[a] = a /\ rep[b] = b
    /\ holder[a] = Nobody /\ holder[b] = Nobody
    /\ Join(a, b)
    /\ UNCHANGED holder

Next ==
    \E a \in Ids :
        \/ \E w \in Workers : TryLock(w, a) \/ Unlock(w, a)
        \/ \E b \in Ids : Unite(a, b) \/ \E w \in Workers : UniteLocked(w, a, b)

Spec == Init /\ [][Next]_vars
=============================================================================
