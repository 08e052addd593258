---------------------------- MODULE DisjointSets ----------------------------
(***************************************************************************)
(* class DisjointSets of src/ext/dset/dset.h: union-find in an array of    *)
(* 64-bit atomics, each with a lock bit, a rank and a parent.  It is used  *)
(* by collapse_edges of extract.cpp (try_lock, find, unite_unlock, unlock) *)
(* and for point clouds by adjacency.cpp (unite, find).                    *)
(*                                                                         *)
(* Every load, store and compare-and-exchange of an entry is a step.       *)
(* Exception: the test of find and the load that follows it are one,       *)
(* because an entry with a parent never becomes a root again.              *)
(***************************************************************************)
EXTENDS Naturals, FiniteSets

CONSTANTS
    Ids,                \* the indices, natural numbers
    Workers,            \* the threads of the parallel loop
    Uses                \* the operations that its body calls, and the indices

ASSUME IdsAssumption == Ids \subseteq Nat /\ IsFiniteSet(Ids) /\ Ids # {}
ASSUME UsesAssumption == Uses \subseteq [ops : SUBSET {"find", "lock", "unite"}, ids : SUBSET Ids]

VARIABLES
    mData,              \* the entries
    local,              \* the place of each worker and its local variables
    held,               \* the parts its caller has locked
    use                 \* which loop runs (not in the code)

vars == <<mData, local, held, use>>

parent(x) == mData[x].parent
rank(x) == mData[x].rank

Entry(l, r, p) == [locked |-> l, rank |-> r, parent |-> p]

(* A root of rank r has at least 2^r numbers below it: ranks stay far from *)
(* the lock bit.                                                           *)
Ranks == {r \in 0 .. Cardinality(Ids) : 2 ^ r <= Cardinality(Ids)}
Entries == [locked : BOOLEAN, rank : Ranks, parent : Ids]

Pcs == {"idle", "look", "grand", "halve", "try", "lock",
        "store", "store root", "rank1", "rank2", "link", "bump"}

Locals == [
    pc : Pcs,
    op : {"find", "lock", "unite", "unite second"},   \* what find is called for
    id : Ids,                           \* the local variable of find
    value : Entries,                    \* of find and try_lock
    new_parent : Ids,                   \* of find
    id1 : Ids, id2 : Ids,               \* of unite and unite_unlock
    r1 : Ranks, r2 : Ranks]             \* the ranks they have read

TypeOK ==
    /\ mData \in [Ids -> Entries]
    /\ local \in [Workers -> Locals]
    /\ held \in [Workers -> SUBSET Ids]
    /\ use \in Uses

AnyId == CHOOSE x \in Ids : TRUE

(* Outside a call the local variables do not exist. *)
Idle == [pc |-> "idle", op |-> "find", id |-> AnyId,
         value |-> Entry(FALSE, 0, AnyId), new_parent |-> AnyId,
         id1 |-> AnyId, id2 |-> AnyId, r1 |-> 0, r2 |-> 0]

Init ==
    /\ mData = [x \in Ids |-> Entry(FALSE, 0, x)]
    /\ local = [w \in Workers |-> Idle]
    /\ held = [w \in Workers |-> {}]
    /\ use \in Uses

At(w, place) == local[w].pc = place
Goto(w, place) == local' = [local EXCEPT ![w].pc = place]
Return(w) == local' = [local EXCEPT ![w] = Idle]

-----------------------------------------------------------------------------
(* The calls.  A caller of try_lock has locked at most one part.           *)

CallFind(w) ==
    /\ At(w, "idle") /\ "find" \in use.ops
    /\ \E x \in use.ids : local' = [local EXCEPT ![w].pc = "look", ![w].id = x]
    /\ UNCHANGED <<mData, held, use>>

CallTryLock(w) ==
    /\ At(w, "idle") /\ "lock" \in use.ops
    /\ Cardinality(held[w]) < 2
    /\ \E x \in use.ids :
         local' = [local EXCEPT ![w].pc = "look", ![w].op = "lock", ![w].id = x]
    /\ UNCHANGED <<mData, held, use>>

CallUnite(w) ==
    /\ At(w, "idle") /\ "unite" \in use.ops
    /\ \E x, y \in use.ids :
         local' = [local EXCEPT ![w].pc = "look", ![w].op = "unite", ![w].id = x, ![w].id2 = y]
    /\ UNCHANGED <<mData, held, use>>

-----------------------------------------------------------------------------
(* find: go up, and let every entry on the way point to its grandparent.   *)

Look(w) ==
    /\ At(w, "look")
    /\ parent(local[w].id) # local[w].id
    /\ local' = [local EXCEPT ![w].pc = "grand", ![w].value = mData[local[w].id]]
    /\ UNCHANGED <<mData, held, use>>

(* A root is reached: what the caller of find does with it. *)
Found(w) ==
    /\ At(w, "look")
    /\ LET me == local[w]
       IN /\ parent(me.id) = me.id
          /\ \/ me.op = "find" /\ Return(w)
             \/ me.op = "lock" /\ Goto(w, "try")
             \/ /\ me.op = "unite"
                /\ local' = [local EXCEPT ![w].id1 = me.id, ![w].id = me.id2, ![w].op = "unite second"]
             \/ /\ me.op = "unite second"
                /\ IF me.id = me.id1 THEN Return(w)
                   ELSE local' = [local EXCEPT ![w].id2 = me.id, ![w].pc = "rank1"]
    /\ UNCHANGED <<mData, held, use>>

Grand(w) ==
    /\ At(w, "grand")
    /\ local' = [local EXCEPT ![w].pc = "halve", ![w].new_parent = parent(local[w].value.parent)]
    /\ UNCHANGED <<mData, held, use>>

(* Mutant of Halve: a failed exchange is tried again. *)
HalveRetry(w) ==
    /\ At(w, "halve")
    /\ LET me == local[w]
       IN \/ /\ mData[me.id] = me.value
             /\ mData' = [mData EXCEPT ![me.id].parent = me.new_parent]
             /\ local' = [local EXCEPT ![w].pc = "look", ![w].id = me.new_parent,
                    ![w].value = Idle.value, ![w].new_parent = AnyId]
          \/ /\ local' = [local EXCEPT ![w].pc = "look", ![w].value = Idle.value,
                    ![w].new_parent = AnyId]
             /\ UNCHANGED mData
    /\ UNCHANGED <<held, use>>

(* compare_exchange_weak may fail without a reason, "that's ok". *)
Halve(w) ==
    /\ At(w, "halve")
    /\ LET me == local[w]
       IN /\ \/ mData[me.id] = me.value /\ mData' = [mData EXCEPT ![me.id].parent = me.new_parent]
             \/ UNCHANGED mData
          /\ local' = [local EXCEPT ![w].pc = "look", ![w].id = me.new_parent,
                ![w].value = Idle.value, ![w].new_parent = AnyId]
    /\ UNCHANGED <<held, use>>

-----------------------------------------------------------------------------
(* try_lock, after its find, and unlock.                                   *)

(* Mutant of Try: the entry is not tested once more for being a root. *)
TryAnyway(w) ==
    /\ At(w, "try")
    /\ LET x == local[w].id
       IN IF mData[x].locked THEN Return(w)
          ELSE local' = [local EXCEPT ![w].pc = "lock", ![w].value = mData[x]]
    /\ UNCHANGED <<mData, held, use>>

Try(w) ==
    /\ At(w, "try")
    /\ LET x == local[w].id
       IN IF mData[x].locked \/ parent(x) # x THEN Return(w)
          ELSE local' = [local EXCEPT ![w].pc = "lock", ![w].value = mData[x]]
    /\ UNCHANGED <<mData, held, use>>

LockCas(w) ==
    /\ At(w, "lock")
    /\ LET x == local[w].id
       IN IF mData[x] = local[w].value
          THEN /\ mData' = [mData EXCEPT ![x].locked = TRUE]
               /\ held' = [held EXCEPT ![w] = @ \cup {x}]
          ELSE UNCHANGED <<mData, held>>
    /\ Return(w)
    /\ UNCHANGED use

Unlock(w) ==
    /\ At(w, "idle")
    /\ \E x \in held[w] :
         /\ mData' = [mData EXCEPT ![x].locked = FALSE]
         /\ held' = [held EXCEPT ![w] = @ \ {x}]
    /\ UNCHANGED <<local, use>>

-----------------------------------------------------------------------------
(* Mutant of Swap: the higher root becomes the child. *)
SwapHigher(x, y, rx, ry) == rx < ry \/ (rx = ry /\ x < y)

(* Is x to be the parent of y?  (The code then swaps the two.) *)
Swap(x, y, rx, ry) == rx > ry \/ (rx = ry /\ x < y)

(* unite_unlock: two locked roots, then a store of either. *)
UniteUnlock(w) ==
    /\ At(w, "idle")
    /\ \E x, y \in held[w] :
         /\ x # y /\ ~Swap(x, y, rank(x), rank(y))
         /\ local' = [local EXCEPT ![w].pc = "store", ![w].id1 = x, ![w].id2 = y,
                ![w].r1 = rank(x), ![w].r2 = rank(y)]
    /\ UNCHANGED <<mData, held, use>>

StoreChild(w) ==
    /\ At(w, "store")
    /\ LET me == local[w]
       IN /\ mData' = [mData EXCEPT ![me.id1] = Entry(FALSE, me.r1, me.id2)]
          /\ held' = [held EXCEPT ![w] = @ \ {me.id1}]
    /\ Goto(w, "store root")
    /\ UNCHANGED use

StoreRoot(w) ==
    /\ At(w, "store root")
    /\ LET me == local[w]
       IN /\ mData' = [mData EXCEPT ![me.id2] =
                Entry(FALSE, me.r2 + (IF me.r1 = me.r2 THEN 1 ELSE 0), me.id2)]
          /\ held' = [held EXCEPT ![w] = @ \ {me.id2}]
    /\ Return(w)
    /\ UNCHANGED use

-----------------------------------------------------------------------------
(* unite, after its two finds: read the ranks, then link the lower root if *)
(* it still is a root of that rank, else start again.                      *)

ReadRank1(w) ==
    /\ At(w, "rank1")
    /\ local' = [local EXCEPT ![w].pc = "rank2", ![w].r1 = rank(local[w].id1)]
    /\ UNCHANGED <<mData, held, use>>

ReadRank2(w) ==
    /\ At(w, "rank2")
    /\ LET me == local[w]
           r2 == rank(me.id2)
       IN local' = IF Swap(me.id1, me.id2, me.r1, r2)
            THEN [local EXCEPT ![w].pc = "link", ![w].id1 = me.id2, ![w].id2 = me.id1,
                    ![w].r1 = r2, ![w].r2 = me.r1]
            ELSE [local EXCEPT ![w].pc = "link", ![w].r2 = r2]
    /\ UNCHANGED <<mData, held, use>>

(* The compare_exchange_strong of unite succeeds. *)
Unlinked(w) == mData[local[w].id1] = Entry(FALSE, local[w].r1, local[w].id1)

Link(w) ==
    /\ At(w, "link")
    /\ Unlinked(w)
    /\ mData' = [mData EXCEPT ![local[w].id1].parent = local[w].id2]
    /\ IF local[w].r1 = local[w].r2 THEN Goto(w, "bump") ELSE Return(w)
    /\ UNCHANGED <<held, use>>

Again(w) ==
    /\ At(w, "link")
    /\ ~Unlinked(w)
    /\ local' = [local EXCEPT ![w].pc = "look", ![w].op = "unite", ![w].id = local[w].id1,
            ![w].id1 = AnyId, ![w].r1 = 0, ![w].r2 = 0]
    /\ UNCHANGED <<mData, held, use>>

(* The rank of the new root, compare_exchange_weak again. *)
Bump(w) ==
    /\ At(w, "bump")
    /\ LET me == local[w]
       IN \/ /\ mData[me.id2] = Entry(FALSE, me.r2, me.id2)
             /\ mData' = [mData EXCEPT ![me.id2].rank = me.r2 + 1]
          \/ UNCHANGED mData
    /\ Return(w)
    /\ UNCHANGED <<held, use>>

-----------------------------------------------------------------------------
(* The steps inside an operation. *)
Step(w) ==
    \/ Look(w) \/ Found(w) \/ Grand(w) \/ Halve(w) \/ Try(w) \/ LockCas(w)
    \/ StoreChild(w) \/ StoreRoot(w)
    \/ ReadRank1(w) \/ ReadRank2(w) \/ Link(w) \/ Again(w) \/ Bump(w)

Next == \E w \in Workers :
    \/ CallFind(w) \/ CallTryLock(w) \/ CallUnite(w)
    \/ Unlock(w) \/ UniteUnlock(w) \/ Step(w)

Spec == Init /\ [][Next]_vars

(* A thread of the loop is scheduled. *)
FairSpec == Spec /\ \A w \in Workers : WF_vars(Step(w))

-----------------------------------------------------------------------------
(* Parents are of higher rank, or of equal rank and smaller number, so     *)
(* that no sequence of finds and unions closes a cycle: the tie must be    *)
(* broken by the number because the rank is raised only later, or never    *)
(* (dset.h:64-82, 144-155).                                                *)
Below(x, y) == rank(x) < rank(y) \/ (rank(x) = rank(y) /\ y < x)

Ordered == \A x \in Ids : parent(x) # x => Below(x, parent(x))

(* A locked entry is a root, and exactly one worker has locked it          *)
(* (dset.h:95-110): unite_unlock stores without comparing.                 *)
LocksAreExclusive ==
    \A x \in Ids :
        LET owners == {w \in Workers : x \in held[w]}
        IN IF mData[x].locked THEN parent(x) = x /\ Cardinality(owners) = 1 ELSE owners = {}

(* With ranks that stay logarithmic (TypeOK): what every operation finds   *)
(* and leaves behind (dset.h:25-155).                                      *)
SetInv == TypeOK /\ Ordered /\ LocksAreExclusive

(* Every call ends although the other threads keep moving parents: the     *)
(* loops of find and unite (dset.h:31-40, 53-85).                          *)
CallsEnd == \A w \in Workers : ~At(w, "idle") ~> At(w, "idle")
=============================================================================
