------------------------------ MODULE FifoLock ------------------------------
(***************************************************************************)
(* What src/src/common.h promises by the name "ordered_lock": a mutual     *)
(* exclusion lock that admits its callers in the order in which they asked *)
(* for it.  OrderedLock implements this specification; Optimizer and the   *)
(* modules built on it use its queue as their model of mRes.mutex().       *)
(***************************************************************************)
EXTENDS Sequences, Naturals

CONSTANT Threads        \* the threads that may call lock() and unlock()

VARIABLES
    queue,              \* the callers of lock() that have not unlocked yet, in order
    owner               \* {} or {t}: the caller whose lock() has returned

vars == <<queue, owner>>

TypeOK ==
    /\ queue \in Seq(Threads)
    /\ owner \subseteq Threads

Init == queue = << >> /\ owner = {}

(* A thread joins the end of the queue; it owns the lock at once exactly   *)
(* when nobody was queued.                                                 *)
Request(t) ==
    /\ \A i \in DOMAIN queue : queue[i] # t
    /\ queue' = Append(queue, t)
    /\ owner' = IF queue = << >> THEN {t} ELSE owner

(* The head of the queue finds out that its turn has come. *)
Grant(t) ==
    /\ owner = {}
    /\ queue # << >> /\ Head(queue) = t
    /\ owner' = {t}
    /\ UNCHANGED queue

Release(t) ==
    /\ owner = {t}
    /\ owner' = {}
    /\ queue' = Tail(queue)

Next == \E t \in Threads : Request(t) \/ Grant(t) \/ Release(t)

Spec == Init /\ [][Next]_vars

(* A queued thread that is granted the lock in its turn does not wait for  *)
(* ever, if every owner releases the lock.                                 *)
Fairness == \A t \in Threads : WF_vars(Grant(t)) /\ WF_vars(Release(t))

FairSpec == Spec /\ Fairness
=============================================================================
