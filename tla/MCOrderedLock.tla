---------------------------- MODULE MCOrderedLock ----------------------------
(***************************************************************************)
(* Model checking of OrderedLock, and its refinement of FifoLock.          *)
(***************************************************************************)
EXTENDS OrderedLock

(* The queue of FifoLock: the queued threads in the order of their tickets. *)
Queue == [i \in 1 .. Cardinality(Queued) |->
            CHOOSE t \in Queued : Ahead(ticket[t]) = i - 1]

Inside == {t \in Threads : pc[t] = "inside"}

Fifo == INSTANCE FifoLock WITH queue <- Queue, owner <- Inside

(* ordered_lock deserves its name: it implements the first-come,           *)
(* first-served lock (common.h:255-273).                                   *)
ImplementsFifoLock == Fifo!Spec

(* Every thread that asks for the lock gets it: no starvation, whatever    *)
(* the order of wake-ups (common.h:261-262, 267).                          *)
EveryRequestIsServed == \A t \in Threads : (t \in Queued) ~> (pc[t] = "inside")
=============================================================================
