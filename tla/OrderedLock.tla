----------------------------- MODULE OrderedLock -----------------------------
(***************************************************************************)
(* class ordered_lock of src/src/common.h: a ticket lock made of a mutex,  *)
(* a condition variable and two unsigned counters.  It guards the          *)
(* multi-resolution hierarchy against the optimizer's worker thread and    *)
(* the thread of the user interface.                                       *)
(*                                                                         *)
(* Everything between acquiring and releasing cvar_lock (a wait releases   *)
(* it) is one step, because no other access to the four members exists.    *)
(* The counters are unsigned int and wrap: tickets live in 0..Tickets-1.   *)
(***************************************************************************)
EXTENDS Naturals, FiniteSets

CONSTANTS
    Threads,            \* the threads that use the lock
    Tickets             \* the number of values of an unsigned int

(* The lock's arithmetic needs fewer threads than ticket values. *)
ASSUME ThreadsAssumption == IsFiniteSet(Threads)
ASSUME TicketsAssumption == Tickets \in Nat \ {0} /\ Cardinality(Threads) <= Tickets

VARIABLES
    next_ticket,        \* the ticket of the next caller of lock()
    counter,            \* the ticket now served
    ticket,             \* the local variable of lock(), for each thread
    pc                  \* where each thread is

vars == <<next_ticket, counter, ticket, pc>>

TicketValues == 0 .. Tickets - 1

(* Post-increment of an unsigned int. *)
Increment(x) == IF x = Tickets - 1 THEN 0 ELSE x + 1

TypeOK ==
    /\ next_ticket \in TicketValues
    /\ counter \in TicketValues
    /\ ticket \in [Threads -> TicketValues]
    /\ pc \in [Threads -> {"outside", "asleep", "woken", "inside"}]

Init ==
    /\ next_ticket = 0
    /\ counter = 0
    /\ ticket = [t \in Threads |-> 0]
    /\ pc = [t \in Threads |-> "outside"]

(* Mutant of Lock: a caller enters whenever nobody is inside. *)
LockBarging(t) ==
    /\ pc[t] = "outside"
    /\ ticket' = [ticket EXCEPT ![t] = next_ticket]
    /\ next_ticket' = Increment(next_ticket)
    /\ pc' = [pc EXCEPT ![t] =
                IF \A u \in Threads : pc[u] # "inside" THEN "inside" ELSE "asleep"]
    /\ UNCHANGED counter

(* lock(): take a ticket, return if it is being served, else wait. *)
Lock(t) ==
    /\ pc[t] = "outside"
    /\ ticket' = [ticket EXCEPT ![t] = next_ticket]
    /\ next_ticket' = Increment(next_ticket)
    /\ pc' = [pc EXCEPT ![t] = IF next_ticket = counter THEN "inside" ELSE "asleep"]
    /\ UNCHANGED counter

(* Mutant of Recheck: "if" instead of "while", a woken thread goes on. *)
RecheckOnce(t) ==
    /\ pc[t] = "woken"
    /\ pc' = [pc EXCEPT ![t] = "inside"]
    /\ UNCHANGED <<next_ticket, counter, ticket>>

(* The loop of lock() after the wait returns, cvar_lock held again. *)
Recheck(t) ==
    /\ pc[t] = "woken"
    /\ pc' = [pc EXCEPT ![t] = IF ticket[t] = counter THEN "inside" ELSE "asleep"]
    /\ UNCHANGED <<next_ticket, counter, ticket>>

(* A condition variable may also wake up for no reason. *)
SpuriousWakeup(t) ==
    /\ pc[t] = "asleep"
    /\ pc' = [pc EXCEPT ![t] = "woken"]
    /\ UNCHANGED <<next_ticket, counter, ticket>>

(* Mutant of NotifyAll: unlock() wakes one sleeper, whichever it is. *)
NotifyOne(t) ==
    LET asleep == {u \in Threads : pc[u] = "asleep"}
        one == IF asleep = {} THEN {} ELSE {CHOOSE u \in asleep : TRUE}
    IN [u \in Threads |->
            IF u = t THEN "outside" ELSE IF u \in one THEN "woken" ELSE pc[u]]

(* Mutant of NotifyAll: the notification is forgotten. *)
NotifyNobody(t) == [pc EXCEPT ![t] = "outside"]

(* unlock(): serve the next ticket and wake every sleeper. *)
NotifyAll(t) == [u \in Threads |->
    IF u = t THEN "outside" ELSE IF pc[u] = "asleep" THEN "woken" ELSE pc[u]]

Unlock(t) ==
    /\ pc[t] = "inside"
    /\ counter' = Increment(counter)
    /\ pc' = NotifyAll(t)
    /\ UNCHANGED <<next_ticket, ticket>>

Next == \E t \in Threads : Lock(t) \/ Recheck(t) \/ SpuriousWakeup(t) \/ Unlock(t)

Spec == Init /\ [][Next]_vars

(* A woken thread is scheduled, and a critical section ends. *)
Fairness == \A t \in Threads : WF_vars(Recheck(t)) /\ WF_vars(Unlock(t))

FairSpec == Spec /\ Fairness

-----------------------------------------------------------------------------
(* How many tickets are served before ticket x. *)
Ahead(x) == IF x >= counter THEN x - counter ELSE x - counter + Tickets

(* The threads that have taken a ticket and have not unlocked since. *)
Queued == {t \in Threads : pc[t] # "outside"}

(* At most one thread is between the return of lock() and its unlock(),    *)
(* also when the two counters have wrapped around a different number of    *)
(* times (common.h:258-268).                                               *)
MutualExclusion ==
    \A t, u \in Threads : pc[t] = "inside" /\ pc[u] = "inside" => t = u

(* No wake-up is lost: the thread whose ticket is served is never asleep   *)
(* with nobody left to notify it (common.h:261-267).                       *)
NoLostTurn == \A t \in Threads : pc[t] = "asleep" => ticket[t] # counter

(* The inductive invariant: the tickets in use are the numbers from        *)
(* counter on, without gaps or repetitions, and next_ticket follows them.  *)
TicketsInUse ==
    /\ \A t \in Queued : Ahead(ticket[t]) < Cardinality(Queued)
    /\ \A t, u \in Queued : ticket[t] = ticket[u] => t = u
    /\ next_ticket = IF counter + Cardinality(Queued) < Tickets
                     THEN counter + Cardinality(Queued)
                     ELSE counter + Cardinality(Queued) - Tickets

InsideIsServed == \A t \in Threads : pc[t] = "inside" => ticket[t] = counter

LockInv == TypeOK /\ TicketsInUse /\ InsideIsServed /\ NoLostTurn
=============================================================================
