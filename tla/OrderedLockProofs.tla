-------------------------- MODULE OrderedLockProofs --------------------------
(***************************************************************************)
(* Machine-checked proofs about OrderedLock, for every finite set of       *)
(* threads and every width of the ticket counters that is large enough:    *)
(* its inductive invariant, mutual exclusion, and that it implements       *)
(* FifoLock under the refinement mapping of MCOrderedLock.                 *)
(***************************************************************************)
EXTENDS MCOrderedLock, FiniteSetTheorems, SequenceTheorems, TLAPS

(* The number of queued threads is a natural number, and the tickets       *)
(* suffice for them.                                                       *)
LEMMA QueuedIsFinite ==
    /\ IsFiniteSet(Queued)
    /\ Cardinality(Queued) \in Nat
    /\ \A t \in Threads : pc[t] = "outside" => Cardinality(Queued) < Tickets
<1>1. Queued \subseteq Threads
  BY DEF Queued
<1>2. IsFiniteSet(Queued)
  BY <1>1, FS_Subset, ThreadsAssumption
<1>3. Cardinality(Queued) \in Nat /\ Cardinality(Threads) \in Nat
  BY <1>2, FS_CardinalityType, ThreadsAssumption
<1>4. ASSUME NEW t \in Threads, pc[t] = "outside"
      PROVE  Cardinality(Queued) < Tickets
  <2>1. Queued \subseteq Threads \ {t}
    BY <1>4 DEF Queued
  <2>2. /\ IsFiniteSet(Threads \ {t})
        /\ Cardinality(Threads \ {t}) = Cardinality(Threads) - 1
    BY FS_RemoveElement, ThreadsAssumption
  <2>3. Cardinality(Queued) <= Cardinality(Threads) - 1
    BY <2>1, <2>2, FS_Subset
  <2> QED
    BY <2>3, <1>3, TicketsAssumption
<1> QED
  BY <1>2, <1>3, <1>4

-----------------------------------------------------------------------------
(* Arithmetic of the wrapping counters.                                    *)

(* With fewer than Tickets queued threads, the next ticket is that many    *)
(* tickets ahead of the one being served, and no two tickets are equally   *)
(* far ahead.                                                              *)
LEMMA NextTicketAhead ==
    ASSUME counter \in TicketValues, NEW n \in Nat, n < Tickets,
           next_ticket = IF counter + n < Tickets THEN counter + n
                         ELSE counter + n - Tickets
    PROVE  Ahead(next_ticket) = n /\ next_ticket \in TicketValues
  BY TicketsAssumption DEF TicketValues, Ahead

(* Taking a ticket keeps next_ticket behind the tickets in use. *)
LEMMA IncrementNext ==
    ASSUME counter \in TicketValues, NEW n \in Nat, n < Tickets,
           next_ticket = IF counter + n < Tickets THEN counter + n
                         ELSE counter + n - Tickets
    PROVE  /\ Increment(next_ticket) \in TicketValues
           /\ Increment(next_ticket) =
                IF counter + (n + 1) < Tickets THEN counter + (n + 1)
                ELSE counter + (n + 1) - Tickets
  BY TicketsAssumption DEF TicketValues, Increment

-----------------------------------------------------------------------------
(* The lock is constructed with both counters at 0 and nobody queued. *)
LEMMA InitLockInv == Init => LockInv
<1> SUFFICES ASSUME Init PROVE LockInv
  OBVIOUS
<1>1. Queued = {}
  BY DEF Init, Queued
<1>2. Cardinality(Queued) = 0
  BY <1>1, FS_EmptySet
<1>3. TypeOK
  BY TicketsAssumption DEF Init, TypeOK, TicketValues
<1>4. TicketsInUse
  BY <1>1, <1>2, TicketsAssumption DEF Init, TicketsInUse
<1> QED
  BY <1>3, <1>4 DEF Init, LockInv, InsideIsServed, NoLostTurn

(* Steps that leave the set of queued threads and the tickets alone. *)
LEMMA SameTickets ==
    ASSUME TicketsInUse, UNCHANGED <<next_ticket, counter, ticket>>, Queued' = Queued
    PROVE  TicketsInUse'
  BY DEF TicketsInUse, Ahead

(* A caller of lock() takes the next free ticket, and enters only if it is *)
(* the one being served.                                                   *)
LEMMA LockKeepsLockInv ==
    ASSUME LockInv, NEW t \in Threads, Lock(t)
    PROVE  LockInv'
<1> DEFINE n == Cardinality(Queued)
<1>1. n \in Nat /\ n < Tickets /\ IsFiniteSet(Queued)
  BY QueuedIsFinite DEF Lock
<1>2. /\ next_ticket = IF counter + n < Tickets THEN counter + n
                       ELSE counter + n - Tickets
      /\ counter \in TicketValues
  BY DEF LockInv, TicketsInUse, TypeOK
<1> HIDE DEF n
<1>3. Ahead(next_ticket) = n /\ next_ticket \in TicketValues
  BY <1>1, <1>2, NextTicketAhead
<1>4. /\ Increment(next_ticket) \in TicketValues
      /\ Increment(next_ticket) = IF counter + (n + 1) < Tickets THEN counter + (n + 1)
                                  ELSE counter + (n + 1) - Tickets
  BY <1>1, <1>2, IncrementNext
<1>5. Queued' = Queued \cup {t} /\ t \notin Queued
  BY DEF LockInv, TypeOK, Lock, Queued
<1>6. Cardinality(Queued') = n + 1
  BY <1>1, <1>5, FS_AddElement DEF n
<1>7. TypeOK'
  BY <1>3, <1>4 DEF LockInv, TypeOK, Lock
<1>8. TicketsInUse'
  <2>1. ticket'[t] = next_ticket /\ \A u \in Queued : ticket'[u] = ticket[u]
    BY <1>5 DEF Lock, LockInv, TypeOK, Queued
  <2>2. \A u \in Queued : Ahead(ticket[u]) < n /\ ticket[u] \in TicketValues
    BY DEF LockInv, TicketsInUse, TypeOK, Queued, n
  <2>3. \A x : (Ahead(x))' = IF x >= counter THEN x - counter ELSE x - counter + Tickets
    BY DEF Ahead, Lock
  <2>4. \A u \in Queued' : (Ahead(ticket[u]))' < n + 1
    <3> SUFFICES ASSUME NEW u \in Queued' PROVE (Ahead(ticket[u]))' < n + 1
      OBVIOUS
    <3>1. CASE u = t
      BY <3>1, <2>1, <1>3, <1>1 DEF Ahead, Lock
    <3>2. CASE u \in Queued
      <4>1. Ahead(ticket[u]) < n /\ Ahead(ticket[u]) \in Int
        BY <3>2, <2>2, <1>2, TicketsAssumption DEF Ahead, TicketValues
      <4>2. (Ahead(ticket[u]))' = Ahead(ticket[u])
        BY <3>2, <2>1 DEF Ahead, Lock
      <4> QED
        BY <4>1, <4>2, <1>1
    <3> QED
      BY <3>1, <3>2, <1>5
  <2>5. \A u \in Queued : ticket[u] # next_ticket
    BY <2>2, <1>3, <1>1
  <2>6. \A u, w \in Queued' : ticket'[u] = ticket'[w] => u = w
    BY <2>1, <2>5, <1>5 DEF LockInv, TicketsInUse
  <2>7. next_ticket' = Increment(next_ticket) /\ counter' = counter
    BY DEF Lock
  <2> QED
    BY <2>4, <2>6, <2>7, <1>4, <1>6 DEF TicketsInUse
<1>9. InsideIsServed' /\ NoLostTurn'
  BY DEF LockInv, InsideIsServed, NoLostTurn, Lock, TypeOK
<1> QED
  BY <1>7, <1>8, <1>9 DEF LockInv

(* unlock() serves the next ticket and leaves nobody asleep. *)
LEMMA UnlockKeepsLockInv ==
    ASSUME LockInv, NEW t \in Threads, Unlock(t)
    PROVE  LockInv'
<1> DEFINE n == Cardinality(Queued)
<1>1. n \in Nat /\ IsFiniteSet(Queued) /\ counter \in TicketValues
  BY QueuedIsFinite DEF LockInv, TypeOK
<1>2. ticket[t] = counter /\ t \in Queued /\ counter' = Increment(counter)
  BY DEF LockInv, InsideIsServed, Unlock, Queued
<1>3. Queued' = Queued \ {t}
  BY DEF LockInv, TypeOK, Unlock, NotifyAll, Queued
<1>4. Cardinality(Queued') = n - 1
  BY <1>1, <1>2, <1>3, FS_RemoveElement
<1>5. Ahead(counter) = 0
  BY <1>1 DEF Ahead, TicketValues
<1>6. n > 0
  BY <1>1, <1>2, <1>5 DEF LockInv, TicketsInUse
<1>7. TypeOK'
  <2>1. counter' \in TicketValues
    BY <1>1, <1>2, TicketsAssumption DEF Increment, TicketValues
  <2> QED
    BY <2>1 DEF LockInv, TypeOK, Unlock, NotifyAll
<1>8. TicketsInUse'
  <2>1. \A u \in Queued' : ticket'[u] = ticket[u] /\ ticket[u] \in TicketValues /\ ticket[u] # counter
    BY <1>2, <1>3 DEF Unlock, LockInv, TypeOK, TicketsInUse, Queued
  <2>2. \A u \in Queued' : (Ahead(ticket[u]))' < n - 1
    <3> SUFFICES ASSUME NEW u \in Queued' PROVE (Ahead(ticket[u]))' < n - 1
      OBVIOUS
    <3> DEFINE x == ticket[u]
    <3>1. x \in TicketValues /\ x # counter
      BY <2>1
    <3>2. Ahead(x) < n
      BY <1>3 DEF LockInv, TicketsInUse
    <3>3. /\ Ahead(x) \in Nat
          /\ (IF x >= counter' THEN x - counter' ELSE x - counter' + Tickets) = Ahead(x) - 1
      BY <3>1, <1>1, <1>2, TicketsAssumption DEF TicketValues, Increment, Ahead
    <3>4. (Ahead(ticket[u]))' = IF x >= counter' THEN x - counter' ELSE x - counter' + Tickets
      BY <2>1 DEF Ahead
    <3> QED
      BY <3>2, <3>3, <3>4, <1>1
  <2>3. \A u, w \in Queued' : ticket'[u] = ticket'[w] => u = w
    BY <2>1, <1>3 DEF LockInv, TicketsInUse
  <2>4. next_ticket' = IF counter' + (n - 1) < Tickets THEN counter' + (n - 1)
                       ELSE counter' + (n - 1) - Tickets
    <3>1. next_ticket' = next_ticket /\ next_ticket \in TicketValues
      BY DEF Unlock, LockInv, TypeOK
    <3>2. next_ticket = IF counter + n < Tickets THEN counter + n
                        ELSE counter + n - Tickets
      BY DEF LockInv, TicketsInUse
    <3> HIDE DEF n
    <3> QED
      BY <3>1, <3>2, <1>1, <1>2, <1>6, TicketsAssumption DEF TicketValues, Increment
  <2> QED
    BY <2>2, <2>3, <2>4, <1>4 DEF TicketsInUse
<1>9. \A u \in Threads : pc'[u] # "inside" /\ pc'[u] # "asleep"
  <2>1. \A u \in Threads : pc[u] = "inside" => u = t
    BY <1>2 DEF LockInv, InsideIsServed, TicketsInUse, Queued
  <2> QED
    BY <2>1 DEF Unlock, NotifyAll
<1>10. InsideIsServed' /\ NoLostTurn'
  BY <1>9 DEF InsideIsServed, NoLostTurn
<1> QED
  BY <1>7, <1>8, <1>10 DEF LockInv

(* Waking up and testing the ticket moves no counter. *)
LEMMA WaitKeepsLockInv ==
    ASSUME LockInv, NEW t \in Threads, Recheck(t) \/ SpuriousWakeup(t)
    PROVE  LockInv'
<1>1. Queued' = Queued
  BY DEF LockInv, TypeOK, Recheck, SpuriousWakeup, Queued
<1>2. TicketsInUse'
  BY <1>1, SameTickets DEF LockInv, Recheck, SpuriousWakeup
<1>3. TypeOK'
  BY DEF LockInv, TypeOK, Recheck, SpuriousWakeup
<1>4. InsideIsServed' /\ NoLostTurn'
  BY DEF LockInv, TypeOK, InsideIsServed, NoLostTurn, Recheck, SpuriousWakeup
<1> QED
  BY <1>2, <1>3, <1>4 DEF LockInv

(* Every step keeps the invariant. *)
LEMMA NextLockInv == LockInv /\ [Next]_vars => LockInv'
<1> SUFFICES ASSUME LockInv, [Next]_vars PROVE LockInv'
  OBVIOUS
<1>1. ASSUME NEW t \in Threads, Lock(t) PROVE LockInv'
  BY <1>1, LockKeepsLockInv
<1>2. ASSUME NEW t \in Threads, Recheck(t) \/ SpuriousWakeup(t) PROVE LockInv'
  BY <1>2, WaitKeepsLockInv
<1>3. ASSUME NEW t \in Threads, Unlock(t) PROVE LockInv'
  BY <1>3, UnlockKeepsLockInv
<1>4. CASE UNCHANGED vars
  BY <1>4 DEF vars, LockInv, TypeOK, TicketsInUse, InsideIsServed, NoLostTurn, Queued, Ahead
<1> QED
  BY <1>1, <1>2, <1>3, <1>4 DEF Next

-----------------------------------------------------------------------------
(* The inductive invariant of the ticket lock holds for every number of    *)
(* threads: in particular the types (TypeOK) and the absence of a lost     *)
(* wake-up inside lock() (NoLostTurn).                                     *)
THEOREM LockInvariance == Spec => []LockInv
  BY InitLockInv, NextLockInv, PTL DEF Spec

(* lock() admits one thread at a time for every number of threads, up to   *)
(* and including as many threads as there are ticket values.               *)
THEOREM LockExcludes == Spec => []MutualExclusion
<1>1. LockInv => MutualExclusion
  BY DEF LockInv, InsideIsServed, TicketsInUse, MutualExclusion, Queued
<1> QED
  BY <1>1, LockInvariance, PTL

-----------------------------------------------------------------------------
(* The queue of FifoLock.                                                  *)

(* The tickets of the n queued threads are 0 .. n - 1 tickets ahead of the *)
(* one being served, each distance once.                                   *)
LEMMA PlacesAreFilled ==
    ASSUME LockInv, NEW n, n = Cardinality(Queued)
    PROVE  /\ n \in Nat
           /\ \A t \in Queued : Ahead(ticket[t]) \in 0 .. n - 1
           /\ \A t, u \in Queued : Ahead(ticket[t]) = Ahead(ticket[u]) => t = u
           /\ \A k \in 0 .. n - 1 : \E t \in Queued : Ahead(ticket[t]) = k
<1> DEFINE place == [t \in Queued |-> Ahead(ticket[t])]
<1>1. n \in Nat /\ IsFiniteSet(Queued)
  BY QueuedIsFinite
<1>2. counter \in TicketValues /\ \A t \in Queued : ticket[t] \in TicketValues
  BY DEF LockInv, TypeOK, Queued
<1>3. \A t \in Queued : Ahead(ticket[t]) \in 0 .. n - 1
  <2> SUFFICES ASSUME NEW t \in Queued PROVE Ahead(ticket[t]) \in 0 .. n - 1
    OBVIOUS
  <2>1. Ahead(ticket[t]) < n
    BY DEF LockInv, TicketsInUse
  <2>2. Ahead(ticket[t]) \in Nat
    BY <1>2, TicketsAssumption DEF Ahead, TicketValues
  <2> QED
    BY <1>1, <2>1, <2>2
<1>4. \A t, u \in Queued : Ahead(ticket[t]) = Ahead(ticket[u]) => t = u
  <2> SUFFICES ASSUME NEW t \in Queued, NEW u \in Queued, Ahead(ticket[t]) = Ahead(ticket[u])
               PROVE  t = u
    OBVIOUS
  <2>1. ticket[t] = ticket[u]
    BY <1>2, TicketsAssumption DEF Ahead, TicketValues
  <2> QED
    BY <2>1 DEF LockInv, TicketsInUse
<1>5. IsFiniteSet(0 .. n - 1) /\ Cardinality(0 .. n - 1) = n
  <2>1. 0 \in Int /\ n - 1 \in Int /\ (0 > n - 1 => n = 0) /\ (n - 1) - 0 + 1 = n
    BY <1>1
  <2> QED
    BY <2>1, FS_Interval
<1>6. place \in Injection(Queued, 0 .. n - 1)
  BY <1>3, <1>4 DEF Injection, IsInjective
<1>7. place \in Surjection(Queued, 0 .. n - 1)
  BY <1>5, <1>6, FS_Injection
<1>8. \A k \in 0 .. n - 1 : \E t \in Queued : Ahead(ticket[t]) = k
  BY <1>7 DEF Surjection
<1> QED
  BY <1>1, <1>3, <1>4, <1>8

(* Queue lists the queued threads in the order of their tickets, and it is *)
(* the only sequence that does.                                            *)
QueueInOrder ==
    LET n == Cardinality(Queued)
    IN /\ n \in Nat /\ Queue \in Seq(Threads) /\ Len(Queue) = n
       /\ \A i \in 1 .. n : Queue[i] \in Queued /\ Ahead(ticket[Queue[i]]) = i - 1
       /\ \A i \in 1 .. n, t \in Queued : Ahead(ticket[t]) = i - 1 => Queue[i] = t
       /\ \A t \in Queued : \E i \in 1 .. n : Queue[i] = t

(* The mapped queue is in the order of the tickets. *)
LEMMA QueueOrder == LockInv => QueueInOrder
<1> SUFFICES ASSUME LockInv PROVE QueueInOrder
  OBVIOUS
<1> DEFINE n == Cardinality(Queued)
<1> HIDE DEF n
<1>1. /\ n \in Nat
      /\ \A t \in Queued : Ahead(ticket[t]) \in 0 .. n - 1
      /\ \A t, u \in Queued : Ahead(ticket[t]) = Ahead(ticket[u]) => t = u
      /\ \A k \in 0 .. n - 1 : \E t \in Queued : Ahead(ticket[t]) = k
  BY PlacesAreFilled DEF n
<1>2. Queue = [i \in 1 .. n |-> CHOOSE t \in Queued : Ahead(ticket[t]) = i - 1]
  BY DEF Queue, n
<1>3. ASSUME NEW i \in 1 .. n
      PROVE  Queue[i] \in Queued /\ Ahead(ticket[Queue[i]]) = i - 1
  <2>1. i - 1 \in 0 .. n - 1
    BY <1>1
  <2>2. \E t \in Queued : Ahead(ticket[t]) = i - 1
    BY <1>1, <2>1
  <2>3. Queue[i] = CHOOSE t \in Queued : Ahead(ticket[t]) = i - 1
    BY <1>2
  <2> QED
    BY <2>2, <2>3, Zenon
<1>4. \A i \in 1 .. n, t \in Queued : Ahead(ticket[t]) = i - 1 => Queue[i] = t
  BY <1>1, <1>3
<1>5. Queue \in Seq(Threads) /\ Len(Queue) = n
  <2>1. \A i \in 1 .. n : Queue[i] \in Threads
    BY <1>3 DEF Queued
  <2>2. Queue \in [1 .. n -> Threads]
    BY <1>2, <2>1
  <2>3. Queue \in Seq(Threads)
    BY <1>1, <2>2
  <2>4. DOMAIN Queue = 1 .. n
    BY <1>2, Zenon
  <2>5. Len(Queue) = n
    BY <1>1, <2>3, <2>4, LenProperties
  <2> QED
    BY <2>3, <2>5
<1>6. \A t \in Queued : \E i \in 1 .. n : Queue[i] = t
  <2> SUFFICES ASSUME NEW t \in Queued PROVE \E i \in 1 .. n : Queue[i] = t
    OBVIOUS
  <2>1. Ahead(ticket[t]) + 1 \in 1 .. n /\ (Ahead(ticket[t]) + 1) - 1 = Ahead(ticket[t])
    BY <1>1
  <2> QED
    BY <1>4, <2>1
<1> QED
  BY <1>1, <1>3, <1>4, <1>5, <1>6 DEF QueueInOrder, n

(* A step that moves neither tickets nor counters and dequeues nobody      *)
(* leaves the queue as it is.                                              *)
LEMMA SameQueue ==
    ASSUME Queued' = Queued, UNCHANGED <<counter, ticket>>
    PROVE  Queue' = Queue
<1>1. \A x : Ahead(x)' = Ahead(x)
  BY DEF Ahead
<1> QED
  BY <1>1 DEF Queue, Ahead

-----------------------------------------------------------------------------
(* The steps of FifoLock.                                                  *)

(* A caller of lock() joins the end of the queue, and enters at once       *)
(* exactly when the queue was empty.                                       *)
LEMMA LockIsRequest ==
    ASSUME LockInv, LockInv', NEW t \in Threads, Lock(t)
    PROVE  Fifo!Request(t)
<1> DEFINE n == Cardinality(Queued)
<1>1. n \in Nat /\ n < Tickets /\ IsFiniteSet(Queued)
  BY QueuedIsFinite DEF Lock
<1>2. Queued' = Queued \cup {t} /\ t \notin Queued
  BY DEF LockInv, TypeOK, Lock, Queued
<1>3. Cardinality(Queued)' = n + 1
  BY <1>1, <1>2, FS_AddElement
<1>4. /\ Queue \in Seq(Threads) /\ Len(Queue) = n
      /\ \A i \in 1 .. n : Queue[i] \in Queued /\ Ahead(ticket[Queue[i]]) = i - 1
      /\ \A u \in Queued : \E i \in 1 .. n : Queue[i] = u
  BY QueueOrder DEF QueueInOrder
<1>5. QueueInOrder'
  BY QueueOrder, PTL
<1>6. /\ Queue' \in Seq(Threads) /\ Len(Queue') = n + 1
      /\ \A i \in 1 .. n + 1, u \in Queued' : Ahead(ticket[u])' = i - 1 => Queue'[i] = u
  BY <1>3, <1>5 DEF QueueInOrder
<1>7. /\ counter' = counter /\ ticket'[t] = next_ticket
      /\ \A u \in Queued : ticket'[u] = ticket[u]
  BY <1>2 DEF Lock, LockInv, TypeOK, Queued
<1>8. Ahead(next_ticket) = n /\ next_ticket \in TicketValues
  BY <1>1, NextTicketAhead DEF LockInv, TicketsInUse, TypeOK
<1>9. /\ \A u \in Queued : Ahead(ticket[u])' = Ahead(ticket[u])
      /\ Ahead(ticket[t])' = n
  BY <1>7, <1>8 DEF Ahead
<1>10. Queue' = Append(Queue, t)
  <2>1. Append(Queue, t) \in Seq(Threads) /\ Len(Append(Queue, t)) = n + 1
    BY <1>4, AppendProperties
  <2>2. ASSUME NEW i \in 1 .. n + 1
        PROVE  Queue'[i] = Append(Queue, t)[i]
    <3>1. CASE i = n + 1
      <4>1. Ahead(ticket[t])' = i - 1 /\ t \in Queued'
        BY <1>1, <1>2, <1>9, <3>1
      <4>2. Queue'[i] = t
        BY <1>6, <4>1
      <4> QED
        BY <1>4, <3>1, <4>2, AppendProperties
    <3>2. CASE i \in 1 .. n
      <4>1. Queue[i] \in Queued /\ Ahead(ticket[Queue[i]]) = i - 1
        BY <1>4, <3>2
      <4>2. Queue'[i] = Queue[i]
        BY <1>2, <1>6, <1>9, <4>1
      <4> QED
        BY <1>4, <3>2, <4>2, AppendProperties
    <3>3. i = n + 1 \/ i \in 1 .. n
      <4>1. \A k \in Nat : \A j \in 1 .. k + 1 : j = k + 1 \/ j \in 1 .. k
        OBVIOUS
      <4> QED
        BY <1>1, <4>1
    <3> QED
      BY <3>1, <3>2, <3>3
  <2> QED
    BY <1>1, <1>6, <2>1, <2>2, SeqEqual
<1>11. \A i \in DOMAIN Queue : Queue[i] # t
  <2>1. DOMAIN Queue = 1 .. n
    BY <1>4, LenProperties
  <2> QED
    BY <1>2, <1>4, <2>1
<1>12. Queue = << >> <=> n = 0
  BY <1>4, EmptySeq
<1>13. Inside' = IF Queue = << >> THEN {t} ELSE Inside
  <2>1. next_ticket = counter <=> n = 0
    BY <1>1, <1>8, TicketsAssumption DEF Ahead, TicketValues, LockInv, TypeOK
  <2>2. n = 0 => Queued = {}
    BY <1>1, FS_EmptySet
  <2>3. pc' = [pc EXCEPT ![t] = IF n = 0 THEN "inside" ELSE "asleep"]
    BY <2>1, Zenon DEF Lock
  <2>4. pc[t] = "outside" /\ pc \in [Threads -> {"outside", "asleep", "woken", "inside"}]
    BY DEF Lock, LockInv, TypeOK
  <2>5. CASE n = 0
    <3>1. Inside' = {t}
      BY <2>2, <2>3, <2>4, <2>5 DEF Inside, Queued
    <3> QED
      BY <1>12, <2>5, <3>1
  <2>6. CASE n # 0
    <3>1. Inside' = Inside
      BY <2>3, <2>4, <2>6 DEF Inside
    <3> QED
      BY <1>12, <2>6, <3>1
  <2> QED
    BY <2>5, <2>6
<1> QED
  BY <1>10, <1>11, <1>13 DEF Fifo!Request

(* unlock() takes the owner from the head of the queue. *)
LEMMA UnlockIsRelease ==
    ASSUME LockInv, LockInv', NEW t \in Threads, Unlock(t)
    PROVE  Fifo!Release(t)
<1> DEFINE n == Cardinality(Queued)
<1>1. IsFiniteSet(Queued) /\ counter \in TicketValues
  BY QueuedIsFinite DEF LockInv, TypeOK
<1>2. ticket[t] = counter /\ t \in Queued /\ counter' = Increment(counter) /\ ticket' = ticket
  BY DEF LockInv, InsideIsServed, Unlock, Queued
<1>3. Queued' = Queued \ {t}
  BY DEF LockInv, TypeOK, Unlock, NotifyAll, Queued
<1>4. Cardinality(Queued') = n - 1
  BY <1>1, <1>2, <1>3, FS_RemoveElement
<1>5. /\ n \in Nat /\ Queue \in Seq(Threads) /\ Len(Queue) = n
      /\ \A i \in 1 .. n : Queue[i] \in Queued /\ Ahead(ticket[Queue[i]]) = i - 1
      /\ \A u \in Queued : \E i \in 1 .. n : Queue[i] = u
  BY QueueOrder DEF QueueInOrder
<1>6. QueueInOrder'
  BY QueueOrder, PTL
<1>7. /\ Queue' \in Seq(Threads) /\ Len(Queue') = n - 1
      /\ \A i \in 1 .. n - 1, u \in Queued' : Ahead(ticket[u])' = i - 1 => Queue'[i] = u
  BY <1>4, <1>6 DEF QueueInOrder
<1> HIDE DEF n
<1>8. ASSUME NEW u \in Queued, u # t
      PROVE  Ahead(ticket[u])' = Ahead(ticket[u]) - 1
  <2>1. ticket[u] \in TicketValues /\ ticket[u] # counter
    BY <1>2, <1>8 DEF LockInv, TypeOK, TicketsInUse, Queued
  <2>2. Ahead(ticket[u])' = IF ticket[u] >= counter' THEN ticket[u] - counter'
                            ELSE ticket[u] - counter' + Tickets
    BY <1>2 DEF Ahead
  <2> QED
    BY <1>1, <1>2, <2>1, <2>2, TicketsAssumption DEF TicketValues, Increment, Ahead
<1>9. Ahead(ticket[t]) = 0
  BY <1>1, <1>2 DEF Ahead, TicketValues
<1>10. n >= 1 /\ Queue # << >>
  BY <1>2, <1>5, EmptySeq
<1>11. Queue' = Tail(Queue)
  <2>1. /\ Tail(Queue) \in Seq(Threads) /\ Len(Tail(Queue)) = n - 1
        /\ \A i \in 1 .. n - 1 : Tail(Queue)[i] = Queue[i + 1]
    BY <1>5, <1>10, HeadTailProperties
  <2>2. ASSUME NEW i \in 1 .. n - 1
        PROVE  Queue'[i] = Tail(Queue)[i]
    <3>1. i + 1 \in 1 .. n /\ (i + 1) - 1 = i /\ i \in Nat \ {0}
      BY <1>5
    <3>2. PICK u \in Queued : u = Queue[i + 1] /\ Ahead(ticket[u]) = i
      BY <1>5, <3>1
    <3>3. u # t
      BY <1>9, <3>1, <3>2
    <3>4. Ahead(ticket[u])' = i - 1
      BY <1>8, <3>2, <3>3
    <3>5. Queue'[i] = u
      BY <1>3, <1>7, <3>2, <3>3, <3>4
    <3> QED
      BY <2>1, <3>2, <3>5
  <2> QED
    BY <1>7, <2>1, <2>2, SeqEqual
<1>12. Inside = {t} /\ Inside' = {}
  <2>1. \A u \in Threads : pc[u] = "inside" => u = t
    BY <1>2 DEF LockInv, InsideIsServed, TicketsInUse, Queued
  <2> QED
    BY <2>1 DEF Inside, Unlock, NotifyAll
<1> QED
  BY <1>11, <1>12 DEF Fifo!Release

(* A woken thread whose ticket is served is the head of the queue and      *)
(* finds nobody inside; otherwise nothing happens to the queue.            *)
LEMMA RecheckIsGrant ==
    ASSUME LockInv, NEW t \in Threads, Recheck(t)
    PROVE  Fifo!Grant(t) \/ UNCHANGED Fifo!vars
<1>1. Queued' = Queued /\ t \in Queued
  BY DEF LockInv, TypeOK, Recheck, Queued
<1>2. Queue' = Queue
  BY <1>1, SameQueue DEF Recheck
<1>3. CASE ticket[t] # counter
  <2>1. Inside' = Inside
    BY <1>3 DEF Inside, Recheck, LockInv, TypeOK
  <2> QED
    BY <1>2, <2>1 DEF Fifo!vars
<1>4. CASE ticket[t] = counter
  <2>1. Inside = {}
    <3>1. \A u \in Threads : pc[u] = "inside" => u = t
      BY <1>1, <1>4 DEF LockInv, InsideIsServed, TicketsInUse, Queued
    <3> QED
      BY <3>1 DEF Inside, Recheck
  <2>2. Inside' = {t}
    BY <1>4, <2>1 DEF Inside, Recheck, LockInv, TypeOK
  <2>3. Ahead(ticket[t]) = 0
    BY <1>4 DEF Ahead, LockInv, TypeOK, TicketValues
  <2>4. Queue # << >> /\ Head(Queue) = t
    <3> DEFINE n == Cardinality(Queued)
    <3>1. /\ n \in Nat /\ Queue \in Seq(Threads) /\ Len(Queue) = n
          /\ \A i \in 1 .. n, u \in Queued : Ahead(ticket[u]) = i - 1 => Queue[i] = u
          /\ \A u \in Queued : \E i \in 1 .. n : Queue[i] = u
      BY QueueOrder DEF QueueInOrder
    <3> HIDE DEF n
    <3>2. 1 \in 1 .. n /\ 1 - 1 = 0
      BY <1>1, <3>1
    <3>3. Queue[1] = t
      BY <1>1, <2>3, <3>1, <3>2
    <3> QED
      BY <3>1, <3>2, <3>3, EmptySeq, HeadTailProperties
  <2> QED
    BY <1>2, <2>1, <2>2, <2>4 DEF Fifo!Grant
<1> QED
  BY <1>3, <1>4

(* ordered_lock deserves its name: for every finite set of threads and     *)
(* every width of the counters that has a ticket for each of them, it      *)
(* implements the first-come, first-served lock (common.h:255-273).        *)
THEOREM LockIsFifo == Spec => ImplementsFifoLock
<1>1. Init => Fifo!Init
  <2> SUFFICES ASSUME Init PROVE Fifo!Init
    OBVIOUS
  <2>1. LockInv
    BY InitLockInv
  <2>2. Queued = {} /\ Inside = {}
    BY DEF Init, Queued, Inside
  <2>3. Cardinality(Queued) = 0
    BY <2>2, FS_EmptySet
  <2>4. Queue \in Seq(Threads) /\ Len(Queue) = 0
    BY <2>1, <2>3, QueueOrder DEF QueueInOrder
  <2> QED
    BY <2>2, <2>4, EmptySeq DEF Fifo!Init
<1>2. LockInv /\ LockInv' /\ [Next]_vars => [Fifo!Next]_Fifo!vars
  <2> SUFFICES ASSUME LockInv, LockInv', [Next]_vars PROVE [Fifo!Next]_Fifo!vars
    OBVIOUS
  <2>1. ASSUME NEW t \in Threads, Lock(t) PROVE Fifo!Next
    BY <2>1, LockIsRequest DEF Fifo!Next
  <2>2. ASSUME NEW t \in Threads, Unlock(t) PROVE Fifo!Next
    BY <2>2, UnlockIsRelease DEF Fifo!Next
  <2>3. ASSUME NEW t \in Threads, Recheck(t) PROVE [Fifo!Next]_Fifo!vars
    BY <2>3, RecheckIsGrant DEF Fifo!Next
  <2>4. ASSUME NEW t \in Threads, SpuriousWakeup(t) PROVE UNCHANGED Fifo!vars
    <3>1. Queued' = Queued /\ Inside' = Inside
      BY <2>4 DEF LockInv, TypeOK, SpuriousWakeup, Queued, Inside
    <3> QED
      BY <2>4, <3>1, SameQueue DEF SpuriousWakeup, Fifo!vars
  <2>5. CASE UNCHANGED vars
    <3>1. Queued' = Queued /\ Inside' = Inside
      BY <2>5 DEF vars, Queued, Inside
    <3> QED
      BY <2>5, <3>1, SameQueue DEF vars, Fifo!vars
  <2> QED
    BY <2>1, <2>2, <2>3, <2>4, <2>5 DEF Next
<1> QED
  BY <1>1, <1>2, LockInvariance, PTL DEF Spec, ImplementsFifoLock, Fifo!Spec
=============================================================================
