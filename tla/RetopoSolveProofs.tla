-------------------------- MODULE RetopoSolveProofs --------------------------
(***************************************************************************)
(* Machine-checked proofs about RetopoSolve: one remeshing call and the    *)
(* worker thread, for every number of levels, of sweeps per level, and     *)
(* whatever symmetries the solvers implement.                              *)
(***************************************************************************)
EXTENDS RetopoSolve, OptimizerProofs

-----------------------------------------------------------------------------
(* The inductive invariant.                                                *)

(* The client's place in the queue follows its place in wait(). *)
ClientQueueInv ==
    /\ "client" \in Members(lockq) <=> mpc \in {"O.queued", "O.wait", "P.queued", "P.wait"}
    /\ mpc \in {"O.wait", "P.wait"} => Owns("client")

(* The places after notify() of each field's call, up to the end of its    *)
(* wait(), and the places after both solves.                               *)
AwaitsOrientation == mpc \in {"O.notify", "O.lock", "O.queued", "O.wait", "O.asleep"}
AwaitsPosition == mpc \in {"P.notify", "P.lock", "P.queued", "P.wait", "P.asleep"}
SolvesAreOver ==
    mpc \in {"shutdown", "shutdown.notify", "join", "extract", "free", "returned"}

(* When the worker is started, told to end, has ended, and what that means *)
(* for the client; an exception is only under way after the filter threw.  *)
LifeInv ==
    /\ levels >= 1 /\ strokes = << >>
    /\ mpc \notin {"shutdown.notify", "join", "extract", "free", "returned"} => opt.running
    /\ mpc = "build" => wpc = "none"
    /\ wpc = "none" => mpc \in {"build", "free", "returned"}
    /\ wpc = "exited" => ~opt.running
    /\ mpc = "extract" => wpc = "exited" /\ ~failed
    /\ mpc \in {"free", "returned"} => wpc \in {"none", "exited"}
    /\ freed => mpc = "returned"
    /\ failed => SolvesAreOver

(* During a call the last stores of that call are left; what the earlier   *)
(* ones have written is still there until the store that switches the      *)
(* solve on, the one with "flag" stores left, has been made.               *)
StoresLeft(stores, flag) ==
    /\ Len(todo) \in 1 .. 6
    /\ todo = SubSeq(stores, 7 - Len(todo), 6)
    /\ Len(todo) \in flag .. 5 => opt.level = levels - 1
    /\ Len(todo) \in flag .. 4 => opt.hier
    /\ Len(todo) \in flag .. 2 => opt.iters = 0

CallInv ==
    /\ mpc = "O.call" => StoresLeft(OrientationStores(-1), 1)
    /\ mpc = "P.call" => StoresLeft(PositionStores(-1), 2)

(* No level of a field was swept yet. *)
Fresh(f) == \A l \in LevelIndices : sweeps[f][l] = 0

(* A solve has finished the levels above opt.level, has not touched those  *)
(* below, has swept opt.level as often as the counter says (a sweep that   *)
(* is under way is counted before it is done), and started opt.level from  *)
(* the level above.                                                        *)
Underway(f) ==
    LET counted == IF wpc \in {"sweep", "terminated"} THEN 1 ELSE 0
    IN /\ opt.hier
       /\ opt.level \in 0 .. levels - 1
       /\ opt.iters - counted \in 0 .. LevelIterations - 1
       /\ \A l \in 0 .. levels - 1 :
            sweeps[f][l] = IF l > opt.level THEN LevelIterations
                           ELSE IF l < opt.level THEN 0 ELSE opt.iters - counted
       /\ opt.level < levels - 1 => seeded[f][opt.level]

(* How far the two solves are, at every place of the client. *)
PhaseInv ==
    /\ mpc \in {"build", "O.call"} => ~Active /\ Fresh("Q") /\ Fresh("O")
    /\ AwaitsOrientation =>
         /\ ~opt.optP /\ Fresh("O")
         /\ IF opt.optO THEN Underway("Q") ELSE Solved("Q")
    /\ mpc = "filter" => ~Active /\ Solved("Q") /\ Fresh("O")
    /\ mpc = "P.call" =>
         /\ ~opt.optO /\ Solved("Q")
         /\ Len(todo) > 1 => ~opt.optP /\ Fresh("O")
    /\ AwaitsPosition \/ (mpc = "P.call" /\ Len(todo) = 1) =>
         /\ ~opt.optO /\ Solved("Q")
         /\ IF opt.optP THEN Underway("O") ELSE Solved("O")
    /\ SolvesAreOver => ~Active
    /\ mpc \in {"shutdown", "shutdown.notify", "join", "extract"} /\ ~failed =>
         Solved("Q") /\ Solved("O")

(* The worker iterates only while a solve is on, and the locals of a sweep *)
(* agree with the members.                                                 *)
SweepInv ==
    /\ wpc \in {"iterate", "sweep"} => Active
    /\ wpc = "sweep" => wloc = [level |-> opt.level, last |-> opt.iters >= LevelIterations,
                                view |-> FALSE]

IInv ==
    /\ TypeOK
    /\ WorkerQueueInv
    /\ ClientQueueInv
    /\ LifeInv
    /\ CallInv
    /\ PhaseInv
    /\ SweepInv

-----------------------------------------------------------------------------
(* The stores of the two calls.                                            *)

(* optimizeOrientations(-1) makes six stores, the switch last. *)
LEMMA OrientationStoresAre ==
    ASSUME levels \in Nat
    PROVE  /\ OrientationStores(-1)[1] = <<"level", levels - 1>>
           /\ OrientationStores(-1)[2] = <<"hier", TRUE>>
           /\ OrientationStores(-1)[3] = <<"frozenQ", FALSE>>
           /\ OrientationStores(-1)[4] = <<"iters", 0>>
           /\ OrientationStores(-1)[5] = <<"optP", FALSE>>
           /\ OrientationStores(-1)[6] = <<"optO", TRUE>>
           /\ Len(OrientationStores(-1)) = 6
           /\ \E S : OrientationStores(-1) \in Seq(S)
<1> DEFINE a == <<"level", levels - 1>>
           b == <<"hier", TRUE>>
           c == <<"frozenQ", FALSE>>
           d == <<"iters", 0>>
           e == <<"optP", FALSE>>
           f == <<"optO", TRUE>>
<1>1. OrientationStores(-1) = << a, b >> \o << c >> \o << d, e, f >>
  <2>1. -1 < 0 /\ -1 # 0 /\ ~(-1 >= 0)
    OBVIOUS
  <2>2. (-1 < 0) = TRUE
    BY <2>1
  <2> QED
    BY <2>1, <2>2, Zenon DEF OrientationStores, TargetLevel
<1> HIDE DEF a, b, c, d, e, f
<1>2. << a, b >> \o << c >> \o << d, e, f >> = << a, b, c, d, e, f >>
  BY ConcatSix
<1>3. OrientationStores(-1) = << a, b, c, d, e, f >>
  BY <1>1, <1>2, Zenon
<1>4. << a, b, c, d, e, f >> \in Seq({a, b, c, d, e, f})
  OBVIOUS
<1>5. /\ Len(<< a, b, c, d, e, f >>) = 6
      /\ << a, b, c, d, e, f >>[1] = a
      /\ << a, b, c, d, e, f >>[2] = b
      /\ << a, b, c, d, e, f >>[3] = c
      /\ << a, b, c, d, e, f >>[4] = d
      /\ << a, b, c, d, e, f >>[5] = e
      /\ << a, b, c, d, e, f >>[6] = f
  OBVIOUS
<1> QED
  BY <1>3, <1>4, <1>5, Zenon DEF a, b, c, d, e, f

(* So does optimizePositions(-1), the switch last but one. *)
LEMMA PositionStoresAre ==
    ASSUME levels \in Nat
    PROVE  /\ PositionStores(-1)[1] = <<"level", levels - 1>>
           /\ PositionStores(-1)[2] = <<"hier", TRUE>>
           /\ PositionStores(-1)[3] = <<"frozenO", FALSE>>
           /\ PositionStores(-1)[4] = <<"iters", 0>>
           /\ PositionStores(-1)[5] = <<"optP", TRUE>>
           /\ PositionStores(-1)[6] = <<"optO", FALSE>>
           /\ Len(PositionStores(-1)) = 6
           /\ \E S : PositionStores(-1) \in Seq(S)
<1> DEFINE a == <<"level", levels - 1>>
           b == <<"hier", TRUE>>
           c == <<"frozenO", FALSE>>
           d == <<"iters", 0>>
           e == <<"optP", TRUE>>
           f == <<"optO", FALSE>>
<1>1. PositionStores(-1) = << a, b >> \o << c >> \o << d, e, f >>
  <2>1. -1 < 0 /\ -1 # 0 /\ ~(-1 >= 0)
    OBVIOUS
  <2>2. (-1 < 0) = TRUE
    BY <2>1
  <2> QED
    BY <2>1, <2>2, Zenon DEF PositionStores, TargetLevel
<1> HIDE DEF a, b, c, d, e, f
<1>2. << a, b >> \o << c >> \o << d, e, f >> = << a, b, c, d, e, f >>
  BY ConcatSix
<1>3. PositionStores(-1) = << a, b, c, d, e, f >>
  BY <1>1, <1>2, Zenon
<1>4. << a, b, c, d, e, f >> \in Seq({a, b, c, d, e, f})
  OBVIOUS
<1>5. /\ Len(<< a, b, c, d, e, f >>) = 6
      /\ << a, b, c, d, e, f >>[1] = a
      /\ << a, b, c, d, e, f >>[2] = b
      /\ << a, b, c, d, e, f >>[3] = c
      /\ << a, b, c, d, e, f >>[4] = d
      /\ << a, b, c, d, e, f >>[5] = e
      /\ << a, b, c, d, e, f >>[6] = f
  OBVIOUS
<1> QED
  BY <1>3, <1>4, <1>5, Zenon DEF a, b, c, d, e, f

(* The next store is one of the list, and the rest is left. *)
LEMMA NextStore ==
    ASSUME NEW S, NEW stores \in Seq(S), Len(stores) = 6, Len(todo) \in 1 .. 6,
           todo = SubSeq(stores, 7 - Len(todo), 6)
    PROVE  /\ todo # << >>
           /\ Head(todo) = stores[7 - Len(todo)]
           /\ Len(Tail(todo)) = Len(todo) - 1
           /\ Tail(todo) = SubSeq(stores, 7 - Len(Tail(todo)), 6)
<1> DEFINE n == Len(todo)
<1>1. n \in 1 .. 6 /\ 7 - n \in 1 .. 6 /\ Len(stores) = 6
  <2>1. \A k \in 1 .. 6 : 7 - k \in 1 .. 6
    OBVIOUS
  <2> QED
    BY <2>1
<1> HIDE DEF n
<1>2. todo \in Seq(S) /\ Head(todo) = stores[7 - n] /\ Tail(todo) = SubSeq(stores, (7 - n) + 1, 6)
  <2>1. todo = SubSeq(stores, 7 - n, 6)
    BY DEF n
  <2>2. \A i \in 7 - n .. 6 : stores[i] \in S
    <3>1. \A i \in 1 .. 6 : stores[i] \in S
      BY <1>1, ElementOfSeq
    <3> QED
      BY <1>1, <3>1
  <2>3. SubSeq(stores, 7 - n, 6) \in Seq(S)
    BY <1>1, <2>2, SubSeqProperties
  <2>4. /\ Head(SubSeq(stores, 7 - n, 6)) = stores[7 - n]
        /\ Tail(SubSeq(stores, 7 - n, 6)) = SubSeq(stores, (7 - n) + 1, 6)
    BY <1>1, HeadTailOfSubSeq
  <2> QED
    BY <2>1, <2>3, <2>4
<1>3. todo # << >>
  BY <1>1, <1>2, EmptySeq DEF n
<1>4. Len(Tail(todo)) = n - 1
  BY <1>2, <1>3, HeadTailProperties DEF n
<1>5. (7 - n) + 1 = 7 - (n - 1)
  BY <1>1
<1> QED
  BY <1>2, <1>3, <1>4, <1>5 DEF n

-----------------------------------------------------------------------------
(* What does not move.                                                     *)

(* How far a solve is depends on the members, the history and on whether a *)
(* sweep is under way.                                                     *)
LEMMA SameProgress ==
    ASSUME UNCHANGED <<opt, levels, history>>,
           wpc' \in {"sweep", "terminated"} <=> wpc \in {"sweep", "terminated"}
    PROVE  /\ Active' <=> Active
           /\ Fresh("Q")' <=> Fresh("Q")
           /\ Fresh("O")' <=> Fresh("O")
           /\ Underway("Q")' <=> Underway("Q")
           /\ Underway("O")' <=> Underway("O")
           /\ Solved("Q")' <=> Solved("Q")
           /\ Solved("O")' <=> Solved("O")
<1>1. Active' <=> Active
  BY DEF Active
<1>2. ASSUME NEW f \in Fields
      PROVE  Fresh(f)' <=> Fresh(f)
  BY DEF Fresh, history
<1>3. ASSUME NEW f \in Fields
      PROVE  Solved(f)' <=> Solved(f)
  BY DEF Solved, history
<1>4. ASSUME NEW f \in Fields
      PROVE  Underway(f)' <=> Underway(f)
  BY DEF Underway, history
<1>5. "Q" \in Fields /\ "O" \in Fields
  BY DEF Fields
<1> QED
  BY <1>1, <1>2, <1>3, <1>4, <1>5

-----------------------------------------------------------------------------
(* The calling thread.                                                     *)

(* The places of both calls, spelled out. *)
LEMMA Places ==
    ASSUME NEW p \in {OrientationCall, PositionCall}
    PROVE  \/ /\ p.call = "O.call" /\ p.notify = "O.notify" /\ p.lock = "O.lock"
              /\ p.queued = "O.queued" /\ p.wait = "O.wait" /\ p.asleep = "O.asleep"
           \/ /\ p.call = "P.call" /\ p.notify = "P.notify" /\ p.lock = "P.lock"
              /\ p.queued = "P.queued" /\ p.wait = "P.wait" /\ p.asleep = "P.asleep"
  BY DEF OrientationCall, PositionCall

(* notify() and wait() keep both threads' places in the queue.             *)
LEMMA WaitKeepsQueue ==
    ASSUME WorkerQueueInv, ClientQueueInv,
           NEW p \in {OrientationCall, PositionCall}, NEW next \in {"filter", "shutdown"},
           CallNotify(p) \/ WaitLock(p) \/ WaitTest(p, next) \/ WaitSleep(p)
    PROVE  WorkerQueueInv' /\ ClientQueueInv'
<1>1. CASE CallNotify(p)
  <2>1. lockq' = lockq /\ wpc' = wpc /\ asleep' = {} /\ mpc = p.notify /\ mpc' = p.lock
    BY <1>1 DEF CallNotify
  <2>2. WorkerQueueInv'
    BY <2>1 DEF WorkerQueueInv, Owns
  <2> QED
    BY <2>1, <2>2, Places DEF ClientQueueInv
<1>2. CASE WaitLock(p)
  <2>1. /\ lockq' = Append(lockq, "client") /\ wpc' = wpc /\ asleep' = asleep
        /\ mpc \in {p.lock, p.asleep} /\ mpc' = p.queued
    BY <1>2 DEF WaitLock, Enqueue
  <2>2. "client" \notin Members(lockq)
    BY <2>1, Places DEF ClientQueueInv
  <2>3. WorkerQueueInv' /\ "client" \in Members(lockq')
    BY <2>1, <2>2, ClientKeepsQueue
  <2> QED
    BY <2>1, <2>3, Places DEF ClientQueueInv
<1>3. CASE WaitTest(p, next) /\ lockq' = lockq
  <2>1. /\ wpc' = wpc /\ asleep' = asleep /\ Owns("client")
        /\ mpc = p.queued /\ mpc' \in {p.wait, next}
    BY <1>3 DEF WaitTest
  <2>2. lockq' # Tail(lockq)
    <3>1. lockq \in Seq(Threads) /\ lockq # << >>
      BY <2>1 DEF WorkerQueueInv, Queues, Owns
    <3> QED
      BY <1>3, <3>1, HeadTailProperties, EmptySeq
  <2>3. mpc' = p.wait
    BY <1>3, <2>2 DEF WaitTest
  <2>4. WorkerQueueInv'
    BY <1>3, <2>1 DEF WorkerQueueInv, Owns
  <2> QED
    BY <1>3, <2>1, <2>3, <2>4, Places DEF ClientQueueInv, Owns
<1>4. CASE (WaitTest(p, next) \/ WaitSleep(p)) /\ lockq' # lockq
  <2>1. /\ lockq' = Tail(lockq) /\ wpc' = wpc /\ Owns("client")
        /\ mpc \in {p.queued, p.wait} /\ mpc' \in {next, p.asleep}
        /\ asleep' = asleep \/ asleep' = asleep \cup {"client"}
    BY <1>4, Places DEF WaitTest, WaitSleep, ClientQueueInv
  <2>2. WorkerQueueInv' /\ "client" \notin Members(lockq')
    BY <2>1, ClientKeepsQueue
  <2> QED
    BY <2>1, <2>2, Places DEF ClientQueueInv
<1>5. WaitSleep(p) => lockq' # lockq
  <2> SUFFICES ASSUME WaitSleep(p) PROVE lockq' # lockq
    OBVIOUS
  <2>1. Owns("client") /\ lockq' = Tail(lockq)
    BY Places DEF WaitSleep, ClientQueueInv
  <2>2. lockq \in Seq(Threads) /\ lockq # << >>
    BY <2>1 DEF WorkerQueueInv, Queues, Owns
  <2> QED
    BY <2>1, <2>2, HeadTailProperties, EmptySeq
<1> QED
  BY <1>1, <1>2, <1>3, <1>4, <1>5

(* notify() and the steps of wait() that do not end it move the client     *)
(* along its places and change nothing else that matters.                  *)
LEMMA ClientWaits ==
    ASSUME IInv, NEW p \in {OrientationCall, PositionCall}, NEW next \in {"filter", "shutdown"},
           CallNotify(p) \/ WaitLock(p) \/ (WaitTest(p, next) /\ mpc' # next) \/ WaitSleep(p)
    PROVE  IInv'
<1>1. /\ \/ AwaitsOrientation /\ AwaitsOrientation'
         \/ AwaitsPosition /\ AwaitsPosition'
      /\ mpc' \in MainPcs
  <2>1. /\ mpc \in {p.notify, p.lock, p.queued, p.wait, p.asleep}
        /\ mpc' \in {p.notify, p.lock, p.queued, p.wait, p.asleep}
    BY DEF CallNotify, WaitLock, WaitSleep, WaitTest
  <2> QED
    BY <2>1, Places DEF AwaitsOrientation, AwaitsPosition, MainPcs
<1>2. /\ UNCHANGED <<opt, levels, history, strokes, wpc, wloc, todo, failed, freed>>
      /\ asleep' \in {asleep, {}, asleep \cup {"client"}}
  BY DEF CallNotify, WaitLock, WaitSleep, WaitTest
<1>3. WorkerQueueInv' /\ ClientQueueInv'
  BY WaitKeepsQueue DEF IInv
<1>4. TypeOK'
  <2>1. lockq' \in Seq(Threads) /\ asleep' \subseteq Threads
    BY <1>2, <1>3 DEF WorkerQueueInv, Queues, IInv, TypeOK, OptimizerTypeOK, Threads
  <2> QED
    BY <1>1, <1>2, <2>1 DEF IInv, TypeOK, OptimizerTypeOK, history
<1>5. LifeInv' /\ CallInv'
  BY <1>1, <1>2 DEF IInv, LifeInv, CallInv, AwaitsOrientation, AwaitsPosition, SolvesAreOver
<1>6. SweepInv'
  BY <1>2 DEF IInv, SweepInv, Active
<1>7. PhaseInv'
  BY <1>1, <1>2, SameProgress DEF IInv, PhaseInv, AwaitsOrientation, AwaitsPosition, SolvesAreOver
<1> QED
  BY <1>3, <1>4, <1>5, <1>6, <1>7 DEF IInv

(* wait() ends when the solve does: the field is finished.                 *)
LEMMA WaitEnds ==
    ASSUME IInv,
           \/ WaitTest(OrientationCall, "filter") /\ mpc' = "filter"
           \/ WaitTest(PositionCall, "shutdown") /\ mpc' = "shutdown"
    PROVE  IInv'
<1>1. \/ mpc = "O.queued" /\ mpc' = "filter"
      \/ mpc = "P.queued" /\ mpc' = "shutdown"
  BY DEF WaitTest, OrientationCall, PositionCall
<1>2. UNCHANGED <<opt, asleep, levels, history, strokes, wpc, wloc, todo, failed, freed>>
  BY DEF WaitTest
<1>3. WorkerQueueInv' /\ ClientQueueInv'
  BY WaitKeepsQueue DEF IInv
<1>4. ~Active /\ ~failed
  <2>1. opt.running /\ ~failed
    BY <1>1 DEF IInv, LifeInv, SolvesAreOver
  <2>2. ~(opt.running /\ Active)
    BY <1>1 DEF WaitTest, OrientationCall, PositionCall
  <2> QED
    BY <2>1, <2>2
<1>5. TypeOK'
  <2>1. lockq' \in Seq(Threads)
    BY <1>3 DEF WorkerQueueInv, Queues
  <2> QED
    BY <1>1, <1>2, <2>1 DEF IInv, TypeOK, OptimizerTypeOK, history, MainPcs
<1>6. LifeInv' /\ CallInv'
  BY <1>1, <1>2 DEF IInv, LifeInv, CallInv, SolvesAreOver
<1>7. SweepInv'
  BY <1>2 DEF IInv, SweepInv, Active
<1>8. PhaseInv'
  BY <1>1, <1>2, <1>4, SameProgress
  DEF IInv, PhaseInv, AwaitsOrientation, AwaitsPosition, SolvesAreOver, Active
<1> QED
  BY <1>3, <1>5, <1>6, <1>7, <1>8 DEF IInv

(* The construction of the Optimizer starts the worker and the first call, *)
(* fails, or finds that there is nothing to do.                            *)
LEMMA BuildKeepsIInv ==
    ASSUME IInv, Build
    PROVE  IInv'
<1>1. /\ mpc = "build" /\ wpc = "none"
      /\ UNCHANGED <<lockq, asleep, opt, levels, strokes, wloc, freed, history>>
      /\ \/ mpc' = "O.call" /\ todo' = OrientationStores(-1) /\ wpc' = "lock" /\ failed' = failed
         \/ mpc' \in {"free", "returned"} /\ todo' = todo /\ wpc' = wpc
            /\ failed' \in {failed, TRUE}
  BY DEF Build, IInv, LifeInv
<1>2. levels \in Nat
  BY DEF IInv, TypeOK, OptimizerTypeOK
<1>3. OrientationStores(-1)' = OrientationStores(-1)
  BY <1>1 DEF OrientationStores, TargetLevel
<1>4. mpc' = "O.call" => StoresLeft(OrientationStores(-1), 1)' /\ Len(todo') = 6
  <2> SUFFICES ASSUME mpc' = "O.call"
               PROVE  StoresLeft(OrientationStores(-1), 1)' /\ Len(todo') = 6
    OBVIOUS
  <2>1. PICK S : OrientationStores(-1) \in Seq(S) /\ Len(OrientationStores(-1)) = 6
    BY <1>2, OrientationStoresAre
  <2>2. OrientationStores(-1) = SubSeq(OrientationStores(-1), 1, 6)
    BY <2>1, SubSeqFull
  <2>3. Len(todo') = 6 /\ todo' = SubSeq(OrientationStores(-1)', 1, 6)
    BY <1>1, <1>3, <2>1, <2>2
  <2>4. 7 - 6 = 1 /\ 6 \in 1 .. 6 /\ 6 \notin 1 .. 5 /\ 6 \notin 1 .. 4 /\ 6 \notin 1 .. 2
    OBVIOUS
  <2> QED
    BY <2>3, <2>4, Zenon DEF StoresLeft
<1>5. WorkerQueueInv' /\ ClientQueueInv'
  BY <1>1 DEF IInv, WorkerQueueInv, ClientQueueInv, Owns
<1>6. TypeOK'
  <2>1. Len(todo') <= 6
    <3>1. CASE mpc' = "O.call"
      <4>1. Len(todo') = 6
        BY <1>4, <3>1, Zenon
      <4> QED
        BY <4>1
    <3>2. CASE todo' = todo
      BY <3>2 DEF IInv, TypeOK
    <3> QED
      BY <1>1, <3>1, <3>2
  <2> QED
    BY <1>1, <2>1 DEF IInv, TypeOK, OptimizerTypeOK, history, MainPcs, WorkerPcs
<1>7. LifeInv'
  <2>1. /\ levels >= 1 /\ strokes = << >> /\ opt.running /\ ~freed /\ ~failed
    BY <1>1 DEF IInv, LifeInv, SolvesAreOver
  <2>2. CASE mpc' = "O.call" /\ wpc' = "lock" /\ failed' = failed
    BY <1>1, <2>1, <2>2 DEF LifeInv
  <2>3. CASE mpc' \in {"free", "returned"} /\ wpc' = wpc
    BY <1>1, <2>1, <2>3 DEF LifeInv, SolvesAreOver
  <2> QED
    BY <1>1, <2>2, <2>3
<1>8. CallInv'
  BY <1>1, <1>4 DEF CallInv
<1>9. SweepInv'
  BY <1>1 DEF SweepInv
<1>10. PhaseInv'
  BY <1>1, SameProgress DEF IInv, PhaseInv, AwaitsOrientation, AwaitsPosition, SolvesAreOver, LifeInv
<1> QED
  BY <1>5, <1>6, <1>7, <1>8, <1>9, <1>10 DEF IInv

(* The filter leaves the finished orientation field as it is, or freezes   *)
(* it once more, and the position call follows; or it throws.              *)
LEMMA FilterKeepsIInv ==
    ASSUME IInv, Filter
    PROVE  IInv'
<1>1. /\ mpc = "filter"
      /\ UNCHANGED <<lockq, asleep, levels, strokes, wpc, wloc, freed, history>>
      /\ \/ /\ mpc' = "P.call" /\ todo' = PositionStores(-1) /\ failed' = failed
            /\ opt' \in {opt, [opt EXCEPT !.frozenQ = TRUE]}
         \/ mpc' = "shutdown" /\ failed' = TRUE /\ todo' = todo /\ opt' = opt
  BY DEF Filter
<1>2. levels \in Nat /\ opt \in OptType
  BY DEF IInv, TypeOK, OptimizerTypeOK
<1>3. /\ opt' \in OptType
      /\ opt'.optO = opt.optO /\ opt'.optP = opt.optP /\ opt'.running = opt.running
      /\ opt.frozenQ => opt'.frozenQ
  BY <1>1, <1>2 DEF OptType
<1>4. ~Active /\ Solved("Q") /\ Fresh("O") /\ opt.running
  BY <1>1 DEF IInv, PhaseInv, LifeInv
<1>5. ~Active' /\ Solved("Q")' /\ Fresh("O")'
  BY <1>1, <1>3, <1>4 DEF Active, Solved, Fresh, history
<1>6. mpc' = "P.call" => StoresLeft(PositionStores(-1), 2)' /\ Len(todo') = 6
  <2> SUFFICES ASSUME mpc' = "P.call" PROVE StoresLeft(PositionStores(-1), 2)' /\ Len(todo') = 6
    OBVIOUS
  <2>1. PICK S : PositionStores(-1) \in Seq(S) /\ Len(PositionStores(-1)) = 6
    BY <1>2, PositionStoresAre
  <2>2. PositionStores(-1) = SubSeq(PositionStores(-1), 1, 6)
    BY <2>1, SubSeqFull
  <2>3. PositionStores(-1)' = PositionStores(-1)
    BY <1>1 DEF PositionStores, TargetLevel
  <2>4. Len(todo') = 6 /\ todo' = SubSeq(PositionStores(-1)', 1, 6)
    BY <1>1, <2>1, <2>2, <2>3
  <2>5. 7 - 6 = 1 /\ 6 \in 1 .. 6 /\ 6 \notin 2 .. 5 /\ 6 \notin 2 .. 4 /\ 6 \notin 2 .. 2
    OBVIOUS
  <2> QED
    BY <2>4, <2>5, Zenon DEF StoresLeft
<1>7. WorkerQueueInv' /\ ClientQueueInv'
  BY <1>1 DEF IInv, WorkerQueueInv, ClientQueueInv, Owns
<1>8. TypeOK'
  <2>1. Len(todo') <= 6
    <3>1. CASE mpc' = "P.call"
      <4>1. Len(todo') = 6
        BY <1>6, <3>1, Zenon
      <4> QED
        BY <4>1
    <3>2. CASE todo' = todo
      BY <3>2 DEF IInv, TypeOK
    <3> QED
      BY <1>1, <3>1, <3>2
  <2> QED
    BY <1>1, <1>3, <2>1 DEF IInv, TypeOK, OptimizerTypeOK, history, MainPcs
<1>9. LifeInv'
  BY <1>1, <1>3 DEF IInv, LifeInv, SolvesAreOver
<1>10. CallInv'
  BY <1>1, <1>6 DEF CallInv
<1>11. SweepInv'
  BY <1>1, <1>4 DEF IInv, SweepInv
<1>12. PhaseInv'
  <2>1. ~opt'.optO /\ ~opt'.optP
    BY <1>5 DEF Active
  <2> QED
    BY <1>1, <1>5, <1>6, <2>1 DEF PhaseInv, AwaitsOrientation, AwaitsPosition, SolvesAreOver
<1> QED
  BY <1>7, <1>8, <1>9, <1>10, <1>11, <1>12 DEF IInv

(* The shutdown, the join, the extraction and the release of the hierarchy *)
(* come after both solves.                                                 *)
LEMMA EndKeepsIInv ==
    ASSUME IInv, Shutdown \/ ShutdownNotify \/ Join \/ Extract \/ Free
    PROVE  IInv'
<1>1. /\ UNCHANGED <<lockq, levels, strokes, wpc, wloc, todo, history>>
      /\ asleep' \in {asleep, {}}
      /\ SolvesAreOver /\ SolvesAreOver' /\ mpc' \in MainPcs
  BY DEF Shutdown, ShutdownNotify, Join, Extract, Free, optvars, SolvesAreOver, MainPcs
<1>2. opt' = opt \/ (mpc = "shutdown" /\ mpc' = "shutdown.notify" /\ opt' = [opt EXCEPT !.running = FALSE])
  BY DEF Shutdown, ShutdownNotify, Join, Extract, Free, optvars
<1>3. opt \in OptType /\ ~Active
  BY <1>1 DEF IInv, TypeOK, OptimizerTypeOK, PhaseInv
<1>4. /\ opt' \in OptType
      /\ opt'.optO = opt.optO /\ opt'.optP = opt.optP
      /\ opt'.frozenQ = opt.frozenQ /\ opt'.frozenO = opt.frozenO
  BY <1>2, <1>3 DEF OptType
<1>5. ~Active'
  BY <1>3, <1>4 DEF Active
<1>6. /\ Solved("Q")' <=> Solved("Q")
      /\ Solved("O")' <=> Solved("O")
  BY <1>1, <1>4 DEF Solved, history
<1>7. WorkerQueueInv' /\ ClientQueueInv'
  BY <1>1 DEF IInv, WorkerQueueInv, ClientQueueInv, Owns, SolvesAreOver
<1>8. TypeOK'
  <2>1. failed' \in BOOLEAN /\ freed' \in BOOLEAN
    BY DEF IInv, TypeOK, Shutdown, ShutdownNotify, Join, Extract, Free
  <2> QED
    BY <1>1, <1>4, <2>1 DEF IInv, TypeOK, OptimizerTypeOK, history
<1>9. LifeInv'
  BY <1>1 DEF IInv, LifeInv, SolvesAreOver, optvars, Shutdown, ShutdownNotify, Join, Extract, Free
<1>10. CallInv' /\ SweepInv'
  BY <1>1, <1>3 DEF IInv, CallInv, SweepInv, SolvesAreOver
<1>11. PhaseInv'
  <2>1. ~AwaitsOrientation' /\ ~AwaitsPosition' /\ mpc' \notin {"build", "O.call", "filter", "P.call"}
    BY <1>1 DEF SolvesAreOver, AwaitsOrientation, AwaitsPosition
  <2>2. ASSUME mpc' \in {"shutdown", "shutdown.notify", "join", "extract"}, ~failed'
        PROVE  Solved("Q") /\ Solved("O")
    BY <2>2 DEF IInv, PhaseInv, Shutdown, ShutdownNotify, Join, Extract, Free
  <2> QED
    BY <1>5, <1>6, <2>1, <2>2 DEF PhaseInv
<1> QED
  BY <1>7, <1>8, <1>9, <1>10, <1>11 DEF IInv

(* One store of the orientation call: which one it is depends on how many  *)
(* are left.                                                               *)
LEMMA OrientationStoreIs ==
    ASSUME IInv, CallStore(OrientationCall)
    PROVE  /\ mpc = "O.call"
           /\ \/ Len(todo) = 6 /\ opt' = [opt EXCEPT !.level = levels - 1]
              \/ Len(todo) = 5 /\ opt' = [opt EXCEPT !.hier = TRUE]
              \/ Len(todo) = 4 /\ opt' = [opt EXCEPT !.frozenQ = FALSE]
              \/ Len(todo) = 3 /\ opt' = [opt EXCEPT !.iters = 0]
              \/ Len(todo) = 2 /\ opt' = [opt EXCEPT !.optP = FALSE]
              \/ Len(todo) = 1 /\ opt' = [opt EXCEPT !.optO = TRUE]
           /\ Len(todo') = Len(todo) - 1
           /\ todo' = SubSeq(OrientationStores(-1), 7 - Len(todo'), 6)
           /\ mpc' = IF Len(todo) = 1 THEN "O.notify" ELSE "O.call"
<1> DEFINE s == OrientationStores(-1)
           n == Len(todo)
<1>1. levels \in Nat
  BY DEF IInv, TypeOK, OptimizerTypeOK
<1>2. mpc = "O.call" /\ opt' = Store(opt, Head(todo)) /\ todo' = Tail(todo)
  BY DEF CallStore, OrientationCall
<1>3. n \in 1 .. 6 /\ todo = SubSeq(s, 7 - n, 6)
  BY <1>2 DEF IInv, CallInv, StoresLeft
<1>4. PICK S : s \in Seq(S) /\ Len(s) = 6
  BY <1>1, OrientationStoresAre
<1>5. /\ Head(todo) = s[7 - n]
      /\ Len(Tail(todo)) = n - 1
      /\ Tail(todo) = SubSeq(s, 7 - Len(Tail(todo)), 6)
  BY <1>3, <1>4, NextStore
<1>6. mpc' = IF n = 1 THEN "O.notify" ELSE "O.call"
  BY <1>2 DEF CallStore, OrientationCall
<1>7. /\ s[1] = <<"level", levels - 1>> /\ s[2] = <<"hier", TRUE>>
      /\ s[3] = <<"frozenQ", FALSE>> /\ s[4] = <<"iters", 0>>
      /\ s[5] = <<"optP", FALSE>> /\ s[6] = <<"optO", TRUE>>
  BY <1>1, OrientationStoresAre
<1> HIDE DEF s, n
<1>8. opt' = Store(opt, s[7 - n])
  BY <1>2, <1>5
<1>9. \/ n = 6 /\ opt' = Store(opt, s[1])
      \/ n = 5 /\ opt' = Store(opt, s[2])
      \/ n = 4 /\ opt' = Store(opt, s[3])
      \/ n = 3 /\ opt' = Store(opt, s[4])
      \/ n = 2 /\ opt' = Store(opt, s[5])
      \/ n = 1 /\ opt' = Store(opt, s[6])
  BY <1>3, <1>8
<1>10. \/ n = 6 /\ opt' = [opt EXCEPT !.level = levels - 1]
       \/ n = 5 /\ opt' = [opt EXCEPT !.hier = TRUE]
       \/ n = 4 /\ opt' = [opt EXCEPT !.frozenQ = FALSE]
       \/ n = 3 /\ opt' = [opt EXCEPT !.iters = 0]
       \/ n = 2 /\ opt' = [opt EXCEPT !.optP = FALSE]
       \/ n = 1 /\ opt' = [opt EXCEPT !.optO = TRUE]
  <2>1. Store(opt, s[1]) = [opt EXCEPT !.level = levels - 1]
    <3>1. Store(opt, <<"level", levels - 1>>) = [opt EXCEPT !.level = levels - 1]
      BY StoreIs
    <3> QED
      BY <1>7, <3>1, Zenon
  <2>2. Store(opt, s[2]) = [opt EXCEPT !.hier = TRUE]
    <3>1. Store(opt, <<"hier", TRUE>>) = [opt EXCEPT !.hier = TRUE]
      BY StoreIs
    <3> QED
      BY <1>7, <3>1, Zenon
  <2>3. Store(opt, s[3]) = [opt EXCEPT !.frozenQ = FALSE]
    <3>1. Store(opt, <<"frozenQ", FALSE>>) = [opt EXCEPT !.frozenQ = FALSE]
      BY StoreIs
    <3> QED
      BY <1>7, <3>1, Zenon
  <2>4. Store(opt, s[4]) = [opt EXCEPT !.iters = 0]
    <3>1. Store(opt, <<"iters", 0>>) = [opt EXCEPT !.iters = 0]
      BY StoreIs
    <3> QED
      BY <1>7, <3>1, Zenon
  <2>5. Store(opt, s[5]) = [opt EXCEPT !.optP = FALSE]
    <3>1. Store(opt, <<"optP", FALSE>>) = [opt EXCEPT !.optP = FALSE]
      BY StoreIs
    <3> QED
      BY <1>7, <3>1, Zenon
  <2>6. Store(opt, s[6]) = [opt EXCEPT !.optO = TRUE]
    <3>1. Store(opt, <<"optO", TRUE>>) = [opt EXCEPT !.optO = TRUE]
      BY StoreIs
    <3> QED
      BY <1>7, <3>1, Zenon
  <2> QED
    BY <1>9, <2>1, <2>2, <2>3, <2>4, <2>5, <2>6, Zenon
<1> QED
  BY <1>2, <1>5, <1>6, <1>10 DEF n, s

(* The same for the position call. *)
LEMMA PositionStoreIs ==
    ASSUME IInv, CallStore(PositionCall)
    PROVE  /\ mpc = "P.call"
           /\ \/ Len(todo) = 6 /\ opt' = [opt EXCEPT !.level = levels - 1]
              \/ Len(todo) = 5 /\ opt' = [opt EXCEPT !.hier = TRUE]
              \/ Len(todo) = 4 /\ opt' = [opt EXCEPT !.frozenO = FALSE]
              \/ Len(todo) = 3 /\ opt' = [opt EXCEPT !.iters = 0]
              \/ Len(todo) = 2 /\ opt' = [opt EXCEPT !.optP = TRUE]
              \/ Len(todo) = 1 /\ opt' = [opt EXCEPT !.optO = FALSE]
           /\ Len(todo') = Len(todo) - 1
           /\ todo' = SubSeq(PositionStores(-1), 7 - Len(todo'), 6)
           /\ mpc' = IF Len(todo) = 1 THEN "P.notify" ELSE "P.call"
<1> DEFINE s == PositionStores(-1)
           n == Len(todo)
<1>1. levels \in Nat
  BY DEF IInv, TypeOK, OptimizerTypeOK
<1>2. mpc = "P.call" /\ opt' = Store(opt, Head(todo)) /\ todo' = Tail(todo)
  BY DEF CallStore, PositionCall
<1>3. n \in 1 .. 6 /\ todo = SubSeq(s, 7 - n, 6)
  BY <1>2 DEF IInv, CallInv, StoresLeft
<1>4. PICK S : s \in Seq(S) /\ Len(s) = 6
  BY <1>1, PositionStoresAre
<1>5. /\ Head(todo) = s[7 - n]
      /\ Len(Tail(todo)) = n - 1
      /\ Tail(todo) = SubSeq(s, 7 - Len(Tail(todo)), 6)
  BY <1>3, <1>4, NextStore
<1>6. mpc' = IF n = 1 THEN "P.notify" ELSE "P.call"
  BY <1>2 DEF CallStore, PositionCall
<1>7. /\ s[1] = <<"level", levels - 1>> /\ s[2] = <<"hier", TRUE>>
      /\ s[3] = <<"frozenO", FALSE>> /\ s[4] = <<"iters", 0>>
      /\ s[5] = <<"optP", TRUE>> /\ s[6] = <<"optO", FALSE>>
  BY <1>1, PositionStoresAre
<1> HIDE DEF s, n
<1>8. opt' = Store(opt, s[7 - n])
  BY <1>2, <1>5
<1>9. \/ n = 6 /\ opt' = Store(opt, s[1])
      \/ n = 5 /\ opt' = Store(opt, s[2])
      \/ n = 4 /\ opt' = Store(opt, s[3])
      \/ n = 3 /\ opt' = Store(opt, s[4])
      \/ n = 2 /\ opt' = Store(opt, s[5])
      \/ n = 1 /\ opt' = Store(opt, s[6])
  BY <1>3, <1>8
<1>10. \/ n = 6 /\ opt' = [opt EXCEPT !.level = levels - 1]
       \/ n = 5 /\ opt' = [opt EXCEPT !.hier = TRUE]
       \/ n = 4 /\ opt' = [opt EXCEPT !.frozenO = FALSE]
       \/ n = 3 /\ opt' = [opt EXCEPT !.iters = 0]
       \/ n = 2 /\ opt' = [opt EXCEPT !.optP = TRUE]
       \/ n = 1 /\ opt' = [opt EXCEPT !.optO = FALSE]
  <2>1. Store(opt, s[1]) = [opt EXCEPT !.level = levels - 1]
    <3>1. Store(opt, <<"level", levels - 1>>) = [opt EXCEPT !.level = levels - 1]
      BY StoreIs
    <3> QED
      BY <1>7, <3>1, Zenon
  <2>2. Store(opt, s[2]) = [opt EXCEPT !.hier = TRUE]
    <3>1. Store(opt, <<"hier", TRUE>>) = [opt EXCEPT !.hier = TRUE]
      BY StoreIs
    <3> QED
      BY <1>7, <3>1, Zenon
  <2>3. Store(opt, s[3]) = [opt EXCEPT !.frozenO = FALSE]
    <3>1. Store(opt, <<"frozenO", FALSE>>) = [opt EXCEPT !.frozenO = FALSE]
      BY StoreIs
    <3> QED
      BY <1>7, <3>1, Zenon
  <2>4. Store(opt, s[4]) = [opt EXCEPT !.iters = 0]
    <3>1. Store(opt, <<"iters", 0>>) = [opt EXCEPT !.iters = 0]
      BY StoreIs
    <3> QED
      BY <1>7, <3>1, Zenon
  <2>5. Store(opt, s[5]) = [opt EXCEPT !.optP = TRUE]
    <3>1. Store(opt, <<"optP", TRUE>>) = [opt EXCEPT !.optP = TRUE]
      BY StoreIs
    <3> QED
      BY <1>7, <3>1, Zenon
  <2>6. Store(opt, s[6]) = [opt EXCEPT !.optO = FALSE]
    <3>1. Store(opt, <<"optO", FALSE>>) = [opt EXCEPT !.optO = FALSE]
      BY StoreIs
    <3> QED
      BY <1>7, <3>1, Zenon
  <2> QED
    BY <1>9, <2>1, <2>2, <2>3, <2>4, <2>5, <2>6, Zenon
<1> QED
  BY <1>2, <1>5, <1>6, <1>10 DEF n, s

(* A store changes one member and the list of the stores that are left.    *)
LEMMA StoreFrame ==
    ASSUME IInv, Alive, NEW p \in {OrientationCall, PositionCall}, CallStore(p)
    PROVE  /\ UNCHANGED <<lockq, asleep, levels, strokes, wpc, wloc, failed, freed, history>>
           /\ levels - 1 \in 0 .. MaxLevels - 1 /\ levels - 1 \in Levels
           /\ opt \in OptType
           /\ LevelIterations \in Nat \ {0}
           /\ WorkerQueueInv'
           /\ wpc \notin {"none", "exited", "terminated"} /\ ~freed /\ ~failed
           /\ opt.running
<1>1. UNCHANGED <<lockq, asleep, levels, strokes, wpc, wloc, failed, freed, history>>
  BY DEF CallStore
<1>2. levels \in 1 .. MaxLevels /\ opt \in OptType
  BY DEF IInv, TypeOK, OptimizerTypeOK, LifeInv
<1>3. mpc \in {"O.call", "P.call"}
  BY Places DEF CallStore
<1>4. WorkerQueueInv'
  BY <1>1 DEF IInv, WorkerQueueInv, Owns
<1>5. wpc \notin {"none", "exited", "terminated"} /\ ~freed /\ ~failed /\ opt.running
  BY <1>3 DEF IInv, LifeInv, Alive, SolvesAreOver
<1> QED
  BY <1>1, <1>2, <1>4, <1>5, MaxLevelsAssumption, LevelIterationsAssumption DEF Levels

(* A store of optimizeOrientations(-1): what the call has written stays    *)
(* until its last store switches the solve on.                             *)
LEMMA OrientationStoreKeepsIInv ==
    ASSUME IInv, Alive, CallStore(OrientationCall)
    PROVE  IInv'
<1> DEFINE n == Len(todo)
<1>1. /\ UNCHANGED <<lockq, asleep, levels, strokes, wpc, wloc, failed, freed, history>>
      /\ levels - 1 \in 0 .. MaxLevels - 1 /\ levels - 1 \in Levels
      /\ opt \in OptType
      /\ LevelIterations \in Nat \ {0}
      /\ WorkerQueueInv'
      /\ wpc \notin {"none", "exited", "terminated"} /\ ~freed /\ ~failed
      /\ opt.running
  BY StoreFrame
<1>2. /\ mpc = "O.call"
      /\ \/ n = 6 /\ opt' = [opt EXCEPT !.level = levels - 1]
         \/ n = 5 /\ opt' = [opt EXCEPT !.hier = TRUE]
         \/ n = 4 /\ opt' = [opt EXCEPT !.frozenQ = FALSE]
         \/ n = 3 /\ opt' = [opt EXCEPT !.iters = 0]
         \/ n = 2 /\ opt' = [opt EXCEPT !.optP = FALSE]
         \/ n = 1 /\ opt' = [opt EXCEPT !.optO = TRUE]
      /\ Len(todo') = n - 1
      /\ todo' = SubSeq(OrientationStores(-1), 7 - Len(todo'), 6)
      /\ mpc' = IF n = 1 THEN "O.notify" ELSE "O.call"
  BY OrientationStoreIs
<1>3. /\ ~Active /\ Fresh("Q") /\ Fresh("O") /\ wpc # "sweep" /\ wpc # "iterate"
      /\ n \in 1 .. 5 => opt.level = levels - 1
      /\ n \in 1 .. 4 => opt.hier
      /\ n \in 1 .. 2 => opt.iters = 0
  BY <1>2 DEF IInv, PhaseInv, SweepInv, CallInv, StoresLeft
<1>4. ~opt.optO /\ ~opt.optP
  BY <1>3 DEF Active
<1> HIDE DEF n
<1>5. /\ opt' \in OptType /\ opt'.running = opt.running
      /\ ~opt'.optP
      /\ n # 1 => ~opt'.optO
  <2>1. opt' \in OptType
    <3>1. 0 \in 0 .. LevelIterations + 1
      BY <1>1
    <3> QED
      BY <1>1, <1>2, <3>1, MemberType
  <2>2. opt'.running = opt.running
    BY <1>1, <1>2 DEF OptType
  <2>3. ~opt'.optP
    BY <1>1, <1>2, <1>4 DEF OptType
  <2>4. n # 1 => ~opt'.optO
    BY <1>1, <1>2, <1>4 DEF OptType
  <2> QED
    BY <2>1, <2>2, <2>3, <2>4
<1>6. /\ n \in 1 .. 6 => opt'.level = levels - 1
      /\ n \in 1 .. 5 => opt'.hier
      /\ n \in 1 .. 3 => opt'.iters = 0
  <2>1. n \in 1 .. 6 => opt'.level = levels - 1
    BY <1>1, <1>2, <1>3 DEF OptType
  <2>2. n \in 1 .. 5 => opt'.hier
    BY <1>1, <1>2, <1>3 DEF OptType
  <2>3. n \in 1 .. 3 => opt'.iters = 0
    BY <1>1, <1>2, <1>3 DEF OptType
  <2> QED
    BY <2>1, <2>2, <2>3
<1>7. Fresh("Q")' /\ Fresh("O")'
  BY <1>1, <1>3 DEF Fresh, history
<1>8. n = 1 => Underway("Q")' /\ opt'.optO
  <2> SUFFICES ASSUME n = 1 PROVE Underway("Q")' /\ opt'.optO
    OBVIOUS
  <2>1. /\ opt'.hier /\ opt'.level = levels - 1 /\ opt'.iters = 0 /\ levels' = levels
        /\ wpc' \notin {"sweep", "terminated"}
    BY <1>1, <1>3, <1>6
  <2>2. opt'.optO
    BY <1>1, <1>2 DEF OptType
  <2>3. \A l \in 0 .. levels - 1 : sweeps'["Q"][l] = 0
    <3>1. \A l \in LevelIndices : sweeps'["Q"][l] = 0
      BY <1>7 DEF Fresh
    <3> QED
      BY <3>1, <1>1, MaxLevelsAssumption DEF LevelIndices
  <2>4. \A l \in 0 .. levels - 1 : ~(l > levels - 1) /\ (l < levels - 1 \/ l = levels - 1)
    BY <1>1
  <2> QED
    BY <1>1, <2>1, <2>2, <2>3, <2>4 DEF Underway
<1>9. ClientQueueInv'
  BY <1>1, <1>2 DEF IInv, ClientQueueInv
<1>10. TypeOK'
  <2>1. Len(todo') <= 6 /\ mpc' \in MainPcs
    BY <1>2 DEF MainPcs
  <2> QED
    BY <1>1, <1>5, <2>1 DEF IInv, TypeOK, OptimizerTypeOK, history
<1>11. LifeInv'
  BY <1>1, <1>2, <1>5 DEF IInv, LifeInv
<1>12. CallInv'
  <2>1. CASE n = 1
    BY <1>2, <2>1 DEF CallInv
  <2>2. CASE n # 1
    <3>1. /\ Len(todo') \in 1 .. 5
          /\ Len(todo') \in 1 .. 5 => opt'.level = levels - 1
          /\ Len(todo') \in 1 .. 4 => opt'.hier
          /\ Len(todo') \in 1 .. 2 => opt'.iters = 0
      BY <1>2, <1>6, <2>2
    <3>2. OrientationStores(-1)' = OrientationStores(-1)
      BY <1>1 DEF OrientationStores, TargetLevel
    <3>3. Len(todo') \in 1 .. 6 /\ mpc' = "O.call" /\ levels' = levels
      BY <1>1, <1>2, <2>2, <3>1
    <3>4. todo' = SubSeq(OrientationStores(-1)', 7 - Len(todo'), 6)
      BY <1>2, <3>2, Zenon
    <3>5. StoresLeft(OrientationStores(-1), 1)'
      BY <3>1, <3>3, <3>4, Zenon DEF StoresLeft
    <3>6. mpc' # "P.call"
      BY <3>3
    <3> QED
      BY <3>5, <3>6, Zenon DEF CallInv
  <2> QED
    BY <2>1, <2>2
<1>13. SweepInv'
  BY <1>1, <1>3 DEF SweepInv
<1>14. PhaseInv'
  <2>1. CASE n = 1
    BY <1>2, <1>5, <1>7, <1>8, <2>1
    DEF PhaseInv, Active, AwaitsOrientation, AwaitsPosition, SolvesAreOver
  <2>2. CASE n # 1
    BY <1>2, <1>5, <1>7, <2>2
    DEF PhaseInv, Active, AwaitsOrientation, AwaitsPosition, SolvesAreOver
  <2> QED
    BY <2>1, <2>2
<1> QED
  BY <1>1, <1>9, <1>10, <1>11, <1>12, <1>13, <1>14 DEF IInv

(* A store of optimizePositions(-1): the switch comes before the last      *)
(* store, which finds optO cleared already, even after a whole solve.      *)
LEMMA PositionStoreKeepsIInv ==
    ASSUME IInv, Alive, CallStore(PositionCall)
    PROVE  IInv'
<1> DEFINE n == Len(todo)
<1>1. /\ UNCHANGED <<lockq, asleep, levels, strokes, wpc, wloc, failed, freed, history>>
      /\ levels - 1 \in 0 .. MaxLevels - 1 /\ levels - 1 \in Levels
      /\ opt \in OptType
      /\ LevelIterations \in Nat \ {0}
      /\ WorkerQueueInv'
      /\ wpc \notin {"none", "exited", "terminated"} /\ ~freed /\ ~failed
      /\ opt.running
  BY StoreFrame
<1>2. /\ mpc = "P.call"
      /\ \/ n = 6 /\ opt' = [opt EXCEPT !.level = levels - 1]
         \/ n = 5 /\ opt' = [opt EXCEPT !.hier = TRUE]
         \/ n = 4 /\ opt' = [opt EXCEPT !.frozenO = FALSE]
         \/ n = 3 /\ opt' = [opt EXCEPT !.iters = 0]
         \/ n = 2 /\ opt' = [opt EXCEPT !.optP = TRUE]
         \/ n = 1 /\ opt' = [opt EXCEPT !.optO = FALSE]
      /\ Len(todo') = n - 1
      /\ todo' = SubSeq(PositionStores(-1), 7 - Len(todo'), 6)
      /\ mpc' = IF n = 1 THEN "P.notify" ELSE "P.call"
  BY PositionStoreIs
<1>3. /\ ~opt.optO /\ Solved("Q")
      /\ n > 1 => ~opt.optP /\ Fresh("O")
      /\ n = 1 => IF opt.optP THEN Underway("O") ELSE Solved("O")
      /\ n \in 2 .. 5 => opt.level = levels - 1
      /\ n \in 2 .. 4 => opt.hier
      /\ n \in 2 .. 2 => opt.iters = 0
  BY <1>2 DEF IInv, PhaseInv, CallInv, StoresLeft
<1>4. n > 1 => wpc \notin {"sweep", "iterate"}
  BY <1>3 DEF IInv, SweepInv, Active
<1> HIDE DEF n
<1>5. /\ opt' \in OptType /\ opt'.running = opt.running
      /\ ~opt'.optO
      /\ opt'.frozenQ = opt.frozenQ
      /\ n > 2 => ~opt'.optP
      /\ n = 2 => opt'.optP
  <2>1. opt' \in OptType
    <3>1. 0 \in 0 .. LevelIterations + 1
      BY <1>1
    <3> QED
      BY <1>1, <1>2, <3>1, MemberType
  <2>2. opt'.running = opt.running
    BY <1>1, <1>2 DEF OptType
  <2>3. ~opt'.optO
    BY <1>1, <1>2, <1>3 DEF OptType
  <2>4. opt'.frozenQ = opt.frozenQ
    BY <1>1, <1>2 DEF OptType
  <2>5. n > 2 => ~opt'.optP
    <3>1. n > 2 => ~opt.optP
      BY <1>2, <1>3
    <3>2. n # 2 => opt'.optP = opt.optP
      BY <1>1, <1>2 DEF OptType
    <3> QED
      BY <1>2, <3>1, <3>2
  <2>6. n = 2 => opt'.optP
    BY <1>1, <1>2 DEF OptType
  <2> QED
    BY <2>1, <2>2, <2>3, <2>4, <2>5, <2>6
<1>6. /\ n \in 2 .. 6 => opt'.level = levels - 1
      /\ n \in 2 .. 5 => opt'.hier
      /\ n \in 2 .. 3 => opt'.iters = 0
  <2>1. n \in 2 .. 6 => opt'.level = levels - 1
    BY <1>1, <1>2, <1>3 DEF OptType
  <2>2. n \in 2 .. 5 => opt'.hier
    BY <1>1, <1>2, <1>3 DEF OptType
  <2>3. n \in 2 .. 3 => opt'.iters = 0
    BY <1>1, <1>2, <1>3 DEF OptType
  <2> QED
    BY <2>1, <2>2, <2>3
<1>7. Solved("Q")'
  BY <1>1, <1>3, <1>5 DEF Solved, history
<1>8. n > 1 => Fresh("O")'
  BY <1>1, <1>3 DEF Fresh, history
<1>9. n = 2 => Underway("O")'
  <2> SUFFICES ASSUME n = 2 PROVE Underway("O")'
    OBVIOUS
  <2>1. /\ opt'.hier /\ opt'.level = levels - 1 /\ opt'.iters = 0 /\ levels' = levels
        /\ wpc' \notin {"sweep", "terminated"}
    BY <1>1, <1>4, <1>6
  <2>2. \A l \in 0 .. levels - 1 : sweeps'["O"][l] = 0
    <3>1. \A l \in LevelIndices : sweeps'["O"][l] = 0
      BY <1>8 DEF Fresh
    <3> QED
      BY <3>1, <1>1, MaxLevelsAssumption DEF LevelIndices
  <2>3. \A l \in 0 .. levels - 1 : ~(l > levels - 1) /\ (l < levels - 1 \/ l = levels - 1)
    BY <1>1
  <2> QED
    BY <1>1, <2>1, <2>2, <2>3 DEF Underway
<1>10. n = 1 => opt' = opt
  <2>1. opt.optO = FALSE
    BY <1>1, <1>3 DEF OptType
  <2>2. [opt EXCEPT !.optO = FALSE] = opt
    BY <1>1, <2>1 DEF OptType
  <2>3. n = 1 => opt' = [opt EXCEPT !.optO = FALSE]
    BY <1>2
  <2> QED
    BY <2>2, <2>3, Zenon
<1>11. n = 1 => IF opt'.optP THEN Underway("O")' ELSE Solved("O")'
  <2> SUFFICES ASSUME n = 1 PROVE IF opt'.optP THEN Underway("O")' ELSE Solved("O")'
    OBVIOUS
  <2>1. UNCHANGED <<opt, levels, history>> /\ wpc' = wpc
    BY <1>1, <1>10
  <2> QED
    BY <1>3, <2>1, SameProgress
<1>12. ClientQueueInv'
  BY <1>1, <1>2 DEF IInv, ClientQueueInv
<1>13. TypeOK'
  <2>1. Len(todo') <= 6 /\ mpc' \in MainPcs
    BY <1>2 DEF MainPcs
  <2> QED
    BY <1>1, <1>5, <2>1 DEF IInv, TypeOK, OptimizerTypeOK, history
<1>14. LifeInv'
  BY <1>1, <1>2, <1>5 DEF IInv, LifeInv
<1>15. CallInv'
  <2>1. CASE n = 1
    BY <1>2, <2>1 DEF CallInv
  <2>2. CASE n # 1
    <3>1. /\ Len(todo') \in 1 .. 5
          /\ Len(todo') \in 2 .. 5 => opt'.level = levels - 1
          /\ Len(todo') \in 2 .. 4 => opt'.hier
          /\ Len(todo') \in 2 .. 2 => opt'.iters = 0
      BY <1>2, <1>6, <2>2
    <3>2. PositionStores(-1)' = PositionStores(-1)
      BY <1>1 DEF PositionStores, TargetLevel
    <3>3. Len(todo') \in 1 .. 6 /\ mpc' = "P.call" /\ levels' = levels
      BY <1>1, <1>2, <2>2, <3>1
    <3>4. todo' = SubSeq(PositionStores(-1)', 7 - Len(todo'), 6)
      BY <1>2, <3>2, Zenon
    <3>5. StoresLeft(PositionStores(-1), 2)'
      BY <3>1, <3>3, <3>4, Zenon DEF StoresLeft
    <3>6. mpc' # "O.call"
      BY <3>3
    <3> QED
      BY <3>5, <3>6, Zenon DEF CallInv
  <2> QED
    BY <2>1, <2>2
<1>16. SweepInv'
  <2>1. CASE n = 1
    BY <1>1, <1>10, <2>1 DEF IInv, SweepInv, Active
  <2>2. CASE n # 1
    BY <1>1, <1>2, <1>4, <2>2 DEF SweepInv
  <2> QED
    BY <2>1, <2>2
<1>17. PhaseInv'
  <2>1. CASE n = 1
    BY <1>2, <1>5, <1>7, <1>11, <2>1
    DEF PhaseInv, Active, AwaitsOrientation, AwaitsPosition, SolvesAreOver
  <2>2. CASE n = 2
    BY <1>2, <1>5, <1>7, <1>9, <2>2
    DEF PhaseInv, Active, AwaitsOrientation, AwaitsPosition, SolvesAreOver
  <2>3. CASE n > 2
    BY <1>2, <1>5, <1>7, <1>8, <2>3
    DEF PhaseInv, Active, AwaitsOrientation, AwaitsPosition, SolvesAreOver
  <2> QED
    BY <1>2, <2>1, <2>2, <2>3
<1> QED
  BY <1>1, <1>12, <1>13, <1>14, <1>15, <1>16, <1>17 DEF IInv

-----------------------------------------------------------------------------
(* The worker.                                                             *)

(* A worker that iterates works for exactly one field, whose solve is      *)
(* under way and for which the client waits.                               *)
LEMMA OneSolve ==
    ASSUME IInv, wpc \in {"iterate", "sweep"}
    PROVE  \/ /\ opt.optO /\ ~opt.optP /\ Underway("Q") /\ Fresh("O")
              /\ AwaitsOrientation
           \/ /\ opt.optP /\ ~opt.optO /\ Underway("O") /\ Solved("Q")
              /\ AwaitsPosition \/ (mpc = "P.call" /\ Len(todo) = 1)
<1>1. Active
  BY DEF IInv, SweepInv
<1>2. \/ mpc \in {"build", "O.call", "filter"} \/ SolvesAreOver
      \/ AwaitsOrientation \/ AwaitsPosition \/ mpc = "P.call"
  BY DEF IInv, TypeOK, MainPcs, AwaitsOrientation, AwaitsPosition, SolvesAreOver
<1>3. mpc = "P.call" => Len(todo) \in 1 .. 6
  BY DEF IInv, CallInv, StoresLeft
<1>4. AwaitsOrientation \/ AwaitsPosition \/ (mpc = "P.call" /\ Len(todo) = 1)
  <2>1. mpc \notin {"build", "O.call", "filter"} /\ ~SolvesAreOver
    BY <1>1 DEF IInv, PhaseInv
  <2>2. mpc = "P.call" => ~(Len(todo) > 1)
    BY <1>1 DEF IInv, PhaseInv, Active
  <2>3. mpc = "P.call" => Len(todo) = 1
    BY <1>3, <2>2
  <2> QED
    BY <1>2, <2>1, <2>3
<1> QED
  BY <1>1, <1>4 DEF IInv, PhaseInv, Active

(* The worker's steps as a step of the composition. *)
LEMMA WorkerFrame ==
    ASSUME IInv, WorkerStep(FALSE, 0), UNCHANGED mainvars
    PROVE  /\ WorkerQueueInv' /\ ClientQueueInv'
           /\ OptimizerTypeOK'
           /\ mpc' = mpc /\ todo' = todo /\ failed' = failed /\ freed' = freed
           /\ levels' = levels
           /\ mpc \notin {"build", "extract", "free", "returned"} /\ ~freed
           /\ wpc' # "none"
<1>1. mpc' = mpc /\ todo' = todo /\ failed' = failed /\ freed' = freed
  BY DEF mainvars
<1>2. wpc \in {"iterate", "sweep"} => opt.level \in 0 .. levels - 1
  BY OneSolve DEF Underway
<1>3. WorkerQueueInv /\ OptimizerTypeOK
  BY DEF IInv, TypeOK
<1>4. OptimizerTypeOK'
  BY <1>2, <1>3, WorkerKeepsTypes
<1>5. WorkerQueueInv'
  BY <1>3, WorkerKeepsQueue
<1>6. ClientQueueInv'
  BY <1>1, <1>3, WorkerKeepsQueue DEF IInv, ClientQueueInv
<1>7. wpc \notin {"none", "exited"} /\ wpc' # "none"
  BY <1>3, WorkerUsesLock DEF WorkerQueueInv
<1>8. mpc \notin {"build", "extract", "free", "returned"} /\ ~freed
  BY <1>7 DEF IInv, LifeInv
<1>9. levels' = levels
  BY DEF WorkerStep, WorkerLock, WorkerTest, WorkerSleep, WorkerWake, WorkerBegin, WorkerEnd, WorkerThrow
<1> QED
  BY <1>1, <1>4, <1>5, <1>6, <1>7, <1>8, <1>9

(* Taking the lock, testing, sleeping, waking up and the exception leave   *)
(* the solve as it is.                                                     *)
LEMMA WorkerWaitKeepsIInv ==
    ASSUME IInv, UNCHANGED mainvars, UNCHANGED history,
           WorkerLock \/ WorkerTest \/ WorkerSleep \/ WorkerWake \/ WorkerThrow(0)
    PROVE  IInv'
<1>1. WorkerStep(FALSE, 0)
  BY DEF WorkerStep
<1>2. /\ WorkerQueueInv' /\ ClientQueueInv'
      /\ OptimizerTypeOK'
      /\ mpc' = mpc /\ todo' = todo /\ failed' = failed /\ freed' = freed
      /\ levels' = levels
      /\ mpc \notin {"build", "extract", "free", "returned"} /\ ~freed
      /\ wpc' # "none"
  BY <1>1, WorkerFrame
<1>3. UNCHANGED <<opt, levels, strokes, wloc, history>>
  BY DEF WorkerLock, WorkerTest, WorkerSleep, WorkerWake, WorkerThrow
<1>4. /\ wpc' # "sweep"
      /\ wpc' = "terminated" <=> wpc = "sweep"
      /\ wpc # "terminated"
      /\ wpc' = "exited" => ~opt.running
      /\ wpc' = "iterate" => opt.running /\ ~NothingToDo
  BY DEF WorkerLock, WorkerTest, WorkerSleep, WorkerWake, WorkerThrow
<1>5. TypeOK'
  BY <1>2, <1>3 DEF IInv, TypeOK, history
<1>6. LifeInv'
  BY <1>2, <1>3, <1>4 DEF IInv, LifeInv, SolvesAreOver
<1>7. CallInv'
  BY <1>2, <1>3 DEF IInv, CallInv, StoresLeft, OrientationStores, PositionStores, TargetLevel
<1>8. SweepInv'
  <2>1. wpc' = "iterate" => Active
    BY <1>4 DEF NothingToDo, IInv, LifeInv
  <2> QED
    BY <1>3, <1>4, <2>1 DEF SweepInv, Active
<1>9. PhaseInv'
  BY <1>2, <1>3, <1>4, SameProgress
  DEF IInv, PhaseInv, AwaitsOrientation, AwaitsPosition, SolvesAreOver
<1> QED
  BY <1>2, <1>5, <1>6, <1>7, <1>8, <1>9 DEF IInv

(* The last store of the position call can wait for a whole solve: what it *)
(* writes is there already.                                                *)
LEMMA LastStoreStays ==
    ASSUME IInv, UNCHANGED <<mpc, todo, levels>>,
           AwaitsPosition \/ (mpc = "P.call" /\ Len(todo) = 1)
    PROVE  CallInv'
<1>1. CASE AwaitsPosition
  BY <1>1 DEF CallInv, AwaitsPosition
<1>2. CASE mpc = "P.call" /\ Len(todo) = 1
  <2>1. StoresLeft(PositionStores(-1), 2)
    BY <1>2 DEF IInv, CallInv
  <2>2. PositionStores(-1)' = PositionStores(-1)
    BY DEF PositionStores, TargetLevel
  <2>3. /\ Len(todo') = 1 /\ 1 \in 1 .. 6 /\ 1 \notin 2 .. 5 /\ 1 \notin 2 .. 4 /\ 1 \notin 2 .. 2
    BY <1>2
  <2>4. todo' = SubSeq(PositionStores(-1)', 7 - Len(todo'), 6)
    <3>1. todo = SubSeq(PositionStores(-1), 7 - Len(todo), 6)
      BY <2>1, Zenon DEF StoresLeft
    <3> QED
      BY <2>2, <3>1, Zenon
  <2>5. StoresLeft(PositionStores(-1), 2)'
    BY <2>3, <2>4, Zenon DEF StoresLeft
  <2>6. mpc' # "O.call"
    BY <1>2
  <2> QED
    BY <2>5, <2>6, Zenon DEF CallInv
<1> QED
  BY <1>1, <1>2

(* A sweep begins: it is counted before it is done.                        *)
LEMMA WorkerBeginKeepsIInv ==
    ASSUME IInv, UNCHANGED mainvars, UNCHANGED history, WorkerBegin(FALSE)
    PROVE  IInv'
<1> DEFINE n == opt.iters + 1
<1>1. WorkerStep(FALSE, 0) /\ wpc = "iterate" /\ wpc' = "sweep"
  BY DEF WorkerStep, WorkerBegin
<1>2. /\ WorkerQueueInv' /\ ClientQueueInv'
      /\ OptimizerTypeOK'
      /\ mpc' = mpc /\ todo' = todo /\ failed' = failed /\ freed' = freed
      /\ levels' = levels
      /\ mpc \notin {"build", "extract", "free", "returned"} /\ ~freed
  BY <1>1, WorkerFrame
<1>3. UNCHANGED <<sweeps, seeded, strokes>>
  BY DEF WorkerBegin, history
<1>4. /\ opt \in OptType /\ LevelIterations \in Nat \ {0}
      /\ opt.hier /\ opt.iters \in 0 .. LevelIterations - 1
  <2>1. opt \in OptType /\ LevelIterations \in Nat \ {0}
    BY LevelIterationsAssumption DEF IInv, TypeOK, OptimizerTypeOK
  <2>2. PICK f \in {"Q", "O"} : Underway(f)
    BY <1>1, OneSolve
  <2>3. opt.hier /\ opt.iters - 0 \in 0 .. LevelIterations - 1
    BY <1>1, <2>2 DEF Underway
  <2>4. opt.iters \in Int
    BY <2>1 DEF OptType
  <2> QED
    BY <2>1, <2>3, <2>4
<1>5. /\ opt' = [opt EXCEPT !.iters = n]
      /\ wloc' = [level |-> opt.level, last |-> LastIterationAtLevel(n), view |-> FALSE]
  <2>1. ~(n > LevelIterations)
    BY <1>4
  <2>2. (FALSE \/ ~opt.hier) = FALSE
    BY <1>4
  <2> QED
    BY <2>1, <2>2 DEF WorkerBegin
<1>6. /\ opt'.iters = n /\ opt'.level = opt.level /\ opt'.hier
      /\ opt'.optO = opt.optO /\ opt'.optP = opt.optP /\ opt'.running = opt.running
      /\ opt'.frozenQ = opt.frozenQ /\ opt'.frozenO = opt.frozenO
  BY <1>4, <1>5 DEF OptType
<1>7. LastIterationAtLevel(n) = (opt'.iters >= LevelIterations)
  BY <1>4, <1>6 DEF LastIterationAtLevel
<1>8. TypeOK'
  BY <1>2, <1>3 DEF IInv, TypeOK
<1>9. LifeInv'
  BY <1>1, <1>2, <1>3, <1>6 DEF IInv, LifeInv, SolvesAreOver
<1>10. ASSUME NEW f \in Fields, Underway(f)
       PROVE  Underway(f)'
  <2>1. opt'.iters - 1 = opt.iters
    BY <1>4, <1>6
  <2> QED
    BY <1>1, <1>2, <1>3, <1>4, <1>6, <1>10, <2>1 DEF Underway
<1>11. /\ Fresh("O") => Fresh("O")'
       /\ Solved("Q") => Solved("Q")'
  BY <1>2, <1>3, <1>6 DEF Fresh, Solved
<1>12. "Q" \in Fields /\ "O" \in Fields
  BY DEF Fields
<1>13. CASE /\ opt.optO /\ ~opt.optP /\ Underway("Q") /\ Fresh("O")
            /\ AwaitsOrientation
  <2>1. Underway("Q")' /\ Fresh("O")'
    BY <1>10, <1>11, <1>12, <1>13
  <2>2. PhaseInv'
    BY <1>2, <1>6, <1>13, <2>1
    DEF PhaseInv, AwaitsOrientation, AwaitsPosition, SolvesAreOver
  <2>3. CallInv'
    BY <1>2, <1>13 DEF CallInv, AwaitsOrientation
  <2>4. SweepInv'
    BY <1>1, <1>5, <1>6, <1>7, <1>13 DEF SweepInv, Active
  <2> QED
    BY <1>2, <1>8, <1>9, <2>2, <2>3, <2>4 DEF IInv
<1>14. CASE /\ opt.optP /\ ~opt.optO /\ Underway("O") /\ Solved("Q")
            /\ AwaitsPosition \/ (mpc = "P.call" /\ Len(todo) = 1)
  <2>1. Underway("O")' /\ Solved("Q")'
    BY <1>10, <1>11, <1>12, <1>14
  <2>2. PhaseInv'
    <3>1. CASE AwaitsPosition
      BY <1>2, <1>6, <1>14, <2>1, <3>1
      DEF PhaseInv, AwaitsOrientation, AwaitsPosition, SolvesAreOver
    <3>2. CASE mpc = "P.call" /\ Len(todo) = 1
      BY <1>2, <1>6, <1>14, <2>1, <3>2
      DEF PhaseInv, AwaitsOrientation, AwaitsPosition, SolvesAreOver
    <3> QED
      BY <1>14, <3>1, <3>2
  <2>3. CallInv'
    BY <1>2, <1>14, LastStoreStays
  <2>4. SweepInv'
    BY <1>1, <1>5, <1>6, <1>7, <1>14 DEF SweepInv, Active
  <2> QED
    BY <1>2, <1>8, <1>9, <2>2, <2>3, <2>4 DEF IInv
<1> QED
  BY <1>1, <1>13, <1>14, OneSolve

(* What a sweep of field f is recorded as: level opt.level has been swept  *)
(* once more, and after the last sweep of a level the next finer one       *)
(* starts from it.  The other field is left alone.                         *)
LEMMA SweepIsRecorded ==
    ASSUME IInv, wpc = "sweep", RecordSweep, NEW f \in Fields, SweptFields = {f}, Underway(f)
    PROVE  /\ sweeps' = [sweeps EXCEPT ![f][opt.level] = opt.iters]
           /\ seeded' \in [Fields -> [LevelIndices -> BOOLEAN]]
           /\ opt.iters < LevelIterations => seeded'[f][opt.level] = seeded[f][opt.level]
           /\ opt.iters = LevelIterations /\ opt.level > 0 => seeded'[f][opt.level - 1]
<1> DEFINE L == opt.level
<1>1. /\ sweeps \in [Fields -> [LevelIndices -> 0 .. LevelIterations + 1]]
      /\ seeded \in [Fields -> [LevelIndices -> BOOLEAN]]
      /\ levels \in 0 .. MaxLevels /\ MaxLevels \in Nat /\ LevelIterations \in Nat \ {0}
      /\ opt \in OptType
  BY MaxLevelsAssumption, LevelIterationsAssumption DEF IInv, TypeOK, OptimizerTypeOK
<1>2. /\ L \in 0 .. levels - 1 /\ opt.iters \in 1 .. LevelIterations
      /\ sweeps[f][L] = opt.iters - 1
  <2>1. opt.iters - 1 \in 0 .. LevelIterations - 1 /\ L \in 0 .. levels - 1
    BY DEF Underway
  <2>2. opt.iters \in Int
    BY <1>1 DEF OptType
  <2>3. sweeps[f][L] = opt.iters - 1
    BY <2>1 DEF Underway
  <2> QED
    BY <1>1, <2>1, <2>2, <2>3
<1>3. L \in LevelIndices /\ L \in Int /\ (L > 0 => L - 1 \in LevelIndices)
  BY <1>1, <1>2 DEF LevelIndices
<1>4. wloc.level = L /\ wloc.last = (opt.iters >= LevelIterations) /\ wloc.view = FALSE
  BY DEF IInv, SweepInv
<1>5. sweeps' = [sweeps EXCEPT ![f][L] = opt.iters]
  <2>1. (IF sweeps[f][L] > LevelIterations THEN sweeps[f][L] ELSE sweeps[f][L] + 1) = opt.iters
    BY <1>1, <1>2
  <2>2. sweeps' = [g \in Fields |-> IF g = f THEN [sweeps[f] EXCEPT ![L] = opt.iters] ELSE sweeps[g]]
    BY <1>4, <2>1 DEF RecordSweep
  <2> QED
    BY <1>1, <2>2
<1>6. ProlongedLevels = IF L > 0 /\ opt.iters = LevelIterations THEN {L - 1} ELSE {}
  <2>1. (opt.iters >= LevelIterations) <=> opt.iters = LevelIterations
    <3>1. LevelIterations \in Nat /\ opt.iters \in 1 .. LevelIterations
      BY <1>1, <1>2
    <3>2. \A k \in 1 .. LevelIterations : (k >= LevelIterations) <=> k = LevelIterations
      BY <3>1
    <3> QED
      BY <3>1, <3>2
  <2>2. (wloc.last \/ wloc.view) <=> opt.iters = LevelIterations
    BY <1>4, <2>1
  <2>3. ~wloc.view
    BY <1>4
  <2> QED
    BY <1>4, <2>2, <2>3, Zenon DEF ProlongedLevels
<1>7. seeded' = [g \in Fields |-> [l \in LevelIndices |->
                   IF g # f THEN seeded[g][l]
                   ELSE IF l \in ProlongedLevels THEN TRUE
                   ELSE IF l = L - 1 THEN FALSE ELSE seeded[g][l]]]
  BY <1>4 DEF RecordSweep
<1>8. seeded' \in [Fields -> [LevelIndices -> BOOLEAN]]
  BY <1>1, <1>7
<1>9. opt.iters < LevelIterations => seeded'[f][L] = seeded[f][L]
  <2> SUFFICES ASSUME opt.iters < LevelIterations PROVE seeded'[f][L] = seeded[f][L]
    OBVIOUS
  <2>1. L \notin ProlongedLevels /\ L # L - 1
    <3>1. opt.iters # LevelIterations /\ L # L - 1
      BY <1>1, <1>2, <1>3
    <3> QED
      BY <1>6, <3>1, Zenon
  <2>2. seeded'[f][L] = IF f # f THEN seeded[f][L]
                        ELSE IF L \in ProlongedLevels THEN TRUE
                        ELSE IF L = L - 1 THEN FALSE ELSE seeded[f][L]
    BY <1>3, <1>7, Zenon
  <2> QED
    BY <2>1, <2>2, Zenon
<1>10. opt.iters = LevelIterations /\ L > 0 => seeded'[f][L - 1]
  BY <1>3, <1>6, <1>7
<1> QED
  BY <1>5, <1>8, <1>9, <1>10

(* The end of an iteration: the solve goes on at the same level or at the  *)
(* next finer one, or, below level 0, its field is finished.               *)
LEMMA SweepAdvances ==
    ASSUME IInv, wpc = "sweep", WorkerEnd(0), RecordSweep,
           NEW f \in Fields, SweptFields = {f}, Underway(f)
    PROVE  /\ opt'.running = opt.running
           /\ \/ Underway(f)' /\ opt'.optO = opt.optO /\ opt'.optP = opt.optP
              \/ Solved(f)' /\ ~opt'.optO /\ ~opt'.optP
           /\ opt.frozenQ => opt'.frozenQ
<1> DEFINE L == opt.level
<1>1. /\ LevelIterations \in Nat \ {0} /\ MaxLevels \in Nat /\ levels \in 0 .. MaxLevels
      /\ opt \in OptType
      /\ sweeps \in [Fields -> [LevelIndices -> 0 .. LevelIterations + 1]]
  BY MaxLevelsAssumption, LevelIterationsAssumption DEF IInv, TypeOK, OptimizerTypeOK
<1>2. /\ opt.hier /\ L \in 0 .. levels - 1 /\ opt.iters \in 1 .. LevelIterations
      /\ \A l \in 0 .. levels - 1 :
           sweeps[f][l] = IF l > L THEN LevelIterations ELSE IF l < L THEN 0 ELSE opt.iters - 1
      /\ L < levels - 1 => seeded[f][L]
  <2>1. opt.iters - 1 \in 0 .. LevelIterations - 1 /\ L \in 0 .. levels - 1
    BY DEF Underway
  <2>2. opt.iters \in Int
    BY <1>1 DEF OptType
  <2>3. opt.iters \in 1 .. LevelIterations
    BY <1>1, <2>1, <2>2
  <2> QED
    BY <2>1, <2>3 DEF Underway
<1>3. /\ sweeps' = [sweeps EXCEPT ![f][L] = opt.iters]
      /\ opt.iters < LevelIterations => seeded'[f][L] = seeded[f][L]
      /\ opt.iters = LevelIterations /\ L > 0 => seeded'[f][L - 1]
  BY SweepIsRecorded
<1>4. opt' = AfterLevel /\ wpc' = "lock" /\ levels' = levels
  BY DEF WorkerEnd, IInv, LifeInv, StrokeDue
<1>5. \A l \in 0 .. levels - 1 : sweeps'[f][l] = IF l = L THEN opt.iters ELSE sweeps[f][l]
  <2>1. \A l \in 0 .. levels - 1 : l \in LevelIndices
    BY <1>1 DEF LevelIndices
  <2> QED
    BY <1>1, <1>3, <2>1
<1>6. CASE opt.iters < LevelIterations
  <2>1. opt' = opt
    BY <1>1, <1>2, <1>4, <1>6 DEF AfterLevel, LevelDone
  <2>2. /\ opt'.iters - 0 \in 0 .. LevelIterations - 1
        /\ opt'.level < levels' - 1 => seeded'[f][opt'.level]
    BY <1>1, <1>2, <1>3, <1>4, <1>6, <2>1
  <2>3. \A l \in 0 .. levels' - 1 :
          sweeps'[f][l] = IF l > opt'.level THEN LevelIterations
                          ELSE IF l < opt'.level THEN 0 ELSE opt'.iters - 0
    <3>1. levels' = levels /\ opt'.level = L /\ opt'.iters - 0 = opt.iters
      BY <1>2, <1>4, <2>1
    <3>2. ASSUME NEW l \in 0 .. levels - 1
          PROVE  sweeps'[f][l] = IF l > L THEN LevelIterations ELSE IF l < L THEN 0 ELSE opt.iters
      <4>1. CASE l = L
        BY <1>2, <1>5, <4>1
      <4>2. CASE l # L
        <5>1. sweeps'[f][l] = sweeps[f][l] /\ (l > L \/ l < L)
          BY <1>2, <1>5, <4>2
        <5> QED
          BY <1>2, <5>1
      <4> QED
        BY <4>1, <4>2
    <3> QED
      BY <3>1, <3>2
  <2>4. Underway(f)'
    BY <1>2, <1>4, <2>1, <2>2, <2>3 DEF Underway
  <2> QED
    BY <2>1, <2>4
<1>7. CASE opt.iters = LevelIterations /\ L > 0
  <2>1. opt' = [opt EXCEPT !.level = L - 1, !.iters = 0]
    BY <1>1, <1>2, <1>4, <1>7 DEF AfterLevel, LevelDone, OptType
  <2>2. /\ opt'.hier /\ opt'.level = L - 1 /\ opt'.iters = 0
        /\ opt'.optO = opt.optO /\ opt'.optP = opt.optP
        /\ opt'.running = opt.running /\ opt'.frozenQ = opt.frozenQ
    BY <1>1, <1>2, <2>1 DEF OptType
  <2>3. \A l \in 0 .. levels' - 1 :
          sweeps'[f][l] = IF l > L - 1 THEN LevelIterations ELSE 0
    BY <1>1, <1>2, <1>4, <1>5, <1>7
  <2>4. L - 1 \in 0 .. levels' - 1 /\ 0 - 0 \in 0 .. LevelIterations - 1
    BY <1>1, <1>2, <1>4, <1>7
  <2>5. seeded'[f][L - 1]
    BY <1>3, <1>7
  <2>6. Underway(f)'
    BY <1>1, <1>4, <2>2, <2>3, <2>4, <2>5 DEF Underway
  <2> QED
    BY <2>2, <2>6
<1>8. CASE opt.iters = LevelIterations /\ L = 0
  <2>1. opt' = Stopped([opt EXCEPT !.level = L - 1, !.iters = 0,
                               !.frozenQ = opt.frozenQ \/ opt.optO,
                               !.frozenO = opt.frozenO \/ opt.optP])
    BY <1>1, <1>2, <1>4, <1>8 DEF AfterLevel, LevelDone, OptType
  <2>2. /\ ~opt'.optO /\ ~opt'.optP /\ opt'.running = opt.running
        /\ opt'.frozenQ = (opt.frozenQ \/ opt.optO)
        /\ opt'.frozenO = (opt.frozenO \/ opt.optP)
    BY <1>1, <2>1 DEF Stopped, OptType
  <2>3. \A l \in 0 .. levels' - 1 : sweeps'[f][l] = LevelIterations
    BY <1>1, <1>2, <1>4, <1>5, <1>8
  <2>4. IF f = "Q" THEN opt'.frozenQ ELSE opt'.frozenO
    <3>1. f \in SweptFields
      OBVIOUS
    <3> QED
      BY <2>2, <3>1 DEF SweptFields, Fields
  <2> QED
    BY <2>2, <2>3, <2>4 DEF Solved
<1> QED
  BY <1>1, <1>2, <1>6, <1>7, <1>8

(* An iteration ends: its sweep is recorded.                               *)
LEMMA WorkerEndKeepsIInv ==
    ASSUME IInv, UNCHANGED mainvars, WorkerEnd(0), RecordSweep
    PROVE  IInv'
<1>1. WorkerStep(FALSE, 0) /\ wpc = "sweep" /\ wpc' = "lock"
  BY DEF WorkerStep, WorkerEnd
<1>2. /\ WorkerQueueInv' /\ ClientQueueInv'
      /\ OptimizerTypeOK'
      /\ mpc' = mpc /\ todo' = todo /\ failed' = failed /\ freed' = freed
      /\ levels' = levels
      /\ mpc \notin {"build", "extract", "free", "returned"} /\ ~freed
  BY <1>1, WorkerFrame
<1>3. strokes' = << >>
  BY DEF WorkerEnd, IInv, LifeInv, StrokeDue
<1>4. /\ "Q" \in Fields /\ "O" \in Fields
      /\ sweeps \in [Fields -> [LevelIndices -> 0 .. LevelIterations + 1]]
      /\ opt \in OptType
  BY DEF Fields, IInv, TypeOK, OptimizerTypeOK
<1>5. ASSUME NEW f \in Fields, SweptFields = {f}, Underway(f)
      PROVE  TypeOK'
  <2>1. /\ sweeps' = [sweeps EXCEPT ![f][opt.level] = opt.iters]
        /\ seeded' \in [Fields -> [LevelIndices -> BOOLEAN]]
    BY <1>1, <1>5, SweepIsRecorded
  <2>2. opt.iters \in 0 .. LevelIterations + 1
    BY <1>4 DEF OptType
  <2>3. sweeps' \in [Fields -> [LevelIndices -> 0 .. LevelIterations + 1]]
    BY <1>4, <2>1, <2>2
  <2> QED
    BY <1>2, <2>1, <2>3 DEF IInv, TypeOK
<1>6. ASSUME opt'.running = opt.running
      PROVE  LifeInv'
  BY <1>1, <1>2, <1>3, <1>6 DEF IInv, LifeInv, SolvesAreOver
<1>7. SweepInv'
  BY <1>1 DEF SweepInv
<1>8. CASE /\ opt.optO /\ ~opt.optP /\ Underway("Q") /\ Fresh("O")
           /\ AwaitsOrientation
  <2>1. SweptFields = {"Q"}
    BY <1>8 DEF SweptFields, Fields
  <2>2. /\ opt'.running = opt.running
        /\ \/ Underway("Q")' /\ opt'.optO = opt.optO /\ opt'.optP = opt.optP
           \/ Solved("Q")' /\ ~opt'.optO /\ ~opt'.optP
    BY <1>1, <1>4, <1>8, <2>1, SweepAdvances
  <2>3. Fresh("O")'
    <3>1. sweeps' = [sweeps EXCEPT !["Q"][opt.level] = opt.iters]
      BY <1>1, <1>4, <1>8, <2>1, SweepIsRecorded
    <3>2. sweeps'["O"] = sweeps["O"]
      BY <1>4, <3>1
    <3> QED
      BY <1>8, <3>2 DEF Fresh
  <2>4. PhaseInv'
    BY <1>2, <1>8, <2>2, <2>3
    DEF PhaseInv, AwaitsOrientation, AwaitsPosition, SolvesAreOver
  <2>5. CallInv'
    BY <1>2, <1>8 DEF CallInv, AwaitsOrientation
  <2> QED
    BY <1>2, <1>4, <1>5, <1>6, <1>7, <1>8, <2>1, <2>2, <2>4, <2>5 DEF IInv
<1>9. CASE /\ opt.optP /\ ~opt.optO /\ Underway("O") /\ Solved("Q")
           /\ AwaitsPosition \/ (mpc = "P.call" /\ Len(todo) = 1)
  <2>1. SweptFields = {"O"}
    BY <1>9 DEF SweptFields, Fields
  <2>2. /\ opt'.running = opt.running
        /\ \/ Underway("O")' /\ opt'.optO = opt.optO /\ opt'.optP = opt.optP
           \/ Solved("O")' /\ ~opt'.optO /\ ~opt'.optP
        /\ opt.frozenQ => opt'.frozenQ
    BY <1>1, <1>4, <1>9, <2>1, SweepAdvances
  <2>3. Solved("Q")'
    <3>1. sweeps' = [sweeps EXCEPT !["O"][opt.level] = opt.iters]
      BY <1>1, <1>4, <1>9, <2>1, SweepIsRecorded
    <3>2. sweeps'["Q"] = sweeps["Q"]
      BY <1>4, <3>1
    <3> QED
      BY <1>2, <1>9, <2>2, <3>2 DEF Solved
  <2>4. PhaseInv'
    <3> DEFINE Phase == IF opt'.optP THEN Underway("O")' ELSE Solved("O")'
    <3>0. ~opt'.optO /\ Phase
      BY <1>9, <2>2
    <3> HIDE DEF Phase
    <3>1. CASE AwaitsPosition
      BY <1>2, <2>3, <3>0, <3>1
      DEF Phase, PhaseInv, AwaitsOrientation, AwaitsPosition, SolvesAreOver
    <3>2. CASE mpc = "P.call" /\ Len(todo) = 1
      BY <1>2, <2>3, <3>0, <3>2
      DEF Phase, PhaseInv, AwaitsOrientation, AwaitsPosition, SolvesAreOver
    <3> QED
      BY <1>9, <3>1, <3>2
  <2>5. CallInv'
    BY <1>2, <1>9, LastStoreStays
  <2> QED
    BY <1>2, <1>4, <1>5, <1>6, <1>7, <1>9, <2>1, <2>2, <2>4, <2>5 DEF IInv
<1> QED
  BY <1>1, <1>8, <1>9, OneSolve

-----------------------------------------------------------------------------
(* The theorems.                                                           *)

(* The invariant holds when execute() constructs the Optimizer.            *)
LEMMA InitIInv ==
    ASSUME Init
    PROVE  IInv
<1>1. PICK lv \in LevelCounts, rosy \in Symmetries, posy \in Symmetries :
        OptimizerInit(lv, rosy, posy, "none")
  BY DEF Init
<1>2. lv \in 1 .. MaxLevels /\ rosy \in BOOLEAN /\ posy \in BOOLEAN
  BY LevelCountsAssumption, SymmetriesAssumption
<1>3. MaxLevels \in Nat \ {0} /\ LevelIterations \in Nat \ {0}
  BY MaxLevelsAssumption, LevelIterationsAssumption
<1>4. OptimizerTypeOK
  <2>1. opt \in OptType
    <3>1. -1 \in Levels /\ 0 \in 0 .. LevelIterations + 1
      BY <1>3 DEF Levels
    <3> QED
      BY <1>1, <1>2, <3>1 DEF OptimizerInit, OptType
  <2>2. << >> \in Seq(Threads) /\ << >> \in Seq(StrokeType)
    OBVIOUS
  <2>3. wloc \in [level : Levels, last : BOOLEAN, view : BOOLEAN]
    BY <1>1, <1>3 DEF OptimizerInit, NoLocals, Levels
  <2>4. levels \in 0 .. MaxLevels
    BY <1>1, <1>2, <1>3 DEF OptimizerInit
  <2> QED
    BY <1>1, <2>1, <2>2, <2>3, <2>4 DEF OptimizerInit, OptimizerTypeOK, WorkerPcs
<1>5. TypeOK
  <2>1. sweeps \in [Fields -> [LevelIndices -> 0 .. LevelIterations + 1]]
    BY <1>3 DEF Init
  <2>2. seeded \in [Fields -> [LevelIndices -> BOOLEAN]]
    BY DEF Init
  <2>3. Len(todo) <= 6
    BY DEF Init
  <2> QED
    BY <1>4, <2>1, <2>2, <2>3 DEF Init, TypeOK, MainPcs
<1>6. /\ lockq = << >> /\ wpc = "none" /\ mpc = "build" /\ strokes = << >>
      /\ levels = lv /\ opt.running /\ ~opt.optO /\ ~opt.optP
      /\ asleep = {} /\ ~failed /\ ~freed
  BY <1>1 DEF OptimizerInit, Init
<1>7. Members(lockq) = {}
  BY <1>6 DEF Members
<1>8. WorkerQueueInv
  BY <1>6, <1>7 DEF WorkerQueueInv, Queues
<1>9. ClientQueueInv
  BY <1>6, <1>7 DEF ClientQueueInv
<1>10. LifeInv
  BY <1>2, <1>6 DEF LifeInv
<1>11. CallInv /\ SweepInv
  BY <1>6 DEF CallInv, SweepInv
<1>12. PhaseInv
  <2>1. Fresh("Q") /\ Fresh("O")
    BY DEF Init, Fresh, Fields
  <2> QED
    BY <1>6, <2>1 DEF PhaseInv, Active, AwaitsOrientation, AwaitsPosition, SolvesAreOver
<1> QED
  BY <1>5, <1>8, <1>9, <1>10, <1>11, <1>12 DEF IInv

(* A step that changes at most who is asleep keeps the invariant.          *)
LEMMA WakingKeepsIInv ==
    ASSUME IInv, UNCHANGED <<lockq, opt, levels, strokes, wpc, wloc, mainvars, history>>,
           asleep' \subseteq asleep
    PROVE  IInv'
<1>1. mpc' = mpc /\ todo' = todo /\ failed' = failed /\ freed' = freed
  BY DEF mainvars
<1>2. TypeOK'
  BY <1>1 DEF IInv, TypeOK, OptimizerTypeOK, history
<1>3. WorkerQueueInv'
  BY <1>1 DEF IInv, WorkerQueueInv, Owns
<1>4. ClientQueueInv' /\ LifeInv'
  BY <1>1 DEF IInv, ClientQueueInv, LifeInv, Owns, SolvesAreOver
<1>5. CallInv'
  BY <1>1 DEF IInv, CallInv, StoresLeft, OrientationStores, PositionStores, TargetLevel
<1>6. SweepInv'
  BY <1>1 DEF IInv, SweepInv, Active
<1>7. PhaseInv'
  BY <1>1, SameProgress DEF IInv, PhaseInv, AwaitsOrientation, AwaitsPosition, SolvesAreOver
<1> QED
  BY <1>2, <1>3, <1>4, <1>5, <1>6, <1>7 DEF IInv

(* Every step keeps the invariant. *)
LEMMA NextKeepsIInv ==
    ASSUME IInv, [Next]_vars
    PROVE  IInv'
<1>1. CASE Main
  <2>1. CASE Build
    BY <2>1, BuildKeepsIInv
  <2>2. CASE \E p \in {OrientationCall, PositionCall} : CallStore(p)
    <3>1. CASE CallStore(OrientationCall)
      BY <1>1, <3>1, OrientationStoreKeepsIInv DEF Main
    <3>2. CASE CallStore(PositionCall)
      BY <1>1, <3>2, PositionStoreKeepsIInv DEF Main
    <3> QED
      BY <2>2, <3>1, <3>2
  <2>3. CASE \E p \in {OrientationCall, PositionCall} :
               CallNotify(p) \/ WaitLock(p) \/ WaitSleep(p)
    BY <2>3, ClientWaits
  <2>4. CASE WaitTest(OrientationCall, "filter") \/ WaitTest(PositionCall, "shutdown")
    BY <2>4, ClientWaits, WaitEnds
  <2>5. CASE Filter
    BY <2>5, FilterKeepsIInv
  <2>6. CASE Shutdown \/ ShutdownNotify \/ Join \/ Extract \/ Free
    BY <2>6, EndKeepsIInv
  <2> QED
    BY <1>1, <2>1, <2>2, <2>3, <2>4, <2>5, <2>6 DEF Main
<1>2. CASE Worker
  <2>1. UNCHANGED mainvars
    BY <1>2 DEF Worker
  <2>2. CASE /\ UNCHANGED history
             /\ WorkerLock \/ WorkerTest \/ WorkerSleep \/ WorkerWake \/ WorkerThrow(0)
    BY <2>1, <2>2, WorkerWaitKeepsIInv
  <2>3. CASE UNCHANGED history /\ WorkerBegin(FALSE)
    BY <2>1, <2>3, WorkerBeginKeepsIInv
  <2>4. CASE WorkerEnd(0) /\ RecordSweep
    BY <2>1, <2>4, WorkerEndKeepsIInv
  <2> QED
    BY <1>2, <2>2, <2>3, <2>4 DEF Worker
<1>3. CASE Spurious
  BY <1>3, WakingKeepsIInv DEF Spurious, SpuriousWakeup
<1>4. CASE UNCHANGED vars
  BY <1>4, WakingKeepsIInv DEF vars, optvars
<1> QED
  BY <1>1, <1>2, <1>3, <1>4 DEF Next, Finished

(* The inductive invariant of a remeshing call (retopo_engine.cpp:239-308, *)
(* field.cpp:1488-1704).                                                   *)
THEOREM RetopoInvariance == Spec => []IInv
<1>1. Init => IInv
  BY InitIInv
<1>2. IInv /\ [Next]_vars => IInv'
  BY NextKeepsIInv
<1> QED
  BY <1>1, <1>2, PTL DEF Spec

(* Although the client's stores are not protected by the lock, the worker  *)
(* never iterates on half of a call: an iteration works for exactly one    *)
(* field, hierarchically, at a level that exists (field.cpp:1508-1543),    *)
(* whatever the number of levels and however the threads interleave.       *)
THEOREM IterationsSeeWholeCalls == Spec => []SolveInv
<1>1. IInv => SolveInv
  <2> SUFFICES ASSUME IInv PROVE SolveInv
    OBVIOUS
  <2>1. IterationSeesWholeCall
    BY OneSolve DEF IterationSeesWholeCall, Underway
  <2> QED
    BY <2>1 DEF SolveInv, IInv
<1> QED
  BY <1>1, RetopoInvariance, PTL

(* wait() returns only when the solve is complete: every level was swept   *)
(* levelIterations times from coarse to fine, each level started from the  *)
(* final state of the coarser one, and the integer variables are frozen    *)
(* when the filter or the extraction read them (field.cpp:1586-1674,       *)
(* retopo_engine.cpp:249-276).                                             *)
THEOREM SolvesAreComplete == Spec => []ResultsAreComplete
<1>1. IInv => ResultsAreComplete
  <2> SUFFICES ASSUME IInv PROVE ResultsAreComplete
    OBVIOUS
  <2>1. CoarseToFine
    <3> SUFFICES ASSUME wpc = "sweep", NEW f \in SweptFields, wloc.level < levels - 1
                 PROVE  /\ sweeps[f][wloc.level + 1] = LevelIterations
                        /\ sweeps[f][wloc.level] = 0 => seeded[f][wloc.level]
      BY DEF CoarseToFine
    <3>1. Underway(f)
      BY OneSolve DEF SweptFields
    <3>2. wloc.level = opt.level /\ levels \in Nat
      BY DEF IInv, SweepInv, TypeOK, OptimizerTypeOK
    <3>3. opt.level \in 0 .. levels - 1 /\ opt.level < levels - 1
      BY <3>1, <3>2 DEF Underway
    <3>4. opt.level + 1 \in 0 .. levels - 1 /\ opt.level + 1 > opt.level
      BY <3>2, <3>3
    <3> QED
      BY <3>1, <3>2, <3>3, <3>4 DEF Underway
  <2>2. mpc \in {"filter", "P.call"} => Solved("Q")
    BY DEF IInv, PhaseInv
  <2>3. mpc = "extract" => Solved("Q") /\ Solved("O")
    <3>1. mpc = "extract" => ~failed
      BY DEF IInv, LifeInv
    <3> QED
      BY <3>1 DEF IInv, PhaseInv
  <2> QED
    BY <2>1, <2>2, <2>3 DEF ResultsAreComplete
<1> QED
  BY <1>1, RetopoInvariance, PTL

(* The client works on the hierarchy without the lock only while the       *)
(* worker is not at work, and the hierarchy is freed after the worker is   *)
(* gone (retopo_engine.cpp:254-256, 262-302).                              *)
THEOREM ClientIsAlone == Spec => []ClientHasHierarchyToItself
<1>1. IInv => ClientHasHierarchyToItself
  <2> SUFFICES ASSUME IInv PROVE ClientHasHierarchyToItself
    OBVIOUS
  <2>1. mpc \in {"filter", "extract"} => wpc \notin {"iterate", "sweep"}
    BY OneSolve DEF AwaitsOrientation, AwaitsPosition
  <2>2. mpc \in {"extract", "free"} \/ freed => wpc \in {"none", "exited"}
    BY DEF IInv, LifeInv
  <2> QED
    BY <2>1, <2>2 DEF ClientHasHierarchyToItself
<1> QED
  BY <1>1, RetopoInvariance, PTL
=============================================================================
