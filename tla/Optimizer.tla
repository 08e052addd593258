------------------------------ MODULE Optimizer ------------------------------
(***************************************************************************)
(* class Optimizer of src/src/field.h and src/src/field.cpp: the worker    *)
(* thread that smooths the orientation and the position field of the       *)
(* multi-resolution hierarchy, level by level, and the calls by which      *)
(* another thread (the client) starts, redirects and ends it.              *)
(*                                                                         *)
(* This module has the state that the two threads share, the steps of the  *)
(* worker and the pieces of the client's calls.  RetopoSolve composes it   *)
(* with RetopoEngine::execute and ViewerSession with the user interface.   *)
(*                                                                         *)
(* mRes.mutex() is an ordered_lock, modelled by what FifoLock promises:    *)
(* the queue of the threads between lock() and unlock(), whose head is the *)
(* owner.  mCond is a condition_variable_any: waiting on it gives up the   *)
(* lock and falls asleep in one step, a notification wakes who is asleep   *)
(* at that moment, and sleepers may wake up for no reason.                 *)
(***************************************************************************)
EXTENDS Integers, Sequences, FiniteSets

CONSTANTS
    LevelIterations,    \* levelIterations: sweeps per level of a hierarchical solve (6)
    MaxLevels           \* bound on the number of levels of a hierarchy (MAX_DEPTH + 1)

ASSUME LevelIterationsAssumption == LevelIterations \in Nat \ {0}
ASSUME MaxLevelsAssumption == MaxLevels \in Nat \ {0}

Threads == {"worker", "client"}

VARIABLES
    lockq,              \* the queue of mRes.mutex(); its head owns the lock
    asleep,             \* the threads asleep in mCond.wait()
    opt,                \* the members of the Optimizer and the frozen flags of mRes
    levels,             \* mRes.levels()
    strokes,            \* mAttractorStrokes
    wpc,                \* where the worker is in run()
    wloc                \* the locals of an iteration: level, lastIterationAtLevel, updateView

optvars == <<lockq, asleep, opt, levels, strokes, wpc, wloc>>

Levels == -1 .. MaxLevels - 1

OptType ==
    [running : BOOLEAN, optO : BOOLEAN, optP : BOOLEAN, level : Levels,
     iters : 0 .. LevelIterations + 1, hier : BOOLEAN,
     frozenQ : BOOLEAN, frozenO : BOOLEAN, validQ : BOOLEAN, validO : BOOLEAN]

(* A stroke of the singularity attractor: how many faces of its path are   *)
(* left, which mesh the face numbers belong to and whether consecutive     *)
(* faces of the path are neighbours.  Which field it edits does not matter *)
(* here.                                                                   *)
StrokeType == [len : Nat, mesh : Nat, adjacent : BOOLEAN]

(* The values of the locals of run() between two iterations. *)
NoLocals == [level |-> -1, last |-> FALSE, view |-> FALSE]

WorkerPcs == {"none", "lock", "queued", "wait", "asleep", "iterate", "sweep", "exited", "terminated"}

OptimizerTypeOK ==
    /\ lockq \in Seq(Threads)
    /\ asleep \subseteq Threads
    /\ opt \in OptType
    /\ levels \in 0 .. MaxLevels
    /\ strokes \in Seq(StrokeType)
    /\ wpc \in WorkerPcs
    /\ wloc \in [level : Levels, last : BOOLEAN, view : BOOLEAN]

(* Optimizer::Optimizer for a hierarchy of lv levels.  validQ and validO    *)
(* say whether the solver implements the requested rotational and          *)
(* positional symmetry.                                                    *)
OptimizerInit(lv, validQ, validO, pc) ==
    /\ lockq = << >>
    /\ asleep = {}
    /\ opt = [running |-> TRUE, optO |-> FALSE, optP |-> FALSE, level |-> -1,
              iters |-> 0, hier |-> FALSE, frozenQ |-> FALSE, frozenO |-> FALSE,
              validQ |-> validQ, validO |-> validO]
    /\ levels = lv
    /\ strokes = << >>
    /\ wpc = pc
    /\ wloc = NoLocals

-----------------------------------------------------------------------------
(* The members and calls the client and the worker both use.               *)

(* Optimizer::active() *)
Active == opt.optO \/ opt.optP

Owns(t) == lockq # << >> /\ Head(lockq) = t

(* Mutant of Enqueue: an unfair lock, the worker overtakes a client that    *)
(* has not noticed its turn yet.                                           *)
EnqueueUnfairly(t) ==
    IF t = "worker" /\ lockq = << "client" >> THEN << "worker", "client" >> ELSE Append(lockq, t)

(* Entering lock(): the caller takes its place in the queue. *)
Enqueue(t) == Append(lockq, t)

(* stop() clears both flags ... *)
Stopped(o) == [o EXCEPT !.optO = FALSE, !.optP = FALSE]

(* Mutant of AsleepAfterStop: stop() does not notify. *)
AsleepAfterSilentStop == asleep

(* ... and notifies: who is asleep after it. *)
AsleepAfterStop == {}

(* Where optimizeOrientations(lv) and optimizePositions(lv) start. *)
TargetLevel(lv) == IF lv >= 0 THEN lv ELSE levels - 1

(* Mutant of OrientationStores: the solve is switched on first. *)
OrientationStoresFlagFirst(lv) ==
    << <<"optP", FALSE>>, <<"optO", TRUE>>,
       <<"level", TargetLevel(lv)>>, <<"hier", lv < 0>> >>
    \o (IF lv # 0 THEN << <<"frozenQ", FALSE>> >> ELSE << >>)
    \o << <<"iters", 0>> >>

(* The stores of optimizeOrientations(lv), in program order: pairs of a    *)
(* member and its new value.                                               *)
OrientationStores(lv) ==
    << <<"level", TargetLevel(lv)>>, <<"hier", lv < 0>> >>
    \o (IF lv # 0 THEN << <<"frozenQ", FALSE>> >> ELSE << >>)
    \o << <<"iters", 0>>, <<"optP", FALSE>>, <<"optO", TRUE>> >>

(* The stores of optimizePositions(lv). *)
PositionStores(lv) ==
    << <<"level", TargetLevel(lv)>>, <<"hier", lv < 0>> >>
    \o (IF lv # 0 THEN << <<"frozenO", FALSE>> >> ELSE << >>)
    \o << <<"iters", 0>>, <<"optP", TRUE>>, <<"optO", FALSE>> >>

Store(o, s) == [o EXCEPT ![s[1]] = s[2]]

(* All of them at once, for a caller that holds the lock. *)
StoreAll(o, stores) ==
    LET after[i \in 0 .. Len(stores)] ==
            IF i = 0 THEN o ELSE Store(after[i - 1], stores[i])
    IN after[Len(stores)]

-----------------------------------------------------------------------------
(* Optimizer::run(), the worker's loop.                                    *)

WorkerLock ==
    /\ wpc = "lock"
    /\ lockq' = Enqueue("worker")
    /\ wpc' = "queued"
    /\ UNCHANGED <<asleep, opt, levels, strokes, wloc>>

(* The predicate of the wait. *)
NothingToDo == opt.running /\ (levels = 0 \/ ~Active)

(* The lock is acquired, the predicate is evaluated, and the worker is     *)
(* about to wait, about to iterate, or about to return.                    *)
WorkerTest ==
    /\ wpc = "queued"
    /\ Owns("worker")
    /\ \/ NothingToDo /\ wpc' = "wait" /\ UNCHANGED lockq
       \/ opt.running /\ ~NothingToDo /\ wpc' = "iterate" /\ UNCHANGED lockq
       \/ ~opt.running /\ wpc' = "exited" /\ lockq' = Tail(lockq)
    /\ UNCHANGED <<asleep, opt, levels, strokes, wloc>>

(* mCond.wait(): release the lock and fall asleep. *)
WorkerSleep ==
    /\ wpc = "wait"
    /\ lockq' = Tail(lockq)
    /\ asleep' = asleep \cup {"worker"}
    /\ wpc' = "asleep"
    /\ UNCHANGED <<opt, levels, strokes, wloc>>

(* A notified worker asks for the lock again. *)
WorkerWake ==
    /\ wpc = "asleep"
    /\ "worker" \notin asleep
    /\ lockq' = Enqueue("worker")
    /\ wpc' = "queued"
    /\ UNCHANGED <<asleep, opt, levels, strokes, wloc>>

(* Mutant of LastIterationAtLevel: ">" for ">=". *)
LastIterationMissed(n) == opt.hier /\ n > LevelIterations

(* The local lastIterationAtLevel. *)
LastIterationAtLevel(n) == opt.hier /\ n >= LevelIterations

(* The first half of an iteration: the locals are computed.  The counter   *)
(* mLevelIterations only ever meets levelIterations in a ">=", so it is    *)
(* capped one above it.  The view is updated in every iteration that is    *)
(* not hierarchical, and now and then in the others if the optimizer is    *)
(* interactive.                                                            *)
WorkerBegin(interactive) ==
    /\ wpc = "iterate"
    /\ \E slow \in (IF interactive THEN BOOLEAN ELSE {FALSE}) :
         LET n == opt.iters + 1
         IN /\ opt' = [opt EXCEPT !.iters = IF n > LevelIterations THEN LevelIterations + 1 ELSE n]
            /\ wloc' = [level |-> opt.level, last |-> LastIterationAtLevel(n),
                        view |-> slow \/ ~opt.hier]
    /\ wpc' = "sweep"
    /\ UNCHANGED <<lockq, asleep, levels, strokes>>

(* The levels below wloc.level that receive the prolonged solution. *)
ProlongedLevels ==
    IF wloc.level > 0 /\ (wloc.last \/ wloc.view)
    THEN IF wloc.view THEN 0 .. wloc.level - 1 ELSE {wloc.level - 1}
    ELSE {}

(* The end of a level: go to the next finer one; below level 0 freeze the  *)
(* integer variables and stop.                                             *)
LevelDone == opt.hier /\ opt.iters >= LevelIterations

AfterLevel ==
    IF ~LevelDone THEN opt
    ELSE LET next == [opt EXCEPT !.level = @ - 1, !.iters = 0]
         IN IF next.level >= 0 THEN next
            ELSE Stopped([next EXCEPT !.frozenQ = @ \/ opt.optO, !.frozenO = @ \/ opt.optP])

StopsItself == LevelDone /\ opt.level - 1 < 0

(* One segment of the last attractor stroke is applied at level 0.  The    *)
(* face numbers of a stroke drawn on another mesh, or whose path is not    *)
(* connected, make the move throw.                                         *)
StrokeDue(o) == strokes # << >> /\ o.level = 0

StrokeOutcomes(mesh) ==
    LET s == strokes[Len(strokes)]
    IN IF s.len < 2 THEN {"drop"}
       ELSE IF s.mesh # mesh \/ ~s.adjacent THEN {"drop", "shorten", "throw"}
       ELSE {"drop", "shorten"}

StrokesAfter(outcome) ==
    IF outcome = "shorten" THEN [strokes EXCEPT ![Len(strokes)].len = @ - 1]
    ELSE SubSeq(strokes, 1, Len(strokes) - 1)

(* The sweep of an unknown symmetry throws. *)
SweepImplemented == (opt.optO => opt.validQ) /\ (opt.optP => opt.validO)

(* The second half of an iteration, which ends with the release of the     *)
(* lock: the sweep itself and its prolongation, the change of level, and   *)
(* one step of an attractor stroke.  stop() notifies.  An exception leaves *)
(* run() and with it the program: std::terminate().                        *)
WorkerEnd(mesh) ==
    /\ wpc = "sweep"
    /\ SweepImplemented
    /\ asleep' = IF StopsItself THEN AsleepAfterStop ELSE asleep
    /\ \/ /\ ~StrokeDue(AfterLevel)
          /\ opt' = AfterLevel
          /\ UNCHANGED strokes
          /\ wpc' = "lock"
          /\ lockq' = Tail(lockq)
       \/ /\ StrokeDue(AfterLevel)
          /\ \E outcome \in StrokeOutcomes(mesh) \ {"throw"} :
               /\ strokes' = StrokesAfter(outcome)
               /\ opt' = IF strokes' = << >>
                         THEN [AfterLevel EXCEPT !.hier = TRUE, !.iters = 0]
                         ELSE AfterLevel
          /\ wpc' = "lock"
          /\ lockq' = Tail(lockq)
    /\ wloc' = NoLocals
    /\ UNCHANGED levels

WorkerThrow(mesh) ==
    /\ wpc = "sweep"
    /\ \/ ~SweepImplemented
       \/ StrokeDue(AfterLevel) /\ "throw" \in StrokeOutcomes(mesh)
    /\ wpc' = "terminated"
    /\ UNCHANGED <<lockq, asleep, opt, levels, strokes, wloc>>

(* A thread asleep on the condition variable wakes up for no reason. *)
SpuriousWakeup(t) ==
    /\ t \in asleep
    /\ asleep' = asleep \ {t}
    /\ UNCHANGED <<lockq, opt, levels, strokes, wpc, wloc>>
=============================================================================
