----------------------------- MODULE RetopoSolve -----------------------------
(***************************************************************************)
(* RetopoEngine::execute (src/src/retopo_engine.cpp) from the construction *)
(* of the Optimizer to its return: the calling thread (the client) starts  *)
(* the orientation solve, waits, filters singularities, starts the         *)
(* position solve, waits, shuts the worker down and extracts the mesh.     *)
(*                                                                         *)
(* The client writes the members of the Optimizer and notifies WITHOUT     *)
(* holding mRes.mutex(); every store is a step of its own.                 *)
(***************************************************************************)
EXTENDS Optimizer

CONSTANTS
    LevelCounts,        \* how many levels the hierarchy may have
    Symmetries          \* {TRUE}, {FALSE} or both: are rosy and posy implemented?

ASSUME LevelCountsAssumption == LevelCounts \subseteq 1 .. MaxLevels
ASSUME SymmetriesAssumption == Symmetries \subseteq BOOLEAN

VARIABLES
    mpc,                \* where the client is
    todo,               \* the stores left of the current call
    failed,             \* an exception is on its way to execute()'s handler
    freed,              \* mRes.free() was called
    sweeps,             \* how often each level of each field was swept (history)
    seeded              \* whether a level starts from the final state of the
                        \* next coarser one (history)

mainvars == <<mpc, todo, failed, freed>>
history  == <<sweeps, seeded>>
vars == <<optvars, mainvars, history>>

Fields == {"Q", "O"}
LevelIndices == 0 .. MaxLevels - 1

MainPcs == {"build", "O.call", "O.notify", "O.lock", "O.queued", "O.wait", "O.asleep",
            "filter",
            "P.call", "P.notify", "P.lock", "P.queued", "P.wait", "P.asleep",
            "shutdown", "shutdown.notify", "join", "extract", "free", "returned"}

TypeOK ==
    /\ OptimizerTypeOK
    /\ mpc \in MainPcs
    /\ Len(todo) <= 6
    /\ failed \in BOOLEAN
    /\ freed \in BOOLEAN
    /\ sweeps \in [Fields -> [LevelIndices -> 0 .. LevelIterations + 1]]
    /\ seeded \in [Fields -> [LevelIndices -> BOOLEAN]]

Init ==
    /\ \E lv \in LevelCounts, rosy, posy \in Symmetries : OptimizerInit(lv, rosy, posy, "none")
    /\ mpc = "build"
    /\ todo = << >>
    /\ failed = FALSE
    /\ freed = FALSE
    /\ sweeps = [f \in Fields |-> [l \in LevelIndices |-> 0]]
    /\ seeded = [f \in Fields |-> [l \in LevelIndices |-> FALSE]]

-----------------------------------------------------------------------------
(* The calling thread.                                                     *)

(* The places of a call that starts a solve and of the wait() after it.    *)
OrientationCall == [call |-> "O.call", notify |-> "O.notify", lock |-> "O.lock",
                    queued |-> "O.queued", wait |-> "O.wait", asleep |-> "O.asleep"]
PositionCall    == [call |-> "P.call", notify |-> "P.notify", lock |-> "P.lock",
                    queued |-> "P.queued", wait |-> "P.wait", asleep |-> "P.asleep"]

Alive == wpc # "terminated"

(* Everything up to the Optimizer: it may throw (an unsupported symmetry   *)
(* is only noticed here when there are constraints to propagate), and      *)
(* without a mesh execute() returns at once.                               *)
Build ==
    /\ mpc = "build"
    /\ \/ /\ mpc' = "O.call"
          /\ todo' = OrientationStores(-1)
          /\ wpc' = "lock"
          /\ UNCHANGED failed
       \/ /\ mpc' = "free"
          /\ failed' = TRUE
          /\ UNCHANGED <<todo, wpc>>
       \/ /\ mpc' = "returned"
          /\ UNCHANGED <<todo, wpc, failed>>
    /\ UNCHANGED <<lockq, asleep, opt, levels, strokes, wloc, freed, history>>

(* One store of optimizeOrientations(-1) or optimizePositions(-1). *)
CallStore(p) ==
    /\ mpc = p.call
    /\ todo # << >>
    /\ opt' = Store(opt, Head(todo))
    /\ todo' = Tail(todo)
    /\ mpc' = IF Len(todo) = 1 THEN p.notify ELSE mpc
    /\ UNCHANGED <<lockq, asleep, levels, strokes, wpc, wloc, failed, freed, history>>

(* optimizer.notify(), without the lock. *)
CallNotify(p) ==
    /\ mpc = p.notify
    /\ asleep' = {}
    /\ mpc' = p.lock
    /\ UNCHANGED <<lockq, opt, levels, strokes, wpc, wloc, todo, failed, freed, history>>

(* Optimizer::wait() *)
WaitLock(p) ==
    /\ \/ mpc = p.lock
       \/ mpc = p.asleep /\ "client" \notin asleep
    /\ lockq' = Enqueue("client")
    /\ mpc' = p.queued
    /\ UNCHANGED <<asleep, opt, levels, strokes, wpc, wloc, todo, failed, freed, history>>

(* Mutant of WaitTest: the loop of wait() looks at one of the two flags. *)
WaitTestPositionsOnly(p, next) ==
    /\ mpc = p.queued
    /\ Owns("client")
    /\ \/ opt.running /\ opt.optP /\ mpc' = p.wait /\ UNCHANGED lockq
       \/ ~(opt.running /\ opt.optP) /\ mpc' = next /\ lockq' = Tail(lockq)
    /\ UNCHANGED <<asleep, opt, levels, strokes, wpc, wloc, todo, failed, freed, history>>

WaitTest(p, next) ==
    /\ mpc = p.queued
    /\ Owns("client")
    /\ \/ opt.running /\ Active /\ mpc' = p.wait /\ UNCHANGED lockq
       \/ ~(opt.running /\ Active) /\ mpc' = next /\ lockq' = Tail(lockq)
    /\ UNCHANGED <<asleep, opt, levels, strokes, wpc, wloc, todo, failed, freed, history>>

WaitSleep(p) ==
    /\ mpc = p.wait
    /\ lockq' = Tail(lockq)
    /\ asleep' = asleep \cup {"client"}
    /\ mpc' = p.asleep
    /\ UNCHANGED <<opt, levels, strokes, wpc, wloc, todo, failed, freed, history>>

(* SingularityFilter::regularize_singularities: it is skipped or accepts   *)
(* no pair, it freezes the smoothed field again, or it throws.             *)
Filter ==
    /\ mpc = "filter"
    /\ \/ /\ mpc' = "P.call"
          /\ todo' = PositionStores(-1)
          /\ opt' \in {opt, [opt EXCEPT !.frozenQ = TRUE]}
          /\ UNCHANGED failed
       \/ /\ mpc' = "shutdown"
          /\ failed' = TRUE
          /\ UNCHANGED <<todo, opt>>
    /\ UNCHANGED <<lockq, asleep, levels, strokes, wpc, wloc, freed, history>>

(* Optimizer::shutdown(), without the lock. *)
Shutdown ==
    /\ mpc = "shutdown"
    /\ opt' = [opt EXCEPT !.running = FALSE]
    /\ mpc' = "shutdown.notify"
    /\ UNCHANGED <<lockq, asleep, levels, strokes, wpc, wloc, todo, failed, freed, history>>

ShutdownNotify ==
    /\ mpc = "shutdown.notify"
    /\ asleep' = {}
    /\ mpc' = "join"
    /\ UNCHANGED <<lockq, opt, levels, strokes, wpc, wloc, todo, failed, freed, history>>

Join ==
    /\ mpc = "join"
    /\ wpc = "exited"
    /\ mpc' = IF failed THEN "free" ELSE "extract"
    /\ UNCHANGED <<optvars, todo, failed, freed, history>>

(* extract_graph, extract_faces and the quality report; they may throw. *)
Extract ==
    /\ mpc = "extract"
    /\ failed' \in BOOLEAN
    /\ mpc' = "free"
    /\ UNCHANGED <<optvars, todo, freed, history>>

(* mRes.free() on the normal path and in the handler, and the return. *)
Free ==
    /\ mpc = "free"
    /\ freed' = TRUE
    /\ mpc' = "returned"
    /\ UNCHANGED <<optvars, todo, failed, history>>

Main ==
    /\ Alive
    /\ \/ Build
       \/ \E p \in {OrientationCall, PositionCall} :
            CallStore(p) \/ CallNotify(p) \/ WaitLock(p) \/ WaitSleep(p)
       \/ WaitTest(OrientationCall, "filter")
       \/ WaitTest(PositionCall, "shutdown")
       \/ Filter
       \/ Shutdown \/ ShutdownNotify \/ Join
       \/ Extract \/ Free

-----------------------------------------------------------------------------
(* The worker, with the history of its sweeps.                             *)

SweptFields == {f \in Fields : (f = "Q" /\ opt.optO) \/ (f = "O" /\ opt.optP)}

RecordSweep ==
    /\ sweeps' = [f \in Fields |->
         IF f \in SweptFields
         THEN [sweeps[f] EXCEPT ![wloc.level] = IF @ > LevelIterations THEN @ ELSE @ + 1]
         ELSE sweeps[f]]
    /\ seeded' = [f \in Fields |-> [l \in LevelIndices |->
         IF f \notin SweptFields THEN seeded[f][l]
         ELSE IF l \in ProlongedLevels THEN TRUE
         ELSE IF l = wloc.level - 1 THEN FALSE
         ELSE seeded[f][l]]]

Worker ==
    /\ Alive
    /\ \/ /\ WorkerLock \/ WorkerTest \/ WorkerSleep \/ WorkerWake
             \/ WorkerBegin(FALSE) \/ WorkerThrow(0)
          /\ UNCHANGED history
       \/ WorkerEnd(0) /\ RecordSweep
    /\ UNCHANGED mainvars

Spurious == Alive /\ (\E t \in Threads : SpuriousWakeup(t)) /\ UNCHANGED <<mainvars, history>>

(* execute() has returned, or the process is gone. *)
Finished ==
    /\ mpc = "returned" \/ ~Alive
    /\ UNCHANGED vars

Next == Main \/ Worker \/ Spurious \/ Finished

Spec == Init /\ [][Next]_vars

(* Both threads are scheduled; nothing makes a spurious wake-up happen. *)
FairSpec == Spec /\ WF_vars(Main) /\ WF_vars(Worker)

-----------------------------------------------------------------------------
(* A solve is complete when every level was swept LevelIterations times    *)
(* and the integer variables are frozen.                                   *)
Solved(f) ==
    /\ \A l \in 0 .. levels - 1 : sweeps[f][l] = LevelIterations
    /\ IF f = "Q" THEN opt.frozenQ ELSE opt.frozenO

(* Coarse to fine: the first sweep of a level starts from the final state  *)
(* of the next coarser level, which is finished (field.cpp:1586-1674).     *)
CoarseToFine ==
    wpc = "sweep" =>
        \A f \in SweptFields :
            wloc.level < levels - 1 =>
                /\ sweeps[f][wloc.level + 1] = LevelIterations
                /\ sweeps[f][wloc.level] = 0 => seeded[f][wloc.level]

(* Levels are solved from coarse to fine, and wait() returns only after a  *)
(* complete solve: the filter and the position solve find a finished       *)
(* orientation field, and the extraction two finished fields               *)
(* (field.cpp:1586-1674, retopo_engine.cpp:249-276).                       *)
ResultsAreComplete ==
    /\ CoarseToFine
    /\ mpc \in {"filter", "P.call"} => Solved("Q")
    /\ mpc = "extract" => Solved("Q") /\ Solved("O")

(* The worker never acts on half of a call: although the client's stores   *)
(* are not protected by the lock, an iteration works for exactly one       *)
(* field, hierarchically, at a level that exists (field.cpp:1508-1543).    *)
IterationSeesWholeCall ==
    wpc \in {"iterate", "sweep"} =>
        /\ opt.optO # opt.optP
        /\ opt.hier
        /\ opt.level \in 0 .. levels - 1

(* The members of the solver that execute() and the worker share keep      *)
(* their ranges, and no iteration sees half of a call (field.cpp:1508-1704) *)
SolveInv == TypeOK /\ IterationSeesWholeCall

(* The client reads and writes the fields without the lock: the worker is  *)
(* never at work then, and it is gone when the hierarchy is freed          *)
(* (retopo_engine.cpp:254-256, 262-302).                                   *)
ClientHasHierarchyToItself ==
    /\ mpc \in {"filter", "extract"} => wpc \notin {"iterate", "sweep"}
    /\ mpc \in {"extract", "free"} \/ freed => wpc \in {"none", "exited"}

(* The one thing that can keep the two threads apart for ever: the worker  *)
(* fell asleep after the notification that was meant for it.               *)
LostWakeup ==
    /\ "worker" \in asleep
    /\ ~NothingToDo
    /\ mpc \in {"O.asleep", "P.asleep", "join"}

(* execute() returns, unless a wake-up is lost or an exception in the      *)
(* worker ends the process (retopo_engine.cpp:248-266).                    *)
ReturnsUnlessWakeupLost == <>(mpc = "returned" \/ LostWakeup \/ ~Alive)

(* What the tests take for granted: execute() returns. *)
ExecuteReturns == <>(mpc = "returned")

(* What the guard around the solve is for: no exception of the solve ends  *)
(* the process.                                                            *)
NeverTerminates == Alive
=============================================================================
