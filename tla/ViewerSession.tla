---------------------------- MODULE ViewerSession ----------------------------
(***************************************************************************)
(* class Viewer of src/src/viewer.cpp as a client of the Optimizer: a      *)
(* person loads meshes, moves between the levels of the hierarchy, starts  *)
(* and stops solves, draws strokes and closes the window, while the worker *)
(* thread smooths the fields.                                              *)
(*                                                                         *)
(* The thread of the user interface runs one handler at a time.  A handler *)
(* is a sequence of operations, "prog"; an operation marked locked runs    *)
(* while the thread holds mRes.mutex(), the others run whatever the worker *)
(* does.  What a locked operation changes becomes visible at once.         *)
(***************************************************************************)
EXTENDS Optimizer

CONSTANTS
    MaxStrokes,         \* bound on the number of pending attractor strokes
    MaxEvents,          \* bound on the number of events between saving and restoring
    StrokeLengths,      \* how many faces an attractor stroke may visit
    Sessions,           \* what a session uses: tools, numbers of meshes and levels
    FourFold            \* the symmetries that are used: is rosy = posy = 4?

ASSUME SessionAssumption ==
    /\ MaxStrokes \in Nat /\ MaxEvents \in Nat
    /\ StrokeLengths \subseteq Nat \ {0, 1}
    /\ Sessions \subseteq [tools : SUBSET {"edge", "comb", "attractO", "attractP"},
                           meshes : Nat, levels : 1 .. MaxLevels, saves : BOOLEAN]
    /\ FourFold \subseteq BOOLEAN

VARIABLES
    ui,                 \* the widgets and members of the Viewer
    prog,               \* the operations left of the handler that runs now
    gpc,                \* whether the interface runs, waits for the lock, is deaf or gone
    built,              \* the hierarchy is complete
    file,               \* the saved session, or NoFile
    restored            \* a session has been restored (not in the code)

filevars == <<file, restored>>
guivars == <<ui, prog, gpc, built, filevars>>
vars == <<optvars, guivars>>

AllTools == UNION {s.tools : s \in Sessions}

UiType ==
    [btnO : BOOLEAN, btnP : BOOLEAN,            \* mSolve*Btn->pushed()
     enabledP : BOOLEAN,                        \* mSolvePositionBtn->enabled()
     attractors : SUBSET AllTools,              \* the enabled attractors
     tool : AllTools \cup {"none"},             \* the pushed tool button
     cont : BOOLEAN,                            \* mContinueWithPositions
     sel : Levels,                              \* mSelectedLevel
     rosy4 : BOOLEAN,                           \* rosy = posy = 4
     mesh : Nat,                                \* which mesh is loaded
     session : Sessions]                        \* (not in the code)

NoFile == << >>

TypeOK ==
    /\ OptimizerTypeOK
    /\ ui \in UiType
    /\ file # NoFile => file \in [ui : UiType, opt : OptType, levels : 0 .. MaxLevels,
                                  events : 0 .. MaxEvents]
    /\ restored \in BOOLEAN
    /\ gpc \in {"run", "queued", "deaf", "gone"}
    /\ built \in BOOLEAN
    /\ Len(strokes) <= MaxStrokes

Init ==
    /\ OptimizerInit(0, TRUE, TRUE, "lock")
    /\ \E session \in Sessions :
       ui = [btnO |-> FALSE, btnP |-> FALSE, enabledP |-> FALSE, attractors |-> {},
             tool |-> "none", cont |-> FALSE, sel |-> -1, rosy4 |-> TRUE, mesh |-> 0, session |-> session]
    /\ prog = << >>
    /\ gpc = "run"
    /\ built = FALSE
    /\ file = NoFile
    /\ restored = FALSE

-----------------------------------------------------------------------------
(* Operations.                                                             *)

(* An operation, the switch it is called with and the level it is given. *)
Op(name) == [do |-> name, locked |-> FALSE, on |-> FALSE, to |-> -1]
LockedOp(name) == [Op(name) EXCEPT !.locked = TRUE]
Switch(name, on) == [LockedOp(name) EXCEPT !.on = on]

(* Viewer::setLevel *)
SetLevel(l) == << [Op("select") EXCEPT !.to = l], [LockedOp("level") EXCEPT !.to = l] >>

(* Viewer::resetState *)
ResetState(hasData) ==
    << LockedOp("stop"), Op("reset") >>
    \o (IF hasData THEN << LockedOp("rescale") >> ELSE << >>)
    \o SetLevel(-1)

(* Viewer::loadInput, from the point where the file has been read; the     *)
(* last operation is the setTargetScale that follows resetState().         *)
LoadInput ==
    << LockedOp("stop"), Op("free"), Op("fill"), LockedOp("rescale"), Op("build") >>
    \o ResetState(TRUE) \o << Op("rosy"), LockedOp("retarget") >>

Alive == wpc # "terminated"
Loaded == ui.mesh > 0
Idle == Alive /\ gpc = "run" /\ prog = << >>

(* The interface asks for the lock ... *)
Request ==
    /\ Alive
    /\ gpc = "run" /\ prog # << >> /\ Head(prog).locked
    /\ lockq' = Enqueue("client")
    /\ gpc' = "queued"
    /\ UNCHANGED <<asleep, opt, levels, strokes, wpc, wloc, ui, prog, built>>

(* ... gets it, runs the operation and releases it. *)
Turn(name) ==
    /\ Alive
    /\ gpc = "queued" /\ Owns("client") /\ Head(prog).do = name
    /\ lockq' = Tail(lockq)
    /\ gpc' = "run"
    /\ prog' = Tail(prog)
    /\ UNCHANGED <<wpc, wloc>>

(* An operation that does not take the lock. *)
Unlocked(name) ==
    /\ Alive
    /\ gpc = "run" /\ prog # << >> /\ Head(prog).do = name
    /\ prog' = Tail(prog)
    /\ UNCHANGED <<lockq, wpc, wloc>>

On == Head(prog).on
To == Head(prog).to

(* An attractor is enabled by a solve with four-fold symmetry. *)
Enabled(attractor) ==
    IF ui.rosy4 THEN ui.attractors \cup ({attractor} \cap ui.session.tools) ELSE ui.attractors \ {attractor}

(* Mutant of SolveOrientation: the worker is not notified of a new solve. *)
SolveOrientationSilently ==
    /\ Turn("solveO")
    /\ \/ /\ On
          /\ opt' = StoreAll(opt, OrientationStores(ui.sel))
          /\ ui' = [ui EXCEPT !.btnP = FALSE, !.enabledP = TRUE,
                              !.attractors = Enabled("attractO")]
          /\ UNCHANGED asleep
       \/ /\ ~On
          /\ opt' = Stopped(opt)
          /\ asleep' = AsleepAfterStop
          /\ UNCHANGED ui
    /\ UNCHANGED <<levels, strokes, built>>

(* The change callback of the orientation solve button. *)
SolveOrientation ==
    /\ Turn("solveO")
    /\ \/ /\ On
          /\ opt' = StoreAll(opt, OrientationStores(ui.sel))
          /\ ui' = [ui EXCEPT !.btnP = FALSE, !.enabledP = TRUE,
                              !.attractors = Enabled("attractO")]
       \/ /\ ~On
          /\ opt' = Stopped(opt)
          /\ UNCHANGED ui
    /\ asleep' = {}
    /\ UNCHANGED <<levels, strokes, built>>

(* The change callback of the position solve button. *)
SolvePosition ==
    /\ Turn("solveP")
    /\ \/ /\ On
          /\ opt' = StoreAll(opt, PositionStores(ui.sel))
          /\ ui' = [ui EXCEPT !.btnO = FALSE,
                              !.attractors = Enabled("attractP")]
       \/ /\ ~On
          /\ opt' = Stopped(opt)
          /\ UNCHANGED ui
    /\ asleep' = {}
    /\ UNCHANGED <<levels, strokes, built>>

(* mOptimizer.stop() in loadInput() and resetState() *)
Stop ==
    /\ Turn("stop")
    /\ opt' = Stopped(opt)
    /\ asleep' = AsleepAfterStop
    /\ UNCHANGED <<levels, strokes, ui, built>>

(* The two halves of setLevel(). *)
Select ==
    /\ Unlocked("select")
    /\ ui' = [ui EXCEPT !.sel = To]
    /\ UNCHANGED <<asleep, opt, levels, strokes, gpc, built>>

(* Mutant of ChangeLevel: "automatic" does not stop the solve. *)
ChangeLevelAndGoOn ==
    /\ Turn("level")
    /\ opt' = [opt EXCEPT !.level = To]
    /\ UNCHANGED <<asleep, levels, strokes, ui, built>>

ChangeLevel ==
    /\ Turn("level")
    /\ \/ /\ To = -1
          /\ opt' = Stopped([opt EXCEPT !.level = To])
          /\ asleep' = AsleepAfterStop
       \/ /\ To # -1
          /\ opt' = [opt EXCEPT !.level = To]
          /\ UNCHANGED asleep
    /\ UNCHANGED <<levels, strokes, ui, built>>

(* moveSingularity(): a stroke along "len" faces of the loaded mesh, whose *)
(* curve may have been too irregular for smooth_curve() to connect.        *)
MoveSingularity ==
    /\ Turn("moveSingularity")
    /\ \E len \in StrokeLengths, adjacent \in BOOLEAN :
         strokes' = Append(strokes, [len |-> len, mesh |-> ui.mesh,
                                     adjacent |-> adjacent])
    /\ opt' = [opt EXCEPT !.level = 0]
    /\ UNCHANGED <<asleep, levels, ui, built>>

(* The symmetry box: stop, and start again from a random solution. *)
ChangeSymmetry ==
    /\ Turn("symmetry")
    /\ opt' = [Stopped(opt) EXCEPT !.frozenQ = FALSE, !.frozenO = FALSE]
    /\ asleep' = AsleepAfterStop
    /\ ui' = [ui EXCEPT !.rosy4 = On, !.enabledP = FALSE, !.attractors = @ \ {"attractO"}]
    /\ UNCHANGED <<levels, strokes, built>>

(* setSymmetry() in loadInput(), with the symmetries it was asked for. *)
SetSymmetry ==
    /\ Unlocked("rosy")
    /\ \E rosy4 \in FourFold : ui' = [ui EXCEPT !.rosy4 = rosy4, !.attractors = {}]
    /\ UNCHANGED <<asleep, opt, levels, strokes, gpc, built>>

(* setTargetScale(), setTargetVertexCount() and the adaptivity slider set  *)
(* the scale of the output under the lock.                                 *)
Rescale ==
    /\ Turn("rescale") \/ Turn("retarget")
    /\ UNCHANGED <<asleep, opt, levels, strokes, ui, built>>

(* SingularityFilter::regularize_singularities, which freezes the field    *)
(* again when it cancelled a pair.                                         *)
Filter ==
    /\ Turn("filter")
    /\ opt' \in {opt, [opt EXCEPT !.frozenQ = TRUE]}
    /\ UNCHANGED <<asleep, levels, strokes, ui, built>>

(* setPushed(true) before the callback of a button is called. *)
PushOrientation ==
    /\ Unlocked("pushO")
    /\ ui' = [ui EXCEPT !.btnO = TRUE]
    /\ UNCHANGED <<asleep, opt, levels, strokes, gpc, built>>

PushPosition ==
    /\ Unlocked("pushP")
    /\ ui' = [ui EXCEPT !.btnP = TRUE]
    /\ UNCHANGED <<asleep, opt, levels, strokes, gpc, built>>

(* What follows the callback in drawContents(). *)
ClearContinue ==
    /\ Unlocked("clearCont")
    /\ ui' = [ui EXCEPT !.cont = FALSE]
    /\ UNCHANGED <<asleep, opt, levels, strokes, gpc, built>>

PopPosition ==
    /\ Unlocked("popP")
    /\ ui' = [ui EXCEPT !.btnP = FALSE]
    /\ UNCHANGED <<asleep, opt, levels, strokes, gpc, built>>

(* The unlocked part of loadInput(): the old hierarchy is freed, level 0   *)
(* is set, and the levels above it are built with a random solution.       *)
FreeHierarchy ==
    /\ Unlocked("free")
    /\ levels' = 0
    /\ built' = FALSE
    /\ UNCHANGED <<asleep, opt, strokes, ui, gpc>>

FillLevelZero ==
    /\ Unlocked("fill")
    /\ levels' = 1
    /\ UNCHANGED <<asleep, opt, strokes, ui, gpc, built>>

BuildHierarchy ==
    /\ Unlocked("build")
    /\ levels' \in 1 .. ui.session.levels
    /\ built' = TRUE
    /\ opt' = [opt EXCEPT !.frozenQ = FALSE, !.frozenO = FALSE]
    /\ ui' = [ui EXCEPT !.mesh = @ + 1]
    /\ UNCHANGED <<asleep, strokes, gpc>>

(* An exception on the way leaves mProcessEvents false: the window never   *)
(* handles an event again.                                                 *)
LoadFails ==
    /\ Alive
    /\ gpc = "run" /\ prog # << >> /\ Head(prog).do \in {"free", "fill", "build"}
    /\ prog' = << >>
    /\ gpc' = "deaf"
    /\ UNCHANGED <<optvars, ui, built>>

(* The unlocked part of resetState(). *)
Reset ==
    /\ Unlocked("reset")
    /\ ui' = [ui EXCEPT !.btnO = FALSE, !.btnP = FALSE, !.enabledP = FALSE, !.attractors = {},
                        !.tool = "none", !.sel = -1, !.rosy4 = TRUE, !.cont = FALSE]
    /\ UNCHANGED <<asleep, opt, levels, strokes, gpc, built>>

(* ~Viewer(): Optimizer::shutdown() without the lock. *)
StopRunning ==
    /\ Unlocked("running")
    /\ opt' = [opt EXCEPT !.running = FALSE]
    /\ UNCHANGED <<asleep, levels, strokes, ui, gpc, built>>

NotifyExit ==
    /\ Unlocked("notify")
    /\ asleep' = {}
    /\ UNCHANGED <<opt, levels, strokes, ui, gpc, built>>

JoinWorker ==
    /\ Unlocked("join")
    /\ wpc = "exited"
    /\ gpc' = "gone"
    /\ levels' = 0
    /\ built' = FALSE
    /\ UNCHANGED <<asleep, opt, strokes, ui>>

(* Viewer::saveState: the widgets, the members of the solver and the whole *)
(* hierarchy go to a file.                                                 *)
SaveState ==
    /\ Turn("save")
    /\ file' = [ui |-> [ui EXCEPT !.cont = FALSE], opt |-> opt, levels |-> levels,
               events |-> MaxEvents]
    /\ UNCHANGED <<asleep, opt, levels, strokes, ui, built, restored>>

(* Viewer::loadState with a file that saveState wrote: everything is       *)
(* replaced under the lock, but mContinueWithPositions and the pending     *)
(* strokes stay as they are, and nobody is notified.                       *)
LoadState ==
    /\ Turn("restore")
    /\ ui' = [file.ui EXCEPT !.cont = ui.cont]
    /\ opt' = file.opt
    /\ levels' = file.levels
    /\ built' = (file.levels > 0)
    /\ restored' = TRUE
    /\ file' = NoFile
    /\ UNCHANGED <<asleep, strokes>>

(* A file that cannot be read leaves everything as it is.                  *)
LoadStateFails ==
    /\ Turn("restore")
    /\ UNCHANGED <<asleep, opt, levels, strokes, ui, built, filevars>>

Handler ==
    \/ /\ \/ Request
          \/ SolveOrientation \/ SolvePosition \/ Stop \/ ChangeLevel \/ MoveSingularity
          \/ ChangeSymmetry \/ SetSymmetry \/ Rescale \/ Filter
          \/ Select \/ PushOrientation \/ PushPosition \/ ClearContinue \/ PopPosition
          \/ FreeHierarchy \/ FillLevelZero \/ BuildHierarchy \/ LoadFails \/ Reset
          \/ StopRunning \/ NotifyExit \/ JoinWorker
       /\ UNCHANGED filevars
    \/ SaveState \/ LoadState \/ LoadStateFails

-----------------------------------------------------------------------------
(* Events: what starts a handler.                                          *)

Begin(ops, newui) ==
    /\ Idle
    /\ prog' = ops
    /\ ui' = newui
    /\ UNCHANGED <<optvars, gpc, built>>

ClickSolveOrientation ==
    Loaded /\ Begin(<< Switch("solveO", ~ui.btnO) >>, [ui EXCEPT !.btnO = ~@])

ClickSolvePosition ==
    ui.enabledP /\ Begin(<< Switch("solveP", ~ui.btnP) >>, [ui EXCEPT !.btnP = ~@])

Brushes == ui.session.tools \cap {"edge", "comb"}
Attractors == {"attractO", "attractP"}

(* The tools are radio buttons that can also be switched off: leaving an   *)
(* attractor selects the automatic level.                                  *)
ChooseTool ==
    /\ Loaded
    /\ \E tool \in ({"none"} \cup Brushes \cup ui.attractors) \ {ui.tool} :
         /\ tool = "none" => ui.tool \in Brushes \cup ui.attractors
         /\ Begin(IF ui.tool \in Attractors THEN SetLevel(-1) ELSE << >>,
                  [ui EXCEPT !.tool = tool])

LargerOf(a, b) == IF a > b THEN a ELSE b
SmallerOf(a, b) == IF a < b THEN a ELSE b

(* The minus and plus buttons of the hierarchy level. *)
ClickLevel ==
    /\ Loaded
    /\ \E l \in {LargerOf(-1, ui.sel - 1), SmallerOf(levels - 1, ui.sel + 1)} :
         Begin(SetLevel(l), ui)

(* A stroke of the comb or the edge brush is drawn or erased.  The         *)
(* constraints are rewritten without the lock.                             *)
BrushStroke ==
    /\ ui.tool \in Brushes
    /\ Begin(<< Switch("solveO", TRUE) >>,
             [ui EXCEPT !.cont = (ui.tool = "edge"), !.btnO = TRUE])

(* A stroke of an attractor: level 0, a solve, and the stroke itself.      *)
AttractorStroke ==
    /\ ui.tool \in Attractors
    /\ Len(strokes) < MaxStrokes
    /\ LET orientation == ui.tool = "attractO"
       IN Begin(SetLevel(0) \o << Op(IF orientation THEN "pushO" ELSE "pushP"),
                                  Switch(IF orientation THEN "solveO" ELSE "solveP", TRUE),
                                  LockedOp("moveSingularity") >>, ui)

ChooseSymmetry ==
    Loaded /\ \E rosy4 \in FourFold : Begin(<< Switch("symmetry", rosy4) >>, ui)

Load == ui.mesh < ui.session.meshes /\ Begin(LoadInput, ui)

ClickReset == Begin(ResetState(Loaded), ui)

(* The window can also be closed when it handles no other event any more. *)
Exit ==
    /\ Alive /\ gpc \in {"run", "deaf"} /\ prog = << >>
    /\ gpc' = "run"
    /\ prog' = << Op("running"), Op("notify"), Op("join") >>
    /\ UNCHANGED <<optvars, ui, built>>

(* A session is saved at most once and restored at most once, soon after.  *)
ClickSaveState == ui.session.saves /\ file = NoFile /\ ~restored /\ Begin(<< LockedOp("save") >>, ui)

ClickLoadState == file # NoFile /\ Begin(<< LockedOp("restore") >>, ui)

(* Mutant of Draw: only the position solve is asked for. *)
DrawHalf ==
    /\ ~opt.optP
    /\ ui.btnO \/ ui.btnP
    /\ \E filter \in (IF ui.btnO /\ ui.rosy4 THEN BOOLEAN ELSE {FALSE}) :
         Begin((IF filter THEN << LockedOp("filter") >> ELSE << >>)
               \o (IF ui.btnO /\ ui.cont
                   THEN << Op("pushP"), Switch("solveP", TRUE), Op("clearCont") >>
                   ELSE << >>)
               \o << Op("popP") >>,
               [ui EXCEPT !.btnO = FALSE])

(* drawContents(): once the worker is done, the buttons are released, the  *)
(* singularities are filtered and the position solve may follow.           *)
Draw ==
    /\ ~Active
    /\ ui.btnO \/ ui.btnP
    /\ \E filter \in (IF ui.btnO /\ ui.rosy4 THEN BOOLEAN ELSE {FALSE}) :
         Begin((IF filter THEN << LockedOp("filter") >> ELSE << >>)
               \o (IF ui.btnO /\ ui.cont
                   THEN << Op("pushP"), Switch("solveP", TRUE), Op("clearCont") >>
                   ELSE << >>)
               \o << Op("popP") >>,
               [ui EXCEPT !.btnO = FALSE])

Event ==
    \/ /\ \/ ClickSolveOrientation \/ ClickSolvePosition \/ ChooseTool \/ ClickLevel
          \/ BrushStroke \/ AttractorStroke \/ ChooseSymmetry \/ Load \/ ClickReset
          \/ Exit
       /\ \/ file = NoFile /\ UNCHANGED file
          \/ file # NoFile /\ file.events > 0 /\ file' = [file EXCEPT !.events = @ - 1]
       /\ UNCHANGED restored
    \/ (ClickSaveState \/ ClickLoadState) /\ UNCHANGED filevars

Worker ==
    /\ Alive
    /\ \/ WorkerLock \/ WorkerTest \/ WorkerSleep \/ WorkerWake
       \/ WorkerBegin(TRUE) \/ WorkerEnd(ui.mesh) \/ WorkerThrow(ui.mesh)
    /\ UNCHANGED guivars

Spurious == Alive /\ SpuriousWakeup("worker") /\ UNCHANGED guivars

Finished ==
    /\ gpc = "gone" \/ ~Alive
    /\ UNCHANGED vars

Next == Handler \/ Event \/ (Draw /\ UNCHANGED filevars) \/ Worker \/ Spurious \/ Finished

Spec == Init /\ [][Next]_vars

(* Handlers run to their end, the window is redrawn, the worker is         *)
(* scheduled; nobody has to click anything.                                *)
FairSpec == Spec /\ WF_vars(Handler) /\ WF_vars(Draw /\ UNCHANGED filevars) /\ WF_vars(Worker)

-----------------------------------------------------------------------------
(* While the hierarchy is torn down and rebuilt without the lock the       *)
(* worker stays away from it, and whenever it iterates it has a complete   *)
(* hierarchy, one field to work on and a level that exists, whatever was   *)
(* clicked before (viewer.cpp:774-786, 3197-3306).                         *)
WorkerHasWholeHierarchy ==
    wpc \in {"iterate", "sweep"} =>
        /\ built
        /\ opt.level \in 0 .. levels - 1
        /\ opt.optO # opt.optP

(* The worker never sweeps a missing level or a half-built hierarchy, and  *)
(* the selected level stays in range (viewer.cpp:774-786, 3197-3306).      *)
SessionInv == TypeOK /\ WorkerHasWholeHierarchy

(* Between two handlers the pushed orientation button shows that an        *)
(* orientation solve runs: it cannot be started twice, and its end is      *)
(* noticed (viewer.cpp:489-510, 2413-2434).                                *)
OrientationSolveIsShown == prog = << >> /\ opt.optO => ui.btnO

(* A solve that was running when the session was saved is restored while   *)
(* the worker sleeps: nobody wakes it.                                     *)
RestoredAsleep == restored /\ Active /\ "worker" \in asleep

(* A solve that was switched on is served: the worker gets to a sweep, or  *)
(* the solve or the program is switched off (viewer.cpp:509, 582).  Only a *)
(* restored solve may have to wait for the next notification               *)
(* (viewer.cpp:2157-2159).                                                 *)
SolveIsServed ==
    Active ~> (wpc = "sweep" \/ ~Active \/ ~opt.running \/ ~Alive \/ RestoredAsleep)

(* The worker fell asleep after the notification of the exit. *)
LostWakeup == "worker" \in asleep /\ ~opt.running /\ prog = << Op("join") >>

(* The interface does not freeze: every handler ends although the worker   *)
(* asks for the lock again right after it released it.  The exit may miss  *)
(* its wake-up (common.h:255-273, viewer.cpp:697-701).                     *)
HandlersEnd == (prog # << >>) ~> (prog = << >> \/ LostWakeup \/ ~Alive)

(* "Any current edits will be lost" when the mesh is loaded again: no      *)
(* stroke that was drawn on another mesh is applied to this one            *)
(* (viewer.cpp:856, 877-878).                                              *)
NoEditSurvivesLoad ==
    prog = << >> => \A i \in DOMAIN strokes : strokes[i].mesh = ui.mesh
=============================================================================
