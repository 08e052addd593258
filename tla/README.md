# Formal model of Instant Meshes 2026

This directory holds TLA+ modules, TLC configurations and TLAPS proofs about the
program in `src/`: a remesher that smooths an orientation field and a position
field on a hierarchy of graphs and extracts a quad- or triangle-dominant mesh
from them. Paths and line numbers below are relative to the repository; `PROJECT.json` lists
every run, every mutant of a definition that a property must notice, and the source
lines of every definition.

## 1. The system

| part (under `src/src/` unless noted) | state it keeps | operations | who it talks to |
|---|---|---|---|
| `ordered_lock` (`common.h:255-273`) | `next_ticket`, `counter`, a mutex, a condition variable | `lock`, `unlock` | the lock of the hierarchy; taken by the solver thread and by every caller |
| `Optimizer` (`field.h`, `field.cpp:1471-1705`) | `mRunning`, the two solve flags, level and iteration, `mHierarchical`, attractor strokes, the frozen flags of the hierarchy | `optimizeOrientations`, `optimizePositions`, `notify`, `wait`, `stop`, `shutdown`, `moveSingularity`, `run` (the thread) | writes the fields of the hierarchy; woken through `mCond` |
| `RetopoEngine` (`retopo_engine.cpp`) | input mesh, contours | `execute` and setters | builds the hierarchy, owns an `Optimizer`, extracts the result |
| `Viewer` (`viewer.cpp`) | buttons, tool, strokes, level, the hierarchy, an `Optimizer` | event handlers, `drawContents`, `loadInput`, `extractMesh`, `loadState` | the only client of its `Optimizer` |
| `MultiResolutionHierarchy` (`hierarchy.cpp`) | per level: vertices, normals, links, phases, fields, constraints | `build` (downsampling, colouring), `propagateSolution`, save and load | read by everything |
| directed edges (`dedge.cpp`) | `V2E`, `E2E`, `boundary`, `nonManifold` | `build_dedge` | used by subdivision, adjacency, normals, extraction |
| subdivision (`subdivide.cpp`), adjacency (`adjacency.cpp`) | the mesh with its directed edges and a queue of long edges; a list of links per vertex | `subdivide`, `generate_adjacency_matrix_*` | called in sequence by `execute`, `batch.cpp` and the viewer, before the hierarchy is built |
| mesh extraction (`extract.cpp`), disjoint sets (`src/ext/dset/dset.h`) | clusters of vertices, the graph and the faces of the output | `extract_graph`, `extract_faces`; `find`, `unite`, `try_lock`, `unite_unlock` | called by `execute`, `batch.cpp` and the viewer; adjacency uses the sets as well |
| sanitizer (`extraction_sanitizer.cpp`), reordering (`reorder.cpp`) | the faces they are given | `sanitize_coarse_quads`, `sanitize_final_mesh`, `reorder_mesh` | called by `extract_faces` |
| BVH, normals, statistics, singularity filter, quality report | arrays they are given | one function each, data parallel | called in sequence by `execute`, `batch.cpp` and the viewer |
| serialisation (`serializer.cpp`, `gui_serializer.h`) | a map of typed values | get, set, read, write | `Viewer::saveState`, `loadState` |
| command line, `src/python/`, `src/addon/`, `src/blender_extension/` | settings | one call of `execute` or of the batch path | the engine |

What is hard about it:

* **two threads and one lock.** The solver thread holds the lock of the
  hierarchy for a whole sweep; the callers take it for some operations and write
  the members of the solver without it for others;
* **a condition variable** whose notifications are sent without the lock;
* **lock-free and fine-grained parallel loops** (directed edges, colouring, shuffle,
  disjoint sets, collapse of the extracted graph);
* **meshes that change while they are walked**: splits renumber edges that a queue
  still names, snapping moves and removes vertices that a list of candidates still
  names, faces are rewritten while their neighbours are read;
* **long sequences of user actions** (solve, brush, change the level, load another
  mesh, restore a session) on state that is spread over the viewer, the solver and the hierarchy;
* **error paths**: exceptions in the solver thread, while mutexes are held, or in
  the middle of loading.

What would make each part correct is the list of properties in section 4; the
list of hazards in `PROJECT.json` names the line where each of them bites, and
the property that covers it or why none does.

## 2. Modules

| module | models | correspondence |
|---|---|---|
| `FifoLock` | what `ordered_lock` promises | a queue of threads, the head owns the lock |
| `OrderedLock` | `ordered_lock` | one action per atomic step: taking a ticket, the re-check after a wake-up, `unlock` with `notify_all`; counters modulo `Tickets` (2^32 in the code) |
| `OrderedLockProofs` | theorems about it | |
| `Optimizer` | the solver thread and the pieces of the calls | `wpc` is the place in `run()`: `lock`/`queued` (line 1566), `wait`/`asleep` (1568), `iterate` (1572-1584), `sweep` (1586-1704). `opt` is the record of the members. The lock is the queue of `FifoLock` |
| `OptimizerProofs` | lemmas about it | used by the next two proof modules |
| `RetopoSolve` | `RetopoEngine::execute` with its `Optimizer` | `mpc` is the place in `execute()`; every member that is stored without the lock is a step of its own |
| `RetopoSolveProofs` | theorems about it | |
| `ViewerSession` | `Viewer` with its `Optimizer`, and sessions that are saved and restored | handlers are sequences of pieces (`gpc`, `prog`); pieces under the lock are one step each; `ui` has the buttons and the tool, `built` whether the hierarchy is complete |
| `ViewerSessionProofs` | theorems about it | |
| `GreedyColoring` | `generate_graph_coloring_deterministic`, and what the parallel colouring promises | one action: a vertex takes the first free colour |
| `GraphColoring` | `generate_graph_coloring` | a worker takes a vertex, locks the neighbourhood in order, reads, chooses, unlocks; partial counts are joined. `Adj` has the other vertices a list names, `doubled` the entries a neighbourhood has more than once, among them a vertex that is linked to itself |
| `ParallelShuffle` | the shuffle of `perm` in the same function | two ordered locks, a swap in three steps |
| `LevelColoring` | the whole function: the shuffle, then the colouring | both loops share `mutex`; the order `perm` has got is forgotten, because a worker takes any vertex |
| `LevelColoringProofs` | theorems about both | the parts of `GraphColoring` first, then the whole function |
| `EdgeMaps` | what `build_dedge` promises | which results are admissible for a mesh (`EdgeMapsOf`): the threads decide only where several edges claim the same opposite, or where a vertex has several fans |
| `DirectedEdge` | `build_dedge` | pass 1 with every compare-and-exchange, pass 2 with every store, pass 3 one vertex per step |
| `Subdivide` | `subdivide` | one action per entry of the queue: the test whether the entry is stale, and the split of one or two faces with all its stores |
| `Adjacency` | `generate_adjacency_matrix_uniform`, `_cotan` | two pure operators, one for the loop that counts the links of a vertex and one for the loop that writes them |
| `PointCloud` | `generate_adjacency_matrix_pointcloud` | the searches are one step, and what they find a set of sets; then every write to the list of a point is one, in any order |
| `DownsampleGraph` | the levels of `MultiResolutionHierarchy::build` | one action per merged pair, one for the rest, one for the maps and links of the next level |
| `MeshPreparation` | the stages of `execute` before the solve | `stage` is the call under way; the second `build_dedge` chooses any result that `EdgeMaps` admits |
| `MeshPreparationProofs` | theorems about directed edges, levels and the links of clouds | |
| `LockedSets` | what the disjoint sets promise: a partition, some parts of which are locked | `rep` and `holder`; one action per call |
| `DisjointSets` | `dset.h` | one action per atomic access; an entry is `parent`, `rank`, `locked`; a call keeps its variables in `local` |
| `DisjointSetsProofs` | theorems about it | |
| `GreedyCollapse` | collapsing the edges one after the other | one action per edge |
| `CollapseGraph` | steps 1 to 3 of `extract_graph` | three parallel phases; a worker takes a vertex or an edge, locks, checks, merges, unlocks; the sets are those of `LockedSets` |
| `Snapping` | steps 5 and 6 of `extract_graph` | `loop` is the loop under way; one action per candidate or diagonal, and one for each time the code starts over |
| `ExtractGraph` | `extract_graph` from step 1 to step 5: `CollapseGraph`, then the positions and creases of the clusters, then `Snapping` | `snapping` says that step 5 has begun; `AssignPositions` is step 4 |
| `CollapseGraphProofs` | theorems about `CollapseGraph` and `ExtractGraph` | |
| `ExtractFaces` | steps 7 to 9 of `extract_faces` | `phase` is the step; a walk along the links is a function, its effect one action; the fills are one action per new face |
| `Sanitizer` | `extraction_sanitizer.cpp` | pure operators on a sequence of faces, one per pass of the code |
| `Extraction` | the whole way from step 5 to the result: the modules above, the normals and `reorder_mesh` | `stage` is the part under way; each call of the sanitizer and `reorder_mesh` is one action |
| `MC...` | small instances for TLC | |

`RetopoSolve` and `ViewerSession` extend `Optimizer`, so that both clients meet
the same solver. `Optimizer` uses the lock through the queue that
`FifoLock` describes, and `OrderedLock` is shown to implement `FifoLock`. In the same way
`CollapseGraph` calls `LockedSets` (the property `UsesLockedSets` says it calls nothing else)
and `DisjointSets` is shown to implement `LockedSets`. `EdgeMaps` is the promise that
`DirectedEdge` is shown to keep (`BuildsEdgeMap`), and the one that `MeshPreparation` relies on
when it builds the directed edges a second time. `MeshPreparation` extends `DirectedEdge` and
instantiates `Subdivide`, `Adjacency`, `PointCloud` and `DownsampleGraph`; `ExtractGraph` extends
`CollapseGraph` and instantiates `Snapping`; `Extraction` extends
`ExtractFaces` and `Sanitizer` and instantiates `Snapping` as well, for graphs that `ExtractGraph` can leave
but that are too large to be collapsed by several threads first.

## 3. Abstractions, bounds and fairness

* Fields (vectors, rotations, intrinsic and extrinsic distances) are left out; a sweep or
  a filter is a step that may succeed or throw where the code can. Where positions decide
  what happens (subdivision and snapping) points are in the plane, on a grid of multiples of 16,
  so that every midpoint the runs reach is exact.
* The members that two threads touch without the lock are a data race in C++.
  The models let every such store take effect in program order, one at a time,
  and the other thread act between any two.
* `LevelIterations` is 6 in the code and in the runs of `RetopoSolve`. It is 1 in those of
  `ViewerSession`, where a click may come between any two sweeps and the number
  of sweeps of a level decides nothing else. The iteration
  counter is capped one above it, since it is only ever compared with `>=`.
* `MaxLevels` is 3 levels for `execute` (a coarsest, a finest and one in between) and 2 for
  the viewer (1 for the stray edit), which lets a level be left and finished. The progress number
  and the counters by which the view notices new data are left out.
* `Tickets` is 4 for 4 threads: the counters wrap every few calls, and `next_ticket` comes
  round to `counter` when everybody is queued, the tightest case the assumption allows.
* In `ViewerSession` an attractor stroke has two faces (`StrokeLengths`) and a session has one
  pending stroke (`MaxStrokes`). `Sessions` says what a session uses: the brush with two meshes
  and two levels, or one of the attractors with one mesh and one level (the one where its strokes are
  applied), or no tool, two levels and a session file; the stray edit needs an attractor and a second mesh. All have
  `FourFold` symmetry, the one for which the attractors exist.
* A session is saved once, at any time, and restored after at most `MaxEvents` = 1 other event (with solves going on and ending
  in between): enough to stop the solve or to load another hierarchy before the old one comes back. Files
  are complete or cannot be read; files of another version, which may lack values, are left out.
* Colouring: two threads on a path of four vertices and a fifth with a one-way link to it, whose list may also name
  itself (`PathDoubles`; two initial states, one of each), and (for the exception) two triangles; `ColorLimit` (254) is 2, so that the colours run out in some
  orders and in others do not.
* Mesh preparation: eight meshes of two or three triangles on at most five vertices, one for each
  of the situations `build_dedge` distinguishes, with up to three threads; four others (a flap at a
  non-manifold edge, a square of four faces, a tetrahedron, and a face with two equal corners alone) with one thread; three clouds of points. `MaxLengths` (squared) are 5000,
  for which most edges are split, some of them twice, and 9300, for which only the longest are. `SmallestShare` is 3 (100 in the code), so that a cloud of
  five points has a component that is too small; `MaxDepth` is 3 (25), so that both ends
  of the loop over the levels occur; only graphs of up to `LargestHierarchy` = 4 vertices get a
  hierarchy. The order of the links, a quotient of areas and normals, is any order. The queue of
  long edges is a set: of two equal entries the second finds its edge split already, or its number reused by an edge that has an entry of its own.
* The promises about subdivision are stated for meshes without marked vertices and without two faces on the same
  vertices. Elsewhere the splits work with opposites that are not mutual, and the directed edges are built anew
  afterwards in any case. That the loop ends follows from the finite state space without deadlock: every
  step adds a vertex or drops an entry of the queue.
* Disjoint sets: two threads on four numbers with locks or three without (`Uses`), enough for a path
  to be halved while its root is linked. `CallsEnd` needs that other threads
  stop changing the entries at some time: the number of links is finite, and each thread is
  weakly fair.
* Collapse and snapping: three threads on six vertices and three inputs: three clusters of two in a row, a
  triangle and a ring of edges to collapse, the ring with an edge that must stay. Each link is in one of the two
  classes or in none, as a link that is looked at once (from its smaller end, `extract.cpp:74`) can only be. `CounterValues`
  is 2 (2^16 in the code), so that the 16-bit counter wraps; step 3a then removes the cluster of three that the ring leaves. The three
  clusters get three layouts, in which one is merged with the next, moved onto an edge or left alone. Snapping of larger graphs, with diagonals, is
  reached from the inputs of `extraction`.
* Extraction, from step 5 on: five points in two layouts (a square and a kite, the last point inside or
  close to a corner) with all graphs of seven edges that contain the outline, two of the points on a
  crease, with three and four sides. `Thresh` is 368, (0.3 * 64)^2 rounded down: with edges of about 80 some
  points are close enough and others are not. Heights are compared as exact fractions.
* Extraction, from step 7: all graphs with at least four edges on four vertices with all orders of the links, these
  include bodies with holes through them; all complete ones with a doubled link; rows of quads
  whose outside is an octagon and a decagon; two nonagons with a doubled link; rings
  of 3, 6 and 7 links with two dead ends inside, whose inner side is left to step 8; two triangles with a common
  vertex, whose outside passes it twice. Degrees 3
  to 8 and the limit of 7 for holes are those of the code.
* What depends on positions after step 6 is any choice (the corner at which a polygon is cut) or left out:
  smoothing, reprojection and the relaxation of reflex corners, and creases. The sanitizer turns at most one
  quad against its normal (`Against`); the search for a component of faces starts at the first or the last face left.
* Weak fairness is assumed of each thread as a whole: threads keep being
  scheduled. In the viewer also of the main loop and of drawing, which GLFW calls forever.
  Nothing makes a user click, a spurious wake-up happen or a spin mutex fair. The extraction is one thread that
  goes on as long as it can (`GoesOn`, weak fairness with its `ENABLED` written out).

## 4. Runs

| run | what it asks | result |
|---|---|---|
| `ordered_lock` | does the ticket lock exclude, keep the order, and serve everybody, also when the counters wrap? | holds |
| `retopo_solve` | does the caller always find finished fields and the hierarchy to itself; do levels follow each other from coarse to fine; does the worker never act on half a call? | holds; the call returns unless a wake-up is lost |
| `retopo_returns` | does `execute()` return? | no: see 6 |
| `retopo_terminates` | does an exception of a sweep reach the handler in `execute()`? | no: see 6 |
| `viewer_session` | does the worker only ever sweep a level that exists, of a complete hierarchy; is a running orientation solve shown; does every requested solve reach a sweep, and does every handler end? Also across saving and restoring | holds, but for a restored solve (see 6) |
| `viewer_edits` | does a pending singularity edit end with the mesh it was drawn on? | no: see 6 |
| `graph_coloring` | does the shuffle lose no vertex; are neighbours coloured differently, does nobody wait in a circle, are the counts right; is the colouring one the sequential one could produce, and does it end? | holds, but a worker that meets an entry twice waits for itself (`Hung`, see 6) |
| `graph_coloring_throws` | does the exception for too many colours reach the caller? | no: see 6 |
| `mesh_preparation` | is no edge lost, do the threads leave one of the admissible directed edges; do splits keep them true and leave no long edge; are the links those of the mesh, in the places that were counted; are the links of points mutual; do the levels match and carry all the weight? | holds |
| `disjoint_sets` | with locks or without, do the sets stay a partition that changes by whole parts, do parents never form a cycle, and does every call end? | holds |
| `collapse_graph` | do clusters know their neighbours, are vertices an edge apart kept apart, is the result that of some order of the edges, does the spinning end; is what the threads leave a graph that can be snapped, and are its parts, links and creases kept? | holds |
| `extraction` | are the rings the faces, are small holes closed, do faces keep the outline of a polygon, has the subdivision no cracks; are the faces clean and do they keep their normals; does reordering keep the mesh; do all loops end? | holds |

Every property of a passing run has a mutant: a small bug put into one definition,
with which TLC finds the property violated.

## 5. Proofs

All theorems are checked by TLAPS (SMT, Zenon and, for temporal steps, LS4). They hold for every
value of the constants that the named assumptions admit; the runs of section 4 check the same
properties, and the same definitions, on small instances, where a mutant shows that they can fail.

| component | the runs' properties that are theorems | of which refinements |
|---|---|---|
| lock | `LockInv`, `MutualExclusion`, `ImplementsFifoLock` | the ticket lock is a queue |
| batch call | `SolveInv`, `ResultsAreComplete`, `ClientHasHierarchyToItself` | |
| session | `SessionInv`, `OrientationSolveIsShown` | |
| colouring | `TypeOK`, `ProperColoring`, `NoCircularWait`, `EveryVertexHasItsPlace`, `ImplementsGreedyColoring` | the parallel colouring is a sequential one |
| disjoint sets | `SetInv`, `ImplementsLockedSets` | atomic accesses are calls |
| collapse | `ClusterInv`, `UsesLockedSets`, `ImplementsGreedyCollapse` | the parallel collapse is a sequential one |
| collapse and snapping | `GraphIsKept` | |
| directed edges | `ListInv`, `BuildsEdgeMap` | the three parallel passes give a result of `EdgeMapsOf` |
| hierarchy | `LevelsCover` | |
| point clouds | `PointLinksAreMutual` | |

The compositions are closed by theorems: `Optimizer` uses the lock as a queue and
`LockIsFifo` shows that it is one; `CollapseGraph` uses the sets through the calls of
`LockedSets`, `SetsAreUsedAsPromised` shows that it keeps their precondition, and
`SetsAreLockedSets` that `dset.h` implements them.

None of the properties is inductive as it stands. What each needs:

* **`OrderedLockProofs`.** Mutual exclusion needs that the tickets of the queued threads are distinct and
  fill the range from `counter` to `next_ticket` without gaps (`LockInv`), for which the number of
  tickets in use must be counted across the wrap-around. `LockIsFifo` maps the tickets to a sequence,
  the queue; taking one appends to it, `unlock` removes the head. Assumed: the threads are finitely
  many and not more than the ticket values.
* **`OptimizerProofs`, `RetopoSolveProofs`.** The first has what both clients need: a thread is in the queue of
  the lock exactly at the places where it waits for or has the lock (`WorkerQueueInv`), and what each step of the worker
  leaves alone. The stores of a call are made without the lock, one at a time, so the
  invariant says which stores are left and what the earlier ones have written (`CallInv`, up to the
  store that switches the solve on), and, at every place of `execute()`, how far
  each solve is (`PhaseInv`): which levels have all their sweeps, which none, and that the one in
  between has as many as the iteration counter says (`Underway`). `LifeInv` ties the thread to
  the call, exceptions included. Assumed: at least one level and one sweep per level.
* **`ViewerSessionProofs`.** A handler is a sequence of operations that other events cannot interrupt but
  the worker can. `ProgramInv` says what the rest of the running handler relies on, and
  `Orderly` that it makes sure of it in time: whoever frees or builds the
  hierarchy has stopped the solve before and resets the level afterwards. `LoadedInv` and `SolveInv` are
  the promises in between, `FileInv` the same of the saved session, so that restoring it
  restores them. `RestOf` and the lemmas on concatenation let each handler be checked once, when it
  starts, and each operation once, when it runs. Assumed: attractor strokes visit at least two faces.
* **`LevelColoringProofs`.** First `GraphColoring`. A worker holds the mutexes it has passed (`HoldsNeighborhood`), hence the
  colours it has read stay those of the neighbours (`SeesNeighbors`), and all are below its own
  number of colours (`KnowsUsed`). For the refinement, also that every excluded colour is some
  neighbour's (`UsedIsAround`) and that a vertex is taken once (`TakenOnce`). `NobodyWaitsInCircles` needs that a
  worker holds nothing but its neighbourhood (`OnlyHolds`) and only mutexes below those it still wants (`Ascending`), but for
  one: at a doubled entry it has locked the vertex it wants (`IsPassed`). In a group that waits in a circle the owner of the highest
  mutex waits too, and not for a higher one: it waits for itself. No list of links is excluded; which workers
  wait for themselves is part of the statement (`Hung`), and safety holds with them. `PhasesAreComplete` counts: the partial
  counts together are the numbers of coloured vertices, whatever pairs were joined (`PhaseInv`). Assumed: finitely many
  vertices; links may be one-way and doubled, and a vertex may be linked to itself.
  Then the whole function. The two loops share the mutexes: while the shuffle runs, the colouring has not
  begun, and only threads within a swap hold a mutex (`SwapHolds`), so all are free when it begins. `perm` is a permutation
  up to the swaps under way: a thread that has saved `perm[j]` holds both mutexes (`SwapLocks`) and nobody else
  writes the entry (`SwapSaved`). The theorems about `GraphColoring` then hold of the whole function.
  Assumed: the vertices are the numbers from 0 on.
* **`DisjointSetsProofs`.** The entries are trees: a map to the roots exists that every entry shares with its
  parent (`Partition`), and parents rise in an order by rank and number, so that there is no cycle. A tree of rank
  *r* has at least 2^*r* members (`Sizes`), which keeps ranks logarithmic; where a thread is about to raise the rank the tree
  already has twice as many (`Rises`). Whatever a thread has read may be old; `Reads` and `Path`
  say what remains true of it: ranks only rise, an entry with a parent keeps its rank, paths only lead up within
  the tree. The refinement maps an entry to its root by the recursive function `Roots`; that it is that map follows from the order,
  along which every set of entries has a highest one (`SetHasTop`). Assumed: a program uses `try_lock` and `unite_unlock`,
  or `unite`, but not both on the same sets (`LoopsAssumption`), as extraction and adjacency do.
* **`CollapseGraphProofs`.** Five parts. `Frame`: which locks a thread has at each
  place, and that only representatives are locked. `ApartInv`: step 1 has added every edge to keep or has it still to do; from then on
  a cluster that nobody is joining knows exactly the clusters an edge leads to (`Known`). A thread that has
  locked two clusters has, while it rewrites, collected or still before it what both knew (`Gathered`), then the target
  knows the neighbours of both (`Merged`), and the two must not stay apart, which remains true while other clusters
  around them are joined. `TakenInv`: an edge is taken once and still names the two
  clusters. `CountInv`: counters modulo their width. `OutputInv`: the numbering has no gaps and every link leads to a
  number, before and after the renaming of each vertex. Assumed: vertices are numbered from 0,
  links lead from the smaller to the larger end, and no link is both to collapse and to keep.
  **Snapping** (`SnappingIsSafe`) starts from the graph these invariants describe. Two vertices are connected if no set of vertices
  that links do not lead out of (`Closed`) has one and not the other, so that no walk is needed. Each step is one of two kinds: a side of a triangle gives
  way to another one (`IsTriangleStep`: a vertex moves onto an edge, a diagonal goes), which leaves the closed sets what they
  were; or a vertex takes over the links of another one it is connected with (`IsMergeStep`), which leaves them what they were but for that
  vertex. A stale candidate does no harm, because its two links are looked up again before it is used, and a vertex
  and the far end of the edge were different when it was found (`SnapTypes`). Nothing is assumed of the positions.
* **`MeshPreparationProofs`.** *Lists.* The edges of a vertex that have entered its list
  are a chain: every one has a place (`Chained`), and the head comes first; a worker appends to an entry that was there before, in the
  step that finds nothing behind it, and its own edge has nothing behind it as long as it has not
  entered; so no insertion overwrites another one and the chain has no cycle. *Opposites.* The second pass finds
  complete lists; an edge is linked by its own search and by the searches of the edges that run the other way, and the last of
  several writers wins: exactly what `EdgeMapsOf` admits. *Turns.* A turn that goes on for ever would visit an edge twice; a step back along opposites
  is a function as well, so it would come to its first edge, where the code stops (`TurnsEnd`). *Levels.* A vertex gets into a pair at
  most once (`mergeFlag`), the rest is copied, and the two maps are filled in step. *Clouds.* The loops that count and the loops that write
  test the same conditions from opposite ends; a component that is given up is closed, so that no other point expects a link
  from it; at any moment the list of a point is what its own loop and those of others have come to (`ListsAreWritten`).
  Assumed: faces and points are numbered from 0 (`FacesAssumption`, `CloudsAssumption`).

Only model-checked, and why:

* all liveness properties (`EveryRequestIsServed` of the lock, `SolveIsServed`, `ColoringEnds`, `CallsEnd`, `CollapseEnds`,
  ...): proofs under fairness and about `ENABLED` are out of this prover's reach;
* of the preparation of meshes, what subdivision does (`SubdivisionConforms`, `EdgesAreShort`), the links of meshes
  and the weights of the levels (`LinksConform`), which are sums over lists: a fold is a recursive definition, and what it
  computes for every input is an induction over data;
* the extraction from step 6 on (`FacesInv`, `RingsAreFaces`, `SmallHolesAreClosed`, `SubdivisionIsWatertight`,
  `OutputIsClean`, `ReorderKeepsMesh`): walks, folds and passes over sequences of faces, for the same
  reason.

## 6. Where the code differs from what it says

* `retopo_returns`: `notify()` and `shutdown()` do not hold the lock. Between the worker's
  test of the flags and its wait (`field.cpp:1567-1568`) a
  notification wakes nobody; both threads then wait for each other.
  The same happens in `Viewer::~Viewer`.
* `retopo_terminates`: `execute()` guards the solve against exceptions, but the sweeps
  run in the solver thread, which has no handler: an unknown symmetry ends the process.
* `viewer_edits`: a stroke of the singularity attractor that is pending when another mesh is
  loaded is applied to that mesh.
* `graph_coloring_throws`: the mutexes of the colouring are locked and unlocked by plain
  calls; the exception in between leaves them locked and other threads spin.

Met on the way, where nothing in the repository says otherwise, and so no run of their own:

* **the parallel colouring does not return if a list of links has an entry twice.** A face with two equal corners, (a, a, b), passes
  `build_dedge` (`dedge.cpp:48`) and gives *a* a link to itself (`adjacency.cpp:80-83`). `build()` hands these links to
  `generate_graph_coloring` unless the deterministic mode is asked for, which it is not by default (`hierarchy.cpp:417-420`,
  `retopo_engine.h:27`). There the neighbourhood of *a* is sorted but not made unique (`hierarchy.cpp:323-327`), and the worker locks the
  mutex of *a*, a `tbb::spin_mutex`, a second time (`hierarchy.cpp:328-329`): it spins for ever, holding what it has, others that
  need one of these mutexes spin too, and the caller waits. `graph_coloring` has this case (`PathDoubles`); `NoCircularWait` and
  `ColoringEnds` name it (`Hung`) and say that without it, and without an exception, every thread gets on;
* `nCollapses` is a `uint16_t` (`extract.cpp:165`): a cluster of 65537 vertices counts as never collapsed and is removed by step 3a. `ClusterInv`
  counts modulo the width, so it describes the wrap and does not condemn it;
* a session that was saved while a solve was running is restored with the button pressed, but `loadState()`
  notifies nobody: a worker that sleeps goes on sleeping until the next click (`RestoredAsleep`,
  the exception in `SolveIsServed`). The pending strokes and the wish to continue with positions are not restored;
* a triangle of a quad mesh repeats its last corner. `sanitize_coarse_quads` renames the first three corners of a pinched
  vertex only (`extraction_sanitizer.cpp:203-207`): if the third corner gets a new vertex, the triangle becomes a quad with two
  corners in one place. This happens in a hexagonal hole that passes a vertex twice; `OutputIsClean` leaves out
  this case only (`TriangleTorn`);
* when faces with irregular polygons are compacted (`extract.cpp:1047-1049`) the normals are cut to length but not moved
  (`FacesDropped`, also in `OutputIsClean`);
* the exception of step 10 for a triangle among the quads (`extract.cpp:896-898`) is never reached in the model;
* a face with two equal corners gives its vertex a link to itself (`adjacency.cpp:80`). After the deterministic colouring (the
  parallel one has stopped before, see above) `downsample_graph` may collapse the vertex with itself (`hierarchy.cpp:72`), and its links count twice in the next level. `LevelsCover` and `LinksConform` describe this; the attempt
  to prove the levels disjoint first showed that an earlier version of the model, with sets for pairs, did not have it;
* a vertex that step 3a strips of its links keeps its crease (`extract.cpp:273`), so that creases may be on vertices without links;
* links of a vertex are one-way only where a vertex is marked as non-manifold or has several fans of faces.

## 7. Not modelled, and the plan

Not modelled: rendering and widgets, file formats, floating-point kernels (smoothing of the fields, step 4 and 10 of the
extraction), the choices of the singularity filter, which those fields make, the bounding volume hierarchy, the command line and
the add-on (they make one call of the engine), vendored code, and `cleanup.cpp`, whose only call is not compiled
(`REMOVE_NONMANIFOLD` is never set). Mesh extraction and flow lines in the viewer read the fields while the solver
may write them; they change no state of the session. See `components` in
`PROJECT.json` for each part and the reason.

The runs are few and large on purpose: a run asks everything of one component, and a new
module joins the run of the component it composes with.

Next proofs, in this order: of `Subdivide`, the part of the invariant that a single split can disturb (directed edges stay
opposite); of `ExtractFaces`, that no link gets into two faces, for which the walk along a face must be shown to visit every link
once, as `TurnsEnd` does for directed edges.
