------------------------------ MODULE Snapping ------------------------------
(***************************************************************************)
(* Steps 5 and 6 of extract_graph (src/src/extract.cpp).  Step 5 moves a   *)
(* vertex that is close to a longer edge onto it, or merges it with an end *)
(* of the edge, until nothing changes; of a quad mesh it then removes the  *)
(* diagonals, the edges between two triangles, and starts again.  Step 6   *)
(* sorts the links of every vertex by their direction.                     *)
(*                                                                         *)
(* Points are in the plane, on a grid on which every midpoint is exact,    *)
(* and all normals are the same.  Comparisons are exact: of lengths, their *)
(* squares are compared, of heights the squares, as fractions.  The order  *)
(* in which diagonals are tried, a quotient of lengths, is any order.  A   *)
(* link may be in a list twice; its place there is of no account before    *)
(* step 6.                                                                 *)
(***************************************************************************)
EXTENDS Integers, FiniteSets, Sequences, SequencesExt

CONSTANT
    Thresh              \* thresh, squared

VARIABLES
    O,                  \* O_new: the points
    links,              \* adj_new: how often a link is in the list of a vertex
    crease,             \* crease_out
    loop,               \* the loop under way
    candidates,         \* what it has still to look at
    changed, changed_inner,
    given               \* the links before step 5 (not in the code)

snapvars == <<O, links, crease, loop, candidates, changed, changed_inner, given>>

Vertices == DOMAIN O
HasLink(u, v) == links[u][v] > 0
LinkedTo(v) == {u \in Vertices : HasLink(v, u)}

Length(p, q) == (p[1] - q[1]) ^ 2 + (p[2] - q[2]) ^ 2
Midpoint(p, q) == <<(p[1] + q[1]) \div 2, (p[2] + q[2]) \div 2>>
Cross(p, q, r) == (q[1] - p[1]) * (r[2] - p[2]) - (q[2] - p[2]) * (r[1] - p[1])

(* The height of i over the line from j to k, squared: a fraction.         *)
Height(i, j, k) == [num |-> Cross(O[i], O[j], O[k]) ^ 2, den |-> Length(O[j], O[k])]
Lower(h, g) ==
    LET whole(f) == f.num \div f.den
        rest(f) == f.num % f.den
    IN whole(h) < whole(g) \/ (whole(h) = whole(g) /\ rest(h) * g.den < rest(g) * h.den)
Same(h, g) == ~Lower(h, g) /\ ~Lower(g, h)

Near(i, j) == Length(O[i], O[j]) < Thresh

Begin(points, lists, marked) ==
    /\ O = points /\ links = lists /\ crease = marked /\ given = lists
    /\ loop = "find"
    /\ candidates = {}
    /\ changed = FALSE /\ changed_inner = FALSE

-----------------------------------------------------------------------------
(* The inner loop: all vertices i linked to the end of an edge from j to k *)
(* that is longer than the way from i to either end, and close to it.      *)

Triples ==
    {t \in Vertices \X Vertices \X Vertices :
        LET i == t[1]
            j == t[2]
            k == t[3]
        IN /\ HasLink(i, j) /\ HasLink(j, k) /\ k # i
           /\ Length(O[j], O[k]) > Length(O[i], O[j]) /\ Length(O[j], O[k]) > Length(O[i], O[k])
           /\ Height(i, j, k).num < Thresh * Height(i, j, k).den}

FindCandidates ==
    /\ loop = "find"
    /\ candidates' = {[t |-> t, height |-> Height(t[1], t[2], t[3])] : t \in Triples}
    /\ changed_inner' = FALSE
    /\ loop' = "snap"
    /\ UNCHANGED <<O, links, crease, changed, given>>

(* i and m become one: the neighbors of m get a link to i where they had   *)
(* one to m, and i gets one link to each vertex either was linked to.      *)

(* Mutant of Renamed: the neighbors forget the vertex that is gone. *)
RenamedNot(i, m, n) == [links[n] EXCEPT ![m] = 0]

Renamed(i, m, n) == [links[n] EXCEPT ![i] = @ + links[n][m], ![m] = 0]

Merge(i, m) ==
    LET updated == (LinkedTo(i) \cup LinkedTo(m)) \ {i, m}
    IN /\ O' = [O EXCEPT ![i] = Midpoint(O[i], O[m])]
       /\ links' = [n \in Vertices |->
            IF n = m THEN [x \in Vertices |-> 0]
            ELSE IF n = i THEN [x \in Vertices |-> IF x \in updated THEN 1 ELSE 0]
            ELSE IF n \in LinkedTo(m) THEN Renamed(i, m, n)
            ELSE links[n]]
       /\ crease' = IF m \in crease THEN (crease \ {m}) \cup {i} ELSE crease

(* Mutant of Cut: the long edge stays. *)
CutNothing(j, k) == links

(* The edge from j to k, however often it is listed, is removed. *)
Cut(j, k) == [links EXCEPT ![j][k] = 0, ![k][j] = 0]

(* i takes the place in the middle of the edge, and the edge leads over i. *)
Slide(i, j, k) ==
    /\ O' = [O EXCEPT ![i] = Midpoint(O[j], O[k])]
    /\ links' = IF HasLink(k, i) THEN Cut(j, k)
                ELSE [Cut(j, k) EXCEPT ![i][k] = @ + 1, ![k][i] = @ + 1]
    /\ crease' = IF {j, k} \subseteq crease THEN crease \cup {i} ELSE crease

(* The candidates are taken from the lowest height on; those that others   *)
(* have changed meanwhile are skipped.                                     *)
IsValid(c) ==
    /\ HasLink(c.t[1], c.t[2]) /\ HasLink(c.t[2], c.t[3])
    /\ Same(Height(c.t[1], c.t[2], c.t[3]), c.height)

TakeCandidate ==
    /\ loop = "snap"
    /\ \E c \in candidates :
         LET i == c.t[1]
             j == c.t[2]
             k == c.t[3]
         IN /\ \A other \in candidates : ~Lower(other.height, c.height)
            /\ candidates' = candidates \ {c}
            /\ \/ ~IsValid(c) /\ UNCHANGED <<O, links, crease, changed, changed_inner>>
               \/ /\ IsValid(c)
                  /\ IF Near(i, j) THEN Merge(i, j)
                     ELSE IF Near(i, k) THEN Merge(i, k)
                     ELSE Slide(i, j, k)
                  /\ changed' = TRUE /\ changed_inner' = TRUE
    /\ UNCHANGED <<loop, given>>

-----------------------------------------------------------------------------
(* The diagonals: links that are a side of two triangles, counted along    *)
(* the list of the one end, doubled links included.                        *)
Triangles(i, j) ==
    Cardinality(UNION {{k} \X (1 .. links[i][k]) : k \in {v \in Vertices \ {j} : HasLink(j, v)}})

FindDiagonals(sides) ==
    /\ loop = "snap" /\ candidates = {} /\ ~changed_inner
    /\ sides = 4
    /\ candidates' = {p \in Vertices \X Vertices : HasLink(p[1], p[2]) /\ Triangles(p[1], p[2]) = 2}
    /\ loop' = "remove"
    /\ UNCHANGED <<O, links, crease, changed, changed_inner, given>>

TakeDiagonal ==
    /\ loop = "remove"
    /\ \E p \in candidates :
         /\ candidates' = candidates \ {p}
         /\ IF Triangles(p[1], p[2]) = 2
            THEN links' = Cut(p[1], p[2]) /\ changed' = TRUE
            ELSE UNCHANGED <<links, changed>>
    /\ UNCHANGED <<O, crease, loop, changed_inner, given>>

(* Both loops run until nothing has changed. *)
FindAgain ==
    /\ loop = "snap" /\ candidates = {} /\ changed_inner
    /\ loop' = "find"
    /\ UNCHANGED <<O, links, crease, candidates, changed, changed_inner, given>>

LoopDone(sides) == candidates = {} /\ (loop = "remove" \/ (loop = "snap" /\ ~changed_inner /\ sides # 4))

StartAgain(sides) ==
    /\ LoopDone(sides) /\ changed
    /\ changed' = FALSE
    /\ loop' = "find"
    /\ UNCHANGED <<O, links, crease, candidates, changed_inner, given>>

SnapStep(sides) ==
    FindCandidates \/ TakeCandidate \/ FindAgain \/ FindDiagonals(sides) \/ TakeDiagonal \/ StartAgain(sides)

-----------------------------------------------------------------------------
(* Step 6: the directions as atan2 has them, from +pi down to -pi.         *)
Half(d) == CASE d[2] > 0 \/ (d[2] = 0 /\ d[1] < 0) -> 1 [] d[2] = 0 -> 0 [] OTHER -> -1
Turn(d, e) == d[1] * e[2] - d[2] * e[1]
FurtherRound(d, e) == Half(d) > Half(e) \/ (Half(d) = Half(e) /\ Turn(d, e) < 0)

Oriented(v) ==
    LET copies == UNION {{<<u, n>> : n \in 1 .. links[v][u]} : u \in Vertices}
        direction(c) == <<O[c[1]][1] - O[v][1], O[c[1]][2] - O[v][2]>>
        sorted == SortSeq(SetToSeq(copies), LAMBDA c, d : FurtherRound(direction(c), direction(d)))
    IN [n \in DOMAIN sorted |-> sorted[n][1]]

-----------------------------------------------------------------------------
Survivors == {v \in Vertices : LinkedTo(v) # {}}

(* Two vertices are connected if no set of vertices that links do not lead *)
(* out of has the one and not the other.                                   *)
Closed(lists, part) == \A v \in part : \A u \in DOMAIN lists : lists[v][u] > 0 => u \in part
Connected(lists, u, v) ==
    \A part \in SUBSET DOMAIN lists : Closed(lists, part) /\ u \in part => v \in part

LinksAreMutual ==
    /\ \A u, v \in Vertices : HasLink(u, v) <=> HasLink(v, u)
    /\ \A v \in Vertices : ~HasLink(v, v)

(* The vertices that had links when step 5 began. *)
HadLinks == {v \in Vertices : \E u \in Vertices : given[v][u] > 0}

PartsAreKept ==
    /\ Survivors \subseteq HadLinks
    /\ \A u, v \in Survivors : Connected(links, u, v) <=> Connected(given, u, v)
    /\ \A v \in HadLinks : \E u \in Survivors : Connected(given, v, u)

(* However snapping and removing follow each other, the links lead both    *)
(* ways and never to the vertex itself; no part of the graph is cut in     *)
(* two, joined with another or lost; and creases are on vertices that are  *)
(* left, or that had no links from the beginning (extract.cpp:391-416,     *)
(* 424-441, 483-492).                                                      *)
SnappingKeepsGraph ==
    /\ LinksAreMutual
    /\ PartsAreKept
    /\ crease \subseteq Survivors \cup (Vertices \ HadLinks)
=============================================================================
