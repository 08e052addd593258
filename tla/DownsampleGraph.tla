--------------------------- MODULE DownsampleGraph ---------------------------
(***************************************************************************)
(* The levels of MultiResolutionHierarchy::build (src/src/hierarchy.cpp):  *)
(* downsample_graph merges pairs of linked vertices, and the graph of the  *)
(* merged vertices is the next level, until one vertex is left.            *)
(*                                                                         *)
(* The links are tried in the order of a quotient of areas and normals:    *)
(* any order.  The rest of the vertices is numbered by threads that draw   *)
(* the next number: any order as well.                                     *)
(***************************************************************************)
EXTENDS Naturals, FiniteSets, Sequences, SequencesExt

CONSTANTS
    MaxDepth,           \* MAX_DEPTH (25)
    INVALID

VARIABLES
    levels,             \* what build() has: adj, to_upper and to_lower of each level
    collapsed,          \* entries[0 .. nCollapsed - 1], then the uncollapsed vertices
    copying             \* are the pairs complete?

hierarchyvars == <<levels, collapsed, copying>>

(* A level is its links, adj[v] a sequence of [id, weight], and the maps   *)
(* to the finer level (a pair of vertices or a vertex) and from there.     *)
(* With a link to itself a vertex can be a pair: its links then count      *)
(* twice.                                                                  *)
Finest(adj) == [adj |-> adj, to_upper |-> << >>, to_lower |-> << >>]

BeginLevels(adj) ==
    /\ levels' = << Finest(adj) >>
    /\ collapsed' = << >>
    /\ copying' = FALSE

adjacent == levels[Len(levels)].adj
mergeFlag(v) == \E k \in DOMAIN collapsed : v \in Range(collapsed[k])
Linked(adj, i, k) == \E link \in Range(adj[i]) : link.id = k

More == Len(levels) <= MaxDepth /\ (Len(levels) > 1 => Cardinality(DOMAIN adjacent) # 1)

(* Mutant of Eligible: the other end may have been merged.                 *)
EligibleFirstFree ==
    {pair \in (DOMAIN adjacent) \X (DOMAIN adjacent) :
        Linked(adjacent, pair[1], pair[2]) /\ ~mergeFlag(pair[1])}

Eligible == {pair \in (DOMAIN adjacent) \X (DOMAIN adjacent) :
                Linked(adjacent, pair[1], pair[2]) /\ ~mergeFlag(pair[1]) /\ ~mergeFlag(pair[2])}

(* The next link whose ends are both free is collapsed. *)
Collapse ==
    /\ More /\ ~copying
    /\ \E pair \in Eligible : collapsed' = Append(collapsed, <<pair[1], pair[2]>>)
    /\ UNCHANGED <<levels, copying>>

CollapsingEnds ==
    /\ More /\ ~copying
    /\ Eligible = {}
    /\ copying' = TRUE
    /\ UNCHANGED <<levels, collapsed>>

Uncollapsed == {v \in DOMAIN adjacent : ~mergeFlag(v)}

copy_uncollapsed ==
    /\ copying
    /\ \E v \in Uncollapsed : collapsed' = Append(collapsed, <<v>>)
    /\ UNCHANGED <<levels, copying>>

-----------------------------------------------------------------------------
(* The links of the merged vertices, sorted, those to the same vertex one  *)
(* after the other.                                                        *)
to_upper == [i \in 0 .. Len(collapsed) - 1 |-> collapsed[i + 1]]
to_lower == [v \in DOMAIN adjacent |-> CHOOSE i \in DOMAIN to_upper : v \in Range(to_upper[i])]

scratch(i) ==
    LET renamed(v) == [k \in DOMAIN adjacent[v] |-> [adjacent[v][k] EXCEPT !.id = to_lower[@]]]
    IN SortSeq(FlattenSeq([k \in DOMAIN to_upper[i] |-> renamed(to_upper[i][k])]),
               LAMBDA a, b : a.id < b.id)

(* How many links are counted ... *)
CountedLinks(i) ==
    FoldLeft(LAMBDA acc, link :
                IF link.id # acc.id /\ link.id # i THEN [id |-> link.id, size |-> acc.size + 1] ELSE acc,
             [id |-> INVALID, size |-> 0], scratch(i)).size

(* Mutant of CoarseLinks: the weight of the further links is lost. *)
CoarseLinksFirstWeight(i) ==
    FoldLeft(LAMBDA dest, link :
                IF link.id = i \/ (dest # << >> /\ Last(dest).id = link.id) THEN dest ELSE Append(dest, link),
             << >>, scratch(i))

(* ... and which links are written. *)
CoarseLinks(i) ==
    FoldLeft(LAMBDA dest, link :
                IF link.id = i THEN dest
                ELSE IF dest = << >> \/ Last(dest).id # link.id THEN Append(dest, link)
                ELSE [dest EXCEPT ![Len(dest)].weight = @ + link.weight],
             << >>, scratch(i))

Coarsen ==
    /\ copying
    /\ Uncollapsed = {}
    /\ levels' = Append(levels,
            [adj |-> [i \in DOMAIN to_upper |-> CoarseLinks(i)],
             to_upper |-> to_upper, to_lower |-> to_lower])
    /\ collapsed' = << >>
    /\ copying' = FALSE

LevelStep == Collapse \/ CollapsingEnds \/ copy_uncollapsed \/ Coarsen

-----------------------------------------------------------------------------
Weight(adj, i, k) ==
    FoldLeft(LAMBDA sum, link : IF link.id = k THEN sum + link.weight ELSE sum, 0, adj[i])

Coarsest == levels[Len(levels)]
Finer == levels[Len(levels) - 1].adj
IsNew == Len(levels) > 1 /\ collapsed = << >> /\ ~copying

(* Every vertex of a level belongs to exactly one vertex of the next, the  *)
(* maps agree in both directions, a pair was linked, and of two that stay  *)
(* alone neither was to the other (hierarchy.cpp:67-77, 101-130).          *)
LevelsMatch ==
    IsNew =>
        LET up == Coarsest.to_upper
            down == Coarsest.to_lower
        IN /\ DOMAIN down = DOMAIN Finer /\ DOMAIN up = DOMAIN Coarsest.adj
           /\ \A i \in DOMAIN up :
                /\ Range(up[i]) = {v \in DOMAIN down : down[v] = i}
                /\ Len(up[i]) \in 1 .. 2
                /\ Len(up[i]) = 2 => Linked(Finer, up[i][1], up[i][2])
           /\ \A i, k \in DOMAIN up :
                i # k /\ Len(up[i]) = 1 /\ Len(up[k]) = 1 => ~Linked(Finer, up[i][1], up[k][1])

(* The links between two vertices of a level have the weight of all links  *)
(* between what they stand for, none leads back to its vertex, no vertex   *)
(* is linked twice, and the list has the counted size.  Only the links of  *)
(* a vertex that was collapsed with itself count twice                     *)
(* (hierarchy.cpp:132-203).                                                *)
WeightsAddUp ==
    /\ IsNew =>
        \A i, k \in DOMAIN Coarsest.adj :
            LET between == (DOMAIN Coarsest.to_upper[i]) \X Range(Coarsest.to_upper[k])
                sum == FoldLeft(LAMBDA n, p : n + Weight(Finer, Coarsest.to_upper[i][p[1]], p[2]), 0, SetToSeq(between))
            IN /\ Weight(Coarsest.adj, i, k) = IF i = k THEN 0 ELSE sum
               /\ Cardinality({link \in Range(Coarsest.adj[i]) : link.id = k}) = IF i # k /\ sum > 0 THEN 1 ELSE 0
    /\ copying /\ Uncollapsed = {} => \A i \in DOMAIN to_upper : CountedLinks(i) = Len(CoarseLinks(i))
=============================================================================
