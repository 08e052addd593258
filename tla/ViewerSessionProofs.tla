------------------------- MODULE ViewerSessionProofs -------------------------
(***************************************************************************)
(* Machine-checked proofs about ViewerSession: the interactive session,    *)
(* for every set of sessions, every number of levels, sweeps, strokes and  *)
(* events.                                                                 *)
(***************************************************************************)
EXTENDS ViewerSession, OptimizerProofs

-----------------------------------------------------------------------------
(* The handlers as programs.                                               *)

(* Operations that need a complete hierarchy, and those that replace it.   *)
Demanding == {"pushO", "pushP", "solveO", "solveP", "moveSingularity"}
Rebuilding == {"free", "fill", "build"}

Has(p, name) == \E i \in DOMAIN p : p[i].do = name

Before(p, i, name) == \E j \in DOMAIN p : j < i /\ p[j].do = name
After(p, i, name) == \E j \in DOMAIN p : j > i /\ p[j].do = name

(* The program switches the orientation solve off. *)
Cancels(p) == \E i \in DOMAIN p : p[i].do = "solveO" /\ ~p[i].on

(* The operations. *)
OpNames ==
    {"solveO", "solveP", "stop", "select", "level", "moveSingularity", "symmetry", "rosy",
     "rescale", "retarget", "filter", "pushO", "pushP", "clearCont", "popP", "free", "fill",
     "build", "reset", "running", "notify", "join", "save", "restore"}

OpType == [do : OpNames, locked : BOOLEAN, on : BOOLEAN, to : Levels]

(* What every rest of a handler promises about the order of its            *)
(* operations, whatever the state is.                                      *)
Orderly(p) ==
    /\ p \in Seq(OpType)
    /\ \A i \in DOMAIN p :
         /\ p[i].do \in {"free", "fill"} => After(p, i, "build")
         /\ p[i].do \in Rebuilding => After(p, i, "reset")
         /\ p[i].do \in {"save", "restore"} => Len(p) = 1
         /\ p[i].do \in Demanding \/ p[i].to >= 0 =>
              \A j \in DOMAIN p : p[j].do \notin Rebuilding \cup {"reset", "restore", "join"}
         /\ p[i].do = "solveO" => ~Has(p, "solveP")
         /\ p[i].do = "moveSingularity" =>
              \A j \in DOMAIN p : p[j].do = "moveSingularity" => j = i

-----------------------------------------------------------------------------
(* The inductive invariant.                                                *)

(* The interface is queued for the lock exactly while it waits for it.     *)
ClientQueueInv ==
    /\ "client" \in Members(lockq) <=> gpc = "queued"
    /\ gpc = "queued" => prog # << >>
    /\ gpc = "gone" => wpc = "exited"

(* The interface handles events, or is on its way back to it: it is        *)
(* neither deaf nor closing the window.                                    *)
Usable == gpc \notin {"deaf", "gone"} /\ ~Has(prog, "join")

(* A widget can only be on when a mesh was loaded. *)
WidgetsNeedMesh(u) == u.btnO \/ u.btnP \/ u.enabledP \/ u.tool # "none" => u.mesh > 0

(* A loaded mesh has a complete hierarchy and the selected level exists,   *)
(* unless the handler that runs is about to see to it.                     *)
LoadedInv ==
    /\ Usable /\ Loaded /\ ~Has(prog, "build") => built /\ levels > 0
    /\ Usable /\ ~Has(prog, "reset") => ui.sel < levels
    /\ WidgetsNeedMesh(ui)

(* What the rest of the running handler finds. *)
ProgramInv ==
    /\ Orderly(prog)
    /\ \A i \in DOMAIN prog :
         /\ prog[i].to < levels
         /\ prog[i].do \in Demanding \/ prog[i].to >= 0 => Loaded
         /\ prog[i].do \in Rebuilding \cup {"reset"} => ~Active \/ Before(prog, i, "stop")
         /\ prog[i].do = "solveO" /\ prog[i].on => ui.btnO \/ Before(prog, i, "pushO")
         /\ prog[i].do = "moveSingularity" => Len(strokes) < MaxStrokes
         /\ prog[i].do = "restore" => file # NoFile

(* A solve works for one field, at a level that exists. *)
Consistent(o, lv) ==
    o.optO \/ o.optP => o.level \in 0 .. lv - 1 /\ o.optO # o.optP

SolveInv ==
    /\ Active /\ gpc # "gone" => built /\ Consistent(opt, levels)
    /\ wpc \in {"iterate", "sweep"} => Active
    /\ opt.optO => ui.btnO \/ Cancels(prog)

(* So does a solve in the saved session. *)
FileInv ==
    file # NoFile =>
        /\ file.ui.mesh > 0 => file.levels > 0
        /\ file.ui.sel < file.levels
        /\ WidgetsNeedMesh(file.ui)
        /\ Consistent(file.opt, file.levels)
        /\ file.opt.optO => file.ui.btnO

IInv ==
    /\ TypeOK
    /\ WorkerQueueInv
    /\ ClientQueueInv
    /\ LoadedInv
    /\ ProgramInv
    /\ SolveInv
    /\ FileInv

-----------------------------------------------------------------------------
(* Sequences of operations.                                                *)

(* The rest of a program: its operations are those after the first one.    *)
LEMMA RestOf ==
    ASSUME NEW p \in Seq(OpType), p # << >>
    PROVE  /\ 1 \in DOMAIN p /\ Head(p) = p[1] /\ Head(p) \in OpType
           /\ Tail(p) \in Seq(OpType) /\ Len(Tail(p)) = Len(p) - 1
           /\ \A i \in DOMAIN p : i \in Nat \ {0} /\ (i = 1 \/ i - 1 \in DOMAIN Tail(p))
           /\ \A i \in DOMAIN Tail(p) : /\ i \in Nat \ {0} /\ i + 1 \in DOMAIN p
                                        /\ Tail(p)[i] = p[i + 1]
<1>1. Len(p) \in Nat /\ DOMAIN p = 1 .. Len(p) /\ Len(p) # 0
  BY LenProperties, EmptySeq
<1>2. /\ Head(p) = p[1] /\ Tail(p) \in Seq(OpType) /\ Len(Tail(p)) = Len(p) - 1
      /\ \A i \in 1 .. Len(Tail(p)) : Tail(p)[i] = p[i + 1]
  BY HeadTailProperties
<1>3. DOMAIN Tail(p) = 1 .. Len(p) - 1
  BY <1>2, LenProperties
<1>4. p[1] \in OpType
  BY <1>1, ElementOfSeq
<1> QED
  BY <1>1, <1>2, <1>3, <1>4

(* What comes after an operation still comes after it in the rest, and     *)
(* what came before it does unless it was the first.                       *)
LEMMA RestHas ==
    ASSUME NEW p \in Seq(OpType), p # << >>, NEW name
    PROVE  /\ \A i \in DOMAIN Tail(p) : After(Tail(p), i, name) <=> After(p, i + 1, name)
           /\ \A i \in DOMAIN Tail(p) :
                Before(p, i + 1, name) => Head(p).do = name \/ Before(Tail(p), i, name)
           /\ Has(p, name) <=> Head(p).do = name \/ Has(Tail(p), name)
<1>1. /\ 1 \in DOMAIN p /\ Head(p) = p[1]
      /\ \A i \in DOMAIN p : i \in Nat \ {0} /\ (i = 1 \/ i - 1 \in DOMAIN Tail(p))
      /\ \A i \in DOMAIN Tail(p) : /\ i \in Nat \ {0} /\ i + 1 \in DOMAIN p
                                   /\ Tail(p)[i] = p[i + 1]
  BY RestOf
<1>2. ASSUME NEW i \in DOMAIN Tail(p)
      PROVE  After(Tail(p), i, name) <=> After(p, i + 1, name)
  <2>1. ASSUME NEW j \in DOMAIN Tail(p), j > i, Tail(p)[j].do = name
        PROVE  After(p, i + 1, name)
    <3>1. j + 1 \in DOMAIN p /\ j + 1 > i + 1 /\ p[j + 1].do = name
      BY <1>1, <2>1
    <3> QED
      BY <3>1 DEF After
  <2>2. ASSUME NEW j \in DOMAIN p, j > i + 1, p[j].do = name
        PROVE  After(Tail(p), i, name)
    <3>1. j # 1 /\ j \in Nat
      BY <1>1, <2>2
    <3>0. j - 1 \in DOMAIN Tail(p) /\ i \in Nat
      BY <1>1, <2>2, <3>1
    <3>2. j - 1 \in DOMAIN Tail(p) /\ j - 1 > i /\ (j - 1) + 1 = j
      BY <2>2, <3>0, <3>1
    <3>3. Tail(p)[j - 1].do = name
      BY <1>1, <2>2, <3>2
    <3> QED
      BY <3>2, <3>3 DEF After
  <2> QED
    BY <2>1, <2>2 DEF After
<1>3. ASSUME NEW i \in DOMAIN Tail(p), NEW j \in DOMAIN p, j < i + 1, p[j].do = name
      PROVE  Head(p).do = name \/ Before(Tail(p), i, name)
  <2>1. CASE j = 1
    BY <1>1, <1>3, <2>1
  <2>2. CASE j # 1
    <3>0. j - 1 \in DOMAIN Tail(p) /\ i \in Nat /\ j \in Nat
      BY <1>1, <1>3, <2>2
    <3>1. j - 1 \in DOMAIN Tail(p) /\ j - 1 < i /\ (j - 1) + 1 = j
      BY <1>3, <3>0
    <3>2. Tail(p)[j - 1].do = name
      BY <1>1, <1>3, <3>1
    <3> QED
      BY <3>1, <3>2 DEF Before
  <2> QED
    BY <2>1, <2>2
<1>4. Has(p, name) => Head(p).do = name \/ Has(Tail(p), name)
  <2> SUFFICES ASSUME NEW j \in DOMAIN p, p[j].do = name
               PROVE  Head(p).do = name \/ Has(Tail(p), name)
    BY DEF Has
  <2>1. CASE j = 1
    BY <1>1, <2>1
  <2>2. CASE j # 1
    <3>1. j - 1 \in DOMAIN Tail(p) /\ (j - 1) + 1 = j
      BY <1>1, <2>2
    <3>2. Tail(p)[j - 1].do = name
      BY <1>1, <3>1
    <3> QED
      BY <3>1, <3>2 DEF Has
  <2> QED
    BY <2>1, <2>2
<1>5. Head(p).do = name \/ Has(Tail(p), name) => Has(p, name)
  BY <1>1 DEF Has
<1> QED
  BY <1>2, <1>3, <1>4, <1>5 DEF Before

(* The rest of an orderly program is orderly. *)
LEMMA RestIsOrderly ==
    ASSUME NEW p, Orderly(p), p # << >>
    PROVE  Orderly(Tail(p))
<1> DEFINE t == Tail(p)
<1>1. p \in Seq(OpType)
  BY DEF Orderly
<1>2. /\ t \in Seq(OpType) /\ Len(t) = Len(p) - 1
      /\ \A i \in DOMAIN t : /\ i \in Nat \ {0} /\ i + 1 \in DOMAIN p
                             /\ t[i] = p[i + 1]
  BY <1>1, RestOf
<1>3. \A name : \A i \in DOMAIN t : After(t, i, name) <=> After(p, i + 1, name)
  BY <1>1, RestHas
<1>4. \A name : Has(t, name) => Has(p, name)
  BY <1>1, RestHas
<1> HIDE DEF t
<1> SUFFICES ASSUME NEW i \in DOMAIN t
             PROVE  /\ t[i].do \in {"free", "fill"} => After(t, i, "build")
                    /\ t[i].do \in Rebuilding => After(t, i, "reset")
                    /\ t[i].do \in {"save", "restore"} => Len(t) = 1
                    /\ t[i].do \in Demanding \/ t[i].to >= 0 =>
                         \A j \in DOMAIN t : t[j].do \notin Rebuilding \cup {"reset", "restore", "join"}
                    /\ t[i].do = "solveO" => ~Has(t, "solveP")
                    /\ t[i].do = "moveSingularity" =>
                         \A j \in DOMAIN t : t[j].do = "moveSingularity" => j = i
  BY <1>2 DEF Orderly, t
<1>5. i + 1 \in DOMAIN p /\ t[i] = p[i + 1]
  BY <1>2
<1>6. /\ t[i].do \in {"free", "fill"} => After(t, i, "build")
      /\ t[i].do \in Rebuilding => After(t, i, "reset")
  BY <1>1, <1>3, <1>5 DEF Orderly
<1>7. t[i].do \in {"save", "restore"} => FALSE
  <2>1. t[i].do \in {"save", "restore"} => Len(p) = 1
    BY <1>5 DEF Orderly
  <2>2. Len(p) = 1 => DOMAIN t = {}
    BY <1>2, LenProperties
  <2> QED
    BY <2>1, <2>2
<1>8. t[i].do \in Demanding \/ t[i].to >= 0 =>
        \A j \in DOMAIN t : t[j].do \notin Rebuilding \cup {"reset", "restore", "join"}
  BY <1>2, <1>5 DEF Orderly
<1>9. t[i].do = "solveO" => ~Has(t, "solveP")
  BY <1>4, <1>5 DEF Orderly
<1>10. t[i].do = "moveSingularity" => \A j \in DOMAIN t : t[j].do = "moveSingularity" => j = i
  <2> SUFFICES ASSUME t[i].do = "moveSingularity", NEW j \in DOMAIN t, t[j].do = "moveSingularity"
               PROVE  j = i
    OBVIOUS
  <2>1. p[i + 1].do = "moveSingularity" /\ p[j + 1].do = "moveSingularity"
        /\ i + 1 \in DOMAIN p /\ j + 1 \in DOMAIN p
    BY <1>2
  <2>2. j + 1 = i + 1
    BY <2>1 DEF Orderly
  <2> QED
    BY <1>2, <2>2
<1> QED
  BY <1>6, <1>7, <1>8, <1>9, <1>10

-----------------------------------------------------------------------------
(* The stores of a call that starts a solve, made at once.                 *)

(* Five or six stores are made one after the other. *)
LEMMA StoreAllIs ==
    ASSUME NEW o, NEW s, Len(s) \in {5, 6}
    PROVE  StoreAll(o, s) =
             LET five == Store(Store(Store(Store(Store(o, s[1]), s[2]), s[3]), s[4]), s[5])
             IN IF Len(s) = 5 THEN five ELSE Store(five, s[6])
<1> DEFINE n == Len(s)
           IsAfter(f) == f = [i \in 0 .. n |-> IF i = 0 THEN o ELSE Store(f[i - 1], s[i])]
<1>1. StoreAll(o, s) = (CHOOSE f : IsAfter(f))[n]
  BY DEF StoreAll
<1>2. n \in {5, 6}
  OBVIOUS
<1> HIDE DEF n
<1> DEFINE a == Store(o, s[1])
           b == Store(a, s[2])
           c == Store(b, s[3])
           d == Store(c, s[4])
           e == Store(d, s[5])
           g == [i \in 0 .. n |-> IF i = 0 THEN o ELSE IF i = 1 THEN a ELSE IF i = 2 THEN b
                                  ELSE IF i = 3 THEN c ELSE IF i = 4 THEN d
                                  ELSE IF i = 5 THEN e ELSE Store(e, s[6])]
<1>3. \E f : IsAfter(f)
  <2>1. /\ g[0] = o /\ g[1] = a /\ g[2] = b /\ g[3] = c /\ g[4] = d /\ g[5] = e
        /\ n = 6 => g[6] = Store(e, s[6])
    <3> HIDE DEF a, b, c, d, e
    <3> QED
      BY <1>2
  <2>2. /\ a = Store(o, s[1]) /\ b = Store(a, s[2]) /\ c = Store(b, s[3])
        /\ d = Store(c, s[4]) /\ e = Store(d, s[5])
    OBVIOUS
  <2>3. g = [i \in 0 .. n |-> g[i]]
    OBVIOUS
  <2> HIDE DEF a, b, c, d, e, g
  <2>4. ASSUME NEW i \in 0 .. n
        PROVE  g[i] = IF i = 0 THEN o ELSE Store(g[i - 1], s[i])
    <3>1. i \in {0, 1, 2, 3, 4, 5} \/ (n = 6 /\ i = 6)
      BY <1>2
    <3>2. CASE i = 0
      BY <2>1, <3>2
    <3>3. CASE i = 1
      BY <2>1, <2>2, <3>3
    <3>4. CASE i = 2
      BY <2>1, <2>2, <3>4
    <3>5. CASE i = 3
      BY <2>1, <2>2, <3>5
    <3>6. CASE i = 4
      BY <2>1, <2>2, <3>6
    <3>7. CASE i = 5
      BY <2>1, <2>2, <3>7
    <3>8. CASE n = 6 /\ i = 6
      BY <2>1, <2>2, <3>8
    <3> QED
      BY <3>1, <3>2, <3>3, <3>4, <3>5, <3>6, <3>7, <3>8
  <2>5. g = [i \in 0 .. n |-> IF i = 0 THEN o ELSE Store(g[i - 1], s[i])]
    BY <2>3, <2>4
  <2> QED
    BY <2>5
<1>4. PICK h : h = (CHOOSE f : IsAfter(f)) /\ IsAfter(h)
  BY <1>3
<1>5. \A i \in 0 .. n : h[i] = IF i = 0 THEN o ELSE Store(h[i - 1], s[i])
  BY <1>4
<1>6. h[0] = o /\ h[1] = Store(h[0], s[1]) /\ h[2] = Store(h[1], s[2])
  BY <1>2, <1>5
<1>7. h[3] = Store(h[2], s[3]) /\ h[4] = Store(h[3], s[4]) /\ h[5] = Store(h[4], s[5])
  BY <1>2, <1>5
<1>8. n = 6 => h[6] = Store(h[5], s[6])
  BY <1>2, <1>5
<1>9. StoreAll(o, s) = h[n]
  BY <1>1, <1>4
<1>10. h[5] = Store(Store(Store(Store(Store(o, s[1]), s[2]), s[3]), s[4]), s[5])
  BY <1>6, <1>7, Zenon
<1>11. CASE n = 5
  BY <1>9, <1>10, <1>11 DEF n
<1>12. CASE n = 6
  BY <1>8, <1>9, <1>10, <1>12 DEF n
<1> QED
  BY <1>2, <1>11, <1>12

(* Five stores are appended in two steps. *)
LEMMA ConcatFive ==
    ASSUME NEW a, NEW b, NEW d, NEW e, NEW f
    PROVE  << a, b >> \o << >> \o << d, e, f >> = << a, b, d, e, f >>
<1> DEFINE S == {a, b, d, e, f}
           s == << a, b >> \o << >>
           t == s \o << d, e, f >>
           r == << a, b, d, e, f >>
<1>0. a \in S /\ b \in S /\ d \in S /\ e \in S /\ f \in S
  OBVIOUS
<1> HIDE DEF S
<1>1. << a, b >> \in Seq(S) /\ << >> \in Seq(S) /\ << d, e, f >> \in Seq(S) /\ r \in Seq(S)
  BY <1>0
<1>2. s \in Seq(S) /\ Len(s) = 2 /\ s[1] = a /\ s[2] = b
  BY <1>1, ConcatProperties
<1>3. /\ t \in Seq(S) /\ Len(t) = 5
      /\ t[1] = a /\ t[2] = b /\ t[3] = d /\ t[4] = e /\ t[5] = f
  <2>1. LET q == << d, e, f >> IN Len(q) = 3 /\ q[1] = d /\ q[2] = e /\ q[3] = f
    OBVIOUS
  <2> HIDE DEF s
  <2>2. /\ t \in Seq(S) /\ Len(t) = 2 + 3
        /\ \A i \in 1 .. 2 + 3 : t[i] = IF i <= 2 THEN s[i] ELSE << d, e, f >>[i - 2]
    <3>1. s \in Seq(S) /\ << d, e, f >> \in Seq(S) /\ Len(s) = 2
      BY <1>1, <1>2
    <3> QED
      BY <2>1, <3>1, ConcatProperties
  <2>3. 2 + 3 = 5 /\ 3 - 2 = 1 /\ 4 - 2 = 2 /\ 5 - 2 = 3
    OBVIOUS
  <2> QED
    BY <1>2, <2>1, <2>2, <2>3
<1>4. /\ r \in Seq(S) /\ Len(r) = 5
      /\ r[1] = a /\ r[2] = b /\ r[3] = d /\ r[4] = e /\ r[5] = f
  BY <1>1
<1> HIDE DEF t, r
<1>5. \A i \in 1 .. Len(t) : t[i] = r[i]
  BY <1>3, <1>4
<1>6. t = r
  BY <1>3, <1>4, <1>5, SeqEqual
<1> QED
  BY <1>6 DEF t, r, s

(* Where a solve starts that is asked for at a level that exists. *)
LEMMA TargetExists ==
    ASSUME levels \in 0 .. MaxLevels, levels > 0, NEW lv \in Levels, lv < levels
    PROVE  TargetLevel(lv) \in 0 .. levels - 1 /\ TargetLevel(lv) \in Levels
  BY MaxLevelsAssumption DEF TargetLevel, Levels

(* An assignment to one member leaves the others alone. *)
LEMMA MemberFrame ==
    ASSUME NEW o \in OptType, NEW x
    PROVE  /\ [o EXCEPT !.level = x].level = x
           /\ [o EXCEPT !.hier = x].level = o.level
           /\ [o EXCEPT !.frozenQ = x].level = o.level
           /\ [o EXCEPT !.frozenO = x].level = o.level
           /\ [o EXCEPT !.iters = x].level = o.level
           /\ [o EXCEPT !.optP = x].level = o.level /\ [o EXCEPT !.optP = x].optP = x
           /\ [o EXCEPT !.optO = x].level = o.level /\ [o EXCEPT !.optO = x].optO = x
           /\ [o EXCEPT !.optO = x].optP = o.optP
  BY DEF OptType

(* The stores of a call that starts a solve: the level, the kind of the    *)
(* solve, perhaps a frozen flag, the counter, and the two switches.        *)
LEMMA SolveStores ==
    ASSUME NEW o \in OptType, NEW l \in Levels, NEW h \in BOOLEAN, NEW x \in BOOLEAN,
           NEW y \in BOOLEAN, NEW z \in BOOLEAN, NEW s,
           s[1] = <<"level", l>>, s[2] = <<"hier", h>>,
           \/ /\ Len(s) = 6
              /\ s[3] = <<"frozenQ", z>> \/ s[3] = <<"frozenO", z>>
              /\ s[4] = <<"iters", 0>> /\ s[5] = <<"optP", x>> /\ s[6] = <<"optO", y>>
           \/ /\ Len(s) = 5
              /\ s[3] = <<"iters", 0>> /\ s[4] = <<"optP", x>> /\ s[5] = <<"optO", y>>
    PROVE  /\ StoreAll(o, s) \in OptType /\ StoreAll(o, s).level = l
           /\ StoreAll(o, s).optP = x /\ StoreAll(o, s).optO = y
<1> DEFINE o1 == [o EXCEPT !.level = l]
           o2 == [o1 EXCEPT !.hier = h]
           r1(p) == [p EXCEPT !.iters = 0]
           r2(p) == [r1(p) EXCEPT !.optP = x]
           Rest(p) == [r2(p) EXCEPT !.optO = y]
<1>1. Len(s) \in {5, 6}
  OBVIOUS
<1>0. ASSUME NEW p \in OptType
      PROVE  /\ [p EXCEPT !.level = l] \in OptType
             /\ [p EXCEPT !.hier = h] \in OptType
             /\ [p EXCEPT !.frozenQ = z] \in OptType
             /\ [p EXCEPT !.frozenO = z] \in OptType
             /\ [p EXCEPT !.iters = 0] \in OptType
             /\ [p EXCEPT !.optP = x] \in OptType
             /\ [p EXCEPT !.optO = y] \in OptType
  <2>1. [p EXCEPT !.level = l] \in OptType
    BY DEF OptType
  <2>2. [p EXCEPT !.hier = h] \in OptType
    BY DEF OptType
  <2>3. [p EXCEPT !.frozenQ = z] \in OptType
    BY DEF OptType
  <2>4. [p EXCEPT !.frozenO = z] \in OptType
    BY DEF OptType
  <2>5. [p EXCEPT !.iters = 0] \in OptType
    BY LevelIterationsAssumption DEF OptType
  <2>6. [p EXCEPT !.optP = x] \in OptType
    BY DEF OptType
  <2>7. [p EXCEPT !.optO = y] \in OptType
    BY DEF OptType
  <2> QED
    BY <2>1, <2>2, <2>3, <2>4, <2>5, <2>6, <2>7
<1>2. Store(Store(o, s[1]), s[2]) = o2
  <2>1. Store(o, <<"level", l>>) = o1
    BY DEF Store
  <2> HIDE DEF o1
  <2>2. Store(o1, <<"hier", h>>) = o2
    BY DEF Store
  <2> QED
    BY <2>1, <2>2
<1>3. o2 \in OptType /\ o2.level = l
  <2>1. o1 \in OptType
    BY <1>0, Zenon
  <2>2. o1.level = l
    BY MemberFrame
  <2> HIDE DEF o1
  <2>3. o2 \in OptType
    BY <2>1, <1>0, Zenon
  <2> QED
    BY <2>1, <2>2, <2>3, MemberFrame
<1>4. ASSUME NEW p
      PROVE  Store(Store(Store(p, <<"iters", 0>>), <<"optP", x>>), <<"optO", y>>) = Rest(p)
  <2>1. Store(p, <<"iters", 0>>) = r1(p)
    BY DEF Store
  <2> HIDE DEF r1
  <2>2. Store(r1(p), <<"optP", x>>) = r2(p)
    BY DEF Store
  <2> HIDE DEF r2
  <2>3. Store(r2(p), <<"optO", y>>) = Rest(p)
    BY DEF Store
  <2> HIDE DEF Rest
  <2> QED
    BY <2>1, <2>2, <2>3
<1>5. ASSUME NEW p \in OptType, p.level = l
      PROVE  /\ Rest(p) \in OptType /\ Rest(p).level = l
             /\ Rest(p).optP = x /\ Rest(p).optO = y
  <2>2. r1(p) \in OptType
    BY <1>0, <1>5, Zenon
  <2>3. r1(p).level = l
    BY <1>5, MemberFrame
  <2> HIDE DEF r1
  <2>4. r2(p) \in OptType
    BY <1>0, <2>2, Zenon
  <2>5. r2(p).level = l /\ r2(p).optP = x
    BY <2>2, <2>3, MemberFrame
  <2> HIDE DEF r2
  <2>6. Rest(p) \in OptType
    BY <1>0, <2>4, Zenon
  <2>7. Rest(p).level = l /\ Rest(p).optP = x /\ Rest(p).optO = y
    BY <2>4, <2>5, MemberFrame
  <2> QED
    BY <2>6, <2>7
<1> HIDE DEF o2, Rest
<1>6. CASE Len(s) = 6
  <2>1. PICK p : p = Store(o2, s[3])
    OBVIOUS
  <2>2. p = [o2 EXCEPT !.frozenQ = z] \/ p = [o2 EXCEPT !.frozenO = z]
    <3>1. /\ Store(o2, <<"frozenQ", z>>) = [o2 EXCEPT !.frozenQ = z]
          /\ Store(o2, <<"frozenO", z>>) = [o2 EXCEPT !.frozenO = z]
      BY DEF Store
    <3> QED
      BY <1>6, <2>1, <3>1
  <2>3. p \in OptType
    BY <1>0, <1>3, <2>2, Zenon
  <2>6. p.level = l
    <3>1. CASE p = [o2 EXCEPT !.frozenQ = z]
      BY <1>3, <3>1, MemberFrame, Zenon
    <3>2. CASE p = [o2 EXCEPT !.frozenO = z]
      BY <1>3, <3>2, MemberFrame, Zenon
    <3> QED
      BY <2>2, <3>1, <3>2
  <2>4. StoreAll(o, s) = Store(Store(Store(p, s[4]), s[5]), s[6])
    BY <1>1, <1>2, <1>6, <2>1, StoreAllIs
  <2>5. StoreAll(o, s) = Rest(p)
    BY <1>4, <1>6, <2>4
  <2> QED
    BY <1>5, <2>3, <2>5, <2>6
<1>7. CASE Len(s) = 5
  <2>1. StoreAll(o, s) = Store(Store(Store(o2, s[3]), s[4]), s[5])
    BY <1>1, <1>2, <1>7, StoreAllIs
  <2>2. StoreAll(o, s) = Rest(o2)
    BY <1>4, <1>7, <2>1
  <2> QED
    BY <1>3, <1>5, <2>2
<1> QED
  BY <1>1, <1>6, <1>7

(* The orientation solve, asked for at a level that exists, starts at one that *)
(* does, and for its own field only.                                       *)
LEMMA OrientationSolveStarts ==
    ASSUME opt \in OptType, levels \in 0 .. MaxLevels, levels > 0, NEW lv \in Levels, lv < levels
    PROVE  LET o == StoreAll(opt, OrientationStores(lv))
           IN /\ o \in OptType /\ o.level \in 0 .. levels - 1
              /\ o.optO = TRUE /\ o.optP = FALSE
<1> DEFINE l == TargetLevel(lv)
           h == lv < 0
           a == <<"level", l>>
           b == <<"hier", h>>
           c == <<"frozenQ", FALSE>>
           d == <<"iters", 0>>
           e == <<"optP", FALSE>>
           f == <<"optO", TRUE>>
           s == OrientationStores(lv)
<1>1. l \in 0 .. levels - 1 /\ l \in Levels /\ h \in BOOLEAN
  BY TargetExists
<1>2. s = << a, b >> \o (IF lv # 0 THEN << c >> ELSE << >>) \o << d, e, f >>
  BY DEF OrientationStores
<1> HIDE DEF l, h, s, a, b, c, d, e, f
<1>3. CASE lv # 0
  <2>1. (IF lv # 0 THEN << c >> ELSE << >>) = << c >>
    BY <1>3
  <2>2. s = << a, b, c, d, e, f >>
    <3>1. s = << a, b >> \o << c >> \o << d, e, f >>
      BY <1>2, <2>1
    <3>2. << a, b >> \o << c >> \o << d, e, f >> = << a, b, c, d, e, f >>
      BY ConcatSix
    <3> QED
      BY <3>1, <3>2, Zenon
  <2>3. /\ Len(s) = 6 /\ s[1] = a /\ s[2] = b /\ s[3] = c /\ s[4] = d /\ s[5] = e /\ s[6] = f
    BY <2>2
  <2>4. /\ StoreAll(opt, s) \in OptType /\ StoreAll(opt, s).level = l
        /\ StoreAll(opt, s).optP = FALSE /\ StoreAll(opt, s).optO = TRUE
    <3>1. PICK T \in BOOLEAN, F \in BOOLEAN : T = TRUE /\ F = FALSE
      OBVIOUS
    <3>2. /\ s[1] = <<"level", l>> /\ s[2] = <<"hier", h>>
          /\ s[3] = <<"frozenQ", F>> /\ s[4] = <<"iters", 0>>
          /\ s[5] = <<"optP", F>> /\ s[6] = <<"optO", T>>
      BY <2>3, <3>1, Zenon DEF a, b, c, d, e, f
    <3>3. /\ StoreAll(opt, s) \in OptType /\ StoreAll(opt, s).level = l
          /\ StoreAll(opt, s).optP = F /\ StoreAll(opt, s).optO = T
      BY <1>1, <2>3, <3>2, SolveStores
    <3> QED
      BY <3>1, <3>3
  <2> QED
    BY <1>1, <2>4 DEF s
<1>4. CASE lv = 0
  <2>1. (IF lv # 0 THEN << c >> ELSE << >>) = << >>
    BY <1>4
  <2>2. s = << a, b, d, e, f >>
    BY <1>2, <2>1, ConcatFive, Zenon
  <2>3. /\ Len(s) = 5 /\ s[1] = a /\ s[2] = b /\ s[3] = d /\ s[4] = e /\ s[5] = f
    BY <2>2
  <2>4. /\ StoreAll(opt, s) \in OptType /\ StoreAll(opt, s).level = l
        /\ StoreAll(opt, s).optP = FALSE /\ StoreAll(opt, s).optO = TRUE
    <3>1. PICK T \in BOOLEAN, F \in BOOLEAN : T = TRUE /\ F = FALSE
      OBVIOUS
    <3>2. /\ s[1] = <<"level", l>> /\ s[2] = <<"hier", h>>
          /\ s[3] = <<"iters", 0>>
          /\ s[4] = <<"optP", F>> /\ s[5] = <<"optO", T>>
      BY <2>3, <3>1, Zenon DEF a, b, d, e, f
    <3>3. /\ StoreAll(opt, s) \in OptType /\ StoreAll(opt, s).level = l
          /\ StoreAll(opt, s).optP = F /\ StoreAll(opt, s).optO = T
      BY <1>1, <2>3, <3>2, SolveStores
    <3> QED
      BY <3>1, <3>3
  <2> QED
    BY <1>1, <2>4 DEF s
<1> QED
  BY <1>3, <1>4

(* The position solve, asked for at a level that exists, starts at one that *)
(* does, and for its own field only.                                       *)
LEMMA PositionSolveStarts ==
    ASSUME opt \in OptType, levels \in 0 .. MaxLevels, levels > 0, NEW lv \in Levels, lv < levels
    PROVE  LET o == StoreAll(opt, PositionStores(lv))
           IN /\ o \in OptType /\ o.level \in 0 .. levels - 1
              /\ o.optO = FALSE /\ o.optP = TRUE
<1> DEFINE l == TargetLevel(lv)
           h == lv < 0
           a == <<"level", l>>
           b == <<"hier", h>>
           c == <<"frozenO", FALSE>>
           d == <<"iters", 0>>
           e == <<"optP", TRUE>>
           f == <<"optO", FALSE>>
           s == PositionStores(lv)
<1>1. l \in 0 .. levels - 1 /\ l \in Levels /\ h \in BOOLEAN
  BY TargetExists
<1>2. s = << a, b >> \o (IF lv # 0 THEN << c >> ELSE << >>) \o << d, e, f >>
  BY DEF PositionStores
<1> HIDE DEF l, h, s, a, b, c, d, e, f
<1>3. CASE lv # 0
  <2>1. (IF lv # 0 THEN << c >> ELSE << >>) = << c >>
    BY <1>3
  <2>2. s = << a, b, c, d, e, f >>
    <3>1. s = << a, b >> \o << c >> \o << d, e, f >>
      BY <1>2, <2>1
    <3>2. << a, b >> \o << c >> \o << d, e, f >> = << a, b, c, d, e, f >>
      BY ConcatSix
    <3> QED
      BY <3>1, <3>2, Zenon
  <2>3. /\ Len(s) = 6 /\ s[1] = a /\ s[2] = b /\ s[3] = c /\ s[4] = d /\ s[5] = e /\ s[6] = f
    BY <2>2
  <2>4. /\ StoreAll(opt, s) \in OptType /\ StoreAll(opt, s).level = l
        /\ StoreAll(opt, s).optP = TRUE /\ StoreAll(opt, s).optO = FALSE
    <3>1. PICK T \in BOOLEAN, F \in BOOLEAN : T = TRUE /\ F = FALSE
      OBVIOUS
    <3>2. /\ s[1] = <<"level", l>> /\ s[2] = <<"hier", h>>
          /\ s[3] = <<"frozenO", F>> /\ s[4] = <<"iters", 0>>
          /\ s[5] = <<"optP", T>> /\ s[6] = <<"optO", F>>
      BY <2>3, <3>1, Zenon DEF a, b, c, d, e, f
    <3>3. /\ StoreAll(opt, s) \in OptType /\ StoreAll(opt, s).level = l
          /\ StoreAll(opt, s).optP = T /\ StoreAll(opt, s).optO = F
      BY <1>1, <2>3, <3>2, SolveStores
    <3> QED
      BY <3>1, <3>3
  <2> QED
    BY <1>1, <2>4 DEF s
<1>4. CASE lv = 0
  <2>1. (IF lv # 0 THEN << c >> ELSE << >>) = << >>
    BY <1>4
  <2>2. s = << a, b, d, e, f >>
    BY <1>2, <2>1, ConcatFive, Zenon
  <2>3. /\ Len(s) = 5 /\ s[1] = a /\ s[2] = b /\ s[3] = d /\ s[4] = e /\ s[5] = f
    BY <2>2
  <2>4. /\ StoreAll(opt, s) \in OptType /\ StoreAll(opt, s).level = l
        /\ StoreAll(opt, s).optP = TRUE /\ StoreAll(opt, s).optO = FALSE
    <3>1. PICK T \in BOOLEAN, F \in BOOLEAN : T = TRUE /\ F = FALSE
      OBVIOUS
    <3>2. /\ s[1] = <<"level", l>> /\ s[2] = <<"hier", h>>
          /\ s[3] = <<"iters", 0>>
          /\ s[4] = <<"optP", T>> /\ s[5] = <<"optO", F>>
      BY <2>3, <3>1, Zenon DEF a, b, d, e, f
    <3>3. /\ StoreAll(opt, s) \in OptType /\ StoreAll(opt, s).level = l
          /\ StoreAll(opt, s).optP = T /\ StoreAll(opt, s).optO = F
      BY <1>1, <2>3, <3>2, SolveStores
    <3> QED
      BY <3>1, <3>3
  <2> QED
    BY <1>1, <2>4 DEF s
<1> QED
  BY <1>3, <1>4


-----------------------------------------------------------------------------
(* The steps of the worker.                                                *)

(* The end of a level goes to the next finer one or stops the solve. *)
LEMMA AfterLevelIs ==
    ASSUME opt \in OptType, levels \in 0 .. MaxLevels, Consistent(opt, levels)
    PROVE  /\ \/ AfterLevel.optO = opt.optO /\ AfterLevel.optP = opt.optP
              \/ ~AfterLevel.optO /\ ~AfterLevel.optP
           /\ Consistent(AfterLevel, levels)
<1> DEFINE next == [opt EXCEPT !.level = @ - 1, !.iters = 0]
           frozen == [next EXCEPT !.frozenQ = @ \/ opt.optO, !.frozenO = @ \/ opt.optP]
<1>1. next.level = opt.level - 1 /\ next.optO = opt.optO /\ next.optP = opt.optP
  BY DEF OptType
<1>2. DOMAIN frozen = DOMAIN opt
  OBVIOUS
<1>3. ~Stopped(frozen).optO /\ ~Stopped(frozen).optP
  <2> HIDE DEF frozen
  <2> QED
    BY <1>2 DEF Stopped, OptType
<1>4. \/ AfterLevel = opt
      \/ AfterLevel = next /\ next.level >= 0
      \/ AfterLevel = Stopped(frozen)
  BY DEF AfterLevel
<1> HIDE DEF next, frozen
<1>5. CASE AfterLevel = opt
  BY <1>5, Zenon
<1>6. CASE AfterLevel = next /\ next.level >= 0
  <2>1. next.optO \/ next.optP => next.level \in 0 .. levels - 1
    BY <1>1, <1>6, MaxLevelsAssumption DEF Consistent, OptType, Levels
  <2>2. Consistent(next, levels)
    BY <1>1, <2>1 DEF Consistent
  <2> QED
    BY <1>1, <1>6, <2>2
<1>7. CASE AfterLevel = Stopped(frozen)
  BY <1>3, <1>7 DEF Consistent
<1> QED
  BY <1>4, <1>5, <1>6, <1>7

(* The worker keeps the field it works for or stops, it stays at a level   *)
(* that exists, and it only begins to iterate when there is a solve.       *)
LEMMA WorkerOpt ==
    ASSUME OptimizerTypeOK, Consistent(opt, levels), wpc \in {"iterate", "sweep"} => Active,
           NEW mesh, WorkerStep(TRUE, mesh)
    PROVE  /\ levels' = levels
           /\ \/ opt'.optO = opt.optO /\ opt'.optP = opt.optP
              \/ ~opt'.optO /\ ~opt'.optP
           /\ Consistent(opt', levels)
           /\ Len(strokes') <= Len(strokes)
           /\ wpc' \in {"iterate", "sweep"} => Active'
           /\ wpc # "exited"
<1>0. Len(strokes) \in Nat /\ opt \in OptType /\ levels \in 0 .. MaxLevels
  BY LenProperties DEF OptimizerTypeOK
<1>1. CASE WorkerLock \/ WorkerSleep \/ WorkerWake \/ WorkerThrow(mesh)
  BY <1>0, <1>1 DEF WorkerLock, WorkerSleep, WorkerWake, WorkerThrow
<1>2. CASE WorkerTest
  BY <1>0, <1>2 DEF WorkerTest, NothingToDo, Active
<1>3. CASE WorkerBegin(TRUE)
  <2>1. PICK n : opt' = [opt EXCEPT !.iters = n]
    BY <1>3 DEF WorkerBegin
  <2>2. opt'.optO = opt.optO /\ opt'.optP = opt.optP /\ opt'.level = opt.level
    BY <1>0, <2>1 DEF OptType
  <2>3. Consistent(opt', levels)
    BY <2>2 DEF Consistent
  <2>4. wpc = "iterate" /\ levels' = levels /\ strokes' = strokes
    BY <1>3 DEF WorkerBegin
  <2> QED
    BY <1>0, <2>2, <2>3, <2>4 DEF Active
<1>4. CASE WorkerEnd(mesh)
  <2>1. AfterLevel \in OptType
    BY <1>4, AfterLevelType DEF WorkerEnd, Consistent, Active
  <2>2. /\ opt'.optO = AfterLevel.optO /\ opt'.optP = AfterLevel.optP
        /\ opt'.level = AfterLevel.level
    <3>1. opt' = AfterLevel \/ opt' = [AfterLevel EXCEPT !.hier = TRUE, !.iters = 0]
      BY <1>4 DEF WorkerEnd
    <3>2. \A o \in OptType : /\ [o EXCEPT !.hier = TRUE, !.iters = 0].optO = o.optO
                             /\ [o EXCEPT !.hier = TRUE, !.iters = 0].optP = o.optP
                             /\ [o EXCEPT !.hier = TRUE, !.iters = 0].level = o.level
      BY DEF OptType
    <3> QED
      BY <2>1, <3>1, <3>2
  <2>3. Consistent(opt', levels)
    BY <1>0, <2>2, AfterLevelIs DEF Consistent
  <2>4. Len(strokes') <= Len(strokes)
    <3>1. CASE strokes' = strokes
      BY <1>0, <3>1
    <3>2. CASE strokes # << >> /\ \E outcome : strokes' = StrokesAfter(outcome)
      <4>1. Len(strokes) > 0
        BY <3>2, EmptySeq DEF OptimizerTypeOK
      <4>2. Len(SubSeq(strokes, 1, Len(strokes) - 1)) <= Len(strokes)
        BY <1>0, <4>1, SubSeqProperties DEF OptimizerTypeOK
      <4>3. \A x : Len([strokes EXCEPT ![Len(strokes)].len = x]) = Len(strokes)
        BY <1>0 DEF OptimizerTypeOK
      <4> QED
        BY <1>0, <3>2, <4>2, <4>3 DEF StrokesAfter
    <3> QED
      BY <1>4, <3>1, <3>2 DEF WorkerEnd, StrokeDue
  <2>5. wpc = "sweep" /\ wpc' = "lock" /\ levels' = levels
    BY <1>4 DEF WorkerEnd
  <2> QED
    BY <1>0, <2>2, <2>3, <2>4, <2>5, AfterLevelIs
<1> QED
  BY <1>1, <1>2, <1>3, <1>4 DEF WorkerStep

(* The worker keeps the invariant: what the interface relies on while it   *)
(* does not hold the lock, the worker does not touch.                      *)
LEMMA WorkerKeepsIInv ==
    ASSUME IInv, Worker
    PROVE  IInv'
<1>1. /\ WorkerStep(TRUE, ui.mesh) /\ UNCHANGED <<ui, prog, gpc, built, file, restored>>
  BY DEF Worker, WorkerStep, guivars, filevars
<1>2. /\ TypeOK /\ OptimizerTypeOK /\ WorkerQueueInv /\ ClientQueueInv /\ LoadedInv
      /\ ProgramInv /\ SolveInv /\ FileInv
  BY DEF IInv, TypeOK
<1>3. ~Active => Consistent(opt, levels)
  BY DEF Active, Consistent
<1>4. gpc # "gone" => Consistent(opt, levels)
  BY <1>2, <1>3 DEF SolveInv
<1>5. wpc # "exited"
  BY <1>1 DEF WorkerStep, WorkerLock, WorkerTest, WorkerSleep, WorkerWake, WorkerBegin,
              WorkerEnd, WorkerThrow
<1>6. gpc # "gone"
  BY <1>2, <1>5 DEF ClientQueueInv
<1>7. /\ levels' = levels
      /\ \/ opt'.optO = opt.optO /\ opt'.optP = opt.optP
         \/ ~opt'.optO /\ ~opt'.optP
      /\ Consistent(opt', levels)
      /\ Len(strokes') <= Len(strokes)
      /\ wpc' \in {"iterate", "sweep"} => Active'
  <2>1. wpc \in {"iterate", "sweep"} => Active
    BY <1>2 DEF SolveInv
  <2> QED
    BY <1>1, <1>2, <1>4, <1>6, <2>1, WorkerOpt
<1>8. (Active' => Active) /\ (opt'.optO => opt.optO)
  BY <1>7 DEF Active
<1>9. OptimizerTypeOK'
  <2>1. wpc \in {"iterate", "sweep"} => opt.level \in 0 .. levels - 1
    BY <1>2, <1>4, <1>6 DEF SolveInv, Active, Consistent
  <2> QED
    BY <1>1, <1>2, <2>1, WorkerKeepsTypes
<1>10. TypeOK'
  <2>1. Len(strokes') <= MaxStrokes
    BY <1>2, <1>7, <1>9, LenProperties, SessionAssumption DEF TypeOK, OptimizerTypeOK
  <2> QED
    BY <1>1, <1>2, <1>9, <2>1 DEF TypeOK
<1>11. WorkerQueueInv' /\ ("client" \in Members(lockq') <=> "client" \in Members(lockq))
  BY <1>1, <1>2, WorkerKeepsQueue
<1>12. ClientQueueInv'
  BY <1>1, <1>2, <1>6, <1>11 DEF ClientQueueInv
<1>13. LoadedInv'
  BY <1>1, <1>2, <1>7 DEF LoadedInv, Usable, Loaded, Has
<1>14. ProgramInv'
  <2>1. Orderly(prog')
    BY <1>1, <1>2 DEF ProgramInv
  <2>2. ASSUME NEW i \in DOMAIN prog
        PROVE  prog[i].do = "moveSingularity" => Len(strokes') < MaxStrokes
    <3>1. prog[i].do = "moveSingularity" => Len(strokes) < MaxStrokes
      BY <1>2 DEF ProgramInv
    <3> QED
      BY <1>2, <1>7, <1>9, <3>1, LenProperties, SessionAssumption DEF OptimizerTypeOK
  <2> QED
    BY <1>1, <1>2, <1>7, <1>8, <2>1, <2>2 DEF ProgramInv, Loaded, Before
<1>15. SolveInv'
  BY <1>1, <1>2, <1>6, <1>7, <1>8 DEF SolveInv
<1>16. FileInv'
  BY <1>1, <1>2 DEF FileInv
<1> QED
  BY <1>10, <1>11, <1>12, <1>13, <1>14, <1>15, <1>16 DEF IInv

-----------------------------------------------------------------------------
(* The operations of the interface.                                        *)

(* An operation keeps what the rest of its handler finds, if it keeps the  *)
(* few things that the rest may rely on.                                   *)
LEMMA RestOfProgram ==
    ASSUME ProgramInv, prog # << >>, prog' = Tail(prog), levels' \in Nat,
           levels' = levels \/ Head(prog).do \in Rebuilding \cup {"restore", "join"},
           Loaded => Loaded' \/ Head(prog).do = "restore",
           Active' => Active \/ Head(prog).do \in {"solveO", "solveP", "restore"},
           Head(prog).do = "stop" => ~Active',
           ui.btnO => ui'.btnO \/ Head(prog).do \in {"reset", "solveP", "restore"},
           Head(prog).do = "pushO" => ui'.btnO,
           Len(strokes') = Len(strokes) \/ Head(prog).do = "moveSingularity"
    PROVE  ProgramInv'
<1> DEFINE t == Tail(prog)
           name == Head(prog).do
<1>1. Orderly(prog) /\ prog \in Seq(OpType)
  BY DEF ProgramInv, Orderly
<1>2. Orderly(t)
  BY <1>1, RestIsOrderly
<1>3. /\ 1 \in DOMAIN prog /\ name = prog[1].do /\ Len(t) = Len(prog) - 1
      /\ t \in Seq(OpType)
      /\ \A i \in DOMAIN t : /\ i \in Nat \ {0} /\ i + 1 \in DOMAIN prog
                             /\ t[i] = prog[i + 1]
  BY <1>1, RestOf
<1>4. \A x : \A i \in DOMAIN t : Before(prog, i + 1, x) => name = x \/ Before(t, i, x)
  BY <1>1, RestHas
<1>5. prog' = t
  OBVIOUS
<1>6. Len(prog) # 1 \/ DOMAIN t = {}
  BY <1>3, LenProperties
<1> HIDE DEF t, name
<1> SUFFICES ASSUME NEW i \in DOMAIN t
             PROVE  /\ t[i].to < levels'
                    /\ t[i].do \in Demanding \/ t[i].to >= 0 => Loaded'
                    /\ t[i].do \in Rebuilding \cup {"reset"} => ~Active' \/ Before(t, i, "stop")
                    /\ t[i].do = "solveO" /\ t[i].on => ui'.btnO \/ Before(t, i, "pushO")
                    /\ t[i].do = "moveSingularity" => Len(strokes') < MaxStrokes
                    /\ t[i].do = "restore" => file' # NoFile
  BY <1>2, <1>5 DEF ProgramInv
<1> DEFINE k == i + 1
<1>7. k \in DOMAIN prog /\ t[i] = prog[k] /\ k # 1
  BY <1>3
<1>8. name \notin {"save", "restore"}
  BY <1>1, <1>3, <1>6 DEF Orderly
<1>9. prog[k].do \in Demanding \/ prog[k].to >= 0 => name \notin Rebuilding \cup {"reset", "restore", "join"}
  BY <1>1, <1>3, <1>7 DEF Orderly
<1>10. name \in Demanding => prog[k].do \notin Rebuilding \cup {"reset"}
  BY <1>1, <1>3, <1>7 DEF Orderly
<1> HIDE DEF k
<1>11. t[i].to < levels'
  <2>1. prog[k].to < levels
    BY <1>7 DEF ProgramInv
  <2>2. prog[k].to \in Int
    <3>1. k \in 1 .. Len(prog)
      BY <1>1, <1>7, LenProperties
    <3>2. prog[k] \in OpType
      BY <1>1, <3>1, ElementOfSeq
    <3>3. prog[k].to \in Levels
      BY <3>2 DEF OpType
    <3> QED
      BY <3>3, MaxLevelsAssumption DEF Levels
  <2> QED
    BY <1>7, <1>9, <2>1, <2>2 DEF name
<1>12. t[i].do \in Demanding \/ t[i].to >= 0 => Loaded'
  BY <1>7, <1>8 DEF ProgramInv, name
<1>13. t[i].do \in Rebuilding \cup {"reset"} => ~Active' \/ Before(t, i, "stop")
  <2> SUFFICES ASSUME t[i].do \in Rebuilding \cup {"reset"}
               PROVE  ~Active' \/ Before(t, i, "stop")
    OBVIOUS
  <2>1. ~Active \/ name = "stop" \/ Before(t, i, "stop")
    BY <1>4, <1>7 DEF ProgramInv, k
  <2>2. name \notin {"solveO", "solveP"}
    BY <1>7, <1>10 DEF Demanding
  <2> QED
    BY <1>8, <2>1, <2>2 DEF name
<1>14. t[i].do = "solveO" /\ t[i].on => ui'.btnO \/ Before(t, i, "pushO")
  <2> SUFFICES ASSUME t[i].do = "solveO", t[i].on
               PROVE  ui'.btnO \/ Before(t, i, "pushO")
    OBVIOUS
  <2>1. ui.btnO \/ name = "pushO" \/ Before(t, i, "pushO")
    BY <1>4, <1>7 DEF ProgramInv, k
  <2>2. name # "reset"
    BY <1>7, <1>9 DEF Demanding
  <2>3. name # "solveP"
    BY <1>1, <1>3, <1>7 DEF Orderly, Has
  <2> QED
    BY <1>8, <2>1, <2>2, <2>3 DEF name
<1>15. t[i].do = "moveSingularity" => Len(strokes') < MaxStrokes
  <2> SUFFICES ASSUME t[i].do = "moveSingularity"
               PROVE  Len(strokes') < MaxStrokes
    OBVIOUS
  <2>1. name # "moveSingularity"
    BY <1>1, <1>3, <1>7 DEF Orderly
  <2> QED
    BY <1>7, <2>1 DEF ProgramInv, name
<1>16. t[i].do # "restore"
  BY <1>1, <1>6, <1>7 DEF Orderly
<1> QED
  BY <1>11, <1>12, <1>13, <1>14, <1>15, <1>16

(* An operation keeps the loaded mesh usable. *)
LEMMA RestOfLoaded ==
    ASSUME LoadedInv, ProgramInv, prog # << >>, prog' = Tail(prog), gpc \in {"run", "queued"},
           Head(prog).do # "join" \/ gpc' = "gone",
           Loaded' => \/ built' /\ levels' > 0
                      \/ UNCHANGED <<built, levels>> /\ Loaded /\ Head(prog).do # "build"
                      \/ Has(Tail(prog), "build"),
           \/ ui'.sel < levels'
           \/ levels' = levels /\ ui'.sel = ui.sel /\ Head(prog).do # "reset"
           \/ Has(Tail(prog), "reset"),
           WidgetsNeedMesh(ui')
    PROVE  LoadedInv'
<1>1. prog \in Seq(OpType)
  BY DEF ProgramInv, Orderly
<1>2. \A x : Has(prog, x) <=> Head(prog).do = x \/ Has(Tail(prog), x)
  BY <1>1, RestHas
<1>3. Usable' => Usable
  BY <1>2 DEF Usable
<1>4. Usable' /\ Loaded' /\ ~Has(prog', "build") => built' /\ levels' > 0
  BY <1>2, <1>3 DEF LoadedInv
<1>5. Usable' /\ ~Has(prog', "reset") => ui'.sel < levels'
  BY <1>2, <1>3 DEF LoadedInv
<1> QED
  BY <1>4, <1>5 DEF LoadedInv

(* Who begins an operation under the lock is the owner: the worker does    *)
(* not iterate, and the places in the queue stay in order.                 *)
LEMMA TurnSetting ==
    ASSUME IInv, NEW name, Turn(name), asleep' \subseteq asleep
    PROVE  /\ gpc \in {"run", "queued"} /\ gpc' = "run"
           /\ prog # << >> /\ prog' = Tail(prog) /\ Head(prog).do = name
           /\ wpc' = wpc /\ wloc' = wloc /\ wpc \notin {"iterate", "sweep"}
           /\ lockq' \in Seq(Threads) /\ WorkerQueueInv' /\ ClientQueueInv'
<1>1. /\ gpc = "queued" /\ gpc' = "run" /\ prog' = Tail(prog) /\ Head(prog).do = name
      /\ wpc' = wpc /\ wloc' = wloc /\ Owns("client") /\ lockq' = Tail(lockq)
  BY DEF Turn
<1>2. WorkerQueueInv /\ ClientQueueInv
  BY DEF IInv
<1>3. prog # << >>
  BY <1>1, <1>2 DEF ClientQueueInv
<1>4. wpc \notin {"iterate", "sweep"}
  BY <1>1, <1>2 DEF WorkerQueueInv, Owns
<1>5. WorkerQueueInv' /\ "client" \notin Members(lockq')
  BY <1>1, <1>2, ClientKeepsQueue
<1>6. lockq' \in Seq(Threads)
  BY <1>5 DEF WorkerQueueInv, Queues
<1> QED
  BY <1>1, <1>3, <1>4, <1>5, <1>6 DEF ClientQueueInv

(* An operation without the lock does not change the queue. *)
LEMMA UnlockedSetting ==
    ASSUME IInv, NEW name, Unlocked(name), asleep' \subseteq asleep, UNCHANGED gpc
    PROVE  /\ gpc \in {"run", "queued"} /\ gpc' = "run"
           /\ prog # << >> /\ prog' = Tail(prog) /\ Head(prog).do = name
           /\ wpc' = wpc /\ wloc' = wloc
           /\ lockq' \in Seq(Threads) /\ WorkerQueueInv' /\ ClientQueueInv'
<1>1. /\ gpc = "run" /\ gpc' = "run" /\ prog # << >> /\ prog' = Tail(prog)
      /\ Head(prog).do = name /\ wpc' = wpc /\ wloc' = wloc /\ lockq' = lockq
  BY DEF Unlocked
<1>2. WorkerQueueInv /\ ClientQueueInv
  BY DEF IInv
<1>3. WorkerQueueInv'
  BY <1>1, <1>2, ClientKeepsQueue
<1>4. lockq' \in Seq(Threads)
  BY <1>3 DEF WorkerQueueInv, Queues
<1>5. ClientQueueInv'
  BY <1>1, <1>2 DEF ClientQueueInv
<1> QED
  BY <1>1, <1>3, <1>4, <1>5

(* The first operation of a handler, by itself and among the others. *)
LEMMA FirstOperation ==
    ASSUME IInv, prog # << >>
    PROVE  /\ 1 \in DOMAIN prog /\ Head(prog) = prog[1] /\ Head(prog) \in OpType
           /\ To \in Levels /\ To < levels /\ On \in BOOLEAN
           /\ Head(prog).do \in Demanding \/ To >= 0 => Loaded
           /\ Usable /\ (Head(prog).do \in Demanding \/ To >= 0) => built /\ levels > 0
           /\ Head(prog).do \in Rebuilding \cup {"reset"} => ~Active
           /\ Head(prog).do \in {"free", "fill"} => Has(Tail(prog), "build")
           /\ Head(prog).do \in Rebuilding => Has(Tail(prog), "reset")
           /\ Cancels(prog) => (Head(prog).do = "solveO" /\ ~On) \/ Cancels(Tail(prog))
<1>1. ProgramInv /\ Orderly(prog) /\ prog \in Seq(OpType) /\ LoadedInv
  BY DEF IInv, ProgramInv, Orderly
<1>2. /\ 1 \in DOMAIN prog /\ Head(prog) = prog[1] /\ Head(prog) \in OpType
      /\ \A i \in DOMAIN prog : i \in Nat \ {0} /\ (i = 1 \/ i - 1 \in DOMAIN Tail(prog))
      /\ \A i \in DOMAIN Tail(prog) : /\ i \in Nat \ {0} /\ i + 1 \in DOMAIN prog
                                      /\ Tail(prog)[i] = prog[i + 1]
  BY <1>1, RestOf
<1>3. To \in Levels /\ On \in BOOLEAN
  BY <1>2 DEF To, On, OpType
<1>4. To < levels /\ (Head(prog).do \in Demanding \/ To >= 0 => Loaded)
  BY <1>1, <1>2 DEF ProgramInv, To
<1>5. ASSUME Head(prog).do \in Demanding \/ To >= 0, Usable
      PROVE  built /\ levels > 0
  <2>1. ~Has(prog, "build")
    BY <1>1, <1>2, <1>5 DEF Orderly, Has, To, Rebuilding
  <2> QED
    BY <1>1, <1>4, <1>5, <2>1 DEF LoadedInv
<1>6. \A x : ~Before(prog, 1, x)
  BY <1>2 DEF Before
<1>7. Head(prog).do \in Rebuilding \cup {"reset"} => ~Active
  BY <1>1, <1>2, <1>6 DEF ProgramInv
<1>8. \A j \in DOMAIN prog : j > 1 => j - 1 \in DOMAIN Tail(prog) /\ Tail(prog)[j - 1] = prog[j]
  <2> SUFFICES ASSUME NEW j \in DOMAIN prog, j > 1
               PROVE  j - 1 \in DOMAIN Tail(prog) /\ Tail(prog)[j - 1] = prog[j]
    OBVIOUS
  <2>1. j - 1 \in DOMAIN Tail(prog) /\ (j - 1) + 1 = j
    BY <1>2
  <2> QED
    BY <1>2, <2>1
<1>9. \A x : After(prog, 1, x) => Has(Tail(prog), x)
  BY <1>8 DEF After, Has
<1>10. /\ Head(prog).do \in {"free", "fill"} => Has(Tail(prog), "build")
       /\ Head(prog).do \in Rebuilding => Has(Tail(prog), "reset")
  BY <1>1, <1>2, <1>9 DEF Orderly
<1>11. Cancels(prog) => (Head(prog).do = "solveO" /\ ~On) \/ Cancels(Tail(prog))
  <2> SUFFICES ASSUME NEW j \in DOMAIN prog, prog[j].do = "solveO", ~prog[j].on
               PROVE  (Head(prog).do = "solveO" /\ ~On) \/ Cancels(Tail(prog))
    BY DEF Cancels
  <2>1. CASE j = 1
    BY <1>2, <2>1 DEF On
  <2>2. CASE j # 1
    <3>1. j > 1
      BY <1>2, <2>2
    <3> QED
      BY <1>8, <3>1 DEF Cancels
  <2> QED
    BY <2>1, <2>2
<1> QED
  BY <1>2, <1>3, <1>4, <1>5, <1>7, <1>10, <1>11

(* An operation that keeps the hierarchy, the selected level and the       *)
(* orientation button, and at most stops the solve, keeps the invariant.   *)
LEMMA QuietOperation ==
    ASSUME IInv, TypeOK', WorkerQueueInv', ClientQueueInv', wpc' = wpc,
           prog # << >>, prog' = Tail(prog), gpc \in {"run", "queued"}, gpc' = "run",
           Head(prog).do \notin {"join", "build", "reset", "pushO"},
           Head(prog).do = "solveO" => ~opt'.optO,
           Head(prog).do = "stop" => ~Active',
           levels' = levels, built' = built, file' = file,
           Len(strokes') = Len(strokes) \/ Head(prog).do = "moveSingularity",
           ui'.btnO = ui.btnO, ui'.mesh = ui.mesh, ui'.sel = ui.sel, WidgetsNeedMesh(ui'),
           opt'.optO => opt.optO, Active' => Active, Consistent(opt', levels),
           wpc \in {"iterate", "sweep"} => Active'
    PROVE  IInv'
<1>1. LoadedInv /\ ProgramInv /\ SolveInv /\ FileInv
  BY DEF IInv
<1>2. levels \in Nat
  BY MaxLevelsAssumption DEF IInv, TypeOK, OptimizerTypeOK
<1>3. Loaded' <=> Loaded
  BY DEF Loaded
<1>4. ProgramInv'
  BY <1>1, <1>2, <1>3, RestOfProgram
<1>5. LoadedInv'
  BY <1>1, <1>3, RestOfLoaded
<1>6. SolveInv'
  <2>1. Active' /\ gpc' # "gone" => built' /\ Consistent(opt', levels')
    BY <1>1 DEF SolveInv
  <2>2. opt'.optO => ui'.btnO \/ Cancels(prog')
    BY <1>1, FirstOperation DEF SolveInv
  <2> QED
    BY <2>1, <2>2 DEF SolveInv
<1>7. FileInv'
  BY <1>1 DEF FileInv
<1> QED
  BY <1>4, <1>5, <1>6, <1>7 DEF IInv

(* What the operations need of the invariant. *)
LEMMA Typed ==
    ASSUME IInv
    PROVE  /\ OptimizerTypeOK /\ opt \in OptType /\ ui \in UiType /\ levels \in Nat
           /\ levels \in 0 .. MaxLevels /\ strokes \in Seq(StrokeType) /\ asleep \subseteq Threads
           /\ WidgetsNeedMesh(ui) /\ (gpc \in {"run", "queued"} => Consistent(opt, levels))
           /\ \A o : o.optO = FALSE /\ o.optP = FALSE => Consistent(o, levels)
           /\ ~Stopped(opt).optO /\ ~Stopped(opt).optP /\ Stopped(opt) \in OptType
<1>1. opt \in OptType
  BY DEF IInv, TypeOK, OptimizerTypeOK
<1>2. ~Stopped(opt).optO /\ ~Stopped(opt).optP /\ Stopped(opt) \in OptType
  BY <1>1, StoppedType DEF Stopped, OptType
<1>3. levels \in Nat
  BY MaxLevelsAssumption DEF IInv, TypeOK, OptimizerTypeOK
<1>4. \A o : o.optO = FALSE /\ o.optP = FALSE => Consistent(o, levels)
  BY DEF Consistent
<1>5. gpc \in {"run", "queued"} => Consistent(opt, levels)
  BY DEF IInv, SolveInv, Active, Consistent
<1> QED
  BY <1>1, <1>2, <1>3, <1>4, <1>5 DEF IInv, TypeOK, OptimizerTypeOK, LoadedInv

(* The types after an operation. *)
LEMMA OperationType ==
    ASSUME IInv, lockq' \in Seq(Threads), asleep' \subseteq asleep, opt' \in OptType,
           levels' \in 0 .. MaxLevels, strokes' \in Seq(StrokeType), Len(strokes') <= MaxStrokes,
           wpc' = wpc, wloc' = wloc, ui' \in UiType, file' = file, restored' = restored,
           gpc' \in {"run", "queued", "deaf", "gone"}, built' \in BOOLEAN
    PROVE  TypeOK'
  BY DEF IInv, TypeOK, OptimizerTypeOK

(* stop() in loadInput() and in resetState(). *)
LEMMA StopKeepsIInv ==
    ASSUME IInv, Stop, UNCHANGED filevars
    PROVE  IInv'
<1>1. /\ Turn("stop") /\ opt' = Stopped(opt) /\ asleep' = {}
      /\ UNCHANGED <<levels, strokes, ui, built, file, restored>>
  BY DEF Stop, AsleepAfterStop, filevars
<1>2. /\ gpc \in {"run", "queued"} /\ gpc' = "run"
      /\ prog # << >> /\ prog' = Tail(prog) /\ Head(prog).do = "stop"
      /\ wpc' = wpc /\ wloc' = wloc /\ wpc \notin {"iterate", "sweep"}
      /\ lockq' \in Seq(Threads) /\ WorkerQueueInv' /\ ClientQueueInv'
  BY <1>1, TurnSetting
<1>3. ~opt'.optO /\ ~opt'.optP /\ opt' \in OptType /\ Consistent(opt', levels)
  BY <1>1, Typed DEF Consistent
<1>4. ~Active'
  BY <1>3 DEF Active
<1>5. TypeOK'
  BY <1>1, <1>2, <1>3, OperationType, Typed DEF IInv, TypeOK
<1>6. WidgetsNeedMesh(ui')
  BY <1>1, Typed
<1> QED
  BY <1>1, <1>2, <1>3, <1>4, <1>5, <1>6, QuietOperation

(* The second half of setLevel(): the selected level exists. *)
LEMMA ChangeLevelKeepsIInv ==
    ASSUME IInv, ChangeLevel, UNCHANGED filevars
    PROVE  IInv'
<1>1. /\ Turn("level") /\ asleep' \subseteq asleep
      /\ UNCHANGED <<levels, strokes, ui, built, file, restored>>
  BY DEF ChangeLevel, AsleepAfterStop, filevars
<1>2. /\ gpc \in {"run", "queued"} /\ gpc' = "run"
      /\ prog # << >> /\ prog' = Tail(prog) /\ Head(prog).do = "level"
      /\ wpc' = wpc /\ wloc' = wloc /\ wpc \notin {"iterate", "sweep"}
      /\ lockq' \in Seq(Threads) /\ WorkerQueueInv' /\ ClientQueueInv'
  BY <1>1, TurnSetting
<1>3. To \in Levels /\ To < levels /\ opt \in OptType
  BY <1>2, FirstOperation, Typed
<1>4. /\ opt' \in OptType /\ Consistent(opt', levels)
      /\ opt'.optO => opt.optO
      /\ opt'.optP => opt.optP
  <2> DEFINE o == [opt EXCEPT !.level = To]
  <2>1. /\ o \in OptType /\ o.level = To /\ o.optO = opt.optO /\ o.optP = opt.optP
        /\ Stopped(o) \in OptType
    BY <1>3, StoppedType DEF OptType
  <2>2. ~Stopped(o).optO /\ ~Stopped(o).optP
    <3> HIDE DEF o
    <3> QED
      BY <2>1 DEF Stopped, OptType
  <2> HIDE DEF o
  <2>3. CASE To = -1
    <3>1. opt' = Stopped(o)
      BY <2>3 DEF ChangeLevel, o
    <3> QED
      BY <2>1, <2>2, <3>1 DEF Consistent
  <2>4. CASE To # -1
    <3>1. opt' = o
      BY <2>4 DEF ChangeLevel, o
    <3>2. o.level \in 0 .. levels - 1
      BY <1>3, <2>1, <2>4, Typed, MaxLevelsAssumption DEF Levels
    <3>3. Consistent(opt, levels)
      BY <1>2, Typed
    <3> QED
      BY <2>1, <3>1, <3>2, <3>3 DEF Consistent
  <2> QED
    BY <2>3, <2>4
<1>5. Active' => Active
  BY <1>4 DEF Active
<1>6. TypeOK'
  BY <1>1, <1>2, <1>4, OperationType, Typed DEF IInv, TypeOK
<1>7. WidgetsNeedMesh(ui')
  BY <1>1, Typed
<1> QED
  BY <1>1, <1>2, <1>4, <1>5, <1>6, <1>7, QuietOperation

(* moveSingularity(): the handler that draws the stroke made sure that     *)
(* there is room for it, and level 0 exists.                               *)
LEMMA MoveSingularityKeepsIInv ==
    ASSUME IInv, MoveSingularity, UNCHANGED filevars
    PROVE  IInv'
<1>1. /\ Turn("moveSingularity") /\ asleep' \subseteq asleep
      /\ UNCHANGED <<levels, ui, built, file, restored>>
      /\ opt' = [opt EXCEPT !.level = 0]
  BY DEF MoveSingularity, filevars
<1>2. /\ gpc \in {"run", "queued"} /\ gpc' = "run"
      /\ prog # << >> /\ prog' = Tail(prog) /\ Head(prog).do = "moveSingularity"
      /\ wpc' = wpc /\ wloc' = wloc /\ wpc \notin {"iterate", "sweep"}
      /\ lockq' \in Seq(Threads) /\ WorkerQueueInv' /\ ClientQueueInv'
  BY <1>1, TurnSetting
<1>3. /\ 1 \in DOMAIN prog /\ Head(prog) = prog[1] /\ opt \in OptType /\ levels \in Nat
      /\ ui \in UiType /\ strokes \in Seq(StrokeType) /\ levels \in 0 .. MaxLevels
  BY <1>2, FirstOperation, Typed
<1>4. Len(strokes) < MaxStrokes /\ Loaded
  BY <1>2, <1>3 DEF IInv, ProgramInv, Demanding
<1>5. levels > 0
  <2>1. ~Has(prog, "join") /\ ~Has(prog, "build")
    BY <1>2, <1>3 DEF IInv, ProgramInv, Orderly, Has, Demanding, Rebuilding
  <2> QED
    BY <1>2, <1>4, <2>1 DEF IInv, LoadedInv, Usable
<1>6. /\ opt' \in OptType /\ Consistent(opt', levels)
      /\ opt'.optO = opt.optO /\ opt'.optP = opt.optP
  <2>1. /\ opt'.level = 0 /\ opt'.optO = opt.optO /\ opt'.optP = opt.optP
        /\ opt' \in OptType
    BY <1>1, <1>3, MaxLevelsAssumption DEF OptType, Levels
  <2>2. Consistent(opt, levels)
    BY <1>2, Typed
  <2> QED
    BY <1>3, <1>5, <2>1, <2>2 DEF Consistent
<1>7. strokes' \in Seq(StrokeType) /\ Len(strokes') = Len(strokes) + 1
  <2>1. PICK len \in StrokeLengths, adjacent \in BOOLEAN :
          strokes' = Append(strokes, [len |-> len, mesh |-> ui.mesh, adjacent |-> adjacent])
    BY DEF MoveSingularity
  <2>2. [len |-> len, mesh |-> ui.mesh, adjacent |-> adjacent] \in StrokeType
    BY <1>3, SessionAssumption DEF StrokeType, UiType
  <2> QED
    BY <1>3, <2>1, <2>2, AppendProperties
<1>8. Len(strokes') <= MaxStrokes
  BY <1>3, <1>4, <1>7, LenProperties, SessionAssumption
<1>9. TypeOK'
  BY <1>1, <1>2, <1>3, <1>6, <1>7, <1>8, OperationType DEF IInv, TypeOK
<1>10. WidgetsNeedMesh(ui') /\ (Active' => Active)
  BY <1>1, <1>6, Typed DEF Active
<1> QED
  BY <1>1, <1>2, <1>6, <1>9, <1>10, QuietOperation

(* The operations that only touch widgets which do not start a solve, or   *)
(* the frozen flags, or the output.                                        *)
LEMMA WidgetOperation ==
    ASSUME IInv, NEW name, Turn(name) \/ (Unlocked(name) /\ UNCHANGED gpc),
           name \notin {"join", "build", "reset", "pushO", "solveO", "stop"},
           asleep' \subseteq asleep, UNCHANGED <<levels, strokes, built, file, restored>>,
           opt' \in OptType, opt'.optO = opt.optO, opt'.optP = opt.optP, opt'.level = opt.level,
           ui' \in UiType, WidgetsNeedMesh(ui'),
           ui'.btnO = ui.btnO, ui'.mesh = ui.mesh, ui'.sel = ui.sel
    PROVE  IInv'
<1>1. /\ gpc \in {"run", "queued"} /\ gpc' = "run"
      /\ prog # << >> /\ prog' = Tail(prog) /\ Head(prog).do = name
      /\ wpc' = wpc /\ wloc' = wloc
      /\ lockq' \in Seq(Threads) /\ WorkerQueueInv' /\ ClientQueueInv'
  BY TurnSetting, UnlockedSetting
<1>2. Consistent(opt', levels)
  BY <1>1, Typed DEF Consistent
<1>3. Active' <=> Active
  BY DEF Active
<1>4. wpc \in {"iterate", "sweep"} => Active'
  BY <1>3 DEF IInv, SolveInv
<1>5. TypeOK'
  BY <1>1, OperationType, Typed DEF IInv, TypeOK
<1> QED
  BY <1>1, <1>2, <1>3, <1>4, <1>5, QuietOperation

(* These are: *)
LEMMA WidgetOperationsKeepIInv ==
    ASSUME IInv, UNCHANGED filevars,
           \/ SetSymmetry \/ Rescale \/ Filter \/ PushPosition \/ ClearContinue \/ PopPosition
           \/ StopRunning \/ NotifyExit
    PROVE  IInv'
<1>1. opt \in OptType /\ ui \in UiType /\ WidgetsNeedMesh(ui)
  BY Typed
<1>2. file' = file /\ restored' = restored
  BY DEF filevars
<1>3. CASE SetSymmetry
  <2>1. PICK rosy4 \in FourFold : ui' = [ui EXCEPT !.rosy4 = rosy4, !.attractors = {}]
    BY <1>3 DEF SetSymmetry
  <2>2. /\ ui' \in UiType /\ ui'.btnO = ui.btnO /\ ui'.btnP = ui.btnP /\ ui'.tool = ui.tool
        /\ ui'.enabledP = ui.enabledP /\ ui'.mesh = ui.mesh /\ ui'.sel = ui.sel
    BY <1>1, <2>1, SessionAssumption DEF UiType
  <2>3. WidgetsNeedMesh(ui')
    BY <1>1, <2>2 DEF WidgetsNeedMesh
  <2>4. /\ Unlocked("rosy") /\ UNCHANGED <<asleep, opt, levels, strokes, gpc, built>>
    BY <1>3 DEF SetSymmetry
  <2> QED
    BY <1>1, <1>2, <2>2, <2>3, <2>4, WidgetOperation
<1>4. CASE Rescale
  <2>1. /\ Turn("rescale") \/ Turn("retarget")
        /\ UNCHANGED <<asleep, opt, levels, strokes, ui, built>>
    BY <1>4 DEF Rescale
  <2> QED
    BY <1>1, <1>2, <2>1, WidgetOperation
<1>5. CASE Filter
  <2>1. /\ Turn("filter") /\ UNCHANGED <<asleep, levels, strokes, ui, built>>
        /\ opt' \in {opt, [opt EXCEPT !.frozenQ = TRUE]}
    BY <1>5 DEF Filter
  <2>2. /\ opt' \in OptType /\ opt'.optO = opt.optO /\ opt'.optP = opt.optP
        /\ opt'.level = opt.level
    BY <1>1, <2>1 DEF OptType
  <2> QED
    BY <1>1, <1>2, <2>1, <2>2, WidgetOperation
<1>6. CASE PushPosition
  <2>1. /\ Unlocked("pushP") /\ UNCHANGED <<asleep, opt, levels, strokes, gpc, built>>
        /\ ui' = [ui EXCEPT !.btnP = TRUE] /\ prog # << >> /\ Head(prog).do = "pushP"
    BY <1>6 DEF PushPosition, Unlocked
  <2>2. /\ ui' \in UiType /\ ui'.btnO = ui.btnO /\ ui'.mesh = ui.mesh /\ ui'.sel = ui.sel
    BY <1>1, <2>1 DEF UiType
  <2>3. WidgetsNeedMesh(ui')
    <3>1. Loaded
      BY <2>1, FirstOperation DEF Demanding
    <3> QED
      BY <2>2, <3>1 DEF WidgetsNeedMesh, Loaded
  <2> QED
    BY <1>1, <1>2, <2>1, <2>2, <2>3, WidgetOperation
<1>7. CASE ClearContinue
  <2>1. /\ Unlocked("clearCont") /\ UNCHANGED <<asleep, opt, levels, strokes, gpc, built>>
        /\ ui' = [ui EXCEPT !.cont = FALSE]
    BY <1>7 DEF ClearContinue
  <2>2. /\ ui' \in UiType /\ ui'.btnO = ui.btnO /\ ui'.btnP = ui.btnP /\ ui'.tool = ui.tool
        /\ ui'.enabledP = ui.enabledP /\ ui'.mesh = ui.mesh /\ ui'.sel = ui.sel
    BY <1>1, <2>1 DEF UiType
  <2>3. WidgetsNeedMesh(ui')
    BY <1>1, <2>2 DEF WidgetsNeedMesh
  <2> QED
    BY <1>1, <1>2, <2>1, <2>2, <2>3, WidgetOperation
<1>8. CASE PopPosition
  <2>1. /\ Unlocked("popP") /\ UNCHANGED <<asleep, opt, levels, strokes, gpc, built>>
        /\ ui' = [ui EXCEPT !.btnP = FALSE]
    BY <1>8 DEF PopPosition
  <2>2. /\ ui' \in UiType /\ ui'.btnO = ui.btnO /\ ~ui'.btnP /\ ui'.tool = ui.tool
        /\ ui'.enabledP = ui.enabledP /\ ui'.mesh = ui.mesh /\ ui'.sel = ui.sel
    BY <1>1, <2>1 DEF UiType
  <2>3. WidgetsNeedMesh(ui')
    BY <1>1, <2>2 DEF WidgetsNeedMesh
  <2> QED
    BY <1>1, <1>2, <2>1, <2>2, <2>3, WidgetOperation
<1>9. CASE StopRunning
  <2>1. /\ Unlocked("running") /\ UNCHANGED <<asleep, levels, strokes, ui, gpc, built>>
        /\ opt' = [opt EXCEPT !.running = FALSE]
    BY <1>9 DEF StopRunning
  <2>2. /\ opt' \in OptType /\ opt'.optO = opt.optO /\ opt'.optP = opt.optP
        /\ opt'.level = opt.level
    BY <1>1, <2>1 DEF OptType
  <2> QED
    BY <1>1, <1>2, <2>1, <2>2, WidgetOperation
<1>10. CASE NotifyExit
  <2>1. /\ Unlocked("notify") /\ UNCHANGED <<opt, levels, strokes, ui, gpc, built>>
        /\ asleep' = {}
    BY <1>10 DEF NotifyExit
  <2> QED
    BY <1>1, <1>2, <2>1, WidgetOperation
<1> QED
  BY <1>3, <1>4, <1>5, <1>6, <1>7, <1>8, <1>9, <1>10

(* The symmetry box stops the solve. *)
LEMMA ChangeSymmetryKeepsIInv ==
    ASSUME IInv, ChangeSymmetry, UNCHANGED filevars
    PROVE  IInv'
<1>1. /\ Turn("symmetry") /\ asleep' \subseteq asleep
      /\ UNCHANGED <<levels, strokes, built, file, restored>>
      /\ opt' = [Stopped(opt) EXCEPT !.frozenQ = FALSE, !.frozenO = FALSE]
      /\ ui' = [ui EXCEPT !.rosy4 = On, !.enabledP = FALSE, !.attractors = @ \ {"attractO"}]
  BY DEF ChangeSymmetry, filevars, AsleepAfterStop
<1>2. /\ gpc \in {"run", "queued"} /\ gpc' = "run"
      /\ prog # << >> /\ prog' = Tail(prog) /\ Head(prog).do = "symmetry"
      /\ wpc' = wpc /\ wloc' = wloc /\ wpc \notin {"iterate", "sweep"}
      /\ lockq' \in Seq(Threads) /\ WorkerQueueInv' /\ ClientQueueInv'
  BY <1>1, TurnSetting
<1>3. ui \in UiType /\ WidgetsNeedMesh(ui) /\ On \in BOOLEAN
  BY <1>2, FirstOperation, Typed
<1>4. ~opt'.optO /\ ~opt'.optP /\ opt' \in OptType
  <2>1. ~Stopped(opt).optO /\ ~Stopped(opt).optP /\ Stopped(opt) \in OptType
    BY Typed
  <2> QED
    BY <1>1, <2>1 DEF OptType
<1>5. ~Active' /\ Consistent(opt', levels)
  BY <1>4 DEF Active, Consistent
<1>6. /\ ui' \in UiType /\ ui'.btnO = ui.btnO /\ ui'.btnP = ui.btnP /\ ui'.tool = ui.tool
      /\ ~ui'.enabledP /\ ui'.mesh = ui.mesh /\ ui'.sel = ui.sel
  <2>1. PICK A : A = ui.attractors \ {"attractO"} /\ A \in SUBSET AllTools
    BY <1>3 DEF UiType
  <2>2. ui' = [ui EXCEPT !.rosy4 = On, !.enabledP = FALSE, !.attractors = A]
    BY <1>1, <2>1
  <2> QED
    BY <1>3, <2>1, <2>2 DEF UiType
<1>7. WidgetsNeedMesh(ui')
  BY <1>3, <1>6 DEF WidgetsNeedMesh
<1>8. TypeOK'
  BY <1>1, <1>2, <1>4, <1>6, OperationType, Typed DEF IInv, TypeOK
<1> QED
  BY <1>1, <1>2, <1>4, <1>5, <1>6, <1>7, <1>8, QuietOperation

(* The operations without the lock that touch the hierarchy or the         *)
(* selected level: the hierarchy only when there is no solve.              *)
LEMMA UnlockedOperation ==
    ASSUME IInv, NEW name, Unlocked(name), name \notin {"join", "stop", "solveO", "solveP"},
           UNCHANGED <<gpc, asleep, strokes, file, restored>>,
           opt' \in OptType, opt'.optO = opt.optO, opt'.optP = opt.optP, opt'.level = opt.level,
           ui' \in UiType, WidgetsNeedMesh(ui'), levels' \in 0 .. MaxLevels, built' \in BOOLEAN,
           UNCHANGED <<levels, built>> \/ name \in Rebuilding,
           Loaded => Loaded',
           ui.btnO => ui'.btnO \/ name = "reset",
           name = "pushO" => ui'.btnO,
           Loaded' => \/ built' /\ levels' > 0
                      \/ UNCHANGED <<built, levels>> /\ Loaded /\ name # "build"
                      \/ Has(Tail(prog), "build"),
           \/ ui'.sel < levels'
           \/ levels' = levels /\ ui'.sel = ui.sel /\ name # "reset"
           \/ Has(Tail(prog), "reset")
    PROVE  IInv'
<1>1. /\ gpc \in {"run", "queued"} /\ gpc' = "run"
      /\ prog # << >> /\ prog' = Tail(prog) /\ Head(prog).do = name
      /\ wpc' = wpc /\ wloc' = wloc
      /\ lockq' \in Seq(Threads) /\ WorkerQueueInv' /\ ClientQueueInv'
  BY UnlockedSetting
<1>2. LoadedInv /\ ProgramInv /\ SolveInv /\ FileInv
  BY DEF IInv
<1>3. Active' <=> Active
  BY DEF Active
<1>4. TypeOK'
  BY <1>1, OperationType, Typed DEF IInv, TypeOK
<1>5. levels' \in Nat
  BY MaxLevelsAssumption
<1>6. ProgramInv'
  BY <1>1, <1>2, <1>3, <1>5, RestOfProgram
<1>7. LoadedInv'
  BY <1>1, <1>2, RestOfLoaded
<1>8. name \in Rebuilding \cup {"reset"} => ~Active
  BY <1>1, FirstOperation
<1>9. SolveInv'
  <2>1. Active' => built' /\ Consistent(opt', levels')
    BY <1>1, <1>2, <1>3, <1>8 DEF SolveInv, Consistent
  <2>2. wpc' \in {"iterate", "sweep"} => Active'
    BY <1>1, <1>2, <1>3 DEF SolveInv
  <2>3. opt'.optO => ui'.btnO \/ Cancels(prog')
    <3>1. Cancels(prog) => Cancels(prog')
      BY <1>1, FirstOperation
    <3>2. opt'.optO => name # "reset"
      BY <1>8 DEF Active
    <3> QED
      BY <1>2, <3>1, <3>2 DEF SolveInv
  <2> QED
    BY <2>1, <2>2, <2>3 DEF SolveInv
<1>10. FileInv'
  BY <1>2 DEF FileInv
<1> QED
  BY <1>1, <1>4, <1>6, <1>7, <1>9, <1>10 DEF IInv

(* These are: *)
LEMMA HierarchyOperationsKeepIInv ==
    ASSUME IInv, UNCHANGED filevars,
           \/ Select \/ PushOrientation \/ FreeHierarchy \/ FillLevelZero \/ BuildHierarchy
           \/ Reset
    PROVE  IInv'
<1>1. /\ opt \in OptType /\ ui \in UiType /\ WidgetsNeedMesh(ui) /\ levels \in Nat
      /\ levels \in 0 .. MaxLevels /\ built \in BOOLEAN /\ ui.mesh \in Nat
  BY Typed DEF IInv, TypeOK, UiType
<1>2. file' = file /\ restored' = restored
  BY DEF filevars
<1>3. CASE Select
  <2>1. /\ Unlocked("select") /\ UNCHANGED <<asleep, opt, levels, strokes, gpc, built>>
        /\ ui' = [ui EXCEPT !.sel = To] /\ prog # << >> /\ Head(prog).do = "select"
    BY <1>3 DEF Select, Unlocked
  <2>2. To \in Levels /\ To < levels
    BY <2>1, FirstOperation
  <2>3. /\ ui' \in UiType /\ ui'.btnO = ui.btnO /\ ui'.btnP = ui.btnP /\ ui'.tool = ui.tool
        /\ ui'.enabledP = ui.enabledP /\ ui'.mesh = ui.mesh /\ ui'.sel < levels
    BY <1>1, <2>1, <2>2 DEF UiType
  <2>4. WidgetsNeedMesh(ui') /\ (Loaded' <=> Loaded)
    BY <1>1, <2>3 DEF WidgetsNeedMesh, Loaded
  <2> QED
    BY <1>1, <1>2, <2>1, <2>3, <2>4, UnlockedOperation
<1>4. CASE PushOrientation
  <2>1. /\ Unlocked("pushO") /\ UNCHANGED <<asleep, opt, levels, strokes, gpc, built>>
        /\ ui' = [ui EXCEPT !.btnO = TRUE] /\ prog # << >> /\ Head(prog).do = "pushO"
    BY <1>4 DEF PushOrientation, Unlocked
  <2>2. /\ ui' \in UiType /\ ui'.btnO /\ ui'.mesh = ui.mesh /\ ui'.sel = ui.sel
    BY <1>1, <2>1 DEF UiType
  <2>3. Loaded /\ Loaded' /\ WidgetsNeedMesh(ui')
    <3>1. Loaded
      BY <2>1, FirstOperation DEF Demanding
    <3> QED
      BY <2>2, <3>1 DEF WidgetsNeedMesh, Loaded
  <2> QED
    BY <1>1, <1>2, <2>1, <2>2, <2>3, UnlockedOperation
<1>5. CASE FreeHierarchy
  <2>1. /\ Unlocked("free") /\ UNCHANGED <<asleep, opt, strokes, ui, gpc>>
        /\ levels' = 0 /\ built' = FALSE /\ prog # << >> /\ Head(prog).do = "free"
    BY <1>5 DEF FreeHierarchy, Unlocked
  <2>2. Has(Tail(prog), "build") /\ Has(Tail(prog), "reset")
    BY <2>1, FirstOperation DEF Rebuilding
  <2>3. levels' \in 0 .. MaxLevels /\ (Loaded' <=> Loaded)
    BY <2>1, MaxLevelsAssumption DEF Loaded
  <2> QED
    BY <1>1, <1>2, <2>1, <2>2, <2>3, UnlockedOperation DEF Rebuilding
<1>6. CASE FillLevelZero
  <2>1. /\ Unlocked("fill") /\ UNCHANGED <<asleep, opt, strokes, ui, gpc, built>>
        /\ levels' = 1 /\ prog # << >> /\ Head(prog).do = "fill"
    BY <1>6 DEF FillLevelZero, Unlocked
  <2>2. Has(Tail(prog), "build") /\ Has(Tail(prog), "reset")
    BY <2>1, FirstOperation DEF Rebuilding
  <2>3. levels' \in 0 .. MaxLevels /\ (Loaded' <=> Loaded)
    BY <2>1, MaxLevelsAssumption DEF Loaded
  <2> QED
    BY <1>1, <1>2, <2>1, <2>2, <2>3, UnlockedOperation DEF Rebuilding
<1>7. CASE BuildHierarchy
  <2>1. /\ Unlocked("build") /\ UNCHANGED <<asleep, strokes, gpc>>
        /\ levels' \in 1 .. ui.session.levels /\ built' = TRUE
        /\ opt' = [opt EXCEPT !.frozenQ = FALSE, !.frozenO = FALSE]
        /\ ui' = [ui EXCEPT !.mesh = ui.mesh + 1] /\ prog # << >> /\ Head(prog).do = "build"
    BY <1>1, <1>7 DEF BuildHierarchy, Unlocked, UiType
  <2>2. Has(Tail(prog), "reset")
    BY <2>1, FirstOperation DEF Rebuilding
  <2>3. levels' \in 0 .. MaxLevels /\ levels' > 0
    <3>1. ui.session \in Sessions
      BY <1>1 DEF UiType
    <3>2. ui.session.levels \in 1 .. MaxLevels
      BY <3>1, SessionAssumption
    <3> QED
      BY <2>1, <3>2, MaxLevelsAssumption
  <2>4. /\ opt' \in OptType /\ opt'.optO = opt.optO /\ opt'.optP = opt.optP
        /\ opt'.level = opt.level
    BY <1>1, <2>1 DEF OptType
  <2>5. /\ ui' \in UiType /\ ui'.btnO = ui.btnO /\ ui'.mesh > 0
    BY <1>1, <2>1 DEF UiType
  <2>6. Loaded' /\ WidgetsNeedMesh(ui')
    BY <2>5 DEF Loaded, WidgetsNeedMesh
  <2> QED
    BY <1>2, <2>1, <2>2, <2>3, <2>4, <2>5, <2>6, UnlockedOperation DEF Rebuilding
<1>8. CASE Reset
  <2>1. /\ Unlocked("reset") /\ UNCHANGED <<asleep, opt, levels, strokes, gpc, built>>
        /\ ui' = [ui EXCEPT !.btnO = FALSE, !.btnP = FALSE, !.enabledP = FALSE,
                            !.attractors = {}, !.tool = "none", !.sel = -1, !.rosy4 = TRUE,
                            !.cont = FALSE]
    BY <1>8 DEF Reset
  <2>2. ui' \in UiType /\ ui'.mesh = ui.mesh /\ ui'.sel = -1
    <3>1. PICK automatic \in Levels : automatic = -1
      BY MaxLevelsAssumption DEF Levels
    <3>2. PICK none \in SUBSET AllTools : none = {}
      OBVIOUS
    <3>3. ui' = [ui EXCEPT !.btnO = FALSE, !.btnP = FALSE, !.enabledP = FALSE,
                           !.attractors = none, !.tool = "none", !.sel = automatic,
                           !.rosy4 = TRUE, !.cont = FALSE]
      BY <2>1, <3>1, <3>2
    <3>4. ui' \in UiType
      BY <1>1, <3>3 DEF UiType
    <3>5. ui'.mesh = ui.mesh /\ ui'.sel = automatic
      BY <1>1, <3>3 DEF UiType
    <3> QED
      BY <3>1, <3>4, <3>5
  <2>3. ~ui'.btnO /\ ~ui'.btnP /\ ~ui'.enabledP /\ ui'.tool = "none"
    BY <1>1, <2>1 DEF UiType
  <2>4. WidgetsNeedMesh(ui')
    BY <2>3 DEF WidgetsNeedMesh
  <2>5. (Loaded' <=> Loaded) /\ ui'.sel < levels'
    BY <1>1, <2>1, <2>2 DEF Loaded
  <2> QED
    BY <1>1, <1>2, <2>1, <2>2, <2>3, <2>4, <2>5, UnlockedOperation
<1> QED
  BY <1>3, <1>4, <1>5, <1>6, <1>7, <1>8

(* The tools of the session and the attractors are tools. *)
LEMMA ToolsAreTools ==
    ASSUME IInv
    PROVE  /\ ui.session \in Sessions /\ ui.session.tools \subseteq AllTools
           /\ ui.attractors \subseteq AllTools
           /\ \A attractor : Enabled(attractor) \in SUBSET AllTools
<1>1. ui.session \in Sessions /\ ui.attractors \in SUBSET AllTools
  BY Typed DEF UiType
<1>2. ui.session.tools \subseteq AllTools
  BY <1>1 DEF AllTools
<1> QED
  BY <1>1, <1>2 DEF Enabled

(* When the callback of a solve button runs there is a complete hierarchy, *)
(* and the level it is asked to solve exists.                              *)
LEMMA SolveSetting ==
    ASSUME IInv, NEW name \in {"solveO", "solveP"}, Turn(name), asleep' \subseteq asleep
    PROVE  /\ Loaded /\ built /\ levels > 0 /\ ui.sel \in Levels /\ ui.sel < levels
           /\ name = "solveO" /\ On => ui.btnO
<1>1. /\ gpc \in {"run", "queued"} /\ prog # << >> /\ Head(prog).do = name
  BY TurnSetting
<1>2. 1 \in DOMAIN prog /\ Head(prog) = prog[1] /\ Loaded
  BY <1>1, FirstOperation DEF Demanding
<1>3. ~Has(prog, "join") /\ ~Has(prog, "build") /\ ~Has(prog, "reset")
  BY <1>1, <1>2 DEF IInv, ProgramInv, Orderly, Has, Demanding, Rebuilding
<1>4. built /\ levels > 0 /\ ui.sel < levels
  BY <1>1, <1>2, <1>3 DEF IInv, LoadedInv, Usable
<1>5. ui.sel \in Levels
  BY Typed DEF UiType
<1>6. ~Before(prog, 1, "pushO")
  <2>1. \A j \in DOMAIN prog : j \in Nat \ {0}
    BY <1>1, RestOf DEF IInv, ProgramInv, Orderly
  <2> QED
    BY <2>1 DEF Before
<1>7. name = "solveO" /\ On => ui.btnO
  BY <1>1, <1>2, <1>6 DEF IInv, ProgramInv, On
<1> QED
  BY <1>2, <1>4, <1>5, <1>7

(* The callback of the orientation solve button. *)
LEMMA SolveOrientationKeepsIInv ==
    ASSUME IInv, SolveOrientation, UNCHANGED filevars
    PROVE  IInv'
<1>1. /\ Turn("solveO") /\ asleep' \subseteq asleep
      /\ UNCHANGED <<levels, strokes, built, file, restored>>
  BY DEF SolveOrientation, filevars
<1>2. /\ gpc \in {"run", "queued"} /\ gpc' = "run"
      /\ prog # << >> /\ prog' = Tail(prog) /\ Head(prog).do = "solveO"
      /\ wpc' = wpc /\ wloc' = wloc /\ wpc \notin {"iterate", "sweep"}
      /\ lockq' \in Seq(Threads) /\ WorkerQueueInv' /\ ClientQueueInv'
  BY <1>1, TurnSetting
<1>3. /\ opt \in OptType /\ ui \in UiType /\ levels \in 0 .. MaxLevels /\ levels \in Nat
      /\ WidgetsNeedMesh(ui)
  BY Typed
<1>4. /\ Loaded /\ built /\ levels > 0 /\ ui.sel \in Levels /\ ui.sel < levels
      /\ On => ui.btnO
  BY <1>1, SolveSetting
<1>5. CASE ~On
  <2>1. opt' = Stopped(opt) /\ ui' = ui
    BY <1>5 DEF SolveOrientation
  <2>2. ~opt'.optO /\ ~opt'.optP /\ opt' \in OptType
    BY <2>1, Typed
  <2>3. ~Active' /\ Consistent(opt', levels)
    BY <2>2 DEF Active, Consistent
  <2>4. TypeOK'
    BY <1>1, <1>2, <1>3, <2>1, <2>2, OperationType, Typed DEF IInv, TypeOK
  <2> QED
    BY <1>1, <1>2, <1>3, <2>1, <2>2, <2>3, <2>4, QuietOperation
<1>6. CASE On
  <2>1. /\ opt' = StoreAll(opt, OrientationStores(ui.sel))
        /\ ui' = [ui EXCEPT !.btnP = FALSE, !.enabledP = TRUE,
                            !.attractors = Enabled("attractO")]
    BY <1>6 DEF SolveOrientation
  <2>2. /\ opt' \in OptType /\ opt'.level \in 0 .. levels - 1
        /\ opt'.optO = TRUE /\ opt'.optP = FALSE
    BY <1>3, <1>4, <2>1, OrientationSolveStarts
  <2>3. Consistent(opt', levels)
    BY <2>2 DEF Consistent
  <2>4. /\ ui' \in UiType /\ ui'.btnO = ui.btnO /\ ui'.mesh = ui.mesh /\ ui'.sel = ui.sel
    <3>1. PICK A \in SUBSET AllTools : A = Enabled("attractO")
      BY ToolsAreTools
    <3>2. ui' = [ui EXCEPT !.btnP = FALSE, !.enabledP = TRUE, !.attractors = A]
      BY <2>1, <3>1
    <3> QED
      BY <1>3, <3>2 DEF UiType
  <2>5. WidgetsNeedMesh(ui') /\ Loaded'
    BY <1>4, <2>4 DEF WidgetsNeedMesh, Loaded
  <2>6. TypeOK'
    BY <1>1, <1>2, <1>3, <2>2, <2>4, OperationType, Typed DEF IInv, TypeOK
  <2>7. ProgramInv /\ LoadedInv /\ FileInv
    BY DEF IInv
  <2>8. ProgramInv'
    BY <1>1, <1>2, <1>3, <2>4, <2>5, <2>7, RestOfProgram
  <2>9. LoadedInv'
    BY <1>1, <1>2, <1>4, <2>4, <2>5, <2>7, RestOfLoaded
  <2>10. SolveInv'
    BY <1>1, <1>2, <1>4, <1>6, <2>3, <2>4 DEF SolveInv
  <2>11. FileInv'
    BY <1>1, <2>7 DEF FileInv
  <2> QED
    BY <1>2, <2>6, <2>8, <2>9, <2>10, <2>11 DEF IInv
<1> QED
  BY <1>5, <1>6

(* The callback of the position solve button. *)
LEMMA SolvePositionKeepsIInv ==
    ASSUME IInv, SolvePosition, UNCHANGED filevars
    PROVE  IInv'
<1>1. /\ Turn("solveP") /\ asleep' \subseteq asleep
      /\ UNCHANGED <<levels, strokes, built, file, restored>>
  BY DEF SolvePosition, filevars
<1>2. /\ gpc \in {"run", "queued"} /\ gpc' = "run"
      /\ prog # << >> /\ prog' = Tail(prog) /\ Head(prog).do = "solveP"
      /\ wpc' = wpc /\ wloc' = wloc /\ wpc \notin {"iterate", "sweep"}
      /\ lockq' \in Seq(Threads) /\ WorkerQueueInv' /\ ClientQueueInv'
  BY <1>1, TurnSetting
<1>3. /\ opt \in OptType /\ ui \in UiType /\ levels \in 0 .. MaxLevels /\ levels \in Nat
      /\ WidgetsNeedMesh(ui)
  BY Typed
<1>4. Loaded /\ built /\ levels > 0 /\ ui.sel \in Levels /\ ui.sel < levels
  BY <1>1, SolveSetting
<1>5. CASE ~On
  <2>1. opt' = Stopped(opt) /\ ui' = ui
    BY <1>5 DEF SolvePosition
  <2>2. ~opt'.optO /\ ~opt'.optP /\ opt' \in OptType
    BY <2>1, Typed
  <2>3. ~Active' /\ Consistent(opt', levels)
    BY <2>2 DEF Active, Consistent
  <2>4. TypeOK'
    BY <1>1, <1>2, <1>3, <2>1, <2>2, OperationType, Typed DEF IInv, TypeOK
  <2> QED
    BY <1>1, <1>2, <1>3, <2>1, <2>2, <2>3, <2>4, QuietOperation
<1>6. CASE On
  <2>1. /\ opt' = StoreAll(opt, PositionStores(ui.sel))
        /\ ui' = [ui EXCEPT !.btnO = FALSE, !.attractors = Enabled("attractP")]
    BY <1>6 DEF SolvePosition
  <2>2. /\ opt' \in OptType /\ opt'.level \in 0 .. levels - 1
        /\ opt'.optO = FALSE /\ opt'.optP = TRUE
    BY <1>3, <1>4, <2>1, PositionSolveStarts
  <2>3. Consistent(opt', levels)
    BY <2>2 DEF Consistent
  <2>4. ui' \in UiType /\ ui'.mesh = ui.mesh /\ ui'.sel = ui.sel
    <3>1. PICK A \in SUBSET AllTools : A = Enabled("attractP")
      BY ToolsAreTools
    <3>2. ui' = [ui EXCEPT !.btnO = FALSE, !.attractors = A]
      BY <2>1, <3>1
    <3> QED
      BY <1>3, <3>2 DEF UiType
  <2>5. WidgetsNeedMesh(ui') /\ Loaded'
    BY <1>4, <2>4 DEF WidgetsNeedMesh, Loaded
  <2>6. TypeOK'
    BY <1>1, <1>2, <1>3, <2>2, <2>4, OperationType, Typed DEF IInv, TypeOK
  <2>7. ProgramInv /\ LoadedInv /\ FileInv
    BY DEF IInv
  <2>8. ProgramInv'
    BY <1>1, <1>2, <1>3, <2>4, <2>5, <2>7, RestOfProgram
  <2>9. LoadedInv'
    BY <1>1, <1>2, <1>4, <2>4, <2>5, <2>7, RestOfLoaded
  <2>10. SolveInv'
    BY <1>1, <1>2, <1>4, <2>2, <2>3 DEF SolveInv
  <2>11. FileInv'
    BY <1>1, <2>7 DEF FileInv
  <2> QED
    BY <1>2, <2>6, <2>8, <2>9, <2>10, <2>11 DEF IInv
<1> QED
  BY <1>5, <1>6

(* A handler that saves or restores does nothing else. *)
LEMMA SingleOperation ==
    ASSUME IInv, prog # << >>, Head(prog).do \in {"save", "restore"}
    PROVE  /\ \A x : Has(prog, x) => x = Head(prog).do
           /\ ~Cancels(prog) /\ DOMAIN Tail(prog) = {}
           /\ Head(prog).do = "restore" => file # NoFile
<1>1. ProgramInv /\ Orderly(prog) /\ prog \in Seq(OpType)
  BY DEF IInv, ProgramInv, Orderly
<1>2. /\ 1 \in DOMAIN prog /\ Head(prog) = prog[1] /\ Tail(prog) \in Seq(OpType)
      /\ Len(Tail(prog)) = Len(prog) - 1
  BY <1>1, RestOf
<1>3. Len(prog) = 1
  BY <1>1, <1>2 DEF Orderly
<1>4. DOMAIN prog = 1 .. 1 /\ DOMAIN Tail(prog) = {}
  <2>1. Len(Tail(prog)) = 0
    BY <1>2, <1>3
  <2>2. DOMAIN prog = 1 .. 1
    BY <1>1, <1>3, LenProperties
  <2>3. DOMAIN Tail(prog) = 1 .. 0
    BY <1>2, <2>1, LenProperties
  <2> QED
    BY <2>2, <2>3
<1>5. \A i \in DOMAIN prog : prog[i] = Head(prog)
  <2>1. \A i \in 1 .. 1 : i = 1
    OBVIOUS
  <2>2. \A i \in DOMAIN prog : i = 1
    BY <1>4, <2>1, Zenon
  <2> QED
    BY <1>2, <2>2, Zenon
<1>6. \A x : Has(prog, x) => x = Head(prog).do
  BY <1>5 DEF Has
<1>7. ~Cancels(prog)
  BY <1>5 DEF Cancels
<1>8. Head(prog).do = "restore" => file # NoFile
  BY <1>1, <1>2 DEF ProgramInv
<1> QED
  BY <1>4, <1>6, <1>7, <1>8

(* A program with nothing left to do asks for nothing. *)
LEMMA NothingLeft ==
    ASSUME prog' \in Seq(OpType), DOMAIN prog' = {}
    PROVE  ProgramInv'
<1>1. Orderly(prog')
  BY DEF Orderly
<1>2. Orderly(prog)'
  BY <1>1, Zenon DEF Orderly, Has, After
<1> QED
  BY <1>2 DEF ProgramInv

(* saveState(): what is saved is consistent. *)
LEMMA SaveStateKeepsIInv ==
    ASSUME IInv, SaveState
    PROVE  IInv'
<1>1. /\ Turn("save") /\ UNCHANGED <<asleep, opt, levels, strokes, ui, built, restored>>
      /\ file' = [ui |-> [ui EXCEPT !.cont = FALSE], opt |-> opt, levels |-> levels,
                  events |-> MaxEvents]
  BY DEF SaveState
<1>2. /\ gpc \in {"run", "queued"} /\ gpc' = "run"
      /\ prog # << >> /\ prog' = Tail(prog) /\ Head(prog).do = "save"
      /\ wpc' = wpc /\ wloc' = wloc /\ wpc \notin {"iterate", "sweep"}
      /\ lockq' \in Seq(Threads) /\ WorkerQueueInv' /\ ClientQueueInv'
  BY <1>1, TurnSetting
<1>3. /\ opt \in OptType /\ ui \in UiType /\ levels \in 0 .. MaxLevels /\ levels \in Nat
      /\ WidgetsNeedMesh(ui) /\ Consistent(opt, levels)
  BY <1>2, Typed
<1>4. LoadedInv /\ ProgramInv /\ SolveInv
  BY DEF IInv
<1>5. /\ \A x : Has(prog, x) => x = "save"
      /\ ~Cancels(prog) /\ DOMAIN Tail(prog) = {}
  BY <1>2, SingleOperation
<1>6. /\ Usable /\ ~Has(prog, "build") /\ ~Has(prog, "reset")
  BY <1>2, <1>5 DEF Usable
<1>7. /\ [ui EXCEPT !.cont = FALSE] \in UiType /\ [ui EXCEPT !.cont = FALSE].btnO = ui.btnO
      /\ [ui EXCEPT !.cont = FALSE].btnP = ui.btnP /\ [ui EXCEPT !.cont = FALSE].tool = ui.tool
      /\ [ui EXCEPT !.cont = FALSE].enabledP = ui.enabledP
      /\ [ui EXCEPT !.cont = FALSE].mesh = ui.mesh /\ [ui EXCEPT !.cont = FALSE].sel = ui.sel
  BY <1>3 DEF UiType
<1>8. PICK saved : saved = [ui EXCEPT !.cont = FALSE]
  OBVIOUS
<1>9. /\ file' = [ui |-> saved, opt |-> opt, levels |-> levels, events |-> MaxEvents]
      /\ file'.ui = saved /\ file'.opt = opt /\ file'.levels = levels
  BY <1>1, <1>8
<1>10. FileInv'
  <2>1. /\ saved.mesh > 0 => levels > 0
        /\ saved.sel < levels
        /\ WidgetsNeedMesh(saved)
        /\ opt.optO => saved.btnO
    BY <1>3, <1>4, <1>5, <1>6, <1>7, <1>8 DEF LoadedInv, Loaded, WidgetsNeedMesh, SolveInv
  <2>2. file.levels' = levels /\ file.ui' = saved /\ file.opt' = opt
    BY <1>9
  <2> QED
    BY <1>3, <1>9, <2>1, <2>2 DEF FileInv
<1>11. TypeOK'
  <2>1. file' \in [ui : UiType, opt : OptType, levels : 0 .. MaxLevels, events : 0 .. MaxEvents]
    BY <1>3, <1>7, <1>8, <1>9, SessionAssumption
  <2> QED
    BY <1>1, <1>2, <2>1 DEF IInv, TypeOK, OptimizerTypeOK
<1>12. ProgramInv'
  BY <1>2, <1>4, <1>5, NothingLeft, RestOf DEF ProgramInv, Orderly
<1>13. LoadedInv'
  BY <1>1, <1>2, <1>3, <1>4, RestOfLoaded DEF Loaded
<1>14. SolveInv'
  BY <1>1, <1>2, <1>4, <1>5 DEF SolveInv, Active
<1> QED
  BY <1>2, <1>10, <1>11, <1>12, <1>13, <1>14 DEF IInv

(* loadState(): what is restored is what was saved. *)
LEMMA LoadStateKeepsIInv ==
    ASSUME IInv, LoadState
    PROVE  IInv'
<1>1. /\ Turn("restore") /\ UNCHANGED <<asleep, strokes>>
      /\ ui' = [file.ui EXCEPT !.cont = ui.cont] /\ opt' = file.opt /\ levels' = file.levels
      /\ built' = (file.levels > 0) /\ restored' = TRUE /\ file' = NoFile
  BY DEF LoadState
<1>2. /\ gpc \in {"run", "queued"} /\ gpc' = "run"
      /\ prog # << >> /\ prog' = Tail(prog) /\ Head(prog).do = "restore"
      /\ wpc' = wpc /\ wloc' = wloc /\ wpc \notin {"iterate", "sweep"}
      /\ lockq' \in Seq(Threads) /\ WorkerQueueInv' /\ ClientQueueInv'
  BY <1>1, TurnSetting
<1>3. DOMAIN Tail(prog) = {} /\ file # NoFile
  BY <1>2, SingleOperation
<1>4. /\ file \in [ui : UiType, opt : OptType, levels : 0 .. MaxLevels, events : 0 .. MaxEvents]
      /\ ui \in UiType /\ LoadedInv /\ ProgramInv
  BY <1>3 DEF IInv, TypeOK
<1>5. /\ file.ui.mesh > 0 => file.levels > 0
      /\ file.ui.sel < file.levels
      /\ WidgetsNeedMesh(file.ui)
      /\ Consistent(file.opt, file.levels)
      /\ file.opt.optO => file.ui.btnO
  BY <1>3 DEF IInv, FileInv
<1>6. file.ui \in UiType /\ opt' \in OptType /\ levels' \in 0 .. MaxLevels
  BY <1>1, <1>4
<1>7. /\ ui' \in UiType /\ ui'.btnO = file.ui.btnO /\ ui'.btnP = file.ui.btnP
      /\ ui'.tool = file.ui.tool /\ ui'.enabledP = file.ui.enabledP
      /\ ui'.mesh = file.ui.mesh /\ ui'.sel = file.ui.sel
  <2>1. ui.cont \in BOOLEAN
    BY <1>4 DEF UiType
  <2> QED
    BY <1>1, <1>6, <2>1 DEF UiType
<1>8. WidgetsNeedMesh(ui') /\ ui'.sel < levels' /\ (Loaded' => built' /\ levels' > 0)
  BY <1>1, <1>5, <1>7 DEF WidgetsNeedMesh, Loaded
<1>9. LoadedInv'
  BY <1>2, <1>4, <1>8, RestOfLoaded
<1>10. ProgramInv'
  BY <1>2, <1>3, <1>4, NothingLeft, RestOf DEF ProgramInv, Orderly
<1>11. SolveInv'
  <2>1. Active' => built'
    <3>1. Active' => file.opt.level \in 0 .. file.levels - 1
      BY <1>1, <1>5 DEF Active, Consistent
    <3>2. file.levels \in Nat
      BY <1>1, <1>6, MaxLevelsAssumption
    <3>3. Active' => file.levels > 0
      BY <3>1, <3>2
    <3> QED
      BY <1>1, <3>3
  <2>2. opt'.optO => ui'.btnO
    BY <1>1, <1>5, <1>7
  <2> QED
    BY <1>1, <1>2, <1>5, <2>1, <2>2 DEF SolveInv
<1>12. FileInv'
  BY <1>1 DEF FileInv
<1>13. TypeOK'
  <2>1. built' \in BOOLEAN
    BY <1>1
  <2> QED
    BY <1>1, <1>2, <1>6, <1>7, <2>1 DEF IInv, TypeOK, OptimizerTypeOK
<1> QED
  BY <1>2, <1>9, <1>10, <1>11, <1>12, <1>13 DEF IInv

(* A file that cannot be read. *)
LEMMA LoadStateFailsKeepsIInv ==
    ASSUME IInv, LoadStateFails
    PROVE  IInv'
<1>1. /\ Turn("restore") /\ UNCHANGED <<asleep, opt, levels, strokes, ui, built, file, restored>>
  BY DEF LoadStateFails, filevars
<1> QED
  BY <1>1, WidgetOperation, Typed

(* The end of ~Viewer(): the worker has returned. *)
LEMMA JoinWorkerKeepsIInv ==
    ASSUME IInv, JoinWorker, UNCHANGED filevars
    PROVE  IInv'
<1>1. /\ gpc = "run" /\ prog # << >> /\ Head(prog).do = "join" /\ prog' = Tail(prog)
      /\ UNCHANGED <<lockq, wpc, wloc, asleep, opt, strokes, ui, file, restored>>
      /\ wpc = "exited" /\ gpc' = "gone" /\ levels' = 0 /\ built' = FALSE
  BY DEF JoinWorker, Unlocked, filevars
<1>2. WorkerQueueInv /\ ClientQueueInv /\ LoadedInv /\ ProgramInv /\ SolveInv /\ FileInv
  BY DEF IInv
<1>3. WorkerQueueInv' /\ ClientQueueInv'
  BY <1>1, <1>2, ClientKeepsQueue DEF ClientQueueInv
<1>4. (Loaded' <=> Loaded) /\ (Active' <=> Active) /\ levels' \in Nat
  BY <1>1 DEF Loaded, Active
<1>5. ProgramInv'
  BY <1>1, <1>2, <1>4, RestOfProgram
<1>6. LoadedInv'
  BY <1>1, <1>2 DEF LoadedInv, Usable
<1>7. SolveInv'
  <2>1. Cancels(prog) => Cancels(prog')
    BY <1>1, FirstOperation
  <2> QED
    BY <1>1, <1>2, <2>1 DEF SolveInv
<1>8. FileInv'
  BY <1>1, <1>2 DEF FileInv
<1>9. TypeOK'
  <2>1. 0 \in 0 .. MaxLevels
    BY MaxLevelsAssumption
  <2> QED
    BY <1>1, <2>1 DEF IInv, TypeOK, OptimizerTypeOK
<1> QED
  BY <1>3, <1>5, <1>6, <1>7, <1>8, <1>9 DEF IInv

(* A load that fails leaves a deaf window. *)
LEMMA LoadFailsKeepsIInv ==
    ASSUME IInv, LoadFails, UNCHANGED filevars
    PROVE  IInv'
<1>1. /\ gpc = "run" /\ prog # << >> /\ Head(prog).do \in Rebuilding /\ prog' = << >>
      /\ gpc' = "deaf"
      /\ UNCHANGED <<lockq, wpc, wloc, asleep, opt, strokes, levels, ui, built, file, restored>>
  BY DEF LoadFails, filevars, optvars, Rebuilding
<1>2. WorkerQueueInv /\ ClientQueueInv /\ LoadedInv /\ SolveInv /\ FileInv
  BY DEF IInv
<1>3. WorkerQueueInv' /\ ClientQueueInv'
  BY <1>1, <1>2, ClientKeepsQueue DEF ClientQueueInv
<1>4. << >> \in Seq(OpType) /\ DOMAIN << >> = {}
  OBVIOUS
<1>5. ProgramInv'
  BY <1>1, <1>4, NothingLeft
<1>6. LoadedInv'
  BY <1>1, <1>2 DEF LoadedInv, Usable
<1>7. SolveInv'
  <2>1. ~Active
    BY <1>1, FirstOperation
  <2> QED
    BY <1>1, <1>2, <2>1 DEF SolveInv, Active
<1>8. FileInv'
  BY <1>1, <1>2 DEF FileInv
<1>9. TypeOK'
  BY <1>1 DEF IInv, TypeOK, OptimizerTypeOK
<1> QED
  BY <1>3, <1>5, <1>6, <1>7, <1>8, <1>9 DEF IInv

(* What only depends on the state of the session, and not on the place of  *)
(* the interface, is kept when nothing but that place changes.             *)
LEMMA SessionFrame ==
    ASSUME LoadedInv, ProgramInv, SolveInv, FileInv, gpc # "gone", gpc # "deaf",
           UNCHANGED <<prog, ui, levels, built, opt, strokes, file, wpc>>
    PROVE  LoadedInv' /\ ProgramInv' /\ SolveInv' /\ FileInv'
<1>1. LoadedInv'
  BY DEF LoadedInv, Usable, Loaded
<1>2. ProgramInv'
  <2>1. Orderly(prog)'
    BY DEF ProgramInv
  <2> QED
    BY <2>1 DEF ProgramInv, Loaded, Active
<1>3. SolveInv'
  BY DEF SolveInv, Active
<1>4. FileInv'
  BY DEF FileInv
<1> QED
  BY <1>1, <1>2, <1>3, <1>4

(* The interface takes its place in the queue. *)
LEMMA RequestKeepsIInv ==
    ASSUME IInv, Request, UNCHANGED filevars
    PROVE  IInv'
<1>1. /\ gpc = "run" /\ gpc' = "queued" /\ prog # << >> /\ lockq' = Append(lockq, "client")
      /\ UNCHANGED <<prog, wpc, wloc, asleep, opt, strokes, levels, ui, built, file, restored>>
  BY DEF Request, Enqueue, filevars
<1>2. /\ WorkerQueueInv /\ ClientQueueInv /\ LoadedInv /\ ProgramInv /\ SolveInv /\ FileInv
  BY DEF IInv
<1>3. "client" \notin Members(lockq)
  BY <1>1, <1>2 DEF ClientQueueInv
<1>4. WorkerQueueInv' /\ "client" \in Members(lockq')
  BY <1>1, <1>2, <1>3, ClientKeepsQueue
<1>5. ClientQueueInv'
  BY <1>1, <1>4 DEF ClientQueueInv
<1>6. TypeOK'
  BY <1>1, <1>4 DEF IInv, TypeOK, OptimizerTypeOK, WorkerQueueInv, Queues
<1> QED
  BY <1>1, <1>2, <1>4, <1>5, <1>6, SessionFrame DEF IInv

(* Every step of a handler keeps the invariant. *)
LEMMA HandlerKeepsIInv ==
    ASSUME IInv, Handler
    PROVE  IInv'
  BY RequestKeepsIInv, SolveOrientationKeepsIInv, SolvePositionKeepsIInv, StopKeepsIInv,
     ChangeLevelKeepsIInv, MoveSingularityKeepsIInv, ChangeSymmetryKeepsIInv,
     WidgetOperationsKeepIInv, HierarchyOperationsKeepIInv, LoadFailsKeepsIInv,
     JoinWorkerKeepsIInv, SaveStateKeepsIInv, LoadStateKeepsIInv, LoadStateFailsKeepsIInv
  DEF Handler

-----------------------------------------------------------------------------
(* The events.                                                             *)

(* The operations a handler is made of, for one switch and one level. *)
LEMMA OperationParts ==
    ASSUME NEW name \in OpNames, NEW on \in BOOLEAN, NEW l \in Levels
    PROVE  /\ Op(name) \in OpType /\ Op(name).do = name /\ Op(name).to = -1
           /\ LockedOp(name) \in OpType /\ LockedOp(name).do = name /\ LockedOp(name).to = -1
           /\ Switch(name, on) \in OpType /\ Switch(name, on).do = name
           /\ Switch(name, on).to = -1 /\ Switch(name, on).on = on
           /\ [Op(name) EXCEPT !.to = l] \in OpType /\ [Op(name) EXCEPT !.to = l].do = name
           /\ [Op(name) EXCEPT !.to = l].to = l
           /\ [LockedOp(name) EXCEPT !.to = l] \in OpType
           /\ [LockedOp(name) EXCEPT !.to = l].do = name
           /\ [LockedOp(name) EXCEPT !.to = l].to = l
<1>1. -1 \in Levels
  BY MaxLevelsAssumption DEF Levels
<1>2. PICK automatic \in Levels : automatic = -1
  BY <1>1
<1>3. PICK off \in BOOLEAN : off = FALSE
  OBVIOUS
<1>4. PICK yes \in BOOLEAN : yes = TRUE
  OBVIOUS
<1>5. Op(name) = [do |-> name, locked |-> off, on |-> off, to |-> automatic]
  BY <1>2, <1>3, Zenon DEF Op
<1>6. LockedOp(name) = [Op(name) EXCEPT !.locked = yes]
  BY <1>4, Zenon DEF LockedOp
<1>7. LockedOp(name) = [do |-> name, locked |-> yes, on |-> off, to |-> automatic]
  BY <1>5, <1>6
<1>8. Switch(name, on) = [do |-> name, locked |-> yes, on |-> on, to |-> automatic]
  BY <1>7 DEF Switch
<1>9. /\ [Op(name) EXCEPT !.to = l] = [do |-> name, locked |-> off, on |-> off, to |-> l]
      /\ [LockedOp(name) EXCEPT !.to = l] = [do |-> name, locked |-> yes, on |-> off, to |-> l]
  BY <1>5, <1>7
<1>10. /\ Op(name) \in OpType /\ LockedOp(name) \in OpType /\ Switch(name, on) \in OpType
       /\ [Op(name) EXCEPT !.to = l] \in OpType /\ [LockedOp(name) EXCEPT !.to = l] \in OpType
  BY <1>5, <1>7, <1>8, <1>9 DEF OpType
<1>11. /\ Op(name).do = name /\ Op(name).to = -1
       /\ LockedOp(name).do = name /\ LockedOp(name).to = -1
  BY <1>2, <1>5, <1>7
<1>12. Switch(name, on).do = name /\ Switch(name, on).to = -1 /\ Switch(name, on).on = on
  BY <1>2, <1>8
<1>13. /\ [Op(name) EXCEPT !.to = l].do = name /\ [Op(name) EXCEPT !.to = l].to = l
       /\ [LockedOp(name) EXCEPT !.to = l].do = name
       /\ [LockedOp(name) EXCEPT !.to = l].to = l
  BY <1>9
<1> QED
  BY <1>10, <1>11, <1>12, <1>13

(* The operations a handler is made of. *)
LEMMA OperationIs ==
    ASSUME NEW name \in OpNames
    PROVE  /\ Op(name) \in OpType /\ Op(name).do = name /\ Op(name).to = -1
           /\ LockedOp(name) \in OpType /\ LockedOp(name).do = name /\ LockedOp(name).to = -1
           /\ \A on \in BOOLEAN :
                /\ Switch(name, on) \in OpType /\ Switch(name, on).do = name
                /\ Switch(name, on).to = -1 /\ Switch(name, on).on = on
           /\ \A l \in Levels :
                /\ [Op(name) EXCEPT !.to = l] \in OpType /\ [Op(name) EXCEPT !.to = l].do = name
                /\ [Op(name) EXCEPT !.to = l].to = l
                /\ [LockedOp(name) EXCEPT !.to = l] \in OpType
                /\ [LockedOp(name) EXCEPT !.to = l].do = name
                /\ [LockedOp(name) EXCEPT !.to = l].to = l
<1>1. PICK on \in BOOLEAN : TRUE
  OBVIOUS
<1>2. PICK l \in Levels : TRUE
  BY MaxLevelsAssumption DEF Levels
<1>3. /\ Op(name) \in OpType /\ Op(name).do = name /\ Op(name).to = -1
      /\ LockedOp(name) \in OpType /\ LockedOp(name).do = name /\ LockedOp(name).to = -1
  BY <1>1, <1>2, OperationParts
<1>4. ASSUME NEW b \in BOOLEAN
      PROVE  /\ Switch(name, b) \in OpType /\ Switch(name, b).do = name
             /\ Switch(name, b).to = -1 /\ Switch(name, b).on = b
  BY <1>2, OperationParts
<1>5. ASSUME NEW m \in Levels
      PROVE  /\ [Op(name) EXCEPT !.to = m] \in OpType /\ [Op(name) EXCEPT !.to = m].do = name
             /\ [Op(name) EXCEPT !.to = m].to = m
             /\ [LockedOp(name) EXCEPT !.to = m] \in OpType
             /\ [LockedOp(name) EXCEPT !.to = m].do = name
             /\ [LockedOp(name) EXCEPT !.to = m].to = m
  BY <1>1, OperationParts
<1> QED
  BY <1>3, <1>4, <1>5

(* A handler begins: nothing else has changed yet. *)
LEMMA BeginKeepsIInv ==
    ASSUME IInv, prog = << >>, gpc = "run" \/ (gpc = "deaf" /\ Has(prog', "join")),
           gpc' = "run", UNCHANGED <<optvars, built>>,
           ui' \in UiType, ui'.mesh = ui.mesh, ui'.sel = ui.sel, WidgetsNeedMesh(ui'),
           ProgramInv', ui.btnO => ui'.btnO \/ ~opt.optO \/ Cancels(prog'),
           \/ file' = file
           \/ file # NoFile /\ file.events > 0 /\ file' = [file EXCEPT !.events = @ - 1],
           restored' = restored
    PROVE  IInv'
<1>1. /\ UNCHANGED <<lockq, asleep, opt, levels, strokes, wpc, wloc>>
  BY DEF optvars
<1>2. WorkerQueueInv /\ ClientQueueInv /\ LoadedInv /\ SolveInv /\ FileInv /\ TypeOK
  BY DEF IInv
<1>3. DOMAIN prog = {}
  OBVIOUS
<1>4. ~Has(prog, "join") /\ ~Has(prog, "build") /\ ~Has(prog, "reset") /\ ~Cancels(prog)
  BY <1>3 DEF Has, Cancels
<1>5. Usable' => Usable
  BY <1>4 DEF Usable
<1>6. WorkerQueueInv'
  BY <1>1, <1>2, ClientKeepsQueue
<1>7. ClientQueueInv'
  BY <1>1, <1>2 DEF ClientQueueInv
<1>8. LoadedInv'
  BY <1>1, <1>2, <1>4, <1>5 DEF LoadedInv, Loaded
<1>9. SolveInv'
  BY <1>1, <1>2, <1>4 DEF SolveInv, Active
<1>10. /\ file' # NoFile => file # NoFile
       /\ file # NoFile => /\ file'.ui = file.ui /\ file'.opt = file.opt
                           /\ file'.levels = file.levels
                           /\ file' \in [ui : UiType, opt : OptType, levels : 0 .. MaxLevels,
                                         events : 0 .. MaxEvents]
  <2> SUFFICES ASSUME file # NoFile
               PROVE  /\ file'.ui = file.ui /\ file'.opt = file.opt
                      /\ file'.levels = file.levels
                      /\ file' \in [ui : UiType, opt : OptType, levels : 0 .. MaxLevels,
                                    events : 0 .. MaxEvents]
    OBVIOUS
  <2>1. file \in [ui : UiType, opt : OptType, levels : 0 .. MaxLevels, events : 0 .. MaxEvents]
    BY <1>2 DEF TypeOK
  <2>2. CASE file' = file
    BY <2>1, <2>2
  <2>3. CASE file.events > 0 /\ file' = [file EXCEPT !.events = @ - 1]
    <3>1. file.events - 1 \in 0 .. MaxEvents
      BY <2>1, <2>3, SessionAssumption
    <3> QED
      BY <2>1, <2>3, <3>1
  <2> QED
    BY <2>2, <2>3
<1>11. FileInv'
  BY <1>2, <1>10 DEF FileInv
<1>12. TypeOK'
  BY <1>1, <1>2, <1>10 DEF TypeOK, OptimizerTypeOK
<1> QED
  BY <1>6, <1>7, <1>8, <1>9, <1>11, <1>12 DEF IInv

(* A handler of operations that neither rebuild the hierarchy nor restore  *)
(* a session, for a mesh that is loaded.                                   *)
LEMMA PlainHandler ==
    ASSUME NEW p \in Seq(OpType), prog' = p, levels' \in Nat,
           \A i \in DOMAIN p :
             /\ p[i].do \notin Rebuilding \cup {"reset", "save", "restore", "join",
                                                "solveO", "moveSingularity"}
             /\ p[i].to < levels'
             /\ p[i].do \in Demanding \/ p[i].to >= 0 => Loaded'
    PROVE  ProgramInv'
<1>1. Orderly(p)
  BY DEF Orderly, Rebuilding
<1>2. Orderly(prog')
  BY <1>1
<1>3. \A i \in DOMAIN prog' :
         /\ prog'[i].to < levels'
         /\ prog'[i].do \in Demanding \/ prog'[i].to >= 0 => Loaded'
         /\ prog'[i].do \notin Rebuilding \cup {"reset"}
         /\ prog'[i].do \notin {"solveO", "moveSingularity", "restore"}
  BY DEF Rebuilding
<1> QED
  BY <1>2, <1>3 DEF ProgramInv

(* A handler of one operation. *)
LEMMA SingleHandler ==
    ASSUME NEW x \in OpType, prog' = << x >>, levels' \in Nat,
           x.do \notin Rebuilding \cup {"reset", "moveSingularity"}, x.to = -1,
           x.do \in Demanding => Loaded',
           x.do = "solveO" /\ x.on => ui'.btnO,
           x.do = "restore" => file' # NoFile
    PROVE  ProgramInv' /\ (x.do = "solveO" /\ ~x.on => Cancels(prog'))
<1>1. /\ << x >> \in Seq(OpType) /\ Len(<< x >>) = 1 /\ DOMAIN << x >> = {1}
      /\ << x >>[1] = x
  OBVIOUS
<1> DEFINE p == << x >>
<1>2. /\ p \in Seq(OpType) /\ Len(p) = 1 /\ \A i \in DOMAIN p : i = 1 /\ p[i] = x
      /\ 1 \in DOMAIN p /\ p[1] = x
  BY <1>1
<1>3. prog' = p
  OBVIOUS
<1> HIDE DEF p
<1>4. x.do = "restore" \/ x.do \notin Demanding \/ x.do \in Demanding
  OBVIOUS
<1>5. Orderly(p)
  <2>1. x.do = "solveO" => ~Has(p, "solveP")
    BY <1>2 DEF Has
  <2>2. x.do \in Demanding => \A j \in DOMAIN p :
            p[j].do \notin Rebuilding \cup {"reset", "restore", "join"}
    BY <1>2 DEF Demanding, Rebuilding
  <2>3. x.do \notin {"free", "fill"} /\ x.do \notin Rebuilding /\ ~(x.to >= 0)
    BY DEF Rebuilding
  <2> QED
    BY <1>2, <2>1, <2>2, <2>3 DEF Orderly
<1>6. Orderly(prog')
  BY <1>3, <1>5
<1>7. \A i \in DOMAIN prog' : prog'[i] = x
  BY <1>2, <1>3
<1>8. -1 < levels' /\ ~(x.to >= 0)
  OBVIOUS
<1>9. ProgramInv'
  BY <1>6, <1>7, <1>8 DEF ProgramInv
<1>10. x.do = "solveO" /\ ~x.on => Cancels(prog')
  BY <1>2, <1>3 DEF Cancels
<1> QED
  BY <1>9, <1>10

(* setLevel() as a handler of its own. *)
LEMMA SetLevelHandler ==
    ASSUME NEW l \in Levels, prog' = SetLevel(l), levels' \in Nat, l < levels', Loaded'
    PROVE  ProgramInv'
<1> DEFINE a == [Op("select") EXCEPT !.to = l]
           b == [LockedOp("level") EXCEPT !.to = l]
           p == << a, b >>
<1>1. a \in OpType /\ b \in OpType /\ a.do = "select" /\ b.do = "level" /\ a.to = l /\ b.to = l
  <2>1. "select" \in OpNames /\ "level" \in OpNames
    BY DEF OpNames
  <2>2. a \in OpType /\ a.do = "select" /\ a.to = l
    BY <2>1, OperationIs
  <2>3. b \in OpType /\ b.do = "level" /\ b.to = l
    BY <2>1, OperationIs
  <2> QED
    BY <2>2, <2>3
<1>2. prog' = p
  BY DEF SetLevel
<1> HIDE DEF a, b
<1>3. p \in Seq(OpType) /\ \A i \in DOMAIN p : p[i] \in {a, b}
  BY <1>1
<1> HIDE DEF p
<1>4. \A i \in DOMAIN p :
         /\ p[i].do \notin Rebuilding \cup {"reset", "save", "restore", "join",
                                            "solveO", "moveSingularity"}
         /\ p[i].to < levels'
  BY <1>1, <1>3 DEF Rebuilding
<1> QED
  BY <1>2, <1>3, <1>4, PlainHandler

(* What an event finds, and what Begin() does. *)
LEMMA EventSetting ==
    ASSUME IInv, NEW ops, NEW newui, Begin(ops, newui)
    PROVE  /\ prog = << >> /\ gpc = "run" /\ gpc' = "run" /\ prog' = ops /\ ui' = newui
           /\ UNCHANGED <<optvars, built>> /\ levels' = levels
           /\ opt' = opt /\ strokes' = strokes /\ ui.sel < levels
           /\ Loaded => levels > 0
<1>1. prog = << >> /\ gpc = "run" /\ gpc' = "run" /\ prog' = ops /\ ui' = newui
  BY DEF Begin, Idle
<1>2. UNCHANGED <<optvars, built>> /\ levels' = levels /\ opt' = opt /\ strokes' = strokes
  BY DEF Begin, optvars
<1>3. DOMAIN prog = {}
  BY <1>1
<1>4. ~Has(prog, "join") /\ ~Has(prog, "build") /\ ~Has(prog, "reset")
  BY <1>3 DEF Has
<1>5. ui.sel < levels /\ (Loaded => levels > 0)
  BY <1>1, <1>4 DEF IInv, LoadedInv, Usable
<1> QED
  BY <1>1, <1>2, <1>5

FileStep ==
    /\ \/ file' = file
       \/ file # NoFile /\ file.events > 0 /\ file' = [file EXCEPT !.events = @ - 1]
    /\ restored' = restored

(* The solve buttons. *)
LEMMA ClicksKeepIInv ==
    ASSUME IInv, FileStep, ClickSolveOrientation \/ ClickSolvePosition \/ BrushStroke
    PROVE  IInv'
<1>1. ui \in UiType /\ WidgetsNeedMesh(ui) /\ levels \in Nat
  BY Typed
<1>2. ui.btnO \in BOOLEAN /\ ui.btnP \in BOOLEAN
  BY <1>1 DEF UiType
<1>3. CASE ClickSolveOrientation
  <2> DEFINE x == Switch("solveO", ~ui.btnO)
  <2>1. Loaded /\ Begin(<< x >>, [ui EXCEPT !.btnO = ~ui.btnO])
    BY <1>3 DEF ClickSolveOrientation
  <2>2. PICK on \in BOOLEAN : on = ~ui.btnO
    BY <1>2
  <2>3. x \in OpType /\ x.do = "solveO" /\ x.to = -1 /\ x.on = on
    <3>1. x = Switch("solveO", on) /\ "solveO" \in OpNames
      BY <2>2, Zenon DEF OpNames
    <3> HIDE DEF x
    <3> QED
      BY <3>1, OperationIs, Zenon
  <2>4. ui' = [ui EXCEPT !.btnO = on] /\ prog' = << x >>
    BY <2>1, <2>2, EventSetting, Zenon
  <2>5. /\ prog = << >> /\ gpc = "run" /\ gpc' = "run"
        /\ UNCHANGED <<optvars, built>> /\ levels' = levels
    BY <2>1, EventSetting
  <2> HIDE DEF x
  <2>6. ui' \in UiType /\ ui'.mesh = ui.mesh /\ ui'.sel = ui.sel /\ ui'.btnO = on
    BY <1>1, <2>4 DEF UiType
  <2>7. Loaded' /\ WidgetsNeedMesh(ui')
    BY <2>1, <2>6 DEF Loaded, WidgetsNeedMesh
  <2>8. ProgramInv' /\ (~on => Cancels(prog'))
    BY <1>1, <2>3, <2>4, <2>5, <2>6, <2>7, SingleHandler DEF Rebuilding
  <2> QED
    BY <2>5, <2>6, <2>7, <2>8, BeginKeepsIInv DEF FileStep
<1>4. CASE ClickSolvePosition
  <2> DEFINE x == Switch("solveP", ~ui.btnP)
  <2>1. ui.enabledP /\ Begin(<< x >>, [ui EXCEPT !.btnP = ~ui.btnP])
    BY <1>4 DEF ClickSolvePosition
  <2>2. PICK on \in BOOLEAN : on = ~ui.btnP
    BY <1>2
  <2>3. x \in OpType /\ x.do = "solveP" /\ x.to = -1
    <3>1. x = Switch("solveP", on) /\ "solveP" \in OpNames
      BY <2>2, Zenon DEF OpNames
    <3> HIDE DEF x
    <3> QED
      BY <3>1, OperationIs, Zenon
  <2>4. ui' = [ui EXCEPT !.btnP = on] /\ prog' = << x >>
    BY <2>1, <2>2, EventSetting, Zenon
  <2>5. /\ prog = << >> /\ gpc = "run" /\ gpc' = "run"
        /\ UNCHANGED <<optvars, built>> /\ levels' = levels
    BY <2>1, EventSetting
  <2> HIDE DEF x
  <2>6. ui' \in UiType /\ ui'.mesh = ui.mesh /\ ui'.sel = ui.sel /\ ui'.btnO = ui.btnO
    BY <1>1, <2>4 DEF UiType
  <2>7. Loaded' /\ WidgetsNeedMesh(ui')
    BY <1>1, <2>1, <2>6 DEF Loaded, WidgetsNeedMesh
  <2>8. ProgramInv'
    BY <1>1, <2>3, <2>4, <2>5, <2>6, <2>7, SingleHandler DEF Rebuilding
  <2> QED
    BY <2>5, <2>6, <2>7, <2>8, BeginKeepsIInv DEF FileStep
<1>5. CASE BrushStroke
  <2> DEFINE x == Switch("solveO", TRUE)
  <2>1. /\ ui.tool \in Brushes
        /\ Begin(<< x >>, [ui EXCEPT !.cont = (ui.tool = "edge"), !.btnO = TRUE])
    BY <1>5 DEF BrushStroke
  <2>2. PICK on \in BOOLEAN : on = TRUE
    OBVIOUS
  <2>3. x \in OpType /\ x.do = "solveO" /\ x.to = -1
    <3>1. x = Switch("solveO", on) /\ "solveO" \in OpNames
      BY <2>2, Zenon DEF OpNames
    <3> HIDE DEF x
    <3> QED
      BY <3>1, OperationIs, Zenon
  <2>4. ui' = [ui EXCEPT !.cont = (ui.tool = "edge"), !.btnO = TRUE] /\ prog' = << x >>
    BY <2>1, EventSetting, Zenon
  <2>5. /\ prog = << >> /\ gpc = "run" /\ gpc' = "run"
        /\ UNCHANGED <<optvars, built>> /\ levels' = levels
    BY <2>1, EventSetting
  <2> HIDE DEF x
  <2>6. ui' \in UiType /\ ui'.mesh = ui.mesh /\ ui'.sel = ui.sel /\ ui'.btnO
    BY <1>1, <2>4 DEF UiType
  <2>7. ui.tool # "none"
    BY <2>1 DEF Brushes
  <2>8. Loaded' /\ WidgetsNeedMesh(ui')
    BY <1>1, <2>6, <2>7 DEF Loaded, WidgetsNeedMesh
  <2>9. ProgramInv'
    BY <1>1, <2>3, <2>4, <2>5, <2>6, <2>8, SingleHandler DEF Rebuilding
  <2> QED
    BY <2>5, <2>6, <2>8, <2>9, BeginKeepsIInv DEF FileStep
<1> QED
  BY <1>3, <1>4, <1>5

(* The tools, the level buttons and the symmetry box. *)
LEMMA ChoicesKeepIInv ==
    ASSUME IInv, FileStep, ChooseTool \/ ClickLevel \/ ChooseSymmetry
    PROVE  IInv'
<1>1. ui \in UiType /\ WidgetsNeedMesh(ui) /\ levels \in 0 .. MaxLevels /\ levels \in Nat
  BY Typed
<1>2. -1 \in Levels /\ MaxLevels \in Nat
  BY MaxLevelsAssumption DEF Levels
<1>3. CASE ChooseTool
  <2>1. PICK tool \in {"none"} \cup Brushes \cup ui.attractors :
          Begin(IF ui.tool \in Attractors THEN SetLevel(-1) ELSE << >>, [ui EXCEPT !.tool = tool])
    BY <1>3 DEF ChooseTool
  <2>2. Loaded
    BY <1>3 DEF ChooseTool
  <2>3. /\ ui' = [ui EXCEPT !.tool = tool] /\ prog = << >> /\ gpc = "run" /\ gpc' = "run"
        /\ prog' = (IF ui.tool \in Attractors THEN SetLevel(-1) ELSE << >>)
        /\ UNCHANGED <<optvars, built>> /\ levels' = levels
    BY <2>1, EventSetting
  <2>4. tool \in AllTools \cup {"none"}
    BY ToolsAreTools DEF Brushes
  <2>5. ui' \in UiType /\ ui'.mesh = ui.mesh /\ ui'.sel = ui.sel /\ ui'.btnO = ui.btnO
    BY <1>1, <2>3, <2>4 DEF UiType
  <2>6. Loaded' /\ WidgetsNeedMesh(ui')
    BY <2>2, <2>5 DEF Loaded, WidgetsNeedMesh
  <2>7. ProgramInv'
    <3>1. CASE ui.tool \in Attractors
      <4>1. prog' = SetLevel(-1) /\ levels' \in Nat /\ -1 < levels'
        BY <1>1, <2>3, <3>1
      <4> QED
        BY <1>2, <2>6, <4>1, SetLevelHandler
    <3>2. CASE ui.tool \notin Attractors
      <4>1. prog' = << >>
        BY <2>3, <3>2
      <4>2. prog' \in Seq(OpType) /\ DOMAIN prog' = {}
        BY <4>1
      <4> QED
        BY <4>2, NothingLeft
    <3> QED
      BY <3>1, <3>2
  <2> QED
    BY <2>3, <2>5, <2>6, <2>7, BeginKeepsIInv DEF FileStep
<1>4. CASE ClickLevel
  <2>1. PICK l \in {LargerOf(-1, ui.sel - 1), SmallerOf(levels - 1, ui.sel + 1)} :
          Begin(SetLevel(l), ui)
    BY <1>4 DEF ClickLevel
  <2>2. Loaded
    BY <1>4 DEF ClickLevel
  <2>3. /\ ui' = ui /\ prog = << >> /\ gpc = "run" /\ gpc' = "run" /\ prog' = SetLevel(l)
        /\ UNCHANGED <<optvars, built>> /\ levels' = levels /\ ui.sel < levels /\ levels > 0
    BY <2>1, <2>2, EventSetting
  <2>4. l \in Levels /\ l < levels
    <3>1. ui.sel \in Int /\ ui.sel >= -1
      BY <1>1, <1>2 DEF UiType, Levels
    <3>2. CASE l = LargerOf(-1, ui.sel - 1)
      BY <1>1, <1>2, <2>3, <3>1, <3>2 DEF LargerOf, Levels
    <3>3. CASE l = SmallerOf(levels - 1, ui.sel + 1)
      BY <1>1, <1>2, <2>3, <3>1, <3>3 DEF SmallerOf, Levels
    <3> QED
      BY <2>1, <3>2, <3>3
  <2>5. Loaded'
    BY <2>2, <2>3 DEF Loaded
  <2>6. ProgramInv'
    BY <1>1, <2>3, <2>4, <2>5, SetLevelHandler
  <2> QED
    BY <1>1, <2>3, <2>6, BeginKeepsIInv DEF FileStep
<1>5. CASE ChooseSymmetry
  <2>1. PICK rosy4 \in FourFold : Begin(<< Switch("symmetry", rosy4) >>, ui)
    BY <1>5 DEF ChooseSymmetry
  <2> DEFINE x == Switch("symmetry", rosy4)
  <2>2. /\ ui' = ui /\ prog = << >> /\ gpc = "run" /\ gpc' = "run" /\ prog' = << x >>
        /\ UNCHANGED <<optvars, built>> /\ levels' = levels
    BY <2>1, EventSetting
  <2>3. x \in OpType /\ x.do = "symmetry" /\ x.to = -1
    <3>1. "symmetry" \in OpNames /\ rosy4 \in BOOLEAN
      BY SessionAssumption DEF OpNames
    <3> QED
      BY <3>1, OperationIs, Zenon
  <2> HIDE DEF x
  <2>4. ProgramInv'
    BY <1>1, <2>2, <2>3, SingleHandler DEF Rebuilding, Demanding
  <2> QED
    BY <1>1, <2>2, <2>4, BeginKeepsIInv DEF FileStep
<1> QED
  BY <1>3, <1>4, <1>5

(* The buttons that save and restore a session. *)
LEMMA SavingKeepsIInv ==
    ASSUME IInv, UNCHANGED filevars, ClickSaveState \/ ClickLoadState
    PROVE  IInv'
<1>1. ui \in UiType /\ WidgetsNeedMesh(ui) /\ levels \in Nat
  BY Typed
<1>2. file' = file /\ restored' = restored
  BY DEF filevars
<1>3. ASSUME NEW name \in {"save", "restore"}, Begin(<< LockedOp(name) >>, ui),
             name = "restore" => file # NoFile
      PROVE  IInv'
  <2>1. /\ ui' = ui /\ prog = << >> /\ gpc = "run" /\ gpc' = "run"
        /\ prog' = << LockedOp(name) >>
        /\ UNCHANGED <<optvars, built>> /\ levels' = levels
    BY <1>3, EventSetting
  <2>2. LockedOp(name) \in OpType /\ LockedOp(name).do = name /\ LockedOp(name).to = -1
    <3>1. name \in OpNames
      BY DEF OpNames
    <3> QED
      BY <3>1, OperationIs
  <2>3. ProgramInv'
    BY <1>1, <1>2, <1>3, <2>1, <2>2, SingleHandler DEF Rebuilding, Demanding
  <2> QED
    BY <1>1, <1>2, <2>1, <2>3, BeginKeepsIInv
<1> QED
  BY <1>3 DEF ClickSaveState, ClickLoadState

(* Two and three operations are five. *)
LEMMA ConcatTwoThree ==
    ASSUME NEW a, NEW b, NEW d, NEW e, NEW f
    PROVE  << a, b >> \o << d, e, f >> = << a, b, d, e, f >>
<1>1. << a, b >> \o << >> = << a, b >>
  <2> DEFINE S == {a, b}
  <2>1. << a, b >> \in Seq(S)
    OBVIOUS
  <2> QED
    BY <2>1, ConcatEmptySeq
<1> QED
  BY <1>1, ConcatFive, Zenon

(* A stroke of an attractor: the level, the button, the solve, the stroke. *)
LEMMA AttractorStrokeKeepsIInv ==
    ASSUME IInv, FileStep, AttractorStroke
    PROVE  IInv'
<1>1. ui \in UiType /\ WidgetsNeedMesh(ui) /\ levels \in Nat
  BY Typed
<1>2. PICK push, solve : /\ \/ push = "pushO" /\ solve = "solveO"
                            \/ push = "pushP" /\ solve = "solveP"
                         /\ Begin(SetLevel(0) \o << Op(push), Switch(solve, TRUE),
                                                    LockedOp("moveSingularity") >>, ui)
  <2>1. CASE ui.tool = "attractO"
    BY <2>1 DEF AttractorStroke
  <2>2. CASE ui.tool # "attractO"
    BY <2>2 DEF AttractorStroke
  <2> QED
    BY <2>1, <2>2
<1>3. ui.tool # "none" /\ Len(strokes) < MaxStrokes
  BY DEF AttractorStroke, Attractors
<1>4. Loaded
  BY <1>1, <1>3 DEF WidgetsNeedMesh, Loaded
<1> DEFINE a == [Op("select") EXCEPT !.to = 0]
           b == [LockedOp("level") EXCEPT !.to = 0]
           d == Op(push)
           e == Switch(solve, TRUE)
           f == LockedOp("moveSingularity")
           p == << a, b, d, e, f >>
<1>5. prog' = p
  <2>1. prog' = << a, b >> \o << d, e, f >>
    BY <1>2, EventSetting DEF SetLevel
  <2> HIDE DEF a, b, d, e, f
  <2> QED
    BY <2>1, ConcatTwoThree
<1>6. /\ ui' = ui /\ prog = << >> /\ gpc = "run" /\ gpc' = "run" /\ strokes' = strokes
      /\ UNCHANGED <<optvars, built>> /\ levels' = levels /\ levels > 0
  BY <1>2, <1>4, EventSetting
<1>7. /\ "select" \in OpNames /\ "level" \in OpNames /\ "moveSingularity" \in OpNames
      /\ push \in OpNames /\ solve \in OpNames
  BY <1>2 DEF OpNames
<1>8. 0 \in Levels
  BY MaxLevelsAssumption DEF Levels
<1>9. a \in OpType /\ a.do = "select" /\ a.to = 0
  <2>1. PICK l \in Levels : l = 0
    BY <1>8
  <2>2. a = [Op("select") EXCEPT !.to = l]
    BY <2>1, Zenon
  <2> HIDE DEF a
  <2>3. "select" \in OpNames
    BY <1>7
  <2>4. a \in OpType /\ a.do = "select" /\ a.to = l
    BY <2>2, <2>3, OperationIs
  <2> QED
    BY <2>1, <2>4
<1>10. b \in OpType /\ b.do = "level" /\ b.to = 0
  <2>1. PICK l \in Levels : l = 0
    BY <1>8
  <2>2. b = [LockedOp("level") EXCEPT !.to = l]
    BY <2>1, Zenon
  <2> HIDE DEF b
  <2>3. "level" \in OpNames
    BY <1>7
  <2>4. b \in OpType /\ b.do = "level" /\ b.to = l
    BY <2>2, <2>3, OperationIs
  <2> QED
    BY <2>1, <2>4
<1>11. d \in OpType /\ d.do = push /\ d.to = -1
  BY <1>7, OperationIs
<1>12. e \in OpType /\ e.do = solve /\ e.to = -1
  <2>1. PICK on \in BOOLEAN : on = TRUE
    OBVIOUS
  <2>2. e = Switch(solve, on)
    BY <2>1, Zenon
  <2> HIDE DEF e
  <2> QED
    BY <1>7, <2>2, OperationIs
<1>13. f \in OpType /\ f.do = "moveSingularity" /\ f.to = -1
  BY <1>7, OperationIs
<1> HIDE DEF a, b, d, e, f
<1>14. /\ p \in Seq(OpType) /\ Len(p) = 5 /\ DOMAIN p = 1 .. 5
       /\ p[1] = a /\ p[2] = b /\ p[3] = d /\ p[4] = e /\ p[5] = f
  BY <1>9, <1>10, <1>11, <1>12, <1>13
<1> HIDE DEF p
<1>15. ASSUME NEW i \in DOMAIN p
       PROVE  /\ \/ i = 1 /\ p[i].do = "select" /\ p[i].to = 0
                 \/ i = 2 /\ p[i].do = "level" /\ p[i].to = 0
                 \/ i = 3 /\ p[i].do = push /\ p[i].to = -1
                 \/ i = 4 /\ p[i].do = solve /\ p[i].to = -1
                 \/ i = 5 /\ p[i].do = "moveSingularity" /\ p[i].to = -1
  <2>1. i = 1 \/ i = 2 \/ i = 3 \/ i = 4 \/ i = 5
    BY <1>14
  <2> QED
    BY <1>9, <1>10, <1>11, <1>12, <1>13, <1>14, <2>1
<1>16. \A i \in DOMAIN p :
          /\ p[i].do \notin Rebuilding \cup {"reset", "restore", "join", "save"}
          /\ p[i].to < levels
          /\ p[i].do = "moveSingularity" => i = 5
  <2>1. 0 < levels /\ -1 < levels
    BY <1>1, <1>6
  <2> QED
    BY <1>2, <1>15, <2>1 DEF Rebuilding
<1>17. Orderly(p)
  <2>1. \A i \in DOMAIN p : p[i].do = "solveO" => ~Has(p, "solveP")
    BY <1>2, <1>15 DEF Has
  <2> QED
    BY <1>14, <1>16, <2>1 DEF Orderly, Rebuilding
<1>18. \A i \in DOMAIN p : p[i].do = "solveO" => Before(p, i, "pushO")
  BY <1>2, <1>11, <1>14, <1>15 DEF Before
<1>19. ProgramInv'
  <2>1. Orderly(prog')
    BY <1>5, <1>17
  <2>2. Loaded'
    BY <1>4, <1>6 DEF Loaded
  <2>3. \A i \in DOMAIN prog' : prog'[i].do = "solveO" => Before(prog', i, "pushO")
    BY <1>5, <1>18
  <2>4. \A i \in DOMAIN prog' :
          /\ prog'[i].do \notin Rebuilding \cup {"reset", "restore"}
          /\ prog'[i].to < levels'
    BY <1>5, <1>6, <1>16
  <2> QED
    BY <1>3, <1>6, <2>1, <2>2, <2>3, <2>4 DEF ProgramInv
<1> QED
  BY <1>1, <1>6, <1>19, BeginKeepsIInv DEF FileStep

(* What resetState() consists of. *)
ResetOps == {x \in OpType : x.do \in {"stop", "reset", "rescale", "select", "level"} /\ x.to = -1}

(* resetState() stops the solver before it clears the hierarchy. *)
LEMMA ResetStateIs ==
    ASSUME NEW h
    PROVE  /\ ResetState(h) \in Seq(ResetOps) /\ Len(ResetState(h)) >= 2
           /\ ResetState(h)[1].do = "stop" /\ ResetState(h)[2].do = "reset"
<1> DEFINE a == LockedOp("stop")
           b == Op("reset")
           c == LockedOp("rescale")
           d == [Op("select") EXCEPT !.to = -1]
           e == [LockedOp("level") EXCEPT !.to = -1]
           m == IF h THEN << c >> ELSE << >>
<1>1. ResetState(h) = (<< a, b >> \o m) \o << d, e >>
  BY Zenon DEF ResetState, SetLevel
<1>2. /\ "stop" \in OpNames /\ "reset" \in OpNames /\ "rescale" \in OpNames
      /\ "select" \in OpNames /\ "level" \in OpNames /\ -1 \in Levels
  BY MaxLevelsAssumption DEF OpNames, Levels
<1>3. a \in ResetOps /\ a.do = "stop"
  BY <1>2, OperationIs DEF ResetOps
<1>4. b \in ResetOps /\ b.do = "reset"
  BY <1>2, OperationIs DEF ResetOps
<1>5. c \in ResetOps
  BY <1>2, OperationIs DEF ResetOps
<1>6. d \in ResetOps
  <2>1. PICK l \in Levels : l = -1
    BY <1>2
  <2>2. d = [Op("select") EXCEPT !.to = l]
    BY <2>1, Zenon
  <2> HIDE DEF d
  <2>3. d \in OpType /\ d.do = "select" /\ d.to = l
    BY <1>2, <2>2, OperationIs
  <2> QED
    BY <2>1, <2>3 DEF ResetOps
<1>7. e \in ResetOps
  <2>1. PICK l \in Levels : l = -1
    BY <1>2
  <2>2. e = [LockedOp("level") EXCEPT !.to = l]
    BY <2>1, Zenon
  <2> HIDE DEF e
  <2>3. e \in OpType /\ e.do = "level" /\ e.to = l
    BY <1>2, <2>2, OperationIs
  <2> QED
    BY <2>1, <2>3 DEF ResetOps
<1> HIDE DEF a, b, c, d, e
<1> DEFINE ab == << a, b >>
           de == << d, e >>
           abm == ab \o m
<1>8. /\ ab \in Seq(ResetOps) /\ Len(ab) = 2 /\ ab[1] = a /\ ab[2] = b
      /\ de \in Seq(ResetOps) /\ Len(de) = 2
      /\ m \in Seq(ResetOps) /\ Len(m) \in Nat
  BY <1>3, <1>4, <1>5, <1>6, <1>7
<1> HIDE DEF ab, de, m
<1>9. abm \in Seq(ResetOps) /\ Len(abm) = 2 + Len(m) /\ abm[1] = a /\ abm[2] = b
  <2>1. /\ abm \in Seq(ResetOps) /\ Len(abm) = Len(ab) + Len(m)
        /\ \A i \in 1 .. Len(ab) + Len(m) :
             abm[i] = IF i <= Len(ab) THEN ab[i] ELSE m[i - Len(ab)]
    BY <1>8, ConcatProperties
  <2> QED
    BY <1>8, <2>1
<1> HIDE DEF abm
<1>10. /\ abm \o de \in Seq(ResetOps) /\ Len(abm \o de) = Len(abm) + 2
       /\ (abm \o de)[1] = a /\ (abm \o de)[2] = b
  <2>1. /\ abm \o de \in Seq(ResetOps) /\ Len(abm \o de) = Len(abm) + Len(de)
        /\ \A i \in 1 .. Len(abm) + Len(de) :
             (abm \o de)[i] = IF i <= Len(abm) THEN abm[i] ELSE de[i - Len(abm)]
    BY <1>8, <1>9, ConcatProperties
  <2> QED
    BY <1>8, <1>9, <2>1
<1>11. ResetState(h) = abm \o de
  BY <1>1 DEF abm, ab, de
<1> QED
  BY <1>3, <1>4, <1>8, <1>9, <1>10, <1>11

(* A handler that stops the solve before it does anything else, and then   *)
(* builds and resets whatever it tears down.                               *)
LEMMA TeardownHandler ==
    ASSUME NEW p \in Seq(OpType), prog' = p, levels' \in Nat,
           1 \in DOMAIN p => p[1].do = "stop",
           \A i \in DOMAIN p :
             /\ p[i].to = -1
             /\ p[i].do \notin Demanding \cup {"save", "restore"}
             /\ p[i].do \in {"free", "fill"} => After(p, i, "build")
             /\ p[i].do \in Rebuilding => After(p, i, "reset")
    PROVE  ProgramInv'
<1>1. Orderly(p)
  BY DEF Orderly, Demanding
<1>2. DOMAIN p = 1 .. Len(p) /\ Len(p) \in Nat
  BY LenProperties
<1>3. ASSUME NEW i \in DOMAIN p, p[i].do \in Rebuilding \cup {"reset"}
      PROVE  Before(p, i, "stop")
  <2>1. 1 \in DOMAIN p
    BY <1>2
  <2>2. i # 1
    BY <1>3, <2>1 DEF Rebuilding
  <2>3. 1 < i
    BY <1>2, <2>2
  <2> QED
    BY <2>1, <2>3 DEF Before
<1>4. Orderly(prog')
  BY <1>1
<1>5. \A i \in DOMAIN prog' : /\ prog'[i].do \in Rebuilding \cup {"reset"} => Before(prog', i, "stop")
                              /\ prog'[i].do \notin Demanding \cup {"restore"}
                              /\ prog'[i].to = -1
  BY <1>3
<1>6. -1 < levels' /\ ~(-1 >= 0)
  OBVIOUS
<1> QED
  BY <1>4, <1>5, <1>6 DEF ProgramInv, Demanding

(* What loadInput() consists of. *)
LEMMA LoadInputIs ==
    /\ LoadInput \in Seq(OpType)
    /\ LoadInput[1].do = "stop"
    /\ \A i \in DOMAIN LoadInput :
         /\ LoadInput[i].to = -1
         /\ LoadInput[i].do \notin Demanding \cup {"save", "restore"}
         /\ LoadInput[i].do \in {"free", "fill"} => After(LoadInput, i, "build")
         /\ LoadInput[i].do \in Rebuilding => After(LoadInput, i, "reset")
<1> DEFINE a == LockedOp("stop")
           b == Op("free")
           c == Op("fill")
           d == LockedOp("rescale")
           e == Op("build")
           r == ResetState(TRUE)
           g == Op("rosy")
           h == LockedOp("retarget")
           s == << a, b, c, d, e >>
           w == << g, h >>
           q == s \o r
           p == q \o w
<1>1. LoadInput = p
  BY Zenon DEF LoadInput
<1>2. /\ "stop" \in OpNames /\ "free" \in OpNames /\ "fill" \in OpNames
      /\ "rescale" \in OpNames /\ "build" \in OpNames /\ "rosy" \in OpNames
      /\ "retarget" \in OpNames
  BY DEF OpNames
<1>3. a \in OpType /\ a.do = "stop" /\ a.to = -1
  BY <1>2, OperationIs
<1>4. b \in OpType /\ b.do = "free" /\ b.to = -1
  BY <1>2, OperationIs
<1>5. c \in OpType /\ c.do = "fill" /\ c.to = -1
  BY <1>2, OperationIs
<1>6. d \in OpType /\ d.do = "rescale" /\ d.to = -1
  BY <1>2, OperationIs
<1>7. e \in OpType /\ e.do = "build" /\ e.to = -1
  BY <1>2, OperationIs
<1>8. g \in OpType /\ g.do = "rosy" /\ g.to = -1
  BY <1>2, OperationIs
<1>9. h \in OpType /\ h.do = "retarget" /\ h.to = -1
  BY <1>2, OperationIs
<1>10. r \in Seq(ResetOps) /\ Len(r) >= 2 /\ r[2].do = "reset"
  BY ResetStateIs
<1> HIDE DEF a, b, c, d, e, r, g, h
<1> DEFINE Tame == {x \in OpType : /\ x.do \notin Demanding \cup {"save", "restore"} \cup Rebuilding
                                   /\ x.to = -1}
<1>11. ResetOps \subseteq Tame /\ ResetOps \subseteq OpType
  BY DEF ResetOps, Demanding, Rebuilding
<1>12. a \in Tame /\ d \in Tame /\ g \in Tame /\ h \in Tame
  BY <1>3, <1>6, <1>8, <1>9 DEF Demanding, Rebuilding
<1>13. r \in Seq(OpType) /\ Len(r) \in Nat /\ \A i \in 1 .. Len(r) : r[i] \in Tame
  BY <1>10, <1>11, ElementOfSeq, LenProperties
<1>14. /\ s \in Seq(OpType) /\ Len(s) = 5
       /\ s[1] = a /\ s[2] = b /\ s[3] = c /\ s[4] = d /\ s[5] = e
  BY <1>3, <1>4, <1>5, <1>6, <1>7
<1>15. /\ w \in Seq(OpType) /\ Len(w) = 2 /\ \A i \in 1 .. 2 : w[i] \in Tame
  <2>1. w \in Seq(OpType) /\ Len(w) = 2 /\ w[1] = g /\ w[2] = h
    BY <1>8, <1>9
  <2>2. \A i \in 1 .. 2 : i = 1 \/ i = 2
    OBVIOUS
  <2> HIDE DEF Tame
  <2> QED
    BY <1>12, <2>1, <2>2
<1> HIDE DEF Tame, s, w
<1>16. /\ q \in Seq(OpType) /\ Len(q) = 5 + Len(r)
       /\ \A i \in 1 .. 5 + Len(r) : q[i] = IF i <= 5 THEN s[i] ELSE r[i - 5]
  <2>1. r \in Seq(OpType) /\ s \in Seq(OpType)
    BY <1>13, <1>14
  <2>2. /\ q \in Seq(OpType) /\ Len(q) = Len(s) + Len(r)
        /\ \A i \in 1 .. Len(s) + Len(r) : q[i] = IF i <= Len(s) THEN s[i] ELSE r[i - Len(s)]
    BY <2>1, ConcatProperties
  <2>3. Len(s) = 5
    BY <1>14
  <2> HIDE DEF q
  <2> QED
    BY <2>2, <2>3
<1> HIDE DEF q
<1>17. /\ p \in Seq(OpType) /\ Len(p) = 5 + Len(r) + 2
       /\ \A i \in 1 .. 5 + Len(r) + 2 :
            p[i] = IF i <= 5 + Len(r) THEN q[i] ELSE w[i - (5 + Len(r))]
  <2>1. q \in Seq(OpType) /\ w \in Seq(OpType)
    BY <1>15, <1>16
  <2>2. /\ p \in Seq(OpType) /\ Len(p) = Len(q) + Len(w)
        /\ \A i \in 1 .. Len(q) + Len(w) : p[i] = IF i <= Len(q) THEN q[i] ELSE w[i - Len(q)]
    BY <2>1, ConcatProperties
  <2>3. Len(q) = 5 + Len(r) /\ Len(w) = 2
    BY <1>15, <1>16
  <2> HIDE DEF p
  <2> QED
    BY <2>2, <2>3
<1> HIDE DEF p
<1>18. DOMAIN p = 1 .. 5 + Len(r) + 2
  BY <1>17, LenProperties
<1>19. /\ p[1] = a /\ p[2] = b /\ p[3] = c /\ p[4] = d /\ p[5] = e /\ p[7] = r[2]
  <2>1. /\ 1 \in 1 .. 5 + Len(r) /\ 2 \in 1 .. 5 + Len(r) /\ 3 \in 1 .. 5 + Len(r)
        /\ 4 \in 1 .. 5 + Len(r) /\ 5 \in 1 .. 5 + Len(r) /\ 7 \in 1 .. 5 + Len(r)
    BY <1>10, <1>13
  <2>2. \A i \in 1 .. 5 + Len(r) : p[i] = q[i]
    BY <1>13, <1>17
  <2>3. q[1] = s[1] /\ q[2] = s[2] /\ q[3] = s[3] /\ q[4] = s[4] /\ q[5] = s[5] /\ q[7] = r[2]
    BY <1>16, <2>1
  <2> QED
    BY <1>14, <2>1, <2>2, <2>3
<1>20. ASSUME NEW i \in DOMAIN p, i > 5
       PROVE  p[i] \in Tame
  <2>1. CASE i <= 5 + Len(r)
    <3>1. i \in 1 .. 5 + Len(r) /\ i - 5 \in 1 .. Len(r) /\ ~(i <= 5)
      BY <1>13, <1>18, <1>20, <2>1
    <3>2. p[i] = q[i]
      BY <1>13, <1>17, <1>18, <2>1
    <3>3. q[i] = r[i - 5]
      BY <1>16, <3>1
    <3> QED
      BY <1>13, <3>1, <3>2, <3>3
  <2>2. CASE ~(i <= 5 + Len(r))
    <3>1. i - (5 + Len(r)) \in 1 .. 2
      BY <1>13, <1>18, <2>2
    <3>2. p[i] = w[i - (5 + Len(r))]
      BY <1>17, <1>18, <2>2
    <3> QED
      BY <1>15, <3>1, <3>2
  <2> QED
    BY <2>1, <2>2
<1>21. 1 \in DOMAIN p /\ 5 \in DOMAIN p /\ 7 \in DOMAIN p
  BY <1>10, <1>13, <1>18
<1>22. ASSUME NEW i \in DOMAIN p
       PROVE  /\ p[i].to = -1
              /\ p[i].do \notin Demanding \cup {"save", "restore"}
              /\ p[i].do \in {"free", "fill"} => After(p, i, "build")
              /\ p[i].do \in Rebuilding => After(p, i, "reset")
  <2>1. CASE i > 5
    <3>1. p[i] \in Tame
      BY <1>20, <2>1
    <3> QED
      BY <3>1 DEF Tame, Rebuilding
  <2>2. CASE ~(i > 5)
    <3>1. i = 1 \/ i = 2 \/ i = 3 \/ i = 4 \/ i = 5
      BY <1>13, <1>18, <2>2
    <3>2. After(p, i, "reset")
      <4>1. 7 > i
        BY <3>1
      <4> QED
        BY <1>10, <1>19, <1>21, <4>1 DEF After
    <3>3. i # 5 => After(p, i, "build")
      <4>1. i # 5 => 5 > i
        BY <3>1
      <4> QED
        BY <1>7, <1>19, <1>21, <4>1 DEF After
    <3>4. p[i].to = -1 /\ p[i].do \in {"stop", "free", "fill", "rescale", "build"}
      BY <1>3, <1>4, <1>5, <1>6, <1>7, <1>19, <3>1
    <3>5. i = 5 => p[i].do = "build"
      BY <1>7, <1>19
    <3> QED
      BY <3>2, <3>3, <3>4, <3>5 DEF Demanding
  <2> QED
    BY <2>1, <2>2
<1> QED
  BY <1>1, <1>3, <1>17, <1>19, <1>22

(* The reset button and the loading of a mesh. *)
LEMMA ResetsKeepIInv ==
    ASSUME IInv, FileStep, ClickReset \/ Load
    PROVE  IInv'
<1>1. ui \in UiType /\ WidgetsNeedMesh(ui) /\ levels \in Nat
  BY Typed
<1>2. CASE ClickReset
  <2>1. PICK p : p = ResetState(Loaded) /\ Begin(p, ui)
    BY <1>2 DEF ClickReset
  <2>2. /\ ui' = ui /\ prog = << >> /\ gpc = "run" /\ gpc' = "run" /\ prog' = p
        /\ UNCHANGED <<optvars, built>> /\ levels' = levels
    BY <2>1, EventSetting
  <2>3. p \in Seq(ResetOps) /\ p[1].do = "stop"
    BY <2>1, ResetStateIs
  <2>4. p \in Seq(OpType)
    BY <2>3 DEF ResetOps
  <2>5. ASSUME NEW i \in DOMAIN p
        PROVE  p[i].to = -1 /\ p[i].do \notin Demanding \cup {"save", "restore"} \cup Rebuilding
    <3>1. i \in 1 .. Len(p)
      BY <2>3, LenProperties
    <3>2. p[i] \in ResetOps
      BY <2>3, <3>1, ElementOfSeq
    <3> QED
      BY <3>2 DEF ResetOps, Demanding, Rebuilding
  <2>6. ProgramInv'
    BY <1>1, <2>2, <2>3, <2>4, <2>5, TeardownHandler DEF Rebuilding
  <2> QED
    BY <1>1, <2>2, <2>6, BeginKeepsIInv DEF FileStep
<1>3. CASE Load
  <2>1. Begin(LoadInput, ui)
    BY <1>3 DEF Load
  <2>2. /\ ui' = ui /\ prog = << >> /\ gpc = "run" /\ gpc' = "run" /\ prog' = LoadInput
        /\ UNCHANGED <<optvars, built>> /\ levels' = levels
    BY <2>1, EventSetting
  <2>3. ProgramInv'
    BY <1>1, <2>2, LoadInputIs, TeardownHandler
  <2> QED
    BY <1>1, <2>2, <2>3, BeginKeepsIInv DEF FileStep
<1> QED
  BY <1>2, <1>3

(* Closing the window, also of a deaf one. *)
LEMMA ExitKeepsIInv ==
    ASSUME IInv, FileStep, Exit
    PROVE  IInv'
<1> DEFINE a == Op("running")
           b == Op("notify")
           c == Op("join")
           p == << a, b, c >>
<1>1. ui \in UiType /\ WidgetsNeedMesh(ui) /\ levels \in Nat
  BY Typed
<1>2. /\ gpc \in {"run", "deaf"} /\ prog = << >> /\ gpc' = "run" /\ prog' = p
      /\ UNCHANGED <<optvars, ui, built>> /\ levels' = levels
  BY DEF Exit, optvars
<1>3. "running" \in OpNames /\ "notify" \in OpNames /\ "join" \in OpNames
  BY DEF OpNames
<1>4. a \in OpType /\ a.do = "running" /\ a.to = -1
  BY <1>3, OperationIs
<1>5. b \in OpType /\ b.do = "notify" /\ b.to = -1
  BY <1>3, OperationIs
<1>6. c \in OpType /\ c.do = "join" /\ c.to = -1
  BY <1>3, OperationIs
<1> HIDE DEF a, b, c
<1>7. p \in Seq(OpType) /\ DOMAIN p = 1 .. 3 /\ p[1] = a /\ p[2] = b /\ p[3] = c
  BY <1>4, <1>5, <1>6
<1> HIDE DEF p
<1>8. ASSUME NEW i \in DOMAIN p
      PROVE  /\ p[i].do \in {"running", "notify", "join"}
             /\ p[i].to = -1
  <2>1. i = 1 \/ i = 2 \/ i = 3
    BY <1>7
  <2> QED
    BY <1>4, <1>5, <1>6, <1>7, <2>1
<1>9. Orderly(p)
  BY <1>7, <1>8 DEF Orderly, Demanding, Rebuilding
<1>10. ProgramInv'
  <2>1. Orderly(prog')
    BY <1>2, <1>9
  <2>2. \A i \in DOMAIN prog' : prog'[i].do \in {"running", "notify", "join"} /\ prog'[i].to = -1
    BY <1>2, <1>8
  <2>3. -1 < levels'
    BY <1>1, <1>2
  <2> QED
    BY <2>1, <2>2, <2>3 DEF ProgramInv, Demanding, Rebuilding
<1>11. Has(prog', "join")
  BY <1>2, <1>6, <1>7 DEF Has
<1> QED
  BY <1>1, <1>2, <1>10, <1>11, BeginKeepsIInv DEF FileStep

(* drawContents(): the operations that follow a solve. *)
DrawOps ==
    {x \in OpType : x.do \in {"filter", "pushP", "solveP", "clearCont", "popP"} /\ x.to = -1}

(* drawContents() starts at most the position solve. *)
LEMMA DrawKeepsIInv ==
    ASSUME IInv, Draw, UNCHANGED filevars
    PROVE  IInv'
<1>1. ui \in UiType /\ WidgetsNeedMesh(ui) /\ levels \in Nat
  BY Typed
<1> DEFINE c == LockedOp("filter")
           d == Op("pushP")
           e == Switch("solveP", TRUE)
           f == Op("clearCont")
           g == Op("popP")
           m(filter) == IF filter THEN << c >> ELSE << >>
           n == IF ui.btnO /\ ui.cont THEN << d, e, f >> ELSE << >>
           w == << g >>
<1>2. PICK filter : Begin((m(filter) \o n) \o w, [ui EXCEPT !.btnO = FALSE])
  BY DEF Draw
<1>3. ~Active /\ Loaded
  BY <1>1 DEF Draw, WidgetsNeedMesh, Loaded
<1>4. /\ "filter" \in OpNames /\ "pushP" \in OpNames /\ "solveP" \in OpNames
      /\ "clearCont" \in OpNames /\ "popP" \in OpNames
  BY DEF OpNames
<1>5. c \in DrawOps
  BY <1>4, OperationIs DEF DrawOps
<1>6. d \in DrawOps
  BY <1>4, OperationIs DEF DrawOps
<1>7. e \in DrawOps
  <2>1. PICK on \in BOOLEAN : on = TRUE
    OBVIOUS
  <2>2. e = Switch("solveP", on)
    BY <2>1, Zenon
  <2> HIDE DEF e
  <2>3. e \in OpType /\ e.do = "solveP" /\ e.to = -1
    BY <1>4, <2>2, OperationIs
  <2> QED
    BY <2>3 DEF DrawOps
<1>8. f \in DrawOps
  BY <1>4, OperationIs DEF DrawOps
<1>9. g \in DrawOps
  BY <1>4, OperationIs DEF DrawOps
<1> HIDE DEF c, d, e, f, g
<1>10. m(filter) \in Seq(DrawOps) /\ n \in Seq(DrawOps) /\ w \in Seq(DrawOps)
  BY <1>5, <1>6, <1>7, <1>8, <1>9
<1> HIDE DEF m, n, w
<1>11. m(filter) \o n \in Seq(DrawOps)
  BY <1>10, ConcatProperties
<1>12. (m(filter) \o n) \o w \in Seq(DrawOps)
  BY <1>10, <1>11, ConcatProperties
<1>13. PICK p : p = (m(filter) \o n) \o w
  OBVIOUS
<1>14. /\ ui' = [ui EXCEPT !.btnO = FALSE] /\ prog = << >> /\ gpc = "run" /\ gpc' = "run"
       /\ prog' = p /\ UNCHANGED <<optvars, built>> /\ levels' = levels
  BY <1>2, <1>13, EventSetting
<1>15. /\ ui' \in UiType /\ ui'.mesh = ui.mesh /\ ui'.sel = ui.sel
  BY <1>1, <1>14 DEF UiType
<1>16. Loaded' /\ WidgetsNeedMesh(ui')
  BY <1>3, <1>15 DEF Loaded, WidgetsNeedMesh
<1>17. p \in Seq(DrawOps)
  BY <1>12, <1>13
<1>18. p \in Seq(OpType)
  BY <1>17 DEF DrawOps
<1>19. ASSUME NEW i \in DOMAIN p
       PROVE  /\ p[i].do \notin Rebuilding \cup {"reset", "save", "restore", "join",
                                                 "solveO", "moveSingularity"}
              /\ p[i].to = -1
  <2>1. i \in 1 .. Len(p)
    BY <1>17, LenProperties
  <2>2. p[i] \in DrawOps
    BY <1>17, <2>1, ElementOfSeq
  <2> QED
    BY <2>2 DEF DrawOps, Rebuilding
<1>20. -1 < levels'
  BY <1>1, <1>14
<1>21. ProgramInv'
  BY <1>1, <1>14, <1>16, <1>18, <1>19, <1>20, PlainHandler
<1>22. ~opt.optO
  BY <1>3 DEF Active
<1>23. file' = file /\ restored' = restored
  BY DEF filevars
<1> QED
  BY <1>14, <1>15, <1>16, <1>21, <1>22, <1>23, BeginKeepsIInv

(* Every event keeps the invariant. *)
LEMMA EventKeepsIInv ==
    ASSUME IInv, Event
    PROVE  IInv'
<1>1. CASE (ClickSaveState \/ ClickLoadState) /\ UNCHANGED filevars
  BY <1>1, SavingKeepsIInv
<1>2. CASE /\ \/ ClickSolveOrientation \/ ClickSolvePosition \/ ChooseTool \/ ClickLevel
              \/ BrushStroke \/ AttractorStroke \/ ChooseSymmetry \/ Load \/ ClickReset
              \/ Exit
           /\ \/ file = NoFile /\ UNCHANGED file
              \/ file # NoFile /\ file.events > 0 /\ file' = [file EXCEPT !.events = @ - 1]
           /\ UNCHANGED restored
  <2>1. FileStep
    BY <1>2 DEF FileStep
  <2> QED
    BY <1>2, <2>1, ClicksKeepIInv, ChoicesKeepIInv, AttractorStrokeKeepsIInv, ResetsKeepIInv,
       ExitKeepsIInv
<1> QED
  BY <1>1, <1>2 DEF Event

-----------------------------------------------------------------------------
(* The session.                                                            *)

(* It begins consistently. *)
LEMMA InitKeepsIInv ==
    ASSUME Init
    PROVE  IInv
<1>1. PICK session \in Sessions :
        ui = [btnO |-> FALSE, btnP |-> FALSE, enabledP |-> FALSE, attractors |-> {},
              tool |-> "none", cont |-> FALSE, sel |-> -1, rosy4 |-> TRUE, mesh |-> 0,
              session |-> session]
  BY DEF Init
<1>2. /\ lockq = << >> /\ asleep = {} /\ levels = 0 /\ strokes = << >> /\ wpc = "lock"
      /\ wloc = [level |-> -1, last |-> FALSE, view |-> FALSE]
      /\ opt = [running |-> TRUE, optO |-> FALSE, optP |-> FALSE, level |-> -1,
                iters |-> 0, hier |-> FALSE, frozenQ |-> FALSE, frozenO |-> FALSE,
                validQ |-> TRUE, validO |-> TRUE]
      /\ prog = << >> /\ gpc = "run" /\ built = FALSE /\ file = NoFile /\ restored = FALSE
  BY DEF Init, OptimizerInit, NoLocals
<1>3. /\ ~ui.btnO /\ ~ui.btnP /\ ~ui.enabledP /\ ui.tool = "none" /\ ui.sel = -1
      /\ ui.mesh = 0
  BY <1>1
<1>4. ~opt.optO /\ ~opt.optP
  BY <1>2
<1>5. DOMAIN prog = {} /\ prog \in Seq(OpType)
  BY <1>2
<1>6. lockq \in Queues /\ Members(lockq) = {}
  BY <1>2 DEF Queues, Members
<1>7. WorkerQueueInv /\ ClientQueueInv
  BY <1>2, <1>6 DEF WorkerQueueInv, ClientQueueInv
<1>8. LoadedInv
  <2>1. -1 < levels
    BY <1>2
  <2> QED
    BY <1>3, <2>1 DEF LoadedInv, WidgetsNeedMesh, Loaded
<1>9. ProgramInv
  BY <1>5 DEF ProgramInv, Orderly
<1>10. SolveInv
  BY <1>2, <1>4 DEF SolveInv, Active
<1>11. FileInv
  BY <1>2 DEF FileInv
<1>12. TypeOK
  <2>1. /\ -1 \in Levels /\ 0 \in 0 .. LevelIterations + 1 /\ 0 \in 0 .. MaxLevels
    BY MaxLevelsAssumption, LevelIterationsAssumption DEF Levels
  <2>2. PICK automatic \in Levels : automatic = -1
    BY <2>1
  <2>3. opt \in OptType
    <3>1. opt = [running |-> TRUE, optO |-> FALSE, optP |-> FALSE, level |-> automatic,
                 iters |-> 0, hier |-> FALSE, frozenQ |-> FALSE, frozenO |-> FALSE,
                 validQ |-> TRUE, validO |-> TRUE]
      BY <1>2, <2>2, Zenon
    <3> QED
      BY <2>1, <3>1 DEF OptType
  <2>4. ui \in UiType
    <3>1. ui = [btnO |-> FALSE, btnP |-> FALSE, enabledP |-> FALSE, attractors |-> {},
                tool |-> "none", cont |-> FALSE, sel |-> automatic, rosy4 |-> TRUE, mesh |-> 0,
                session |-> session]
      BY <1>1, <2>2, Zenon
    <3>2. {} \in SUBSET AllTools /\ "none" \in AllTools \cup {"none"} /\ 0 \in Nat
      OBVIOUS
    <3> QED
      BY <3>1, <3>2 DEF UiType
  <2>5. wloc \in [level : Levels, last : BOOLEAN, view : BOOLEAN]
    <3>1. wloc = [level |-> automatic, last |-> FALSE, view |-> FALSE]
      BY <1>2, <2>2, Zenon
    <3> QED
      BY <3>1
  <2>6. strokes \in Seq(StrokeType) /\ Len(strokes) = 0
    BY <1>2
  <2>7. lockq \in Seq(Threads) /\ asleep \subseteq Threads
    BY <1>2
  <2>8. Len(strokes) <= MaxStrokes
    BY <2>6, SessionAssumption
  <2> QED
    BY <1>2, <2>1, <2>3, <2>4, <2>5, <2>6, <2>7, <2>8
    DEF TypeOK, OptimizerTypeOK, WorkerPcs
<1> QED
  BY <1>7, <1>8, <1>9, <1>10, <1>11, <1>12 DEF IInv

(* Every step keeps the invariant. *)
LEMMA NextKeepsIInv ==
    ASSUME IInv, [Next]_vars
    PROVE  IInv'
<1>1. CASE Handler
  BY <1>1, HandlerKeepsIInv
<1>2. CASE Event
  BY <1>2, EventKeepsIInv
<1>3. CASE Draw /\ UNCHANGED filevars
  BY <1>3, DrawKeepsIInv
<1>4. CASE Worker
  BY <1>4, WorkerKeepsIInv
<1>5. CASE Spurious
  <2>1. /\ asleep' = asleep \ {"worker"} /\ UNCHANGED <<lockq, opt, levels, strokes, wpc, wloc>>
        /\ UNCHANGED <<ui, prog, gpc, built, file, restored>>
    BY <1>5 DEF Spurious, SpuriousWakeup, guivars, filevars
  <2>2. /\ TypeOK /\ WorkerQueueInv /\ ClientQueueInv /\ LoadedInv
        /\ ProgramInv /\ SolveInv /\ FileInv
    BY DEF IInv
  <2>3. WorkerQueueInv'
    BY <2>1, <2>2, ClientKeepsQueue
  <2>4. ClientQueueInv'
    BY <2>1, <2>2 DEF ClientQueueInv
  <2>5. TypeOK'
    BY <2>1, <2>2 DEF TypeOK, OptimizerTypeOK
  <2>6. LoadedInv' /\ FileInv'
    BY <2>1, <2>2 DEF LoadedInv, Usable, Loaded, FileInv
  <2>7. SolveInv'
    BY <2>1, <2>2 DEF SolveInv, Active
  <2>8. ProgramInv'
    BY <2>1, <2>2 DEF ProgramInv, Loaded, Active
  <2> QED
    BY <2>3, <2>4, <2>5, <2>6, <2>7, <2>8 DEF IInv
<1>6. CASE UNCHANGED vars
  <2>1. /\ UNCHANGED <<lockq, asleep, opt, levels, strokes, wpc, wloc>>
        /\ UNCHANGED <<ui, prog, gpc, built, file, restored>>
    BY <1>6 DEF vars, optvars, guivars, filevars
  <2>2. /\ TypeOK /\ WorkerQueueInv /\ ClientQueueInv /\ LoadedInv
        /\ ProgramInv /\ SolveInv /\ FileInv
    BY DEF IInv
  <2>3. WorkerQueueInv' /\ ClientQueueInv'
    BY <2>1, <2>2 DEF WorkerQueueInv, Owns, ClientQueueInv
  <2>4. TypeOK'
    BY <2>1, <2>2 DEF TypeOK, OptimizerTypeOK
  <2>5. LoadedInv' /\ FileInv'
    BY <2>1, <2>2 DEF LoadedInv, Usable, Loaded, FileInv
  <2>6. SolveInv'
    BY <2>1, <2>2 DEF SolveInv, Active
  <2>7. ProgramInv'
    BY <2>1, <2>2 DEF ProgramInv, Loaded, Active
  <2> QED
    BY <2>3, <2>4, <2>5, <2>6, <2>7 DEF IInv
<1> QED
  BY <1>1, <1>2, <1>3, <1>4, <1>5, <1>6 DEF Next, Finished

(* The inductive invariant holds in every session. *)
THEOREM SessionInvariance == Spec => []IInv
<1>1. Init => IInv
  BY InitKeepsIInv
<1>2. IInv /\ [Next]_vars => IInv'
  BY NextKeepsIInv
<1> QED
  BY <1>1, <1>2, PTL DEF Spec

(* Whatever was clicked before, the worker only iterates on a complete     *)
(* hierarchy, for one field and at a level that exists                     *)
(* (viewer.cpp:774-786, 3197-3306).                                        *)
THEOREM WorkerIsSafe == Spec => []SessionInv
<1>1. IInv => SessionInv
  <2> SUFFICES ASSUME IInv
               PROVE  SessionInv
    OBVIOUS
  <2>1. TypeOK /\ SolveInv /\ ClientQueueInv
    BY DEF IInv
  <2>2. wpc \in {"iterate", "sweep"} =>
          built /\ opt.level \in 0 .. levels - 1 /\ opt.optO # opt.optP
    BY <2>1 DEF SolveInv, ClientQueueInv, Active, Consistent
  <2> QED
    BY <2>1, <2>2 DEF SessionInv, WorkerHasWholeHierarchy
<1> QED
  BY <1>1, SessionInvariance, PTL

(* Between two handlers the orientation button shows the orientation solve *)
(* (viewer.cpp:489-510, 2413-2434).                                        *)
THEOREM ButtonShowsSolve == Spec => []OrientationSolveIsShown
<1>1. IInv => OrientationSolveIsShown
  <2> SUFFICES ASSUME IInv, prog = << >>, opt.optO
               PROVE  ui.btnO
    BY DEF OrientationSolveIsShown
  <2>1. DOMAIN prog = {}
    OBVIOUS
  <2>2. ~Cancels(prog)
    BY <2>1 DEF Cancels
  <2> QED
    BY <2>2 DEF IInv, SolveInv
<1> QED
  BY <1>1, SessionInvariance, PTL
=============================================================================
