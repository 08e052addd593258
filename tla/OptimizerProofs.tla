--------------------------- MODULE OptimizerProofs ---------------------------
(***************************************************************************)
(* Lemmas about Optimizer that the proofs of RetopoSolve and ViewerSession *)
(* share: the queue of mRes.mutex() and the steps of the worker, for every *)
(* number of levels and of sweeps per level.                               *)
(***************************************************************************)
EXTENDS Optimizer, SequenceTheorems, TLAPS

(* The queues in which no thread appears twice, and who is in one. *)
Queues == {q \in Seq(Threads) : \A i, j \in 1 .. Len(q) : q[i] = q[j] => i = j}

Members(q) == {q[i] : i \in 1 .. Len(q)}

(* The worker's place in the queue follows its place in run(): it is       *)
(* queued from lock() to its release, it owns the lock while it waits to   *)
(* sleep or iterates, and only a worker in mCond.wait() is asleep.         *)
WorkerQueueInv ==
    /\ lockq \in Queues
    /\ "worker" \in Members(lockq) <=> wpc \in {"queued", "wait", "iterate", "sweep", "terminated"}
    /\ wpc \in {"wait", "iterate", "sweep"} => Owns("worker")
    /\ "worker" \in asleep => wpc = "asleep"

-----------------------------------------------------------------------------
(* The queue of the lock.                                                  *)

(* A thread that is not queued joins the end; the owner stays the owner. *)
LEMMA QueueJoin ==
    ASSUME NEW q \in Queues, NEW t \in Threads, t \notin Members(q)
    PROVE  /\ Append(q, t) \in Queues
           /\ Members(Append(q, t)) = Members(q) \cup {t}
           /\ Append(q, t) # << >>
           /\ Head(Append(q, t)) = IF q = << >> THEN t ELSE Head(q)
<1>1. q \in Seq(Threads) /\ Len(q) \in Nat
  BY DEF Queues
<1>2. /\ Append(q, t) \in Seq(Threads)
      /\ Len(Append(q, t)) = Len(q) + 1
      /\ \A i \in 1 .. Len(q) : Append(q, t)[i] = q[i]
      /\ Append(q, t)[Len(q) + 1] = t
  BY <1>1, AppendProperties
<1>3. Append(q, t) \in Queues
  <2> SUFFICES ASSUME NEW i \in 1 .. Len(q) + 1, NEW j \in 1 .. Len(q) + 1,
                      Append(q, t)[i] = Append(q, t)[j]
               PROVE  i = j
    BY <1>2 DEF Queues
  <2>1. \A k \in 1 .. Len(q) : q[k] # t
    BY DEF Members
  <2>2. \A k, l \in 1 .. Len(q) : q[k] = q[l] => k = l
    BY DEF Queues
  <2> QED
    BY <1>1, <1>2, <2>1, <2>2
<1>4. Members(Append(q, t)) = Members(q) \cup {t}
  BY <1>1, <1>2 DEF Members
<1>5. Append(q, t) # << >>
  BY <1>1, <1>2, EmptySeq
<1>6. Head(Append(q, t)) = IF q = << >> THEN t ELSE Head(q)
  <2>1. q = << >> <=> Len(q) = 0
    BY <1>1, EmptySeq
  <2>2. Head(Append(q, t)) = Append(q, t)[1]
    BY <1>2, <1>5, HeadTailProperties
  <2>3. q # << >> => Head(q) = q[1]
    BY <1>1, HeadTailProperties
  <2> QED
    BY <1>1, <1>2, <2>1, <2>2, <2>3
<1> QED
  BY <1>3, <1>4, <1>5, <1>6

(* The owner leaves the queue; everybody else stays. *)
LEMMA QueueLeave ==
    ASSUME NEW q \in Queues, q # << >>
    PROVE  /\ Tail(q) \in Queues
           /\ Members(Tail(q)) = Members(q) \ {Head(q)}
           /\ Head(q) \in Members(q)
<1>1. q \in Seq(Threads) /\ Len(q) \in Nat /\ Len(q) > 0
  BY DEF Queues
<1>2. /\ Tail(q) \in Seq(Threads)
      /\ Len(Tail(q)) = Len(q) - 1
      /\ \A i \in 1 .. Len(Tail(q)) : Tail(q)[i] = q[i + 1]
      /\ Head(q) = q[1]
  BY <1>1, HeadTailProperties
<1>3. Tail(q) \in Queues
  <2> SUFFICES ASSUME NEW i \in 1 .. Len(Tail(q)), NEW j \in 1 .. Len(Tail(q)),
                      Tail(q)[i] = Tail(q)[j]
               PROVE  i = j
    BY <1>2 DEF Queues
  <2>1. \A k, l \in 1 .. Len(q) : q[k] = q[l] => k = l
    BY DEF Queues
  <2>2. i + 1 \in 1 .. Len(q) /\ j + 1 \in 1 .. Len(q) /\ q[i + 1] = q[j + 1]
    BY <1>1, <1>2
  <2> QED
    BY <2>1, <2>2
<1>4. Members(Tail(q)) \subseteq Members(q) \ {Head(q)}
  BY <1>1, <1>2 DEF Queues, Members
<1>5. Members(q) \ {Head(q)} \subseteq Members(Tail(q))
  <2> SUFFICES ASSUME NEW i \in 1 .. Len(q), q[i] # Head(q)
               PROVE  \E j \in 1 .. Len(Tail(q)) : Tail(q)[j] = q[i]
    BY DEF Members
  <2>1. i - 1 \in 1 .. Len(Tail(q)) /\ Tail(q)[i - 1] = q[i]
    BY <1>1, <1>2
  <2> QED
    BY <2>1
<1>6. Head(q) \in Members(q)
  <2>1. 1 \in 1 .. Len(q) /\ Head(q) = q[1]
    BY <1>1, <1>2
  <2> QED
    BY <2>1 DEF Members
<1> QED
  BY <1>3, <1>4, <1>5, <1>6

-----------------------------------------------------------------------------
(* The steps of the worker.                                                *)

WorkerStep(interactive, mesh) ==
    \/ WorkerLock \/ WorkerTest \/ WorkerSleep \/ WorkerWake
    \/ WorkerBegin(interactive) \/ WorkerEnd(mesh) \/ WorkerThrow(mesh)

(* What the worker's steps do to the lock: the worker joins the queue, or  *)
(* the owner leaves it and that is the worker, or nothing changes.         *)
LEMMA WorkerUsesLock ==
    ASSUME WorkerQueueInv, NEW interactive, NEW mesh, WorkerStep(interactive, mesh)
    PROVE  \/ /\ wpc \in {"lock", "asleep"} /\ wpc' = "queued" /\ lockq' = Append(lockq, "worker")
           \/ /\ Owns("worker") /\ wpc \in {"queued", "wait", "sweep"}
              /\ wpc' \in {"exited", "asleep", "lock"} /\ lockq' = Tail(lockq)
           \/ /\ lockq' = lockq
              /\ \/ wpc = "queued" /\ Owns("worker") /\ wpc' \in {"wait", "iterate"}
                 \/ wpc = "iterate" /\ wpc' = "sweep"
                 \/ wpc = "sweep" /\ wpc' = "terminated"
<1>1. CASE WorkerLock
  BY <1>1 DEF WorkerLock, Enqueue
<1>2. CASE WorkerTest
  BY <1>2 DEF WorkerTest
<1>3. CASE WorkerSleep
  BY <1>3 DEF WorkerSleep, WorkerQueueInv
<1>4. CASE WorkerWake
  BY <1>4 DEF WorkerWake, Enqueue
<1>5. CASE WorkerBegin(interactive)
  BY <1>5 DEF WorkerBegin
<1>6. CASE WorkerEnd(mesh)
  BY <1>6 DEF WorkerEnd, WorkerQueueInv
<1>7. CASE WorkerThrow(mesh)
  BY <1>7 DEF WorkerThrow
<1> QED
  BY <1>1, <1>2, <1>3, <1>4, <1>5, <1>6, <1>7 DEF WorkerStep

(* The steps of the worker keep its place in the queue, and they neither   *)
(* add nor remove the client, nor do they take the lock away from it.      *)
LEMMA WorkerKeepsQueue ==
    ASSUME WorkerQueueInv, NEW interactive, NEW mesh, WorkerStep(interactive, mesh)
    PROVE  /\ WorkerQueueInv'
           /\ "client" \in Members(lockq') <=> "client" \in Members(lockq)
           /\ Owns("client") => Owns("client")'
<1>1. lockq \in Queues
  BY DEF WorkerQueueInv
<1>2. wpc \notin {"queued", "wait", "iterate", "sweep", "terminated"} => "worker" \notin Members(lockq)
  BY DEF WorkerQueueInv
<1>3. asleep' = asleep \/ asleep' = {} \/ (wpc' = "asleep" /\ asleep' = asleep \cup {"worker"})
  BY DEF WorkerStep, WorkerLock, WorkerTest, WorkerSleep, WorkerWake, WorkerBegin, WorkerEnd,
         WorkerThrow, AsleepAfterStop
<1>4. wpc = "asleep" /\ wpc' # "asleep" => "worker" \notin asleep
  BY DEF WorkerStep, WorkerLock, WorkerTest, WorkerSleep, WorkerWake, WorkerBegin, WorkerEnd,
         WorkerThrow
<1>5. wpc = "asleep" => wpc' # "asleep"
  BY DEF WorkerStep, WorkerLock, WorkerTest, WorkerSleep, WorkerWake, WorkerBegin, WorkerEnd,
         WorkerThrow
<1>6. "worker" \in asleep' => wpc' = "asleep"
  BY <1>3, <1>4, <1>5 DEF WorkerQueueInv
<1>7. CASE wpc \in {"lock", "asleep"} /\ wpc' = "queued" /\ lockq' = Append(lockq, "worker")
  <2>1. /\ lockq' \in Queues /\ lockq' # << >>
        /\ Members(lockq') = Members(lockq) \cup {"worker"}
        /\ Head(lockq') = IF lockq = << >> THEN "worker" ELSE Head(lockq)
    BY <1>1, <1>2, <1>7, QueueJoin DEF Threads
  <2> QED
    BY <1>6, <1>7, <2>1 DEF WorkerQueueInv, Owns
<1>8. CASE /\ Owns("worker") /\ wpc \in {"queued", "wait", "sweep"}
           /\ wpc' \in {"exited", "asleep", "lock"} /\ lockq' = Tail(lockq)
  <2>1. lockq' \in Queues /\ Members(lockq') = Members(lockq) \ {"worker"}
    BY <1>1, <1>8, QueueLeave DEF Owns
  <2> QED
    BY <1>6, <1>8, <2>1 DEF WorkerQueueInv, Owns
<1>9. CASE /\ lockq' = lockq
           /\ \/ wpc = "queued" /\ Owns("worker") /\ wpc' \in {"wait", "iterate"}
              \/ wpc = "iterate" /\ wpc' = "sweep"
              \/ wpc = "sweep" /\ wpc' = "terminated"
  BY <1>6, <1>9 DEF WorkerQueueInv, Owns
<1> QED
  BY <1>7, <1>8, <1>9, WorkerUsesLock

(* The client takes its place in the queue, or leaves it as the owner.     *)
LEMMA ClientKeepsQueue ==
    ASSUME WorkerQueueInv, UNCHANGED wpc, "worker" \in asleep' => "worker" \in asleep,
           \/ lockq' = lockq
           \/ "client" \notin Members(lockq) /\ lockq' = Append(lockq, "client")
           \/ Owns("client") /\ lockq' = Tail(lockq)
    PROVE  /\ WorkerQueueInv'
           /\ lockq' = Append(lockq, "client") => "client" \in Members(lockq')
           /\ Owns("client") /\ lockq' = Tail(lockq) => "client" \notin Members(lockq')
<1>1. lockq \in Queues
  BY DEF WorkerQueueInv
<1>2. CASE lockq' = lockq
  <2>1. ~(lockq' = Append(lockq, "client"))
    BY <1>1, <1>2, AppendProperties DEF Queues, Threads
  <2>2. Owns("client") => ~(lockq' = Tail(lockq))
    BY <1>1, <1>2, QueueLeave DEF Owns
  <2> QED
    BY <1>2, <2>1, <2>2 DEF WorkerQueueInv, Owns
<1>3. CASE "client" \notin Members(lockq) /\ lockq' = Append(lockq, "client")
  <2>1. /\ lockq' \in Queues /\ lockq' # << >>
        /\ Members(lockq') = Members(lockq) \cup {"client"}
        /\ Head(lockq') = IF lockq = << >> THEN "client" ELSE Head(lockq)
    BY <1>1, <1>3, QueueJoin DEF Threads
  <2>2. Owns("client") => FALSE
    BY <1>1, <1>3, QueueLeave DEF Owns
  <2> QED
    BY <1>3, <2>1, <2>2 DEF WorkerQueueInv, Owns
<1>4. CASE Owns("client") /\ lockq' = Tail(lockq)
  <2>1. lockq' \in Queues /\ Members(lockq') = Members(lockq) \ {"client"}
    BY <1>1, <1>4, QueueLeave DEF Owns
  <2>2. wpc \notin {"wait", "iterate", "sweep"}
    BY <1>4 DEF WorkerQueueInv, Owns
  <2>3. lockq' # Append(lockq, "client")
    BY <1>1, <1>4, AppendProperties, HeadTailProperties DEF Owns, Queues, Threads
  <2> QED
    BY <1>4, <2>1, <2>2, <2>3 DEF WorkerQueueInv, Owns
<1> QED
  BY <1>2, <1>3, <1>4

-----------------------------------------------------------------------------
(* The stores of the calls that start a solve.                             *)

(* Six stores are appended in two steps. *)
LEMMA ConcatSix ==
    ASSUME NEW a, NEW b, NEW c, NEW d, NEW e, NEW f
    PROVE  << a, b >> \o << c >> \o << d, e, f >> = << a, b, c, d, e, f >>
<1> DEFINE S == {a, b, c, d, e, f}
           s == << a, b >> \o << c >>
           t == s \o << d, e, f >>
           r == << a, b, c, d, e, f >>
<1>0. a \in S /\ b \in S /\ c \in S /\ d \in S /\ e \in S /\ f \in S
  OBVIOUS
<1> HIDE DEF S
<1>1. /\ << a, b >> \in Seq(S) /\ << c >> \in Seq(S) /\ << d, e, f >> \in Seq(S)
      /\ r \in Seq(S)
  BY <1>0
<1>2. s \in Seq(S) /\ Len(s) = 3 /\ s[1] = a /\ s[2] = b /\ s[3] = c
  BY <1>1, ConcatProperties
<1>3. /\ t \in Seq(S) /\ Len(t) = 6
      /\ t[1] = a /\ t[2] = b /\ t[3] = c /\ t[4] = d /\ t[5] = e /\ t[6] = f
  <2> HIDE DEF s
  <2> QED
    BY <1>1, <1>2, ConcatProperties
<1>4. /\ r \in Seq(S) /\ Len(r) = 6
      /\ r[1] = a /\ r[2] = b /\ r[3] = c /\ r[4] = d /\ r[5] = e /\ r[6] = f
  BY <1>1
<1> HIDE DEF t, r
<1>5. \A i \in 1 .. Len(t) : t[i] = r[i]
  BY <1>3, <1>4
<1>6. t = r
  BY <1>3, <1>4, <1>5, SeqEqual
<1> QED
  BY <1>6 DEF t, r, s

(* What one store does to the members. *)
LEMMA StoreIs ==
    ASSUME NEW o, NEW x
    PROVE  /\ Store(o, <<"level", x>>) = [o EXCEPT !.level = x]
           /\ Store(o, <<"hier", x>>) = [o EXCEPT !.hier = x]
           /\ Store(o, <<"frozenQ", x>>) = [o EXCEPT !.frozenQ = x]
           /\ Store(o, <<"frozenO", x>>) = [o EXCEPT !.frozenO = x]
           /\ Store(o, <<"iters", x>>) = [o EXCEPT !.iters = x]
           /\ Store(o, <<"optO", x>>) = [o EXCEPT !.optO = x]
           /\ Store(o, <<"optP", x>>) = [o EXCEPT !.optP = x]
<1>1. Store(o, <<"level", x>>) = [o EXCEPT !.level = x]
  BY DEF Store
<1>2. Store(o, <<"hier", x>>) = [o EXCEPT !.hier = x]
  BY DEF Store
<1>3. Store(o, <<"frozenQ", x>>) = [o EXCEPT !.frozenQ = x]
  BY DEF Store
<1>4. Store(o, <<"frozenO", x>>) = [o EXCEPT !.frozenO = x]
  BY DEF Store
<1>5. Store(o, <<"iters", x>>) = [o EXCEPT !.iters = x]
  BY DEF Store
<1>6. Store(o, <<"optO", x>>) = [o EXCEPT !.optO = x]
  BY DEF Store
<1>7. Store(o, <<"optP", x>>) = [o EXCEPT !.optP = x]
  BY DEF Store
<1> QED
  BY <1>1, <1>2, <1>3, <1>4, <1>5, <1>6, <1>7

-----------------------------------------------------------------------------
(* The types of the members.                                               *)

(* An assignment to one member keeps the types of all. *)
LEMMA MemberType ==
    ASSUME NEW o \in OptType, NEW b \in BOOLEAN, NEW l \in Levels,
           NEW k \in 0 .. LevelIterations + 1
    PROVE  /\ [o EXCEPT !.running = b] \in OptType
           /\ [o EXCEPT !.optO = b] \in OptType
           /\ [o EXCEPT !.optP = b] \in OptType
           /\ [o EXCEPT !.hier = b] \in OptType
           /\ [o EXCEPT !.frozenQ = b] \in OptType
           /\ [o EXCEPT !.frozenO = b] \in OptType
           /\ [o EXCEPT !.level = l] \in OptType
           /\ [o EXCEPT !.iters = k] \in OptType
<1>1. [o EXCEPT !.running = b] \in OptType
  BY DEF OptType
<1>2. [o EXCEPT !.optO = b] \in OptType
  BY DEF OptType
<1>3. [o EXCEPT !.optP = b] \in OptType
  BY DEF OptType
<1>4. [o EXCEPT !.hier = b] \in OptType
  BY DEF OptType
<1>5. [o EXCEPT !.frozenQ = b] \in OptType
  BY DEF OptType
<1>6. [o EXCEPT !.frozenO = b] \in OptType
  BY DEF OptType
<1>7. [o EXCEPT !.level = l] \in OptType
  BY DEF OptType
<1>8. [o EXCEPT !.iters = k] \in OptType
  BY DEF OptType
<1> QED
  BY <1>1, <1>2, <1>3, <1>4, <1>5, <1>6, <1>7, <1>8

(* stop() keeps the types of the members. *)
LEMMA StoppedType ==
    ASSUME NEW o \in OptType
    PROVE  Stopped(o) \in OptType
  BY DEF Stopped, OptType

(* So does the end of a level. *)
LEMMA AfterLevelType ==
    ASSUME OptimizerTypeOK, opt.level \in 0 .. levels - 1
    PROVE  AfterLevel \in OptType
<1> DEFINE next == [opt EXCEPT !.level = @ - 1, !.iters = 0]
           frozen == [next EXCEPT !.frozenQ = @ \/ opt.optO, !.frozenO = @ \/ opt.optP]
<1>1. opt \in OptType /\ levels \in 0 .. MaxLevels /\ MaxLevels \in Nat
  BY MaxLevelsAssumption DEF OptimizerTypeOK
<1>2. opt.level - 1 \in Levels /\ 0 \in 0 .. LevelIterations + 1
  BY <1>1, LevelIterationsAssumption DEF Levels
<1>3. next \in OptType
  BY <1>1, <1>2 DEF OptType
<1>4. frozen \in OptType
  BY <1>1, <1>3 DEF OptType
<1>5. Stopped(frozen) \in OptType
  BY <1>4, StoppedType
<1> QED
  BY <1>1, <1>3, <1>5 DEF AfterLevel

(* The end of an iteration shortens or drops the last stroke. *)
LEMMA StrokesAfterType ==
    ASSUME strokes \in Seq(StrokeType), strokes # << >>, NEW mesh,
           NEW outcome \in StrokeOutcomes(mesh) \ {"throw"}
    PROVE  StrokesAfter(outcome) \in Seq(StrokeType)
<1> DEFINE n == Len(strokes)
           s == strokes[n]
<1>1. n \in Nat /\ n > 0 /\ s \in StrokeType
  BY EmptySeq, ElementOfSeq, LenProperties
<1>2. CASE outcome = "shorten"
  <2>1. s.len >= 2 /\ s.len \in Nat
    BY <1>1, <1>2 DEF StrokeOutcomes, StrokeType
  <2>2. [s EXCEPT !.len = @ - 1] \in StrokeType
    BY <1>1, <2>1 DEF StrokeType
  <2>3. [strokes EXCEPT ![n] = [s EXCEPT !.len = @ - 1]] \in Seq(StrokeType)
    BY <1>1, <2>2, ExceptSeq
  <2>4. StrokesAfter(outcome) = [strokes EXCEPT ![n] = [s EXCEPT !.len = @ - 1]]
    BY <1>1, <1>2 DEF StrokesAfter
  <2> QED
    BY <2>3, <2>4
<1>3. CASE outcome # "shorten"
  <2>1. SubSeq(strokes, 1, n - 1) \in Seq(StrokeType)
    BY <1>1, SubSeqProperties
  <2> QED
    BY <1>3, <2>1 DEF StrokesAfter
<1> QED
  BY <1>2, <1>3

(* The worker keeps the types of everything it shares with the client, as  *)
(* long as it only iterates at a level that exists.                        *)
LEMMA WorkerKeepsTypes ==
    ASSUME OptimizerTypeOK, WorkerQueueInv,
           wpc \in {"iterate", "sweep"} => opt.level \in 0 .. levels - 1,
           NEW interactive \in BOOLEAN, NEW mesh, WorkerStep(interactive, mesh)
    PROVE  OptimizerTypeOK'
<1> USE DEF OptimizerTypeOK
<1>1. lockq' \in Seq(Threads) /\ wpc' \in WorkerPcs
  <2>1. lockq' \in Queues
    BY WorkerKeepsQueue DEF WorkerQueueInv
  <2>2. wpc' \in WorkerPcs
    BY WorkerUsesLock DEF WorkerPcs
  <2> QED
    BY <2>1, <2>2 DEF Queues
<1>2. asleep' \subseteq Threads /\ levels' = levels
  BY DEF WorkerStep, WorkerLock, WorkerTest, WorkerSleep, WorkerWake, WorkerBegin, WorkerEnd,
         WorkerThrow, AsleepAfterStop, Threads
<1>3. CASE WorkerLock \/ WorkerTest \/ WorkerSleep \/ WorkerWake \/ WorkerThrow(mesh)
  BY <1>1, <1>2, <1>3 DEF WorkerLock, WorkerTest, WorkerSleep, WorkerWake, WorkerThrow
<1>4. CASE WorkerBegin(interactive)
  <2>1. opt.iters \in Nat /\ LevelIterations \in Nat /\ opt.iters <= LevelIterations + 1
    BY LevelIterationsAssumption DEF OptType
  <2>2. PICK slow \in BOOLEAN :
          /\ opt' = [opt EXCEPT !.iters = IF opt.iters + 1 > LevelIterations
                                          THEN LevelIterations + 1 ELSE opt.iters + 1]
          /\ wloc' = [level |-> opt.level, last |-> LastIterationAtLevel(opt.iters + 1),
                      view |-> slow \/ ~opt.hier]
    BY <1>4 DEF WorkerBegin
  <2>3. (IF opt.iters + 1 > LevelIterations THEN LevelIterations + 1 ELSE opt.iters + 1)
            \in 0 .. LevelIterations + 1
    BY <2>1
  <2>4. opt' \in OptType
    BY <2>2, <2>3 DEF OptType
  <2>5. LastIterationAtLevel(opt.iters + 1) \in BOOLEAN /\ (slow \/ ~opt.hier) \in BOOLEAN
    BY DEF LastIterationAtLevel
  <2>6. wloc' \in [level : Levels, last : BOOLEAN, view : BOOLEAN]
    BY <2>2, <2>5 DEF OptType
  <2> QED
    BY <1>1, <1>2, <1>4, <2>4, <2>6 DEF WorkerBegin
<1>5. CASE WorkerEnd(mesh)
  <2>1. AfterLevel \in OptType
    BY <1>5, AfterLevelType DEF WorkerEnd
  <2>2. [AfterLevel EXCEPT !.hier = TRUE, !.iters = 0] \in OptType
    <3>1. 0 \in 0 .. LevelIterations + 1
      BY LevelIterationsAssumption
    <3>2. \A o \in OptType : [o EXCEPT !.hier = TRUE, !.iters = 0] \in OptType
      BY <3>1 DEF OptType
    <3> QED
      BY <2>1, <3>2
  <2>3. opt' \in OptType
    BY <1>5, <2>1, <2>2 DEF WorkerEnd
  <2>4. strokes' \in Seq(StrokeType)
    BY <1>5, StrokesAfterType DEF WorkerEnd, StrokeDue
  <2>5. wloc' \in [level : Levels, last : BOOLEAN, view : BOOLEAN]
    BY <1>5, MaxLevelsAssumption DEF WorkerEnd, NoLocals, Levels
  <2> QED
    BY <1>1, <1>2, <2>3, <2>4, <2>5
<1> QED
  BY <1>3, <1>4, <1>5 DEF WorkerStep
=============================================================================
