-------------------------- MODULE LintRunnerProofs ---------------------------
(***************************************************************************)
(* Theorems about a lint pass, for every set of files, every partition of  *)
(* it into batches, every number of workers and every split depth; and,    *)
(* from "What the caches hold" on, about the lint pass over its caches.    *)
(***************************************************************************)
EXTENDS LintBatches, LintReplay, FiniteSetTheorems, TLAPS

(* The halves a worker holds are disjoint from its process and each other. *)
HalvesApart(w) ==
  /\ current[w] \intersect FilesIn(waiting[w]) = {}
  /\ \A g, h \in waiting[w] : g = h \/ g.files \intersect h.files = {}

(* Halves wait only behind a process.                                      *)
IdleHoldsNothing == \A w \in Worker : current[w] = {} => waiting[w] = {}

(* A pass that is over took every batch and has no process left.           *)
PassIsOver ==
  /\ phase \in {"rescue", "done"} => error = "none" /\ unstarted = {}
  /\ phase \in {"rescue", "done", "failed"} => \A w \in Worker : current[w] = {}

(* A file is rescued at most once, and only after the pass.                *)
RescuesApart ==
  /\ phase \notin {"rescue", "done"} => toRescue = {} /\ rescuing = {} /\ rescued = {}
  /\ toRescue \intersect rescuing = {}
  /\ toRescue \intersect rescued = {}
  /\ rescuing \intersect rescued = {}

(* At most one process in a serial pass, said without counting.            *)
SerialHasOne ==
  phase = "serial" => \A v, w \in Worker : current[v] # {} /\ current[w] # {} => v = w

(* Accounting is not inductive alone: it needs that an idle worker holds   *)
(* no half, and that a rescue only moves files that are still dropped.     *)
IInv ==
  /\ TypeOK
  /\ EveryFileAccounted
  /\ IdleHoldsNothing
  /\ PassIsOver
  /\ RescuesApart
  /\ SerialHasOne
  /\ ReportTrue

LEMMA InitIInv == Init => IInv
<1> SUFFICES ASSUME Init PROVE IInv OBVIOUS
<1> USE DEF Init
<1>1. TypeOK BY DEF TypeOK, Splittable, Unsplittable, Reason, NoReport, Half
<1>2. EveryFileAccounted
  <2>1. \A w \in Worker : HeldBy(w) = {} BY DEF HeldBy, FilesIn
  <2>2. UNION {HeldBy(w) : w \in Worker} = {} BY <2>1
  <2> QED BY <2>1, <2>2, BatchAssumption DEF EveryFileAccounted, StillDropped, FilesIn
<1>3. /\ IdleHoldsNothing /\ PassIsOver /\ RescuesApart /\ SerialHasOne /\ ReportTrue
  BY DEF IdleHoldsNothing, PassIsOver, RescuesApart, SerialHasOne, ReportTrue
<1> QED BY <1>1, <1>2, <1>3 DEF IInv

(* A step that only moves files a worker holds to another place it can be  *)
(* in keeps the account, whatever the other workers hold.                  *)
LEMMA WorkerMoves ==
  ASSUME TypeOK, EveryFileAccounted, error = "none",
         NEW w \in Worker, NEW lin, NEW dro, NEW ski,
         \A v \in Worker \ {w} : /\ current'[v] = current[v]
                                 /\ waiting'[v] = waiting[v],
         HalvesApart(w)',
         HeldBy(w)' \union lin \union dro \union ski = HeldBy(w),
         HeldBy(w)' \intersect (lin \union dro \union ski) = {},
         lin \intersect (dro \union ski) = {}, dro \intersect ski = {},
         linted' = linted \union lin,
         StillDropped' = StillDropped \union dro,
         skipped' = skipped \union ski,
         unstarted' = unstarted
  PROVE  EveryFileAccounted'
<1> DEFINE H == [v \in Worker |-> HeldBy(v)]
           G == [v \in Worker |-> HeldBy(v)']
<1>1. \A v \in Worker \ {w} : G[v] = H[v] /\ HalvesApart(v)'
  BY DEF HeldBy, FilesIn, EveryFileAccounted, HalvesApart
<1>2. /\ (UNION unstarted) \union (UNION {H[v] : v \in Worker})
           \union linted \union StillDropped \union skipped = File
      /\ \A v \in Worker : H[v] \intersect
           ((UNION unstarted) \union linted \union StillDropped \union skipped) = {}
      /\ \A u, v \in Worker : u # v => H[u] \intersect H[v] = {}
      /\ (UNION unstarted) \intersect (linted \union StillDropped \union skipped) = {}
      /\ linted \intersect (StillDropped \union skipped) = {}
      /\ StillDropped \intersect skipped = {}
  BY DEF EveryFileAccounted
<1>3. G[w] \union lin \union dro \union ski = H[w]
      /\ G[w] \intersect (lin \union dro \union ski) = {}
  OBVIOUS
<1>4. \A v \in Worker : G[v] \subseteq H[v] BY <1>1, <1>3
<1> HIDE DEF H, G
<1>5. (UNION {H[v] : v \in Worker}) = (UNION {G[v] : v \in Worker}) \union lin \union dro \union ski
  <2>1. \A v \in Worker : H[v] \subseteq (UNION {G[u] : u \in Worker}) \union lin \union dro \union ski
    BY <1>1, <1>3
  <2>2. \A v \in Worker : G[v] \subseteq (UNION {H[u] : u \in Worker})
    BY <1>4
  <2>3. lin \union dro \union ski \subseteq (UNION {H[u] : u \in Worker})
    BY <1>3
  <2> QED BY <2>1, <2>2, <2>3
<1>6. /\ (UNION unstarted') \union (UNION {G[v] : v \in Worker})
           \union linted' \union StillDropped' \union skipped' = File
      /\ (UNION unstarted') \intersect (linted' \union StillDropped' \union skipped') = {}
      /\ linted' \intersect (StillDropped' \union skipped') = {}
      /\ StillDropped' \intersect skipped' = {}
  <2>1. (lin \union dro \union ski) \intersect
          ((UNION unstarted) \union linted \union StillDropped \union skipped) = {}
    BY <1>2, <1>3
  <2> QED BY <1>2, <1>5, <2>1
<1>7. \A v \in Worker : G[v] \intersect
        ((UNION unstarted') \union linted' \union StillDropped' \union skipped') = {}
  <2>1. \A v \in Worker : G[v] \intersect (lin \union dro \union ski) = {}
    BY <1>1, <1>2, <1>3
  <2> QED BY <1>2, <1>4, <2>1
<1>8. \A u, v \in Worker : u # v => G[u] \intersect G[v] = {} BY <1>2, <1>4
<1>9. \A v \in Worker : HalvesApart(v)' BY <1>1
<1>10. \A v \in Worker : G[v] = HeldBy(v)' BY DEF G
<1>11. (UNION {G[v] : v \in Worker}) = UNION {HeldBy(v)' : v \in Worker} BY <1>10
<1> QED BY <1>6, <1>7, <1>8, <1>9, <1>10, <1>11 DEF EveryFileAccounted, HalvesApart

(* What a worker goes on with is well typed and still apart.               *)
LEMMA GoOnWell ==
  ASSUME IInv, NEW w \in Worker, current[w] # {},
         error = "none" => HalvesApart(w),
         NEW late \in SUBSET File, GoOn(w, waiting[w], late)
  PROVE  /\ current' \in [Worker -> SUBSET File]
         /\ depth' \in [Worker -> Nat]
         /\ waiting' \in [Worker -> SUBSET Half]
         /\ skipped' \in SUBSET File
         /\ \A v \in Worker : \A h \in waiting'[v] : h.files # {}
         /\ \A v \in Worker \ {w} : current'[v] = current[v] /\ waiting'[v] = waiting[v]
         /\ current'[w] = {} => waiting'[w] = {}
         /\ error = "none" => HalvesApart(w)'
<1> USE DEF IInv, TypeOK
<1>1. waiting[w] \in SUBSET Half /\ \A h \in waiting[w] : h.files # {} OBVIOUS
<1>2. FilesIn(waiting[w]) \in SUBSET File BY <1>1 DEF FilesIn, Half
<1>3. CASE waiting[w] = {} BY <1>3 DEF GoOn, HalvesApart, FilesIn
<1>4. CASE waiting[w] # {} /\ ~MaySpawn
  BY <1>2, <1>4 DEF GoOn, HalvesApart, FilesIn
<1>5. CASE waiting[w] # {} /\ MaySpawn
  <2>1. PICK h \in waiting[w] : /\ current' = [current EXCEPT ![w] = h.files]
                                /\ depth' = [depth EXCEPT ![w] = h.depth]
                                /\ waiting' = [waiting EXCEPT ![w] = waiting[w] \ {h}]
                                /\ skipped' = skipped \union late
    BY <1>5 DEF GoOn
  <2>2. h \in Half /\ h.files \in SUBSET File /\ h.depth \in Nat /\ h.files # {}
    BY <1>1 DEF Half
  <2>3. /\ current'[w] = h.files /\ waiting'[w] = waiting[w] \ {h}
        /\ \A v \in Worker \ {w} : current'[v] = current[v] /\ waiting'[v] = waiting[v]
    BY <2>1
  <2>4. error = "none" => HalvesApart(w)' BY <2>3 DEF HalvesApart, FilesIn
  <2> QED BY <1>1, <2>1, <2>2, <2>3, <2>4
<1> QED BY <1>3, <1>4, <1>5

(* It is what its halves hold, but for what the deadline takes.            *)
LEMMA GoOnHolds ==
  ASSUME IInv, NEW w \in Worker, NEW late \in SUBSET File,
         GoOn(w, waiting[w], late)
  PROVE  \E ski \in SUBSET File :
           /\ skipped' = skipped \union late \union ski
           /\ HeldBy(w)' \union ski = FilesIn(waiting[w])
           /\ HeldBy(w)' \intersect ski = {}
<1> USE DEF IInv, TypeOK
<1>1. FilesIn(waiting[w]) \in SUBSET File BY DEF FilesIn, Half
<1>2. CASE waiting[w] = {}
  <2>1. HeldBy(w)' = {} /\ FilesIn(waiting[w]) = {} BY <1>2 DEF GoOn, HeldBy, FilesIn
  <2>2. skipped' = skipped \union late \union {} BY <1>2 DEF GoOn
  <2> QED BY <2>1, <2>2
<1>3. CASE waiting[w] # {} /\ MaySpawn
  <2>1. PICK h \in waiting[w] : /\ current' = [current EXCEPT ![w] = h.files]
                                /\ waiting' = [waiting EXCEPT ![w] = waiting[w] \ {h}]
                                /\ skipped' = skipped \union late
    BY <1>3 DEF GoOn
  <2>2. current'[w] = h.files /\ waiting'[w] = waiting[w] \ {h} BY <2>1
  <2>3. HeldBy(w)' = FilesIn(waiting[w]) BY <2>2 DEF HeldBy, FilesIn
  <2> WITNESS {} \in SUBSET File
  <2> QED BY <2>1, <2>3
<1>4. CASE waiting[w] # {} /\ ~MaySpawn
  <2>1. HeldBy(w)' = {} BY <1>4 DEF GoOn, HeldBy, FilesIn
  <2>2. skipped' = skipped \union late \union FilesIn(waiting[w]) BY <1>4 DEF GoOn
  <2> SUFFICES /\ FilesIn(waiting[w]) \in SUBSET File
               /\ skipped' = skipped \union late \union FilesIn(waiting[w])
               /\ HeldBy(w)' \union FilesIn(waiting[w]) = FilesIn(waiting[w])
               /\ HeldBy(w)' \intersect FilesIn(waiting[w]) = {}
    OBVIOUS
  <2> QED BY <1>1, <2>1, <2>2
<1> QED BY <1>2, <1>3, <1>4

(* A settled process: its files are linted, dropped or skipped, the worker *)
(* goes on.                                                                *)
LEMMA SettledKeepsAccount ==
  ASSUME IInv, NEW w \in Worker, current[w] # {}, InPass,
         NEW lin, NEW dro, NEW late \in SUBSET File,
         lin \union dro \union late = current[w],
         lin \intersect (dro \union late) = {}, dro \intersect late = {},
         GoOn(w, waiting[w], late),
         linted' = linted \union lin, dropped' = dropped \union dro,
         UNCHANGED <<unstarted, error, rescued>>
  PROVE  EveryFileAccounted'
<1> SUFFICES ASSUME error = "none" PROVE EveryFileAccounted'
  BY DEF EveryFileAccounted
<1>1. HalvesApart(w) BY DEF IInv, EveryFileAccounted, HalvesApart
<1>2. PICK ski \in SUBSET File : /\ skipped' = skipped \union late \union ski
                                 /\ HeldBy(w)' \union ski = FilesIn(waiting[w])
                                 /\ HeldBy(w)' \intersect ski = {}
  BY GoOnHolds
<1>3. /\ HalvesApart(w)'
      /\ \A v \in Worker \ {w} : current'[v] = current[v] /\ waiting'[v] = waiting[v]
  BY <1>1, GoOnWell
<1>4. StillDropped' = StillDropped \union dro
  BY DEF StillDropped, IInv, RescuesApart, InPass
<1>5. current[w] \intersect FilesIn(waiting[w]) = {} BY <1>1 DEF HalvesApart
<1>6. HeldBy(w) = current[w] \union FilesIn(waiting[w]) BY DEF HeldBy
<1> DEFINE gone == late \union ski
           held == HeldBy(w)'
           inHalves == FilesIn(waiting[w])
<1>7. /\ held \union ski = inHalves /\ held \intersect ski = {}
      /\ current[w] \intersect inHalves = {} /\ HeldBy(w) = current[w] \union inHalves
  BY <1>2, <1>5, <1>6
<1> HIDE DEF held, inHalves
<1>8. held \union lin \union dro \union gone = HeldBy(w) BY <1>7
<1>9. held \intersect (lin \union dro \union gone) = {} BY <1>7
<1>10. lin \intersect (dro \union gone) = {} /\ dro \intersect gone = {} BY <1>7
<1>11. skipped' = skipped \union gone BY <1>2
<1>12. TypeOK /\ EveryFileAccounted BY DEF IInv
<1>13. /\ HeldBy(w)' \union lin \union dro \union gone = HeldBy(w)
       /\ HeldBy(w)' \intersect (lin \union dro \union gone) = {}
  BY <1>8, <1>9 DEF held
<1> HIDE DEF gone
<1> QED BY <1>3, <1>4, <1>10, <1>11, <1>12, <1>13, WorkerMoves

-----------------------------------------------------------------------------
(* One lemma per action.                                                   *)

(* The parts of the invariant a worker's step in a pass does not touch.    *)
LEMMA PassParts ==
  ASSUME IInv, InPass, NEW w \in Worker, current[w] # {},
         \A v \in Worker \ {w} : current'[v] = current[v] /\ waiting'[v] = waiting[v],
         current'[w] = {} => waiting'[w] = {},
         UNCHANGED <<phase, unstarted, rescueVars, report>>
  PROVE  IdleHoldsNothing' /\ PassIsOver' /\ RescuesApart' /\ SerialHasOne' /\ ReportTrue'
BY DEF IInv, TypeOK, InPass, IdleHoldsNothing, PassIsOver, RescuesApart, SerialHasOne,
       ReportTrue, rescueVars

LEMMA TakeBatchIInv ==
  ASSUME IInv, NEW w \in Worker, NEW batch \in unstarted, TakeBatch(w, batch)
  PROVE  IInv'
<1> USE DEF IInv
<1>1. batch \in Batch /\ batch \in SUBSET File /\ batch # {}
  BY BatchAssumption DEF TypeOK
<1>2. /\ UNION unstarted = (UNION unstarted') \union batch
      /\ (UNION unstarted') \intersect batch = {}
  BY <1>1, BatchAssumption DEF TakeBatch, TypeOK
<1>3. waiting[w] = {} /\ HeldBy(w) = {}
  BY DEF TakeBatch, IdleHoldsNothing, HeldBy, FilesIn
<1>4. error = "none" /\ error' = "none" BY DEF TakeBatch
<1>5. CASE pastDeadline
  <2>1. /\ skipped' = skipped \union batch /\ unstarted' = unstarted \ {batch}
        /\ UNCHANGED <<phase, workerVars, error, linted, dropped, oomDropped, reasonVars,
                       rescueVars, outsideVars, report>>
    BY <1>5 DEF TakeBatch
  <2>2. TypeOK' BY <1>1, <2>1 DEF TypeOK, workerVars, reasonVars, rescueVars, clockVars, outsideVars
  <2>3. EveryFileAccounted'
    <3>1. \A v \in Worker : HeldBy(v)' = HeldBy(v) BY <2>1 DEF HeldBy, FilesIn, workerVars
    <3>2. UNION {HeldBy(v)' : v \in Worker} = UNION {HeldBy(v) : v \in Worker} BY <3>1
    <3>3. batch \subseteq UNION unstarted BY <1>2
    <3>4. \A v \in Worker : HeldBy(v) \intersect batch = {}
      BY <1>4, <3>3 DEF EveryFileAccounted
    <3>5. batch \intersect (linted \union StillDropped \union skipped) = {}
      BY <1>4, <3>3 DEF EveryFileAccounted
    <3>6. /\ StillDropped' = StillDropped /\ linted' = linted
          /\ \A v \in Worker : HalvesApart(v)' = HalvesApart(v)
      BY <2>1 DEF StillDropped, rescueVars, HalvesApart, FilesIn, workerVars
    <3> QED BY <1>2, <1>4, <2>1, <3>1, <3>2, <3>4, <3>5, <3>6
            DEF EveryFileAccounted, HalvesApart
  <2>4. IdleHoldsNothing' /\ PassIsOver' /\ RescuesApart' /\ SerialHasOne' /\ ReportTrue'
    BY <2>1 DEF TakeBatch, InPass, workerVars, rescueVars, IdleHoldsNothing, PassIsOver,
       RescuesApart, SerialHasOne, ReportTrue
  <2> QED BY <2>2, <2>3, <2>4
<1>6. CASE ~pastDeadline
  <2>1. /\ current' = [current EXCEPT ![w] = batch] /\ depth' = [depth EXCEPT ![w] = 0]
        /\ budget' = [budget EXCEPT ![w] = "unset"] /\ unstarted' = unstarted \ {batch}
        /\ UNCHANGED <<phase, waiting, skipped, error, linted, dropped, oomDropped,
                       reasonVars, rescueVars, outsideVars, report>>
    BY <1>6 DEF TakeBatch
  <2>2. TypeOK' BY <1>1, <2>1 DEF TypeOK, reasonVars, rescueVars, clockVars, outsideVars
  <2>3. EveryFileAccounted'
    <3>1. HeldBy(w)' = batch BY <1>3, <2>1 DEF HeldBy, FilesIn, TypeOK
    <3>2. \A v \in Worker \ {w} : HeldBy(v)' = HeldBy(v)
      BY <2>1 DEF HeldBy, FilesIn, TypeOK
    <3>3. UNION {HeldBy(v)' : v \in Worker} = (UNION {HeldBy(v) : v \in Worker}) \union batch
      <4>1. \A v \in Worker : HeldBy(v)' \subseteq (UNION {HeldBy(u) : u \in Worker}) \union batch
        BY <3>1, <3>2
      <4>2. \A v \in Worker : HeldBy(v) \subseteq UNION {HeldBy(u)' : u \in Worker}
        BY <1>3, <3>2
      <4>3. batch \subseteq UNION {HeldBy(u)' : u \in Worker} BY <3>1
      <4> QED BY <4>1, <4>2, <4>3
    <3>4. batch \subseteq UNION unstarted BY <1>2
    <3>5. \A v \in Worker : HeldBy(v) \intersect batch = {}
      BY <1>4, <3>4 DEF EveryFileAccounted
    <3>6. batch \intersect (linted \union StillDropped \union skipped) = {}
      BY <1>4, <3>4 DEF EveryFileAccounted
    <3>7. StillDropped' = StillDropped /\ linted' = linted /\ skipped' = skipped
      BY <2>1 DEF StillDropped, rescueVars
    <3>8. \A v \in Worker : HalvesApart(v)'
      BY <1>3, <1>4, <2>1 DEF EveryFileAccounted, HalvesApart, FilesIn, TypeOK
    <3>9. (UNION unstarted') \union (UNION {HeldBy(v)' : v \in Worker})
            \union linted' \union StillDropped' \union skipped' = File
      BY <1>2, <1>4, <3>3, <3>7 DEF EveryFileAccounted
    <3>10. \A v \in Worker : HeldBy(v)' \intersect
             ((UNION unstarted') \union linted' \union StillDropped' \union skipped') = {}
      BY <1>2, <1>4, <3>1, <3>2, <3>6, <3>7 DEF EveryFileAccounted
    <3>11. \A u, v \in Worker : u # v => HeldBy(u)' \intersect HeldBy(v)' = {}
      BY <1>4, <3>1, <3>2, <3>5 DEF EveryFileAccounted
    <3>12. /\ (UNION unstarted') \intersect (linted' \union StillDropped' \union skipped') = {}
           /\ linted' \intersect (StillDropped' \union skipped') = {}
           /\ StillDropped' \intersect skipped' = {}
      BY <1>2, <1>4, <3>7 DEF EveryFileAccounted
    <3> QED BY <3>8, <3>9, <3>10, <3>11, <3>12 DEF EveryFileAccounted, HalvesApart
  <2>4. IdleHoldsNothing' /\ PassIsOver' /\ RescuesApart' /\ ReportTrue'
    BY <1>1, <2>1 DEF TakeBatch, InPass, rescueVars, IdleHoldsNothing, PassIsOver,
       RescuesApart, ReportTrue, TypeOK
  <2>5. SerialHasOne' BY <2>1 DEF TakeBatch, SerialHasOne, TypeOK
  <2> QED BY <2>2, <2>3, <2>4, <2>5
<1> QED BY <1>5, <1>6

LEMMA SucceedIInv ==
  ASSUME IInv, NEW w \in Worker, Succeed(w) PROVE IInv'
<1>1. /\ InPass /\ current[w] # {} /\ GoOn(w, waiting[w], {})
      /\ {} \in SUBSET File
      /\ linted' = linted \union current[w]
      /\ UNCHANGED <<phase, unstarted, budget, error, dropped, oomDropped, reasonVars,
                     rescueVars, outsideVars, report>>
  BY DEF Succeed
<1>2. error = "none" => HalvesApart(w) BY DEF IInv, EveryFileAccounted, HalvesApart
<1>3. /\ current' \in [Worker -> SUBSET File]
      /\ depth' \in [Worker -> Nat]
      /\ waiting' \in [Worker -> SUBSET Half]
      /\ skipped' \in SUBSET File
      /\ \A v \in Worker : \A h \in waiting'[v] : h.files # {}
      /\ \A v \in Worker \ {w} : current'[v] = current[v] /\ waiting'[v] = waiting[v]
      /\ current'[w] = {} => waiting'[w] = {}
  BY <1>1, <1>2, GoOnWell
<1>4. TypeOK' BY <1>1, <1>3 DEF IInv, TypeOK, reasonVars, rescueVars, clockVars, outsideVars
<1>5. EveryFileAccounted'
  <2> DEFINE none == {}
  <2>1. /\ current[w] \union none \union none = current[w] /\ none \in SUBSET File
        /\ current[w] \intersect (none \union none) = {}
        /\ none \intersect none = {} /\ GoOn(w, waiting[w], none)
        /\ linted' = linted \union current[w]
        /\ dropped' = dropped \union none /\ UNCHANGED <<unstarted, error, rescued>>
    BY <1>1 DEF rescueVars
  <2> HIDE DEF none
  <2> QED BY <1>1, <2>1, SettledKeepsAccount
<1>6. IdleHoldsNothing' /\ PassIsOver' /\ RescuesApart' /\ SerialHasOne' /\ ReportTrue'
  BY <1>1, <1>3, PassParts
<1> QED BY <1>4, <1>5, <1>6 DEF IInv

LEMMA FailLateIInv ==
  ASSUME IInv, NEW w \in Worker, FailLate(w) PROVE IInv'
<1>1. /\ InPass /\ current[w] # {} /\ GoOn(w, waiting[w], current[w])
      /\ current[w] \in SUBSET File
      /\ lingering' \in BOOLEAN
      /\ UNCHANGED <<phase, unstarted, budget, error, linted, dropped, oomDropped,
                     reasonVars, rescueVars, clockVars, report>>
  BY DEF FailLate, IInv, TypeOK, KillLingers
<1>2. error = "none" => HalvesApart(w) BY DEF IInv, EveryFileAccounted, HalvesApart
<1>3. /\ current' \in [Worker -> SUBSET File]
      /\ depth' \in [Worker -> Nat]
      /\ waiting' \in [Worker -> SUBSET Half]
      /\ skipped' \in SUBSET File
      /\ \A v \in Worker : \A h \in waiting'[v] : h.files # {}
      /\ \A v \in Worker \ {w} : current'[v] = current[v] /\ waiting'[v] = waiting[v]
      /\ current'[w] = {} => waiting'[w] = {}
  BY <1>1, <1>2, GoOnWell
<1>4. TypeOK' BY <1>1, <1>3 DEF IInv, TypeOK, reasonVars, rescueVars, clockVars, outsideVars
<1>5. EveryFileAccounted'
  <2> DEFINE none == {}
  <2>1. /\ none \union none \union current[w] = current[w]
        /\ none \intersect (none \union current[w]) = {}
        /\ none \intersect current[w] = {}
        /\ linted' = linted \union none /\ dropped' = dropped \union none
        /\ UNCHANGED <<unstarted, error, rescued>>
    BY <1>1 DEF rescueVars
  <2> HIDE DEF none
  <2> QED BY <1>1, <2>1, SettledKeepsAccount
<1>6. IdleHoldsNothing' /\ PassIsOver' /\ RescuesApart' /\ SerialHasOne' /\ ReportTrue'
  BY <1>1, <1>3, PassParts
<1> QED BY <1>4, <1>5, <1>6 DEF IInv

LEMMA DropIInv ==
  ASSUME IInv, NEW w \in Worker, NEW kind \in Splittable, Drop(w, kind) PROVE IInv'
<1>1. /\ InPass /\ current[w] # {} /\ GoOn(w, waiting[w], {})
      /\ current[w] \in SUBSET File /\ {} \in SUBSET File
      /\ dropped' = dropped \union current[w]
      /\ oomDropped' = oomDropped \union (IF kind = "oom" THEN current[w] ELSE {})
      /\ lingering' \in BOOLEAN
      /\ UNCHANGED <<phase, unstarted, error, linted, rescueVars, clockVars, report>>
  BY DEF Drop, IInv, TypeOK, KillLingers
<1>2. error = "none" => HalvesApart(w) BY DEF IInv, EveryFileAccounted, HalvesApart
<1>3. /\ current' \in [Worker -> SUBSET File]
      /\ depth' \in [Worker -> Nat]
      /\ waiting' \in [Worker -> SUBSET Half]
      /\ skipped' \in SUBSET File
      /\ \A v \in Worker : \A h \in waiting'[v] : h.files # {}
      /\ \A v \in Worker \ {w} : current'[v] = current[v] /\ waiting'[v] = waiting[v]
      /\ current'[w] = {} => waiting'[w] = {}
  BY <1>1, <1>2, GoOnWell
<1>4. TypeOK'
  <2>1. budget' \in [Worker -> {"unset", "running", "elapsed"}]
    BY DEF Drop, NextBudget, IInv, TypeOK
  <2>2. /\ firstDropReason' \in Splittable \union {"none"}
        /\ firstNonOomDropReason' \in {"limit", "none"}
    BY DEF Drop, FirstOf, Splittable, IInv, TypeOK
  <2>3. /\ dropped' \in SUBSET File /\ oomDropped' \in SUBSET dropped'
        /\ oomDropped \subseteq oomDropped'
    BY <1>1 DEF IInv, TypeOK
  <2> QED BY <1>1, <1>3, <2>1, <2>2, <2>3 DEF IInv, TypeOK, rescueVars, clockVars, outsideVars
<1>5. EveryFileAccounted'
  <2> DEFINE none == {}
  <2>1. /\ none \union current[w] \union none = current[w] /\ none \in SUBSET File
        /\ none \intersect (current[w] \union none) = {}
        /\ current[w] \intersect none = {} /\ GoOn(w, waiting[w], none)
        /\ linted' = linted \union none /\ dropped' = dropped \union current[w]
        /\ UNCHANGED <<unstarted, error, rescued>>
    BY <1>1 DEF rescueVars
  <2> HIDE DEF none
  <2> QED BY <1>1, <2>1, SettledKeepsAccount
<1>6. IdleHoldsNothing' /\ PassIsOver' /\ RescuesApart' /\ SerialHasOne' /\ ReportTrue'
  BY <1>1, <1>3, PassParts
<1> QED BY <1>4, <1>5, <1>6 DEF IInv

(* Both halves of more than one file hold a file.                          *)
LEMMA HalvesHaveFiles ==
  ASSUME NEW files, IsFiniteSet(files), ~(Cardinality(files) <= 1),
         NEW first, NEW second, IsSplit(files, first, second)
  PROVE  first # {} /\ second # {}
<1>1. Cardinality(files) \in Nat /\ Cardinality(files) >= 2
  BY FS_CardinalityType
<1>2. Cardinality(first) = (Cardinality(files) + 1) \div 2 BY DEF IsSplit
<1>3. Cardinality(first) >= 1 /\ Cardinality(first) < Cardinality(files)
  BY <1>1, <1>2
<1>4. first # {} BY <1>3, FS_EmptySet
<1>5. second # {}
  <2> SUFFICES ASSUME second = {} PROVE FALSE OBVIOUS
  <2>1. first = files BY DEF IsSplit
  <2> QED BY <1>1, <1>3, <2>1
<1> QED BY <1>4, <1>5

LEMMA SplitIInv ==
  ASSUME IInv, NEW w \in Worker, Split(w) PROVE IInv'
<1>1. PICK first \in SUBSET current[w], second \in SUBSET current[w] :
        /\ IsSplit(current[w], first, second)
        /\ current' = [current EXCEPT ![w] = first]
        /\ waiting' = [waiting EXCEPT
             ![w] = @ \union {[files |-> second, depth |-> depth[w] + 1]}]
  BY DEF Split
<1>2. /\ InPass /\ ~(Cardinality(current[w]) <= 1)
      /\ depth' = [depth EXCEPT ![w] = @ + 1]
      /\ budget' = [budget EXCEPT ![w] = "running"]
      /\ lingering' \in BOOLEAN
      /\ UNCHANGED <<phase, unstarted, error, fileVars, reasonVars, rescueVars,
                     clockVars, report>>
  BY DEF Split, IsSmallest, KillLingers, IInv, TypeOK
<1> USE DEF IInv, TypeOK
<1>3. /\ current[w] \in SUBSET File /\ first \in SUBSET File /\ second \in SUBSET File
      /\ depth[w] + 1 \in Nat /\ waiting[w] \in SUBSET Half
  OBVIOUS
<1>4. first # {} /\ second # {}
  <2>1. IsFiniteSet(current[w]) BY <1>3, FileAssumption, FS_Subset
  <2> QED BY <1>1, <1>2, <2>1, HalvesHaveFiles
<1>5. current[w] # {} BY <1>4
<1> DEFINE half == [files |-> second, depth |-> depth[w] + 1]
<1>6. half \in Half /\ half.files = second BY <1>3 DEF Half
<1>7. /\ current'[w] = first /\ waiting'[w] = waiting[w] \union {half}
      /\ \A v \in Worker \ {w} : current'[v] = current[v] /\ waiting'[v] = waiting[v]
  BY <1>1
<1> HIDE DEF half
<1>8. TypeOK'
  <2>1. /\ current' \in [Worker -> SUBSET File] /\ depth' \in [Worker -> Nat]
        /\ waiting' \in [Worker -> SUBSET Half]
        /\ budget' \in [Worker -> {"unset", "running", "elapsed"}]
    BY <1>1, <1>2, <1>3, <1>6 DEF half
  <2>2. \A v \in Worker : \A h \in waiting'[v] : h.files # {} BY <1>4, <1>6, <1>7
  <2> QED BY <1>2, <2>1, <2>2 DEF fileVars, reasonVars, rescueVars, clockVars, outsideVars
<1>9. EveryFileAccounted'
  <2> SUFFICES ASSUME error = "none" PROVE EveryFileAccounted'
    BY <1>2 DEF EveryFileAccounted
  <2>1. HalvesApart(w) BY DEF EveryFileAccounted, HalvesApart
  <2>2. first \union second = current[w] /\ first \intersect second = {}
    BY <1>1 DEF IsSplit
  <2>3. FilesIn(waiting'[w]) = FilesIn(waiting[w]) \union second
    BY <1>6, <1>7 DEF FilesIn
  <2>4. HeldBy(w)' = HeldBy(w) BY <1>7, <2>2, <2>3 DEF HeldBy
  <2>5. HalvesApart(w)'
    <3>1. \A h \in waiting[w] : h.files \subseteq FilesIn(waiting[w]) BY DEF FilesIn
    <3>2. \A h \in waiting[w] : h.files \intersect current[w] = {}
      BY <2>1, <3>1 DEF HalvesApart
    <3> QED BY <1>6, <1>7, <2>1, <2>2, <2>3, <3>2 DEF HalvesApart
  <2> DEFINE none == {}
  <2>6. /\ HeldBy(w)' \union none \union none \union none = HeldBy(w)
        /\ HeldBy(w)' \intersect (none \union none \union none) = {}
        /\ none \intersect (none \union none) = {} /\ none \intersect none = {}
        /\ linted' = linted \union none /\ skipped' = skipped \union none
        /\ StillDropped' = StillDropped \union none
    BY <1>2, <2>4 DEF StillDropped, fileVars, rescueVars
  <2> HIDE DEF none
  <2> QED BY <1>2, <1>7, <2>5, <2>6, WorkerMoves
<1>10. IdleHoldsNothing' /\ PassIsOver' /\ RescuesApart' /\ SerialHasOne' /\ ReportTrue'
  BY <1>2, <1>4, <1>5, <1>7, PassParts
<1> QED BY <1>8, <1>9, <1>10

LEMMA BreakIInv ==
  ASSUME IInv, NEW w \in Worker, NEW kind \in Unsplittable, Break(w, kind) PROVE IInv'
<1>1. /\ InPass /\ current[w] # {} /\ error' = FirstOf(error, kind)
      /\ current' = [current EXCEPT ![w] = {}] /\ waiting' = [waiting EXCEPT ![w] = {}]
      /\ lingering' \in BOOLEAN
      /\ UNCHANGED <<phase, unstarted, depth, budget, fileVars, reasonVars, rescueVars,
                     clockVars, report>>
  BY DEF Break, KillLingers, IInv, TypeOK
<1>2. error' \in {"exhausted", "fatal"}
  BY <1>1 DEF FirstOf, Unsplittable, IInv, TypeOK
<1>3. TypeOK' BY <1>1, <1>2 DEF IInv, TypeOK, fileVars, reasonVars, rescueVars, clockVars, outsideVars
<1>4. EveryFileAccounted' BY <1>2 DEF EveryFileAccounted
<1>5. IdleHoldsNothing' /\ PassIsOver' /\ RescuesApart' /\ SerialHasOne' /\ ReportTrue'
  <2>1. /\ \A v \in Worker \ {w} : current'[v] = current[v] /\ waiting'[v] = waiting[v]
        /\ current'[w] = {} => waiting'[w] = {}
    BY <1>1 DEF IInv, TypeOK
  <2> QED BY <1>1, <2>1, PassParts
<1> QED BY <1>3, <1>4, <1>5 DEF IInv

LEMMA ReplayIInv == ASSUME IInv, Replay PROVE IInv'
<1> USE DEF IInv
<1>1. /\ phase = "parallel" /\ phase' = "serial" /\ unstarted' = Batch /\ error' = "none"
      /\ linted' = {} /\ dropped' = {} /\ oomDropped' = {} /\ skipped' = {}
      /\ firstDropReason' = "none" /\ firstNonOomDropReason' = "none"
      /\ \A w \in Worker : current[w] = {}
      /\ UNCHANGED <<workerVars, rescueVars, outsideVars, report>>
  BY DEF Replay, PassSettled, CanReplay
<1>2. toRescue = {} /\ rescuing = {} /\ rescued = {} BY <1>1 DEF RescuesApart
<1>3. TypeOK' BY <1>1, <1>2 DEF TypeOK, workerVars, rescueVars, clockVars, outsideVars
<1>4. EveryFileAccounted'
  <2>1. \A w \in Worker : HeldBy(w)' = {} /\ HalvesApart(w)'
    BY <1>1 DEF IdleHoldsNothing, HeldBy, FilesIn, HalvesApart, workerVars
  <2>2. UNION {HeldBy(w)' : w \in Worker} = {} BY <2>1
  <2> QED BY <1>1, <2>1, <2>2, BatchAssumption
          DEF EveryFileAccounted, StillDropped, HalvesApart
<1>5. IdleHoldsNothing' /\ PassIsOver' /\ RescuesApart' /\ SerialHasOne' /\ ReportTrue'
  BY <1>1, <1>2 DEF workerVars, rescueVars, IdleHoldsNothing, PassIsOver, RescuesApart,
     SerialHasOne, ReportTrue
<1> QED BY <1>3, <1>4, <1>5

(* Steps that move no file between places keep the account.                *)
LEMMA AccountUntouched ==
  ASSUME EveryFileAccounted,
         UNCHANGED <<unstarted, workerVars, error, linted, dropped, skipped, rescued>>
  PROVE  EveryFileAccounted'
<1>1. /\ \A w \in Worker : HeldBy(w)' = HeldBy(w) /\ (HalvesApart(w)' <=> HalvesApart(w))
      /\ StillDropped' = StillDropped
  BY DEF HeldBy, FilesIn, StillDropped, HalvesApart, workerVars
<1>2. {HeldBy(w)' : w \in Worker} = {HeldBy(w) : w \in Worker} BY <1>1
<1> QED BY <1>1, <1>2 DEF EveryFileAccounted, HalvesApart

LEMMA PassEndsIInv ==
  ASSUME IInv, Throw \/ BeginRescue PROVE IInv'
<1> USE DEF IInv
<1>1. /\ InPass /\ \A w \in Worker : current[w] = {}
      /\ \/ phase' = "failed" /\ toRescue' = toRescue
         \/ /\ phase' = "rescue" /\ toRescue' = oomDropped
            /\ error = "none" /\ unstarted = {}
      /\ UNCHANGED <<unstarted, workerVars, error, fileVars, reasonVars, rescuing, rescued,
                     firstRescueFailureReason, outsideVars, report>>
  BY DEF Throw, BeginRescue, PassSettled, rescueVars
<1>2. toRescue = {} /\ rescuing = {} /\ rescued = {}
  BY <1>1 DEF RescuesApart, InPass
<1>3. TypeOK'
  BY <1>1, <1>2 DEF TypeOK, workerVars, fileVars, reasonVars, clockVars, outsideVars
<1>4. EveryFileAccounted' BY <1>1, AccountUntouched DEF fileVars
<1>5. IdleHoldsNothing' /\ PassIsOver' /\ RescuesApart' /\ SerialHasOne' /\ ReportTrue'
  BY <1>1, <1>2 DEF workerVars, IdleHoldsNothing, PassIsOver, RescuesApart,
     SerialHasOne, ReportTrue
<1> QED BY <1>3, <1>4, <1>5

LEMMA RescueFileIInv ==
  ASSUME IInv, NEW x \in toRescue, RescueFile(x) PROVE IInv'
<1> USE DEF IInv
<1>1. /\ phase = "rescue" /\ rescuing = {} /\ toRescue' = toRescue \ {x} /\ rescuing' = {x}
      /\ UNCHANGED <<phase, unstarted, workerVars, error, fileVars, reasonVars, rescued,
                     firstRescueFailureReason, outsideVars, report>>
  BY DEF RescueFile
<1>2. TypeOK' BY <1>1 DEF TypeOK, workerVars, fileVars, reasonVars, clockVars, outsideVars
<1>3. EveryFileAccounted' BY <1>1, AccountUntouched DEF fileVars
<1>4. IdleHoldsNothing' /\ PassIsOver' /\ RescuesApart' /\ SerialHasOne' /\ ReportTrue'
  BY <1>1 DEF workerVars, IdleHoldsNothing, PassIsOver, RescuesApart, SerialHasOne,
     ReportTrue
<1> QED BY <1>2, <1>3, <1>4

LEMMA RescueSucceedsIInv == ASSUME IInv, RescueSucceeds PROVE IInv'
<1> USE DEF IInv
<1>1. /\ phase = "rescue" /\ linted' = linted \union rescuing
      /\ rescued' = rescued \union rescuing /\ rescuing' = {}
      /\ UNCHANGED <<phase, unstarted, workerVars, error, dropped, oomDropped, skipped,
                     reasonVars, toRescue, firstRescueFailureReason, outsideVars, report>>
  BY DEF RescueSucceeds
<1>2. rescuing \in SUBSET File /\ rescuing \in SUBSET StillDropped
  BY DEF TypeOK, StillDropped, RescuesApart
<1>3. TypeOK' BY <1>1, <1>2 DEF TypeOK, workerVars, reasonVars, clockVars, outsideVars
<1>4. EveryFileAccounted'
  <2>1. StillDropped' = StillDropped \ rescuing BY <1>1 DEF StillDropped
  <2>2. \A w \in Worker : HeldBy(w)' = HeldBy(w) /\ (HalvesApart(w)' <=> HalvesApart(w))
    BY <1>1 DEF HeldBy, FilesIn, HalvesApart, workerVars
  <2>3. {HeldBy(w)' : w \in Worker} = {HeldBy(w) : w \in Worker} BY <2>2
  <2> QED BY <1>1, <1>2, <2>1, <2>2, <2>3 DEF EveryFileAccounted, HalvesApart
<1>5. IdleHoldsNothing' /\ PassIsOver' /\ RescuesApart' /\ SerialHasOne' /\ ReportTrue'
  BY <1>1 DEF workerVars, IdleHoldsNothing, PassIsOver, RescuesApart, SerialHasOne,
     ReportTrue
<1> QED BY <1>3, <1>4, <1>5

LEMMA RescueFailsIInv ==
  ASSUME IInv, NEW kind \in Splittable \union Unsplittable, RescueFails(kind) PROVE IInv'
<1> USE DEF IInv
<1>1. /\ phase = "rescue" /\ rescuing' = {}
      /\ firstRescueFailureReason' \in Reason
      /\ lingering' \in BOOLEAN
      /\ UNCHANGED <<phase, unstarted, workerVars, error, fileVars, reasonVars, toRescue,
                     rescued, clockVars, report>>
  BY DEF RescueFails, FirstOf, Reason, TypeOK, KillLingers
<1>2. TypeOK' BY <1>1 DEF TypeOK, workerVars, fileVars, reasonVars, clockVars, outsideVars
<1>3. EveryFileAccounted' BY <1>1, AccountUntouched DEF fileVars
<1>4. IdleHoldsNothing' /\ PassIsOver' /\ RescuesApart' /\ SerialHasOne' /\ ReportTrue'
  BY <1>1 DEF workerVars, IdleHoldsNothing, PassIsOver, RescuesApart, SerialHasOne,
     ReportTrue
<1> QED BY <1>2, <1>3, <1>4

LEMMA FinishIInv == ASSUME IInv, Finish PROVE IInv'
<1> USE DEF IInv
<1>1. /\ phase' = "done"
      /\ report' = [dropped |-> StillDropped, skipped |-> skipped,
                    analyzed |-> File \ Unavailable, reason |-> FinalReason]
      /\ UNCHANGED <<unstarted, workerVars, error, fileVars, reasonVars, rescueVars,
                     outsideVars>>
  BY DEF Finish, StillDropped
<1>2. /\ error = "none" /\ unstarted = {} /\ \A w \in Worker : current[w] = {}
      /\ rescuing = {}
  BY DEF Finish, PassSettled, RescueOver, PassIsOver, RescuesApart, InPass
<1>3. linted = File \ (StillDropped \union skipped)
  <2>1. \A w \in Worker : HeldBy(w) = {}
    BY <1>2 DEF IdleHoldsNothing, HeldBy, FilesIn
  <2>2. UNION {HeldBy(w) : w \in Worker} = {} BY <2>1
  <2> QED BY <1>2, <2>2 DEF EveryFileAccounted
<1>4. TypeOK'
  <2>1. FinalReason \in Reason
    BY DEF FinalReason, FirstOf, Reason, TypeOK, Splittable
  <2>2. report' \in [dropped : SUBSET File, skipped : SUBSET File,
                     analyzed : SUBSET File, reason : Reason]
    BY <1>1, <2>1 DEF TypeOK, StillDropped
  <2> QED BY <1>1, <2>2 DEF TypeOK, workerVars, fileVars, reasonVars, rescueVars, clockVars, outsideVars
<1>5. EveryFileAccounted' BY <1>1, AccountUntouched DEF fileVars, rescueVars
<1>6. IdleHoldsNothing' /\ PassIsOver' /\ SerialHasOne'
  BY <1>1, <1>2 DEF workerVars, IdleHoldsNothing, PassIsOver, SerialHasOne
<1>7. RescuesApart' BY <1>1 DEF RescuesApart, rescueVars
<1>8. ReportTrue'
  BY <1>1, <1>3 DEF ReportTrue, Unavailable, StillDropped, fileVars, TypeOK
<1> QED BY <1>4, <1>5, <1>6, <1>7, <1>8

LEMMA TimePassesIInv ==
  ASSUME IInv, DeadlinePasses \/ RescueDeadlinePasses \/ KilledEnds PROVE IInv'
<1> USE DEF IInv
<1>1. /\ pastDeadline' \in BOOLEAN /\ pastRescueDeadline' \in BOOLEAN
      /\ lingering' \in BOOLEAN
      /\ UNCHANGED <<phase, unstarted, workerVars, error, fileVars, reasonVars, rescueVars,
                     report>>
  BY DEF DeadlinePasses, RescueDeadlinePasses, KilledEnds, clockVars, TypeOK
<1>2. TypeOK' BY <1>1 DEF TypeOK, workerVars, fileVars, reasonVars, rescueVars
<1>3. EveryFileAccounted' BY <1>1, AccountUntouched DEF fileVars, rescueVars
<1>4. IdleHoldsNothing' /\ PassIsOver' /\ RescuesApart' /\ SerialHasOne' /\ ReportTrue'
  BY <1>1 DEF workerVars, fileVars, rescueVars, IdleHoldsNothing, PassIsOver, RescuesApart,
     SerialHasOne, ReportTrue
<1> QED BY <1>2, <1>3, <1>4

LEMMA NextIInv == ASSUME IInv, [Next]_vars PROVE IInv'
<1>1. CASE UNCHANGED vars
  <2>1. EveryFileAccounted'
    BY <1>1, AccountUntouched DEF IInv, vars, fileVars, rescueVars
  <2> QED BY <1>1, <2>1 DEF vars, workerVars, fileVars, reasonVars, rescueVars, clockVars, outsideVars,
      IInv, TypeOK, IdleHoldsNothing, PassIsOver, RescuesApart, SerialHasOne, ReportTrue
<1>2. ASSUME NEW w \in Worker, \/ \E batch \in unstarted : TakeBatch(w, batch)
                               \/ Settles(w)
      PROVE  IInv'
  BY <1>2, TakeBatchIInv, SucceedIInv, FailLateIInv, DropIInv, SplitIInv, BreakIInv
     DEF Settles
<1>3. CASE \/ Replay \/ Throw \/ BeginRescue \/ Finish
           \/ DeadlinePasses \/ RescueDeadlinePasses \/ KilledEnds
  BY <1>3, ReplayIInv, PassEndsIInv, FinishIInv, TimePassesIInv
<1>4. CASE (\E x \in toRescue : RescueFile(x)) \/ RescueSettles
  BY <1>4, RescueFileIInv, RescueSucceedsIInv, RescueFailsIInv DEF RescueSettles
<1> QED BY <1>1, <1>2, <1>3, <1>4 DEF Next

(* Files, batches and workers stay accounted for throughout a pass.        *)
THEOREM IInvariant == Spec => []IInv
<1>1. IInv /\ [Next]_vars => IInv' BY NextIInv
<1> QED BY InitIInv, <1>1, PTL DEF Spec

(* Every variable keeps its type, and no half is ever empty.               *)
THEOREM TypeCorrect == Spec => []TypeOK
<1>1. IInv => TypeOK BY DEF IInv
<1> QED BY IInvariant, <1>1, PTL

(* Splitting, dropping, the replay, the deadline and the rescue keep every *)
(* file in exactly one place while no error ended the pass.                *)
THEOREM NoFileLost == Spec => []EveryFileAccounted
<1>1. IInv => EveryFileAccounted BY DEF IInv
<1> QED BY IInvariant, <1>1, PTL

(* What spawnLintBatches reports as dropped and skipped is exactly what    *)
(* was not linted.                                                         *)
THEOREM HonestReport == Spec => []ReportTrue
<1>1. IInv => ReportTrue BY DEF IInv
<1> QED BY IInvariant, <1>1, PTL

(* A serial pass waits for one process at a time, and none that was not    *)
(* killed outlives a pass.                                                 *)
THEOREM AloneWhenSerial == Spec => []SerialIsAlone
<1>1. IInv => SerialIsAlone
  <2> SUFFICES ASSUME IInv PROVE SerialIsAlone OBVIOUS
  <2> DEFINE Busy == {w \in Worker : current[w] # {}}
  <2>1. ASSUME phase = "serial" PROVE Cardinality(Busy) <= 1
    <3>1. CASE Busy = {} BY <3>1, FS_EmptySet
    <3>2. CASE Busy # {}
      <4>1. PICK w \in Busy : TRUE BY <3>2
      <4>2. Busy = {w} BY <2>1, <4>1 DEF IInv, SerialHasOne
      <4>3. Cardinality(Busy) = 1 BY <4>2, FS_Singleton
      <4> HIDE DEF Busy
      <4> QED BY <4>3
    <3> QED BY <3>1, <3>2
  <2> QED BY <2>1 DEF IInv, PassIsOver, SerialIsAlone
<1> QED BY IInvariant, <1>1, PTL

(* Whose failure each reason is: the first drop's, the first drop's that   *)
(* was not for memory, and the first rescue's that left a file dropped.    *)
ReasonsFound ==
  /\ firstDropReason # "none" <=> dropped # {}
  /\ firstDropReason = "oom" => oomDropped # {}
  /\ firstDropReason = "limit" => firstNonOomDropReason # "none"
  /\ firstNonOomDropReason = "none" => dropped \subseteq oomDropped
  /\ error = "none" /\ firstNonOomDropReason # "none" => dropped \ oomDropped # {}

RescueReasonFound ==
  /\ phase \notin {"rescue", "done"} => firstRescueFailureReason = "none"
  /\ firstRescueFailureReason # "none" =>
       oomDropped \ (toRescue \union rescuing \union rescued) # {}

(* The report is right about a reason only because every reason kept is    *)
(* one of a file the account still holds as dropped.                       *)
RInv == IInv /\ ReasonsFound /\ RescueReasonFound /\ ReasonApplies

LEMMA InitRInv == Init => RInv
BY InitIInv DEF Init, RInv, ReasonsFound, RescueReasonFound, ReasonApplies

LEMMA DropReasons ==
  ASSUME RInv, NEW w \in Worker, NEW kind \in Splittable, Drop(w, kind)
  PROVE  ReasonsFound'
<1> USE DEF RInv, IInv
<1>1. /\ current[w] # {} /\ kind \in {"oom", "limit"} /\ error' = error
      /\ dropped' = dropped \union current[w]
      /\ oomDropped' = oomDropped \union (IF kind = "oom" THEN current[w] ELSE {})
      /\ firstDropReason' = FirstOf(firstDropReason, kind)
      /\ firstNonOomDropReason' = IF kind = "oom" THEN firstNonOomDropReason
                                  ELSE FirstOf(firstNonOomDropReason, kind)
  BY DEF Drop, Splittable
<1>2. firstDropReason \in {"oom", "limit", "none"} /\ oomDropped \subseteq dropped
  BY DEF TypeOK, Splittable
<1>3. error = "none" => current[w] \intersect dropped = {}
  <2>1. rescued = {} BY DEF Drop, InPass, RescuesApart
  <2> QED BY <2>1 DEF EveryFileAccounted, HeldBy, StillDropped
<1>4. CASE kind = "oom"
  BY <1>1, <1>2, <1>3, <1>4 DEF ReasonsFound, FirstOf
<1>5. CASE kind = "limit"
  BY <1>1, <1>2, <1>3, <1>5 DEF ReasonsFound, FirstOf
<1> QED BY <1>1, <1>4, <1>5

LEMMA RescueFailsReasons ==
  ASSUME RInv, NEW kind \in Splittable \union Unsplittable, RescueFails(kind)
  PROVE  RescueReasonFound'
<1> USE DEF RInv, IInv
<1>1. /\ phase = "rescue" /\ phase' = phase /\ rescuing # {} /\ rescuing' = {}
      /\ UNCHANGED <<oomDropped, toRescue, rescued>>
  BY DEF RescueFails, fileVars
<1>2. PICK x \in rescuing : TRUE BY <1>1
<1>3. x \in oomDropped \ (toRescue \union rescued)
  BY <1>2 DEF TypeOK, RescuesApart
<1> QED BY <1>1, <1>3 DEF RescueReasonFound

LEMMA FinishReasons == ASSUME RInv, Finish PROVE ReasonApplies'
<1> USE DEF RInv, IInv
<1>1. /\ report'.dropped = StillDropped /\ report'.reason = FinalReason
      /\ oomDropped' = oomDropped
      /\ firstRescueFailureReason' = firstRescueFailureReason
  BY DEF Finish, StillDropped, fileVars, rescueVars
<1>2. error = "none" /\ rescued \subseteq oomDropped /\ oomDropped \subseteq dropped
  BY DEF Finish, RescueOver, PassIsOver, TypeOK
<1>3. /\ firstDropReason \in {"oom", "limit", "none"}
      /\ firstNonOomDropReason \in {"limit", "none"}
  BY DEF TypeOK, Splittable
<1>4. CASE phase # "rescue"
  <2>1. rescued = {} /\ FinalReason = firstDropReason
    BY <1>4 DEF Finish, PassSettled, RescueOver, InPass, RescuesApart, FinalReason
  <2>2. StillDropped = dropped BY <2>1 DEF StillDropped
  <2> QED BY <1>1, <1>2, <1>3, <2>1, <2>2 DEF ReasonApplies, ReasonsFound
<1>5. CASE phase = "rescue" /\ StillDropped = {}
  BY <1>1, <1>5 DEF ReasonApplies, FinalReason, StillDropped
<1>6. CASE phase = "rescue" /\ StillDropped # {}
  <2>1. FinalReason = FirstOf(firstRescueFailureReason,
                              FirstOf(firstNonOomDropReason, firstDropReason))
    BY <1>6 DEF FinalReason, StillDropped
  <2>2. FinalReason # "none"
    BY <1>6, <2>1 DEF FirstOf, ReasonsFound, StillDropped
  <2>3. ASSUME FinalReason = "oom" PROVE StillDropped \intersect oomDropped # {}
    <3>1. CASE firstRescueFailureReason # "none"
      BY <1>2, <3>1 DEF RescueReasonFound, StillDropped
    <3>2. CASE firstRescueFailureReason = "none"
      <4>1. firstNonOomDropReason = "none" BY <1>3, <2>1, <2>3, <3>2 DEF FirstOf
      <4> QED BY <1>6, <4>1 DEF ReasonsFound, StillDropped
    <3> QED BY <3>1, <3>2
  <2>4. ASSUME FinalReason = "limit", firstRescueFailureReason = "none"
        PROVE  \E x \in StillDropped : x \notin oomDropped
    <3>1. firstNonOomDropReason # "none" BY <2>1, <2>4 DEF FirstOf, ReasonsFound
    <3> QED BY <1>2, <3>1 DEF ReasonsFound, StillDropped
  <2> QED BY <1>1, <1>6, <2>2, <2>3, <2>4 DEF ReasonApplies
<1> QED BY <1>4, <1>5, <1>6

LEMMA NextRInv == ASSUME RInv, [Next]_vars PROVE RInv'
<1> USE DEF RInv
<1>1. IInv' BY NextIInv
<1> SUFFICES ReasonsFound' /\ RescueReasonFound' /\ ReasonApplies' BY <1>1
<1>2. ASSUME NEW w \in Worker, Settles(w)
      PROVE  ReasonsFound' /\ RescueReasonFound' /\ ReasonApplies'
  <2>1. InPass /\ UNCHANGED <<phase, rescueVars>>
    BY <1>2 DEF Settles, Succeed, FailLate, Drop, Split, Break
  <2>2. /\ phase' \notin {"rescue", "done"}
        /\ firstRescueFailureReason' = "none"
    BY <2>1 DEF InPass, rescueVars, RescueReasonFound
  <2>3. CASE \E kind \in Splittable : Drop(w, kind)
    BY <2>2, <2>3, DropReasons DEF RescueReasonFound, ReasonApplies
  <2>4. CASE Succeed(w) \/ FailLate(w) \/ Split(w)
    BY <2>2, <2>4 DEF Succeed, FailLate, Split, fileVars, reasonVars, ReasonsFound,
       RescueReasonFound, ReasonApplies
  <2>5. CASE \E kind \in Unsplittable : Break(w, kind)
    <3>1. error' # "none" /\ UNCHANGED <<fileVars, reasonVars>>
      BY <2>5 DEF Break, FirstOf, Unsplittable
    <3> QED BY <2>2, <3>1 DEF fileVars, reasonVars, ReasonsFound, RescueReasonFound,
            ReasonApplies
  <2> QED BY <1>2, <2>3, <2>4, <2>5 DEF Settles
<1>3. ASSUME NEW w \in Worker, NEW batch \in unstarted, TakeBatch(w, batch)
      PROVE  ReasonsFound' /\ RescueReasonFound' /\ ReasonApplies'
  BY <1>3 DEF TakeBatch, InPass, reasonVars, rescueVars, ReasonsFound, RescueReasonFound,
     ReasonApplies
<1>4. CASE Replay
  BY <1>4 DEF Replay, CanReplay, rescueVars, ReasonsFound, RescueReasonFound, ReasonApplies
<1>5. CASE Throw
  BY <1>5 DEF Throw, PassSettled, InPass, fileVars, reasonVars, rescueVars, ReasonsFound,
     RescueReasonFound, ReasonApplies
<1>6. CASE BeginRescue
  BY <1>6 DEF BeginRescue, PassSettled, InPass, fileVars, reasonVars, ReasonsFound,
     RescueReasonFound, ReasonApplies
<1>7. CASE \E x \in toRescue : RescueFile(x)
  BY <1>7 DEF RescueFile, fileVars, reasonVars, ReasonsFound, RescueReasonFound, ReasonApplies
<1>8. CASE RescueSucceeds
  BY <1>8 DEF RescueSucceeds, reasonVars, ReasonsFound, RescueReasonFound, ReasonApplies
<1>9. CASE \E kind \in Splittable \union Unsplittable : RescueFails(kind)
  BY <1>9, RescueFailsReasons DEF RescueFails, fileVars, reasonVars, ReasonsFound,
     ReasonApplies
<1>10. CASE Finish
  BY <1>10, FinishReasons DEF Finish, fileVars, reasonVars, rescueVars, ReasonsFound,
     RescueReasonFound
<1>11. CASE DeadlinePasses \/ RescueDeadlinePasses \/ KilledEnds \/ UNCHANGED vars
  BY <1>11 DEF DeadlinePasses, RescueDeadlinePasses, KilledEnds, vars, fileVars, reasonVars, rescueVars,
     ReasonsFound, RescueReasonFound, ReasonApplies
<1> QED BY <1>2, <1>3, <1>4, <1>5, <1>6, <1>7, <1>8, <1>9, <1>10, <1>11
        DEF Next, RescueSettles

(* The reason reported with the files still dropped is one that a file     *)
(* still dropped failed for, whatever the rescue cleared.                  *)
THEOREM ReasonIsRight == Spec => []ReasonApplies
<1>1. RInv /\ [Next]_vars => RInv' BY NextRInv
<1>2. RInv => ReasonApplies BY DEF RInv
<1> QED BY InitRInv, <1>1, <1>2, PTL DEF Spec

(* Past the deadline no step starts a process: not for a batch, a half or  *)
(* a file to be rescued.                                                   *)
THEOREM NoSpawnPastDeadline == Spec => DeadlineStopsSpawning
<1> DEFINE Stops == pastDeadline => /\ \A w \in Worker : current'[w] \in {current[w], {}}
                                    /\ rescuing' \in {rescuing, {}}
<1>1. ASSUME TypeOK, [Next]_vars PROVE [Stops]_vars
  <2> SUFFICES ASSUME Next, pastDeadline
               PROVE  /\ \A w \in Worker : current'[w] \in {current[w], {}}
                      /\ rescuing' \in {rescuing, {}}
    BY <1>1
  <2>1. current \in [Worker -> SUBSET File] BY <1>1 DEF TypeOK
  <2>2. ASSUME NEW v \in Worker, NEW late, GoOn(v, waiting[v], late)
        PROVE  \A w \in Worker : current'[w] \in {current[w], {}}
    BY <2>1, <2>2 DEF GoOn, MaySpawn
  <2>3. ASSUME NEW w \in Worker, \/ \E batch \in unstarted : TakeBatch(w, batch)
                                 \/ Settles(w)
        PROVE  \A v \in Worker : current'[v] \in {current[v], {}}
    BY <2>1, <2>2, <2>3 DEF TakeBatch, workerVars, Settles, Succeed, FailLate, Drop, Split,
       Break
  <2>4. ASSUME NEW w \in Worker, \/ \E batch \in unstarted : TakeBatch(w, batch)
                                 \/ Settles(w)
        PROVE  rescuing' = rescuing
    BY <2>4 DEF TakeBatch, Settles, Succeed, FailLate, Drop, Split, Break, rescueVars
  <2>5. CASE \/ Replay \/ Throw \/ BeginRescue \/ Finish \/ RescueSettles
             \/ (\E x \in toRescue : RescueFile(x))
             \/ DeadlinePasses \/ RescueDeadlinePasses \/ KilledEnds
    BY <2>5 DEF Replay, Throw, BeginRescue, Finish, RescueSettles, RescueSucceeds, RescueFails,
       RescueFile, DeadlinePasses, RescueDeadlinePasses, KilledEnds, workerVars, rescueVars
  <2> QED BY <2>3, <2>4, <2>5 DEF Next
<1> QED BY TypeCorrect, <1>1, PTL DEF Spec, DeadlineStopsSpawning

-----------------------------------------------------------------------------
(* What the caches hold.  An entry stored in calm is what the rules see of *)
(* its key; what a scan in calm has read is there; so what it replays is   *)
(* what it would find.  The four loops of a scan go through the misses and *)
(* the hits, and each invariant says what one of them leaves behind it,    *)
(* but for the files it lost.                                              *)

Now == Content \union {Absent}
Seen == UNION {[files -> Now] : files \in SUBSET Source}

OwnEntry == {NoOwn} \union [of : Now, calm : BOOLEAN]
SideEntry == {NoEntry} \union [probes : Seen, of : Seen, calm : BOOLEAN]
OwnResult == [of : Now \union {Nothing}, calm : BOOLEAN]
CrossResult == [of : Seen \union {Nothing}, calm : BOOLEAN]

TreeTyped == content \in [Source -> Now] /\ \A x \in Source : content[x] \in Versions[x]

FilesTyped ==
  /\ stage \in {"idle", "hash", "full", "verify", "bounded", "unbounded", "store", "done"}
  /\ {todo, candidates, misses, relint, probing} \subseteq SUBSET Source
  /\ lost \in [Pass -> SUBSET Source] /\ calm \in BOOLEAN

ReadsTyped ==
  /\ hash \in [Source -> Now] /\ answers \in [Source -> Now \union {Unknown}]
  /\ probes \in [Source -> Seen \union {Unknown}]

ResultsTyped == /\ own \in [Source -> OwnResult]
                /\ bounded \in [Source -> CrossResult]
                /\ unbounded \in [Source -> CrossResult]

(* Stored in calm, an entry is what the rules see of the content that is   *)
(* its key, the files read answering as its probes did.                    *)
OwnTrue(entry, k) == entry # NoOwn /\ entry.calm => entry.of = k[2]
SideTrue(entry, k) ==
  entry # NoEntry /\ entry.calm =>
    /\ DOMAIN entry.probes = Needs[k]
    /\ entry.of = [y \in Needs[k] \union {k[1]} |-> IF y = k[1] THEN k[2] ELSE entry.probes[y]]

OwnStock(cache) == cache \in [Key -> OwnEntry] /\ \A k \in Key : OwnTrue(cache[k], k)
SideStock(cache) == cache \in [Key -> SideEntry] /\ \A k \in Key : SideTrue(cache[k], k)

(* Which files each loop goes through, and when it is past one.            *)
Loops ==
  /\ misses \subseteq candidates /\ relint \subseteq Hits
  /\ stage \in {"idle", "hash", "full"} => relint = {}
  /\ stage \in {"idle", "hash"} => probing = {}
  /\ stage = "idle" => /\ misses = {}
                       /\ \A y \in Source : answers[y] = Unknown /\ probes[y] = Unknown
  /\ stage = "hash" => todo \subseteq candidates \ misses
  /\ stage = "full" => todo \subseteq misses
  /\ stage = "verify" => todo \subseteq Hits \ relint
  /\ stage = "bounded" => todo \subseteq relint
  /\ stage = "unbounded" => todo \subseteq Hits
  /\ stage \in {"store", "done"} => todo = {}

AfterFull == {"verify", "bounded", "unbounded", "store", "done"}
Hashed(x) == (stage = "hash" /\ x \notin todo) \/ stage = "full" \/ stage \in AfterFull
PastFull(x) == (stage = "full" /\ x \notin todo) \/ stage \in AfterFull
PastVerify(x) == (stage = "verify" /\ x \notin todo) \/ stage \in AfterFull \ {"verify"}
PastBounded(x) ==
  (stage = "bounded" /\ x \notin todo) \/ stage \in {"unbounded", "store", "done"}
PastUnbounded(x) == (stage = "unbounded" /\ x \notin todo) \/ stage \in {"store", "done"}

(* What a scan in calm has read is there.                                  *)
ReadsTrue ==
  /\ \A x \in candidates : Hashed(x) =>
       /\ calm => hash[x] = content[x]
       /\ x \in Hits => <<x, hash[x]>> \in Key
  /\ calm => \A y \in Source :
       /\ answers[y] # Unknown => answers[y] = content[y]
       /\ probes[y] # Unknown => probes[y] = [z \in NeedsOf(y) |-> content[z]]

(* A rule that has run on a file in this scan, or whose diagnostics were   *)
(* replayed, has diagnostics.                                              *)
OwnRan(x) == own[x].of \in Now /\ (calm => own[x] = Own(x))
OwnShown(x) == own[x].of \in Now /\ (calm /\ own[x].calm => own[x].of = content[x])
Ran(r, x) == r.of \in Seen /\ (calm => r = Cross(x))
Replayed(r, x) == r.of \in Seen /\ (calm /\ r.calm => r.of = Cross(x).of)

FullTrue == \A x \in misses : PastFull(x) /\ x \notin lost["full"] =>
              OwnRan(x) /\ Ran(bounded[x], x) /\ Ran(unbounded[x], x)
OwnsTrue == \A x \in Hits : Hashed(x) => OwnShown(x)
VerifyTrue == \A x \in Hits \ relint : PastVerify(x) => Replayed(bounded[x], x)
BoundedTrue == \A x \in relint : PastBounded(x) /\ x \notin lost["bounded"] => Ran(bounded[x], x)
UnboundedTrue ==
  \A x \in Hits : PastUnbounded(x) /\ x \notin lost["unbounded"] => Ran(unbounded[x], x)

Stocks == OwnStock(ownDisk) /\ OwnStock(ownCache) /\ SideStock(sideDisk) /\ SideStock(sideCache)
RunnerTyped == TreeTyped /\ FilesTyped /\ ReadsTyped /\ ResultsTyped
RunnerIInv ==
  /\ RunnerTyped /\ Stocks /\ Loops /\ ReadsTrue
  /\ FullTrue /\ OwnsTrue /\ VerifyTrue /\ BoundedTrue /\ UnboundedTrue
-----------------------------------------------------------------------------
LEMMA EmptyStocks ==
  /\ OwnStock([k \in Key |-> NoOwn])
  /\ SideStock([k \in Key |-> NoEntry])
BY DEF OwnStock, SideStock, OwnTrue, SideTrue, OwnEntry, SideEntry

LEMMA BlankTyped ==
  ASSUME TRUE
  PROVE  /\ [x \in Source |-> NoResult] \in [Source -> OwnResult]
         /\ [x \in Source |-> NoResult] \in [Source -> CrossResult]
BY DEF NoResult, OwnResult, CrossResult

LEMMA RunnerInitIInv == ASSUME ReplayInit PROVE RunnerIInv
<1>1. RunnerTyped
  BY BlankTyped DEF ReplayInit, RunnerTyped, TreeTyped, FilesTyped, ReadsTyped, ResultsTyped,
       Now, Pass
<1>2. Stocks
  BY EmptyStocks DEF ReplayInit, Stocks
<1>3. Loops /\ ReadsTrue
  BY DEF ReplayInit, Loops, ReadsTrue, Hashed, AfterFull, Hits
<1>4. FullTrue /\ OwnsTrue /\ VerifyTrue /\ BoundedTrue /\ UnboundedTrue
  BY DEF ReplayInit, FullTrue, OwnsTrue, VerifyTrue, BoundedTrue, UnboundedTrue, Hits
<1> QED BY <1>1, <1>2, <1>3, <1>4 DEF RunnerIInv

LEMMA ScanEndKeeps == ASSUME RunnerIInv, End PROVE RunnerIInv'
<1>1. RunnerTyped'
  BY BlankTyped DEF RunnerIInv, End, tree, RunnerTyped, TreeTyped, FilesTyped, ReadsTyped,
       ResultsTyped, Now, Pass
<1>2. Stocks'
  BY EmptyStocks DEF RunnerIInv, End, disk, Stocks
<1>3. Loops' /\ ReadsTrue'
  BY DEF End, Loops, ReadsTrue, Hashed, AfterFull, Hits
<1>4. (FullTrue /\ OwnsTrue /\ VerifyTrue /\ BoundedTrue /\ UnboundedTrue)'
  BY DEF End, FullTrue, OwnsTrue, VerifyTrue, BoundedTrue, UnboundedTrue, Hits
<1> QED BY <1>1, <1>2, <1>3, <1>4 DEF RunnerIInv

(* A change of the tree ends the calm of a scan; between scans it finds    *)
(* nothing read.                                                           *)
LEMMA EditKeeps ==
  ASSUME RunnerIInv, NEW x \in Source, NEW c \in Versions[x], Write(x, c)
  PROVE  RunnerIInv'
<1>1. content' = [content EXCEPT ![x] = c] /\ calm' = (stage = "idle") /\ UNCHANGED <<disk, scan>>
  BY DEF Write
<1>2. RunnerTyped'
  BY <1>1, NeedsAssumption DEF RunnerIInv, scan, caches, results, RunnerTyped, TreeTyped,
       FilesTyped, ReadsTyped,
     ResultsTyped, Now
<1>3. Stocks' /\ Loops'
  BY <1>1 DEF RunnerIInv, scan, disk, caches, Stocks, Loops, Hits
<1>4. (ReadsTrue /\ FullTrue /\ OwnsTrue /\ VerifyTrue /\ BoundedTrue /\ UnboundedTrue)'
  <2>1. /\ UNCHANGED <<stage, todo, candidates, hash, answers, misses, relint, probes, own, bounded,
                      unbounded, lost>>
        /\ stage # "idle" => ~calm'
    BY <1>1 DEF scan, results
  <2>2. \A y \in Source : /\ Hashed(y)' = Hashed(y) /\ PastFull(y)' = PastFull(y)
                          /\ PastVerify(y)' = PastVerify(y) /\ PastBounded(y)' = PastBounded(y)
                          /\ PastUnbounded(y)' = PastUnbounded(y)
    BY <2>1 DEF Hashed, PastFull, PastVerify, PastBounded, PastUnbounded, AfterFull
  <2>3. \A y \in Source : Hashed(y) \/ PastFull(y) \/ PastVerify(y) \/ PastBounded(y) \/ PastUnbounded(y)
                          => ~calm'
    BY <2>1 DEF Hashed, PastFull, PastVerify, PastBounded, PastUnbounded, AfterFull
  <2>4. RunnerTyped /\ Loops /\ ReadsTrue /\ FullTrue /\ OwnsTrue /\ VerifyTrue /\ BoundedTrue /\ UnboundedTrue
    BY DEF RunnerIInv
  <2>5. candidates \subseteq Source /\ Hits' = Hits /\ Hits \subseteq Source /\ misses \subseteq Source /\ relint \subseteq Source
    BY <2>1, <2>4 DEF RunnerTyped, FilesTyped, Hits
  <2>6. ReadsTrue'
    BY <2>1, <2>2, <2>3, <2>4, <2>5 DEF ReadsTrue, Loops
  <2>7. FullTrue'
    BY <2>1, <2>2, <2>3, <2>4, <2>5 DEF FullTrue, OwnRan, Ran
  <2>8. OwnsTrue' /\ VerifyTrue'
    BY <2>1, <2>2, <2>3, <2>4, <2>5 DEF OwnsTrue, OwnShown, VerifyTrue, Replayed
  <2>9. BoundedTrue' /\ UnboundedTrue'
    BY <2>1, <2>2, <2>3, <2>4, <2>5 DEF BoundedTrue, UnboundedTrue, Ran
  <2> QED BY <2>6, <2>7, <2>8, <2>9
<1> QED BY <1>2, <1>3, <1>4 DEF RunnerIInv

(* The results are of the tree and of the progress of the loops.           *)
LEMMA ResultsStay ==
  ASSUME RunnerIInv,
         UNCHANGED <<tree, stage, todo, candidates, misses, relint, results, lost, calm>>
  PROVE  (FullTrue /\ OwnsTrue /\ VerifyTrue /\ BoundedTrue /\ UnboundedTrue)'
<1>1. (FullTrue /\ OwnsTrue)'
  BY DEF RunnerIInv, tree, results, FullTrue, OwnsTrue, OwnRan, OwnShown, Ran, Own, Cross,
       NeedsOf, PastFull, Hashed, AfterFull, Hits
<1>2. (VerifyTrue /\ BoundedTrue /\ UnboundedTrue)'
  BY DEF RunnerIInv, tree, results, VerifyTrue, BoundedTrue, UnboundedTrue, Replayed, Ran, Cross,
       NeedsOf,
     PastVerify, PastBounded, PastUnbounded, AfterFull, Hits
<1> QED BY <1>1, <1>2

(* What holds of a scan depends on the scan and on the tree alone.         *)
LEMMA ScanStays ==
  ASSUME RunnerIInv, UNCHANGED <<tree, scan, calm>>
  PROVE  (RunnerTyped /\ Loops /\ ReadsTrue /\ FullTrue /\ OwnsTrue /\ VerifyTrue /\ BoundedTrue /\ UnboundedTrue)'
<1>1. (RunnerTyped /\ Loops)'
  BY DEF RunnerIInv, tree, scan, results, RunnerTyped, TreeTyped, FilesTyped, ReadsTyped,
       ResultsTyped, Loops, Hits
<1>2. ReadsTrue'
  BY DEF RunnerIInv, tree, scan, ReadsTrue, Hashed, AfterFull, NeedsOf, Hits
<1>3. (FullTrue /\ OwnsTrue /\ VerifyTrue /\ BoundedTrue /\ UnboundedTrue)'
  BY ResultsStay DEF scan
<1> QED BY <1>1, <1>2, <1>3

LEMMA EvictKeeps == ASSUME RunnerIInv, NEW k \in Key, Evict(k) PROVE RunnerIInv'
<1>1. UNCHANGED <<tree, scan, calm>>
      /\ ownDisk' \in {ownDisk, [ownDisk EXCEPT ![k] = NoOwn]}
      /\ sideDisk' \in {sideDisk, [sideDisk EXCEPT ![k] = NoEntry]}
  BY DEF Evict
<1>2. Stocks'
  <2>1. OwnStock(ownDisk)'
    BY <1>1 DEF RunnerIInv, Stocks, OwnStock, OwnEntry, OwnTrue
  <2>2. SideStock(sideDisk)'
    <3>1. SideStock(sideDisk)
      BY DEF RunnerIInv, Stocks
    <3>2. NoEntry \in SideEntry /\ \A j \in Key : SideTrue(NoEntry, j)
      BY DEF SideEntry, SideTrue
    <3>3. sideDisk' \in [Key -> SideEntry] /\ \A j \in Key : sideDisk'[j] \in {sideDisk[j], NoEntry}
      BY <1>1, <3>1, <3>2 DEF SideStock
    <3> QED BY <3>1, <3>2, <3>3 DEF SideStock
  <2> QED BY <1>1, <2>1, <2>2 DEF RunnerIInv, Stocks, scan, caches
<1> QED BY <1>1, <1>2, ScanStays DEF RunnerIInv

(* What the rules see is unchanged while the tree is.                      *)
LEMMA SightStays ==
  ASSUME UNCHANGED <<tree, calm>>
  PROVE  \A x \in Source : Own(x)' = Own(x) /\ Cross(x)' = Cross(x) /\ NeedsOf(x)' = NeedsOf(x)
BY DEF tree, Own, Cross, NeedsOf

LEMMA BeginScanKeeps == ASSUME RunnerIInv, Begin PROVE RunnerIInv'
<1>1. /\ stage = "idle" /\ stage' = "hash"
      /\ candidates' = {x \in Source : content[x] # Absent} /\ todo' = candidates'
      /\ ownCache' = ownDisk
      /\ UNCHANGED <<tree, disk, sideCache, hash, answers, misses, relint, probing, probes,
                     results, lost, calm>>
  BY DEF Begin
<1>2. RunnerTyped /\ Stocks /\ Loops /\ ReadsTrue
  BY DEF RunnerIInv
<1>3. RunnerTyped'
  BY <1>1, <1>2 DEF tree, results, RunnerTyped, TreeTyped, FilesTyped, ReadsTyped, ResultsTyped
<1>4. Stocks'
  BY <1>1, <1>2 DEF Stocks, disk
<1>5. Loops'
  BY <1>1, <1>2 DEF Loops, Hits
<1>6. ReadsTrue'
  BY <1>1, <1>2 DEF Loops, ReadsTrue, Hashed, AfterFull
<1>7. (FullTrue /\ OwnsTrue /\ VerifyTrue /\ BoundedTrue /\ UnboundedTrue)'
  BY <1>1, <1>2 DEF FullTrue, OwnsTrue, VerifyTrue, BoundedTrue, UnboundedTrue, Hits, Loops,
     Hashed, PastFull, PastVerify, PastBounded, PastUnbounded, AfterFull
<1> QED BY <1>3, <1>4, <1>5, <1>6, <1>7 DEF RunnerIInv

LEMMA HashKeeps == ASSUME RunnerIInv, NEW x \in Source, Hash(x) PROVE RunnerIInv'
<1> DEFINE entry == ownCache[<<x, content[x]>>]
           hit == content[x] # Absent /\ entry # NoOwn
<1>1. /\ stage = "hash" /\ x \in todo /\ todo' = todo \ {x}
      /\ hash' = [hash EXCEPT ![x] = content[x]]
      /\ answers' = [answers EXCEPT ![x] = IF content[x] = Absent THEN Unknown ELSE content[x]]
      /\ UNCHANGED <<tree, disk, stage, candidates, caches, relint, probing, probes,
                     bounded, unbounded, lost, calm>>
  BY DEF Hash
<1>2. RunnerTyped /\ Stocks /\ Loops /\ ReadsTrue /\ OwnsTrue
  BY DEF RunnerIInv
<1>3. /\ content[x] \in Now /\ content[x] \in Versions[x]
      /\ x \in candidates \ misses /\ candidates \subseteq Source
      /\ hit => /\ <<x, content[x]>> \in Key /\ entry \in [of : Now, calm : BOOLEAN]
                /\ entry.calm => entry.of = content[x]
  BY <1>1, <1>2 DEF RunnerTyped, TreeTyped, FilesTyped, Loops, Hits, Now, Key, Stocks, OwnStock,
       OwnEntry, OwnTrue
<1>4. /\ hit => own' = [own EXCEPT ![x] = entry] /\ misses' = misses
      /\ ~hit => own' = own /\ misses' = misses \union {x}
  BY DEF Hash
<1> HIDE DEF entry, hit
<1>5. RunnerTyped'
  <2>1. own' \in [Source -> OwnResult]
    BY <1>2, <1>3, <1>4 DEF RunnerTyped, ResultsTyped, OwnResult
  <2>2. hash' \in [Source -> Now] /\ answers' \in [Source -> Now \union {Unknown}]
    BY <1>1, <1>2, <1>3 DEF RunnerTyped, ReadsTyped
  <2> QED BY <1>1, <1>2, <1>4, <2>1, <2>2
          DEF RunnerTyped, TreeTyped, FilesTyped, ReadsTyped, ResultsTyped, tree
<1>6. Stocks'
  BY <1>1, <1>2 DEF Stocks, disk, caches
<1>7. Loops'
  BY <1>1, <1>2, <1>3, <1>4 DEF Loops, Hits
<1>8. /\ hash'[x] = content[x] /\ \A y \in Source : y # x => hash'[y] = hash[y] /\ answers'[y] = answers[y]
      /\ answers'[x] \in {Unknown, content[x]}
      /\ \A y \in Source : y # x => own'[y] = own[y] /\ (y \in misses' => y \in misses)
      /\ hit => own'[x] = entry
  BY <1>1, <1>2, <1>4 DEF RunnerTyped, ReadsTyped, ResultsTyped
<1>9. ReadsTrue'
  <2>1. ASSUME NEW y \in candidates', Hashed(y)'
        PROVE  /\ calm' => hash'[y] = content'[y]
               /\ y \in Hits' => <<y, hash'[y]>> \in Key
    <3>1. CASE y = x
      BY <1>1, <1>3, <1>4, <1>8, <3>1 DEF tree, Hits
    <3>2. CASE y # x
      <4>1. Hashed(y) /\ y \in candidates /\ (y \in Hits' => y \in Hits)
        BY <1>1, <1>4, <2>1, <3>2 DEF Hashed, AfterFull, Hits
      <4> QED BY <1>1, <1>2, <1>3, <1>8, <3>2, <4>1 DEF ReadsTrue, tree
    <3> QED BY <3>1, <3>2
  <2>2. \A y \in Source : calm' /\ answers'[y] # Unknown => answers'[y] = content'[y]
    BY <1>1, <1>2, <1>8 DEF ReadsTrue, tree
  <2> QED BY <1>1, <1>2, <2>1, <2>2, SightStays DEF ReadsTrue, tree
<1>10. OwnsTrue'
  <2>1. ASSUME NEW y \in Hits', Hashed(y)'
        PROVE  OwnShown(y)'
    <3>1. CASE y = x
      BY <1>1, <1>3, <1>4, <1>8, <2>1, <3>1 DEF Hits, OwnShown, tree
    <3>2. CASE y # x
      <4>1. Hashed(y) /\ y \in Hits /\ y \in Source
        BY <1>1, <1>3, <1>4, <2>1, <3>2 DEF Hashed, AfterFull, Hits
      <4> QED BY <1>1, <1>2, <1>8, <3>2, <4>1 DEF OwnsTrue, OwnShown, tree
    <3> QED BY <3>1, <3>2
  <2> QED BY <2>1 DEF OwnsTrue
<1>11. (FullTrue /\ VerifyTrue /\ BoundedTrue /\ UnboundedTrue)'
  BY <1>1 DEF FullTrue, VerifyTrue, BoundedTrue, UnboundedTrue,
     PastFull, PastVerify, PastBounded, PastUnbounded, AfterFull
<1> QED BY <1>5, <1>6, <1>7, <1>9, <1>10, <1>11 DEF RunnerIInv

LEMMA StartFullKeeps == ASSUME RunnerIInv, StartFull PROVE RunnerIInv'
<1>1. /\ stage = "hash" /\ todo = {} /\ stage' = "full" /\ todo' = misses /\ probing' = misses
      /\ sideCache' = sideDisk
      /\ UNCHANGED <<tree, disk, candidates, ownCache, hash, answers, misses, relint, probes,
                     results, lost, calm>>
  BY DEF StartFull
<1>2. RunnerTyped /\ Stocks /\ Loops /\ ReadsTrue /\ OwnsTrue
  BY DEF RunnerIInv
<1>3. RunnerTyped' /\ Stocks' /\ Loops'
  BY <1>1, <1>2 DEF tree, disk, results, RunnerTyped, TreeTyped, FilesTyped, ReadsTyped,
       ResultsTyped, Stocks, Loops, Hits
<1>4. \A x \in candidates : Hashed(x) /\ Hits' = Hits
  BY <1>1 DEF Hashed, Hits
<1>5. ReadsTrue'
  BY <1>1, <1>2, <1>4, SightStays DEF ReadsTrue, tree
<1>6. OwnsTrue'
  BY <1>1, <1>2, <1>4 DEF OwnsTrue, OwnShown, tree, results, Hits
<1>7. (FullTrue /\ VerifyTrue /\ BoundedTrue /\ UnboundedTrue)'
  BY <1>1 DEF FullTrue, VerifyTrue, BoundedTrue, UnboundedTrue,
     PastFull, PastVerify, PastBounded, PastUnbounded, AfterFull
<1> QED BY <1>3, <1>5, <1>6, <1>7 DEF RunnerIInv

(* A probe is answered with a content, in calm the one that is there.      *)
LEMMA AnswersOK ==
  ASSUME RunnerIInv
  PROVE  /\ \A y \in Source : Answer(y) \in Now /\ (calm => Answer(y) = content[y])
         /\ \A x \in Source : NeedsOf(x) \subseteq Source
         /\ \A asked \in SUBSET Source :
              /\ Answered(asked) \in [Source -> Now \union {Unknown}]
              /\ calm => \A y \in Source :
                   Answered(asked)[y] # Unknown => Answered(asked)[y] = content[y]
<1>1. RunnerTyped /\ ReadsTrue
  BY DEF RunnerIInv
<1>2. \A y \in Source : Answer(y) \in Now /\ (calm => Answer(y) = content[y])
  BY <1>1 DEF Answer, RunnerTyped, TreeTyped, ReadsTyped, ReadsTrue
<1>3. ASSUME NEW x \in Source PROVE NeedsOf(x) \subseteq Source
  <2>1. content[x] \in Now
    BY <1>1 DEF RunnerTyped, TreeTyped
  <2>2. CASE content[x] # Absent
    <3>1. <<x, content[x]>> \in Source \X Content
      BY <2>1, <2>2 DEF Now
    <3> QED BY <2>2, <3>1, NeedsAssumption DEF NeedsOf
  <2> QED BY <2>2 DEF NeedsOf
<1>4. ASSUME NEW asked \in SUBSET Source
      PROVE  /\ Answered(asked) \in [Source -> Now \union {Unknown}]
             /\ calm => \A y \in Source :
                  Answered(asked)[y] # Unknown => Answered(asked)[y] = content[y]
  BY <1>1, <1>2 DEF Answered, RunnerTyped, ReadsTyped, ReadsTrue
<1> QED BY <1>2, <1>3, <1>4

LEMMA SeenOK ==
  ASSUME NEW files \in SUBSET Source, NEW f \in [files -> Now]
  PROVE  f \in Seen
BY DEF Seen

LEMMA CollectProbesKeeps == ASSUME RunnerIInv, NEW x \in Source, CollectProbes(x) PROVE RunnerIInv'
<1> DEFINE found == IF content[x] = Absent THEN Unknown ELSE [y \in NeedsOf(x) |-> Answer(y)]
<1>1. /\ probing' = probing \ {x}
      /\ probes' = [probes EXCEPT ![x] = found]
      /\ answers' = Answered(NeedsOf(x))
      /\ UNCHANGED <<tree, disk, stage, todo, candidates, caches, hash, misses, relint,
                     results, lost, calm>>
  BY DEF CollectProbes
<1>2. RunnerTyped /\ Stocks /\ Loops /\ ReadsTrue /\ FullTrue /\ OwnsTrue /\ VerifyTrue /\ BoundedTrue /\ UnboundedTrue
  BY DEF RunnerIInv
<1>3. /\ found \in Seen \union {Unknown}
      /\ calm /\ found # Unknown => found = [y \in NeedsOf(x) |-> content[y]]
  <2>1. [y \in NeedsOf(x) |-> Answer(y)] \in [NeedsOf(x) -> Now]
    BY AnswersOK
  <2> QED BY <2>1, AnswersOK, SeenOK
<1> HIDE DEF found
<1>4. answers' \in [Source -> Now \union {Unknown}]
      /\ (calm => \A y \in Source : answers'[y] # Unknown => answers'[y] = content[y])
  BY <1>1, AnswersOK
<1>5. stage # "idle"
  BY <1>2 DEF CollectProbes, Loops
<1>6. RunnerTyped' /\ Stocks' /\ Loops'
  BY <1>1, <1>2, <1>3, <1>4, <1>5 DEF tree, disk, caches, results, RunnerTyped, TreeTyped,
       FilesTyped, ReadsTyped, ResultsTyped,
     Stocks, Loops, Hits
<1>7. ReadsTrue'
  <2>1. \A y \in candidates : Hashed(y)' = Hashed(y) /\ Hits' = Hits
    BY <1>1 DEF Hashed, AfterFull, Hits
  <2>2. \A y \in Source : probes'[y] = IF y = x THEN found ELSE probes[y]
    BY <1>1, <1>2 DEF RunnerTyped, ReadsTyped
  <2> QED BY <1>1, <1>2, <1>3, <1>4, <2>1, <2>2, SightStays DEF ReadsTrue, tree
<1>8. (FullTrue /\ OwnsTrue /\ VerifyTrue /\ BoundedTrue /\ UnboundedTrue)'
  BY <1>1, ResultsStay
<1> QED BY <1>6, <1>7, <1>8 DEF RunnerIInv

LEMMA DropFileKeeps == ASSUME RunnerIInv, NEW x \in Source, DropFile(x) PROVE RunnerIInv'
<1>1. /\ stage \in Pass /\ x \in todo /\ todo' = todo \ {x}
      /\ lost' = [lost EXCEPT ![stage] = @ \union {x}]
      /\ UNCHANGED <<tree, disk, stage, candidates, caches, hash, answers, misses, relint,
                     probing, probes, results, calm>>
  BY DEF DropFile
<1>2. RunnerTyped /\ Stocks /\ Loops /\ ReadsTrue /\ FullTrue /\ OwnsTrue /\ VerifyTrue /\ BoundedTrue /\ UnboundedTrue
  BY DEF RunnerIInv
<1>3. RunnerTyped' /\ Stocks' /\ Loops'
  BY <1>1, <1>2 DEF tree, disk, caches, results, RunnerTyped, TreeTyped, FilesTyped, ReadsTyped,
       ResultsTyped,
     Stocks, Loops, Hits
<1>4. /\ \A p \in Pass : lost[p] \subseteq lost'[p]
      /\ x \in lost'[stage]
      /\ Hits' = Hits /\ \A y \in Source : Hashed(y)' = Hashed(y) /\ PastVerify(y)' = PastVerify(y)
      /\ \A y \in Source : y # x => /\ PastFull(y)' = PastFull(y) /\ PastBounded(y)' = PastBounded(y)
                                   /\ PastUnbounded(y)' = PastUnbounded(y)
      /\ candidates \subseteq Source /\ Hits \subseteq Source /\ misses \subseteq Source /\ relint \subseteq Source
  BY <1>1, <1>2 DEF RunnerTyped, FilesTyped, Pass, Hits, Hashed, PastFull, PastVerify,
       PastBounded, PastUnbounded, AfterFull
<1>5. ReadsTrue'
  BY <1>1, <1>2, <1>4, SightStays DEF ReadsTrue, tree
<1>6. OwnsTrue' /\ VerifyTrue'
  BY <1>1, <1>2, <1>4, SightStays DEF OwnsTrue, OwnShown, VerifyTrue, Replayed, tree, results
<1>7. FullTrue'
  <2>1. x \in misses /\ PastFull(x)' => x \in lost'["full"] \/ PastFull(x)
    BY <1>1, <1>4 DEF PastFull, AfterFull, Pass
  <2>2. \A y \in Source : OwnRan(y)' = OwnRan(y) /\ Ran(bounded[y], y)' = Ran(bounded[y], y)
                          /\ Ran(unbounded[y], y)' = Ran(unbounded[y], y)
    BY <1>1, SightStays DEF OwnRan, Ran, results
  <2> QED BY <1>1, <1>2, <1>4, <2>1, <2>2 DEF FullTrue, Pass
<1>8. BoundedTrue' /\ UnboundedTrue'
  <2>1. x \in relint /\ PastBounded(x)' => x \in lost'["bounded"] \/ PastBounded(x)
    BY <1>1, <1>4 DEF PastBounded, Pass
  <2>2. PastUnbounded(x)' => x \in lost'["unbounded"] \/ PastUnbounded(x)
    BY <1>1, <1>4 DEF PastUnbounded, Pass
  <2>3. \A y \in Source : Ran(bounded[y], y)' = Ran(bounded[y], y) /\ Ran(unbounded[y], y)' = Ran(unbounded[y], y)
    BY <1>1, SightStays DEF Ran, results
  <2> QED BY <1>1, <1>2, <1>4, <2>1, <2>2, <2>3 DEF BoundedTrue, UnboundedTrue, Pass
<1> QED BY <1>3, <1>5, <1>6, <1>7, <1>8 DEF RunnerIInv

(* What a rule that runs now sees.                                         *)
LEMMA RunsSee ==
  ASSUME RunnerIInv, NEW x \in Source
  PROVE  /\ Own(x) \in OwnResult /\ Own(x).of \in Now /\ Own(x).calm = calm
         /\ Cross(x) \in CrossResult /\ Cross(x).of \in Seen /\ Cross(x).calm = calm
<1>1. content \in [Source -> Now] /\ calm \in BOOLEAN
  BY DEF RunnerIInv, RunnerTyped, TreeTyped, FilesTyped
<1>2. NeedsOf(x) \union {x} \in SUBSET Source
  BY AnswersOK
<1>3. [y \in NeedsOf(x) \union {x} |-> content[y]] \in [NeedsOf(x) \union {x} -> Now]
  BY <1>1, <1>2
<1>4. [y \in NeedsOf(x) \union {x} |-> content[y]] \in Seen
  BY <1>2, <1>3, SeenOK
<1> QED BY <1>1, <1>4 DEF Own, Cross, OwnResult, CrossResult

LEMMA LintFullKeeps == ASSUME RunnerIInv, NEW x \in Source, LintFull(x) PROVE RunnerIInv'
<1>1. /\ stage = "full" /\ x \in todo /\ todo' = todo \ {x}
      /\ own' = [own EXCEPT ![x] = Own(x)]
      /\ bounded' = [bounded EXCEPT ![x] = Cross(x)]
      /\ unbounded' = [unbounded EXCEPT ![x] = Cross(x)]
      /\ UNCHANGED <<tree, disk, stage, candidates, caches, hash, answers, misses, relint,
                     probing, probes, lost, calm>>
  BY DEF LintFull
<1>2. RunnerTyped /\ Stocks /\ Loops /\ ReadsTrue /\ FullTrue /\ OwnsTrue
  BY DEF RunnerIInv
<1>3. RunnerTyped' /\ Stocks' /\ Loops'
  BY <1>1, <1>2, RunsSee DEF tree, disk, caches, RunnerTyped, TreeTyped, FilesTyped, ReadsTyped,
       ResultsTyped,
     Stocks, Loops, Hits
<1>4. /\ x \in misses /\ Hits' = Hits /\ misses \subseteq Source /\ candidates \subseteq Source /\ x \notin Hits
      /\ \A y \in Source : Hashed(y) /\ Hashed(y)' /\ (y # x => PastFull(y)' = PastFull(y))
      /\ \A y \in Source : y # x => own'[y] = own[y] /\ bounded'[y] = bounded[y] /\ unbounded'[y] = unbounded[y]
      /\ own'[x] = Own(x) /\ bounded'[x] = Cross(x) /\ unbounded'[x] = Cross(x)
  BY <1>1, <1>2 DEF RunnerTyped, FilesTyped, ResultsTyped, Loops, Hits, Hashed, PastFull, AfterFull
<1>5. ReadsTrue'
  BY <1>1, <1>2, <1>4, SightStays DEF ReadsTrue, tree
<1>6. OwnsTrue'
  BY <1>1, <1>2, <1>4 DEF OwnsTrue, OwnShown, tree, Hits
<1>7. FullTrue'
  <2>1. ASSUME NEW y \in misses, PastFull(y)', y \notin lost["full"]
        PROVE  (OwnRan(y) /\ Ran(bounded[y], y) /\ Ran(unbounded[y], y))'
    <3>1. CASE y = x
      BY <1>1, <1>4, <3>1, RunsSee, SightStays DEF OwnRan, Ran
    <3>2. CASE y # x
      BY <1>1, <1>2, <1>4, <2>1, <3>2, SightStays DEF FullTrue, OwnRan, Ran
    <3> QED BY <3>1, <3>2
  <2> QED BY <1>1, <2>1 DEF FullTrue
<1>8. (VerifyTrue /\ BoundedTrue /\ UnboundedTrue)'
  BY <1>1 DEF VerifyTrue, BoundedTrue, UnboundedTrue,
     PastVerify, PastBounded, PastUnbounded, AfterFull
<1> QED BY <1>3, <1>5, <1>6, <1>7, <1>8 DEF RunnerIInv

(* A loop that has no file left is past all of them.                       *)
LEMMA StartVerifyKeeps == ASSUME RunnerIInv, StartVerify PROVE RunnerIInv'
<1>1. /\ stage = "full" /\ todo = {} /\ stage' = "verify" /\ todo' = Hits
      /\ UNCHANGED <<tree, disk, candidates, caches, hash, answers, misses, relint, probing,
                     probes, results, lost, calm>>
  BY DEF StartVerify
<1>2. RunnerTyped /\ Stocks /\ Loops /\ ReadsTrue /\ FullTrue /\ OwnsTrue
  BY DEF RunnerIInv
<1>3. RunnerTyped' /\ Stocks' /\ Loops'
  BY <1>1, <1>2 DEF tree, disk, caches, results, RunnerTyped, TreeTyped, FilesTyped, ReadsTyped,
       ResultsTyped,
     Stocks, Loops, Hits
<1>4. /\ \A y \in Source : Hashed(y) /\ PastFull(y)
      /\ Hits' = Hits /\ misses \subseteq Source /\ candidates \subseteq Source /\ Hits \subseteq Source
  BY <1>1, <1>2 DEF RunnerTyped, FilesTyped, Hashed, PastFull, Hits
<1>5. ReadsTrue'
  BY <1>1, <1>2, <1>4, SightStays DEF ReadsTrue, tree
<1>6. (FullTrue /\ OwnsTrue)'
  BY <1>1, <1>2, <1>4, SightStays DEF FullTrue, OwnsTrue, OwnRan, OwnShown, Ran, tree, results
<1>7. (VerifyTrue /\ BoundedTrue /\ UnboundedTrue)'
  BY <1>1 DEF VerifyTrue, BoundedTrue, UnboundedTrue, PastVerify, PastBounded, PastUnbounded,
       AfterFull, Hits
<1> QED BY <1>3, <1>5, <1>6, <1>7 DEF RunnerIInv

(* Past the passes over the misses, nothing of them changes.               *)
LEMMA MissesStay ==
  ASSUME RunnerIInv, stage \in AfterFull, stage' \in AfterFull,
         UNCHANGED <<tree, candidates, misses, hash, own, calm, lost>>,
         \A x \in misses : bounded'[x] = bounded[x] /\ unbounded'[x] = unbounded[x]
  PROVE  (FullTrue /\ OwnsTrue)'
<1>1. FullTrue /\ OwnsTrue /\ misses \subseteq Source /\ Hits \subseteq Source /\ Hits' = Hits
  BY DEF RunnerIInv, RunnerTyped, FilesTyped, Hits
<1>2. \A y \in Source : Hashed(y) /\ PastFull(y)
  BY DEF Hashed, PastFull
<1> QED BY <1>1, <1>2, SightStays DEF FullTrue, OwnsTrue, OwnRan, OwnShown, Ran, tree

LEMMA VerifyKeeps == ASSUME RunnerIInv, NEW x \in Source, Verify(x) PROVE RunnerIInv'
<1> DEFINE entry == sideCache[<<x, hash[x]>>]
           replayed == [of |-> entry.of, calm |-> entry.calm]
           asked == IF entry = NoEntry THEN {} ELSE DOMAIN entry.probes
<1>1. /\ stage = "verify" /\ x \in todo /\ todo' = todo \ {x}
      /\ answers' = Answered(asked)
      /\ UNCHANGED <<tree, disk, stage, candidates, caches, hash, misses, probing, probes,
                     own, unbounded, lost, calm>>
      /\ \/ Replayable(x) /\ bounded' = [bounded EXCEPT ![x] = replayed] /\ relint' = relint
         \/ relint' = relint \union {x} /\ bounded' = bounded
  BY DEF Verify
<1>2. RunnerTyped /\ Stocks /\ Loops /\ ReadsTrue /\ VerifyTrue
  BY DEF RunnerIInv
<1>3. /\ x \in Hits \ relint /\ <<x, hash[x]>> \in Key /\ entry \in SideEntry /\ SideTrue(entry, <<x, hash[x]>>)
      /\ calm => hash[x] = content[x]
      /\ Hits' = Hits /\ Hits \subseteq Source /\ candidates \subseteq Source /\ relint \subseteq Source
  <2>1. x \in candidates /\ x \in Hits \ relint /\ Hashed(x)
    BY <1>1, <1>2 DEF Loops, Hits, Hashed, AfterFull
  <2>2. <<x, hash[x]>> \in Key /\ (calm => hash[x] = content[x])
    BY <1>2, <2>1 DEF ReadsTrue
  <2> QED BY <1>1, <1>2, <2>1, <2>2 DEF Stocks, SideStock, RunnerTyped, FilesTyped, Hits
<1>4. answers' \in [Source -> Now \union {Unknown}]
      /\ (calm => \A y \in Source : answers'[y] # Unknown => answers'[y] = content[y])
  <2>1. asked \in SUBSET Source
    BY <1>3 DEF SideEntry, Seen
  <2> QED BY <1>1, <2>1, AnswersOK
<1>5. ASSUME Replayable(x)
      PROVE  /\ replayed \in CrossResult /\ replayed.of \in Seen
             /\ calm /\ replayed.calm => replayed.of = Cross(x).of
  <2>1. entry \in [probes : Seen, of : Seen, calm : BOOLEAN]
        /\ entry # NoEntry /\ \A y \in DOMAIN entry.probes : Answer(y) = entry.probes[y]
    BY <1>3, <1>5 DEF Replayable, SideEntry
  <2>2. ASSUME calm, entry.calm
        PROVE  entry.of = Cross(x).of
    <3>1. /\ DOMAIN entry.probes = Needs[<<x, content[x]>>]
          /\ entry.of = [y \in Needs[<<x, content[x]>>] \union {x} |-> IF y = x THEN content[x] ELSE entry.probes[y]]
      BY <1>3, <2>1, <2>2 DEF SideTrue
    <3>2. content[x] \in Content /\ content[x] # Absent
      BY <1>3, <2>2, ContentAssumption DEF Key
    <3>3. NeedsOf(x) = Needs[<<x, content[x]>>] /\ NeedsOf(x) \subseteq Source /\ x \in Source
      BY <3>2, AnswersOK DEF NeedsOf
    <3>4. \A y \in NeedsOf(x) : entry.probes[y] = content[y]
      BY <2>1, <2>2, <3>1, <3>3, AnswersOK
    <3>5. entry.of = [y \in NeedsOf(x) \union {x} |-> content[y]]
      BY <3>1, <3>3, <3>4
    <3> QED BY <3>5 DEF Cross
  <2> HIDE DEF entry
  <2> QED BY <2>1, <2>2 DEF CrossResult
<1> HIDE DEF replayed, asked, entry
<1>6. RunnerTyped' /\ Stocks' /\ Loops'
  <2>1. bounded' \in [Source -> CrossResult]
    BY <1>1, <1>2, <1>5 DEF RunnerTyped, ResultsTyped
  <2>2. RunnerTyped'
    BY <1>1, <1>2, <1>4, <2>1 DEF tree, RunnerTyped, TreeTyped, FilesTyped, ReadsTyped, ResultsTyped
  <2>3. Loops'
    BY <1>1, <1>2, <1>3 DEF Loops, Hits
  <2> QED BY <1>1, <1>2, <2>2, <2>3 DEF Stocks, disk, caches
<1>7. /\ \A y \in Source : Hashed(y) /\ Hashed(y)' /\ (y # x => PastVerify(y)' = PastVerify(y))
      /\ \A y \in Source : bounded'[y] = IF y = x /\ relint' = relint THEN replayed ELSE bounded[y]
  BY <1>1, <1>2, <1>3 DEF Hashed, PastVerify, AfterFull, RunnerTyped, ResultsTyped
<1>8. ReadsTrue'
  BY <1>1, <1>2, <1>3, <1>4, <1>7, SightStays DEF ReadsTrue, tree
<1>9. (FullTrue /\ OwnsTrue)'
  <2>1. \A y \in misses : y # x /\ y \in Source
    BY <1>2, <1>3 DEF Hits, RunnerTyped, FilesTyped
  <2>2. UNCHANGED <<tree, candidates, misses, hash, own, calm, lost>> /\ stage \in AfterFull /\ stage' \in AfterFull
    BY <1>1 DEF AfterFull
  <2> QED BY <1>1, <1>7, <2>1, <2>2, MissesStay
<1>10. VerifyTrue'
  <2>1. ASSUME NEW y \in Hits' \ relint', PastVerify(y)'
        PROVE  Replayed(bounded[y], y)'
    <3>1. CASE y = x
      BY <1>1, <1>3, <1>5, <1>7, <2>1, <3>1, SightStays DEF Replayed
    <3>2. CASE y # x
      BY <1>1, <1>2, <1>3, <1>7, <2>1, <3>2, SightStays DEF VerifyTrue, Replayed
    <3> QED BY <3>1, <3>2
  <2> QED BY <2>1 DEF VerifyTrue
<1>11. (BoundedTrue /\ UnboundedTrue)'
  BY <1>1 DEF BoundedTrue, UnboundedTrue, PastBounded, PastUnbounded
<1> QED BY <1>6, <1>8, <1>9, <1>10, <1>11 DEF RunnerIInv

LEMMA StartBoundedKeeps == ASSUME RunnerIInv, StartBounded PROVE RunnerIInv'
<1>1. /\ stage = "verify" /\ todo = {} /\ stage' = "bounded" /\ todo' = relint
      /\ probing' = probing \union relint
      /\ UNCHANGED <<tree, disk, candidates, caches, hash, answers, misses, relint, probes,
                     results, lost, calm>>
  BY DEF StartBounded
<1>2. RunnerTyped /\ Stocks /\ Loops /\ ReadsTrue /\ VerifyTrue
  BY DEF RunnerIInv
<1>3. RunnerTyped' /\ Stocks' /\ Loops'
  BY <1>1, <1>2 DEF tree, disk, caches, results, RunnerTyped, TreeTyped, FilesTyped, ReadsTyped,
       ResultsTyped,
     Stocks, Loops, Hits
<1>4. /\ \A y \in Source : Hashed(y) /\ PastVerify(y) /\ Hits' = Hits
      /\ candidates \subseteq Source /\ Hits \subseteq Source
  BY <1>1, <1>2 DEF RunnerTyped, FilesTyped, Hashed, PastVerify, Hits, AfterFull
<1>5. ReadsTrue'
  BY <1>1, <1>2, <1>4, SightStays DEF ReadsTrue, tree, Hits
<1>6. (FullTrue /\ OwnsTrue)'
  BY <1>1, MissesStay DEF AfterFull, results
<1>7. VerifyTrue'
  BY <1>1, <1>2, <1>4, SightStays DEF VerifyTrue, Replayed, results, Hits
<1>8. (BoundedTrue /\ UnboundedTrue)'
  BY <1>1 DEF BoundedTrue, UnboundedTrue, PastBounded, PastUnbounded
<1> QED BY <1>3, <1>5, <1>6, <1>7, <1>8 DEF RunnerIInv

LEMMA LintBoundedKeeps == ASSUME RunnerIInv, NEW x \in Source, LintBounded(x) PROVE RunnerIInv'
<1>1. /\ stage = "bounded" /\ x \in todo /\ todo' = todo \ {x}
      /\ bounded' = [bounded EXCEPT ![x] = Cross(x)]
      /\ UNCHANGED <<tree, disk, stage, candidates, caches, hash, answers, misses, relint,
                     probing, probes, own, unbounded, lost, calm>>
  BY DEF LintBounded
<1>2. RunnerTyped /\ Stocks /\ Loops /\ ReadsTrue /\ VerifyTrue /\ BoundedTrue
  BY DEF RunnerIInv
<1>3. RunnerTyped' /\ Stocks' /\ Loops'
  BY <1>1, <1>2, RunsSee DEF tree, disk, caches, RunnerTyped, TreeTyped, FilesTyped, ReadsTyped,
       ResultsTyped,
     Stocks, Loops, Hits
<1>4. /\ x \in relint /\ x \notin misses /\ Hits' = Hits /\ relint \subseteq Source /\ candidates \subseteq Source
      /\ Hits \subseteq Source /\ misses \subseteq Source
      /\ \A y \in Source : /\ Hashed(y) /\ Hashed(y)' /\ PastVerify(y) /\ PastVerify(y)'
                           /\ y # x => PastBounded(y)' = PastBounded(y) /\ bounded'[y] = bounded[y]
      /\ bounded'[x] = Cross(x)
  BY <1>1, <1>2 DEF RunnerTyped, FilesTyped, ResultsTyped, Loops, Hits, Hashed, PastVerify,
       PastBounded, AfterFull
<1>5. ReadsTrue'
  BY <1>1, <1>2, <1>4, SightStays DEF ReadsTrue, tree
<1>6. (FullTrue /\ OwnsTrue)'
  BY <1>1, <1>4, MissesStay DEF AfterFull
<1>7. VerifyTrue'
  BY <1>1, <1>2, <1>4, SightStays DEF VerifyTrue, Replayed
<1>8. BoundedTrue'
  <2>1. ASSUME NEW y \in relint, PastBounded(y)', y \notin lost["bounded"]
        PROVE  Ran(bounded[y], y)'
    <3>1. CASE y = x
      BY <1>1, <1>4, <3>1, RunsSee, SightStays DEF Ran
    <3>2. CASE y # x
      BY <1>1, <1>2, <1>4, <2>1, <3>2, SightStays DEF BoundedTrue, Ran
    <3> QED BY <3>1, <3>2
  <2> QED BY <1>1, <2>1 DEF BoundedTrue
<1>9. UnboundedTrue'
  BY <1>1 DEF UnboundedTrue, PastUnbounded
<1> QED BY <1>3, <1>5, <1>6, <1>7, <1>8, <1>9 DEF RunnerIInv

LEMMA StartUnboundedKeeps == ASSUME RunnerIInv, StartUnbounded PROVE RunnerIInv'
<1>1. /\ stage = "bounded" /\ todo = {} /\ stage' = "unbounded" /\ todo' = Hits
      /\ UNCHANGED <<tree, disk, candidates, caches, hash, answers, misses, relint, probing,
                     probes, results, lost, calm>>
  BY DEF StartUnbounded
<1>2. RunnerTyped /\ Stocks /\ Loops /\ ReadsTrue /\ VerifyTrue /\ BoundedTrue
  BY DEF RunnerIInv
<1>3. RunnerTyped' /\ Stocks' /\ Loops'
  BY <1>1, <1>2 DEF tree, disk, caches, results, RunnerTyped, TreeTyped, FilesTyped, ReadsTyped,
       ResultsTyped,
     Stocks, Loops, Hits
<1>4. /\ \A y \in Source : Hashed(y) /\ PastVerify(y) /\ PastBounded(y) /\ Hits' = Hits
      /\ candidates \subseteq Source /\ Hits \subseteq Source /\ relint \subseteq Source
  BY <1>1, <1>2 DEF RunnerTyped, FilesTyped, Hashed, PastVerify, PastBounded, Hits, AfterFull
<1>5. ReadsTrue'
  BY <1>1, <1>2, <1>4, SightStays DEF ReadsTrue, tree, Hits
<1>6. (FullTrue /\ OwnsTrue)'
  BY <1>1, MissesStay DEF AfterFull, results
<1>7. VerifyTrue' /\ BoundedTrue'
  BY <1>1, <1>2, <1>4, SightStays DEF VerifyTrue, Replayed, BoundedTrue, Ran, results, Hits
<1>8. UnboundedTrue'
  BY <1>1 DEF UnboundedTrue, PastUnbounded, Hits
<1> QED BY <1>3, <1>5, <1>6, <1>7, <1>8 DEF RunnerIInv

LEMMA LintUnboundedKeeps == ASSUME RunnerIInv, NEW x \in Source, LintUnbounded(x) PROVE RunnerIInv'
<1>1. /\ stage = "unbounded" /\ x \in todo /\ todo' = todo \ {x}
      /\ unbounded' = [unbounded EXCEPT ![x] = Cross(x)]
      /\ UNCHANGED <<tree, disk, stage, candidates, caches, hash, answers, misses, relint,
                     probing, probes, own, bounded, lost, calm>>
  BY DEF LintUnbounded
<1>2. RunnerTyped /\ Stocks /\ Loops /\ ReadsTrue /\ VerifyTrue /\ BoundedTrue /\ UnboundedTrue
  BY DEF RunnerIInv
<1>3. RunnerTyped' /\ Stocks' /\ Loops'
  BY <1>1, <1>2, RunsSee DEF tree, disk, caches, RunnerTyped, TreeTyped, FilesTyped, ReadsTyped,
       ResultsTyped,
     Stocks, Loops, Hits
<1>4. /\ x \in Hits /\ x \notin misses /\ Hits' = Hits /\ relint \subseteq Source /\ candidates \subseteq Source
      /\ Hits \subseteq Source /\ misses \subseteq Source
      /\ \A y \in Source : /\ Hashed(y) /\ Hashed(y)' /\ PastVerify(y) /\ PastVerify(y)'
                           /\ PastBounded(y) /\ PastBounded(y)'
                           /\ y # x => PastUnbounded(y)' = PastUnbounded(y) /\ unbounded'[y] = unbounded[y]
      /\ unbounded'[x] = Cross(x)
  BY <1>1, <1>2 DEF RunnerTyped, FilesTyped, ResultsTyped, Loops, Hits, Hashed, PastVerify,
       PastBounded,
                    PastUnbounded, AfterFull
<1>5. ReadsTrue'
  BY <1>1, <1>2, <1>4, SightStays DEF ReadsTrue, tree
<1>6. (FullTrue /\ OwnsTrue)'
  BY <1>1, <1>4, MissesStay DEF AfterFull
<1>7. VerifyTrue' /\ BoundedTrue'
  BY <1>1, <1>2, <1>4, SightStays DEF VerifyTrue, Replayed, BoundedTrue, Ran
<1>8. UnboundedTrue'
  <2>1. ASSUME NEW y \in Hits, PastUnbounded(y)', y \notin lost["unbounded"]
        PROVE  Ran(unbounded[y], y)'
    <3>1. CASE y = x
      BY <1>1, <1>4, <3>1, RunsSee, SightStays DEF Ran
    <3>2. CASE y # x
      BY <1>1, <1>2, <1>4, <2>1, <3>2, SightStays DEF UnboundedTrue, Ran
    <3> QED BY <3>1, <3>2
  <2> QED BY <1>1, <1>4, <2>1 DEF UnboundedTrue
<1> QED BY <1>3, <1>5, <1>6, <1>7, <1>8 DEF RunnerIInv

(* The passes over, every file has been gone through by each of them.      *)
LEMMA StoringKeeps ==
  ASSUME RunnerIInv,
         (stage = "unbounded" /\ todo = {}) \/ stage = "store",
         stage' \in {"store", "done"},
         UNCHANGED <<tree, todo, candidates, caches, hash, answers, misses, relint, probing, probes,
                     results, lost, calm>>,
         Stocks'
  PROVE  RunnerIInv'
<1>1. RunnerTyped /\ Loops /\ ReadsTrue /\ VerifyTrue /\ BoundedTrue /\ UnboundedTrue
  BY DEF RunnerIInv
<1>2. RunnerTyped' /\ Loops'
  BY <1>1 DEF tree, results, RunnerTyped, TreeTyped, FilesTyped, ReadsTyped, ResultsTyped, Loops,
       Hits
<1>3. /\ \A y \in Source : Hashed(y) /\ PastVerify(y) /\ PastBounded(y) /\ PastUnbounded(y)
      /\ candidates \subseteq Source /\ Hits \subseteq Source /\ relint \subseteq Source /\ Hits' = Hits
  BY <1>1 DEF RunnerTyped, FilesTyped, Hashed, PastVerify, PastBounded, PastUnbounded, AfterFull,
       Hits
<1>4. ReadsTrue'
  BY <1>1, <1>3, SightStays DEF ReadsTrue, tree, Hits, Loops
<1>5. (FullTrue /\ OwnsTrue)'
  BY MissesStay DEF AfterFull, results
<1>6. (VerifyTrue /\ BoundedTrue /\ UnboundedTrue)'
  BY <1>1, <1>3, SightStays DEF VerifyTrue, BoundedTrue, UnboundedTrue, Replayed, Ran, results, Hits
<1> QED BY <1>2, <1>4, <1>5, <1>6 DEF RunnerIInv

LEMMA StoreOwnKeeps == ASSUME RunnerIInv, StoreOwn PROVE RunnerIInv'
<1>1. /\ stage = "unbounded" /\ todo = {} /\ stage' = "store"
      /\ UNCHANGED <<tree, sideDisk, todo, candidates, caches, hash, answers, misses, relint,
                     probing, probes, results, lost, calm>>
  BY DEF StoreOwn
<1>2. RunnerTyped /\ Stocks /\ Loops /\ ReadsTrue /\ FullTrue
  BY DEF RunnerIInv
<1>3. OwnStock(ownDisk)'
  <2>1. CASE ~Trusted("full")
    BY <1>2, <2>1 DEF StoreOwn, Stocks, OwnStock
  <2>2. CASE Trusted("full")
    <3> DEFINE fresh(k) == [own[k[1]] EXCEPT !.calm = @ /\ calm]
               new(k) == IF k[1] \in misses /\ hash[k[1]] = k[2] THEN fresh(k)
                         ELSE IF ownCache[k] # NoOwn THEN ownCache[k] ELSE ownDisk[k]
    <3>1. ownDisk' = [k \in Key |-> new(k)]
      BY <2>2 DEF StoreOwn
    <3>2. ASSUME NEW k \in Key, k[1] \in misses, hash[k[1]] = k[2]
          PROVE  fresh(k) \in [of : Now, calm : BOOLEAN] /\ (fresh(k).calm => fresh(k).of = k[2])
      <4>1. k[1] \in Source /\ k[1] \in candidates /\ own[k[1]] \in OwnResult /\ calm \in BOOLEAN
        BY <1>2, <3>2 DEF RunnerTyped, FilesTyped, ResultsTyped, Loops
      <4>2. own[k[1]].of \in Now /\ (calm => own[k[1]] = Own(k[1])) /\ (calm => hash[k[1]] = content[k[1]])
        <5>1. PastFull(k[1]) /\ Hashed(k[1]) /\ k[1] \notin lost["full"]
          BY <1>1, <2>2 DEF PastFull, Hashed, AfterFull, Trusted
        <5> QED BY <1>2, <3>2, <4>1, <5>1 DEF FullTrue, OwnRan, ReadsTrue
      <4>3. fresh(k).of = own[k[1]].of /\ fresh(k).calm = (own[k[1]].calm /\ calm)
        BY <4>1 DEF OwnResult
      <4>4. fresh(k) \in [of : Now, calm : BOOLEAN]
        BY <4>1, <4>2 DEF OwnResult
      <4> QED BY <3>2, <4>2, <4>3, <4>4 DEF Own
    <3>3. ASSUME NEW k \in Key
          PROVE  new(k) \in OwnEntry /\ OwnTrue(new(k), k)
      <4> HIDE DEF fresh
      <4>1. CASE k[1] \in misses /\ hash[k[1]] = k[2]
        BY <3>2, <4>1 DEF OwnEntry, OwnTrue
      <4>2. CASE ~(k[1] \in misses /\ hash[k[1]] = k[2])
        BY <1>2, <4>2 DEF Stocks, OwnStock
      <4> QED BY <4>1, <4>2
    <3> HIDE DEF new
    <3> QED BY <3>1, <3>3 DEF OwnStock
  <2> QED BY <2>1, <2>2
<1>4. Stocks'
  BY <1>1, <1>2, <1>3 DEF Stocks, caches
<1> QED BY <1>1, <1>4, StoringKeeps

LEMMA StoreSidecarKeeps == ASSUME RunnerIInv, StoreSidecar PROVE RunnerIInv'
<1>1. /\ stage = "store" /\ stage' = "done"
      /\ UNCHANGED <<tree, ownDisk, todo, candidates, caches, hash, answers, misses, relint,
                     probing, probes, results, lost, calm>>
  BY DEF StoreSidecar
<1>2. RunnerTyped /\ Stocks /\ Loops /\ ReadsTrue /\ FullTrue /\ BoundedTrue
  BY DEF RunnerIInv
<1>3. SideStock(sideDisk)'
  <2> DEFINE fresh(k) == [probes |-> probes[k[1]], of |-> bounded[k[1]].of, calm |-> calm]
             new(k) == IF k[1] \in Storable /\ hash[k[1]] = k[2] THEN fresh(k)
                       ELSE IF sideCache[k] # NoEntry THEN sideCache[k] ELSE sideDisk[k]
  <2>1. sideDisk' = sideDisk \/ sideDisk' = [k \in Key |-> new(k)]
    BY DEF StoreSidecar
  <2>2. ASSUME NEW k \in Key, k[1] \in Storable, hash[k[1]] = k[2]
        PROVE  fresh(k) \in SideEntry /\ SideTrue(fresh(k), k)
    <3> DEFINE x == k[1]
    <3>1. /\ x \in Source /\ x \in candidates /\ k[2] \in Content /\ k = <<x, k[2]>>
          /\ probes[x] # Unknown /\ probes[x] \in Seen /\ calm \in BOOLEAN
      BY <1>2, <2>2 DEF Storable, Key, RunnerTyped, FilesTyped, ReadsTyped, Loops, Hits
    <3>2. Ran(bounded[x], x)
      <4>1. PastFull(x) /\ PastBounded(x)
        BY <1>1 DEF PastFull, PastBounded, AfterFull
      <4>2. (x \in misses /\ lost["full"] = {}) \/ (x \in relint /\ lost["bounded"] = {})
        BY <2>2 DEF Storable, Trusted
      <4> QED BY <1>2, <4>1, <4>2 DEF FullTrue, BoundedTrue
    <3>3. calm => /\ k[2] = content[x] /\ probes[x] = [y \in NeedsOf(x) |-> content[y]]
                  /\ NeedsOf(x) = Needs[k] /\ bounded[x].of = [y \in NeedsOf(x) \union {x} |-> content[y]]
      <4>1. Hashed(x)
        BY <1>1 DEF Hashed, AfterFull
      <4>2. ASSUME calm PROVE k[2] = content[x] /\ probes[x] = [y \in NeedsOf(x) |-> content[y]]
        BY <1>2, <2>2, <3>1, <4>1, <4>2 DEF ReadsTrue
      <4>3. ASSUME calm PROVE NeedsOf(x) = Needs[k]
        BY <3>1, <4>2, <4>3, ContentAssumption DEF NeedsOf
      <4>4. ASSUME calm PROVE bounded[x].of = [y \in NeedsOf(x) \union {x} |-> content[y]]
        BY <3>2, <4>4 DEF Ran, Cross
      <4> QED BY <4>2, <4>3, <4>4
    <3>4. bounded[x].of \in Seen
      BY <3>2 DEF Ran
    <3>5. fresh(k) \in SideEntry
      BY <3>1, <3>4 DEF SideEntry
    <3>6. /\ fresh(k).calm = calm /\ fresh(k).probes = probes[x] /\ fresh(k).of = bounded[x].of
      OBVIOUS
    <3>7. calm => /\ DOMAIN probes[x] = Needs[k]
                  /\ bounded[x].of = [y \in Needs[k] \union {x} |-> IF y = x THEN k[2] ELSE probes[x][y]]
      BY <3>3
    <3> QED BY <3>5, <3>6, <3>7 DEF SideTrue
  <2>3. ASSUME NEW k \in Key
        PROVE  new(k) \in SideEntry /\ SideTrue(new(k), k)
    <3> HIDE DEF fresh
    <3>1. CASE k[1] \in Storable /\ hash[k[1]] = k[2]
      BY <2>2, <3>1
    <3>2. CASE ~(k[1] \in Storable /\ hash[k[1]] = k[2])
      BY <1>2, <3>2 DEF Stocks, SideStock
    <3> QED BY <3>1, <3>2
  <2>4. SideStock(sideDisk)
    BY <1>2 DEF Stocks
  <2> HIDE DEF new
  <2> QED BY <2>1, <2>3, <2>4 DEF SideStock
<1>4. Stocks'
  BY <1>1, <1>2, <1>3 DEF Stocks, caches
<1> QED BY <1>1, <1>4, StoringKeeps

LEMMA RunnerStepKeeps == ASSUME RunnerIInv, [ReplayNext]_replayVars PROVE RunnerIInv'
<1>1. ASSUME UNCHANGED replayVars PROVE RunnerIInv'
  <2>1. UNCHANGED <<tree, scan, calm>> /\ Stocks'
    BY <1>1 DEF replayVars, RunnerIInv, Stocks, disk, scan, caches
  <2> QED BY <2>1, ScanStays DEF RunnerIInv
<1>2. CASE ReplayNext
  BY <1>2, EditKeeps, EvictKeeps, BeginScanKeeps, ScanEndKeeps, HashKeeps, CollectProbesKeeps,
       DropFileKeeps,
     LintFullKeeps, VerifyKeeps, LintBoundedKeeps, LintUnboundedKeeps, StartFullKeeps, StartVerifyKeeps,
     StartBoundedKeeps, StartUnboundedKeeps, StoreOwnKeeps, StoreSidecarKeeps
     DEF ReplayNext, Fail, Return
<1> QED BY <1>1, <1>2

(* Entries stored in calm are what the rules see of their key, and the     *)
(* diagnostics of a scan are of the files as they are, or were stored      *)
(* (core/src/run-oxlint.ts).                                               *)
THEOREM RunnerInvariant == ReplaySpec => []RunnerIInv
<1>1. ReplayInit => RunnerIInv
  BY RunnerInitIInv
<1>2. RunnerIInv /\ [ReplayNext]_replayVars => RunnerIInv'
  BY RunnerStepKeeps
<1> QED BY <1>1, <1>2, PTL DEF ReplaySpec

(* A warm scan reports what a cold one would, for every tree, every needs  *)
(* of files and every history of scans (run-oxlint.ts).                    *)
THEOREM WarmIsCold == ReplaySpec => []WarmEqualsCold
<1>1. ASSUME RunnerIInv, stage = "done", calm, NEW x \in candidates
      PROVE  /\ own[x].calm => own[x] = Own(x) \/ x \in lost["full"]
             /\ bounded[x].calm => bounded[x] = Cross(x) \/ x \in lost["full"] \union lost["bounded"]
             /\ unbounded[x].calm =>
                  unbounded[x] = Cross(x) \/ x \in lost["full"] \union lost["unbounded"]
  <2>1. /\ x \in Source /\ own[x] \in OwnResult /\ bounded[x] \in CrossResult
        /\ Cross(x) \in CrossResult /\ Cross(x).calm = TRUE
    BY <1>1, RunsSee DEF RunnerIInv, RunnerTyped, FilesTyped, ResultsTyped
  <2>2. Hashed(x) /\ PastFull(x) /\ PastVerify(x) /\ PastBounded(x) /\ PastUnbounded(x)
    BY <1>1 DEF Hashed, PastFull, PastVerify, PastBounded, PastUnbounded, AfterFull
  <2>3. CASE x \in misses
    BY <1>1, <2>2, <2>3 DEF RunnerIInv, FullTrue, OwnRan, Ran
  <2>4. CASE x \in Hits
    <3>1. own[x].calm => own[x] = Own(x)
      BY <1>1, <2>1, <2>2, <2>4 DEF RunnerIInv, OwnsTrue, OwnShown, OwnResult, Own
    <3>2. x \notin lost["unbounded"] => unbounded[x] = Cross(x)
      BY <1>1, <2>2, <2>4 DEF RunnerIInv, UnboundedTrue, Ran
    <3>3. CASE x \in relint
      BY <1>1, <2>2, <3>1, <3>2, <3>3 DEF RunnerIInv, BoundedTrue, Ran
    <3>4. CASE x \notin relint
      <4>1. bounded[x].calm => bounded[x].of = Cross(x).of
        BY <1>1, <2>2, <2>4, <3>4 DEF RunnerIInv, VerifyTrue, Replayed
      <4>2. bounded[x].calm => bounded[x] = Cross(x)
        BY <2>1, <4>1 DEF CrossResult
      <4> QED BY <3>1, <3>2, <4>2
    <3> QED BY <3>3, <3>4
  <2> QED BY <1>1, <2>3, <2>4 DEF Hits
<1>2. RunnerIInv => WarmEqualsCold
  BY <1>1 DEF WarmEqualsCold
<1> QED BY <1>2, RunnerInvariant, PTL

(* A file reported as analyzed has the diagnostics of every rule           *)
(* (run-oxlint.ts, the analyzed files of a pass).                          *)
THEOREM CoverageHonest == ReplaySpec => []CoverageIsHonest
<1>1. \A s \in Seen : s # Nothing
  BY NothingAssumption DEF Seen, Now
<1>2. ASSUME RunnerIInv, stage = "done", NEW x \in Analyzed
      PROVE  NoResult \notin {own[x], bounded[x], unbounded[x]}
  <2>1. Hashed(x) /\ PastFull(x) /\ PastVerify(x) /\ PastBounded(x) /\ PastUnbounded(x)
    BY <1>2 DEF Hashed, PastFull, PastVerify, PastBounded, PastUnbounded, AfterFull
  <2>2. own[x].of \in Now /\ bounded[x].of \in Seen /\ unbounded[x].of \in Seen
    <3>1. CASE x \in misses \ lost["full"]
      BY <1>2, <2>1, <3>1 DEF RunnerIInv, FullTrue, OwnRan, Ran
    <3>2. CASE x \in Hits /\ (x \notin relint \/ x \notin lost["bounded"]) /\ x \notin lost["unbounded"]
      BY <1>2, <2>1, <3>2
         DEF RunnerIInv, OwnsTrue, OwnShown, VerifyTrue, Replayed, BoundedTrue, UnboundedTrue, Ran
    <3> QED BY <1>2, <3>1, <3>2 DEF Analyzed
  <2> QED BY <1>1, <2>2, NothingAssumption DEF NoResult, Now
<1>3. RunnerIInv => CoverageIsHonest
  BY <1>2 DEF CoverageIsHonest
<1> QED BY <1>3, RunnerInvariant, PTL
=============================================================================
