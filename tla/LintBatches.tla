----------------------------- MODULE LintBatches -----------------------------
(***************************************************************************)
(* One lint pass over prebuilt batches of files (spawnLintBatches,         *)
(* core/src/runners/oxlint/spawn-batches.ts): workers that each run one    *)
(* oxlint process at a time, halve a batch that failed and try the halves  *)
(* in turn, drop what keeps failing and skip what the deadline forbids;    *)
(* one serial replay of a pass the system could not fork for; a serial     *)
(* rescue of files dropped for lack of memory.                             *)
(*                                                                         *)
(* A batch is a set of files; the order of batches and files only matters  *)
(* for speed.  Clocks are the flags that say a budget is used up.          *)
(***************************************************************************)
EXTENDS Naturals, FiniteSets

CONSTANTS File,
          Batch,         \* fileBatches: a partition of File
          Worker,        \* requestedConcurrency workers
          MaxDepth,      \* splitMaxDepth
          HasDeadline    \* deadlineEpochMs is given

ASSUME FileAssumption == IsFiniteSet(File)
ASSUME BatchAssumption ==
  /\ Batch \subseteq (SUBSET File) \ {{}}
  /\ UNION Batch = File
  /\ \A a, b \in Batch : a = b \/ a \intersect b = {}
ASSUME WorkerAssumption == IsFiniteSet(Worker) /\ Worker # {}
ASSUME DepthAssumption == MaxDepth \in Nat
ASSUME DeadlineAssumption == HasDeadline \in BOOLEAN

VARIABLES phase,
          unstarted,    \* batches no worker has taken
          current,      \* worker -> files of its oxlint process, {} for none
          depth,        \* worker -> split depth of that process
          waiting,      \* worker -> halves [files, depth] still to be run
          budget,       \* worker -> the split budget of its batch
          error,        \* the first error a worker threw
          linted, dropped, oomDropped, skipped,
          firstDropReason, firstNonOomDropReason,
          toRescue, rescuing, rescued, firstRescueFailureReason,
          pastDeadline, pastRescueDeadline,
          lingering,    \* an oxlint that was killed has not ended yet
          report        \* what the caller is told at the end

workerVars == <<current, depth, waiting, budget>>
fileVars == <<linted, dropped, oomDropped, skipped>>
reasonVars == <<firstDropReason, firstNonOomDropReason>>
rescueVars == <<toRescue, rescuing, rescued, firstRescueFailureReason>>
clockVars == <<pastDeadline, pastRescueDeadline>>
outsideVars == <<clockVars, lingering>>
vars == <<phase, unstarted, workerVars, error, fileVars, reasonVars, rescueVars,
          outsideVars, report>>

(* How a process fails.  Out of memory, and timeout, output cap or another *)
(* signal, are splittable.  "exhausted" is a spawn error that parallelism  *)
(* alone explains (EAGAIN, EMFILE, ENFILE, ENOMEM); "fatal" is any other   *)
(* error, an abort and unparseable output included.                        *)
Splittable == {"oom", "limit"}
Unsplittable == {"exhausted", "fatal"}
Reason == Splittable \union Unsplittable \union {"none"}

Half == [files : SUBSET File, depth : Nat]

FilesIn(halves) == UNION {h.files : h \in halves}

NoReport == [dropped |-> {}, skipped |-> {}, analyzed |-> {}, reason |-> "none"]

(* `reason' once `next' happened: the first one is kept (??=).             *)
FirstOf(reason, next) == IF reason = "none" THEN next ELSE reason

InPass == phase \in {"parallel", "serial"}
IsParallel == Cardinality(Worker) > 1

Init ==
  /\ phase = "parallel"
  /\ unstarted = Batch
  /\ current = [w \in Worker |-> {}]
  /\ depth = [w \in Worker |-> 0]
  /\ waiting = [w \in Worker |-> {}]
  /\ budget = [w \in Worker |-> "unset"]
  /\ error = "none"
  /\ linted = {} /\ dropped = {} /\ oomDropped = {} /\ skipped = {}
  /\ firstDropReason = "none" /\ firstNonOomDropReason = "none"
  /\ toRescue = {} /\ rescuing = {} /\ rescued = {}
  /\ firstRescueFailureReason = "none"
  /\ pastDeadline = FALSE /\ pastRescueDeadline = FALSE
  /\ lingering = FALSE
  /\ report = NoReport

-----------------------------------------------------------------------------
(* The worker pool (mapWithConcurrency) and one batch (spawnLintBatch).    *)

(* A worker takes a batch: only while nothing failed, and only one worker  *)
(* in a serial pass.  Past the deadline the batch is skipped.              *)
TakeBatch(w, batch) ==
  /\ InPass
  /\ current[w] = {}
  /\ error = "none"
  /\ phase = "serial" => \A v \in Worker : current[v] = {}
  /\ unstarted' = unstarted \ {batch}
  /\ IF pastDeadline
     THEN /\ skipped' = skipped \union batch
          /\ UNCHANGED workerVars
     ELSE /\ current' = [current EXCEPT ![w] = batch]
          /\ depth' = [depth EXCEPT ![w] = 0]
          /\ budget' = [budget EXCEPT ![w] = "unset"]
          /\ UNCHANGED <<waiting, skipped>>
  /\ UNCHANGED <<phase, error, linted, dropped, oomDropped, reasonVars, rescueVars,
                 outsideVars, report>>

(* The check at the head of spawnLintBatch. *)
MaySpawn == ~pastDeadline

(* The worker goes on with one of the halves left; `late' are files the    *)
(* deadline just took.                                                     *)
GoOn(w, halves, late) ==
  IF halves = {}
  THEN /\ current' = [current EXCEPT ![w] = {}]
       /\ waiting' = [waiting EXCEPT ![w] = {}]
       /\ skipped' = skipped \union late
       /\ UNCHANGED depth
  ELSE IF MaySpawn
  THEN \E h \in halves : /\ current' = [current EXCEPT ![w] = h.files]
                         /\ depth' = [depth EXCEPT ![w] = h.depth]
                         /\ waiting' = [waiting EXCEPT ![w] = halves \ {h}]
                         /\ skipped' = skipped \union late
  ELSE /\ current' = [current EXCEPT ![w] = {}]
       /\ waiting' = [waiting EXCEPT ![w] = {}]
       /\ skipped' = skipped \union late \union FilesIn(halves)
       /\ UNCHANGED depth

(* The process linted its files.                                           *)
Succeed(w) ==
  /\ InPass
  /\ current[w] # {}
  /\ linted' = linted \union current[w]
  /\ GoOn(w, waiting[w], {})
  /\ UNCHANGED <<phase, unstarted, budget, error, dropped, oomDropped, reasonVars,
                 rescueVars, outsideVars, report>>

(* A timeout (a limit) and an abort (fatal) kill the process and settle at  *)
(* once: it may still be alive when the pass goes on.                      *)
KillLingers(kind) ==
  lingering' \in IF kind \in {"limit", "fatal"} THEN {lingering, TRUE} ELSE {lingering}

(* What was killed is gone; nothing waits for it.                          *)
KilledEnds ==
  /\ lingering /\ lingering' = FALSE
  /\ UNCHANGED <<phase, unstarted, workerVars, error, fileVars, reasonVars, rescueVars,
                 clockVars, report>>

(* The process failed past the deadline: its files count as skipped.       *)
FailLate(w) ==
  /\ InPass
  /\ current[w] # {}
  /\ pastDeadline
  /\ GoOn(w, waiting[w], current[w])
  /\ KillLingers("limit")
  /\ UNCHANGED <<phase, unstarted, budget, error, linted, dropped, oomDropped,
                 reasonVars, rescueVars, clockVars, report>>

(* The split budget starts at the batch's first failure and may have run   *)
(* out at any later one.                                                   *)
NextBudget(w) == IF budget[w] = "unset" THEN {"running"}
                 ELSE IF budget[w] = "running" THEN {"running", "elapsed"}
                 ELSE {"elapsed"}

IsSmallest(w) == Cardinality(current[w]) <= 1 \/ depth[w] >= MaxDepth

(* The process failed and its files cannot be halved any more.             *)
Drop(w, kind) ==
  /\ InPass
  /\ current[w] # {}
  /\ ~pastDeadline
  /\ \E b \in NextBudget(w) : /\ IsSmallest(w) \/ b = "elapsed"
                              /\ budget' = [budget EXCEPT ![w] = b]
  /\ dropped' = dropped \union current[w]
  /\ oomDropped' = oomDropped \union (IF kind = "oom" THEN current[w] ELSE {})
  /\ firstDropReason' = FirstOf(firstDropReason, kind)
  /\ firstNonOomDropReason' = IF kind = "oom" THEN firstNonOomDropReason
                              ELSE FirstOf(firstNonOomDropReason, kind)
  /\ GoOn(w, waiting[w], {})
  /\ KillLingers(kind)
  /\ UNCHANGED <<phase, unstarted, error, linted, rescueVars, clockVars, report>>

IsSplit_LoseMiddle(files, first, second) ==
  /\ Cardinality(first) = Cardinality(files) \div 2
  /\ Cardinality(second) = Cardinality(files) \div 2
  /\ first \union second \subseteq files /\ first \intersect second = {}

(* files in two: the first half has the odd file. *)
IsSplit(files, first, second) ==
  /\ first \union second = files /\ first \intersect second = {}
  /\ Cardinality(first) = (Cardinality(files) + 1) \div 2

(* The process failed and its files are halved.                            *)
Split(w) ==
  /\ InPass
  /\ ~pastDeadline
  /\ ~IsSmallest(w) /\ budget[w] # "elapsed"
  /\ budget' = [budget EXCEPT ![w] = "running"]
  /\ \E first, second \in SUBSET current[w] :
       /\ IsSplit(current[w], first, second)
       /\ current' = [current EXCEPT ![w] = first]
       /\ waiting' = [waiting EXCEPT
            ![w] = @ \union {[files |-> second, depth |-> depth[w] + 1]}]
  /\ depth' = [depth EXCEPT ![w] = @ + 1]
  /\ KillLingers("limit")
  /\ UNCHANGED <<phase, unstarted, error, fileVars, reasonVars, rescueVars,
                 clockVars, report>>

(* An error that is not splittable ends the worker.                        *)
Break(w, kind) ==
  /\ InPass
  /\ current[w] # {}
  /\ error' = FirstOf(error, kind)
  /\ current' = [current EXCEPT ![w] = {}]
  /\ waiting' = [waiting EXCEPT ![w] = {}]
  /\ KillLingers(kind)
  /\ UNCHANGED <<phase, unstarted, depth, budget, fileVars, reasonVars, rescueVars,
                 clockVars, report>>

-----------------------------------------------------------------------------
(* The passes (spawnLintBatches).                                          *)

PassSettled_AtFirstError ==
  InPass /\ (error # "none" \/ (unstarted = {} /\ \A w \in Worker : current[w] = {}))

(* The pool settles once every worker has: none is left running.           *)
PassSettled ==
  /\ InPass
  /\ \A w \in Worker : current[w] = {}
  /\ error # "none" \/ unstarted = {}

CanReplay == phase = "parallel" /\ IsParallel /\ error = "exhausted"

(* The pass is replayed from a clean slate with a single worker.           *)
Replay ==
  /\ PassSettled
  /\ CanReplay
  /\ phase' = "serial"
  /\ unstarted' = Batch
  /\ error' = "none"
  /\ linted' = {} /\ dropped' = {} /\ oomDropped' = {} /\ skipped' = {}
  /\ firstDropReason' = "none" /\ firstNonOomDropReason' = "none"
  /\ UNCHANGED <<workerVars, rescueVars, outsideVars, report>>

Throw ==
  /\ PassSettled
  /\ error # "none" /\ ~CanReplay
  /\ phase' = "failed"
  /\ UNCHANGED <<unstarted, workerVars, error, fileVars, reasonVars, rescueVars,
                 outsideVars, report>>

NeedsRescue == oomDropped # {} /\ phase = "parallel" /\ IsParallel /\ ~pastDeadline

BeginRescue ==
  /\ PassSettled
  /\ error = "none" /\ NeedsRescue
  /\ phase' = "rescue"
  /\ toRescue' = oomDropped
  /\ UNCHANGED <<unstarted, workerVars, error, fileVars, reasonVars, rescuing, rescued,
                 firstRescueFailureReason, outsideVars, report>>

(* Each file dropped for lack of memory gets a process of its own.         *)
RescueFile(x) ==
  /\ phase = "rescue" /\ rescuing = {}
  /\ ~pastDeadline /\ ~pastRescueDeadline
  /\ toRescue' = toRescue \ {x}
  /\ rescuing' = {x}
  /\ UNCHANGED <<phase, unstarted, workerVars, error, fileVars, reasonVars, rescued,
                 firstRescueFailureReason, outsideVars, report>>

RescueSucceeds ==
  /\ phase = "rescue" /\ rescuing # {}
  /\ linted' = linted \union rescuing
  /\ rescued' = rescued \union rescuing
  /\ rescuing' = {}
  /\ UNCHANGED <<phase, unstarted, workerVars, error, dropped, oomDropped, skipped,
                 reasonVars, toRescue, firstRescueFailureReason, outsideVars, report>>

(* The file stays dropped; a failure past a deadline is no reason.         *)
RescueFails(kind) ==
  /\ phase = "rescue" /\ rescuing # {}
  /\ firstRescueFailureReason' =
       IF kind \in Splittable /\ (pastDeadline \/ pastRescueDeadline)
       THEN firstRescueFailureReason ELSE FirstOf(firstRescueFailureReason, kind)
  /\ rescuing' = {}
  /\ KillLingers(kind)
  /\ UNCHANGED <<phase, unstarted, workerVars, error, fileVars, reasonVars, toRescue,
                 rescued, clockVars, report>>

RescueOver_UntilEmpty == phase = "rescue" /\ rescuing = {} /\ toRescue = {}

RescueOver == phase = "rescue" /\ rescuing = {}
                /\ (toRescue = {} \/ pastDeadline \/ pastRescueDeadline)

(* The reason reported with the files still dropped: a rescue moves the    *)
(* blame away from the memory failures it cleared.                         *)
FinalReason ==
  IF phase # "rescue" THEN firstDropReason
  ELSE IF dropped \ rescued = {} THEN "none"
  ELSE FirstOf(firstRescueFailureReason, FirstOf(firstNonOomDropReason, firstDropReason))

Unavailable_DroppedOnly == dropped \ rescued

Unavailable == (dropped \ rescued) \union skipped

(* The caller is told what was dropped, skipped and analyzed.              *)
Finish ==
  /\ \/ PassSettled /\ error = "none" /\ ~NeedsRescue
     \/ RescueOver
  /\ phase' = "done"
  /\ report' = [dropped |-> dropped \ rescued, skipped |-> skipped,
                analyzed |-> File \ Unavailable, reason |-> FinalReason]
  /\ UNCHANGED <<unstarted, workerVars, error, fileVars, reasonVars, rescueVars, outsideVars>>

(* Time passes. *)
DeadlinePasses ==
  /\ HasDeadline /\ ~pastDeadline
  /\ pastDeadline' = TRUE
  /\ UNCHANGED <<phase, unstarted, workerVars, error, fileVars, reasonVars, rescueVars,
                 pastRescueDeadline, lingering, report>>

RescueDeadlinePasses ==
  /\ phase = "rescue" /\ ~pastRescueDeadline
  /\ pastRescueDeadline' = TRUE
  /\ UNCHANGED <<phase, unstarted, workerVars, error, fileVars, reasonVars, rescueVars,
                 pastDeadline, lingering, report>>

Settles(w) == \/ Succeed(w)
              \/ FailLate(w)
              \/ \E kind \in Splittable : Drop(w, kind)
              \/ Split(w)
              \/ \E kind \in Unsplittable : Break(w, kind)

RescueSettles == RescueSucceeds \/ \E kind \in Splittable \union Unsplittable : RescueFails(kind)

Next == \/ \E w \in Worker : \/ \E batch \in unstarted : TakeBatch(w, batch)
                             \/ Settles(w)
        \/ Replay
        \/ Throw
        \/ BeginRescue
        \/ \E x \in toRescue : RescueFile(x)
        \/ RescueSettles
        \/ Finish
        \/ DeadlinePasses
        \/ RescueDeadlinePasses
        \/ KilledEnds

(* Promise callbacks run, and every process settles: it has a spawn        *)
(* timeout.  That what was killed ends is not assumed.                     *)
Fairness ==
  /\ \A w \in Worker : /\ WF_vars(\E batch \in unstarted : TakeBatch(w, batch))
                       /\ WF_vars(Settles(w))
  /\ WF_vars(Replay \/ Throw \/ BeginRescue \/ Finish)
  /\ WF_vars(\E x \in toRescue : RescueFile(x))
  /\ WF_vars(RescueSettles)

Spec == Init /\ [][Next]_vars
FairSpec == Spec /\ Fairness

-----------------------------------------------------------------------------

(* Every variable has its type, and waiting halves are not empty.          *)
TypeOK ==
  /\ phase \in {"parallel", "serial", "rescue", "done", "failed"}
  /\ unstarted \in SUBSET Batch
  /\ current \in [Worker -> SUBSET File]
  /\ depth \in [Worker -> Nat]
  /\ waiting \in [Worker -> SUBSET Half]
  /\ \A w \in Worker : \A h \in waiting[w] : h.files # {}
  /\ budget \in [Worker -> {"unset", "running", "elapsed"}]
  /\ error \in {"none", "exhausted", "fatal"}
  /\ linted \in SUBSET File /\ dropped \in SUBSET File
  /\ oomDropped \in SUBSET dropped /\ skipped \in SUBSET File
  /\ firstDropReason \in Splittable \union {"none"}
  /\ firstNonOomDropReason \in {"limit", "none"}
  /\ toRescue \in SUBSET oomDropped /\ rescuing \in SUBSET oomDropped
  /\ rescued \in SUBSET oomDropped
  /\ firstRescueFailureReason \in Reason
  /\ pastDeadline \in BOOLEAN /\ pastRescueDeadline \in BOOLEAN /\ lingering \in BOOLEAN
  /\ report \in [dropped : SUBSET File, skipped : SUBSET File,
                 analyzed : SUBSET File, reason : Reason]

HeldBy(w) == current[w] \union FilesIn(waiting[w])

StillDropped == dropped \ rescued

(* While no error ended the pass, every file is in exactly one place: in a *)
(* batch to come, at one worker, linted, dropped or skipped.  No splitting,*)
(* rescue or deadline loses one silently or lints it twice.                *)
EveryFileAccounted ==
  error = "none" =>
    /\ (UNION unstarted) \union (UNION {HeldBy(w) : w \in Worker})
         \union linted \union StillDropped \union skipped = File
    /\ \A w \in Worker : HeldBy(w) \intersect
         ((UNION unstarted) \union linted \union StillDropped \union skipped) = {}
    /\ \A w \in Worker :
         /\ current[w] \intersect FilesIn(waiting[w]) = {}
         /\ \A g, h \in waiting[w] : g = h \/ g.files \intersect h.files = {}
    /\ \A v, w \in Worker : v # w => HeldBy(v) \intersect HeldBy(w) = {}
    /\ (UNION unstarted) \intersect (linted \union StillDropped \union skipped) = {}
    /\ linted \intersect (StillDropped \union skipped) = {}
    /\ StillDropped \intersect skipped = {}

(* The files reported as analyzed are the linted ones, and what is missing *)
(* was reported dropped or skipped.                                        *)
ReportTrue ==
  phase = "done" =>
    /\ report.analyzed = linted
    /\ report.dropped \union report.skipped = File \ linted

(* A serial pass waits for one process at a time, and a rescue starts when *)
(* nothing of the pass is waited for any more (mapWithConcurrency): no     *)
(* process runs beside but one that was killed.                            *)
SerialIsAlone ==
  /\ phase = "serial" => Cardinality({w \in Worker : current[w] # {}}) <= 1
  /\ phase \in {"rescue", "done", "failed"} => \A w \in Worker : current[w] = {}

(* "A serial pass spawns one oxlint child at a time", "a lone process with *)
(* the machine to itself" (spawnLintBatches), those that were killed       *)
(* included: violated, since a killed child is not awaited (spawnOxlint).  *)
KilledAreGone == phase \in {"serial", "rescue"} => ~lingering

(* The reported reason is one that a file still dropped failed for.        *)
ReasonApplies ==
  phase = "done" =>
    /\ report.reason # "none" <=> report.dropped # {}
    /\ (report.reason = "oom" => report.dropped \intersect oomDropped # {})
    /\ (report.reason = "limit" /\ firstRescueFailureReason = "none"
          => \E x \in report.dropped : x \notin oomDropped)

(* Past the deadline no process starts, not even for a half.               *)
DeadlineStopsSpawning ==
  [][pastDeadline => /\ \A w \in Worker : current'[w] \in {current[w], {}}
                     /\ rescuing' \in {rescuing, {}}]_vars

(* The pass returns or throws, however its processes fail.                 *)
Terminates == <>(phase \in {"done", "failed"})
=============================================================================
