--------------------------- MODULE ServerFeedback ---------------------------
(***************************************************************************)
(* The scheduler of the language server with what hangs on its callbacks   *)
(* (packages/language-server/src/server.ts): its idle reports drive the    *)
(* busy flag and the progress of ServerStatus and end the telemetry burst  *)
(* (runtime/scan-telemetry.ts), its results drive the lint health and are  *)
(* counted in the burst.  The handlers that scan the workspace cancel,     *)
(* enqueue and open the burst in one go: `handler' is what the one under   *)
(* way has still to do, and nothing else runs meanwhile.                   *)
(***************************************************************************)
EXTENDS Scheduler, ServerStatus

VARIABLES handler,  \* whether one is under way, what it has to cancel and enqueue
          burst,    \* the ActiveBurst: the scans it began with, those counted
          event     \* the burst of the last recordWorkspaceScan

feedbackVars == <<vars, statusVars, handler, burst, event>>

FileKey == {k \in Key : k[2] # {}}
WholeKey == {k \in Key : k[2] = {}}

Handled == [entered |-> FALSE, cancel |-> {}, scans |-> {}, chunks |-> {}, asked |-> {}]

NoBurst == [open |-> FALSE, asked |-> {}, counted |-> {}]

FeedbackInit ==
  /\ Init
  /\ StatusInit
  /\ handler = Handled
  /\ burst = NoBurst
  /\ event = NoBurst

(* No handler is half way, so another callback may run. *)
NoHandler == handler = Handled

-----------------------------------------------------------------------------
(* The callbacks of the scheduler.                                         *)

(* setBusy. *)
SetBusy(busy) == IF busy = isBusy THEN UNCHANGED statusVars
                 ELSE IF busy THEN BecomeBusy ELSE BecomeIdle

(* finish of scan-telemetry.ts: a burst in which no scan ended well is not *)
(* recorded.                                                               *)
FinishBurst ==
  /\ event' = IF burst.counted # {} THEN burst ELSE event
  /\ burst' = NoBurst

(* onIdleChange, with what the step reports. *)
OnIdleChange ==
  /\ SetBusy(~idle')
  /\ IF idle' THEN FinishBurst ELSE UNCHANGED <<burst, event>>

NothingReported == UNCHANGED <<statusVars, burst, event>>

(* accumulate, called for a background outcome. *)
Accumulate(request) ==
  burst' = IF IsBackground(request) /\ burst.open
           THEN [burst EXCEPT !.counted = @ \union {request.id}] ELSE burst

(* onResult. *)
OnResult(request) ==
  /\ \E kind \in OutcomeKind : MaybeWarn(kind)
  /\ Accumulate(request)
  /\ UNCHANGED event

-----------------------------------------------------------------------------
(* The scheduler runs.                                                     *)

FiresTimer(request) ==
  /\ TimerFire(request)
  /\ IF Superseded(request) THEN OnIdleChange ELSE NothingReported

Drains == \/ /\ \E entry \in TakeEligible : Start(entry) \/ Drop(entry)
             /\ NothingReported
          \/ Stop /\ OnIdleChange

ScanSettles(request, hasOutcome) ==
  /\ Settle(request, hasOutcome)
  /\ IF hasOutcome /\ ~IsCancelled(request) THEN OnResult(request)
                                            ELSE NothingReported

SchedulerRuns ==
  /\ NoHandler
  /\ \/ \E request \in timers : FiresTimer(request)
     \/ Drains
     \/ \E request \in scanning, hasOutcome \in BOOLEAN : ScanSettles(request, hasOutcome)
     \/ \E request \in settled : Release(request) /\ NothingReported
     \/ Dispose /\ NothingReported
  /\ UNCHANGED handler

(* The client answers a create request.                                    *)
ClientAnswers ==
  /\ control = "loop" /\ NoHandler
  /\ \E reporter \in creating : Created(reporter) \/ CreateFailed(reporter)
  /\ UNCHANGED <<vars, handler, burst, event>>

-----------------------------------------------------------------------------
(* The handlers.                                                           *)

(* An open, change, save, close, watched file or scan-file command.        *)
ScheduleFileScan ==
  /\ NoHandler
  /\ \E key \in FileKey, priority \in Priority : Enqueue(key, priority)
  /\ NothingReported
  /\ UNCHANGED handler

(* Generations a handler takes, for the bound of the scheduler.            *)
Takes(cancel, scans, chunks) ==
  Cardinality({k \in Key : k[1] \in cancel /\ latestGeneration[k] # 0})
    + Cardinality(scans) + Cardinality(chunks)

(* A handler cancels the projects, enqueues interactive scans of the open  *)
(* files and background scans of the chunks.                               *)
Handle(cancel, scans, chunks) ==
  /\ AtEventLoop /\ NoHandler /\ ~disposed
  /\ generation + Takes(cancel, scans, chunks) <= MaxGeneration
  /\ handler' = [entered |-> TRUE, cancel |-> cancel, scans |-> scans, chunks |-> chunks,
                 asked |-> {}]
  /\ UNCHANGED <<vars, burst, event>>

(* The chunks of scanWorkspaceLint: of each project files that are not     *)
(* open, or the project as a whole when git lists none of it, though a     *)
(* file it does not list may be open.                                      *)
ChunksFor(open) ==
  {chunks \in SUBSET (Key \ open) :
     \A j, k \in chunks : j[1] = k[1] /\ k[2] = {} => j = k}

InitialScan ==
  /\ \E chunks \in ChunksFor({}) : Handle({}, {}, chunks)
  /\ UNCHANGED statusVars

FoldersChange ==
  /\ \E removed \in SUBSET Project, open \in SUBSET FileKey :
       \E chunks \in ChunksFor(open) : Handle(removed, open, chunks)
  /\ UNCHANGED statusVars

(* rescanWorkspaceFromScratch, for a configuration change or the restart.  *)
RescanWorkspaceFromScratch ==
  \E open \in SUBSET FileKey : \E chunks \in ChunksFor(open) : Handle(Project, open, chunks)

ConfigChange == RescanWorkspaceFromScratch /\ UNCHANGED statusVars

Restart == RescanWorkspaceFromScratch /\ RestartCommand

(* The scan-workspace command: a full audit of each project.               *)
ScanWorkspaceFull ==
  /\ \E open \in SUBSET FileKey : Handle(Project, open, WholeKey)
  /\ UNCHANGED statusVars

HandlerCancels(project) ==
  /\ CancelProject(project)
  /\ handler' = [handler EXCEPT !.cancel = @ \ {project}]
  /\ OnIdleChange

HandlerEnqueuesFile(key) ==
  /\ Enqueue(key, "interactive")
  /\ handler' = [handler EXCEPT !.scans = @ \ {key}]
  /\ NothingReported

HandlerEnqueuesChunk(key) ==
  /\ Enqueue(key, "background")
  /\ handler' = [handler EXCEPT !.chunks = @ \ {key}, !.asked = @ \union {generation'}]
  /\ NothingReported

Begun_Always(asked) == [open |-> TRUE, asked |-> asked, counted |-> {}]

(* begin, which the handlers call only when they enqueued a chunk: it      *)
(* discards a burst that is not over.                                      *)
Begun(asked) == IF asked = {} THEN burst
                ELSE [open |-> TRUE, asked |-> asked, counted |-> {}]

HandlerEnds ==
  /\ handler.entered
  /\ handler.cancel = {} /\ handler.scans = {} /\ handler.chunks = {}
  /\ burst' = Begun(handler.asked)
  /\ handler' = Handled
  /\ UNCHANGED <<vars, statusVars, event>>

HandlerRuns ==
  \/ \E project \in handler.cancel : HandlerCancels(project)
  \/ handler.cancel = {} /\ \E key \in handler.scans : HandlerEnqueuesFile(key)
  \/ handler.cancel = {} /\ \E key \in handler.chunks : HandlerEnqueuesChunk(key)
  \/ HandlerEnds

FeedbackNext ==
  \/ SchedulerRuns
  \/ ClientAnswers
  \/ ScheduleFileScan
  \/ InitialScan
  \/ FoldersChange
  \/ ConfigChange
  \/ Restart
  \/ ScanWorkspaceFull
  \/ HandlerRuns

FeedbackSpec == FeedbackInit /\ [][FeedbackNext]_feedbackVars

-----------------------------------------------------------------------------

Burst == [open : BOOLEAN, asked : SUBSET Nat, counted : SUBSET Nat]

(* Every variable has its type.                                            *)
FeedbackTypeOK ==
  /\ TypeOK
  /\ StatusTypeOK
  /\ handler \in [entered : BOOLEAN, cancel : SUBSET Project, scans : SUBSET Key,
                  chunks : SUBSET Key, asked : SUBSET Nat]
  /\ burst \in Burst
  /\ event \in Burst

(* Nothing is armed, queued, running or half done.                         *)
AtRest == AtEventLoop /\ NoHandler /\ ~disposed
            /\ timers = {} /\ queue = {} /\ scanning = {}

(* When the last scan is over the editor is told so, however scans were    *)
(* cancelled and handlers overlapped them: the status says quiescent and,  *)
(* unless two create requests were once open together, no progress spins.  *)
SpinnerStops ==
  AtRest => /\ published = Status(serverHealth, FALSE)
            /\ ~overlapped => progresses = {}

(* No burst outlives its scans: at rest none is open, so later scans of    *)
(* single files are not counted as a workspace scan.                       *)
BurstsSettle == AtRest => ~burst.open

(* An event is recorded only when every scan its burst began with is over  *)
(* (the "burst settled" signal of onIdleChange).                           *)
EventsAreSettled == event.asked \intersect {r.id : r \in Pending \union settled} = {}

(* "Only the background workspace audit feeds the wide event": a recorded  *)
(* event counts only scans of its own burst.                               *)
EventCountsItsBurst == event.counted \subseteq event.asked
=============================================================================
