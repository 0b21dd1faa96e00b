------------------------------ MODULE Scheduler ------------------------------
(***************************************************************************)
(* The scan scheduler of the language server                               *)
(* (packages/language-server/src/runtime/scheduler.ts).                    *)
(*                                                                         *)
(* JavaScript runs one callback at a time.  `control' and `settled' say    *)
(* which one: a macrotask (an enqueue, a timer, a cancel, a dispose) only  *)
(* starts when no drain loop is under way and no settled promise has its   *)
(* finally still to run; the drain loop, whose iterations are the steps    *)
(* Start, Drop and Stop, runs to its end before anything else.             *)
(*                                                                         *)
(* The queue array is a set of entries stamped with their arrival, which   *)
(* is the order of the array.                                              *)
(***************************************************************************)
EXTENDS Naturals, FiniteSets

CONSTANTS Project,       \* project directories
          Scope,         \* file scopes: sets of files, {} the whole project
          Key,           \* the coalescing keys: pairs <<project, files>>
          Concurrency,   \* options.concurrency
          Reserved,      \* options.reservedInteractiveSlots
          MaxGeneration  \* bound on the generation counter

ASSUME KeyAssumption == Key \subseteq Project \X Scope /\ IsFiniteSet(Key)
ASSUME ConcurrencyAssumption == Concurrency \in Nat \ {0}
ASSUME ReservedAssumption == Reserved \in Nat
ASSUME GenerationAssumption == MaxGeneration \in Nat

VARIABLES generation, running, runningBackground, disposed,
          timers,           \* requests whose debounce timer is armed
          latestGeneration, \* key -> newest generation, 0 when never asked
          queue,            \* entries [request, arrival]
          arrivals,         \* number of pushes so far
          scanning,         \* requests whose performScan promise is pending
          settled,          \* requests whose finally has yet to run
          control,          \* "loop" or "drain"
          idle,             \* last argument of onIdleChange
          delivered,        \* key -> generation of the last onResult
          ended             \* generations whose performScan promise settled

slotVars == <<running, runningBackground>>
outputVars == <<delivered, ended>>
vars == <<generation, running, runningBackground, disposed, timers,
          latestGeneration, queue, arrivals, scanning, settled, control, idle,
          delivered, ended>>

Priority == {"interactive", "save", "background"}

PriorityRank == [interactive |-> 0, save |-> 1, background |-> 2]

KeyOf(request) == <<request.projectDirectory, request.files>>

Request == {r \in [id : Nat \ {0}, projectDirectory : Project, files : Scope,
                   priority : Priority] : KeyOf(r) \in Key}

MaxBackground == IF Concurrency > Reserved THEN Concurrency - Reserved ELSE 1

Init ==
  /\ generation = 0
  /\ running = 0
  /\ runningBackground = 0
  /\ disposed = FALSE
  /\ timers = {}
  /\ latestGeneration = [k \in Key |-> 0]
  /\ queue = {}
  /\ arrivals = 0
  /\ scanning = {}
  /\ settled = {}
  /\ control = "loop"
  /\ idle = TRUE
  /\ delivered = [k \in Key |-> 0]
  /\ ended = {}

-----------------------------------------------------------------------------

(* The next macrotask may start: nothing runs and no microtask is queued. *)
AtEventLoop == control = "loop" /\ settled = {}

NotifyIdle_NoRunning == idle' = (queue' = {} /\ timers' = {})

NotifyIdle == idle' = (running' = 0 /\ queue' = {} /\ timers' = {})

Superseded(request) == latestGeneration[KeyOf(request)] # request.id

IsCancelled_OnlyDisposed(request) == disposed

IsCancelled(request) == disposed \/ Superseded(request)

IsBackground(request) == request.priority = "background"

IsEligible_OneBudget(request) == running < MaxBackground

IsEligible(request) ==
  IF IsBackground(request) THEN runningBackground < MaxBackground
                           ELSE running < Concurrency

(* a is taken before b: lower rank, then earlier in the array. *)
Before(a, b) ==
  LET rankA == PriorityRank[a.request.priority]
      rankB == PriorityRank[b.request.priority]
  IN  rankA < rankB \/ (rankA = rankB /\ a.arrival < b.arrival)

(* The entry takeEligible splices out, as a set of at most one entry. *)
TakeEligible ==
  {e \in queue : /\ IsEligible(e.request)
                 /\ \A other \in queue :
                      other # e /\ IsEligible(other.request) => Before(e, other)}

CanDrain_OffByOne == ~disposed /\ running <= Concurrency

CanDrain == ~disposed /\ running < Concurrency

-----------------------------------------------------------------------------

Rearmed_NoClear(request) == timers \union {request}

(* The timers once the request's timer replaced the one of its key. *)
Rearmed(request) == {t \in timers : KeyOf(t) # KeyOf(request)} \union {request}

(* enqueue: a new generation for the key replaces its armed timer. *)
Enqueue(key, priority) ==
  LET request == [id |-> generation + 1, projectDirectory |-> key[1],
                  files |-> key[2], priority |-> priority]
  IN  /\ AtEventLoop
      /\ generation < MaxGeneration
      /\ ~disposed
      /\ generation' = generation + 1
      /\ latestGeneration' = [latestGeneration EXCEPT ![key] = generation + 1]
      /\ timers' = Rearmed(request)
      /\ UNCHANGED <<slotVars, disposed, queue, arrivals, scanning, settled,
                     control, idle, outputVars>>

(* The timer callback: push and drain, or only report when superseded. *)
TimerFire(request) ==
  /\ AtEventLoop
  /\ timers' = timers \ {request}
  /\ IF Superseded(request)
     THEN /\ UNCHANGED <<queue, arrivals, slotVars, control>>
          /\ NotifyIdle
     ELSE /\ arrivals' = arrivals + 1
          /\ queue' = queue \union {[request |-> request, arrival |-> arrivals']}
          /\ control' = "drain"
          /\ UNCHANGED <<slotVars, idle>>
  /\ UNCHANGED <<generation, disposed, latestGeneration, scanning, settled,
                 outputVars>>

(* A drain iteration that starts the scan of the entry it took. *)
Start(entry) ==
  LET request == entry.request
  IN  /\ control = "drain"
      /\ CanDrain
      /\ ~Superseded(request)
      /\ queue' = queue \ {entry}
      /\ running' = running + 1
      /\ runningBackground' =
           runningBackground + (IF IsBackground(request) THEN 1 ELSE 0)
      /\ scanning' = scanning \union {request}
      /\ UNCHANGED <<generation, disposed, timers, latestGeneration, arrivals,
                     settled, control, idle, outputVars>>

(* A drain iteration that drops the superseded entry it took. *)
Drop(entry) ==
  /\ control = "drain"
  /\ CanDrain
  /\ Superseded(entry.request)
  /\ queue' = queue \ {entry}
  /\ UNCHANGED <<generation, slotVars, disposed, timers, latestGeneration,
                 arrivals, scanning, settled, control, idle, outputVars>>

(* The drain loop ends and reports; finally's own report repeats it. *)
Stop ==
  /\ control = "drain"
  /\ ~CanDrain \/ TakeEligible = {}
  /\ control' = "loop"
  /\ UNCHANGED <<generation, slotVars, disposed, timers, latestGeneration,
                 queue, arrivals, scanning, settled, outputVars>>
  /\ NotifyIdle

(* The performScan promise settles and its then / catch callback runs: an  *)
(* outcome is passed on unless the token is cancelled by now; null and a   *)
(* rejection pass nothing on.                                              *)
Settle(request, hasOutcome) ==
  /\ control = "loop"
  /\ scanning' = scanning \ {request}
  /\ settled' = settled \union {request}
  /\ delivered' = IF hasOutcome /\ ~IsCancelled(request)
                  THEN [delivered EXCEPT ![KeyOf(request)] = request.id]
                  ELSE delivered
  /\ ended' = ended \union {request.id}
  /\ UNCHANGED <<generation, slotVars, disposed, timers, latestGeneration,
                 queue, arrivals, control, idle>>

Release_NoDrain(request) ==
  /\ control = "loop"
  /\ settled' = settled \ {request}
  /\ running' = running - 1
  /\ runningBackground' =
       runningBackground - (IF IsBackground(request) THEN 1 ELSE 0)
  /\ UNCHANGED <<generation, disposed, timers, latestGeneration, queue,
                 arrivals, scanning, control, outputVars>>
  /\ NotifyIdle

(* The finally callback: free the slot, then drain. *)
Release(request) ==
  /\ control = "loop"
  /\ settled' = settled \ {request}
  /\ running' = running - 1
  /\ runningBackground' =
       runningBackground - (IF IsBackground(request) THEN 1 ELSE 0)
  /\ control' = "drain"
  /\ UNCHANGED <<generation, disposed, timers, latestGeneration, queue,
                 arrivals, scanning, idle, outputVars>>

(* cancelProject: timers and queue entries go, every key of the project    *)
(* that was ever asked for moves to a generation no request carries.       *)
CancelProject(project) ==
  LET asked == {k \in Key : k[1] = project /\ latestGeneration[k] # 0}
  IN  /\ AtEventLoop
      /\ generation + Cardinality(asked) <= MaxGeneration
      /\ \E bump \in [asked -> generation + 1 .. generation + Cardinality(asked)] :
           /\ \A j, k \in asked : bump[j] = bump[k] => j = k
           /\ latestGeneration' =
                [k \in Key |-> IF k \in asked THEN bump[k] ELSE latestGeneration[k]]
      /\ generation' = generation + Cardinality(asked)
      /\ timers' = {t \in timers : t.projectDirectory # project}
      /\ queue' = {e \in queue : e.request.projectDirectory # project}
      /\ UNCHANGED <<slotVars, disposed, arrivals, scanning, settled, control,
                     outputVars>>
      /\ NotifyIdle

Dispose ==
  /\ AtEventLoop
  /\ disposed' = TRUE
  /\ timers' = {}
  /\ queue' = {}
  /\ UNCHANGED <<generation, slotVars, latestGeneration, arrivals, scanning,
                 settled, control, idle, outputVars>>

Next ==
  \/ \E key \in Key, priority \in Priority : Enqueue(key, priority)
  \/ \E request \in timers : TimerFire(request)
  \/ \E entry \in TakeEligible : Start(entry)
  \/ \E entry \in TakeEligible : Drop(entry)
  \/ Stop
  \/ \E request \in scanning, hasOutcome \in BOOLEAN : Settle(request, hasOutcome)
  \/ \E request \in settled : Release(request)
  \/ \E project \in Project : CancelProject(project)
  \/ Dispose

(* The event loop keeps turning, and every scan subprocess ends: oxlint    *)
(* and the dead-code worker run under timeouts.                            *)
Fairness ==
  /\ WF_vars(\E request \in timers : TimerFire(request))
  /\ WF_vars(\E entry \in TakeEligible : Start(entry) \/ Drop(entry))
  /\ WF_vars(Stop)
  /\ WF_vars(\E request \in scanning, hasOutcome \in BOOLEAN :
               Settle(request, hasOutcome))
  /\ WF_vars(\E request \in settled : Release(request))

Spec == Init /\ [][Next]_vars
FairSpec == Spec /\ Fairness

-----------------------------------------------------------------------------

Entry == [request : Request, arrival : Nat]

(* Every variable has its type; the sets of requests are finite. *)
TypeOK ==
  /\ generation \in Nat
  /\ running \in Nat
  /\ runningBackground \in Nat
  /\ disposed \in BOOLEAN
  /\ timers \in SUBSET Request
  /\ latestGeneration \in [Key -> Nat]
  /\ queue \in SUBSET Entry
  /\ arrivals \in Nat
  /\ scanning \in SUBSET Request /\ IsFiniteSet(scanning)
  /\ settled \in SUBSET Request /\ IsFiniteSet(settled)
  /\ control \in {"loop", "drain"}
  /\ idle \in BOOLEAN
  /\ delivered \in [Key -> Nat]
  /\ ended \in SUBSET Nat

Holding == scanning \union settled

BackgroundOf(requests) == {r \in requests : IsBackground(r)}

(* The two counters equal the scans that hold a slot, so no slot leaks or  *)
(* is freed twice, and neither budget is exceeded (drain, finally).        *)
SlotsConserved ==
  /\ running = Cardinality(Holding)
  /\ runningBackground = Cardinality(BackgroundOf(Holding))
  /\ running <= Concurrency
  /\ runningBackground <= MaxBackground

(* When the scheduler rests, a live request only waits for lack of a slot: *)
(* an interactive or save request waits only if every slot background work *)
(* may not use is taken by other such requests ("an interactive / save     *)
(* scan can always start while a big workspace scan churns").              *)
NoNeedlessWait ==
  AtEventLoop =>
    \A e \in queue :
      IF IsBackground(e.request)
      THEN running = Concurrency \/ runningBackground = MaxBackground
      ELSE running - runningBackground >= Concurrency - MaxBackground

(* "Background scans never occupy the reserved slots": false with as many  *)
(* slots reserved as there are, of which background scans keep one.        *)
ReserveFree == Concurrency - runningBackground >= Reserved

(* The last idle report is the truth while the scheduler rests: idle means *)
(* no scan runs or waits in the queue, busy means something is pending     *)
(* that will report again.                                                 *)
IdleReportHonest ==
  AtEventLoop /\ ~disposed =>
    /\ idle => running = 0 /\ queue = {}
    /\ ~idle => running > 0 \/ queue # {} \/ timers # {}

(* A burst of requests for one key leaves one armed timer, the newest; so  *)
(* the superseded branch of the timer callback is never taken.             *)
BurstCollapses ==
  \A t \in timers : ~Superseded(t) /\ \A u \in timers : KeyOf(u) = KeyOf(t) => u = t

(* Per key, results arrive in the order of the requests and none twice.    *)
DeliveryMovesForward ==
  [][\A k \in Key : delivered'[k] # delivered[k] => delivered'[k] > delivered[k]]_vars

(* A busy report is always followed by an idle one, unless disposed.       *)
BusyEnds == ~idle ~> (idle \/ disposed)

-----------------------------------------------------------------------------

Pending == timers \union {e.request : e \in queue} \union scanning

Wanted ==
  [k \in Key |->
     IF ~disposed /\ \E r \in Pending : KeyOf(r) = k /\ r.id = latestGeneration[k]
     THEN latestGeneration[k] ELSE 0]

(* The scheduler keeps the promise of LatestWins.                          *)
Promise == INSTANCE LatestWins WITH
             issued <- generation, wanted <- Wanted, closed <- disposed

KeepsPromise == Promise!Spec
=============================================================================
