--------------------------- MODULE DeadCodeWorkers ---------------------------
(***************************************************************************)
(* The dead-code workers of one process: the counting semaphore            *)
(* withDeadCodeWorkerSlot (core/src/dead-code/dead-code-worker-slots.ts)   *)
(* around the task checkDeadCode gives it, which spawns a child process    *)
(* and settles on its end, a timeout or an abort                           *)
(* (core/src/check-dead-code.ts).                                          *)
(*                                                                         *)
(* A call is a member of Caller and is made at most once.  The waiters     *)
(* array is a set ordered by the tickets its members drew when pushed.     *)
(***************************************************************************)
EXTENDS Integers, FiniteSets

CONSTANTS Caller,  \* the calls of withDeadCodeWorkerSlot
          Cap      \* resolveDeadCodeConcurrency()

ASSUME CallerAssumption == IsFiniteSet(Caller)
ASSUME CapAssumption == Cap \in Nat \ {0}

VARIABLES availableSlots,  \* -1 before the first acquire
          waiters, ticket, tickets,
          phase,           \* caller -> where its async function stands
          aborted,         \* callers whose abortSignal fired
          alive,           \* callers whose child process exists
          killed,          \* callers whose child was sent SIGKILL
          abortedInQueue   \* callers whose signal fired while they waited

queueVars == <<waiters, ticket, tickets>>
childVars == <<alive, killed>>
vars == <<availableSlots, queueVars, phase, aborted, childVars, abortedInQueue>>

(* "handed": the waiter's promise is resolved, its await still to resume.  *)
(* "settled": the task's promise is settled, the finally still to run.     *)
Phase == {"idle", "waiting", "handed", "running", "settled", "done", "rejected"}

Init ==
  /\ availableSlots = -1
  /\ waiters = {}
  /\ ticket = [c \in Caller |-> 0]
  /\ tickets = 0
  /\ phase = [c \in Caller |-> "idle"]
  /\ aborted = {}
  /\ alive = {}
  /\ killed = {}
  /\ abortedInQueue = {}

Settled_NoFinally(c) == [phase EXCEPT ![c] = "rejected"]

Settled(c) == [phase EXCEPT ![c] = "settled"]

Rejected(c) == [phase EXCEPT ![c] = "rejected"]

(* The task starts: the child is spawned; a signal that fired since the    *)
(* wait ended kills it at once and settles the task.                       *)
StartTask(c) ==
  /\ alive' = alive \union {c}
  /\ IF c \in aborted
     THEN phase' = Settled(c) /\ killed' = killed \union {c}
     ELSE phase' = [phase EXCEPT ![c] = "running"] /\ UNCHANGED killed

AfterInit_EveryCall == Cap

(* The first acquirer reads the budget. *)
AfterInit == IF availableSlots < 0 THEN Cap ELSE availableSlots

(* The call with a signal that already fired throws.                       *)
CallAborted(c) ==
  /\ phase[c] = "idle"
  /\ c \in aborted
  /\ phase' = Rejected(c)
  /\ UNCHANGED <<availableSlots, queueVars, aborted, childVars, abortedInQueue>>

(* The call takes a free slot and runs its task in the same turn.          *)
CallRuns(c) ==
  /\ phase[c] = "idle"
  /\ c \notin aborted
  /\ AfterInit > 0
  /\ availableSlots' = AfterInit - 1
  /\ StartTask(c)
  /\ UNCHANGED <<queueVars, aborted, abortedInQueue>>

(* No slot is free: the call queues a waiter.                              *)
CallWaits(c) ==
  /\ phase[c] = "idle"
  /\ c \notin aborted
  /\ AfterInit = 0
  /\ availableSlots' = AfterInit
  /\ waiters' = waiters \union {c}
  /\ tickets' = tickets + 1
  /\ ticket' = [ticket EXCEPT ![c] = tickets']
  /\ phase' = [phase EXCEPT ![c] = "waiting"]
  /\ UNCHANGED <<aborted, childVars, abortedInQueue>>

(* The await of a handed slot resumes.                                     *)
Resume(c) ==
  /\ phase[c] = "handed"
  /\ StartTask(c)
  /\ UNCHANGED <<availableSlots, queueVars, aborted, abortedInQueue>>

(* onAbort's splice of its own waiter. *)
Dequeued(c) == waiters \ {c}

(* The signal fires.  A queued call leaves the queue and rejects; a        *)
(* running one kills its child and settles without waiting for its end.    *)
Abort(c) ==
  /\ c \notin aborted
  /\ aborted' = aborted \union {c}
  /\ CASE phase[c] = "waiting" ->
            /\ waiters' = Dequeued(c)
            /\ phase' = Rejected(c)
            /\ abortedInQueue' = abortedInQueue \union {c}
            /\ UNCHANGED killed
       [] phase[c] = "running" ->
            /\ killed' = killed \union {c}
            /\ phase' = Settled(c)
            /\ UNCHANGED <<waiters, abortedInQueue>>
       [] OTHER -> UNCHANGED <<waiters, phase, abortedInQueue, killed>>
  /\ UNCHANGED <<availableSlots, ticket, tickets, alive>>

(* The worker's timer fires before its child ended.                        *)
Timeout(c) ==
  /\ phase[c] = "running"
  /\ killed' = killed \union {c}
  /\ phase' = Settled(c)
  /\ UNCHANGED <<availableSlots, queueVars, aborted, alive, abortedInQueue>>

(* The child ends.  By itself it settles its task, with a result or an     *)
(* error; once killed nobody listens any more.                             *)
ChildEnds(c) ==
  /\ c \in alive
  /\ alive' = alive \ {c}
  /\ phase' = IF phase[c] = "running" THEN Settled(c) ELSE phase
  /\ UNCHANGED <<availableSlots, queueVars, aborted, killed, abortedInQueue>>

IsNext(w) == w \in waiters /\ \A v \in waiters : ticket[w] <= ticket[v]

(* finally, releaseSlot with nobody waiting: the slot returns to the pool. *)
ReleaseToPool(c) ==
  /\ phase[c] = "settled"
  /\ waiters = {}
  /\ availableSlots' = availableSlots + 1
  /\ phase' = [phase EXCEPT ![c] = "done"]
  /\ UNCHANGED <<queueVars, aborted, childVars, abortedInQueue>>

HandOver_AndCount(w) == availableSlots + 1

(* The pool once the slot went straight to a waiter: no increment. *)
HandOver(w) == availableSlots

(* finally, releaseSlot with waiters: the oldest gets the slot.  Resolving *)
(* the promise of a call that already rejected changes nothing.            *)
ReleaseToWaiter(c, w) ==
  /\ phase[c] = "settled"
  /\ IsNext(w)
  /\ waiters' = waiters \ {w}
  /\ availableSlots' = HandOver(w)
  /\ phase' = [phase EXCEPT ![c] = "done",
                            ![w] = IF phase[w] = "waiting" THEN "handed" ELSE phase[w]]
  /\ UNCHANGED <<ticket, tickets, aborted, childVars, abortedInQueue>>

Calls(c) == CallAborted(c) \/ CallRuns(c) \/ CallWaits(c)

Releases(c) == ReleaseToPool(c) \/ \E w \in waiters : ReleaseToWaiter(c, w)

Next == \E c \in Caller : \/ CallAborted(c)
                          \/ CallRuns(c)
                          \/ CallWaits(c)
                          \/ Resume(c)
                          \/ Abort(c)
                          \/ Timeout(c)
                          \/ ChildEnds(c)
                          \/ ReleaseToPool(c)
                          \/ \E w \in waiters : ReleaseToWaiter(c, w)

(* Promise callbacks run and the worker's timer fires.  A child need not   *)
(* end by itself.                                                          *)
Fairness == \A c \in Caller : /\ WF_vars(Resume(c))
                              /\ WF_vars(Timeout(c))
                              /\ WF_vars(Releases(c))

Spec == Init /\ [][Next]_vars
FairSpec == Spec /\ Fairness

-----------------------------------------------------------------------------

(* Every variable has its type, and only calls that reached their task     *)
(* have a child.                                                           *)
TypeOK ==
  /\ availableSlots \in Nat \union {-1}
  /\ waiters \in SUBSET Caller
  /\ ticket \in [Caller -> Nat]
  /\ tickets \in Nat
  /\ phase \in [Caller -> Phase]
  /\ aborted \in SUBSET Caller
  /\ alive \in SUBSET {c \in Caller : phase[c] \in {"running", "settled", "done"}}
  /\ killed \in SUBSET Caller
  /\ abortedInQueue \in SUBSET aborted

(* The calls that own a slot. *)
Holders == {c \in Caller : phase[c] \in {"handed", "running", "settled"}}

(* Free slots and slot owners always add up to the cap, over every mix of  *)
(* hand-over, abort, timeout and failure.                                  *)
SlotsBalance == availableSlots >= 0 => availableSlots + Cardinality(Holders) = Cap

(* "a later release never hands a slot to a dead request", and no waiting  *)
(* call is forgotten: the array holds exactly the calls still waiting.     *)
WaitersAreLive == waiters = {c \in Caller : phase[c] = "waiting"}

(* Nobody waits while a slot is free, so nobody can overtake the queue.    *)
NoFreeSlotWhileWaiting == waiters # {} => availableSlots = 0

(* Unless it was killed, a child runs under a slot: at most cap of them.   *)
LiveChildrenBounded == Cardinality(alive \ killed) <= Cap

(* A call aborted while queued never runs its task (no child is spawned    *)
(* only to be torn down).                                                  *)
AbortedInQueueNeverRuns ==
  \A c \in abortedInQueue : phase[c] = "rejected" /\ c \notin alive

(* A queued call gets its slot or rejects: every slot owner lets go.       *)
EveryWaitEnds == \A c \in Caller : phase[c] = "waiting" ~> phase[c] # "waiting"

(* "bounding how many real deslop dead-code child processes run at once":  *)
(* the header of dead-code-worker-slots.ts.                                *)
ChildrenBounded == Cardinality(alive) <= Cap
=============================================================================
