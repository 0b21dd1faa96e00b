------------------------ MODULE DeadCodeWorkersProofs ------------------------
(***************************************************************************)
(* Theorems about the dead-code worker slots for every number of calls and *)
(* every cap.                                                              *)
(***************************************************************************)
EXTENDS DeadCodeWorkers, FiniteSetTheorems, TLAPS

(* Before the first acquire nobody owns or waits for a slot.               *)
NothingBeforeInit ==
  availableSlots < 0 => \A c \in Caller : phase[c] \in {"idle", "rejected"}

(* A child that was not killed belongs to a running task.                  *)
ChildrenHeld == \A c \in alive \ killed : phase[c] = "running"

(* Conservation is not inductive alone: a waiter that is no longer waiting *)
(* would swallow the slot handed to it, and the first acquire must find    *)
(* nobody holding a slot.                                                  *)
IInv ==
  /\ TypeOK
  /\ SlotsBalance
  /\ WaitersAreLive
  /\ NoFreeSlotWhileWaiting
  /\ NothingBeforeInit
  /\ ChildrenHeld
  /\ AbortedInQueueNeverRuns

LEMMA HoldersFinite == IsFiniteSet(Holders) /\ Cardinality(Holders) \in Nat
<1>1. Holders \subseteq Caller BY DEF Holders
<1>2. IsFiniteSet(Holders) BY <1>1, CallerAssumption, FS_Subset
<1> QED BY <1>2, FS_CardinalityType

LEMMA InitIInv == Init => IInv
BY DEF Init, IInv, TypeOK, Phase, SlotsBalance, WaitersAreLive,
       NoFreeSlotWhileWaiting, NothingBeforeInit, ChildrenHeld,
       AbortedInQueueNeverRuns

(* What the slots and waiters see of a step that moves no slot.            *)
LEMMA SlotsUntouched ==
  ASSUME SlotsBalance, Holders' = Holders, UNCHANGED availableSlots
  PROVE  SlotsBalance'
BY DEF SlotsBalance

LEMMA CallAbortedIInv ==
  ASSUME IInv, NEW c \in Caller, CallAborted(c) PROVE IInv'
<1> USE DEF IInv
<1>1. TypeOK' BY DEF CallAborted, TypeOK, Phase, Rejected, queueVars, childVars
<1>2. Holders' = Holders BY DEF CallAborted, Holders, Rejected, TypeOK
<1>3. SlotsBalance' BY <1>2, SlotsUntouched DEF CallAborted
<1>4. WaitersAreLive' /\ NoFreeSlotWhileWaiting' /\ NothingBeforeInit' /\ ChildrenHeld'
  BY DEF CallAborted, TypeOK, Rejected, WaitersAreLive, NoFreeSlotWhileWaiting,
         NothingBeforeInit, ChildrenHeld, queueVars, childVars
<1>5. AbortedInQueueNeverRuns'
  BY DEF CallAborted, TypeOK, Rejected, AbortedInQueueNeverRuns, childVars
<1> QED BY <1>1, <1>3, <1>4, <1>5

(* The pool before a call that initialises it when it is the first.        *)
LEMMA PoolAfterInit ==
  ASSUME IInv
  PROVE  AfterInit \in Nat /\ AfterInit + Cardinality(Holders) = Cap
<1> USE DEF IInv
<1>1. CASE availableSlots < 0
  <2>1. Holders = {} BY <1>1 DEF NothingBeforeInit, Holders
  <2> QED BY <1>1, <2>1, FS_EmptySet, CapAssumption DEF AfterInit
<1>2. CASE ~(availableSlots < 0)
  BY <1>2 DEF AfterInit, SlotsBalance, TypeOK
<1> QED BY <1>1, <1>2

LEMMA CallRunsIInv ==
  ASSUME IInv, NEW c \in Caller, CallRuns(c) PROVE IInv'
<1> USE DEF IInv
<1>1. /\ phase[c] = "idle" /\ phase' \in [Caller -> Phase] /\ c \notin Holders
      /\ phase'[c] \in {"running", "settled"}
      /\ \A d \in Caller : d # c => phase'[d] = phase[d]
  BY DEF CallRuns, StartTask, TypeOK, Settled, Phase, Holders
<1>2. /\ AfterInit \in Nat /\ AfterInit > 0 /\ availableSlots' = AfterInit - 1
      /\ AfterInit + Cardinality(Holders) = Cap
  BY PoolAfterInit DEF CallRuns
<1>3. TypeOK'
  <2>1. alive' = alive \union {c} /\ killed' \in SUBSET Caller
    BY DEF CallRuns, StartTask, TypeOK
  <2>2. alive' \in SUBSET {d \in Caller : phase'[d] \in {"running", "settled", "done"}}
    BY <1>1, <2>1 DEF TypeOK
  <2> QED BY <1>1, <1>2, <2>1, <2>2 DEF CallRuns, TypeOK, queueVars
<1>4. SlotsBalance'
  <2>1. Holders' = Holders \union {c} BY <1>1 DEF Holders
  <2>2. Cardinality(Holders') = Cardinality(Holders) + 1
    BY <1>1, <2>1, HoldersFinite, FS_AddElement
  <2> QED BY <1>2, <2>2, HoldersFinite, CapAssumption DEF SlotsBalance
<1>5. WaitersAreLive' BY <1>1 DEF CallRuns, WaitersAreLive, queueVars
<1>6. waiters = {}
  <2>1. CASE availableSlots < 0 BY <2>1 DEF NothingBeforeInit, WaitersAreLive
  <2>2. CASE ~(availableSlots < 0)
    BY <1>2, <2>2 DEF AfterInit, NoFreeSlotWhileWaiting
  <2> QED BY <2>1, <2>2
<1>7. NoFreeSlotWhileWaiting' BY <1>6 DEF CallRuns, NoFreeSlotWhileWaiting, queueVars
<1>8. NothingBeforeInit' BY <1>2 DEF NothingBeforeInit
<1>9. ChildrenHeld' BY <1>1 DEF CallRuns, StartTask, ChildrenHeld, TypeOK
<1>10. AbortedInQueueNeverRuns'
  BY <1>1 DEF CallRuns, StartTask, TypeOK, AbortedInQueueNeverRuns
<1> QED BY <1>3, <1>4, <1>5, <1>7, <1>8, <1>9, <1>10

LEMMA CallWaitsIInv ==
  ASSUME IInv, NEW c \in Caller, CallWaits(c) PROVE IInv'
<1> USE DEF IInv
<1>1. /\ phase[c] = "idle" /\ phase' = [phase EXCEPT ![c] = "waiting"]
      /\ availableSlots' = 0 /\ waiters' = waiters \union {c}
      /\ UNCHANGED <<alive, killed>>
  BY DEF CallWaits, childVars
<1>2. 0 + Cardinality(Holders) = Cap BY PoolAfterInit DEF CallWaits
<1>3. Holders' = Holders BY <1>1 DEF Holders, TypeOK
<1>4. TypeOK'
  <2>1. tickets' \in Nat /\ ticket' \in [Caller -> Nat] BY DEF CallWaits, TypeOK
  <2> QED BY <1>1, <2>1 DEF CallWaits, TypeOK, Phase
<1>5. SlotsBalance' BY <1>1, <1>2, <1>3 DEF SlotsBalance
<1>6. WaitersAreLive' BY <1>1 DEF WaitersAreLive, TypeOK
<1>7. NoFreeSlotWhileWaiting' /\ NothingBeforeInit'
  BY <1>1 DEF NoFreeSlotWhileWaiting, NothingBeforeInit
<1>8. ChildrenHeld' BY <1>1 DEF ChildrenHeld, TypeOK
<1>9. AbortedInQueueNeverRuns'
  BY <1>1 DEF CallWaits, TypeOK, AbortedInQueueNeverRuns
<1> QED BY <1>4, <1>5, <1>6, <1>7, <1>8, <1>9

LEMMA ResumeIInv ==
  ASSUME IInv, NEW c \in Caller, Resume(c) PROVE IInv'
<1> USE DEF IInv
<1>1. /\ phase[c] = "handed" /\ phase' \in [Caller -> Phase]
      /\ phase'[c] \in {"running", "settled"}
      /\ \A d \in Caller : d # c => phase'[d] = phase[d]
      /\ alive' = alive \union {c}
      /\ UNCHANGED <<availableSlots, waiters>>
  BY DEF Resume, StartTask, TypeOK, Settled, Phase, queueVars
<1>2. TypeOK'
  <2>1. alive' \in SUBSET {d \in Caller : phase'[d] \in {"running", "settled", "done"}}
    BY <1>1 DEF TypeOK
  <2>2. killed' \in SUBSET Caller BY DEF Resume, StartTask, TypeOK
  <2> QED BY <1>1, <2>1, <2>2 DEF Resume, TypeOK, queueVars
<1>3. Holders' = Holders BY <1>1 DEF Holders
<1>4. SlotsBalance' BY <1>1, <1>3, SlotsUntouched
<1>5. WaitersAreLive' /\ NoFreeSlotWhileWaiting' /\ NothingBeforeInit'
  BY <1>1 DEF WaitersAreLive, NoFreeSlotWhileWaiting, NothingBeforeInit
<1>6. ChildrenHeld' BY <1>1 DEF Resume, StartTask, ChildrenHeld, TypeOK
<1>7. AbortedInQueueNeverRuns'
  BY <1>1 DEF Resume, TypeOK, AbortedInQueueNeverRuns
<1> QED BY <1>2, <1>4, <1>5, <1>6, <1>7

LEMMA AbortIInv ==
  ASSUME IInv, NEW c \in Caller, Abort(c) PROVE IInv'
<1> USE DEF IInv
<1>1. CASE phase[c] = "waiting"
  <2>1. /\ waiters' = waiters \ {c} /\ phase' = [phase EXCEPT ![c] = "rejected"]
        /\ abortedInQueue' = abortedInQueue \union {c}
        /\ aborted' = aborted \union {c}
        /\ UNCHANGED <<availableSlots, ticket, tickets, alive, killed>>
    BY <1>1 DEF Abort, Dequeued, Rejected
  <2>2. c \notin alive BY <1>1 DEF TypeOK
  <2>3. TypeOK' BY <2>1, <2>2 DEF TypeOK, Phase
  <2>4. Holders' = Holders BY <1>1, <2>1 DEF Holders, TypeOK
  <2>5. SlotsBalance' BY <2>1, <2>4, SlotsUntouched
  <2>6. /\ WaitersAreLive' /\ NoFreeSlotWhileWaiting' /\ NothingBeforeInit'
        /\ ChildrenHeld' /\ AbortedInQueueNeverRuns'
    BY <1>1, <2>1, <2>2 DEF TypeOK, WaitersAreLive, NoFreeSlotWhileWaiting,
       NothingBeforeInit, ChildrenHeld, AbortedInQueueNeverRuns
  <2> QED BY <2>3, <2>5, <2>6
<1>2. CASE phase[c] = "running"
  <2>1. /\ phase' = [phase EXCEPT ![c] = "settled"]
        /\ killed' = killed \union {c} /\ aborted' = aborted \union {c}
        /\ UNCHANGED <<availableSlots, waiters, ticket, tickets, alive, abortedInQueue>>
    BY <1>2 DEF Abort, Settled
  <2>2. TypeOK' BY <1>2, <2>1 DEF TypeOK, Phase
  <2>3. Holders' = Holders BY <1>2, <2>1 DEF Holders, TypeOK
  <2>4. SlotsBalance' BY <2>1, <2>3, SlotsUntouched
  <2>5. /\ WaitersAreLive' /\ NoFreeSlotWhileWaiting' /\ NothingBeforeInit'
        /\ ChildrenHeld' /\ AbortedInQueueNeverRuns'
    BY <1>2, <2>1 DEF TypeOK, WaitersAreLive, NoFreeSlotWhileWaiting,
       NothingBeforeInit, ChildrenHeld, AbortedInQueueNeverRuns
  <2> QED BY <2>2, <2>4, <2>5
<1>3. CASE phase[c] \notin {"waiting", "running"}
  <2>1. /\ aborted' = aborted \union {c}
        /\ UNCHANGED <<availableSlots, waiters, ticket, tickets, phase, alive,
                       killed, abortedInQueue>>
    BY <1>3 DEF Abort
  <2>2. TypeOK' BY <2>1 DEF TypeOK
  <2>3. Holders' = Holders BY <2>1 DEF Holders
  <2>4. SlotsBalance' BY <2>1, <2>3, SlotsUntouched
  <2>5. /\ WaitersAreLive' /\ NoFreeSlotWhileWaiting' /\ NothingBeforeInit'
        /\ ChildrenHeld' /\ AbortedInQueueNeverRuns'
    BY <2>1 DEF WaitersAreLive, NoFreeSlotWhileWaiting, NothingBeforeInit,
       ChildrenHeld, AbortedInQueueNeverRuns
  <2> QED BY <2>2, <2>4, <2>5
<1> QED BY <1>1, <1>2, <1>3

LEMMA TimeoutIInv ==
  ASSUME IInv, NEW c \in Caller, Timeout(c) PROVE IInv'
<1> USE DEF IInv
<1>1. /\ phase[c] = "running" /\ phase' = [phase EXCEPT ![c] = "settled"]
      /\ killed' = killed \union {c}
      /\ UNCHANGED <<availableSlots, waiters, ticket, tickets, aborted, alive,
                     abortedInQueue>>
  BY DEF Timeout, Settled, queueVars
<1>2. TypeOK' BY <1>1 DEF TypeOK, Phase
<1>3. Holders' = Holders BY <1>1 DEF Holders, TypeOK
<1>4. SlotsBalance' BY <1>1, <1>3, SlotsUntouched
<1>5. /\ WaitersAreLive' /\ NoFreeSlotWhileWaiting' /\ NothingBeforeInit'
      /\ ChildrenHeld' /\ AbortedInQueueNeverRuns'
  BY <1>1 DEF TypeOK, WaitersAreLive, NoFreeSlotWhileWaiting,
     NothingBeforeInit, ChildrenHeld, AbortedInQueueNeverRuns
<1> QED BY <1>2, <1>4, <1>5

LEMMA ChildEndsIInv ==
  ASSUME IInv, NEW c \in Caller, ChildEnds(c) PROVE IInv'
<1> USE DEF IInv
<1>1. /\ phase' \in [Caller -> Phase]
      /\ phase'[c] = IF phase[c] = "running" THEN "settled" ELSE phase[c]
      /\ \A d \in Caller : d # c => phase'[d] = phase[d]
      /\ alive' = alive \ {c}
      /\ UNCHANGED <<availableSlots, waiters, ticket, tickets, aborted, killed,
                     abortedInQueue>>
  BY DEF ChildEnds, Settled, TypeOK, Phase, queueVars
<1>2. TypeOK' BY <1>1 DEF TypeOK
<1>3. Holders' = Holders BY <1>1 DEF Holders
<1>4. SlotsBalance' BY <1>1, <1>3, SlotsUntouched
<1>5. WaitersAreLive' BY <1>1 DEF WaitersAreLive
<1>6. NoFreeSlotWhileWaiting' BY <1>1 DEF NoFreeSlotWhileWaiting
<1>7. NothingBeforeInit' BY <1>1 DEF NothingBeforeInit
<1>8. ChildrenHeld' BY <1>1 DEF ChildrenHeld, TypeOK
<1>9. AbortedInQueueNeverRuns' BY <1>1 DEF AbortedInQueueNeverRuns, TypeOK
<1> QED BY <1>2, <1>4, <1>5, <1>6, <1>7, <1>8, <1>9

LEMMA ReleaseToPoolIInv ==
  ASSUME IInv, NEW c \in Caller, ReleaseToPool(c) PROVE IInv'
<1> USE DEF IInv
<1>1. /\ phase[c] = "settled" /\ phase' = [phase EXCEPT ![c] = "done"]
      /\ waiters = {} /\ availableSlots' = availableSlots + 1
      /\ UNCHANGED <<waiters, ticket, tickets, aborted, alive, killed, abortedInQueue>>
  BY DEF ReleaseToPool, queueVars, childVars
<1>2. availableSlots \in Nat BY <1>1 DEF TypeOK, NothingBeforeInit
<1>3. TypeOK' BY <1>1, <1>2 DEF TypeOK, Phase
<1>4. SlotsBalance'
  <2>1. Holders' = Holders \ {c} /\ c \in Holders BY <1>1 DEF Holders, TypeOK
  <2>2. Cardinality(Holders') = Cardinality(Holders) - 1
    BY <2>1, HoldersFinite, FS_RemoveElement
  <2> QED BY <1>1, <1>2, <2>2, HoldersFinite, CapAssumption DEF SlotsBalance
<1>5. /\ WaitersAreLive' /\ NoFreeSlotWhileWaiting' /\ NothingBeforeInit'
      /\ ChildrenHeld' /\ AbortedInQueueNeverRuns'
  BY <1>1, <1>2 DEF TypeOK, WaitersAreLive, NoFreeSlotWhileWaiting,
     NothingBeforeInit, ChildrenHeld, AbortedInQueueNeverRuns
<1> QED BY <1>3, <1>4, <1>5

LEMMA ReleaseToWaiterIInv ==
  ASSUME IInv, NEW c \in Caller, NEW w \in waiters, ReleaseToWaiter(c, w)
  PROVE  IInv'
<1> USE DEF IInv
<1>1. w \in Caller /\ phase[w] = "waiting" /\ phase[c] = "settled" /\ w # c
  BY DEF WaitersAreLive, ReleaseToWaiter
<1>2. /\ phase' \in [Caller -> Phase] /\ phase'[c] = "done" /\ phase'[w] = "handed"
      /\ \A d \in Caller : d # c /\ d # w => phase'[d] = phase[d]
      /\ waiters' = waiters \ {w}
      /\ UNCHANGED <<availableSlots, ticket, tickets, aborted, alive, killed,
                     abortedInQueue>>
  BY <1>1 DEF ReleaseToWaiter, HandOver, TypeOK, Phase, childVars
<1>3. w \notin alive BY <1>1 DEF TypeOK
<1>4. TypeOK' BY <1>1, <1>2, <1>3 DEF TypeOK
<1>5. SlotsBalance'
  <2>1. Holders' = (Holders \ {c}) \union {w} /\ c \in Holders /\ w \notin Holders \ {c}
    BY <1>1, <1>2 DEF Holders
  <2>2. IsFiniteSet(Holders \ {c}) /\ Cardinality(Holders \ {c}) = Cardinality(Holders) - 1
    BY <2>1, HoldersFinite, FS_RemoveElement
  <2>3. Cardinality(Holders') = Cardinality(Holders \ {c}) + 1
    BY <2>1, <2>2, FS_AddElement
  <2>4. Cardinality(Holders') = Cardinality(Holders)
    BY <2>2, <2>3, HoldersFinite
  <2> QED BY <1>2, <2>4 DEF SlotsBalance
<1>6. WaitersAreLive' BY <1>1, <1>2 DEF WaitersAreLive
<1>7. NoFreeSlotWhileWaiting' BY <1>2 DEF NoFreeSlotWhileWaiting
<1>8. NothingBeforeInit' BY <1>1, <1>2 DEF NothingBeforeInit
<1>9. ChildrenHeld' BY <1>1, <1>2, <1>3 DEF ChildrenHeld, TypeOK
<1>10. AbortedInQueueNeverRuns' BY <1>1, <1>2 DEF AbortedInQueueNeverRuns, TypeOK
<1> QED BY <1>4, <1>5, <1>6, <1>7, <1>8, <1>9, <1>10

LEMMA NextIInv == ASSUME IInv, [Next]_vars PROVE IInv'
<1>1. CASE UNCHANGED vars
  <2>1. Holders' = Holders BY <1>1 DEF vars, Holders
  <2> QED BY <1>1, <2>1 DEF vars, queueVars, childVars, IInv, TypeOK, SlotsBalance,
      WaitersAreLive, NoFreeSlotWhileWaiting, NothingBeforeInit, ChildrenHeld,
      AbortedInQueueNeverRuns
<1>2. ASSUME NEW c \in Caller,
             \/ CallAborted(c)
             \/ CallRuns(c)
             \/ CallWaits(c)
             \/ Resume(c)
             \/ Abort(c)
             \/ Timeout(c)
             \/ ChildEnds(c)
             \/ ReleaseToPool(c)
             \/ \E w \in waiters : ReleaseToWaiter(c, w)
      PROVE  IInv'
  BY <1>2, CallAbortedIInv, CallRunsIInv, CallWaitsIInv, ResumeIInv, AbortIInv,
     TimeoutIInv, ChildEndsIInv, ReleaseToPoolIInv, ReleaseToWaiterIInv
<1> QED BY <1>1, <1>2 DEF Next

(* The slots add up, and nobody is woken who no longer waits, in every     *)
(* reachable state.                                                        *)
THEOREM IInvariant == Spec => []IInv
<1>1. IInv /\ [Next]_vars => IInv' BY NextIInv
<1> QED BY InitIInv, <1>1, PTL DEF Spec

(* Every variable keeps its type.                                          *)
THEOREM TypeCorrect == Spec => []TypeOK
<1>1. IInv => TypeOK BY DEF IInv
<1> QED BY IInvariant, <1>1, PTL

(* releaseSlot "keeps the count balanced either way": free slots and slot  *)
(* owners add up to the cap through hand-overs, aborts and failures.       *)
THEOREM SlotConservation == Spec => []SlotsBalance
<1>1. IInv => SlotsBalance BY DEF IInv
<1> QED BY IInvariant, <1>1, PTL

(* The waiters array holds exactly the waiting calls: a release never      *)
(* hands a slot to a dead request.                                         *)
THEOREM WaitersLive == Spec => []WaitersAreLive
<1>1. IInv => WaitersAreLive BY DEF IInv
<1> QED BY IInvariant, <1>1, PTL

(* A call aborted in the queue never runs its task.                        *)
THEOREM AbortedNeverRuns == Spec => []AbortedInQueueNeverRuns
<1>1. IInv => AbortedInQueueNeverRuns BY DEF IInv
<1> QED BY IInvariant, <1>1, PTL

(* At most cap children run that were not killed.                          *)
THEOREM LiveChildren == Spec => []LiveChildrenBounded
<1>1. IInv => LiveChildrenBounded
  <2> SUFFICES ASSUME IInv PROVE LiveChildrenBounded OBVIOUS
  <2>1. alive \ killed \subseteq Holders
    BY DEF IInv, ChildrenHeld, Holders, TypeOK
  <2>2. Cardinality(alive \ killed) <= Cardinality(Holders) /\ Cardinality(alive \ killed) \in Nat
    BY <2>1, HoldersFinite, FS_Subset, FS_CardinalityType
  <2>3. Cardinality(Holders) <= Cap
    <3>1. CASE availableSlots >= 0
      BY <3>1, HoldersFinite, CapAssumption DEF IInv, SlotsBalance, TypeOK
    <3>2. CASE ~(availableSlots >= 0)
      <4>1. Holders = {} BY <3>2 DEF IInv, TypeOK, NothingBeforeInit, Holders
      <4> QED BY <4>1, FS_EmptySet, CapAssumption
    <3> QED BY <3>1, <3>2
  <2> QED BY <2>2, <2>3, HoldersFinite, CapAssumption DEF LiveChildrenBounded
<1> QED BY IInvariant, <1>1, PTL
=============================================================================
