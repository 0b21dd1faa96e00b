--------------------------- MODULE SchedulerProofs ---------------------------
(***************************************************************************)
(* Theorems about the scan scheduler for every set of keys, every slot     *)
(* budget and every bound on the generations; about the server's status    *)
(* for every number of round trips and restarts; and, last, about the two  *)
(* together with the telemetry.                                            *)
(***************************************************************************)
EXTENDS ServerFeedback, FiniteSetTheorems, WellFoundedInduction, TLAPS

-----------------------------------------------------------------------------
(* Type correctness *)

LEMMA MaxBackgroundType ==
  MaxBackground \in Nat \ {0} /\ MaxBackground <= Concurrency
BY ConcurrencyAssumption, ReservedAssumption DEF MaxBackground

LEMMA KeyOfType == \A r \in Request : KeyOf(r) \in Key
BY DEF Request

(* The request enqueue builds for a key is a request of that key.          *)
LEMMA FreshRequest ==
  ASSUME NEW key \in Key, NEW priority \in Priority, NEW g \in Nat
  PROVE  LET r == [id |-> g + 1, projectDirectory |-> key[1],
                   files |-> key[2], priority |-> priority]
         IN  r \in Request /\ KeyOf(r) = key /\ r.id = g + 1
<1> DEFINE r == [id |-> g + 1, projectDirectory |-> key[1],
                 files |-> key[2], priority |-> priority]
<1>1. key \in Project \X Scope BY KeyAssumption
<1>2. key = <<key[1], key[2]>> /\ key[1] \in Project /\ key[2] \in Scope
  BY <1>1
<1>3. KeyOf(r) = key BY <1>2 DEF KeyOf
<1>4. g + 1 \in Nat \ {0} OBVIOUS
<1> QED BY <1>2, <1>3, <1>4 DEF Request

-----------------------------------------------------------------------------
(* The inductive invariant of the slots.  A slot is freed by the finally of *)
(* a request that still holds one: that needs a request to be in one place  *)
(* at a time, which needs the ids to be distinct, which needs every id to   *)
(* be at most the generation the next id is taken from.                     *)

IdsIssued ==
  /\ \A r \in Pending \union settled : r.id <= generation
  /\ \A k \in Key : latestGeneration[k] <= generation

OneRequestPerId ==
  \A r, s \in Pending \union settled : r.id = s.id => r = s

OnePlace ==
  /\ \A e, d \in queue : e.request = d.request => e = d
  /\ \A e \in queue : e.request \notin timers \union Holding
  /\ timers \intersect Holding = {}
  /\ scanning \intersect settled = {}

IInv == TypeOK /\ IdsIssued /\ OneRequestPerId /\ OnePlace /\ SlotsConserved

LEMMA InitIInv == Init => IInv
<1> SUFFICES ASSUME Init PROVE IInv OBVIOUS
<1>1. TypeOK BY FS_EmptySet DEF Init, TypeOK
<1>2. IdsIssued /\ OneRequestPerId /\ OnePlace
  BY GenerationAssumption DEF Init, IdsIssued, OneRequestPerId, OnePlace, Pending, Holding
<1>3. SlotsConserved
  <2>1. Holding = {} /\ BackgroundOf(Holding) = {} BY DEF Init, Holding, BackgroundOf
  <2> QED BY <2>1, FS_EmptySet, MaxBackgroundType, ConcurrencyAssumption
          DEF Init, SlotsConserved
<1> QED BY <1>1, <1>2, <1>3 DEF IInv

(* A step that leaves the slot holders and the counters alone.             *)
LEMMA SlotsUntouched ==
  ASSUME SlotsConserved, UNCHANGED <<slotVars, scanning, settled>>
  PROVE  SlotsConserved'
<1>1. Holding' = Holding BY DEF Holding
<1>2. BackgroundOf(Holding)' = BackgroundOf(Holding)
  BY <1>1 DEF BackgroundOf, IsBackground
<1> QED BY <1>1, <1>2 DEF SlotsConserved, slotVars

LEMMA EnqueueIInv ==
  ASSUME IInv, NEW key \in Key, NEW priority \in Priority, Enqueue(key, priority)
  PROVE  IInv'
<1> USE DEF IInv
<1> DEFINE request == [id |-> generation + 1, projectDirectory |-> key[1],
                       files |-> key[2], priority |-> priority]
<1>1. request \in Request /\ KeyOf(request) = key /\ request.id = generation + 1
  BY FreshRequest DEF TypeOK
<1>2. timers' = {t \in timers : KeyOf(t) # key} \union {request}
  BY <1>1 DEF Enqueue, Rearmed
<1>3. TypeOK' BY <1>1, <1>2 DEF Enqueue, TypeOK, slotVars, outputVars
<1>4. (Pending \union settled)' \subseteq (Pending \union settled) \union {request}
  BY <1>2 DEF Enqueue, Pending
<1>5. \A r \in Pending \union settled : r.id \in Nat /\ r.id <= generation
  BY DEF TypeOK, IdsIssued, Pending, Request, Entry
<1>6. IdsIssued' BY <1>1, <1>4, <1>5 DEF Enqueue, IdsIssued, TypeOK
<1>7. OneRequestPerId'
  BY <1>1, <1>4, <1>5 DEF Enqueue, OneRequestPerId, TypeOK
<1>8. request \notin Pending \union settled BY <1>1, <1>5 DEF TypeOK
<1>9. OnePlace' BY <1>2, <1>8 DEF Enqueue, OnePlace, Pending, Holding
<1>10. SlotsConserved' BY SlotsUntouched DEF Enqueue
<1> QED BY <1>3, <1>6, <1>7, <1>9, <1>10

LEMMA TimerFireIInv ==
  ASSUME IInv, NEW request \in timers, TimerFire(request)
  PROVE  IInv'
<1> USE DEF IInv
<1>1. (Pending \union settled)' \subseteq Pending \union settled
  BY DEF TimerFire, Pending
<1>2. TypeOK'
  <2>1. CASE Superseded(request)
    BY <2>1 DEF TimerFire, TypeOK, NotifyIdle, slotVars, outputVars
  <2>2. CASE ~Superseded(request)
    BY <2>2 DEF TimerFire, TypeOK, Entry, slotVars, outputVars
  <2> QED BY <2>1, <2>2
<1>3. IdsIssued' BY <1>1 DEF TimerFire, IdsIssued
<1>4. OneRequestPerId' BY <1>1 DEF OneRequestPerId
<1>5. OnePlace' BY DEF TimerFire, OnePlace, Holding
<1>6. SlotsConserved' BY SlotsUntouched DEF TimerFire, slotVars
<1> QED BY <1>2, <1>3, <1>4, <1>5, <1>6

LEMMA StartIInv ==
  ASSUME IInv, NEW entry \in TakeEligible, Start(entry)
  PROVE  IInv'
<1> USE DEF IInv
<1> DEFINE request == entry.request
<1>1. entry \in queue /\ IsEligible(request) BY DEF TakeEligible
<1>2. request \in Request /\ request \notin Holding
  BY <1>1 DEF TypeOK, Entry, OnePlace
<1>3. IsFiniteSet(Holding) /\ IsFiniteSet(BackgroundOf(Holding))
  BY FS_Union, FS_Subset DEF TypeOK, Holding, BackgroundOf
<1>4. Holding' = Holding \union {request} BY DEF Start, Holding
<1>5. (Pending \union settled)' \subseteq Pending \union settled
  BY <1>1 DEF Start, Pending
<1>6. TypeOK'
  BY <1>2, FS_AddElement DEF Start, TypeOK, outputVars
<1>7. IdsIssued' BY <1>5 DEF Start, IdsIssued
<1>8. OneRequestPerId' BY <1>5 DEF OneRequestPerId
<1>9. OnePlace' BY <1>1, <1>2 DEF Start, OnePlace, Holding
<1>10. running' = Cardinality(Holding') /\ running' <= Concurrency
  <2>1. running' = running + 1 /\ running < Concurrency BY DEF Start, CanDrain
  <2>2. Cardinality(Holding') = Cardinality(Holding) + 1
    BY <1>2, <1>3, <1>4, FS_AddElement
  <2> QED BY <2>1, <2>2, ConcurrencyAssumption DEF SlotsConserved, TypeOK
<1>11. /\ runningBackground' = Cardinality(BackgroundOf(Holding)')
       /\ runningBackground' <= MaxBackground
  <2>1. CASE IsBackground(request)
    <3>1. BackgroundOf(Holding)' = BackgroundOf(Holding) \union {request}
      BY <1>4, <2>1 DEF BackgroundOf, IsBackground
    <3>2. request \notin BackgroundOf(Holding) BY <1>2 DEF BackgroundOf
    <3>3. Cardinality(BackgroundOf(Holding)') = Cardinality(BackgroundOf(Holding)) + 1
      BY <1>3, <3>1, <3>2, FS_AddElement
    <3>4. runningBackground' = runningBackground + 1 /\ runningBackground < MaxBackground
      BY <1>1, <2>1 DEF Start, IsEligible
    <3> QED BY <3>3, <3>4, MaxBackgroundType DEF SlotsConserved, TypeOK
  <2>2. CASE ~IsBackground(request)
    <3>1. BackgroundOf(Holding)' = BackgroundOf(Holding)
      BY <1>4, <2>2 DEF BackgroundOf, IsBackground
    <3> QED BY <2>2, <3>1 DEF Start, SlotsConserved, TypeOK
  <2> QED BY <2>1, <2>2
<1>12. SlotsConserved' BY <1>10, <1>11 DEF SlotsConserved, MaxBackground
<1> QED BY <1>6, <1>7, <1>8, <1>9, <1>12

LEMMA DropIInv ==
  ASSUME IInv, NEW entry \in TakeEligible, Drop(entry)
  PROVE  IInv'
<1> USE DEF IInv
<1>1. (Pending \union settled)' \subseteq Pending \union settled
  BY DEF Drop, Pending
<1>2. TypeOK' BY DEF Drop, TypeOK, slotVars, outputVars
<1>3. IdsIssued' BY <1>1 DEF Drop, IdsIssued
<1>4. OneRequestPerId' BY <1>1 DEF OneRequestPerId
<1>5. OnePlace' BY DEF Drop, OnePlace, Holding
<1>6. SlotsConserved' BY SlotsUntouched DEF Drop
<1> QED BY <1>2, <1>3, <1>4, <1>5, <1>6

LEMMA StopIInv == ASSUME IInv, Stop PROVE IInv'
<1> USE DEF IInv
<1>1. TypeOK' BY DEF Stop, TypeOK, NotifyIdle, slotVars, outputVars
<1>2. IdsIssued' /\ OneRequestPerId' /\ OnePlace'
  BY DEF Stop, IdsIssued, OneRequestPerId, OnePlace, Pending, Holding
<1>3. SlotsConserved' BY SlotsUntouched DEF Stop
<1> QED BY <1>1, <1>2, <1>3

LEMMA SettleIInv ==
  ASSUME IInv, NEW request \in scanning, NEW hasOutcome \in BOOLEAN,
         Settle(request, hasOutcome)
  PROVE  IInv'
<1> USE DEF IInv
<1>1. (Pending \union settled)' \subseteq Pending \union settled
  BY DEF Settle, Pending
<1>2. Holding' = Holding BY DEF Settle, Holding
<1>3. TypeOK'
  <2>1. request.id \in Nat /\ KeyOf(request) \in Key BY KeyOfType DEF TypeOK, Request
  <2>2. delivered' \in [Key -> Nat] BY <2>1 DEF Settle, TypeOK
  <2>3. IsFiniteSet(scanning') /\ IsFiniteSet(settled')
    BY FS_AddElement, FS_RemoveElement DEF Settle, TypeOK
  <2> QED BY <2>1, <2>2, <2>3 DEF Settle, TypeOK, slotVars
<1>4. IdsIssued' BY <1>1 DEF Settle, IdsIssued
<1>5. OneRequestPerId' BY <1>1 DEF OneRequestPerId
<1>6. OnePlace' BY <1>2 DEF Settle, OnePlace
<1>7. SlotsConserved'
  BY <1>2 DEF Settle, SlotsConserved, BackgroundOf, IsBackground, slotVars
<1> QED BY <1>3, <1>4, <1>5, <1>6, <1>7

LEMMA ReleaseIInv ==
  ASSUME IInv, NEW request \in settled, Release(request)
  PROVE  IInv'
<1> USE DEF IInv
<1>1. request \in Holding /\ request \notin scanning BY DEF Holding, OnePlace
<1>2. Holding' = Holding \ {request} BY <1>1 DEF Release, Holding
<1>3. IsFiniteSet(Holding) /\ IsFiniteSet(BackgroundOf(Holding))
  BY FS_Union, FS_Subset DEF TypeOK, Holding, BackgroundOf
<1>4. Cardinality(Holding) \in Nat /\ Cardinality(BackgroundOf(Holding)) \in Nat
  BY <1>3, FS_CardinalityType
<1>5. (Pending \union settled)' \subseteq Pending \union settled
  BY DEF Release, Pending
<1>6. running' = Cardinality(Holding') /\ running' <= Concurrency /\ running' \in Nat
  <2>1. Cardinality(Holding') \in Nat
    BY <1>2, <1>3, FS_RemoveElement, FS_CardinalityType
  <2>2. Cardinality(Holding') = Cardinality(Holding) - 1
    BY <1>1, <1>2, <1>3, FS_RemoveElement
  <2>3. running' = running - 1 BY DEF Release
  <2> QED BY <1>4, <2>1, <2>2, <2>3, ConcurrencyAssumption DEF SlotsConserved
<1>7. /\ runningBackground' = Cardinality(BackgroundOf(Holding)')
      /\ runningBackground' <= MaxBackground /\ runningBackground' \in Nat
  <2>1. CASE IsBackground(request)
    <3>1. BackgroundOf(Holding)' = BackgroundOf(Holding) \ {request}
      BY <1>2 DEF BackgroundOf, IsBackground
    <3>2. request \in BackgroundOf(Holding) BY <1>1, <2>1 DEF BackgroundOf
    <3>3. Cardinality(BackgroundOf(Holding)') \in Nat
      BY <1>3, <3>1, FS_RemoveElement, FS_CardinalityType
    <3>4. Cardinality(BackgroundOf(Holding)') = Cardinality(BackgroundOf(Holding)) - 1
      BY <1>3, <3>1, <3>2, FS_RemoveElement
    <3>5. runningBackground' = runningBackground - 1 BY <2>1 DEF Release
    <3> QED BY <1>4, <3>3, <3>4, <3>5, MaxBackgroundType DEF SlotsConserved
  <2>2. CASE ~IsBackground(request)
    <3>1. BackgroundOf(Holding)' = BackgroundOf(Holding)
      BY <1>2, <2>2 DEF BackgroundOf, IsBackground
    <3> QED BY <1>4, <2>2, <3>1 DEF Release, SlotsConserved
  <2> QED BY <2>1, <2>2
<1>8. TypeOK'
  BY <1>6, <1>7, FS_RemoveElement DEF Release, TypeOK, outputVars
<1>9. IdsIssued' BY <1>5 DEF Release, IdsIssued
<1>10. OneRequestPerId' BY <1>5 DEF OneRequestPerId
<1>11. OnePlace' BY DEF Release, OnePlace, Holding
<1>12. SlotsConserved' BY <1>6, <1>7 DEF SlotsConserved, MaxBackground
<1> QED BY <1>8, <1>9, <1>10, <1>11, <1>12

LEMMA CancelProjectIInv ==
  ASSUME IInv, NEW project \in Project, CancelProject(project)
  PROVE  IInv'
<1> USE DEF IInv
<1> DEFINE asked == {k \in Key : k[1] = project /\ latestGeneration[k] # 0}
           top == generation + Cardinality(asked)
<1>1. PICK bump \in [asked -> generation + 1 .. top] :
        latestGeneration' =
          [k \in Key |-> IF k \in asked THEN bump[k] ELSE latestGeneration[k]]
  BY DEF CancelProject
<1>2. generation' = top BY DEF CancelProject
<1>3. (Pending \union settled)' \subseteq Pending \union settled
  BY DEF CancelProject, Pending
<1>4. Cardinality(asked) \in Nat
  BY KeyAssumption, FS_Subset, FS_CardinalityType
<1>5. top \in Nat /\ generation <= top BY <1>4 DEF TypeOK
<1>6. latestGeneration' \in [Key -> Nat] /\ \A k \in Key : latestGeneration'[k] <= top
  <2> SUFFICES ASSUME NEW k \in Key
               PROVE  latestGeneration'[k] \in Nat /\ latestGeneration'[k] <= top
    BY <1>1
  <2>1. CASE k \in asked BY <1>1, <1>5, <2>1 DEF TypeOK
  <2>2. CASE k \notin asked BY <1>1, <1>5, <2>2 DEF TypeOK, IdsIssued
  <2> QED BY <2>1, <2>2
<1>7. TypeOK'
  BY <1>2, <1>5, <1>6 DEF CancelProject, TypeOK, NotifyIdle, slotVars, outputVars
<1>8. IdsIssued'
  <2>1. \A r \in Pending \union settled : r.id \in Nat /\ r.id <= generation
    BY DEF TypeOK, IdsIssued, Pending, Request, Entry
  <2>2. generation \in Nat BY DEF TypeOK
  <2>3. \A r \in Pending \union settled : r.id <= top BY <1>5, <2>1, <2>2
  <2> QED BY <1>2, <1>3, <1>6, <2>3 DEF IdsIssued
<1>9. OneRequestPerId' BY <1>3 DEF OneRequestPerId
<1>10. OnePlace' BY DEF CancelProject, OnePlace, Holding
<1>11. SlotsConserved' BY SlotsUntouched DEF CancelProject
<1> QED BY <1>7, <1>8, <1>9, <1>10, <1>11

LEMMA DisposeIInv == ASSUME IInv, Dispose PROVE IInv'
<1> USE DEF IInv
<1>1. (Pending \union settled)' \subseteq Pending \union settled
  BY DEF Dispose, Pending
<1>2. TypeOK' BY DEF Dispose, TypeOK, slotVars, outputVars
<1>3. IdsIssued' BY <1>1 DEF Dispose, IdsIssued
<1>4. OneRequestPerId' BY <1>1 DEF OneRequestPerId
<1>5. OnePlace' BY DEF Dispose, OnePlace, Holding
<1>6. SlotsConserved' BY SlotsUntouched DEF Dispose
<1> QED BY <1>2, <1>3, <1>4, <1>5, <1>6

LEMMA StutterIInv == ASSUME IInv, UNCHANGED vars PROVE IInv'
<1>1. Pending' = Pending /\ Holding' = Holding /\ settled' = settled
  BY DEF vars, Pending, Holding
<1> QED BY <1>1 DEF vars, IInv, TypeOK, IdsIssued, OneRequestPerId, OnePlace,
                    SlotsConserved, BackgroundOf, IsBackground, slotVars

LEMMA NextIInv == ASSUME IInv, [Next]_vars PROVE IInv'
<1>1. CASE UNCHANGED vars BY <1>1, StutterIInv
<1>2. CASE \E key \in Key, priority \in Priority : Enqueue(key, priority)
  BY <1>2, EnqueueIInv
<1>3. CASE \E request \in timers : TimerFire(request) BY <1>3, TimerFireIInv
<1>4. CASE \E entry \in TakeEligible : Start(entry) BY <1>4, StartIInv
<1>5. CASE \E entry \in TakeEligible : Drop(entry) BY <1>5, DropIInv
<1>6. CASE Stop BY <1>6, StopIInv
<1>7. CASE \E request \in scanning, hasOutcome \in BOOLEAN : Settle(request, hasOutcome)
  BY <1>7, SettleIInv
<1>8. CASE \E request \in settled : Release(request) BY <1>8, ReleaseIInv
<1>9. CASE \E project \in Project : CancelProject(project) BY <1>9, CancelProjectIInv
<1>10. CASE Dispose BY <1>10, DisposeIInv
<1> QED BY <1>1, <1>2, <1>3, <1>4, <1>5, <1>6, <1>7, <1>8, <1>9, <1>10 DEF Next

(* The inductive invariant holds in every reachable state.                 *)
THEOREM IInvariant == Spec => []IInv
<1>1. IInv /\ [Next]_vars => IInv' BY NextIInv
<1> QED BY InitIInv, <1>1, PTL DEF Spec

(* Every variable keeps its type.                                          *)
THEOREM TypeCorrect == Spec => []TypeOK
<1>1. IInv => TypeOK BY DEF IInv
<1> QED BY IInvariant, <1>1, PTL

(* No slot leaks, none is freed twice, and neither budget is exceeded, for *)
(* every concurrency and every reserve: drain and its finally callback.    *)
THEOREM SlotSafety == Spec => []SlotsConserved
<1>1. IInv => SlotsConserved BY DEF IInv
<1> QED BY IInvariant, <1>1, PTL

(* With more slots than are reserved, background scans leave the reserved  *)
(* ones free (with as many or fewer they do not, SchedulerOneSlot.cfg).    *)
THEOREM ReserveKept ==
  ASSUME Concurrency > Reserved
  PROVE  Spec => []ReserveFree
<1>1. IInv => ReserveFree
  BY ConcurrencyAssumption, ReservedAssumption
     DEF IInv, TypeOK, SlotsConserved, ReserveFree, MaxBackground
<1> QED BY IInvariant, <1>1, PTL

-----------------------------------------------------------------------------
(* Results move forward.  A pending request has not ended yet and an answer *)
(* is the id of a request that has, so the same id is never answered twice; *)
(* an answer is never newer than the newest request of its key.             *)

AnswersEnded ==
  /\ \A g \in ended : g <= generation
  /\ \A r \in Pending : r.id \notin ended
  /\ \A k \in Key : /\ delivered[k] <= latestGeneration[k]
                    /\ delivered[k] # 0 => delivered[k] \in ended

DInv == IInv /\ AnswersEnded

LEMMA InitDInv == Init => DInv
<1>1. Init => AnswersEnded BY DEF Init, AnswersEnded, Pending
<1> QED BY <1>1, InitIInv DEF DInv

(* A step that neither hands out a generation nor ends a scan.             *)
LEMMA AnswersUntouched ==
  ASSUME AnswersEnded, Pending' \subseteq Pending,
         UNCHANGED <<generation, latestGeneration, outputVars>>
  PROVE  AnswersEnded'
BY DEF AnswersEnded, outputVars

LEMMA EnqueueAnswers ==
  ASSUME DInv, NEW key \in Key, NEW priority \in Priority, Enqueue(key, priority)
  PROVE  AnswersEnded'
<1> USE DEF DInv, IInv
<1> DEFINE request == [id |-> generation + 1, projectDirectory |-> key[1],
                       files |-> key[2], priority |-> priority]
<1>1. request.id = generation + 1 OBVIOUS
<1>2. Pending' \subseteq Pending \union {request} BY DEF Enqueue, Rearmed, Pending
<1>3. generation \in Nat /\ generation' = generation + 1 /\ UNCHANGED <<delivered, ended>>
  BY DEF Enqueue, TypeOK, outputVars
<1>4. \A g \in ended : g \in Nat /\ g <= generation BY DEF AnswersEnded, TypeOK
<1>5. \A g \in ended' : g <= generation' BY <1>3, <1>4
<1>6. generation + 1 \notin ended BY <1>3, <1>4
<1>7. \A r \in Pending' : r.id \notin ended'
  BY <1>1, <1>2, <1>3, <1>6 DEF AnswersEnded
<1>8. \A k \in Key : delivered'[k] <= latestGeneration'[k]
  <2> SUFFICES ASSUME NEW k \in Key PROVE delivered[k] <= latestGeneration'[k]
    BY <1>3
  <2>1. /\ latestGeneration' = [latestGeneration EXCEPT ![key] = generation + 1]
        /\ delivered[k] \in Nat /\ latestGeneration[k] \in Nat
        /\ delivered[k] <= latestGeneration[k] /\ latestGeneration[k] <= generation
    BY DEF Enqueue, AnswersEnded, TypeOK, IdsIssued
  <2> QED BY <1>3, <2>1 DEF TypeOK
<1> QED BY <1>3, <1>5, <1>7, <1>8 DEF AnswersEnded

LEMMA SettleAnswers ==
  ASSUME DInv, NEW request \in scanning, NEW hasOutcome \in BOOLEAN,
         Settle(request, hasOutcome)
  PROVE  /\ AnswersEnded'
         /\ \A k \in Key : delivered'[k] # delivered[k] => delivered'[k] > delivered[k]
<1> USE DEF DInv, IInv
<1>1. /\ request \in Pending /\ request \in Pending \union settled
      /\ request.id \in Nat \ {0} /\ KeyOf(request) \in Key
  BY KeyOfType DEF Pending, TypeOK, Request
<1>2. Pending' \subseteq Pending \ {request}
  BY DEF Settle, Pending, OnePlace, Holding
<1>3. ended' = ended \union {request.id} /\ UNCHANGED <<generation, latestGeneration>>
  BY DEF Settle
<1>4. \A r \in Pending' : r.id # request.id
  BY <1>1, <1>2 DEF OneRequestPerId
<1>5. \A r \in Pending' : r.id \notin ended'
  BY <1>2, <1>3, <1>4 DEF AnswersEnded
<1>6. \A g \in ended' : g <= generation'
  BY <1>1, <1>3 DEF AnswersEnded, IdsIssued
<1>7. ASSUME NEW k \in Key
      PROVE  /\ delivered'[k] <= latestGeneration'[k]
             /\ delivered'[k] # 0 => delivered'[k] \in ended'
             /\ delivered'[k] # delivered[k] => delivered'[k] > delivered[k]
  <2>1. /\ delivered[k] \in Nat /\ latestGeneration[k] \in Nat
        /\ delivered[k] <= latestGeneration[k]
        /\ delivered[k] # 0 => delivered[k] \in ended
    BY DEF AnswersEnded, TypeOK
  <2>2. CASE delivered'[k] = delivered[k] BY <1>3, <2>1, <2>2
  <2>3. CASE delivered'[k] # delivered[k]
    <3>1. /\ k = KeyOf(request) /\ ~IsCancelled(request)
          /\ delivered'[k] = request.id
      BY <2>3 DEF Settle, TypeOK
    <3>2. latestGeneration[k] = request.id BY <3>1 DEF IsCancelled, Superseded
    <3>3. delivered[k] # request.id BY <1>1, <2>1 DEF AnswersEnded
    <3> QED BY <1>1, <1>3, <2>1, <3>1, <3>2, <3>3
  <2> QED BY <2>2, <2>3
<1> QED BY <1>5, <1>6, <1>7 DEF AnswersEnded

LEMMA CancelProjectAnswers ==
  ASSUME DInv, NEW project \in Project, CancelProject(project)
  PROVE  AnswersEnded'
<1> USE DEF DInv, IInv
<1> DEFINE asked == {k \in Key : k[1] = project /\ latestGeneration[k] # 0}
           top == generation + Cardinality(asked)
<1>1. PICK bump \in [asked -> generation + 1 .. top] :
        latestGeneration' =
          [k \in Key |-> IF k \in asked THEN bump[k] ELSE latestGeneration[k]]
  BY DEF CancelProject
<1>2. Cardinality(asked) \in Nat /\ generation \in Nat
  BY KeyAssumption, FS_Subset, FS_CardinalityType DEF TypeOK
<1>3. generation' = top /\ UNCHANGED <<delivered, ended>>
  BY DEF CancelProject, outputVars
<1>4. Pending' \subseteq Pending BY DEF CancelProject, Pending
<1>5. \A g \in ended' : g <= generation'
  <2> SUFFICES ASSUME NEW g \in ended PROVE g <= top BY <1>3
  <2>1. g \in Nat /\ g <= generation BY DEF AnswersEnded, TypeOK
  <2> QED BY <1>2, <2>1
<1>6. \A k \in Key : delivered[k] <= latestGeneration'[k]
  <2> SUFFICES ASSUME NEW k \in Key PROVE delivered[k] <= latestGeneration'[k]
    OBVIOUS
  <2>1. /\ delivered[k] \in Nat /\ latestGeneration[k] \in Nat
        /\ delivered[k] <= latestGeneration[k] /\ latestGeneration[k] <= generation
    BY DEF AnswersEnded, TypeOK, IdsIssued
  <2>2. CASE k \in asked
    <3>1. latestGeneration'[k] \in generation + 1 .. top BY <1>1, <2>2
    <3> QED BY <1>2, <2>1, <3>1
  <2>3. CASE k \notin asked BY <1>1, <2>1, <2>3
  <2> QED BY <2>2, <2>3
<1> QED BY <1>3, <1>4, <1>5, <1>6 DEF AnswersEnded

LEMMA NextDInv ==
  ASSUME DInv, [Next]_vars
  PROVE  /\ DInv'
         /\ \A k \in Key : delivered'[k] # delivered[k] => delivered'[k] > delivered[k]
<1> USE DEF DInv
<1>1. IInv' BY NextIInv
<1>2. CASE UNCHANGED vars BY <1>1, <1>2, AnswersUntouched DEF vars, Pending, outputVars
<1>3. ASSUME NEW key \in Key, NEW priority \in Priority, Enqueue(key, priority)
      PROVE  AnswersEnded' /\ delivered' = delivered
  BY <1>3, EnqueueAnswers DEF Enqueue, outputVars
<1>4. ASSUME NEW request \in timers, TimerFire(request)
      PROVE  AnswersEnded' /\ delivered' = delivered
  BY <1>4, AnswersUntouched DEF TimerFire, Pending, outputVars
<1>5. ASSUME NEW entry \in TakeEligible, Start(entry) \/ Drop(entry)
      PROVE  AnswersEnded' /\ delivered' = delivered
  BY <1>5, AnswersUntouched DEF TakeEligible, Start, Drop, Pending, outputVars
<1>6. ASSUME Stop PROVE AnswersEnded' /\ delivered' = delivered
  BY <1>6, AnswersUntouched DEF Stop, Pending, outputVars
<1>7. ASSUME NEW request \in settled, Release(request)
      PROVE  AnswersEnded' /\ delivered' = delivered
  BY <1>7, AnswersUntouched DEF Release, Pending, outputVars
<1>8. ASSUME NEW project \in Project, CancelProject(project)
      PROVE  AnswersEnded' /\ delivered' = delivered
  BY <1>8, CancelProjectAnswers DEF CancelProject, outputVars
<1>9. ASSUME Dispose PROVE AnswersEnded' /\ delivered' = delivered
  BY <1>9, AnswersUntouched DEF Dispose, Pending, outputVars
<1> QED BY <1>1, <1>2, <1>3, <1>4, <1>5, <1>6, <1>7, <1>8, <1>9, SettleAnswers DEF Next

(* So does what is known of the answers delivered.                         *)
THEOREM DInvariant == Spec => []DInv
<1>1. DInv /\ [Next]_vars => DInv' BY NextDInv
<1> QED BY InitDInv, <1>1, PTL DEF Spec

(* Per key, results are passed on in the order of their requests and none  *)
(* twice: the generation check in the then callback.                       *)
THEOREM DeliveryOrder == Spec => DeliveryMovesForward
<1>1. DInv /\ [Next]_vars =>
        [\A k \in Key : delivered'[k] # delivered[k] => delivered'[k] > delivered[k]]_vars
  BY NextDInv
<1> QED BY DInvariant, <1>1, PTL DEF Spec, DeliveryMovesForward

-----------------------------------------------------------------------------
(* Work conservation.  The drain loop stops only when takeEligible returns  *)
(* nothing, the slots are full or the scheduler is disposed; nothing that   *)
(* happens while it rests makes a waiting entry eligible.                   *)

LEMMA LeastNatural ==
  ASSUME NEW T, T \subseteq Nat, T # {}
  PROVE  \E n \in T : \A m \in T : n <= m
<1> DEFINE R == OpToRel(<, Nat)
<1>1. PICK n \in T : \A m \in T : <<m, n>> \notin R
  BY NatLessThanWellFounded, WFMin
<1>2. \A m \in T : n <= m
  <2> SUFFICES ASSUME NEW m \in T PROVE n <= m OBVIOUS
  <2>1. ~(m < n) BY <1>1 DEF OpToRel
  <2> QED BY <2>1
<1> QED BY <1>2

ArrivalOrder ==
  /\ \A e \in queue : e.arrival <= arrivals
  /\ \A e, d \in queue : e.arrival = d.arrival => e = d

(* takeEligible finds an entry whenever one is eligible.                    *)
LEMMA TakeEligibleFinds ==
  ASSUME TypeOK, ArrivalOrder, NEW w \in queue, IsEligible(w.request)
  PROVE  TakeEligible # {}
<1> DEFINE E == {e \in queue : IsEligible(e.request)}
           Rank(e) == PriorityRank[e.request.priority]
<1>1. \A e \in E : Rank(e) \in Nat /\ e.arrival \in Nat
  BY DEF TypeOK, Entry, Request, Priority, PriorityRank
<1>2. PICK m \in {Rank(e) : e \in E} : \A n \in {Rank(e) : e \in E} : m <= n
  BY <1>1, LeastNatural
<1> DEFINE F == {e \in E : Rank(e) = m}
<1>3. PICK a \in {e.arrival : e \in F} : \A b \in {e.arrival : e \in F} : a <= b
  <2>1. {e.arrival : e \in F} # {} BY <1>2
  <2>2. {e.arrival : e \in F} \subseteq Nat BY <1>1
  <2> QED BY <2>1, <2>2, LeastNatural
<1>4. PICK first \in F : first.arrival = a BY <1>3
<1>5. ASSUME NEW other \in queue, other # first, IsEligible(other.request)
      PROVE  Before(first, other)
  <2>1. other \in E /\ m <= Rank(other) /\ Rank(first) = m BY <1>2, <1>4, <1>5
  <2>2. CASE Rank(other) = m
    <3>1. a <= other.arrival BY <1>3, <2>1, <2>2
    <3>2. other.arrival # a BY <1>4, <1>5 DEF ArrivalOrder
    <3> QED BY <1>1, <1>4, <2>1, <2>2, <3>1, <3>2 DEF Before
  <2>3. CASE Rank(other) # m
    BY <1>1, <1>4, <2>1, <2>3 DEF Before
  <2> QED BY <2>2, <2>3
<1> QED BY <1>4, <1>5 DEF TakeEligible

Rested ==
  control = "loop" => \/ queue = {}
                      \/ running = Concurrency
                      \/ \A e \in queue : ~IsEligible(e.request)

DisposedEmpty == disposed => queue = {} /\ timers = {}

WInv == IInv /\ ArrivalOrder /\ DisposedEmpty /\ Rested

LEMMA InitWInv == Init => WInv
<1>1. Init => ArrivalOrder /\ DisposedEmpty /\ Rested
  BY DEF Init, ArrivalOrder, DisposedEmpty, Rested
<1> QED BY <1>1, InitIInv DEF WInv

LEMMA NextWInv == ASSUME WInv, [Next]_vars PROVE WInv'
<1> USE DEF WInv
<1>1. IInv' BY NextIInv
<1>2. CASE UNCHANGED vars
  BY <1>1, <1>2 DEF vars, ArrivalOrder, DisposedEmpty, Rested, IsEligible, IsBackground
<1>3. ASSUME NEW key \in Key, NEW priority \in Priority, Enqueue(key, priority)
      PROVE  WInv'
  BY <1>1, <1>3 DEF Enqueue, ArrivalOrder, DisposedEmpty, Rested, IsEligible,
                    IsBackground, slotVars
<1>4. ASSUME NEW request \in timers, TimerFire(request)
      PROVE  WInv'
  <2>1. CASE Superseded(request)
    BY <1>1, <1>4, <2>1 DEF TimerFire, ArrivalOrder, DisposedEmpty, Rested,
       IsEligible, IsBackground, slotVars
  <2>2. CASE ~Superseded(request)
    <3>1. \A e \in queue : e.arrival \in Nat /\ e.arrival <= arrivals
      BY DEF IInv, TypeOK, Entry, ArrivalOrder
    <3>2. /\ arrivals \in Nat /\ arrivals' = arrivals + 1
          /\ queue' = queue \union {[request |-> request, arrival |-> arrivals']}
          /\ control' = "drain"
      BY <1>4, <2>2 DEF TimerFire, IInv, TypeOK
    <3>3. ArrivalOrder' BY <3>1, <3>2 DEF ArrivalOrder
    <3>4. DisposedEmpty' /\ Rested'
      BY <1>4, <2>2, <3>2 DEF TimerFire, DisposedEmpty, Rested
    <3> QED BY <1>1, <3>3, <3>4
  <2> QED BY <2>1, <2>2
<1>5. ASSUME NEW entry \in TakeEligible, Start(entry) \/ Drop(entry)
      PROVE  WInv'
  <2>1. control' = "drain" BY <1>5 DEF Start, Drop
  <2>2. ArrivalOrder' BY <1>5 DEF Start, Drop, ArrivalOrder
  <2>3. DisposedEmpty' BY <1>5 DEF Start, Drop, DisposedEmpty
  <2> QED BY <1>1, <2>1, <2>2, <2>3 DEF Rested
<1>6. ASSUME Stop PROVE WInv'
  <2>1. ArrivalOrder' /\ DisposedEmpty' BY <1>6 DEF Stop, ArrivalOrder, DisposedEmpty
  <2>2. UNCHANGED <<queue, running, runningBackground>> BY <1>6 DEF Stop, slotVars
  <2>3. queue = {} \/ running = Concurrency \/ \A e \in queue : ~IsEligible(e.request)
    <3>1. CASE disposed BY <3>1 DEF DisposedEmpty
    <3>2. CASE ~(running < Concurrency)
      BY <3>2, ConcurrencyAssumption DEF IInv, TypeOK, SlotsConserved
    <3>3. CASE TakeEligible = {} BY <3>3, TakeEligibleFinds DEF IInv
    <3> QED BY <1>6, <3>1, <3>2, <3>3 DEF Stop, CanDrain
  <2>4. Rested' BY <2>2, <2>3 DEF Rested, IsEligible, IsBackground
  <2> QED BY <1>1, <2>1, <2>4
<1>7. ASSUME NEW request \in scanning, NEW hasOutcome \in BOOLEAN,
             Settle(request, hasOutcome)
      PROVE  WInv'
  BY <1>1, <1>7 DEF Settle, ArrivalOrder, DisposedEmpty, Rested, IsEligible,
                    IsBackground, slotVars
<1>8. ASSUME NEW request \in settled, Release(request)
      PROVE  WInv'
  BY <1>1, <1>8 DEF Release, ArrivalOrder, DisposedEmpty, Rested
<1>9. ASSUME NEW project \in Project, CancelProject(project)
      PROVE  WInv'
  BY <1>1, <1>9 DEF CancelProject, ArrivalOrder, DisposedEmpty, Rested,
                    IsEligible, IsBackground, slotVars
<1>10. ASSUME Dispose PROVE WInv'
  BY <1>1, <1>10 DEF Dispose, ArrivalOrder, DisposedEmpty, Rested
<1> QED BY <1>2, <1>3, <1>4, <1>5, <1>6, <1>7, <1>8, <1>9, <1>10 DEF Next

(* No request waits while a slot it may use is free: with a reserve, an     *)
(* interactive or save scan never waits for background work alone.          *)
THEOREM WorkConservation == Spec => []NoNeedlessWait
<1>1. WInv => NoNeedlessWait
  <2> SUFFICES ASSUME WInv, AtEventLoop, NEW e \in queue
               PROVE  IF IsBackground(e.request)
                      THEN running = Concurrency \/ runningBackground = MaxBackground
                      ELSE running - runningBackground >= Concurrency - MaxBackground
    BY DEF NoNeedlessWait
  <2>1. running = Concurrency \/ ~IsEligible(e.request)
    BY DEF WInv, Rested, AtEventLoop
  <2>2. /\ running \in Nat /\ runningBackground \in Nat
        /\ running <= Concurrency /\ runningBackground <= MaxBackground
    BY DEF WInv, IInv, TypeOK, SlotsConserved
  <2> QED BY <2>1, <2>2, MaxBackgroundType, ConcurrencyAssumption DEF IsEligible
<1>2. WInv /\ [Next]_vars => WInv' BY NextWInv
<1> QED BY InitWInv, <1>1, <1>2, PTL DEF Spec

-----------------------------------------------------------------------------
(* The idle report and the timers *)

LEMMA Reported ==
  ASSUME NotifyIdle, running' \in Nat
  PROVE  IdleReportHonest'
<1>1. idle' <=> running' = 0 /\ queue' = {} /\ timers' = {}
  BY Zenon DEF NotifyIdle
<1> QED BY <1>1 DEF IdleReportHonest

LEMMA NextIdle ==
  ASSUME IInv, IdleReportHonest, [Next]_vars
  PROVE  IdleReportHonest'
<1> USE DEF IdleReportHonest, AtEventLoop
<1>1. running' \in Nat
  BY NextIInv DEF IInv, TypeOK
<1>2. CASE UNCHANGED vars
  BY <1>2 DEF vars
<1>3. ASSUME NEW key \in Key, NEW priority \in Priority, Enqueue(key, priority)
      PROVE  IdleReportHonest'
  BY <1>3 DEF Enqueue, Rearmed, slotVars
<1>4. ASSUME NEW request \in timers, TimerFire(request)
      PROVE  IdleReportHonest'
  <2>1. CASE Superseded(request)
    BY <1>1, <1>4, <2>1, Reported DEF TimerFire
  <2>2. CASE ~Superseded(request)
    BY <1>4, <2>2 DEF TimerFire
  <2> QED BY <2>1, <2>2
<1>5. ASSUME NEW entry \in TakeEligible, Start(entry) \/ Drop(entry)
      PROVE  IdleReportHonest'
  BY <1>5 DEF Start, Drop
<1>6. CASE Stop
  BY <1>1, <1>6, Reported DEF Stop
<1>7. ASSUME NEW request \in scanning, NEW hasOutcome \in BOOLEAN,
             Settle(request, hasOutcome)
      PROVE  IdleReportHonest'
  BY <1>7 DEF Settle
<1>8. ASSUME NEW request \in settled, Release(request)
      PROVE  IdleReportHonest'
  BY <1>8 DEF Release
<1>9. ASSUME NEW project \in Project, CancelProject(project)
      PROVE  IdleReportHonest'
  BY <1>1, <1>9, Reported DEF CancelProject
<1>10. CASE Dispose
  BY <1>10 DEF Dispose
<1> QED BY <1>2, <1>3, <1>4, <1>5, <1>6, <1>7, <1>8, <1>9, <1>10 DEF Next

(* At rest the last idle report is the truth.                               *)
THEOREM HonestWhenIdle == Spec => []IdleReportHonest
<1>1. Init => IdleReportHonest
  BY DEF Init, IdleReportHonest
<1> QED BY <1>1, NextIdle, IInvariant, PTL DEF Spec

Newest == \A t \in timers : ~Superseded(t)

LEMMA NextNewest ==
  ASSUME IInv, Newest, [Next]_vars
  PROVE  Newest'
<1> USE DEF Newest
<1>1. \A t \in timers : KeyOf(t) \in Key /\ KeyOf(t)[1] = t.projectDirectory
  BY KeyOfType DEF IInv, TypeOK, KeyOf
<1>2. CASE UNCHANGED vars
  BY <1>2 DEF vars, Superseded
<1>3. ASSUME NEW key \in Key, NEW priority \in Priority, Enqueue(key, priority)
      PROVE  Newest'
  <2> DEFINE request == [id |-> generation + 1, projectDirectory |-> key[1],
                         files |-> key[2], priority |-> priority]
  <2>1. KeyOf(request) = key /\ request.id = generation + 1
    BY FreshRequest DEF IInv, TypeOK
  <2>2. /\ latestGeneration' = [latestGeneration EXCEPT ![key] = generation + 1]
        /\ timers' = {t \in timers : KeyOf(t) # key} \union {request}
    BY <1>3, <2>1 DEF Enqueue, Rearmed
  <2>3. latestGeneration'[key] = generation + 1
        /\ \A k \in Key \ {key} : latestGeneration'[k] = latestGeneration[k]
    BY <2>2 DEF IInv, TypeOK
  <2> QED BY <1>1, <2>1, <2>2, <2>3 DEF Superseded
<1>4. ASSUME NEW request \in timers, TimerFire(request)
      PROVE  Newest'
  BY <1>4 DEF TimerFire, Superseded
<1>5. ASSUME NEW entry \in TakeEligible, Start(entry) \/ Drop(entry)
      PROVE  Newest'
  BY <1>5 DEF Start, Drop, Superseded
<1>6. CASE Stop
  BY <1>6 DEF Stop, Superseded
<1>7. ASSUME NEW request \in scanning, NEW hasOutcome \in BOOLEAN,
             Settle(request, hasOutcome)
      PROVE  Newest'
  BY <1>7 DEF Settle, Superseded
<1>8. ASSUME NEW request \in settled, Release(request)
      PROVE  Newest'
  BY <1>8 DEF Release, Superseded
<1>9. ASSUME NEW project \in Project, CancelProject(project)
      PROVE  Newest'
  <2>1. timers' = {t \in timers : t.projectDirectory # project}
    BY <1>9 DEF CancelProject
  <2>2. \A k \in Key : k[1] # project => latestGeneration'[k] = latestGeneration[k]
    BY <1>9 DEF CancelProject
  <2> QED BY <1>1, <2>1, <2>2 DEF Superseded
<1>10. CASE Dispose
  BY <1>10 DEF Dispose
<1> QED BY <1>2, <1>3, <1>4, <1>5, <1>6, <1>7, <1>8, <1>9, <1>10 DEF Next

(* An armed timer is that of the newest request of its key, and the only    *)
(* one.                                                                     *)
THEOREM OneTimerPerKey == Spec => []BurstCollapses
<1>1. IInv /\ Newest => BurstCollapses
  <2> SUFFICES ASSUME IInv, Newest, NEW t \in timers, NEW u \in timers, KeyOf(u) = KeyOf(t)
               PROVE  u = t
    BY DEF BurstCollapses, Newest
  <2>1. u.id = t.id
    BY DEF Newest, Superseded
  <2> QED BY <2>1 DEF IInv, OneRequestPerId, Pending
<1>2. Init => Newest
  BY DEF Init, Newest
<1> QED BY <1>1, <1>2, NextNewest, IInvariant, PTL DEF Spec

-----------------------------------------------------------------------------
(* The scheduler implements LatestWins: its initial state maps to an        *)
(* initial state of LatestWins, and each of its steps to one step of        *)
(* LatestWins or to a step that changes nothing there.                      *)


(* The request of key k that is still wanted is pending and the newest.     *)
IsWanted(k, r) == ~disposed /\ r \in Pending /\ KeyOf(r) = k /\ ~Superseded(r)

LEMMA WantedValue ==
  ASSUME DInv, NEW k \in Key
  PROVE  /\ Wanted[k] \in Nat
         /\ Wanted[k] # 0 <=> \E r \in Pending : IsWanted(k, r)
         /\ \A r \in Pending : IsWanted(k, r) => Wanted[k] = r.id
<1>1. \A r \in Pending : r.id \in Nat \ {0}
  BY DEF DInv, IInv, TypeOK, Pending, Request, Entry
<1>2. latestGeneration[k] \in Nat BY DEF DInv, IInv, TypeOK
<1>3. \A r \in Pending :
        IsWanted(k, r) <=> ~disposed /\ KeyOf(r) = k /\ r.id = latestGeneration[k]
  BY DEF IsWanted, Superseded
<1> QED BY <1>1, <1>2, <1>3 DEF Wanted

(* A step that keeps the newest generations and loses only requests nobody  *)
(* wants, leaves what is wanted as it was.                                  *)
LEMMA WantedUntouched ==
  ASSUME Pending' \subseteq Pending,
         \A r \in Pending : r \in Pending' \/ Superseded(r),
         UNCHANGED <<latestGeneration, disposed>>
  PROVE  Wanted' = Wanted
<1>1. ASSUME NEW k \in Key
      PROVE  (\E r \in Pending' : KeyOf(r) = k /\ r.id = latestGeneration[k])
             <=> (\E r \in Pending : KeyOf(r) = k /\ r.id = latestGeneration[k])
  BY DEF Superseded
<1> QED BY <1>1 DEF Wanted

LEMMA InitPromise == Init => Promise!Init
BY DEF Init, Promise!Init, Wanted, Pending

LEMMA EnqueuePromise ==
  ASSUME DInv, NEW key \in Key, NEW priority \in Priority, Enqueue(key, priority)
  PROVE  Promise!Ask(key)
<1> USE DEF DInv, IInv
<1> DEFINE request == [id |-> generation + 1, projectDirectory |-> key[1],
                       files |-> key[2], priority |-> priority]
<1>1. request \in Request /\ KeyOf(request) = key /\ request.id = generation + 1
  BY FreshRequest DEF TypeOK
<1>2. /\ generation' = generation + 1 /\ ~disposed /\ ~disposed'
      /\ latestGeneration' = [latestGeneration EXCEPT ![key] = generation + 1]
      /\ timers' = {t \in timers : KeyOf(t) # key} \union {request}
      /\ UNCHANGED <<queue, scanning, delivered, ended, disposed>>
  BY <1>1 DEF Enqueue, Rearmed, outputVars
<1>3. request \in Pending' BY <1>2 DEF Pending
<1>4. ASSUME NEW k \in Key
      PROVE  Wanted'[k] = IF k = key THEN generation + 1 ELSE Wanted[k]
  <2>1. CASE k = key
    <3>1. latestGeneration'[k] = generation + 1 BY <1>2, <2>1 DEF TypeOK
    <3> QED BY <1>1, <1>2, <1>3, <2>1, <3>1 DEF Wanted
  <2>2. CASE k # key
    <3>1. latestGeneration'[k] = latestGeneration[k] BY <1>2, <2>2 DEF TypeOK
    <3>2. \A r : KeyOf(r) = k => (r \in Pending' <=> r \in Pending)
      BY <1>1, <1>2, <2>2 DEF Pending
    <3>3. (\E r \in Pending' : KeyOf(r) = k /\ r.id = latestGeneration[k])
          <=> (\E r \in Pending : KeyOf(r) = k /\ r.id = latestGeneration[k])
      BY <3>2
    <3> QED BY <1>2, <2>2, <3>1, <3>3 DEF Wanted
  <2> QED BY <2>1, <2>2
<1>5. Wanted' = [Wanted EXCEPT ![key] = generation']
  <2>1. Wanted' = [k \in Key |-> Wanted'[k]] /\ DOMAIN Wanted = Key BY DEF Wanted
  <2>2. Wanted' = [k \in Key |-> IF k = key THEN generation + 1 ELSE Wanted[k]]
    BY <1>4, <2>1
  <2> QED BY <1>2, <2>1, <2>2
<1> QED BY <1>2, <1>5 DEF Promise!Ask

LEMMA SettlePromise ==
  ASSUME DInv, NEW request \in scanning, NEW hasOutcome \in BOOLEAN,
         Settle(request, hasOutcome)
  PROVE  Promise!Conclude(KeyOf(request), hasOutcome) \/ Promise!Discard
<1> USE DEF DInv, IInv
<1> DEFINE key == KeyOf(request)
<1>1. /\ request \in Pending /\ request \in Pending \union settled
      /\ request.id \in Nat \ {0} /\ key \in Key
  BY KeyOfType DEF Pending, TypeOK, Request
<1>2. /\ ended' = ended \union {request.id}
      /\ UNCHANGED <<generation, latestGeneration, disposed, timers, queue>>
      /\ scanning' = scanning \ {request}
      /\ delivered' = IF hasOutcome /\ ~IsCancelled(request)
                      THEN [delivered EXCEPT ![key] = request.id] ELSE delivered
  BY DEF Settle
<1>3. Pending' = Pending \ {request}
  BY <1>2 DEF Pending, OnePlace, Holding
<1>4. \A r \in Pending : r.id = request.id => r = request
  BY <1>1 DEF OneRequestPerId
<1>5. CASE IsCancelled(request)
  <2>1. Wanted' = Wanted
    <3>1. CASE disposed BY <1>2, <3>1 DEF Wanted
    <3>2. CASE Superseded(request) BY <1>2, <1>3, <3>2, WantedUntouched
    <3> QED BY <1>5, <3>1, <3>2 DEF IsCancelled
  <2>2. \A k \in Key : Wanted[k] # request.id
    <3> SUFFICES ASSUME NEW k \in Key, Wanted[k] = request.id PROVE FALSE
      OBVIOUS
    <3>1. PICK r \in Pending : IsWanted(k, r) BY <1>1, WantedValue
    <3>2. r.id = request.id BY <3>1, WantedValue
    <3> QED BY <1>4, <1>5, <3>1, <3>2 DEF IsCancelled, IsWanted
  <2>3. request.id \in 1..generation /\ request.id \notin ended
    BY <1>1 DEF IdsIssued, AnswersEnded, TypeOK
  <2> QED BY <1>2, <1>5, <2>1, <2>2, <2>3 DEF Promise!Discard
<1>6. CASE ~IsCancelled(request)
  <2>1. IsWanted(key, request) BY <1>1, <1>6 DEF IsWanted, IsCancelled
  <2>2. Wanted[key] = request.id BY <1>1, <2>1, WantedValue
  <2>3. latestGeneration[key] = request.id BY <1>6 DEF IsCancelled, Superseded
  <2>4. ASSUME NEW k \in Key
        PROVE  Wanted'[k] = IF k = key THEN 0 ELSE Wanted[k]
    <3>1. CASE k = key
      BY <1>2, <1>3, <1>4, <2>3, <3>1 DEF Wanted
    <3>2. CASE k # key
      <4>1. (\E r \in Pending' : KeyOf(r) = k /\ r.id = latestGeneration[k])
            <=> (\E r \in Pending : KeyOf(r) = k /\ r.id = latestGeneration[k])
        BY <1>3, <3>2
      <4> QED BY <1>2, <3>2, <4>1 DEF Wanted
    <3> QED BY <3>1, <3>2
  <2>5. Wanted' = [Wanted EXCEPT ![key] = 0] BY <1>2, <2>4 DEF Wanted
  <2> QED BY <1>1, <1>2, <1>6, <2>2, <2>5 DEF Promise!Conclude
<1> QED BY <1>5, <1>6

LEMMA CancelProjectPromise ==
  ASSUME DInv, NEW project \in Project, CancelProject(project)
  PROVE  Promise!Withdraw(project)
<1> USE DEF DInv, IInv
<1> DEFINE asked == {k \in Key : k[1] = project /\ latestGeneration[k] # 0}
           top == generation + Cardinality(asked)
<1>1. PICK bump \in [asked -> generation + 1 .. top] :
        latestGeneration' =
          [k \in Key |-> IF k \in asked THEN bump[k] ELSE latestGeneration[k]]
  BY DEF CancelProject
<1>2. Cardinality(asked) \in Nat /\ generation \in Nat
  BY KeyAssumption, FS_Subset, FS_CardinalityType DEF TypeOK
<1>3. /\ generation' = top
      /\ UNCHANGED <<delivered, ended, disposed, scanning>>
      /\ timers' = {t \in timers : t.projectDirectory # project}
      /\ queue' = {e \in queue : e.request.projectDirectory # project}
  BY DEF CancelProject, outputVars
<1>4. ASSUME NEW k \in Key
      PROVE  Wanted'[k] = IF k[1] = project THEN 0 ELSE Wanted[k]
  <2>1. \A r \in Pending : r.id \in Nat \ {0} /\ r.id <= generation
    BY DEF TypeOK, IdsIssued, Pending, Request, Entry
  <2>2. Pending' \subseteq Pending BY <1>3 DEF Pending
  <2>3. CASE k \in asked
    <3>1. latestGeneration'[k] \in generation + 1 .. top BY <1>1, <2>3
    <3>2. \A r \in Pending' : r.id # latestGeneration'[k]
      BY <1>2, <2>1, <2>2, <3>1
    <3> QED BY <2>3, <3>2 DEF Wanted
  <2>4. CASE k \notin asked /\ k[1] = project
    <3>1. latestGeneration'[k] = 0 BY <1>1, <2>4
    <3>2. \A r \in Pending' : r.id # latestGeneration'[k] BY <2>1, <2>2, <3>1
    <3> QED BY <2>4, <3>2 DEF Wanted
  <2>5. CASE k[1] # project
    <3>1. latestGeneration'[k] = latestGeneration[k] BY <1>1, <2>5
    <3>2. \A r : KeyOf(r) = k => (r \in Pending' <=> r \in Pending)
      BY <1>3, <2>5 DEF Pending, KeyOf
    <3>3. (\E r \in Pending' : KeyOf(r) = k /\ r.id = latestGeneration[k])
          <=> (\E r \in Pending : KeyOf(r) = k /\ r.id = latestGeneration[k])
      BY <3>2
    <3> QED BY <1>3, <2>5, <3>1, <3>3 DEF Wanted
  <2> QED BY <2>3, <2>4, <2>5
<1>5. Wanted' = [k \in Key |-> IF k[1] = project THEN 0 ELSE Wanted[k]]
  BY <1>4 DEF Wanted
<1>6. top \in Nat /\ top >= generation BY <1>2
<1> QED BY <1>3, <1>5, <1>6 DEF Promise!Withdraw

LEMMA DisposePromise == ASSUME Dispose PROVE Promise!Close
<1>1. disposed' = TRUE /\ UNCHANGED <<generation, delivered, ended>>
  BY DEF Dispose, outputVars
<1>2. Wanted' = [k \in Key |-> 0] BY <1>1 DEF Wanted
<1> QED BY <1>1, <1>2 DEF Promise!Close

LEMMA NextPromise ==
  ASSUME DInv, [Next]_vars
  PROVE  [Promise!Next]_(Promise!vars)
<1> USE DEF DInv, IInv
<1>1. CASE UNCHANGED vars
  BY <1>1 DEF vars, outputVars, Promise!vars, Wanted, Pending
<1>2. CASE \E key \in Key, priority \in Priority : Enqueue(key, priority)
  BY <1>2, EnqueuePromise DEF Promise!Next
<1>3. ASSUME NEW request \in timers, TimerFire(request)
      PROVE  UNCHANGED Promise!vars
  <2>1. \A r \in Pending : r \in Pending' \/ Superseded(r)
    <3>1. CASE Superseded(request) BY <1>3, <3>1 DEF TimerFire, Pending
    <3>2. CASE ~Superseded(request)
      <4> DEFINE pushed == [request |-> request, arrival |-> arrivals']
      <4>1. request \in Pending'
        <5>1. pushed \in queue' /\ pushed.request = request
          BY <1>3, <3>2 DEF TimerFire
        <5> QED BY <5>1 DEF Pending
      <4>2. \A r \in Pending : r # request => r \in Pending'
        BY <1>3, <3>2 DEF TimerFire, Pending
      <4> QED BY <4>1, <4>2
    <3> QED BY <3>1, <3>2
  <2>2. Pending' \subseteq Pending BY <1>3 DEF TimerFire, Pending
  <2>3. Wanted' = Wanted BY <1>3, <2>1, <2>2, WantedUntouched DEF TimerFire
  <2> QED BY <1>3, <2>3 DEF TimerFire, Promise!vars, outputVars
<1>4. ASSUME NEW entry \in TakeEligible, Start(entry)
      PROVE  UNCHANGED Promise!vars
  <2>1. Pending' = Pending BY <1>4 DEF Start, Pending, TakeEligible
  <2>2. Wanted' = Wanted BY <1>4, <2>1, WantedUntouched DEF Start
  <2> QED BY <1>4, <2>2 DEF Start, Promise!vars, outputVars
<1>5. ASSUME NEW entry \in TakeEligible, Drop(entry)
      PROVE  UNCHANGED Promise!vars
  <2>1. \A r \in Pending : r \in Pending' \/ Superseded(r)
    BY <1>5 DEF Drop, Pending
  <2>2. Pending' \subseteq Pending BY <1>5 DEF Drop, Pending
  <2>3. Wanted' = Wanted BY <1>5, <2>1, <2>2, WantedUntouched DEF Drop
  <2> QED BY <1>5, <2>3 DEF Drop, Promise!vars, outputVars
<1>6. ASSUME Stop PROVE UNCHANGED Promise!vars
  BY <1>6 DEF Stop, Promise!vars, outputVars, Wanted, Pending
<1>7. CASE \E request \in scanning, hasOutcome \in BOOLEAN : Settle(request, hasOutcome)
  BY <1>7, SettlePromise, KeyOfType DEF Promise!Next, TypeOK
<1>8. ASSUME NEW request \in settled, Release(request)
      PROVE  UNCHANGED Promise!vars
  BY <1>8 DEF Release, Promise!vars, outputVars, Wanted, Pending
<1>9. CASE \E project \in Project : CancelProject(project)
  BY <1>9, CancelProjectPromise DEF Promise!Next
<1>10. CASE Dispose BY <1>10, DisposePromise DEF Promise!Next
<1> QED BY <1>1, <1>2, <1>3, <1>4, <1>5, <1>6, <1>7, <1>8, <1>9, <1>10 DEF Next

(* Per key only the newest request is ever answered, at most once, never    *)
(* after its project was cancelled or the scheduler disposed, and a wanted  *)
(* request is dropped only by a newer one, a cancel or a dispose.           *)
THEOREM ImplementsPromise == Spec => Promise!Safety
<1>1. DInv /\ [Next]_vars => [Promise!Next]_(Promise!vars) BY NextPromise
<1> QED BY InitPromise, DInvariant, <1>1, PTL DEF Spec, Promise!Safety

-----------------------------------------------------------------------------
(* The status of the server.                                               *)

(* Until two create requests were open together, an open one has found and *)
(* left nothing to show.                                                   *)
OneRoundTrip ==
  ~overlapped => /\ creating # {} => progresses = {}
                 /\ \A r, s \in creating : r = s

(* The two halves of an episode of degraded lint begin together.           *)
WarnedWhileDegraded == lintWarningShown => serverHealth = "warning"

(* OrphanNeedsOverlap needs to know what an open request left behind, and  *)
(* EveryEpisodeWarned that lintWarningShown never outlives the episode.    *)
StatusIInv ==
  /\ StatusTypeOK
  /\ StatusUpToDate
  /\ NoProgressWhileIdle
  /\ OrphanNeedsOverlap
  /\ EveryEpisodeWarned
  /\ OneRoundTrip
  /\ WarnedWhileDegraded

LEMMA StatusType ==
  ASSUME NEW health \in {"ok", "warning"}, NEW busy \in BOOLEAN
  PROVE  Status(health, busy) \in [health : {"ok", "warning"}, quiescent : BOOLEAN]
BY DEF Status

LEMMA StatusInitIInv == StatusInit => StatusIInv
<1> SUFFICES ASSUME StatusInit PROVE StatusIInv OBVIOUS
<1>1. published \in [health : {"ok", "warning"}, quiescent : BOOLEAN]
  BY StatusType DEF StatusInit
<1>2. StatusTypeOK
  <2>1. requests \in 0..MaxRoundTrips /\ restarts \in 0..MaxRestarts
    BY RoundTripsAssumption, RestartsAssumption DEF StatusInit
  <2>2. /\ creating \in SUBSET Reporter /\ progresses \in SUBSET Reporter
        /\ workDoneProgress \in progresses \union {0}
    BY DEF StatusInit
  <2>3. /\ serverHealth \in {"ok", "warning"} /\ lint \in {"fine", "broken"}
        /\ isBusy \in BOOLEAN /\ lintWarningShown \in BOOLEAN
        /\ overlapped \in BOOLEAN /\ warned \in BOOLEAN
    BY DEF StatusInit
  <2> QED BY <1>1, <2>1, <2>2, <2>3 DEF StatusTypeOK
<1>3. StatusUpToDate /\ NoProgressWhileIdle BY DEF StatusInit, StatusUpToDate, NoProgressWhileIdle
<1>4. OrphanNeedsOverlap /\ EveryEpisodeWarned /\ OneRoundTrip /\ WarnedWhileDegraded
  BY DEF StatusInit, OrphanNeedsOverlap, EveryEpisodeWarned, OneRoundTrip, WarnedWhileDegraded
<1> QED BY <1>2, <1>3, <1>4 DEF StatusIInv

(* Steps of the progress leave the lint health alone, and conversely.      *)
LEMMA HealthUntouched ==
  ASSUME StatusIInv, UNCHANGED healthVars
  PROVE  EveryEpisodeWarned' /\ WarnedWhileDegraded'
BY DEF StatusIInv, healthVars, EveryEpisodeWarned, WarnedWhileDegraded

LEMMA ProgressUntouched ==
  ASSUME StatusIInv, UNCHANGED progressVars
  PROVE  NoProgressWhileIdle' /\ OrphanNeedsOverlap' /\ OneRoundTrip'
BY DEF StatusIInv, progressVars, NoProgressWhileIdle, OrphanNeedsOverlap, OneRoundTrip

LEMMA BecomeBusyIInv == ASSUME StatusIInv, BecomeBusy PROVE StatusIInv'
<1> USE DEF StatusIInv
<1>1. /\ ~isBusy /\ isBusy' = TRUE /\ requests' = requests + 1
      /\ requests' \in 1..MaxRoundTrips
      /\ creating' = creating \union {requests'}
      /\ overlapped' = (overlapped \/ creating # {})
      /\ UNCHANGED <<workDoneProgress, progresses, healthVars>>
      /\ published' = Status(serverHealth', isBusy')
  BY RoundTripsAssumption DEF BecomeBusy, PublishServerStatus, StatusTypeOK
<1>2. StatusTypeOK'
  <2>1. creating' \in SUBSET Reporter /\ requests' \in 0..MaxRoundTrips
    BY <1>1 DEF StatusTypeOK, Reporter
  <2>2. overlapped' \in BOOLEAN BY <1>1 DEF StatusTypeOK
  <2>3. published' \in [health : {"ok", "warning"}, quiescent : BOOLEAN]
    BY <1>1 DEF StatusTypeOK, Status, healthVars
  <2> QED BY <1>1, <2>1, <2>2, <2>3 DEF StatusTypeOK, healthVars
<1>3. StatusUpToDate' BY <1>1 DEF StatusUpToDate
<1>4. NoProgressWhileIdle' BY <1>1 DEF NoProgressWhileIdle
<1>5. OrphanNeedsOverlap' /\ OneRoundTrip'
  <2> SUFFICES ASSUME ~overlapped' PROVE OrphanNeedsOverlap' /\ OneRoundTrip'
    BY DEF OrphanNeedsOverlap, OneRoundTrip
  <2>1. ~overlapped /\ creating = {} BY <1>1
  <2>2. progresses \subseteq {0} BY <1>1, <2>1 DEF OrphanNeedsOverlap, NoProgressWhileIdle
  <2>3. progresses = {} BY <2>2 DEF StatusTypeOK, Reporter
  <2> QED BY <1>1, <2>1, <2>3 DEF OrphanNeedsOverlap, OneRoundTrip
<1>6. EveryEpisodeWarned' /\ WarnedWhileDegraded' BY <1>1, HealthUntouched
<1> QED BY <1>2, <1>3, <1>4, <1>5, <1>6

LEMMA BecomeIdleIInv == ASSUME StatusIInv, BecomeIdle PROVE StatusIInv'
<1> USE DEF StatusIInv
<1>1. /\ isBusy' = FALSE /\ progresses' = progresses \ {workDoneProgress} /\ workDoneProgress' = 0
      /\ UNCHANGED <<creating, requests, overlapped, healthVars>>
      /\ published' = Status(serverHealth', isBusy')
  BY DEF BecomeIdle, PublishServerStatus
<1>2. StatusTypeOK' BY <1>1 DEF StatusTypeOK, Status, healthVars
<1>3. /\ StatusUpToDate' /\ NoProgressWhileIdle' /\ OrphanNeedsOverlap' /\ OneRoundTrip'
  BY <1>1 DEF StatusUpToDate, NoProgressWhileIdle, OrphanNeedsOverlap, OneRoundTrip
<1>4. EveryEpisodeWarned' /\ WarnedWhileDegraded' BY <1>1, HealthUntouched
<1> QED BY <1>2, <1>3, <1>4

LEMMA CreatedIInv ==
  ASSUME StatusIInv, NEW reporter \in creating, Created(reporter) PROVE StatusIInv'
<1> USE DEF StatusIInv
<1>1. /\ creating' = creating \ {reporter}
      /\ UNCHANGED <<isBusy, requests, overlapped, healthVars, published>>
      /\ \/ isBusy /\ workDoneProgress' = reporter /\ progresses' = progresses \union {reporter}
         \/ ~isBusy /\ UNCHANGED <<workDoneProgress, progresses>>
  BY DEF Created
<1>2. StatusTypeOK' BY <1>1 DEF StatusTypeOK, healthVars
<1>3. StatusUpToDate' /\ NoProgressWhileIdle'
  BY <1>1 DEF StatusUpToDate, NoProgressWhileIdle, healthVars
<1>4. OrphanNeedsOverlap' /\ OneRoundTrip'
  BY <1>1 DEF OrphanNeedsOverlap, OneRoundTrip
<1>5. EveryEpisodeWarned' /\ WarnedWhileDegraded' BY <1>1, HealthUntouched
<1> QED BY <1>2, <1>3, <1>4, <1>5

LEMMA CreateFailedIInv ==
  ASSUME StatusIInv, NEW reporter \in creating, CreateFailed(reporter) PROVE StatusIInv'
<1> USE DEF StatusIInv
<1>1. /\ creating' = creating \ {reporter}
      /\ UNCHANGED <<isBusy, workDoneProgress, progresses, requests, overlapped,
                     healthVars, published>>
  BY DEF CreateFailed
<1>2. StatusTypeOK' BY <1>1 DEF StatusTypeOK, healthVars
<1>3. /\ StatusUpToDate' /\ NoProgressWhileIdle' /\ OrphanNeedsOverlap' /\ OneRoundTrip'
  BY <1>1 DEF StatusUpToDate, NoProgressWhileIdle, OrphanNeedsOverlap, OneRoundTrip,
     healthVars
<1>4. EveryEpisodeWarned' /\ WarnedWhileDegraded' BY <1>1, HealthUntouched
<1> QED BY <1>2, <1>3, <1>4

LEMMA MaybeWarnIInv ==
  ASSUME StatusIInv, NEW kind \in OutcomeKind, MaybeWarn(kind) PROVE StatusIInv'
<1> USE DEF StatusIInv
<1>1. /\ UNCHANGED <<progressVars, restarts>>
      /\ lint' \in {"fine", "broken"}
      /\ \/ /\ serverHealth' = "warning" /\ lintWarningShown' = TRUE
            /\ warned' = (warned \/ ~lintWarningShown)
         \/ /\ serverHealth' = "ok" /\ lintWarningShown' = FALSE /\ warned' = FALSE
      /\ IF serverHealth' # serverHealth
         THEN published' = Status(serverHealth', isBusy') ELSE UNCHANGED published
  <2>1. serverHealth = "ok" => ~lintWarningShown BY DEF WarnedWhileDegraded
  <2> QED BY <2>1 DEF MaybeWarn, Recover, PublishServerStatus, StatusTypeOK
<1>2. StatusUpToDate' BY <1>1 DEF StatusUpToDate, progressVars
<1>3. StatusTypeOK'
  <2>1. isBusy' \in BOOLEAN /\ serverHealth' \in {"ok", "warning"}
    BY <1>1 DEF StatusTypeOK, progressVars
  <2>2. published' \in [health : {"ok", "warning"}, quiescent : BOOLEAN]
    BY <1>2, <2>1, StatusType DEF StatusUpToDate
  <2>3. warned' \in BOOLEAN /\ lintWarningShown' \in BOOLEAN BY <1>1 DEF StatusTypeOK
  <2> QED BY <1>1, <2>1, <2>2, <2>3 DEF StatusTypeOK, progressVars
<1>4. EveryEpisodeWarned' /\ WarnedWhileDegraded'
  BY <1>1 DEF EveryEpisodeWarned, WarnedWhileDegraded
<1>5. NoProgressWhileIdle' /\ OrphanNeedsOverlap' /\ OneRoundTrip'
  BY <1>1, ProgressUntouched
<1> QED BY <1>2, <1>3, <1>4, <1>5

LEMMA RestartCommandIInv == ASSUME StatusIInv, RestartCommand PROVE StatusIInv'
<1> USE DEF StatusIInv
<1>1. /\ restarts' = restarts + 1 /\ restarts' \in 0..MaxRestarts
      /\ lintWarningShown' = FALSE
      /\ UNCHANGED <<progressVars, serverHealth, lint, warned, published>>
  BY RestartsAssumption DEF RestartCommand, StatusTypeOK
<1>2. StatusTypeOK' BY <1>1 DEF StatusTypeOK, progressVars
<1>3. StatusUpToDate' /\ EveryEpisodeWarned' /\ WarnedWhileDegraded'
  BY <1>1 DEF StatusUpToDate, EveryEpisodeWarned, WarnedWhileDegraded, progressVars
<1>4. NoProgressWhileIdle' /\ OrphanNeedsOverlap' /\ OneRoundTrip'
  BY <1>1, ProgressUntouched
<1> QED BY <1>2, <1>3, <1>4

LEMMA StatusNextIInv == ASSUME StatusIInv, [StatusNext]_statusVars PROVE StatusIInv'
<1>1. CASE UNCHANGED statusVars
  BY <1>1 DEF statusVars, progressVars, healthVars, StatusIInv, StatusTypeOK, StatusUpToDate,
     NoProgressWhileIdle, OrphanNeedsOverlap, EveryEpisodeWarned, OneRoundTrip,
     WarnedWhileDegraded
<1>2. CASE StatusNext
  BY <1>2, BecomeBusyIInv, BecomeIdleIInv, CreatedIInv, CreateFailedIInv,
     MaybeWarnIInv, RestartCommandIInv DEF StatusNext
<1> QED BY <1>1, <1>2

(* What an open create request left behind is known throughout.            *)
THEOREM StatusIInvariant == StatusSpec => []StatusIInv
<1>1. StatusIInv /\ [StatusNext]_statusVars => StatusIInv' BY StatusNextIInv
<1> QED BY StatusInitIInv, <1>1, PTL DEF StatusSpec

(* Every variable keeps its type.                                          *)
THEOREM StatusTypeCorrect == StatusSpec => []StatusTypeOK
<1>1. StatusIInv => StatusTypeOK BY DEF StatusIInv
<1> QED BY StatusIInvariant, <1>1, PTL

(* The editor always holds the server's current status.                    *)
THEOREM StatusPublished == StatusSpec => []StatusUpToDate
<1>1. StatusIInv => StatusUpToDate BY DEF StatusIInv
<1> QED BY StatusIInvariant, <1>1, PTL

(* A progress can only be orphaned by two create requests open together.   *)
THEOREM OrphanCause == StatusSpec => []OrphanNeedsOverlap
<1>1. StatusIInv => OrphanNeedsOverlap BY DEF StatusIInv
<1> QED BY StatusIInvariant, <1>1, PTL

(* Every episode of degraded lint warns the user.                          *)
THEOREM EpisodeWarns == StatusSpec => []EveryEpisodeWarned
<1>1. StatusIInv => EveryEpisodeWarned BY DEF StatusIInv
<1> QED BY StatusIInvariant, <1>1, PTL

-----------------------------------------------------------------------------
(* The feedback: every step is one of the scheduler and one of the status, *)
(* or leaves it alone, so what holds of either holds of both together.     *)

HandlerTyped ==
  handler \in [entered : BOOLEAN, cancel : SUBSET Project, scans : SUBSET Key,
               chunks : SUBSET Key, asked : SUBSET Nat]

LEMMA HandleTyped ==
  ASSUME HandlerTyped, NEW cancel \in SUBSET Project, NEW scans \in SUBSET Key,
         NEW chunks \in SUBSET Key, Handle(cancel, scans, chunks)
  PROVE  HandlerTyped'
BY DEF Handle, HandlerTyped

(* The handlers that start.                                                *)
Starts == InitialScan \/ FoldersChange \/ ConfigChange \/ Restart \/ ScanWorkspaceFull

LEMMA StartsStep ==
  ASSUME HandlerTyped, Starts
  PROVE  /\ HandlerTyped' /\ AtEventLoop /\ handler = Handled /\ handler'.asked = {}
         /\ UNCHANGED <<vars, burst, event>>
         /\ UNCHANGED statusVars \/ RestartCommand
<1>1. ASSUME NEW open \in SUBSET FileKey, NEW chunks \in ChunksFor(open)
      PROVE  chunks \in SUBSET Key /\ open \in SUBSET Key
  BY DEF ChunksFor, FileKey
<1>2. WholeKey \in SUBSET Key /\ {} \in SUBSET FileKey /\ {} \in SUBSET Key
      /\ {} \in SUBSET Project
  BY DEF WholeKey
<1>3. PICK cancel \in SUBSET Project, scans \in SUBSET Key, chunks \in SUBSET Key :
        Handle(cancel, scans, chunks)
  <2>1. CASE InitialScan
    <3>1. PICK chunks \in ChunksFor({}) : Handle({}, {}, chunks) BY <2>1 DEF InitialScan
    <3> QED BY <1>1, <1>2, <3>1
  <2>2. CASE FoldersChange
    <3>1. PICK removed \in SUBSET Project, open \in SUBSET FileKey :
            \E chunks \in ChunksFor(open) : Handle(removed, open, chunks)
      BY <2>2 DEF FoldersChange
    <3> QED BY <1>1, <3>1
  <2>3. CASE ConfigChange \/ Restart
    <3>1. PICK open \in SUBSET FileKey :
            \E chunks \in ChunksFor(open) : Handle(Project, open, chunks)
      BY <2>3 DEF ConfigChange, Restart, RescanWorkspaceFromScratch
    <3> QED BY <1>1, <3>1
  <2>4. CASE ScanWorkspaceFull
    <3>1. PICK open \in SUBSET FileKey : Handle(Project, open, WholeKey)
      BY <2>4 DEF ScanWorkspaceFull
    <3>2. open \in SUBSET Key BY DEF FileKey
    <3> QED BY <1>2, <3>1, <3>2
  <2> QED BY <2>1, <2>2, <2>3, <2>4 DEF Starts
<1>4. /\ HandlerTyped' /\ AtEventLoop /\ handler = Handled /\ handler'.asked = {}
      /\ UNCHANGED <<vars, burst, event>>
  BY <1>3, HandleTyped DEF Handle, NoHandler
<1>5. UNCHANGED statusVars \/ RestartCommand
  BY DEF Starts, InitialScan, FoldersChange, ConfigChange, Restart, ScanWorkspaceFull
<1> QED BY <1>4, <1>5

LEMMA IdleChangeIsStatus == ASSUME OnIdleChange PROVE [StatusNext]_statusVars
BY DEF OnIdleChange, SetBusy, StatusNext

LEMMA FeedbackIsScheduler ==
  ASSUME HandlerTyped, [FeedbackNext]_feedbackVars PROVE [Next]_vars
<1>1. CASE UNCHANGED feedbackVars BY <1>1 DEF feedbackVars
<1>2. CASE SchedulerRuns
  BY <1>2 DEF SchedulerRuns, FiresTimer, Drains, ScanSettles, Next
<1>3. CASE ClientAnswers BY <1>3 DEF ClientAnswers
<1>4. CASE ScheduleFileScan BY <1>4 DEF ScheduleFileScan, FileKey, Next
<1>5. CASE Starts BY <1>5, StartsStep
<1>6. CASE HandlerRuns
  BY <1>6 DEF HandlerRuns, HandlerCancels, HandlerEnqueuesFile, HandlerEnqueuesChunk,
     HandlerEnds, HandlerTyped, Next, Priority
<1> QED BY <1>1, <1>2, <1>3, <1>4, <1>5, <1>6 DEF FeedbackNext, Starts

LEMMA FeedbackIsStatus ==
  ASSUME HandlerTyped, [FeedbackNext]_feedbackVars PROVE [StatusNext]_statusVars
<1>1. CASE UNCHANGED feedbackVars BY <1>1 DEF feedbackVars
<1>2. CASE SchedulerRuns
  BY <1>2, IdleChangeIsStatus DEF SchedulerRuns, FiresTimer, Drains, ScanSettles, OnResult,
     NothingReported, StatusNext
<1>3. CASE ClientAnswers BY <1>3 DEF ClientAnswers, StatusNext
<1>4. CASE ScheduleFileScan BY <1>4 DEF ScheduleFileScan, NothingReported
<1>5. CASE Starts BY <1>5, StartsStep DEF StatusNext
<1>6. CASE HandlerRuns
  BY <1>6, IdleChangeIsStatus DEF HandlerRuns, HandlerCancels, HandlerEnqueuesFile,
     HandlerEnqueuesChunk, HandlerEnds, NothingReported
<1> QED BY <1>1, <1>2, <1>3, <1>4, <1>5, <1>6 DEF FeedbackNext, Starts

LEMMA NextHandlerTyped ==
  ASSUME HandlerTyped, IInv, [FeedbackNext]_feedbackVars PROVE HandlerTyped'
<1>1. CASE UNCHANGED handler BY <1>1 DEF HandlerTyped
<1>2. CASE Starts BY <1>2, StartsStep
<1>3. CASE HandlerRuns
  <2>1. generation' \in Nat
    BY FeedbackIsScheduler, NextIInv DEF IInv, TypeOK
  <2>2. ASSUME NEW project \in handler.cancel, HandlerCancels(project) PROVE HandlerTyped'
    <3>1. handler' = [handler EXCEPT !.cancel = @ \ {project}] BY <2>2 DEF HandlerCancels
    <3> QED BY <3>1 DEF HandlerTyped
  <2>3. ASSUME NEW key \in handler.scans, HandlerEnqueuesFile(key) PROVE HandlerTyped'
    <3>1. handler' = [handler EXCEPT !.scans = @ \ {key}] BY <2>3 DEF HandlerEnqueuesFile
    <3> QED BY <3>1 DEF HandlerTyped
  <2>4. ASSUME NEW key \in handler.chunks, HandlerEnqueuesChunk(key) PROVE HandlerTyped'
    <3>1. handler' = [handler EXCEPT !.chunks = @ \ {key}, !.asked = @ \union {generation'}]
      BY <2>4 DEF HandlerEnqueuesChunk
    <3> QED BY <2>1, <3>1 DEF HandlerTyped
  <2>5. CASE HandlerEnds BY <2>5 DEF HandlerEnds, HandlerTyped, Handled
  <2> QED BY <1>3, <2>2, <2>3, <2>4, <2>5 DEF HandlerRuns
<1> QED BY <1>1, <1>2, <1>3 DEF FeedbackNext, Starts, SchedulerRuns, ClientAnswers,
        ScheduleFileScan, feedbackVars

(* The composition implements the scheduler and the status: no callback    *)
(* asks of either what it would not do alone.                              *)
THEOREM FeedbackImplements == FeedbackSpec => Spec /\ StatusSpec
<1> DEFINE Held == HandlerTyped /\ IInv
<1>1. FeedbackInit => Held /\ Init /\ StatusInit
  BY InitIInv DEF FeedbackInit, HandlerTyped, Handled
<1>2. Held /\ [FeedbackNext]_feedbackVars => Held' /\ [Next]_vars /\ [StatusNext]_statusVars
  BY FeedbackIsScheduler, FeedbackIsStatus, NextHandlerTyped, NextIInv
<1> HIDE DEF Held
<1> QED BY <1>1, <1>2, PTL DEF FeedbackSpec, Spec, StatusSpec

(* What is under way, and what is left when an idle report is true.        *)
Ongoing == Pending \union settled

NothingOngoing == timers = {} /\ queue = {} /\ scanning = {} /\ settled = {}

LEMMA NoOngoing == NothingOngoing <=> Ongoing = {}
BY DEF NothingOngoing, Ongoing, Pending

(* Nothing but a new id comes under way.                                   *)
LEMMA OngoingStays ==
  ASSUME IInv, [Next]_vars
  PROVE  /\ generation' \in Nat /\ generation <= generation'
         /\ \A r \in Ongoing' : r \in Ongoing \/ r.id > generation
<1> USE DEF Ongoing, Pending
<1>1. generation \in Nat /\ generation' \in Nat BY NextIInv DEF IInv, TypeOK
<1>2. CASE UNCHANGED vars BY <1>1, <1>2 DEF vars
<1>3. ASSUME NEW key \in Key, NEW priority \in Priority, Enqueue(key, priority)
      PROVE  generation <= generation' /\ \A r \in Ongoing' : r \in Ongoing \/ r.id > generation
  <2> DEFINE request == [id |-> generation + 1, projectDirectory |-> key[1],
                         files |-> key[2], priority |-> priority]
  <2>1. /\ generation' = generation + 1 /\ timers' \subseteq timers \union {request}
        /\ UNCHANGED <<queue, scanning, settled>>
    BY <1>3 DEF Enqueue, Rearmed
  <2>2. request.id = generation + 1 OBVIOUS
  <2> HIDE DEF request
  <2> QED BY <1>1, <2>1, <2>2
<1>4. ASSUME NEW request \in timers, TimerFire(request)
      PROVE  generation <= generation' /\ Ongoing' \subseteq Ongoing
  <2>1. UNCHANGED <<generation, scanning, settled>> /\ timers' \subseteq timers
    BY <1>4 DEF TimerFire
  <2>2. \A e \in queue' : e \in queue \/ e.request = request
    BY <1>4 DEF TimerFire
  <2> QED BY <1>1, <2>1, <2>2
<1>5. ASSUME NEW entry \in TakeEligible, Start(entry) \/ Drop(entry)
      PROVE  generation <= generation' /\ Ongoing' \subseteq Ongoing
  BY <1>1, <1>5 DEF Start, Drop, TakeEligible
<1>6. CASE Stop BY <1>1, <1>6 DEF Stop
<1>7. ASSUME NEW request \in scanning, NEW hasOutcome \in BOOLEAN,
             Settle(request, hasOutcome)
      PROVE  generation <= generation' /\ Ongoing' \subseteq Ongoing
  BY <1>1, <1>7 DEF Settle
<1>8. ASSUME NEW request \in settled, Release(request)
      PROVE  generation <= generation' /\ Ongoing' \subseteq Ongoing
  BY <1>1, <1>8 DEF Release
<1>9. ASSUME NEW project \in Project, CancelProject(project)
      PROVE  generation <= generation' /\ Ongoing' \subseteq Ongoing
  <2> DEFINE asked == {k \in Key : k[1] = project /\ latestGeneration[k] # 0}
  <2>1. IsFiniteSet(asked) BY KeyAssumption, FS_Subset
  <2>2. Cardinality(asked) \in Nat BY <2>1, FS_CardinalityType
  <2>3. generation' = generation + Cardinality(asked) BY <1>9 DEF CancelProject
  <2>4. /\ timers' \subseteq timers /\ queue' \subseteq queue
        /\ UNCHANGED <<scanning, settled>>
    BY <1>9 DEF CancelProject
  <2> HIDE DEF asked
  <2> QED BY <1>1, <2>2, <2>3, <2>4
<1>10. CASE Dispose BY <1>1, <1>10 DEF Dispose
<1> QED BY <1>1, <1>2, <1>3, <1>4, <1>5, <1>6, <1>7, <1>8, <1>9, <1>10 DEF Next

(* An idle report is given when nothing is under way, a busy one when      *)
(* something is.                                                           *)
LEMMA ReportIsTrue ==
  ASSUME IInv', NotifyIdle PROVE idle' <=> NothingOngoing'
<1>1. idle' <=> running' = 0 /\ queue' = {} /\ timers' = {} BY Zenon DEF NotifyIdle
<1>2. running' = Cardinality(Holding') /\ IsFiniteSet(scanning') /\ IsFiniteSet(settled')
  BY DEF IInv, SlotsConserved, TypeOK
<1>3. IsFiniteSet(Holding') BY <1>2, FS_Union DEF Holding
<1>4. running' = 0 <=> Holding' = {} BY <1>2, <1>3, FS_EmptySet
<1> QED BY <1>1, <1>4 DEF NothingOngoing, Holding

(* A burst is open only while scans are under way, since the handler that  *)
(* opens it has just armed their timers; what it and the last event asked  *)
(* for has ids that were issued.                                           *)
FInv ==
  /\ HandlerTyped /\ burst \in Burst /\ event \in Burst
  /\ IInv /\ StatusIInv
  /\ isBusy = ~idle
  /\ \A i \in handler.asked \union burst.asked \union event.asked : i <= generation
  /\ handler.asked # {} => handler.cancel = {} /\ timers # {}
  /\ burst.open /\ control = "loop" /\ ~disposed => ~NothingOngoing
  /\ EventsAreSettled

LEMMA InitFInv == FeedbackInit => FInv
<1> SUFFICES ASSUME FeedbackInit PROVE FInv OBVIOUS
<1>1. Init /\ StatusInit /\ handler = Handled /\ burst = NoBurst /\ event = NoBurst
  BY DEF FeedbackInit
<1>2. IInv /\ StatusIInv BY <1>1, InitIInv, StatusInitIInv
<1>3. isBusy = ~idle BY <1>1 DEF Init, StatusInit
<1>4. HandlerTyped /\ burst \in Burst /\ event \in Burst
  BY <1>1 DEF HandlerTyped, Handled, NoBurst, Burst
<1>5. handler.asked = {} /\ burst.asked = {} /\ event.asked = {} /\ ~burst.open
  BY <1>1 DEF Handled, NoBurst
<1> QED BY <1>2, <1>3, <1>4, <1>5 DEF FInv, EventsAreSettled

(* The parts that follow from what the scheduler and the status prove.     *)
LEMMA NextBoth ==
  ASSUME FInv, [FeedbackNext]_feedbackVars
  PROVE  /\ HandlerTyped' /\ IInv' /\ StatusIInv' /\ [Next]_vars
         /\ generation \in Nat /\ generation' \in Nat /\ generation <= generation'
         /\ \A r \in Ongoing' : r \in Ongoing \/ r.id > generation
<1>1. [Next]_vars /\ [StatusNext]_statusVars
  BY FeedbackIsScheduler, FeedbackIsStatus DEF FInv
<1>2. generation \in Nat BY DEF FInv, IInv, TypeOK
<1> QED BY <1>1, <1>2, NextHandlerTyped, NextIInv, StatusNextIInv, OngoingStays DEF FInv

(* An event that stays is of scans that stay over.                         *)
LEMMA SameEvent ==
  ASSUME FInv, [FeedbackNext]_feedbackVars, event' = event PROVE EventsAreSettled'
<1>1. event.asked \intersect {r.id : r \in Ongoing} = {}
  BY DEF FInv, EventsAreSettled, Ongoing
<1>2. \A i \in event.asked : i \in Nat /\ i <= generation BY DEF FInv, Burst
<1>3. \A r \in Ongoing' : r.id \notin event.asked
  BY <1>1, <1>2, NextBoth
<1> QED BY <1>3 DEF EventsAreSettled, Ongoing

(* A step that reports to onIdleChange.                                    *)
LEMMA ReportFInv ==
  ASSUME FInv, [FeedbackNext]_feedbackVars, NotifyIdle, OnIdleChange,
         handler'.asked = handler.asked, handler'.cancel \subseteq handler.cancel,
         handler.asked = {}
  PROVE  FInv'
<1> USE DEF FInv
<1>1. /\ HandlerTyped' /\ IInv' /\ StatusIInv' /\ generation <= generation'
      /\ generation \in Nat /\ generation' \in Nat
  BY NextBoth
<1>2. idle' <=> NothingOngoing' BY <1>1, ReportIsTrue
<1>3. isBusy' = ~idle'
  <2>1. idle' \in BOOLEAN /\ isBusy \in BOOLEAN
    BY <1>1 DEF IInv, TypeOK, StatusIInv, StatusTypeOK
  <2> QED BY <2>1 DEF OnIdleChange, SetBusy, BecomeBusy, BecomeIdle, statusVars, progressVars
<1>4. CASE idle'
  <2>1. burst' = NoBurst /\ (event' = event \/ event' = burst)
    BY <1>4 DEF OnIdleChange, FinishBurst
  <2>2. Ongoing' = {} BY <1>2, <1>4 DEF NothingOngoing, Ongoing, Pending
  <2>3. EventsAreSettled' BY <2>2 DEF EventsAreSettled, Ongoing
  <2>4. burst' \in Burst /\ event' \in Burst BY <2>1 DEF NoBurst, Burst
  <2>5. \A i \in handler'.asked \union burst'.asked \union event'.asked : i <= generation'
    BY <1>1, <2>1 DEF NoBurst, Burst
  <2> QED BY <1>1, <1>3, <2>1, <2>3, <2>4, <2>5 DEF NoBurst
<1>5. CASE ~idle'
  <2>1. UNCHANGED <<burst, event>> BY <1>5 DEF OnIdleChange
  <2>2. EventsAreSettled' BY <2>1, SameEvent
  <2>3. \A i \in burst.asked \union event.asked : i \in Nat BY DEF Burst
  <2>4. \A i \in handler'.asked \union burst'.asked \union event'.asked : i <= generation'
    BY <1>1, <2>1, <2>3
  <2> QED BY <1>1, <1>2, <1>3, <1>5, <2>1, <2>2, <2>4
<1> QED BY <1>4, <1>5

(* A step that reports nothing and leaves something under way, or leaves   *)
(* the drain to report.                                                    *)
LEMMA QuietFInv ==
  ASSUME FInv, [FeedbackNext]_feedbackVars, UNCHANGED <<isBusy, idle, event>>,
         burst' \in Burst, burst'.open = burst.open, burst'.asked = burst.asked,
         UNCHANGED handler \/ handler'.asked = {}, handler = Handled \/ timers' = timers,
         \/ control' = "drain" \/ disposed' \/ ~NothingOngoing'
         \/ UNCHANGED <<control, disposed, timers, queue, scanning, settled>>
  PROVE  FInv'
<1> USE DEF FInv
<1>1. /\ HandlerTyped' /\ IInv' /\ StatusIInv' /\ generation <= generation'
      /\ generation \in Nat /\ generation' \in Nat
  BY NextBoth
<1>2. EventsAreSettled' BY SameEvent
<1>3. \A i \in burst.asked \union event.asked \union handler.asked : i \in Nat
  BY DEF Burst, HandlerTyped
<1>4. handler'.asked \subseteq handler.asked
  BY DEF HandlerTyped
<1>5. \A i \in handler'.asked \union burst'.asked \union event'.asked : i <= generation'
  BY <1>1, <1>3, <1>4
<1>6. handler'.asked # {} => handler'.cancel = {} /\ timers' # {}
  BY DEF Handled
<1>7. burst'.open /\ control' = "loop" /\ ~disposed' => ~NothingOngoing'
  BY DEF NothingOngoing
<1> QED BY <1>1, <1>2, <1>5, <1>6, <1>7

LEMMA ScanSettlesFInv ==
  ASSUME FInv, NoHandler, UNCHANGED handler, NEW request \in scanning,
         NEW hasOutcome \in BOOLEAN, ScanSettles(request, hasOutcome),
         [FeedbackNext]_feedbackVars
  PROVE  FInv'
<1>1. /\ settled' = settled \union {request} /\ UNCHANGED idle /\ handler = Handled
  BY DEF ScanSettles, Settle, NoHandler
<1>2. ~NothingOngoing' BY <1>1 DEF NothingOngoing
<1>3. request.id \in Nat BY DEF FInv, IInv, TypeOK, Request
<1>4. UNCHANGED <<isBusy, event>>
      /\ burst' \in {burst, [burst EXCEPT !.counted = @ \union {request.id}]}
  BY DEF ScanSettles, OnResult, Accumulate, NothingReported, MaybeWarn, progressVars, statusVars
<1>5. burst' \in Burst /\ burst'.open = burst.open /\ burst'.asked = burst.asked
  <2>1. burst \in Burst BY DEF FInv
  <2>2. CASE burst' = burst BY <2>1, <2>2
  <2>3. CASE burst' = [burst EXCEPT !.counted = @ \union {request.id}]
    BY <1>3, <2>1, <2>3 DEF Burst
  <2> QED BY <1>4, <2>2, <2>3
<1> QED BY <1>1, <1>2, <1>4, <1>5, QuietFInv

LEMMA SchedulerRunsFInv ==
  ASSUME FInv, SchedulerRuns, [FeedbackNext]_feedbackVars PROVE FInv'
<1>1. handler = Handled /\ UNCHANGED handler /\ handler.asked = {}
  BY DEF SchedulerRuns, NoHandler, Handled
<1>2. burst \in Burst BY DEF FInv
<1>3. ASSUME NEW request \in timers, FiresTimer(request) PROVE FInv'
  <2>1. CASE Superseded(request)
    <3>1. NotifyIdle /\ OnIdleChange BY <1>3, <2>1 DEF FiresTimer, TimerFire
    <3> QED BY <1>1, <3>1, ReportFInv
  <2>2. CASE ~Superseded(request)
    <3>1. control' = "drain" /\ UNCHANGED idle /\ NothingReported
      BY <1>3, <2>2 DEF FiresTimer, TimerFire
    <3> QED BY <1>1, <1>2, <3>1, QuietFInv DEF NothingReported, statusVars, progressVars
  <2> QED BY <2>1, <2>2
<1>4. CASE Stop /\ OnIdleChange
  <2>1. NotifyIdle BY <1>4 DEF Stop
  <2> QED BY <1>1, <1>4, <2>1, ReportFInv
<1>5. ASSUME NEW entry \in TakeEligible, Start(entry) \/ Drop(entry), NothingReported
      PROVE  FInv'
  <2>1. control' = "drain" /\ UNCHANGED idle BY <1>5 DEF Start, Drop
  <2> QED BY <1>1, <1>2, <1>5, <2>1, QuietFInv DEF NothingReported, statusVars, progressVars
<1>6. ASSUME NEW request \in scanning, NEW hasOutcome \in BOOLEAN,
             ScanSettles(request, hasOutcome)
      PROVE  FInv'
  BY <1>1, <1>6, ScanSettlesFInv DEF NoHandler
<1>7. ASSUME NEW request \in settled, Release(request), NothingReported PROVE FInv'
  <2>1. control' = "drain" /\ UNCHANGED idle BY <1>7 DEF Release
  <2> QED BY <1>1, <1>2, <1>7, <2>1, QuietFInv DEF NothingReported, statusVars, progressVars
<1>8. CASE Dispose /\ NothingReported
  <2>1. disposed' /\ UNCHANGED idle BY <1>8 DEF Dispose
  <2> QED BY <1>1, <1>2, <1>8, <2>1, QuietFInv DEF NothingReported, statusVars, progressVars
<1> QED BY <1>3, <1>4, <1>5, <1>6, <1>7, <1>8 DEF SchedulerRuns, Drains

(* An enqueue arms a timer, so whatever burst is open has something left.  *)
LEMMA EnqueueArms ==
  ASSUME NEW key \in Key, NEW priority \in Priority, Enqueue(key, priority)
  PROVE  timers' # {} /\ UNCHANGED idle
BY DEF Enqueue, Rearmed

LEMMA HandlerRunsFInv ==
  ASSUME FInv, HandlerRuns, [FeedbackNext]_feedbackVars PROVE FInv'
<1> USE DEF FInv
<1>1. /\ HandlerTyped' /\ IInv' /\ StatusIInv' /\ generation <= generation'
      /\ generation \in Nat /\ generation' \in Nat
  BY NextBoth
<1>2. \A i \in burst.asked \union event.asked \union handler.asked : i \in Nat
  BY DEF Burst, HandlerTyped
<1>3. ASSUME NEW project \in handler.cancel, HandlerCancels(project) PROVE FInv'
  <2>1. NotifyIdle /\ OnIdleChange /\ handler' = [handler EXCEPT !.cancel = @ \ {project}]
    BY <1>3 DEF HandlerCancels, CancelProject
  <2>2. /\ handler'.asked = handler.asked /\ handler'.cancel \subseteq handler.cancel
        /\ handler.asked = {}
    BY <2>1 DEF HandlerTyped
  <2> QED BY <2>1, <2>2, ReportFInv
<1>4. ASSUME handler.cancel = {}, NEW key \in Key, NEW priority \in Priority,
             Enqueue(key, priority), NothingReported,
             handler'.cancel = {}, handler'.asked \subseteq handler.asked \union {generation'}
      PROVE  FInv'
  <2>1. timers' # {} /\ UNCHANGED <<idle, burst, event, isBusy>>
    BY <1>4, EnqueueArms DEF NothingReported, statusVars, progressVars
  <2>2. \A i \in handler'.asked \union burst'.asked \union event'.asked : i <= generation'
    BY <1>1, <1>2, <1>4, <2>1
  <2>3. EventsAreSettled' BY <2>1, SameEvent
  <2> QED BY <1>1, <1>4, <2>1, <2>2, <2>3 DEF NothingOngoing
<1>5. ASSUME NEW key \in handler.scans, handler.cancel = {}, HandlerEnqueuesFile(key)
      PROVE  FInv'
  <2>1. /\ Enqueue(key, "interactive") /\ NothingReported
        /\ handler' = [handler EXCEPT !.scans = @ \ {key}]
    BY <1>5 DEF HandlerEnqueuesFile
  <2>2. handler'.cancel = {} /\ handler'.asked = handler.asked /\ key \in Key
    BY <1>5, <2>1 DEF HandlerTyped
  <2> QED BY <1>4, <1>5, <2>1, <2>2 DEF Priority
<1>6. ASSUME NEW key \in handler.chunks, handler.cancel = {}, HandlerEnqueuesChunk(key)
      PROVE  FInv'
  <2>1. /\ Enqueue(key, "background") /\ NothingReported
        /\ handler' = [handler EXCEPT !.chunks = @ \ {key}, !.asked = @ \union {generation'}]
    BY <1>6 DEF HandlerEnqueuesChunk
  <2>2. /\ handler'.cancel = {} /\ handler'.asked = handler.asked \union {generation'}
        /\ key \in Key
    BY <1>6, <2>1 DEF HandlerTyped
  <2> QED BY <1>4, <1>6, <2>1, <2>2 DEF Priority
<1>7. CASE HandlerEnds
  <2>1. /\ burst' = Begun(handler.asked) /\ handler' = Handled
        /\ UNCHANGED <<vars, statusVars, event>>
    BY <1>7 DEF HandlerEnds
  <2>2. EventsAreSettled' BY <2>1, SameEvent
  <2>3. UNCHANGED <<idle, isBusy, generation, timers, queue, scanning, settled, control,
                    disposed>>
    BY <2>1 DEF vars, statusVars, progressVars
  <2>4. burst' \in Burst BY <1>2, <2>1 DEF Begun, Burst
  <2>5. burst'.asked \subseteq burst.asked \union handler.asked BY <2>1 DEF Begun
  <2>6. burst'.open /\ control' = "loop" /\ ~disposed' => ~NothingOngoing'
    BY <2>1, <2>3 DEF Begun, NothingOngoing
  <2> QED BY <1>1, <2>1, <2>2, <2>3, <2>4, <2>5, <2>6 DEF Handled
<1> QED BY <1>3, <1>5, <1>6, <1>7 DEF HandlerRuns

LEMMA NextFInv == ASSUME FInv, [FeedbackNext]_feedbackVars PROVE FInv'
<1>1. burst \in Burst BY DEF FInv
<1>2. CASE UNCHANGED feedbackVars
  BY <1>1, <1>2, QuietFInv DEF feedbackVars, vars, statusVars, progressVars
<1>3. CASE SchedulerRuns BY <1>3, SchedulerRunsFInv
<1>4. CASE ClientAnswers
  <2>1. UNCHANGED <<vars, handler, burst, event, isBusy>>
    BY <1>4 DEF ClientAnswers, Created, CreateFailed
  <2> QED BY <1>1, <2>1, QuietFInv DEF vars
<1>5. CASE ScheduleFileScan
  <2>1. PICK key \in FileKey, priority \in Priority : Enqueue(key, priority)
    BY <1>5 DEF ScheduleFileScan
  <2>2. timers' # {} /\ UNCHANGED idle BY <2>1, EnqueueArms DEF FileKey
  <2>3. /\ UNCHANGED <<handler, burst, event, isBusy>> /\ handler = Handled
        /\ ~NothingOngoing'
    BY <1>5, <2>2 DEF ScheduleFileScan, NothingReported, statusVars, progressVars, NoHandler,
       NothingOngoing
  <2> QED BY <1>1, <2>2, <2>3, QuietFInv
<1>6. CASE Starts
  <2>1. /\ handler'.asked = {} /\ handler = Handled /\ UNCHANGED <<vars, burst, event>>
        /\ UNCHANGED isBusy
    BY <1>6, StartsStep DEF FInv, RestartCommand, statusVars, progressVars
  <2> QED BY <1>1, <2>1, QuietFInv DEF vars
<1>7. CASE HandlerRuns BY <1>7, HandlerRunsFInv
<1> QED BY <1>2, <1>3, <1>4, <1>5, <1>6, <1>7 DEF FeedbackNext, Starts

(* Scheduler and status stay tied to each other throughout.                *)
THEOREM FeedbackInvariant == FeedbackSpec => []FInv
<1>1. FInv /\ [FeedbackNext]_feedbackVars => FInv' BY NextFInv
<1> QED BY InitFInv, <1>1, PTL DEF FeedbackSpec

(* The variables of the composition keep their types, for any keys,        *)
(* concurrency, reserve and bounds.                                        *)
THEOREM FeedbackTypes == FeedbackSpec => []FeedbackTypeOK
<1>1. FInv => FeedbackTypeOK
  BY DEF FInv, FeedbackTypeOK, HandlerTyped, IInv, StatusIInv
<1> QED BY FeedbackInvariant, <1>1, PTL

(* At rest the editor is told that the server is quiescent, and no         *)
(* progress spins that two create requests did not orphan.                 *)
THEOREM SpinnerRight == FeedbackSpec => []SpinnerStops
<1>1. FInv /\ IdleReportHonest => SpinnerStops
  <2> SUFFICES ASSUME FInv, IdleReportHonest, AtRest PROVE SpinnerStops
    BY DEF SpinnerStops
  <2>1. running = 0
    BY FS_EmptySet DEF AtRest, AtEventLoop, FInv, IInv, SlotsConserved, Holding
  <2>2. idle /\ isBusy = FALSE
    BY <2>1 DEF AtRest, IdleReportHonest, FInv, IInv, TypeOK
  <2>3. published = Status(serverHealth, FALSE)
    BY <2>2 DEF FInv, StatusIInv, StatusUpToDate
  <2>4. ASSUME ~overlapped PROVE progresses = {}
    <3>1. progresses \subseteq {0} /\ progresses \subseteq Reporter
      BY <2>2, <2>4 DEF FInv, StatusIInv, OrphanNeedsOverlap, NoProgressWhileIdle, StatusTypeOK
    <3> QED BY <3>1 DEF Reporter
  <2> QED BY <2>3, <2>4 DEF SpinnerStops
<1>2. Spec => []IdleReportHonest BY HonestWhenIdle
<1> QED BY FeedbackInvariant, FeedbackImplements, <1>1, <1>2, PTL

(* No telemetry burst outlives the scans it began with.                    *)
THEOREM BurstsEnd == FeedbackSpec => []BurstsSettle
<1>1. FInv => BurstsSettle BY DEF FInv, BurstsSettle, AtRest, AtEventLoop, NothingOngoing
<1> QED BY FeedbackInvariant, <1>1, PTL

(* No event is recorded while a scan of its burst is under way.            *)
THEOREM EventsWait == FeedbackSpec => []EventsAreSettled
<1>1. FInv => EventsAreSettled BY DEF FInv
<1> QED BY FeedbackInvariant, <1>1, PTL
=============================================================================
