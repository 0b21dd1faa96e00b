--------------------------- MODULE InspectRunProofs ---------------------------
(***************************************************************************)
(* What a scan stores, serves, scores and leaves behind, for every set of  *)
(* project states and of kinds of scan, and every number of edits.         *)
(***************************************************************************)
EXTENDS InspectRun, TLAPS

(* Lint and the dead-code pass are over; the other fibers are too.         *)
Over == {"fibers", "joined", "payload", "done"}
Together == {"joined", "payload", "done"}

KeyFits == phase # "idle" => /\ key \in Key /\ key[2] = kind
                             /\ calm => key[1] = project

FindingsFit ==
  /\ \A c \in Check : status[c] \in {"done", "partial"} => findings[c] \in Project
  /\ \A c \in Check : status[c] = "partial" => c = "lint"
  /\ calm => \A c \in Check : findings[c] \in {None, project}
  /\ phase \in {"idle", "served"} => status = Off /\ findings = NoFindings /\ ~overlap

LintFits ==
  phase \in {"lint", "dead"} \cup Over =>
    /\ status["lint"] \in {"running", "missing", "done", "partial", "failed"}
    /\ status["lint"] = "running" => phase = "lint"

SecurityFits ==
  phase \in {"lint", "dead"} \cup Over /\ "security" \in Wanted[kind]
    => status["security"] \in {"running", "done", "failed"}

DeadFits ==
  /\ overlap => "dead" \in Wanted[kind]
  /\ status["dead"] = "failed" => deadFailed
  /\ phase = "lint" => IF overlap THEN status["dead"] \in {"running", "done", "failed"}
                                  ELSE status["dead"] = "off"
  /\ phase = "dead" => /\ status["dead"] \in {"running", "done", "failed"}
                       /\ status["lint"] # "failed"
  /\ phase \in Over =>
       /\ status["dead"] # "running"
       /\ status["lint"] = "failed" => findings["dead"] = None
       /\ status["lint"] # "failed" /\ "dead" \in Wanted[kind] /\ ~deadFailed
            => status["dead"] = "done"

Joined ==
  phase \in Together =>
    /\ status["security"] # "running" /\ status["supply"] # "running"
    /\ scored => status["lint"] # "failed" /\ ~deadFailed

EntriesFit ==
  \A k \in Key : cache[k] # None =>
    /\ cache[k].missing \subseteq {"supply"}
    /\ k[2] \in Baseline => cache[k].compared
    /\ cache[k].calm => ~cache[k].foreign

Served == phase = "served" => cache[key] # None

IInv == /\ TypeOK /\ KeyFits /\ FindingsFit /\ LintFits /\ SecurityFits
        /\ DeadFits /\ Joined /\ EntriesFit /\ Served

LEMMA InitInv == ASSUME Init PROVE IInv
<1>1. TypeOK
  BY DEF Init, TypeOK, Phase, Status, Off, NoFindings
<1> QED BY <1>1 DEF Init, IInv, KeyFits, FindingsFit, LintFits, SecurityFits, DeadFits, Joined,
                    EntriesFit, Served, Over, Together, Off, NoFindings, Check

(* An edit ends the calm, but for one between two scans.                   *)
LEMMA EditInv == ASSUME IInv, NEW p \in Project, Edit(p) PROVE IInv'
<1> USE DEF IInv, Edit, checks
<1>1. TypeOK'
  BY DEF TypeOK
<1>2. KeyFits' /\ FindingsFit'
  BY DEF KeyFits, FindingsFit, NoFindings, TypeOK
<1>3. LintFits' /\ SecurityFits' /\ DeadFits' /\ Joined' /\ EntriesFit' /\ Served'
  BY DEF LintFits, SecurityFits, DeadFits, Joined, EntriesFit, Served
<1> QED BY <1>1, <1>2, <1>3

LEMMA EvictInv == ASSUME IInv, NEW k \in Key, Evict(k) PROVE IInv'
<1> USE DEF IInv, Evict, checks
<1>1. TypeOK'
  BY DEF TypeOK
<1>2. EntriesFit'
  BY DEF EntriesFit, TypeOK
<1>3. KeyFits' /\ FindingsFit' /\ LintFits' /\ SecurityFits' /\ DeadFits' /\ Joined' /\ Served'
  BY DEF KeyFits, FindingsFit, LintFits, SecurityFits, DeadFits, Joined, Served
<1> QED BY <1>1, <1>2, <1>3

LEMMA BeginInv == ASSUME IInv, NEW k \in Kind, Begin(k) PROVE IInv'
<1> USE DEF IInv, Begin
<1>1. key' \in Key /\ key'[1] = project /\ key'[2] = k /\ kind' = k
  BY DEF KeyOf, Key, TypeOK
<1>2. UNCHANGED <<project, edits, cache, findings, deadFailed, scored, delta, calm>>
  OBVIOUS
<1>3. status = Off /\ findings = NoFindings
  BY DEF FindingsFit
<1>4. CASE cache[key'] # None
  <2>1. phase' = "served" /\ UNCHANGED <<overlap, budget, status>>
    BY <1>4
  <2>2. TypeOK'
    BY <1>1, <1>2, <2>1 DEF TypeOK, Phase
  <2>3. status'["dead"] = "off"
    BY <1>3, <2>1 DEF Off, Check
  <2>4. DeadFits'
    BY <1>1, <1>2, <2>1, <2>3 DEF DeadFits, FindingsFit, Over
  <2>5. FindingsFit'
    BY <1>2, <1>3, <2>1 DEF FindingsFit, NoFindings, Off
  <2>6. KeyFits' /\ EntriesFit' /\ Served'
    BY <1>1, <1>2, <1>4, <2>1 DEF KeyFits, EntriesFit, Served
  <2>7. LintFits' /\ SecurityFits' /\ Joined'
    BY <2>1 DEF LintFits, SecurityFits, Joined, Over, Together
  <2> QED BY <2>2, <2>4, <2>5, <2>6, <2>7
<1>5. CASE cache[key'] = None
  <2>1. /\ phase' = "lint" /\ budget' \in {"none", "left"}
        /\ overlap' \in BOOLEAN /\ (overlap' => "dead" \in Wanted[k])
    BY <1>5
  <2>2. PICK l \in {"running", "missing"} :
          status' = [c \in Check |->
            IF c = "lint" THEN l
            ELSE IF c \notin Wanted[k] \/ (c = "dead" /\ ~overlap') THEN "off"
            ELSE "running"]
    BY <1>5
  <2>3. TypeOK'
    BY <1>1, <1>2, <2>1, <2>2 DEF TypeOK, Phase, Status
  <2>4. FindingsFit'
    BY <1>2, <1>3, <2>1, <2>2 DEF FindingsFit, NoFindings
  <2>5. LintFits' /\ SecurityFits'
    BY <1>1, <2>1, <2>2 DEF LintFits, SecurityFits, Check, Over
  <2>6. status'["dead"] = IF overlap' THEN "running" ELSE "off"
    BY <2>1, <2>2 DEF Check
  <2>7. DeadFits'
    BY <1>1, <2>1, <2>6 DEF DeadFits, Over
  <2> QED BY <1>1, <1>2, <2>1, <2>3, <2>4, <2>5, <2>7
          DEF KeyFits, Joined, EntriesFit, Served, Over, Together
<1> QED BY <1>4, <1>5

LEMMA BudgetInv == ASSUME IInv, SpendBudget PROVE IInv'
<1> USE DEF IInv, SpendBudget, checks
<1>1. TypeOK'
  BY DEF TypeOK
<1> QED BY <1>1 DEF KeyFits, FindingsFit, LintFits, SecurityFits, DeadFits, Joined, EntriesFit,
                    Served

(* A check ends, in a way that check may end in.                           *)
LEMMA SettleInv ==
  ASSUME IInv, NEW c \in Check, NEW how \in Status \ {"off", "running"}, Settle(c, how),
         deadFailed' \in BOOLEAN, deadFailed => deadFailed',
         deadFailed' => deadFailed \/ c = "dead",
         c = "security" => how \in {"done", "failed"},
         how = "partial" => c = "lint",
         c = "lint" => how \in {"done", "partial", "failed"},
         c = "dead" => how \in {"done", "failed"} /\ (how = "failed" => deadFailed')
  PROVE  IInv'
<1> USE DEF IInv, Settle
<1>1. /\ status[c] = "running" /\ status' = [status EXCEPT ![c] = how]
      /\ findings' = [findings EXCEPT ![c] = IF how \in {"done", "partial"} THEN project
                                             ELSE None]
      /\ UNCHANGED <<project, edits, cache, phase, kind, key, overlap, budget, scored, delta,
                     calm>>
  OBVIOUS
<1>2. TypeOK'
  BY <1>1 DEF TypeOK
<1>3. phase \in {"lint", "dead", "fibers"}
  <2>1. phase \notin {"idle", "served"}
    BY <1>1 DEF FindingsFit, Off
  <2>2. phase \notin Together
    BY <1>1 DEF Joined, LintFits, DeadFits, Together, Over, Check
  <2> QED BY <2>1, <2>2 DEF TypeOK, Phase, Together
<1>4. /\ status'[c] = how /\ \A d \in Check \ {c} : status'[d] = status[d]
      /\ findings'[c] = IF how \in {"done", "partial"} THEN project ELSE None
      /\ \A d \in Check \ {c} : findings'[d] = findings[d]
  BY <1>1 DEF TypeOK
<1>5. FindingsFit'
  BY <1>1, <1>3, <1>4 DEF FindingsFit, TypeOK
<1>6. LintFits' /\ SecurityFits'
  BY <1>1, <1>4 DEF LintFits, SecurityFits, Check
<1>7. DeadFits'
  <2>1. CASE c = "dead"
    <3>1. phase \in {"lint", "dead"}
      BY <1>1, <1>3, <2>1 DEF DeadFits, Over
    <3>2. status'["lint"] = status["lint"] /\ status'["dead"] \in {"done", "failed"}
      BY <1>4, <2>1 DEF Check
    <3> QED BY <1>1, <1>4, <2>1, <3>1, <3>2 DEF DeadFits, Over
  <2>2. CASE c = "lint"
    <3>1. phase = "lint"
      BY <1>1, <1>3, <2>2 DEF LintFits, Over
    <3>2. status'["dead"] = status["dead"]
      BY <1>4, <2>2 DEF Check
    <3> QED BY <1>1, <2>2, <3>1, <3>2 DEF DeadFits, Over
  <2>3. CASE c \notin {"dead", "lint"}
    <3>1. /\ status'["dead"] = status["dead"] /\ status'["lint"] = status["lint"]
          /\ findings'["dead"] = findings["dead"] /\ deadFailed' = deadFailed
      BY <1>4, <2>3 DEF Check, TypeOK
    <3> QED BY <1>1, <3>1 DEF DeadFits
  <2> QED BY <2>1, <2>2, <2>3
<1>8. KeyFits' /\ Joined' /\ EntriesFit' /\ Served'
  BY <1>1, <1>3 DEF KeyFits, Joined, EntriesFit, Served, Together
<1> QED BY <1>2, <1>5, <1>6, <1>7, <1>8

LEMMA EndsInv ==
  ASSUME IInv,
         \/ SecurityEnds \/ SupplyEnds \/ SupplyTimesOut
         \/ DeadEnds \/ DeadTimesOut \/ LintEnds \/ LintTimesOut
  PROVE  IInv'
<1>1. deadFailed \in BOOLEAN
  BY DEF IInv, TypeOK
<1>2. CASE SecurityEnds
  BY <1>1, <1>2, SettleInv DEF SecurityEnds, Check, Status
<1>3. CASE SupplyEnds \/ SupplyTimesOut
  BY <1>1, <1>3, SettleInv DEF SupplyEnds, SupplyTimesOut, Check, Status
<1>4. CASE DeadEnds
  <2>1. PICK how \in {"done", "failed"} :
          Settle("dead", how) /\ deadFailed' = (deadFailed \/ how = "failed")
    BY <1>4 DEF DeadEnds
  <2>2. /\ deadFailed' \in BOOLEAN /\ (deadFailed => deadFailed')
        /\ (how = "failed" => deadFailed')
    BY <1>1, <2>1
  <2> QED BY <2>1, <2>2, SettleInv DEF Check, Status
<1>5. CASE DeadTimesOut
  BY <1>5, SettleInv DEF DeadTimesOut, Check, Status
<1>6. CASE LintEnds \/ LintTimesOut
  BY <1>1, <1>6, SettleInv DEF LintEnds, LintTimesOut, Check, Status
<1> QED BY <1>2, <1>3, <1>4, <1>5, <1>6

LEMMA AfterLintInv == ASSUME IInv, AfterLint PROVE IInv'
<1> USE DEF IInv
<1>1. /\ phase = "lint" /\ status["lint"] # "running"
      /\ UNCHANGED <<project, edits, cache, kind, key, overlap, budget, scored, delta, calm>>
  BY DEF AfterLint
<1>2. status["lint"] \in {"missing", "done", "partial", "failed"}
  BY <1>1 DEF LintFits
<1>3. \/ /\ phase' = "fibers" /\ InterruptDead /\ deadFailed' = deadFailed
         /\ status["lint"] = "failed"
      \/ /\ phase' = "fibers" /\ UNCHANGED checks
         /\ status["lint"] # "failed" /\ "dead" \notin Wanted[kind]
      \/ /\ phase' = "fibers" /\ InterruptDead /\ deadFailed' = TRUE
         /\ status["lint"] # "failed" /\ "dead" \in Wanted[kind]
      \/ /\ phase' = "dead" /\ UNCHANGED <<findings, deadFailed>>
         /\ status' = IF overlap THEN status ELSE [status EXCEPT !["dead"] = "running"]
         /\ status["lint"] # "failed" /\ "dead" \in Wanted[kind]
  BY <1>1 DEF AfterLint
<1>4. /\ phase' \in {"dead", "fibers"} /\ deadFailed' \in BOOLEAN
      /\ \A c \in Check \ {"dead"} : status'[c] = status[c] /\ findings'[c] = findings[c]
      /\ status' \in [Check -> Status] /\ findings' \in [Check -> Project \cup {None}]
      /\ findings'["dead"] \in {findings["dead"], None}
  BY <1>3 DEF TypeOK, InterruptDead, checks, Check, Status
<1>5. TypeOK'
  BY <1>1, <1>4 DEF TypeOK, Phase
<1>6. status'["lint"] = status["lint"] /\ status'["security"] = status["security"]
  BY <1>4 DEF Check
<1>7. KeyFits' /\ LintFits' /\ SecurityFits' /\ Joined' /\ EntriesFit' /\ Served'
  BY <1>1, <1>2, <1>4, <1>6
     DEF KeyFits, LintFits, SecurityFits, Joined, EntriesFit, Served, Together, Over
<1>8. /\ DeadFits' /\ status'["dead"] # "partial"
      /\ status'["dead"] \in {"done", "partial"} => findings'["dead"] \in Project
  <2>1. "dead" \in Check /\ status["dead"] \in Status
    BY DEF Check, TypeOK
  <2>2. CASE InterruptDead /\ phase' = "fibers"
    <3>1. status'["dead"] = "interrupted" /\ findings'["dead"] = None
      BY <2>1, <2>2 DEF InterruptDead, TypeOK
    <3> QED BY <1>1, <1>3, <1>6, <2>2, <3>1 DEF DeadFits, Over
  <2>3. CASE /\ UNCHANGED checks /\ phase' = "fibers"
             /\ status["lint"] # "failed" /\ "dead" \notin Wanted[kind]
    <3>1. status["dead"] = "off"
      BY <1>1, <2>3 DEF DeadFits
    <3> QED BY <1>1, <1>3, <1>6, <2>3, <3>1 DEF DeadFits, Over, checks
  <2>4. CASE /\ phase' = "dead" /\ UNCHANGED <<findings, deadFailed>>
             /\ status["lint"] # "failed" /\ "dead" \in Wanted[kind]
             /\ status' = IF overlap THEN status ELSE [status EXCEPT !["dead"] = "running"]
    <3>1. /\ status'["dead"] \in {"running", "done", "failed"}
          /\ status'["dead"] # "running" => status'["dead"] = status["dead"]
      BY <1>1, <2>1, <2>4 DEF DeadFits, TypeOK
    <3> QED BY <1>1, <1>6, <2>1, <2>4, <3>1 DEF DeadFits, Over, FindingsFit
  <2> QED BY <1>3, <2>2, <2>3, <2>4
<1>9. FindingsFit'
  <2>1. \A c \in Check : status'[c] = "partial" => c = "lint"
    BY <1>4, <1>8 DEF FindingsFit
  <2>2. \A c \in Check : status'[c] \in {"done", "partial"} => findings'[c] \in Project
    BY <1>4, <1>8 DEF FindingsFit
  <2> QED BY <1>1, <1>4, <2>1, <2>2, <1>5 DEF FindingsFit, TypeOK
<1> QED BY <1>5, <1>7, <1>8, <1>9

LEMMA JoinDeadInv == ASSUME IInv, JoinDead PROVE IInv'
<1> USE DEF IInv, JoinDead, checks
<1>1. TypeOK'
  BY DEF TypeOK, Phase
<1>2. KeyFits' /\ FindingsFit' /\ EntriesFit' /\ Served' /\ Joined'
  BY DEF KeyFits, FindingsFit, EntriesFit, Served, Joined, Together
<1>3. LintFits' /\ SecurityFits' /\ DeadFits'
  BY DEF LintFits, SecurityFits, DeadFits, Over
<1> QED BY <1>1, <1>2, <1>3

LEMMA JoinInv == ASSUME IInv, Join PROVE IInv'
<1> USE DEF IInv, Join, checks
<1>1. TypeOK'
  BY DEF TypeOK, Phase
<1>2. KeyFits' /\ FindingsFit' /\ EntriesFit' /\ Served'
  BY DEF KeyFits, FindingsFit, EntriesFit, Served
<1>3. LintFits' /\ SecurityFits' /\ DeadFits'
  BY DEF LintFits, SecurityFits, DeadFits, Over
<1>4. status["security"] # "running" /\ status["supply"] # "running"
  BY DEF Running, Check
<1>5. Joined'
  BY <1>4 DEF Joined, DeadFailure
<1> QED BY <1>1, <1>2, <1>3, <1>5

LEMMA CompareInv == ASSUME IInv, Compare PROVE IInv'
<1> USE DEF IInv, Compare, checks
<1>1. TypeOK'
  BY DEF TypeOK, Phase
<1>2. KeyFits' /\ FindingsFit' /\ EntriesFit' /\ Served'
  BY DEF KeyFits, FindingsFit, EntriesFit, Served
<1>3. LintFits' /\ SecurityFits' /\ DeadFits' /\ Joined'
  BY DEF LintFits, SecurityFits, DeadFits, Over, Joined, Together
<1> QED BY <1>1, <1>2, <1>3

(* What is stored is whole, and of the key's project if nothing changed.   *)
LEMMA PayloadFits ==
  ASSUME IInv, phase = "payload", ShouldStore, ~BaselineDegraded
  PROVE  /\ Payload \in Entry
         /\ Payload.missing \subseteq {"supply"}
         /\ key[2] \in Baseline => Payload.compared
         /\ Payload.calm => ~Payload.foreign
<1> USE DEF IInv
<1> DEFINE missing == {c \in Wanted[kind] : findings[c] = None \/ status[c] = "partial"}
           foreign == \E c \in Wanted[kind] : findings[c] \notin {None, key[1]}
<1>1. /\ Payload.missing = missing /\ Payload.compared = (delta # None)
      /\ Payload.foreign = foreign /\ Payload.calm = calm
  BY DEF Payload
<1>2. Wanted[kind] \subseteq Check /\ None \notin Project
  BY KindAssumption DEF TypeOK
<1>3. /\ status["lint"] = "done" /\ ~deadFailed /\ status["security"] # "failed"
  BY DEF ShouldStore, DeadFailure
<1>4. /\ "dead" \in Wanted[kind] => status["dead"] = "done"
      /\ "security" \in Wanted[kind] => status["security"] = "done"
  BY <1>3 DEF DeadFits, SecurityFits, Joined, Over, Together
<1>5. missing \subseteq {"supply"}
  BY <1>2, <1>3, <1>4 DEF FindingsFit, Check
<1>6. key[2] \in Baseline => delta # None
  BY DEF BaselineDegraded, KeyFits
<1>7. calm => ~foreign
  BY <1>2 DEF KeyFits, FindingsFit
<1>8. Payload \in Entry
  <2>1. missing \in SUBSET Check /\ (delta # None) \in BOOLEAN
        /\ foreign \in BOOLEAN /\ calm \in BOOLEAN
    BY <1>2 DEF TypeOK
  <2> QED BY <2>1 DEF Payload, Entry
<1> QED BY <1>1, <1>5, <1>6, <1>7, <1>8

LEMMA StoreInv == ASSUME IInv, Store PROVE IInv'
<1> USE DEF IInv
<1>1. /\ phase = "payload" /\ phase' = "done"
      /\ UNCHANGED <<project, edits, kind, key, overlap, budget, checks, scored, delta, calm>>
  BY DEF Store
<1>2. key \in Key
  BY <1>1 DEF KeyFits
<1>3. cache' \in [Key -> Entry \cup {None}] /\ EntriesFit'
  <2>1. CASE ShouldStore /\ ~BaselineDegraded
    <3>1. cache' = [cache EXCEPT ![key] = Payload]
      BY <2>1 DEF Store
    <3>2. /\ Payload \in Entry
          /\ Payload.missing \subseteq {"supply"}
          /\ key[2] \in Baseline => Payload.compared
          /\ Payload.calm => ~Payload.foreign
      BY <1>1, <2>1, PayloadFits
    <3> QED BY <1>2, <3>1, <3>2 DEF EntriesFit, TypeOK
  <2>2. CASE ~(ShouldStore /\ ~BaselineDegraded)
    BY <2>2 DEF Store, EntriesFit, TypeOK
  <2> QED BY <2>1, <2>2
<1>4. TypeOK'
  BY <1>1, <1>3 DEF TypeOK, Phase, checks
<1>5. KeyFits' /\ FindingsFit' /\ Served'
  BY <1>1 DEF KeyFits, FindingsFit, Served, checks
<1>6. LintFits' /\ SecurityFits' /\ DeadFits' /\ Joined'
  BY <1>1 DEF LintFits, SecurityFits, DeadFits, Over, Joined, Together, checks
<1> QED BY <1>3, <1>4, <1>5, <1>6

LEMMA EndInv == ASSUME IInv, End PROVE IInv'
<1> USE DEF IInv, End
<1>1. TypeOK'
  BY DEF TypeOK, Phase, Status, Off, NoFindings
<1>2. FindingsFit' /\ EntriesFit'
  BY DEF FindingsFit, EntriesFit, Off, NoFindings, Check
<1>3. status'["dead"] = "off"
  BY DEF Off, Check
<1>4. KeyFits' /\ LintFits' /\ SecurityFits' /\ DeadFits' /\ Joined' /\ Served'
  BY <1>3 DEF KeyFits, LintFits, SecurityFits, DeadFits, Joined, Served, Over, Together
<1> QED BY <1>1, <1>2, <1>4

LEMMA NextInv == ASSUME IInv, [Next]_vars PROVE IInv'
<1>1. CASE UNCHANGED vars
  BY <1>1 DEF vars, checks, IInv, TypeOK, KeyFits, FindingsFit, LintFits, SecurityFits, DeadFits,
              Joined, EntriesFit, Served
<1>2. CASE \/ \E p \in Project : Edit(p)
           \/ \E k \in Key : Evict(k)
           \/ \E k \in Kind : Begin(k)
           \/ SpendBudget
  BY <1>2, EditInv, EvictInv, BeginInv, BudgetInv
<1>3. CASE \/ SecurityEnds \/ SupplyEnds \/ SupplyTimesOut
           \/ DeadEnds \/ DeadTimesOut \/ LintEnds \/ LintTimesOut
  BY <1>3, EndsInv
<1>4. CASE ScanDeadline \/ Return
  BY <1>4, EndInv DEF ScanDeadline, Return
<1>5. CASE AfterLint \/ JoinDead \/ Join \/ Compare \/ Store
  BY <1>5, AfterLintInv, JoinDeadInv, JoinInv, CompareInv, StoreInv
<1> QED BY <1>1, <1>2, <1>3, <1>4, <1>5 DEF Next, Step

LEMMA Invariant == Spec => []IInv
BY InitInv, NextInv, PTL DEF Spec

(* Every variable has its type.                                            *)
THEOREM TypeCorrect == Spec => []TypeOK
<1>1. IInv => TypeOK
  BY DEF IInv
<1> QED BY Invariant, <1>1, PTL

(* Nothing a failure, a timeout or a spent budget took away, files that    *)
(* lint dropped among it, is lacking from a stored result.                 *)
THEOREM OnlyWholeStored == Spec => []StoredIsWhole
<1>1. IInv => StoredIsWhole
  <2> SUFFICES ASSUME IInv, NEW p \in Project, NEW k \in Kind, cache[<<p, k>>] # None
               PROVE  /\ cache[<<p, k>>].missing \subseteq {"supply"}
                      /\ k \in Baseline => cache[<<p, k>>].compared
    BY DEF StoredIsWhole
  <2>1. <<p, k>> \in Key /\ <<p, k>>[2] = k
    BY DEF Key
  <2> QED BY <2>1 DEF IInv, EntriesFit
<1> QED BY Invariant, <1>1, PTL

(* A result replayed while nothing changes is of the project as it is, if  *)
(* nothing changed either while it was made.                               *)
THEOREM ServesWhatIs == Spec => []ServedIsRight
<1>1. IInv => ServedIsRight
  BY DEF IInv, ServedIsRight, KeyFits, EntriesFit, Served
<1> QED BY Invariant, <1>1, PTL

(* No score without what the dead-code pass was to find, and none after    *)
(* lint has failed.                                                        *)
THEOREM ScoresAreWhole == Spec => []ScoreSeesDeadCode
<1>1. IInv => ScoreSeesDeadCode
  <2> SUFFICES ASSUME IInv, phase \in Together
               PROVE  /\ scored /\ "dead" \in Wanted[kind] => findings["dead"] # None
                      /\ status["lint"] = "failed"
                           => ~scored /\ ~DeadFailure /\ findings["dead"] = None
    BY DEF ScoreSeesDeadCode, Together
  <2>1. "dead" \in Check /\ None \notin Project /\ phase \in Over
    BY KindAssumption DEF Check, Together, Over
  <2>2. ASSUME scored, "dead" \in Wanted[kind] PROVE findings["dead"] # None
    <3>1. status["dead"] = "done"
      BY <2>1, <2>2 DEF IInv, Joined, DeadFits
    <3> QED BY <2>1, <3>1 DEF IInv, FindingsFit
  <2> QED BY <2>1, <2>2 DEF IInv, Joined, DeadFits, DeadFailure
<1> QED BY Invariant, <1>1, PTL

(* Nothing can report to a scan whose findings have been put together.     *)
THEOREM AllJoined == Spec => []NothingLeftRunning
<1>1. IInv => NothingLeftRunning
  BY DEF IInv, NothingLeftRunning, LintFits, DeadFits, Joined, Over, Together, Running, Check
<1> QED BY Invariant, <1>1, PTL
=============================================================================
