----------------------------- MODULE InspectRun -----------------------------
(***************************************************************************)
(* One scan of the command line, from the key of the result cache to the   *)
(* entry stored under it (react-doctor/src/inspect.ts, cli/utils/scan-     *)
(* result-cache.ts), over the orchestration of its checks (core/src/       *)
(* run-inspect.ts): the security scan, the supply-chain check and, when    *)
(* overlapped, the dead-code pass run in fibers beside lint; each may      *)
(* fail, hang, or be cut by its timeout, the budget of the scan or its     *)
(* deadline.                                                               *)
(*                                                                         *)
(* The findings of a check are the state of the project it read.  Project  *)
(* discovery, git metadata, rendering and the checks that only look at the *)
(* shape of the project are left out.                                      *)
(***************************************************************************)
EXTENDS Naturals

CONSTANTS Project,     \* states of the project
          Kind,        \* kinds of scan, told apart by the options in the key
          Wanted,      \* kind -> the checks it runs
          Baseline,    \* kinds compared with a base ref
          None,
          MaxEdits     \* bound on edits

Check == {"lint", "dead", "security", "supply"}

ASSUME KindAssumption ==
  /\ Wanted \in [Kind -> SUBSET Check] /\ \A k \in Kind : "lint" \in Wanted[k]
  /\ Baseline \subseteq Kind
  /\ None \notin Project

VARIABLES project, edits,
          cache,       \* the cache file: key -> payload or None
          phase,
          kind, key,
          overlap,     \* the dead-code pass runs beside lint
          budget,      \* "none", "left" or "spent" of the maximum duration
          status,      \* check -> where it is
          findings,    \* check -> what it found, None for nothing
          deadFailed,  \* the dead-code pass counts as failed
          scored,
          delta,       \* the comparison with the base ref, or None
          calm         \* nothing has changed since the key was made

checks == <<status, findings, deadFailed>>
vars == <<project, edits, cache, phase, kind, key, overlap, budget, checks, scored, delta,
          calm>>

Key == Project \X Kind
LintFailed == status["lint"] \in {"failed", "missing"}
Running == {c \in Check : status[c] = "running"}
Off == [c \in Check |-> "off"]
NoFindings == [c \in Check |-> None]

Init ==
  /\ project \in Project /\ edits = 0
  /\ cache = [k \in Key |-> None]
  /\ phase = "idle" /\ kind \in Kind /\ key = None
  /\ overlap = FALSE /\ budget = "none"
  /\ status = Off /\ findings = NoFindings /\ deadFailed = FALSE
  /\ scored = FALSE /\ delta = None
  /\ calm = TRUE

-----------------------------------------------------------------------------
Edit(p) ==
  /\ edits < MaxEdits /\ p # project
  /\ project' = p /\ edits' = edits + 1
  /\ calm' = (phase = "idle")
  /\ UNCHANGED <<cache, phase, kind, key, overlap, budget, checks, scored, delta>>

(* An entry goes: the cap, a file that could not be written, or another    *)
(* process that wrote back the entries it had read.                        *)
Evict(k) ==
  /\ phase # "served" /\ cache[k] # None
  /\ cache' = [cache EXCEPT ![k] = None]
  /\ UNCHANGED <<project, edits, phase, kind, key, overlap, budget, checks, scored, delta, calm>>

KeyOf_NoWorktree(k) == <<CHOOSE p \in Project : TRUE, k>>

(* The commit, the fingerprint of the working tree and the options.        *)
KeyOf(k) == <<project, k>>

(* The key is made, the cache read.  A hit is served; else the fibers are  *)
(* forked and lint starts, with no oxlint to run when its binding is       *)
(* missing.                                                                *)
Begin(k) ==
  /\ phase = "idle"
  /\ kind' = k /\ key' = KeyOf(k)
  /\ IF cache[key'] # None
     THEN phase' = "served" /\ UNCHANGED <<overlap, budget, status>>
     ELSE /\ phase' = "lint"
          /\ overlap' \in IF "dead" \in Wanted[k] THEN BOOLEAN ELSE {FALSE}
          /\ budget' \in {"none", "left"}
          /\ \E l \in {"running", "missing"} :
               status' = [c \in Check |->
                 IF c = "lint" THEN l
                 ELSE IF c \notin Wanted[k] \/ (c = "dead" /\ ~overlap') THEN "off"
                 ELSE "running"]
  /\ UNCHANGED <<project, edits, cache, findings, deadFailed, scored, delta, calm>>

SpendBudget ==
  /\ budget = "left" /\ budget' = "spent"
  /\ UNCHANGED <<project, edits, cache, phase, kind, key, overlap, checks, scored, delta, calm>>

-----------------------------------------------------------------------------
(* How the fibers end.                                                     *)

Settle(c, how) ==
  /\ status[c] = "running"
  /\ status' = [status EXCEPT ![c] = how]
  /\ findings' = [findings EXCEPT ![c] = IF how \in {"done", "partial"} THEN project ELSE None]
  /\ UNCHANGED <<project, edits, cache, phase, kind, key, overlap, budget, scored,
                 delta, calm>>

(* A walk that fails skips the scan.                                       *)
SecurityEnds == /\ \E how \in {"done", "failed"} : Settle("security", how)
                /\ UNCHANGED deadFailed

(* Packages whose score cannot be fetched are skipped, all of them when    *)
(* the check's own cap ends first.                                         *)
SupplyEnds == /\ \E how \in {"done", "skipped"} : Settle("supply", how)
              /\ UNCHANGED deadFailed

SupplyTimesOut == Settle("supply", "timedOut") /\ UNCHANGED deadFailed

DeadEnds == /\ \E how \in {"done", "failed"} :
                 Settle("dead", how) /\ deadFailed' = (deadFailed \/ how = "failed")

(* The phase cap, or what is left of the budget, ends the pass.            *)
DeadTimesOut == Settle("dead", "failed") /\ deadFailed' = TRUE

(* Lint ends, without the files it dropped if it is partial, or fails.     *)
LintEnds == /\ \E how \in {"done", "partial", "failed"} : Settle("lint", how)
            /\ UNCHANGED deadFailed

LintTimesOut == Settle("lint", "failed") /\ UNCHANGED deadFailed

-----------------------------------------------------------------------------
(* The budget is looked at once lint is over.                              *)
DeadlineSpent == budget = "spent"

InterruptDead_Discards ==
  /\ findings' = [findings EXCEPT !["dead"] = None]
  /\ UNCHANGED status

(* The fiber is interrupted, and what it found is not read.                *)
InterruptDead ==
  /\ status' = [status EXCEPT !["dead"] = "interrupted"]
  /\ findings' = [findings EXCEPT !["dead"] = None]

(* Lint has settled: when it failed, the dead-code pass is discarded; when *)
(* the budget is spent it is skipped and counts as failed; else it is      *)
(* waited for, or starts now.                                              *)
AfterLint ==
  /\ phase = "lint" /\ status["lint"] # "running"
  /\ IF status["lint"] = "failed"
     THEN phase' = "fibers" /\ InterruptDead /\ UNCHANGED deadFailed
     ELSE IF "dead" \notin Wanted[kind] THEN phase' = "fibers" /\ UNCHANGED checks
     ELSE IF DeadlineSpent
     THEN phase' = "fibers" /\ InterruptDead /\ deadFailed' = TRUE
     ELSE /\ phase' = "dead"
          /\ status' = IF overlap THEN status ELSE [status EXCEPT !["dead"] = "running"]
          /\ UNCHANGED <<findings, deadFailed>>
  /\ UNCHANGED <<project, edits, cache, kind, key, overlap, budget, scored, delta, calm>>

JoinDead ==
  /\ phase = "dead" /\ status["dead"] # "running"
  /\ phase' = "fibers"
  /\ UNCHANGED <<project, edits, cache, kind, key, overlap, budget, checks, scored, delta, calm>>

DeadFailure_Leaks == deadFailed

(* The failure of a pass that lint's failure discarded is not reported.    *)
DeadFailure == status["lint"] # "failed" /\ deadFailed

(* The other fibers are joined, and the score is asked for; it may not be  *)
(* had.                                                                    *)
Join ==
  /\ phase = "fibers" /\ {"security", "supply"} \cap Running = {}
  /\ phase' = "joined"
  /\ scored' \in IF status["lint"] = "failed" \/ DeadFailure THEN {FALSE} ELSE BOOLEAN
  /\ UNCHANGED <<project, edits, cache, kind, key, overlap, budget, checks, delta,
                 calm>>

(* The base ref is scanned too, when the head was linted in full; its scan *)
(* may fail or be cut.                                                     *)
Compare ==
  /\ phase = "joined"
  /\ phase' = "payload"
  /\ delta' \in IF kind \in Baseline /\ status["lint"] = "done" THEN {None, project}
                ELSE {None}
  /\ scored' = (scored /\ ~LintFailed)
  /\ UNCHANGED <<project, edits, cache, kind, key, overlap, budget, checks, calm>>

BaselineDegraded == kind \in Baseline /\ delta = None

ShouldStore_Partial ==
  /\ status["lint"] \in {"done", "partial"} /\ ~DeadFailure
  /\ status["supply"] # "timedOut" /\ status["security"] # "failed"

(* A result known to be incomplete is not stored.                          *)
ShouldStore ==
  /\ status["lint"] = "done" /\ ~DeadFailure
  /\ status["supply"] # "timedOut" /\ status["security"] # "failed"

(* What it is known to hold: the checks without all their findings (lint   *)
(* that dropped files has some), whether a finding is of another state of  *)
(* the project than the key's, and whether the project was left alone.     *)
Payload == [missing |-> {c \in Wanted[kind] : findings[c] = None \/ status[c] = "partial"},
            compared |-> delta # None,
            foreign |-> \E c \in Wanted[kind] : findings[c] \notin {None, key[1]},
            calm |-> calm]

Store ==
  /\ phase = "payload"
  /\ phase' = "done"
  /\ IF ShouldStore /\ ~BaselineDegraded
     THEN cache' = [cache EXCEPT ![key] = Payload]
     ELSE UNCHANGED cache
  /\ UNCHANGED <<project, edits, kind, key, overlap, budget, checks, scored, delta, calm>>

-----------------------------------------------------------------------------
(* The scan is over.  Its fibers end with it.                              *)
End ==
  /\ phase' = "idle" /\ key' = None
  /\ overlap' = FALSE /\ budget' = "none"
  /\ status' = Off /\ findings' = NoFindings /\ deadFailed' = FALSE
  /\ scored' = FALSE /\ delta' = None
  /\ calm' = TRUE
  /\ UNCHANGED <<project, edits, cache, kind>>

Return == phase \in {"served", "done"} /\ End

ScanDeadline_LintOnly == phase = "lint" /\ End

(* The deadline of the orchestration, whatever it is waiting for.          *)
ScanDeadline == phase \in {"lint", "dead", "fibers"} /\ End

Step == AfterLint \/ JoinDead \/ Join \/ Compare \/ Store \/ Return

Next == \/ \E p \in Project : Edit(p)
        \/ \E k \in Key : Evict(k)
        \/ \E k \in Kind : Begin(k)
        \/ SpendBudget
        \/ SecurityEnds
        \/ SupplyEnds \/ SupplyTimesOut
        \/ DeadEnds \/ DeadTimesOut
        \/ LintEnds \/ LintTimesOut
        \/ ScanDeadline
        \/ Step

(* Timers fire and the program goes on; no check needs to answer.          *)
Fairness == /\ WF_vars(Step)
            /\ WF_vars(ScanDeadline)
            /\ WF_vars(LintTimesOut)

Spec == Init /\ [][Next]_vars /\ Fairness

-----------------------------------------------------------------------------
Phase == {"idle", "served", "lint", "dead", "fibers", "joined", "payload", "done"}
Status == {"off", "running", "missing", "done", "partial", "failed", "skipped", "timedOut",
           "interrupted"}
Entry == [missing : SUBSET Check, compared : BOOLEAN, foreign : BOOLEAN, calm : BOOLEAN]

(* Every variable has its type.                                            *)
TypeOK ==
  /\ project \in Project /\ edits \in Nat
  /\ cache \in [Key -> Entry \cup {None}]
  /\ phase \in Phase /\ kind \in Kind /\ key \in Key \cup {None}
  /\ overlap \in BOOLEAN /\ budget \in {"none", "left", "spent"}
  /\ status \in [Check -> Status] /\ findings \in [Check -> Project \cup {None}]
  /\ deadFailed \in BOOLEAN /\ scored \in BOOLEAN
  /\ delta \in Project \cup {None} /\ calm \in BOOLEAN

(* A stored result holds all that lint, the dead-code pass and the         *)
(* security scan were to find, whichever of them its kind of scan runs,    *)
(* and the comparison with the base ref: a failure, a timeout, or files    *)
(* lint dropped when its budget was spent, is never replayed as clean      *)
(* (shouldStoreScanPayload).                                               *)
StoredIsWhole ==
  \A p \in Project, k \in Kind :
    cache[<<p, k>>] # None =>
      /\ cache[<<p, k>>].missing \subseteq {"supply"}
      /\ k \in Baseline => cache[<<p, k>>].compared

(* The same of the supply-chain check.                                     *)
StoredIsComplete ==
  \A p \in Project, k \in Kind :
    cache[<<p, k>>] # None => cache[<<p, k>>].missing = {}

(* A result served is one of the project as it is, unless the project      *)
(* changed while the scan that stored it ran.                              *)
ServedIsRight ==
  phase = "served" /\ calm =>
    /\ key[1] = project
    /\ cache[key].calm => ~cache[key].foreign

(* A score includes the dead-code findings the scan was to have: a         *)
(* dead-code pass that failed, or was skipped for the budget, gives no     *)
(* score, in whatever order it and lint ended; and a failed lint gives     *)
(* none, nor anything of the dead-code pass beside it.  A security scan,   *)
(* supply-chain check or part of lint that is lacking does not prevent a   *)
(* score (runInspect's score).                                             *)
ScoreSeesDeadCode ==
  phase \in {"joined", "payload", "done"} =>
    /\ scored /\ "dead" \in Wanted[kind] => findings["dead"] # None
    /\ status["lint"] = "failed" => ~scored /\ ~DeadFailure /\ findings["dead"] = None

(* Once the findings are put together and the reporter closed, no check is *)
(* still running that could report to it.                                  *)
NothingLeftRunning == phase \in {"joined", "payload", "done"} => Running = {}

(* A scan ends, though every check may hang.                               *)
ScanEnds == phase # "idle" ~> phase = "idle"
=============================================================================
