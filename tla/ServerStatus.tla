---------------------------- MODULE ServerStatus ----------------------------
(***************************************************************************)
(* What the language server tells the editor about itself                  *)
(* (packages/language-server/src/server.ts): the busy flag, the work-done  *)
(* progress created over a round trip to the client, and the lint health.  *)
(* The scheduler's idle reports and the scan outcomes are its inputs, in   *)
(* any order.  Initially the session is initialized and its status sent.   *)
(*                                                                         *)
(* The names keep clear of those of LanguageServer, the other side of the  *)
(* same file, so that a module can extend both.                            *)
(***************************************************************************)
EXTENDS Naturals, FiniteSets

CONSTANTS MaxRoundTrips,  \* bound on the progress-create requests sent
          MaxRestarts     \* bound on the restart commands

ASSUME RoundTripsAssumption == MaxRoundTrips \in Nat
ASSUME RestartsAssumption == MaxRestarts \in Nat

VARIABLES isBusy,
          workDoneProgress,  \* the reporter kept, 0 for null
          creating,          \* create requests the client has not answered
          progresses,        \* progresses begun at the client and not done
          requests,          \* create requests sent so far
          serverHealth, lintWarningShown,
          published,         \* the last experimental/serverStatus
          overlapped,        \* two create requests were once open together
          lint,              \* how the last lint that ran ended
          warned,            \* the user saw a warning in this warning episode
          restarts

progressVars == <<isBusy, workDoneProgress, creating, progresses, requests, overlapped>>
healthVars == <<serverHealth, lintWarningShown, lint, warned, restarts>>
statusVars == <<progressVars, healthVars, published>>

Reporter == 1..MaxRoundTrips

(* How a scan ended.  "failed" is lint-degraded (didLintFail).  The three  *)
(* last ones did not run lint and still say didLintFail = false: served    *)
(* from the cache, not a React project, and a scan that threw.             *)
OutcomeKind == {"linted", "failed", "cached", "skipped", "threw"}

DidLintFail(kind) == kind = "failed"

LintRan(kind) == kind \in {"linted", "failed"}

Status(health, busy) == [health |-> health, quiescent |-> ~busy]

StatusInit ==
  /\ isBusy = FALSE
  /\ workDoneProgress = 0
  /\ creating = {}
  /\ progresses = {}
  /\ requests = 0
  /\ serverHealth = "ok"
  /\ lintWarningShown = FALSE
  /\ published = Status("ok", FALSE)
  /\ overlapped = FALSE
  /\ lint = "fine"
  /\ warned = FALSE
  /\ restarts = 0

PublishServerStatus == published' = Status(serverHealth', isBusy')

(* setBusy(true) up to its await.                                          *)
BecomeBusy ==
  /\ ~isBusy
  /\ requests < MaxRoundTrips
  /\ isBusy' = TRUE
  /\ requests' = requests + 1
  /\ creating' = creating \union {requests'}
  /\ overlapped' = (overlapped \/ creating # {})
  /\ UNCHANGED <<workDoneProgress, progresses, healthVars>>
  /\ PublishServerStatus

BecomeIdle_NoDone ==
  /\ isBusy
  /\ isBusy' = FALSE
  /\ workDoneProgress' = 0
  /\ UNCHANGED <<creating, requests, overlapped, progresses, healthVars>>
  /\ PublishServerStatus

(* setBusy(false).                                                         *)
BecomeIdle ==
  /\ isBusy
  /\ isBusy' = FALSE
  /\ progresses' = progresses \ {workDoneProgress}
  /\ workDoneProgress' = 0
  /\ UNCHANGED <<creating, requests, overlapped, healthVars>>
  /\ PublishServerStatus

(* The client answered: setBusy(true) after its await.  Answers come in    *)
(* any order.                                                              *)
Created(reporter) ==
  /\ creating' = creating \ {reporter}
  /\ IF isBusy
     THEN workDoneProgress' = reporter /\ progresses' = progresses \union {reporter}
     ELSE UNCHANGED <<workDoneProgress, progresses>>
  /\ UNCHANGED <<isBusy, requests, overlapped, healthVars, published>>

(* The client refused: the await throws and setBusy's promise is dropped.  *)
CreateFailed(reporter) ==
  /\ creating' = creating \ {reporter}
  /\ UNCHANGED <<isBusy, workDoneProgress, progresses, requests, overlapped,
                 healthVars, published>>

Recover_KeepShown ==
  /\ serverHealth' = "ok"
  /\ UNCHANGED lintWarningShown

(* Lint recovered: the next degraded scan warns again.                     *)
Recover ==
  /\ serverHealth' = "ok"
  /\ lintWarningShown' = FALSE

(* maybeWarnLintUnavailable, called for every scan result.                 *)
MaybeWarn(kind) ==
  /\ lint' = IF LintRan(kind) THEN (IF DidLintFail(kind) THEN "broken" ELSE "fine")
                              ELSE lint
  /\ IF DidLintFail(kind)
     THEN /\ serverHealth' = "warning"
          /\ lintWarningShown' = TRUE
          /\ warned' = (warned \/ ~lintWarningShown)
     ELSE /\ IF serverHealth = "warning"
             THEN Recover ELSE UNCHANGED <<serverHealth, lintWarningShown>>
          /\ warned' = FALSE
  /\ UNCHANGED <<progressVars, restarts>>
  /\ IF serverHealth' # serverHealth THEN PublishServerStatus ELSE UNCHANGED published

(* The restart command lets the next degraded scan warn once more.         *)
RestartCommand ==
  /\ restarts < MaxRestarts
  /\ restarts' = restarts + 1
  /\ lintWarningShown' = FALSE
  /\ UNCHANGED <<progressVars, serverHealth, lint, warned, published>>

StatusNext ==
  \/ BecomeBusy
  \/ BecomeIdle
  \/ \E reporter \in creating : Created(reporter)
  \/ \E reporter \in creating : CreateFailed(reporter)
  \/ \E kind \in OutcomeKind : MaybeWarn(kind)
  \/ RestartCommand

StatusSpec == StatusInit /\ [][StatusNext]_statusVars

-----------------------------------------------------------------------------

(* Every variable has its type, and the reporter kept is one the client shows. *)
StatusTypeOK ==
  /\ isBusy \in BOOLEAN
  /\ workDoneProgress \in progresses \union {0}
  /\ creating \in SUBSET Reporter
  /\ progresses \in SUBSET Reporter
  /\ requests \in 0..MaxRoundTrips
  /\ serverHealth \in {"ok", "warning"}
  /\ lintWarningShown \in BOOLEAN
  /\ published \in [health : {"ok", "warning"}, quiescent : BOOLEAN]
  /\ overlapped \in BOOLEAN
  /\ lint \in {"fine", "broken"}
  /\ warned \in BOOLEAN
  /\ restarts \in 0..MaxRestarts

(* The status the editor holds is the server's, although four code paths   *)
(* change it and each must remember to send it.                            *)
StatusUpToDate == published = Status(serverHealth, isBusy)

(* No reporter is kept while idle: the check after the await in setBusy.   *)
NoProgressWhileIdle == ~isBusy => workDoneProgress = 0

(* A progress is orphaned, shown for ever, only if two create requests     *)
(* were open together; a client that answers before the server flips twice *)
(* sees every progress end.                                                *)
OrphanNeedsOverlap == ~overlapped => progresses \subseteq {workDoneProgress}

(* "so a progress is never orphaned": the comment above setBusy.           *)
NeverOrphaned == progresses \subseteq {workDoneProgress}

(* Every episode of degraded lint warned the user once it began, also the  *)
(* second one: serverHealth and lintWarningShown are reset together.       *)
EveryEpisodeWarned == serverHealth = "warning" => warned

(* "Lint recovered -> clear degraded status": the status is cleared only   *)
(* when lint ran again and succeeded.                                      *)
ClearedOnlyByLint == serverHealth = "ok" => lint = "fine"
=============================================================================
