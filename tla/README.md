# react-doctor: models, checks and proofs

This directory holds a TLA+ development of the concurrent and stateful parts of
the react-doctor monorepo: modules that model its components, TLC runs on small
instances, and theorems TLAPS checks for every value of the constants.

Contents: [1 The system](#1-the-system) · [2 The modules](#2-the-modules) ·
[3 The runs](#3-the-runs) · [4 Where code and comments disagree](#4-where-code-and-comments-disagree) ·
[5 Fairness](#5-fairness) · [6 The proofs](#6-the-proofs) ·
[7 What is not modelled](#7-what-is-not-modelled) · [8 Plan](#8-plan)

## 1. The system

react-doctor finds defects in React projects. A linter (oxlint with the rules of
`oxlint-plugin-react-doctor`), a dead-code analysis (`deslop-js`) and a number
of file checks run over a project; their diagnostics are filtered, scored and
printed by the CLI, returned by a programmatic API, or published to an editor by
a language server.

All of it is JavaScript on one event loop per process: a handler runs to its end,
or to its next `await`, without interruption. What makes it hard is what happens
between those points: subprocesses that take seconds, debounce timers, client
round trips, files other programs write, and several processes sharing files on
disk.

| Part (under `src/packages/`) | State it keeps | Operations | How it interacts |
|---|---|---|---|
| scan scheduler: `language-server/src/runtime/scheduler.ts` | armed timers, queue, newest generation per key, two slot counters | `enqueue`, timer callback, `drain`, a scan settling, `cancelProject`, `dispose` | called by every event handler of the server; calls `performScan`, `onResult`, `onIdleChange` |
| diagnostics manager: `language-server/src/diagnostics/manager.ts` | published diagnostics per URI, tracked URIs per project | `applyOutcome`, `retainProjectFiles`, `clearProject`, `clearUri` | receives outcomes, publishes to the client, asks which files are open |
| server: `language-server/src/server.ts` | open documents, roots, project graph, configuration timer | document, file, folder and command notifications | enqueues and cancels scans, rebuilds the graph |
| status and progress: `language-server/src/server.ts:289-352` | busy flag, health, warning flag, progress reporter | `setBusy`, `publishServerStatus`, `maybeWarnLintUnavailable` | driven by idle reports and outcomes; a client round trip creates each progress |
| scan runner: `language-server/src/core/scan-runner.ts`, `overlay.ts`, `lint-cache.ts` | lint results per file, in memory and on disk | `performScan`, `lookup`, `store`, `persist`, `invalidateCaches` | reads buffers and files that change while it runs |
| scan telemetry: `language-server/src/runtime/scan-telemetry.ts` | the active burst | `begin`, `accumulate`, `finish` | fed by outcomes and idle reports |
| editor features: `language-server/src/features/` | none | hover, code actions, suppression edits | read published diagnostics and current texts |
| dead-code worker slots: `core/src/dead-code/dead-code-worker-slots.ts`, `core/src/check-dead-code.ts` | free slots, waiters, child processes | acquire, abort, timeout, release | shared by all scans of one process |
| lint batches: `core/src/runners/oxlint/spawn-batches.ts`, `spawn-oxlint.ts`, `core/src/utils/map-with-concurrency.ts` | batches, drops, skips, budgets, reasons | spawn, split, drop, skip, replay, rescue, report | one oxlint subprocess per batch |
| lint runner: `core/src/run-oxlint.ts`, `runners/oxlint/file-lint-cache.ts`, `sidecar-lint-cache.ts` | two JSON files: diagnostics by file hash, and by file hash and probes | hash, lint in up to three passes, verify probes, replay, store | several processes share the files; calls the lint batches |
| dead-code result cache: `core/src/dead-code/dead-code-result-cache.ts`, around `core/src/check-dead-code.ts` | a JSON file | snapshot, lookup, repair, analyze, store | files change while they are hashed and analyzed; several processes |
| module graph analysis: `deslop-js/src/linker/`, `deslop-js/src/report/` | module graph, visited set, Tarjan's stacks | link, trace, report files, exports and cycles | runs in the dead-code child process |
| incremental cache of the analysis: `deslop-js/src/summary-cache.ts` | file list, parse summaries, resolutions, package facts | walk, look up, repair, store | files change between walk, parse and store |
| scan orchestration: `core/src/run-inspect.ts` | forked fibers, failures | one scan | joins supply chain, security, lint and dead code |
| CLI scan: `react-doctor/src/inspect.ts`, `cli/utils/scan-result-cache.ts` | result cache file | key, lookup, scan, compare with the base ref, store | calls the orchestration |
| diagnostic pipeline, scoring, configuration, discovery, other checks: `core/src/` | none | pure functions and one-shot reads | called by the orchestration |
| rest of the CLI: `react-doctor/src/` | settings store | install, gates, migrations | several processes rewrite one store |
| `api`, `eslint-plugin-react-doctor`, `oxlint-plugin-react-doctor`, `deslop-cli`, parsing and detectors of `deslop-js`, editor extensions, `website`, `evals`, `fuzz` | none that outlives a call | | wrappers, rules, parsers, clients, tools |

What is hard in it, and what makes each part correct:

* **Scheduler.** Timers, scans and cancellations interleave freely; a superseded
  scan still runs and still holds a slot. Correct when slots balance, no request
  waits for nothing, answers move forward per key, every wanted request is
  settled, and the busy indicator neither sticks nor lies.
* **Server, scan runner, manager.** A scan reads at one moment and is applied at
  another; which files are open, known or still there changes in between; scans
  of one file under different keys do not see each other. Correct when, once
  nothing is on its way, what the editor shows is what the newest contents and
  configuration deserve.
* **Status and progress.** A busy flag flips during the round trip that creates
  the indicator. Correct when the client's last status is the server's, every
  progress ends and every degradation is announced.
* **Dead-code slots.** Abort, timeout and hand-over race. Correct when slots are
  conserved, nobody dead is handed one and nobody waits for ever.
* **Lint batches.** Partial failure at every level: splitting, dropping,
  deadlines, a replay, a rescue. Correct when every file is accounted for and the
  report says what happened.
* **Caches.** Five of them: the editor's lint results, the two of the lint runner,
  the dead-code result, the analyser's own, and the CLI's whole result. Each reads,
  decides and writes with edits and other writers in between. Correct when a hit is
  what computing anew would give, and a loss or a race costs only work.
* **Orchestration.** Four checks in fibers, each of which may fail, hang or be cut,
  some failing open. Correct when the scan ends, nothing runs on after it, and a
  result that lacks a part is neither scored nor replayed as a whole one.
* **Module graph.** A fixed point with a bound, a trace in two goes, a cycle search
  with limits, all hand-written with explicit stacks. Correct when they agree with
  their definitions in closed form on every graph.

`PROJECT.json` lists the hazards one by one, each with its source line and the
properties that watch it, or a note when none does yet.

## 2. The modules

| Module | Models | Composition |
|---|---|---|
| `LatestWins` | what the scheduler promises its caller, without queues, timers or slots | abstract specification |
| `Scheduler` | `runtime/scheduler.ts` | implements `LatestWins` (`KeepsPromise`) |
| `LanguageServer` | server events, `performScan`, the diagnostics manager | uses the scheduler as `LatestWins` describes it |
| `ServerStatus` | busy flag, progress, health | driven by the scheduler's idle reports and by outcomes |
| `ServerFeedback` | `runtime/scan-telemetry.ts`, the callbacks of the scheduler and the handlers that scan the workspace | extends `Scheduler` and `ServerStatus`, and implements both |
| `DeadCodeWorkers` | worker slots, worker timeout and abort, child processes | |
| `LintBatches` | one call of `spawnLintBatches` | |
| `LintCache` | `lint-cache.ts` and the `performScan` around it | what `LanguageServer` leaves out of a disk scan |
| `LintReplay` | one lint pass after another over the two lint caches (`run-oxlint.ts`) | a pass stands for one run of `LintBatches` |
| `DeadCodeResultCache` | `dead-code-result-cache.ts` around `checkDeadCode` | |
| `SummaryCache` | `summary-cache.ts` around one analysis | what the child of `DeadCodeWorkers` does |
| `InspectRun` | one CLI scan after another: result cache and orchestration | its checks stand for the components above |
| `ModuleGraph` | linking, tracing and reporting on a module graph | |
| `ModuleCycles` | import cycles and re-export cycles, after `ModuleGraph` | extends `ModuleGraph`; `Next` runs both in order |
| `…Proofs` | theorems | each extends its component; `SchedulerProofs` is of `Scheduler`, `ServerStatus` and `ServerFeedback`, `ServerProofs` of `LanguageServer`, `LintRunnerProofs` of `LintBatches` and `LintReplay`, `AnalyzerProofs` of `ModuleCycles` and `SummaryCache` |
| `MC…` | small values of the constants | one per component; `MCServerFeedback` for `ServerStatus` too, `MCModuleCycles` for both graph modules |

Definitions whose name has a suffix (`CanDrain_OffByOne`) are the deliberate
mistakes each property has been shown to notice; no specification uses them.

### Scheduler

A request is a record with the fields the code uses; a key is a pair of a project
directory and a file scope (`keyOf`; sorting and joining the files is what makes
the scope a set). The queue array is a set of entries with an arrival number, so
"first of the best priority" is a minimum. `drain` is a loop that runs to its end
before anything else happens, and it may start several scans: `control = "drain"`
marks that loop, whose steps are `Start`, `Drop` (a superseded entry) and `Stop`.
Everything else happens at the event loop.

| Action | Code |
|---|---|
| `Enqueue` | `enqueue`: a new generation, the timer of the key re-armed |
| `TimerFire` | the timer callback |
| `Start`, `Drop`, `Stop` | one turn of the `while` in `drain`, and its end with `notifyIdle` |
| `Settle` | the scan's promise settles: `then` / `catch`, delivery unless cancelled |
| `Release` | `finally`: the slot is returned, `drain`, `notifyIdle` |
| `CancelProject`, `Dispose` | the operations of that name |

`settled` are scans between their `then` and their `finally`: two microtasks,
between which other callbacks may run. `idle` is the last report, `delivered` and
`ended` remember what was answered. `MaxGeneration` bounds the generations.
Timers are not timed: after it is armed, a timer may fire at any moment.

### LanguageServer

The content of a file is `"clean"`, `"buggy"` or `"absent"`; it deserves a
diagnostic when it is buggy and the configuration on disk enables the rule.
Diagnostics of a file are one bit (`shown`): which ones they are makes no
difference to when they are published or cleared. A job is a request with the
phase of its `performScan`: `queued`, `started` (the requested paths are fixed,
without the open ones for a background scan) and `read` (the files were read, at
once for an overlay, later for a disk scan). `ScanResult` is `onResult`:
`applyOutcome`, after which the job is gone. A superseded or cancelled job
disappears at once, which is what `LatestWins` allows an observer to see of it.

Other programs write and delete files (`WriteFile`, `DeleteFile`) and edit the
configuration; each leaves a notice the server receives later. A save is two steps:
the editor writes the file (`SaveFile`), and its `didSave`, which only enqueues a scan
of the disk (`DidSave`), arrives later, with changes of the document, its closing and
any scan in between (`saving` holds the saves not yet told of). `Outside` says
which contents a file may have, `MayOpen` which files an editor opens, `MayLeave`
which projects an edit may disqualify, `MayDisable` whether an edit may switch the
rule off. `excused` is a ghost: files whose last scan failed, and open files a
deletion event cleared, about which the properties that compare with the newest
content say nothing until a scan assesses them again. `outrun` is another: open files
whose `didSave` arrived with a buffer that has moved on from what was written, until
the next scan of the buffer is asked for. The chunks of `scanWorkspaceLint`
are any partition into runs of `ChunkSize`, because the order git lists files in
is not specified.

### ServerStatus

`BecomeBusy` and `BecomeIdle` are `setBusy` up to its `await`; `Created` is what
follows the answer, `CreateFailed` a rejected request. Reporters are numbered by
request. Outcomes come in the kinds `didLintFail` tells apart, plus whether lint
ran at all. `MaybeWarn` is `maybeWarnLintUnavailable`, `RestartCommand` the status
part of the command `ServerFeedback` and `LanguageServer` model as `Restart`.
`overlapped` (two create requests open together), `lint` (what the last lint run
told) and `warned` (the user was told of the present episode) are ghosts.
`MaxRoundTrips` and `MaxRestarts` bound requests and restarts.

### ServerFeedback

The scheduler and the status machine with the wires between them, one step for one
callback: a step of the scheduler that reports (`OnIdleChange`) flips the busy flag
and ends the burst, one that delivers (`OnResult`) feeds the health and the burst. A
handler that scans the workspace makes many calls of the scheduler without giving
way; `handler` holds those still to be made, and nothing else moves until it has
returned (`HandlerCancels`, `HandlerEnqueuesFile`, `HandlerEnqueuesChunk`,
`HandlerEnds`, which is `begin`).

| Action | Code |
|---|---|
| `SchedulerRuns` | timers, drains, scans that settle, `finally`, `dispose`, with the callbacks they call |
| `ClientAnswers` | the answer to a create request, between two turns of the event loop |
| `ScheduleFileScan` | open, change, save, close, watched file, scan-file command |
| `InitialScan`, `FoldersChange`, `ConfigChange`, `Restart`, `ScanWorkspaceFull` | the handlers that scan the workspace |

A burst keeps the ids of the scans it began with (`asked`, which the code does not
keep) and those it counted; `event` is the last one recorded. Which files exist and
are open is left to `LanguageServer`: a handler enqueues any scans of open files and
any chunks that leave those out, or the project as a whole where git lists no file of
it, open ones or not (`ChunksFor`).

### DeadCodeWorkers

A call goes from `idle` to `running` or `waiting`, from `waiting` through `handed`
(its promise is resolved, it has not resumed) to `running`, then `settled` (the
task's promise is settled, `finally` is still to come) and `done`; or to
`rejected`. `alive` are children the system still has, `killed` those sent a
SIGKILL: a killed child disappears in a step of its own, as `terminate` does not
wait for it. `availableSlots = -1` is the code's own sentinel.

### LintBatches

A batch is a set of files. A worker runs one process at a time and keeps the
halves still to run with their depths. A process succeeds, fails splittably
(`"oom"`, or `"limit"` for timeout, output size and other signals), or throws
(`"exhausted"`, which a serial replay may cure, or `"fatal"`). Clocks are flags
that go up at any moment. `Replay` is the serial retry, `BeginRescue` and
`RescueFile` the out-of-memory rescue, `Finish` the report. A timeout and an abort
kill the process and settle without waiting for its end: `lingering` says that some
killed process may still be alive, until `KilledEnds`.

### LintCache

One project of one server, again and again: `Exit` ends the process, with or
without the `Dispose` of a shutdown before it, and `Open` starts the next, which
finds `disk`. A cache object is `current`, or dropped (`Reset`, `FoldersChange`)
and still held by its timer or by a scan (`Held`); one that nobody holds is free
to be used again. `StartScan` is `performScan` up to `runEditorScan`, which reads
the configuration (`ReadConfig`) and the files (`ReadFiles`) later; `EndScan` is
the rest of it. `Persist` is the timer, `Write` the atomic replacement, which may
fail. A fingerprint stands for the configuration it was computed from, a hash for
the content, and an entry keeps, for the properties only, what oxlint really read
and whether anything was edited between the hash and the store (`calm`).

### LintReplay

`own`, `bounded` and `unbounded` are the diagnostics of the three kinds of rules:
those that read their own file, those whose reads of other files are recorded as
probes, and those that always run. `Begin`, `Hash`, `StartFull`, `LintFull`,
`Verify` (the probes of a hit), `LintBounded`, `LintUnbounded`, `StoreOwn`,
`StoreSidecar` and `Return` follow the code's order, a file at a time; `DropFile`
is a file one of the passes gives up, `lost` the files each has. Diagnostics are what the rule read. One
ruleset is one bucket of the cache file; the drop of the hooks plugin is a
partial failure like any other. `Evict` stands for every way to lose an entry:
the caps, a failed write, a sibling process that wrote back what it had read.
With the sidecar turned off, or without bounded rules, fewer steps happen; the
model has both.

### DeadCodeResultCache

Each process goes through `snapshot` (a stat of every file, one at a time),
`verify` (hashes of the files whose stat differs), then `Hit` with a repair of
the stats, or `analyze` (every file read, one at a time) and `store` (hash and
stat of every file again). Diagnostics are the contents the analysis saw; a write
gives a new mtime, and `Size` says which contents have the same length. `since`
remembers the contents each path had during the scan, which is what a hit is
compared with.

### SummaryCache

`Walk`, the file list, `LookupSummary`, `Parse`, `HashSource` and `StoreSummary`
per source file, the resolutions, the package facts of the configuration files,
`Save`; `Fail` ends an analysis anywhere before the last. `walked` marks a summary of
a file the walk had seen, `calm` an answer computed while nothing changed.

### InspectRun

`status` says where each of the four checks is. `Begin` makes the key, reads the
cache and forks; `SecurityEnds`, `SupplyEnds`, `SupplyTimesOut`, `DeadEnds`,
`DeadTimesOut`, `LintEnds`, `LintTimesOut` are the ways the fibers end (`partial`
is lint with dropped files, `missing` an absent oxlint binding, `skipped` a
supply-chain check without scores); `AfterLint`, `JoinDead`, `Join` are the main
fiber, `ScanDeadline` the timeout around all of it; `Compare` is the scan of the
base ref, `Store` the decision to keep the result. The findings of a check are
the state of the project it read; those of a `partial` lint too, but they count as
lacking in what is stored.

### ModuleGraph, ModuleCycles

A graph is a record of entry points, imports (with the way they are made: names,
members of a namespace, whole, for types, for side effects, by `import()` or by a
pattern), exports and groups of platform variants; `Family` lists the families of graphs a run goes through.
`LinkModule` is one file of one round of `resolveReExportChains`, `Trace` one file taken from
the queue, `Spread` one group of variants; `UnusedFiles`, `UnusedExports` are the
reports. An import for side effects has a symbol of its own in the code and runs, so
it counts for cycles (`Runs`); an `import()` of an entry point that has an `export *`
marks nothing as used (`PassesOn`).

The references are of two kinds. `Starred`, `Renamed`, `LeadsTo` and `Live` say what
exports and imports mean in the language, without a look at what the code collects.
The code does less, and more, than these: `OnlyStarsBring` and
`NoLiveExportReported` compare with them and are violated (section 4). What holds is
`LinkedExactly` (every name that `export *` brings, and no other where files with an
`export *` re-export nothing else) and `NoTracedExportReported` (no export is reported
that is reached by name, `Traced`: without `export * as` and without the imports of
`PassesOn`). `StartNode`, `Advance` and `Retreat` are the loop of Tarjan's algorithm,
which runs twice, `StartSearch`, `Extend`, `BackUp` and `Listed` the enumeration
of elementary cycles, `Keep` (one found cycle) and `KeepEnds` the filter for
harmful ones. Files are taken from the queue, and the successors of a file looked
at, in any order, and a sort may leave in place whatever it does not have to move:
none of the results depends on it. A cycle of a file with itself is only looked
for in a component of three files or more, and told as such (`Lone`). Given from outside: what is parsed and how paths resolve, which
files are entry points (generated registries among them), which files are
`ignored` or `exempt` from the report.

## 3. The runs

| Run | Instance | What it shows |
|---|---|---|
| `scheduler` | 3 keys in 2 projects, 2 slots, 1 reserved, 3 generations; with fairness | slots, delivery order, no needless wait; the scheduler implements `LatestWins`, its liveness included; busy ends |
| `server_feedback` | a whole project and a file of another, 2 slots, 1 reserved, 3 generations, 3 create requests, 1 restart | at rest the editor is told so, the progress has ended and no burst is open; events wait for their scans; each episode announced |
| `server_files` | 2 files, one that others edit and one that comes and goes and may be open, 1 file per chunk, rule switched on and off | the freshest result stays, shown files are tracked and belong to a known project |
| `server_chunks` | 2 files in one chunk, one may be open, audits, failures, folders removed and added | an open buffer is shown its own diagnostics, but when it outran its save; results clear only what they assessed |
| `dead_code_workers` | 4 callers, 2 slots; with fairness | conservation, bound on live children, every wait ends |
| `lint_batches` | 4 files in batches of 3 and 1, 2 workers, depth cap 2, deadline; with fairness | every file accounted for, true report, serial passes alone but for what was killed, termination |
| `lint_cache` | 2 files, one edited and one deleted, 2 configurations, 1 scan at a time, 2 cache objects, 2 edits | a hit stored while nothing changed is what a scan would say; no hit from under another configuration |
| `lint_replay` | 2 files, one of which may import the other, which comes and goes; 2 writes | a warm pass reports what a cold one would; a file reported as analyzed was |
| `dead_code_cache` | 2 files, 2 processes, 3 contents (two of one size), 2 writes | a hit shows a tree its listed files really had; a miss has a cause |
| `summary_cache` | 1 source, 1 configuration file, 2 contents, kinds of resolution, 3 writes | summaries of walked files and answers computed in calm are right |
| `inspect_run` | 2 project states, scans with and without a base ref, 1 edit; with fairness | only whole results are stored and served, no score without the dead-code findings that were to be or after a failed lint, nothing runs on, the scan ends |
| `module_graph` | 4 files, 10398 graphs in four families, limits 5, 4 and 4; with fairness | links, trace, exports, cycles and barrel cycles agree with their closed forms, as far as the code does; the analysis ends |

Why these bounds are enough to meet the interesting cases:

* Three generations allow a request, one that supersedes it and one of another
  key, or one that a `cancelProject` overtakes (it consumes a generation per key);
  two slots with one reserved allow a background scan running, one waiting and an
  interactive one passing it. The safety properties are proved for every bound,
  so the run's own task is the liveness.
* In `server_feedback` two keys of two projects are a burst of two chunks of which
  one is cancelled, superseded or finished before the other; every busy period takes
  a generation, so three create requests are all there can be (fewer would block
  the scheduler), and three allow an overlap, its resolution and one more.
* Two files are what a chunk needs to differ from its members, and one project
  owning both is what two keys over one file need. Two projects would only add
  the interleaving of independent jobs.
* Four callers on two slots allow two waiters, so that hand-over order and an
  abort in the middle of the queue matter.
* A batch of three splits into two and one and again, and stops at the depth cap
  of two or at single files; the second batch is what the other worker does meanwhile.
* Two edits are what it takes to change a file and to change it back, or to change
  a file and the configuration; two cache objects are one in use and one dropped
  whose timer is still armed. The two files differ: one has two contents, the
  other one content and its absence. With several scans the scans of the two files
  only interleave, as they share nothing but the cache object, which keeps one
  entry per file; `LintCacheProofs` covers any number of them.
* Content that decides what a file imports, and an imported file that comes and
  goes, make every answer a probe can have change; two writes change it and
  change it back, around any number of passes.
* Two contents of the same size are what separates a stat from a hash, and the
  second process is the writer between another's read and its write. Two writes in
  `dead_code_cache` and three in `summary_cache` are enough to change a file between
  two steps and back, and in the second once more, after the entry was stored.
* One edit between any two steps of a scan separates the tree the key was made from,
  the tree each check read and the tree of the next scan.
* The families of graphs are chosen for what each part needs: barrels that
  re-export each other in chains and rings (`Barrels`), imports of each kind with
  platform variants and exempt files (`Sided`), imports at run time by an entry point and
by another file beside every set of five re-exports (`Lazy`), and every set of imports out of nine
  of the twelve pairs of four files and of one with itself (`Loops`), so that two components, nested and
  overlapping cycles, cycles through a bare import and each of the three limits occur.

`CHECK_DEADLOCK FALSE` appears where the system, or what drives it, really stops:
the server after `shutdown` (`LanguageServer`), callers that are all done
(`DeadCodeWorkers`), a pass that has returned or thrown (`LintBatches`), a server
that has exited with the edits used up (`LintCache`), an analysis that has
reported (`ModuleGraph`). The other runs are checked for deadlock.

Type invariants are proved (section 6) and left out of the runs, but can be added
to any of them, as can these, which are proved, or parts of what is proved, too: `StatusUpToDate`,
`NoProgressWhileIdle`, `OrphanNeedsOverlap` (`ServerFeedback.cfg`),
`IdleReportHonest`, `BurstCollapses` (`Scheduler.cfg`), `WaitersAreLive`,
`AbortedInQueueNeverRuns`, `NoFreeSlotWhileWaiting` (`DeadCodeWorkers.cfg`),
`ReasonApplies` and `DeadlineStopsSpawning` (`LintBatches.cfg`). The invariants
the proofs rest on (section 6) were checked the same way before they were proved.

## 4. Where code and comments disagree

Each entry says what a comment promises and what the code does. Those with a
configuration can be reproduced: `tlc -config X.cfg M` ends in a counterexample to
the one property the configuration names, which is the comment's. `PROJECT.json`
quotes the lines.

| Configuration | Module | Property |
|---|---|---|
| `ServerStatusOrphan.cfg` | `MCServerFeedback` | `NeverOrphaned` |
| `ServerStatusHealth.cfg` | `MCServerFeedback` | `ClearedOnlyByLint` |
| `ServerTelemetry.cfg` | `MCServerFeedback` | `EventCountsItsBurst` |
| `SchedulerOneSlot.cfg` | `MCScheduler` | `ReserveFree` |
| `DeadCodeChildren.cfg` | `MCDeadCodeWorkers` | `ChildrenBounded` |
| `ServerFresher.cfg` | `MCLanguageServer` | `FresherResultStays` |
| `ServerDeleted.cfg` | `MCLanguageServer` | `DeletedStaysCleared` |
| `ServerOrphans.cfg` | `MCLanguageServer` | `OnlyKnownProjectsShown` |
| `LintCacheTorn.cfg` | `MCLintCache` | `HitsAreRight` |
| `DeadCodeCacheAdded.cfg` | `MCDeadCodeResultCache` | `HitIsRight` |
| `SummaryCacheCreated.cfg` | `MCSummaryCache` | `SummaryIsRight` |
| `InspectSupply.cfg` | `MCInspectRun` | `StoredIsComplete` |
| `ServerSaved.cfg` | `MCLanguageServer` | `BuffersOwned` |
| `LintBatches.cfg`, in place of `SerialIsAlone` | `MCLintBatches` | `KilledAreGone` |
| `ModuleGraph.cfg`, in place of `LinkedExactly` | `MCModuleCycles` | `OnlyStarsBring` |
| `ModuleGraph.cfg`, in place of `NoTracedExportReported` | `MCModuleCycles` | `NoLiveExportReported` |

* **A progress can be orphaned** (`ServerStatusOrphan`, `server.ts:318`). The
  check after the `await` tells busy from idle, not one busy period from the
  next. Busy, idle, busy while the first create request is open: both answers
  pass the check, and the first progress is never ended. `OrphanNeedsOverlap`,
  proved, says that this is the only way.
* **Lint degraded is cleared by scans that did not lint**
  (`ServerStatusHealth`, `server.ts:335`). An outcome served from the cache, or
  a graceful skip, has `didLintFail = false`.
* **A workspace event counts other scans** (`ServerTelemetry`, `server.ts:410`).
  Every background outcome goes into the burst that is open: scans of closed and
  watched files, and chunks of the burst before. `EventsAreSettled` is what holds.
* **One slot and one reserved** (`SchedulerOneSlot`, `scheduler.ts:38`). Background
  scans always keep one slot, so with a concurrency of 1, which the environment may
  ask for, an editor's scan waits for a workspace scan. `ReserveKept` proves the
  reserve for every concurrency above it.
* **More children than slots** (`DeadCodeChildren`, `check-dead-code.ts:538`).
  A killed child is not awaited before its slot is reused. `LiveChildrenBounded`
  is the bound that does hold.
* **A chunk clobbers a fresher single-file result** (`ServerFresher`,
  `scan-runner.ts:213`). Generations are per key, and the two scans have two keys.
  With one file per chunk (`server_files`) the property holds.
* **A deleted file's diagnostics come back** (`ServerDeleted`, `server.ts:596`).
  The deletion clears the file and supersedes no scan in flight.
* **Diagnostics of a project that left the graph stay** (`ServerOrphans`,
  `server.ts:278`). Configuration rescans rebuild the graph without clearing; the
  folder handler clears first.
* **A lint result is kept under another content's hash** (`LintCacheTorn`,
  `scan-runner.ts:246`). The hash is taken before oxlint reads the file; edited in
  between and back, the file is shown the findings of the content it had in
  between until it changes again. `CalmHitsAreRight`, checked and proved, says
  that an edit between the hash and the store is the only way.
* **A file the snapshot missed leaves its mark** (`DeadCodeCacheAdded`,
  `dead-code-result-cache.ts:255`). Created after the snapshot, read by the
  analysis, removed again: it is in the stored findings and not in the stored set
  of paths. `ListedHitIsRight` is what holds, for the files of the snapshot.
* **A created file's parse is stored beside a later content's hash**
  (`SummaryCacheCreated`, `summary-cache.ts:594`). For a file the walk had not
  seen, the check before the store compares the live stat with itself.
  `WalkedSummaryIsRight` holds for the files it had seen.
* **An incomplete supply-chain check is stored** (`InspectSupply`,
  `scan-result-cache.ts:523`). Only the overlap timeout is looked at, not packages
  dropped for want of a score. `StoredIsWhole` says what is never missing.
* **An older save overwrites a newer buffer** (`ServerSaved`, `server.ts:574`). The
  scan of a save reads the disk and replaces the scans of the same file enqueued
  before it. When the document was changed after the editor wrote it and before its
  `didSave` arrived, the newer interactive scan goes and the document is shown the
  findings of what was written, until it changes again. `OpenBuffersShown`, checked
  and proved, says that this is the only way (`outrun`).
* **A killed oxlint is not awaited** (`KilledAreGone`, `spawn-oxlint.ts:76`). A
  timeout and an abort reject at once, so the serial replay and the rescue, which
  comments give the machine to themselves, may run beside it. `SerialIsAlone` is
  what holds of all other processes.
* **`export *` brings too much** (`OnlyStarsBring`, `re-exports.ts:21`). A file with one
  `export *` is given the names of every file it re-exports from, those of an
  `export * as` or of single names included. An export is then kept that nothing can
  import by that way.
* **`export * as ns`** (`NoLiveExportReported`, `exports.ts:346`) is taken for a plain
  `export *` when its use is followed, so the exports used through `ns` are reported
  unused.
* **`import()` by an entry point with an `export *`** (`NoLiveExportReported`,
  `exports.ts:209`) marks nothing: its symbol is a namespace called `*`, which is taken
  to be re-exported. Every export of the file loaded is reported, where the comment
  at `exports.ts:124-127` has all of them used. Without such an `export *` they are.
* **`import * as ns` and `export { ns }` in an entry point** (`exports.ts:220`)
  marks nothing of the imported file as used. It has no configuration: `ModuleGraph`
  has no import of a namespace that its file exports again by name.
* **Re-exports count as type-only** (`cycles.ts:57`), and so do imports of style
  sheets: `every` of no symbols. An import for side effects does not, as the parser
  gives it the symbol `*`. `ModuleCycles` models what the code does (`Runs`, and no
  re-exports among the imports); a ring of `export *` is a re-export cycle and no
  import cycle, against the comment that calls the first a subset of the second.

Smaller observations.

* The comment on `keyOf` (`scheduler.ts:19`) says one scan per key is in flight; a
  superseded scan keeps running beside its successor, and only its answer is dropped.
* With chunks of two or more files `ShownIsTracked` fails: `manager.ts:126-129`
  untracks a file that was opened after the chunk was enqueued and whose
  diagnostics it leaves in place, so a later `clearProject` misses it.
* Platform variants are spread to once, before the second trace: a variant that
  only the second trace reaches brings no siblings. `ReachedExactly` states
  exactly that, and no more.
* `MAX_CYCLES_PER_SCC` counts the cycles the filter for access during
  initialisation drops afterwards, so a component may use up its share with
  cycles nobody is shown.
* `consumedExportsPerModule` (`exports.ts`) is collected and never read.
* A score that could not be fetched for a passing reason is stored as no score,
  and served until the tree changes.
* An edit during a scan stores the findings of the newer tree under the key of the
  older one (`inspect.ts`, `scan-result-cache.ts`): `ServedIsRight` therefore asks
  only about scans during which nothing changed.
* `file-lint-cache.ts:122-125` says the cap drops the oldest entries; a key a
  sibling process has already stored keeps its old position when it is linted again.

## 5. Fairness

* `Scheduler`: weak fairness of timers (the event loop fires due timers), of the
  turns of `drain` and of a settled scan's `finally` (the code runs on), and of a
  running scan settling. The last is an assumption on `performScan`: its
  subprocesses have timeouts (`spawn-oxlint.ts:87`, `check-dead-code.ts:543`).
* `DeadCodeWorkers`: weak fairness of a resolved waiter resuming, of the timeout
  of a running worker and of `finally`. No fairness of the child itself: it may
  hang for ever.
* `LintBatches`: weak fairness of workers taking batches, of a process ending in
  some way (oxlint ends or its timeout does it), and of the code after the pass.
  Nothing makes a process succeed, and no deadline has to pass.
* `InspectRun`: weak fairness of the main fiber's own steps (`Step`), of the
  timeout around the scan and of that around lint (timers fire). No check has to
  answer, and neither edits nor new scans have to happen.
* `ModuleCycles`: weak fairness of `Next`: a sequential program runs on.

The other specifications state no liveness and no fairness. A client need not
answer a create request, an editor need not fall silent, a file need not stop
changing: the server's properties are about states where nothing is on its way
(`Quiet`), the caches' about what is stored and what a hit returns.

## 6. The proofs

Every theorem below is about `Spec` (`StatusSpec`, `FeedbackSpec`, `ReplaySpec` and `SummarySpec` in
the modules that name it so) for all values of the constants that satisfy the
named assumptions of its module (finite sets of keys, callers, workers and
files; positive numbers of slots; batches that partition the files). TLC
evaluates those assumptions in the runs.

* **Scheduler** (`SchedulerProofs`). `SlotsConserved` is not inductive: `Release`
  subtracts one, so the request must have been counted, once. That needs a request
  to be in one place at a time (`OnePlace`), which needs ids to be distinct
  (`OneRequestPerId`), which needs every id to be at most the generation the next
  one is taken from (`IdsIssued`). `IInv` is their conjunction with `TypeOK`.
  `DeliveryMovesForward` adds that what was delivered is at most the newest
  generation and was ended (`AnswersEnded`). `NoNeedlessWait` adds that arrival
  numbers are distinct (`ArrivalOrder`), so that an eligible entry has a best one
  `drain` can take, and that a drain stops only when none is left (`Rested`).
  `IdleReportHonest` needs no more than the types; `BurstCollapses` that an armed
  timer is that of the newest request of its key (`Newest`), and that ids are distinct.
* **Refinement** (`SchedulerProofs`, last part). Under the mapping `issued <-
  generation`, `wanted <- Wanted` (the newest generation of a key when a request
  that carries it is pending), `closed <- disposed`, the initial state maps to
  that of `LatestWins` and each step to one of its steps or to a stutter:
  `Spec => Promise!Safety`. The fairness part of `Promise!Spec` is TLC's.
* **LanguageServer** (`ServerProofs`). The properties speak of a server at rest; the
  invariants say what holds on the way there. `Shape`: scans, what they found and
  what is tracked stay within their project, scans for the editor are of one file,
  and no two wanted scans share a key; from it `TypeCorrect` and `VanishRight`
  (`VanishOnlyWhenClean`). `OpenSettled`: an open file is shown as its buffer
  deserves, or a scan of the editor's has seen this buffer or will (`SeesBuffer`: its
  snapshot is taken when it starts; a save scan reads the disk, which has the buffer
  until the next change replaces that scan). A save scan asked for with a buffer that has
  moved on sees another one, and only that puts a file into `outrun`. `OpenBuffersRight`
  follows for every chunk size, with audits, failures and rescans. Its hypothesis, that no tool deletes
  a file the editor may open (`OpenFilesStay`), is needed: when a saved file is
  deleted before its save scan reads it, the scan finds nothing and clears an open
  buffer. `ClosedSettled` is the same of a closed file and the disk. `FresherStays`
  needs every scan to be of one file (`ScansAreSingle`): the generations that keep a
  stale result out are per key, and `ServerFresher.cfg` is what happens with two.
  `AllKnown`: scans and what is shown are of known projects, what is shown is
  tracked, and no background scan of one file is of an open one, since opening it
  replaced that scan. Its hypothesis (`ProjectsStay`) excludes what `ServerOrphans.cfg`
  shows, and larger chunks, in which an open file loses its tracking.
* **ServerStatus** (`SchedulerProofs`). `OrphanNeedsOverlap` needs to know what
  an open request left behind: with none overlapped, at most one request is open,
  and none while a progress is held (`OneRoundTrip`). `EveryEpisodeWarned` needs
  that the shown-once flag never outlives an episode (`WarnedWhileDegraded`).
* **ServerFeedback** (`SchedulerProofs`, last part). `FeedbackImplements`: every step of
  the composition is one of the scheduler or leaves it alone, and the same of the
  status machine, so that all the theorems about either hold of both together. What
  is new is what ties them (`FInv`): busy is the opposite of the last idle report; a
  burst is open at the event loop only while scans are under way, since the handler
  that opens it has just armed their timers and cancels nothing after; and what a
  burst asked for has ids already issued, so that a scan enqueued later is none of
  them. An idle report is true exactly when nothing is under way (`ReportIsTrue`),
  which gives `SpinnerRight`, `BurstsEnd` and `EventsWait`.
* **DeadCodeWorkers** (`DeadCodeWorkersProofs`). `SlotsBalance` needs
  `WaitersAreLive` (a waiter no longer waiting would swallow the slot handed to
  it), and that nobody holds a slot before the cap is read. `LiveChildrenBounded`
  follows from the balance and from children not killed belonging to running tasks.
* **LintBatches** (`LintRunnerProofs`). `EveryFileAccounted` needs that an idle
  worker holds no half, that after a pass nothing is left unstarted or running,
  and that a rescue moves only files that are still dropped. `ReportTrue` follows;
  `SerialIsAlone` is proved without counting, as "two busy workers are one"; it is of the
  processes that were not killed.
  `ReasonApplies`, that the reason reported is one a file still dropped failed for,
  needs the account: a file dropped by a limit is none dropped for memory before
  (`ReasonsFound`), so that no rescue clears it, and the file of the first rescue
  that failed stays dropped (`RescueReasonFound`). `DeadlineStopsSpawning` needs the
  types alone.
* **DeadCodeResultCache** (`DeadCodeResultCacheProofs`). `HitsShowTheTree` says that
  a hit shows, for every listed path, contents it had during the scan. A stat is
  believed in three places (lookup, repair, store), so the invariant says what a
  stat asserts: whatever an entry or a lookup claims of a path under its present
  stat is its present content (`TrueNow`), and under the stat a scan took, a
  content it had since (`TrueToScans`). This needs that times only grow
  (`PastTimes`), that what an analysis read of a path whose stat is still that of
  the snapshot is there still (`ReadsFresh`), and that an entry's findings are of
  the contents it has hashed (`Results`). It holds for any number of processes,
  paths and contents, and any sizes. `NoNeedlessMiss` is the converse, that the cache
  is of use: it needs that a stat tells whether there is a file and of what size, of
  the content that was hashed (`EntriesFit`, `HashedFit`) and of one the scan saw
  (`SnapshotSeen`); a time need not agree, as a differing one is looked into.
* **InspectRun** (`InspectRunProofs`). What is stored, scored and left running
  depends on how each fiber ended, and a fiber may end in any phase. The invariant
  follows the four of them: which ends each may have had in which phase
  (`LintFits`, `SecurityFits`, `DeadFits`, `Joined`), that a check that is done has
  findings and in calm those of the present project (`FindingsFit`, `KeyFits`), and
  what that makes of the entries of the cache (`EntriesFit`). It does not need
  fairness: no scan has to end for what is stored to be right.
* **ModuleGraph** (`AnalyzerProofs`). `Reached`: the files in use are what the
  entry points lead to, for every graph, in whatever order the queue is taken. A
  file that left the queue has what it refers to in use (`Settled`), nothing is in
  use that a closed set of files could do without (`NothingExtra`), and all that
  imports alone lead to is in use when the variants are looked at (`LedIn`), so
  that looking once is enough for the groups such files are in (`KeptSoFar`).
  `LinkedRight`: once `export *` is resolved a file has its own names and those of all
  files it leads to over files with an `export *` (`Collected`, in the proof module:
  what the loop collects, which is more than `export *` brings), although the code stops
  after as many rounds as there are files, or a round that changes nothing. After
  `r` rounds a file has the names of all files at most `r` steps away (`Gathered`;
  files linked earlier in the round are a step ahead), a path of `n` files visits
  all it can (`NearAll`), and after a round without a change each set is closed
  (`Unchanged`). `Collected` contains `AllNames`, and is it where files with an
  `export *` re-export nothing else (`CollectedStars`). `NoTracedReported`: the names
  counted as used contain those of the entry points and of the imports that do not
  pass a namespace on, and are closed under what a use is passed on to
  (`UsedPassesOn`), so they contain all that is traced (`TracedIsUsed`); this needs
  `LinkedRight`, as a use is passed on only to a file whose exports, once linked, have
  the name.
* **ModuleCycles** (`AnalyzerProofs`). Tarjan's algorithm, for every graph and every
  order of successors, in both of its uses. The files of the search and the stack
  have growing numbers (`Numbered`). A file of the search reaches what lies above it
  on the stack (`Down`), and what lies on the stack reaches a file of the search
  with no greater number (`Up`). The `low` of a file is the number of a file
  on the stack it reaches (`LowIs`), and at most that of any file on the stack
  looked at from it or from a file below the next one of the search (`LowLeast`). Files off the stack
  lead to no file on it (`FinishedClosed`). So where `low` equals the number, no file
  above leads below, and what is taken off is a component (`Grouped`); every file
  off the stack is in one, or, among the imports, alone (`Covered`). `BarrelsRight`
  is what this says at the end of the second use.
  `CyclesRight` is about the enumeration. A cycle lies in one component
  (`InsideSome`), and of each component all cycles are listed: those through a file
  the search is over for (`StartedFrom`), and those that follow the path for some
  files and leave it by a file that was tried (`Searched`). `Searched` is what going
  back preserves: a cycle that follows the whole path leaves it by a file of the
  component, all of which were tried. That `canonicalizeCycle` gives each cycle one
  form, wherever the search enters it, is `TurnCanonical`. When the limit of a
  component stops the search, either its cycles are more than the limit or they are
  all listed, as finitely many (`ElementaryFinite`). A component of two files is a
  cycle, the only one of the two (`PairRing`, `PairOnly`). `Processed` carries this
  from component to component while fewer cycles are kept than may be.
* **LintReplay** (`LintRunnerProofs`, last part). `WarmEqualsCold` and
  `CoverageIsHonest` hold of the last state of a scan, so the invariant says what
  each of its loops leaves behind: a file that was hashed, and is a hit, has
  diagnostics that, stored in calm, are of its content (`OwnsTrue`); one that a
  pass linted, or whose probes all gave their stored answers, has what the rules
  see now (`FullTrue`, `VerifyTrue`, `BoundedTrue`, `UnboundedTrue`), but for the
  files the pass dropped. It rests on the entries (`OwnTrue`, `SideTrue`: an entry
  stored in calm is what the rules see of its key, the files they read answering as
  the probes did) and on what was hashed and answered being there still in calm
  (`ReadsTrue`). Assumed: an absent file, and the mark of a file that was not
  linted, are no content.
* **SummaryCache** (`AnalyzerProofs`, last part). A stat is believed at three moments
  here too, but against a walk that is over: an entry of a file that still has the
  time it is stored under is of what the file has (`SummaryTrue`, `FactTrue`), one
  that has the time the walk found is of what the file had meanwhile (`Shown`).
  What is parsed and hashed of a file whose time is still the walk's is what it
  has (`ReadsTrue`), which is what the second stat of `storeSummary` is for. For
  lists and resolutions, the files the walk found are those present in calm
  (`WalkTrue`). The argument fails for a file the walk had not seen, as it must:
  `SummaryIsRight` is violated (section 4).
* **LintCache** (`LintCacheProofs`). Entries travel: from a scan to the cache object
  it holds, dropped or not, to the file, to the object the next process opens, to
  a hit. `StockSound` says of every one of these places that an entry stored in
  calm is of the content it lies under and of the configuration with its
  fingerprint; `ScansSound` that a scan in calm has seen what is there now, and
  that one not cancelled holds an object the server still counts as current or
  about to be replaced (`CurrentKnown`); `OutcomeSound` the same of the answer.
  `HitsAreOfTheContent` and `NothingStale` follow.

Only model-checked:

* all liveness (`KeepsPromise`'s fairness, `BusyEnds`, `EveryWaitEnds`, `Terminates`,
  `ScanEnds`, `AnalysisEnds`), which the prover does not handle;
* `DeletedStaysCleared`, `BuffersOwned`, `KilledAreGone`, `OnlyStarsBring` and
  `NoLiveExportReported`, which are false in general (section 4).

## 7. What is not modelled

* The rules. `oxlint-plugin-react-doctor` is most of the repository's lines:
  several hundred visitors of a syntax tree, each a function of one file (or, for
  a few, of files it resolves) to diagnostics. They keep no state between files and
  do not interact. What surrounds them is modelled (when they run, on what, whose
  results are kept); a specification of one would repeat its patterns and tables.
  The same holds for the parsers and detectors of `deslop-js`, for the
  diagnostic pipeline and for configuration and discovery: functions of texts.
* Time: debounce lengths, timeouts and budgets are events that may happen at any
  moment after they are armed.
* In `LanguageServer`: the lint cache, which is `LintCache`'s (a disk scan of
  `LanguageServer` always reads); dead-code findings, an audit finds what lint
  finds; two projects owning one file, and case-insensitive paths; hover, code actions,
  suppression and explanation commands and pull diagnostics, which change nothing
  of the server's state.
* In `LintBatches` and `LintReplay`: the progress ticker, oxlint's output, the
  configuration files it is given, the wording of reports.
* In `InspectRun`: discovery, git metadata, the viewer's permission, checks of the
  project's shape, rendering.
* In `ModuleGraph`: parsing, path resolution, entry discovery, default exports under
  another name, names used in their own file, and a detector that throws
  (`safeReportDetector` reports nothing of it and goes on).
* In the caches: the encoding of the files, and collisions of hashes.
* Everything `PROJECT.json` lists as `not_modelled`, with the reason.

## 8. Plan

What is left, in the order of what it would add:

1. `CliLifecycle`: read-modify-write of one settings store by several processes,
   migrations that run once.
2. `LintBatches` as the refinement of one pass of `LintReplay`, and `DeadCodeWorkers`
   as that of the dead-code check of `InspectRun`.
3. Dead-code findings in `LanguageServer`, so that an audit superseded by a lint-only
   scan of the same key is seen to lose them.
4. Pure functions with bounded reference checks: diagnostic delta, chunking,
   suppression edits.
5. Measures for the liveness that is only model-checked: that each step of a scan
   lowers a rank is a statement about single steps, and so within reach of a proof.
