--------------------------- MODULE LanguageServer ---------------------------
(***************************************************************************)
(* The language server as a whole (packages/language-server/src): editor   *)
(* and file events (server.ts), the scans they schedule, what a scan reads *)
(* and when (core/scan-runner.ts), and the diagnostics it publishes        *)
(* (diagnostics/manager.ts).                                               *)
(*                                                                         *)
(* The scheduler is its promise (LatestWins): one wanted job per key, jobs *)
(* run in any order and side by side, a job that lost its place has no     *)
(* effect.  A file's content is clean, or buggy when the rule it breaks is *)
(* enabled by the configuration.                                           *)
(***************************************************************************)
EXTENDS Naturals, FiniteSets

CONSTANTS File, Project,
          Owner,      \* file -> the project directory it lies in
          ChunkSize,  \* WORKSPACE_SCAN_CHUNK_SIZE
          ScanOnType, \* initialization option
          Audits,     \* the user may ask for a whole-workspace audit
          Failures,   \* a scan may fail, wholly or for some files
          MayOpen,    \* files the editor may open
          Outside,    \* file -> contents other tools may leave on disk
          MayLeave,   \* projects a configuration edit may turn into non-React
          MayDisable  \* a configuration edit may switch the rule off

ASSUME FileAssumption == IsFiniteSet(File)
ASSUME OwnerAssumption == Owner \in [File -> Project]
ASSUME ChunkAssumption == ChunkSize \in Nat \ {0}
ASSUME OptionAssumption == ScanOnType \in BOOLEAN /\ Audits \in BOOLEAN
                             /\ Failures \in BOOLEAN
ASSUME WorldAssumption ==
  MayOpen \subseteq File /\ Outside \in [File -> SUBSET {"clean", "buggy", "absent"}]
ASSUME LeaveAssumption == MayLeave \subseteq Project /\ MayDisable \in BOOLEAN

VARIABLES disk,        \* file -> content on disk
          buffer,      \* file -> content of the open document, or "closed"
          saving,      \* files the editor wrote and has not said so yet
          outrun,      \* open files whose buffer was ahead of the disk when the
                       \* editor said so, and scanned for nothing else since
          ruleOn,      \* the configuration on disk enables the rule
          react,       \* projects that qualify on disk
          roots,       \* projects under a workspace folder
          graph,       \* projects of the project graph
          notices,     \* files with a watched-file event on its way
          configTimer, \* the debounced configuration rescan is armed
          initialTimer,
          jobs,        \* the wanted scans
          shown,       \* byUri: files with published diagnostics
          tracked,     \* projectUris: project -> files
          excused,     \* files no scan has assessed since one failed to, or since
                       \* a deletion event cleared them while they were open
          disposed

worldVars == <<disk, ruleOn, react>>
editorVars == <<buffer, saving, outrun>>
graphVars == <<roots, graph>>
publishedVars == <<shown, tracked, excused>>
vars == <<disk, buffer, saving, outrun, ruleOn, react, roots, graph, notices, configTimer,
          initialTimer, jobs, shown, tracked, excused, disposed>>

Text == {"clean", "buggy"}
Content == Text \union {"absent"}

IsOpen(x) == buffer[x] # "closed"
OpenFiles == {x \in File : IsOpen(x)}
FilesOf(p) == {x \in File : Owner[x] = p}

(* performScan's phases: queued, started but not yet read, read.           *)
Job == [project : Project, files : SUBSET File,
        priority : {"interactive", "save", "background"},
        phase : {"queued", "started", "read"},
        paths : SUBSET File,   \* requestedPaths
        found : SUBSET File]   \* files with diagnostics

KeyOf(job) == <<job.project, job.files>>

NewJob(p, files, priority) ==
  [project |-> p, files |-> files, priority |-> priority,
   phase |-> "queued", paths |-> {}, found |-> {}]

Enqueued_NoReplace(before, new) == IF disposed THEN before ELSE before \union new

(* enqueue: a newer job takes the place of the one with its key.           *)
Enqueued(before, new) ==
  IF disposed THEN before
  ELSE {j \in before : \A n \in new : KeyOf(n) # KeyOf(j)} \union new

Cancelled_None(before, projects) == before

(* cancelProject, for several projects. *)
Cancelled(before, projects) == {j \in before : j.project \notin projects}

(* scheduleFileScan; nothing for a file of no known project.               *)
FileScan(known, x, priority) ==
  IF Owner[x] \in known THEN {NewJob(Owner[x], {x}, priority)} ELSE {}

FileScans(known, xs, priority) == UNION {FileScan(known, x, priority) : x \in xs}

-----------------------------------------------------------------------------
(* scanWorkspaceLint, for a project graph just computed.                   *)

Enumerated(p) == {x \in FilesOf(p) : disk[x] # "absent"}

(* chunk(): runs of ChunkSize files in the order git lists them.           *)
IsChunking(chunks, files) ==
  /\ UNION chunks = files
  /\ \A c \in chunks : c # {} /\ Cardinality(c) <= ChunkSize
  /\ \A c, d \in chunks : c = d \/ c \intersect d = {}
  /\ Cardinality({c \in chunks : Cardinality(c) < ChunkSize}) <= 1

ChunksOf(p, chunks) ==
  IF Enumerated(p) = {}
  THEN {NewJob(p, {}, "background")}
  ELSE {NewJob(p, c, "background") : c \in {d \in chunks : d \subseteq FilesOf(p)}}

(* The files retainProjectFiles drops from a project.                      *)
Departed(p) == tracked[p] \ (Enumerated(p) \union OpenFiles)

(* clearProject of the projects gone, then the chunks of the known ones.     *)
WorkspaceLint(before, known, gone) ==
  LET dropped == [p \in Project |-> IF p \in known THEN Departed(p)
                                    ELSE IF p \in gone THEN tracked[p] ELSE {}]
  IN  /\ \E chunks \in SUBSET ((SUBSET File) \ {{}}) :
           /\ \A p \in known :
                IsChunking({c \in chunks : c \subseteq FilesOf(p)}, Enumerated(p) \ OpenFiles)
           /\ UNION chunks \subseteq UNION {FilesOf(p) : p \in known}
           /\ jobs' = Enqueued(before, UNION {ChunksOf(p, chunks) : p \in known})
      /\ shown' = shown \ UNION {dropped[p] : p \in Project}
      /\ tracked' = [p \in Project |-> tracked[p] \ dropped[p]]

-----------------------------------------------------------------------------

Init ==
  /\ disk \in [File -> Content]
  /\ \A x \in File : disk[x] \in Outside[x]
  /\ buffer = [x \in File |-> "closed"]
  /\ saving = {} /\ outrun = {}
  /\ ruleOn = TRUE
  /\ react = Project
  /\ roots = Project
  /\ graph = Project
  /\ notices = {}
  /\ configTimer = FALSE
  /\ initialTimer = TRUE
  /\ jobs = {}
  /\ shown = {}
  /\ tracked = [p \in Project |-> {}]
  /\ excused = {}
  /\ disposed = FALSE

(* The world outside.  Closed files are written by other tools; a file may *)
(* be deleted while open; the configuration may change what qualifies.     *)
WriteFile(x, text) ==
  /\ text \in Outside[x]
  /\ ~IsOpen(x) /\ disk[x] # text
  /\ disk' = [disk EXCEPT ![x] = text]
  /\ notices' = notices \union {x}
  /\ UNCHANGED <<editorVars, ruleOn, react, graphVars, configTimer, initialTimer, jobs,
                 publishedVars, disposed>>

DeleteFile(x) ==
  /\ "absent" \in Outside[x]
  /\ disk[x] # "absent"
  /\ disk' = [disk EXCEPT ![x] = "absent"]
  /\ notices' = notices \union {x}
  /\ UNCHANGED <<editorVars, ruleOn, react, graphVars, configTimer, initialTimer, jobs,
                 publishedVars, disposed>>

(* The editor writes the file of a document, and will say so: once, when   *)
(* it writes it again meanwhile.                                           *)
SaveFile(x) ==
  /\ IsOpen(x)
  /\ disk' = [disk EXCEPT ![x] = buffer[x]]
  /\ saving' = saving \union {x}
  /\ notices' = notices \union {x}
  /\ UNCHANGED <<buffer, outrun, ruleOn, react, graphVars, configTimer, initialTimer, jobs,
                 publishedVars, disposed>>

(* A configuration file changes and its event arms the rescan timer.       *)
EditConfig(enabled, qualifying) ==
  /\ enabled \/ MayDisable
  /\ Project \ qualifying \subseteq MayLeave
  /\ <<enabled, qualifying>> # <<ruleOn, react>>
  /\ ruleOn' = enabled
  /\ react' = qualifying
  /\ configTimer' = TRUE
  /\ UNCHANGED <<disk, editorVars, graphVars, notices, initialTimer, jobs,
                 publishedVars, disposed>>

-----------------------------------------------------------------------------
(* Document events.                                                        *)

DidOpen(x) ==
  /\ x \in MayOpen /\ ~IsOpen(x) /\ disk[x] # "absent"
  /\ buffer' = [buffer EXCEPT ![x] = disk[x]]
  /\ outrun' = outrun \ {x}
  /\ jobs' = Enqueued(jobs, FileScan(graph, x, "interactive"))
  /\ UNCHANGED <<worldVars, saving, graphVars, notices, configTimer, initialTimer,
                 publishedVars, disposed>>

DidChangeContent(x, text) ==
  /\ IsOpen(x) /\ buffer[x] # text
  /\ buffer' = [buffer EXCEPT ![x] = text]
  /\ jobs' = IF ScanOnType THEN Enqueued(jobs, FileScan(graph, x, "interactive"))
                           ELSE jobs
  /\ outrun' = IF ScanOnType THEN outrun \ {x} ELSE outrun
  /\ UNCHANGED <<worldVars, saving, graphVars, notices, configTimer, initialTimer,
                 publishedVars, disposed>>

(* One of a document that was closed meanwhile is ignored.                 *)
DidSave(x) ==
  /\ x \in saving
  /\ saving' = saving \ {x}
  /\ IF IsOpen(x)
     THEN /\ jobs' = Enqueued(jobs, FileScan(graph, x, "save"))
          /\ outrun' = IF disk[x] = buffer[x] THEN outrun \ {x} ELSE outrun \union {x}
     ELSE UNCHANGED <<jobs, outrun>>
  /\ UNCHANGED <<worldVars, buffer, graphVars, notices, configTimer, initialTimer,
                 publishedVars, disposed>>

DidClose_NoScan(x) ==
  /\ IsOpen(x)
  /\ buffer' = [buffer EXCEPT ![x] = "closed"]
  /\ outrun' = outrun \ {x}
  /\ UNCHANGED <<worldVars, saving, graphVars, notices, configTimer, initialTimer, jobs,
                 publishedVars, disposed>>

(* A closed buffer may have been unsaved: scan the file again from disk.   *)
DidClose(x) ==
  /\ IsOpen(x)
  /\ buffer' = [buffer EXCEPT ![x] = "closed"]
  /\ outrun' = outrun \ {x}
  /\ jobs' = Enqueued(jobs, FileScan(graph, x, "background"))
  /\ UNCHANGED <<worldVars, saving, graphVars, notices, configTimer, initialTimer,
                 publishedVars, disposed>>

(* A watched-file event: a deletion clears the file, a change of a closed  *)
(* one scans it.  Its kind is what the disk says when it arrives.          *)
DidChangeWatchedFile(x) ==
  /\ x \in notices
  /\ notices' = notices \ {x}
  /\ IF disk[x] = "absent"
     THEN /\ shown' = shown \ {x}
          /\ tracked' = [p \in Project |-> tracked[p] \ {x}]
          /\ excused' = IF IsOpen(x) THEN excused \union {x} ELSE excused
          /\ UNCHANGED jobs
     ELSE /\ jobs' = IF IsOpen(x) THEN jobs
                     ELSE Enqueued(jobs, FileScan(graph, x, "background"))
          /\ UNCHANGED publishedVars
  /\ UNCHANGED <<worldVars, editorVars, graphVars, configTimer, initialTimer, disposed>>

-----------------------------------------------------------------------------
(* Timers and commands.                                                    *)

InitialScan ==
  /\ initialTimer
  /\ initialTimer' = FALSE
  /\ WorkspaceLint(jobs, graph, {})
  /\ UNCHANGED <<worldVars, editorVars, graphVars, notices, configTimer, excused, disposed>>

(* The jobs once every project's scans are cancelled and the open buffers  *)
(* scheduled again in the new graph.                                       *)
AfterReset(known) ==
  Enqueued(Cancelled(jobs, graph), FileScans(known, OpenFiles, "interactive"))

(* rescanWorkspaceFromScratch.                                             *)
RescanFromScratch ==
  /\ graph' = roots \intersect react
  /\ WorkspaceLint(AfterReset(graph'), graph', {})
  /\ outrun' = {}
  /\ UNCHANGED <<worldVars, buffer, saving, roots, notices, initialTimer, excused, disposed>>

ConfigTimerFires ==
  /\ configTimer
  /\ configTimer' = FALSE
  /\ RescanFromScratch

Restart == RescanFromScratch /\ UNCHANGED configTimer

(* COMMAND_SCAN_WORKSPACE. *)
ScanWorkspace ==
  /\ Audits
  /\ graph' = roots \intersect react
  /\ jobs' = Enqueued(Enqueued(Cancelled(jobs, graph),
                               {NewJob(p, {}, "background") : p \in graph'}),
                      FileScans(graph', OpenFiles, "interactive"))
  /\ outrun' = {}
  /\ UNCHANGED <<worldVars, buffer, saving, roots, notices, configTimer, initialTimer,
                 publishedVars, disposed>>

(* COMMAND_SCAN_FILE. *)
ScanFile(x) ==
  /\ jobs' = Enqueued(jobs, FileScan(graph, x, "interactive"))
  /\ outrun' = outrun \ {x}
  /\ UNCHANGED <<worldVars, buffer, saving, graphVars, notices, configTimer, initialTimer,
                 publishedVars, disposed>>

(* onDidChangeWorkspaceFolders, one folder at a time.                      *)
RemoveFolder(p) ==
  /\ p \in roots
  /\ roots' = roots \ {p}
  /\ graph' = roots' \intersect react
  /\ LET gone == graph \intersect {p}
     IN  WorkspaceLint(Enqueued(Cancelled(jobs, gone),
                                FileScans(graph', OpenFiles, "interactive")),
                       graph', gone)
  /\ outrun' = {}
  /\ UNCHANGED <<worldVars, buffer, saving, notices, configTimer, initialTimer, excused, disposed>>

AddFolder(p) ==
  /\ p \notin roots
  /\ roots' = roots \union {p}
  /\ graph' = roots' \intersect react
  /\ WorkspaceLint(Enqueued(jobs, FileScans(graph', OpenFiles, "interactive")), graph', {})
  /\ outrun' = {}
  /\ UNCHANGED <<worldVars, buffer, saving, notices, configTimer, initialTimer, excused, disposed>>

Shutdown ==
  /\ ~disposed
  /\ disposed' = TRUE
  /\ configTimer' = FALSE
  /\ jobs' = {}
  /\ UNCHANGED <<worldVars, editorVars, graphVars, notices, initialTimer, publishedVars>>

-----------------------------------------------------------------------------
(* A scan.                                                                 *)

Reported(text) == text = "buggy" /\ ruleOn

IsWholeProject(job) == job.files = {}

(* A background scan leaves out files opened since it was enqueued.        *)
Requested(job) ==
  IF job.priority = "background" THEN job.files \ OpenFiles ELSE job.files

Replace(job, next) == (jobs \ {job}) \union {next}

(* performScan up to the overlay.  An interactive scan takes its snapshot  *)
(* here; of a file nobody can read it falls back to a disk scan.           *)
StartScan(job) ==
  /\ job.phase = "queued"
  /\ LET paths == Requested(job)
         text == [x \in File |-> IF IsOpen(x) THEN buffer[x] ELSE disk[x]]
         snapshot == job.priority = "interactive" /\ \E x \in paths : text[x] # "absent"
     IN  jobs' = IF paths = {} /\ ~IsWholeProject(job) THEN jobs \ {job}
                 ELSE Replace(job,
                        [job EXCEPT !.paths = paths,
                                    !.phase = IF snapshot THEN "read" ELSE "started",
                                    !.found = IF snapshot
                                              THEN {x \in paths : Reported(text[x])} ELSE {}])
  /\ UNCHANGED <<worldVars, editorVars, graphVars, notices, configTimer, initialTimer,
                 publishedVars, disposed>>

(* The linter reads its files from disk.                                   *)
ReadDisk(job) ==
  /\ job.phase = "started"
  /\ LET scope == IF IsWholeProject(job) THEN FilesOf(job.project) ELSE job.paths
     IN  jobs' = Replace(job, [job EXCEPT !.phase = "read",
                                          !.found = {x \in scope : Reported(disk[x])}])
  /\ UNCHANGED <<worldVars, editorVars, graphVars, notices, configTimer, initialTimer,
                 publishedVars, disposed>>

IsProtected_Never(job, x) == FALSE

(* applyOutcome: background results leave open files alone.                *)
IsProtected(job, x) == job.priority = "background" /\ IsOpen(x)

Clears_Always(job, reliable) == TRUE

(* Only an outcome that assessed every file may clear diagnostics.         *)
Clears(job, reliable) == reliable

(* The files a job's outcome speaks about.                                 *)
Concerned(job) ==
  {x \in (IF IsWholeProject(job) THEN FilesOf(job.project) ELSE job.paths) :
     ~IsProtected(job, x)}

(* applyOutcome for the files found.  A reliable outcome clears the files  *)
(* it requested and did not find, and reconciles the project's files.      *)
ApplyOutcome(job, found, reliable) ==
  LET directory == job.project
      live == {x \in found : ~IsProtected(job, x)}
      clean == {x \in job.paths \ found : ~IsProtected(job, x)}
      kept == live \union {x \in tracked[directory] : IsProtected(job, x)}
  IN  IF ~Clears(job, reliable)
      THEN /\ shown' = shown \union live
           /\ tracked' = [tracked EXCEPT ![directory] = @ \union live]
      ELSE IF IsWholeProject(job)
      THEN /\ shown' = (shown \union live) \ (tracked[directory] \ kept)
           /\ tracked' = [tracked EXCEPT ![directory] = kept]
      ELSE /\ shown' = (shown \union live) \ clean
           /\ tracked' = [tracked EXCEPT ![directory] = (@ \union live) \ (job.paths \ live)]

(* The result of a job that is still wanted.  A failed, partial or skipped *)
(* scan may have found some of it.                                         *)
ScanResult(job, found, reliable) ==
  /\ job.phase = "read"
  /\ IF reliable THEN found = job.found
                 ELSE Failures \/ (job.project \notin react /\ found = {})
  /\ jobs' = jobs \ {job}
  /\ ApplyOutcome(job, found, reliable)
  /\ excused' = IF reliable THEN excused \ Concerned(job) ELSE excused \union Concerned(job)
  /\ UNCHANGED <<worldVars, editorVars, graphVars, notices, configTimer, initialTimer, disposed>>

(* A scan that throws reports nothing.                                     *)
ScanThrows(job) ==
  /\ Failures
  /\ job.phase # "queued"
  /\ jobs' = jobs \ {job}
  /\ excused' = excused \union Concerned(job)
  /\ UNCHANGED <<worldVars, editorVars, graphVars, notices, configTimer, initialTimer,
                 shown, tracked, disposed>>

FileSystem == /\ ~disposed
              /\ \/ \E x \in File, text \in Text : WriteFile(x, text)
                 \/ \E x \in File : DeleteFile(x) \/ SaveFile(x)
                 \/ \E enabled \in BOOLEAN, qualifying \in SUBSET Project :
                      EditConfig(enabled, qualifying)

Scans == \E job \in jobs :
           \/ StartScan(job)
           \/ ReadDisk(job)
           \/ \E found \in SUBSET job.found, reliable \in BOOLEAN :
                ScanResult(job, found, reliable)
           \/ ScanThrows(job)

Events == /\ ~disposed
          /\ \/ \E x \in File : \/ DidOpen(x)
                                \/ \E text \in Text : DidChangeContent(x, text)
                                \/ DidSave(x)
                                \/ DidClose(x)
                                \/ DidChangeWatchedFile(x)
                                \/ ScanFile(x)
             \/ InitialScan
             \/ ConfigTimerFires
             \/ Restart
             \/ ScanWorkspace
             \/ \E p \in Project : RemoveFolder(p) \/ AddFolder(p)
             \/ Shutdown

Next == FileSystem \/ Events \/ Scans

Spec == Init /\ [][Next]_vars

-----------------------------------------------------------------------------

(* Every variable has its type, and per key at most one scan is wanted.    *)
TypeOK ==
  /\ disk \in [File -> Content]
  /\ buffer \in [File -> Text \union {"closed"}]
  /\ saving \in SUBSET File
  /\ outrun \in SUBSET File
  /\ ruleOn \in BOOLEAN
  /\ react \in SUBSET Project
  /\ roots \in SUBSET Project
  /\ graph \in SUBSET roots
  /\ notices \in SUBSET File
  /\ configTimer \in BOOLEAN
  /\ initialTimer \in BOOLEAN
  /\ jobs \in SUBSET Job
  /\ \A i, j \in jobs : KeyOf(i) = KeyOf(j) => i = j
  /\ shown \in SUBSET File
  /\ tracked \in [Project -> SUBSET File]
  /\ excused \in SUBSET File
  /\ disposed \in BOOLEAN

(* Nothing is on its way: what is published is what the user goes on seeing. *)
Quiet == /\ ~disposed /\ ~initialTimer /\ ~configTimer
         /\ jobs = {} /\ notices = {} /\ saving = {}

InGraph == {x \in File : Owner[x] \in graph}

(* Once quiet, an open file shows the diagnostics of its buffer, under the *)
(* current configuration, whatever chunks, audits, saves, deletions and    *)
(* rescans were in flight; unless its last scan failed, or a deletion      *)
(* event cleared it, or it was changed after the editor wrote it and       *)
(* before the editor said so.                                              *)
OpenBuffersShown ==
  Quiet /\ ScanOnType =>
    \A x \in (OpenFiles \intersect InGraph) \ (excused \union outrun) :
      x \in shown <=> Reported(buffer[x])

(* Open files "are owned by interactive (buffer-aware) scans"              *)
(* (scanWorkspaceLint): a scan of the disk does not overwrite what they    *)
(* show.  The scan of a save does when the buffer has moved on: it takes   *)
(* the place of the newer interactive one.                                 *)
BuffersOwned ==
  Quiet /\ ScanOnType =>
    \A x \in (OpenFiles \intersect InGraph) \ excused : x \in shown <=> Reported(buffer[x])

(* Once quiet, a closed file shows the diagnostics of what is on disk:     *)
(* "a slow oxlint subprocess can never clobber a fresher result"           *)
(* (createScheduler), between any two scans of the file.                   *)
FresherResultStays ==
  Quiet =>
    \A x \in InGraph \ (OpenFiles \union excused) :
      disk[x] # "absent" => (x \in shown <=> Reported(disk[x]))

(* Once quiet, a deleted file shows nothing: a file that left the          *)
(* enumeration does not linger (scanWorkspaceLint, retainProjectFiles).    *)
DeletedStaysCleared ==
  Quiet =>
    \A x \in File \ (OpenFiles \union excused) : disk[x] = "absent" => x \notin shown

(* Once quiet, only files of projects the server still knows are shown:    *)
(* diagnostics of a project that went away are cleared with it.            *)
OnlyKnownProjectsShown == Quiet => shown \subseteq InGraph

(* Every file shown is tracked by its project, so that clearing the        *)
(* project or reconciling its files reaches it.                            *)
ShownIsTracked == \A x \in shown : x \in tracked[Owner[x]]

(* Diagnostics vanish at the end of a scan only from files the scan was    *)
(* about, and only where it looked and found nothing: a failed, partial or *)
(* skipped scan strips nothing a later one would reproduce.                *)
VanishOnlyWhenClean ==
  [][\A job \in jobs :
       (\E found \in SUBSET job.found, reliable \in BOOLEAN :
          ScanResult(job, found, reliable))
       => shown \ shown' \subseteq Concerned(job) \ job.found]_vars
=============================================================================
