----------------------------- MODULE ServerProofs -----------------------------
(***************************************************************************)
(* Theorems about the language server, for every set of files, projects    *)
(* and options.                                                            *)
(*                                                                         *)
(* The argument is one invariant after another: the shape of the scans     *)
(* (Shape), then for an open file that it is shown as its buffer           *)
(* deserves or an editor's scan of it has seen that buffer or will         *)
(* (OpenSettled), the same of a closed file and the disk (ClosedSettled),  *)
(* and that scans and what is shown are of known projects (AllKnown).      *)
(* Where the code breaks a property, the theorem names as a hypothesis     *)
(* what has to be excluded.                                                *)
(***************************************************************************)
EXTENDS LanguageServer, FiniteSetTheorems, TLAPS

USE DEF editorVars

Priorities == {"interactive", "save", "background"}

(* What a scan speaks about lies in its project and is what it requested,  *)
(* and a scan for the editor is of one file.                               *)
JobShape(j) ==
  /\ j.files \subseteq FilesOf(j.project)
  /\ j.found \subseteq FilesOf(j.project)
  /\ j.paths \subseteq j.files
  /\ j.files # {} => j.found \subseteq j.paths
  /\ j.priority # "background" => \E x \in File : j.files = {x}

GoodJobs(js) ==
  /\ js \subseteq Job
  /\ \A i, j \in js : KeyOf(i) = KeyOf(j) => i = j
  /\ \A j \in js : JobShape(j)

(* A project tracks files of its own.                                      *)
TrackedOwn == \A p \in Project : tracked[p] \subseteq FilesOf(p)

OpenAllowed == OpenFiles \subseteq MayOpen

Shape == TypeOK /\ GoodJobs(jobs) /\ TrackedOwn /\ OpenAllowed

-----------------------------------------------------------------------------
(* The sets of jobs the handlers build.                                    *)

(* Jobs as enqueue makes them, all of one priority.                        *)
FreshJobs(js, priority) ==
  \A j \in js : \E p \in Project, c \in SUBSET File :
    /\ j = NewJob(p, c, priority)
    /\ c \subseteq FilesOf(p)
    /\ priority # "background" => \E x \in File : c = {x}

LEMMA NewJobFields ==
  ASSUME NEW p, NEW c, NEW priority
  PROVE  LET j == NewJob(p, c, priority)
         IN  /\ j.project = p /\ j.files = c /\ j.priority = priority
             /\ j.phase = "queued" /\ j.paths = {} /\ j.found = {}
             /\ KeyOf(j) = <<p, c>>
BY DEF NewJob, KeyOf

LEMMA FreshJobsGood ==
  ASSUME NEW js, NEW priority \in Priorities, FreshJobs(js, priority)
  PROVE  GoodJobs(js)
<1>1. ASSUME NEW j \in js PROVE j \in Job /\ JobShape(j)
  <2>1. PICK p \in Project, c \in SUBSET File :
           /\ j = NewJob(p, c, priority)
           /\ c \subseteq FilesOf(p)
           /\ priority # "background" => \E x \in File : c = {x}
    BY <1>1 DEF FreshJobs
  <2>2. j \in Job BY <2>1 DEF NewJob, Job, Priorities
  <2>3. JobShape(j) BY <2>1, NewJobFields DEF JobShape
  <2> QED BY <2>2, <2>3
<1>2. ASSUME NEW i \in js, NEW j \in js, KeyOf(i) = KeyOf(j) PROVE i = j
  <2>1. PICK p \in Project, c \in SUBSET File : i = NewJob(p, c, priority)
    BY DEF FreshJobs
  <2>2. PICK q \in Project, d \in SUBSET File : j = NewJob(q, d, priority)
    BY DEF FreshJobs
  <2>3. <<p, c>> = <<q, d>> BY <1>2, <2>1, <2>2, NewJobFields
  <2> QED BY <2>1, <2>2, <2>3
<1> QED BY <1>1, <1>2 DEF GoodJobs

LEMMA EnqueuedGood ==
  ASSUME NEW before, NEW new, NEW priority \in Priorities,
         GoodJobs(before), FreshJobs(new, priority)
  PROVE  GoodJobs(Enqueued(before, new))
<1>1. GoodJobs(new) BY FreshJobsGood
<1> QED BY <1>1 DEF GoodJobs, Enqueued

LEMMA CancelledGood ==
  ASSUME NEW before, NEW ps, GoodJobs(before) PROVE GoodJobs(Cancelled(before, ps))
BY DEF GoodJobs, Cancelled

LEMMA FileScanIs ==
  ASSUME NEW known, NEW x, NEW priority
  PROVE  /\ \A j \in FileScan(known, x, priority) :
              j = NewJob(Owner[x], {x}, priority) /\ Owner[x] \in known
         /\ Owner[x] \in known => NewJob(Owner[x], {x}, priority) \in FileScan(known, x, priority)
BY DEF FileScan

LEMMA FileScansAre ==
  ASSUME NEW known, NEW xs, NEW priority
  PROVE  /\ \A j \in FileScans(known, xs, priority) :
              \E x \in xs : j = NewJob(Owner[x], {x}, priority) /\ Owner[x] \in known
         /\ \A x \in xs : Owner[x] \in known =>
              NewJob(Owner[x], {x}, priority) \in FileScans(known, xs, priority)
<1>1. \A j : j \in FileScans(known, xs, priority)
               <=> \E x \in xs : j \in FileScan(known, x, priority)
  BY DEF FileScans
<1>2. ASSUME NEW j \in FileScans(known, xs, priority)
      PROVE  \E x \in xs : j = NewJob(Owner[x], {x}, priority) /\ Owner[x] \in known
  BY <1>1, FileScanIs
<1>3. ASSUME NEW x \in xs, Owner[x] \in known
      PROVE  NewJob(Owner[x], {x}, priority) \in FileScans(known, xs, priority)
  BY <1>1, <1>3, FileScanIs
<1> QED BY <1>2, <1>3

LEMMA FileScanFresh ==
  ASSUME NEW known, NEW x \in File, NEW priority \in Priorities
  PROVE  FreshJobs(FileScan(known, x, priority), priority)
<1>1. Owner[x] \in Project /\ {x} \in SUBSET File /\ {x} \subseteq FilesOf(Owner[x])
  BY OwnerAssumption DEF FilesOf
<1>2. ASSUME NEW j \in FileScan(known, x, priority)
      PROVE  j = NewJob(Owner[x], {x}, priority)
  BY FileScanIs
<1> QED BY <1>1, <1>2 DEF FreshJobs

LEMMA FileScansFresh ==
  ASSUME NEW known, NEW xs \in SUBSET File, NEW priority \in Priorities
  PROVE  FreshJobs(FileScans(known, xs, priority), priority)
<1>1. \A x \in xs : FreshJobs(FileScan(known, x, priority), priority) BY FileScanFresh
<1> QED BY <1>1 DEF FreshJobs, FileScans

(* What scanWorkspaceLint enqueues: for each known project chunks of its   *)
(* closed files, which cover them, or one scan of all of it.               *)
ChunkJobs(new, known) ==
  /\ \A j \in new :
       /\ j.project \in known
       /\ \/ j.files = {} /\ Enumerated(j.project) = {}
          \/ /\ j.files # {} /\ j.files \subseteq Enumerated(j.project) \ OpenFiles
             /\ Cardinality(j.files) <= ChunkSize
  /\ \A p \in known : \A x \in Enumerated(p) \ OpenFiles :
       \E j \in new : j.project = p /\ x \in j.files

LEMMA WorkspaceLintJobs ==
  ASSUME NEW before, NEW known \in SUBSET Project, NEW gone,
         WorkspaceLint(before, known, gone)
  PROVE  \E new : /\ jobs' = Enqueued(before, new)
                  /\ FreshJobs(new, "background")
                  /\ ChunkJobs(new, known)
<1>1. PICK chunks \in SUBSET ((SUBSET File) \ {{}}) :
         /\ \A p \in known :
              IsChunking({c \in chunks : c \subseteq FilesOf(p)}, Enumerated(p) \ OpenFiles)
         /\ jobs' = Enqueued(before, UNION {ChunksOf(p, chunks) : p \in known})
  BY DEF WorkspaceLint
<1> DEFINE new == UNION {ChunksOf(p, chunks) : p \in known}
           of(p) == {c \in chunks : c \subseteq FilesOf(p)}
<1>2. ASSUME NEW p \in known
      PROVE  /\ UNION of(p) = Enumerated(p) \ OpenFiles
             /\ \A c \in of(p) : c # {} /\ Cardinality(c) <= ChunkSize
  BY <1>1 DEF IsChunking
<1>3. ASSUME NEW j \in new
      PROVE  \E p \in known :
               \/ j = NewJob(p, {}, "background") /\ Enumerated(p) = {}
               \/ \E c \in of(p) : j = NewJob(p, c, "background")
  BY DEF ChunksOf
<1>4. FreshJobs(new, "background")
  BY <1>3 DEF FreshJobs
<1>5. ASSUME NEW j \in new
      PROVE  /\ j.project \in known
             /\ \/ j.files = {} /\ Enumerated(j.project) = {}
                \/ /\ j.files # {} /\ j.files \subseteq Enumerated(j.project) \ OpenFiles
                   /\ Cardinality(j.files) <= ChunkSize
  <2>1. PICK p \in known : \/ j = NewJob(p, {}, "background") /\ Enumerated(p) = {}
                           \/ \E c \in of(p) : j = NewJob(p, c, "background")
    BY <1>3
  <2>2. CASE j = NewJob(p, {}, "background") /\ Enumerated(p) = {}
    BY <2>2, NewJobFields
  <2>3. ASSUME NEW c \in of(p), j = NewJob(p, c, "background")
        PROVE  /\ j.project = p /\ j.files = c /\ c # {}
               /\ c \subseteq Enumerated(p) \ OpenFiles /\ Cardinality(c) <= ChunkSize
    <3>1. c \subseteq UNION of(p) OBVIOUS
    <3>2. j.project = p /\ j.files = c BY <2>3, NewJobFields
    <3> QED BY <1>2, <3>1, <3>2
  <2> QED BY <2>1, <2>2, <2>3
<1>6. ASSUME NEW p \in known, NEW x \in Enumerated(p) \ OpenFiles
      PROVE  \E j \in new : j.project = p /\ x \in j.files
  <2>1. PICK c \in of(p) : x \in c BY <1>2
  <2>2. NewJob(p, c, "background") \in new BY DEF ChunksOf
  <2> QED BY <2>1, <2>2, NewJobFields
<1>7. jobs' = Enqueued(before, new) BY <1>1
<1> HIDE DEF new
<1>8. ChunkJobs(new, known) BY <1>5, <1>6 DEF ChunkJobs
<1> QED BY <1>4, <1>7, <1>8

(* What it drops from a known project is neither enumerated nor open.      *)
LEMMA WorkspaceLintShown ==
  ASSUME NEW before, NEW known \in SUBSET Project, NEW gone \in SUBSET Project,
         WorkspaceLint(before, known, gone), TypeOK, TrackedOwn
  PROVE  /\ shown' \in SUBSET File /\ tracked' \in [Project -> SUBSET File] /\ TrackedOwn'
         /\ shown' \subseteq shown
         /\ \A x \in shown : x \in shown' \/ Owner[x] \notin known
                             \/ (disk[x] = "absent" /\ ~IsOpen(x))
         /\ ShownIsTracked => ShownIsTracked'
<1> DEFINE dropped == [p \in Project |-> IF p \in known THEN Departed(p)
                                         ELSE IF p \in gone THEN tracked[p] ELSE {}]
<1>1. /\ shown' = shown \ UNION {dropped[p] : p \in Project}
      /\ tracked' = [p \in Project |-> tracked[p] \ dropped[p]]
  BY DEF WorkspaceLint
<1>2. ASSUME NEW p \in Project, NEW x \in dropped[p]
      PROVE  /\ x \in tracked[p] /\ Owner[x] = p /\ x \in File
             /\ p \in known => disk[x] = "absent" /\ ~IsOpen(x)
  <2>1. x \in tracked[p] BY <1>2 DEF Departed
  <2>2. x \in File /\ Owner[x] = p BY <2>1 DEF TrackedOwn, FilesOf
  <2>3. ASSUME p \in known PROVE disk[x] = "absent" /\ ~IsOpen(x)
    BY <1>2, <2>2, <2>3 DEF Departed, Enumerated, OpenFiles, FilesOf
  <2> QED BY <2>1, <2>2, <2>3
<1>3. tracked' \in [Project -> SUBSET File] /\ TrackedOwn'
  BY <1>1 DEF TypeOK, TrackedOwn
<1>4. \A x \in shown : x \in shown' \/ Owner[x] \notin known
                       \/ (disk[x] = "absent" /\ ~IsOpen(x))
  BY <1>1, <1>2
<1>5. ASSUME ShownIsTracked PROVE ShownIsTracked'
  <2>1. ASSUME NEW x \in shown' PROVE x \in tracked'[Owner[x]]
    <3>1. x \in shown /\ x \in File /\ Owner[x] \in Project /\ x \in tracked[Owner[x]]
      BY <1>1, <1>5, OwnerAssumption DEF ShownIsTracked, TypeOK
    <3>2. x \notin dropped[Owner[x]] BY <1>1, <3>1
    <3> QED BY <1>1, <3>1, <3>2
  <2> QED BY <2>1 DEF ShownIsTracked
<1> QED BY <1>1, <1>3, <1>4, <1>5 DEF TypeOK
-----------------------------------------------------------------------------
(* Types and shapes.                                                       *)

LEMMA InitShape == Init => Shape
<1> SUFFICES ASSUME Init PROVE Shape OBVIOUS
<1>1. TypeOK BY DEF Init, TypeOK, Text, Content
<1>2. GoodJobs(jobs) BY DEF Init, GoodJobs
<1>3. TrackedOwn BY DEF Init, TrackedOwn
<1>4. OpenAllowed BY DEF Init, OpenAllowed, OpenFiles, IsOpen
<1> QED BY <1>1, <1>2, <1>3, <1>4 DEF Shape

LEMMA PublishedUntouched ==
  ASSUME Shape, UNCHANGED publishedVars
  PROVE  shown' \in SUBSET File /\ tracked' \in [Project -> SUBSET File]
         /\ excused' \in SUBSET File /\ TrackedOwn'
BY DEF Shape, TypeOK, publishedVars, TrackedOwn

(* A step of the world leaves jobs and what is published alone.            *)
LEMMA FileSystemShape == ASSUME Shape, FileSystem PROVE Shape'
<1>1. ASSUME NEW x \in File, NEW text \in Text, WriteFile(x, text) PROVE Shape'
  BY <1>1 DEF WriteFile, Shape, TypeOK, Content, GoodJobs, TrackedOwn, OpenAllowed, OpenFiles,
     IsOpen, graphVars, publishedVars
<1>2. ASSUME NEW x \in File, DeleteFile(x) PROVE Shape'
  BY <1>2 DEF DeleteFile, Shape, TypeOK, Content, GoodJobs, TrackedOwn, OpenAllowed, OpenFiles,
     IsOpen, graphVars, publishedVars
<1>3. ASSUME NEW enabled \in BOOLEAN, NEW qualifying \in SUBSET Project,
             EditConfig(enabled, qualifying)
      PROVE  Shape'
  BY <1>3 DEF EditConfig, Shape, TypeOK, GoodJobs, TrackedOwn, OpenAllowed, OpenFiles,
     IsOpen, graphVars, publishedVars
<1>4. ASSUME NEW x \in File, SaveFile(x) PROVE Shape'
  <2>1. buffer[x] \in Content BY <1>4 DEF SaveFile, Shape, TypeOK, IsOpen, Content
  <2> QED BY <1>4, <2>1 DEF SaveFile, Shape, TypeOK, GoodJobs, TrackedOwn, OpenAllowed, OpenFiles,
     IsOpen, graphVars, publishedVars
<1> QED BY <1>1, <1>2, <1>3, <1>4 DEF FileSystem

LEMMA FileScanGood ==
  ASSUME Shape, NEW known, NEW x \in File, NEW priority \in Priorities
  PROVE  GoodJobs(Enqueued(jobs, FileScan(known, x, priority)))
BY FileScanFresh, EnqueuedGood DEF Shape

LEMMA DocumentShape ==
  ASSUME Shape, NEW x \in File,
         \/ DidOpen(x) \/ DidSave(x) \/ DidClose(x) \/ ScanFile(x)
         \/ \E text \in Text : DidChangeContent(x, text)
  PROVE  Shape'
<1> USE DEF Priorities
<1>1. CASE DidOpen(x)
  <2>1. GoodJobs(jobs)' BY <1>1, FileScanGood DEF DidOpen, GoodJobs
  <2>2. TypeOK'
    BY <1>1, <2>1 DEF DidOpen, GoodJobs, Shape, TypeOK, Content, worldVars, graphVars, publishedVars
  <2>3. OpenAllowed'
    BY <1>1 DEF DidOpen, Shape, TypeOK, OpenAllowed, OpenFiles, IsOpen
  <2> QED BY <1>1, <2>1, <2>2, <2>3, PublishedUntouched DEF Shape, DidOpen
<1>2. CASE DidSave(x)
  <2>1. GoodJobs(jobs)' BY <1>2, FileScanGood DEF DidSave, GoodJobs, Shape
  <2>2. TypeOK'
    BY <1>2, <2>1 DEF DidSave, GoodJobs, Shape, TypeOK, worldVars, graphVars, publishedVars
  <2>3. OpenAllowed' BY <1>2 DEF DidSave, Shape, OpenAllowed, OpenFiles, IsOpen
  <2> QED BY <1>2, <2>1, <2>2, <2>3, PublishedUntouched DEF Shape, DidSave
<1>3. CASE DidClose(x)
  <2>1. GoodJobs(jobs)' BY <1>3, FileScanGood DEF DidClose, GoodJobs
  <2>2. TypeOK'
    BY <1>3, <2>1 DEF DidClose, GoodJobs, Shape, TypeOK, worldVars, graphVars, publishedVars
  <2>3. OpenAllowed'
    BY <1>3 DEF DidClose, Shape, TypeOK, OpenAllowed, OpenFiles, IsOpen
  <2> QED BY <1>3, <2>1, <2>2, <2>3, PublishedUntouched DEF Shape, DidClose
<1>4. CASE ScanFile(x)
  <2>1. GoodJobs(jobs)' BY <1>4, FileScanGood DEF ScanFile, GoodJobs
  <2>2. TypeOK'
    BY <1>4, <2>1 DEF ScanFile, GoodJobs, Shape, TypeOK, worldVars, graphVars, publishedVars
  <2>3. OpenAllowed' BY <1>4 DEF ScanFile, Shape, OpenAllowed, OpenFiles, IsOpen
  <2> QED BY <1>4, <2>1, <2>2, <2>3, PublishedUntouched DEF Shape, ScanFile
<1>5. ASSUME NEW text \in Text, DidChangeContent(x, text) PROVE Shape'
  <2>1. GoodJobs(jobs)' BY <1>5, FileScanGood DEF DidChangeContent, GoodJobs, Shape
  <2>2. TypeOK'
    BY <1>5, <2>1 DEF DidChangeContent, GoodJobs, Shape, TypeOK, worldVars, graphVars, publishedVars
  <2>3. OpenAllowed'
    BY <1>5 DEF DidChangeContent, Shape, TypeOK, OpenAllowed, OpenFiles, IsOpen
  <2> QED BY <1>5, <2>1, <2>2, <2>3, PublishedUntouched DEF Shape, DidChangeContent
<1> QED BY <1>1, <1>2, <1>3, <1>4, <1>5

LEMMA WatchedShape ==
  ASSUME Shape, NEW x \in File, DidChangeWatchedFile(x) PROVE Shape'
<1>1. GoodJobs(jobs)'
  BY FileScanGood DEF DidChangeWatchedFile, GoodJobs, Shape, Priorities
<1>2. /\ shown' \in SUBSET File /\ tracked' \in [Project -> SUBSET File]
      /\ excused' \in SUBSET File /\ TrackedOwn'
  <2>1. CASE disk[x] = "absent"
    BY <2>1 DEF DidChangeWatchedFile, Shape, TypeOK, TrackedOwn
  <2>2. CASE disk[x] # "absent"
    BY <2>2, PublishedUntouched DEF DidChangeWatchedFile
  <2> QED BY <2>1, <2>2
<1>3. TypeOK'
  BY <1>1, <1>2 DEF DidChangeWatchedFile, GoodJobs, Shape, TypeOK, worldVars, graphVars
<1>4. OpenAllowed' BY DEF DidChangeWatchedFile, Shape, OpenAllowed, OpenFiles, IsOpen
<1> QED BY <1>1, <1>2, <1>3, <1>4 DEF Shape

LEMMA WorkspaceLintShape ==
  ASSUME Shape, NEW before, NEW known \in SUBSET Project, NEW gone \in SUBSET Project,
         GoodJobs(before), WorkspaceLint(before, known, gone)
  PROVE  GoodJobs(jobs)' /\ shown' \in SUBSET File
         /\ tracked' \in [Project -> SUBSET File] /\ TrackedOwn'
<1>1. PICK new : jobs' = Enqueued(before, new) /\ FreshJobs(new, "background")
  BY WorkspaceLintJobs
<1>2. GoodJobs(Enqueued(before, new)) BY <1>1, EnqueuedGood DEF Priorities
<1>3. GoodJobs(jobs)' BY <1>1, <1>2 DEF GoodJobs
<1> QED BY <1>3, WorkspaceLintShown DEF Shape

(* Open buffers scheduled again after some scans were cancelled.           *)
LEMMA ReopenedGood ==
  ASSUME Shape, NEW gone, NEW known
  PROVE  GoodJobs(Enqueued(Cancelled(jobs, gone), FileScans(known, OpenFiles, "interactive")))
<1>1. OpenFiles \in SUBSET File BY DEF OpenFiles
<1> QED BY <1>1, CancelledGood, FileScansFresh, EnqueuedGood DEF Shape, Priorities

LEMMA RescanShape == ASSUME Shape, RescanFromScratch, configTimer' \in BOOLEAN PROVE Shape'
<1>1. graph' \in SUBSET roots /\ graph' \in SUBSET Project
  BY DEF RescanFromScratch, Shape, TypeOK
<1>2. GoodJobs(AfterReset(graph')) BY ReopenedGood DEF AfterReset
<1>3. WorkspaceLint(AfterReset(graph'), graph', {}) BY DEF RescanFromScratch
<1>4. GoodJobs(jobs)' /\ shown' \in SUBSET File
      /\ tracked' \in [Project -> SUBSET File] /\ TrackedOwn'
  BY <1>1, <1>2, <1>3, WorkspaceLintShape
<1>5. TypeOK'
  BY <1>1, <1>4 DEF RescanFromScratch, GoodJobs, Shape, TypeOK, worldVars
<1>6. OpenAllowed' BY DEF RescanFromScratch, Shape, OpenAllowed, OpenFiles, IsOpen
<1> QED BY <1>4, <1>5, <1>6 DEF Shape

LEMMA InitialScanShape == ASSUME Shape, InitialScan PROVE Shape'
<1>1. graph \in SUBSET Project BY DEF Shape, TypeOK
<1>2. GoodJobs(jobs)' /\ shown' \in SUBSET File
      /\ tracked' \in [Project -> SUBSET File] /\ TrackedOwn'
  BY <1>1, WorkspaceLintShape DEF InitialScan, Shape
<1>3. TypeOK' BY <1>2 DEF InitialScan, GoodJobs, Shape, TypeOK, worldVars, graphVars
<1>4. OpenAllowed' BY DEF InitialScan, Shape, OpenAllowed, OpenFiles, IsOpen
<1> QED BY <1>2, <1>3, <1>4 DEF Shape

LEMMA ScanWorkspaceShape == ASSUME Shape, ScanWorkspace PROVE Shape'
<1> DEFINE audits == {NewJob(p, {}, "background") : p \in graph'}
<1>1. graph' \in SUBSET roots /\ graph' \in SUBSET Project
  BY DEF ScanWorkspace, Shape, TypeOK
<1>2. FreshJobs(audits, "background") BY <1>1 DEF FreshJobs
<1>3. GoodJobs(Enqueued(Cancelled(jobs, graph), audits))
  BY <1>2, CancelledGood, EnqueuedGood DEF Shape, Priorities
<1>4. FreshJobs(FileScans(graph', OpenFiles, "interactive"), "interactive")
  BY FileScansFresh DEF OpenFiles, Priorities
<1>5. jobs' = Enqueued(Enqueued(Cancelled(jobs, graph), audits),
                       FileScans(graph', OpenFiles, "interactive"))
  BY DEF ScanWorkspace
<1> HIDE DEF audits
<1>6. GoodJobs(jobs)'
  <2>1. GoodJobs(Enqueued(Enqueued(Cancelled(jobs, graph), audits),
                          FileScans(graph', OpenFiles, "interactive")))
    BY <1>3, <1>4, EnqueuedGood DEF Priorities
  <2> QED BY <1>5, <2>1 DEF GoodJobs
<1>7. TypeOK' BY <1>1, <1>6 DEF ScanWorkspace, GoodJobs, Shape, TypeOK, worldVars, publishedVars
<1>8. OpenAllowed' BY DEF ScanWorkspace, Shape, OpenAllowed, OpenFiles, IsOpen
<1> QED BY <1>6, <1>7, <1>8, PublishedUntouched DEF Shape, ScanWorkspace

LEMMA FolderShape ==
  ASSUME Shape, NEW p \in Project, RemoveFolder(p) \/ AddFolder(p) PROVE Shape'
<1>1. graph' \in SUBSET roots' /\ roots' \in SUBSET Project /\ graph' \in SUBSET Project
  BY DEF RemoveFolder, AddFolder, Shape, TypeOK
<1>2. GoodJobs(jobs)' /\ shown' \in SUBSET File
      /\ tracked' \in [Project -> SUBSET File] /\ TrackedOwn'
  <2>1. CASE RemoveFolder(p)
    <3>1. graph \intersect {p} \in SUBSET Project BY DEF Shape, TypeOK
    <3> QED BY <1>1, <2>1, <3>1, ReopenedGood, WorkspaceLintShape DEF RemoveFolder
  <2>2. CASE AddFolder(p)
    <3>1. FreshJobs(FileScans(graph', OpenFiles, "interactive"), "interactive")
      BY FileScansFresh DEF OpenFiles, Priorities
    <3>2. GoodJobs(Enqueued(jobs, FileScans(graph', OpenFiles, "interactive")))
      BY <3>1, EnqueuedGood DEF Shape, Priorities
    <3>3. WorkspaceLint(Enqueued(jobs, FileScans(graph', OpenFiles, "interactive")), graph', {})
      BY <2>2 DEF AddFolder
    <3>4. {} \in SUBSET Project OBVIOUS
    <3> QED BY <1>1, <3>2, <3>3, <3>4, WorkspaceLintShape
  <2> QED BY <2>1, <2>2
<1>3. /\ UNCHANGED <<worldVars, buffer, saving, notices, configTimer, initialTimer, excused, disposed>>
      /\ outrun' = {}
  BY DEF RemoveFolder, AddFolder
<1>4. TypeOK' BY <1>1, <1>2, <1>3 DEF GoodJobs, Shape, TypeOK, worldVars
<1>5. OpenAllowed' BY <1>3 DEF Shape, OpenAllowed, OpenFiles, IsOpen
<1> QED BY <1>2, <1>4, <1>5 DEF Shape

LEMMA ShutdownShape == ASSUME Shape, Shutdown PROVE Shape'
<1>1. GoodJobs(jobs)' BY DEF Shutdown, GoodJobs
<1>2. TypeOK'
  BY <1>1 DEF Shutdown, GoodJobs, Shape, TypeOK, worldVars, graphVars, publishedVars
<1>3. OpenAllowed' BY DEF Shutdown, Shape, OpenAllowed, OpenFiles, IsOpen
<1> QED BY <1>1, <1>2, <1>3, PublishedUntouched DEF Shape, Shutdown

(* The scans: a job is taken further, or it ends.                          *)
LEMMA ReplacedGood ==
  ASSUME Shape, NEW job \in jobs, NEW next \in Job, KeyOf(next) = KeyOf(job), JobShape(next)
  PROVE  GoodJobs(Replace(job, next))
BY DEF Shape, GoodJobs, Replace

LEMMA RemovedGood ==
  ASSUME Shape, NEW job \in jobs PROVE GoodJobs(jobs \ {job})
BY DEF Shape, GoodJobs

LEMMA JobTyped ==
  ASSUME Shape, NEW job \in jobs
  PROVE  /\ job \in Job /\ JobShape(job)
         /\ job.project \in Project /\ job.files \subseteq File /\ job.paths \subseteq File
         /\ job.found \subseteq File /\ job.priority \in Priorities
         /\ job.phase \in {"queued", "started", "read"}
BY DEF Shape, GoodJobs, Job, Priorities

(* What StartScan and ReadDisk make of a job.                              *)
Started(job, phase, found) ==
  [job EXCEPT !.paths = Requested(job), !.phase = phase, !.found = found]

LEMMA StartedGood ==
  ASSUME Shape, NEW job \in jobs, NEW phase \in {"read", "started"}, NEW found,
         found \subseteq Requested(job)
  PROVE  LET next == Started(job, phase, found)
         IN  /\ next \in Job /\ JobShape(next) /\ KeyOf(next) = KeyOf(job)
             /\ next.project = job.project /\ next.files = job.files
             /\ next.priority = job.priority /\ next.phase = phase
             /\ next.paths = Requested(job) /\ next.found = found
<1> DEFINE next == Started(job, phase, found)
<1>1. Requested(job) \subseteq job.files BY DEF Requested
<1>2. /\ next.project = job.project /\ next.files = job.files
      /\ next.priority = job.priority /\ next.phase = phase
      /\ next.paths = Requested(job) /\ next.found = found
      /\ next \in Job
  BY <1>1, JobTyped DEF Started, Job
<1>3. JobShape(next) BY <1>1, <1>2, JobTyped DEF JobShape
<1>4. KeyOf(next) = KeyOf(job) BY <1>2 DEF KeyOf
<1> QED BY <1>2, <1>3, <1>4

ReadOf(job, found) == [job EXCEPT !.phase = "read", !.found = found]

LEMMA ReadGood ==
  ASSUME Shape, NEW job \in jobs, NEW found,
         found \subseteq (IF IsWholeProject(job) THEN FilesOf(job.project) ELSE job.paths)
  PROVE  LET next == ReadOf(job, found)
         IN  /\ next \in Job /\ JobShape(next) /\ KeyOf(next) = KeyOf(job)
             /\ next.project = job.project /\ next.files = job.files
             /\ next.priority = job.priority /\ next.phase = "read"
             /\ next.paths = job.paths /\ next.found = found
<1> DEFINE next == ReadOf(job, found)
<1>1. /\ next.project = job.project /\ next.files = job.files
      /\ next.priority = job.priority /\ next.phase = "read"
      /\ next.paths = job.paths /\ next.found = found
      /\ next \in Job
  BY JobTyped DEF ReadOf, Job, FilesOf
<1>2. JobShape(next) BY <1>1, JobTyped DEF JobShape, IsWholeProject, FilesOf
<1>3. KeyOf(next) = KeyOf(job) BY <1>1 DEF KeyOf
<1> QED BY <1>1, <1>2, <1>3

(* StartScan drops the job, or takes a snapshot of the buffers, or leaves  *)
(* the reading to ReadDisk.                                                *)
SnapshotText(x) == IF IsOpen(x) THEN buffer[x] ELSE disk[x]

LEMMA StartScanIs ==
  ASSUME Shape, NEW job \in jobs, StartScan(job)
  PROVE  /\ job.phase = "queued"
         /\ UNCHANGED <<worldVars, editorVars, graphVars, notices, configTimer, initialTimer,
                        publishedVars, disposed>>
         /\ \/ /\ Requested(job) = {} /\ job.files # {}
               /\ jobs' = jobs \ {job}
            \/ /\ job.priority = "interactive"
               /\ jobs' = Replace(job, Started(job, "read",
                            {x \in Requested(job) : Reported(SnapshotText(x))}))
            \/ /\ \/ job.priority # "interactive"
                  \/ \A x \in Requested(job) : SnapshotText(x) = "absent"
               /\ jobs' = Replace(job, Started(job, "started", {}))
<1> DEFINE paths == Requested(job)
           text == [x \in File |-> IF IsOpen(x) THEN buffer[x] ELSE disk[x]]
           snapshot == job.priority = "interactive" /\ \E x \in paths : text[x] # "absent"
           next == [job EXCEPT !.paths = paths,
                               !.phase = IF snapshot THEN "read" ELSE "started",
                               !.found = IF snapshot
                                         THEN {x \in paths : Reported(text[x])} ELSE {}]
<1>1. /\ job.phase = "queued"
      /\ UNCHANGED <<worldVars, editorVars, graphVars, notices, configTimer, initialTimer,
                     publishedVars, disposed>>
      /\ jobs' = IF paths = {} /\ ~IsWholeProject(job) THEN jobs \ {job} ELSE Replace(job, next)
  BY DEF StartScan
<1>2. paths \subseteq File BY JobTyped DEF Requested
<1>3. \A x \in paths : text[x] = SnapshotText(x) BY <1>2 DEF SnapshotText
<1>4. {x \in paths : Reported(text[x])} = {x \in paths : Reported(SnapshotText(x))}
  BY <1>3
<1>5. CASE snapshot
  <2>1. next = Started(job, "read", {x \in paths : Reported(SnapshotText(x))})
    BY <1>4, <1>5 DEF Started
  <2>2. paths # {} BY <1>5
  <2> QED BY <1>1, <1>5, <2>1, <2>2
<1>6. CASE ~snapshot
  <2>1. next = Started(job, "started", {}) BY <1>6 DEF Started
  <2>2. job.priority # "interactive" \/ \A x \in paths : SnapshotText(x) = "absent"
    BY <1>3, <1>6
  <2> QED BY <1>1, <2>1, <2>2 DEF IsWholeProject
<1> QED BY <1>5, <1>6

LEMMA ReadDiskIs ==
  ASSUME NEW job \in jobs, ReadDisk(job)
  PROVE  LET scope == IF IsWholeProject(job) THEN FilesOf(job.project) ELSE job.paths
         IN  /\ job.phase = "started"
             /\ jobs' = Replace(job, ReadOf(job, {x \in scope : Reported(disk[x])}))
             /\ UNCHANGED <<worldVars, editorVars, graphVars, notices, configTimer, initialTimer,
                            publishedVars, disposed>>
BY DEF ReadDisk, ReadOf

(* Two kinds of steps of a scan: one changes only the jobs, ...            *)
LEMMA QuietScanShape ==
  ASSUME Shape, GoodJobs(jobs)',
         UNCHANGED <<worldVars, editorVars, graphVars, notices, configTimer, initialTimer,
                     publishedVars, disposed>>
  PROVE  Shape'
<1>1. TypeOK' BY DEF GoodJobs, Shape, TypeOK, worldVars, graphVars, publishedVars
<1>2. OpenAllowed' BY DEF Shape, OpenAllowed, OpenFiles, IsOpen
<1> QED BY <1>1, <1>2, PublishedUntouched DEF Shape

LEMMA StartScanShape == ASSUME Shape, NEW job \in jobs, StartScan(job) PROVE Shape'
<1>1. GoodJobs(jobs \ {job}) BY RemovedGood
<1>2. ASSUME NEW phase \in {"read", "started"}, NEW found, found \subseteq Requested(job)
      PROVE  GoodJobs(Replace(job, Started(job, phase, found)))
  BY <1>2, StartedGood, ReplacedGood
<1>3. GoodJobs(Replace(job, Started(job, "read",
                 {x \in Requested(job) : Reported(SnapshotText(x))})))
  BY <1>2
<1>4. GoodJobs(Replace(job, Started(job, "started", {}))) BY <1>2
<1>5. GoodJobs(jobs)' BY <1>1, <1>3, <1>4, StartScanIs DEF GoodJobs
<1> QED BY <1>5, StartScanIs, QuietScanShape

LEMMA ReadDiskShape == ASSUME Shape, NEW job \in jobs, ReadDisk(job) PROVE Shape'
<1> DEFINE scope == IF IsWholeProject(job) THEN FilesOf(job.project) ELSE job.paths
           found == {x \in scope : Reported(disk[x])}
<1>1. GoodJobs(Replace(job, ReadOf(job, found))) BY ReadGood, ReplacedGood
<1>2. GoodJobs(jobs)' BY <1>1, ReadDiskIs DEF GoodJobs
<1> QED BY <1>2, ReadDiskIs, QuietScanShape

(* ... the other ends the scan and applies its outcome.                    *)
LEMMA ApplyOutcomeShape ==
  ASSUME Shape, NEW job \in jobs, NEW found, found \subseteq job.found,
         NEW reliable \in BOOLEAN, ApplyOutcome(job, found, reliable)
  PROVE  shown' \in SUBSET File /\ tracked' \in [Project -> SUBSET File] /\ TrackedOwn'
<1> DEFINE directory == job.project
           live == {x \in found : ~IsProtected(job, x)}
           clean == {x \in job.paths \ found : ~IsProtected(job, x)}
           kept == live \union {x \in tracked[directory] : IsProtected(job, x)}
<1>1. directory \in Project /\ live \subseteq FilesOf(directory) /\ live \subseteq File
  BY JobTyped DEF JobShape, FilesOf
<1>2. /\ shown \subseteq File /\ tracked \in [Project -> SUBSET File]
      /\ \A p \in Project : tracked[p] \subseteq FilesOf(p)
  BY DEF Shape, TypeOK, TrackedOwn
<1>3. /\ \/ shown' = shown \union live \/ shown' = (shown \union live) \ (tracked[directory] \ kept)
         \/ shown' = (shown \union live) \ clean
      /\ \/ tracked' = [tracked EXCEPT ![directory] = @ \union live]
         \/ tracked' = [tracked EXCEPT ![directory] = kept]
         \/ tracked' = [tracked EXCEPT ![directory] = (@ \union live) \ (job.paths \ live)]
  BY DEF ApplyOutcome
<1>4. kept \subseteq FilesOf(directory) /\ kept \subseteq File BY <1>1, <1>2
<1> HIDE DEF live, clean, kept, directory
<1>5. shown' \in SUBSET File BY <1>1, <1>2, <1>3
<1>6. tracked' \in [Project -> SUBSET File] BY <1>1, <1>2, <1>3, <1>4
<1>7. TrackedOwn'
  <2>1. \A p \in Project : tracked'[p] \subseteq FilesOf(p) BY <1>1, <1>2, <1>3, <1>4
  <2> QED BY <2>1 DEF TrackedOwn, FilesOf
<1> QED BY <1>5, <1>6, <1>7

LEMMA ConcernedType ==
  ASSUME Shape, NEW job \in jobs PROVE Concerned(job) \subseteq FilesOf(job.project)
BY JobTyped DEF Concerned, JobShape, FilesOf

LEMMA ScanEndShape ==
  ASSUME Shape, NEW job \in jobs,
         ScanThrows(job) \/ \E found \in SUBSET job.found, reliable \in BOOLEAN :
                              ScanResult(job, found, reliable)
  PROVE  Shape'
<1>1. GoodJobs(jobs)'
  <2>1. jobs' = jobs \ {job} BY DEF ScanThrows, ScanResult
  <2> QED BY <2>1, RemovedGood DEF GoodJobs
<1>2. shown' \in SUBSET File /\ tracked' \in [Project -> SUBSET File] /\ TrackedOwn'
  <2>1. CASE ScanThrows(job)
    BY <2>1 DEF ScanThrows, Shape, TypeOK, TrackedOwn
  <2>2. ASSUME NEW found \in SUBSET job.found, NEW reliable \in BOOLEAN,
               ScanResult(job, found, reliable)
        PROVE  shown' \in SUBSET File /\ tracked' \in [Project -> SUBSET File] /\ TrackedOwn'
    BY <2>2, ApplyOutcomeShape DEF ScanResult
  <2> QED BY <2>1, <2>2
<1>3. excused' \in SUBSET File
  BY ConcernedType DEF ScanThrows, ScanResult, Shape, TypeOK, FilesOf
<1>4. UNCHANGED <<worldVars, editorVars, graphVars, notices, configTimer, initialTimer, disposed>>
  BY DEF ScanThrows, ScanResult
<1>5. TypeOK' BY <1>1, <1>2, <1>3, <1>4 DEF GoodJobs, Shape, TypeOK, worldVars, graphVars
<1>6. OpenAllowed' BY <1>4 DEF Shape, OpenAllowed, OpenFiles, IsOpen
<1> QED BY <1>1, <1>2, <1>5, <1>6 DEF Shape

LEMMA EventsShape == ASSUME Shape, Events PROVE Shape'
<1>1. CASE ConfigTimerFires BY <1>1, RescanShape DEF ConfigTimerFires
<1>2. CASE Restart BY <1>2, RescanShape DEF Restart, Shape, TypeOK
<1>3. ASSUME NEW x \in File,
             \/ DidOpen(x) \/ DidSave(x) \/ DidClose(x) \/ ScanFile(x)
             \/ DidChangeWatchedFile(x)
             \/ \E text \in Text : DidChangeContent(x, text)
      PROVE  Shape'
  BY <1>3, DocumentShape, WatchedShape
<1> QED BY <1>1, <1>2, <1>3, InitialScanShape, ScanWorkspaceShape, FolderShape,
     ShutdownShape DEF Events

LEMMA NextShape == ASSUME Shape, [Next]_vars PROVE Shape'
<1>1. CASE UNCHANGED vars
  <2>1. UNCHANGED <<worldVars, editorVars, graphVars, notices, configTimer, initialTimer, jobs,
                    publishedVars, disposed>>
    BY <1>1 DEF vars, worldVars, graphVars, publishedVars
  <2>2. GoodJobs(jobs)' BY <2>1 DEF Shape, GoodJobs
  <2> QED BY <2>1, <2>2, QuietScanShape
<1>2. CASE Scans BY <1>2, StartScanShape, ReadDiskShape, ScanEndShape DEF Scans
<1> QED BY <1>1, <1>2, FileSystemShape, EventsShape DEF Next

(* The scans, what they found and what is tracked stay within their        *)
(* projects, whatever events, rescans and results come in which order.     *)
THEOREM ShapeInvariant == Spec => []Shape
<1>1. Shape /\ [Next]_vars => Shape' BY NextShape
<1> QED BY InitShape, <1>1, PTL DEF Spec

(* Every variable keeps its type, and no key has two wanted scans.          *)
THEOREM TypeCorrect == Spec => []TypeOK
<1>1. Shape => TypeOK BY DEF Shape
<1> QED BY ShapeInvariant, <1>1, PTL
-----------------------------------------------------------------------------
(* What a result does to the files it speaks about, and to no others.      *)

LEMMA ResultElsewhere ==
  ASSUME Shape, NEW job \in jobs, NEW found \in SUBSET job.found, NEW reliable \in BOOLEAN,
         ScanResult(job, found, reliable), NEW x \in File, x \notin Concerned(job)
  PROVE  (x \in shown' <=> x \in shown) /\ (x \in excused' <=> x \in excused)
<1>1. /\ JobShape(job) /\ \A y \in tracked[job.project] : y \in FilesOf(job.project)
  BY JobTyped DEF Shape, TrackedOwn
<1>2. IsProtected(job, x) \/ (x \notin job.found /\ x \notin job.paths)
  BY <1>1 DEF Concerned, JobShape, IsWholeProject
<1>3. IsProtected(job, x) \/ ~IsWholeProject(job) \/ x \notin tracked[job.project]
  BY <1>1 DEF Concerned
<1>4. x \in shown' <=> x \in shown
  BY <1>2, <1>3 DEF ScanResult, ApplyOutcome
<1>5. x \in excused' <=> x \in excused BY DEF ScanResult
<1> QED BY <1>4, <1>5

LEMMA ResultHere ==
  ASSUME Shape, NEW job \in jobs, NEW found \in SUBSET job.found, NEW reliable \in BOOLEAN,
         ScanResult(job, found, reliable), NEW x \in Concerned(job), job.files # {}
  PROVE  x \in excused' \/ (x \in shown' <=> x \in job.found)
<1>1. x \in job.paths /\ ~IsProtected(job, x) /\ ~IsWholeProject(job)
  BY DEF Concerned, IsWholeProject
<1>2. CASE reliable
  BY <1>1, <1>2 DEF ScanResult, ApplyOutcome, Clears
<1>3. CASE ~reliable BY <1>3 DEF ScanResult
<1> QED BY <1>2, <1>3

(* At the end of a scan diagnostics vanish only from files it looked at    *)
(* and found clean.                                                        *)
LEMMA ResultClears ==
  ASSUME Shape, NEW job \in jobs, NEW found \in SUBSET job.found, NEW reliable \in BOOLEAN,
         ScanResult(job, found, reliable)
  PROVE  shown \ shown' \subseteq Concerned(job) \ job.found
<1>1. ASSUME NEW x \in shown \ shown' PROVE x \in Concerned(job)
  BY <1>1, ResultElsewhere DEF Shape, TypeOK
<1>2. ASSUME NEW x \in shown \ shown', x \in job.found PROVE FALSE
  <2>1. x \in Concerned(job) BY <1>1
  <2>2. ~IsProtected(job, x) BY <2>1 DEF Concerned
  <2>3. reliable \/ x \in shown' BY <1>2 DEF ScanResult, ApplyOutcome, Clears
  <2>4. reliable /\ found = job.found BY <1>2, <2>3 DEF ScanResult
  <2>5. x \in shown' BY <1>2, <2>2, <2>4 DEF ScanResult, ApplyOutcome
  <2> QED BY <1>2, <2>5
<1> QED BY <1>1, <1>2

(* A result strips diagnostics only from files its scan looked at and       *)
(* found clean, whether it is complete, partial or failed (applyOutcome).   *)
THEOREM VanishRight == Spec => VanishOnlyWhenClean
<1>1. Shape /\ [Next]_vars =>
        [\A job \in jobs :
           (\E found \in SUBSET job.found, reliable \in BOOLEAN :
              ScanResult(job, found, reliable))
           => shown \ shown' \subseteq Concerned(job) \ job.found]_vars
  BY ResultClears
<1> QED BY ShapeInvariant, <1>1, PTL DEF Spec, VanishOnlyWhenClean

-----------------------------------------------------------------------------
(* The scans of one file, and which of them look at its buffer or at what  *)
(* was just saved.                                                         *)

ScansOf(js, x) == {j \in js : j.project = Owner[x] /\ j.files = {x}}

EditorScansOf(js, x) == {j \in ScansOf(js, x) : j.priority # "background"}

LEMMA EnqueuedOther ==
  ASSUME NEW before, NEW new, NEW x, \A n \in new : n.project # Owner[x] \/ n.files # {x}
  PROVE  ScansOf(Enqueued(before, new), x) = ScansOf(before, x)
BY DEF Enqueued, ScansOf, KeyOf

LEMMA EnqueuedThis ==
  ASSUME NEW before, NEW new, NEW x, NEW priority, NEW n \in new,
         ~disposed, FreshJobs(new, priority), n.project = Owner[x], n.files = {x}
  PROVE  ScansOf(Enqueued(before, new), x) = {n}
<1>1. ASSUME NEW j \in new, j.project = Owner[x], j.files = {x} PROVE j = n
  <2>1. PICK p \in Project, c \in SUBSET File : j = NewJob(p, c, priority)
    BY DEF FreshJobs
  <2>2. PICK q \in Project, d \in SUBSET File : n = NewJob(q, d, priority)
    BY DEF FreshJobs
  <2>3. j.project = p /\ j.files = c /\ n.project = q /\ n.files = d
    BY <2>1, <2>2, NewJobFields
  <2>4. p = q /\ c = d BY <1>1, <2>3
  <2> QED BY <2>1, <2>2, <2>4
<1>2. ASSUME NEW j \in before, j.project = Owner[x], j.files = {x} PROVE KeyOf(n) = KeyOf(j)
  BY <1>2 DEF KeyOf
<1>3. Enqueued(before, new) = {j \in before : \A m \in new : KeyOf(m) # KeyOf(j)} \union new
  BY DEF Enqueued
<1> QED BY <1>1, <1>2, <1>3 DEF ScansOf

(* A document or file event that schedules a scan of y.                    *)
LEMMA FileScanOther ==
  ASSUME NEW before, NEW known, NEW y, NEW priority, NEW x, x # y
  PROVE  ScansOf(Enqueued(before, FileScan(known, y, priority)), x) = ScansOf(before, x)
<1>1. ASSUME NEW n \in FileScan(known, y, priority) PROVE n.files = {y}
  <2>1. n = NewJob(Owner[y], {y}, priority) BY FileScanIs
  <2> QED BY <2>1, NewJobFields
<1> QED BY <1>1, EnqueuedOther

LEMMA FileScanThis ==
  ASSUME NEW x \in File, NEW priority \in Priorities, NEW known, NEW before, NEW after,
         ~disposed, Owner[x] \in known,
         after = Enqueued(before, FileScan(known, x, priority))
  PROVE  ScansOf(after, x) = {NewJob(Owner[x], {x}, priority)}
<1> DEFINE new == FileScan(known, x, priority)
           n == NewJob(Owner[x], {x}, priority)
<1>1. FreshJobs(new, priority) BY FileScanFresh
<1>2. n \in new BY FileScanIs
<1>3. n.project = Owner[x] /\ n.files = {x} BY NewJobFields
<1> HIDE DEF new, n
<1>4. ScansOf(Enqueued(before, new), x) = {n} BY <1>1, <1>2, <1>3, EnqueuedThis
<1> QED BY <1>4 DEF new, n

LEMMA FileScansThis ==
  ASSUME NEW before, NEW known, NEW xs \in SUBSET File, NEW priority \in Priorities,
         NEW x \in xs, ~disposed, Owner[x] \in known
  PROVE  ScansOf(Enqueued(before, FileScans(known, xs, priority)), x)
           = {NewJob(Owner[x], {x}, priority)}
<1> DEFINE new == FileScans(known, xs, priority)
           n == NewJob(Owner[x], {x}, priority)
<1>1. FreshJobs(new, priority) BY FileScansFresh
<1>2. n \in new BY FileScansAre
<1>3. n.project = Owner[x] /\ n.files = {x} BY NewJobFields
<1> HIDE DEF new, n
<1>4. ScansOf(Enqueued(before, new), x) = {n} BY <1>1, <1>2, <1>3, EnqueuedThis
<1> QED BY <1>4 DEF new, n

(* scanWorkspaceLint leaves the scans of open files alone.                 *)
LEMMA WorkspaceLintOpen ==
  ASSUME NEW before, NEW known \in SUBSET Project, NEW gone,
         WorkspaceLint(before, known, gone), NEW x \in OpenFiles
  PROVE  ScansOf(jobs, x)' = ScansOf(before, x)
<1>1. PICK new : jobs' = Enqueued(before, new) /\ ChunkJobs(new, known)
  BY WorkspaceLintJobs
<1>2. ASSUME NEW n \in new, n.files = {x} PROVE FALSE
  <2>1. n.files \subseteq Enumerated(n.project) \ OpenFiles BY <1>1, <1>2 DEF ChunkJobs
  <2> QED BY <1>2, <2>1
<1>3. ScansOf(Enqueued(before, new), x) = ScansOf(before, x) BY <1>2, EnqueuedOther
<1> QED BY <1>1, <1>3 DEF ScansOf

(* One step of one scan leaves those of other files alone.                 *)
LEMMA ReplacedOther ==
  ASSUME NEW job \in jobs, NEW next, KeyOf(next) = KeyOf(job), NEW x,
         job \notin ScansOf(jobs, x)
  PROVE  ScansOf(Replace(job, next), x) = ScansOf(jobs, x)
BY DEF Replace, ScansOf, KeyOf

LEMMA ReplacedThis ==
  ASSUME NEW job \in jobs, NEW next, KeyOf(next) = KeyOf(job), NEW x,
         job \in ScansOf(jobs, x)
  PROVE  ScansOf(Replace(job, next), x) = (ScansOf(jobs, x) \ {job}) \union {next}
BY DEF Replace, ScansOf, KeyOf
-----------------------------------------------------------------------------
(* Open files.  A scan has seen the buffer of x, or will: it takes its     *)
(* snapshot when it starts, or reads what was just saved.                  *)
SeesBuffer(j, x) ==
  /\ j.phase = "read" => configTimer \/ (x \in j.found <=> Reported(buffer[x]))
  /\ j.phase # "read" /\ j.priority = "save" => disk[x] = buffer[x]
  /\ j.phase = "started" => j.priority = "save"
  /\ j.phase # "queued" => j.paths = {x}

(* x is shown as its buffer deserves, or a scan that will see to it is on  *)
(* its way.                                                                *)
BufferSettled(x) ==
  /\ \A j \in EditorScansOf(jobs, x) : SeesBuffer(j, x)
  /\ EditorScansOf(jobs, x) = {} =>
       configTimer \/ x \in excused \/ (x \in shown <=> Reported(buffer[x]))

OpenSettled ==
  ScanOnType /\ ~disposed =>
    \A x \in (OpenFiles \intersect InGraph) \ outrun : BufferSettled(x)

(* Nobody deletes from outside a file the editor may open.                 *)
OpenFilesStay == \A x \in MayOpen : "absent" \notin Outside[x]

LEMMA BufferFrame ==
  ASSUME NEW x \in File, BufferSettled(x),
         ScansOf(jobs, x)' = ScansOf(jobs, x), buffer'[x] = buffer[x],
         disk'[x] \in {disk[x], buffer[x]},
         configTimer' \/ (~configTimer /\ ruleOn' = ruleOn),
         x \in excused => x \in excused', x \in shown' <=> x \in shown
  PROVE  BufferSettled(x)'
<1>1. EditorScansOf(jobs, x)' = EditorScansOf(jobs, x) BY DEF EditorScansOf
<1>2. ASSUME NEW j \in EditorScansOf(jobs, x) PROVE SeesBuffer(j, x)'
  BY DEF BufferSettled, SeesBuffer, Reported
<1>3. ASSUME EditorScansOf(jobs, x) = {}
      PROVE  configTimer' \/ x \in excused' \/ (x \in shown' <=> Reported(buffer[x])')
  BY <1>3 DEF BufferSettled, Reported
<1> QED BY <1>1, <1>2, <1>3 DEF BufferSettled

LEMMA BufferQueued ==
  ASSUME NEW x \in File, NEW priority \in {"interactive", "save"},
         ScansOf(jobs, x)' = {NewJob(Owner[x], {x}, priority)},
         priority = "save" => disk'[x] = buffer'[x]
  PROVE  BufferSettled(x)'
<1> DEFINE n == NewJob(Owner[x], {x}, priority)
<1>1. n.phase = "queued" /\ n.priority = priority BY NewJobFields
<1>2. ScansOf(jobs, x)' = {n} OBVIOUS
<1> HIDE DEF n
<1>3. EditorScansOf(jobs, x)' = {n} BY <1>1, <1>2 DEF EditorScansOf
<1>4. SeesBuffer(n, x)' BY <1>1 DEF SeesBuffer
<1> QED BY <1>3, <1>4 DEF BufferSettled

(* What an open file of the graph must be shown to keep.                   *)
LEMMA OpenSettledIf ==
  ASSUME ScanOnType /\ ~disposed' =>
           \A x \in File : IsOpen(x)' /\ Owner[x] \in graph' /\ x \notin outrun'
                             => BufferSettled(x)'
  PROVE  OpenSettled'
BY DEF OpenSettled, OpenFiles, InGraph

LEMMA FileSystemOpen ==
  ASSUME Shape, OpenSettled, OpenFilesStay, FileSystem PROVE OpenSettled'
<1>1. /\ UNCHANGED <<buffer, outrun, graph, jobs, shown, excused, disposed>>
      /\ configTimer' \/ (configTimer' = configTimer /\ ruleOn' = ruleOn)
      /\ \A x \in OpenFiles : disk'[x] \in {disk[x], buffer[x]}
  <2>1. ASSUME NEW x \in File, NEW text \in Text, WriteFile(x, text)
        PROVE  \A y \in OpenFiles : disk'[y] = disk[y]
    BY <2>1 DEF WriteFile, OpenFiles, Shape, TypeOK
  <2>2. ASSUME NEW x \in File, DeleteFile(x) PROVE \A y \in OpenFiles : disk'[y] = disk[y]
    <3>1. x \notin OpenFiles BY <2>2 DEF DeleteFile, OpenFilesStay, Shape, OpenAllowed
    <3> QED BY <2>2, <3>1 DEF DeleteFile, OpenFiles, Shape, TypeOK
  <2>3. ASSUME NEW x \in File, SaveFile(x)
        PROVE  \A y \in OpenFiles : disk'[y] \in {disk[y], buffer[y]}
    BY <2>3 DEF SaveFile, OpenFiles, Shape, TypeOK
  <2> QED BY <2>1, <2>2, <2>3 DEF FileSystem, WriteFile, DeleteFile, SaveFile, EditConfig, graphVars,
       publishedVars
<1>2. SUFFICES ASSUME ScanOnType, ~disposed', NEW x \in File, IsOpen(x)', Owner[x] \in graph',
                      x \notin outrun'
               PROVE  BufferSettled(x)'
  BY OpenSettledIf
<1>3. x \in OpenFiles /\ BufferSettled(x)
  BY <1>1, <1>2 DEF OpenSettled, OpenFiles, InGraph, IsOpen
<1>4. ScansOf(jobs, x)' = ScansOf(jobs, x) BY <1>1 DEF ScansOf
<1>5. configTimer' \/ (~configTimer /\ ruleOn' = ruleOn)
  BY <1>1 DEF Shape, TypeOK
<1> QED BY <1>1, <1>3, <1>4, <1>5, BufferFrame

(* Document events: what is settled of the other files stays so, and the   *)
(* file itself is scanned.                                                 *)
LEMMA DocumentOpen ==
  ASSUME Shape, OpenSettled, NEW y \in File,
         \/ DidOpen(y) \/ DidSave(y) \/ DidClose(y) \/ ScanFile(y)
         \/ \E text \in Text : DidChangeContent(y, text)
  PROVE  OpenSettled'
<1> USE DEF Priorities
<1>1. SUFFICES ASSUME ScanOnType, ~disposed', NEW x \in File, IsOpen(x)', Owner[x] \in graph',
                      x \notin outrun'
               PROVE  BufferSettled(x)'
  BY OpenSettledIf
<1>2. ~disposed /\ Owner[x] \in graph
  BY <1>1 DEF DidOpen, DidSave, DidClose, ScanFile, DidChangeContent, graphVars
<1>3. \/ jobs' = jobs
      \/ \E priority \in Priorities : jobs' = Enqueued(jobs, FileScan(graph, y, priority))
  BY <1>1 DEF DidOpen, DidSave, DidClose, ScanFile, DidChangeContent
<1>4. CASE x # y
  <2>1. buffer'[x] = buffer[x] /\ disk'[x] = disk[x] /\ x \notin outrun
    BY <1>1, <1>4 DEF DidOpen, DidSave, DidClose, ScanFile, DidChangeContent, worldVars, Shape, TypeOK
  <2>2. BufferSettled(x)
    BY <1>1, <1>2, <2>1 DEF OpenSettled, OpenFiles, InGraph, IsOpen
  <2>3. ScansOf(jobs, x)' = ScansOf(jobs, x)
    <3>1. \A priority : ScansOf(Enqueued(jobs, FileScan(graph, y, priority)), x) = ScansOf(jobs, x)
      BY <1>4, FileScanOther
    <3> QED BY <1>3, <3>1 DEF ScansOf
  <2>4. UNCHANGED <<configTimer, ruleOn, shown, excused>>
    BY DEF DidOpen, DidSave, DidClose, ScanFile, DidChangeContent, worldVars, publishedVars
  <2>5. configTimer' \/ (~configTimer /\ ruleOn' = ruleOn) BY <2>4 DEF Shape, TypeOK
  <2> QED BY <2>1, <2>2, <2>3, <2>4, <2>5, BufferFrame
<1>5. CASE x = y
  <2>1. ~DidClose(x) BY <1>1 DEF DidClose, IsOpen, Shape, TypeOK
  <2>2. ASSUME NEW pr \in Priorities, jobs' = Enqueued(jobs, FileScan(graph, x, pr))
        PROVE  ScansOf(jobs, x)' = {NewJob(Owner[x], {x}, pr)}
    <3>1. ScansOf(jobs', x) = {NewJob(Owner[x], {x}, pr)}
      <4> HIDE DEF Priorities
      <4> QED BY <1>2, <2>2, FileScanThis
    <3> QED BY <3>1 DEF ScansOf
  <2>3. CASE DidSave(x)
    <3>1. jobs' = Enqueued(jobs, FileScan(graph, x, "save")) /\ disk'[x] = buffer'[x]
      BY <1>1, <2>3 DEF DidSave, IsOpen, worldVars, Shape, TypeOK
    <3> QED BY <2>2, <3>1, BufferQueued
  <2>4. CASE ~DidSave(x)
    <3>1. jobs' = Enqueued(jobs, FileScan(graph, x, "interactive"))
      BY <1>1, <1>5, <2>1, <2>4 DEF DidOpen, ScanFile, DidChangeContent
    <3> QED BY <2>2, <3>1, BufferQueued
  <2> QED BY <2>3, <2>4
<1> QED BY <1>4, <1>5

LEMMA WatchedOpen ==
  ASSUME Shape, OpenSettled, NEW y \in File, DidChangeWatchedFile(y) PROVE OpenSettled'
<1>1. SUFFICES ASSUME ScanOnType, ~disposed', NEW x \in File, IsOpen(x)', Owner[x] \in graph',
                      x \notin outrun'
               PROVE  BufferSettled(x)'
  BY OpenSettledIf
<1>2. UNCHANGED <<worldVars, editorVars, graphVars, configTimer, initialTimer, disposed>>
  BY DEF DidChangeWatchedFile
<1>3. IsOpen(x) /\ BufferSettled(x)
  BY <1>1, <1>2 DEF OpenSettled, OpenFiles, InGraph, IsOpen, graphVars
<1>4. ScansOf(jobs, x)' = ScansOf(jobs, x)
  <2>1. CASE jobs' = jobs BY <2>1 DEF ScansOf
  <2>2. CASE x # y /\ jobs' = Enqueued(jobs, FileScan(graph, y, "background"))
    <3>1. ScansOf(Enqueued(jobs, FileScan(graph, y, "background")), x) = ScansOf(jobs, x)
      BY <2>2, FileScanOther
    <3> QED BY <2>2, <3>1 DEF ScansOf
  <2> QED BY <1>3, <2>1, <2>2 DEF DidChangeWatchedFile
<1>5. configTimer' \/ (~configTimer /\ ruleOn' = ruleOn)
  BY <1>2 DEF Shape, TypeOK, worldVars
<1>6. buffer'[x] = buffer[x] /\ disk'[x] = disk[x] BY <1>2 DEF worldVars
<1>7. CASE (x \in shown' <=> x \in shown) /\ (x \in excused => x \in excused')
  BY <1>3, <1>4, <1>5, <1>6, <1>7, BufferFrame
<1>8. CASE x = y /\ disk[y] = "absent"
  <2>1. x \in excused' BY <1>3, <1>8 DEF DidChangeWatchedFile
  <2>2. EditorScansOf(jobs, x)' = EditorScansOf(jobs, x) BY <1>4 DEF EditorScansOf
  <2>3. ASSUME NEW j \in EditorScansOf(jobs, x) PROVE SeesBuffer(j, x)'
    BY <1>2, <1>3 DEF BufferSettled, SeesBuffer, Reported, worldVars
  <2> QED BY <2>1, <2>2, <2>3 DEF BufferSettled
<1> QED BY <1>7, <1>8 DEF DidChangeWatchedFile, publishedVars

(* Every rescan schedules the open buffers of the graph it leaves behind.  *)
LEMMA ReopenedOpen ==
  ASSUME Shape, NEW before, NEW gone, graph' \in SUBSET Project, ~disposed,
         WorkspaceLint(Enqueued(before, FileScans(graph', OpenFiles, "interactive")),
                       graph', gone),
         UNCHANGED buffer, NEW x \in File, IsOpen(x)', Owner[x] \in graph'
  PROVE  BufferSettled(x)'
<1>1. x \in OpenFiles /\ OpenFiles \in SUBSET File BY DEF OpenFiles, IsOpen
<1>2. ScansOf(Enqueued(before, FileScans(graph', OpenFiles, "interactive")), x)
        = {NewJob(Owner[x], {x}, "interactive")}
  BY <1>1, FileScansThis DEF Priorities
<1>3. ScansOf(jobs, x)' = {NewJob(Owner[x], {x}, "interactive")}
  BY <1>1, <1>2, WorkspaceLintOpen
<1> QED BY <1>3, BufferQueued

LEMMA RescanOpen ==
  ASSUME Shape, ~disposed,
         RescanFromScratch \/ ScanWorkspace \/ \E p \in Project : RemoveFolder(p) \/ AddFolder(p)
  PROVE  OpenSettled'
<1>1. SUFFICES ASSUME ScanOnType, ~disposed', NEW x \in File, IsOpen(x)', Owner[x] \in graph',
                      x \notin outrun'
               PROVE  BufferSettled(x)'
  BY OpenSettledIf
<1>2. graph' \in SUBSET Project /\ UNCHANGED buffer
  BY DEF RescanFromScratch, ScanWorkspace, RemoveFolder, AddFolder, Shape, TypeOK
<1>3. CASE RescanFromScratch
  <2>1. WorkspaceLint(Enqueued(Cancelled(jobs, graph),
                               FileScans(graph', OpenFiles, "interactive")), graph', {})
    BY <1>3 DEF RescanFromScratch, AfterReset
  <2> QED BY <1>1, <1>2, <2>1, ReopenedOpen
<1>4. ASSUME NEW p \in Project, RemoveFolder(p) PROVE BufferSettled(x)'
  <2>1. WorkspaceLint(Enqueued(Cancelled(jobs, graph \intersect {p}),
                               FileScans(graph', OpenFiles, "interactive")),
                      graph', graph \intersect {p})
    BY <1>4 DEF RemoveFolder
  <2> QED BY <1>1, <1>2, <2>1, ReopenedOpen
<1>5. ASSUME NEW p \in Project, AddFolder(p) PROVE BufferSettled(x)'
  <2>1. WorkspaceLint(Enqueued(jobs, FileScans(graph', OpenFiles, "interactive")), graph', {})
    BY <1>5 DEF AddFolder
  <2> QED BY <1>1, <1>2, <2>1, ReopenedOpen
<1>6. CASE ScanWorkspace
  <2> DEFINE before == Enqueued(Cancelled(jobs, graph), {NewJob(p, {}, "background") : p \in graph'})
  <2>1. jobs' = Enqueued(before, FileScans(graph', OpenFiles, "interactive"))
    BY <1>6 DEF ScanWorkspace
  <2> HIDE DEF before
  <2>2. x \in OpenFiles /\ OpenFiles \in SUBSET File BY <1>1, <1>2 DEF OpenFiles, IsOpen
  <2>3. ScansOf(Enqueued(before, FileScans(graph', OpenFiles, "interactive")), x)
          = {NewJob(Owner[x], {x}, "interactive")}
    BY <1>1, <2>2, FileScansThis DEF Priorities
  <2>4. ScansOf(jobs, x)' = {NewJob(Owner[x], {x}, "interactive")}
    BY <2>1, <2>3 DEF ScansOf
  <2> QED BY <2>4, BufferQueued
<1> QED BY <1>3, <1>4, <1>5, <1>6

LEMMA InitialScanOpen == ASSUME Shape, OpenSettled, InitialScan PROVE OpenSettled'
<1>1. SUFFICES ASSUME ScanOnType, ~disposed', NEW x \in File, IsOpen(x)', Owner[x] \in graph',
                      x \notin outrun'
               PROVE  BufferSettled(x)'
  BY OpenSettledIf
<1>2. /\ UNCHANGED <<worldVars, editorVars, graphVars, notices, configTimer, excused, disposed>>
      /\ WorkspaceLint(jobs, graph, {})
  BY DEF InitialScan
<1>3. x \in OpenFiles /\ BufferSettled(x) /\ Owner[x] \in graph
  BY <1>1, <1>2 DEF OpenSettled, OpenFiles, InGraph, IsOpen, graphVars
<1>4. ScansOf(jobs, x)' = ScansOf(jobs, x)
  BY <1>2, <1>3, WorkspaceLintOpen DEF Shape, TypeOK
<1>5. x \in shown' <=> x \in shown
  <2>1. {} \in SUBSET Project /\ graph \in SUBSET Project BY DEF Shape, TypeOK
  <2>2. /\ shown' \subseteq shown
        /\ \A y \in shown : y \in shown' \/ Owner[y] \notin graph
                            \/ (disk[y] = "absent" /\ ~IsOpen(y))
    BY <1>2, <2>1, WorkspaceLintShown DEF Shape
  <2> QED BY <1>3, <2>2 DEF OpenFiles
<1>6. configTimer' \/ (~configTimer /\ ruleOn' = ruleOn)
  BY <1>2 DEF Shape, TypeOK, worldVars
<1>7. buffer'[x] = buffer[x] /\ disk'[x] = disk[x] /\ (x \in excused => x \in excused')
  BY <1>2 DEF worldVars
<1> QED BY <1>3, <1>4, <1>5, <1>6, <1>7, BufferFrame

(* A scan of the editor's is of one file, and speaks about it.             *)
LEMMA EditorScanIs ==
  ASSUME Shape, NEW x \in File, NEW job \in EditorScansOf(jobs, x)
  PROVE  /\ job \in jobs /\ job.files = {x} /\ job.priority # "background"
         /\ Requested(job) = {x} /\ job.project = Owner[x]
         /\ job.paths = {x} => x \in Concerned(job)
BY DEF EditorScansOf, ScansOf, Requested, Concerned, IsProtected, IsWholeProject

(* Any other scan leaves an open file alone.                               *)
LEMMA OtherScanIs ==
  ASSUME Shape, NEW x \in File, IsOpen(x), NEW job \in jobs, job \notin EditorScansOf(jobs, x)
  PROVE  x \notin Concerned(job)
<1>1. JobShape(job) BY JobTyped
<1>2. CASE job.priority = "background" BY <1>2 DEF Concerned, IsProtected
<1>3. CASE job.priority # "background"
  <2>1. PICK y \in File : job.files = {y} BY <1>1, <1>3 DEF JobShape
  <2>2. x # y \/ job.project # Owner[x] BY <1>3, <2>1 DEF EditorScansOf, ScansOf
  <2>3. Owner[y] = job.project BY <1>1, <2>1 DEF JobShape, FilesOf
  <2>4. job.paths \subseteq {y} BY <1>1, <2>1 DEF JobShape
  <2> QED BY <2>1, <2>2, <2>3, <2>4 DEF Concerned, IsWholeProject
<1> QED BY <1>2, <1>3

(* Steps that change only jobs and what is published.                      *)
LEMMA BufferStep ==
  ASSUME NEW x \in File, BufferSettled(x), UNCHANGED <<configTimer, ruleOn, disk, buffer>>,
         \A j \in EditorScansOf(jobs, x)' : j \in EditorScansOf(jobs, x) \/ SeesBuffer(j, x),
         EditorScansOf(jobs, x)' = {} =>
           \/ EditorScansOf(jobs, x) = {} /\ (x \in shown' <=> x \in shown)
                                        /\ (x \in excused => x \in excused')
           \/ configTimer \/ x \in excused' \/ (x \in shown' <=> Reported(buffer[x]))
  PROVE  BufferSettled(x)'
<1>1. ASSUME NEW j \in EditorScansOf(jobs, x)' PROVE SeesBuffer(j, x)'
  <2>1. SeesBuffer(j, x) BY DEF BufferSettled
  <2> QED BY <2>1 DEF SeesBuffer, Reported
<1>2. ASSUME EditorScansOf(jobs, x)' = {}
      PROVE  configTimer' \/ x \in excused' \/ (x \in shown' <=> Reported(buffer[x])')
  BY <1>2 DEF BufferSettled, Reported
<1> QED BY <1>1, <1>2 DEF BufferSettled

LEMMA StartScanOpen ==
  ASSUME Shape, OpenSettled, NEW job \in jobs, StartScan(job) PROVE OpenSettled'
<1>1. SUFFICES ASSUME ScanOnType, ~disposed', NEW x \in File, IsOpen(x)', Owner[x] \in graph',
                      x \notin outrun'
               PROVE  BufferSettled(x)'
  BY OpenSettledIf
<1>2. UNCHANGED <<worldVars, editorVars, graphVars, notices, configTimer, initialTimer,
                  publishedVars, disposed>>
  BY StartScanIs
<1>3. IsOpen(x) /\ BufferSettled(x)
  BY <1>1, <1>2 DEF OpenSettled, OpenFiles, InGraph, IsOpen, graphVars
<1> USE DEF worldVars, publishedVars
<1>4. CASE job \notin EditorScansOf(jobs, x)
  <2>1. ASSUME NEW phase \in {"read", "started"}, NEW found, found \subseteq Requested(job),
               jobs' = Replace(job, Started(job, phase, found))
        PROVE  EditorScansOf(jobs, x)' = EditorScansOf(jobs, x)
    <3> DEFINE next == Started(job, phase, found)
    <3>1. KeyOf(next) = KeyOf(job) /\ next.priority = job.priority
      BY <2>1, StartedGood
    <3>2. jobs' = Replace(job, next) BY <2>1
    <3> HIDE DEF next
    <3> QED BY <1>4, <3>1, <3>2 DEF Replace, EditorScansOf, ScansOf, KeyOf
  <2>2. ASSUME jobs' = jobs \ {job}
        PROVE  EditorScansOf(jobs, x)' = EditorScansOf(jobs, x)
    BY <1>4, <2>2 DEF EditorScansOf, ScansOf
  <2>3. EditorScansOf(jobs, x)' = EditorScansOf(jobs, x)
    <3>1. {z \in Requested(job) : Reported(SnapshotText(z))} \subseteq Requested(job)
          /\ {} \subseteq Requested(job)
      OBVIOUS
    <3>2. \/ jobs' = jobs \ {job}
          \/ \E phase \in {"read", "started"}, found \in SUBSET Requested(job) :
               jobs' = Replace(job, Started(job, phase, found))
      BY <3>1, StartScanIs
    <3> QED BY <2>1, <2>2, <3>2
  <2> QED BY <1>2, <1>3, <2>3, BufferStep
<1>5. CASE job \in EditorScansOf(jobs, x)
  <2>1. /\ job.priority \in {"interactive", "save"} /\ Requested(job) = {x}
        /\ job.files = {x} /\ job.project = Owner[x]
    BY <1>5, EditorScanIs, JobTyped DEF Priorities
  <2>2. SnapshotText(x) = buffer[x] /\ buffer[x] # "absent"
    BY <1>3 DEF SnapshotText, IsOpen, Shape, TypeOK, Text
  <2>3. ASSUME NEW next, KeyOf(next) = KeyOf(job), next.priority = job.priority,
               jobs' = Replace(job, next), SeesBuffer(next, x)
        PROVE  BufferSettled(x)'
    <3>1. EditorScansOf(jobs, x)' = (EditorScansOf(jobs, x) \ {job}) \union {next}
      BY <1>5, <2>3 DEF Replace, EditorScansOf, ScansOf, KeyOf
    <3> QED BY <1>2, <1>3, <2>3, <3>1, BufferStep
  <2>4. CASE /\ job.priority = "interactive"
             /\ jobs' = Replace(job, Started(job, "read",
                          {z \in Requested(job) : Reported(SnapshotText(z))}))
    <3> DEFINE found == {z \in Requested(job) : Reported(SnapshotText(z))}
               next == Started(job, "read", found)
    <3>1. /\ KeyOf(next) = KeyOf(job) /\ next.priority = job.priority /\ next.phase = "read"
          /\ next.paths = Requested(job) /\ next.found = found
      BY StartedGood
    <3>2. x \in found <=> Reported(buffer[x]) BY <2>1, <2>2
    <3>3. jobs' = Replace(job, next) BY <2>4
    <3> HIDE DEF next, found
    <3>4. SeesBuffer(next, x) BY <2>1, <3>1, <3>2 DEF SeesBuffer
    <3> QED BY <2>3, <3>1, <3>3, <3>4
  <2>5. CASE /\ job.priority = "save" /\ jobs' = Replace(job, Started(job, "started", {}))
    <3> DEFINE next == Started(job, "started", {})
    <3>1. /\ KeyOf(next) = KeyOf(job) /\ next.priority = job.priority /\ next.phase = "started"
          /\ next.paths = Requested(job)
      BY StartedGood
    <3>2. jobs' = Replace(job, next) BY <2>5
    <3> HIDE DEF next
    <3>3. job.phase = "queued" BY StartScanIs
    <3>4. disk[x] = buffer[x] BY <1>3, <1>5, <2>5, <3>3 DEF BufferSettled, SeesBuffer
    <3>5. SeesBuffer(next, x) BY <2>1, <2>5, <3>1, <3>4 DEF SeesBuffer
    <3> QED BY <2>3, <3>1, <3>2, <3>5
  <2> QED BY <2>1, <2>2, <2>4, <2>5, StartScanIs
<1> QED BY <1>4, <1>5

LEMMA ReadDiskOpen ==
  ASSUME Shape, OpenSettled, NEW job \in jobs, ReadDisk(job) PROVE OpenSettled'
<1>1. SUFFICES ASSUME ScanOnType, ~disposed', NEW x \in File, IsOpen(x)', Owner[x] \in graph',
                      x \notin outrun'
               PROVE  BufferSettled(x)'
  BY OpenSettledIf
<1> DEFINE scope == IF IsWholeProject(job) THEN FilesOf(job.project) ELSE job.paths
           found == {z \in scope : Reported(disk[z])}
           next == ReadOf(job, found)
<1>2. /\ UNCHANGED <<worldVars, editorVars, graphVars, notices, configTimer, initialTimer,
                     publishedVars, disposed>>
      /\ job.phase = "started" /\ jobs' = Replace(job, next)
  BY ReadDiskIs
<1>3. IsOpen(x) /\ BufferSettled(x)
  BY <1>1, <1>2 DEF OpenSettled, OpenFiles, InGraph, IsOpen, graphVars
<1>4. /\ KeyOf(next) = KeyOf(job) /\ next.priority = job.priority /\ next.phase = "read"
      /\ next.paths = job.paths /\ next.found = found
  BY ReadGood
<1> USE DEF worldVars, publishedVars
<1>5. CASE job \notin EditorScansOf(jobs, x)
  <2> HIDE DEF next
  <2>1. EditorScansOf(jobs, x)' = EditorScansOf(jobs, x)
    BY <1>2, <1>4, <1>5 DEF Replace, EditorScansOf, ScansOf, KeyOf
  <2> QED BY <1>2, <1>3, <2>1, BufferStep
<1>6. CASE job \in EditorScansOf(jobs, x)
  <2>1. SeesBuffer(job, x) BY <1>3, <1>6 DEF BufferSettled
  <2>2. job.paths = {x} /\ disk[x] = buffer[x] BY <1>2, <2>1 DEF SeesBuffer
  <2>3. job.files = {x} BY <1>6, EditorScanIs
  <2>4. x \in found <=> Reported(buffer[x]) BY <2>2, <2>3 DEF IsWholeProject
  <2> HIDE DEF next, found
  <2>5. SeesBuffer(next, x) BY <1>4, <2>2, <2>4 DEF SeesBuffer
  <2>6. EditorScansOf(jobs, x)' = (EditorScansOf(jobs, x) \ {job}) \union {next}
    BY <1>2, <1>4, <1>6 DEF Replace, EditorScansOf, ScansOf, KeyOf
  <2> QED BY <1>2, <1>3, <2>5, <2>6, BufferStep
<1> QED BY <1>5, <1>6

LEMMA ScanEndOpen ==
  ASSUME Shape, OpenSettled, NEW job \in jobs,
         ScanThrows(job) \/ \E found \in SUBSET job.found, reliable \in BOOLEAN :
                              ScanResult(job, found, reliable)
  PROVE  OpenSettled'
<1>1. SUFFICES ASSUME ScanOnType, ~disposed', NEW x \in File, IsOpen(x)', Owner[x] \in graph',
                      x \notin outrun'
               PROVE  BufferSettled(x)'
  BY OpenSettledIf
<1>2. /\ UNCHANGED <<worldVars, editorVars, graphVars, notices, configTimer, initialTimer, disposed>>
      /\ jobs' = jobs \ {job}
  BY DEF ScanThrows, ScanResult
<1>3. IsOpen(x) /\ BufferSettled(x)
  BY <1>1, <1>2 DEF OpenSettled, OpenFiles, InGraph, IsOpen, graphVars
<1> USE DEF worldVars
<1>4. CASE job \notin EditorScansOf(jobs, x)
  <2>1. x \notin Concerned(job) BY <1>3, <1>4, OtherScanIs
  <2>2. (x \in shown' <=> x \in shown) /\ (x \in excused' <=> x \in excused)
    BY <2>1, ResultElsewhere DEF ScanThrows
  <2>3. EditorScansOf(jobs, x)' = EditorScansOf(jobs, x)
    BY <1>2, <1>4 DEF EditorScansOf, ScansOf
  <2> QED BY <1>2, <1>3, <2>2, <2>3, BufferStep
<1>5. CASE job \in EditorScansOf(jobs, x)
  <2>1. EditorScansOf(jobs, x)' \subseteq EditorScansOf(jobs, x)
    BY <1>2 DEF EditorScansOf, ScansOf
  <2>2. SeesBuffer(job, x) /\ job.phase # "queued"
    BY <1>3, <1>5 DEF BufferSettled, ScanThrows, ScanResult
  <2>3. job.paths = {x} /\ job.files # {} /\ x \in Concerned(job)
    BY <1>5, <2>2, EditorScanIs DEF SeesBuffer
  <2>4. CASE ScanThrows(job)
    <3>1. x \in excused' BY <2>3, <2>4 DEF ScanThrows
    <3> QED BY <1>2, <1>3, <2>1, <3>1, BufferStep
  <2>5. ASSUME NEW found \in SUBSET job.found, NEW reliable \in BOOLEAN,
               ScanResult(job, found, reliable)
        PROVE  BufferSettled(x)'
    <3>1. x \in excused' \/ (x \in shown' <=> x \in job.found)
      BY <2>3, <2>5, ResultHere
    <3>2. job.phase = "read" BY <2>5 DEF ScanResult
    <3>3. configTimer \/ (x \in job.found <=> Reported(buffer[x]))
      BY <2>2, <3>2 DEF SeesBuffer
    <3> QED BY <1>2, <1>3, <2>1, <3>1, <3>3, BufferStep
  <2> QED BY <2>4, <2>5
<1> QED BY <1>4, <1>5

LEMMA NextOpen ==
  ASSUME Shape, OpenSettled, OpenFilesStay, [Next]_vars PROVE OpenSettled'
<1>1. CASE UNCHANGED vars
  <2>1. UNCHANGED <<disk, buffer, outrun, ruleOn, graph, configTimer, jobs, shown, excused, disposed>>
    BY <1>1 DEF vars
  <2> QED BY <2>1 DEF OpenSettled, OpenFiles, InGraph, IsOpen, BufferSettled, EditorScansOf,
       ScansOf, SeesBuffer, Reported
<1>2. CASE FileSystem BY <1>2, FileSystemOpen
<1>3. CASE Scans BY <1>3, StartScanOpen, ReadDiskOpen, ScanEndOpen DEF Scans
<1>4. CASE Events
  <2>1. CASE Shutdown BY <2>1 DEF Shutdown, OpenSettled
  <2>2. CASE ConfigTimerFires \/ Restart
    BY <1>4, <2>2, RescanOpen DEF Events, ConfigTimerFires, Restart
  <2>3. ASSUME NEW x \in File,
               \/ DidOpen(x) \/ DidSave(x) \/ DidClose(x) \/ ScanFile(x)
               \/ DidChangeWatchedFile(x)
               \/ \E text \in Text : DidChangeContent(x, text)
        PROVE  OpenSettled'
    BY <2>3, DocumentOpen, WatchedOpen
  <2>4. CASE ScanWorkspace \/ \E p \in Project : RemoveFolder(p) \/ AddFolder(p)
    BY <1>4, <2>4, RescanOpen DEF Events
  <2> QED BY <1>4, <2>1, <2>2, <2>3, <2>4, InitialScanOpen DEF Events
<1> QED BY <1>1, <1>2, <1>3, <1>4 DEF Next

(* Once nothing is on its way an open file shows the diagnostics of its    *)
(* buffer, provided no tool deletes the files the editor opens.            *)
THEOREM OpenBuffersRight ==
  ASSUME OpenFilesStay PROVE Spec => []OpenBuffersShown
<1>1. Init => OpenSettled BY DEF Init, OpenSettled, OpenFiles, IsOpen
<1>2. Shape /\ OpenSettled /\ [Next]_vars => OpenSettled' BY NextOpen
<1>3. OpenSettled => OpenBuffersShown
  BY DEF OpenSettled, OpenBuffersShown, Quiet, BufferSettled, EditorScansOf, ScansOf
<1> QED BY ShapeInvariant, <1>1, <1>2, <1>3, PTL DEF Spec

-----------------------------------------------------------------------------
(* Closed files, when every scan is of one file.                           *)

(* The hypotheses: chunks of one file, no audit of a whole project, and a  *)
(* file in every project that nobody deletes, since a project without one  *)
(* is scanned as a whole.                                                  *)
ScansAreSingle ==
  /\ ChunkSize = 1
  /\ ~Audits
  /\ \A p \in Project : \E x \in File : Owner[x] = p /\ "absent" \notin Outside[x]

AllSingle(js) == \A j \in js : \E x \in File : j.files = {x}

FilesStay == \A x \in File : "absent" \notin Outside[x] => disk[x] # "absent"

LEMMA SingletonOf ==
  ASSUME NEW c \in SUBSET File, c # {}, Cardinality(c) <= 1
  PROVE  \E x \in File : c = {x}
<1>1. IsFiniteSet(c) BY FileAssumption, FS_Subset
<1>2. Cardinality(c) \in Nat /\ Cardinality(c) # 0
  BY <1>1, FS_CardinalityType, FS_EmptySet
<1>3. Cardinality(c) = 1 BY <1>2
<1> QED BY <1>1, <1>3, FS_Singleton

(* scanWorkspaceLint schedules each closed file of a known project alone.  *)
LEMMA WorkspaceLintSingle ==
  ASSUME Shape, FilesStay, ScansAreSingle, NEW before, NEW known \in SUBSET Project, NEW gone,
         WorkspaceLint(before, known, gone)
  PROVE  /\ AllSingle(before) => AllSingle(jobs)'
         /\ \A x \in File :
              ~disposed /\ Owner[x] \in known /\ ~IsOpen(x) /\ disk[x] # "absent"
                => \E n : ScansOf(jobs, x)' = {n} /\ n.phase = "queued"
<1>1. PICK new : /\ jobs' = Enqueued(before, new)
                 /\ FreshJobs(new, "background")
                 /\ ChunkJobs(new, known)
  BY WorkspaceLintJobs
<1>2. \A p \in Project : Enumerated(p) # {}
  BY DEF ScansAreSingle, FilesStay, Enumerated, FilesOf
<1>3. ASSUME NEW j \in new PROVE \E x \in File : j.files = {x}
  <2>1. j.files # {} /\ j.files \subseteq Enumerated(j.project) /\ Cardinality(j.files) <= 1
    BY <1>1, <1>2 DEF ChunkJobs, ScansAreSingle
  <2>2. j.files \in SUBSET File BY <2>1 DEF Enumerated, FilesOf
  <2> QED BY <2>1, <2>2, SingletonOf
<1>4. ASSUME AllSingle(before) PROVE AllSingle(jobs)'
  BY <1>1, <1>3, <1>4 DEF AllSingle, Enqueued
<1>5. ASSUME NEW x \in File, ~disposed, Owner[x] \in known, ~IsOpen(x), disk[x] # "absent"
      PROVE  \E n : ScansOf(jobs, x)' = {n} /\ n.phase = "queued"
  <2>1. x \in Enumerated(Owner[x]) \ OpenFiles
    BY <1>5 DEF Enumerated, FilesOf, OpenFiles
  <2>2. PICK n \in new : n.project = Owner[x] /\ x \in n.files
    BY <1>1, <1>5, <2>1 DEF ChunkJobs
  <2>3. n.files = {x} BY <1>3, <2>2
  <2>4. n.phase = "queued"
    <3>1. PICK p \in Project, c \in SUBSET File : n = NewJob(p, c, "background")
      BY <1>1, <2>2 DEF FreshJobs
    <3> QED BY <3>1, NewJobFields
  <2>5. ScansOf(Enqueued(before, new), x) = {n}
    BY <1>1, <1>5, <2>2, <2>3, EnqueuedThis
  <2>6. ScansOf(jobs, x)' = {n} BY <1>1, <2>5 DEF ScansOf
  <2> QED BY <2>4, <2>6
<1> QED BY <1>4, <1>5

LEMMA FileScanSingle ==
  ASSUME NEW before, NEW known, NEW x \in File, NEW priority,
         AllSingle(before)
  PROVE  AllSingle(Enqueued(before, FileScan(known, x, priority)))
<1>1. ASSUME NEW j \in FileScan(known, x, priority) PROVE j.files = {x}
  <2>1. j = NewJob(Owner[x], {x}, priority) BY FileScanIs
  <2> QED BY <2>1, NewJobFields
<1> QED BY <1>1 DEF Enqueued, AllSingle

LEMMA FileScansSingle ==
  ASSUME NEW before, NEW known, NEW xs \in SUBSET File, NEW priority,
         AllSingle(before)
  PROVE  AllSingle(Enqueued(before, FileScans(known, xs, priority)))
<1>1. ASSUME NEW j \in FileScans(known, xs, priority) PROVE \E y \in File : j.files = {y}
  <2>1. PICK y \in xs : j = NewJob(Owner[y], {y}, priority) /\ Owner[y] \in known
    BY FileScansAre
  <2> QED BY <2>1, NewJobFields
<1> QED BY <1>1 DEF Enqueued, AllSingle

LEMMA NextStay == ASSUME Shape, FilesStay, [Next]_vars PROVE FilesStay'
<1>1. ASSUME NEW x \in File, "absent" \notin Outside[x] PROVE disk'[x] # "absent"
  <2>1. disk[x] # "absent" BY <1>1 DEF FilesStay
  <2>2. CASE disk' = disk BY <2>1, <2>2
  <2>3. ASSUME NEW y \in File, NEW text \in Text, WriteFile(y, text) PROVE disk'[x] # "absent"
    BY <2>1, <2>3 DEF WriteFile, Shape, TypeOK, Text
  <2>4. ASSUME NEW y \in File, DeleteFile(y) PROVE disk'[x] # "absent"
    BY <1>1, <2>1, <2>4 DEF DeleteFile, Shape, TypeOK
  <2>5. ASSUME NEW y \in File, SaveFile(y) PROVE disk'[x] # "absent"
    BY <2>1, <2>5 DEF SaveFile, Shape, TypeOK, Text, IsOpen
  <2>6. CASE UNCHANGED vars BY <2>2, <2>6 DEF vars
  <2>7. CASE Scans
    <3>1. disk' = disk
      BY <2>7 DEF Scans, StartScan, ReadDisk, ScanResult, ScanThrows, worldVars
    <3> QED BY <2>2, <3>1
  <2>8. CASE FileSystem
    BY <2>2, <2>3, <2>4, <2>5, <2>8 DEF FileSystem, EditConfig
  <2>9. CASE Events
    <3>1. disk' = disk
      BY <2>9 DEF Events, DidOpen, DidChangeContent, DidSave, DidClose, DidChangeWatchedFile, ScanFile,
         InitialScan, ConfigTimerFires, Restart, RescanFromScratch, ScanWorkspace, RemoveFolder,
         AddFolder, Shutdown, worldVars
    <3> QED BY <2>2, <3>1
  <2> QED BY <2>6, <2>7, <2>8, <2>9 DEF Next
<1> QED BY <1>1 DEF FilesStay

LEMMA NextSingle ==
  ASSUME Shape, FilesStay, ScansAreSingle, AllSingle(jobs), [Next]_vars PROVE AllSingle(jobs)'
<1>1. CASE jobs' \subseteq jobs BY <1>1 DEF AllSingle
<1>2. CASE UNCHANGED vars BY <1>1, <1>2 DEF vars
<1>3. CASE FileSystem
  BY <1>1, <1>3 DEF FileSystem, WriteFile, DeleteFile, SaveFile, EditConfig
<1>4. CASE Scans
  <2>1. PICK job \in jobs :
           \/ StartScan(job) \/ ReadDisk(job) \/ ScanThrows(job)
           \/ \E found \in SUBSET job.found, reliable \in BOOLEAN :
                ScanResult(job, found, reliable)
    BY <1>4 DEF Scans
  <2>2. ASSUME NEW next, KeyOf(next) = KeyOf(job), jobs' = Replace(job, next)
        PROVE  AllSingle(jobs)'
    BY <2>2 DEF AllSingle, Replace, KeyOf
  <2>3. CASE StartScan(job)
    <3>1. \/ jobs' = jobs \ {job}
          \/ \E phase \in {"read", "started"}, found \in SUBSET Requested(job) :
               jobs' = Replace(job, Started(job, phase, found))
      <4>1. {z \in Requested(job) : Reported(SnapshotText(z))} \in SUBSET Requested(job)
            /\ {} \in SUBSET Requested(job)
        OBVIOUS
      <4> QED BY <2>3, <4>1, StartScanIs
    <3>2. \A phase \in {"read", "started"}, found \in SUBSET Requested(job) :
            KeyOf(Started(job, phase, found)) = KeyOf(job)
      BY StartedGood
    <3> QED BY <1>1, <2>2, <3>1, <3>2
  <2>4. CASE ReadDisk(job)
    <3> DEFINE found == {x \in (IF IsWholeProject(job) THEN FilesOf(job.project) ELSE job.paths) :
                           Reported(disk[x])}
    <3>1. jobs' = Replace(job, ReadOf(job, found)) BY <2>4, ReadDiskIs
    <3>2. KeyOf(ReadOf(job, found)) = KeyOf(job) BY ReadGood
    <3> QED BY <2>2, <3>1, <3>2
  <2>5. CASE jobs' = jobs \ {job} BY <1>1, <2>5
  <2> QED BY <2>1, <2>3, <2>4, <2>5 DEF ScanThrows, ScanResult
<1>5. CASE Events
  <2>1. ASSUME NEW x \in File, NEW priority, jobs' = Enqueued(jobs, FileScan(graph, x, priority))
        PROVE  AllSingle(jobs)'
    <3>1. AllSingle(Enqueued(jobs, FileScan(graph, x, priority)))
      BY FileScanSingle
    <3> QED BY <2>1, <3>1 DEF AllSingle
  <2>2. ASSUME NEW x \in File,
               \/ DidOpen(x) \/ DidSave(x) \/ DidClose(x) \/ ScanFile(x)
               \/ DidChangeWatchedFile(x)
               \/ \E text \in Text : DidChangeContent(x, text)
        PROVE  AllSingle(jobs)'
    BY <1>1, <2>1, <2>2 DEF DidOpen, DidSave, DidClose, ScanFile, DidChangeWatchedFile,
       DidChangeContent
  <2>3. CASE InitialScan
    BY <2>3, WorkspaceLintSingle DEF InitialScan, AllSingle, Shape, TypeOK
  <2>4. CASE Shutdown BY <2>4 DEF Shutdown, AllSingle
  <2>5. ASSUME NEW gone, NEW dropped, graph' \in SUBSET Project,
               WorkspaceLint(Enqueued(Cancelled(jobs, dropped),
                                      FileScans(graph', OpenFiles, "interactive")), graph', gone)
        PROVE  AllSingle(jobs)'
    <3>1. AllSingle(Cancelled(jobs, dropped)) BY DEF Cancelled, AllSingle
    <3>2. OpenFiles \in SUBSET File BY DEF OpenFiles
    <3>3. AllSingle(Enqueued(Cancelled(jobs, dropped),
                             FileScans(graph', OpenFiles, "interactive")))
      BY <3>1, <3>2, FileScansSingle
    <3> QED BY <2>5, <3>3, WorkspaceLintSingle
  <2>6. ~ScanWorkspace BY DEF ScanWorkspace, ScansAreSingle
  <2>7. CASE RescanFromScratch
    BY <2>5, <2>7 DEF RescanFromScratch, AfterReset, Shape, TypeOK
  <2>8. ASSUME NEW p \in Project, RemoveFolder(p) PROVE AllSingle(jobs)'
    BY <2>5, <2>8 DEF RemoveFolder, Shape, TypeOK
  <2>9. ASSUME NEW p \in Project, AddFolder(p) PROVE AllSingle(jobs)'
    <3>1. Cancelled(jobs, {}) = jobs BY DEF Cancelled
    <3> QED BY <2>5, <2>9, <3>1 DEF AddFolder, Shape, TypeOK
  <2> QED BY <1>5, <2>2, <2>3, <2>4, <2>6, <2>7, <2>8, <2>9 DEF Events, ConfigTimerFires, Restart
<1> QED BY <1>2, <1>3, <1>4, <1>5 DEF Next

(* A scan has seen what is on disk of x, or will.                          *)
SeesDisk(j, x) ==
  /\ j.phase = "read" => configTimer \/ (x \in j.found <=> Reported(disk[x]))
  /\ j.phase # "queued" => j.paths = {x}

DiskSettled(x) ==
  /\ \A j \in ScansOf(jobs, x) : SeesDisk(j, x)
  /\ ScansOf(jobs, x) = {} =>
       configTimer \/ x \in excused \/ (x \in shown <=> Reported(disk[x]))

(* x is there, closed, of a known project, and no event is on its way.     *)
Waits(x) == ~IsOpen(x) /\ Owner[x] \in graph /\ disk[x] # "absent" /\ x \notin notices

ClosedSettled ==
  ~disposed /\ ~initialTimer => \A x \in File : Waits(x) => DiskSettled(x)

LEMMA DiskFrame ==
  ASSUME NEW x \in File, DiskSettled(x),
         ScansOf(jobs, x)' = ScansOf(jobs, x), disk'[x] = disk[x],
         configTimer' \/ (~configTimer /\ ruleOn' = ruleOn),
         x \in excused => x \in excused', x \in shown' <=> x \in shown
  PROVE  DiskSettled(x)'
<1>1. ASSUME NEW j \in ScansOf(jobs, x) PROVE SeesDisk(j, x)'
  BY DEF DiskSettled, SeesDisk, Reported
<1>2. ASSUME ScansOf(jobs, x) = {}
      PROVE  configTimer' \/ x \in excused' \/ (x \in shown' <=> Reported(disk[x])')
  BY <1>2 DEF DiskSettled, Reported
<1> QED BY <1>1, <1>2 DEF DiskSettled

LEMMA DiskQueued ==
  ASSUME NEW x \in File, NEW n, ScansOf(jobs, x)' = {n}, n.phase = "queued"
  PROVE  DiskSettled(x)'
<1>1. SeesDisk(n, x)' BY DEF SeesDisk
<1> QED BY <1>1 DEF DiskSettled

(* Steps that change only jobs and what is published.                      *)
LEMMA DiskStep ==
  ASSUME NEW x \in File, DiskSettled(x), UNCHANGED <<configTimer, ruleOn, disk>>,
         \A j \in ScansOf(jobs, x)' : j \in ScansOf(jobs, x) \/ SeesDisk(j, x),
         ScansOf(jobs, x)' = {} =>
           \/ ScansOf(jobs, x) = {} /\ (x \in shown' <=> x \in shown)
                                  /\ (x \in excused => x \in excused')
           \/ configTimer \/ x \in excused' \/ (x \in shown' <=> Reported(disk[x]))
  PROVE  DiskSettled(x)'
<1>1. ASSUME NEW j \in ScansOf(jobs, x)' PROVE SeesDisk(j, x)'
  <2>1. SeesDisk(j, x) BY DEF DiskSettled
  <2> QED BY <2>1 DEF SeesDisk, Reported
<1>2. ASSUME ScansOf(jobs, x)' = {}
      PROVE  configTimer' \/ x \in excused' \/ (x \in shown' <=> Reported(disk[x])')
  BY <1>2 DEF DiskSettled, Reported
<1> QED BY <1>1, <1>2 DEF DiskSettled

(* What a closed file must be shown to keep.                               *)
LEMMA ClosedSettledIf ==
  ASSUME ~disposed' /\ ~initialTimer' => \A x \in File : Waits(x)' => DiskSettled(x)'
  PROVE  ClosedSettled'
BY DEF ClosedSettled

LEMMA FileSystemClosed == ASSUME Shape, ClosedSettled, FileSystem PROVE ClosedSettled'
<1>1. SUFFICES ASSUME ~disposed', ~initialTimer', NEW x \in File, Waits(x)'
               PROVE  DiskSettled(x)'
  BY ClosedSettledIf
<1>2. /\ UNCHANGED <<buffer, graph, jobs, shown, excused, disposed, initialTimer>>
      /\ configTimer' \/ (configTimer' = configTimer /\ ruleOn' = ruleOn)
  BY DEF FileSystem, WriteFile, DeleteFile, SaveFile, EditConfig, graphVars, publishedVars
<1>3. disk'[x] = disk[x] /\ x \notin notices
  <2>1. ASSUME NEW y \in File, NEW text \in Text, WriteFile(y, text)
        PROVE  disk'[x] = disk[x] /\ x \notin notices
    BY <1>1, <2>1 DEF WriteFile, Waits, Shape, TypeOK
  <2>2. ASSUME NEW y \in File, DeleteFile(y) PROVE disk'[x] = disk[x] /\ x \notin notices
    BY <1>1, <2>2 DEF DeleteFile, Waits, Shape, TypeOK
  <2>3. ASSUME NEW enabled, NEW qualifying, EditConfig(enabled, qualifying)
        PROVE  disk'[x] = disk[x] /\ x \notin notices
    BY <1>1, <2>3 DEF EditConfig, Waits
  <2>4. ASSUME NEW y \in File, SaveFile(y) PROVE disk'[x] = disk[x] /\ x \notin notices
    BY <1>1, <2>4 DEF SaveFile, Waits, Shape, TypeOK
  <2> QED BY <2>1, <2>2, <2>3, <2>4 DEF FileSystem
<1>4. DiskSettled(x) BY <1>1, <1>2, <1>3 DEF ClosedSettled, Waits, IsOpen
<1>5. ScansOf(jobs, x)' = ScansOf(jobs, x) BY <1>2 DEF ScansOf
<1>6. configTimer' \/ (~configTimer /\ ruleOn' = ruleOn)
  BY <1>2 DEF Shape, TypeOK
<1> QED BY <1>2, <1>3, <1>4, <1>5, <1>6, DiskFrame

(* Document and file events: a file that was not waiting before is scanned. *)
LEMMA EventClosed ==
  ASSUME Shape, ClosedSettled, ~disposed, NEW y \in File,
         \/ DidOpen(y) \/ DidSave(y) \/ DidClose(y) \/ ScanFile(y)
         \/ DidChangeWatchedFile(y)
         \/ \E text \in Text : DidChangeContent(y, text)
  PROVE  ClosedSettled'
<1> USE DEF Priorities
<1>1. SUFFICES ASSUME ~disposed', ~initialTimer', NEW x \in File, Waits(x)'
               PROVE  DiskSettled(x)'
  BY ClosedSettledIf
<1>2. UNCHANGED <<ruleOn, graph, configTimer, initialTimer, disposed>>
  BY DEF DidOpen, DidSave, DidClose, ScanFile, DidChangeWatchedFile, DidChangeContent,
     worldVars, graphVars
<1>3. \/ jobs' = jobs
      \/ \E priority \in Priorities : jobs' = Enqueued(jobs, FileScan(graph, y, priority))
  BY DEF DidOpen, DidSave, DidClose, ScanFile, DidChangeWatchedFile, DidChangeContent
<1>4. CASE x # y
  <2>1. /\ buffer'[x] = buffer[x] /\ disk'[x] = disk[x]
        /\ x \in notices' <=> x \in notices
        /\ x \in shown' <=> x \in shown
        /\ x \in excused' <=> x \in excused
    BY <1>4 DEF DidOpen, DidSave, DidClose, ScanFile, DidChangeWatchedFile, DidChangeContent,
       worldVars, publishedVars, Shape, TypeOK
  <2>2. Waits(x) BY <1>1, <1>2, <2>1 DEF Waits, IsOpen
  <2>3. DiskSettled(x) BY <1>1, <1>2, <2>2 DEF ClosedSettled
  <2>4. \A priority : ScansOf(Enqueued(jobs, FileScan(graph, y, priority)), x) = ScansOf(jobs, x)
    BY <1>4, FileScanOther
  <2>5. ScansOf(jobs, x)' = ScansOf(jobs, x) BY <1>3, <2>4 DEF ScansOf
  <2>6. configTimer' \/ (~configTimer /\ ruleOn' = ruleOn) BY <1>2 DEF Shape, TypeOK
  <2> QED BY <2>1, <2>3, <2>5, <2>6, DiskFrame
<1>5. CASE DidSave(y)
  <2>1. IsOpen(y) <=> IsOpen(y)' BY <1>5 DEF DidSave, IsOpen
  <2>2. CASE x = y
    <3>1. /\ UNCHANGED <<jobs, buffer, disk, notices, shown, excused>>
          /\ ~IsOpen(y)
      BY <1>1, <1>5, <2>1, <2>2 DEF DidSave, Waits, worldVars, publishedVars
    <3>2. Waits(x) BY <1>1, <1>2, <3>1 DEF Waits, IsOpen
    <3>3. DiskSettled(x) BY <1>1, <1>2, <3>2 DEF ClosedSettled
    <3>4. ScansOf(jobs, x)' = ScansOf(jobs, x) BY <3>1 DEF ScansOf
    <3>5. configTimer' \/ (~configTimer /\ ruleOn' = ruleOn) BY <1>2 DEF Shape, TypeOK
    <3> QED BY <3>1, <3>3, <3>4, <3>5, DiskFrame
  <2> QED BY <1>4, <2>2
<1>6. CASE x = y /\ ~DidSave(y)
  <2>1. \E priority \in Priorities : jobs' = Enqueued(jobs, FileScan(graph, x, priority))
    <3>1. ~DidOpen(y) /\ \A text \in Text : ~DidChangeContent(y, text)
      BY <1>1, <1>6 DEF DidOpen, DidChangeContent, Waits, IsOpen, Shape, TypeOK, Text, Content
    <3>2. DidChangeWatchedFile(y) => jobs' = Enqueued(jobs, FileScan(graph, y, "background"))
      BY <1>1, <1>6 DEF DidChangeWatchedFile, Waits, IsOpen, worldVars
    <3> QED BY <1>6, <3>1, <3>2 DEF DidClose, ScanFile
  <2>2. Owner[x] \in graph BY <1>1, <1>2 DEF Waits
  <2>3. PICK priority \in Priorities : ScansOf(jobs', x) = {NewJob(Owner[x], {x}, priority)}
    <3>1. ASSUME NEW pr \in Priorities, jobs' = Enqueued(jobs, FileScan(graph, x, pr))
          PROVE  ScansOf(jobs', x) = {NewJob(Owner[x], {x}, pr)}
      BY <2>2, <3>1, FileScanThis
    <3> QED BY <2>1, <3>1
  <2> DEFINE n == NewJob(Owner[x], {x}, priority)
  <2>4. ScansOf(jobs', x) = {n} BY <2>3
  <2>5. n.phase = "queued" BY NewJobFields
  <2> HIDE DEF n
  <2>6. ScansOf(jobs, x)' = {n} BY <2>4 DEF ScansOf
  <2> QED BY <2>5, <2>6, DiskQueued
<1> QED BY <1>4, <1>5, <1>6

(* Workspace scans: every file that waits is scanned.                      *)
LEMMA WorkspaceClosed ==
  ASSUME Shape, FilesStay, ScansAreSingle, ~disposed,
         InitialScan \/ RescanFromScratch \/ \E p \in Project : RemoveFolder(p) \/ AddFolder(p)
  PROVE  ClosedSettled'
<1>1. SUFFICES ASSUME ~disposed', ~initialTimer', NEW x \in File, Waits(x)'
               PROVE  DiskSettled(x)'
  BY ClosedSettledIf
<1>2. PICK before, gone : WorkspaceLint(before, graph', gone)
  BY DEF InitialScan, RescanFromScratch, RemoveFolder, AddFolder, graphVars
<1>3. graph' \in SUBSET Project /\ UNCHANGED <<disk, buffer>>
  BY DEF InitialScan, RescanFromScratch, RemoveFolder, AddFolder, graphVars, worldVars, Shape,
     TypeOK
<1>4. Owner[x] \in graph' /\ ~IsOpen(x) /\ disk[x] # "absent"
  BY <1>1, <1>3 DEF Waits, IsOpen
<1>5. PICK n : ScansOf(jobs, x)' = {n} /\ n.phase = "queued"
  BY <1>2, <1>3, <1>4, WorkspaceLintSingle
<1> QED BY <1>5, DiskQueued

LEMMA SingleScanIs ==
  ASSUME Shape, AllSingle(jobs), NEW x \in File, ~IsOpen(x), NEW job \in jobs
  PROVE  /\ job.files # {} /\ ~IsWholeProject(job)
         /\ job \in ScansOf(jobs, x) =>
              /\ Requested(job) = {x}
              /\ job.paths = {x} => x \in Concerned(job)
         /\ job \notin ScansOf(jobs, x) => x \notin Concerned(job)
<1>1. PICK y \in File : job.files = {y} BY DEF AllSingle
<1>2. JobShape(job) BY JobTyped
<1>3. Owner[y] = job.project /\ job.paths \subseteq {y} BY <1>1, <1>2 DEF JobShape, FilesOf
<1>4. job.files # {} /\ ~IsWholeProject(job) BY <1>1 DEF IsWholeProject
<1>5. ASSUME job \in ScansOf(jobs, x)
      PROVE  Requested(job) = {x} /\ (job.paths = {x} => x \in Concerned(job))
  BY <1>4, <1>5 DEF ScansOf, Requested, OpenFiles, Concerned, IsProtected
<1>6. ASSUME job \notin ScansOf(jobs, x) PROVE x \notin Concerned(job)
  <2>1. x # y BY <1>1, <1>3, <1>6 DEF ScansOf
  <2> QED BY <1>3, <1>4, <2>1 DEF Concerned
<1> QED BY <1>4, <1>5, <1>6

LEMMA ScansClosed ==
  ASSUME Shape, AllSingle(jobs), ClosedSettled, NEW job \in jobs,
         \/ StartScan(job) \/ ReadDisk(job) \/ ScanThrows(job)
         \/ \E found \in SUBSET job.found, reliable \in BOOLEAN :
              ScanResult(job, found, reliable)
  PROVE  ClosedSettled'
<1>1. SUFFICES ASSUME ~disposed', ~initialTimer', NEW x \in File, Waits(x)'
               PROVE  DiskSettled(x)'
  BY ClosedSettledIf
<1>2. UNCHANGED <<disk, ruleOn, buffer, graph, notices, configTimer, initialTimer, disposed>>
  BY DEF StartScan, ReadDisk, ScanThrows, ScanResult, worldVars, graphVars
<1>3. ~IsOpen(x) /\ disk[x] # "absent" /\ DiskSettled(x)
  BY <1>1, <1>2 DEF Waits, IsOpen, ClosedSettled
<1>4. CASE StartScan(job)
  <2>1. UNCHANGED <<shown, excused>> BY <1>4 DEF StartScan, publishedVars
  <2>2. ASSUME NEW phase \in {"read", "started"}, NEW found, found \subseteq Requested(job),
               jobs' = Replace(job, Started(job, phase, found)),
               phase = "read" => (x \in found <=> Reported(disk[x]))
        PROVE  DiskSettled(x)'
    <3> DEFINE next == Started(job, phase, found)
    <3>1. /\ KeyOf(next) = KeyOf(job) /\ next.phase = phase
          /\ next.paths = Requested(job) /\ next.found = found
      BY <2>2, StartedGood
    <3>2. jobs' = Replace(job, next) BY <2>2
    <3> HIDE DEF next
    <3>3. CASE job \notin ScansOf(jobs, x)
      <4>1. ScansOf(jobs, x)' = ScansOf(jobs, x)
        BY <3>1, <3>2, <3>3 DEF Replace, ScansOf, KeyOf
      <4> QED BY <1>2, <1>3, <2>1, <4>1, DiskStep
    <3>4. CASE job \in ScansOf(jobs, x)
      <4>1. Requested(job) = {x} BY <1>3, <3>4, SingleScanIs
      <4>2. SeesDisk(next, x) BY <2>2, <3>1, <4>1 DEF SeesDisk
      <4>3. ScansOf(jobs, x)' = (ScansOf(jobs, x) \ {job}) \union {next}
        BY <3>1, <3>2, <3>4 DEF Replace, ScansOf, KeyOf
      <4> QED BY <1>2, <1>3, <4>2, <4>3, DiskStep
    <3> QED BY <3>3, <3>4
  <2>3. ASSUME jobs' = jobs \ {job}, Requested(job) = {} PROVE DiskSettled(x)'
    <3>1. job \notin ScansOf(jobs, x) BY <1>3, <2>3, SingleScanIs
    <3>2. ScansOf(jobs, x)' = ScansOf(jobs, x) BY <2>3, <3>1 DEF ScansOf
    <3> QED BY <1>2, <1>3, <2>1, <3>2, DiskStep
  <2> DEFINE snapshot == {z \in Requested(job) : Reported(SnapshotText(z))}
  <2>4. x \in snapshot => Reported(disk[x]) BY <1>3 DEF SnapshotText
  <2>5. x \in Requested(job) => (x \in snapshot <=> Reported(disk[x]))
    BY <1>3 DEF SnapshotText
  <2>6. ASSUME jobs' = Replace(job, Started(job, "read", snapshot)) PROVE DiskSettled(x)'
    <3>1. CASE x \in Requested(job) BY <2>2, <2>5, <2>6, <3>1
    <3>2. CASE x \notin Requested(job)
      <4> DEFINE next == Started(job, "read", snapshot)
      <4>1. snapshot \subseteq Requested(job) OBVIOUS
      <4>2. KeyOf(next) = KeyOf(job) BY <4>1, StartedGood
      <4>3. jobs' = Replace(job, next) BY <2>6
      <4>4. job \notin ScansOf(jobs, x) BY <1>3, <3>2, SingleScanIs
      <4> HIDE DEF next
      <4>5. ScansOf(jobs, x)' = ScansOf(jobs, x)
        BY <4>2, <4>3, <4>4 DEF Replace, ScansOf, KeyOf
      <4> QED BY <1>2, <1>3, <2>1, <4>5, DiskStep
    <3> QED BY <3>1, <3>2
  <2>7. ASSUME jobs' = Replace(job, Started(job, "started", {})) PROVE DiskSettled(x)'
    BY <2>2, <2>7
  <2> QED BY <1>4, <2>3, <2>6, <2>7, StartScanIs
<1>5. CASE ReadDisk(job)
  <2> DEFINE scope == IF IsWholeProject(job) THEN FilesOf(job.project) ELSE job.paths
             found == {z \in scope : Reported(disk[z])}
             next == ReadOf(job, found)
  <2>1. job.phase = "started" /\ jobs' = Replace(job, next) /\ UNCHANGED <<shown, excused>>
    BY <1>5, ReadDiskIs DEF publishedVars
  <2>2. /\ KeyOf(next) = KeyOf(job) /\ next.phase = "read"
        /\ next.paths = job.paths /\ next.found = found
    BY ReadGood
  <2>3. ~IsWholeProject(job) BY <1>3, SingleScanIs
  <2>4. x \in job.paths => (x \in found <=> Reported(disk[x])) BY <2>3
  <2> HIDE DEF next, found
  <2>5. CASE job \notin ScansOf(jobs, x)
    <3>1. ScansOf(jobs, x)' = ScansOf(jobs, x)
      BY <2>1, <2>2, <2>5 DEF Replace, ScansOf, KeyOf
    <3> QED BY <1>2, <1>3, <2>1, <3>1, DiskStep
  <2>6. CASE job \in ScansOf(jobs, x)
    <3>1. job.paths = {x} BY <1>3, <2>1, <2>6 DEF DiskSettled, SeesDisk
    <3>2. SeesDisk(next, x) BY <2>2, <2>4, <3>1 DEF SeesDisk
    <3>3. ScansOf(jobs, x)' = (ScansOf(jobs, x) \ {job}) \union {next}
      BY <2>1, <2>2, <2>6 DEF Replace, ScansOf, KeyOf
    <3> QED BY <1>2, <1>3, <3>2, <3>3, DiskStep
  <2> QED BY <2>5, <2>6
<1>6. CASE ScanThrows(job) \/ \E found \in SUBSET job.found, reliable \in BOOLEAN :
                                ScanResult(job, found, reliable)
  <2>1. jobs' = jobs \ {job} BY <1>6 DEF ScanThrows, ScanResult
  <2>2. CASE job \notin ScansOf(jobs, x)
    <3>1. x \notin Concerned(job) BY <1>3, <2>2, SingleScanIs
    <3>2. (x \in shown' <=> x \in shown) /\ (x \in excused' <=> x \in excused)
      BY <1>6, <3>1, ResultElsewhere DEF ScanThrows
    <3>3. ScansOf(jobs, x)' = ScansOf(jobs, x) BY <2>1, <2>2 DEF ScansOf
    <3> QED BY <1>2, <1>3, <3>2, <3>3, DiskStep
  <2>3. CASE job \in ScansOf(jobs, x)
    <3>1. ScansOf(jobs, x)' \subseteq ScansOf(jobs, x) BY <2>1 DEF ScansOf
    <3>2. SeesDisk(job, x) /\ job.phase # "queued"
      BY <1>3, <1>6, <2>3 DEF DiskSettled, ScanThrows, ScanResult
    <3>3. job.paths = {x} BY <3>2 DEF SeesDisk
    <3>4. x \in Concerned(job) /\ job.files # {} BY <1>3, <2>3, <3>3, SingleScanIs
    <3>5. CASE ScanThrows(job)
      <4>1. x \in excused' BY <3>4, <3>5 DEF ScanThrows
      <4> QED BY <1>2, <1>3, <3>1, <4>1, DiskStep
    <3>6. ASSUME NEW found \in SUBSET job.found, NEW reliable \in BOOLEAN,
                 ScanResult(job, found, reliable)
          PROVE  DiskSettled(x)'
      <4>1. x \in excused' \/ (x \in shown' <=> x \in job.found) BY <3>4, <3>6, ResultHere
      <4>2. job.phase = "read" BY <3>6 DEF ScanResult
      <4>3. configTimer \/ (x \in job.found <=> Reported(disk[x])) BY <3>2, <4>2 DEF SeesDisk
      <4> QED BY <1>2, <1>3, <3>1, <4>1, <4>3, DiskStep
    <3> QED BY <1>6, <3>5, <3>6
  <2> QED BY <2>2, <2>3
<1> QED BY <1>4, <1>5, <1>6

LEMMA NextClosed ==
  ASSUME Shape, FilesStay, ScansAreSingle, AllSingle(jobs), ClosedSettled, [Next]_vars
  PROVE  ClosedSettled'
<1>1. CASE UNCHANGED vars
  <2>1. UNCHANGED <<disk, buffer, ruleOn, graph, notices, configTimer, initialTimer, jobs, shown,
                    excused, disposed>>
    BY <1>1 DEF vars
  <2> QED BY <2>1 DEF ClosedSettled, Waits, IsOpen, DiskSettled, ScansOf, SeesDisk, Reported
<1>2. CASE FileSystem BY <1>2, FileSystemClosed
<1>3. CASE Scans BY <1>3, ScansClosed DEF Scans
<1>4. CASE Events
  <2>1. CASE Shutdown BY <2>1 DEF Shutdown, ClosedSettled
  <2>2. ~ScanWorkspace BY DEF ScanWorkspace, ScansAreSingle
  <2>3. CASE ConfigTimerFires \/ Restart
    BY <1>4, <2>3, WorkspaceClosed DEF Events, ConfigTimerFires, Restart
  <2>4. ASSUME NEW x \in File,
               \/ DidOpen(x) \/ DidSave(x) \/ DidClose(x) \/ ScanFile(x)
               \/ DidChangeWatchedFile(x)
               \/ \E text \in Text : DidChangeContent(x, text)
        PROVE  ClosedSettled'
    BY <1>4, <2>4, EventClosed DEF Events
  <2>5. CASE InitialScan \/ \E p \in Project : RemoveFolder(p) \/ AddFolder(p)
    BY <1>4, <2>5, WorkspaceClosed DEF Events
  <2> QED BY <1>4, <2>1, <2>2, <2>3, <2>4, <2>5 DEF Events
<1> QED BY <1>1, <1>2, <1>3, <1>4 DEF Next

(* Once nothing is on its way a closed file shows the diagnostics of what  *)
(* is on disk, provided every scan is of one file.                         *)
THEOREM FresherStays ==
  ASSUME ScansAreSingle PROVE Spec => []FresherResultStays
<1>1. Init => FilesStay BY DEF Init, FilesStay
<1>2. Init => AllSingle(jobs) BY DEF Init, AllSingle
<1>3. Init => ClosedSettled BY DEF Init, ClosedSettled
<1>4. Shape /\ FilesStay /\ [Next]_vars => FilesStay' BY NextStay
<1>5. Shape /\ FilesStay /\ AllSingle(jobs) /\ [Next]_vars => AllSingle(jobs)' BY NextSingle
<1>6. Shape /\ FilesStay /\ AllSingle(jobs) /\ ClosedSettled /\ [Next]_vars => ClosedSettled'
  BY NextClosed
<1>7. ClosedSettled => FresherResultStays
  BY DEF ClosedSettled, FresherResultStays, Quiet, Waits, InGraph, OpenFiles, DiskSettled, ScansOf
<1> QED BY ShapeInvariant, <1>1, <1>2, <1>3, <1>4, <1>5, <1>6, <1>7, PTL DEF Spec

-----------------------------------------------------------------------------
(* Known projects, when a chunk is one file and no project stops to        *)
(* qualify.                                                                *)

(* Scans of known projects, each of one file or of a whole project; one in *)
(* the background is not of an open file, since opening it replaced it.    *)
KnownJob(j, known, open) ==
  /\ j.project \in known
  /\ j.files = {} \/ \E x \in File : j.files = {x}
  /\ j.priority = "background" => \A x \in open : j.files # {x}

KnownJobs(js, known, open) == \A j \in js : KnownJob(j, known, open)

AllKnown ==
  /\ react = Project /\ graph = roots
  /\ KnownJobs(jobs, graph, OpenFiles)
  /\ ShownIsTracked
  /\ shown \subseteq InGraph

(* The hypotheses, under which neither of the next two theorems fails.     *)
ProjectsStay == ChunkSize = 1 /\ MayLeave = {}

LEMMA FileScanKnown ==
  ASSUME NEW js, NEW known, NEW open, NEW x \in File, NEW priority,
         KnownJobs(js, known, open), priority = "background" => x \notin open
  PROVE  KnownJobs(Enqueued(js, FileScan(known, x, priority)), known, open)
<1>1. ASSUME NEW j \in FileScan(known, x, priority) PROVE KnownJob(j, known, open)
  <2>1. j = NewJob(Owner[x], {x}, priority) /\ Owner[x] \in known BY FileScanIs
  <2>2. j.project = Owner[x] /\ j.files = {x} /\ j.priority = priority BY <2>1, NewJobFields
  <2> QED BY <2>1, <2>2 DEF KnownJob
<1> QED BY <1>1 DEF KnownJobs, Enqueued

LEMMA FileScansKnown ==
  ASSUME NEW js, NEW known, NEW open, NEW xs \in SUBSET File,
         KnownJobs(js, known, open)
  PROVE  KnownJobs(Enqueued(js, FileScans(known, xs, "interactive")), known, open)
<1>1. ASSUME NEW j \in FileScans(known, xs, "interactive") PROVE KnownJob(j, known, open)
  <2>1. PICK x \in xs : j = NewJob(Owner[x], {x}, "interactive") /\ Owner[x] \in known
    BY FileScansAre
  <2>2. j.project = Owner[x] /\ j.files = {x} /\ j.priority = "interactive"
    BY <2>1, NewJobFields
  <2> QED BY <2>1, <2>2 DEF KnownJob
<1> QED BY <1>1 DEF KnownJobs, Enqueued

LEMMA WorkspaceLintKnown ==
  ASSUME Shape, ProjectsStay, NEW before, NEW known \in SUBSET Project, NEW gone,
         WorkspaceLint(before, known, gone), KnownJobs(before, known, OpenFiles)
  PROVE  KnownJobs(jobs', known, OpenFiles)
<1>1. PICK new : /\ jobs' = Enqueued(before, new)
                 /\ FreshJobs(new, "background")
                 /\ ChunkJobs(new, known)
  BY WorkspaceLintJobs
<1>2. ASSUME NEW j \in new PROVE KnownJob(j, known, OpenFiles)
  <2>1. j.project \in known BY <1>1 DEF ChunkJobs
  <2>2. CASE j.files = {} BY <2>1, <2>2 DEF KnownJob
  <2>3. CASE j.files # {}
    <3>1. j.files \subseteq Enumerated(j.project) \ OpenFiles /\ Cardinality(j.files) <= 1
      BY <1>1, <2>3 DEF ChunkJobs, ProjectsStay
    <3>2. j.files \in SUBSET File BY <3>1 DEF Enumerated, FilesOf
    <3>3. \E x \in File : j.files = {x} BY <2>3, <3>1, <3>2, SingletonOf
    <3> QED BY <2>1, <3>1, <3>3 DEF KnownJob
  <2> QED BY <2>2, <2>3
<1> QED BY <1>1, <1>2 DEF KnownJobs, Enqueued

(* clearProject: nothing stays shown of a project that is gone.            *)
LEMMA WorkspaceLintGone ==
  ASSUME NEW before, NEW known, NEW gone, WorkspaceLint(before, known, gone),
         ShownIsTracked, NEW x \in shown, Owner[x] \in (gone \intersect Project) \ known
  PROVE  x \notin shown'
<1> DEFINE dropped == [p \in Project |-> IF p \in known THEN Departed(p)
                                         ELSE IF p \in gone THEN tracked[p] ELSE {}]
<1>1. shown' = shown \ UNION {dropped[p] : p \in Project} BY DEF WorkspaceLint
<1>2. x \in dropped[Owner[x]] BY DEF ShownIsTracked
<1> QED BY <1>1, <1>2

LEMMA DocumentKnown ==
  ASSUME Shape, AllKnown, ~disposed, NEW y \in File,
         \/ DidOpen(y) \/ DidSave(y) \/ DidClose(y) \/ ScanFile(y)
         \/ DidChangeWatchedFile(y)
         \/ \E text \in Text : DidChangeContent(y, text)
  PROVE  AllKnown'
<1>1. UNCHANGED <<react, roots, graph>>
  BY DEF DidOpen, DidSave, DidClose, ScanFile, DidChangeWatchedFile, DidChangeContent,
     worldVars, graphVars
<1>2. KnownJobs(jobs', graph, OpenFiles')
  <2>1. ASSUME NEW priority, jobs' = Enqueued(jobs, FileScan(graph, y, priority)),
               KnownJobs(jobs, graph, OpenFiles'), priority = "background" => y \notin OpenFiles'
        PROVE  KnownJobs(jobs', graph, OpenFiles')
    <3>1. KnownJobs(Enqueued(jobs, FileScan(graph, y, priority)), graph, OpenFiles')
      BY <2>1, FileScanKnown
    <3> QED BY <2>1, <3>1
  <2>2. CASE OpenFiles' \subseteq OpenFiles
    <3>1. KnownJobs(jobs, graph, OpenFiles')
      BY <2>2 DEF AllKnown, KnownJobs, KnownJob
    <3>2. \/ jobs' = jobs
          \/ \E priority : /\ jobs' = Enqueued(jobs, FileScan(graph, y, priority))
                           /\ priority = "background" => y \notin OpenFiles'
      BY DEF DidOpen, DidSave, DidClose, ScanFile, DidChangeWatchedFile, DidChangeContent,
         OpenFiles, IsOpen, Shape, TypeOK
    <3> QED BY <2>1, <3>1, <3>2
  <2>3. CASE DidOpen(y)
    <3>1. OpenFiles' \subseteq OpenFiles \union {y}
      BY <2>3 DEF DidOpen, OpenFiles, IsOpen, Shape, TypeOK
    <3> DEFINE new == FileScan(graph, y, "interactive")
    <3>2. jobs' = {j \in jobs : \A n \in new : KeyOf(n) # KeyOf(j)} \union new
      BY <2>3 DEF DidOpen, Enqueued
    <3>3. ASSUME NEW j \in new PROVE KnownJob(j, graph, OpenFiles')
      <4>1. j = NewJob(Owner[y], {y}, "interactive") /\ Owner[y] \in graph BY FileScanIs
      <4>2. j.project = Owner[y] /\ j.files = {y} /\ j.priority = "interactive"
        BY <4>1, NewJobFields
      <4> QED BY <4>1, <4>2 DEF KnownJob
    <3>4. ASSUME NEW j \in jobs, \A n \in new : KeyOf(n) # KeyOf(j)
          PROVE  KnownJob(j, graph, OpenFiles')
      <4>1. KnownJob(j, graph, OpenFiles) /\ JobShape(j)
        BY JobTyped DEF AllKnown, KnownJobs
      <4>2. ASSUME j.files = {y} PROVE FALSE
        <5>1. Owner[y] = j.project BY <4>1, <4>2 DEF JobShape, FilesOf
        <5>2. Owner[y] \in graph BY <4>1, <5>1 DEF KnownJob
        <5>3. NewJob(Owner[y], {y}, "interactive") \in new BY <5>2, FileScanIs
        <5>4. KeyOf(NewJob(Owner[y], {y}, "interactive")) = <<Owner[y], {y}>> BY NewJobFields
        <5> QED BY <3>4, <4>2, <5>1, <5>3, <5>4 DEF KeyOf
      <4> QED BY <3>1, <4>1, <4>2 DEF KnownJob
    <3> HIDE DEF new
    <3> QED BY <3>2, <3>3, <3>4 DEF KnownJobs
  <2>4. DidOpen(y) \/ OpenFiles' \subseteq OpenFiles
    BY DEF DidSave, DidClose, ScanFile, DidChangeWatchedFile, DidChangeContent,
       OpenFiles, IsOpen, Shape, TypeOK
  <2> QED BY <2>2, <2>3, <2>4
<1>3. ShownIsTracked' /\ shown' \subseteq shown
  <2>1. CASE UNCHANGED <<shown, tracked>> BY <2>1 DEF AllKnown, ShownIsTracked
  <2>2. CASE /\ shown' = shown \ {y}
             /\ tracked' = [p \in Project |-> tracked[p] \ {y}]
    BY <2>2, OwnerAssumption DEF AllKnown, ShownIsTracked, Shape, TypeOK
  <2> QED BY <2>1, <2>2 DEF DidOpen, DidSave, DidClose, ScanFile, DidChangeWatchedFile,
       DidChangeContent, publishedVars
<1> QED BY <1>1, <1>2, <1>3 DEF AllKnown, InGraph, KnownJobs

LEMMA WorkspaceKnown ==
  ASSUME Shape, AllKnown, ProjectsStay, NEW before, NEW gone \in SUBSET Project,
         WorkspaceLint(before, graph', gone), KnownJobs(before, graph', OpenFiles),
         graph' \in SUBSET Project, react' = Project, graph' = roots', UNCHANGED buffer,
         graph \subseteq graph' \union gone
  PROVE  AllKnown'
<1>1. KnownJobs(jobs', graph', OpenFiles) BY WorkspaceLintKnown
<1>2. OpenFiles' = OpenFiles BY DEF OpenFiles, IsOpen
<1>3. ShownIsTracked' /\ shown' \subseteq shown
  BY WorkspaceLintShown DEF Shape, AllKnown
<1>4. shown' \subseteq InGraph'
  <2>1. ASSUME NEW x \in shown' PROVE x \in File /\ Owner[x] \in graph'
    <3>1. x \in shown /\ x \in File /\ Owner[x] \in graph
      BY <1>3 DEF AllKnown, InGraph
    <3>2. Owner[x] \in Project BY <3>1, OwnerAssumption
    <3> QED BY <3>1, <3>2, WorkspaceLintGone DEF AllKnown
  <2> QED BY <2>1 DEF InGraph
<1> QED BY <1>1, <1>2, <1>3, <1>4 DEF AllKnown, KnownJobs

LEMMA RescanKnown ==
  ASSUME Shape, AllKnown, ProjectsStay, ~disposed,
         \/ InitialScan \/ RescanFromScratch \/ ScanWorkspace
         \/ \E p \in Project : RemoveFolder(p) \/ AddFolder(p)
  PROVE  AllKnown'
<1>1. /\ UNCHANGED <<react, buffer>> /\ react = Project /\ graph = roots
      /\ graph' = roots' /\ roots' \in SUBSET Project /\ graph' \in SUBSET Project
  BY DEF InitialScan, RescanFromScratch, ScanWorkspace, RemoveFolder, AddFolder, worldVars,
     graphVars, AllKnown, Shape, TypeOK
<1>2. OpenFiles \in SUBSET File BY DEF OpenFiles
<1>3. CASE InitialScan
  <2>1. graph' = graph /\ WorkspaceLint(jobs, graph, {}) BY <1>3 DEF InitialScan, graphVars
  <2>2. KnownJobs(jobs, graph', OpenFiles) BY <2>1 DEF AllKnown
  <2>3. WorkspaceLint(jobs, graph', {}) /\ graph \subseteq graph' \union {}
    BY <2>1
  <2> QED BY <1>1, <2>2, <2>3, WorkspaceKnown
<1>4. \A known : KnownJobs(Cancelled(jobs, graph), known, OpenFiles)
  BY DEF AllKnown, KnownJobs, KnownJob, Cancelled
<1>5. CASE RescanFromScratch
  <2>1. WorkspaceLint(AfterReset(graph'), graph', {}) /\ graph' = graph
    BY <1>1, <1>5 DEF RescanFromScratch
  <2>2. KnownJobs(AfterReset(graph'), graph', OpenFiles)
    BY <1>2, <1>4, FileScansKnown DEF AfterReset
  <2>3. graph \subseteq graph' \union {} BY <2>1
  <2> QED BY <1>1, <2>1, <2>2, <2>3, WorkspaceKnown
<1>6. CASE ScanWorkspace
  <2> DEFINE audits == {NewJob(p, {}, "background") : p \in graph'}
  <2>1. ASSUME NEW j \in audits PROVE KnownJob(j, graph', OpenFiles)
    <3>1. PICK p \in graph' : j = NewJob(p, {}, "background") OBVIOUS
    <3>2. j.project = p /\ j.files = {} BY <3>1, NewJobFields
    <3> QED BY <3>2 DEF KnownJob
  <2> HIDE DEF audits
  <2>2. KnownJobs(Enqueued(Cancelled(jobs, graph), audits), graph', OpenFiles)
    BY <1>4, <2>1 DEF KnownJobs, Enqueued
  <2>3. KnownJobs(Enqueued(Enqueued(Cancelled(jobs, graph), audits),
                           FileScans(graph', OpenFiles, "interactive")), graph', OpenFiles)
    BY <1>2, <2>2, FileScansKnown
  <2>4. /\ graph' = graph /\ UNCHANGED <<shown, tracked>>
        /\ jobs' = Enqueued(Enqueued(Cancelled(jobs, graph), audits),
                            FileScans(graph', OpenFiles, "interactive"))
    BY <1>1, <1>6 DEF ScanWorkspace, publishedVars, audits
  <2>5. OpenFiles' = OpenFiles BY <1>1 DEF OpenFiles, IsOpen
  <2>6. KnownJobs(jobs', graph', OpenFiles') BY <2>3, <2>4, <2>5
  <2>7. ShownIsTracked' /\ shown' \subseteq InGraph'
    BY <2>4 DEF AllKnown, ShownIsTracked, InGraph
  <2> QED BY <1>1, <2>6, <2>7 DEF AllKnown, KnownJobs
<1>7. ASSUME NEW p \in Project, RemoveFolder(p) PROVE AllKnown'
  <2> DEFINE gone == graph \intersect {p}
             before == Enqueued(Cancelled(jobs, gone), FileScans(graph', OpenFiles, "interactive"))
  <2>1. /\ graph' = graph \ {p} /\ WorkspaceLint(before, graph', gone)
        /\ gone \in SUBSET Project
    BY <1>1, <1>7 DEF RemoveFolder
  <2>2. KnownJobs(Cancelled(jobs, gone), graph', OpenFiles)
    BY <2>1 DEF AllKnown, KnownJobs, KnownJob, Cancelled
  <2>3. KnownJobs(before, graph', OpenFiles) BY <1>2, <2>2, FileScansKnown
  <2>4. graph \subseteq graph' \union gone BY <2>1
  <2> HIDE DEF gone, before
  <2> QED BY <1>1, <2>1, <2>3, <2>4, WorkspaceKnown
<1>8. ASSUME NEW p \in Project, AddFolder(p) PROVE AllKnown'
  <2> DEFINE before == Enqueued(jobs, FileScans(graph', OpenFiles, "interactive"))
  <2>1. graph \subseteq graph' /\ WorkspaceLint(before, graph', {})
    BY <1>1, <1>8 DEF AddFolder
  <2>2. KnownJobs(jobs, graph', OpenFiles) BY <2>1 DEF AllKnown, KnownJobs, KnownJob
  <2>3. KnownJobs(before, graph', OpenFiles) BY <1>2, <2>2, FileScansKnown
  <2> HIDE DEF before
  <2>4. graph \subseteq graph' \union {} BY <2>1
  <2> QED BY <1>1, <2>1, <2>3, <2>4, WorkspaceKnown
<1> QED BY <1>3, <1>5, <1>6, <1>7, <1>8

(* A result tracks what it shows.                                          *)
LEMMA ResultTracked ==
  ASSUME Shape, AllKnown, NEW job \in jobs, NEW found \in SUBSET job.found,
         NEW reliable \in BOOLEAN, ApplyOutcome(job, found, reliable)
  PROVE  ShownIsTracked' /\ shown' \subseteq InGraph
<1> DEFINE directory == job.project
           live == {x \in found : ~IsProtected(job, x)}
           clean == {x \in job.paths \ found : ~IsProtected(job, x)}
           kept == live \union {x \in tracked[directory] : IsProtected(job, x)}
<1>1. /\ directory \in Project /\ tracked \in [Project -> SUBSET File]
      /\ live \subseteq FilesOf(directory) /\ directory \in graph
  BY JobTyped DEF JobShape, Shape, TypeOK, AllKnown, KnownJobs, KnownJob
<1>2. \/ /\ shown' = shown \union live
         /\ tracked' = [tracked EXCEPT ![directory] = @ \union live]
      \/ /\ shown' = (shown \union live) \ (tracked[directory] \ kept)
         /\ tracked' = [tracked EXCEPT ![directory] = kept]
      \/ /\ ~IsWholeProject(job)
         /\ shown' = (shown \union live) \ clean
         /\ tracked' = [tracked EXCEPT ![directory] = (@ \union live) \ (job.paths \ live)]
  BY DEF ApplyOutcome
<1>3. ASSUME NEW x \in job.paths, ~IsWholeProject(job) PROVE ~IsProtected(job, x)
  <2>1. JobShape(job) /\ KnownJob(job, graph, OpenFiles)
    BY JobTyped DEF AllKnown, KnownJobs
  <2>2. job.files = {x} BY <1>3, <2>1 DEF JobShape, KnownJob, IsWholeProject
  <2>3. x \in File BY JobTyped
  <2> QED BY <2>1, <2>2, <2>3 DEF KnownJob, IsProtected, OpenFiles
<1>4. ASSUME NEW x \in shown' PROVE x \in File /\ Owner[x] \in graph /\ x \in tracked'[Owner[x]]
  <2>1. CASE x \in live
    <3>1. x \in File /\ Owner[x] = directory BY <1>1, <2>1 DEF FilesOf
    <3>2. x \in tracked'[directory] BY <1>1, <1>2, <2>1
    <3> QED BY <1>1, <3>1, <3>2
  <2>2. CASE x \notin live
    <3>1. x \in shown BY <1>2, <1>4, <2>2
    <3>2. x \in File /\ Owner[x] \in graph /\ Owner[x] \in Project /\ x \in tracked[Owner[x]]
      BY <3>1, OwnerAssumption DEF AllKnown, InGraph, ShownIsTracked
    <3>3. CASE Owner[x] # directory BY <1>1, <1>2, <3>2, <3>3
    <3>4. CASE Owner[x] = directory
      <4>1. CASE x \in job.paths /\ ~IsWholeProject(job)
        <5>1. x \in clean \/ x \in found BY <1>3, <4>1
        <5>2. x \notin found BY <1>3, <2>2, <4>1
        <5> QED BY <1>1, <1>2, <1>4, <3>2, <3>4, <4>1, <5>1, <5>2
      <4>2. CASE ~(x \in job.paths /\ ~IsWholeProject(job))
        <5> HIDE DEF live, clean, kept, directory
        <5> QED BY <1>1, <1>2, <1>4, <2>2, <3>2, <3>4, <4>2
      <4> QED BY <4>1, <4>2
    <3> QED BY <3>3, <3>4
  <2> QED BY <2>1, <2>2
<1> QED BY <1>4 DEF ShownIsTracked, InGraph

LEMMA ScansKnown ==
  ASSUME Shape, AllKnown, NEW job \in jobs,
         \/ StartScan(job) \/ ReadDisk(job) \/ ScanThrows(job)
         \/ \E found \in SUBSET job.found, reliable \in BOOLEAN :
              ScanResult(job, found, reliable)
  PROVE  AllKnown'
<1>1. UNCHANGED <<react, roots, graph, buffer>>
  BY DEF StartScan, ReadDisk, ScanThrows, ScanResult, worldVars, graphVars
<1>2. OpenFiles' = OpenFiles /\ InGraph' = InGraph BY <1>1 DEF OpenFiles, IsOpen, InGraph
<1>3. KnownJobs(jobs', graph, OpenFiles)
  <2>1. ASSUME NEW next, KeyOf(next) = KeyOf(job), next.priority = job.priority,
               jobs' = Replace(job, next)
        PROVE  KnownJobs(jobs', graph, OpenFiles)
    BY <2>1 DEF AllKnown, KnownJobs, KnownJob, Replace, KeyOf
  <2>2. CASE jobs' = jobs \ {job} BY <2>2 DEF AllKnown, KnownJobs
  <2>3. CASE StartScan(job)
    <3>1. \/ jobs' = jobs \ {job}
          \/ \E phase \in {"read", "started"}, found \in SUBSET Requested(job) :
               jobs' = Replace(job, Started(job, phase, found))
      <4>1. {z \in Requested(job) : Reported(SnapshotText(z))} \in SUBSET Requested(job)
            /\ {} \in SUBSET Requested(job)
        OBVIOUS
      <4> QED BY <2>3, <4>1, StartScanIs
    <3>2. \A phase \in {"read", "started"}, found \in SUBSET Requested(job) :
            /\ KeyOf(Started(job, phase, found)) = KeyOf(job)
            /\ Started(job, phase, found).priority = job.priority
      BY StartedGood
    <3> QED BY <2>1, <2>2, <3>1, <3>2
  <2>4. CASE ReadDisk(job)
    <3> DEFINE found == {x \in (IF IsWholeProject(job) THEN FilesOf(job.project) ELSE job.paths) :
                           Reported(disk[x])}
    <3>1. jobs' = Replace(job, ReadOf(job, found)) BY <2>4, ReadDiskIs
    <3>2. /\ KeyOf(ReadOf(job, found)) = KeyOf(job)
          /\ ReadOf(job, found).priority = job.priority
      BY ReadGood
    <3> QED BY <2>1, <3>1, <3>2
  <2> QED BY <2>2, <2>3, <2>4 DEF ScanThrows, ScanResult
<1>4. ShownIsTracked' /\ shown' \subseteq InGraph
  <2>1. CASE UNCHANGED <<shown, tracked>> BY <2>1 DEF AllKnown, ShownIsTracked
  <2>2. ASSUME NEW found \in SUBSET job.found, NEW reliable \in BOOLEAN,
               ScanResult(job, found, reliable)
        PROVE  ShownIsTracked' /\ shown' \subseteq InGraph
    BY <2>2, ResultTracked DEF ScanResult
  <2> QED BY <2>1, <2>2 DEF StartScan, ReadDisk, ScanThrows, publishedVars
<1> QED BY <1>1, <1>2, <1>3, <1>4 DEF AllKnown, KnownJobs

LEMMA NextKnown ==
  ASSUME Shape, AllKnown, ProjectsStay, [Next]_vars PROVE AllKnown'
<1>1. CASE /\ UNCHANGED <<react, roots, graph, buffer, shown, tracked>>
           /\ jobs' \subseteq jobs
  BY <1>1 DEF AllKnown, KnownJobs, OpenFiles, IsOpen, ShownIsTracked, InGraph
<1>2. CASE UNCHANGED vars BY <1>1, <1>2 DEF vars
<1>3. CASE FileSystem
  <2>1. ASSUME NEW enabled \in BOOLEAN, NEW qualifying \in SUBSET Project,
               EditConfig(enabled, qualifying)
        PROVE  react' = react
    BY <2>1 DEF EditConfig, ProjectsStay, AllKnown
  <2>2. react' = react BY <1>3, <2>1 DEF FileSystem, WriteFile, DeleteFile, SaveFile
  <2> QED BY <1>1, <1>3, <2>2 DEF FileSystem, WriteFile, DeleteFile, SaveFile, EditConfig,
       graphVars, publishedVars
<1>4. CASE Scans BY <1>4, ScansKnown DEF Scans
<1>5. CASE Events
  <2>1. CASE Shutdown
    BY <1>1, <2>1 DEF Shutdown, worldVars, graphVars, publishedVars
  <2>2. ASSUME NEW x \in File,
               \/ DidOpen(x) \/ DidSave(x) \/ DidClose(x) \/ ScanFile(x)
               \/ DidChangeWatchedFile(x)
               \/ \E text \in Text : DidChangeContent(x, text)
        PROVE  AllKnown'
    BY <1>5, <2>2, DocumentKnown DEF Events
  <2>3. CASE \/ InitialScan \/ RescanFromScratch \/ ScanWorkspace
             \/ \E p \in Project : RemoveFolder(p) \/ AddFolder(p)
    BY <1>5, <2>3, RescanKnown DEF Events
  <2> QED BY <1>5, <2>1, <2>2, <2>3 DEF Events, ConfigTimerFires, Restart
<1> QED BY <1>2, <1>3, <1>4, <1>5 DEF Next

(* Scans and what is shown are of known projects, when no project stops to  *)
(* qualify.                                                                 *)
THEOREM KnownInvariant == ASSUME ProjectsStay PROVE Spec => []AllKnown
<1>1. ASSUME Init PROVE AllKnown
  BY <1>1 DEF Init, AllKnown, KnownJobs, ShownIsTracked
<1>2. Shape /\ AllKnown /\ [Next]_vars => AllKnown' BY NextKnown
<1> QED BY ShapeInvariant, <1>1, <1>2, PTL DEF Spec

(* Every file shown is tracked by its project, provided chunks are of one  *)
(* file: a background result then never meets an open file, and no project *)
(* stops to qualify.                                                       *)
THEOREM TrackedAsShown == ASSUME ProjectsStay PROVE Spec => []ShownIsTracked
<1>1. AllKnown => ShownIsTracked BY DEF AllKnown
<1> QED BY KnownInvariant, <1>1, PTL

(* Only files of known projects are shown, under the same hypotheses.      *)
THEOREM KnownOnly == ASSUME ProjectsStay PROVE Spec => []OnlyKnownProjectsShown
<1>1. AllKnown => OnlyKnownProjectsShown BY DEF AllKnown, OnlyKnownProjectsShown
<1> QED BY KnownInvariant, <1>1, PTL
=============================================================================
