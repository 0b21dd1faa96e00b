------------------------------ MODULE LintCache ------------------------------
(***************************************************************************)
(* The language server's lint results, kept by content for one project     *)
(* (language-server/src/core/lint-cache.ts and scan-runner.ts): a cache    *)
(* object made for the configuration it found, filled by scans that        *)
(* overlap with edits, written late to a file that outlives the server,    *)
(* and dropped, while its timer may still be running, when the server      *)
(* learns that the configuration changed.                                  *)
(*                                                                         *)
(* A fingerprint stands for the configuration it was computed from, a hash *)
(* for the content, and the diagnostics of a file for the content and the  *)
(* configuration oxlint read.  Scans of the whole project, of unsaved      *)
(* buffers and for dead code use no cache and are left out.                *)
(***************************************************************************)
EXTENDS Naturals, FiniteSets

CONSTANTS File, Content, Config,
          Texts,     \* the contents a file may have, Gone among them or not
          Gone,      \* the content of a file that is not there
          None,
          Scan,      \* slots for scans under way
          Cache,     \* cache objects alive at a time
          MaxEdits   \* bound on the edits of files and of the configuration

ASSUME LintCacheAssumption == /\ Gone \notin Content /\ None \notin Content \cup Config \cup Cache
                              /\ Texts \in [File -> SUBSET (Content \cup {Gone})]
                              /\ MaxEdits \in Nat

VARIABLES content, config, edits,
          pending,   \* a change of the configuration is still to be noticed
          server,    \* "up", "disposed" or "down"
          current,   \* the project's cache object
          cache,     \* what each object holds
          disk,      \* the file
          scan,      \* the scans under way
          outcome    \* what the last step delivered

vars == <<content, config, edits, pending, server, current, cache, disk, scan, outcome>>
project == <<content, config, edits, pending>>

(* An entry: the hash, what oxlint read, and, for the properties only,     *)
(* whether the scan that stored it went undisturbed.                       *)
NoEntries == [f \in File |-> None]
NoCache == [fingerprint |-> None, entries |-> NoEntries, dirty |-> FALSE, timer |-> FALSE]
NoFile == [fingerprint |-> None, entries |-> NoEntries]

Init ==
  /\ content \in [File -> Content] /\ (\A f \in File : content[f] \in Texts[f])
  /\ config \in Config /\ edits = 0 /\ pending = FALSE
  /\ server = "up" /\ current = None /\ cache = [c \in Cache |-> NoCache]
  /\ disk = NoFile /\ scan = [s \in Scan |-> None] /\ outcome = None

-----------------------------------------------------------------------------
Active == {s \in Scan : scan[s] # None}

Disturbed(who) ==
  [s \in Scan |-> IF s \in who THEN [scan[s] EXCEPT !.calm = FALSE] ELSE scan[s]]

EditFile(f) ==
  /\ edits < MaxEdits /\ edits' = edits + 1
  /\ \E c \in Texts[f] \ {content[f]} : content' = [content EXCEPT ![f] = c]
  /\ scan' = Disturbed({s \in Active : f \in scan[s].files})
  /\ outcome' = None
  /\ UNCHANGED <<config, pending, server, current, cache, disk>>

(* The watcher tells the server later, if it is up.                        *)
EditConfig ==
  /\ edits < MaxEdits /\ edits' = edits + 1
  /\ config' \in Config \ {config}
  /\ pending' = (server = "up")
  /\ scan' = Disturbed(Active)
  /\ outcome' = None
  /\ UNCHANGED <<content, server, current, cache, disk>>

-----------------------------------------------------------------------------
(* An object is held as the project's, by a timer or by a scan.            *)
Held(objects, now, scans) ==
  [c \in Cache |-> IF \/ c = now \/ objects[c].timer
                      \/ \E s \in Scan : scans[s] # None /\ scans[s].cache = c
                   THEN objects[c] ELSE NoCache]

Cancelled_Kept == scan
Cancelled == [s \in Scan |-> IF scan[s] = None THEN None
                             ELSE [scan[s] EXCEPT !.cancelled = TRUE]]

(* A change of the configuration, a restart or a new audit: all scans are  *)
(* cancelled and the object is dropped, its timer left running.            *)
Reset ==
  /\ server = "up"
  /\ scan' = Cancelled /\ current' = None /\ pending' = FALSE
  /\ cache' = Held(cache, None, scan)
  /\ outcome' = None
  /\ UNCHANGED <<content, config, edits, server, disk>>

(* Other workspace folders come or go: only the object is dropped.         *)
FoldersChange ==
  /\ server = "up" /\ current # None
  /\ current' = None /\ cache' = Held(cache, None, scan)
  /\ outcome' = None
  /\ UNCHANGED <<project, server, disk, scan>>

-----------------------------------------------------------------------------
Loaded_Any == disk.entries
Loaded == IF disk.fingerprint = config THEN disk.entries ELSE NoEntries

(* What is delivered matters here only if it has hits.                     *)
Delivered(served, fingerprint) ==
  IF served = NoEntries THEN None ELSE [served |-> served, fingerprint |-> fingerprint]

(* The project's object, or one loaded for the configuration as it is.     *)
Opened(c) ==
  IF current # None THEN cache[c]
  ELSE [fingerprint |-> config, entries |-> Loaded, dirty |-> FALSE, timer |-> FALSE]

Hits(entries, files) ==
  {f \in files : content[f] # Gone /\ entries[f] # None /\ entries[f].hash = content[f]}

HitsOf(entries, files) ==
  [f \in File |-> IF f \in Hits(entries, files) THEN entries[f] ELSE None]

Started(c, object, files) ==
  [cache |-> c, files |-> files \ Hits(object.entries, files),
   served |-> HitsOf(object.entries, files),
   hash |-> content, under |-> None, read |-> None,
   cancelled |-> FALSE, calm |-> object.fingerprint = config]

(* The hashes are taken and looked up at once; without a miss that is the  *)
(* outcome.                                                                *)
StartScan(s, files) ==
  /\ server = "up" /\ scan[s] = None /\ files # {}
  /\ \E c \in Cache :
       /\ IF current = None THEN cache[c] = NoCache ELSE c = current
       /\ current' = c
       /\ cache' = [cache EXCEPT ![c] = Opened(c)]
       /\ IF Hits(Opened(c).entries, files) = files
          THEN /\ outcome' = Delivered(HitsOf(Opened(c).entries, files), Opened(c).fingerprint)
               /\ UNCHANGED scan
          ELSE /\ scan' = [scan EXCEPT ![s] = Started(c, Opened(c), files)]
               /\ outcome' = None
  /\ UNCHANGED <<project, server, disk>>

ReadConfig(s) ==
  /\ scan[s] # None /\ scan[s].under = None
  /\ scan' = [scan EXCEPT ![s].under = config]
  /\ outcome' = None
  /\ UNCHANGED <<project, server, current, cache, disk>>

(* oxlint reads the files: at one moment, as no file's entry is compared   *)
(* with another's.                                                         *)
ReadFiles(s) ==
  /\ scan[s] # None /\ scan[s].under # None /\ scan[s].read = None
  /\ scan' = [scan EXCEPT ![s].read = content]
  /\ outcome' = None
  /\ UNCHANGED <<project, server, current, cache, disk>>

(* Only when no file failed.                                               *)
Storable(ok) == ok

Entry(x, f) == [hash |-> x.hash[f], content |-> IF x.read = None THEN None ELSE x.read[f],
                config |-> x.under, calm |-> x.calm]

Stored(x) ==
  LET new == {f \in x.files : x.hash[f] # Gone} IN
  IF new = {} THEN cache[x.cache]
  ELSE [fingerprint |-> cache[x.cache].fingerprint, dirty |-> TRUE, timer |-> TRUE,
        entries |-> [f \in File |-> IF f \in new THEN Entry(x, f) ELSE cache[x.cache].entries[f]]]

(* The scan ends, with every file linted or with a failure; cancelled, it  *)
(* leaves nothing.                                                         *)
EndScan(s, ok) ==
  /\ scan[s] # None /\ scan[s].under # None /\ (ok => scan[s].read # None)
  /\ scan' = [scan EXCEPT ![s] = None]
  /\ LET x == scan[s] IN
     /\ cache' = Held(IF ~x.cancelled /\ Storable(ok) THEN [cache EXCEPT ![x.cache] = Stored(x)]
                      ELSE cache,
                      current, scan')
     /\ outcome' = IF x.cancelled THEN None
                   ELSE Delivered(x.served, cache[x.cache].fingerprint)
  /\ UNCHANGED <<project, server, current, disk>>

-----------------------------------------------------------------------------
(* The file is replaced, or writing fails.                                 *)
Write(c) ==
  disk' \in {disk} \cup (IF cache[c].dirty
                        THEN {[fingerprint |-> cache[c].fingerprint, entries |-> cache[c].entries]}
                        ELSE {})

(* The timer of an object, dropped or not, runs out.                       *)
Persist(c) ==
  /\ server # "down" /\ cache[c].timer
  /\ cache' = Held([cache EXCEPT ![c].timer = FALSE, ![c].dirty = FALSE], current, scan)
  /\ Write(c)
  /\ outcome' = None
  /\ UNCHANGED <<project, server, current, scan>>

(* At shutdown the project's object is written at once.                    *)
Dispose ==
  /\ server = "up" /\ server' = "disposed"
  /\ IF current = None THEN UNCHANGED <<cache, disk>>
     ELSE /\ Write(current)
          /\ cache' = Held([cache EXCEPT ![current].timer = FALSE, ![current].dirty = FALSE],
                           None, scan)
  /\ current' = None /\ scan' = Cancelled /\ outcome' = None
  /\ UNCHANGED project

(* The process ends, or dies.                                              *)
Exit ==
  /\ server # "down" /\ server' = "down"
  /\ pending' = FALSE /\ current' = None /\ cache' = [c \in Cache |-> NoCache]
  /\ scan' = [s \in Scan |-> None] /\ outcome' = None
  /\ UNCHANGED <<content, config, edits, disk>>

Open ==
  /\ server = "down" /\ server' = "up" /\ outcome' = None
  /\ UNCHANGED <<project, current, cache, disk, scan>>

Next ==
  \/ \E f \in File : EditFile(f)
  \/ EditConfig \/ Reset \/ FoldersChange
  \/ \E s \in Scan : \/ \E files \in SUBSET File : StartScan(s, files)
                     \/ ReadConfig(s) \/ ReadFiles(s)
                     \/ (\E ok \in BOOLEAN : EndScan(s, ok))
  \/ \E c \in Cache : Persist(c)
  \/ Dispose \/ Exit \/ Open

Spec == Init /\ [][Next]_vars

-----------------------------------------------------------------------------
Entries == [hash : Content, content : Content \cup {Gone, None}, config : Config, calm : BOOLEAN]
Kept == [File -> Entries \cup {None}]
Tree == [File -> Content \cup {Gone}]
Scans == [cache : Cache, files : SUBSET File, served : Kept, hash : Tree,
          under : Config \cup {None}, read : Tree \cup {None},
          cancelled : BOOLEAN, calm : BOOLEAN]

TypeOK ==
  /\ content \in Tree /\ config \in Config /\ edits \in 0 .. MaxEdits
  /\ pending \in BOOLEAN /\ server \in {"up", "disposed", "down"} /\ current \in Cache \cup {None}
  /\ cache \in [Cache -> [fingerprint : Config \cup {None}, entries : Kept,
                          dirty : BOOLEAN, timer : BOOLEAN]]
  /\ disk \in [fingerprint : Config \cup {None}, entries : Kept]
  /\ scan \in [Scan -> Scans \cup {None}]
  /\ outcome \in [served : Kept, fingerprint : Config \cup {None}] \cup {None}

Served == {outcome.served[f] : f \in {x \in File : outcome.served[x] # None}}

Right(e) == e.content = e.hash /\ e.config = outcome.fingerprint

(* A hit shows what oxlint says of this content under the configuration of *)
(* the cache, if neither the file nor the configuration was touched while  *)
(* the scan ran that stored it: whatever came from an earlier server,      *)
(* from an object dropped since, or was written late.                      *)
CalmHitsAreRight == outcome # None => \A e \in Served : e.calm => Right(e)

(* Once the server has noticed a change of the configuration, no result    *)
(* from before it is delivered, not even by a scan that was under way.     *)
NoStaleHits == outcome # None /\ Served # {} => pending \/ outcome.fingerprint = config

(* A file that was not linted is not recorded as if it had been.           *)
HitsAreRight == outcome # None => \A e \in Served : Right(e)
=============================================================================
