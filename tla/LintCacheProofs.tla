--------------------------- MODULE LintCacheProofs ---------------------------
(***************************************************************************)
(* What the language server's lint cache shows is right, for any number of *)
(* files, contents, configurations, scans and cache objects.  The          *)
(* invariant: whatever a scan that ran undisturbed has stored, in any      *)
(* object, in the file or in what a scan under way was served, was linted  *)
(* under the configuration whose fingerprint it lies under.                *)
(***************************************************************************)
EXTENDS LintCache, TLAPS

USE LintCacheAssumption

LEMMA HeldObjects ==
  ASSUME NEW objects, NEW now, NEW scans, NEW c \in Cache
  PROVE  /\ Held(objects, now, scans)[c] \in {objects[c], NoCache}
         /\ c = now => Held(objects, now, scans)[c] = objects[c]
         /\ \A s \in Scan : scans[s] # None /\ scans[s].cache = c
                              => Held(objects, now, scans)[c] = objects[c]
BY DEF Held

Objects == [fingerprint : Config \cup {None}, entries : Kept, dirty : BOOLEAN, timer : BOOLEAN]

LEMMA EmptyTypes == NoEntries \in Kept /\ NoCache \in Objects
                    /\ NoFile \in [fingerprint : Config \cup {None}, entries : Kept]
BY DEF NoEntries, NoCache, NoFile, Kept, Objects

LEMMA HeldType ==
  ASSUME NEW objects \in [Cache -> Objects], NEW now, NEW scans
  PROVE  Held(objects, now, scans) \in [Cache -> Objects]
BY EmptyTypes DEF Held

LEMMA OpenedType ==
  ASSUME TypeOK, NEW c \in Cache, current # None => c = current
  PROVE  Opened(c) \in Objects /\ Opened(c).fingerprint = (IF current = None THEN config
                                                            ELSE cache[c].fingerprint)
<1>1. Loaded \in Kept
  BY EmptyTypes DEF Loaded, TypeOK
<1> QED BY <1>1 DEF Opened, Objects, TypeOK

LEMMA HitsType ==
  ASSUME NEW entries \in Kept, NEW files
  PROVE  HitsOf(entries, files) \in Kept
BY DEF HitsOf, Kept

LEMMA InitType == ASSUME Init PROVE TypeOK
<1>1. cache \in [Cache -> Objects] /\ disk \in [fingerprint : Config \cup {None}, entries : Kept]
  BY EmptyTypes DEF Init
<1>2. content \in Tree /\ scan \in [Scan -> Scans \cup {None}] /\ edits \in 0 .. MaxEdits
  BY DEF Init, Tree
<1> QED BY <1>1, <1>2 DEF Init, TypeOK, Objects

LEMMA StoredType ==
  ASSUME TypeOK, NEW x \in Scans, x.under # None, x.read # None,
         cache[x.cache] \in Objects
  PROVE  Stored(x) \in Objects
<1>1. ASSUME NEW f \in x.files, x.hash[f] # Gone
      PROVE  Entry(x, f) \in Entries
  <2>1. f \in File /\ x.hash[f] \in Content /\ x.read[f] \in Content \cup {Gone}
        /\ x.under \in Config /\ x.calm \in BOOLEAN
    BY <1>1 DEF Scans, Tree
  <2> QED BY <2>1 DEF Entry, Entries
<1>2. [f \in File |-> IF f \in {g \in x.files : x.hash[g] # Gone} THEN Entry(x, f)
                     ELSE cache[x.cache].entries[f]] \in Kept
  BY <1>1 DEF Kept, Objects
<1> QED BY <1>2 DEF Stored, Objects

LEMMA WrittenType ==
  ASSUME NEW objects \in [Cache -> Objects], NEW c
  PROVE  [objects EXCEPT ![c].timer = FALSE, ![c].dirty = FALSE] \in [Cache -> Objects]
<1>1. ASSUME NEW x \in Cache
      PROVE  [objects EXCEPT ![c].timer = FALSE, ![c].dirty = FALSE][x] \in Objects
  <2>1. objects[x] \in Objects
    OBVIOUS
  <2>2. CASE x = c
    <3>1. [objects EXCEPT ![c].timer = FALSE, ![c].dirty = FALSE][x]
            = [[objects[x] EXCEPT !.timer = FALSE] EXCEPT !.dirty = FALSE]
      BY <2>2
    <3> QED BY <2>1, <3>1 DEF Objects
  <2>3. CASE x # c
    BY <2>1, <2>3
  <2> QED BY <2>2, <2>3
<1> QED BY <1>1

LEMMA CancelledType == ASSUME TypeOK PROVE Cancelled \in [Scan -> Scans \cup {None}]
<1>1. ASSUME NEW s \in Scan, scan[s] # None
      PROVE  [scan[s] EXCEPT !.cancelled = TRUE] \in Scans
  <2>1. scan[s] \in Scans
    BY <1>1 DEF TypeOK
  <2> QED BY <2>1 DEF Scans
<1> QED BY <1>1 DEF Cancelled

LEMMA DisturbedType ==
  ASSUME TypeOK, NEW who \in SUBSET Active
  PROVE  Disturbed(who) \in [Scan -> Scans \cup {None}]
<1>1. ASSUME NEW s \in who
      PROVE  [scan[s] EXCEPT !.calm = FALSE] \in Scans
  <2>1. scan[s] \in Scans
    BY DEF TypeOK, Active
  <2> QED BY <2>1 DEF Scans
<1> QED BY <1>1 DEF Disturbed, TypeOK

LEMMA StepType == ASSUME TypeOK, [Next]_vars PROVE TypeOK'
<1> USE DEF TypeOK
<1>0. cache \in [Cache -> Objects]
  BY DEF Objects
<1>1. ASSUME NEW f \in File, EditFile(f)
      PROVE  TypeOK'
  <2>1. content' \in Tree
    BY <1>1 DEF EditFile, Tree
  <2>2. scan' \in [Scan -> Scans \cup {None}]
    BY <1>1, DisturbedType DEF EditFile
  <2> QED BY <1>1, <2>1, <2>2 DEF EditFile
<1>2. ASSUME EditConfig
      PROVE  TypeOK'
  <2>1. scan' \in [Scan -> Scans \cup {None}]
    BY <1>2, DisturbedType DEF EditConfig
  <2> QED BY <1>2, <2>1 DEF EditConfig
<1>3. ASSUME Reset
      PROVE  TypeOK'
  <2>1. scan' \in [Scan -> Scans \cup {None}]
    BY <1>3, CancelledType DEF Reset
  <2> QED BY <1>0, <1>3, <2>1, HeldType DEF Reset, Objects
<1>4. ASSUME FoldersChange
      PROVE  TypeOK'
  BY <1>0, <1>4, HeldType DEF FoldersChange, project, Objects
<1>5. ASSUME NEW s \in Scan, NEW files \in SUBSET File, StartScan(s, files)
      PROVE  TypeOK'
  <2>1. PICK c \in Cache : /\ current # None => c = current
                           /\ current' = c /\ cache' = [cache EXCEPT ![c] = Opened(c)]
                           /\ \/ /\ outcome' = Delivered(HitsOf(Opened(c).entries, files),
                                                          Opened(c).fingerprint)
                                 /\ scan' = scan
                              \/ /\ scan' = [scan EXCEPT ![s] = Started(c, Opened(c), files)]
                                 /\ outcome' = None
    BY <1>5 DEF StartScan
  <2>2. Opened(c) \in Objects
    BY <2>1, OpenedType
  <2> DEFINE object == Opened(c)
  <2>3. cache' \in [Cache -> Objects]
    <3>1. cache' = [cache EXCEPT ![c] = object] /\ object \in Objects
      BY <2>1, <2>2
    <3> HIDE DEF object
    <3> QED BY <1>0, <3>1
  <2>4. HitsOf(Opened(c).entries, files) \in Kept
    <3>1. object.entries \in Kept
      BY <2>2 DEF Objects
    <3> QED BY <3>1, HitsType
  <2>5. Started(c, Opened(c), files) \in Scans
    BY <2>4 DEF Started, Scans
  <2>6. scan' \in [Scan -> Scans \cup {None}]
    BY <2>1, <2>5
  <2>7. outcome' \in [served : Kept, fingerprint : Config \cup {None}] \cup {None}
    BY <2>1, <2>4, <2>2 DEF Delivered, Objects
  <2> QED BY <1>5, <2>1, <2>3, <2>6, <2>7 DEF StartScan, project, Objects
<1>6. ASSUME NEW s \in Scan, ReadConfig(s)
      PROVE  TypeOK'
  <2>1. scan' \in [Scan -> Scans \cup {None}]
    BY <1>6 DEF ReadConfig, Scans
  <2> QED BY <1>6, <2>1 DEF ReadConfig, project
<1>7. ASSUME NEW s \in Scan, ReadFiles(s)
      PROVE  TypeOK'
  <2>1. scan' \in [Scan -> Scans \cup {None}]
    BY <1>7 DEF ReadFiles, Scans
  <2> QED BY <1>7, <2>1 DEF ReadFiles, project
<1>8. ASSUME NEW s \in Scan, NEW ok \in BOOLEAN, EndScan(s, ok)
       PROVE  TypeOK'
  <2> DEFINE x == scan[s]
             objects == IF ~x.cancelled /\ ok THEN [cache EXCEPT ![x.cache] = Stored(x)] ELSE cache
  <2>1. x \in Scans /\ x.under # None /\ (ok => x.read # None)
    BY <1>8 DEF EndScan
  <2>2. x.cache \in Cache /\ cache[x.cache] \in Objects
    BY <1>0, <2>1 DEF Scans
  <2>3. ok => Stored(x) \in Objects
    BY <2>1, <2>2, StoredType
  <2>4. objects \in [Cache -> Objects]
    BY <1>0, <2>2, <2>3
  <2>5. cache' = Held(objects, current, scan')
    BY <1>8 DEF EndScan, Storable
  <2>6. cache' \in [Cache -> Objects]
    BY <2>4, <2>5, HeldType
  <2>7. scan' \in [Scan -> Scans \cup {None}]
    BY <1>8 DEF EndScan
  <2>8. outcome' \in [served : Kept, fingerprint : Config \cup {None}] \cup {None}
    BY <1>8 DEF EndScan, Delivered, Scans, Objects
  <2> QED BY <1>8, <2>6, <2>7, <2>8 DEF EndScan, project, Objects
<1>9. ASSUME NEW c \in Cache, Persist(c)
      PROVE  TypeOK'
  <2>1. [cache EXCEPT ![c].timer = FALSE, ![c].dirty = FALSE] \in [Cache -> Objects]
    BY <1>0, WrittenType
  <2>2. disk' \in [fingerprint : Config \cup {None}, entries : Kept]
    BY <1>9 DEF Persist, Write
  <2> QED BY <1>9, <2>1, <2>2, HeldType DEF Persist, project, Objects
<1>10. ASSUME Dispose
      PROVE  TypeOK'
  <2> DEFINE written == [cache EXCEPT ![current].timer = FALSE, ![current].dirty = FALSE]
  <2>1. written \in [Cache -> Objects]
    BY <1>0, WrittenType
  <2>2. disk' \in [fingerprint : Config \cup {None}, entries : Kept]
    BY <1>10 DEF Dispose, Write
  <2>3. scan' \in [Scan -> Scans \cup {None}]
    BY <1>10, CancelledType DEF Dispose
  <2>4. cache' \in [Cache -> Objects]
    <3>1. cache' = cache \/ cache' = Held(written, None, scan)
      BY <1>10 DEF Dispose
    <3> HIDE DEF written
    <3> QED BY <1>0, <3>1, <2>1, HeldType
  <2> QED BY <1>10, <2>2, <2>3, <2>4 DEF Dispose, project, Objects
<1>11. ASSUME Exit
       PROVE  TypeOK'
  BY <1>11, EmptyTypes DEF Exit, Objects
<1>12. ASSUME Open
       PROVE  TypeOK'
  BY <1>12 DEF Open, project
<1>13. ASSUME UNCHANGED vars
       PROVE  TypeOK'
  BY <1>13 DEF vars
<1> QED BY <1>1, <1>2, <1>3, <1>4, <1>5, <1>6, <1>7, <1>9, <1>10, <1>11, <1>12, <1>13, <1>8 DEF Next

(* Every variable keeps its type (the state of lint-cache.ts and           *)
(* scan-runner.ts).                                                        *)
THEOREM TypeCorrect == Spec => []TypeOK
BY InitType, StepType, PTL DEF Spec

-----------------------------------------------------------------------------
(* Diagnostics stored undisturbed are of the content they lie under and of *)
(* the configuration with the fingerprint.                                 *)
Sound(entries, fingerprint) ==
  \A f \in File : entries[f] # None /\ entries[f].calm
                    => entries[f].content = entries[f].hash /\ entries[f].config = fingerprint

Noticed(fingerprint) == pending \/ fingerprint = config

StockSound == /\ \A c \in Cache : Sound(cache[c].entries, cache[c].fingerprint)
              /\ Sound(disk.entries, disk.fingerprint)

Untouched(x) ==
  /\ cache[x.cache].fingerprint = config
  /\ x.under # None => x.under = config
  /\ \A f \in x.files : x.hash[f] = content[f] /\ (x.read # None => x.read[f] = content[f])

Runs(x) ==
  /\ cache[x.cache].fingerprint \in Config
  /\ Sound(x.served, cache[x.cache].fingerprint)
  /\ x.calm => Untouched(x)
  /\ ~x.cancelled => server = "up" /\ Noticed(cache[x.cache].fingerprint)

ScansSound == \A s \in Scan : scan[s] # None => Runs(scan[s])

CurrentKnown == current # None => /\ server = "up" /\ cache[current].fingerprint \in Config
                                  /\ Noticed(cache[current].fingerprint)

OutcomeSound == outcome # None => /\ Sound(outcome.served, outcome.fingerprint)
                                  /\ Noticed(outcome.fingerprint)

Inv == TypeOK /\ StockSound /\ ScansSound /\ CurrentKnown /\ OutcomeSound

LEMMA EmptySound == ASSUME NEW fp PROVE Sound(NoEntries, fp)
BY DEF Sound, NoEntries

LEMMA HitsSound ==
  ASSUME NEW entries, NEW fp, Sound(entries, fp), NEW files
  PROVE  Sound(HitsOf(entries, files), fp)
BY DEF Sound, HitsOf

LEMMA InitInv == ASSUME Init PROVE Inv
<1>1. StockSound
  BY EmptySound DEF Init, StockSound, NoCache, NoFile
<1> QED BY <1>1, InitType DEF Init, Inv, ScansSound, CurrentKnown, OutcomeSound

(* What an object the server or a scan refers to becomes: its entries and  *)
(* its fingerprint stay.                                                   *)
LEMMA WrittenObject ==
  ASSUME NEW objects \in [Cache -> Objects], NEW w \in Cache, NEW c \in Cache
  PROVE  /\ [objects EXCEPT ![w].timer = FALSE, ![w].dirty = FALSE][c].entries = objects[c].entries
         /\ [objects EXCEPT ![w].timer = FALSE, ![w].dirty = FALSE][c].fingerprint
              = objects[c].fingerprint
BY DEF Objects

LEMMA OpenedSound ==
  ASSUME Inv, server = "up", NEW c \in Cache, current # None => c = current
  PROVE  /\ Sound(Opened(c).entries, Opened(c).fingerprint)
         /\ Opened(c).fingerprint \in Config /\ Noticed(Opened(c).fingerprint)
<1>1. CASE current # None
  BY <1>1 DEF Inv, Opened, StockSound, CurrentKnown
<1>2. CASE current = None
  <2>1. Sound(Loaded, config)
    BY EmptySound DEF Loaded, Inv, StockSound
  <2> QED BY <1>2, <2>1 DEF Opened, Inv, TypeOK, Noticed
<1> QED BY <1>1, <1>2

LEMMA StoredSound ==
  ASSUME Inv, NEW x \in Scans, Runs(x), x.under # None, x.read # None
  PROVE  /\ Sound(Stored(x).entries, cache[x.cache].fingerprint)
         /\ Stored(x).fingerprint = cache[x.cache].fingerprint
<1> DEFINE new == {f \in x.files : x.hash[f] # Gone}
<1>1. Sound(cache[x.cache].entries, cache[x.cache].fingerprint)
  BY DEF Inv, StockSound, Scans
<1>2. CASE new = {}
  BY <1>1, <1>2 DEF Stored
<1>3. CASE new # {}
  <2>1. Stored(x).fingerprint = cache[x.cache].fingerprint
    BY <1>3 DEF Stored
  <2>2. ASSUME NEW f \in File, Stored(x).entries[f] # None, Stored(x).entries[f].calm
        PROVE  /\ Stored(x).entries[f].content = Stored(x).entries[f].hash
               /\ Stored(x).entries[f].config = cache[x.cache].fingerprint
    <3>1. CASE f \in new
      <4>1. Stored(x).entries[f] = Entry(x, f)
        BY <1>3, <3>1 DEF Stored
      <4>2. x.calm
        BY <2>2, <4>1 DEF Entry
      <4> QED BY <3>1, <4>1, <4>2 DEF Entry, Runs, Untouched
    <3>2. CASE f \notin new
      <4>1. Stored(x).entries[f] = cache[x.cache].entries[f]
        BY <1>3, <3>2 DEF Stored
      <4> QED BY <1>1, <2>2, <4>1 DEF Sound
    <3> QED BY <3>1, <3>2
  <2> QED BY <2>1, <2>2 DEF Sound
<1> QED BY <1>2, <1>3

(* An edit: the scans that saw the old state are no longer calm, and the   *)
(* server will notice.                                                     *)
LEMMA EditKeeps ==
  ASSUME Inv, TypeOK', EditConfig \/ \E f \in File : EditFile(f)
  PROVE  Inv'
<1>1. cache' = cache /\ disk' = disk /\ server' = server /\ current' = current /\ outcome' = None
  BY DEF EditConfig, EditFile
<1>2. server = "up" /\ config' # config => pending'
  BY DEF EditConfig, EditFile
<1>3. StockSound' /\ OutcomeSound'
  BY <1>1 DEF Inv, StockSound, Sound, OutcomeSound
<1>4. config' = config => pending' = pending
  BY DEF EditConfig, EditFile
<1>5. CurrentKnown'
  BY <1>1, <1>2, <1>4 DEF Inv, CurrentKnown, Noticed
<1>6. ASSUME NEW s \in Scan, scan'[s] # None
      PROVE  Runs(scan[s])'
  <2>1. /\ scan[s] # None /\ scan[s] \in Scans
        /\ scan'[s] = scan[s] \/ scan'[s] = [scan[s] EXCEPT !.calm = FALSE]
    BY <1>6 DEF EditConfig, EditFile, Disturbed, Active, Inv, TypeOK
  <2>2. Runs(scan[s])
    BY <2>1 DEF Inv, ScansSound
  <2>3. scan'[s].calm => Untouched(scan[s])'
    <3>1. CASE EditConfig
      BY <3>1, <2>1 DEF EditConfig, Disturbed, Active, Scans
    <3>2. CASE \E f \in File : EditFile(f)
      <4>1. PICK f \in File : EditFile(f)
        BY <3>2
      <4>2. ASSUME scan'[s].calm
            PROVE  f \notin scan[s].files /\ scan'[s] = scan[s]
        BY <4>1, <4>2, <2>1 DEF EditFile, Disturbed, Active, Scans
      <4>3. \A g \in File \ {f} : content'[g] = content[g]
        BY <4>1 DEF EditFile, Inv, TypeOK, Tree
      <4>4. config' = config /\ scan[s].files \subseteq File
        BY <4>1, <2>1 DEF EditFile, Scans
      <4> QED BY <1>1, <2>1, <2>2, <4>2, <4>3, <4>4 DEF Runs, Untouched, Scans
    <3> QED BY <3>1, <3>2
  <2>4. /\ scan'[s].cache = scan[s].cache /\ scan'[s].served = scan[s].served
        /\ scan'[s].cancelled = scan[s].cancelled
    BY <2>1 DEF Scans
  <2>5. server = "up" => \A k \in Config : Noticed(k) => pending' \/ k = config'
    BY <1>2, <1>4 DEF Noticed
  <2> QED BY <1>1, <2>2, <2>3, <2>4, <2>5 DEF Runs, Sound, Noticed
<1> QED BY <1>3, <1>5, <1>6 DEF Inv, ScansSound

(* The server drops the project's object, with the scans cancelled or not; *)
(* so does the end of its process.                                         *)
LEMMA DropKeeps ==
  ASSUME Inv, TypeOK',
         Reset \/ FoldersChange \/ Exit \/ Open \/ (Dispose /\ current = None)
  PROVE  Inv'
<1>1. /\ current' = None /\ outcome' = None /\ disk' = disk /\ config' = config
      /\ content' = content
  BY DEF Reset, FoldersChange, Exit, Open, Dispose, project, Inv, CurrentKnown
<1>2. ASSUME NEW c \in Cache
      PROVE  Sound(cache[c].entries, cache[c].fingerprint)'
  <2>1. cache' = Held(cache, None, scan) \/ cache'[c] = NoCache \/ cache'[c] = cache[c]
    BY DEF Reset, FoldersChange, Exit, Open, Dispose
  <2>2. cache'[c] = cache[c] \/ cache'[c] = NoCache
    BY <2>1, HeldObjects
  <2> QED BY <2>2 DEF Inv, StockSound, Sound, NoCache, NoEntries
<1>3. ASSUME NEW s \in Scan, scan'[s] # None
      PROVE  Runs(scan[s])'
  <2>1. /\ scan[s] # None /\ scan[s] \in Scans /\ ~Exit
        /\ \/ scan'[s] = scan[s] /\ server' = server /\ pending' = pending /\ FoldersChange
           \/ scan'[s] = [scan[s] EXCEPT !.cancelled = TRUE]
           \/ scan'[s] = scan[s] /\ Open
    BY <1>3 DEF Reset, FoldersChange, Exit, Open, Dispose, Cancelled, project, Inv, TypeOK
  <2>2. Runs(scan[s])
    BY <2>1 DEF Inv, ScansSound
  <2>3. cache'[scan[s].cache] = cache[scan[s].cache]
    <3>1. scan[s].cache \in Cache
      BY <2>1 DEF Scans
    <3>2. cache' = cache \/ cache' = Held(cache, None, scan)
      BY <2>1 DEF Reset, FoldersChange, Open, Dispose
    <3> QED BY <2>1, <3>1, <3>2, HeldObjects
  <2>4. Open => scan[s].cancelled
    BY <2>2 DEF Open, Runs
  <2>5. /\ scan'[s].cache = scan[s].cache /\ scan'[s].served = scan[s].served
        /\ scan'[s].calm = scan[s].calm /\ scan'[s].under = scan[s].under
        /\ scan'[s].read = scan[s].read /\ scan'[s].files = scan[s].files
        /\ scan'[s].hash = scan[s].hash
    BY <2>1 DEF Scans
  <2>6. ~scan'[s].cancelled => ~scan[s].cancelled /\ server' = server /\ pending' = pending
    BY <2>1, <2>4 DEF Scans
  <2> QED BY <1>1, <2>2, <2>3, <2>5, <2>6 DEF Runs, Untouched, Sound, Noticed
<1> QED BY <1>1, <1>2, <1>3 DEF Inv, StockSound, ScansSound, CurrentKnown, OutcomeSound, Sound

(* The steps of oxlint: what it read is what the server hashed, unless the *)
(* scan is no longer calm.                                                 *)
LEMMA ReadKeeps ==
  ASSUME Inv, TypeOK', NEW s \in Scan, ReadConfig(s) \/ ReadFiles(s)
  PROVE  Inv'
<1>1. UNCHANGED <<content, config, pending, server, current, cache, disk>> /\ outcome' = None
  BY DEF ReadConfig, ReadFiles, project
<1>2. ASSUME NEW r \in Scan, scan'[r] # None
      PROVE  Runs(scan[r])'
  <2>1. /\ scan[r] # None /\ scan[r] \in Scans
        /\ \/ scan'[r] = scan[r]
           \/ scan'[r] = [scan[r] EXCEPT !.under = config]
           \/ scan'[r] = [scan[r] EXCEPT !.read = content]
    BY <1>2 DEF ReadConfig, ReadFiles, Inv, TypeOK
  <2>2. Runs(scan[r])
    BY <2>1 DEF Inv, ScansSound
  <2>3. /\ scan'[r].cache = scan[r].cache /\ scan'[r].served = scan[r].served
        /\ scan'[r].calm = scan[r].calm /\ scan'[r].files = scan[r].files
        /\ scan'[r].hash = scan[r].hash /\ scan'[r].cancelled = scan[r].cancelled
    BY <2>1 DEF Scans
  <2>4. scan'[r].under \in {scan[r].under, config} /\ scan'[r].read \in {scan[r].read, content}
    BY <2>1 DEF Scans
  <2> QED BY <1>1, <2>2, <2>3, <2>4 DEF Runs, Untouched, Sound, Noticed
<1> QED BY <1>1, <1>2 DEF Inv, StockSound, ScansSound, CurrentKnown, OutcomeSound, Sound, Noticed

(* A timer, or the shutdown, writes an object.                             *)
LEMMA WriteKeeps ==
  ASSUME Inv, TypeOK', NEW w \in Cache,
         Persist(w) \/ (Dispose /\ current = w)
  PROVE  Inv'
<1> DEFINE written == [cache EXCEPT ![w].timer = FALSE, ![w].dirty = FALSE]
<1>1. cache \in [Cache -> Objects]
  BY DEF Inv, TypeOK, Objects
<1>2. \A c \in Cache : /\ written[c].entries = cache[c].entries
                       /\ written[c].fingerprint = cache[c].fingerprint
  BY <1>1, WrittenObject
<1>3. \E now : /\ cache' = Held(written, now, scan) /\ (current' # None => now = current')
  <2>1. CASE Persist(w)
    BY <2>1 DEF Persist
  <2>2. CASE Dispose /\ current = w
    BY <2>2 DEF Dispose
  <2> QED BY <2>1, <2>2
<1> HIDE DEF written
<1>4. UNCHANGED <<content, config, pending>> /\ outcome' = None /\ current' \in {current, None}
      /\ (current' # None => server' = server)
  BY DEF Persist, Dispose, project
<1>5. StockSound'
  <2>1. ASSUME NEW c \in Cache
        PROVE  Sound(cache[c].entries, cache[c].fingerprint)'
    <3>1. cache'[c] \in {written[c], NoCache}
      BY <1>3, HeldObjects
    <3> QED BY <1>2, <3>1 DEF Inv, StockSound, Sound, NoCache, NoEntries
  <2>2. \/ disk' = disk
        \/ disk' = [fingerprint |-> cache[w].fingerprint, entries |-> cache[w].entries]
    BY <1>1 DEF Persist, Dispose, Write
  <2>3. Sound(disk.entries, disk.fingerprint)'
    BY <2>2 DEF Inv, StockSound, Sound
  <2> QED BY <2>1, <2>3 DEF StockSound
<1>6. ASSUME NEW s \in Scan, scan'[s] # None
      PROVE  Runs(scan[s])'
  <2>1. /\ scan[s] # None /\ scan[s] \in Scans
        /\ \/ scan'[s] = scan[s] /\ server' = server
           \/ scan'[s] = [scan[s] EXCEPT !.cancelled = TRUE]
    BY <1>6 DEF Persist, Dispose, Cancelled, project, Inv, TypeOK
  <2>2. Runs(scan[s])
    BY <2>1 DEF Inv, ScansSound
  <2>3. cache'[scan[s].cache].fingerprint = cache[scan[s].cache].fingerprint
    <3>1. scan[s].cache \in Cache
      BY <2>1 DEF Scans
    <3> QED BY <1>2, <1>3, <2>1, <3>1, HeldObjects
  <2>4. /\ scan'[s].cache = scan[s].cache /\ scan'[s].served = scan[s].served
        /\ scan'[s].calm = scan[s].calm /\ scan'[s].under = scan[s].under
        /\ scan'[s].read = scan[s].read /\ scan'[s].files = scan[s].files
        /\ scan'[s].hash = scan[s].hash
    BY <2>1 DEF Scans
  <2>5. ~scan'[s].cancelled => ~scan[s].cancelled /\ server' = server
    BY <2>1 DEF Scans
  <2> QED BY <1>4, <2>2, <2>3, <2>4, <2>5 DEF Runs, Untouched, Sound, Noticed
<1>7. CurrentKnown'
  <2>1. ASSUME current' # None
        PROVE  /\ current' = current /\ current \in Cache
               /\ cache'[current].fingerprint = cache[current].fingerprint
    <3>1. current' = current /\ current \in Cache
      BY <1>4, <2>1 DEF Inv, TypeOK
    <3> QED BY <1>2, <1>3, <2>1, <3>1, HeldObjects
  <2> QED BY <1>4, <2>1 DEF Inv, CurrentKnown, Noticed
<1> QED BY <1>4, <1>5, <1>6, <1>7 DEF Inv, ScansSound, OutcomeSound

LEMMA StartKeeps ==
  ASSUME Inv, TypeOK', NEW s \in Scan, NEW files \in SUBSET File, StartScan(s, files)
  PROVE  Inv'
<1>1. PICK c \in Cache :
        /\ IF current = None THEN cache[c] = NoCache ELSE c = current
        /\ current' = c /\ cache' = [cache EXCEPT ![c] = Opened(c)]
        /\ \/ /\ outcome' = Delivered(HitsOf(Opened(c).entries, files), Opened(c).fingerprint)
              /\ scan' = scan
           \/ /\ scan' = [scan EXCEPT ![s] = Started(c, Opened(c), files)] /\ outcome' = None
  BY DEF StartScan
<1>2. /\ server = "up" /\ server' = server /\ disk' = disk
      /\ UNCHANGED <<content, config, pending>>
  BY DEF StartScan, project
<1>3. PICK object : object = Opened(c)
  OBVIOUS
<1>4. /\ Sound(object.entries, object.fingerprint) /\ object.fingerprint \in Config
      /\ Noticed(object.fingerprint)
  BY <1>1, <1>2, <1>3, OpenedSound
<1>5. PICK served : served = HitsOf(object.entries, files)
  OBVIOUS
<1>6. Sound(served, object.fingerprint)
  BY <1>4, <1>5, HitsSound
<1>7. cache' = [cache EXCEPT ![c] = object] /\ cache'[c] = object
      /\ \A d \in Cache \ {c} : cache'[d] = cache[d]
  BY <1>1, <1>3 DEF Inv, TypeOK
<1>8. StockSound'
  BY <1>2, <1>4, <1>7 DEF Inv, StockSound, Sound
<1>9. CurrentKnown'
  BY <1>1, <1>2, <1>4, <1>7 DEF CurrentKnown, Noticed
<1>10. OutcomeSound'
  BY <1>1, <1>2, <1>3, <1>4, <1>5, <1>6 DEF OutcomeSound, Delivered, Sound, Noticed
<1>11. ASSUME NEW r \in Scan, scan'[r] # None
       PROVE  Runs(scan[r])'
  <2>1. CASE scan'[r] = scan[r]
    <3>1. Runs(scan[r]) /\ scan[r].cache \in Cache
      BY <1>11, <2>1 DEF Inv, ScansSound, TypeOK, Scans
    <3>2. cache'[scan[r].cache].fingerprint = cache[scan[r].cache].fingerprint
      <4>1. CASE scan[r].cache = c /\ current = None
        BY <1>1, <3>1, <4>1, LintCacheAssumption DEF NoCache, Runs
      <4>2. CASE scan[r].cache = c /\ current # None
        <5>1. object = cache[c]
          BY <1>3, <4>2 DEF Opened
        <5> QED BY <1>7, <4>2, <5>1
      <4>3. CASE scan[r].cache # c
        BY <1>7, <3>1, <4>3
      <4> QED BY <4>1, <4>2, <4>3
    <3> QED BY <1>2, <2>1, <3>1, <3>2 DEF Runs, Untouched, Sound, Noticed
  <2>2. CASE scan'[r] # scan[r]
    <3>1. scan'[r] = Started(c, object, files)
      BY <1>1, <1>3, <2>2 DEF Inv, TypeOK
    <3>2. /\ scan'[r].cache = c /\ scan'[r].served = served
          /\ scan'[r].hash = content /\ scan'[r].under = None /\ scan'[r].read = None
          /\ scan'[r].calm = (object.fingerprint = config)
      BY <1>5, <3>1 DEF Started
    <3> QED BY <1>2, <1>4, <1>6, <1>7, <3>2 DEF Runs, Untouched, Sound, Noticed
  <2> QED BY <2>1, <2>2
<1> QED BY <1>8, <1>9, <1>10, <1>11 DEF Inv, ScansSound

LEMMA EndKeeps ==
  ASSUME Inv, TypeOK', NEW s \in Scan, NEW ok \in BOOLEAN, EndScan(s, ok)
  PROVE  Inv'
<1>1. /\ UNCHANGED <<content, config, pending, server, current, disk>>
      /\ scan[s] # None /\ scan[s].under # None /\ (ok => scan[s].read # None)
      /\ scan' = [scan EXCEPT ![s] = None]
  BY DEF EndScan, project
<1>2. PICK x : x = scan[s]
  OBVIOUS
<1>3. x \in Scans /\ Runs(x) /\ x.cache \in Cache
  BY <1>1, <1>2 DEF Inv, TypeOK, ScansSound, Scans
<1>4. PICK objects :
        objects = IF ~x.cancelled /\ ok THEN [cache EXCEPT ![x.cache] = Stored(x)] ELSE cache
  OBVIOUS
<1>5. cache' = Held(objects, current, scan')
  BY <1>2, <1>4 DEF EndScan, Storable
<1>6. /\ \A c \in Cache : Sound(objects[c].entries, cache[c].fingerprint)
      /\ \A c \in Cache : objects[c].fingerprint = cache[c].fingerprint
  <2>1. ok => /\ Sound(Stored(x).entries, cache[x.cache].fingerprint)
              /\ Stored(x).fingerprint = cache[x.cache].fingerprint
    BY <1>1, <1>2, <1>3, StoredSound
  <2>2. cache = [c \in Cache |-> cache[c]]
    BY DEF Inv, TypeOK
  <2> QED BY <1>3, <1>4, <2>1, <2>2 DEF Inv, StockSound
<1>7. StockSound'
  <2>1. ASSUME NEW c \in Cache
        PROVE  Sound(cache[c].entries, cache[c].fingerprint)'
    <3>1. cache'[c] \in {objects[c], NoCache}
      BY <1>5, HeldObjects
    <3> QED BY <1>6, <3>1 DEF Sound, NoCache, NoEntries
  <2> QED BY <1>1, <2>1 DEF Inv, StockSound, Sound
<1>8. ASSUME NEW r \in Scan, scan'[r] # None
      PROVE  Runs(scan[r])'
  <2>1. scan'[r] = scan[r] /\ Runs(scan[r]) /\ scan[r].cache \in Cache
    BY <1>1, <1>8 DEF Inv, TypeOK, ScansSound, Scans
  <2>2. cache'[scan[r].cache].fingerprint = cache[scan[r].cache].fingerprint
    <3>1. cache'[scan[r].cache] = objects[scan[r].cache]
      BY <1>5, <1>8, <2>1, HeldObjects
    <3> QED BY <1>6, <2>1, <3>1
  <2> QED BY <1>1, <2>1, <2>2 DEF Runs, Untouched, Sound, Noticed
<1>9. CurrentKnown'
  <2>1. ASSUME current # None
        PROVE  cache'[current].fingerprint = cache[current].fingerprint
    <3>1. current \in Cache
      BY <2>1 DEF Inv, TypeOK
    <3>2. cache'[current] = objects[current]
      BY <1>5, <3>1, HeldObjects
    <3> QED BY <1>6, <3>1, <3>2
  <2> QED BY <1>1, <2>1 DEF Inv, CurrentKnown, Noticed
<1>10. OutcomeSound'
  <2>1. outcome' \in {None, Delivered(x.served, cache[x.cache].fingerprint)}
        /\ (x.cancelled => outcome' = None)
    BY <1>2 DEF EndScan
  <2> QED BY <1>1, <1>3, <2>1 DEF OutcomeSound, Delivered, Runs, Sound, Noticed
<1> QED BY <1>7, <1>8, <1>9, <1>10 DEF Inv, ScansSound

LEMMA StepInv == ASSUME Inv, [Next]_vars PROVE Inv'
<1>1. TypeOK'
  BY StepType DEF Inv
<1>2. CASE UNCHANGED vars
  BY <1>2 DEF vars, Inv, TypeOK, StockSound, ScansSound, CurrentKnown, OutcomeSound, Runs,
              Untouched, Sound, Noticed
<1>3. CASE Dispose /\ current # None
  <2>1. current \in Cache
    BY <1>3 DEF Inv, TypeOK
  <2> QED BY <1>1, <1>3, <2>1, WriteKeeps
<1>4. CASE EditConfig \/ \E f \in File : EditFile(f)
  BY <1>1, <1>4, EditKeeps
<1>5. CASE Reset \/ FoldersChange \/ Exit \/ Open \/ (Dispose /\ current = None)
  BY <1>1, <1>5, DropKeeps
<1>6. CASE \E s \in Scan : ReadConfig(s) \/ ReadFiles(s)
  BY <1>1, <1>6, ReadKeeps
<1>7. CASE \E s \in Scan, files \in SUBSET File : StartScan(s, files)
  BY <1>1, <1>7, StartKeeps
<1>8. CASE \E s \in Scan, ok \in BOOLEAN : EndScan(s, ok)
  BY <1>1, <1>8, EndKeeps
<1>9. CASE \E c \in Cache : Persist(c)
  BY <1>1, <1>9, WriteKeeps
<1> QED BY <1>2, <1>3, <1>4, <1>5, <1>6, <1>7, <1>8, <1>9 DEF Next

(* What is stored, read and answered by the cache is sound throughout.     *)
THEOREM EverythingSound == Spec => []Inv
BY InitInv, StepInv, PTL DEF Spec

(* A cached diagnostic delivered from any object, from the file an earlier *)
(* server left or by a late scan is right for the hashed content and the   *)
(* cache's configuration, if the scan that stored it ran undisturbed       *)
(* (lint-cache.ts get and load, scan-runner.ts).                           *)
THEOREM HitsAreOfTheContent == Spec => []CalmHitsAreRight
<1>1. Inv => CalmHitsAreRight
  BY DEF Inv, OutcomeSound, Sound, CalmHitsAreRight, Right, Served
<1> QED BY <1>1, EverythingSound, PTL

(* Nothing from before a change of the configuration is delivered once the *)
(* server has noticed it (server.ts rescanWorkspaceFromScratch,            *)
(* scan-runner.ts invalidateCaches).                                       *)
THEOREM NothingStale == Spec => []NoStaleHits
<1>1. Inv => NoStaleHits
  BY DEF Inv, OutcomeSound, Noticed, NoStaleHits
<1> QED BY <1>1, EverythingSound, PTL
=============================================================================
