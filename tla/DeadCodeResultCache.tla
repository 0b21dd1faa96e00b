------------------------- MODULE DeadCodeResultCache -------------------------
(***************************************************************************)
(* The whole-project dead-code result cache                                *)
(* (core/src/dead-code/dead-code-result-cache.ts) around an analysis       *)
(* (checkDeadCode, core/src/check-dead-code.ts): one JSON file with the    *)
(* diagnostics of the last complete pass and, for every analyzed file, its *)
(* mtime, size and content hash.  Files are edited, created and deleted at *)
(* any moment, and several processes scan the same project.                *)
(*                                                                         *)
(* Diagnostics are what the analysis computes them from: the key and the   *)
(* content it saw of each path.  A hash is the content it is taken of.     *)
(* What a scan holds is cleared when it ends.                              *)
(***************************************************************************)
EXTENDS Naturals, FiniteSets

CONSTANTS Path, Content, Absent,
          Size,       \* content -> its length
          Key,        \* patterns, tsconfig choice and versions
          Process,
          MaxWrites   \* bound on edits; each one gives a new mtime

ASSUME ContentAssumption == Absent \notin Content
ASSUME SizeAssumption == Size \in [Content -> Nat]
ASSUME KeyAssumption == Absent \notin Key
ASSUME BoundAssumption == MaxWrites \in Nat

VARIABLES content,    \* path -> what is on disk
          mtime,      \* path -> when it was last written
          clock,
          cache,      \* the cache file
          phase, key,
          todo,       \* paths the current loop has still to visit
          snapshot,   \* path -> its stat before the analysis
          loaded,     \* the cache file as the lookup read it
          seen,       \* path -> the content the analysis read
          hashed,     \* path -> its hash at store time
          since       \* path -> the contents it had since the scan began

disk == <<content, mtime, clock>>
vars == <<disk, cache, phase, key, todo, snapshot, loaded, seen, hashed, since>>

NoStat == [mtime |-> 0, size |-> 0]
Unstatted == [x \in Path |-> NoStat]
Nothing == [x \in Path |-> Absent]
Never == [x \in Path |-> {}]
NoEntry == [key |-> Absent, stat |-> Unstatted, hash |-> Nothing, result |-> Nothing]

StatOf(x) == IF content[x] = Absent THEN NoStat
             ELSE [mtime |-> mtime[x], size |-> Size[content[x]]]

Listed(stat) == {x \in Path : stat[x] # NoStat}

Init ==
  /\ content \in [Path -> Content \union {Absent}]
  /\ mtime = [x \in Path |-> 1]
  /\ clock = 1
  /\ cache = NoEntry
  /\ phase = [p \in Process |-> "idle"]
  /\ key = [p \in Process |-> Absent]
  /\ todo = [p \in Process |-> {}]
  /\ snapshot = [p \in Process |-> Unstatted]
  /\ loaded = [p \in Process |-> NoEntry]
  /\ seen = [p \in Process |-> Nothing]
  /\ hashed = [p \in Process |-> Nothing]
  /\ since = [p \in Process |-> Never]

-----------------------------------------------------------------------------
LookingUp(p) == phase[p] \in {"snapshot", "verify"}

(* The user, a checkout or an install writes, touches or deletes a file.   *)
Write(x, c) ==
  /\ clock <= MaxWrites
  /\ content[x] # Absent \/ c # Absent
  /\ clock' = clock + 1
  /\ content' = [content EXCEPT ![x] = c]
  /\ mtime' = [mtime EXCEPT ![x] = clock + 1]
  /\ since' = [p \in Process |-> IF LookingUp(p)
                                 THEN [since[p] EXCEPT ![x] = @ \union {c}]
                                 ELSE since[p]]
  /\ UNCHANGED <<cache, phase, key, todo, snapshot, loaded, seen, hashed>>

(* The scan returns or fails.                                              *)
End(p) ==
  /\ phase' = [phase EXCEPT ![p] = "idle"]
  /\ key' = [key EXCEPT ![p] = Absent]
  /\ todo' = [todo EXCEPT ![p] = {}]
  /\ snapshot' = [snapshot EXCEPT ![p] = Unstatted]
  /\ loaded' = [loaded EXCEPT ![p] = NoEntry]
  /\ seen' = [seen EXCEPT ![p] = Nothing]
  /\ hashed' = [hashed EXCEPT ![p] = Nothing]
  /\ since' = [since EXCEPT ![p] = Never]

(* checkDeadCode begins; its key is fixed before the tree is walked.       *)
Begin(p, k) ==
  /\ phase[p] = "idle"
  /\ phase' = [phase EXCEPT ![p] = "snapshot"]
  /\ key' = [key EXCEPT ![p] = k]
  /\ todo' = [todo EXCEPT ![p] = Path]
  /\ since' = [since EXCEPT ![p] = [x \in Path |-> {content[x]}]]
  /\ UNCHANGED <<disk, cache, snapshot, loaded, seen, hashed>>

(* collectAnalyzedFileStats visits one path.                               *)
StatFile(p, x) ==
  /\ phase[p] = "snapshot"
  /\ snapshot' = [snapshot EXCEPT ![p][x] = StatOf(x)]
  /\ todo' = [todo EXCEPT ![p] = @ \ {x}]
  /\ UNCHANGED <<disk, cache, phase, key, loaded, seen, hashed, since>>

-----------------------------------------------------------------------------
(* lookupDeadCodeResultCache                                               *)

(* Listed paths whose stat is not the stored one: their content decides.   *)
Suspect(p) == {x \in Listed(cache.stat) : snapshot[p][x] # cache.stat[x]}

Comparable_NoRepair(p) == cache.key = key[p] /\ cache.stat = snapshot[p]

(* The entry has this key, these paths and these sizes.                    *)
Comparable(p) ==
  /\ cache.key = key[p]
  /\ Listed(cache.stat) = Listed(snapshot[p])
  /\ \A x \in Listed(cache.stat) : snapshot[p][x].size = cache.stat[x].size

(* A miss: the worker is to read every path.                               *)
Miss(p) ==
  /\ phase' = [phase EXCEPT ![p] = "analyze"]
  /\ todo' = [todo EXCEPT ![p] = Path]
  /\ loaded' = [loaded EXCEPT ![p] = NoEntry]
  /\ since' = [since EXCEPT ![p] = Never]

(* The cache file is read: a miss at once, or some hashes to compare.      *)
ReadCache(p) ==
  /\ phase[p] = "snapshot" /\ todo[p] = {}
  /\ IF Comparable(p)
     THEN /\ phase' = [phase EXCEPT ![p] = "verify"]
          /\ todo' = [todo EXCEPT ![p] = Suspect(p)]
          /\ loaded' = [loaded EXCEPT ![p] = cache]
          /\ UNCHANGED since
     ELSE Miss(p)
  /\ UNCHANGED <<disk, cache, key, snapshot, seen, hashed>>

(* One of them is read and compared.                                       *)
VerifyHash(p, x) ==
  /\ phase[p] = "verify"
  /\ IF content[x] # Absent /\ content[x] = loaded[p].hash[x]
     THEN /\ todo' = [todo EXCEPT ![p] = @ \ {x}]
          /\ UNCHANGED <<phase, loaded, since>>
     ELSE Miss(p)
  /\ UNCHANGED <<disk, cache, key, snapshot, seen, hashed>>

Verified(p) == phase[p] = "verify" /\ todo[p] = {}

(* A hit returns the entry's diagnostics; stats that had to be repaired    *)
(* are written back, or the write fails and nobody is told.                *)
Hit(p) ==
  /\ Verified(p)
  /\ \/ cache' = cache
     \/ /\ snapshot[p] # loaded[p].stat
        /\ cache' = [loaded[p] EXCEPT !.stat = snapshot[p]]
  /\ End(p)
  /\ UNCHANGED disk

-----------------------------------------------------------------------------
(* The worker analyzes the tree, and a complete pass is stored.            *)

AnalyzeFile(p, x) ==
  /\ phase[p] = "analyze"
  /\ seen' = [seen EXCEPT ![p][x] = content[x]]
  /\ todo' = [todo EXCEPT ![p] = @ \ {x}]
  /\ UNCHANGED <<disk, cache, phase, key, snapshot, loaded, hashed, since>>

(* The worker fails, times out or is aborted, or the process is killed.    *)
Fail(p) ==
  /\ phase[p] # "idle"
  /\ End(p)
  /\ UNCHANGED <<disk, cache>>

Complete(p) ==
  /\ phase[p] = "analyze" /\ todo[p] = {}
  /\ phase' = [phase EXCEPT ![p] = "store"]
  /\ todo' = [todo EXCEPT ![p] = Listed(snapshot[p])]
  /\ UNCHANGED <<disk, cache, key, snapshot, loaded, seen, hashed, since>>

(* storeDeadCodeResultCache hashes the next path of the snapshot; a path   *)
(* that is gone means that nothing is stored.                              *)
HashFile(p, x) ==
  /\ phase[p] = "store"
  /\ \A y \in todo[p] : hashed[p][y] = Absent
  /\ IF content[x] = Absent THEN End(p)
     ELSE /\ hashed' = [hashed EXCEPT ![p][x] = content[x]]
          /\ UNCHANGED <<phase, key, todo, snapshot, loaded, seen, since>>
  /\ UNCHANGED <<disk, cache>>

Unmoved_SameSize(p, x) == StatOf(x).size = snapshot[p][x].size

Unmoved(p, x) == StatOf(x) = snapshot[p][x]

(* Then it stats the path again; one that moved means the same.            *)
RestatFile(p, x) ==
  /\ phase[p] = "store" /\ hashed[p][x] # Absent
  /\ IF Unmoved(p, x)
     THEN /\ todo' = [todo EXCEPT ![p] = @ \ {x}]
          /\ UNCHANGED <<phase, key, snapshot, loaded, seen, hashed, since>>
     ELSE End(p)
  /\ UNCHANGED <<disk, cache>>

(* The entry replaces the file, or the write fails and nobody is told.     *)
Store(p) ==
  /\ phase[p] = "store" /\ todo[p] = {}
  /\ \/ cache' = [key |-> key[p], stat |-> snapshot[p], hash |-> hashed[p],
                  result |-> seen[p]]
     \/ cache' = cache
  /\ End(p)
  /\ UNCHANGED disk

-----------------------------------------------------------------------------

Visits(p, x) == \/ StatFile(p, x)
                \/ VerifyHash(p, x)
                \/ AnalyzeFile(p, x)
                \/ HashFile(p, x)
                \/ RestatFile(p, x)

Next == \/ \E x \in Path, c \in Content \union {Absent} : Write(x, c)
        \/ \E p \in Process : \/ \E k \in Key : Begin(p, k)
                              \/ \E x \in todo[p] : Visits(p, x)
                              \/ ReadCache(p)
                              \/ Hit(p)
                              \/ Complete(p)
                              \/ Store(p)
                              \/ Fail(p)

Spec == Init /\ [][Next]_vars

-----------------------------------------------------------------------------

Stat == [mtime : Nat, size : Nat]
Contents == [Path -> Content \union {Absent}]
Entry == [key : Key \union {Absent}, stat : [Path -> Stat], hash : Contents,
          result : Contents]

(* Every variable has its type.                                            *)
TypeOK ==
  /\ content \in Contents
  /\ mtime \in [Path -> Nat \ {0}]
  /\ clock \in Nat
  /\ cache \in Entry
  /\ phase \in [Process -> {"idle", "snapshot", "verify", "analyze", "store"}]
  /\ key \in [Process -> Key \union {Absent}]
  /\ todo \in [Process -> SUBSET Path]
  /\ snapshot \in [Process -> [Path -> Stat]]
  /\ loaded \in [Process -> Entry]
  /\ seen \in [Process -> Contents]
  /\ hashed \in [Process -> Contents]
  /\ since \in [Process -> [Path -> SUBSET (Content \union {Absent})]]

(* A hit shows, of every path, a content the path had while the scan ran.  *)
HitIsRight ==
  \A p \in Process : Verified(p) =>
    \A x \in Path : loaded[p].result[x] \in since[p][x]

(* A hit is for the scan's own key, and of every path it lists it shows a  *)
(* content the path had while the scan ran: no race of edits, repairs and  *)
(* two processes makes it show a stale one.                                *)
ListedHitIsRight ==
  \A p \in Process : Verified(p) =>
    /\ loaded[p].key = key[p]
    /\ \A x \in Listed(snapshot[p]) : loaded[p].result[x] \in since[p][x]

(* A scan analyzes only if it must: in a tree that has not changed since   *)
(* the scan began, the entry had another key, another set of paths, or     *)
(* another content of one.                                                 *)
MissIsNeeded ==
  [][\A p \in Process :
       /\ LookingUp(p) /\ phase'[p] = "analyze"
       /\ \A x \in Path : since[p][x] = {content[x]}
       => LET entry == IF phase[p] = "snapshot" THEN cache ELSE loaded[p]
          IN \/ entry.key # key[p]
             \/ \E x \in Path : entry.hash[x] # content[x]]_vars
=============================================================================
