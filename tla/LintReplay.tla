----------------------------- MODULE LintReplay -----------------------------
(***************************************************************************)
(* The lint pass over its two caches (core/src/run-oxlint.ts): the         *)
(* diagnostics of the rules that read one file replay behind the hash of   *)
(* that file; those of the rules that read other files replay behind the   *)
(* answers of every probe they were stored with; the rules whose reads are *)
(* not bounded always run.                                                 *)
(*                                                                         *)
(* The diagnostics of a rule are what the rule read: `own', the content of *)
(* the file, or `cross', the contents of the file and of those it needs.   *)
(* A probe of a file is answered with its content.  The code takes the     *)
(* files to be frozen during a scan; here they are not, and `calm' marks   *)
(* the results of a scan during which nothing changed.                     *)
(***************************************************************************)
EXTENDS Naturals, FiniteSets

CONSTANTS Source, Content, Absent, Unknown,
          Nothing,     \* no diagnostics: the file was not linted
          Needs,       \* <<file, content>> -> files its cross-file rules read
          Versions,    \* file -> contents it may have, or Absent
          MaxWrites    \* bound on edits

ASSUME NeedsAssumption == /\ Needs \in [Source \X Content -> SUBSET Source]
                          /\ Versions \in [Source -> SUBSET (Content \union {Absent})]

ASSUME ContentAssumption == Absent \notin Content
ASSUME NothingAssumption ==
  /\ Nothing \notin Content \union {Absent}
  /\ \A files \in SUBSET Source : Nothing \notin [files -> Content \union {Absent}]

Key == {k \in Source \X Content : k[2] \in Versions[k[1]]}

VARIABLES content, writes,
          ownDisk, sideDisk,      \* the cache files, one bucket of each
          stage,
          todo,                   \* files the current loop has still to visit
          candidates,
          ownCache, sideCache,    \* the caches in memory
          hash,                   \* file -> content hashed, Absent if it could not be
          answers,                \* answers given to probes in this scan
          misses, relint,
          probing,                \* files whose probes are still to collect
          probes,                 \* file -> its probes, Unknown for none
          own, bounded, unbounded,  \* the diagnostics of this scan
          lost,                   \* pass -> files it dropped
          calm                    \* nothing has changed since the scan began

tree == <<content, writes>>
disk == <<ownDisk, sideDisk>>
caches == <<ownCache, sideCache>>
results == <<own, bounded, unbounded>>
scan == <<stage, todo, candidates, caches, hash, answers, misses, relint, probing,
          probes, results, lost>>
replayVars == <<tree, disk, scan, calm>>

Pass == {"full", "bounded", "unbounded"}
Hits == candidates \ misses

NoResult == [of |-> Nothing, calm |-> TRUE]
NoOwn == [of |-> Unknown, calm |-> TRUE]
NoEntry == [probes |-> Unknown, of |-> Unknown, calm |-> TRUE]

(* The files of a list are visited in its order.                           *)
First(files) == CHOOSE x \in files : TRUE

NeedsOf(x) == IF content[x] = Absent THEN {} ELSE Needs[<<x, content[x]>>]

(* What the rules read when they run now.                                  *)
Own(x) == [of |-> content[x], calm |-> calm]
Cross(x) == [of |-> [y \in NeedsOf(x) \union {x} |-> content[y]], calm |-> calm]

ReplayInit ==
  /\ content \in [Source -> Content \union {Absent}]
  /\ \A x \in Source : content[x] \in Versions[x]
  /\ writes = 0
  /\ ownDisk = [k \in Key |-> NoOwn] /\ sideDisk = [k \in Key |-> NoEntry]
  /\ stage = "idle" /\ todo = {} /\ candidates = {}
  /\ ownCache = ownDisk /\ sideCache = sideDisk
  /\ hash = [x \in Source |-> Absent] /\ answers = [x \in Source |-> Unknown]
  /\ misses = {} /\ relint = {} /\ probing = {} /\ probes = answers
  /\ own = [x \in Source |-> NoResult] /\ bounded = own /\ unbounded = own
  /\ lost = [p \in Pass |-> {}]
  /\ calm = TRUE

-----------------------------------------------------------------------------
(* A file is edited, created or deleted.                                   *)
Write(x, c) ==
  /\ writes < MaxWrites /\ content[x] # c
  /\ content' = [content EXCEPT ![x] = c]
  /\ writes' = writes + 1
  /\ calm' = (stage = "idle")
  /\ UNCHANGED <<disk, scan>>

(* An entry goes: the caps, a write that failed, or another process that   *)
(* replaced the file.                                                      *)
Evict(k) ==
  /\ stage = "idle"
  /\ \/ ownDisk' = [ownDisk EXCEPT ![k] = NoOwn] /\ UNCHANGED sideDisk
     \/ sideDisk' = [sideDisk EXCEPT ![k] = NoEntry] /\ UNCHANGED ownDisk
  /\ disk' # disk
  /\ UNCHANGED <<tree, scan, calm>>

Begin ==
  /\ stage = "idle"
  /\ stage' = "hash"
  /\ candidates' = {x \in Source : content[x] # Absent}
  /\ todo' = candidates'
  /\ ownCache' = ownDisk
  /\ UNCHANGED <<tree, disk, sideCache, hash, answers, misses, relint, probing, probes,
                 results, lost, calm>>

(* The scan is over, or fails: a pass throws, or the process ends.         *)
End ==
  /\ stage' = "idle" /\ todo' = {} /\ candidates' = {}
  /\ ownCache' = [k \in Key |-> NoOwn] /\ sideCache' = [k \in Key |-> NoEntry]
  /\ hash' = [x \in Source |-> Absent] /\ answers' = [x \in Source |-> Unknown]
  /\ misses' = {} /\ relint' = {} /\ probing' = {} /\ probes' = answers'
  /\ own' = [x \in Source |-> NoResult] /\ bounded' = own' /\ unbounded' = own'
  /\ lost' = [p \in Pass |-> {}]
  /\ calm' = TRUE
  /\ UNCHANGED <<tree, disk>>

Fail == stage \notin {"idle", "done"} /\ End

-----------------------------------------------------------------------------
(* The file is hashed and looked up; one that cannot be read is a miss.    *)
Hash(x) ==
  /\ stage = "hash" /\ x \in todo /\ x = First(todo)
  /\ todo' = todo \ {x}
  /\ IF content[x] # Absent /\ ownCache[<<x, content[x]>>] # NoOwn
     THEN own' = [own EXCEPT ![x] = ownCache[<<x, content[x]>>]] /\ UNCHANGED misses
     ELSE misses' = misses \union {x} /\ UNCHANGED own
  /\ hash' = [hash EXCEPT ![x] = content[x]]
  /\ answers' = [answers EXCEPT ![x] = IF content[x] = Absent THEN Unknown ELSE content[x]]
  /\ UNCHANGED <<tree, disk, stage, candidates, caches, relint, probing, probes,
                 bounded, unbounded, lost, calm>>

(* The sidecar cache is read, the probes of the misses begin to be         *)
(* collected, and the full pass runs over the misses.                      *)
StartFull ==
  /\ stage = "hash" /\ todo = {}
  /\ stage' = "full" /\ todo' = misses /\ probing' = misses
  /\ sideCache' = sideDisk
  /\ UNCHANGED <<tree, disk, candidates, ownCache, hash, answers, misses, relint, probes,
                 results, lost, calm>>

(* The answer of a probe is the hash of this scan, or the first answer     *)
(* given to it.                                                            *)
Answer(y) == IF answers[y] # Unknown THEN answers[y] ELSE content[y]
Answered(asked) == [y \in Source |-> IF y \in asked THEN Answer(y) ELSE answers[y]]

(* The file is parsed again to collect its probes, while the passes run;   *)
(* one that cannot be read has none.                                       *)
CollectProbes(x) ==
  /\ x \in probing /\ x = First(probing)
  /\ probing' = probing \ {x}
  /\ probes' = [probes EXCEPT ![x] =
                  IF content[x] = Absent THEN Unknown
                  ELSE [y \in NeedsOf(x) |-> Answer(y)]]
  /\ answers' = Answered(NeedsOf(x))
  /\ UNCHANGED <<tree, disk, stage, todo, candidates, caches, hash, misses, relint,
                 results, lost, calm>>

(* A pass drops a file when its retries are spent.                         *)
DropFile(x) ==
  /\ stage \in Pass /\ x \in todo
  /\ todo' = todo \ {x}
  /\ lost' = [lost EXCEPT ![stage] = @ \union {x}]
  /\ UNCHANGED <<tree, disk, stage, candidates, caches, hash, answers, misses, relint,
                 probing, probes, results, calm>>

LintFull(x) ==
  /\ stage = "full" /\ x \in todo
  /\ todo' = todo \ {x}
  /\ own' = [own EXCEPT ![x] = Own(x)]
  /\ bounded' = [bounded EXCEPT ![x] = Cross(x)]
  /\ unbounded' = [unbounded EXCEPT ![x] = Cross(x)]
  /\ UNCHANGED <<tree, disk, stage, candidates, caches, hash, answers, misses, relint,
                 probing, probes, lost, calm>>

-----------------------------------------------------------------------------
StartVerify ==
  /\ stage = "full" /\ todo = {}
  /\ stage' = "verify" /\ todo' = Hits
  /\ UNCHANGED <<tree, disk, candidates, caches, hash, answers, misses, relint, probing,
                 probes, results, lost, calm>>

Replayable_ByKey(x) == sideCache[<<x, hash[x]>>] # NoEntry

(* Every probe of the stored entry has the answer it had.                  *)
Replayable(x) ==
  LET entry == sideCache[<<x, hash[x]>>]
  IN entry # NoEntry /\ \A y \in DOMAIN entry.probes : Answer(y) = entry.probes[y]

Verify(x) ==
  LET entry == sideCache[<<x, hash[x]>>]
  IN /\ stage = "verify" /\ x \in todo /\ x = First(todo)
     /\ todo' = todo \ {x}
     /\ IF Replayable(x)
        THEN /\ bounded' = [bounded EXCEPT ![x] = [of |-> entry.of, calm |-> entry.calm]]
             /\ UNCHANGED relint
        ELSE relint' = relint \union {x} /\ UNCHANGED bounded
     /\ answers' = Answered(IF entry = NoEntry THEN {} ELSE DOMAIN entry.probes)
     /\ UNCHANGED <<tree, disk, stage, candidates, caches, hash, misses, probing, probes,
                    own, unbounded, lost, calm>>

StartBounded ==
  /\ stage = "verify" /\ todo = {}
  /\ stage' = "bounded" /\ todo' = relint /\ probing' = probing \union relint
  /\ UNCHANGED <<tree, disk, candidates, caches, hash, answers, misses, relint, probes,
                 results, lost, calm>>

LintBounded(x) ==
  /\ stage = "bounded" /\ x \in todo
  /\ todo' = todo \ {x}
  /\ bounded' = [bounded EXCEPT ![x] = Cross(x)]
  /\ UNCHANGED <<tree, disk, stage, candidates, caches, hash, answers, misses, relint,
                 probing, probes, own, unbounded, lost, calm>>

StartUnbounded ==
  /\ stage = "bounded" /\ todo = {}
  /\ stage' = "unbounded" /\ todo' = Hits
  /\ UNCHANGED <<tree, disk, candidates, caches, hash, answers, misses, relint, probing,
                 probes, results, lost, calm>>

LintUnbounded(x) ==
  /\ stage = "unbounded" /\ x \in todo
  /\ todo' = todo \ {x}
  /\ unbounded' = [unbounded EXCEPT ![x] = Cross(x)]
  /\ UNCHANGED <<tree, disk, stage, candidates, caches, hash, answers, misses, relint,
                 probing, probes, own, bounded, lost, calm>>

-----------------------------------------------------------------------------
(* A pass that dropped a file, any file, is not stored.                    *)
Trusted(pass) == lost[pass] = {}

(* The fresh entries win over those on disk.                               *)
StoreOwn ==
  /\ stage = "unbounded" /\ todo = {}
  /\ stage' = "store"
  /\ ownDisk' = IF ~Trusted("full") THEN ownDisk
                ELSE [k \in Key |->
                  IF k[1] \in misses /\ hash[k[1]] = k[2]
                  THEN [own[k[1]] EXCEPT !.calm = @ /\ calm]
                  ELSE IF ownCache[k] # NoOwn THEN ownCache[k] ELSE ownDisk[k]]
  /\ UNCHANGED <<tree, sideDisk, todo, candidates, caches, hash, answers, misses, relint,
                 probing, probes, results, lost, calm>>

(* The files whose cross-file diagnostics are stored with their probes.    *)
Storable == {x \in (IF Trusted("full") THEN misses ELSE {})
                     \union (IF Trusted("bounded") THEN relint ELSE {}) :
               hash[x] # Absent /\ probes[x] # Unknown}

StoreSidecar ==
  /\ stage = "store" /\ probing = {}
  /\ stage' = "done"
  /\ sideDisk' = IF Storable = {} THEN sideDisk ELSE [k \in Key |->
       IF k[1] \in Storable /\ hash[k[1]] = k[2]
       THEN [probes |-> probes[k[1]], of |-> bounded[k[1]].of, calm |-> calm]
       ELSE IF sideCache[k] # NoEntry THEN sideCache[k] ELSE sideDisk[k]]
  /\ UNCHANGED <<tree, ownDisk, todo, candidates, caches, hash, answers, misses, relint,
                 probing, probes, results, lost, calm>>

Return == stage = "done" /\ End

(* The files reported as analyzed.                                         *)
Analyzed_EitherPass ==
  (misses \ lost["full"])
    \union {x \in Hits : x \notin relint \/ x \notin lost["bounded"]}

Analyzed ==
  (misses \ lost["full"])
    \union {x \in Hits : /\ x \notin relint \/ x \notin lost["bounded"]
                         /\ x \notin lost["unbounded"]}

ReplayNext ==
  \/ \E x \in Source : \E c \in Versions[x] : Write(x, c)
  \/ \E k \in Key : Evict(k)
  \/ Begin \/ Fail
  \/ \E x \in Source : \/ Hash(x)
                       \/ CollectProbes(x)
                       \/ DropFile(x)
                       \/ LintFull(x)
                       \/ Verify(x)
                       \/ LintBounded(x)
                       \/ LintUnbounded(x)
  \/ StartFull \/ StartVerify \/ StartBounded \/ StartUnbounded
  \/ StoreOwn \/ StoreSidecar \/ Return

ReplaySpec == ReplayInit /\ [][ReplayNext]_replayVars

-----------------------------------------------------------------------------
(* A warm scan reports what a scan without the caches would: when nothing  *)
(* changes during the scan, every diagnostic shows the tree as it is, but  *)
(* for the files a pass of this scan dropped, whatever changed, failed or  *)
(* went missing in the scans before.                                       *)
WarmEqualsCold ==
  stage = "done" /\ calm =>
    \A x \in candidates :
      /\ own[x].calm => own[x] = Own(x) \/ x \in lost["full"]
      /\ bounded[x].calm => bounded[x] = Cross(x) \/ x \in lost["full"] \union lost["bounded"]
      /\ unbounded[x].calm =>
           unbounded[x] = Cross(x) \/ x \in lost["full"] \union lost["unbounded"]

(* A file reported as analyzed has the diagnostics of every rule, from     *)
(* this scan or from an earlier one.                                       *)
CoverageIsHonest ==
  stage = "done" =>
    \A x \in Analyzed : NoResult \notin {own[x], bounded[x], unbounded[x]}
=============================================================================
