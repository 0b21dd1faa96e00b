---------------------------- MODULE SummaryCache ----------------------------
(***************************************************************************)
(* The incremental cache of the dead-code analyzer                         *)
(* (deslop-js/src/summary-cache.ts) over one analysis (deslop-js/src/      *)
(* index.ts): the tree is walked once, and the list of collected files,    *)
(* the parse summaries, the resolutions and the package facts of the last  *)
(* analysis are used where the walk, or a content hash, says they still    *)
(* hold.  Files change at any moment of an analysis, and between two.      *)
(*                                                                         *)
(* A summary, or a fact, is the content it was computed from; a list, or a *)
(* resolution, is the set of files present when it was computed.  The size *)
(* of a file stands for nothing: every content has the same one.  `calm'   *)
(* and `walked' only mark where an entry comes from.                       *)
(***************************************************************************)
EXTENDS Naturals, FiniteSets

CONSTANTS Source,      \* files that are parsed
          Config,      \* files whose text is searched for package names
          Content, Absent,
          Search,      \* the two ways of searching
          MaxWrites    \* bound on edits; each one gives a new mtime

ASSUME SummaryAssumption == Absent \notin Content

File == Source \union Config

VARIABLES content, mtime, clock,
          disk,        \* the cache file
          stage,
          todo,        \* files the current loop has still to visit
          walked,      \* file -> mtime the walk found, 0 for none
          store,       \* the cache in memory
          missed,      \* sources to parse
          parsed,      \* source -> content the parser read
          hashed,      \* source -> hash taken to store its summary
          active,      \* the entries used or made in this analysis
          dirty,
          calm,        \* no file has changed since the analysis began
          since        \* file -> contents it had since then

tree == <<content, mtime, clock>>
history == <<calm, since>>
summaryVars == <<tree, disk, stage, todo, walked, store, missed, parsed, hashed,
                 active, dirty, history>>

Present == {x \in File : content[x] # Absent}
InWalk == {x \in File : walked[x] # 0}

(* statOf: what the walk found, else what is there now.                    *)
LiveStat(x) == IF content[x] = Absent THEN 0 ELSE mtime[x]
StatOf(x) == IF walked[x] # 0 THEN walked[x] ELSE LiveStat(x)

NoMatch == [of |-> Absent, calm |-> TRUE]
NoSummary == [m |-> 0, h |-> Absent, of |-> Absent, walked |-> TRUE]
NoFact == [m |-> 0, h |-> Absent, match |-> [k \in Search |-> NoMatch]]
Empty == [known |-> FALSE, hash |-> {}, found |-> {}, calm |-> TRUE]
EmptyStore == [list |-> Empty, resolution |-> Empty,
               summary |-> [x \in Source |-> NoSummary],
               fact |-> [x \in Config |-> NoFact]]
Unread == [x \in Source |-> Absent]

SummaryInit ==
  /\ content \in [File -> Content \union {Absent}]
  /\ mtime = [x \in File |-> 1]
  /\ clock = 1
  /\ disk = EmptyStore
  /\ stage = "idle" /\ todo = {}
  /\ walked = [x \in File |-> 0]
  /\ store = EmptyStore
  /\ missed = {} /\ parsed = Unread /\ hashed = Unread
  /\ active = {} /\ dirty = FALSE
  /\ calm = TRUE /\ since = [x \in File |-> {}]

-----------------------------------------------------------------------------
(* A file is written, touched, created or deleted.                         *)
Write(x, c) ==
  /\ clock <= MaxWrites
  /\ content[x] # Absent \/ c # Absent
  /\ clock' = clock + 1
  /\ content' = [content EXCEPT ![x] = c]
  /\ mtime' = [mtime EXCEPT ![x] = clock + 1]
  /\ IF stage = "idle" THEN UNCHANGED history
     ELSE /\ calm' = FALSE
          /\ since' = [since EXCEPT ![x] = @ \union {c}]
  /\ UNCHANGED <<disk, stage, todo, walked, store, missed, parsed, hashed, active, dirty>>

(* An analysis loads the cache file (readPersistedStore) and starts the    *)
(* walk.                                                                   *)
Begin ==
  /\ stage = "idle"
  /\ stage' = "walk"
  /\ todo' = File
  /\ store' = disk
  /\ calm' = TRUE /\ since' = [x \in File |-> {content[x]}]
  /\ UNCHANGED <<tree, disk, walked, missed, parsed, hashed, active, dirty>>

(* The analysis is over or fails.                                          *)
End ==
  /\ stage' = "idle" /\ todo' = {}
  /\ walked' = [x \in File |-> 0]
  /\ store' = EmptyStore
  /\ missed' = {} /\ parsed' = Unread /\ hashed' = Unread
  /\ active' = {} /\ dirty' = FALSE
  /\ calm' = TRUE /\ since' = [x \in File |-> {}]

Fail == stage # "idle" /\ End /\ UNCHANGED <<tree, disk>>

Walk(x) ==
  /\ stage = "walk" /\ x \in todo
  /\ walked' = [walked EXCEPT ![x] = LiveStat(x)]
  /\ todo' = todo \ {x}
  /\ UNCHANGED <<tree, disk, stage, store, missed, parsed, hashed, active, dirty, history>>

CollectHash_Sources == InWalk \intersect Source

(* The names found by the walk key the list and the resolutions.           *)
CollectHash == InWalk

-----------------------------------------------------------------------------
(* The file list: the cached one, or a fresh collection.                   *)
ListHit == store.list.known /\ store.list.hash = CollectHash

(* The resolutions of another set of files are dropped at once.            *)
KeepResolution(s) ==
  IF s.resolution.known /\ s.resolution.hash = CollectHash THEN s
  ELSE [s EXCEPT !.resolution = Empty]

FindFiles ==
  /\ stage = "walk" /\ todo = {}
  /\ stage' = "look"
  /\ IF ListHit
     THEN /\ todo' = store.list.found \intersect Source
          /\ store' = KeepResolution(store)
          /\ UNCHANGED dirty
     ELSE /\ todo' = Present \intersect Source
          /\ store' = [KeepResolution(store) EXCEPT
               !.list = [known |-> TRUE, hash |-> CollectHash, found |-> Present,
                         calm |-> calm]]
          /\ dirty' = TRUE
  /\ UNCHANGED <<tree, disk, walked, missed, parsed, hashed, active, history>>

-----------------------------------------------------------------------------
(* Parse summaries.                                                        *)

(* The stat is the stored one, or the content has the stored hash.         *)
SummaryHit(x) ==
  LET entry == store.summary[x]
  IN /\ entry.m # 0 /\ StatOf(x) # 0
     /\ entry.m = StatOf(x) \/ (content[x] # Absent /\ content[x] = entry.h)

LookupSummary(x) ==
  /\ stage = "look" /\ x \in todo
  /\ todo' = todo \ {x}
  /\ IF SummaryHit(x)
     THEN /\ store' = [store EXCEPT !.summary[x].m = StatOf(x)]
          /\ active' = active \union {x}
          /\ dirty' = (dirty \/ store.summary[x].m # StatOf(x))
          /\ UNCHANGED missed
     ELSE /\ missed' = missed \union {x}
          /\ UNCHANGED <<store, active, dirty>>
  /\ UNCHANGED <<tree, disk, stage, walked, parsed, hashed, history>>

StartParse ==
  /\ stage = "look" /\ todo = {}
  /\ stage' = "parse" /\ todo' = missed
  /\ UNCHANGED <<tree, disk, walked, store, missed, parsed, hashed, active, dirty, history>>

(* parseFilesInParallel: a file that is gone gives an empty module.        *)
Parse(x) ==
  /\ stage = "parse" /\ x \in todo
  /\ parsed' = [parsed EXCEPT ![x] = content[x]]
  /\ todo' = todo \ {x}
  /\ UNCHANGED <<tree, disk, stage, walked, store, missed, hashed, active, dirty, history>>

StartStore ==
  /\ stage = "parse" /\ todo = {}
  /\ stage' = "store" /\ todo' = missed
  /\ UNCHANGED <<tree, disk, walked, store, missed, parsed, hashed, active, dirty, history>>

(* storeSummary takes the stat to store and hashes the file; one that is   *)
(* gone is not stored.  A stat that is not of the walk is of this moment,  *)
(* so the file counts as walked from here.                                 *)
HashSource(x) ==
  /\ stage = "store" /\ x \in todo /\ \A y \in todo : hashed[y] = Absent
  /\ IF StatOf(x) = 0 \/ content[x] = Absent
     THEN todo' = todo \ {x} /\ UNCHANGED hashed
     ELSE hashed' = [hashed EXCEPT ![x] = content[x]] /\ UNCHANGED todo
  /\ UNCHANGED <<tree, disk, stage, walked, store, missed, parsed, active, dirty, history>>

Unmoved_Unchecked(x) == TRUE

Unmoved(x) == LiveStat(x) = StatOf(x)

StoreSummary(x) ==
  /\ stage = "store" /\ x \in todo /\ hashed[x] # Absent
  /\ todo' = todo \ {x}
  /\ IF Unmoved(x)
     THEN /\ store' = [store EXCEPT !.summary[x] =
                         [m |-> StatOf(x), h |-> hashed[x], of |-> parsed[x],
                          walked |-> x \in InWalk]]
          /\ active' = active \union {x}
          /\ dirty' = TRUE
     ELSE UNCHANGED <<store, active, dirty>>
  /\ hashed' = [hashed EXCEPT ![x] = Absent]
  /\ UNCHANGED <<tree, disk, stage, walked, missed, parsed, history>>

-----------------------------------------------------------------------------
(* Resolutions, one of them: what it resolves to depends on the files.     *)
Resolve ==
  /\ stage = "store" /\ todo = {}
  /\ stage' = "facts"
  /\ active' = active \union {"resolution"}
  /\ IF store.resolution.known THEN UNCHANGED <<store, dirty>>
     ELSE /\ store' = [store EXCEPT
               !.resolution = [known |-> TRUE, hash |-> CollectHash, found |-> Present,
                               calm |-> calm]]
          /\ dirty' = TRUE
  /\ UNCHANGED <<tree, disk, todo, walked, missed, parsed, hashed, history>>

(* Package facts.                                                          *)

FactHit(x, k) ==
  LET entry == store.fact[x]
  IN /\ entry.m # 0 /\ entry.match[k] # NoMatch
     /\ entry.m = StatOf(x) \/ content[x] = entry.h

(* The entry a new match is added to: the stored one while it is valid.    *)
FactBase(x) ==
  LET entry == store.fact[x]
  IN IF entry.m # 0 /\ (entry.m = StatOf(x) \/ content[x] = entry.h)
     THEN [entry EXCEPT !.m = StatOf(x)]
     ELSE [NoFact EXCEPT !.m = StatOf(x), !.h = content[x]]

(* matchPackageNames, for a file of the walk; a file that cannot be read   *)
(* keeps its entry.                                                        *)
MatchNames(x, k) ==
  /\ stage = "facts" /\ x \in InWalk
  /\ active' = active \union {x}
  /\ store' = [store EXCEPT !.fact[x] =
       IF FactHit(x, k) THEN [@ EXCEPT !.m = StatOf(x)]
       ELSE IF content[x] = Absent THEN @
       ELSE [FactBase(x) EXCEPT !.match[k] = [of |-> content[x], calm |-> calm]]]
  /\ dirty' = (dirty \/ store'.fact[x] # store.fact[x])
  /\ UNCHANGED <<tree, disk, stage, todo, walked, missed, parsed, hashed, history>>

-----------------------------------------------------------------------------
(* Only what was used or made is kept.                                     *)
Compacted ==
  [list |-> store.list, resolution |-> store.resolution,
   summary |-> [x \in Source |-> IF x \in active THEN store.summary[x] ELSE NoSummary],
   fact |-> [x \in Config |-> IF x \in active THEN store.fact[x] ELSE NoFact]]

(* The file is replaced, if anything changed; it may be too large, or the  *)
(* write fail.                                                             *)
Save ==
  /\ stage = "facts"
  /\ \/ dirty /\ disk' = Compacted
     \/ disk' = disk
  /\ End
  /\ UNCHANGED tree

SummaryNext ==
  \/ \E x \in File, c \in Content \union {Absent} : Write(x, c)
  \/ Begin
  \/ Fail
  \/ \E x \in File : Walk(x)
  \/ FindFiles
  \/ \E x \in Source : \/ LookupSummary(x)
                       \/ Parse(x)
                       \/ HashSource(x)
                       \/ StoreSummary(x)
  \/ StartParse
  \/ StartStore
  \/ Resolve
  \/ \E x \in Config, k \in Search : MatchNames(x, k)
  \/ Save

SummarySpec == SummaryInit /\ [][SummaryNext]_summaryVars

-----------------------------------------------------------------------------

(* A summary served is of a content the file had during the analysis.      *)
SummaryIsRight ==
  \A x \in Source :
    stage = "look" /\ x \in todo /\ SummaryHit(x) => store.summary[x].of \in since[x]

(* The same, for every summary stored of a file that its walk had seen.    *)
WalkedSummaryIsRight ==
  \A x \in Source :
    stage = "look" /\ x \in todo /\ SummaryHit(x) /\ store.summary[x].walked
      => store.summary[x].of \in since[x]

(* Each file in, or missing from, a set of files was there, or was not, at  *)
(* some moment of the analysis.                                            *)
SeenAs(found) ==
  \A x \in File : IF x \in found THEN since[x] \ {Absent} # {} ELSE Absent \in since[x]

(* The list, the resolutions and the facts served show the tree as it was  *)
(* during the analysis, unless files changed while the analysis that       *)
(* stored them ran.                                                        *)
CalmAnswersAreRight ==
  /\ stage = "walk" /\ todo = {} /\ ListHit /\ store.list.calm
       => SeenAs(store.list.found)
  /\ stage \in {"look", "parse", "store"} /\ store.resolution.known /\ store.resolution.calm
       => SeenAs(store.resolution.found)
  /\ \A x \in Config, k \in Search :
       stage = "facts" /\ x \in InWalk /\ FactHit(x, k) /\ store.fact[x].match[k].calm
         => store.fact[x].match[k].of \in since[x]
=============================================================================
