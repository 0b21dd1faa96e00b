----------------------------- MODULE ModuleGraph -----------------------------
(***************************************************************************)
(* The module graph of the dead-code analyser: export * is resolved         *)
(* (deslop-js/src/linker/re-exports.ts), the modules in use are traced      *)
(* from the entry points (linker/reachability.ts), and the unused files     *)
(* and exports are read off (report/files.ts, report/exports.ts).           *)
(*                                                                         *)
(* A file is its index.  Which files exist, what they import and export,    *)
(* and which are platform variants of each other is given: parsing and      *)
(* path resolution come before.  The symbols demanded of a module in use    *)
(* only decide whether its edges are followed a second time, to no effect,  *)
(* and are left out, as are default exports under another name and names    *)
(* referred to in the file that exports them.                               *)
(***************************************************************************)
EXTENDS Naturals, Sequences

CONSTANTS Module,   \* the files, 1 .. n
          Name,     \* names of exports
          None,
          Family    \* families of graphs that are analysed

(* An import of the whole namespace, of some names, for types only, for    *)
(* side effects, or at run time: of a file, or of all that match a pattern *)
(* (import.meta.glob, a template).  Its names are used at the top level of *)
(* the importing file, or only later.                                      *)
How == {"names", "members", "whole", "type", "bare", "dynamic", "glob"}
Import == [from : Module, to : Module, how : How, names : SUBSET Name, atInit : BOOLEAN]

(* A declaration; a name of another file; all of them; all, as one name;   *)
(* or a name that came with export *.                                      *)
Kind == {"local", "named", "star", "as", "synthetic"}
Export == [in : Module, kind : Kind, name : Name \cup {None}, orig : Name \cup {None},
           to : Module \cup {None}]

ASSUME GraphAssumption ==
  /\ \E n \in Module : n \in Nat /\ Module = 1 .. n
  /\ \A f \in Family : \A g \in f :
       /\ g.entry \subseteq Module /\ g.imports \subseteq Import
       /\ g.exports \subseteq Export
       /\ \A e \in g.exports :
            /\ e.kind # "synthetic"
            /\ e.kind # "local" => e.to \in Module
            /\ e.kind # "star" => e.name \in Name
            /\ e.kind = "named" => e.orig \in Name
       /\ g.siblings \in Seq(SUBSET Module)
       /\ g.exempt \subseteq Module /\ g.ignored \subseteq Module

VARIABLES graph, phase,
          exports, next, round, changed,  \* the resolution of export *
          visited, work,                  \* the trace
          group                           \* the next group of siblings

graphVars == <<graph, phase, exports, next, round, changed, visited, work, group>>

GraphInit ==
  /\ \E f \in Family : graph \in f
  /\ phase = "link"
  /\ exports = graph.exports /\ next = 1 /\ round = 1 /\ changed = FALSE
  /\ visited = {} /\ work = {} /\ group = 1

-----------------------------------------------------------------------------
(* The files another file re-exports from, and all those it refers to.     *)
Sources(m) == {e.to : e \in {x \in graph.exports : x.in = m /\ x.kind # "local"}}
Targets(m) == Sources(m) \cup {i.to : i \in {x \in graph.imports : x.from = m}}

ExportsOf(m) == {e \in exports : e.in = m}
NamesIn(es) == {e.name : e \in {x \in es : x.kind # "star"}}
HasStar(m) == \E e \in exports : e.in = m /\ e.kind = "star"

(* With one export *, a file gets the names of every file it re-exports    *)
(* from.                                                                   *)
Inherited(m) ==
  IF HasStar(m)
  THEN (UNION {NamesIn(ExportsOf(t)) : t \in Sources(m)}) \ NamesIn(ExportsOf(m))
  ELSE {}

Synthetic(m, n) == [in |-> m, kind |-> "synthetic", name |-> n, orig |-> n, to |-> None]

MaxRounds_One == 1

FileCount == CHOOSE m \in Module : \A x \in Module : x <= m
MaxRounds == 2 * FileCount + 1

(* One file of one round; a round without a change is the final one.       *)
LinkModule ==
  /\ phase = "link"
  /\ exports' = exports \cup {Synthetic(next, n) : n \in Inherited(next)}
  /\ LET c == changed \/ Inherited(next) # {} IN
     IF next # FileCount
     THEN next' = next + 1 /\ changed' = c /\ UNCHANGED <<phase, round, visited, work>>
     ELSE /\ next' = 1 /\ changed' = FALSE
          /\ IF c /\ round < MaxRounds
             THEN round' = round + 1 /\ UNCHANGED <<phase, visited, work>>
             ELSE /\ phase' = "trace" /\ visited' = graph.entry /\ work' = graph.entry
                  /\ UNCHANGED round
  /\ UNCHANGED <<graph, group>>

-----------------------------------------------------------------------------
Followed_NoReExports(m) == {i.to : i \in {x \in graph.imports : x.from = m}} \ visited
Followed_Again(m) == Targets(m)

Followed(m) == Targets(m) \ visited

(* A file is taken from the queue and what it refers to is in use.         *)
Trace(m) ==
  /\ phase \in {"trace", "spread"} /\ m \in work
  /\ visited' = visited \cup Followed(m)
  /\ work' = (work \ {m}) \cup Followed(m)
  /\ UNCHANGED <<graph, phase, exports, next, round, changed, group>>

TraceEnds ==
  /\ phase \in {"trace", "spread"} /\ work = {}
  /\ phase' = (IF phase = "trace" THEN "siblings" ELSE "report")
  /\ UNCHANGED <<graph, exports, next, round, changed, visited, work, group>>

(* Once, group after group: the platform variants of a file in use are.    *)
Spread ==
  /\ phase = "siblings" /\ group <= Len(graph.siblings)
  /\ LET s == graph.siblings[group]
         brought == IF s \cap visited = {} THEN {} ELSE s \ visited IN
     visited' = visited \cup brought /\ work' = work \cup brought
  /\ group' = group + 1
  /\ UNCHANGED <<graph, phase, exports, next, round, changed>>

SpreadEnds ==
  /\ phase = "siblings" /\ group > Len(graph.siblings)
  /\ phase' = "spread"
  /\ UNCHANGED <<graph, exports, next, round, changed, visited, work, group>>

(* Unused files and exports are reported; the cycles come next.             *)
Report ==
  /\ phase = "report" /\ phase' = "reported"
  /\ UNCHANGED <<graph, exports, next, round, changed, visited, work, group>>

GraphNext == \/ LinkModule
             \/ (\E m \in Module : Trace(m)) \/ TraceEnds \/ Spread \/ SpreadEnds
             \/ Report

-----------------------------------------------------------------------------
(* The report.                                                             *)

(* The least superset of s closed under a relation given by its successors.*)
Closure(s, Succ(_), all) ==
  LET closed == {t \in SUBSET all : s \subseteq t /\ \A x \in t : Succ(x) \subseteq t} IN
  {x \in all : \A t \in closed : x \in t}

Use == Module \X Name

Barrel(m) == /\ ExportsOf(m) # {}
             /\ \A e \in ExportsOf(m) : e.kind \in {"star", "synthetic"}
             /\ Targets(m) \cap visited # {}

(* Neither files that are ignored, as declarations and those ignored by    *)
(* git, nor those exempt: configuration, tests, too large to parse.        *)
UnusedFiles ==
  {m \in Module \ (visited \cup graph.entry \cup graph.ignored \cup graph.exempt) :
     /\ ~Barrel(m)
     /\ ~\E i \in graph.imports : i.to = m /\ i.from \in visited}

(* A use of an export is passed on to every file its own re-exports from.  *)
PassedOn(use) ==
  UNION {{<<t, IF e.kind = "as" THEN e.name ELSE e.orig>> :
            t \in {s \in Sources(use[1]) :
                     e.kind = "as" \/ HasStar(s) \/ e.orig \in NamesIn(ExportsOf(s))}} :
          e \in {x \in ExportsOf(use[1]) :
                   x.name = use[2] /\ x.kind \in {"named", "as", "synthetic"}}}

AllOf(m) == {<<m, n>> : n \in NamesIn(ExportsOf(m))}

EntryUses_NoStar(e) == IF e.kind = "named" THEN {<<e.to, e.orig>>} ELSE {}

(* What an entry point re-exports is in use.                               *)
EntryUses(e) ==
  CASE e.kind = "star" -> AllOf(e.to)
    [] e.kind = "named" -> {<<e.to, e.orig>>}
    [] OTHER -> {}

(* import() stands for a namespace called "*", which an export * of the    *)
(* importing file is taken to re-export: the business of an entry point's  *)
(* users.                                                                  *)
PassesOn(i) == i.how = "dynamic" /\ i.from \in graph.entry
               /\ \E e \in ExportsOf(i.from) : e.kind \in {"star", "as"}

ImportUses(i) ==
  CASE i.how \in {"whole", "dynamic", "glob"} -> IF PassesOn(i) THEN {} ELSE AllOf(i.to)
    [] i.how = "bare" -> {}
    [] OTHER -> {<<i.to, n>> : n \in i.names}

Used ==
  LET direct == (UNION {EntryUses(e) : e \in {x \in graph.exports : x.in \in graph.entry}})
                \cup (UNION {ImportUses(i) : i \in graph.imports}) IN
  Closure(direct, PassedOn, Use)

UnusedExports ==
  {<<e.in, e.name>> :
     e \in {x \in graph.exports : /\ x.kind = "local"
                                  /\ x.in \in visited \ (graph.entry \cup graph.ignored)
                                  /\ <<x.in, x.name>> \notin Used}}

-----------------------------------------------------------------------------
(* What an export means in the language.                                   *)

DeclaredIn(m) == {e \in graph.exports : e.in = m}
StarTargets(m) == {e.to : e \in {x \in DeclaredIn(m) : x.kind = "star"}}

(* The names a file has, its own and those any number of export * bring.   *)
Starred(m) == Closure({m}, StarTargets, Module)
AllNames(m) == UNION {NamesIn(DeclaredIn(k)) : k \in Starred(m)}

StarredOnly(m) == \A k \in Starred(m) : StarTargets(k) # {} => Sources(k) = StarTargets(k)

(* Where a use of a name leads: nowhere further when the file declares it, *)
(* to the file it is re-exported from, else through export *.              *)
Renamed(use) ==
  LET m == use[1]  n == use[2]
      own == {e \in DeclaredIn(m) : e.kind # "star" /\ e.name = n} IN
  IF own # {} THEN {<<e.to, e.orig>> : e \in {x \in own : x.kind = "named"}}
  ELSE {<<t, n>> : t \in StarTargets(m)}

(* The name of an export * as stands for all the other file has.           *)
LeadsTo(use) ==
  Renamed(use) \cup
  UNION {{<<e.to, n>> : n \in AllNames(e.to)} :
           e \in {x \in DeclaredIn(use[1]) : x.kind = "as" /\ x.name = use[2]}}

NamesUsed(i) ==
  CASE i.how \in {"whole", "dynamic", "glob"} -> AllNames(i.to)
    [] i.how = "bare" -> {}
    [] OTHER -> i.names

(* The uses that the entry points and some imports lead to.                *)
UsesFrom(is, Succ(_)) ==
  Closure((UNION {{<<m, n>> : n \in AllNames(m)} : m \in graph.entry})
            \cup (UNION {{<<i.to, n>> : n \in NamesUsed(i)} : i \in is}),
          Succ, Use)

ImportsInUse == {i \in graph.imports : i.from \in visited}
Live == UsesFrom(ImportsInUse, LeadsTo)
Traced == UsesFrom({i \in ImportsInUse : ~PassesOn(i)}, Renamed)

(* Once export * is resolved, a file has every name that any number of     *)
(* them bring in, so the bound on the rounds cuts none off, and no other,  *)
(* where no file with an export * on the way re-exports anything else.     *)
LinkedExactly ==
  phase = "report" => \A m \in Module :
    /\ AllNames(m) \subseteq NamesIn(ExportsOf(m))
    /\ StarredOnly(m) => NamesIn(ExportsOf(m)) \subseteq AllNames(m)

(* Only what an export * names is brought by it.  The code does not see to *)
(* this: it takes the names of all files the file re-exports from.         *)
OnlyStarsBring ==
  phase = "report" => \A m \in Module : NamesIn(ExportsOf(m)) \subseteq AllNames(m)

Complete(s) == /\ graph.entry \subseteq s
               /\ \A m \in s : Targets(m) \subseteq s

WithVariants(s) == \A k \in DOMAIN graph.siblings :
                     graph.siblings[k] \cap s # {} => graph.siblings[k] \subseteq s

(* What imports alone lead to.                                             *)
Led(m) == \A s \in SUBSET Module : Complete(s) => m \in s

NothingMissed == Complete(visited)

VariantsKept ==
  \A k \in DOMAIN graph.siblings :
    (\E m \in graph.siblings[k] : Led(m)) => graph.siblings[k] \subseteq visited

NothingExtra ==
  \A s \in SUBSET Module : Complete(s) /\ WithVariants(s) => visited \subseteq s

RestReported ==
  \A m \in Module \ (visited \cup graph.ignored \cup graph.exempt) :
    Barrel(m) \/ m \in UnusedFiles

(* The files in use: the entry points, all that a file in use refers to    *)
(* (an unused file can go), the platform variants of what the entry points *)
(* lead to, and none that imports and platform variants do not lead to.    *)
(* Any other file is reported, but for barrels and those exempt: that none *)
(* in use imports it is no condition of its own.                           *)
ReachedExactly ==
  phase = "report" => NothingMissed /\ VariantsKept /\ NothingExtra /\ RestReported

(* An export reported as unused is one that no file in use can reach by    *)
(* its name through any chain of names re-exported and of export *; but    *)
(* for what an entry point imports at run time that passes a namespace on. *)
NoTracedExportReported ==
  phase = "report" => UnusedExports \cap Traced = {}

(* Nor one reached through export * as, or by any import().  The code does *)
(* not see to this: it follows the first as a name of the other file, and  *)
(* leaves such an import() uncounted.                                      *)
NoLiveExportReported ==
  phase = "report" => UnusedExports \cap Live = {}
=============================================================================
