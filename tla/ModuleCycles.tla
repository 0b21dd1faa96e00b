---------------------------- MODULE ModuleCycles ----------------------------
(***************************************************************************)
(* The cycles the dead-code analyser reports once its module graph is      *)
(* traced (deslop-js/src/report/cycles.ts, report/re-export-cycles.ts):     *)
(* Tarjan's algorithm on the imports that run, the elementary cycles of     *)
(* each component, those kept in which a name is used while a file is       *)
(* first run; then Tarjan's algorithm on the re-exports.                    *)
(***************************************************************************)
EXTENDS ModuleGraph, FiniteSets, SequencesExt

CONSTANTS MaxPerComponent,  \* cycles enumerated in one component
          MaxTotal,         \* cycles reported
          MaxSize           \* files of a component that is enumerated

ASSUME CycleAssumption == {MaxPerComponent, MaxTotal, MaxSize} \subseteq Nat

VARIABLES at,                           \* "imports", "cycles", "barrels" or "done"
          index, low, stack, frames,    \* Tarjan's algorithm
          seen, components,
          component, start, path, tried, found,  \* the enumeration
          cycles, barrels               \* what is reported

tarjan == <<index, low, stack, frames, seen, components>>
search == <<component, start, path, tried, found>>
cycleVars == <<at, tarjan, search, cycles, barrels>>
vars == <<graphVars, cycleVars>>

Fresh == [m \in Module |-> 0]
Unseen == [m \in Module |-> {}]

Init ==
  /\ GraphInit
  /\ at = "imports"
  /\ index = Fresh /\ low = Fresh /\ stack = <<>> /\ frames = <<>>
  /\ seen = Unseen /\ components = <<>>
  /\ component = 1 /\ start = 1 /\ path = <<>> /\ tried = Unseen /\ found = <<>>
  /\ cycles = <<>> /\ barrels = {}

-----------------------------------------------------------------------------
(* An import for types is erased, and one at run time runs too late.  A    *)
(* re-export, which has no symbols, counts as one with nothing but types.  *)
Runs(i) == i.how \notin {"type", "dynamic", "glob"}

RunsInto(m) == {i.to : i \in {x \in graph.imports : x.from = m /\ Runs(x)}}
Into(m) == IF at = "barrels" THEN Sources(m) ELSE RunsInto(m)

Indexed == {m \in Module : index[m] # 0}
Count == Cardinality(Indexed)

Enter(m) ==
  /\ index' = [index EXCEPT ![m] = Count + 1]
  /\ stack' = Append(stack, m)

StartNode ==
  /\ frames = <<>> /\ Indexed # Module
  /\ LET m == CHOOSE x \in Module \ Indexed : \A y \in Module \ Indexed : x <= y IN
     /\ Enter(m)
     /\ low' = [low EXCEPT ![m] = Count + 1]
     /\ frames' = <<m>>
  /\ UNCHANGED <<seen, components>>

Smaller(a, b) == IF a < b THEN a ELSE b

Lowered_Never(m, s) == low[m]

(* Only a file still on the stack is of the same component.                *)
Lowered(m, s) == IF s \in ToSet(stack) THEN Smaller(low[m], index[s]) ELSE low[m]

(* What a file refers to is looked at in the order in which the file does: *)
(* any.                                                                    *)
Advance ==
  /\ frames # <<>>
  /\ LET m == Last(frames) IN
     \E s \in Into(m) \ seen[m] :
       /\ seen' = [seen EXCEPT ![m] = @ \cup {s}]
       /\ IF index[s] = 0
          THEN /\ Enter(s)
               /\ low' = [low EXCEPT ![s] = Count + 1]
               /\ frames' = Append(frames, s)
          ELSE /\ low' = [low EXCEPT ![m] = Lowered(m, s)]
               /\ UNCHANGED <<index, stack, frames>>
  /\ UNCHANGED components

(* All successors seen: the root of a component takes it off the stack.    *)
(* Among the imports, a component of one file is dropped.                  *)
Retreat ==
  /\ frames # <<>>
  /\ LET d == Len(frames)  m == frames[d]
         root == CHOOSE k \in DOMAIN stack : stack[k] = m IN
     /\ Into(m) \subseteq seen[m]
     /\ frames' = Front(frames)
     /\ low' = IF d = 1 THEN low
               ELSE [low EXCEPT ![frames[d - 1]] = Smaller(@, low[m])]
     /\ IF low[m] # index[m] THEN UNCHANGED <<stack, components>>
        ELSE /\ stack' = SubSeq(stack, 1, root - 1)
             /\ components' = IF at = "imports" /\ root = Len(stack) THEN components
                              ELSE Append(components, Reverse(SubSeq(stack, root, Len(stack))))
  /\ UNCHANGED <<index, seen>>

Tarjan == /\ at \in {"imports", "barrels"}
          /\ StartNode \/ Advance \/ Retreat
          /\ UNCHANGED <<at, search, cycles, barrels>>

TarjanOver == frames = <<>> /\ Indexed = Module

(* s in order: what is no less than what follows it comes first if it did. *)
Sorted(s, Less(_, _)) ==
  {[k \in DOMAIN s |-> s[p[k]]] :
     p \in {q \in Bijection(DOMAIN s, DOMAIN s) :
             \A i, j \in DOMAIN s :
               i < j => \/ Less(s[q[i]], s[q[j]])
                        \/ ~Less(s[q[j]], s[q[i]]) /\ q[i] < q[j]}}

(* The smaller components first.                                           *)
ImportsDone ==
  /\ at = "imports" /\ TarjanOver
  /\ at' = "cycles"
  /\ components' \in Sorted(components, LAMBDA a, b : Len(a) < Len(b))
  /\ UNCHANGED <<index, low, stack, frames, seen, search, cycles, barrels>>

-----------------------------------------------------------------------------
Files == components[component]

(* A cycle is told from its first file on.                                 *)
Canonical(c) ==
  LET k == CHOOSE i \in DOMAIN c : \A j \in DOMAIN c : c[i] <= c[j] IN
  SubSeq(c, k, Len(c)) \o SubSeq(c, 1, k - 1)

Enumerated == Len(Files) > 2 /\ Len(Files) <= MaxSize

(* A component of two files is a cycle; a larger one is searched from each *)
(* of its files.                                                           *)
Searching == /\ at = "cycles" /\ component <= Len(components) /\ Len(cycles) < MaxTotal
             /\ Enumerated /\ Len(found) < MaxPerComponent

StartSearch ==
  /\ Searching /\ path = <<>> /\ start <= Len(Files)
  /\ path' = <<Files[start]>> /\ start' = start + 1
  /\ UNCHANGED <<at, tarjan, component, tried, found, cycles, barrels>>

Within(m) == Into(m) \cap ToSet(Files)

Extend ==
  /\ Searching /\ path # <<>>
  /\ LET m == Last(path) IN
     \E s \in Within(m) \ tried[m] :
       /\ tried' = [tried EXCEPT ![m] = @ \cup {s}]
       /\ found' = IF s = path[1] /\ Canonical(path) \notin ToSet(found)
                   THEN Append(found, Canonical(path)) ELSE found
       /\ path' = IF s \in ToSet(path) THEN path ELSE Append(path, s)
  /\ UNCHANGED <<at, tarjan, component, start, cycles, barrels>>

BackUp ==
  /\ Searching /\ path # <<>>
  /\ Within(Last(path)) \subseteq tried[Last(path)]
  /\ path' = Front(path) /\ tried' = [tried EXCEPT ![Last(path)] = {}]
  /\ UNCHANGED <<at, tarjan, component, start, found, cycles, barrels>>

Follows(c, i) == c[IF i = Len(c) THEN 1 ELSE i + 1]

(* Somewhere on the cycle a file uses, while it is first run, what it      *)
(* imports from the next.                                                  *)
AtInit(c) ==
  \E k \in DOMAIN c : \E i \in graph.imports :
    i.from = c[k] /\ i.to = Follows(c, k) /\ i.atInit /\ i.how \in {"names", "members", "whole"}

(* The search is over, has found enough, or was none.                      *)
Listed ==
  /\ at = "cycles" /\ component <= Len(components) /\ Len(cycles) < MaxTotal
  /\ Enumerated => \/ Len(found) = MaxPerComponent
                   \/ path = <<>> /\ start > Len(Files)
  /\ at' = "kept"
  /\ found' = IF Len(Files) = 2 /\ MaxSize >= 2 THEN <<Canonical(Files)>> ELSE found
  /\ path' = <<>> /\ tried' = Unseen
  /\ UNCHANGED <<tarjan, component, start, cycles, barrels>>

(* The harmful ones are kept, one after the other, up to the limit.        *)
Keep ==
  /\ at = "kept" /\ found # <<>> /\ Len(cycles) < MaxTotal
  /\ LET c == Head(found) IN
     cycles' = IF AtInit(c) /\ c \notin ToSet(cycles) THEN Append(cycles, c) ELSE cycles
  /\ found' = Tail(found)
  /\ UNCHANGED <<at, tarjan, component, start, path, tried, barrels>>

KeepEnds ==
  /\ at = "kept" /\ (found = <<>> \/ Len(cycles) >= MaxTotal)
  /\ at' = "cycles" /\ component' = component + 1 /\ start' = 1 /\ found' = <<>>
  /\ UNCHANGED <<tarjan, path, tried, cycles, barrels>>

(* The shorter cycles first.                                               *)
Before(a, b) == Len(a) < Len(b) \/ (Len(a) = Len(b) /\ a[1] < b[1])

CyclesDone ==
  /\ at = "cycles" /\ at' = "barrels"
  /\ component > Len(components) \/ Len(cycles) >= MaxTotal
  /\ cycles' \in Sorted(cycles, Before)
  /\ index' = Fresh /\ low' = Fresh /\ seen' = Unseen /\ components' = <<>>
  /\ UNCHANGED <<stack, frames, search, barrels>>

Cyclic_Larger(c) == Len(c) > 1

(* A file that re-exports from itself is a cycle too.                      *)
Cyclic(c) == Len(c) > 1 \/ c[1] \in Sources(c[1])

BarrelsDone ==
  /\ at = "barrels" /\ TarjanOver
  /\ at' = "done"
  /\ barrels' = {ToSet(c) : c \in {d \in ToSet(components) : Cyclic(d)}}
  /\ UNCHANGED <<tarjan, search, cycles>>

CycleNext == \/ Tarjan \/ ImportsDone
             \/ StartSearch \/ Extend \/ BackUp \/ Listed \/ Keep \/ KeepEnds
             \/ CyclesDone
             \/ BarrelsDone

Next == \/ GraphNext /\ UNCHANGED cycleVars
        \/ phase = "reported" /\ CycleNext /\ UNCHANGED graphVars

Spec == Init /\ [][Next]_vars /\ WF_vars(Next)

-----------------------------------------------------------------------------
(* The files one can come back to from m.                                  *)
Around(m, Succ(_)) == {n \in Closure(Succ(m), Succ, Module) : m \in Closure(Succ(n), Succ, Module)}

Elementary ==
  {c \in UNION {[1 .. k -> Module] : k \in 1 .. FileCount} :
     /\ IsInjective(c) /\ c = Canonical(c)
     /\ \A k \in DOMAIN c : Follows(c, k) \in RunsInto(c[k])}

Crowded(m) == LET around == Around(m, RunsInto)
                  listed == {c \in Elementary : ToSet(c) \subseteq around} IN
              Cardinality(around) > MaxSize \/ Cardinality(listed) > MaxPerComponent

(* A file that imports itself, and is on the cycles of at most one other.  *)
Lone(c) == Len(c) = 1 /\ Cardinality(Around(c[1], RunsInto)) <= 2

(* Every cycle reported is one that may read a name before it is set; and, *)
(* within the limits, all of them are reported, once, but for those of a   *)
(* file with itself, looked for only where more than two files are.        *)
CyclesExact ==
  at = "barrels" =>
    LET harmful == {c \in Elementary : AtInit(c)} IN
    /\ IsInjective(cycles) /\ ToSet(cycles) \subseteq harmful
    /\ Len(cycles) < MaxTotal =>
         \A c \in harmful : Lone(c) \/ Crowded(c[1]) \/ c \in ToSet(cycles)

(* The re-export cycles are the files that re-export from each other.      *)
BarrelsExact ==
  at = "done" => barrels = {Around(m, Sources) : m \in Module} \ {{}}

(* The analysis ends, whatever cycles the graph has.                       *)
AnalysisEnds == <>(at = "done")
=============================================================================
