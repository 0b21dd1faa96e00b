--------------------------- MODULE AnalyzerProofs ---------------------------
(***************************************************************************)
(* Proofs about the analyser, for every graph of files and whatever order  *)
(* its queue, its successors and its sorting leave open:                   *)
(*   - the files in use are those the entry points lead to;                *)
(*   - "What export * brings": once linked, a file has the names any chain *)
(*     of export * gives it, and none but those of the files that a file   *)
(*     with an export * re-exports from;                                   *)
(*   - "What is counted as used": no export is reported that is in use     *)
(*     through names and export *;                                         *)
(*   - "Tarjan's algorithm": its components are the files that lead to     *)
(*     each other, so the re-export cycles reported are all there are;     *)
(*   - "The elementary cycles": the search of a component finds them all,  *)
(*     so the import cycles reported are the harmful ones, within limits;  *)
(*   - "What the cache shows": what the incremental cache answers.         *)
(***************************************************************************)
EXTENDS ModuleCycles, SummaryCache, FiniteSetTheorems, WellFoundedInduction, SequenceTheorems,
        TLAPS

(* The invariant: a file that left the queue has what it refers to in use; *)
(* nothing is in use that a closed set of files could do without; and what *)
(* imports alone lead to is all in use when the platform variants are      *)
(* looked at, so that it does not matter that this is done only once.      *)
Phase == {"link", "trace", "siblings", "spread", "report", "reported"}

GraphOK == /\ graph.entry \subseteq Module
           /\ \A m \in Module : Targets(m) \subseteq Module
           /\ graph.siblings \in Seq(SUBSET Module)

Typed == /\ phase \in Phase
         /\ visited \subseteq Module /\ work \subseteq visited
         /\ group \in Nat \ {0}

Kept(k) == (\E m \in graph.siblings[k] : Led(m)) => graph.siblings[k] \subseteq visited

EntriesIn == phase # "link" => graph.entry \subseteq visited
Settled == \A m \in visited \ work : Targets(m) \subseteq visited
QueueEmpty == phase \in {"report", "reported"} => work = {}
LedIn == phase \in {"siblings", "spread", "report", "reported"}
           => \A m \in Module : Led(m) => m \in visited
KeptSoFar ==
  /\ phase \in {"link", "trace"} => group = 1
  /\ phase = "siblings" => \A k \in DOMAIN graph.siblings : k < group => Kept(k)
  /\ phase \in {"spread", "report", "reported"} => VariantsKept

Inv == /\ GraphOK /\ Typed /\ EntriesIn /\ Settled /\ QueueEmpty
       /\ LedIn /\ KeptSoFar /\ NothingExtra

(* What a family holds is a graph on the files.                            *)
LEMMA GraphsOK ==
  ASSUME \E f \in Family : graph \in f
  PROVE  GraphOK
<1>1. PICK f \in Family : graph \in f
  OBVIOUS
<1>2. /\ graph.entry \subseteq Module /\ graph.imports \subseteq Import
      /\ \A e \in graph.exports : e.kind # "local" => e.to \in Module
      /\ graph.siblings \in Seq(SUBSET Module)
  BY <1>1, GraphAssumption
<1>3. ASSUME NEW m \in Module
      PROVE  Targets(m) \subseteq Module
  <2>1. Sources(m) \subseteq Module
    BY <1>2 DEF Sources
  <2>2. \A i \in graph.imports : i.to \in Module
    BY <1>2 DEF Import
  <2> QED BY <2>1, <2>2 DEF Targets
<1> QED BY <1>2, <1>3 DEF GraphOK

LEMMA InitInv == ASSUME Init PROVE Inv
<1>1. GraphOK
  BY GraphsOK DEF Init, GraphInit
<1> QED BY <1>1 DEF Init, GraphInit, Inv, Typed, Phase, EntriesIn, Settled, QueueEmpty, LedIn,
                    KeptSoFar, NothingExtra

(* What only the graph decides does not change.                            *)
LEMMA GraphStays ==
  ASSUME graph' = graph
  PROVE  /\ GraphOK' = GraphOK
         /\ \A m : Targets(m)' = Targets(m)
         /\ \A m : Led(m)' = Led(m)
         /\ \A s : Complete(s)' = Complete(s)
         /\ \A s : WithVariants(s)' = WithVariants(s)
<1>1. \A m : Targets(m)' = Targets(m)
  BY DEF Targets, Sources
<1>2. \A s : Complete(s)' = Complete(s)
  BY <1>1 DEF Complete
<1>3. \A m : Led(m)' = Led(m)
  BY <1>2 DEF Led
<1>4. \A s : WithVariants(s)' = WithVariants(s)
  BY DEF WithVariants
<1>5. GraphOK' = GraphOK
  BY <1>1 DEF GraphOK
<1> QED BY <1>1, <1>2, <1>3, <1>4, <1>5

(* More files in use keep what was kept.                                   *)
LEMMA MoreKept ==
  ASSUME graph' = graph, visited \subseteq visited', NEW k, Kept(k)
  PROVE  Kept(k)'
BY GraphStays DEF Kept

LEMMA LinkInv == ASSUME Inv, LinkModule PROVE Inv'
<1> USE DEF Inv, LinkModule
<1>1. GraphOK' /\ graph' = graph
  BY GraphStays
<1>2. CASE phase' = "link"
  <2>1. visited' = visited /\ work' = work /\ group' = group /\ phase = "link"
    BY <1>2
  <2>2. NothingExtra'
    BY <2>1, <1>1, GraphStays DEF NothingExtra
  <2> QED BY <1>1, <1>2, <2>1, <2>2, GraphStays
          DEF Typed, Phase, EntriesIn, Settled, QueueEmpty, LedIn, KeptSoFar
<1>3. CASE phase' = "trace"
  <2>1. visited' = graph.entry /\ work' = graph.entry /\ group' = group
    BY <1>3
  <2>2. NothingExtra'
    BY <2>1, <1>1, GraphStays DEF NothingExtra, Complete
  <2> QED BY <1>1, <1>3, <2>1, <2>2
          DEF Typed, Phase, EntriesIn, Settled, QueueEmpty, LedIn, KeptSoFar, GraphOK
<1> QED BY <1>2, <1>3

LEMMA TraceInv == ASSUME Inv, NEW m \in Module, Trace(m) PROVE Inv'
<1> USE DEF Inv, Trace
<1>1. GraphOK' /\ graph' = graph
  BY GraphStays
<1>2. visited \subseteq visited' /\ phase' = phase /\ group' = group
      /\ visited' = visited \cup (Targets(m) \ visited) /\ m \in visited
  BY DEF Followed, Typed
<1>3. Typed'
  BY <1>2 DEF Typed, Followed, GraphOK
<1>4. EntriesIn' /\ QueueEmpty'
  BY <1>1, <1>2 DEF EntriesIn, QueueEmpty
<1>5. Settled'
  <2>1. ASSUME NEW x \in visited', x \notin work'
        PROVE  Targets(x) \subseteq visited'
    <3>1. x \in visited /\ (x = m \/ x \notin work)
      BY <2>1, <1>2 DEF Followed
    <3> QED BY <3>1, <1>2 DEF Settled
  <2> QED BY <2>1, <1>1, GraphStays DEF Settled
<1>6. LedIn'
  BY <1>1, <1>2, GraphStays DEF LedIn
<1>7. KeptSoFar'
  <2>1. \A k : Kept(k) => Kept(k)'
    BY <1>1, <1>2, MoreKept
  <2>2. phase = "trace" \/ phase = "spread"
    OBVIOUS
  <2>3. CASE phase = "trace"
    BY <2>3, <1>2 DEF KeptSoFar
  <2>4. CASE phase = "spread"
    BY <2>4, <2>1, <1>1, <1>2 DEF KeptSoFar, VariantsKept, Kept
  <2> QED BY <2>2, <2>3, <2>4
<1>8. NothingExtra'
  <2>1. ASSUME NEW s \in SUBSET Module, Complete(s), WithVariants(s)
        PROVE  visited' \subseteq s
    <3>1. visited \subseteq s
      BY <2>1 DEF NothingExtra
    <3>2. Targets(m) \subseteq s
      BY <3>1, <2>1, <1>2 DEF Complete
    <3> QED BY <3>1, <3>2, <1>2
  <2> QED BY <2>1, <1>1, GraphStays DEF NothingExtra
<1> QED BY <1>1, <1>3, <1>4, <1>5, <1>6, <1>7, <1>8

LEMMA TraceEndsInv == ASSUME Inv, TraceEnds PROVE Inv'
<1> USE DEF Inv, TraceEnds
<1>1. /\ GraphOK' /\ graph' = graph
      /\ visited' = visited /\ work' = {} /\ work = {} /\ group' = group
  BY GraphStays
<1>2. Typed' /\ EntriesIn' /\ QueueEmpty' /\ Settled' /\ NothingExtra'
  <2>1. NothingExtra'
    BY <1>1, GraphStays DEF NothingExtra
  <2>2. Settled'
    BY <1>1, GraphStays DEF Settled
  <2> QED BY <1>1, <2>1, <2>2 DEF Typed, Phase, EntriesIn, QueueEmpty
<1>3. Complete(visited)
  BY <1>1 DEF Complete, EntriesIn, Settled
<1>4. LedIn'
  BY <1>1, <1>3, GraphStays DEF LedIn, Led, Typed
<1>5. KeptSoFar'
  <2>1. CASE phase = "trace"
    <3>1. phase' = "siblings" /\ group' = 1
      BY <2>1 DEF KeptSoFar
    <3>2. \A k \in DOMAIN graph.siblings : ~(k < 1)
      BY DEF GraphOK
    <3> QED BY <3>1, <3>2, <1>1 DEF KeptSoFar
  <2>2. CASE phase = "spread"
    BY <2>2, <1>1, MoreKept DEF KeptSoFar, VariantsKept, Kept
  <2> QED BY <2>1, <2>2
<1> QED BY <1>1, <1>2, <1>4, <1>5

LEMMA SpreadInv == ASSUME Inv, Spread PROVE Inv'
<1> USE DEF Inv
<1> DEFINE s == graph.siblings[group]
           brought == IF s \cap visited = {} THEN {} ELSE s \ visited
<1>1. /\ graph' = graph /\ GraphOK' /\ phase = "siblings" /\ phase' = "siblings"
      /\ group \in DOMAIN graph.siblings /\ s \subseteq Module
      /\ visited' = visited \cup brought /\ work' = work \cup brought /\ group' = group + 1
  <2>1. graph' = graph /\ GraphOK'
    BY GraphStays DEF Spread
  <2>2. group \in 1 .. Len(graph.siblings)
    BY DEF Spread, Typed, GraphOK
  <2>3. s \in SUBSET Module
    BY <2>2 DEF GraphOK
  <2> QED BY <2>1, <2>2, <2>3 DEF Spread, GraphOK
<1>2. visited \subseteq visited' /\ brought \subseteq Module
  BY <1>1
<1> HIDE DEF brought, s
<1>3. Typed' /\ EntriesIn' /\ QueueEmpty'
  BY <1>1, <1>2 DEF Typed, EntriesIn, QueueEmpty
<1>4. Settled' /\ LedIn'
  BY <1>1, <1>2, GraphStays DEF Settled, LedIn
<1>5. KeptSoFar'
  <2>1. ASSUME NEW k \in DOMAIN graph.siblings, k < group + 1
        PROVE  Kept(k)'
    <3>1. CASE k < group
      BY <3>1, <1>1, <1>2, <2>1, MoreKept DEF KeptSoFar
    <3>2. CASE k = group
      <4>1. (\E m \in s : Led(m)) => s \cap visited # {}
        BY <1>1 DEF LedIn
      <4>2. s \cap visited # {} => s \subseteq visited'
        BY <1>1 DEF brought
      <4> QED BY <3>2, <4>1, <4>2, <1>1, GraphStays DEF Kept, s
    <3> QED BY <3>1, <3>2, <2>1, <1>1 DEF Typed, GraphOK
  <2> QED BY <2>1, <1>1 DEF KeptSoFar
<1>6. NothingExtra'
  <2>1. ASSUME NEW t \in SUBSET Module, Complete(t), WithVariants(t)
        PROVE  visited' \subseteq t
    <3>1. visited \subseteq t
      BY <2>1 DEF NothingExtra
    <3>2. brought \subseteq t
      BY <3>1, <2>1, <1>1 DEF WithVariants, brought, s
    <3> QED BY <3>1, <3>2, <1>1
  <2> QED BY <2>1, <1>1, GraphStays DEF NothingExtra
<1> QED BY <1>1, <1>3, <1>4, <1>5, <1>6

LEMMA SpreadEndsInv == ASSUME Inv, SpreadEnds PROVE Inv'
<1> USE DEF Inv, SpreadEnds
<1>1. GraphOK' /\ graph' = graph /\ visited' = visited /\ work' = work /\ group' = group
  BY GraphStays
<1>2. Settled' /\ LedIn' /\ NothingExtra'
  BY <1>1, GraphStays DEF Settled, LedIn, NothingExtra
<1>3. KeptSoFar'
  <2>1. \A k \in DOMAIN graph.siblings : k < group
    BY DEF GraphOK, Typed
  <2>2. \A k \in DOMAIN graph.siblings : Kept(k)'
    BY <2>1, <1>1, MoreKept DEF KeptSoFar
  <2> QED BY <2>2, <1>1 DEF KeptSoFar, VariantsKept, Kept
<1> QED BY <1>1, <1>2, <1>3 DEF Typed, Phase, EntriesIn, QueueEmpty

(* Steps that leave the trace alone: the report, and all later ones.       *)
LEMMA RestInv ==
  ASSUME Inv, UNCHANGED <<graph, visited, work, group>>,
         phase' = phase \/ (phase = "report" /\ phase' = "reported")
  PROVE  Inv'
<1> USE DEF Inv
<1>1. GraphOK' /\ Settled' /\ LedIn' /\ NothingExtra'
  BY GraphStays DEF Settled, LedIn, NothingExtra
<1>2. \A k : Kept(k) => Kept(k)'
  BY MoreKept
<1>3. KeptSoFar'
  BY <1>2 DEF KeptSoFar, VariantsKept, Kept
<1> QED BY <1>1, <1>3 DEF Typed, Phase, EntriesIn, QueueEmpty

LEMMA StepInv == ASSUME Inv, [Next]_vars PROVE Inv'
<1>1. CASE GraphNext
  BY <1>1, LinkInv, TraceInv, TraceEndsInv, SpreadInv, SpreadEndsInv, RestInv
     DEF GraphNext, Report
<1>2. CASE UNCHANGED graphVars
  BY <1>2, RestInv DEF graphVars
<1> QED BY <1>1, <1>2 DEF Next, vars

(* For every graph: all the files in use are found, with the platform      *)
(* variants of what the entry points lead to, and no others; and each file *)
(* not in use that is no barrel and not exempt is reported.                *)
THEOREM Reached == Spec => []ReachedExactly
<1>1. Inv => ReachedExactly
  <2> SUFFICES ASSUME Inv, phase = "report"
               PROVE  NothingMissed /\ VariantsKept /\ NothingExtra /\ RestReported
    BY DEF ReachedExactly
  <2>1. Complete(visited)
    BY DEF Inv, QueueEmpty, Settled, EntriesIn, Complete
  <2>2. RestReported
    <3> SUFFICES ASSUME NEW m \in Module, m \notin visited, m \notin graph.ignored,
                        m \notin graph.exempt, ~Barrel(m)
                 PROVE  m \in UnusedFiles
      BY DEF RestReported
    <3>1. ~\E i \in graph.imports : i.to = m /\ i.from \in visited
      BY <2>1 DEF Complete, Targets
    <3> QED BY <3>1, <2>1 DEF UnusedFiles, Complete
  <2> QED BY <2>1, <2>2 DEF Inv, KeptSoFar, NothingMissed
<1> QED BY <1>1, InitInv, StepInv, PTL DEF Spec

-----------------------------------------------------------------------------
(* What export * brings.  With one export *, a file collects the names of  *)
(* all files it re-exports from (StarSources).  After r rounds a file has  *)
(* the names of all files within r such steps (Gathered), those of a file  *)
(* linked earlier in the round being one step ahead (Distance).  A path without a file    *)
(* twice has no more steps than there are files, so that many rounds are   *)
(* enough, and so is a round that changed nothing (Unchanged).             *)

(* The graph analysed is one of those given.                               *)
Given == \E f \in Family : graph \in f

LEMMA FilesOK ==
  /\ FileCount \in Nat /\ FileCount \in Module /\ Module = 1 .. FileCount
  /\ IsFiniteSet(Module) /\ Cardinality(Module) = FileCount
<1>1. PICK n \in Module : n \in Nat /\ Module = 1 .. n
  BY GraphAssumption
<1>2. FileCount = n
  BY <1>1 DEF FileCount
<1> QED BY <1>1, <1>2, FS_Interval

LEMMA GivenOK ==
  ASSUME Given
  PROVE  /\ graph.entry \subseteq Module /\ graph.imports \subseteq Import
         /\ \A e \in graph.exports :
              /\ e \in Export /\ e.kind # "synthetic" /\ e.in \in Module
              /\ e.kind # "local" => e.to \in Module
              /\ e.kind # "star" => e.name \in Name
              /\ e.kind = "named" => e.orig \in Name
BY GraphAssumption DEF Given, Export

LEMMA SourcesOK == ASSUME Given, NEW m \in Module PROVE Sources(m) \subseteq Module
BY GivenOK DEF Sources

StarSources(m) == IF \E e \in DeclaredIn(m) : e.kind = "star" THEN Sources(m) ELSE {}

(* The names a file collects, through any number of such steps.            *)
Collected(m) == UNION {NamesIn(DeclaredIn(k)) : k \in Closure({m}, StarSources, Module)}

LEMMA StarSourcesOK == ASSUME Given, NEW m \in Module PROVE StarSources(m) \subseteq Module
BY SourcesOK DEF StarSources

LEMMA LeastNatural ==
  ASSUME NEW T, T \subseteq Nat, T # {}
  PROVE  \E n \in T : \A m \in T : n <= m
<1> DEFINE R == OpToRel(<, Nat)
<1>1. PICK n \in T : \A m \in T : <<m, n>> \notin R
  BY NatLessThanWellFounded, WFMin
<1>2. \A m \in T : n <= m
  <2> SUFFICES ASSUME NEW m \in T PROVE n <= m OBVIOUS
  <2>1. ~(m < n) BY <1>1 DEF OpToRel
  <2> QED BY <2>1
<1> QED BY <1>2

(* Paths of export * and what lies on one of at most k files.              *)
StarPath(m, k) == {p \in [1 .. k -> Module] :
                     p[1] = m /\ \A i \in 1 .. (k - 1) : p[i + 1] \in StarSources(p[i])}
Near(m, k) == {x \in Module : \E j \in 1 .. k : \E p \in StarPath(m, j) : p[j] = x}

StarClosed(s) == \A x \in s : StarSources(x) \subseteq s

LEMMA NearOne == ASSUME NEW m \in Module PROVE Near(m, 1) = {m}
<1>1. [i \in 1 .. 1 |-> m] \in StarPath(m, 1)
  BY DEF StarPath
<1> QED BY <1>1 DEF Near, StarPath

LEMMA NearNext ==
  ASSUME NEW m \in Module, NEW k \in Nat, NEW x \in Near(m, k),
         NEW t \in StarSources(x), t \in Module
  PROVE  t \in Near(m, k + 1)
<1>1. PICK j \in 1 .. k : \E p \in StarPath(m, j) : p[j] = x
  BY DEF Near
<1>2. PICK p \in StarPath(m, j) : p[j] = x
  BY <1>1
<1> DEFINE q == [i \in 1 .. (j + 1) |-> IF i = j + 1 THEN t ELSE p[i]]
<1>3. q \in [1 .. (j + 1) -> Module]
  BY <1>2 DEF StarPath
<1>4. q[1] = m
  BY <1>2 DEF StarPath
<1>5. ASSUME NEW i \in 1 .. j PROVE q[i + 1] \in StarSources(q[i])
  <2>1. CASE i = j
    BY <2>1, <1>2
  <2>2. CASE i # j
    <3>1. i \in 1 .. (j - 1) /\ i + 1 \in 1 .. j
      BY <2>2
    <3>2. p[i + 1] \in StarSources(p[i])
      BY <3>1, <1>2 DEF StarPath
    <3>3. q[i + 1] = p[i + 1] /\ q[i] = p[i]
      BY <3>1
    <3> QED BY <3>2, <3>3
  <2> QED BY <2>1, <2>2
<1>6. q \in StarPath(m, j + 1)
  BY <1>3, <1>4, <1>5 DEF StarPath
<1>7. q[j + 1] = t /\ j + 1 \in 1 .. (k + 1)
  OBVIOUS
<1> QED BY <1>6, <1>7 DEF Near

LEMMA NearFirst ==
  ASSUME Given, NEW m \in Module, NEW k \in Nat, NEW x \in Near(m, k + 1), x # m
  PROVE  \E t \in StarSources(m) : x \in Near(t, k)
<1>1. PICK j \in 1 .. (k + 1) : \E p \in StarPath(m, j) : p[j] = x
  BY DEF Near
<1>2. PICK p \in StarPath(m, j) : p[j] = x
  BY <1>1
<1>3. p \in [1 .. j -> Module] /\ p[1] = m
      /\ \A i \in 1 .. (j - 1) : p[i + 1] \in StarSources(p[i])
  BY <1>2 DEF StarPath
<1>4. j # 1 /\ j - 1 \in 1 .. k
  BY <1>2, <1>3
<1> DEFINE t == p[2]
<1> DEFINE q == [i \in 1 .. (j - 1) |-> p[i + 1]]
<1>5. t \in StarSources(m) /\ t \in Module
  <2>1. 1 \in 1 .. (j - 1) /\ 2 \in 1 .. j /\ 1 + 1 = 2
    BY <1>4
  <2> QED BY <2>1, <1>3
<1>6. q \in [1 .. (j - 1) -> Module] /\ q[1] = t
  BY <1>3, <1>4
<1>7. ASSUME NEW i \in 1 .. ((j - 1) - 1) PROVE q[i + 1] \in StarSources(q[i])
  <2>1. i + 1 \in 1 .. (j - 1) /\ i \in 1 .. (j - 1)
    BY <1>4
  <2> QED BY <2>1, <1>3
<1>8. q \in StarPath(t, j - 1)
  BY <1>6, <1>7 DEF StarPath
<1>9. q[j - 1] = x
  BY <1>4, <1>2
<1> QED BY <1>4, <1>5, <1>8, <1>9 DEF Near

(* A closed set keeps all that lies on a path from one of its files.       *)
LEMMA NearKept ==
  ASSUME NEW s, StarClosed(s), NEW m \in s, NEW k \in Nat
  PROVE  Near(m, k) \subseteq s
<1> SUFFICES ASSUME NEW j \in 1 .. k, NEW p \in StarPath(m, j), p[j] \notin s
             PROVE  FALSE
  BY DEF Near
<1>1. p[1] = m /\ \A i \in 1 .. (j - 1) : p[i + 1] \in StarSources(p[i])
  BY DEF StarPath
<1> DEFINE bad == {i \in 1 .. j : p[i] \notin s}
<1>2. bad \subseteq Nat /\ j \in bad
  OBVIOUS
<1>3. PICK i \in bad : \A l \in bad : i <= l
  BY <1>2, LeastNatural
<1>4. i # 1
  BY <1>1
<1>5. i - 1 \in 1 .. j /\ i - 1 \in 1 .. (j - 1) /\ i - 1 \notin bad
  BY <1>3, <1>4
<1>6. p[i - 1] \in s /\ p[(i - 1) + 1] \in StarSources(p[i - 1])
  BY <1>5, <1>1
<1>7. (i - 1) + 1 = i
  OBVIOUS
<1> QED BY <1>3, <1>6, <1>7 DEF StarClosed

(* Each file more of a path leads to a file more, until nothing is new.    *)
LEMMA NearGrows ==
  ASSUME Given, NEW m \in Module, NEW k \in Nat \ {0}
  PROVE  StarClosed(Near(m, k)) \/ Cardinality(Near(m, k)) >= k
<1> DEFINE bad == {i \in Nat \ {0} : ~StarClosed(Near(m, i)) /\ ~(Cardinality(Near(m, i)) >= i)}
<1> SUFFICES ASSUME bad # {} PROVE FALSE
  OBVIOUS
<1>1. PICK i \in bad : \A l \in bad : i <= l
  BY LeastNatural
<1>2. i # 1
  <2>1. Cardinality(Near(m, 1)) = 1
    BY NearOne, FS_Singleton
  <2> QED BY <2>1
<1> DEFINE b == i - 1
<1>3. b \in Nat \ {0} /\ b \notin bad /\ i = b + 1
  BY <1>1, <1>2
<1>4. m \in Near(m, b) /\ Near(m, b) \subseteq Near(m, i)
  <2>1. m \in Near(m, 1)
    BY NearOne
  <2>2. 1 \in 1 .. b /\ 1 .. 1 \subseteq 1 .. b /\ 1 .. b \subseteq 1 .. i
    BY <1>3
  <2>3. Near(m, b) \subseteq Near(m, i)
    BY <2>2 DEF Near
  <2>4. m \in Near(m, b)
    BY <2>1, <2>2 DEF Near
  <2> QED BY <2>3, <2>4
<1>5. /\ IsFiniteSet(Near(m, b)) /\ Cardinality(Near(m, b)) \in Nat
      /\ IsFiniteSet(Near(m, i)) /\ Cardinality(Near(m, i)) \in Nat
  <2>1. Near(m, b) \in SUBSET Module /\ Near(m, i) \in SUBSET Module
    BY DEF Near
  <2> QED BY <2>1, FilesOK, FS_Subset, FS_CardinalityType
<1>6. CASE StarClosed(Near(m, b))
  <2>1. Near(m, i) = Near(m, b)
    BY <1>4, <1>6, NearKept
  <2> QED BY <2>1, <1>6, <1>1
<1>7. CASE ~StarClosed(Near(m, b))
  <2>1. Cardinality(Near(m, b)) >= b
    BY <1>7, <1>3
  <2>2. PICK x \in Near(m, b) : ~(StarSources(x) \subseteq Near(m, b))
    BY <1>7 DEF StarClosed
  <2>3. PICK t \in StarSources(x) : t \notin Near(m, b)
    BY <2>2
  <2>4. t \in Module
    BY <2>2, <2>3, StarSourcesOK DEF Near
  <2>5. t \in Near(m, i)
    BY <1>3, <2>2, <2>3, <2>4, NearNext
  <2>6. Near(m, b) # Near(m, i) /\ Near(m, b) \in SUBSET Near(m, i)
    BY <2>3, <2>5, <1>4
  <2>7. /\ Cardinality(Near(m, b)) <= Cardinality(Near(m, i))
        /\ Cardinality(Near(m, b)) # Cardinality(Near(m, i))
    BY <2>6, <1>5, FS_Subset
  <2>8. Cardinality(Near(m, i)) >= i
    BY <1>3, <1>5, <2>1, <2>7
  <2> QED BY <2>8
<1> QED BY <1>6, <1>7

LEMMA NearAll == ASSUME Given, NEW m \in Module PROVE StarClosed(Near(m, FileCount))
<1>1. CASE Cardinality(Near(m, FileCount)) >= FileCount
  <2>1. Near(m, FileCount) \in SUBSET Module
    BY DEF Near
  <2>2. Cardinality(Near(m, FileCount)) \in Nat
    BY <2>1, FilesOK, FS_Subset, FS_CardinalityType
  <2>3. Cardinality(Module) = Cardinality(Near(m, FileCount))
    BY <2>1, <2>2, <1>1, FilesOK, FS_Subset
  <2>4. Near(m, FileCount) = Module
    BY <2>1, <2>3, FilesOK, FS_Subset
  <2> QED BY <2>4, StarSourcesOK DEF StarClosed
<1>2. FileCount \in Nat \ {0}
  BY FilesOK
<1> QED BY <1>1, <1>2, NearGrows

-----------------------------------------------------------------------------
Declared(m) == NamesIn(DeclaredIn(m))
NamesOf(m) == NamesIn(ExportsOf(m))

(* What a file collects: its own names, those of its sources when it has   *)
(* an export *, and no others.                                             *)
LEMMA CollectedOwn == ASSUME NEW m \in Module PROVE Declared(m) \subseteq Collected(m)
BY DEF Collected, Closure, Declared

LEMMA CollectedOK == ASSUME Given, NEW m \in Module PROVE Collected(m) \subseteq Name
BY GivenOK DEF Collected, NamesIn, DeclaredIn

LEMMA CollectedStar ==
  ASSUME NEW m \in Module, NEW t \in StarSources(m)
  PROVE  Collected(t) \subseteq Collected(m)
<1>1. Closure({t}, StarSources, Module) \subseteq Closure({m}, StarSources, Module)
  BY DEF Closure
<1> QED BY <1>1 DEF Collected

LEMMA CollectedWithin ==
  ASSUME NEW s \in SUBSET Module, StarClosed(s), NEW m \in s, NEW n \in Collected(m)
  PROVE  \E k \in s : n \in Declared(k)
<1>1. Closure({m}, StarSources, Module) \subseteq s
  BY DEF Closure, StarClosed
<1> QED BY <1>1 DEF Collected, Declared

Brought == /\ graph.exports \subseteq exports
           /\ \A e \in exports \ graph.exports :
                /\ e.in \in Module /\ e.name \in Collected(e.in)
                /\ e = Synthetic(e.in, e.name)

(* How many files away the names of a file come from so far.               *)
Distance(m) == IF m < next THEN round + 1 ELSE round

LinkTyped == /\ phase \in {"link", "trace", "siblings", "spread", "report", "reported"}
             /\ next \in Module /\ round \in 1 .. MaxRounds /\ changed \in BOOLEAN
Unchanged == phase = "link" /\ ~changed => \A m \in Module : m < next => Inherited(m) = {}
Gathered == phase = "link" =>
              \A m \in Module : \A x \in Near(m, Distance(m)) : Declared(x) \subseteq NamesOf(m)
Linked == phase # "link" => \A m \in Module : NamesOf(m) = Collected(m)

LinkIInv == Given /\ LinkTyped /\ Brought /\ Unchanged /\ Gathered /\ Linked

LEMMA LinkStays ==
  ASSUME graph' = graph
  PROVE  /\ Given' = Given
         /\ \A m : Declared(m)' = Declared(m) /\ Collected(m)' = Collected(m)
         /\ \A m : StarSources(m)' = StarSources(m) /\ Sources(m)' = Sources(m)
         /\ \A m, k : Near(m, k)' = Near(m, k)
<1>1. Given' = Given
  BY DEF Given
<1>2. \A m : DeclaredIn(m)' = DeclaredIn(m)
  BY DEF DeclaredIn
<1>3. \A m : Declared(m)' = Declared(m)
  BY <1>2 DEF Declared, NamesIn
<1>4. \A m : Sources(m)' = Sources(m)
  BY DEF Sources
<1>5. \A m : StarSources(m)' = StarSources(m)
  BY <1>2, <1>4 DEF StarSources
<1>6. \A m, k : StarPath(m, k)' = StarPath(m, k)
  BY <1>5 DEF StarPath
<1>7. \A m, k : Near(m, k)' = Near(m, k)
  BY <1>6 DEF Near
<1>8. \A m : Collected(m)' = Collected(m)
  BY <1>2, <1>5 DEF Collected, Closure, NamesIn
<1> QED BY <1>1, <1>3, <1>4, <1>5, <1>7, <1>8

LEMMA NamesGrow ==
  ASSUME exports \subseteq exports', graph' = graph
  PROVE  \A m : NamesOf(m) \subseteq NamesOf(m)'
BY DEF NamesOf, NamesIn, ExportsOf

(* What a file has is what it declares and what was brought.               *)
LEMMA NamesAre ==
  ASSUME Given, Brought, NEW m \in Module
  PROVE  /\ Declared(m) \subseteq NamesOf(m) /\ NamesOf(m) \subseteq Collected(m)
         /\ HasStar(m) <=> \E e \in DeclaredIn(m) : e.kind = "star"
<1>1. \A e \in exports \ graph.exports : e.kind = "synthetic"
  BY DEF Brought, Synthetic
<1>2. HasStar(m) <=> \E e \in DeclaredIn(m) : e.kind = "star"
  BY <1>1 DEF HasStar, DeclaredIn, Brought
<1>3. Declared(m) \subseteq NamesOf(m)
  BY DEF Brought, Declared, NamesOf, NamesIn, DeclaredIn, ExportsOf
<1>4. ASSUME NEW e \in ExportsOf(m), e.kind # "star" PROVE e.name \in Collected(m)
  <2>1. CASE e \in graph.exports
    <3>1. e.name \in Declared(m)
      BY <2>1, <1>4 DEF Declared, NamesIn, DeclaredIn, ExportsOf
    <3> QED BY <3>1, CollectedOwn
  <2>2. CASE e \notin graph.exports
    BY <2>2 DEF Brought, ExportsOf
  <2> QED BY <2>1, <2>2
<1>5. NamesOf(m) \subseteq Collected(m)
  BY <1>4 DEF NamesOf, NamesIn
<1> QED BY <1>2, <1>3, <1>5

LEMMA InheritedIs ==
  ASSUME Given, Brought, NEW m \in Module
  PROVE  \A n : n \in Inherited(m) <=>
                 n \notin NamesOf(m) /\ \E t \in StarSources(m) : n \in NamesOf(t)
<1>1. CASE HasStar(m)
  <2>1. StarSources(m) = Sources(m)
    BY <1>1, NamesAre DEF StarSources
  <2> QED BY <1>1, <2>1 DEF Inherited, NamesOf
<1>2. CASE ~HasStar(m)
  <2>1. StarSources(m) = {}
    BY <1>2, NamesAre DEF StarSources
  <2> QED BY <1>2, <2>1 DEF Inherited
<1> QED BY <1>1, <1>2

LEMMA LinkInit == ASSUME Init PROVE LinkIInv
<1> USE DEF Init, GraphInit
<1>1. Given /\ Brought
  BY DEF Given, Brought
<1>2. LinkTyped
  <2>1. 1 \in Module /\ 1 \in 1 .. MaxRounds
    BY FilesOK DEF MaxRounds
  <2> QED BY <2>1 DEF LinkTyped
<1>3. Unchanged
  BY FilesOK DEF Unchanged
<1>4. Gathered
  <2>1. \A m \in Module : Distance(m) = 1
    BY FilesOK DEF Distance
  <2> QED BY <2>1, <1>1, NearOne, NamesAre DEF Gathered
<1> QED BY <1>1, <1>2, <1>3, <1>4 DEF LinkIInv, Linked

(* A round without a change leaves nothing to bring.                       *)
LEMMA StillComplete ==
  ASSUME Given, Brought, \A m \in Module : Inherited(m) = {}, NEW m \in Module
  PROVE  Collected(m) \subseteq NamesOf(m)
<1> DEFINE s == {k \in Module : NamesOf(k) \subseteq NamesOf(m)}
<1>1. StarClosed(s)
  <2>1. ASSUME NEW k \in s, NEW t \in StarSources(k) PROVE t \in s
    <3>1. NamesOf(t) \subseteq NamesOf(k)
      BY InheritedIs
    <3> QED BY <3>1, StarSourcesOK
  <2> QED BY <2>1 DEF StarClosed
<1>2. \A n \in Collected(m) : \E k \in s : n \in Declared(k)
  BY <1>1, CollectedWithin
<1> QED BY <1>2, NamesAre

(* Nor does any path of export * need more files than there are.           *)
LEMMA FarComplete ==
  ASSUME Given, NEW m \in Module, NEW k \in Nat, k >= FileCount, NEW n \in Collected(m)
  PROVE  \E x \in Near(m, k) : n \in Declared(x)
<1>1. 1 .. 1 \subseteq 1 .. FileCount /\ 1 .. FileCount \subseteq 1 .. k
  BY FilesOK
<1>2. Near(m, 1) \subseteq Near(m, FileCount) /\ Near(m, FileCount) \subseteq Near(m, k)
  BY <1>1 DEF Near
<1>3. m \in Near(m, FileCount) /\ Near(m, FileCount) \in SUBSET Module
  BY <1>2, NearOne DEF Near
<1>4. \E x \in Near(m, FileCount) : n \in Declared(x)
  BY <1>3, NearAll, CollectedWithin
<1> QED BY <1>2, <1>4

LEMMA LinkKeeps == ASSUME LinkIInv, LinkModule PROVE LinkIInv'
<1> USE DEF LinkIInv
<1>1. graph' = graph /\ phase = "link" /\ exports \subseteq exports'
  BY DEF LinkModule
<1>2. /\ next \in Module /\ next \in Nat /\ next >= 1 /\ FileCount \in Nat
      /\ \A m \in Module : m \in Nat /\ m <= FileCount /\ m >= 1
      /\ round \in Nat /\ round <= MaxRounds /\ round >= 1 /\ MaxRounds = 2 * FileCount + 1
      /\ \A k \in Nat : k >= 1 /\ k <= FileCount => k \in Module
  BY FilesOK DEF LinkTyped, MaxRounds
<1>0. PICK f \in Module, r \in Nat : f = next /\ r = round
  BY <1>2
<1>3. Given'
  BY <1>1, LinkStays
<1>4. exports' = exports \cup {Synthetic(f, n) : n \in Inherited(f)}
  BY <1>0 DEF LinkModule
<1>5. Inherited(f) \subseteq Collected(f)
  <2>1. ASSUME NEW n \in Inherited(f) PROVE n \in Collected(f)
    <3>1. PICK t \in StarSources(f) : n \in NamesOf(t)
      BY <1>0, <1>2, InheritedIs
    <3>2. n \in Collected(t)
      BY <1>0, <1>2, <3>1, StarSourcesOK, NamesAre
    <3> QED BY <1>0, <1>2, <3>2, CollectedStar
  <2> QED BY <2>1
<1>6. Brought'
  <2>1. ASSUME NEW e \in exports', e \notin graph.exports
        PROVE  e.in \in Module /\ e.name \in Collected(e.in) /\ e = Synthetic(e.in, e.name)
    <3>1. CASE e \in exports
      BY <3>1, <2>1 DEF Brought
    <3>2. CASE e \notin exports
      <4>1. PICK n \in Inherited(f) : e = Synthetic(f, n)
        BY <1>4, <3>2
      <4> QED BY <4>1, <1>0, <1>2, <1>5 DEF Synthetic
    <3> QED BY <3>1, <3>2
  <2> QED BY <2>1, <1>1, LinkStays DEF Brought, Synthetic
<1>7. \A m \in Module : NamesOf(m) \subseteq NamesOf(m)'
  BY <1>1, NamesGrow
<1>8. \A n \in Inherited(f) : n \in NamesOf(f)'
  <2>1. \A n \in Inherited(f) : Synthetic(f, n) \in ExportsOf(f)'
    BY <1>4 DEF ExportsOf, Synthetic
  <2>2. \A n : Synthetic(f, n).kind # "star" /\ Synthetic(f, n).name = n
    BY DEF Synthetic
  <2>3. NamesOf(f)' = {e.name : e \in {x \in ExportsOf(f)' : x.kind # "star"}}
    BY DEF NamesOf, NamesIn
  <2> QED BY <2>1, <2>2, <2>3
<1>9. \A x \in Near(f, r + 1) : Declared(x) \subseteq NamesOf(f)'
  <2> SUFFICES ASSUME NEW x \in Near(f, r + 1), NEW n \in Declared(x)
               PROVE  n \in NamesOf(f)'
    OBVIOUS
  <2>1. CASE x = f
    BY <2>1, <1>0, <1>2, <1>7, NamesAre
  <2>2. CASE x # f
    <3>1. PICK t \in StarSources(f) : x \in Near(t, r)
      BY <1>0, <1>2, <2>2, NearFirst
    <3>2. t \in Module
      BY <1>0, <1>2, <3>1, StarSourcesOK
    <3>3. n \in NamesOf(t)
      <4>1. CASE Distance(t) = r
        BY <1>0,  <3>1, <3>2, <4>1, <1>1 DEF Gathered
      <4>2. CASE Distance(t) = r + 1
        <5>1. 1 .. r \subseteq 1 .. (r + 1)
          BY <1>0, <1>2
        <5>2. x \in Near(t, r + 1)
          BY <3>1, <5>1 DEF Near
        <5> QED BY <1>0, <3>2, <4>2, <5>2, <1>1 DEF Gathered
      <4> QED BY <1>0, <4>1, <4>2 DEF Distance
    <3>4. n \in NamesOf(f) \/ n \in Inherited(f)
      BY <1>0, <1>2, <3>1, <3>3, InheritedIs
    <3> QED BY <3>4, <1>0, <1>2, <1>7, <1>8
  <2> QED BY <2>1, <2>2
<1>10. \A m \in Module : \A x \in Near(m, IF m <= f THEN r + 1 ELSE r) :
         Declared(x) \subseteq NamesOf(m)'
  <2> SUFFICES ASSUME NEW m \in Module,
                      NEW x \in Near(m, IF m <= f THEN r + 1 ELSE r)
               PROVE  Declared(x) \subseteq NamesOf(m)'
    OBVIOUS
  <2>1. CASE m = f
    BY <2>1, <1>0, <1>2, <1>9
  <2>2. CASE m # f
    <3>1. (IF m <= f THEN r + 1 ELSE r) = Distance(m)
      BY <1>0, <1>2, <2>2 DEF Distance
    <3>2. Declared(x) \subseteq NamesOf(m)
      BY <1>1, <3>1 DEF Gathered
    <3> QED BY <3>2, <1>7
  <2> QED BY <2>1, <2>2
<1> DEFINE c == changed \/ Inherited(f) # {}
<1>11. ~c => /\ exports' = exports
             /\ \A m \in Module : m <= f => Inherited(m) = {}
  <2>1. ASSUME ~c PROVE exports' = exports
    BY <2>1, <1>4
  <2>2. ASSUME ~c, NEW m \in Module, m <= f PROVE Inherited(m) = {}
    <3>1. changed = FALSE
      BY <2>2 DEF LinkTyped
    <3> QED BY <2>2, <3>1, <1>1, <1>0, <1>2 DEF Unchanged
  <2> QED BY <2>1, <2>2
<1>12. CASE f # FileCount
  <2>1. next' = f + 1 /\ changed' = c /\ phase' = phase /\ round' = r
    BY <1>0, <1>12 DEF LinkModule
  <2>2. LinkTyped'
    BY <2>1, <1>1, <1>0, <1>2, <1>12 DEF LinkTyped
  <2>3. Unchanged'
    <3>1. ASSUME ~c, NEW m \in Module, m < f + 1 PROVE Inherited(m)' = {}
      <4>1. Inherited(m) = {}
        BY <3>1, <1>0, <1>2, <1>11
      <4>2. Inherited(m)' = Inherited(m)
        BY <3>1, <1>1, <1>11 DEF Inherited, HasStar, Sources, NamesIn, ExportsOf
      <4> QED BY <4>1, <4>2
    <3> QED BY <2>1, <3>1 DEF Unchanged
  <2>4. Gathered'
    <3>1. \A m \in Module : Distance(m)' = IF m <= f THEN r + 1 ELSE r
      BY <2>1, <1>0, <1>2 DEF Distance
    <3> QED BY <3>1, <1>1, <1>10, LinkStays DEF Gathered
  <2> QED BY <1>3, <1>6, <2>1, <2>2, <2>3, <2>4, <1>1 DEF Linked
<1>13. CASE f = FileCount /\ c /\ r < MaxRounds
  <2>1. next' = 1 /\ changed' = FALSE /\ phase' = phase /\ round' = r + 1
    BY <1>0, <1>1, <1>13 DEF LinkModule
  <2>2. LinkTyped'
    <3>1. next' \in Module /\ round' \in 1 .. MaxRounds
      BY <2>1, <1>0, <1>2, <1>13
    <3> QED BY <2>1, <3>1, <1>1 DEF LinkTyped
  <2>3. Unchanged'
    BY <2>1, <1>0, <1>2 DEF Unchanged
  <2>4. Gathered'
    <3>1. \A m \in Module : Distance(m)' = IF m <= f THEN r + 1 ELSE r
      BY <2>1, <1>0, <1>2, <1>13 DEF Distance
    <3> QED BY <3>1, <1>1, <1>10, LinkStays DEF Gathered
  <2> QED BY <1>3, <1>6, <2>1, <2>2, <2>3, <2>4, <1>1 DEF Linked
<1>14. CASE f = FileCount /\ ~(c /\ r < MaxRounds)
  <2>1. next' = 1 /\ changed' = FALSE /\ phase' = "trace" /\ round' = r
    BY <1>0, <1>14 DEF LinkModule
  <2>2. LinkTyped'
    <3>1. next' \in Module /\ round' \in 1 .. MaxRounds
      BY <2>1, <1>0, <1>2
    <3> QED BY <2>1, <3>1 DEF LinkTyped
  <2>3. \A m \in Module : Collected(m) \subseteq NamesOf(m)'
    <3>1. CASE ~c
      <4>1. \A m \in Module : Inherited(m) = {}
        BY <3>1, <1>0, <1>2, <1>11, <1>14
      <4> QED BY <4>1, <1>7, StillComplete
    <3>2. CASE r = MaxRounds
      <4> SUFFICES ASSUME NEW m \in Module PROVE Collected(m) \subseteq NamesOf(m)'
        OBVIOUS
      <4>1. \A x \in Near(m, r + 1)' : Declared(x)' \subseteq NamesOf(m)'
        BY <1>1, <1>0, <1>2, <1>10, <1>14, LinkStays
      <4>2. r + 1 \in Nat /\ r + 1 >= FileCount
        BY <1>0, <1>2, <3>2
      <4>3. \A n \in Collected(m) : \E x \in Near(m, r + 1) : n \in Declared(x)
        BY <4>2, FarComplete
      <4> QED BY <4>1, <4>3, <1>1, LinkStays
    <3> QED BY <3>1, <3>2, <1>0, <1>2, <1>14
  <2>4. \A m \in Module : NamesOf(m)' \subseteq Collected(m)
    <3>1. ASSUME NEW m \in Module PROVE (NamesOf(m) \subseteq Collected(m))'
      <4>1. \A e \in ExportsOf(m)' : e.kind # "star" => e.name \in Collected(m)
        <5> SUFFICES ASSUME NEW e \in ExportsOf(m)', e.kind # "star"
                     PROVE  e.name \in Collected(m)
          OBVIOUS
        <5>1. CASE e \in ExportsOf(m)
          <6>1. e.name \in NamesOf(m)
            BY <5>1 DEF NamesOf, NamesIn
          <6> QED BY <6>1, NamesAre
        <5>2. CASE e \notin ExportsOf(m)
          <6>1. PICK n \in Inherited(f) : e = Synthetic(f, n)
            BY <1>4, <5>2 DEF ExportsOf
          <6>2. f = m /\ e.name = n
            BY <6>1 DEF ExportsOf, Synthetic
          <6> QED BY <6>2, <1>5
        <5> QED BY <5>1, <5>2
      <4>2. NamesOf(m)' = {e.name : e \in {x \in ExportsOf(m)' : x.kind # "star"}}
        BY DEF NamesOf, NamesIn
      <4> QED BY <4>1, <4>2, <1>1, LinkStays
    <3> QED BY <3>1, <1>1, LinkStays
  <2>5. Linked'
    BY <2>3, <2>4, <1>1, LinkStays DEF Linked
  <2> QED BY <1>3, <1>6, <2>1, <2>2, <2>5 DEF Unchanged, Gathered
<1> QED BY <1>12, <1>13, <1>14

LEMMA LinkStep == ASSUME LinkIInv, [Next]_vars PROVE LinkIInv'
<1>1. ASSUME LinkModule PROVE LinkIInv'
  BY <1>1, LinkKeeps
<1>2. ASSUME UNCHANGED <<graph, exports, next, round, changed>>,
             (phase # "link" /\ phase' # "link") \/ phase' = phase,
             phase' \in {"link", "trace", "siblings", "spread", "report", "reported"}
      PROVE  LinkIInv'
  <2>1. Given' /\ Brought'
    BY <1>2, LinkStays DEF LinkIInv, Brought, Synthetic
  <2>2. \A m : NamesOf(m)' = NamesOf(m)
    BY <1>2 DEF NamesOf, NamesIn, ExportsOf
  <2>3. LinkTyped'
    BY <1>2 DEF LinkIInv, LinkTyped
  <2>4. Linked'
    BY <1>2, <2>2, LinkStays DEF LinkIInv, Linked
  <2>5. CASE phase = "link"
    <3>1. \A m : Distance(m)' = Distance(m)
      BY <1>2 DEF Distance
    <3>2. \A m : Inherited(m)' = Inherited(m)
      BY <1>2 DEF Inherited, HasStar, Sources, NamesIn, ExportsOf
    <3>3. Gathered'
      BY <1>2, <2>2, <2>5, <3>1, LinkStays DEF LinkIInv, Gathered
    <3>4. Unchanged'
      BY <1>2, <2>5, <3>2 DEF LinkIInv, Unchanged
    <3> QED BY <2>1, <2>3, <2>4, <3>3, <3>4 DEF LinkIInv
  <2>6. CASE phase # "link"
    <3>1. phase' # "link"
      BY <1>2, <2>6
    <3> QED BY <2>1, <2>3, <2>4, <3>1 DEF LinkIInv, Gathered, Unchanged
  <2> QED BY <2>5, <2>6
<1>3. ASSUME NEW m \in Module, Trace(m) PROVE LinkIInv'
  BY <1>2, <1>3 DEF Trace, LinkIInv, LinkTyped
<1>4. ASSUME TraceEnds PROVE LinkIInv'
  BY <1>2, <1>4 DEF TraceEnds
<1>5. ASSUME Spread PROVE LinkIInv'
  BY <1>2, <1>5 DEF Spread
<1>6. ASSUME SpreadEnds PROVE LinkIInv'
  BY <1>2, <1>6 DEF SpreadEnds
<1>7. ASSUME Report PROVE LinkIInv'
  BY <1>2, <1>7 DEF Report
<1>8. ASSUME UNCHANGED graphVars PROVE LinkIInv'
  BY <1>2, <1>8 DEF graphVars, LinkIInv, LinkTyped
<1> QED BY <1>1, <1>3, <1>4, <1>5, <1>6, <1>7, <1>8 DEF Next, GraphNext, vars

(* While export * is resolved, a file has its own names and some of those  *)
(* it is to collect, round by round those of one step further; then all.   *)
THEOREM LinkInvariant == Spec => []LinkIInv
<1>1. Init => LinkIInv
  BY LinkInit
<1>2. LinkIInv /\ [Next]_vars => LinkIInv'
  BY LinkStep
<1> QED BY <1>1, <1>2, PTL DEF Spec

(* What an export * names is collected, and nothing else is where a file   *)
(* with an export * re-exports nothing else.                               *)
LEMMA CollectedStars ==
  ASSUME Given, NEW m \in Module
  PROVE  /\ AllNames(m) \subseteq Collected(m)
         /\ StarredOnly(m) => Collected(m) \subseteq AllNames(m)
<1>1. \A k \in Module : StarTargets(k) \subseteq StarSources(k) /\ StarTargets(k) \subseteq Module
  BY GivenOK DEF StarTargets, StarSources, Sources, DeclaredIn
<1>2. \A k \in Module : StarTargets(k) = {} => StarSources(k) = {}
  BY DEF StarTargets, StarSources
<1>3. Starred(m) \subseteq Closure({m}, StarSources, Module)
  BY <1>1 DEF Starred, Closure
<1>4. ASSUME StarredOnly(m)
      PROVE  Closure({m}, StarSources, Module) \subseteq Starred(m)
  <2>1. Starred(m) \in SUBSET Module /\ m \in Starred(m)
    BY DEF Starred, Closure
  <2>2. ASSUME NEW k \in Starred(m) PROVE StarTargets(k) \subseteq Starred(m)
    BY <2>1, <1>1 DEF Starred, Closure
  <2>3. ASSUME NEW k \in Starred(m) PROVE StarSources(k) \subseteq StarTargets(k)
    BY <2>1, <1>2, <1>4 DEF StarSources, StarredOnly
  <2> QED BY <2>1, <2>2, <2>3 DEF Closure
<1> QED BY <1>3, <1>4 DEF AllNames, Collected

(* Once export * is resolved, a file has all the names that any number of  *)
(* them bring in, and none but those when it and the files with an         *)
(* export * that lie on the way re-export nothing else: the code stops     *)
(* when a round changes nothing, or after more rounds than a path of them  *)
(* has files.                                                              *)
THEOREM LinkedRight == Spec => []LinkedExactly
<1>1. LinkIInv => LinkedExactly
  BY CollectedStars DEF LinkIInv, Linked, LinkedExactly, NamesOf
<1> QED BY <1>1, LinkInvariant, PTL

-----------------------------------------------------------------------------
(* What is counted as used.                                                *)

(* The uses counted contain those of the entry points and imports, and     *)
(* what they are passed on to.                                             *)
LEMMA UsedOK ==
  /\ \A e \in graph.exports : e.in \in graph.entry => EntryUses(e) \cap Use \subseteq Used
  /\ \A i \in graph.imports : ImportUses(i) \cap Use \subseteq Used
  /\ \A u \in Used : u \in Use /\ PassedOn(u) \cap Use \subseteq Used
BY DEF Used, Closure

LEMMA TracedWithin ==
  ASSUME NEW s \in SUBSET Use,
         \A m \in graph.entry : \A n \in AllNames(m) : <<m, n>> \in s,
         \A i \in graph.imports : ~PassesOn(i) => \A n \in NamesUsed(i) : <<i.to, n>> \in s,
         \A u \in s : Renamed(u) \subseteq s
  PROVE  Traced \subseteq s
BY DEF Traced, UsesFrom, ImportsInUse, Closure

(* A name a file has but does not declare came with export * and is passed *)
(* on under the same name.                                                 *)
LEMMA UsedPassesOn ==
  ASSUME LinkIInv, phase # "link", NEW m \in Module, NEW n \in Collected(m), <<m, n>> \in Used,
         NEW e \in DeclaredIn(m),
         \/ e.kind = "named" /\ e.name = n
         \/ e.kind = "star" /\ n \notin Declared(m)
  PROVE  /\ e.kind = "named" /\ e.orig \in Collected(e.to) /\ e.orig \in Name
              => <<e.to, e.orig>> \in Used
         /\ e.kind = "star" /\ n \in Collected(e.to) /\ n \in Name => <<e.to, n>> \in Used
<1> DEFINE o == IF e.kind = "named" THEN e.orig ELSE n
<1> SUFFICES ASSUME o \in Collected(e.to), o \in Name PROVE <<e.to, o>> \in Used
  OBVIOUS
<1> USE DEF LinkIInv
<1>1. e \in graph.exports /\ e.in = m /\ e \in exports /\ e.to \in Module
      /\ e.kind \in {"named", "star"}
  BY GivenOK DEF DeclaredIn, Brought
<1>2. e.to \in Sources(m)
  BY <1>1 DEF Sources
<1>3. o \in NamesIn(ExportsOf(e.to))
  BY <1>1 DEF Linked, NamesOf
<1>4. \E x \in ExportsOf(m) : x.name = n /\ x.kind \in {"named", "synthetic"} /\ x.orig = o
  <2>1. CASE e.kind = "named"
    BY <2>1, <1>1 DEF ExportsOf
  <2>2. CASE e.kind = "star"
    <3>1. n \in NamesOf(m) /\ n \notin Declared(m)
      BY <2>2 DEF Linked
    <3>2. PICK x \in ExportsOf(m) : x.name = n /\ x.kind # "star"
      BY <3>1 DEF NamesOf, NamesIn
    <3>3. x \notin graph.exports
      BY <3>1, <3>2 DEF Declared, DeclaredIn, NamesIn, ExportsOf
    <3>4. x = Synthetic(x.in, x.name) /\ x.kind = "synthetic" /\ x.orig = n
      BY <3>2, <3>3 DEF Brought, ExportsOf, Synthetic
    <3> QED BY <3>2, <3>4, <2>2
  <2> QED BY <2>1, <2>2, <1>1
<1>5. PICK x \in ExportsOf(m) : x.name = n /\ x.kind \in {"named", "synthetic"} /\ x.orig = o
  BY <1>4
<1>6. <<e.to, o>> \in PassedOn(<<m, n>>)
  BY <1>2, <1>3, <1>5 DEF PassedOn
<1> QED BY <1>1, <1>6, UsedOK DEF Use

(* The uses that are counted, all those of the names of an entry point,    *)
(* and those of names that a file does not have, are closed.               *)
LEMMA TracedIsUsed ==
  ASSUME LinkIInv, phase # "link", NEW m \in Module, m \notin graph.entry, NEW n \in Collected(m),
         <<m, n>> \in Traced
  PROVE  <<m, n>> \in Used
<1>0. /\ LinkIInv /\ phase # "link" /\ Given
      /\ \A k \in Module : NamesIn(ExportsOf(k)) = Collected(k)
  BY DEF LinkIInv, Linked, NamesOf
<1> DEFINE s == {u \in Use : u[2] \notin Collected(u[1]) \/ u[1] \in graph.entry \/ u \in Used}
<1>1. \A k \in graph.entry : \A a \in Collected(k) : <<k, a>> \in s
  BY <1>0, CollectedOK, GivenOK DEF Use
<1>5. \A k \in Module : AllNames(k) \subseteq Collected(k)
  BY <1>0, CollectedStars
<1>2. ASSUME NEW i \in graph.imports, ~PassesOn(i), NEW a \in NamesUsed(i)
      PROVE  <<i.to, a>> \in s
  <2>1. i.to \in Module /\ i.names \subseteq Name
    BY <1>0, GivenOK DEF Import
  <2>2. Collected(i.to) = NamesIn(ExportsOf(i.to)) /\ Collected(i.to) \subseteq Name
    BY <1>0, <2>1, CollectedOK
  <2>3. CASE i.how \in {"whole", "dynamic", "glob"}
    <3>1. ImportUses(i) = {<<i.to, b>> : b \in Collected(i.to)}
      BY <1>2, <2>2, <2>3 DEF ImportUses, AllOf
    <3>2. a \in Collected(i.to)
      BY <1>2, <1>5, <2>1, <2>3 DEF NamesUsed
    <3>3. <<i.to, a>> \in ImportUses(i) \cap Use
      BY <2>1, <2>2, <3>1, <3>2 DEF Use
    <3> QED BY <3>3, UsedOK
  <2>4. CASE i.how \notin {"whole", "dynamic", "glob", "bare"}
    <3>1. ImportUses(i) = {<<i.to, b>> : b \in i.names} /\ a \in i.names
      BY <1>2, <2>4 DEF ImportUses, NamesUsed
    <3>2. <<i.to, a>> \in ImportUses(i) \cap Use
      BY <2>1, <3>1 DEF Use
    <3> QED BY <3>2, UsedOK
  <2>5. CASE i.how = "bare"
    BY <1>2, <2>5 DEF NamesUsed
  <2> QED BY <2>3, <2>4, <2>5
<1>3. ASSUME NEW u \in s, NEW v \in Renamed(u) PROVE v \in s
  <2>1. PICK k \in Module, a \in Name : u = <<k, a>>
    BY DEF Use
  <2> DEFINE own == {e \in DeclaredIn(k) : e.kind # "star" /\ e.name = a}
  <2>2. \A e \in DeclaredIn(k) : /\ e \in graph.exports /\ e.kind # "local" => e.to \in Module
                                 /\ e.kind = "named" => e.orig \in Name
    BY <1>0, GivenOK DEF DeclaredIn
  <2>3. CASE own # {}
    <3>1. PICK e \in own : e.kind = "named" /\ v = <<e.to, e.orig>>
      BY <2>1, <2>3 DEF Renamed
    <3>2. v \in Use /\ e.in = k /\ e \in graph.exports
      BY <2>2, <3>1 DEF Use, DeclaredIn
    <3>3. a \in Collected(k)
      BY <3>1, CollectedOwn DEF Declared, NamesIn
    <3>4. CASE k \in graph.entry
      <4>1. v \in EntryUses(e)
        BY <3>1 DEF EntryUses
      <4> QED BY <3>2, <3>4, <4>1, UsedOK
    <3>5. CASE u \in Used
      <4>1. e.orig \in Collected(e.to) /\ e.orig \in Name => <<e.to, e.orig>> \in Used
        <5>1. e \in DeclaredIn(k) /\ e.name = a /\ e.kind = "named" /\ <<k, a>> \in Used
          BY <2>1, <3>1, <3>5
        <5>2. LinkIInv /\ phase # "link"
          BY <1>0
        <5> QED BY <3>3, <5>1, <5>2, UsedPassesOn
      <4> QED BY <2>2, <3>1, <3>2, <4>1
    <3> QED BY <2>1, <3>3, <3>4, <3>5
  <2>4. CASE own = {}
    <3>1. PICK e \in DeclaredIn(k) : e.kind = "star" /\ v = <<e.to, a>>
      BY <2>1, <2>4 DEF Renamed, StarTargets
    <3>2. v \in Use /\ e.in = k /\ e \in graph.exports /\ e.to \in Module
      BY <2>2, <3>1 DEF Use, DeclaredIn
    <3>3. a \notin Declared(k)
      BY <2>4 DEF Declared, NamesIn
    <3>4. CASE a \notin Collected(k)
      <4>1. e.to \in StarSources(k)
        BY <3>1, <3>2 DEF StarSources, Sources
      <4> QED BY <3>1, <3>2, <3>4, <4>1, CollectedStar
    <3>5. CASE k \in graph.entry
      <4>1. EntryUses(e) = {<<e.to, b>> : b \in Collected(e.to)}
        BY <1>0, <3>1, <3>2 DEF EntryUses, AllOf
      <4> QED BY <3>1, <3>2, <3>5, <4>1, UsedOK
    <3>6. CASE u \in Used /\ a \in Collected(k)
      BY <2>1, <3>1, <3>2, <3>3, <3>6, <1>0, UsedPassesOn DEF Use
    <3> QED BY <2>1, <3>4, <3>5, <3>6
  <2> QED BY <2>3, <2>4
<1>4. Traced \subseteq s
  <2>1. \A k \in graph.entry : \A a \in AllNames(k) : <<k, a>> \in s
    BY <1>0, <1>1, <1>5, GivenOK
  <2> QED BY <2>1, <1>2, <1>3, TracedWithin
<1> QED BY <1>4

(* No export is reported that a file in use reaches by its name, through   *)
(* any chain of names re-exported and of export *, but by an import() of   *)
(* an entry point that passes a namespace on: what the report counts as    *)
(* used contains it.                                                       *)
THEOREM NoTracedReported == Spec => []NoTracedExportReported
<1>1. ASSUME LinkIInv, phase = "report" PROVE UnusedExports \cap Traced = {}
  <2> SUFFICES ASSUME NEW u \in UnusedExports, u \in Traced PROVE FALSE
    OBVIOUS
  <2>1. PICK e \in graph.exports : /\ e.kind = "local" /\ e.in \notin graph.entry
                                   /\ u = <<e.in, e.name>> /\ u \notin Used
    BY DEF UnusedExports
  <2>2. e.in \in Module /\ e.name \in Declared(e.in)
    BY <1>1, <2>1, GivenOK DEF LinkIInv, Declared, DeclaredIn, NamesIn
  <2>3. e.name \in Collected(e.in)
    BY <2>2, CollectedOwn
  <2> QED BY <1>1, <2>1, <2>2, <2>3, TracedIsUsed
<1>2. LinkIInv => NoTracedExportReported
  BY <1>1 DEF NoTracedExportReported
<1> QED BY <1>2, LinkInvariant, PTL

-----------------------------------------------------------------------------
(* Tarjan's algorithm, on the imports and again on the re-exports.  What   *)
(* is on the stack above a file of the search can be reached from it       *)
(* (Down) and reaches a file of the search no later than itself (Up); low  *)
(* is of a file on the stack that can be reached (LowIs) and no greater    *)
(* than of any already looked at (LowLeast); what left the stack leads     *)
(* only to what left it (FinishedClosed).  So a file whose low is its own  *)
(* is the first of a component, and what is above it the rest.             *)

(* b can be reached from a: no set of files closed under what is looked at *)
(* has a but not b.                                                        *)
Reach(a, b) == \A s \in SUBSET Module : a \in s /\ (\A x \in s : Into(x) \subseteq s) => b \in s
Both(a, b) == Reach(a, b) /\ Reach(b, a)

On == ToSet(stack)
Finished == Indexed \ On

TarjanTyped ==
  /\ index \in [Module -> Nat] /\ low \in [Module -> Nat] /\ seen \in [Module -> SUBSET Module]
  /\ stack \in Seq(Module) /\ frames \in Seq(Module) /\ components \in Seq(Seq(Module))

Numbered ==
  /\ \A x \in Module : index[x] <= Count
  /\ \A i, j \in DOMAIN stack : i < j => index[stack[i]] < index[stack[j]]
  /\ \A i, j \in DOMAIN frames : i < j => index[frames[i]] < index[frames[j]]
  /\ On \subseteq Indexed /\ ToSet(frames) \subseteq On

Looked ==
  /\ \A x \in Module : seen[x] \subseteq Indexed \cap Into(x)
  /\ \A x \in Module \ Indexed : seen[x] = {}
  /\ \A x \in Indexed \ ToSet(frames) : Into(x) \subseteq seen[x]

Down == \A i \in DOMAIN frames : \A x \in On : index[frames[i]] <= index[x] => Reach(frames[i], x)
Up == \A x \in On : \E i \in DOMAIN frames : index[frames[i]] <= index[x] /\ Reach(x, frames[i])

LowIs == \A i \in DOMAIN frames :
  /\ low[frames[i]] <= index[frames[i]]
  /\ \E y \in On : index[y] = low[frames[i]] /\ Reach(frames[i], y)

LowLeast == \A i \in DOMAIN frames : \A x \in On :
  index[frames[i]] <= index[x] /\ (i # Len(frames) => index[x] < index[frames[i + 1]])
    => \A s \in seen[x] \cap On : low[frames[i]] <= index[s]

FinishedClosed == \A x \in Finished : Into(x) \subseteq Finished

Component(c) ==
  /\ c # <<>> /\ ToSet(c) \subseteq Finished /\ IsInjective(c)
  /\ \A x \in ToSet(c) : ToSet(c) = {n \in Module : Both(x, n)}
Grouped == \A c \in ToSet(components) : Component(c)
Covered == \A x \in Finished :
  \/ \E c \in ToSet(components) : x \in ToSet(c)
  \/ at # "barrels" /\ \A n \in Module : Both(x, n) => n = x

TarjanOK == /\ Given /\ TarjanTyped /\ Numbered /\ Looked /\ Down /\ Up /\ LowIs /\ LowLeast
            /\ FinishedClosed /\ Grouped /\ Covered

LEMMA IntoOK == ASSUME Given, NEW m \in Module PROVE Into(m) \subseteq Module
<1>1. RunsInto(m) \subseteq Module
  BY GivenOK DEF RunsInto, Import
<1> QED BY <1>1, SourcesOK DEF Into

LEMMA ReachSelf == \A a : Reach(a, a)
BY DEF Reach

LEMMA ReachOver == \A a, b, c : Reach(a, b) /\ Reach(b, c) => Reach(a, c)
BY DEF Reach

LEMMA ReachNext == ASSUME NEW a, NEW b \in Module, NEW c \in Into(b), Reach(a, b) PROVE Reach(a, c)
BY DEF Reach

LEMMA ReachIn ==
  ASSUME NEW s \in SUBSET Module, \A x \in s : Into(x) \subseteq s, NEW a \in s, NEW b, Reach(a, b)
  PROVE  b \in s
BY DEF Reach

LEMMA ReachStays ==
  ASSUME graph' = graph, at = "barrels" <=> at' = "barrels"
  PROVE  /\ \A m : Into(m)' = Into(m)
         /\ \A a, b : Reach(a, b)' = Reach(a, b) /\ Both(a, b)' = Both(a, b)
         /\ Given' = Given
<1>1. \A m : Into(m)' = Into(m)
  BY DEF Into, Sources, RunsInto, Runs
<1>2. \A a, b : Reach(a, b)' = Reach(a, b)
  BY <1>1 DEF Reach
<1>3. Given' = Given
  BY DEF Given
<1> QED BY <1>1, <1>2, <1>3 DEF Both

LEMMA CountOK ==
  ASSUME index \in [Module -> Nat]
  PROVE  /\ IsFiniteSet(Indexed) /\ Count \in Nat
         /\ \A s \in Module \ Indexed : Cardinality(Indexed \cup {s}) = Count + 1
<1>1. Indexed \in SUBSET Module
  BY DEF Indexed
<1>2. IsFiniteSet(Indexed) /\ Count \in Nat
  BY <1>1, FilesOK, FS_Subset, FS_CardinalityType DEF Count
<1> QED BY <1>2, FS_AddElement DEF Count

(* What the sequences hold.                                                *)
LEMMA AppendHolds ==
  ASSUME NEW S, NEW q \in Seq(S), NEW e \in S
  PROVE  /\ Append(q, e) \in Seq(S) /\ ToSet(Append(q, e)) = ToSet(q) \cup {e}
         /\ Len(Append(q, e)) = Len(q) + 1 /\ Append(q, e)[Len(q) + 1] = e
         /\ \A i \in 1 .. Len(q) : Append(q, e)[i] = q[i]
         /\ DOMAIN q = 1 .. Len(q) /\ DOMAIN Append(q, e) = 1 .. (Len(q) + 1)
<1>1. /\ Append(q, e) \in Seq(S) /\ Len(Append(q, e)) = Len(q) + 1 /\ Append(q, e)[Len(q) + 1] = e
      /\ \A i \in 1 .. Len(q) : Append(q, e)[i] = q[i]
      /\ DOMAIN q = 1 .. Len(q) /\ DOMAIN Append(q, e) = 1 .. (Len(q) + 1) /\ Len(q) \in Nat
  OBVIOUS
<1>2. ToSet(Append(q, e)) = ToSet(q) \cup {e}
  BY <1>1 DEF ToSet
<1> QED BY <1>1, <1>2

LEMMA FrontHolds ==
  ASSUME NEW S, NEW q \in Seq(S), q # <<>>
  PROVE  /\ Front(q) \in Seq(S) /\ Len(q) \in Nat \ {0} /\ Len(Front(q)) = Len(q) - 1
         /\ DOMAIN q = 1 .. Len(q) /\ DOMAIN Front(q) = 1 .. (Len(q) - 1)
         /\ \A i \in 1 .. (Len(q) - 1) : Front(q)[i] = q[i]
         /\ \A x \in ToSet(q) : x \in ToSet(Front(q)) \/ x = q[Len(q)]
         /\ ToSet(Front(q)) \subseteq ToSet(q) /\ q[Len(q)] \in ToSet(q) /\ ToSet(q) \subseteq S
<1>1. PICK n \in Nat \ {0} : n = Len(q)
  OBVIOUS
<1>2. DOMAIN q = 1 .. n /\ \A i \in 1 .. n : q[i] \in S
  BY <1>1
<1>3. Front(q) = SubSeq(q, 1, n - 1)
  BY <1>1 DEF Front
<1>4. /\ Front(q) \in Seq(S) /\ Len(Front(q)) = n - 1 /\ DOMAIN Front(q) = 1 .. (n - 1)
      /\ \A i \in 1 .. (n - 1) : Front(q)[i] = q[i]
  BY <1>1, <1>2, <1>3
<1>5. ToSet(q) = {q[i] : i \in 1 .. n} /\ ToSet(Front(q)) = {q[i] : i \in 1 .. (n - 1)}
  BY <1>2, <1>4 DEF ToSet
<1>6. \A i \in 1 .. n : i \in 1 .. (n - 1) \/ i = n
  OBVIOUS
<1>7. n \in 1 .. n /\ 1 .. (n - 1) \subseteq 1 .. n
  OBVIOUS
<1>8. \A x \in ToSet(q) : x \in ToSet(Front(q)) \/ x = q[n]
  BY <1>5, <1>6
<1>9. ToSet(Front(q)) \subseteq ToSet(q) /\ q[n] \in ToSet(q) /\ ToSet(q) \subseteq S
  BY <1>2, <1>5, <1>7
<1> QED BY <1>1, <1>2, <1>4, <1>8, <1>9

(* A file entered is the last one on the stack and in the path.            *)
Entered(s) ==
  /\ Enter(s) /\ low' = [low EXCEPT ![s] = Count + 1] /\ frames' = Append(frames, s)
  /\ seen' \in [Module -> SUBSET Module]
  /\ \A x \in Module : /\ seen[x] \subseteq seen'[x] /\ seen'[x] \subseteq seen[x] \cup {s}
                       /\ s \in seen'[x] => frames # <<>> /\ x = Last(frames)
  /\ frames # <<>> => s \in Into(Last(frames))
  /\ UNCHANGED <<graph, at, components>>

LEMMA EnterKeeps ==
  ASSUME TarjanOK, NEW s \in Module \ Indexed, Entered(s)
  PROVE  TarjanOK'
<1>0. /\ Given /\ TarjanTyped /\ Numbered /\ Looked /\ Down /\ Up /\ LowIs /\ LowLeast
      /\ FinishedClosed /\ Grouped /\ Covered
  BY DEF TarjanOK
<1>1. PICK d \in Nat, c \in Nat, h \in Nat : d = Len(frames) /\ c = Count /\ h = Len(stack)
  BY <1>0, CountOK DEF TarjanTyped
<1>2. /\ index' \in [Module -> Nat] /\ index'[s] = c + 1 /\ index[s] = 0
      /\ \A x \in Module : x # s => index'[x] = index[x]
  BY <1>0, <1>1 DEF Entered, Enter, TarjanTyped, Indexed
<1>3. Indexed' = Indexed \cup {s} /\ Count' = c + 1
  <2>1. Indexed' = Indexed \cup {s}
    BY <1>2 DEF Indexed
  <2> QED BY <1>0, <2>1, <1>1, CountOK DEF Count, TarjanTyped
<1>4. /\ stack' \in Seq(Module) /\ On' = On \cup {s} /\ DOMAIN stack = 1 .. h
      /\ DOMAIN stack' = 1 .. (h + 1) /\ stack'[h + 1] = s
      /\ \A i \in 1 .. h : stack'[i] = stack[i] /\ stack[i] \in On
  <2>1. stack' = Append(stack, s) /\ stack \in Seq(Module)
    BY <1>0 DEF Entered, Enter, TarjanTyped
  <2>2. ToSet(stack)' = ToSet(stack) \cup {s}
    BY <2>1, AppendHolds
  <2>3. \A i \in 1 .. h : stack[i] \in On
    BY <1>1, <2>1, AppendHolds DEF On, ToSet
  <2> QED BY <1>1, <2>1, <2>2, <2>3, AppendHolds DEF On
<1>5. /\ frames' \in Seq(Module) /\ ToSet(frames)' = ToSet(frames) \cup {s}
      /\ DOMAIN frames = 1 .. d /\ Len(frames') = d + 1
      /\ DOMAIN frames' = 1 .. (d + 1) /\ frames'[d + 1] = s
      /\ \A i \in 1 .. d : frames'[i] = frames[i] /\ frames[i] \in ToSet(frames)
  <2>1. frames \in Seq(Module) /\ frames' = Append(frames, s)
    BY <1>0 DEF Entered, TarjanTyped
  <2>2. ToSet(frames)' = ToSet(frames) \cup {s}
    BY <2>1, AppendHolds
  <2>3. \A i \in 1 .. Len(frames) : frames[i] \in ToSet(frames)
    BY <2>1, AppendHolds DEF ToSet
  <2> QED BY <2>1, <2>2, <2>3, <1>1, AppendHolds
<1>6. /\ s \notin On /\ On \subseteq Module /\ ToSet(frames) \subseteq On
      /\ \A x \in On : index'[x] = index[x] /\ index[x] <= c /\ index[x] \in Nat
      /\ \A i \in 1 .. d : frames[i] \in On /\ frames[i] \in Module
  BY <1>0, <1>1, <1>2, <1>5 DEF Numbered, Indexed, TarjanTyped
<1>7. /\ \A m : Into(m)' = Into(m) /\ \A a, b : Reach(a, b)' = Reach(a, b)
      /\ \A a, b : Both(a, b)' = Both(a, b)
      /\ Given'
  BY <1>0, ReachStays DEF Entered
<1>8. \A x \in Module : x # s => low'[x] = low[x]
  BY <1>0 DEF Entered, TarjanTyped
<1>9. low'[s] = c + 1
  BY <1>0, <1>1 DEF Entered, TarjanTyped
<1>10. TarjanTyped'
  <2>1. low' \in [Module -> Nat]
    BY <1>0, <1>1 DEF Entered, TarjanTyped
  <2>2. seen' \in [Module -> SUBSET Module] /\ components' \in Seq(Seq(Module))
    BY <1>0 DEF Entered, TarjanTyped
  <2> QED BY <2>1, <2>2, <1>2, <1>4, <1>5 DEF TarjanTyped
<1>11. Numbered'
  <2>1. \A x \in Module : index'[x] <= Count'
    <3>1. ASSUME NEW x \in Module, x # s PROVE index'[x] <= c + 1
      <4>1. index[x] \in Nat /\ index[x] <= c /\ index'[x] = index[x]
        BY <1>0, <3>1, <1>1, <1>2 DEF Numbered, TarjanTyped
      <4> QED BY <4>1
    <3> QED BY <3>1, <1>2, <1>3
  <2>2. ASSUME NEW i \in 1 .. (h + 1), NEW j \in 1 .. (h + 1), i < j
        PROVE  index'[stack'[i]] < index'[stack'[j]]
    <3>1. i \in 1 .. h /\ (j \in 1 .. h \/ j = h + 1)
      BY <2>2
    <3>2. CASE j \in 1 .. h
      <4>1. index[stack[i]] < index[stack[j]]
        BY <1>0, <2>2, <3>1, <3>2, <1>4 DEF Numbered
      <4> QED BY <4>1, <3>1, <3>2, <1>4, <1>6
    <3>3. CASE j = h + 1
      BY <3>1, <3>3, <1>2, <1>4, <1>6
    <3> QED BY <3>1, <3>2, <3>3
  <2>3. ASSUME NEW i \in 1 .. (d + 1), NEW j \in 1 .. (d + 1), i < j
        PROVE  index'[frames'[i]] < index'[frames'[j]]
    <3>1. i \in 1 .. d /\ (j \in 1 .. d \/ j = d + 1)
      BY <2>3
    <3>2. CASE j \in 1 .. d
      <4>1. index[frames[i]] < index[frames[j]]
        BY <1>0, <2>3, <3>1, <3>2, <1>5 DEF Numbered
      <4> QED BY <4>1, <3>1, <3>2, <1>5, <1>6
    <3>3. CASE j = d + 1
      BY <3>1, <3>3, <1>2, <1>5, <1>6
    <3> QED BY <3>1, <3>2, <3>3
  <2>4. On' \subseteq Indexed' /\ ToSet(frames)' \subseteq On'
    BY <1>0, <1>3, <1>4, <1>5, <1>6 DEF Numbered
  <2> QED BY <1>0, <2>1, <2>2, <2>3, <2>4, <1>4, <1>5 DEF Numbered
<1>12. Looked'
  <2>1. \A x \in Module : /\ seen[x] \subseteq seen'[x] /\ seen'[x] \subseteq seen[x] \cup {s}
                          /\ s \in seen'[x] => s \in Into(x)
    BY DEF Entered
  <2>2. \A x \in Module : seen'[x] \subseteq Indexed' \cap Into(x)'
    <3> SUFFICES ASSUME NEW x \in Module, NEW t \in seen'[x] PROVE t \in Indexed' /\ t \in Into(x)
      BY <1>7
    <3>1. t \in seen[x] \/ t = s
      BY <2>1
    <3>2. t \in seen[x] => t \in Indexed /\ t \in Into(x)
      BY <1>0 DEF Looked
    <3> QED BY <2>1, <3>1, <3>2, <1>3
  <2>3. ASSUME NEW x \in Module \ Indexed' PROVE seen'[x] = {}
    <3>1. x \in Module \ Indexed /\ seen[x] = {}
      BY <1>0, <1>3 DEF Looked
    <3>2. frames # <<>> => Last(frames) \in Indexed
      BY <1>0, <1>1, <1>5, <1>6, FrontHolds DEF Last, Numbered, TarjanTyped
    <3> QED BY <3>1, <3>2, <2>1 DEF Entered
  <2>4. ASSUME NEW x \in Indexed' \ ToSet(frames)' PROVE Into(x)' \subseteq seen'[x]
    <3>1. x \in Indexed \ ToSet(frames) /\ x \in Module
      BY <1>3, <1>5 DEF Indexed
    <3>2. Into(x) \subseteq seen[x]
      BY <1>0, <3>1 DEF Looked
    <3> QED BY <2>1, <3>1, <3>2, <1>7
  <2> QED BY <1>0, <2>2, <2>3, <2>4 DEF Looked
<1>13. \A i \in 1 .. d : Reach(frames[i], s)
  <2> SUFFICES ASSUME NEW i \in 1 .. d PROVE Reach(frames[i], s)
    OBVIOUS
  <2>1. frames # <<>> /\ Last(frames) = frames[d] /\ d \in 1 .. d
    BY <1>1, <1>5 DEF Last
  <2>0. s \in Into(frames[d])
    BY <2>1 DEF Entered
  <2>2. index[frames[i]] <= index[frames[d]]
    <3>1. CASE i = d
      BY <3>1, <1>6
    <3>2. CASE i # d
      <4>1. i < d
        BY <3>2
      <4>2. index[frames[i]] < index[frames[d]]
        BY <1>0, <2>1, <4>1, <1>5 DEF Numbered
      <4> QED BY <2>1, <4>2, <1>6
    <3> QED BY <3>1, <3>2
  <2>3. Reach(frames[i], frames[d])
    BY <1>0, <2>1, <2>2, <1>5, <1>6 DEF Down
  <2> QED BY <2>0, <2>1, <2>3, <1>6, ReachNext
<1>14. Down'
  <2> SUFFICES ASSUME NEW i \in 1 .. (d + 1), NEW x \in On', index'[frames'[i]] <= index'[x]
               PROVE  Reach(frames'[i], x)
    BY <1>0, <1>5, <1>7 DEF Down
  <2>1. CASE i \in 1 .. d /\ x = s
    BY <2>1, <1>5, <1>13
  <2>2. CASE i \in 1 .. d /\ x # s
    <3>1. x \in On /\ frames'[i] = frames[i] /\ frames[i] \in On
      BY <2>2, <1>4, <1>5, <1>6
    <3>2. index[frames[i]] <= index[x]
      BY <3>1, <1>6
    <3> QED BY <1>0, <2>2, <3>1, <3>2, <1>5 DEF Down
  <2>3. CASE i = d + 1
    <3>1. index'[x] >= c + 1
      BY <2>3, <1>2, <1>5
    <3>2. x = s
      <4>1. ASSUME x \in On PROVE FALSE
        <5>1. index'[x] \in Nat /\ index'[x] <= c
          BY <4>1, <1>6
        <5> QED BY <3>1, <5>1
      <4> QED BY <4>1, <1>4
    <3> QED BY <2>3, <3>2, <1>5, ReachSelf
  <2>4. i \in 1 .. d \/ i = d + 1
    OBVIOUS
  <2> QED BY <2>1, <2>2, <2>3, <2>4
<1>15. Up'
  <2> SUFFICES ASSUME NEW x \in On'
               PROVE  \E i \in 1 .. (d + 1) : index'[frames'[i]] <= index'[x] /\ Reach(x, frames'[i])
    BY <1>0, <1>5, <1>7 DEF Up
  <2>1. CASE x = s
    BY <2>1, <1>2, <1>5, ReachSelf
  <2>2. CASE x \in On
    <3>1. PICK i \in 1 .. d : index[frames[i]] <= index[x] /\ Reach(x, frames[i])
      BY <1>0, <2>2, <1>5 DEF Up
    <3> QED BY <3>1, <2>2, <1>5, <1>6
  <2> QED BY <2>1, <2>2, <1>4
<1>16. LowIs'
  <2> SUFFICES ASSUME NEW i \in 1 .. (d + 1)
               PROVE  /\ low'[frames'[i]] <= index'[frames'[i]]
                      /\ \E y \in On' : index'[y] = low'[frames'[i]] /\ Reach(frames'[i], y)
    BY <1>0, <1>5, <1>7 DEF LowIs
  <2>1. CASE i = d + 1
    BY <2>1, <1>2, <1>4, <1>5, <1>9, ReachSelf
  <2>2. CASE i \in 1 .. d
    <3>1. frames'[i] = frames[i] /\ low'[frames'[i]] = low[frames[i]]
          /\ index'[frames'[i]] = index[frames[i]]
      BY <2>2, <1>5, <1>6, <1>8
    <3>2. PICK y \in On : index[y] = low[frames[i]] /\ Reach(frames[i], y)
      BY <1>0, <2>2, <1>5 DEF LowIs
    <3>3. low[frames[i]] <= index[frames[i]]
      BY <1>0, <2>2, <1>5 DEF LowIs
    <3> QED BY <3>1, <3>2, <3>3, <1>4, <1>6
  <2>3. i \in 1 .. d \/ i = d + 1
    OBVIOUS
  <2> QED BY <2>1, <2>2, <2>3
<1>17. LowLeast'
  <2> SUFFICES ASSUME NEW i \in 1 .. (d + 1), NEW x \in On', index'[frames'[i]] <= index'[x],
                      i # d + 1 => index'[x] < index'[frames'[i + 1]],
                      NEW t \in seen'[x] \cap On'
               PROVE  low'[frames'[i]] <= index'[t]
    BY <1>0, <1>5, <1>7 DEF LowLeast
  <2>1. CASE i = d + 1
    <3>1. x = s
      BY <2>1, <1>2, <1>4, <1>5, <1>6
    <3>2. t = s
      <4>1. seen[s] = {} /\ seen'[s] \subseteq seen[s] \cup {s}
        BY <1>0 DEF Entered, Looked
      <4> QED BY <3>1, <4>1
    <3> QED BY <2>1, <3>2, <1>2, <1>5, <1>9
  <2>2. CASE i \in 1 .. d /\ x # s
    <3>1. x \in On /\ index[frames[i]] <= index[x] /\ low'[frames'[i]] = low[frames[i]]
      BY <2>2, <1>4, <1>5, <1>6, <1>8
    <3>2. i # d => index[x] < index[frames[i + 1]]
      <4>1. ASSUME i # d PROVE i + 1 \in 1 .. d /\ i # d + 1
        BY <4>1, <2>2
      <4> QED BY <4>1, <3>1, <1>5, <1>6
    <3>3. CASE t = s
      <4>1. low[frames[i]] <= index[frames[i]]
        BY <1>0, <2>2, <1>5 DEF LowIs
      <4>2. low[frames[i]] \in Nat
        BY <1>0, <2>2, <1>6 DEF TarjanTyped
      <4>3. index[frames[i]] <= c /\ index[frames[i]] \in Nat
        BY <2>2, <1>6
      <4>4. index'[t] = c + 1 /\ low'[frames'[i]] = low[frames[i]]
        BY <3>1, <3>3, <1>2
      <4> QED BY <4>1, <4>2, <4>3, <4>4
    <3>4. CASE t # s
      <4>0. seen'[x] \subseteq seen[x] \cup {s}
        BY <3>1, <1>6 DEF Entered
      <4>1. t \in seen[x] \cap On
        BY <4>0, <3>1, <3>4, <1>4, <1>6
      <4>2. low[frames[i]] <= index[t]
        BY <1>0, <4>1, <3>1, <3>2, <2>2, <1>1, <1>5 DEF LowLeast
      <4> QED BY <4>1, <4>2, <3>1, <1>6
    <3> QED BY <3>3, <3>4
  <2>3. CASE i \in 1 .. d /\ x = s
    <3>1. i # d + 1 /\ i + 1 \in 1 .. (d + 1) /\ (i + 1 \in 1 .. d \/ i + 1 = d + 1)
      BY <2>3
    <3>2. index'[frames'[i + 1]] <= c + 1
      <4>1. CASE i + 1 \in 1 .. d
        <5>1. frames'[i + 1] = frames[i + 1] /\ frames[i + 1] \in On
          BY <4>1, <1>5, <1>6
        <5> QED BY <5>1, <1>6
      <4>2. CASE i + 1 = d + 1
        BY <4>2, <1>2, <1>5
      <4> QED BY <3>1, <4>1, <4>2
    <3>3. index'[frames'[i + 1]] \in Nat /\ index'[x] = c + 1
      BY <3>1, <2>3, <1>2, <1>5, <1>6
    <3>4. index'[x] < index'[frames'[i + 1]]
      BY <3>1
    <3> QED BY <3>2, <3>3, <3>4
  <2>4. i \in 1 .. d \/ i = d + 1
    OBVIOUS
  <2> QED BY <2>1, <2>2, <2>3, <2>4
<1>18. Finished' = Finished
  BY <1>3, <1>4, <1>6 DEF Finished
<1>19. FinishedClosed' /\ Grouped' /\ Covered'
  BY <1>0, <1>7, <1>18 DEF Entered, FinishedClosed, Grouped, Covered, Component
<1> QED BY <1>7, <1>10, <1>11, <1>12, <1>14, <1>15, <1>16, <1>17, <1>19 DEF TarjanOK

(* Of a file that has been looked at before only the index counts.         *)
LookedAt(m, s) ==
  /\ frames # <<>> /\ m = Last(frames) /\ s \in Into(m)
  /\ seen' = [seen EXCEPT ![m] = @ \cup {s}] /\ low' = [low EXCEPT ![m] = Lowered(m, s)]
  /\ UNCHANGED <<index, stack, frames, graph, at, components>>

LEMMA LookKeeps ==
  ASSUME TarjanOK, NEW m, NEW s \in Indexed, LookedAt(m, s)
  PROVE  TarjanOK'
<1>0. /\ Given /\ TarjanTyped /\ Numbered /\ Looked /\ Down /\ Up /\ LowIs /\ LowLeast
      /\ FinishedClosed /\ Grouped /\ Covered
  BY DEF TarjanOK
<1>1. PICK d \in Nat \ {0} : /\ d = Len(frames) /\ DOMAIN frames = 1 .. d /\ frames[d] = m
                             /\ m \in ToSet(frames)
                             /\ \A i \in 1 .. d : frames[i] \in ToSet(frames)
  <2>1. frames \in Seq(Module) /\ frames # <<>> /\ m = Last(frames)
    BY <1>0 DEF LookedAt, TarjanTyped
  <2>2. Len(frames) \in Nat \ {0} /\ DOMAIN frames = 1 .. Len(frames)
    BY <2>1
  <2>3. \A i \in 1 .. Len(frames) : frames[i] \in ToSet(frames)
    BY <2>2 DEF ToSet
  <2>4. Len(frames) \in 1 .. Len(frames) /\ frames[Len(frames)] = m
    BY <2>1, <2>2 DEF Last
  <2> QED BY <2>2, <2>3, <2>4
<1>2. /\ m \in On /\ m \in Module /\ s \in Module /\ On \subseteq Module
      /\ \A i \in 1 .. d : frames[i] \in On
      /\ \A x \in Module : index[x] \in Nat /\ low[x] \in Nat
  BY <1>0, <1>1 DEF Numbered, Indexed, TarjanTyped
<1>3. /\ seen' \in [Module -> SUBSET Module] /\ low' \in [Module -> Nat]
      /\ seen'[m] = seen[m] \cup {s} /\ low'[m] = Lowered(m, s)
      /\ \A x \in Module : x # m => seen'[x] = seen[x] /\ low'[x] = low[x]
  <2>1. Lowered(m, s) \in Nat
    BY <1>2 DEF Lowered, Smaller
  <2> QED BY <1>0, <1>2, <2>1 DEF LookedAt, TarjanTyped
<1>4. /\ low'[m] \in Nat /\ low'[m] <= low[m]
      /\ s \in On => low'[m] <= index[s]
      /\ low'[m] = low[m] \/ (s \in On /\ low'[m] = index[s])
  BY <1>2, <1>3 DEF Lowered, Smaller, On
<1>5. /\ index' = index /\ stack' = stack /\ frames' = frames /\ components' = components
      /\ at' = at /\ On' = On /\ Indexed' = Indexed /\ Count' = Count /\ Finished' = Finished
  BY DEF LookedAt, On, Indexed, Count, Finished
<1>6. /\ \A x : Into(x)' = Into(x) /\ \A a, b : Reach(a, b)' = Reach(a, b)
      /\ \A a, b : Both(a, b)' = Both(a, b)
      /\ Given' /\ s \in Into(m)
  BY <1>0, ReachStays DEF LookedAt
<1>7. TarjanTyped'
  BY <1>0, <1>3, <1>5 DEF TarjanTyped
<1>8. Numbered'
  BY <1>0, <1>5 DEF Numbered
<1>9. Looked'
  <2>1. \A x \in Module : seen'[x] \subseteq Indexed \cap Into(x)
    <3> SUFFICES ASSUME NEW x \in Module PROVE seen'[x] \subseteq Indexed \cap Into(x)
      OBVIOUS
    <3>1. seen[x] \subseteq Indexed \cap Into(x)
      BY <1>0 DEF Looked
    <3>2. CASE x = m
      BY <3>1, <3>2, <1>3, <1>6
    <3>3. CASE x # m
      BY <3>1, <3>3, <1>3
    <3> QED BY <3>2, <3>3
  <2>2. \A x \in Module \ Indexed : seen'[x] = {}
    BY <1>0, <1>2, <1>3 DEF Looked, Numbered
  <2>3. \A x \in Indexed \ ToSet(frames) : Into(x) \subseteq seen'[x]
    <3>1. Indexed \subseteq Module
      BY DEF Indexed
    <3> QED BY <3>1, <1>0, <1>1, <1>3 DEF Looked
  <2> QED BY <2>1, <2>2, <2>3, <1>5, <1>6 DEF Looked
<1>10. Down' /\ Up'
  BY <1>0, <1>5, <1>6 DEF Down, Up
<1>11. \A i \in 1 .. d : i # d => frames[i] # m
  <2>1. ASSUME NEW i \in 1 .. d, i # d PROVE frames[i] # m
    <3>1. i < d /\ d \in 1 .. d
      BY <2>1
    <3>2. index[frames[i]] < index[frames[d]]
      BY <1>0, <1>1, <3>1 DEF Numbered
    <3> QED BY <3>2, <1>1, <1>2
  <2> QED BY <2>1
<1>12. LowIs'
  <2> SUFFICES ASSUME NEW i \in 1 .. d
               PROVE  /\ low'[frames[i]] <= index[frames[i]]
                      /\ \E y \in On : index[y] = low'[frames[i]] /\ Reach(frames[i], y)
    BY <1>1, <1>5, <1>6 DEF LowIs
  <2>1. /\ low[frames[i]] <= index[frames[i]]
        /\ \E y \in On : index[y] = low[frames[i]] /\ Reach(frames[i], y)
    BY <1>0, <1>1 DEF LowIs
  <2>2. CASE i # d
    BY <2>1, <2>2, <1>2, <1>3, <1>11
  <2>3. CASE i = d
    <3>1. Reach(m, s)
      BY <1>2, <1>6, ReachSelf, ReachNext
    <3> QED BY <2>1, <2>3, <3>1, <1>1, <1>2, <1>4
  <2> QED BY <2>2, <2>3
<1>13. LowLeast'
  <2> SUFFICES ASSUME NEW i \in 1 .. d, NEW x \in On, index[frames[i]] <= index[x],
                      i # d => index[x] < index[frames[i + 1]], NEW t \in seen'[x] \cap On
               PROVE  low'[frames[i]] <= index[t]
    BY <1>1, <1>5 DEF LowLeast
  <2>1. low'[frames[i]] <= low[frames[i]] /\ low[frames[i]] \in Nat /\ index[t] \in Nat
        /\ low'[frames[i]] \in Nat
    <3>1. CASE i = d
      BY <3>1, <1>1, <1>2, <1>4
    <3>2. CASE i # d
      BY <3>2, <1>2, <1>3, <1>11
    <3> QED BY <3>1, <3>2
  <2>2. CASE t \in seen[x]
    <3>1. low[frames[i]] <= index[t]
      BY <1>0, <1>1, <2>2 DEF LowLeast
    <3> QED BY <2>1, <3>1
  <2>3. CASE t \notin seen[x]
    <3>1. x = m /\ t = s
      BY <2>3, <1>2, <1>3
    <3>2. i = d
      <4>1. ASSUME i # d PROVE FALSE
        <5>1. i + 1 \in 1 .. d /\ index[x] < index[frames[i + 1]]
          BY <4>1
        <5>2. index[frames[i + 1]] <= index[frames[d]]
          <6>1. CASE i + 1 = d
            BY <6>1, <1>1, <1>2
          <6>2. CASE i + 1 # d
            <7>1. i + 1 < d /\ d \in 1 .. d
              BY <6>2, <5>1
            <7>2. index[frames[i + 1]] < index[frames[d]]
              BY <1>0, <1>1, <5>1, <7>1 DEF Numbered
            <7> QED BY <7>2, <5>1, <1>1, <1>2
          <6> QED BY <6>1, <6>2
        <5>3. index[x] = index[frames[d]] /\ index[x] \in Nat /\ index[frames[i + 1]] \in Nat
          BY <3>1, <5>1, <1>1, <1>2
        <5> QED BY <5>1, <5>2, <5>3
      <4> QED BY <4>1
    <3> QED BY <3>1, <3>2, <1>1, <1>4
  <2> QED BY <2>2, <2>3
<1>14. FinishedClosed' /\ Grouped' /\ Covered'
  BY <1>0, <1>5, <1>6 DEF FinishedClosed, Grouped, Covered, Component
<1> QED BY <1>6, <1>7, <1>8, <1>9, <1>10, <1>12, <1>13, <1>14 DEF TarjanOK

LEMMA StartKeeps ==
  ASSUME TarjanOK, StartNode, graph' = graph, at' = at
  PROVE  TarjanOK'
<1> DEFINE m == CHOOSE x \in Module \ Indexed : \A y \in Module \ Indexed : x <= y
<1>1. m \in Module \ Indexed
  <2>1. Module \ Indexed # {} /\ Module \ Indexed \subseteq Nat
    BY FilesOK DEF StartNode, Indexed
  <2>2. \E x \in Module \ Indexed : \A y \in Module \ Indexed : x <= y
    BY <2>1, LeastNatural
  <2> QED BY <2>2
<1>2. frames = <<>> /\ Enter(m) /\ low' = [low EXCEPT ![m] = Count + 1] /\ frames' = <<m>>
      /\ seen' = seen /\ components' = components
  BY DEF StartNode
<1>3. Looked /\ TarjanTyped
  BY DEF TarjanOK
<1>4. frames' = Append(frames, m)
  BY <1>2
<1>5. \A x \in Module : m \notin seen[x]
  BY <1>1, <1>3 DEF Looked
<1>6. Entered(m)
  BY <1>2, <1>3, <1>4, <1>5 DEF Entered, TarjanTyped
<1> HIDE DEF m
<1> QED BY <1>1, <1>6, EnterKeeps

LEMMA AdvanceKeeps ==
  ASSUME TarjanOK, Advance, graph' = graph, at' = at
  PROVE  TarjanOK'
<1>0. TarjanTyped /\ Looked /\ Given /\ Numbered
  BY DEF TarjanOK
<1> DEFINE m == Last(frames)
<1>1. PICK s \in Into(m) \ seen[m] :
        /\ seen' = [seen EXCEPT ![m] = @ \cup {s}]
        /\ IF index[s] = 0
           THEN /\ Enter(s)
                /\ low' = [low EXCEPT ![s] = Count + 1]
                /\ frames' = Append(frames, s)
           ELSE /\ low' = [low EXCEPT ![m] = Lowered(m, s)]
                /\ UNCHANGED <<index, stack, frames>>
  BY DEF Advance
<1>2. frames # <<>> /\ components' = components
  BY DEF Advance
<1>3. m \in Module /\ s \in Module
  <2>1. m \in Module
    BY <1>0, <1>2 DEF Last, TarjanTyped
  <2> QED BY <2>1, <1>0, <1>1, IntoOK
<1>4. CASE index[s] # 0
  <2>1. LookedAt(m, s)
    BY <1>1, <1>2, <1>4 DEF LookedAt
  <2>2. s \in Indexed
    BY <1>3, <1>4 DEF Indexed
  <2> QED BY <2>1, <2>2, LookKeeps
<1>5. CASE index[s] = 0
  <2>1. s \in Module \ Indexed
    BY <1>3, <1>5 DEF Indexed
  <2>2. Enter(s) /\ low' = [low EXCEPT ![s] = Count + 1] /\ frames' = Append(frames, s)
    BY <1>1, <1>5
  <2>3. seen' \in [Module -> SUBSET Module] /\ seen'[m] = seen[m] \cup {s}
        /\ \A x \in Module : x # m => seen'[x] = seen[x]
    BY <1>0, <1>1, <1>3 DEF TarjanTyped
  <2>4. \A x \in Module : s \notin seen[x]
    BY <1>0, <2>1 DEF Looked
  <2>5. \A x \in Module : /\ seen[x] \subseteq seen'[x] /\ seen'[x] \subseteq seen[x] \cup {s}
                          /\ s \in seen'[x] => frames # <<>> /\ x = Last(frames)
    BY <1>2, <2>3, <2>4
  <2>6. Entered(s)
    BY <1>1, <1>2, <2>2, <2>3, <2>5 DEF Entered
  <2> QED BY <2>1, <2>6, EnterKeeps
<1> QED BY <1>4, <1>5

LEMMA TailHolds ==
  ASSUME NEW S, NEW q \in Seq(S), NEW r \in 1 .. Len(q), IsInjective(q)
  PROVE  /\ Reverse(SubSeq(q, r, Len(q))) \in Seq(S)
         /\ Len(Reverse(SubSeq(q, r, Len(q)))) = (Len(q) - r) + 1
         /\ IsInjective(Reverse(SubSeq(q, r, Len(q))))
         /\ ToSet(Reverse(SubSeq(q, r, Len(q)))) = {q[i] : i \in r .. Len(q)}
<1>0. PICK n \in Nat : n = Len(q) /\ r \in 1 .. n /\ DOMAIN q = 1 .. n
  OBVIOUS
<1> DEFINE u == SubSeq(q, r, Len(q))
<1> DEFINE t == Reverse(u)
<1> DEFINE k == (n - r) + 1
<1>1. k \in Nat /\ k >= 1
  BY <1>0
<1>2. /\ u \in Seq(S) /\ Len(u) = k /\ \A i \in 1 .. k : u[i] = q[(i + r) - 1]
  <2>1. n \in Int /\ r \in Int /\ \A i \in r .. n : q[i] \in S
    BY <1>0
  <2>2. /\ SubSeq(q, r, n) \in Seq(S) /\ Len(SubSeq(q, r, n)) = IF r <= n THEN (n - r) + 1 ELSE 0
        /\ \A i \in 1 .. ((n - r) + 1) : SubSeq(q, r, n)[i] = q[(r + i) - 1]
    BY <2>1, SubSeqProperties
  <2>3. \A i \in 1 .. k : (r + i) - 1 = (i + r) - 1
    OBVIOUS
  <2>4. r <= n /\ u = SubSeq(q, r, n)
    BY <1>0
  <2> QED BY <2>2, <2>3, <2>4
<1>3. t = [i \in 1 .. k |-> u[(k - i) + 1]]
  BY <1>2 DEF Reverse
<1> HIDE DEF k, u, t
<1>4. \A i \in 1 .. k : (k - i) + 1 \in 1 .. k
  BY <1>1
<1>5. DOMAIN t = 1 .. k /\ \A i \in 1 .. k : t[i] = u[(k - i) + 1]
  BY <1>3
<1>6. \A i \in 1 .. k : (((k - i) + 1) + r) - 1 \in r .. n
                        /\ (((k - i) + 1) + r) - 1 = (n - i) + 1 /\ (n - i) + 1 \in r .. n
  BY <1>0 DEF k
<1>7. \A i \in 1 .. k : t[i] = q[(n - i) + 1]
  <2> SUFFICES ASSUME NEW i \in 1 .. k PROVE t[i] = q[(n - i) + 1]
    OBVIOUS
  <2>1. t[i] = u[(k - i) + 1] /\ (k - i) + 1 \in 1 .. k
    BY <1>4, <1>5
  <2>2. u[(k - i) + 1] = q[(((k - i) + 1) + r) - 1]
    BY <1>2, <2>1
  <2> QED BY <2>1, <2>2, <1>6
<1>8. t \in Seq(S) /\ Len(t) = k
  <2>1. \A i \in 1 .. k : t[i] \in S
    BY <1>2, <1>4, <1>5
  <2>2. t \in [1 .. k -> S]
    BY <1>3, <1>5, <2>1
  <2> QED BY <1>1, <2>2
<1>9. IsInjective(t)
  <2>1. ASSUME NEW i \in 1 .. k, NEW j \in 1 .. k, t[i] = t[j] PROVE i = j
    <3>1. (n - i) + 1 \in 1 .. n /\ (n - j) + 1 \in 1 .. n
      BY <1>0 DEF k
    <3>2. (n - i) + 1 = (n - j) + 1
      BY <2>1, <3>1, <1>0, <1>7 DEF IsInjective
    <3> QED BY <3>2
  <2> QED BY <2>1, <1>5 DEF IsInjective
<1>10. ToSet(t) = {q[i] : i \in r .. n}
  <2>1. \A i \in r .. n : (n - i) + 1 \in 1 .. k /\ (n - ((n - i) + 1)) + 1 = i
    BY <1>0 DEF k
  <2>2. \A i \in r .. n : q[i] = t[(n - i) + 1]
    BY <2>1, <1>7
  <2>3. ToSet(t) = {t[i] : i \in 1 .. k}
    BY <1>5 DEF ToSet
  <2>4. \A i \in 1 .. k : t[i] \in {q[j] : j \in r .. n}
    BY <1>6, <1>7
  <2>5. \A i \in r .. n : q[i] \in {t[j] : j \in 1 .. k}
    BY <2>1, <2>2
  <2> QED BY <2>3, <2>4, <2>5
<1>11. Len(t) = (n - r) + 1
  BY <1>8 DEF k
<1> QED BY <1>0, <1>8, <1>9, <1>10, <1>11 DEF t, u

(* A file leaves the path and hands its low to the file it was entered     *)
(* from.                                                                   *)
Left(m) ==
  /\ frames # <<>> /\ m = Last(frames) /\ Into(m) \subseteq seen[m]
  /\ frames' = Front(frames)
  /\ low' = IF Len(frames) = 1 THEN low
            ELSE [low EXCEPT ![frames[Len(frames) - 1]] = Smaller(@, low[m])]
  /\ UNCHANGED <<index, seen, graph, at>>

LEMMA LeftIs ==
  ASSUME TarjanOK, NEW m, Left(m)
  PROVE  \E d \in Nat \ {0} :
           /\ d = Len(frames) /\ DOMAIN frames = 1 .. d /\ frames[d] = m /\ m \in On /\ m \in Module
           /\ DOMAIN frames' = 1 .. (d - 1) /\ Len(frames') = d - 1 /\ frames' \in Seq(Module)
           /\ \A i \in 1 .. (d - 1) : /\ frames'[i] = frames[i] /\ frames[i] \in On
                                      /\ frames[i] \in Module /\ index[frames[i]] < index[m]
           /\ ToSet(frames)' \subseteq ToSet(frames) /\ ToSet(frames) \subseteq ToSet(frames)' \cup {m}
           /\ low' \in [Module -> Nat]
           /\ \A i \in 1 .. (d - 1) :
                IF i = d - 1
                THEN /\ low'[frames[i]] <= low[frames[i]] /\ low'[frames[i]] <= low[m]
                     /\ low'[frames[i]] = low[frames[i]] \/ low'[frames[i]] = low[m]
                ELSE low'[frames[i]] = low[frames[i]]
<1>0. TarjanTyped /\ Numbered
  BY DEF TarjanOK
<1>1. frames \in Seq(Module) /\ frames # <<>> /\ m = Last(frames) /\ frames' = Front(frames)
  BY <1>0 DEF Left, TarjanTyped
<1>2. PICK d \in Nat \ {0} : d = Len(frames)
  BY <1>1
<1>3. /\ DOMAIN frames = 1 .. d /\ frames[d] = m
      /\ DOMAIN frames' = 1 .. (d - 1) /\ Len(frames') = d - 1 /\ frames' \in Seq(Module)
      /\ \A i \in 1 .. (d - 1) : frames'[i] = frames[i]
      /\ m \in ToSet(frames)
      /\ ToSet(frames)' \subseteq ToSet(frames) /\ ToSet(frames) \subseteq ToSet(frames)' \cup {m}
  <2>1. frames[d] = m
    BY <1>1, <1>2 DEF Last
  <2>2. ToSet(frames)' = ToSet(Front(frames))
    BY <1>1
  <2> QED BY <1>1, <1>2, <2>1, <2>2, FrontHolds
<1>4. ToSet(frames) \subseteq On /\ On \subseteq Module
  BY <1>0 DEF Numbered, Indexed
<1>5. \A i \in 1 .. (d - 1) : frames[i] \in On /\ index[frames[i]] < index[m]
  <2> SUFFICES ASSUME NEW i \in 1 .. (d - 1)
               PROVE  frames[i] \in On /\ index[frames[i]] < index[m]
    OBVIOUS
  <2>1. i \in 1 .. d /\ d \in 1 .. d /\ i < d
    OBVIOUS
  <2>2. frames[i] \in On
    BY <2>1, <1>3, <1>4 DEF ToSet
  <2>3. index[frames[i]] < index[frames[d]]
    BY <1>0, <1>3, <2>1 DEF Numbered
  <2> QED BY <2>2, <2>3, <1>3
<1>6. \A x \in Module : index[x] \in Nat /\ low[x] \in Nat
  BY <1>0 DEF TarjanTyped
<1>7. /\ low' \in [Module -> Nat]
      /\ \A i \in 1 .. (d - 1) :
           IF i = d - 1
           THEN /\ low'[frames[i]] <= low[frames[i]] /\ low'[frames[i]] <= low[m]
                /\ low'[frames[i]] = low[frames[i]] \/ low'[frames[i]] = low[m]
           ELSE low'[frames[i]] = low[frames[i]]
  <2>1. CASE d = 1
    <3>1. low' = low
      BY <2>1, <1>2 DEF Left
    <3> QED BY <2>1, <3>1, <1>0 DEF TarjanTyped
  <2>2. CASE d # 1
    <3> DEFINE p == frames[d - 1]
    <3>1. d - 1 \in 1 .. (d - 1) /\ p \in Module /\ m \in Module
      BY <2>2, <1>3, <1>4, <1>5
    <3>2. low' = [low EXCEPT ![p] = Smaller(low[p], low[m])]
      BY <2>2, <1>2 DEF Left
    <3>3. Smaller(low[p], low[m]) \in Nat /\ Smaller(low[p], low[m]) <= low[p]
          /\ Smaller(low[p], low[m]) <= low[m]
          /\ Smaller(low[p], low[m]) \in {low[p], low[m]}
      BY <3>1, <1>6 DEF Smaller
    <3>4. /\ low' \in [Module -> Nat] /\ low'[p] = Smaller(low[p], low[m])
          /\ \A x \in Module : x # p => low'[x] = low[x]
      BY <3>1, <3>2, <3>3, <1>0 DEF TarjanTyped
    <3>5. \A i \in 1 .. (d - 1) : i # d - 1 => frames[i] # p
      <4>1. ASSUME NEW i \in 1 .. (d - 1), i # d - 1 PROVE frames[i] # p
        <5>1. i \in 1 .. d /\ d - 1 \in 1 .. d /\ i < d - 1
          BY <4>1
        <5>2. index[frames[i]] < index[frames[d - 1]]
          BY <1>0, <1>3, <5>1 DEF Numbered
        <5> QED BY <5>2, <3>1, <1>6
      <4> QED BY <4>1
    <3> HIDE DEF p
    <3>6. \A i \in 1 .. (d - 1) : frames[i] \in Module
      BY <1>4, <1>5
    <3> QED BY <3>3, <3>4, <3>5, <3>6 DEF p
  <2> QED BY <2>1, <2>2
<1> QED BY <1>2, <1>3, <1>4, <1>5, <1>7

LEMMA LeftLooked == ASSUME TarjanOK, NEW m, Left(m) PROVE Looked' /\ Given'
<1>1. Looked /\ Given /\ \A x : Into(x)' = Into(x)
  BY ReachStays DEF TarjanOK, Left
<1>2. Given'
  BY <1>1, ReachStays DEF Left
<1>3. /\ Indexed' = Indexed /\ seen' = seen /\ Into(m) \subseteq seen[m]
      /\ ToSet(frames) \subseteq ToSet(frames)' \cup {m}
  BY LeftIs DEF Left, Indexed
<1> QED BY <1>1, <1>2, <1>3 DEF Looked

LEMMA BackKeeps ==
  ASSUME TarjanOK, NEW m, Left(m), low[m] # index[m], UNCHANGED <<stack, components>>
  PROVE  TarjanOK'
<1>0. /\ Given /\ TarjanTyped /\ Numbered /\ Looked /\ Down /\ Up /\ LowIs /\ LowLeast
      /\ FinishedClosed /\ Grouped /\ Covered
  BY DEF TarjanOK
<1>1. PICK d \in Nat \ {0} :
           /\ d = Len(frames) /\ DOMAIN frames = 1 .. d /\ frames[d] = m /\ m \in On /\ m \in Module
           /\ DOMAIN frames' = 1 .. (d - 1) /\ Len(frames') = d - 1 /\ frames' \in Seq(Module)
           /\ \A i \in 1 .. (d - 1) : /\ frames'[i] = frames[i] /\ frames[i] \in On
                                      /\ frames[i] \in Module /\ index[frames[i]] < index[m]
           /\ ToSet(frames)' \subseteq ToSet(frames) /\ ToSet(frames) \subseteq ToSet(frames)' \cup {m}
           /\ low' \in [Module -> Nat]
           /\ \A i \in 1 .. (d - 1) :
                IF i = d - 1
                THEN /\ low'[frames[i]] <= low[frames[i]] /\ low'[frames[i]] <= low[m]
                     /\ low'[frames[i]] = low[frames[i]] \/ low'[frames[i]] = low[m]
                ELSE low'[frames[i]] = low[frames[i]]
  BY LeftIs
<1>2. /\ index' = index /\ stack' = stack /\ components' = components /\ seen' = seen
      /\ at' = at /\ On' = On /\ Indexed' = Indexed /\ Count' = Count /\ Finished' = Finished
  BY DEF Left, On, Indexed, Count, Finished
<1>3. /\ \A x : Into(x)' = Into(x) /\ \A a, b : Reach(a, b)' = Reach(a, b)
      /\ \A a, b : Both(a, b)' = Both(a, b)
  BY ReachStays DEF Left
<1>4. /\ On \subseteq Module /\ d \in 1 .. d
      /\ \A x \in Module : index[x] \in Nat /\ low[x] \in Nat /\ low'[x] \in Nat
      /\ \A i \in 1 .. (d - 1) : i \in 1 .. d
      /\ \A i \in 1 .. d : i \in 1 .. (d - 1) \/ i = d
  <2>1. \A x \in Module : index[x] \in Nat /\ low[x] \in Nat /\ low'[x] \in Nat
    BY <1>0, <1>1 DEF TarjanTyped
  <2>2. On \subseteq Module
    BY <1>0 DEF Numbered, Indexed
  <2>3. d \in 1 .. d /\ (\A i \in 1 .. (d - 1) : i \in 1 .. d)
        /\ \A i \in 1 .. d : i \in 1 .. (d - 1) \/ i = d
    OBVIOUS
  <2> QED BY <2>1, <2>2, <2>3
<1>5. PICK y \in On : index[y] = low[m] /\ low[m] < index[m] /\ Reach(m, y)
  BY <1>0, <1>1, <1>4 DEF LowIs
<1>6. TarjanTyped'
  BY <1>0, <1>1, <1>2 DEF TarjanTyped
<1>7. Numbered'
  <2>1. \A i, j \in 1 .. (d - 1) : i < j => index[frames'[i]] < index[frames'[j]]
    BY <1>0, <1>1, <1>4 DEF Numbered
  <2> QED BY <1>0, <1>1, <1>2, <2>1 DEF Numbered
<1>8. Down'
  BY <1>0, <1>1, <1>2, <1>3, <1>4 DEF Down
<1>9. Up'
  <2> SUFFICES ASSUME NEW x \in On'
               PROVE  \E i \in 1 .. (d - 1) : index'[frames'[i]] <= index'[x] /\ Reach(x, frames'[i])
    <3>1. DOMAIN frames' = 1 .. (d - 1)
      BY <1>1
    <3> QED BY <3>1, <1>3 DEF Up
  <2> SUFFICES \E i \in 1 .. (d - 1) : index[frames[i]] <= index[x] /\ Reach(x, frames[i])
    BY <1>1, <1>2
  <2>0. x \in On
    BY <1>2
  <2>1. PICK i \in 1 .. d : index[frames[i]] <= index[x] /\ Reach(x, frames[i])
    BY <1>0, <1>1, <2>0 DEF Up
  <2>2. CASE i = d
    <3>1. PICK j \in 1 .. d : index[frames[j]] <= index[y] /\ Reach(y, frames[j])
      BY <1>0, <1>1 DEF Up
    <3>2. j \in 1 .. (d - 1) /\ index[frames[j]] <= index[x]
      <4>1. j # d
        BY <1>1, <1>4, <1>5, <3>1
      <4>2. j \in 1 .. (d - 1)
        BY <1>4, <4>1
      <4>3. index[frames[j]] < index[m] /\ index[frames[j]] \in Nat /\ index[x] \in Nat
            /\ index[m] \in Nat /\ index[m] <= index[x]
        BY <1>1, <1>4, <2>0, <2>1, <2>2, <4>2
      <4> QED BY <4>2, <4>3
    <3>3. Reach(x, frames[j])
      BY <1>1, <1>5, <2>1, <2>2, <3>1, ReachOver
    <3> QED BY <3>2, <3>3
  <2>3. CASE i # d
    BY <1>4, <2>1, <2>3
  <2> QED BY <2>2, <2>3
<1>10. LowIs'
  <2> SUFFICES ASSUME NEW i \in 1 .. (d - 1)
               PROVE  /\ low'[frames[i]] <= index[frames[i]]
                      /\ \E z \in On : index[z] = low'[frames[i]] /\ Reach(frames[i], z)
    BY <1>1, <1>2, <1>3 DEF LowIs
  <2>1. /\ low[frames[i]] <= index[frames[i]]
        /\ \E z \in On : index[z] = low[frames[i]] /\ Reach(frames[i], z)
    BY <1>0, <1>1, <1>4 DEF LowIs
  <2>2. CASE low'[frames[i]] = low[frames[i]]
    BY <2>1, <2>2
  <2>3. CASE low'[frames[i]] # low[frames[i]]
    <3>1. low'[frames[i]] = low[m] /\ low'[frames[i]] <= low[frames[i]]
      BY <1>1, <2>3
    <3>2. Reach(frames[i], m)
      <4>1. i \in 1 .. d /\ index[frames[i]] <= index[m]
        <5>1. index[frames[i]] < index[m] /\ index[frames[i]] \in Nat /\ index[m] \in Nat
          BY <1>1, <1>4
        <5> QED BY <5>1, <1>4
      <4> QED BY <1>0, <1>1, <4>1 DEF Down
    <3>3. Reach(frames[i], y)
      BY <1>5, <3>2, ReachOver
    <3>4. low'[frames[i]] <= index[frames[i]]
      <4>1. low'[frames[i]] \in Nat /\ low[frames[i]] \in Nat /\ index[frames[i]] \in Nat
        BY <1>1, <1>4
      <4> QED BY <4>1, <2>1, <3>1
    <3> QED BY <1>5, <3>1, <3>3, <3>4
  <2> QED BY <2>2, <2>3
<1>11. LowLeast'
  <2> SUFFICES ASSUME NEW i \in 1 .. (d - 1), NEW x \in On, index[frames[i]] <= index[x],
                      i # d - 1 => index[x] < index[frames[i + 1]], NEW t \in seen[x] \cap On
               PROVE  low'[frames[i]] <= index[t]
    <3>1. \A i \in 1 .. (d - 1) : i # d - 1 => i + 1 \in 1 .. (d - 1)
      OBVIOUS
    <3> QED BY <1>1, <1>2, <3>1 DEF LowLeast
  <2>1. i \in 1 .. d /\ i # d /\ i + 1 \in 1 .. d /\ (i = d - 1 => i + 1 = d)
    OBVIOUS
  <2>2. index[t] \in Nat /\ low'[frames[i]] \in Nat /\ low[frames[i]] \in Nat /\ low[m] \in Nat
        /\ index[x] \in Nat /\ index[m] \in Nat
    BY <1>1, <1>4
  <2>3. low'[frames[i]] <= low[frames[i]]
    BY <1>1, <2>2
  <2>4. CASE index[x] < index[frames[i + 1]]
    <3>1. low[frames[i]] <= index[t]
      BY <1>0, <1>1, <2>1, <2>4 DEF LowLeast
    <3> QED BY <2>2, <2>3, <3>1
  <2>5. CASE i = d - 1 /\ ~(index[x] < index[frames[i + 1]])
    <3>1. index[m] <= index[x]
      BY <1>1, <2>1, <2>2, <2>5
    <3>2. low[m] <= index[t]
      BY <1>0, <1>1, <1>4, <3>1 DEF LowLeast
    <3>3. low'[frames[i]] <= low[m]
      BY <1>1, <2>5
    <3> QED BY <2>2, <3>2, <3>3
  <2> QED BY <2>4, <2>5
<1>12. FinishedClosed' /\ Grouped' /\ Covered'
  BY <1>0, <1>2, <1>3 DEF FinishedClosed, Grouped, Covered, Component
<1> QED BY <1>6, <1>7, <1>8, <1>9, <1>10, <1>11, <1>12, LeftLooked DEF TarjanOK

(* The root of a component takes it off the stack.                         *)
Rooted(m, r) ==
  /\ Left(m) /\ low[m] = index[m] /\ r \in DOMAIN stack /\ stack[r] = m
  /\ stack' = SubSeq(stack, 1, r - 1)
  /\ components' = IF at = "imports" /\ r = Len(stack) THEN components
                   ELSE Append(components, Reverse(SubSeq(stack, r, Len(stack))))

Popped(m) == {x \in On : index[m] <= index[x]}

LEMMA StackCut ==
  ASSUME TarjanOK, NEW m, NEW r, Rooted(m, r)
  PROVE  /\ stack' \in Seq(Module) /\ On' = On \ Popped(m)
         /\ DOMAIN stack' \subseteq DOMAIN stack
         /\ \A i \in DOMAIN stack' : stack'[i] = stack[i]
         /\ r = Len(stack) => Popped(m) = {m}
         /\ LET t == Reverse(SubSeq(stack, r, Len(stack))) IN
            t \in Seq(Module) /\ t # <<>> /\ IsInjective(t) /\ ToSet(t) = Popped(m)
<1>0. TarjanTyped /\ Numbered
  BY DEF TarjanOK
<1>1. PICK n \in Nat : n = Len(stack)
  BY <1>0 DEF TarjanTyped
<1>2. /\ stack \in Seq(Module) /\ DOMAIN stack = 1 .. n /\ r \in 1 .. n /\ stack[r] = m
      /\ stack' = SubSeq(stack, 1, r - 1)
  BY <1>0, <1>1 DEF TarjanTyped, Rooted
<1>3. \A i \in 1 .. n : stack[i] \in Module /\ index[stack[i]] \in Nat
  <2>1. \A i \in 1 .. n : stack[i] \in Module
    BY <1>1, <1>2
  <2> QED BY <2>1, <1>0 DEF TarjanTyped
<1>4. On = {stack[i] : i \in 1 .. n}
  BY <1>2 DEF On, ToSet
<1>5. \A i \in 1 .. n : index[m] <= index[stack[i]] <=> i \in r .. n
  <2> SUFFICES ASSUME NEW i \in 1 .. n PROVE index[m] <= index[stack[i]] <=> i \in r .. n
    OBVIOUS
  <2>1. index[stack[i]] \in Nat /\ index[stack[r]] \in Nat /\ index[m] = index[stack[r]]
    BY <1>2, <1>3
  <2>2. CASE i < r
    <3>1. index[stack[i]] < index[stack[r]]
      BY <1>0, <1>2, <2>2 DEF Numbered
    <3>2. i \notin r .. n
      BY <2>2, <1>2
    <3> QED BY <2>1, <3>1, <3>2
  <2>3. CASE r < i
    <3>1. index[stack[r]] < index[stack[i]]
      BY <1>0, <1>2, <2>3 DEF Numbered
    <3>2. i \in r .. n
      BY <2>3, <1>2
    <3> QED BY <2>1, <3>1, <3>2
  <2>4. CASE i = r
    BY <2>1, <2>4, <1>2
  <2>5. i < r \/ r < i \/ i = r
    BY <1>2
  <2> QED BY <2>2, <2>3, <2>4, <2>5
<1>6. Popped(m) = {stack[i] : i \in r .. n}
  <2>1. \A i \in r .. n : i \in 1 .. n
    BY <1>2
  <2>2. \A x \in Popped(m) : x \in {stack[i] : i \in r .. n}
    <3> SUFFICES ASSUME NEW x \in Popped(m) PROVE x \in {stack[i] : i \in r .. n}
      OBVIOUS
    <3>1. x \in On /\ index[m] <= index[x]
      BY DEF Popped
    <3>2. PICK i \in 1 .. n : x = stack[i]
      BY <1>4, <3>1
    <3> QED BY <3>1, <3>2, <1>5
  <2>3. \A i \in r .. n : stack[i] \in Popped(m)
    BY <2>1, <1>4, <1>5 DEF Popped
  <2> QED BY <2>2, <2>3
<1>7. /\ stack' \in Seq(Module) /\ DOMAIN stack' = 1 .. (r - 1)
      /\ \A i \in 1 .. (r - 1) : stack'[i] = stack[i] /\ i \in 1 .. n
  <2>1. 1 \in Int /\ r - 1 \in Int /\ r - 1 >= 0 /\ \A i \in 1 .. (r - 1) : i \in 1 .. n /\ stack[i] \in Module
    BY <1>2, <1>3
  <2> DEFINE k == r - 1
  <2>2. 1 \in Int /\ k \in Int /\ \A i \in 1 .. k : stack[i] \in Module
    BY <2>1
  <2>3. /\ SubSeq(stack, 1, k) \in Seq(Module)
        /\ Len(SubSeq(stack, 1, k)) = IF 1 <= k THEN (k - 1) + 1 ELSE 0
        /\ \A i \in 1 .. ((k - 1) + 1) : SubSeq(stack, 1, k)[i] = stack[(1 + i) - 1]
    BY <2>2, SubSeqProperties
  <2>4. (k - 1) + 1 = k /\ Len(SubSeq(stack, 1, k)) = k
    BY <2>1, <2>3
  <2>5. \A i \in 1 .. k : (1 + i) - 1 = i
    OBVIOUS
  <2>6. DOMAIN SubSeq(stack, 1, k) = 1 .. k
    BY <2>3, <2>4
  <2>7. \A i \in 1 .. k : SubSeq(stack, 1, k)[i] = stack[i]
    BY <2>3, <2>4, <2>5
  <2> QED BY <1>2, <2>1, <2>3, <2>6, <2>7
<1>8. On' = On \ Popped(m)
  <2>1. On' = {stack'[i] : i \in 1 .. (r - 1)}
    BY <1>7 DEF On, ToSet
  <2>2. On' = {stack[i] : i \in 1 .. (r - 1)}
    BY <2>1, <1>7
  <2>3. \A i \in 1 .. (r - 1) : i \in 1 .. n /\ i \notin r .. n
    BY <1>2
  <2>4. \A x \in On' : x \in On /\ x \notin Popped(m)
    BY <2>2, <2>3, <1>4, <1>5 DEF Popped
  <2>5. \A i \in 1 .. n : i \in r .. n \/ i \in 1 .. (r - 1)
    BY <1>2
  <2>6. \A x \in On : x \in On' \/ x \in Popped(m)
    BY <2>2, <2>5, <1>4, <1>6
  <2> QED BY <2>4, <2>6
<1>9. r = Len(stack) => Popped(m) = {m}
  <2>1. r = n => r .. n = {r}
    BY <1>2
  <2> QED BY <2>1, <1>1, <1>2, <1>6
<1>10. IsInjective(stack)
  <2> SUFFICES ASSUME NEW i \in 1 .. n, NEW j \in 1 .. n, stack[i] = stack[j] PROVE i = j
    BY <1>2 DEF IsInjective
  <2>1. ~(i < j) /\ ~(j < i)
    BY <1>0, <1>2, <1>3 DEF Numbered
  <2> QED BY <2>1
<1>11. /\ Reverse(SubSeq(stack, r, Len(stack))) \in Seq(Module)
       /\ Len(Reverse(SubSeq(stack, r, Len(stack)))) = (Len(stack) - r) + 1
       /\ IsInjective(Reverse(SubSeq(stack, r, Len(stack))))
       /\ ToSet(Reverse(SubSeq(stack, r, Len(stack)))) = {stack[i] : i \in r .. Len(stack)}
  <2>1. stack \in Seq(Module) /\ r \in 1 .. Len(stack)
    BY <1>1, <1>2
  <2> QED BY <2>1, <1>10, TailHolds
<1>12. LET t == Reverse(SubSeq(stack, r, Len(stack))) IN
       t \in Seq(Module) /\ t # <<>> /\ IsInjective(t) /\ ToSet(t) = Popped(m)
  <2>1. (n - r) + 1 # 0
    BY <1>2
  <2>2. \A t : Len(t) = (n - r) + 1 => t # <<>>
    BY <2>1
  <2> QED BY <2>2, <1>1, <1>6, <1>11
<1> QED
  <2>1. 1 .. (r - 1) \subseteq 1 .. n
    BY <1>7
  <2> QED BY <2>1, <1>2, <1>7, <1>8, <1>9, <1>12

(* What is taken off is all that can be reached from its root and back.    *)
LEMMA PoppedIs ==
  ASSUME TarjanOK, NEW m, Left(m), low[m] = index[m]
  PROVE  /\ Popped(m) \subseteq Module /\ m \in Popped(m)
         /\ \A x \in Popped(m) : Into(x) \subseteq Finished \cup Popped(m)
         /\ \A x \in Popped(m) : Popped(m) = {n \in Module : Both(x, n)}
<1>0. /\ Given /\ TarjanTyped /\ Numbered /\ Looked /\ Down /\ Up /\ LowIs /\ LowLeast
      /\ FinishedClosed /\ Grouped /\ Covered
  BY DEF TarjanOK
<1>1. PICK d \in Nat \ {0} :
           /\ d = Len(frames) /\ DOMAIN frames = 1 .. d /\ frames[d] = m /\ m \in On /\ m \in Module
           /\ \A i \in 1 .. (d - 1) : index[frames[i]] < index[m]
  BY LeftIs
<1>2. /\ On \subseteq Module /\ Finished \subseteq Module /\ Finished \cap On = {}
      /\ Indexed = Finished \cup On
  BY <1>0 DEF Numbered, Indexed, Finished
<1>3. \A x \in Module : index[x] \in Nat
  BY <1>0 DEF TarjanTyped
<1>4. d \in 1 .. d /\ \A i \in 1 .. d : i \in 1 .. (d - 1) \/ i = d
  OBVIOUS
<1>5. Popped(m) \subseteq On /\ Popped(m) \subseteq Module /\ m \in Popped(m)
  BY <1>1, <1>2, <1>3 DEF Popped
<1>6. \A x \in Popped(m) : Into(x) \subseteq Finished \cup Popped(m)
  <2> SUFFICES ASSUME NEW x \in Popped(m), NEW s \in Into(x)
               PROVE  s \in Finished \/ s \in Popped(m)
    OBVIOUS
  <2>1. x \in On /\ index[m] <= index[x] /\ x \in Module /\ index[x] \in Nat /\ index[m] \in Nat
    BY <1>1, <1>3, <1>5 DEF Popped
  <2>2. s \in seen[x]
    <3>1. CASE x = m
      BY <3>1 DEF Left
    <3>2. CASE x # m
      <4>1. ASSUME x \in ToSet(frames) PROVE FALSE
        <5>1. PICK i \in 1 .. d : frames[i] = x
          BY <4>1, <1>1 DEF ToSet
        <5>2. i \in 1 .. (d - 1)
          BY <5>1, <3>2, <1>1, <1>4
        <5>3. index[x] < index[m]
          BY <5>1, <5>2, <1>1
        <5> QED BY <5>3, <2>1
      <4> QED BY <4>1, <2>1, <1>0, <1>2 DEF Looked
    <3> QED BY <3>1, <3>2
  <2>3. s \in Indexed
    BY <1>0, <2>1, <2>2 DEF Looked
  <2>4. CASE s \in On
    <3>1. low[m] <= index[s]
      BY <1>0, <1>1, <1>4, <2>1, <2>2, <2>4 DEF LowLeast
    <3> QED BY <2>4, <3>1 DEF Popped
  <2> QED BY <2>3, <2>4, <1>2
<1> DEFINE R == Finished \cup Popped(m)
<1>7. R \in SUBSET Module /\ \A x \in R : Into(x) \subseteq R
  BY <1>0, <1>2, <1>5, <1>6 DEF FinishedClosed
<1>8. \A x \in Popped(m) : \A n : Reach(x, n) => n \in R
  BY <1>7, ReachIn
<1> HIDE DEF R
<1>9. \A x \in Popped(m) : Both(x, m)
  <2> SUFFICES ASSUME NEW x \in Popped(m) PROVE Both(x, m)
    OBVIOUS
  <2>1. x \in On /\ index[m] <= index[x]
    BY DEF Popped
  <2>2. Reach(m, x)
    BY <1>0, <1>1, <1>4, <2>1 DEF Down
  <2>3. PICK i \in 1 .. d : index[frames[i]] <= index[x] /\ Reach(x, frames[i])
    BY <1>0, <1>1, <2>1 DEF Up
  <2>4. i = d
    <3>1. ASSUME i \in 1 .. (d - 1) PROVE FALSE
      <4>1. index[frames[i]] < index[m] /\ frames[i] \in ToSet(frames)
        BY <3>1, <1>1 DEF ToSet
      <4>2. frames[i] \in On /\ frames[i] \in Module
        BY <4>1, <1>0, <1>2 DEF Numbered
      <4>3. frames[i] \notin Popped(m)
        <5>1. index[frames[i]] \in Nat /\ index[m] \in Nat
          BY <4>2, <1>1, <1>3
        <5> QED BY <4>1, <5>1 DEF Popped
      <4>4. frames[i] \in R
        BY <1>8, <2>3
      <4> QED BY <4>2, <4>3, <4>4, <1>2 DEF R
    <3> QED BY <3>1, <1>4
  <2> QED BY <2>2, <2>3, <2>4, <1>1 DEF Both
<1>10. \A x \in Popped(m) : Popped(m) = {n \in Module : Both(x, n)}
  <2> SUFFICES ASSUME NEW x \in Popped(m) PROVE Popped(m) = {n \in Module : Both(x, n)}
    OBVIOUS
  <2>1. \A n \in Popped(m) : n \in Module /\ Both(x, n)
    BY <1>5, <1>9, ReachOver DEF Both
  <2>2. ASSUME NEW n \in Module, Both(x, n) PROVE n \in Popped(m)
    <3>1. n \in R
      BY <1>8, <2>2 DEF Both
    <3>2. ASSUME n \in Finished PROVE FALSE
      <4>1. Finished \in SUBSET Module /\ \A z \in Finished : Into(z) \subseteq Finished
        BY <1>0, <1>2 DEF FinishedClosed
      <4>2. x \in Finished
        BY <4>1, <3>2, <2>2, ReachIn DEF Both
      <4> QED BY <4>2, <1>2, <1>5
    <3> QED BY <3>1, <3>2 DEF R
  <2> QED BY <2>1, <2>2
<1> QED BY <1>5, <1>6, <1>10

LEMMA RootKeeps ==
  ASSUME TarjanOK, NEW m, NEW r, Rooted(m, r)
  PROVE  TarjanOK'
<1>0. /\ Given /\ TarjanTyped /\ Numbered /\ Looked /\ Down /\ Up /\ LowIs /\ LowLeast
      /\ FinishedClosed /\ Grouped /\ Covered
  BY DEF TarjanOK
<1>l. Left(m) /\ low[m] = index[m]
  BY DEF Rooted
<1>1. PICK d \in Nat \ {0} :
           /\ d = Len(frames) /\ DOMAIN frames = 1 .. d /\ frames[d] = m /\ m \in On /\ m \in Module
           /\ DOMAIN frames' = 1 .. (d - 1) /\ Len(frames') = d - 1 /\ frames' \in Seq(Module)
           /\ \A i \in 1 .. (d - 1) : /\ frames'[i] = frames[i] /\ frames[i] \in On
                                      /\ frames[i] \in Module /\ index[frames[i]] < index[m]
           /\ ToSet(frames)' \subseteq ToSet(frames) /\ ToSet(frames) \subseteq ToSet(frames)' \cup {m}
           /\ low' \in [Module -> Nat]
           /\ \A i \in 1 .. (d - 1) :
                IF i = d - 1
                THEN /\ low'[frames[i]] <= low[frames[i]] /\ low'[frames[i]] <= low[m]
                     /\ low'[frames[i]] = low[frames[i]] \/ low'[frames[i]] = low[m]
                ELSE low'[frames[i]] = low[frames[i]]
  BY <1>l, LeftIs
<1>2. /\ index' = index /\ seen' = seen /\ at' = at /\ Indexed' = Indexed /\ Count' = Count
  BY <1>l DEF Left, Indexed, Count
<1>3. /\ \A x : Into(x)' = Into(x) /\ \A a, b : Reach(a, b)' = Reach(a, b)
      /\ \A a, b : Both(a, b)' = Both(a, b)
  BY <1>l, ReachStays DEF Left
<1>4. /\ On \subseteq Module /\ d \in 1 .. d
      /\ \A x \in Module : index[x] \in Nat /\ low[x] \in Nat /\ low'[x] \in Nat
      /\ \A i \in 1 .. (d - 1) : i \in 1 .. d
      /\ \A i \in 1 .. d : i \in 1 .. (d - 1) \/ i = d
  <2>1. \A x \in Module : index[x] \in Nat /\ low[x] \in Nat /\ low'[x] \in Nat
    BY <1>0, <1>1 DEF TarjanTyped
  <2>2. On \subseteq Module
    BY <1>0 DEF Numbered, Indexed
  <2>3. d \in 1 .. d /\ (\A i \in 1 .. (d - 1) : i \in 1 .. d)
        /\ \A i \in 1 .. d : i \in 1 .. (d - 1) \/ i = d
    OBVIOUS
  <2> QED BY <2>1, <2>2, <2>3
<1>5. /\ stack' \in Seq(Module) /\ On' = On \ Popped(m)
      /\ DOMAIN stack' \subseteq DOMAIN stack
      /\ \A i \in DOMAIN stack' : stack'[i] = stack[i]
      /\ r = Len(stack) => Popped(m) = {m}
  BY StackCut
<1>6. /\ Popped(m) \subseteq Module /\ m \in Popped(m)
      /\ \A x \in Popped(m) : Into(x) \subseteq Finished \cup Popped(m)
      /\ \A x \in Popped(m) : Popped(m) = {n \in Module : Both(x, n)}
  BY <1>l, PoppedIs
<1>7. PICK t : /\ t = Reverse(SubSeq(stack, r, Len(stack)))
               /\ t \in Seq(Module) /\ t # <<>> /\ IsInjective(t) /\ ToSet(t) = Popped(m)
  BY StackCut
<1>8. components' = IF at = "imports" /\ r = Len(stack) THEN components ELSE Append(components, t)
  BY <1>7 DEF Rooted
<1>9. /\ Popped(m) \subseteq On /\ Finished' = Finished \cup Popped(m)
      /\ \A x \in On' : x \in On /\ index[x] < index[m]
      /\ \A x \in On : index[x] < index[m] => x \in On'
  <2>1. Popped(m) \subseteq On
    BY DEF Popped
  <2>2. On \subseteq Indexed
    BY <1>0 DEF Numbered
  <2>3. Finished' = Finished \cup Popped(m)
    BY <2>1, <2>2, <1>2, <1>5 DEF Finished
  <2>4. \A x \in On : index[x] < index[m] <=> x \notin Popped(m)
    <3> SUFFICES ASSUME NEW x \in On PROVE index[x] < index[m] <=> ~(index[m] <= index[x])
      BY DEF Popped
    <3>1. index[x] \in Nat /\ index[m] \in Nat
      BY <1>1, <1>4
    <3> QED BY <3>1
  <2> QED BY <2>1, <2>3, <2>4, <1>5
<1>10. /\ ToSet(components) \subseteq ToSet(components)' /\ components' \in Seq(Seq(Module))
       /\ ToSet(components)' \subseteq ToSet(components) \cup {t}
       /\ t \notin ToSet(components)' => at = "imports" /\ Popped(m) = {m}
  <2>1. components \in Seq(Seq(Module)) /\ t \in Seq(Module)
    BY <1>0, <1>7 DEF TarjanTyped
  <2>2. CASE at = "imports" /\ r = Len(stack)
    <3>1. components' = components
      BY <2>2, <1>8
    <3> QED BY <2>1, <2>2, <3>1, <1>5
  <2>3. CASE ~(at = "imports" /\ r = Len(stack))
    <3>1. components' = Append(components, t)
      BY <2>3, <1>8
    <3>2. ToSet(Append(components, t)) = ToSet(components) \cup {t}
          /\ Append(components, t) \in Seq(Seq(Module))
      BY <2>1, AppendHolds
    <3>3. ToSet(components)' = ToSet(Append(components, t))
      BY <3>1
    <3> QED BY <3>1, <3>2, <3>3
  <2> QED BY <2>2, <2>3
<1>11. TarjanTyped'
  BY <1>0, <1>1, <1>2, <1>5, <1>10 DEF TarjanTyped
<1>12. Numbered'
  <2>1. \A i, j \in 1 .. (d - 1) : i < j => index[frames'[i]] < index[frames'[j]]
    <3>1. \A i \in 1 .. (d - 1) : frames'[i] = frames[i] /\ i \in DOMAIN frames
      BY <1>1, <1>4
    <3>2. \A i, j \in DOMAIN frames : i < j => index[frames[i]] < index[frames[j]]
      BY <1>0 DEF Numbered
    <3> QED BY <3>1, <3>2
  <2>2. \A i, j \in DOMAIN stack' : i < j => index[stack'[i]] < index[stack'[j]]
    BY <1>0, <1>5 DEF Numbered
  <2>3. ToSet(frames)' \subseteq On'
    <3>1. ToSet(frames)' = {frames[i] : i \in 1 .. (d - 1)}
      <4>1. DOMAIN frames' = 1 .. (d - 1) /\ \A i \in 1 .. (d - 1) : frames'[i] = frames[i]
        BY <1>1
      <4> QED BY <4>1 DEF ToSet
    <3> QED BY <3>1, <1>1, <1>9
  <2>4. On' \subseteq Indexed /\ \A x \in Module : index[x] <= Count
    BY <1>0, <1>5 DEF Numbered
  <2> QED BY <1>1, <1>2, <2>1, <2>2, <2>3, <2>4 DEF Numbered
<1>13. Down'
  <2> SUFFICES ASSUME NEW i \in 1 .. (d - 1), NEW x \in On', index[frames'[i]] <= index[x]
               PROVE  Reach(frames'[i], x)
    <3>1. DOMAIN frames' = 1 .. (d - 1)
      BY <1>1
    <3> QED BY <3>1, <1>2, <1>3 DEF Down
  <2>1. frames'[i] = frames[i] /\ i \in DOMAIN frames /\ x \in On
    BY <1>1, <1>4, <1>9
  <2> QED BY <1>0, <2>1 DEF Down
<1>14. Up'
  <2> SUFFICES ASSUME NEW x \in On'
               PROVE  \E i \in 1 .. (d - 1) : index'[frames'[i]] <= index'[x] /\ Reach(x, frames'[i])
    <3>1. DOMAIN frames' = 1 .. (d - 1)
      BY <1>1
    <3> QED BY <3>1, <1>3 DEF Up
  <2>1. x \in On /\ index[x] < index[m] /\ index[x] \in Nat /\ index[m] \in Nat
    BY <1>1, <1>4, <1>9
  <2>2. PICK i \in 1 .. d : index[frames[i]] <= index[x] /\ Reach(x, frames[i])
    BY <1>0, <1>1, <2>1 DEF Up
  <2>3. i # d
    BY <1>1, <2>1, <2>2
  <2>4. i \in 1 .. (d - 1) /\ frames'[i] = frames[i]
    BY <1>1, <1>4, <2>3
  <2> QED BY <1>2, <2>2, <2>4
<1>15. \A i \in 1 .. (d - 1) : low'[frames[i]] = low[frames[i]] /\ low[frames[i]] <= index[frames[i]]
  <2> SUFFICES ASSUME NEW i \in 1 .. (d - 1)
               PROVE  low'[frames[i]] = low[frames[i]] /\ low[frames[i]] <= index[frames[i]]
    OBVIOUS
  <2>1. low[frames[i]] <= index[frames[i]]
    BY <1>0, <1>1, <1>4 DEF LowIs
  <2>2. index[frames[i]] < index[m] /\ index[frames[i]] \in Nat /\ index[m] \in Nat
        /\ low[frames[i]] \in Nat /\ low[m] = index[m]
    BY <1>l, <1>1, <1>4
  <2>3. \/ low'[frames[i]] = low[frames[i]]
        \/ low'[frames[i]] = low[m] /\ low'[frames[i]] <= low[frames[i]]
    BY <1>1
  <2> QED BY <2>1, <2>2, <2>3
<1>16. LowIs'
  <2> SUFFICES ASSUME NEW i \in 1 .. (d - 1)
               PROVE  /\ low'[frames[i]] <= index[frames[i]]
                      /\ \E z \in On' : index[z] = low'[frames[i]] /\ Reach(frames[i], z)
    <3>1. DOMAIN frames' = 1 .. (d - 1) /\ \A j \in 1 .. (d - 1) : frames'[j] = frames[j]
      BY <1>1
    <3> QED BY <3>1, <1>2, <1>3 DEF LowIs
  <2>1. PICK z \in On : index[z] = low[frames[i]] /\ Reach(frames[i], z)
    BY <1>0, <1>1, <1>4 DEF LowIs
  <2>2. z \in On'
    <3>1. index[frames[i]] < index[m] /\ index[frames[i]] \in Nat /\ index[m] \in Nat
          /\ index[z] \in Nat /\ index[z] <= index[frames[i]]
      BY <1>1, <1>4, <1>15, <2>1
    <3> QED BY <3>1, <1>9
  <2> QED BY <2>1, <2>2, <1>15
<1>17. LowLeast'
  <2> SUFFICES ASSUME NEW i \in 1 .. (d - 1), NEW x \in On', index[frames[i]] <= index[x],
                      i # d - 1 => index[x] < index[frames[i + 1]], NEW s \in seen[x] \cap On'
               PROVE  low[frames[i]] <= index[s]
    <3>1. \A i \in 1 .. (d - 1) : i # d - 1 => i + 1 \in 1 .. (d - 1)
      OBVIOUS
    <3>2. /\ DOMAIN frames' = 1 .. (d - 1) /\ Len(frames') = d - 1
          /\ \A j \in 1 .. (d - 1) : frames'[j] = frames[j]
      BY <1>1
    <3> QED BY <1>2, <1>15, <3>1, <3>2 DEF LowLeast
  <2>1. i \in 1 .. d /\ i # d /\ i + 1 \in 1 .. d /\ (i = d - 1 => i + 1 = d)
    OBVIOUS
  <2>2. index[x] < index[frames[i + 1]]
    BY <1>1, <1>9, <2>1
  <2>3. x \in On /\ s \in seen[x] \cap On
    BY <1>9
  <2> QED BY <1>0, <1>1, <2>1, <2>2, <2>3 DEF LowLeast
<1>18. FinishedClosed'
  BY <1>0, <1>3, <1>6, <1>9 DEF FinishedClosed
<1>19. Grouped'
  <2> SUFFICES ASSUME NEW c \in ToSet(components)' PROVE Component(c)'
    BY DEF Grouped
  <2>1. CASE c \in ToSet(components)
    <3>1. Component(c)
      BY <1>0, <2>1 DEF Grouped
    <3> QED BY <3>1, <1>3, <1>9 DEF Component
  <2>2. CASE c = t
    <3>1. c # <<>> /\ ToSet(c) \subseteq Finished' /\ IsInjective(c) /\ ToSet(c) = Popped(m)
      BY <2>2, <1>7, <1>9
    <3> QED BY <3>1, <1>3, <1>6 DEF Component
  <2> QED BY <2>1, <2>2, <1>10
<1>20. Covered'
  <2> SUFFICES ASSUME NEW x \in Finished'
               PROVE  \/ \E c \in ToSet(components)' : x \in ToSet(c)
                      \/ at # "barrels" /\ \A n \in Module : Both(x, n) => n = x
    BY <1>2, <1>3 DEF Covered
  <2>1. CASE x \in Finished
    BY <1>0, <2>1, <1>10 DEF Covered
  <2>2. CASE x \in Popped(m)
    <3>1. CASE t \in ToSet(components)'
      BY <2>2, <3>1, <1>7
    <3>2. CASE t \notin ToSet(components)'
      <4>1. at = "imports" /\ Popped(m) = {m}
        BY <3>2, <1>10
      <4>2. \A n \in Module : Both(x, n) => n \in Popped(m)
        BY <2>2, <1>6
      <4>3. at # "barrels"
        BY <4>1
      <4> QED BY <2>2, <4>1, <4>2, <4>3
    <3> QED BY <3>1, <3>2
  <2> QED BY <2>1, <2>2, <1>9
<1> QED BY <1>l, <1>11, <1>12, <1>13, <1>14, <1>16, <1>17, <1>18, <1>19, <1>20, LeftLooked DEF TarjanOK

LEMMA RetreatKeeps ==
  ASSUME TarjanOK, Retreat, graph' = graph, at' = at
  PROVE  TarjanOK'
<1> DEFINE m == frames[Len(frames)]
           r == CHOOSE k \in DOMAIN stack : stack[k] = m
<1>1. Left(m)
  BY DEF Retreat, Left, Last
<1>2. CASE low[m] # index[m]
  <2>1. UNCHANGED <<stack, components>>
    BY <1>2 DEF Retreat
  <2> QED BY <1>1, <1>2, <2>1, BackKeeps
<1>3. CASE low[m] = index[m]
  <2>1. m \in ToSet(stack)
    BY <1>1, LeftIs DEF On
  <2>2. r \in DOMAIN stack /\ stack[r] = m
    BY <2>1 DEF ToSet
  <2>3. /\ stack' = SubSeq(stack, 1, r - 1)
        /\ components' = IF at = "imports" /\ r = Len(stack) THEN components
                         ELSE Append(components, Reverse(SubSeq(stack, r, Len(stack))))
    BY <1>3 DEF Retreat
  <2>4. Rooted(m, r)
    BY <1>1, <1>3, <2>2, <2>3 DEF Rooted
  <2> QED BY <2>4, RootKeeps
<1> QED BY <1>2, <1>3

LEMMA TarjanKeeps ==
  ASSUME TarjanOK, Tarjan, UNCHANGED graphVars
  PROVE  TarjanOK'
<1>1. graph' = graph /\ at' = at
  BY DEF Tarjan, graphVars
<1> QED BY <1>1, StartKeeps, AdvanceKeeps, RetreatKeeps DEF Tarjan

(* What else Tarjan's algorithm may be handed on as.                       *)
LEMMA TarjanStays ==
  ASSUME TarjanOK, graph' = graph, at = "barrels" <=> at' = "barrels",
         UNCHANGED <<index, low, stack, frames, seen>>,
         components' \in Seq(Seq(Module)), ToSet(components)' = ToSet(components)
  PROVE  TarjanOK'
<1>0. /\ Given /\ TarjanTyped /\ Numbered /\ Looked /\ Down /\ Up /\ LowIs /\ LowLeast
      /\ FinishedClosed /\ Grouped /\ Covered
  BY DEF TarjanOK
<1>1. /\ \A x : Into(x)' = Into(x) /\ \A a, b : Reach(a, b)' = Reach(a, b)
      /\ \A a, b : Both(a, b)' = Both(a, b)
      /\ Given'
  BY <1>0, ReachStays
<1>2. /\ index' = index /\ low' = low /\ stack' = stack /\ frames' = frames /\ seen' = seen
      /\ On' = On /\ Indexed' = Indexed /\ Count' = Count /\ Finished' = Finished
  BY DEF On, Indexed, Count, Finished
<1>3. TarjanTyped' /\ Numbered' /\ Looked'
  BY <1>0, <1>1, <1>2 DEF TarjanTyped, Numbered, Looked
<1>4. Down' /\ Up' /\ LowIs' /\ LowLeast'
  BY <1>0, <1>1, <1>2 DEF Down, Up, LowIs, LowLeast
<1>5. FinishedClosed' /\ Grouped' /\ Covered'
  BY <1>0, <1>1, <1>2 DEF FinishedClosed, Grouped, Component, Covered
<1> QED BY <1>1, <1>3, <1>4, <1>5 DEF TarjanOK

Untouched == /\ Given /\ index = Fresh /\ low = Fresh /\ seen = Unseen
             /\ stack = <<>> /\ frames = <<>> /\ components = <<>>

LEMMA UntouchedOK == Untouched => TarjanOK
<1> SUFFICES ASSUME Untouched PROVE TarjanOK
  OBVIOUS
<1>1. /\ index \in [Module -> Nat] /\ low \in [Module -> Nat] /\ seen \in [Module -> SUBSET Module]
      /\ \A x \in Module : index[x] = 0 /\ seen[x] = {}
  BY DEF Untouched, Fresh, Unseen
<1>2. /\ stack = <<>> /\ frames = <<>> /\ components = <<>>
      /\ ToSet(stack) = {} /\ ToSet(frames) = {} /\ ToSet(components) = {}
      /\ DOMAIN stack = {} /\ DOMAIN frames = {}
  BY DEF Untouched, ToSet
<1>3. Indexed = {} /\ On = {} /\ Finished = {} /\ Count = 0
  BY <1>1, <1>2, FS_EmptySet DEF Indexed, On, Finished, Count
<1>4. TarjanTyped /\ Numbered /\ Looked
  BY <1>1, <1>2, <1>3 DEF TarjanTyped, Numbered, Looked
<1>5. Down /\ Up /\ LowIs /\ LowLeast /\ FinishedClosed /\ Grouped /\ Covered
  BY <1>2, <1>3 DEF Down, Up, LowIs, LowLeast, FinishedClosed, Grouped, Covered
<1> QED BY <1>4, <1>5 DEF TarjanOK, Untouched

LEMMA UntouchedLater == Untouched' => TarjanOK'
BY UntouchedOK, PTL

(* Sorting keeps what is sorted.                                           *)
LEMMA Shuffled ==
  ASSUME NEW S, NEW s \in Seq(S), NEW q \in Bijection(DOMAIN s, DOMAIN s),
         NEW t, t = [k \in DOMAIN s |-> s[q[k]]]
  PROVE  t \in Seq(S) /\ ToSet(t) = ToSet(s) /\ (IsInjective(s) => IsInjective(t))
<1>1. PICK n \in Nat : DOMAIN s = 1 .. n /\ \A i \in 1 .. n : s[i] \in S
  <2>1. Len(s) \in Nat /\ DOMAIN s = 1 .. Len(s) /\ \A i \in 1 .. Len(s) : s[i] \in S
    OBVIOUS
  <2> QED BY <2>1
<1>2. /\ q \in [1 .. n -> 1 .. n] /\ \A i \in 1 .. n : \E j \in 1 .. n : q[j] = i
      /\ \A i, j \in 1 .. n : q[i] = q[j] => i = j
  BY <1>1 DEF Bijection, Injection, Surjection, IsInjective
<1>3. t \in [1 .. n -> S] /\ \A i \in 1 .. n : t[i] = s[q[i]]
  BY <1>1, <1>2
<1>4. t \in Seq(S) /\ DOMAIN t = 1 .. n
  BY <1>3
<1>5. ToSet(t) = ToSet(s)
  BY <1>1, <1>2, <1>3, <1>4 DEF ToSet
<1>6. IsInjective(s) => IsInjective(t)
  BY <1>1, <1>2, <1>3, <1>4 DEF IsInjective
<1> QED BY <1>4, <1>5, <1>6

-----------------------------------------------------------------------------
TarjanIInv == /\ at \in {"imports", "cycles", "kept", "barrels", "done"}
              /\ at # "done" => TarjanOK
              /\ at \in {"cycles", "kept"} => TarjanOver
              /\ BarrelsExact

LEMMA OverIs ==
  ASSUME TarjanOK, TarjanOver
  PROVE  stack = <<>> /\ Finished = Module
<1>1. On = {}
  <2>1. Up /\ DOMAIN frames = {}
    BY DEF TarjanOK, TarjanOver
  <2> QED BY <2>1 DEF Up
<1>2. Finished = Module
  BY <1>1 DEF Finished, TarjanOver
<1>3. stack = <<>>
  <2>1. stack \in Seq(Module)
    BY DEF TarjanOK, TarjanTyped
  <2>2. ASSUME stack # <<>> PROVE FALSE
    <3>1. stack[1] \in ToSet(stack)
      BY <2>1, <2>2 DEF ToSet
    <3> QED BY <3>1, <1>1 DEF On
  <2> QED BY <2>2
<1> QED BY <1>2, <1>3

LEMMA ReachFirst ==
  ASSUME Given, NEW a \in Module, NEW b \in Module, Reach(a, b), a # b
  PROVE  \E k \in Into(a) : Reach(k, b)
<1> DEFINE s == {x \in Module : x = a \/ \E k \in Into(a) : Reach(k, x)}
<1>1. s \in SUBSET Module /\ a \in s
  OBVIOUS
<1>2. ASSUME NEW x \in s, NEW y \in Into(x) PROVE y \in s
  <2>1. y \in Module
    BY IntoOK
  <2>2. CASE x = a
    BY <2>1, <2>2, ReachSelf
  <2>3. CASE x # a
    <3>1. PICK k \in Into(a) : Reach(k, x)
      BY <2>3
    <3>2. Reach(k, y)
      BY <3>1, ReachNext
    <3> QED BY <2>1, <3>2
  <2> QED BY <2>2, <2>3
<1>3. b \in s
  BY <1>1, <1>2, ReachIn
<1> QED BY <1>3

(* What is looked at leads to from a file.                                 *)
LEMMA BeyondInto ==
  ASSUME Given, NEW m \in Module, NEW n \in Module
  PROVE  n \in Closure(Into(m), Into, Module) <=> \E k \in Into(m) : Reach(k, n)
<1> DEFINE closed == {t \in SUBSET Module : Into(m) \subseteq t /\ \A x \in t : Into(x) \subseteq t}
<1>2. n \in Closure(Into(m), Into, Module) <=> \A t \in closed : n \in t
  BY DEF Closure
<1>3. ASSUME NEW k \in Into(m), Reach(k, n), NEW t \in closed PROVE n \in t
  BY <1>3, ReachIn
<1>4. ASSUME \A t \in closed : n \in t PROVE \E k \in Into(m) : Reach(k, n)
  <2> DEFINE t == {x \in Module : \E k \in Into(m) : Reach(k, x)}
  <2>1. Into(m) \subseteq t
    BY IntoOK, ReachSelf
  <2>2. ASSUME NEW x \in t, NEW y \in Into(x) PROVE y \in t
    BY <2>2, IntoOK, ReachNext
  <2>3. t \in closed
    BY <2>1, <2>2
  <2> QED BY <1>4, <2>3
<1> QED BY <1>2, <1>3, <1>4

(* b can be reached from what a refers to.                                 *)
Onward(a, b) == \E j \in Into(a) : Reach(j, b)

LEMMA AroundMeans ==
  ASSUME Given, NEW m \in Module, NEW n
  PROVE  /\ n \in Around(m, Into) <=> n \in Module /\ Onward(m, n) /\ Onward(n, m)
         /\ n \in Around(m, Into) => Both(m, n)
<1>1. n \in Around(m, Into) <=> /\ n \in Closure(Into(m), Into, Module)
                                /\ m \in Closure(Into(n), Into, Module)
  BY DEF Around
<1>2. n \in Closure(Into(m), Into, Module) => n \in Module
  BY DEF Closure
<1>3. n \in Around(m, Into) <=> n \in Module /\ Onward(m, n) /\ Onward(n, m)
  BY <1>1, <1>2, BeyondInto DEF Onward
<1>4. \A a, b \in Module : Onward(a, b) => Reach(a, b)
  BY ReachSelf, ReachNext, ReachOver DEF Onward
<1> QED BY <1>3, <1>4 DEF Both

LEMMA AroundInto ==
  ASSUME Given, NEW c \in Seq(Module), Component(c), NEW m \in ToSet(c)
  PROVE  Around(m, Into) = IF Len(c) > 1 \/ c[1] \in Into(c[1]) THEN ToSet(c) ELSE {}
<1>1. /\ c # <<>> /\ IsInjective(c) /\ \A x \in ToSet(c) : ToSet(c) = {n \in Module : Both(x, n)}
  BY DEF Component
<1>2. PICK k \in Nat \ {0} : k = Len(c) /\ DOMAIN c = 1 .. k /\ \A i \in 1 .. k : c[i] \in Module
  <2>1. Len(c) \in Nat \ {0} /\ DOMAIN c = 1 .. Len(c) /\ \A i \in 1 .. Len(c) : c[i] \in Module
    BY <1>1
  <2> QED BY <2>1
<1>3. ToSet(c) = {c[i] : i \in 1 .. k} /\ m \in Module /\ ToSet(c) \subseteq Module
  BY <1>2 DEF ToSet
<1>5. \A n : n \in Around(m, Into) <=> n \in Module /\ Onward(m, n) /\ Onward(n, m)
  BY <1>3, AroundMeans
<1>7. \A n \in Around(m, Into) : n \in ToSet(c)
  BY <1>1, <1>3, <1>5, AroundMeans
<1>8. CASE Len(c) > 1 \/ c[1] \in Into(c[1])
  <2>1. Onward(m, m)
    <3>1. CASE k > 1
      <4>1. PICK n \in ToSet(c) : n # m
        <5>1. c[1] # c[2] /\ c[1] \in ToSet(c) /\ c[2] \in ToSet(c)
          BY <3>1, <1>1, <1>2, <1>3 DEF IsInjective
        <5> QED BY <5>1
      <4>2. Reach(m, n) /\ Reach(n, m) /\ n \in Module
        BY <1>1, <4>1 DEF Both
      <4>3. PICK j \in Into(m) : Reach(j, n)
        BY <1>3, <4>1, <4>2, ReachFirst
      <4> QED BY <4>2, <4>3, ReachOver DEF Onward
    <3>2. CASE k = 1
      <4>1. m = c[1]
        BY <3>2, <1>3
      <4>2. Len(c) = 1
        BY <3>2, <1>2
      <4>3. c[1] \in Into(c[1])
        BY <4>2, <1>8
      <4> QED BY <4>1, <4>3, ReachSelf DEF Onward
    <3> QED BY <3>1, <3>2, <1>2
  <2>2. ASSUME NEW n \in ToSet(c) PROVE Onward(m, n) /\ Onward(n, m)
    <3>1. Reach(m, n) /\ Reach(n, m) /\ n \in Module
      BY <1>1, <2>2 DEF Both
    <3>2. Onward(m, n)
      BY <2>1, <3>1, ReachOver DEF Onward
    <3>3. Onward(n, m)
      BY <2>1, <3>1, <1>3, ReachFirst DEF Onward
    <3> QED BY <3>2, <3>3
  <2>3. Around(m, Into) = ToSet(c)
    BY <1>3, <1>5, <1>7, <2>2
  <2> QED BY <1>8, <2>3
<1>9. CASE ~(Len(c) > 1 \/ c[1] \in Into(c[1]))
  <2>1. k = 1 /\ c[1] \notin Into(c[1])
    BY <1>2, <1>9
  <2>2. ToSet(c) = {m} /\ m = c[1]
    BY <2>1, <1>3
  <2>3. ASSUME NEW n \in Around(m, Into) PROVE FALSE
    <3>1. n = m /\ Onward(m, m)
      BY <2>2, <2>3, <1>5, <1>7
    <3>2. PICK j \in Into(m) : Reach(j, m)
      BY <3>1 DEF Onward
    <3>3. j \in Module /\ Reach(m, j)
      BY <1>3, <3>2, IntoOK, ReachSelf, ReachNext
    <3>4. j \in ToSet(c)
      BY <1>1, <3>2, <3>3 DEF Both
    <3> QED BY <2>1, <2>2, <3>2, <3>4
  <2>4. Around(m, Into) = {}
    BY <2>3
  <2> QED BY <1>9, <2>4
<1> QED BY <1>8, <1>9

LEMMA AroundLater == ASSUME at = "barrels" PROVE \A m : Around(m, Sources) = Around(m, Into)
<1>1. \A x : Into(x) = Sources(x)
  BY DEF Into
<1> QED BY <1>1 DEF Around, Closure

LEMMA AroundFirst == ASSUME at # "barrels" PROVE \A m : Around(m, RunsInto) = Around(m, Into)
<1>1. \A x : Into(x) = RunsInto(x)
  BY DEF Into
<1> QED BY <1>1 DEF Around, Closure

LEMMA AroundIs ==
  ASSUME Given, at = "barrels", NEW c \in Seq(Module), Component(c), NEW m \in ToSet(c)
  PROVE  IF Cyclic(c) THEN Around(m, Sources) = ToSet(c) ELSE Around(m, Sources) = {}
<1>1. Around(m, Sources) = Around(m, Into) /\ Into(c[1]) = Sources(c[1])
  BY AroundLater DEF Into
<1> QED BY <1>1, AroundInto DEF Cyclic

LEMMA BarrelsAre ==
  ASSUME TarjanIInv, BarrelsDone, UNCHANGED graphVars
  PROVE  BarrelsExact'
<1>1. at = "barrels" /\ TarjanOver /\ TarjanOK
  BY DEF BarrelsDone, TarjanIInv
<1>2. /\ Given /\ components \in Seq(Seq(Module)) /\ Grouped /\ Covered /\ Finished = Module
  BY <1>1, OverIs DEF TarjanOK, TarjanTyped
<1>3. \A c \in ToSet(components) : c \in Seq(Module) /\ Component(c)
  <2>1. ToSet(components) \subseteq Seq(Module)
    BY <1>2 DEF ToSet
  <2> QED BY <2>1, <1>2 DEF Grouped
<1>4. barrels' = {ToSet(c) : c \in {d \in ToSet(components) : Cyclic(d)}}
  BY DEF BarrelsDone
<1>5. {Around(m, Sources) : m \in Module} \ {{}} = barrels'
  <2>1. ASSUME NEW m \in Module, Around(m, Sources) # {} PROVE Around(m, Sources) \in barrels'
    <3>1. PICK c \in ToSet(components) : m \in ToSet(c)
      BY <1>1, <1>2 DEF Covered
    <3>2. Cyclic(c) /\ Around(m, Sources) = ToSet(c)
      BY <1>1, <1>2, <1>3, <2>1, <3>1, AroundIs
    <3> QED BY <3>1, <3>2, <1>4
  <2>2. ASSUME NEW c \in ToSet(components), Cyclic(c)
        PROVE  \E m \in Module : ToSet(c) = Around(m, Sources) /\ ToSet(c) # {}
    <3>1. c \in Seq(Module) /\ c # <<>> /\ Component(c)
      BY <1>3, <2>2 DEF Component
    <3>2. PICK m : m \in ToSet(c) /\ m \in Module
      <4>1. Len(c) \in Nat \ {0} /\ DOMAIN c = 1 .. Len(c) /\ c[1] \in Module
        BY <3>1
      <4> QED BY <4>1 DEF ToSet
    <3>3. Around(m, Sources) = ToSet(c)
      BY <1>1, <1>2, <2>2, <3>1, <3>2, AroundIs
    <3> QED BY <3>2, <3>3
  <2> QED BY <2>1, <2>2, <1>4
<1>6. \A m : Around(m, Sources)' = Around(m, Sources)
  BY DEF Around, Closure, Sources, graphVars
<1> QED BY <1>5, <1>6 DEF BarrelsExact

LEMMA StepIs ==
  ASSUME [Next]_vars
  PROVE  (graph' = graph /\ UNCHANGED cycleVars) \/ (CycleNext /\ UNCHANGED graphVars)
<1>1. CASE UNCHANGED vars
  BY <1>1 DEF vars, graphVars
<1>2. ASSUME GraphNext, UNCHANGED cycleVars
      PROVE  graph' = graph /\ UNCHANGED cycleVars
  <2>1. graph' = graph
    <3>1. CASE LinkModule
      BY <3>1 DEF LinkModule
    <3>2. ASSUME NEW m \in Module, Trace(m) PROVE graph' = graph
      BY <3>2 DEF Trace
    <3>3. CASE TraceEnds \/ Spread \/ SpreadEnds \/ Report
      BY <3>3 DEF TraceEnds, Spread, SpreadEnds, Report
    <3> QED BY <1>2, <3>1, <3>2, <3>3 DEF GraphNext
  <2> QED BY <1>2, <2>1
<1> QED BY <1>1, <1>2 DEF Next

LEMMA TarjanIStep == ASSUME TarjanIInv, [Next]_vars PROVE TarjanIInv'
<1>1. CASE graph' = graph /\ UNCHANGED cycleVars
  <2>1. UNCHANGED <<at, index, low, stack, frames, seen, components, barrels>>
    BY <1>1 DEF cycleVars, tarjan
  <2>2. (at # "done" => TarjanOK') /\ (TarjanOver => TarjanOver')
    <3>1. TarjanOver => TarjanOver'
      BY <2>1 DEF TarjanOver, Indexed
    <3>2. TarjanOK => ToSet(components)' = ToSet(components) /\ components' \in Seq(Seq(Module))
      BY <2>1 DEF TarjanOK, TarjanTyped
    <3> QED BY <1>1, <2>1, <3>1, <3>2, TarjanStays DEF TarjanIInv
  <2>3. BarrelsExact'
    <3>1. \A m : Around(m, Sources)' = Around(m, Sources)
      BY <1>1 DEF Around, Closure, Sources
    <3> QED BY <2>1, <3>1 DEF TarjanIInv, BarrelsExact
  <2> QED BY <2>1, <2>2, <2>3 DEF TarjanIInv
<1>2. CASE CycleNext /\ UNCHANGED graphVars
  <2>g. graph' = graph
    BY <1>2 DEF graphVars
  <2>1. CASE Tarjan
    <3>1. TarjanOK /\ at' = at /\ at \in {"imports", "barrels"}
      BY <2>1 DEF TarjanIInv, Tarjan
    <3>2. TarjanOK'
      BY <1>2, <2>1, <3>1, TarjanKeeps
    <3> QED BY <3>1, <3>2 DEF TarjanIInv, BarrelsExact
  <2>2. CASE ImportsDone
    <3>1. TarjanOK /\ at = "imports" /\ at' = "cycles" /\ TarjanOver
          /\ UNCHANGED <<index, low, stack, frames, seen>>
      BY <2>2 DEF TarjanIInv, ImportsDone
    <3>2. components' \in Seq(Seq(Module)) /\ ToSet(components)' = ToSet(components)
      <4>1. components \in Seq(Seq(Module))
        BY <3>1 DEF TarjanOK, TarjanTyped
      <4>2. PICK q \in Bijection(DOMAIN components, DOMAIN components) :
              components' = [k \in DOMAIN components |-> components[q[k]]]
        BY <2>2 DEF ImportsDone, Sorted
      <4>3. \A t : t = components' => ToSet(t) = ToSet(components)'
        OBVIOUS
      <4> QED BY <4>1, <4>2, <4>3, Shuffled
    <3>3. TarjanOK'
      BY <2>g, <3>1, <3>2, TarjanStays
    <3>4. TarjanOver'
      BY <3>1 DEF TarjanOver, Indexed
    <3> QED BY <3>1, <3>3, <3>4 DEF TarjanIInv, BarrelsExact
  <2>3. CASE StartSearch \/ Extend \/ BackUp \/ Listed \/ Keep \/ KeepEnds
    <3>1. at \in {"cycles", "kept"} /\ at' \in {"cycles", "kept"} /\ UNCHANGED tarjan
      BY <2>3 DEF StartSearch, Extend, BackUp, Listed, Keep, KeepEnds, Searching
    <3>2. TarjanOK /\ TarjanOver /\ UNCHANGED <<index, low, stack, frames, seen, components>>
      BY <3>1 DEF TarjanIInv, tarjan
    <3>3. components' \in Seq(Seq(Module)) /\ ToSet(components)' = ToSet(components)
      BY <3>2 DEF TarjanOK, TarjanTyped
    <3>4. TarjanOK'
      BY <2>g, <3>1, <3>2, <3>3, TarjanStays
    <3>5. TarjanOver'
      BY <3>2 DEF TarjanOver, Indexed
    <3> QED BY <3>1, <3>4, <3>5 DEF TarjanIInv, BarrelsExact
  <2>4. CASE CyclesDone
    <3>1. at = "cycles" /\ at' = "barrels" /\ TarjanOK /\ TarjanOver
      BY <2>4 DEF TarjanIInv, CyclesDone
    <3>2. Untouched'
      <4>1. stack = <<>> /\ frames = <<>> /\ Given
        BY <3>1, OverIs DEF TarjanOver, TarjanOK
      <4>2. Fresh' = Fresh /\ Unseen' = Unseen /\ Given'
        BY <4>1, <2>g DEF Fresh, Unseen, Given
      <4> QED BY <2>4, <4>1, <4>2 DEF Untouched, CyclesDone
    <3> QED BY <3>1, <3>2, UntouchedLater DEF TarjanIInv, BarrelsExact
  <2>5. CASE BarrelsDone
    <3>1. at' = "done"
      BY <2>5 DEF BarrelsDone
    <3> QED BY <1>2, <2>5, <3>1, BarrelsAre DEF TarjanIInv
  <2> QED BY <1>2, <2>1, <2>2, <2>3, <2>4, <2>5 DEF CycleNext
<1>3. (graph' = graph /\ UNCHANGED cycleVars) \/ (CycleNext /\ UNCHANGED graphVars)
  BY StepIs
<1> QED BY <1>1, <1>2, <1>3

(* What is known of the stack and the components, in both of its uses.     *)
THEOREM TarjanInvariant == Spec => []TarjanIInv
<1>1. Init => TarjanIInv
  <2> SUFFICES ASSUME Init PROVE TarjanIInv
    OBVIOUS
  <2>1. at = "imports" /\ Untouched
    BY DEF Init, GraphInit, Untouched, Given
  <2> QED BY <2>1, UntouchedOK DEF TarjanIInv, BarrelsExact
<1>2. TarjanIInv /\ [Next]_vars => TarjanIInv'
  BY TarjanIStep
<1> QED BY <1>1, <1>2, PTL DEF Spec

(* The re-export cycles reported are the files that re-export from each    *)
(* other, directly or not, and those that do from themselves.              *)
THEOREM BarrelsRight == Spec => []BarrelsExact
<1>1. TarjanIInv => BarrelsExact
  BY DEF TarjanIInv
<1> QED BY <1>1, TarjanInvariant, PTL

-----------------------------------------------------------------------------
(* The elementary cycles.                                                  *)

(* The cycles of imports, told from any of their files on.                 *)
Rings == {c \in UNION {[1 .. k -> Module] : k \in 1 .. FileCount} :
            IsInjective(c) /\ \A k \in DOMAIN c : Follows(c, k) \in RunsInto(c[k])}

(* The cycle told from its k-th file on.                                   *)
Turn(c, k) == [i \in 1 .. Len(c) |->
                 c[IF i + k <= Len(c) + 1 THEN (i + k) - 1 ELSE ((i + k) - 1) - Len(c)]]

LEMMA RingIs ==
  ASSUME NEW c \in Rings
  PROVE  \E n \in 1 .. FileCount :
           /\ n \in Nat \ {0} /\ c \in [1 .. n -> Module] /\ c \in Seq(Module)
           /\ Len(c) = n /\ DOMAIN c = 1 .. n /\ \A i \in 1 .. n : c[i] \in Module
           /\ ToSet(c) = {c[i] : i \in 1 .. n} /\ IsInjective(c)
           /\ \A i \in 1 .. n : Follows(c, i) \in RunsInto(c[i])
<1>1. PICK n \in 1 .. FileCount : c \in [1 .. n -> Module]
  BY DEF Rings
<1>2. n \in Nat \ {0}
  BY FilesOK
<1>3. DOMAIN c = 1 .. n /\ (\A i \in 1 .. n : c[i] \in Module) /\ c \in Seq(Module) /\ Len(c) = n
  BY <1>1, <1>2
<1>4. ToSet(c) = {c[i] : i \in 1 .. n}
  BY <1>3 DEF ToSet
<1>5. IsInjective(c) /\ \A i \in 1 .. n : Follows(c, i) \in RunsInto(c[i])
  BY <1>3 DEF Rings
<1> QED BY <1>1, <1>2, <1>3, <1>4, <1>5

LEMMA RingMade ==
  ASSUME NEW n \in Nat \ {0}, NEW c \in [1 .. n -> Module], IsInjective(c),
         \A i \in 1 .. n : Follows(c, i) \in RunsInto(c[i])
  PROVE  c \in Rings
<1>1. c \in Injection(1 .. n, Module)
  BY DEF Injection
<1>2. Cardinality(1 .. n) = n
  BY FS_Interval
<1>3. n <= FileCount
  BY <1>1, <1>2, FilesOK, FS_Injection
<1>4. n \in 1 .. FileCount /\ DOMAIN c = 1 .. n
  BY <1>3, FilesOK
<1> QED BY <1>4 DEF Rings

LEMMA TurnRing ==
  ASSUME NEW c \in Rings, NEW k \in 1 .. Len(c)
  PROVE  /\ Turn(c, k) \in Rings /\ Len(Turn(c, k)) = Len(c) /\ Turn(c, k)[1] = c[k]
         /\ ToSet(Turn(c, k)) = ToSet(c)
<1>1. PICK n \in Nat \ {0} :
           /\ c \in [1 .. n -> Module]
           /\ Len(c) = n /\ DOMAIN c = 1 .. n /\ \A i \in 1 .. n : c[i] \in Module
           /\ ToSet(c) = {c[i] : i \in 1 .. n} /\ IsInjective(c)
           /\ \A i \in 1 .. n : Follows(c, i) \in RunsInto(c[i])
  BY RingIs
<1> DEFINE P(i) == IF i + k <= n + 1 THEN (i + k) - 1 ELSE ((i + k) - 1) - n
           N(i) == IF i = n THEN 1 ELSE i + 1
           t == Turn(c, k)
<1>2. k \in 1 .. n
  BY <1>1
<1>3. t = [i \in 1 .. n |-> c[P(i)]]
  BY <1>1 DEF Turn
<1>4. \A i \in 1 .. n : P(i) \in 1 .. n /\ N(i) \in 1 .. n /\ P(N(i)) = N(P(i))
  BY <1>2
<1>5. \A i, j \in 1 .. n : P(i) = P(j) => i = j
  BY <1>2
<1>6. \A j \in 1 .. n : \E i \in 1 .. n : P(i) = j
  <2> SUFFICES ASSUME NEW j \in 1 .. n PROVE \E i \in 1 .. n : P(i) = j
    OBVIOUS
  <2>1. CASE j >= k
    <3>1. (j - k) + 1 \in 1 .. n /\ P((j - k) + 1) = j
      BY <1>2, <2>1
    <3> QED BY <3>1
  <2>2. CASE j < k
    <3>1. ((j - k) + 1) + n \in 1 .. n /\ P(((j - k) + 1) + n) = j
      BY <1>2, <2>2
    <3> QED BY <3>1
  <2> QED BY <2>1, <2>2
<1>7. P(1) = k
  BY <1>2
<1>8. \A i \in 1 .. n : Follows(c, i) = c[N(i)]
  BY <1>1 DEF Follows
<1> HIDE DEF P, N, t
<1>9. /\ t \in [1 .. n -> Module] /\ DOMAIN t = 1 .. n /\ Len(t) = n
      /\ \A i \in 1 .. n : t[i] = c[P(i)]
  <2>1. t \in [1 .. n -> Module] /\ DOMAIN t = 1 .. n /\ \A i \in 1 .. n : t[i] = c[P(i)]
    BY <1>1, <1>3, <1>4
  <2> QED BY <2>1
<1>10. \A i \in 1 .. n : Follows(t, i) = t[N(i)]
  BY <1>9 DEF Follows, N
<1>11. IsInjective(t)
  BY <1>1, <1>4, <1>5, <1>9 DEF IsInjective
<1>12. \A i \in 1 .. n : Follows(t, i) \in RunsInto(t[i])
  <2> SUFFICES ASSUME NEW i \in 1 .. n PROVE Follows(t, i) \in RunsInto(t[i])
    OBVIOUS
  <2>1. Follows(t, i) = c[P(N(i))] /\ t[i] = c[P(i)]
    BY <1>4, <1>9, <1>10
  <2>2. Follows(t, i) = Follows(c, P(i))
    BY <2>1, <1>4, <1>8
  <2> QED BY <2>1, <2>2, <1>1, <1>4
<1>13. ToSet(t) = ToSet(c)
  <2>1. ToSet(t) = {t[i] : i \in 1 .. n}
    BY <1>9 DEF ToSet
  <2>2. \A i \in 1 .. n : t[i] \in ToSet(c)
    BY <1>1, <1>4, <1>9
  <2>3. \A j \in 1 .. n : c[j] \in ToSet(t)
    BY <2>1, <1>6, <1>9
  <2>4. ToSet(c) = {c[i] : i \in 1 .. n}
    BY <1>1
  <2>5. ToSet(t) \subseteq ToSet(c)
    BY <2>1, <2>2
  <2>6. ToSet(c) \subseteq ToSet(t)
    BY <2>3, <2>4
  <2> QED BY <2>5, <2>6
<1>14. t[1] = c[k]
  <2>1. 1 \in 1 .. n
    OBVIOUS
  <2> QED BY <2>1, <1>7, <1>9
<1>15. t \in Rings
  BY <1>9, <1>11, <1>12, RingMade
<1> QED BY <1>1, <1>9, <1>13, <1>14, <1>15 DEF t

(* Turned on to where it began, a cycle is as before.                      *)
LEMMA TurnBack ==
  ASSUME NEW c \in Rings, NEW k \in 1 .. Len(c)
  PROVE  \E b \in 1 .. Len(c) : Turn(Turn(c, k), b) = c /\ Turn(c, k)[b] = c[1]
<1>1. PICK n \in Nat \ {0} :
           c \in [1 .. n -> Module] /\ Len(c) = n /\ DOMAIN c = 1 .. n
  BY RingIs
<1> DEFINE P(i) == IF i + k <= n + 1 THEN (i + k) - 1 ELSE ((i + k) - 1) - n
           b == IF k = 1 THEN 1 ELSE (n - k) + 2
           B(i) == IF i + b <= n + 1 THEN (i + b) - 1 ELSE ((i + b) - 1) - n
           t == Turn(c, k)
<1>2. k \in 1 .. n /\ b \in 1 .. n
  BY <1>1
<1>3. t = [i \in 1 .. n |-> c[P(i)]]
  BY <1>1 DEF Turn
<1>4. Len(t) = n
  BY <1>1, TurnRing
<1>5. Turn(t, b) = [i \in 1 .. n |-> t[B(i)]]
  <2> HIDE DEF t, b
  <2>1. Turn(t, b) = [i \in 1 .. Len(t) |->
                 t[IF i + b <= Len(t) + 1 THEN (i + b) - 1 ELSE ((i + b) - 1) - Len(t)]]
    BY DEF Turn
  <2> QED BY <2>1, <1>4
<1>6. \A i \in 1 .. n : B(i) \in 1 .. n /\ P(B(i)) = i
  BY <1>2
<1>7. B(1) = b /\ 1 \in 1 .. n
  BY <1>2
<1> HIDE DEF P, B, t, b
<1>8. \A i \in 1 .. n : t[B(i)] = c[i]
  BY <1>3, <1>6
<1>9. Turn(t, b) = [i \in 1 .. n |-> c[i]]
  BY <1>5, <1>8
<1>10. Turn(t, b) = c
  BY <1>1, <1>9
<1>11. t[b] = c[1]
  BY <1>7, <1>8
<1> QED BY <1>1, <1>2, <1>10, <1>11 DEF t

LEMMA LeastOf ==
  ASSUME NEW c \in Rings
  PROVE  \E k \in 1 .. Len(c) : \A j \in 1 .. Len(c) : c[k] <= c[j]
<1>1. PICK n \in Nat \ {0} : Len(c) = n /\ (\A i \in 1 .. n : c[i] \in Module) /\ ToSet(c) = {c[i] : i \in 1 .. n}
  BY RingIs
<1>2. Module \subseteq Nat
  BY FilesOK
<1>3. ToSet(c) \subseteq Nat /\ c[1] \in ToSet(c)
  <2>1. ToSet(c) \subseteq Module
    BY <1>1
  <2>2. 1 \in 1 .. n
    OBVIOUS
  <2>3. c[1] \in {c[i] : i \in 1 .. n}
    BY <2>2
  <2> QED BY <2>1, <2>3, <1>1, <1>2
<1>4. PICK m \in ToSet(c) : \A x \in ToSet(c) : m <= x
  BY <1>3, LeastNatural
<1> QED BY <1>1, <1>4

LEMMA CanonicalIs ==
  ASSUME NEW c \in Rings
  PROVE  \E k \in 1 .. Len(c) : Canonical(c) = Turn(c, k) /\ \A j \in 1 .. Len(c) : c[k] <= c[j]
<1>1. PICK n \in Nat \ {0} :
           /\ c \in [1 .. n -> Module] /\ c \in Seq(Module)
           /\ Len(c) = n /\ DOMAIN c = 1 .. n /\ \A i \in 1 .. n : c[i] \in Module
  BY RingIs
<1> DEFINE k == CHOOSE i \in DOMAIN c : \A j \in DOMAIN c : c[i] <= c[j]
<1>2. k \in 1 .. n /\ \A j \in 1 .. n : c[k] <= c[j]
  <2>1. \E i \in 1 .. n : \A j \in 1 .. n : c[i] <= c[j]
    BY <1>1, LeastOf
  <2> QED BY <2>1, <1>1
<1>3. Canonical(c) = SubSeq(c, k, n) \o SubSeq(c, 1, k - 1)
  BY <1>1 DEF Canonical
<1> HIDE DEF k
<1> DEFINE u == SubSeq(c, k, n)
           v == SubSeq(c, 1, k - 1)
           h == (n - k) + 1
<1>4. /\ u \in Seq(Module) /\ Len(u) = h /\ h \in Nat
      /\ \A i \in 1 .. h : u[i] = c[(k + i) - 1]
  <2>1. k \in Int /\ n \in Int /\ k <= n /\ \A i \in k .. n : c[i] \in Module
    BY <1>1, <1>2
  <2>2. /\ SubSeq(c, k, n) \in Seq(Module)
        /\ Len(SubSeq(c, k, n)) = IF k <= n THEN (n - k) + 1 ELSE 0
        /\ \A i \in 1 .. ((n - k) + 1) : SubSeq(c, k, n)[i] = c[(k + i) - 1]
    BY <2>1, SubSeqProperties
  <2> QED BY <2>1, <2>2
<1>5. /\ v \in Seq(Module) /\ Len(v) = k - 1 /\ \A i \in 1 .. (k - 1) : v[i] = c[i]
  <2> DEFINE l == k - 1
  <2>1. 1 \in Int /\ l \in Int /\ l >= 0 /\ \A i \in 1 .. l : c[i] \in Module
    BY <1>1, <1>2
  <2>2. /\ SubSeq(c, 1, l) \in Seq(Module)
        /\ Len(SubSeq(c, 1, l)) = IF 1 <= l THEN (l - 1) + 1 ELSE 0
        /\ \A i \in 1 .. ((l - 1) + 1) : SubSeq(c, 1, l)[i] = c[(1 + i) - 1]
    BY <2>1, SubSeqProperties
  <2>3. (l - 1) + 1 = l /\ \A i \in 1 .. l : (1 + i) - 1 = i
    BY <2>1
  <2> QED BY <2>1, <2>2, <2>3
<1> DEFINE w == u \o v
<1>6. /\ w \in Seq(Module) /\ Len(w) = n
      /\ \A i \in 1 .. n : w[i] = IF i <= h THEN u[i] ELSE v[i - h]
  <2> HIDE DEF u, v, h
  <2>1. h + (k - 1) = n
    BY <1>1, <1>2 DEF h
  <2>2. /\ u \o v \in Seq(Module) /\ Len(u \o v) = Len(u) + Len(v)
        /\ \A i \in 1 .. Len(u) + Len(v) : (u \o v)[i] = IF i <= Len(u) THEN u[i] ELSE v[i - Len(u)]
    BY <1>4, <1>5, ConcatProperties
  <2> QED BY <2>1, <2>2, <1>4, <1>5
<1> DEFINE P(i) == IF i + k <= n + 1 THEN (i + k) - 1 ELSE ((i + k) - 1) - n
<1>7. \A i \in 1 .. n : w[i] = c[P(i)]
  <2> SUFFICES ASSUME NEW i \in 1 .. n PROVE w[i] = c[P(i)]
    OBVIOUS
  <2>1. CASE i <= h
    <3>1. i \in 1 .. h /\ P(i) = (k + i) - 1
      BY <2>1, <1>2
    <3> QED BY <3>1, <2>1, <1>4, <1>6
  <2>2. CASE ~(i <= h)
    <3>1. i - h \in 1 .. (k - 1) /\ P(i) = i - h
      BY <2>2, <1>2
    <3> QED BY <3>1, <2>2, <1>5, <1>6
  <2> QED BY <2>1, <2>2
<1>8. w = [i \in 1 .. n |-> c[P(i)]]
  <2> HIDE DEF w, P
  <2>1. w = [i \in 1 .. n |-> w[i]]
    BY <1>6
  <2> QED BY <2>1, <1>7
<1>9. Turn(c, k) = [i \in 1 .. n |-> c[P(i)]]
  BY <1>1 DEF Turn
<1> QED BY <1>1, <1>2, <1>3, <1>8, <1>9

LEMMA FirstIs ==
  ASSUME NEW c \in Rings, \A j \in 1 .. Len(c) : c[1] <= c[j]
  PROVE  Canonical(c) = c
<1>1. PICK n \in Nat \ {0} :
           /\ c \in [1 .. n -> Module] /\ Len(c) = n /\ DOMAIN c = 1 .. n
           /\ IsInjective(c) /\ \A i \in 1 .. n : c[i] \in Module
  BY RingIs
<1>2. PICK k \in 1 .. n : Canonical(c) = Turn(c, k) /\ \A j \in 1 .. n : c[k] <= c[j]
  BY <1>1, CanonicalIs
<1>3. 1 \in 1 .. n
  OBVIOUS
<1>4. c[k] \in Nat /\ c[1] \in Nat /\ c[1] <= c[k] /\ c[k] <= c[1]
  BY <1>1, <1>2, <1>3, FilesOK
<1>5. k = 1
  <2>1. c[k] = c[1]
    BY <1>4
  <2> QED BY <2>1, <1>1, <1>3 DEF IsInjective
<1>6. Turn(c, 1) = [i \in 1 .. n |-> c[IF i + 1 <= n + 1 THEN (i + 1) - 1 ELSE ((i + 1) - 1) - n]]
  BY <1>1 DEF Turn
<1>7. \A i \in 1 .. n : (IF i + 1 <= n + 1 THEN (i + 1) - 1 ELSE ((i + 1) - 1) - n) = i
  OBVIOUS
<1>8. Turn(c, 1) = [i \in 1 .. n |-> c[i]]
  BY <1>6, <1>7
<1>9. [i \in 1 .. n |-> c[i]] = c
  BY <1>1
<1> QED BY <1>2, <1>5, <1>8, <1>9

LEMMA CanonicalOK ==
  ASSUME NEW c \in Rings
  PROVE  /\ Canonical(c) \in Elementary /\ Canonical(c) \in Rings
         /\ Len(Canonical(c)) = Len(c) /\ ToSet(Canonical(c)) = ToSet(c)
<1>1. PICK n \in Nat \ {0} :
           Len(c) = n /\ DOMAIN c = 1 .. n /\ ToSet(c) = {c[i] : i \in 1 .. n}
  BY RingIs
<1>2. PICK k \in 1 .. n : Canonical(c) = Turn(c, k) /\ \A j \in 1 .. n : c[k] <= c[j]
  BY <1>1, CanonicalIs
<1> DEFINE t == Turn(c, k)
<1> HIDE DEF t
<1>3. t \in Rings /\ Len(t) = n /\ t[1] = c[k] /\ ToSet(t) = ToSet(c)
  BY <1>1, <1>2, TurnRing DEF t
<1>4. PICK l \in Nat \ {0} : Len(t) = l /\ ToSet(t) = {t[i] : i \in 1 .. l}
  BY <1>3, RingIs
<1>5. l = n
  BY <1>3, <1>4
<1>6. \A j \in 1 .. n : t[1] <= t[j]
  <2> SUFFICES ASSUME NEW j \in 1 .. n PROVE t[1] <= t[j]
    OBVIOUS
  <2>1. t[j] \in ToSet(c)
    BY <1>3, <1>4, <1>5
  <2>2. PICK i \in 1 .. n : t[j] = c[i]
    BY <2>1, <1>1
  <2> QED BY <2>2, <1>2, <1>3
<1>7. Canonical(t) = t
  BY <1>3, <1>6, FirstIs
<1>8. t \in Elementary
  BY <1>3, <1>7 DEF Elementary, Rings
<1> QED BY <1>1, <1>2, <1>3, <1>8 DEF t

LEMMA ElementaryIs ==
  ASSUME NEW c \in Elementary
  PROVE  c \in Rings /\ Canonical(c) = c /\ \A x \in ToSet(c) : c[1] <= x
<1>1. c \in Rings /\ Canonical(c) = c
  BY DEF Elementary, Rings
<1>2. PICK n \in Nat \ {0} : Len(c) = n /\ ToSet(c) = {c[i] : i \in 1 .. n}
  BY <1>1, RingIs
<1>3. PICK k \in 1 .. n : Canonical(c) = Turn(c, k) /\ \A j \in 1 .. n : c[k] <= c[j]
  BY <1>1, <1>2, CanonicalIs
<1>4. c[1] = c[k]
  <2>1. Turn(c, k)[1] = c[k]
    BY <1>1, <1>2, TurnRing
  <2>2. Turn(c, k) = c
    BY <1>1, <1>3
  <2> QED BY <2>1, <2>2
<1> QED BY <1>1, <1>2, <1>3, <1>4

(* Wherever an elementary cycle is entered, it is told as the same one.    *)
LEMMA TurnCanonical ==
  ASSUME NEW c \in Elementary, NEW k \in 1 .. Len(c)
  PROVE  Canonical(Turn(c, k)) = c
<1> DEFINE t == Turn(c, k)
<1> HIDE DEF t
<1>1. c \in Rings /\ \A x \in ToSet(c) : c[1] <= x
  BY ElementaryIs
<1>2. t \in Rings /\ Len(t) = Len(c) /\ ToSet(t) = ToSet(c)
  BY <1>1, TurnRing DEF t
<1>3. PICK n \in Nat \ {0} :
           /\ DOMAIN t = 1 .. n /\ Len(t) = n /\ (\A i \in 1 .. n : t[i] \in Module)
           /\ ToSet(t) = {t[i] : i \in 1 .. n} /\ IsInjective(t)
  BY <1>2, RingIs
<1>4. PICK b \in 1 .. n : Turn(t, b) = c /\ t[b] = c[1]
  BY <1>1, <1>2, <1>3, TurnBack DEF t
<1>5. PICK j \in 1 .. n : Canonical(t) = Turn(t, j) /\ \A i \in 1 .. n : t[j] <= t[i]
  BY <1>2, <1>3, CanonicalIs
<1>6. t[j] \in ToSet(c)
  BY <1>2, <1>3
<1>7. t[b] <= t[j] /\ t[j] <= t[b] /\ t[b] \in Nat /\ t[j] \in Nat
  BY <1>1, <1>3, <1>4, <1>5, <1>6, FilesOK
<1>8. t[b] = t[j]
  BY <1>7
<1>9. b = j
  BY <1>3, <1>8 DEF IsInjective
<1> QED BY <1>4, <1>5, <1>9 DEF t

LEMMA ElementaryFinite == IsFiniteSet(Elementary)
<1> DEFINE P == (1 .. FileCount) \X Module
           T == SUBSET P
           f == [c \in Elementary |-> {<<i, c[i]>> : i \in DOMAIN c}]
<1>1. IsFiniteSet(P)
  BY FilesOK, FS_Interval, FS_Product
<1>2. IsFiniteSet(T)
  BY <1>1, FS_SUBSET
<1>3. \A c \in Elementary : c \in Rings
  BY ElementaryIs
<1>4. \A c \in Elementary : f[c] \in T
  <2> SUFFICES ASSUME NEW c \in Elementary PROVE {<<i, c[i]>> : i \in DOMAIN c} \in T
    OBVIOUS
  <2>1. PICK n \in 1 .. FileCount : DOMAIN c = 1 .. n /\ \A i \in 1 .. n : c[i] \in Module
    BY <1>3, RingIs
  <2>2. 1 .. n \subseteq 1 .. FileCount
    BY FilesOK
  <2> QED BY <2>1, <2>2
<1>5. \A c, d \in Elementary : f[c] = f[d] => c = d
  <2> SUFFICES ASSUME NEW c \in Elementary, NEW d \in Elementary, f[c] = f[d] PROVE c = d
    OBVIOUS
  <2>1. PICK n \in Nat \ {0} : c \in [1 .. n -> Module] /\ DOMAIN c = 1 .. n
    BY <1>3, RingIs
  <2>2. PICK l \in Nat \ {0} : d \in [1 .. l -> Module] /\ DOMAIN d = 1 .. l
    BY <1>3, RingIs
  <2>3. {<<i, c[i]>> : i \in 1 .. n} = {<<i, d[i]>> : i \in 1 .. l}
    BY <2>1, <2>2
  <2>4. \A i \in 1 .. n : i \in 1 .. l /\ c[i] = d[i]
    <3> SUFFICES ASSUME NEW i \in 1 .. n PROVE i \in 1 .. l /\ c[i] = d[i]
      OBVIOUS
    <3>1. <<i, c[i]>> \in {<<j, d[j]>> : j \in 1 .. l}
      BY <2>3
    <3>2. PICK j \in 1 .. l : <<i, c[i]>> = <<j, d[j]>>
      BY <3>1
    <3> QED BY <3>2
  <2>5. \A i \in 1 .. l : i \in 1 .. n
    <3> SUFFICES ASSUME NEW i \in 1 .. l PROVE i \in 1 .. n
      OBVIOUS
    <3>1. <<i, d[i]>> \in {<<j, c[j]>> : j \in 1 .. n}
      BY <2>3
    <3>2. PICK j \in 1 .. n : <<i, d[i]>> = <<j, c[j]>>
      BY <3>1
    <3> QED BY <3>2
  <2>6. n = l
    BY <2>4, <2>5
  <2> QED BY <2>1, <2>2, <2>4, <2>6
<1>6. f \in Injection(Elementary, T)
  <2> HIDE DEF T
  <2>1. f \in [Elementary -> T]
    BY <1>4
  <2>2. \A c, d \in Elementary : f[c] = f[d] => c = d
    BY <1>5
  <2> HIDE DEF f
  <2>3. IsInjective(f)
    BY <2>1, <2>2 DEF IsInjective
  <2> QED BY <2>1, <2>3 DEF Injection
<1> QED BY <1>2, <1>6, FS_Injection

(* The files of a cycle can all be reached from each other.                *)
LEMMA RingReach ==
  ASSUME Given, at # "barrels", NEW c \in Rings
  PROVE  \A a, b \in ToSet(c) : Both(a, b)
<1>1. PICK n \in Nat \ {0} :
           /\ Len(c) = n /\ \A i \in 1 .. n : c[i] \in Module
           /\ ToSet(c) = {c[i] : i \in 1 .. n}
           /\ \A i \in 1 .. n : Follows(c, i) \in RunsInto(c[i])
  BY RingIs
<1>2. \A i \in 1 .. n : Follows(c, i) \in Into(c[i])
  BY <1>1 DEF Into
<1>3. \A i \in 1 .. n : Follows(c, i) = c[IF i = n THEN 1 ELSE i + 1]
  BY <1>1 DEF Follows
<1>4. ASSUME NEW i \in 1 .. n, NEW j \in i .. n PROVE Reach(c[i], c[j])
  <2> DEFINE T == {k \in i .. n : ~Reach(c[i], c[k])}
  <2> SUFFICES ASSUME j \in T PROVE FALSE
    BY DEF T
  <2>1. T \subseteq Nat /\ T # {}
    OBVIOUS
  <2>2. PICK k \in T : \A l \in T : k <= l
    BY <2>1, LeastNatural
  <2>3. k # i
    BY <2>2, ReachSelf
  <2>4. k - 1 \in i .. n /\ k - 1 \in 1 .. n /\ k - 1 # n /\ (k - 1) + 1 = k /\ k \in Nat
    BY <2>2, <2>3
  <2>5. Reach(c[i], c[k - 1])
    BY <2>2, <2>4
  <2>6. c[k] \in Into(c[k - 1])
    BY <1>2, <1>3, <2>4
  <2>7. Reach(c[i], c[k])
    BY <1>1, <2>4, <2>5, <2>6, ReachNext
  <2> QED BY <2>2, <2>7
<1>5. \A i \in 1 .. n : Reach(c[i], c[n]) /\ Reach(c[1], c[i])
  BY <1>4
<1>6. Reach(c[n], c[1])
  <2>1. c[1] \in Into(c[n]) /\ c[n] \in Module
    BY <1>1, <1>2, <1>3
  <2> QED BY <2>1, ReachSelf, ReachNext
<1>7. \A i, j \in 1 .. n : Reach(c[i], c[j])
  BY <1>5, <1>6, ReachOver
<1> QED BY <1>1, <1>7 DEF Both

LEMMA LenIs ==
  ASSUME NEW S, NEW s \in Seq(S), IsInjective(s)
  PROVE  IsFiniteSet(ToSet(s)) /\ Cardinality(ToSet(s)) = Len(s)
<1>1. PICK n \in Nat : n = Len(s) /\ DOMAIN s = 1 .. n /\ s \in [1 .. n -> S]
  <2>1. Len(s) \in Nat /\ DOMAIN s = 1 .. Len(s) /\ s \in [1 .. Len(s) -> S]
    OBVIOUS
  <2> QED BY <2>1
<1>2. ToSet(s) = {s[i] : i \in 1 .. n}
  BY <1>1 DEF ToSet
<1>3. s \in Bijection(1 .. n, ToSet(s))
  <2>1. s \in [1 .. n -> ToSet(s)]
    BY <1>1, <1>2
  <2>2. s \in Injection(1 .. n, ToSet(s))
    BY <2>1 DEF Injection
  <2>3. s \in Surjection(1 .. n, ToSet(s))
    BY <2>1, <1>2 DEF Surjection
  <2> QED BY <2>2, <2>3 DEF Bijection
<1>4. IsFiniteSet(1 .. n) /\ Cardinality(1 .. n) = n
  BY FS_Interval
<1>5. IsFiniteSet(ToSet(s)) /\ Cardinality(ToSet(s)) = Cardinality(1 .. n)
  <2> DEFINE D == 1 .. n
  <2>1. s \in Bijection(D, ToSet(s)) /\ IsFiniteSet(D)
    BY <1>3, <1>4
  <2> HIDE DEF D
  <2>2. ExistsBijection(D, ToSet(s))
    BY <2>1 DEF ExistsBijection
  <2>3. IsFiniteSet(ToSet(s)) /\ Cardinality(ToSet(s)) = Cardinality(D)
    BY <2>1, <2>2, FS_Bijection
  <2> QED BY <2>3 DEF D
<1> QED BY <1>1, <1>4, <1>5

(* Two files that reach each other, and no other, import each other.       *)
LEMMA PairIs ==
  ASSUME Given, NEW a \in Module, NEW b \in Module, a # b, Both(a, b),
         \A n \in Module : Both(a, n) => n \in {a, b}
  PROVE  b \in Into(a)
<1> SUFFICES ASSUME b \notin Into(a) PROVE FALSE
  OBVIOUS
<1> DEFINE s == {x \in Module : x = a \/ ~Reach(x, b)}
<1>1. ASSUME NEW x \in s, NEW y \in Into(x) PROVE y \in s
  <2>1. y \in Module /\ x \in Module
    BY IntoOK
  <2>2. CASE x = a
    <3>1. ASSUME Reach(y, b) PROVE y = a
      <4>1. Reach(a, y) /\ Reach(y, a)
        BY <3>1, <2>1, <2>2, ReachSelf, ReachNext, ReachOver DEF Both
      <4> QED BY <4>1, <2>1, <2>2 DEF Both
    <3> QED BY <3>1, <2>1
  <2>3. CASE x # a
    <3>1. ~Reach(x, b) /\ Reach(x, y)
      BY <2>1, <2>3, ReachSelf, ReachNext
    <3> QED BY <3>1, <2>1, ReachOver
  <2> QED BY <2>2, <2>3
<1>2. b \in s
  BY <1>1, ReachIn DEF Both
<1> QED BY <1>2, ReachSelf

Inside(c, d) == ToSet(c) \subseteq ToSet(d)
(* What is said of a cycle that a component was searched for.              *)
Told(c) == Lone(c) \/ Crowded(c[1]) \/ c \in ToSet(cycles)

LEMMA SeqIs ==
  ASSUME NEW S, NEW s \in Seq(S)
  PROVE  /\ Len(s) \in Nat /\ DOMAIN s = 1 .. Len(s) /\ s \in [1 .. Len(s) -> S]
         /\ ToSet(s) = {s[i] : i \in 1 .. Len(s)} /\ ToSet(s) \subseteq S
BY DEF ToSet

LEMMA RingLen ==
  ASSUME NEW c \in Rings
  PROVE  /\ c \in Seq(Module) /\ IsInjective(c) /\ Len(c) \in Nat \ {0} /\ c[1] \in ToSet(c)
         /\ ToSet(c) \subseteq Module /\ IsFiniteSet(ToSet(c)) /\ Cardinality(ToSet(c)) = Len(c)
<1>1. PICK n \in Nat \ {0} :
           /\ c \in Seq(Module) /\ Len(c) = n /\ (\A i \in 1 .. n : c[i] \in Module)
           /\ ToSet(c) = {c[i] : i \in 1 .. n} /\ IsInjective(c)
  BY RingIs
<1>2. 1 \in 1 .. n
  OBVIOUS
<1>3. c[1] \in ToSet(c) /\ ToSet(c) \subseteq Module
  BY <1>1, <1>2
<1>4. c \in Seq(Module) /\ IsInjective(c) /\ Len(c) \in Nat \ {0}
  BY <1>1
<1> QED BY <1>3, <1>4, LenIs

(* The component a cycle is in.                                            *)
LEMMA InsideIs ==
  ASSUME Given, at # "barrels", NEW d \in Seq(Module), Component(d),
         NEW c \in Elementary, Inside(c, d)
  PROVE  /\ c[1] \in ToSet(d) /\ Len(d) \in Nat \ {0} /\ Len(c) \in Nat \ {0} /\ Len(c) <= Len(d)
         /\ IsFiniteSet(ToSet(d)) /\ Cardinality(ToSet(d)) = Len(d)
         /\ Around(c[1], RunsInto) \in {{}, ToSet(d)}
         /\ Len(d) > 1 => Around(c[1], RunsInto) = ToSet(d)
<1>1. c \in Rings /\ d # <<>> /\ IsInjective(d)
  BY ElementaryIs DEF Component
<1>2. Len(d) \in Nat \ {0} /\ IsFiniteSet(ToSet(d)) /\ Cardinality(ToSet(d)) = Len(d)
  <2>1. Len(d) \in Nat \ {0}
    BY <1>1
  <2> QED BY <2>1, <1>1, LenIs
<1>3. /\ Len(c) \in Nat \ {0} /\ c[1] \in ToSet(d)
      /\ IsFiniteSet(ToSet(c)) /\ Cardinality(ToSet(c)) = Len(c)
  BY <1>1, RingLen DEF Inside
<1>4. Len(c) <= Len(d)
  BY <1>2, <1>3, FS_Subset DEF Inside
<1>5. Around(c[1], RunsInto) = Around(c[1], Into)
  BY AroundFirst
<1>6. Around(c[1], RunsInto) = IF Len(d) > 1 \/ d[1] \in Into(d[1]) THEN ToSet(d) ELSE {}
  BY <1>3, <1>5, AroundInto
<1> QED BY <1>2, <1>3, <1>4, <1>6

LEMMA OneLone ==
  ASSUME Given, at # "barrels", NEW d \in Seq(Module), Component(d),
         NEW c \in Elementary, Inside(c, d), Len(d) <= 2, Len(c) = 1
  PROVE  Lone(c)
<1>1. Cardinality(Around(c[1], RunsInto)) <= 2
  <2>1. CASE Around(c[1], RunsInto) = {}
    BY <2>1, FS_EmptySet
  <2>2. CASE Around(c[1], RunsInto) = ToSet(d)
    BY <2>2, InsideIs
  <2> QED BY <2>1, <2>2, InsideIs
<1> QED BY <1>1 DEF Lone

LEMMA LargeCrowded ==
  ASSUME Given, at # "barrels", NEW d \in Seq(Module), Component(d),
         NEW c \in Elementary, Inside(c, d), Len(d) > 1,
         \/ Len(d) > MaxSize
         \/ Cardinality({e \in Elementary : Inside(e, d)}) > MaxPerComponent
  PROVE  Crowded(c[1])
<1>1. Around(c[1], RunsInto) = ToSet(d) /\ Cardinality(ToSet(d)) = Len(d)
  BY InsideIs
<1> QED BY <1>1 DEF Crowded, Inside

(* A cycle is inside a component, or of a file that is in none.            *)
LEMMA InsideSome ==
  ASSUME TarjanOK, TarjanOver, at # "barrels", NEW c \in Elementary
  PROVE  Lone(c) \/ \E j \in DOMAIN components : Inside(c, components[j])
<1>1. /\ Given /\ components \in Seq(Seq(Module)) /\ Grouped /\ Covered /\ Finished = Module
  BY OverIs DEF TarjanOK, TarjanTyped
<1>2. /\ c \in Rings /\ c[1] \in ToSet(c) /\ c[1] \in Module /\ ToSet(c) \subseteq Module
      /\ Len(c) \in Nat \ {0} /\ Cardinality(ToSet(c)) = Len(c)
  BY ElementaryIs, RingLen
<1>3. \A a \in ToSet(c) : Both(c[1], a)
  BY <1>1, <1>2, RingReach
<1>4. CASE \E d \in ToSet(components) : c[1] \in ToSet(d)
  <2>1. PICK j \in DOMAIN components : c[1] \in ToSet(components[j])
    BY <1>4 DEF ToSet
  <2>2. Component(components[j])
    BY <1>1 DEF Grouped, ToSet
  <2>3. ToSet(components[j]) = {n \in Module : Both(c[1], n)}
    BY <2>1, <2>2 DEF Component
  <2>4. Inside(c, components[j])
    BY <2>3, <1>2, <1>3 DEF Inside
  <2> QED BY <2>4
<1>5. CASE ~\E d \in ToSet(components) : c[1] \in ToSet(d)
  <2>1. \A n \in Module : Both(c[1], n) => n = c[1]
    BY <1>1, <1>2, <1>5 DEF Covered
  <2>2. ToSet(c) = {c[1]}
    BY <1>2, <1>3, <2>1
  <2>3. Len(c) = 1
    BY <1>2, <2>2, FS_Singleton
  <2>4. \A n \in Around(c[1], RunsInto) : n = c[1]
    BY <1>1, <1>2, <2>1, AroundMeans, AroundFirst
  <2>5. Around(c[1], RunsInto) \subseteq {c[1]} /\ IsFiniteSet({c[1]}) /\ Cardinality({c[1]}) = 1
    BY <2>4, FS_Singleton
  <2>6. Cardinality(Around(c[1], RunsInto)) <= 1 /\ Cardinality(Around(c[1], RunsInto)) \in Nat
    BY <2>5, FS_Subset, FS_CardinalityType
  <2>7. Cardinality(Around(c[1], RunsInto)) <= 2
    BY <2>6
  <2> QED BY <2>3, <2>7 DEF Lone
<1> QED BY <1>4, <1>5

(* A component of two files is a cycle, and the only one of the two.       *)
LEMMA PairRing ==
  ASSUME Given, at # "barrels", NEW d \in Seq(Module), Component(d), Len(d) = 2
  PROVE  d \in Rings
<1>1. /\ d \in [1 .. 2 -> Module] /\ DOMAIN d = 1 .. 2 /\ d[1] \in Module /\ d[2] \in Module
      /\ ToSet(d) = {d[1], d[2]}
  <2>1. d \in [1 .. 2 -> Module] /\ DOMAIN d = 1 .. 2
    <3>1. DOMAIN d = 1 .. Len(d) /\ d \in [1 .. Len(d) -> Module]
      BY SeqIs
    <3> QED BY <3>1
  <2>2. 1 .. 2 = {1, 2}
    OBVIOUS
  <2> QED BY <2>1, <2>2 DEF ToSet
<1>2. IsInjective(d) /\ \A x \in ToSet(d) : ToSet(d) = {n \in Module : Both(x, n)}
  BY DEF Component
<1>3. d[1] # d[2]
  BY <1>1, <1>2 DEF IsInjective
<1>4. d[2] \in Into(d[1])
  BY <1>1, <1>2, <1>3, PairIs
<1>5. d[1] \in Into(d[2])
  BY <1>1, <1>2, <1>3, PairIs
<1>6. \A i \in 1 .. 2 : Follows(d, i) \in RunsInto(d[i])
  <2>1. Follows(d, 1) = d[2] /\ Follows(d, 2) = d[1]
    BY DEF Follows
  <2>2. \A x : Into(x) = RunsInto(x)
    BY DEF Into
  <2>3. \A i \in 1 .. 2 : i = 1 \/ i = 2
    OBVIOUS
  <2> QED BY <2>1, <2>2, <2>3, <1>4, <1>5
<1> DEFINE n == 2
<1>7. n \in Nat \ {0} /\ d \in [1 .. n -> Module] /\ \A i \in 1 .. n : Follows(d, i) \in RunsInto(d[i])
  BY <1>1, <1>6
<1> HIDE DEF n
<1> QED BY <1>2, <1>7, RingMade

LEMMA PairOnly ==
  ASSUME Given, at # "barrels", NEW d \in Seq(Module), Component(d), Len(d) = 2,
         NEW c \in Elementary, Inside(c, d), Len(c) # 1
  PROVE  c = Canonical(d)
<1>1. d \in Rings
  BY PairRing
<1>2. Len(c) = 2
  <2>1. Len(c) \in Nat \ {0} /\ Len(c) <= Len(d)
    BY InsideIs
  <2>2. \A l \in Nat \ {0} : l <= 2 /\ l # 1 => l = 2
    OBVIOUS
  <2> QED BY <2>1, <2>2
<1>3. c \in Rings
  BY ElementaryIs
<1>4. /\ d \in [1 .. 2 -> Module] /\ d[1] # d[2] /\ ToSet(d) = {d[1], d[2]}
  <2>1. PICK n \in Nat \ {0} :
           /\ d \in [1 .. n -> Module] /\ Len(d) = n /\ DOMAIN d = 1 .. n
           /\ ToSet(d) = {d[i] : i \in 1 .. n} /\ IsInjective(d)
    BY <1>1, RingIs
  <2>2. n = 2
    BY <2>1
  <2>3. 1 .. 2 = {1, 2}
    OBVIOUS
  <2> QED BY <2>1, <2>2, <2>3 DEF IsInjective
<1>5. /\ c \in [1 .. 2 -> Module] /\ c[1] # c[2] /\ c[1] \in ToSet(c) /\ c[2] \in ToSet(c)
      /\ DOMAIN c = 1 .. 2
  <2>1. PICK n \in Nat \ {0} :
           /\ c \in [1 .. n -> Module] /\ Len(c) = n /\ DOMAIN c = 1 .. n
           /\ ToSet(c) = {c[i] : i \in 1 .. n} /\ IsInjective(c)
    BY <1>3, RingIs
  <2>2. n = 2
    BY <1>2, <2>1
  <2>3. 1 \in 1 .. 2 /\ 2 \in 1 .. 2
    OBVIOUS
  <2> QED BY <2>1, <2>2, <2>3 DEF IsInjective
<1>6. (c[1] = d[1] /\ c[2] = d[2]) \/ (c[1] = d[2] /\ c[2] = d[1])
  <2>1. c[1] \in {d[1], d[2]} /\ c[2] \in {d[1], d[2]}
    BY <1>4, <1>5 DEF Inside
  <2> QED BY <2>1, <1>5
<1>7. \A i \in 1 .. 2 : i = 1 \/ i = 2
  OBVIOUS
<1>8. CASE c[1] = d[1] /\ c[2] = d[2]
  <2>1. c = d
    BY <1>4, <1>5, <1>7, <1>8
  <2> QED BY <2>1, ElementaryIs
<1>9. CASE c[1] = d[2] /\ c[2] = d[1]
  <2>1. Turn(c, 2) = [i \in 1 .. 2 |-> c[IF i + 2 <= 2 + 1 THEN (i + 2) - 1 ELSE ((i + 2) - 1) - 2]]
    BY <1>2 DEF Turn
  <2>2. Turn(c, 2) \in [1 .. 2 -> Module] /\ Turn(c, 2)[1] = c[2] /\ Turn(c, 2)[2] = c[1]
    BY <2>1, <1>5, <1>7
  <2>3. Turn(c, 2) = d
    BY <2>2, <1>4, <1>7, <1>9
  <2>4. 2 \in 1 .. Len(c)
    BY <1>2
  <2> QED BY <2>3, <2>4, TurnCanonical
<1> QED BY <1>6, <1>8, <1>9

(* What is reported so far is harmful and without a cycle twice.           *)
Recorded ==
  /\ cycles \in Seq(Elementary) /\ IsInjective(cycles) /\ \A c \in ToSet(cycles) : AtInit(c)
  /\ found \in Seq(Elementary) /\ component \in Nat \ {0} /\ start \in Nat \ {0}

(* The components before this one are done with.                           *)
Processed ==
  \A j \in DOMAIN components : j < component =>
    \/ Len(cycles) >= MaxTotal
    \/ \A c \in Elementary : AtInit(c) /\ Inside(c, components[j]) => Told(c)

(* What is to be reported of a component is, or is yet to be looked at.    *)
Remaining ==
  /\ component \in DOMAIN components /\ path = <<>> /\ tried = Unseen
  /\ \A c \in Elementary : AtInit(c) /\ Inside(c, Files) => Told(c) \/ c \in ToSet(found)

(* The path is one of imports in the component, from the file the search   *)
(* started at; what was tried is remembered for its files only.            *)
OnPath ==
  /\ path \in Seq(Module) /\ IsInjective(path)
  /\ path # <<>> => /\ component \in DOMAIN components /\ start - 1 \in DOMAIN Files
                    /\ path[1] = Files[start - 1] /\ Inside(path, Files)
  /\ \A i \in 1 .. (Len(path) - 1) : path[i + 1] \in RunsInto(path[i]) \cap tried[path[i]]
  /\ tried \in [Module -> SUBSET Module] /\ \A m \in Module \ ToSet(path) : tried[m] = {}

(* What was found is inside the component.                                 *)
FoundInside ==
  /\ IsInjective(found)
  /\ component \notin DOMAIN components => found = <<>>
  /\ component \in DOMAIN components => \A c \in ToSet(found) : Inside(c, Files)

Listing(p) == Canonical(p) \in ToSet(found)

(* The cycles through a file the search is over for are found.             *)
StartedFrom ==
  component \in DOMAIN components =>
    \A i \in DOMAIN Files : i < start /\ (path = <<>> \/ i # start - 1) =>
      \A p \in Rings : Inside(p, Files) /\ p[1] = Files[i] => Listing(p)

(* The cycle p follows the path for k files, then leaves it by a file that *)
(* was tried already.                                                      *)
Behind(p, k) == /\ k \in DOMAIN p /\ \A i \in 1 .. k : p[i] = path[i]
                /\ Follows(p, k) \in tried[path[k]]
                /\ k < Len(path) => Follows(p, k) # path[k + 1]
(* The cycles that lie behind the search are found.                        *)
Searched ==
  \A k \in DOMAIN path : \A p \in Rings : Inside(p, Files) /\ Behind(p, k) => Listing(p)

(* Before the enumeration.                                                 *)
Idle == /\ component = 1 /\ start = 1 /\ path = <<>> /\ tried = Unseen
        /\ found = <<>> /\ cycles = <<>>

CyclesIInv ==
  /\ at = "imports" => Idle
  /\ at \in {"cycles", "kept"} => Recorded /\ Processed
  /\ at = "kept" => Remaining
  /\ at = "cycles" => OnPath /\ FoundInside /\ StartedFrom /\ Searched
  /\ CyclesExact

LEMMA SameGraph ==
  ASSUME graph' = graph
  PROVE  /\ Rings' = Rings /\ Elementary' = Elementary
         /\ \A m : RunsInto(m)' = RunsInto(m) /\ Crowded(m)' = Crowded(m)
         /\ \A c : AtInit(c)' = AtInit(c) /\ Lone(c)' = Lone(c)
<1>1. \A m : RunsInto(m)' = RunsInto(m)
  BY DEF RunsInto, Runs
<1>2. Rings' = Rings
  BY <1>1 DEF Rings, Follows
<1>3. Elementary' = Elementary
  BY <1>1 DEF Elementary, Follows, Canonical
<1>4. \A m : Around(m, RunsInto)' = Around(m, RunsInto)
  BY DEF Around, Closure, RunsInto, Runs
<1>5. \A m : Crowded(m)' = Crowded(m)
  BY <1>3, <1>4 DEF Crowded
<1>6. \A c : Lone(c)' = Lone(c)
  BY <1>4 DEF Lone
<1>7. \A c : AtInit(c)' = AtInit(c)
  BY DEF AtInit, Follows
<1> QED BY <1>1, <1>2, <1>3, <1>5, <1>6, <1>7

LEMMA ToldStays ==
  ASSUME graph' = graph, ToSet(cycles) \subseteq ToSet(cycles)'
  PROVE  \A c : Told(c) => Told(c)'
BY SameGraph DEF Told

LEMMA ProcessedStays ==
  ASSUME graph' = graph, components' = components, component' = component, cycles' = cycles,
         Processed
  PROVE  Processed'
<1>1. \A c : Told(c) => Told(c)'
  <2>1. ToSet(cycles)' = ToSet(cycles)
    OBVIOUS
  <2> QED BY <2>1, ToldStays
<1>2. Elementary' = Elementary /\ \A c : AtInit(c)' = AtInit(c)
  BY SameGraph
<1> QED BY <1>1, <1>2 DEF Processed, Inside

LEMMA FilesAre ==
  ASSUME TarjanOK, component \in DOMAIN components
  PROVE  Files \in Seq(Module) /\ Component(Files)
<1>1. components \in Seq(Seq(Module)) /\ Grouped
  BY DEF TarjanOK, TarjanTyped
<1>2. Files \in ToSet(components)
  BY DEF Files, ToSet
<1> QED BY <1>1, <1>2, SeqIs DEF Files, Grouped

LEMMA StartKeepsPath ==
  ASSUME TarjanOK, Recorded, OnPath, StartSearch, graph' = graph
  PROVE  Recorded' /\ OnPath'
<1>1. /\ component \in Nat \ {0} /\ component <= Len(components) /\ start \in Nat \ {0}
      /\ path = <<>> /\ start <= Len(Files) /\ path' = <<Files[start]>> /\ start' = start + 1
      /\ UNCHANGED <<component, components, tried, found, cycles>>
  BY DEF StartSearch, Searching, Recorded, tarjan
<1>2. component \in DOMAIN components
  <2>1. components \in Seq(Seq(Module))
    BY DEF TarjanOK, TarjanTyped
  <2> QED BY <2>1, <1>1
<1>3. Files \in Seq(Module) /\ Files' = Files
  BY <1>1, <1>2, FilesAre DEF Files
<1>4. start \in DOMAIN Files /\ Files[start] \in Module /\ Files[start] \in ToSet(Files)
  <2>1. Len(Files) \in Nat /\ DOMAIN Files = 1 .. Len(Files) /\ ToSet(Files) \subseteq Module
    BY <1>3, SeqIs
  <2>2. start \in DOMAIN Files
    BY <2>1, <1>1
  <2>3. Files[start] \in ToSet(Files)
    BY <2>2 DEF ToSet
  <2> QED BY <2>1, <2>2, <2>3
<1>5. Recorded'
  <2>1. start' \in Nat \ {0}
    BY <1>1
  <2>2. ToSet(cycles)' = ToSet(cycles)
    BY <1>1
  <2> QED BY <2>1, <2>2, <1>1, SameGraph DEF Recorded
<1> DEFINE w == Files[start]
<1> HIDE DEF w
<1>6. /\ path' \in Seq(Module) /\ IsInjective(path') /\ Len(path') = 1 /\ path'[1] = w
      /\ ToSet(path') = {w}
  <2>1. path' = <<w>> /\ w \in Module
    BY <1>1, <1>4 DEF w
  <2>2. path' \in Seq(Module) /\ Len(path') = 1 /\ DOMAIN path' = {1} /\ path'[1] = w
    BY <2>1
  <2> QED BY <2>2 DEF IsInjective, ToSet
<1>7. tried \in [Module -> SUBSET Module] /\ \A x \in Module : tried[x] = {}
  <2>1. ToSet(path) = {}
    BY <1>1 DEF ToSet
  <2> QED BY <2>1 DEF OnPath
<1>8. start' - 1 \in DOMAIN Files' /\ path'[1] = Files'[start' - 1] /\ Inside(path, Files)'
  <2>1. start' - 1 = start
    BY <1>1
  <2>2. ToSet(Files') = ToSet(Files) /\ ToSet(path') \subseteq ToSet(Files)
    BY <1>3, <1>4, <1>6 DEF w
  <2> QED BY <2>1, <2>2, <1>3, <1>4, <1>6 DEF w, Inside
<1>9. \A i \in 1 .. (Len(path') - 1) : FALSE
  BY <1>6
<1> QED BY <1>1, <1>2, <1>5, <1>6, <1>7, <1>8, <1>9 DEF OnPath

LEMMA StartKeepsSearch ==
  ASSUME TarjanOK, Recorded, OnPath, FoundInside, StartedFrom, StartSearch, graph' = graph
  PROVE  FoundInside' /\ StartedFrom' /\ Searched'
<1>1. /\ start \in Nat \ {0} /\ component \in Nat \ {0} /\ component <= Len(components)
      /\ path = <<>> /\ path' = <<Files[start]>> /\ start' = start + 1
      /\ UNCHANGED <<component, components, tried, found, cycles>>
  BY DEF StartSearch, Searching, Recorded, tarjan
<1>2. component \in DOMAIN components
  <2>1. components \in Seq(Seq(Module))
    BY DEF TarjanOK, TarjanTyped
  <2> QED BY <2>1, <1>1
<1>3. Files \in Seq(Module) /\ Files' = Files
  BY <1>1, <1>2, FilesAre DEF Files
<1>4. Rings' = Rings /\ ToSet(found)' = ToSet(found)
  BY <1>1, SameGraph
<1>5. FoundInside'
  BY <1>1, <1>3, <1>4 DEF FoundInside, Inside
<1>6. StartedFrom'
  <2> SUFFICES ASSUME NEW i \in DOMAIN Files, i < start', path' = <<>> \/ i # start' - 1,
                      NEW p \in Rings, Inside(p, Files), p[1] = Files[i]
               PROVE  Canonical(p) \in ToSet(found)
    BY <1>1, <1>2, <1>3, <1>4 DEF StartedFrom, Listing, Inside
  <2>1. i \in Nat
    BY <1>3, SeqIs
  <2>2. i # start
    <3>1. path' # <<>> /\ start' - 1 = start
      BY <1>1
    <3> QED BY <3>1
  <2>3. i < start
    BY <2>1, <2>2, <1>1
  <2> QED BY <2>3, <1>1, <1>2 DEF StartedFrom, Listing
<1>7. Searched'
  <2> SUFFICES ASSUME NEW k \in DOMAIN path', NEW p \in Rings, Behind(p, k)'
               PROVE  FALSE
    BY <1>4 DEF Searched
  <2>1. k = 1 /\ path'[1] = Files[start]
    BY <1>1
  <2>2. tried[path'[k]] = {}
    <3>1. ToSet(path) = {} /\ path'[k] \in Module
      <4>1. path' \in Seq(Module)
        BY StartKeepsPath DEF OnPath
      <4> QED BY <4>1, <1>1, SeqIs DEF ToSet
    <3> QED BY <3>1 DEF OnPath
  <2>3. Follows(p, k) \in tried[path'[k]]
    BY <1>1 DEF Behind
  <2> QED BY <2>2, <2>3
<1> QED BY <1>5, <1>6, <1>7

LEMMA AppendNew ==
  ASSUME NEW S, NEW q \in Seq(S), NEW e \in S, IsInjective(q), e \notin ToSet(q)
  PROVE  IsInjective(Append(q, e))
<1> DEFINE a == Append(q, e)
           n == Len(q)
<1>1. /\ DOMAIN a = 1 .. (n + 1) /\ a[n + 1] = e /\ \A i \in 1 .. n : a[i] = q[i]
      /\ n \in Nat /\ DOMAIN q = 1 .. n
  BY AppendHolds, SeqIs
<1> HIDE DEF a, n
<1>2. \A i \in 1 .. n : q[i] # e
  BY <1>1 DEF ToSet
<1>3. \A i, j \in 1 .. n : q[i] = q[j] => i = j
  BY <1>1 DEF IsInjective
<1>4. \A i \in 1 .. (n + 1) : i \in 1 .. n \/ i = n + 1
  BY <1>1
<1>5. \A i, j \in 1 .. (n + 1) : a[i] = a[j] => i = j
  BY <1>1, <1>2, <1>3, <1>4
<1> QED BY <1>1, <1>5 DEF IsInjective, a

(* A path as a function on its first positions.                            *)
LEMMA PathIs ==
  ASSUME TarjanOK, OnPath, path # <<>>, at = "cycles"
  PROVE  \E d \in Nat \ {0} :
           /\ d = Len(path) /\ DOMAIN path = 1 .. d /\ path \in [1 .. d -> Module]
           /\ \A i \in 1 .. d : path[i] \in Module
           /\ ToSet(path) = {path[i] : i \in 1 .. d} /\ Last(path) = path[d] /\ path[d] \in Module
           /\ component \in DOMAIN components /\ Files \in Seq(Module) /\ Inside(path, Files)
           /\ Within(path[d]) = RunsInto(path[d]) \cap ToSet(Files)
<1>1. path \in Seq(Module) /\ component \in DOMAIN components /\ Inside(path, Files)
  BY DEF OnPath
<1>2. Len(path) \in Nat \ {0} /\ DOMAIN path = 1 .. Len(path) /\ path \in [1 .. Len(path) -> Module]
      /\ ToSet(path) = {path[i] : i \in 1 .. Len(path)}
  BY <1>1, SeqIs
<1>3. Files \in Seq(Module)
  BY <1>1, FilesAre
<1>4. Last(path) = path[Len(path)] /\ path[Len(path)] \in Module
  BY <1>2 DEF Last
<1>5. \A i \in 1 .. Len(path) : path[i] \in Module
  BY <1>2
<1>6. \A m : Within(m) = RunsInto(m) \cap ToSet(Files)
  BY DEF Within, Into
<1> QED BY <1>1, <1>2, <1>3, <1>4, <1>5, <1>6

(* A path from whose end its first file is imported is a cycle.            *)
LEMMA PathCloses ==
  ASSUME TarjanOK, OnPath, path # <<>>, at = "cycles", path[1] \in RunsInto(Last(path))
  PROVE  path \in Rings
<1>1. PICK d \in Nat \ {0} :
           /\ d = Len(path) /\ path \in [1 .. d -> Module] /\ Last(path) = path[d]
  BY PathIs
<1>2. IsInjective(path) /\ \A i \in 1 .. (d - 1) : path[i + 1] \in RunsInto(path[i])
  BY <1>1 DEF OnPath
<1>3. ASSUME NEW i \in 1 .. d PROVE Follows(path, i) \in RunsInto(path[i])
  <2>1. CASE i = d
    <3>1. Follows(path, i) = path[1]
      BY <1>1, <2>1 DEF Follows
    <3> QED BY <3>1, <2>1, <1>1
  <2>2. CASE i # d
    <3>1. i # Len(path)
      BY <1>1, <2>2
    <3>2. Follows(path, i) = path[i + 1]
      BY <3>1 DEF Follows
    <3>3. i \in 1 .. (d - 1)
      BY <2>2
    <3> QED BY <3>2, <3>3, <1>2
  <2> QED BY <2>1, <2>2
<1> QED BY <1>1, <1>2, <1>3, RingMade

(* A cycle that follows the path to its end and then comes back to it is   *)
(* the path.                                                               *)
LEMMA PathRing ==
  ASSUME TarjanOK, OnPath, path # <<>>, at = "cycles", NEW p \in Rings,
         Len(path) \in DOMAIN p, \A i \in 1 .. Len(path) : p[i] = path[i],
         Follows(p, Len(path)) \in ToSet(path)
  PROVE  p = path /\ Follows(p, Len(path)) = path[1]
<1>1. PICK d \in Nat \ {0} :
           /\ d = Len(path) /\ path \in [1 .. d -> Module] /\ ToSet(path) = {path[i] : i \in 1 .. d}
  BY PathIs
<1>2. PICK n \in Nat \ {0} :
           p \in [1 .. n -> Module] /\ Len(p) = n /\ DOMAIN p = 1 .. n /\ IsInjective(p)
  BY RingIs
<1>3. d \in 1 .. n /\ \A i \in 1 .. d : p[i] = path[i]
  BY <1>1, <1>2
<1>4. Follows(p, d) \in {path[i] : i \in 1 .. d}
  BY <1>1
<1>5. d = n
  <2> SUFFICES ASSUME d # n PROVE FALSE
    OBVIOUS
  <2>1. Follows(p, d) = p[d + 1] /\ d + 1 \in 1 .. n
    BY <1>2, <1>3 DEF Follows
  <2>2. PICK i \in 1 .. d : Follows(p, d) = path[i]
    BY <1>4
  <2>3. p[d + 1] = p[i] /\ i \in 1 .. n /\ i # d + 1
    BY <1>3, <2>1, <2>2
  <2> QED BY <1>2, <2>1, <2>3 DEF IsInjective
<1>6. p = path
  BY <1>1, <1>2, <1>3, <1>5
<1>7. Follows(p, d) = path[1]
  BY <1>2, <1>5, <1>6 DEF Follows
<1> QED BY <1>1, <1>6, <1>7

(* One step of the search: s is looked at from the end of the path.        *)
Extended(s) ==
  /\ at = "cycles" /\ path # <<>> /\ s \in Within(Last(path)) \ tried[Last(path)]
  /\ tried' = [tried EXCEPT ![Last(path)] = @ \cup {s}]
  /\ found' = IF s = path[1] /\ Canonical(path) \notin ToSet(found)
              THEN Append(found, Canonical(path)) ELSE found
  /\ path' = IF s \in ToSet(path) THEN path ELSE Append(path, s)
  /\ UNCHANGED <<component, components, start, cycles>>

LEMMA ExtendIs == ASSUME Extend PROVE \E s : Extended(s)
BY DEF Extend, Extended, Searching, tarjan

LEMMA ExtendFound ==
  ASSUME TarjanOK, Recorded, OnPath, FoundInside, NEW s, Extended(s)
  PROVE  /\ found' \in Seq(Elementary) /\ IsInjective(found')
         /\ ToSet(found) \subseteq ToSet(found)'
         /\ \A c \in ToSet(found)' : Inside(c, Files)
         /\ s = path[1] => Canonical(path) \in ToSet(found)'
<1>1. /\ at = "cycles" /\ path # <<>> /\ s \in Within(Last(path))
      /\ found' = IF s = path[1] /\ Canonical(path) \notin ToSet(found)
                  THEN Append(found, Canonical(path)) ELSE found
  BY DEF Extended
<1>2. found \in Seq(Elementary) /\ IsInjective(found) /\ \A c \in ToSet(found) : Inside(c, Files)
  BY <1>1, PathIs DEF Recorded, FoundInside
<1>3. CASE s = path[1] /\ Canonical(path) \notin ToSet(found)
  <2>1. path \in Rings /\ Inside(path, Files)
    <3>1. s \in RunsInto(Last(path))
      BY <1>1, PathIs
    <3> QED BY <1>1, <1>3, <3>1, PathCloses, PathIs
  <2> DEFINE c == Canonical(path)
  <2> HIDE DEF c
  <2>2. c \in Elementary /\ Inside(c, Files)
    BY <2>1, CanonicalOK DEF c, Inside
  <2>3. found' = Append(found, c) /\ c \notin ToSet(found)
    BY <1>1, <1>3 DEF c
  <2>4. found' \in Seq(Elementary) /\ IsInjective(found') /\ ToSet(found') = ToSet(found) \cup {c}
    BY <1>2, <2>2, <2>3, AppendHolds, AppendNew
  <2> QED BY <1>2, <2>2, <2>4 DEF c
<1>4. CASE ~(s = path[1] /\ Canonical(path) \notin ToSet(found))
  BY <1>1, <1>2, <1>4
<1> QED BY <1>3, <1>4

(* What it leaves, the path having had d files.                            *)
ExtendedTo(s, d) ==
  /\ d = Len(path) /\ \A i \in 1 .. d : path'[i] = path[i]
  /\ path' # <<>> /\ DOMAIN path = 1 .. d /\ IsInjective(path') /\ path' \in Seq(Module)
  /\ s \in ToSet(path) => path' = path
  /\ s \notin ToSet(path) =>
       DOMAIN path' = 1 .. (d + 1) /\ Len(path') = d + 1 /\ path'[d + 1] = s
  /\ tried' \in [Module -> SUBSET Module] /\ path[d] \in ToSet(path)
  /\ \A x \in Module : tried'[x] = IF x = path[d] THEN tried[x] \cup {s} ELSE tried[x]
  /\ s \in RunsInto(path[d]) /\ s \in ToSet(Files) /\ s \in Module
  /\ ToSet(path') = ToSet(path) \cup {s}

LEMMA ExtendPath ==
  ASSUME TarjanOK, OnPath, NEW s, Extended(s)
  PROVE  \E d \in Nat \ {0} : ExtendedTo(s, d)
<1>1. /\ at = "cycles" /\ path # <<>> /\ s \in Within(Last(path)) \ tried[Last(path)]
      /\ tried' = [tried EXCEPT ![Last(path)] = @ \cup {s}]
      /\ path' = IF s \in ToSet(path) THEN path ELSE Append(path, s)
  BY DEF Extended
<1>2. PICK d \in Nat \ {0} :
           /\ d = Len(path) /\ DOMAIN path = 1 .. d /\ (\A i \in 1 .. d : path[i] \in Module)
           /\ ToSet(path) = {path[i] : i \in 1 .. d} /\ Last(path) = path[d] /\ path[d] \in Module
           /\ Files \in Seq(Module)
           /\ Within(path[d]) = RunsInto(path[d]) \cap ToSet(Files)
  BY <1>1, PathIs
<1>3. path \in Seq(Module) /\ IsInjective(path) /\ tried \in [Module -> SUBSET Module]
  BY DEF OnPath
<1>4. s \in RunsInto(path[d]) /\ s \in ToSet(Files) /\ s \in Module
  <2>1. ToSet(Files) \subseteq Module
    BY <1>2, SeqIs
  <2> QED BY <2>1, <1>1, <1>2
<1>5. /\ tried' \in [Module -> SUBSET Module]
      /\ \A x \in Module : tried'[x] = IF x = path[d] THEN tried[x] \cup {s} ELSE tried[x]
  <2>1. tried' = [tried EXCEPT ![path[d]] = @ \cup {s}] /\ path[d] \in Module
    BY <1>1, <1>2
  <2> QED BY <2>1, <1>3, <1>4
<1>6. path[d] \in ToSet(path) /\ d \in 1 .. d
  BY <1>2
<1>7. CASE s \in ToSet(path)
  <2>1. path' = path /\ path' # <<>> /\ ToSet(path') = ToSet(path) \cup {s}
    BY <1>1, <1>7
  <2>2. d = Len(path) /\ DOMAIN path = 1 .. d
    BY <1>2
  <2>3. ExtendedTo(s, d)
    BY <2>1, <2>2, <1>3, <1>4, <1>5, <1>6, <1>7 DEF ExtendedTo
  <2> QED BY <2>3
<1>8. CASE s \notin ToSet(path)
  <2>1. /\ path' \in Seq(Module) /\ ToSet(path') = ToSet(path) \cup {s} /\ Len(path') = d + 1
        /\ path'[d + 1] = s /\ (\A i \in 1 .. d : path'[i] = path[i]) /\ DOMAIN path' = 1 .. (d + 1)
        /\ IsInjective(path') /\ path' # <<>>
    <3>1. path' = Append(path, s)
      BY <1>1, <1>8
    <3>2. /\ path' \in Seq(Module) /\ ToSet(path') = ToSet(path) \cup {s} /\ Len(path') = d + 1
          /\ path'[d + 1] = s /\ (\A i \in 1 .. d : path'[i] = path[i]) /\ DOMAIN path' = 1 .. (d + 1)
      BY <3>1, <1>2, <1>3, <1>4, AppendHolds
    <3>3. IsInjective(path')
      BY <3>1, <1>3, <1>4, <1>8, AppendNew
    <3>4. path' # <<>>
      BY <3>2
    <3> QED BY <3>2, <3>3, <3>4
  <2>2. d = Len(path) /\ DOMAIN path = 1 .. d
    BY <1>2
  <2>3. ExtendedTo(s, d)
    BY <2>1, <2>2, <1>4, <1>5, <1>6, <1>8 DEF ExtendedTo
  <2> QED BY <2>3
<1> QED BY <1>7, <1>8

LEMMA ExtendOnPath ==
  ASSUME TarjanOK, OnPath, NEW s, Extended(s), graph' = graph
  PROVE  OnPath'
<1>1. /\ at = "cycles" /\ path # <<>> /\ UNCHANGED <<component, components, start>>
  BY DEF Extended
<1>0. PICK d \in Nat \ {0} : ExtendedTo(s, d)
  BY ExtendPath
<1>2.
           /\ d = Len(path) /\ \A i \in 1 .. d : path'[i] = path[i]
           /\ path' # <<>> /\ IsInjective(path') /\ path' \in Seq(Module)
           /\ s \in ToSet(path) => path' = path
           /\ s \notin ToSet(path) => Len(path') = d + 1 /\ path'[d + 1] = s
           /\ tried' \in [Module -> SUBSET Module] /\ path[d] \in ToSet(path)
           /\ \A x \in Module : tried'[x] = IF x = path[d] THEN tried[x] \cup {s} ELSE tried[x]
           /\ s \in RunsInto(path[d]) /\ s \in ToSet(Files) /\ s \in Module
           /\ ToSet(path') = ToSet(path) \cup {s}
  BY <1>0 DEF ExtendedTo
<1>3. /\ component \in DOMAIN components /\ start - 1 \in DOMAIN Files
      /\ path[1] = Files[start - 1] /\ Inside(path, Files)
      /\ path \in Seq(Module) /\ ToSet(path) \subseteq Module
      /\ \A m \in Module \ ToSet(path) : tried[m] = {}
  BY <1>1, SeqIs DEF OnPath
<1>4. ASSUME NEW i \in 1 .. (d - 1)
      PROVE  path[i] \in Module /\ path[i + 1] \in RunsInto(path[i]) /\ path[i + 1] \in tried[path[i]]
  <2>1. path[i] \in Module
    BY <1>2, <1>3
  <2> QED BY <2>1, <1>2 DEF OnPath
<1>5. \A x \in Module : tried[x] \subseteq tried'[x]
  BY <1>2
<1>6. ASSUME NEW i \in 1 .. (Len(path') - 1)
      PROVE  path'[i + 1] \in RunsInto(path'[i]) /\ path'[i + 1] \in tried'[path'[i]]
  <2>1. CASE i \in 1 .. (d - 1)
    <3>1. i \in 1 .. d /\ i + 1 \in 1 .. d
      BY <2>1
    <3>2. path'[i] = path[i] /\ path'[i + 1] = path[i + 1]
      BY <3>1, <1>2
    <3> QED BY <3>2, <2>1, <1>4, <1>5
  <2>2. CASE i \notin 1 .. (d - 1)
    <3>1. s \notin ToSet(path)
      BY <2>2, <1>2
    <3>2. i = d /\ path'[i + 1] = s
      BY <3>1, <2>2, <1>2
    <3>3. path'[i] = path[d]
      <4>1. d \in 1 .. d
        OBVIOUS
      <4> QED BY <4>1, <3>2, <1>2
    <3>4. path[d] \in Module /\ s \in tried'[path[d]]
      BY <1>2, <1>3
    <3> QED BY <3>2, <3>3, <3>4, <1>2
  <2> QED BY <2>1, <2>2
<1>7. \A m \in Module \ ToSet(path') : tried'[m] = {}
  BY <1>2, <1>3
<1>8. path'[1] = path[1]
  <2>1. 1 \in 1 .. d
    OBVIOUS
  <2> QED BY <2>1, <1>2
<1>9. Files' = Files /\ component' \in DOMAIN components'
  BY <1>1, <1>3 DEF Files
<1>10. start' - 1 \in DOMAIN Files' /\ path'[1] = Files'[start' - 1] /\ Inside(path, Files)'
  <2>1. Inside(path, Files)'
    BY <1>2, <1>3, <1>9 DEF Inside
  <2> QED BY <2>1, <1>1, <1>3, <1>8, <1>9
<1>11. \A m : RunsInto(m)' = RunsInto(m)
  BY SameGraph
<1>12. \A i \in 1 .. (Len(path) - 1)' : (path[i + 1])' \in (RunsInto(path[i]) \cap tried[path[i]])'
  BY <1>6, <1>11
<1>13. path' \in Seq(Module) /\ IsInjective(path') /\ tried' \in [Module -> SUBSET Module]
  BY <1>2
<1> QED BY <1>7, <1>9, <1>10, <1>12, <1>13 DEF OnPath

LEMMA ExtendKeeps ==
  ASSUME TarjanOK, Recorded, OnPath, FoundInside, StartedFrom, Searched,
         NEW s, Extended(s), graph' = graph
  PROVE  Recorded' /\ OnPath' /\ FoundInside' /\ StartedFrom' /\ Searched'
<1>1. /\ at = "cycles" /\ path # <<>> /\ s \in Within(Last(path))
      /\ UNCHANGED <<component, components, start, cycles>>
  BY DEF Extended
<1>2. /\ found' \in Seq(Elementary) /\ IsInjective(found')
      /\ ToSet(found) \subseteq ToSet(found)'
      /\ \A c \in ToSet(found)' : Inside(c, Files)
      /\ s = path[1] => Canonical(path) \in ToSet(found)'
  BY ExtendFound
<1>0. PICK d \in Nat \ {0} : ExtendedTo(s, d)
  BY ExtendPath
<1>3.
           /\ d = Len(path) /\ \A i \in 1 .. d : path'[i] = path[i]
           /\ path' # <<>> /\ DOMAIN path = 1 .. d
           /\ s \in ToSet(path) => path' = path
           /\ s \notin ToSet(path) =>
                DOMAIN path' = 1 .. (d + 1) /\ Len(path') = d + 1 /\ path'[d + 1] = s
           /\ \A x \in Module : tried'[x] = IF x = path[d] THEN tried[x] \cup {s} ELSE tried[x]
  BY <1>0 DEF ExtendedTo
<1>4. component \in DOMAIN components /\ Files' = Files /\ Rings' = Rings /\ Elementary' = Elementary
  BY <1>1, PathIs, SameGraph DEF Files
<1>5. Recorded'
  <2>1. ToSet(cycles)' = ToSet(cycles)
    BY <1>1
  <2> QED BY <2>1, <1>1, <1>2, <1>4, SameGraph DEF Recorded
<1>6. FoundInside'
  BY <1>1, <1>2, <1>4 DEF FoundInside, Inside
<1>7. StartedFrom'
  <2>1. \A p : Listing(p) => Listing(p)'
    BY <1>2 DEF Listing, Canonical
  <2> QED BY <2>1, <1>1, <1>3, <1>4 DEF StartedFrom, Inside
<1>8. Searched'
  <2> SUFFICES ASSUME NEW k \in DOMAIN path', NEW p \in Rings, Inside(p, Files), Behind(p, k)'
               PROVE  Canonical(p) \in ToSet(found)'
    BY <1>4 DEF Searched, Listing, Inside, Canonical
  <2>1. /\ k \in DOMAIN p /\ \A i \in 1 .. k : p[i] = path'[i]
        /\ Follows(p, k) \in tried'[path'[k]]
        /\ k < Len(path') => Follows(p, k) # path'[k + 1]
    BY DEF Behind, Follows
  <2>2. path \in Seq(Module) /\ IsInjective(path) /\ \A m \in Module \ ToSet(path) : tried[m] = {}
    BY DEF OnPath
  <2>3. ToSet(path) = {path[i] : i \in 1 .. d} /\ (\A i \in 1 .. d : path[i] \in Module) /\ s \in Module
    <3>1. s \in ToSet(Files) /\ Files \in Seq(Module)
      BY <1>1, PathIs
    <3> QED BY <3>1, <1>1, <1>3, SeqIs, PathIs
  <2>4. ASSUME Behind(p, k), k \in 1 .. d PROVE Canonical(p) \in ToSet(found)'
    <3>1. Listing(p)
      BY <2>4, <1>3 DEF Searched
    <3> QED BY <3>1, <1>2 DEF Listing
  <2>5. ASSUME k \in 1 .. d PROVE \A i \in 1 .. k : p[i] = path[i]
    <3>1. \A i \in 1 .. k : i \in 1 .. d
      BY <2>5
    <3> QED BY <3>1, <2>1, <1>3
  <2>6. CASE k \in 1 .. d /\ k # d
    <3>1. path'[k] = path[k] /\ path'[k + 1] = path[k + 1]
      BY <2>6, <1>3
    <3>2. path[k] # path[d] /\ path[k] \in Module
      BY <2>2, <2>3, <2>6, <1>3 DEF IsInjective
    <3>3. tried'[path[k]] = tried[path[k]]
      BY <3>2, <1>3
    <3>4. k < Len(path) /\ k < Len(path')
      <4>1. Len(path') = d \/ Len(path') = d + 1
        BY <1>3
      <4> QED BY <4>1, <2>6, <1>3
    <3>5. Behind(p, k)
      BY <3>1, <3>3, <3>4, <2>1, <2>5, <2>6 DEF Behind
    <3> QED BY <3>5, <2>4, <2>6
  <2>7. CASE k = d
    <3>1. path'[k] = path[d] /\ tried'[path[d]] = tried[path[d]] \cup {s}
      <4>1. path[d] \in Module /\ d \in 1 .. d
        BY <2>3
      <4> QED BY <4>1, <2>7, <1>3
    <3>2. Follows(p, d) \in tried[path[d]] \/ Follows(p, d) = s
      BY <3>1, <2>1, <2>7
    <3>3. CASE Follows(p, d) \in tried[path[d]]
      <4>1. Behind(p, d)
        BY <3>3, <2>1, <2>5, <2>7, <1>3 DEF Behind
      <4> QED BY <4>1, <2>4, <2>7
    <3>4. CASE Follows(p, d) = s
      <4>1. s \in ToSet(path)
        <5> SUFFICES ASSUME s \notin ToSet(path) PROVE FALSE
          OBVIOUS
        <5>1. Len(path') = d + 1 /\ path'[d + 1] = s
          BY <1>3
        <5>2. k < Len(path') /\ path'[k + 1] = s
          BY <5>1, <2>7
        <5> QED BY <5>2, <3>4, <2>1, <2>7
      <4>2. \A i \in 1 .. d : p[i] = path[i]
        BY <2>5, <2>7
      <4>3. p = path /\ s = path[1]
        BY <4>1, <4>2, <3>4, <2>1, <2>7, <1>1, <1>3, PathRing
      <4> QED BY <4>3, <1>2
    <3> QED BY <3>2, <3>3, <3>4
  <2>8. CASE k \notin 1 .. d
    <3>1. s \notin ToSet(path) /\ k = d + 1 /\ path'[k] = s
      BY <2>8, <1>3
    <3>2. s # path[d]
      BY <3>1, <2>3
    <3>3. tried'[s] = {}
      BY <3>1, <3>2, <2>2, <2>3, <1>3
    <3> QED BY <3>1, <3>3, <2>1
  <2> QED BY <2>6, <2>7, <2>8
<1> QED BY <1>5, <1>6, <1>7, <1>8, ExtendOnPath

(* The search goes back: all that the last file of the path imports has    *)
(* been looked at.                                                         *)
BackedUp(d) ==
  /\ d = Len(path) /\ DOMAIN path = 1 .. d /\ path \in [1 .. d -> Module]
  /\ path' \in Seq(Module) /\ IsInjective(path') /\ Len(path') = d - 1
  /\ DOMAIN path' = 1 .. (d - 1) /\ \A i \in 1 .. (d - 1) : path'[i] = path[i]
  /\ ToSet(path') \subseteq ToSet(path) /\ \A x \in ToSet(path) : x \in ToSet(path') \/ x = path[d]
  /\ path[d] \in Module /\ RunsInto(path[d]) \cap ToSet(Files) \subseteq tried[path[d]]
  /\ tried' \in [Module -> SUBSET Module]
  /\ \A x \in Module : tried'[x] = IF x = path[d] THEN {} ELSE tried[x]

LEMMA BackPath ==
  ASSUME TarjanOK, OnPath, BackUp
  PROVE  \E d \in Nat \ {0} : BackedUp(d)
<1>1. /\ at = "cycles" /\ path # <<>> /\ Within(Last(path)) \subseteq tried[Last(path)]
      /\ path' = Front(path) /\ tried' = [tried EXCEPT ![Last(path)] = {}]
  BY DEF BackUp, Searching
<1>2. PICK d \in Nat \ {0} :
           /\ d = Len(path) /\ DOMAIN path = 1 .. d /\ path \in [1 .. d -> Module]
           /\ Last(path) = path[d] /\ path[d] \in Module
           /\ Within(path[d]) = RunsInto(path[d]) \cap ToSet(Files)
  BY <1>1, PathIs
<1>3. path \in Seq(Module) /\ IsInjective(path) /\ tried \in [Module -> SUBSET Module]
  BY DEF OnPath
<1>4. /\ path' \in Seq(Module) /\ Len(path') = d - 1
      /\ DOMAIN path' = 1 .. (d - 1) /\ \A i \in 1 .. (d - 1) : path'[i] = path[i]
      /\ ToSet(path') \subseteq ToSet(path) /\ \A x \in ToSet(path) : x \in ToSet(path') \/ x = path[d]
  BY <1>1, <1>2, <1>3, FrontHolds
<1>5. IsInjective(path')
  <2>1. \A i, j \in 1 .. d : path[i] = path[j] => i = j
    BY <1>2, <1>3 DEF IsInjective
  <2> QED BY <2>1, <1>4 DEF IsInjective
<1>6. /\ tried' \in [Module -> SUBSET Module]
      /\ \A x \in Module : tried'[x] = IF x = path[d] THEN {} ELSE tried[x]
  <2>1. tried' = [tried EXCEPT ![path[d]] = {}] /\ path[d] \in Module
    BY <1>1, <1>2
  <2> QED BY <2>1, <1>3
<1>7. RunsInto(path[d]) \cap ToSet(Files) \subseteq tried[path[d]]
  BY <1>1, <1>2
<1>8. BackedUp(d)
  BY <1>2, <1>4, <1>5, <1>6, <1>7 DEF BackedUp
<1> QED BY <1>8

LEMMA BackOnPath ==
  ASSUME TarjanOK, OnPath, BackUp, graph' = graph
  PROVE  OnPath'
<1>0. PICK d \in Nat \ {0} : BackedUp(d)
  BY BackPath
<1>1. path # <<>> /\ UNCHANGED <<component, components, start>>
  BY DEF BackUp, tarjan
<1>2. /\ d = Len(path) /\ path \in [1 .. d -> Module]
      /\ path' \in Seq(Module) /\ IsInjective(path') /\ Len(path') = d - 1
      /\ \A i \in 1 .. (d - 1) : path'[i] = path[i]
      /\ ToSet(path') \subseteq ToSet(path) /\ \A x \in ToSet(path) : x \in ToSet(path') \/ x = path[d]
      /\ tried' \in [Module -> SUBSET Module]
      /\ \A x \in Module : tried'[x] = IF x = path[d] THEN {} ELSE tried[x]
  BY <1>0 DEF BackedUp
<1>3. /\ component \in DOMAIN components /\ start - 1 \in DOMAIN Files
      /\ path[1] = Files[start - 1] /\ Inside(path, Files)
      /\ \A m \in Module \ ToSet(path) : tried[m] = {}
      /\ IsInjective(path)
  BY <1>1 DEF OnPath
<1>4. ASSUME NEW i \in 1 .. (Len(path') - 1)
      PROVE  path'[i + 1] \in RunsInto(path'[i]) /\ path'[i + 1] \in tried'[path'[i]]
  <2>1. i \in 1 .. (d - 1) /\ i + 1 \in 1 .. (d - 1) /\ i \in 1 .. d /\ d \in 1 .. d /\ i # d
    BY <1>2
  <2>2. path'[i] = path[i] /\ path'[i + 1] = path[i + 1] /\ path[i] \in Module
    BY <1>2, <2>1
  <2>3. path[i] # path[d]
    BY <1>2, <1>3, <2>1 DEF IsInjective
  <2>4. path[i + 1] \in RunsInto(path[i]) /\ path[i + 1] \in tried[path[i]]
    BY <1>2, <2>1 DEF OnPath
  <2> QED BY <2>2, <2>3, <2>4, <1>2
<1>5. \A m \in Module \ ToSet(path') : tried'[m] = {}
  BY <1>2, <1>3
<1>6. Files' = Files /\ component' \in DOMAIN components'
  BY <1>1, <1>3 DEF Files
<1>7. path' # <<>> => start' - 1 \in DOMAIN Files' /\ path'[1] = Files'[start' - 1] /\ Inside(path, Files)'
  <2>1. ASSUME path' # <<>> PROVE path'[1] = path[1]
    <3>1. 1 \in 1 .. (d - 1)
      <4>1. Len(path') # 0
        BY <2>1, <1>2
      <4> QED BY <4>1, <1>2
    <3> QED BY <3>1, <1>2
  <2>2. Inside(path, Files)'
    BY <1>2, <1>3, <1>6 DEF Inside
  <2> QED BY <2>1, <2>2, <1>1, <1>3, <1>6
<1>8. \A m : RunsInto(m)' = RunsInto(m)
  BY SameGraph
<1>9. \A i \in 1 .. (Len(path) - 1)' : (path[i + 1])' \in (RunsInto(path[i]) \cap tried[path[i]])'
  BY <1>4, <1>8
<1>10. path' \in Seq(Module) /\ IsInjective(path') /\ tried' \in [Module -> SUBSET Module]
  BY <1>2
<1> QED BY <1>5, <1>6, <1>7, <1>9, <1>10 DEF OnPath

(* A cycle of the component that follows the path to its end is listed.    *)
LEMMA BackListed ==
  ASSUME TarjanOK, OnPath, Searched, BackUp, NEW d \in Nat \ {0}, BackedUp(d),
         NEW p \in Rings, Inside(p, Files), d \in DOMAIN p, \A i \in 1 .. d : p[i] = path[i]
  PROVE  Listing(p)
<1>1. PICK n \in Nat \ {0} :
           /\ DOMAIN p = 1 .. n /\ Len(p) = n /\ ToSet(p) = {p[i] : i \in 1 .. n}
           /\ \A i \in 1 .. n : Follows(p, i) \in RunsInto(p[i])
  BY RingIs
<1>2. /\ d = Len(path) /\ DOMAIN path = 1 .. d
      /\ RunsInto(path[d]) \cap ToSet(Files) \subseteq tried[path[d]]
  BY DEF BackedUp
<1>3. Follows(p, d) \in RunsInto(path[d])
  <2>1. p[d] = path[d] /\ d \in 1 .. n
    BY <1>1
  <2> QED BY <2>1, <1>1
<1>4. Follows(p, d) \in ToSet(Files)
  <2>1. \A i \in 1 .. n : (IF i = n THEN 1 ELSE i + 1) \in 1 .. n
    OBVIOUS
  <2>2. Follows(p, d) \in ToSet(p)
    BY <1>1, <2>1 DEF Follows
  <2> QED BY <2>2 DEF Inside
<1>5. Behind(p, d)
  BY <1>2, <1>3, <1>4 DEF Behind
<1>6. d \in DOMAIN path
  BY <1>2
<1> QED BY <1>5, <1>6 DEF Searched

LEMMA BackKeepsSearch ==
  ASSUME TarjanOK, Recorded, OnPath, FoundInside, StartedFrom, Searched, BackUp, graph' = graph
  PROVE  Recorded' /\ OnPath' /\ FoundInside' /\ StartedFrom' /\ Searched'
<1>0. PICK d \in Nat \ {0} : BackedUp(d)
  BY BackPath
<1>1. /\ at = "cycles" /\ path # <<>>
      /\ UNCHANGED <<component, components, start, cycles, found>>
  BY DEF BackUp, Searching, tarjan
<1>2. /\ d = Len(path) /\ DOMAIN path = 1 .. d /\ path \in [1 .. d -> Module]
      /\ Len(path') = d - 1 /\ path' \in Seq(Module)
      /\ DOMAIN path' = 1 .. (d - 1) /\ \A i \in 1 .. (d - 1) : path'[i] = path[i]
      /\ \A x \in Module : tried'[x] = IF x = path[d] THEN {} ELSE tried[x]
  BY <1>0 DEF BackedUp
<1>3. /\ component \in DOMAIN components /\ Files' = Files /\ Rings' = Rings
      /\ Elementary' = Elementary /\ ToSet(found)' = ToSet(found)
  BY <1>1, PathIs, SameGraph DEF Files
<1>4. Recorded'
  <2>1. ToSet(cycles)' = ToSet(cycles)
    BY <1>1
  <2> QED BY <2>1, <1>1, <1>3, SameGraph DEF Recorded
<1>5. FoundInside'
  BY <1>1, <1>3 DEF FoundInside, Inside
<1>6. path[1] = Files[start - 1] /\ IsInjective(path)
  BY <1>1 DEF OnPath
<1>7. StartedFrom'
  <2> SUFFICES ASSUME NEW i \in DOMAIN Files, i < start, path' = <<>> \/ i # start - 1,
                      NEW p \in Rings, Inside(p, Files), p[1] = Files[i]
               PROVE  Listing(p)
    BY <1>1, <1>3 DEF StartedFrom, Listing, Inside, Canonical
  <2>1. CASE i # start - 1
    BY <2>1, <1>3 DEF StartedFrom
  <2>2. CASE i = start - 1
    <3>1. d = 1
      <4>1. Len(path') = 0
        BY <2>2
      <4> QED BY <4>1, <1>2
    <3>2. 1 \in DOMAIN p /\ \A j \in 1 .. 1 : p[j] = path[j]
      <4>1. 1 \in DOMAIN p
        BY RingIs
      <4>2. \A j \in 1 .. 1 : j = 1
        OBVIOUS
      <4> QED BY <4>1, <4>2, <2>2, <1>6
    <3> QED BY <3>1, <3>2, <1>0, BackListed
  <2> QED BY <2>1, <2>2
<1>8. Searched'
  <2> SUFFICES ASSUME NEW k \in DOMAIN path', NEW p \in Rings, Inside(p, Files), Behind(p, k)'
               PROVE  Listing(p)
    BY <1>3 DEF Searched, Listing, Inside, Canonical
  <2>1. /\ k \in DOMAIN p /\ \A i \in 1 .. k : p[i] = path'[i]
        /\ Follows(p, k) \in tried'[path'[k]]
        /\ k < Len(path') => Follows(p, k) # path'[k + 1]
    BY DEF Behind, Follows
  <2>2. k \in 1 .. (d - 1) /\ k \in 1 .. d /\ k # d /\ k + 1 \in 1 .. d /\ d \in 1 .. d /\ k < d
        /\ k \in Nat /\ k \in DOMAIN path
    BY <1>2
  <2>3. path'[k] = path[k] /\ \A i \in 1 .. k : p[i] = path[i]
    <3>1. \A i \in 1 .. k : i \in 1 .. (d - 1)
      BY <2>2
    <3> QED BY <3>1, <2>1, <2>2, <1>2
  <2>4. tried'[path[k]] = tried[path[k]]
    <3>1. path[k] # path[d]
      BY <2>2, <1>2, <1>6 DEF IsInjective
    <3>2. path[k] \in Module
      BY <2>2, <1>2
    <3> QED BY <3>1, <3>2, <1>2
  <2>5. CASE Follows(p, k) # path[k + 1]
    <3>1. Behind(p, k)
      BY <2>1, <2>3, <2>4, <2>5 DEF Behind
    <3> QED BY <3>1, <2>2 DEF Searched
  <2>6. CASE Follows(p, k) = path[k + 1]
    <3>1. k + 1 = d
      <4>1. k + 1 \in 1 .. (d - 1) => k < Len(path') /\ path'[k + 1] = path[k + 1]
        BY <2>2, <1>2
      <4>2. k + 1 \notin 1 .. (d - 1)
        BY <4>1, <2>1, <2>6
      <4> QED BY <4>2, <2>2
    <3>2. PICK n \in Nat \ {0} : DOMAIN p = 1 .. n /\ Len(p) = n
      BY RingIs
    <3>3. k # n
      <4>1. ASSUME k = n PROVE FALSE
        <5>1. Follows(p, k) = p[1] /\ 1 \in 1 .. k
          BY <4>1, <3>2 DEF Follows
        <5>2. p[1] = path[1]
          BY <5>1, <2>3
        <5>3. path[1] = path[d]
          BY <5>1, <5>2, <2>6, <3>1
        <5>4. 1 \in 1 .. d /\ d # 1
          BY <2>2
        <5> QED BY <5>3, <5>4, <2>2, <1>2, <1>6 DEF IsInjective
      <4> QED BY <4>1
    <3>4. d \in DOMAIN p /\ p[d] = path[d]
      <4>1. k + 1 \in 1 .. n
        BY <2>1, <2>2, <3>2, <3>3
      <4>2. Follows(p, k) = p[k + 1]
        BY <3>2, <3>3 DEF Follows
      <4> QED BY <4>1, <4>2, <2>6, <3>1, <3>2
    <3>5. \A i \in 1 .. d : p[i] = path[i]
      <4>1. \A i \in 1 .. d : i \in 1 .. k \/ i = d
        BY <2>2, <3>1
      <4> QED BY <4>1, <2>3, <3>4
    <3> QED BY <3>4, <3>5, <1>0, BackListed
  <2> QED BY <2>5, <2>6
<1> QED BY <1>4, <1>5, <1>7, <1>8, BackOnPath

LEMMA AllListed ==
  ASSUME TarjanOK, Recorded, FoundInside, StartedFrom, Listed,
         NEW c \in Elementary, Inside(c, Files)
  PROVE  Told(c) \/ c \in ToSet(found)'
<1>1. /\ at = "cycles" /\ component \in Nat \ {0} /\ component <= Len(components)
      /\ Enumerated => Len(found) = MaxPerComponent \/ (path = <<>> /\ start > Len(Files))
      /\ found' = IF Len(Files) = 2 /\ MaxSize >= 2 THEN <<Canonical(Files)>> ELSE found
  BY DEF Listed, Recorded
<1>2. component \in DOMAIN components /\ Given
  <2>1. components \in Seq(Seq(Module)) /\ Given
    BY DEF TarjanOK, TarjanTyped
  <2> QED BY <2>1, <1>1
<1>3. Files \in Seq(Module) /\ Component(Files) /\ at # "barrels"
  BY <1>1, <1>2, FilesAre
<1>4. /\ c[1] \in ToSet(Files) /\ Len(Files) \in Nat \ {0} /\ Len(c) \in Nat \ {0}
      /\ Len(c) <= Len(Files) /\ MaxSize \in Nat /\ MaxPerComponent \in Nat
  BY <1>2, <1>3, InsideIs, CycleAssumption
<1>5. CASE Len(Files) > 1 /\ Len(Files) > MaxSize
  <2>1. Crowded(c[1])
    BY <1>2, <1>3, <1>5, LargeCrowded
  <2> QED BY <2>1 DEF Told
<1>6. CASE Len(Files) <= 2 /\ Len(c) = 1
  <2>1. Lone(c)
    BY <1>2, <1>3, <1>6, OneLone
  <2> QED BY <2>1 DEF Told
<1>7. CASE Len(Files) = 2 /\ Len(c) # 1 /\ MaxSize >= 2
  <2>1. found' = <<Canonical(Files)>>
    BY <1>1, <1>7
  <2>2. c = Canonical(Files)
    BY <1>2, <1>3, <1>7, PairOnly
  <2>3. c \in ToSet(<<c>>)
    BY DEF ToSet
  <2> QED BY <2>1, <2>2, <2>3
<1>8. CASE Len(Files) > 2 /\ Len(Files) <= MaxSize
  <2>1. found' = found /\ Enumerated
    <3>1. Len(Files) # 2
      <4>1. \A l \in Nat : l > 2 => l # 2
        OBVIOUS
      <4> QED BY <4>1, <1>4, <1>8
    <3> QED BY <3>1, <1>1, <1>8 DEF Enumerated
  <2>2. CASE path = <<>> /\ start > Len(Files)
    <3>1. PICK i \in DOMAIN Files : c[1] = Files[i]
      BY <1>4 DEF ToSet
    <3>2. i < start
      <4>1. i \in 1 .. Len(Files) /\ start \in Nat
        BY <3>1, <1>3, SeqIs DEF Recorded
      <4> QED BY <4>1, <1>4, <2>2
    <3>3. c \in Rings /\ Canonical(c) = c
      BY ElementaryIs
    <3>4. Listing(c)
      BY <3>1, <3>2, <3>3, <2>2, <1>2 DEF StartedFrom
    <3> QED BY <3>3, <3>4, <2>1 DEF Listing
  <2>3. CASE Len(found) = MaxPerComponent
    <3> DEFINE all == {e \in Elementary : Inside(e, Files)}
    <3>1. CASE Cardinality(all) > MaxPerComponent
      <4>1. Len(Files) > 1
        BY <1>4, <1>8
      <4>2. Crowded(c[1])
        BY <3>1, <4>1, <1>2, <1>3, LargeCrowded
      <4> QED BY <4>2 DEF Told
    <3>2. CASE ~(Cardinality(all) > MaxPerComponent)
      <4>1. IsFiniteSet(all) /\ Cardinality(all) \in Nat
        BY ElementaryFinite, FS_Subset, FS_CardinalityType
      <4>2. ToSet(found) \subseteq all
        <5>1. ToSet(found) \subseteq Elementary
          BY SeqIs DEF Recorded
        <5>2. \A e \in ToSet(found) : Inside(e, Files)
          BY <1>2 DEF FoundInside
        <5> QED BY <5>1, <5>2
      <4>3. Cardinality(ToSet(found)) = MaxPerComponent
        BY <2>3, LenIs DEF Recorded, FoundInside
      <4>4. c \in all
        OBVIOUS
      <4> HIDE DEF all
      <4>5. Cardinality(ToSet(found)) <= Cardinality(all)
        BY <4>1, <4>2, FS_Subset
      <4>6. Cardinality(ToSet(found)) = Cardinality(all)
        BY <4>1, <4>3, <4>5, <3>2, <1>4
      <4>7. ToSet(found) = all
        BY <4>1, <4>2, <4>6, FS_Subset
      <4> QED BY <4>4, <4>7, <2>1
    <3> QED BY <3>1, <3>2
  <2> QED BY <2>1, <2>2, <2>3, <1>1
<1>9. \A l, k \in Nat \ {0} : \A n \in Nat : k <= l =>
        \/ l > 1 /\ l > n
        \/ l <= 2 /\ k = 1
        \/ l = 2 /\ k # 1 /\ n >= 2
        \/ l > 2 /\ l <= n
  OBVIOUS
<1> QED BY <1>4, <1>5, <1>6, <1>7, <1>8, <1>9

LEMMA ListedKeeps ==
  ASSUME TarjanOK, Recorded, Processed, OnPath, FoundInside, StartedFrom, Listed, graph' = graph
  PROVE  Recorded' /\ Processed' /\ Remaining'
<1>1. /\ at = "cycles" /\ component \in Nat \ {0} /\ component <= Len(components)
      /\ found' = IF Len(Files) = 2 /\ MaxSize >= 2 THEN <<Canonical(Files)>> ELSE found
      /\ path' = <<>> /\ tried' = Unseen
      /\ UNCHANGED <<components, component, start, cycles>>
  BY DEF Listed, Recorded, tarjan
<1>2. component \in DOMAIN components /\ Given
  <2>1. components \in Seq(Seq(Module)) /\ Given
    BY DEF TarjanOK, TarjanTyped
  <2> QED BY <2>1, <1>1
<1>3. Files' = Files /\ Elementary' = Elementary /\ Unseen' = Unseen
  BY <1>1, SameGraph DEF Files, Unseen
<1>4. found' \in Seq(Elementary)
  <2>1. CASE Len(Files) = 2 /\ MaxSize >= 2
    <3>1. Files \in Rings
      BY <2>1, <1>1, <1>2, FilesAre, PairRing
    <3>2. Canonical(Files) \in Elementary
      BY <3>1, CanonicalOK
    <3>3. found' = <<Canonical(Files)>>
      BY <1>1, <2>1
    <3> HIDE DEF Canonical
    <3> QED BY <3>2, <3>3
  <2>2. CASE ~(Len(Files) = 2 /\ MaxSize >= 2)
    BY <1>1, <2>2 DEF Recorded
  <2> QED BY <2>1, <2>2
<1>5. Recorded'
  <2>1. ToSet(cycles)' = ToSet(cycles)
    BY <1>1
  <2> QED BY <2>1, <1>1, <1>3, <1>4, SameGraph DEF Recorded
<1>6. Processed'
  BY <1>1, ProcessedStays
<1>7. Remaining'
  <2>1. \A c \in Elementary : Inside(c, Files) => Told(c) \/ c \in ToSet(found)'
    BY AllListed
  <2>2. \A c : Told(c) => Told(c)'
    <3>1. ToSet(cycles)' = ToSet(cycles)
      BY <1>1
    <3> QED BY <3>1, ToldStays
  <2>3. \A c \in Elementary : Inside(c, Files)' => Told(c)' \/ c \in ToSet(found)'
    BY <2>1, <2>2, <1>3 DEF Inside
  <2> QED BY <2>3, <1>1, <1>2, <1>3 DEF Remaining
<1> QED BY <1>5, <1>6, <1>7

LEMMA HeadTail ==
  ASSUME NEW S, NEW q \in Seq(S), q # <<>>
  PROVE  /\ Head(q) \in S /\ Tail(q) \in Seq(S)
         /\ \A x \in ToSet(q) : x = Head(q) \/ x \in ToSet(Tail(q))
<1>1. PICK n \in Nat \ {0} : Len(q) = n /\ DOMAIN q = 1 .. n /\ \A i \in 1 .. n : q[i] \in S
  <2>1. Len(q) \in Nat \ {0} /\ DOMAIN q = 1 .. Len(q) /\ \A i \in 1 .. Len(q) : q[i] \in S
    OBVIOUS
  <2> QED BY <2>1
<1>2. /\ Head(q) = q[1] /\ Tail(q) \in Seq(S) /\ Len(Tail(q)) = n - 1
      /\ DOMAIN Tail(q) = 1 .. (n - 1) /\ \A i \in 1 .. (n - 1) : Tail(q)[i] = q[i + 1]
  BY <1>1
<1>3. ASSUME NEW i \in 1 .. n, i # 1 PROVE q[i] \in ToSet(Tail(q))
  <2>1. i - 1 \in 1 .. (n - 1) /\ (i - 1) + 1 = i
    BY <1>3
  <2>2. Tail(q)[i - 1] = q[i]
    BY <2>1, <1>2
  <2> QED BY <2>1, <2>2, <1>2 DEF ToSet
<1>4. \A x \in ToSet(q) : \E i \in 1 .. n : x = q[i]
  BY <1>1 DEF ToSet
<1>5. Head(q) \in S
  BY <1>1, <1>2
<1> QED BY <1>2, <1>3, <1>4, <1>5

LEMMA KeepKeeps ==
  ASSUME Recorded, Processed, Remaining, Keep, graph' = graph
  PROVE  Recorded' /\ Processed' /\ Remaining'
<1> DEFINE c == Head(found)
<1> HIDE DEF c
<1>1. /\ found # <<>> /\ Len(cycles) < MaxTotal
      /\ cycles' = IF AtInit(c) /\ c \notin ToSet(cycles) THEN Append(cycles, c) ELSE cycles
      /\ found' = Tail(found)
      /\ UNCHANGED <<components, component, start, path, tried>>
  BY DEF Keep, tarjan, c
<1>2. /\ cycles \in Seq(Elementary) /\ IsInjective(cycles) /\ \A e \in ToSet(cycles) : AtInit(e)
      /\ found \in Seq(Elementary)
  BY DEF Recorded
<1>3. /\ c \in Elementary /\ found' \in Seq(Elementary)
      /\ \A e \in ToSet(found) : e = c \/ e \in ToSet(found)'
  BY <1>1, <1>2, HeadTail DEF c
<1>4. Elementary' = Elementary /\ (\A e : AtInit(e)' = AtInit(e)) /\ Files' = Files /\ Unseen' = Unseen
  BY <1>1, SameGraph DEF Files, Unseen
<1>5. /\ cycles' \in Seq(Elementary) /\ IsInjective(cycles') /\ \A e \in ToSet(cycles)' : AtInit(e)
      /\ ToSet(cycles) \subseteq ToSet(cycles)'
      /\ AtInit(c) => c \in ToSet(cycles)'
  <2>1. CASE AtInit(c) /\ c \notin ToSet(cycles)
    <3>1. cycles' = Append(cycles, c)
      BY <1>1, <2>1
    <3>2. cycles' \in Seq(Elementary) /\ ToSet(cycles') = ToSet(cycles) \cup {c} /\ IsInjective(cycles')
      BY <3>1, <2>1, <1>2, <1>3, AppendHolds, AppendNew
    <3> QED BY <3>2, <2>1, <1>2
  <2>2. CASE ~(AtInit(c) /\ c \notin ToSet(cycles))
    BY <1>1, <1>2, <2>2
  <2> QED BY <2>1, <2>2
<1>6. \A e : Told(e) => Told(e)'
  <2>1. ToSet(cycles) \subseteq ToSet(cycles)'
    BY <1>5
  <2> QED BY <2>1, ToldStays
<1>7. Recorded'
  <2>1. \A e \in ToSet(cycles)' : AtInit(e)'
    BY <1>4, <1>5
  <2> QED BY <2>1, <1>1, <1>3, <1>4, <1>5 DEF Recorded
<1>8. Processed'
  <2> SUFFICES ASSUME NEW j \in DOMAIN components, j < component,
                      NEW e \in Elementary, AtInit(e), Inside(e, components[j])
               PROVE  Told(e)'
    BY <1>1, <1>4 DEF Processed, Inside
  <2>1. ~(Len(cycles) >= MaxTotal)
    <3>1. Len(cycles) \in Nat /\ MaxTotal \in Nat
      BY <1>2, SeqIs, CycleAssumption
    <3> QED BY <3>1, <1>1
  <2>2. Told(e)
    BY <2>1 DEF Processed
  <2> QED BY <2>2, <1>6
<1>9. Remaining'
  <2> SUFFICES ASSUME NEW e \in Elementary, AtInit(e), Inside(e, Files)
               PROVE  Told(e)' \/ e \in ToSet(found)'
    BY <1>1, <1>4 DEF Remaining, Inside
  <2>1. Told(e) \/ e \in ToSet(found)
    BY DEF Remaining
  <2>2. ASSUME e = c PROVE Told(e)'
    <3>1. e \in ToSet(cycles)'
      BY <2>2, <1>5
    <3> QED BY <3>1 DEF Told
  <2> QED BY <2>1, <2>2, <1>3, <1>6
<1> QED BY <1>7, <1>8, <1>9

(* Before the search of a component, and where all of them are done.       *)
Resting == TarjanOK /\ start = 1 /\ path = <<>> /\ tried = Unseen /\ found = <<>>

LEMMA RestingOK == Resting => OnPath /\ FoundInside /\ StartedFrom /\ Searched
<1> SUFFICES ASSUME Resting PROVE OnPath /\ FoundInside /\ StartedFrom /\ Searched
  OBVIOUS
<1>1. start = 1 /\ path = <<>> /\ found = <<>> /\ TarjanOK
  BY DEF Resting
<1>2. path \in Seq(Module) /\ IsInjective(path) /\ DOMAIN path = {} /\ Len(path) = 0
  BY <1>1 DEF IsInjective
<1>3. tried \in [Module -> SUBSET Module] /\ \A m \in Module : tried[m] = {}
  BY DEF Resting, Unseen
<1>4. OnPath
  BY <1>1, <1>2, <1>3 DEF OnPath
<1>5. FoundInside
  BY <1>1 DEF FoundInside, IsInjective, ToSet
<1>6. component \in DOMAIN components => \A i \in DOMAIN Files : ~(i < start)
  <2>1. ASSUME component \in DOMAIN components PROVE DOMAIN Files \subseteq Nat \ {0}
    <3>1. Files \in Seq(Module)
      BY <2>1, <1>1, FilesAre
    <3> QED BY <3>1, SeqIs
  <2> QED BY <2>1, <1>1
<1>7. StartedFrom /\ Searched
  BY <1>2, <1>6 DEF StartedFrom, Searched
<1> QED BY <1>4, <1>5, <1>7

LEMMA RestingLater == Resting' => OnPath' /\ FoundInside' /\ StartedFrom' /\ Searched'
BY RestingOK, PTL

LEMMA ImportsKeeps ==
  ASSUME Idle, ImportsDone, TarjanOK'
  PROVE  Recorded' /\ Processed' /\ OnPath' /\ FoundInside' /\ StartedFrom' /\ Searched'
<1>1. /\ component' = 1 /\ start' = 1 /\ path' = <<>> /\ tried' = Unseen /\ found' = <<>>
      /\ cycles' = <<>> /\ Unseen' = Unseen
  BY DEF Idle, ImportsDone, search, Unseen
<1>2. Resting'
  BY <1>1 DEF Resting
<1>3. Recorded'
  <2>1. ToSet(cycles)' = {}
    BY <1>1 DEF ToSet
  <2> QED BY <2>1, <1>1 DEF Recorded, IsInjective
<1>4. Processed'
  <2>1. components' \in Seq(Seq(Module))
    BY DEF TarjanOK, TarjanTyped
  <2>2. \A j \in DOMAIN components' : ~(j < component')
    BY <2>1, <1>1, SeqIs
  <2> QED BY <2>2 DEF Processed
<1> QED BY <1>2, <1>3, <1>4, RestingLater

LEMMA KeepEndsKeeps ==
  ASSUME Recorded, Processed, Remaining, KeepEnds, graph' = graph, TarjanOK'
  PROVE  Recorded' /\ Processed' /\ OnPath' /\ FoundInside' /\ StartedFrom' /\ Searched'
<1>1. /\ found = <<>> \/ Len(cycles) >= MaxTotal
      /\ component' = component + 1 /\ start' = 1 /\ found' = <<>>
      /\ UNCHANGED <<components, path, tried, cycles>>
  BY DEF KeepEnds, tarjan
<1>2. path = <<>> /\ tried = Unseen /\ component \in Nat \ {0}
  BY DEF Remaining, Recorded
<1>3. Elementary' = Elementary /\ (\A e : AtInit(e)' = AtInit(e)) /\ Unseen' = Unseen
  BY SameGraph DEF Unseen
<1>4. Resting'
  BY <1>1, <1>2, <1>3 DEF Resting
<1>5. Recorded'
  <2>1. ToSet(cycles)' = ToSet(cycles)
    BY <1>1
  <2>2. component' \in Nat \ {0}
    BY <1>1, <1>2
  <2> QED BY <2>1, <2>2, <1>1, <1>3 DEF Recorded
<1>6. Processed'
  <2> SUFFICES ASSUME NEW j \in DOMAIN components, j < component', ~(Len(cycles) >= MaxTotal),
                      NEW e \in Elementary, AtInit(e), Inside(e, components[j])
               PROVE  Told(e)
    <3>1. \A e : Told(e) => Told(e)'
      <4>1. ToSet(cycles)' = ToSet(cycles)
        BY <1>1
      <4> QED BY <4>1, ToldStays
    <3> QED BY <3>1, <1>1, <1>3 DEF Processed, Inside
  <2>1. CASE j < component
    BY <2>1 DEF Processed
  <2>2. CASE j = component
    <3>1. found = <<>> /\ Inside(e, Files)
      BY <2>2, <1>1 DEF Files
    <3>2. e \notin ToSet(found)
      BY <3>1 DEF ToSet
    <3> QED BY <3>1, <3>2 DEF Remaining
  <2>3. j \in Nat
    <3>1. components' \in Seq(Seq(Module))
      BY DEF TarjanOK, TarjanTyped
    <3> QED BY <3>1, <1>1, SeqIs
  <2> QED BY <2>1, <2>2, <2>3, <1>1, <1>2
<1> QED BY <1>4, <1>5, <1>6, RestingLater

LEMMA CyclesAre ==
  ASSUME TarjanOK, TarjanOver, Recorded, Processed, CyclesDone, graph' = graph
  PROVE  CyclesExact'
<1>1. /\ at = "cycles" /\ (component > Len(components) \/ Len(cycles) >= MaxTotal)
      /\ component \in Nat \ {0} /\ components \in Seq(Seq(Module))
  BY DEF CyclesDone, Recorded, TarjanOK, TarjanTyped
<1>2. /\ cycles \in Seq(Elementary) /\ IsInjective(cycles) /\ \A c \in ToSet(cycles) : AtInit(c)
  BY DEF Recorded
<1>3. /\ cycles' \in Seq(Elementary) /\ ToSet(cycles)' = ToSet(cycles) /\ IsInjective(cycles')
      /\ Len(cycles') = Len(cycles)
  <2>1. PICK q \in Bijection(DOMAIN cycles, DOMAIN cycles) :
          cycles' = [k \in DOMAIN cycles |-> cycles[q[k]]]
    BY DEF CyclesDone, Sorted
  <2>2. \A t : t = cycles' => ToSet(t) = ToSet(cycles)'
    OBVIOUS
  <2>3. cycles' \in Seq(Elementary) /\ ToSet(cycles)' = ToSet(cycles) /\ IsInjective(cycles')
    BY <2>1, <2>2, <1>2, Shuffled
  <2>4. Len(cycles') = Len(cycles)
    <3>1. DOMAIN cycles' = DOMAIN cycles
      BY <2>1
    <3>2. DOMAIN cycles' = 1 .. Len(cycles') /\ DOMAIN cycles = 1 .. Len(cycles)
          /\ Len(cycles') \in Nat /\ Len(cycles) \in Nat
      BY <2>3, <1>2, SeqIs
    <3>3. \A a, b \in Nat : 1 .. a = 1 .. b => a = b
      <4> SUFFICES ASSUME NEW a \in Nat, NEW b \in Nat, 1 .. a = 1 .. b PROVE a = b
        OBVIOUS
      <4>1. a > b => a \in 1 .. a /\ a \notin 1 .. b
        OBVIOUS
      <4>2. b > a => b \in 1 .. b /\ b \notin 1 .. a
        OBVIOUS
      <4> QED BY <4>1, <4>2
    <3> QED BY <3>1, <3>2, <3>3
  <2> QED BY <2>3, <2>4
<1>4. ToSet(cycles) \subseteq Elementary
  BY <1>2, SeqIs
<1>5. ASSUME Len(cycles) < MaxTotal, NEW c \in Elementary, AtInit(c)
      PROVE  Lone(c) \/ Crowded(c[1]) \/ c \in ToSet(cycles)
  <2>1. ~(Len(cycles) >= MaxTotal)
    <3>1. Len(cycles) \in Nat /\ MaxTotal \in Nat
      BY <1>2, SeqIs, CycleAssumption
    <3> QED BY <3>1, <1>5
  <2>2. CASE Lone(c)
    BY <2>2
  <2>3. ASSUME NEW j \in DOMAIN components, Inside(c, components[j])
        PROVE  Lone(c) \/ Crowded(c[1]) \/ c \in ToSet(cycles)
    <3>1. j < component
      <4>1. j \in 1 .. Len(components) /\ Len(components) \in Nat
        BY <1>1, SeqIs
      <4> QED BY <4>1, <2>1, <1>1
    <3>2. Told(c)
      BY <3>1, <2>1, <2>3, <1>5 DEF Processed
    <3> QED BY <3>2 DEF Told
  <2>4. Lone(c) \/ \E j \in DOMAIN components : Inside(c, components[j])
    BY <1>1, InsideSome
  <2> QED BY <2>2, <2>3, <2>4
<1>6. /\ Elementary' = Elementary /\ \A c : AtInit(c)' = AtInit(c) /\ Lone(c)' = Lone(c)
      /\ \A m : Crowded(m)' = Crowded(m)
  BY SameGraph
<1> QED BY <1>2, <1>3, <1>4, <1>5, <1>6 DEF CyclesExact

LEMMA CyclesStay ==
  ASSUME CyclesExact, graph' = graph, cycles' = cycles, at' = "barrels" => at = "barrels"
  PROVE  CyclesExact'
<1>1. /\ Elementary' = Elementary /\ \A c : AtInit(c)' = AtInit(c) /\ Lone(c)' = Lone(c)
      /\ \A m : Crowded(m)' = Crowded(m)
  BY SameGraph
<1>2. ToSet(cycles)' = ToSet(cycles) /\ Len(cycles)' = Len(cycles) /\ IsInjective(cycles)' = IsInjective(cycles)
  OBVIOUS
<1> QED BY <1>1, <1>2 DEF CyclesExact

LEMMA SearchStep ==
  ASSUME TarjanOK, graph' = graph, StartSearch \/ Extend \/ BackUp,
         Recorded, Processed, OnPath, FoundInside, StartedFrom, Searched
  PROVE  /\ Recorded' /\ Processed' /\ OnPath' /\ FoundInside' /\ StartedFrom' /\ Searched'
         /\ at' = at /\ cycles' = cycles
<1>1. components' = components /\ component' = component /\ cycles' = cycles /\ at' = at
  BY DEF StartSearch, Extend, BackUp, tarjan
<1>2. Processed'
  BY <1>1, ProcessedStays
<1>3. CASE StartSearch
  BY <1>1, <1>2, <1>3, StartKeepsPath, StartKeepsSearch
<1>4. CASE Extend
  <2>1. PICK s : Extended(s)
    BY <1>4, ExtendIs
  <2> QED BY <2>1, <1>1, <1>2, ExtendKeeps
<1>5. CASE BackUp
  BY <1>1, <1>2, <1>5, BackKeepsSearch
<1> QED BY <1>3, <1>4, <1>5

LEMMA CyclesStep == ASSUME TarjanIInv, TarjanIInv', CyclesIInv, [Next]_vars PROVE CyclesIInv'
<1>0. /\ at = "imports" => Idle
      /\ at \in {"cycles", "kept"} => Recorded /\ Processed
      /\ at = "kept" => Remaining
      /\ at = "cycles" => OnPath /\ FoundInside /\ StartedFrom /\ Searched
      /\ CyclesExact
  BY DEF CyclesIInv
<1>1. CASE graph' = graph /\ UNCHANGED cycleVars
  <2>1. UNCHANGED <<at, components, component, start, path, tried, found, cycles>>
    BY <1>1 DEF cycleVars, tarjan, search
  <2>2. /\ Rings' = Rings /\ Elementary' = Elementary /\ Files' = Files /\ Unseen' = Unseen
        /\ \A m : RunsInto(m)' = RunsInto(m)
        /\ \A c : AtInit(c)' = AtInit(c)
        /\ ToSet(cycles)' = ToSet(cycles) /\ ToSet(found)' = ToSet(found) /\ ToSet(path)' = ToSet(path)
    BY <1>1, <2>1, SameGraph DEF Files, Unseen
  <2>3. \A c : Told(c)' = Told(c)
    BY <1>1, <2>1, SameGraph DEF Told
  <2>4. Idle => Idle'
    BY <2>1, <2>2 DEF Idle
  <2>5. Recorded => Recorded'
    BY <2>1, <2>2 DEF Recorded, IsInjective
  <2>6. Processed => Processed'
    BY <1>1, <2>1, ProcessedStays
  <2>7. Remaining => Remaining'
    BY <2>1, <2>2, <2>3 DEF Remaining, Inside
  <2>8. OnPath => OnPath'
    BY <2>1, <2>2 DEF OnPath, Inside, IsInjective
  <2>9. FoundInside => FoundInside'
    BY <2>1, <2>2 DEF FoundInside, Inside, IsInjective
  <2>10. StartedFrom => StartedFrom'
    BY <2>1, <2>2 DEF StartedFrom, Inside, Listing, Canonical
  <2>11. Searched => Searched'
    BY <2>1, <2>2 DEF Searched, Behind, Follows, Inside, Listing, Canonical
  <2>12. CyclesExact'
    BY <1>0, <1>1, <2>1, CyclesStay
  <2> QED BY <1>0, <2>1, <2>4, <2>5, <2>6, <2>7, <2>8, <2>9, <2>10, <2>11, <2>12 DEF CyclesIInv
<1>2. CASE CycleNext /\ UNCHANGED graphVars
  <2>0. graph' = graph
    BY <1>2 DEF graphVars
  <2>1. CASE Tarjan
    <3>1. at' = at /\ at \in {"imports", "barrels"} /\ UNCHANGED search /\ cycles' = cycles
      BY <2>1 DEF Tarjan
    <3>2. CyclesExact'
      BY <1>0, <2>0, <3>1, CyclesStay
    <3>3. Unseen' = Unseen
      BY DEF Unseen
    <3> QED BY <1>0, <3>1, <3>2, <3>3 DEF CyclesIInv, Idle, search
  <2>2. CASE ImportsDone
    <3>1. at = "imports" /\ at' = "cycles"
      BY <2>2 DEF ImportsDone
    <3>2. TarjanOK'
      BY <3>1 DEF TarjanIInv
    <3>3. Recorded' /\ Processed' /\ OnPath' /\ FoundInside' /\ StartedFrom' /\ Searched'
      BY <1>0, <2>2, <3>1, <3>2, ImportsKeeps
    <3> QED BY <3>1, <3>3 DEF CyclesIInv, CyclesExact
  <2>3. CASE StartSearch \/ Extend \/ BackUp
    <3>1. at = "cycles" /\ TarjanOK
      BY <2>3 DEF StartSearch, Extend, BackUp, Searching, TarjanIInv
    <3>2. /\ Recorded' /\ Processed' /\ OnPath' /\ FoundInside' /\ StartedFrom' /\ Searched'
          /\ at' = at
      BY <1>0, <2>0, <2>3, <3>1, SearchStep
    <3> QED BY <3>1, <3>2 DEF CyclesIInv, CyclesExact
  <2>4. CASE Listed
    <3>1. at = "cycles" /\ at' = "kept" /\ TarjanOK
      BY <2>4 DEF Listed, TarjanIInv
    <3>2. Recorded' /\ Processed' /\ Remaining'
      BY <1>0, <2>0, <2>4, <3>1, ListedKeeps
    <3> QED BY <3>1, <3>2 DEF CyclesIInv, CyclesExact
  <2>5. CASE Keep
    <3>1. at = "kept" /\ at' = at
      BY <2>5 DEF Keep
    <3>2. Recorded' /\ Processed' /\ Remaining'
      BY <1>0, <2>0, <2>5, <3>1, KeepKeeps
    <3> QED BY <3>1, <3>2 DEF CyclesIInv, CyclesExact
  <2>6. CASE KeepEnds
    <3>1. at = "kept" /\ at' = "cycles"
      BY <2>6 DEF KeepEnds
    <3>2. TarjanOK'
      BY <3>1 DEF TarjanIInv
    <3>3. Recorded' /\ Processed' /\ OnPath' /\ FoundInside' /\ StartedFrom' /\ Searched'
      BY <1>0, <2>0, <2>6, <3>1, <3>2, KeepEndsKeeps
    <3> QED BY <3>1, <3>3 DEF CyclesIInv, CyclesExact
  <2>7. CASE CyclesDone
    <3>1. at = "cycles" /\ at' = "barrels" /\ TarjanOK /\ TarjanOver
      BY <2>7 DEF CyclesDone, TarjanIInv
    <3>2. CyclesExact'
      BY <1>0, <2>0, <2>7, <3>1, CyclesAre
    <3> QED BY <3>1, <3>2 DEF CyclesIInv
  <2>8. CASE BarrelsDone
    <3>1. at' = "done"
      BY <2>8 DEF BarrelsDone
    <3> QED BY <3>1 DEF CyclesIInv, CyclesExact
  <2> QED BY <1>2, <2>1, <2>2, <2>3, <2>4, <2>5, <2>6, <2>7, <2>8 DEF CycleNext
<1>3. (graph' = graph /\ UNCHANGED cycleVars) \/ (CycleNext /\ UNCHANGED graphVars)
  BY StepIs
<1> QED BY <1>1, <1>2, <1>3

(* The components' invariant and the enumeration's.                        *)
THEOREM CyclesInvariant == Spec => [](TarjanIInv /\ CyclesIInv)
<1>1. Init => CyclesIInv
  <2> SUFFICES ASSUME Init PROVE CyclesIInv
    OBVIOUS
  <2>1. at = "imports" /\ Idle
    BY DEF Init, Idle
  <2> QED BY <2>1 DEF CyclesIInv, CyclesExact
<1>2. TarjanIInv /\ TarjanIInv' /\ CyclesIInv /\ [Next]_vars => CyclesIInv'
  BY CyclesStep
<1> QED BY <1>1, <1>2, TarjanInvariant, PTL DEF Spec

(* The import cycles reported may all read a name before it is set, and    *)
(* none is there twice; unless as many are reported as may be, every such  *)
(* cycle is, but for those of a component too large, or with too many      *)
(* cycles, and of a file with itself: the search misses none.              *)
THEOREM CyclesRight == Spec => []CyclesExact
<1>1. CyclesIInv => CyclesExact
  BY DEF CyclesIInv
<1> QED BY <1>1, CyclesInvariant, PTL

-----------------------------------------------------------------------------
(* What the cache shows.  An entry of a file that still has the time it is *)
(* stored under is of what the file has; one that has the time the walk    *)
(* found is of what the file had meanwhile (Shown), and what is read of    *)
(* a file that has not changed since the walk is what it has (ReadsTrue),  *)
(* so that what is stored again is true.                                   *)

Now == Content \union {Absent}

SummaryType == [m : Nat, h : Now, of : Now, walked : BOOLEAN]
FactType == [m : Nat, h : Now, match : [Search -> [of : Now, calm : BOOLEAN]]]
SetType == [known : BOOLEAN, hash : SUBSET File, found : SUBSET File, calm : BOOLEAN]
StoreType == [list : SetType, resolution : SetType,
              summary : [Source -> SummaryType], fact : [Config -> FactType]]

TreeOK == content \in [File -> Now] /\ mtime \in [File -> Nat] /\ clock \in Nat

AnalysisOK ==
  /\ stage \in {"idle", "walk", "look", "parse", "store", "facts"}
  /\ todo \subseteq File /\ walked \in [File -> Nat]
  /\ missed \subseteq Source /\ parsed \in [Source -> Now] /\ hashed \in [Source -> Now]
  /\ calm \in BOOLEAN /\ since \in [File -> SUBSET Now]

SummaryTyped == TreeOK /\ AnalysisOK /\ store \in StoreType /\ disk \in StoreType

(* A time at which a file was found is past.                               *)
Past == \A x \in File : walked[x] <= mtime[x] /\ mtime[x] <= clock /\ 0 < mtime[x]

SeenNow == stage # "idle" => \A x \in File : content[x] \in since[x]

(* What a file had at a time it has still.                                 *)
Stands(x, m, c) == m <= mtime[x] /\ (m = mtime[x] => content[x] = c)

SummaryTrue(x, e) == e.walked /\ e.m # 0 => e.h = e.of /\ Stands(x, e.m, e.of)

MatchesTrue(e) == \A k \in Search : e.match[k] # NoMatch /\ e.match[k].calm => e.match[k].of = e.h
FactTrue(x, e) == MatchesTrue(e) /\ (e.m # 0 => Stands(x, e.m, e.h))

SetTrue(e) == e.known /\ e.calm => e.hash = e.found

StoreTrue(saved) ==
  /\ \A x \in Source : SummaryTrue(x, saved.summary[x])
  /\ \A x \in Config : FactTrue(x, saved.fact[x])
  /\ SetTrue(saved.list) /\ SetTrue(saved.resolution)

(* The walk has come to the file.                                          *)
Met(x) == (stage = "walk" /\ x \notin todo) \/ stage \in {"look", "parse", "store", "facts"}

WalkTrue ==
  \A x \in File :
    /\ ~Met(x) => walked[x] = 0
    /\ Met(x) => /\ walked[x] = 0 => Absent \in since[x]
                 /\ walked[x] # 0 => since[x] \ {Absent} # {}
                 /\ calm => walked[x] = LiveStat(x)

(* What is stored under the time the walk found, the file had meanwhile.   *)
SummaryShown(x, e) == walked[x] # 0 /\ e.walked /\ e.m = walked[x] => e.of \in since[x]
FactShown(x, e) == walked[x] # 0 /\ e.m = walked[x] => e.h \in since[x]
Shown == /\ \A x \in Source : SummaryShown(x, store.summary[x])
         /\ \A x \in Config : FactShown(x, store.fact[x])

ResolutionFits ==
  stage \in {"look", "parse", "store"} /\ store.resolution.known
    => store.resolution.hash = CollectHash

(* What was read of a file the walk had seen, and that has not changed.    *)
ReadsTrue ==
  \A x \in missed : walked[x] # 0 /\ walked[x] = mtime[x] =>
    /\ stage = "store" \/ (stage = "parse" /\ x \notin todo) => parsed[x] = content[x]
    /\ stage = "store" /\ hashed[x] # Absent => hashed[x] = content[x]

Hashing == /\ stage \in {"idle", "walk", "look", "parse"} => \A x \in Source : hashed[x] = Absent
           /\ stage \in {"parse", "store"} => todo \subseteq missed

SummaryIInv ==
  /\ SummaryTyped /\ Past /\ SeenNow /\ StoreTrue(disk) /\ StoreTrue(store)
  /\ WalkTrue /\ Shown /\ ResolutionFits /\ ReadsTrue /\ Hashing

-----------------------------------------------------------------------------
LEMMA EmptyStoreOK == EmptyStore \in StoreType
BY DEF EmptyStore, Empty, NoSummary, NoFact, NoMatch, StoreType, SetType, SummaryType, FactType, Now

LEMMA EmptyStoreTrue ==
  /\ \A x \in Source : EmptyStore.summary[x] = NoSummary
  /\ \A x \in Config : EmptyStore.fact[x] = NoFact
  /\ StoreTrue(EmptyStore)
<1>1. \A x \in Source : EmptyStore.summary[x] = NoSummary
  BY DEF EmptyStore
<1>2. \A x \in Config : EmptyStore.fact[x] = NoFact
  BY DEF EmptyStore
<1>3. NoSummary.m = 0 /\ NoFact.m = 0 /\ \A k \in Search : NoFact.match[k] = NoMatch
  BY DEF NoSummary, NoFact
<1>4. EmptyStore.list = Empty /\ EmptyStore.resolution = Empty /\ Empty.known = FALSE
  BY DEF EmptyStore, Empty
<1> QED BY <1>1, <1>2, <1>3, <1>4 DEF StoreTrue, SummaryTrue, FactTrue, MatchesTrue, SetTrue

LEMMA SummaryInitIInv == ASSUME SummaryInit PROVE SummaryIInv
<1>1. SummaryTyped
  BY EmptyStoreOK DEF SummaryInit, SummaryTyped, TreeOK, AnalysisOK, Now, Unread
<1>2. StoreTrue(disk) /\ StoreTrue(store)
  BY EmptyStoreTrue DEF SummaryInit
<1>3. Past /\ SeenNow /\ WalkTrue
  BY DEF SummaryInit, Past, SeenNow, WalkTrue, Met
<1>4. Shown /\ ResolutionFits /\ ReadsTrue /\ Hashing
  BY DEF File, SummaryInit, Shown, SummaryShown, FactShown, ResolutionFits, ReadsTrue, Hashing,
       Unread
<1> QED BY <1>1, <1>2, <1>3, <1>4 DEF SummaryIInv

(* The end of an analysis forgets all of it.                               *)
LEMMA EndKeeps ==
  ASSUME SummaryIInv, End, UNCHANGED tree, disk' \in StoreType, StoreTrue(disk)'
  PROVE  SummaryIInv'
<1>1. SummaryTyped'
  BY EmptyStoreOK DEF SummaryIInv, End, tree, SummaryTyped, TreeOK, AnalysisOK, Now, Unread
<1>2. StoreTrue(disk)' /\ StoreTrue(store)'
  <2>1. StoreTrue(store)'
    <3>1. store' = EmptyStore
      BY DEF End
    <3> QED BY <3>1, EmptyStoreTrue DEF StoreTrue, SummaryTrue, FactTrue, Stands, tree,
         MatchesTrue, SetTrue
  <2> QED BY <2>1
<1>3. (Past /\ SeenNow /\ WalkTrue)'
  BY DEF SummaryIInv, SummaryTyped, TreeOK, tree, End, Past, SeenNow, WalkTrue, Met
<1>4. (Shown /\ ResolutionFits /\ ReadsTrue /\ Hashing)'
  BY DEF File, End, Shown, SummaryShown, FactShown, ResolutionFits, ReadsTrue, Hashing, Unread
<1> QED BY <1>1, <1>2, <1>3, <1>4 DEF SummaryIInv

LEMMA FailKeeps == ASSUME SummaryIInv, Fail PROVE SummaryIInv'
<1>1. StoreTrue(disk)' /\ disk' \in StoreType
  BY DEF SummaryIInv, SummaryTyped, Fail, tree, StoreTrue, SummaryTrue, FactTrue, Stands,
       MatchesTrue, SetTrue
<1> QED BY <1>1, EndKeeps DEF Fail

LEMMA BeginKeeps == ASSUME SummaryIInv, Begin PROVE SummaryIInv'
<1>1. SummaryTyped'
  BY DEF SummaryIInv, Begin, tree, SummaryTyped, TreeOK, AnalysisOK, Now
<1>2. StoreTrue(disk)' /\ StoreTrue(store)'
  BY DEF SummaryIInv, Begin, tree, StoreTrue, SummaryTrue, FactTrue, Stands, MatchesTrue, SetTrue
<1>3. (Past /\ SeenNow /\ WalkTrue)'
  <2>1. \A x \in File : walked[x] = 0 /\ content[x] \in Now
    BY DEF SummaryIInv, Begin, WalkTrue, Met, SummaryTyped, TreeOK
  <2> QED BY <2>1 DEF SummaryIInv, SummaryTyped, TreeOK, tree, Begin, Past, SeenNow, WalkTrue, Met
<1>4. (Shown /\ ResolutionFits /\ ReadsTrue /\ Hashing)'
  <2>1. \A x \in File : walked'[x] = 0
    BY DEF SummaryIInv, Begin, WalkTrue, Met
  <2> QED BY <2>1 DEF SummaryIInv, SummaryTyped, AnalysisOK, File, Begin, Shown, SummaryShown,
       FactShown, ResolutionFits, ReadsTrue, Hashing
<1> QED BY <1>1, <1>2, <1>3, <1>4 DEF SummaryIInv

LEMMA WriteKeeps ==
  ASSUME SummaryIInv, NEW x \in File, NEW c \in Now, Write(x, c)
  PROVE  SummaryIInv'
<1>1. /\ clock' = clock + 1
      /\ content' = [content EXCEPT ![x] = c] /\ mtime' = [mtime EXCEPT ![x] = clock + 1]
      /\ UNCHANGED <<disk, stage, todo, walked, store, missed, parsed, hashed>>
      /\ stage = "idle" => UNCHANGED <<calm, since>>
      /\ stage # "idle" => calm' = FALSE /\ since' = [since EXCEPT ![x] = @ \union {c}]
  BY DEF Write, history
<1>2. TreeOK /\ AnalysisOK /\ store \in StoreType /\ disk \in StoreType
  BY DEF SummaryIInv, SummaryTyped
<1>3. SummaryTyped'
  <2>1. TreeOK'
    BY <1>1, <1>2 DEF TreeOK
  <2>2. calm' \in BOOLEAN /\ since' \in [File -> SUBSET Now]
    BY <1>1, <1>2 DEF AnalysisOK
  <2> QED BY <1>1, <1>2, <2>1, <2>2 DEF SummaryTyped, AnalysisOK
<1>4. /\ \A y \in File : y # x => content'[y] = content[y] /\ mtime'[y] = mtime[y]
      /\ content'[x] = c /\ mtime'[x] = clock + 1
      /\ \A y \in File : since[y] \subseteq since'[y]
      /\ stage # "idle" => c \in since'[x]
  BY <1>1, <1>2 DEF TreeOK, AnalysisOK
<1>5. clock \in Nat /\ \A y \in File : mtime[y] \in Nat /\ walked[y] \in Nat
                                    /\ walked[y] <= mtime[y] /\ mtime[y] <= clock /\ 0 < mtime[y]
  BY <1>2 DEF SummaryIInv, Past, TreeOK, AnalysisOK
<1>6. ASSUME NEW y \in File, NEW m \in Nat, NEW d \in Now, Stands(y, m, d)
      PROVE  Stands(y, m, d)'
  BY <1>4, <1>5, <1>6 DEF Stands
<1>7. \A saved \in StoreType :
        /\ \A y \in Source : saved.summary[y].m \in Nat /\ saved.summary[y].of \in Now /\ y \in File
        /\ \A y \in Config : saved.fact[y].m \in Nat /\ saved.fact[y].h \in Now /\ y \in File
  BY DEF StoreType, SummaryType, FactType, File
<1>8. StoreTrue(disk)'
  <2>1. disk' = disk /\ StoreTrue(disk)
    BY <1>1 DEF SummaryIInv
  <2> QED BY <1>2, <1>6, <1>7, <2>1 DEF StoreTrue, SummaryTrue, FactTrue, MatchesTrue, SetTrue
<1>9. StoreTrue(store)'
  <2>1. store' = store /\ StoreTrue(store)
    BY <1>1 DEF SummaryIInv
  <2> QED BY <1>2, <1>6, <1>7, <2>1 DEF StoreTrue, SummaryTrue, FactTrue, MatchesTrue, SetTrue
<1>10. Past'
  BY <1>1, <1>4, <1>5 DEF Past
<1>11. SeenNow'
  BY <1>1, <1>4 DEF SummaryIInv, SeenNow
<1>12. WalkTrue'
  <2>1. ASSUME NEW y \in File
        PROVE  /\ ~Met(y)' => walked'[y] = 0
               /\ Met(y)' => /\ walked'[y] = 0 => Absent \in since'[y]
                             /\ walked'[y] # 0 => since'[y] \ {Absent} # {}
                             /\ ~calm'
    <3>1. Met(y)' = Met(y) /\ (Met(y) => stage # "idle")
      BY <1>1 DEF Met
    <3> QED BY <1>1, <1>4, <3>1 DEF SummaryIInv, WalkTrue
  <2> QED BY <2>1 DEF WalkTrue
<1>13. Shown'
  BY <1>1, <1>4 DEF SummaryIInv, Shown, SummaryShown, FactShown, File
<1>14. ResolutionFits' /\ Hashing'
  BY <1>1 DEF SummaryIInv, ResolutionFits, Hashing, CollectHash, InWalk
<1>15. ReadsTrue'
  <2>1. \A y \in missed : y \in File
    BY <1>2 DEF AnalysisOK, File
  <2>2. walked[x] # mtime'[x]
    BY <1>4, <1>5
  <2> QED BY <1>1, <1>4, <2>1, <2>2 DEF SummaryIInv, ReadsTrue
<1> QED BY <1>3, <1>8, <1>9, <1>10, <1>11, <1>12, <1>13, <1>14, <1>15 DEF SummaryIInv

LEMMA WalkKeeps == ASSUME SummaryIInv, NEW x \in File, Walk(x) PROVE SummaryIInv'
<1>1. /\ stage = "walk" /\ x \in todo
      /\ walked' = [walked EXCEPT ![x] = LiveStat(x)]
      /\ todo' = todo \ {x}
      /\ UNCHANGED <<content, mtime, clock, disk, stage, store, missed, parsed, hashed, calm, since>>
  BY DEF Walk, tree, history
<1>2. TreeOK /\ AnalysisOK /\ store \in StoreType /\ disk \in StoreType
  BY DEF SummaryIInv, SummaryTyped
<1>3. LiveStat(x) \in Nat /\ LiveStat(x) <= mtime[x] /\ content[x] \in since[x]
      /\ (LiveStat(x) = 0 => content[x] = Absent) /\ (LiveStat(x) # 0 => content[x] # Absent /\ LiveStat(x) = mtime[x])
  BY <1>1, <1>2 DEF LiveStat, TreeOK, SummaryIInv, Past, SeenNow
<1>4. SummaryTyped'
  BY <1>1, <1>2, <1>3 DEF SummaryTyped, TreeOK, AnalysisOK
<1>5. walked'[x] = LiveStat(x) /\ \A y \in File : y # x => walked'[y] = walked[y]
  BY <1>1, <1>2 DEF AnalysisOK
<1>6. StoreTrue(disk)' /\ StoreTrue(store)'
  BY <1>1 DEF SummaryIInv, StoreTrue, SummaryTrue, FactTrue, Stands, MatchesTrue, SetTrue
<1>7. (Past /\ SeenNow)'
  BY <1>1, <1>3, <1>5 DEF SummaryIInv, Past, SeenNow
<1>8. WalkTrue'
  <2>1. \A y \in File : y # x => Met(y)' = Met(y) /\ LiveStat(y)' = LiveStat(y)
    BY <1>1 DEF Met, LiveStat
  <2>2. Met(x)' /\ LiveStat(x)' = LiveStat(x)
    BY <1>1 DEF Met, LiveStat
  <2> QED BY <1>1, <1>3, <1>5, <2>1, <2>2 DEF SummaryIInv, WalkTrue
<1>9. Shown'
  <2>1. ASSUME NEW y \in Source
        PROVE  SummaryShown(y, store.summary[y])'
    <3>1. CASE y # x
      BY <1>1, <1>5, <3>1 DEF SummaryIInv, Shown, SummaryShown, File
    <3>2. CASE y = x
      BY <1>1, <1>3, <1>5, <3>2 DEF SummaryIInv, StoreTrue, SummaryTrue, Stands, SummaryShown
    <3> QED BY <3>1, <3>2
  <2>2. ASSUME NEW y \in Config
        PROVE  FactShown(y, store.fact[y])'
    <3>1. CASE y # x
      BY <1>1, <1>5, <3>1 DEF SummaryIInv, Shown, FactShown, File
    <3>2. CASE y = x
      BY <1>1, <1>3, <1>5, <3>2 DEF SummaryIInv, StoreTrue, FactTrue, Stands, FactShown
    <3> QED BY <3>1, <3>2
  <2> QED BY <2>1, <2>2 DEF Shown
<1>10. (ResolutionFits /\ ReadsTrue /\ Hashing)'
  BY <1>1 DEF SummaryIInv, ResolutionFits, ReadsTrue, Hashing
<1> QED BY <1>4, <1>6, <1>7, <1>8, <1>9, <1>10 DEF SummaryIInv

(* What no step but Write and Walk changes.                                *)
LEMMA WalkStays ==
  ASSUME SummaryIInv, UNCHANGED <<tree, walked, history>>, stage' # "idle", stage # "idle",
         \A x \in File : Met(x)' = Met(x)
  PROVE  (Past /\ SeenNow /\ WalkTrue)'
BY DEF SummaryIInv, tree, history, Past, SeenNow, WalkTrue, LiveStat

LEMMA StoreStays ==
  ASSUME SummaryIInv, UNCHANGED <<tree, walked, history, store>>
  PROVE  (StoreTrue(store) /\ Shown)'
BY DEF SummaryIInv, tree, history, Shown, SummaryShown, FactShown,
       StoreTrue, SummaryTrue, FactTrue, Stands, MatchesTrue, SetTrue

LEMMA DiskStays ==
  ASSUME SummaryIInv, UNCHANGED <<tree, disk>>
  PROVE  StoreTrue(disk)'
BY DEF SummaryIInv, tree, StoreTrue, SummaryTrue, FactTrue, Stands, MatchesTrue, SetTrue

LEMMA ReadingKeeps ==
  ASSUME SummaryIInv,
         \/ StartParse \/ StartStore
         \/ \E x \in Source : Parse(x) \/ HashSource(x)
  PROVE  SummaryIInv'
<1>1. /\ UNCHANGED <<tree, disk, walked, store, missed, history>>
      /\ stage \in {"look", "parse", "store"} /\ stage' \in {"parse", "store"}
  BY DEF StartParse, StartStore, Parse, HashSource
<1>2. TreeOK /\ AnalysisOK /\ store \in StoreType /\ disk \in StoreType
  BY DEF SummaryIInv, SummaryTyped
<1>3. SummaryTyped'
  <2>1. TreeOK'
    BY <1>1, <1>2 DEF TreeOK, tree
  <2>2. todo' \subseteq File /\ parsed' \in [Source -> Now] /\ hashed' \in [Source -> Now]
    BY <1>2 DEF TreeOK, AnalysisOK, StartParse, StartStore, Parse, HashSource, File
  <2> QED BY <1>1, <1>2, <2>1, <2>2 DEF SummaryTyped, AnalysisOK, history
<1>4. (Past /\ SeenNow /\ WalkTrue)'
  <2>1. \A x \in File : Met(x)' = Met(x)
    BY <1>1 DEF Met
  <2> QED BY <1>1, <2>1, WalkStays
<1>5. (StoreTrue(store) /\ Shown /\ StoreTrue(disk))'
  BY <1>1, StoreStays, DiskStays
<1>6. ResolutionFits'
  BY <1>1 DEF SummaryIInv, ResolutionFits, CollectHash, InWalk
<1>7. Hashing' /\ ReadsTrue'
  <2> USE <1>1, <1>2 DEF SummaryIInv, AnalysisOK, Hashing, ReadsTrue, tree, TreeOK
  <2>1. CASE StartParse
    BY <2>1 DEF StartParse
  <2>2. CASE StartStore
    BY <2>2 DEF StartStore
  <2>3. ASSUME NEW x \in Source, Parse(x) PROVE Hashing' /\ ReadsTrue'
    BY <2>3 DEF Parse
  <2>4. ASSUME NEW x \in Source, HashSource(x) PROVE Hashing' /\ ReadsTrue'
    BY <2>4 DEF HashSource
  <2> QED BY <2>1, <2>2, <2>3, <2>4
<1> QED BY <1>3, <1>4, <1>5, <1>6, <1>7 DEF SummaryIInv

(* An answer about the tree that is computed in calm is of what was found. *)
LEMMA CalmFinds ==
  ASSUME SummaryIInv, (stage = "walk" /\ todo = {}) \/ stage = "store", calm
  PROVE  InWalk = Present
<1>1. \A x \in File : walked[x] = LiveStat(x) /\ 0 < mtime[x] /\ mtime[x] \in Nat
  BY DEF SummaryIInv, WalkTrue, Met, Past, SummaryTyped, TreeOK
<1> QED BY <1>1 DEF InWalk, Present, LiveStat

LEMMA FoundOK ==
  ASSUME SummaryIInv
  PROVE  /\ Present \subseteq File /\ InWalk \subseteq File
         /\ [known |-> TRUE, hash |-> InWalk, found |-> Present, calm |-> calm] \in SetType
         /\ Empty \in SetType
BY DEF SummaryIInv, SummaryTyped, AnalysisOK, Present, InWalk, SetType, Empty

LEMMA FindFilesKeeps == ASSUME SummaryIInv, FindFiles PROVE SummaryIInv'
<1> DEFINE kept == IF store.resolution.known /\ store.resolution.hash = InWalk
                   THEN store.resolution ELSE Empty
           fresh == [known |-> TRUE, hash |-> InWalk, found |-> Present, calm |-> calm]
<1>1. /\ stage = "walk" /\ todo = {} /\ stage' = "look"
      /\ UNCHANGED <<tree, disk, walked, missed, parsed, hashed, history>>
  BY DEF FindFiles
<1>2. TreeOK /\ AnalysisOK /\ store \in StoreType /\ disk \in StoreType
  BY DEF SummaryIInv, SummaryTyped
<1>3. KeepResolution(store) \in StoreType /\ KeepResolution(store).resolution = kept
      /\ KeepResolution(store).list = store.list
      /\ KeepResolution(store).summary = store.summary /\ KeepResolution(store).fact = store.fact
  BY <1>2, FoundOK DEF KeepResolution, CollectHash, StoreType
<1>4. /\ store' \in StoreType /\ store'.resolution = kept
      /\ store'.summary = store.summary /\ store'.fact = store.fact
      /\ store'.list \in {store.list, fresh}
  BY <1>3, FoundOK DEF FindFiles, StoreType, CollectHash
<1>5. SummaryTyped'
  <2>1. todo' \subseteq File
    BY FoundOK DEF FindFiles, File
  <2> QED BY <1>1, <1>2, <1>4, <2>1 DEF SummaryTyped, TreeOK, AnalysisOK, tree, history
<1>6. (Past /\ SeenNow /\ WalkTrue)'
  <2>1. \A x \in File : Met(x)' = Met(x)
    BY <1>1 DEF Met
  <2> QED BY <1>1, <2>1, WalkStays
<1>7. StoreTrue(store)'
  <2>1. SetTrue(fresh) /\ SetTrue(kept)
    BY <1>1, CalmFinds DEF SummaryIInv, StoreTrue, SetTrue, Empty
  <2> QED BY <1>1, <1>4, <2>1 DEF SummaryIInv, StoreTrue, SummaryTrue, FactTrue, Stands,
       MatchesTrue, SetTrue, tree
<1>8. Shown'
  BY <1>1, <1>4 DEF SummaryIInv, Shown, SummaryShown, FactShown, history
<1>9. StoreTrue(disk)'
  BY <1>1, DiskStays
<1>10. (ResolutionFits /\ ReadsTrue /\ Hashing)'
  <2>1. CollectHash' = InWalk
    BY <1>1 DEF CollectHash, InWalk
  <2> QED BY <1>1, <1>4, <2>1 DEF SummaryIInv, ResolutionFits, Empty, ReadsTrue, Hashing
<1> QED BY <1>5, <1>6, <1>7, <1>8, <1>9, <1>10 DEF SummaryIInv

(* Served by its stat or its hash, a summary is of what the file has or had. *)
LEMMA HitIsRight ==
  ASSUME SummaryIInv, NEW x \in Source, stage # "idle", SummaryHit(x), store.summary[x].walked
  PROVE  /\ store.summary[x].of \in since[x]
         /\ Stands(x, StatOf(x), store.summary[x].of)
<1> DEFINE e == store.summary[x]
<1>1. /\ e.m # 0 /\ StatOf(x) # 0
      /\ e.m = StatOf(x) \/ content[x] = e.h
  BY DEF SummaryHit
<1>2. e.h = e.of /\ Stands(x, e.m, e.of)
  BY <1>1 DEF SummaryIInv, StoreTrue, SummaryTrue
<1>3. x \in File /\ content[x] \in since[x] /\ walked[x] <= mtime[x] /\ mtime[x] \in Nat /\ walked[x] \in Nat
  BY DEF SummaryIInv, SeenNow, Past, File, SummaryTyped, TreeOK, AnalysisOK
<1>4. StatOf(x) <= mtime[x]
  BY <1>1, <1>3 DEF StatOf, LiveStat
<1>5. CASE content[x] = e.h
  BY <1>2, <1>3, <1>4, <1>5 DEF Stands
<1>6. CASE e.m = StatOf(x)
  <2>1. CASE walked[x] # 0
    BY <1>2, <1>6, <2>1 DEF SummaryIInv, Shown, SummaryShown, StatOf
  <2>2. CASE walked[x] = 0
    BY <1>1, <1>2, <1>3, <1>6, <2>2 DEF StatOf, LiveStat, Stands
  <2> QED BY <1>2, <1>6, <2>1, <2>2
<1> QED BY <1>1, <1>5, <1>6

(* A step that changes at most the summary of one file.                    *)
LEMMA SummaryStep ==
  ASSUME SummaryIInv, NEW x \in Source, NEW e \in SummaryType,
         UNCHANGED <<tree, walked, history>>,
         store' = [store EXCEPT !.summary[x] = e],
         SummaryTrue(x, e), SummaryShown(x, e)
  PROVE  /\ store' \in StoreType
         /\ store'.resolution = store.resolution
         /\ (StoreTrue(store) /\ Shown)'
<1>1. store \in StoreType
  BY DEF SummaryIInv, SummaryTyped
<1>2. /\ store' \in StoreType /\ store'.list = store.list /\ store'.resolution = store.resolution
      /\ store'.fact = store.fact /\ store'.summary = [store.summary EXCEPT ![x] = e]
  BY <1>1 DEF StoreType
<1>3. \A y \in Source : store'.summary[y] = IF y = x THEN e ELSE store.summary[y]
  BY <1>1, <1>2 DEF StoreType
<1>4. StoreTrue(store) /\ Shown
  BY DEF SummaryIInv
<1>5. StoreTrue(store)'
  <2>1. \A y \in Source : SummaryTrue(y, store'.summary[y])
    BY <1>3, <1>4 DEF StoreTrue
  <2> QED BY <1>2, <1>4, <2>1 DEF StoreTrue, SummaryTrue, FactTrue, Stands, MatchesTrue, SetTrue,
       tree
<1>6. Shown'
  <2>1. \A y \in Source : SummaryShown(y, store'.summary[y])
    BY <1>3, <1>4 DEF Shown
  <2> QED BY <1>2, <1>4, <2>1 DEF Shown, SummaryShown, FactShown, history
<1> QED BY <1>2, <1>5, <1>6

LEMMA LookupSummaryKeeps ==
  ASSUME SummaryIInv, NEW x \in Source, LookupSummary(x)
  PROVE  SummaryIInv'
<1>1. /\ stage = "look" /\ x \in todo /\ todo' = todo \ {x}
      /\ UNCHANGED <<tree, disk, stage, walked, parsed, hashed, history>>
      /\ missed' \subseteq Source
  BY DEF LookupSummary, SummaryIInv, SummaryTyped, AnalysisOK
<1>2. TreeOK /\ AnalysisOK /\ store \in StoreType /\ disk \in StoreType
  BY DEF SummaryIInv, SummaryTyped
<1>3. /\ store' \in StoreType /\ store'.resolution = store.resolution
      /\ (StoreTrue(store) /\ Shown)'
  <2>1. CASE ~SummaryHit(x)
    BY <1>1, <1>2, <2>1, StoreStays DEF LookupSummary
  <2>2. CASE SummaryHit(x)
    <3> DEFINE old == store.summary[x]
               e == [old EXCEPT !.m = StatOf(x)]
    <3>1. old \in SummaryType /\ x \in File /\ StatOf(x) \in Nat
      BY <1>2 DEF StoreType, StatOf, LiveStat, TreeOK, AnalysisOK, File
    <3>2. e \in SummaryType /\ e.m = StatOf(x) /\ e.h = old.h /\ e.of = old.of /\ e.walked = old.walked
      BY <3>1 DEF SummaryType
    <3>3. store' = [store EXCEPT !.summary[x] = e]
      BY <2>2 DEF LookupSummary
    <3>4. old.walked => old.h = old.of
      BY <2>2 DEF SummaryHit, SummaryIInv, StoreTrue, SummaryTrue
    <3>5. SummaryTrue(x, e) /\ SummaryShown(x, e)
      BY <1>1, <2>2, <3>2, <3>4, HitIsRight DEF SummaryTrue, SummaryShown
    <3> HIDE DEF e
    <3> QED BY <1>1, <3>2, <3>3, <3>5, SummaryStep
  <2> QED BY <2>1, <2>2
<1>4. SummaryTyped'
  BY <1>1, <1>2, <1>3 DEF SummaryTyped, TreeOK, AnalysisOK, tree, history
<1>5. (Past /\ SeenNow /\ WalkTrue)'
  <2>1. \A y \in File : Met(y)' = Met(y)
    BY <1>1 DEF Met
  <2> QED BY <1>1, <2>1, WalkStays
<1>6. StoreTrue(disk)'
  BY <1>1, DiskStays
<1>7. (ResolutionFits /\ ReadsTrue /\ Hashing)'
  BY <1>1, <1>3 DEF SummaryIInv, ResolutionFits, CollectHash, InWalk, ReadsTrue, Hashing
<1> QED BY <1>3, <1>4, <1>5, <1>6, <1>7 DEF SummaryIInv

LEMMA StoreSummaryKeeps ==
  ASSUME SummaryIInv, NEW x \in Source, StoreSummary(x)
  PROVE  SummaryIInv'
<1>1. /\ stage = "store" /\ x \in todo /\ hashed[x] # Absent /\ todo' = todo \ {x}
      /\ hashed' = [hashed EXCEPT ![x] = Absent]
      /\ UNCHANGED <<tree, disk, stage, walked, missed, parsed, history>>
  BY DEF StoreSummary
<1>2. TreeOK /\ AnalysisOK /\ store \in StoreType /\ disk \in StoreType
  BY DEF SummaryIInv, SummaryTyped
<1>3. /\ store' \in StoreType /\ store'.resolution = store.resolution
      /\ (StoreTrue(store) /\ Shown)'
  <2>1. CASE ~Unmoved(x)
    BY <1>1, <1>2, <2>1, StoreStays DEF StoreSummary
  <2>2. CASE Unmoved(x)
    <3> DEFINE e == [m |-> StatOf(x), h |-> hashed[x], of |-> parsed[x], walked |-> x \in InWalk]
    <3>1. x \in File /\ x \in missed /\ content[x] \in since[x] /\ StatOf(x) \in Nat /\ mtime[x] \in Nat
      BY <1>1, <1>2 DEF SummaryIInv, Hashing, SeenNow, StatOf, LiveStat, TreeOK, AnalysisOK, File
    <3>2. e \in SummaryType
      BY <1>2, <3>1 DEF SummaryType, AnalysisOK
    <3>3. store' = [store EXCEPT !.summary[x] = e]
      BY <2>2 DEF StoreSummary
    <3>4. x \in InWalk => StatOf(x) = mtime[x] /\ walked[x] = mtime[x] /\ walked[x] # 0
      BY <2>2 DEF InWalk, Unmoved, StatOf, LiveStat
    <3>5. x \in InWalk => hashed[x] = content[x] /\ parsed[x] = content[x]
      BY <1>1, <3>1, <3>4 DEF SummaryIInv, ReadsTrue
    <3>6. SummaryTrue(x, e) /\ SummaryShown(x, e)
      <4>1. e.m = StatOf(x) /\ e.h = hashed[x] /\ e.of = parsed[x] /\ (e.walked => x \in InWalk)
        OBVIOUS
      <4> HIDE DEF e
      <4> QED BY <3>1, <3>4, <3>5, <4>1 DEF SummaryTrue, SummaryShown, Stands
    <3> HIDE DEF e
    <3> QED BY <1>1, <3>2, <3>3, <3>6, SummaryStep
  <2> QED BY <2>1, <2>2
<1>4. SummaryTyped'
  BY <1>1, <1>2, <1>3 DEF SummaryTyped, TreeOK, AnalysisOK, tree, history, Now
<1>5. (Past /\ SeenNow /\ WalkTrue)'
  <2>1. \A y \in File : Met(y)' = Met(y)
    BY <1>1 DEF Met
  <2> QED BY <1>1, <2>1, WalkStays
<1>6. StoreTrue(disk)'
  BY <1>1, DiskStays
<1>7. (ResolutionFits /\ Hashing)'
  BY <1>1, <1>3 DEF SummaryIInv, ResolutionFits, CollectHash, InWalk, Hashing
<1>8. ReadsTrue'
  BY <1>1, <1>2 DEF SummaryIInv, ReadsTrue, AnalysisOK, tree
<1> QED BY <1>3, <1>4, <1>5, <1>6, <1>7, <1>8 DEF SummaryIInv

LEMMA ResolveKeeps == ASSUME SummaryIInv, Resolve PROVE SummaryIInv'
<1> DEFINE fresh == [known |-> TRUE, hash |-> InWalk, found |-> Present, calm |-> calm]
<1>1. /\ stage = "store" /\ todo = {} /\ stage' = "facts"
      /\ UNCHANGED <<tree, disk, todo, walked, missed, parsed, hashed, history>>
  BY DEF Resolve
<1>2. TreeOK /\ AnalysisOK /\ store \in StoreType /\ disk \in StoreType
  BY DEF SummaryIInv, SummaryTyped
<1>3. store' = store \/ store' = [store EXCEPT !.resolution = fresh]
  BY DEF Resolve, CollectHash
<1>4. /\ store' \in StoreType /\ store'.resolution \in {store.resolution, fresh}
      /\ store'.summary = store.summary /\ store'.fact = store.fact /\ store'.list = store.list
  <2>1. fresh \in SetType
    BY FoundOK
  <2> HIDE DEF fresh
  <2> QED BY <1>2, <1>3, <2>1 DEF StoreType
<1>5. SummaryTyped'
  BY <1>1, <1>2, <1>4 DEF SummaryTyped, TreeOK, AnalysisOK, tree, history
<1>6. (Past /\ SeenNow /\ WalkTrue)'
  <2>1. \A x \in File : Met(x)' = Met(x)
    BY <1>1 DEF Met
  <2> QED BY <1>1, <2>1, WalkStays
<1>7. StoreTrue(store)'
  <2>1. SetTrue(fresh)
    BY <1>1, CalmFinds DEF SetTrue
  <2> QED BY <1>1, <1>4, <2>1 DEF SummaryIInv, StoreTrue, SummaryTrue, FactTrue, Stands,
       MatchesTrue, SetTrue, tree
<1>8. Shown'
  BY <1>1, <1>4 DEF SummaryIInv, Shown, SummaryShown, FactShown, history
<1>9. StoreTrue(disk)'
  BY <1>1, DiskStays
<1>10. (ResolutionFits /\ ReadsTrue /\ Hashing)'
  BY <1>1 DEF SummaryIInv, ResolutionFits, ReadsTrue, Hashing
<1> QED BY <1>5, <1>6, <1>7, <1>8, <1>9, <1>10 DEF SummaryIInv

(* A fact that is valid is of what the file has, or had under the walk's   *)
(* time.                                                                   *)
LEMMA FactIsRight ==
  ASSUME SummaryIInv, NEW x \in Config, stage # "idle", x \in InWalk,
         store.fact[x].m # 0,
         store.fact[x].m = StatOf(x) \/ content[x] = store.fact[x].h
  PROVE  /\ store.fact[x].h \in since[x]
         /\ StatOf(x) = walked[x]
         /\ Stands(x, walked[x], store.fact[x].h)
<1>1. x \in File /\ walked[x] # 0 /\ content[x] \in since[x] /\ walked[x] <= mtime[x]
  BY DEF SummaryIInv, SeenNow, Past, File, InWalk
<1>2. StatOf(x) = walked[x]
  BY <1>1 DEF StatOf
<1>3. CASE store.fact[x].m = StatOf(x)
  BY <1>1, <1>2, <1>3 DEF SummaryIInv, Shown, FactShown, StoreTrue, FactTrue
<1>4. CASE content[x] = store.fact[x].h
  BY <1>1, <1>2, <1>4 DEF Stands
<1> QED BY <1>3, <1>4

LEMMA FactStep ==
  ASSUME SummaryIInv, NEW x \in Config, NEW e \in FactType,
         UNCHANGED <<tree, walked, history>>,
         store' = [store EXCEPT !.fact[x] = e],
         FactTrue(x, e), FactShown(x, e)
  PROVE  /\ store' \in StoreType
         /\ store'.resolution = store.resolution
         /\ (StoreTrue(store) /\ Shown)'
<1>1. store \in StoreType
  BY DEF SummaryIInv, SummaryTyped
<1>2. /\ store' \in StoreType /\ store'.list = store.list /\ store'.resolution = store.resolution
      /\ store'.summary = store.summary /\ store'.fact = [store.fact EXCEPT ![x] = e]
  BY <1>1 DEF StoreType
<1>3. \A y \in Config : store'.fact[y] = IF y = x THEN e ELSE store.fact[y]
  BY <1>1, <1>2 DEF StoreType
<1>4. StoreTrue(store) /\ Shown
  BY DEF SummaryIInv
<1>5. StoreTrue(store)'
  <2>1. \A y \in Config : FactTrue(y, store'.fact[y])
    BY <1>3, <1>4 DEF StoreTrue
  <2> QED BY <1>2, <1>4, <2>1 DEF StoreTrue, SummaryTrue, FactTrue, Stands, MatchesTrue, SetTrue,
       tree
<1>6. Shown'
  <2>1. \A y \in Config : FactShown(y, store'.fact[y])
    BY <1>3, <1>4 DEF Shown
  <2> QED BY <1>2, <1>4, <2>1 DEF Shown, SummaryShown, FactShown, history
<1> QED BY <1>2, <1>5, <1>6

LEMMA MatchNamesKeeps ==
  ASSUME SummaryIInv, NEW x \in Config, NEW k \in Search, MatchNames(x, k)
  PROVE  SummaryIInv'
<1> DEFINE old == store.fact[x]
           match == [of |-> content[x], calm |-> calm]
<1>1. /\ stage = "facts" /\ x \in InWalk
      /\ UNCHANGED <<tree, disk, stage, todo, walked, missed, parsed, hashed, history>>
  BY DEF MatchNames
<1>2. TreeOK /\ AnalysisOK /\ store \in StoreType /\ disk \in StoreType
  BY DEF SummaryIInv, SummaryTyped
<1>3. /\ x \in File /\ old \in FactType /\ content[x] \in since[x] /\ walked[x] # 0 /\ walked[x] \in Nat
      /\ walked[x] <= mtime[x] /\ StatOf(x) = walked[x] /\ content[x] \in Now
      /\ MatchesTrue(old) /\ (calm => walked[x] = mtime[x])
  BY <1>1, <1>2 DEF SummaryIInv, SeenNow, Past, StoreType, StatOf, LiveStat, TreeOK, AnalysisOK,
       File, InWalk,
                    StoreTrue, FactTrue, WalkTrue, Met
<1>4. match \in [of : Now, calm : BOOLEAN] /\ match.of = content[x] /\ match.calm = calm
  BY <1>2, <1>3 DEF AnalysisOK
<1> HIDE DEF match
<1>5. PICK e \in FactType :
        store' = [store EXCEPT !.fact[x] = e] /\ FactTrue(x, e) /\ FactShown(x, e)
  <2>1. CASE FactHit(x, k)
    <3> DEFINE e == [old EXCEPT !.m = StatOf(x)]
    <3>1. store' = [store EXCEPT !.fact[x] = e]
      BY <2>1 DEF MatchNames
    <3>2. e \in FactType /\ e.m = walked[x] /\ e.h = old.h /\ e.match = old.match
      BY <1>3 DEF FactType
    <3>3. FactTrue(x, e) /\ FactShown(x, e)
      BY <1>1, <1>3, <2>1, <3>2, FactIsRight DEF FactHit, FactTrue, FactShown, MatchesTrue
    <3> QED BY <3>1, <3>2, <3>3
  <2>2. CASE ~FactHit(x, k) /\ content[x] = Absent
    <3>1. store' = [store EXCEPT !.fact[x] = old]
      BY <2>2 DEF MatchNames
    <3> QED BY <1>3, <3>1 DEF SummaryIInv, StoreTrue, Shown
  <2>3. CASE ~FactHit(x, k) /\ content[x] # Absent
    <3> DEFINE base == FactBase(x)
               e == [base EXCEPT !.match[k] = match]
    <3>1. store' = [store EXCEPT !.fact[x] = e]
      BY <2>3 DEF MatchNames, match
    <3>2. /\ base \in FactType /\ base.m = walked[x] /\ base.h \in since[x]
          /\ Stands(x, walked[x], base.h) /\ MatchesTrue(base)
      <4>1. CASE old.m # 0 /\ (old.m = StatOf(x) \/ content[x] = old.h)
        <5>1. base = [old EXCEPT !.m = StatOf(x)]
          BY <4>1 DEF FactBase
        <5>2. base \in FactType /\ base.m = walked[x] /\ base.h = old.h /\ base.match = old.match
          BY <1>3, <5>1 DEF FactType
        <5> QED BY <1>1, <1>3, <4>1, <5>2, FactIsRight DEF MatchesTrue
      <4>2. CASE ~(old.m # 0 /\ (old.m = StatOf(x) \/ content[x] = old.h))
        <5>1. base = [NoFact EXCEPT !.m = StatOf(x), !.h = content[x]]
          BY <4>2 DEF FactBase
        <5>2. /\ base \in FactType /\ base.m = walked[x] /\ base.h = content[x]
              /\ \A j \in Search : base.match[j] = NoMatch
          <6>1. base = [m |-> StatOf(x), h |-> content[x], match |-> [j \in Search |-> NoMatch]]
            BY <5>1 DEF NoFact
          <6>2. NoMatch \in [of : Now, calm : BOOLEAN]
            BY DEF NoMatch, Now
          <6> HIDE DEF base
          <6> QED BY <1>3, <6>1, <6>2 DEF FactType
        <5> QED BY <1>3, <5>2 DEF MatchesTrue, Stands
      <4> QED BY <4>1, <4>2
    <3> HIDE DEF base
    <3>3. /\ e \in FactType /\ e.m = base.m /\ e.h = base.h
          /\ \A j \in Search : e.match[j] = IF j = k THEN match ELSE base.match[j]
      BY <1>4, <3>2 DEF FactType
    <3>4. calm => content[x] = base.h
      BY <1>3, <3>2 DEF Stands
    <3>5. FactTrue(x, e) /\ FactShown(x, e)
      BY <1>4, <3>2, <3>3, <3>4 DEF FactTrue, FactShown, MatchesTrue
    <3> HIDE DEF e
    <3> QED BY <3>1, <3>3, <3>5
  <2> QED BY <2>1, <2>2, <2>3
<1>6. /\ store' \in StoreType /\ store'.resolution = store.resolution
      /\ (StoreTrue(store) /\ Shown)'
  BY <1>1, <1>5, FactStep
<1>7. SummaryTyped'
  BY <1>1, <1>2, <1>6 DEF SummaryTyped, TreeOK, AnalysisOK, tree, history
<1>8. (Past /\ SeenNow /\ WalkTrue)'
  <2>1. \A y \in File : Met(y)' = Met(y)
    BY <1>1 DEF Met
  <2> QED BY <1>1, <2>1, WalkStays
<1>9. StoreTrue(disk)'
  BY <1>1, DiskStays
<1>10. (ResolutionFits /\ ReadsTrue /\ Hashing)'
  BY <1>1 DEF SummaryIInv, ResolutionFits, ReadsTrue, Hashing
<1> QED BY <1>6, <1>7, <1>8, <1>9, <1>10 DEF SummaryIInv

LEMMA SaveKeeps == ASSUME SummaryIInv, Save PROVE SummaryIInv'
<1>1. store \in StoreType /\ disk \in StoreType /\ StoreTrue(store) /\ StoreTrue(disk)
  BY DEF SummaryIInv, SummaryTyped
<1>2. NoSummary \in SummaryType /\ NoFact \in FactType /\ NoSummary.m = 0 /\ NoFact.m = 0
      /\ MatchesTrue(NoFact)
  BY DEF NoSummary, NoFact, NoMatch, SummaryType, FactType, Now, MatchesTrue
<1>3. Compacted \in StoreType /\ StoreTrue(Compacted)
  <2>1. /\ \A x \in Source : Compacted.summary[x] \in {store.summary[x], NoSummary}
        /\ \A x \in Config : Compacted.fact[x] \in {store.fact[x], NoFact}
        /\ Compacted.list = store.list /\ Compacted.resolution = store.resolution
    BY DEF Compacted
  <2>2. Compacted \in StoreType
    BY <1>1, <1>2 DEF Compacted, StoreType
  <2>3. StoreTrue(Compacted)
    BY <1>1, <1>2, <2>1 DEF StoreTrue, SummaryTrue, FactTrue
  <2> QED BY <2>2, <2>3
<1>4. disk' \in {disk, Compacted} /\ UNCHANGED tree /\ End
  BY DEF Save
<1>5. disk' \in StoreType
  BY <1>1, <1>3, <1>4
<1>6. StoreTrue(disk)'
  BY <1>1, <1>3, <1>4 DEF StoreTrue, SummaryTrue, FactTrue, Stands, MatchesTrue, SetTrue, tree
<1> QED BY <1>4, <1>5, <1>6, EndKeeps

LEMMA StutterKeeps == ASSUME SummaryIInv, UNCHANGED summaryVars PROVE SummaryIInv'
<1>1. SummaryTyped'
  BY DEF SummaryIInv, SummaryTyped, TreeOK, AnalysisOK, summaryVars, tree, history
<1>2. (Past /\ SeenNow /\ WalkTrue)'
  BY DEF SummaryIInv, summaryVars, tree, history, Past, SeenNow, WalkTrue, Met, LiveStat
<1>3. (StoreTrue(store) /\ Shown /\ StoreTrue(disk))'
  BY StoreStays, DiskStays DEF summaryVars
<1>4. (ResolutionFits /\ ReadsTrue /\ Hashing)'
  BY DEF SummaryIInv, summaryVars, tree, ResolutionFits, CollectHash, InWalk, ReadsTrue, Hashing
<1> QED BY <1>1, <1>2, <1>3, <1>4 DEF SummaryIInv

LEMMA SummaryStepKeeps == ASSUME SummaryIInv, [SummaryNext]_summaryVars PROVE SummaryIInv'
BY WriteKeeps, BeginKeeps, FailKeeps, WalkKeeps, FindFilesKeeps, LookupSummaryKeeps, ReadingKeeps,
   StoreSummaryKeeps, ResolveKeeps, MatchNamesKeeps, SaveKeeps, StutterKeeps
   DEF SummaryNext, Now

(* In every state of every analysis what is stored, on disk and in memory, *)
(* is typed and true of the files whose times it is stored under           *)
(* (summary-cache.ts:573-643).                                             *)
THEOREM SummaryInvariant == SummarySpec => []SummaryIInv
<1>1. SummaryInit => SummaryIInv
  BY SummaryInitIInv
<1>2. SummaryIInv /\ [SummaryNext]_summaryVars => SummaryIInv'
  BY SummaryStepKeeps
<1> QED BY <1>1, <1>2, PTL DEF SummarySpec

(* A summary served of a file its walk had seen is of a content the file   *)
(* had during the analysis (lookupSummary, summary-cache.ts:570-590).          *)
THEOREM SummariesAreRight == SummarySpec => []WalkedSummaryIsRight
<1>1. SummaryIInv => WalkedSummaryIsRight
  BY HitIsRight DEF WalkedSummaryIsRight
<1> QED BY <1>1, SummaryInvariant, PTL

(* A set of files stored in calm, and found under the same walk, shows the *)
(* tree as it was during the analysis.                                     *)
LEMMA FoundIsSeen ==
  ASSUME SummaryIInv, (stage = "walk" /\ todo = {}) \/ stage \in {"look", "parse", "store"}
  PROVE  SeenAs(InWalk)
BY DEF SummaryIInv, WalkTrue, Met, SeenAs, InWalk

(* A list, a resolution or a fact that was stored while nothing changed    *)
(* shows the tree of this analysis when it is served                       *)
(* (summary-cache.ts:514-570, 645-700).                                    *)
THEOREM AnswersAreRight == SummarySpec => []CalmAnswersAreRight
<1>1. ASSUME SummaryIInv PROVE CalmAnswersAreRight
  <2>1. SetTrue(store.list) /\ SetTrue(store.resolution) /\ ResolutionFits
    BY <1>1 DEF SummaryIInv, StoreTrue
  <2>2. stage = "walk" /\ todo = {} /\ ListHit /\ store.list.calm => SeenAs(store.list.found)
    BY <1>1, <2>1, FoundIsSeen DEF ListHit, SetTrue, CollectHash
  <2>3. stage \in {"look", "parse", "store"} /\ store.resolution.known /\ store.resolution.calm
          => SeenAs(store.resolution.found)
    BY <1>1, <2>1, FoundIsSeen DEF ResolutionFits, SetTrue, CollectHash
  <2>4. ASSUME NEW x \in Config, NEW k \in Search, stage = "facts", x \in InWalk, FactHit(x, k),
               store.fact[x].match[k].calm
        PROVE  store.fact[x].match[k].of \in since[x]
    <3>1. store.fact[x].match[k].of = store.fact[x].h
      BY <1>1, <2>4 DEF SummaryIInv, StoreTrue, FactTrue, MatchesTrue, FactHit
    <3> QED BY <1>1, <2>4, <3>1, FactIsRight DEF FactHit
  <2> QED BY <2>2, <2>3, <2>4 DEF CalmAnswersAreRight
<1> QED BY <1>1, SummaryInvariant, PTL
=============================================================================
