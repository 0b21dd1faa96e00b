---------------------- MODULE DeadCodeResultCacheProofs ----------------------
(***************************************************************************)
(* What a hit of the dead-code result cache shows, for every set of paths, *)
(* contents, keys and processes and every number of edits.                 *)
(*                                                                         *)
(* The argument goes by assertions: an entry, or a process that has        *)
(* checked a path, asserts that the path had a content under a stat.  An   *)
(* assertion may be wrong, but not under the stat the file has now, and    *)
(* not to a scan that began early enough to take that stat.                *)
(***************************************************************************)
EXTENDS DeadCodeResultCache, TLAPS

Held(entry, x, s, c) == x \in Listed(entry.stat) /\ entry.stat[x] = s /\ entry.hash[x] = c

(* What the lookup or the store of p has checked and not yet written.      *)
Checked(p, x, s, c) ==
  /\ x \in Listed(snapshot[p]) \ todo[p]
  /\ s = snapshot[p][x]
  /\ \/ phase[p] = "verify" /\ c = loaded[p].hash[x]
     \/ phase[p] = "store" /\ c = hashed[p][x]

Asserted(x, s, c) ==
  \/ Held(cache, x, s, c)
  \/ \E p \in Process : Held(loaded[p], x, s, c) \/ Checked(p, x, s, c)

(* The content of a file that has the asserted stat is the asserted one.   *)
TrueNow ==
  \A x \in Path, s \in Stat, c \in Content \union {Absent} : Asserted(x, s, c) =>
    /\ s.mtime <= clock
    /\ content[x] # Absent /\ mtime[x] = s.mtime => content[x] = c

(* What is asserted under the stat a scan took, the path had meanwhile.    *)
TrueToScans ==
  \A p \in Process, x \in Path, c \in Content \union {Absent} :
    LookingUp(p) /\ x \in Listed(snapshot[p]) /\ Asserted(x, snapshot[p][x], c)
      => c \in since[p][x]

PresentIsSeen ==
  \A p \in Process, x \in Path : LookingUp(p) => content[x] \in since[p][x]

PastTimes ==
  \A x \in Path : mtime[x] <= clock /\ \A p \in Process : snapshot[p][x].mtime <= clock

(* What p read of x is there still, if x has the stat of the snapshot.     *)
Fresh(p, x, c) ==
  x \in Listed(snapshot[p]) /\ content[x] # Absent /\ mtime[x] = snapshot[p][x].mtime
    => content[x] = c

ReadsFresh ==
  \A p \in Process, x \in Path :
    /\ phase[p] = "store" \/ (phase[p] = "analyze" /\ x \notin todo[p])
         => Fresh(p, x, seen[p][x])
    /\ phase[p] = "store" /\ hashed[p][x] # Absent => Fresh(p, x, hashed[p][x])

(* An entry shows of the paths it lists what it has hashed.                *)
ShowsHashed(entry) == \A x \in Listed(entry.stat) : entry.result[x] = entry.hash[x]

Results ==
  /\ ShowsHashed(cache)
  /\ \A p \in Process :
       /\ ShowsHashed(loaded[p])
       /\ phase[p] = "verify" => /\ loaded[p].key = key[p]
                                 /\ Listed(loaded[p].stat) = Listed(snapshot[p])
       /\ phase[p] = "store" =>
            /\ todo[p] \subseteq Listed(snapshot[p])
            /\ \A x \in Listed(snapshot[p]) \ todo[p] : hashed[p][x] = seen[p][x]

IdleHoldsNothing ==
  \A p \in Process :
    /\ phase[p] = "idle" => snapshot[p] = Unstatted
    /\ phase[p] = "snapshot" => \A x \in todo[p] : snapshot[p][x] = NoStat
    /\ phase[p] # "verify" => loaded[p] = NoEntry
    /\ phase[p] # "store" => hashed[p] = Nothing

IInv ==
  /\ TypeOK
  /\ TrueNow
  /\ TrueToScans
  /\ PresentIsSeen
  /\ PastTimes
  /\ ReadsFresh
  /\ Results
  /\ IdleHoldsNothing

-----------------------------------------------------------------------------

LEMMA InitIInv == Init => IInv
<1> SUFFICES ASSUME Init PROVE IInv OBVIOUS
<1>1. /\ NoEntry \in Entry /\ Unstatted \in [Path -> Stat] /\ Nothing \in Contents
      /\ Listed(NoEntry.stat) = {} /\ Listed(Unstatted) = {}
  BY DEF NoEntry, Unstatted, Nothing, Entry, Stat, Contents, NoStat, Listed
<1>2. TypeOK BY <1>1 DEF Init, TypeOK, Never, Contents
<1>3. \A x, s, c : ~Asserted(x, s, c)
  BY <1>1 DEF Init, Asserted, Held, Checked
<1>4. TrueNow /\ TrueToScans BY <1>3 DEF TrueNow, TrueToScans
<1>5. PresentIsSeen BY DEF Init, PresentIsSeen, LookingUp
<1>6. PastTimes BY DEF Init, PastTimes, Unstatted, NoStat
<1>7. ReadsFresh BY DEF Init, ReadsFresh
<1>8. Results BY <1>1 DEF Init, Results, ShowsHashed
<1>9. IdleHoldsNothing BY DEF Init, IdleHoldsNothing
<1> QED BY <1>2, <1>4, <1>5, <1>6, <1>7, <1>8, <1>9 DEF IInv

(* A step that leaves the files alone and asserts nothing new keeps what   *)
(* is asserted true, for the scans that go on with the same snapshot.      *)
LEMMA NothingNewAsserted ==
  ASSUME IInv, TypeOK', UNCHANGED disk,
         \A x \in Path, s \in Stat, c \in Content \union {Absent} :
           Asserted(x, s, c)' => Asserted(x, s, c),
         \A p \in Process : LookingUp(p)' =>
           LookingUp(p) /\ snapshot'[p] = snapshot[p] /\ since'[p] = since[p]
  PROVE  TrueNow' /\ TrueToScans' /\ PresentIsSeen'
<1>1. TrueNow' BY DEF IInv, TrueNow, disk
<1>2. TrueToScans'
  <2> SUFFICES ASSUME NEW p \in Process, NEW x \in Path,
                      NEW c \in Content \union {Absent},
                      LookingUp(p)', (x \in Listed(snapshot[p]))',
                      Asserted(x, snapshot[p][x], c)'
               PROVE  c \in since'[p][x]
    BY DEF TrueToScans
  <2>1. snapshot'[p] = snapshot[p] /\ since'[p] = since[p] /\ LookingUp(p) OBVIOUS
  <2>2. snapshot[p][x] \in Stat BY DEF IInv, TypeOK
  <2>3. Asserted(x, snapshot[p][x], c) BY <2>1, <2>2
  <2>4. x \in Listed(snapshot[p]) BY <2>1 DEF Listed
  <2> QED BY <2>1, <2>3, <2>4 DEF IInv, TrueToScans
<1>3. PresentIsSeen' BY DEF IInv, PresentIsSeen, disk
<1> QED BY <1>1, <1>2, <1>3

-----------------------------------------------------------------------------

LEMMA WriteIInv ==
  ASSUME IInv, NEW x \in Path, NEW c \in Content \union {Absent}, Write(x, c) PROVE IInv'
<1> USE DEF IInv
<1>1. /\ clock' = clock + 1 /\ content' = [content EXCEPT ![x] = c]
      /\ mtime' = [mtime EXCEPT ![x] = clock + 1]
      /\ UNCHANGED <<cache, phase, key, todo, snapshot, loaded, seen, hashed>>
      /\ clock \in Nat /\ content \in Contents /\ mtime \in [Path -> Nat \ {0}]
  BY DEF Write, TypeOK
<1>2. \A p \in Process, y \in Path :
        /\ since[p][y] \subseteq since'[p][y]
        /\ LookingUp(p) /\ y = x => c \in since'[p][y]
        /\ since'[p][y] \subseteq Content \union {Absent}
  BY DEF Write, TypeOK
<1>3. TypeOK'
  <2>1. since' \in [Process -> [Path -> SUBSET (Content \union {Absent})]]
    BY DEF Write, TypeOK
  <2> QED BY <1>1, <2>1 DEF TypeOK, Contents
<1>4. \A y, s, d : Asserted(y, s, d)' <=> Asserted(y, s, d)
  BY <1>1 DEF Asserted, Held, Checked, Listed
<1>5. TrueNow' BY <1>1, <1>4 DEF TrueNow, Stat, Contents
<1>6. TrueToScans' BY <1>1, <1>2, <1>4 DEF TrueToScans, LookingUp, Listed
<1>7. PresentIsSeen' BY <1>1, <1>2 DEF PresentIsSeen, LookingUp, Contents
<1>8. PastTimes' BY <1>1 DEF PastTimes, TypeOK, Stat
<1>9. ReadsFresh' BY <1>1 DEF ReadsFresh, Fresh, PastTimes, TypeOK, Stat, Listed, Contents
<1>10. Results' BY <1>1 DEF Results, ShowsHashed, Listed
<1>11. IdleHoldsNothing' BY <1>1 DEF IdleHoldsNothing
<1> QED BY <1>3, <1>5, <1>6, <1>7, <1>8, <1>9, <1>10, <1>11

LEMMA BeginIInv ==
  ASSUME IInv, NEW p \in Process, NEW k \in Key, Begin(p, k) PROVE IInv'
<1> USE DEF IInv
<1>1. /\ phase[p] = "idle" /\ phase' = [phase EXCEPT ![p] = "snapshot"]
      /\ todo' = [todo EXCEPT ![p] = Path]
      /\ since' = [since EXCEPT ![p] = [x \in Path |-> {content[x]}]]
      /\ key' = [key EXCEPT ![p] = k]
      /\ UNCHANGED <<disk, cache, snapshot, loaded, seen, hashed>>
      /\ snapshot[p] = Unstatted
  BY DEF Begin, IdleHoldsNothing
<1>2. TypeOK' BY <1>1 DEF TypeOK, disk, Contents
<1>3. \A x, s, c : Asserted(x, s, c)' => Asserted(x, s, c)
  BY <1>1 DEF Asserted, Held, Checked, Listed, TypeOK
<1>4. TrueNow' BY <1>1, <1>3 DEF TrueNow, disk
<1>5. TrueToScans'
  BY <1>1, <1>3 DEF TrueToScans, LookingUp, Listed, TypeOK, Unstatted
<1>6. PresentIsSeen' BY <1>1 DEF PresentIsSeen, LookingUp, TypeOK, disk
<1>7. PastTimes' BY <1>1 DEF PastTimes, disk
<1>8. ReadsFresh' BY <1>1 DEF ReadsFresh, Fresh, Listed, disk, TypeOK
<1>9. Results' BY <1>1 DEF Results, ShowsHashed, Listed, TypeOK
<1>10. IdleHoldsNothing' BY <1>1 DEF IdleHoldsNothing, TypeOK, Unstatted
<1> QED BY <1>2, <1>4, <1>5, <1>6, <1>7, <1>8, <1>9, <1>10

(* The stat just taken is the file's: what is asserted under it is true.   *)
LEMMA StatFileIInv ==
  ASSUME IInv, NEW p \in Process, NEW x \in todo[p], StatFile(p, x) PROVE IInv'
<1> USE DEF IInv
<1>1. /\ phase[p] = "snapshot" /\ x \in Path
      /\ snapshot' = [snapshot EXCEPT ![p][x] = StatOf(x)]
      /\ todo' = [todo EXCEPT ![p] = @ \ {x}]
      /\ UNCHANGED <<disk, cache, phase, key, loaded, seen, hashed, since>>
  BY DEF StatFile, TypeOK
<1>2. StatOf(x) \in Stat /\ StatOf(x).mtime <= clock
  BY <1>1, SizeAssumption DEF StatOf, Stat, NoStat, TypeOK, Contents, PastTimes
<1>3. TypeOK' BY <1>1, <1>2 DEF TypeOK, disk
<1>4. \A y, s, c : Asserted(y, s, c)' => Asserted(y, s, c)
  BY <1>1 DEF Asserted, Held, Checked, Listed, TypeOK
<1>5. TrueNow' BY <1>1, <1>4 DEF TrueNow, disk
<1>6. TrueToScans'
  <2> SUFFICES ASSUME NEW q \in Process, NEW y \in Path,
                      NEW c \in Content \union {Absent},
                      LookingUp(q)', (y \in Listed(snapshot[q]))',
                      Asserted(y, snapshot[q][y], c)'
               PROVE  c \in since[q][y]
    BY <1>1 DEF TrueToScans
  <2>1. LookingUp(q) BY <1>1 DEF LookingUp
  <2>2. CASE q = p /\ y = x
    <3>1. snapshot'[q][y] = StatOf(x) BY <1>1, <2>2 DEF TypeOK
    <3>2. Asserted(x, StatOf(x), c) BY <1>4, <2>2, <3>1
    <3>3. content[x] # Absent /\ StatOf(x).mtime = mtime[x]
      BY <2>2, <3>1 DEF Listed, StatOf
    <3>4. content[x] = c BY <1>1, <1>2, <3>2, <3>3 DEF TrueNow
    <3> QED BY <2>1, <2>2, <3>4 DEF PresentIsSeen
  <2>3. CASE ~(q = p /\ y = x)
    <3>1. snapshot'[q][y] = snapshot[q][y] BY <1>1, <2>3 DEF TypeOK
    <3> QED BY <1>4, <2>1, <3>1 DEF TrueToScans, Listed
  <2> QED BY <2>2, <2>3
<1>7. PresentIsSeen' BY <1>1 DEF PresentIsSeen, LookingUp, disk
<1>8. PastTimes' BY <1>1, <1>2 DEF PastTimes, disk, TypeOK
<1>9. ReadsFresh' BY <1>1 DEF ReadsFresh, Fresh, Listed, disk, TypeOK
<1>10. Results' BY <1>1 DEF Results, ShowsHashed, Listed, TypeOK
<1>11. IdleHoldsNothing' BY <1>1 DEF IdleHoldsNothing, TypeOK
<1> QED BY <1>3, <1>5, <1>6, <1>7, <1>8, <1>9, <1>10, <1>11

-----------------------------------------------------------------------------
(* Steps that end a scan: what the scan asserted is dropped or written.    *)
LEMMA EndIInv ==
  ASSUME IInv, NEW p \in Process, End(p), UNCHANGED disk,
         cache' \in Entry, ShowsHashed(cache'),
         \A x \in Path, s \in Stat, c \in Content \union {Absent} :
           Held(cache', x, s, c) => Asserted(x, s, c)
  PROVE  IInv'
<1> USE DEF IInv
<1>1. NoEntry \in Entry /\ Unstatted \in [Path -> Stat] /\ Nothing \in Contents
      /\ Never \in [Path -> SUBSET (Content \union {Absent})]
      /\ Listed(NoEntry.stat) = {} /\ Listed(Unstatted) = {}
  BY DEF NoEntry, Unstatted, Nothing, Never, Entry, Stat, Contents, NoStat, Listed
<1>2. TypeOK' BY <1>1 DEF End, TypeOK, disk
<1>3. \A x \in Path, s \in Stat, c \in Content \union {Absent} :
        Asserted(x, s, c)' => Asserted(x, s, c)
  <2> SUFFICES ASSUME NEW x \in Path, NEW s \in Stat, NEW c \in Content \union {Absent},
                      NEW q \in Process,
                      (Held(loaded[q], x, s, c) \/ Checked(q, x, s, c))'
               PROVE  Asserted(x, s, c)
    BY DEF Asserted, Held, Listed
  <2>1. CASE q = p BY <1>1, <2>1 DEF End, TypeOK, Held, Checked, Listed
  <2>2. CASE q # p
    BY <2>2 DEF End, TypeOK, Held, Checked, Listed, Asserted
  <2> QED BY <2>1, <2>2
<1>4. \A q \in Process : LookingUp(q)' =>
        LookingUp(q) /\ snapshot'[q] = snapshot[q] /\ since'[q] = since[q]
  BY DEF End, LookingUp, TypeOK
<1>5. TrueNow' /\ TrueToScans' /\ PresentIsSeen' BY <1>2, <1>3, <1>4, NothingNewAsserted
<1>6. PastTimes'
  BY DEF End, PastTimes, disk, TypeOK, Unstatted, NoStat
<1>7. ReadsFresh' BY DEF End, ReadsFresh, Fresh, Listed, disk, TypeOK
<1>8. Results' BY <1>1 DEF End, Results, ShowsHashed, Listed, TypeOK
<1>9. IdleHoldsNothing' BY DEF End, IdleHoldsNothing, TypeOK
<1> QED BY <1>2, <1>5, <1>6, <1>7, <1>8, <1>9

LEMMA FailIInv ==
  ASSUME IInv, NEW p \in Process, Fail(p) PROVE IInv'
BY EndIInv DEF Fail, IInv, TypeOK, Results, Asserted

(* The entry written back asserts what the lookup has checked.             *)
LEMMA HitIInv ==
  ASSUME IInv, NEW p \in Process, Hit(p) PROVE IInv'
<1> USE DEF IInv
<1>1. /\ phase[p] = "verify" /\ todo[p] = {} /\ End(p) /\ UNCHANGED disk
      /\ Listed(loaded[p].stat) = Listed(snapshot[p])
  BY DEF Hit, Verified, Results
<1>2. CASE cache' = cache
  BY <1>1, <1>2, EndIInv DEF TypeOK, Results, Asserted
<1>3. CASE cache' = [loaded[p] EXCEPT !.stat = snapshot[p]]
  <2>1. cache' \in Entry BY <1>3 DEF TypeOK, Entry
  <2>2. cache'.stat = snapshot[p] /\ cache'.hash = loaded[p].hash
        /\ cache'.result = loaded[p].result
    BY <1>3 DEF TypeOK, Entry
  <2>3. ShowsHashed(cache') BY <1>1, <2>2 DEF Results, ShowsHashed
  <2>4. \A x \in Path, s \in Stat, c \in Content \union {Absent} :
          Held(cache', x, s, c) => Asserted(x, s, c)
    BY <1>1, <2>2 DEF Held, Checked, Asserted
  <2> QED BY <1>1, <2>1, <2>3, <2>4, EndIInv
<1> QED BY <1>2, <1>3 DEF Hit

LEMMA StoreIInv ==
  ASSUME IInv, NEW p \in Process, Store(p) PROVE IInv'
<1> USE DEF IInv
<1>1. phase[p] = "store" /\ todo[p] = {} /\ End(p) /\ UNCHANGED disk BY DEF Store
<1>2. CASE cache' = cache
  BY <1>1, <1>2, EndIInv DEF TypeOK, Results, Asserted
<1>3. CASE cache' = [key |-> key[p], stat |-> snapshot[p], hash |-> hashed[p],
                     result |-> seen[p]]
  <2>1. cache' \in Entry BY <1>3 DEF TypeOK, Entry
  <2>2. ShowsHashed(cache') BY <1>1, <1>3 DEF Results, ShowsHashed
  <2>3. \A x \in Path, s \in Stat, c \in Content \union {Absent} :
          Held(cache', x, s, c) => Asserted(x, s, c)
    BY <1>1, <1>3 DEF Held, Checked, Asserted
  <2> QED BY <1>1, <2>1, <2>2, <2>3, EndIInv
<1> QED BY <1>2, <1>3 DEF Store

-----------------------------------------------------------------------------
(* A miss drops what the lookup had checked.                               *)
LEMMA MissIInv ==
  ASSUME IInv, NEW p \in Process, LookingUp(p), Miss(p),
         UNCHANGED <<disk, cache, key, snapshot, seen, hashed>>
  PROVE  IInv'
<1> USE DEF IInv
<1>1. NoEntry \in Entry /\ Never \in [Path -> SUBSET (Content \union {Absent})]
      /\ Listed(NoEntry.stat) = {}
  BY DEF NoEntry, Unstatted, Nothing, Never, Entry, Stat, Contents, NoStat, Listed
<1>2. TypeOK' BY <1>1 DEF Miss, TypeOK, disk
<1>3. \A x, s, c : Asserted(x, s, c)' => Asserted(x, s, c)
  <2> SUFFICES ASSUME NEW x, NEW s, NEW c, NEW q \in Process,
                      (Held(loaded[q], x, s, c) \/ Checked(q, x, s, c))'
               PROVE  Asserted(x, s, c)
    BY DEF Asserted, Held, Listed
  <2>1. CASE q = p BY <1>1, <2>1 DEF Miss, TypeOK, Held, Checked, Listed
  <2>2. CASE q # p
    BY <2>2 DEF Miss, TypeOK, Held, Checked, Listed, Asserted
  <2> QED BY <2>1, <2>2
<1>4. \A q \in Process : LookingUp(q)' =>
        LookingUp(q) /\ snapshot'[q] = snapshot[q] /\ since'[q] = since[q]
  BY DEF Miss, LookingUp, TypeOK
<1>5. TrueNow' /\ TrueToScans' /\ PresentIsSeen' BY <1>2, <1>3, <1>4, NothingNewAsserted
<1>6. PastTimes' BY DEF PastTimes, disk
<1>7. ReadsFresh' BY DEF Miss, ReadsFresh, Fresh, Listed, disk, TypeOK
<1>8. Results' BY <1>1 DEF Miss, Results, ShowsHashed, Listed, TypeOK
<1>9. IdleHoldsNothing' BY DEF Miss, LookingUp, IdleHoldsNothing, TypeOK
<1> QED BY <1>2, <1>5, <1>6, <1>7, <1>8, <1>9

(* The entry read asserts what the file asserts; of the paths that need no *)
(* hash it has the stat of the snapshot.                                   *)
LEMMA ReadCacheIInv ==
  ASSUME IInv, NEW p \in Process, ReadCache(p) PROVE IInv'
<1> USE DEF IInv
<1>1. CASE ~Comparable(p) BY <1>1, MissIInv DEF ReadCache, LookingUp
<1>2. CASE Comparable(p)
  <2>1. /\ phase[p] = "snapshot" /\ phase' = [phase EXCEPT ![p] = "verify"]
        /\ todo' = [todo EXCEPT ![p] = Suspect(p)]
        /\ loaded' = [loaded EXCEPT ![p] = cache]
        /\ UNCHANGED <<disk, cache, key, snapshot, seen, hashed, since>>
    BY <1>2 DEF ReadCache
  <2>2. Suspect(p) \subseteq Path BY DEF Suspect, Listed
  <2>3. TypeOK' BY <2>1, <2>2 DEF TypeOK, disk
  <2>4. \A x, s, c : Asserted(x, s, c)' => Asserted(x, s, c)
    <3> SUFFICES ASSUME NEW x, NEW s, NEW c, NEW q \in Process,
                        (Held(loaded[q], x, s, c) \/ Checked(q, x, s, c))'
                 PROVE  Asserted(x, s, c)
      BY <2>1 DEF Asserted, Held, Listed
    <3>1. CASE q = p
      <4>1. loaded'[q] = cache /\ phase'[q] = "verify" /\ snapshot'[q] = snapshot[p]
            /\ todo'[q] = Suspect(p)
        BY <2>1, <3>1 DEF TypeOK
      <4>2. Held(cache, x, s, c)
        BY <1>2, <4>1 DEF Held, Checked, Suspect, Comparable, Listed
      <4> QED BY <4>2 DEF Asserted
    <3>2. CASE q # p
      BY <2>1, <3>2 DEF TypeOK, Held, Checked, Listed, Asserted
    <3> QED BY <3>1, <3>2
  <2>5. \A q \in Process : LookingUp(q)' =>
          LookingUp(q) /\ snapshot'[q] = snapshot[q] /\ since'[q] = since[q]
    BY <2>1 DEF LookingUp, TypeOK
  <2>6. TrueNow' /\ TrueToScans' /\ PresentIsSeen'
    BY <2>1, <2>3, <2>4, <2>5, NothingNewAsserted
  <2>7. PastTimes' BY <2>1 DEF PastTimes, disk
  <2>8. ReadsFresh' BY <2>1 DEF ReadsFresh, Fresh, Listed, disk, TypeOK
  <2>9. Results' BY <1>2, <2>1 DEF Results, ShowsHashed, Listed, TypeOK, Comparable
  <2>10. IdleHoldsNothing' BY <2>1 DEF IdleHoldsNothing, TypeOK
  <2> QED BY <2>3, <2>6, <2>7, <2>8, <2>9, <2>10
<1> QED BY <1>1, <1>2

(* A path whose content was just verified has what is asserted of it, and  *)
(* every scan under way sees that content.                                 *)
LEMMA VerifyHashIInv ==
  ASSUME IInv, NEW p \in Process, NEW x \in todo[p], VerifyHash(p, x) PROVE IInv'
<1> USE DEF IInv
<1>1. CASE ~(content[x] # Absent /\ content[x] = loaded[p].hash[x])
  BY <1>1, MissIInv DEF VerifyHash, LookingUp
<1>2. CASE content[x] # Absent /\ content[x] = loaded[p].hash[x]
  <2>1. /\ phase[p] = "verify" /\ x \in Path
        /\ todo' = [todo EXCEPT ![p] = @ \ {x}]
        /\ UNCHANGED <<disk, cache, phase, key, snapshot, loaded, seen, hashed, since>>
    BY <1>2 DEF VerifyHash, TypeOK
  <2>2. TypeOK' BY <2>1 DEF TypeOK, disk
  <2>3. \A y, s, c : Asserted(y, s, c)' =>
          Asserted(y, s, c) \/ (y = x /\ s = snapshot[p][x] /\ c = content[x])
    BY <1>2, <2>1 DEF Asserted, Held, Checked, Listed, TypeOK
  <2>4. TrueNow' BY <2>1, <2>3 DEF TrueNow, disk, PastTimes
  <2>5. TrueToScans' BY <2>1, <2>3 DEF TrueToScans, PresentIsSeen, LookingUp, Listed
  <2>6. PresentIsSeen' BY <2>1 DEF PresentIsSeen, LookingUp, disk
  <2>7. PastTimes' BY <2>1 DEF PastTimes, disk
  <2>8. ReadsFresh' BY <2>1 DEF ReadsFresh, Fresh, Listed, disk, TypeOK
  <2>9. Results' BY <2>1 DEF Results, ShowsHashed, Listed, TypeOK
  <2>10. IdleHoldsNothing' BY <2>1 DEF IdleHoldsNothing, TypeOK
  <2> QED BY <2>2, <2>4, <2>5, <2>6, <2>7, <2>8, <2>9, <2>10
<1> QED BY <1>1, <1>2

-----------------------------------------------------------------------------

LEMMA AnalyzeFileIInv ==
  ASSUME IInv, NEW p \in Process, NEW x \in todo[p], AnalyzeFile(p, x) PROVE IInv'
<1> USE DEF IInv
<1>1. /\ phase[p] = "analyze" /\ x \in Path
      /\ seen' = [seen EXCEPT ![p][x] = content[x]]
      /\ todo' = [todo EXCEPT ![p] = @ \ {x}]
      /\ UNCHANGED <<disk, cache, phase, key, snapshot, loaded, hashed, since>>
  BY DEF AnalyzeFile, TypeOK
<1>2. TypeOK' BY <1>1 DEF TypeOK, disk, Contents
<1>3. \A y, s, c : Asserted(y, s, c)' => Asserted(y, s, c)
  BY <1>1 DEF Asserted, Held, Checked, Listed, TypeOK
<1>4. \A q \in Process : LookingUp(q)' =>
        LookingUp(q) /\ snapshot'[q] = snapshot[q] /\ since'[q] = since[q]
  BY <1>1 DEF LookingUp
<1>5. TrueNow' /\ TrueToScans' /\ PresentIsSeen'
  BY <1>1, <1>2, <1>3, <1>4, NothingNewAsserted
<1>6. PastTimes' BY <1>1 DEF PastTimes, disk
<1>7. ReadsFresh' BY <1>1 DEF ReadsFresh, Fresh, Listed, disk, TypeOK, Contents
<1>8. Results' BY <1>1 DEF Results, ShowsHashed, Listed, TypeOK
<1>9. IdleHoldsNothing' BY <1>1 DEF IdleHoldsNothing, TypeOK
<1> QED BY <1>2, <1>5, <1>6, <1>7, <1>8, <1>9

LEMMA CompleteIInv ==
  ASSUME IInv, NEW p \in Process, Complete(p) PROVE IInv'
<1> USE DEF IInv
<1>1. /\ phase[p] = "analyze" /\ todo[p] = {}
      /\ phase' = [phase EXCEPT ![p] = "store"]
      /\ todo' = [todo EXCEPT ![p] = Listed(snapshot[p])]
      /\ UNCHANGED <<disk, cache, key, snapshot, loaded, seen, hashed, since>>
  BY DEF Complete
<1>2. TypeOK' BY <1>1 DEF TypeOK, disk, Listed
<1>3. \A y, s, c : Asserted(y, s, c)' => Asserted(y, s, c)
  BY <1>1 DEF Asserted, Held, Checked, Listed, TypeOK
<1>4. \A q \in Process : LookingUp(q)' =>
        LookingUp(q) /\ snapshot'[q] = snapshot[q] /\ since'[q] = since[q]
  BY <1>1 DEF LookingUp, TypeOK
<1>5. TrueNow' /\ TrueToScans' /\ PresentIsSeen'
  BY <1>1, <1>2, <1>3, <1>4, NothingNewAsserted
<1>6. PastTimes' BY <1>1 DEF PastTimes, disk
<1>7. ReadsFresh'
  BY <1>1 DEF ReadsFresh, Fresh, Listed, disk, TypeOK, IdleHoldsNothing, Nothing
<1>8. Results' BY <1>1 DEF Results, ShowsHashed, Listed, TypeOK
<1>9. IdleHoldsNothing' BY <1>1 DEF IdleHoldsNothing, TypeOK
<1> QED BY <1>2, <1>5, <1>6, <1>7, <1>8, <1>9

LEMMA HashFileIInv ==
  ASSUME IInv, NEW p \in Process, NEW x \in todo[p], HashFile(p, x) PROVE IInv'
<1> USE DEF IInv
<1>1. CASE content[x] = Absent
  BY <1>1, EndIInv DEF HashFile, TypeOK, Results, Asserted
<1>2. CASE content[x] # Absent
  <2>1. /\ phase[p] = "store" /\ x \in Path
        /\ hashed' = [hashed EXCEPT ![p][x] = content[x]]
        /\ UNCHANGED <<disk, cache, phase, key, todo, snapshot, loaded, seen, since>>
    BY <1>2 DEF HashFile, TypeOK
  <2>2. TypeOK' BY <2>1 DEF TypeOK, disk, Contents
  <2>3. \A y, s, c : Asserted(y, s, c)' => Asserted(y, s, c)
    BY <2>1 DEF Asserted, Held, Checked, Listed, TypeOK, Contents
  <2>4. \A q \in Process : LookingUp(q)' =>
          LookingUp(q) /\ snapshot'[q] = snapshot[q] /\ since'[q] = since[q]
    BY <2>1 DEF LookingUp
  <2>5. TrueNow' /\ TrueToScans' /\ PresentIsSeen'
    BY <2>1, <2>2, <2>3, <2>4, NothingNewAsserted
  <2>6. PastTimes' BY <2>1 DEF PastTimes, disk
  <2>7. ReadsFresh' BY <2>1 DEF ReadsFresh, Fresh, Listed, disk, TypeOK, Contents
  <2>8. Results' BY <2>1 DEF Results, ShowsHashed, Listed, TypeOK, Contents
  <2>9. IdleHoldsNothing' BY <2>1 DEF IdleHoldsNothing, TypeOK
  <2> QED BY <2>2, <2>5, <2>6, <2>7, <2>8, <2>9
<1> QED BY <1>1, <1>2

(* The path still has the stat of the snapshot: what was read of it and    *)
(* what was hashed are the same, and there now.                            *)
LEMMA RestatFileIInv ==
  ASSUME IInv, NEW p \in Process, NEW x \in todo[p], RestatFile(p, x)
  PROVE  IInv'
<1> USE DEF IInv
<1>1. CASE ~Unmoved(p, x)
  BY <1>1, EndIInv DEF RestatFile, TypeOK, Results, Asserted
<1>2. CASE Unmoved(p, x)
  <2>1. /\ phase[p] = "store" /\ x \in Path /\ hashed[p][x] # Absent
        /\ todo' = [todo EXCEPT ![p] = @ \ {x}]
        /\ UNCHANGED <<disk, cache, phase, key, snapshot, loaded, seen, hashed, since>>
    BY <1>2 DEF RestatFile, TypeOK
  <2>2. content[x] # Absent /\ mtime[x] = snapshot[p][x].mtime
    BY <1>2, <2>1 DEF Unmoved, StatOf, Listed, Results
  <2>3. content[x] = seen[p][x] /\ content[x] = hashed[p][x]
    BY <2>1, <2>2 DEF ReadsFresh, Fresh, Results
  <2>4. TypeOK' BY <2>1 DEF TypeOK, disk
  <2>5. \A y, s, c : Asserted(y, s, c)' =>
          Asserted(y, s, c) \/ (y = x /\ s = snapshot[p][x] /\ c = content[x])
    BY <2>1, <2>3 DEF Asserted, Held, Checked, Listed, TypeOK
  <2>6. TrueNow' BY <2>1, <2>5 DEF TrueNow, disk, PastTimes
  <2>7. TrueToScans' BY <2>1, <2>5 DEF TrueToScans, PresentIsSeen, LookingUp, Listed
  <2>8. PresentIsSeen' BY <2>1 DEF PresentIsSeen, LookingUp, disk
  <2>9. PastTimes' BY <2>1 DEF PastTimes, disk
  <2>10. ReadsFresh' BY <2>1 DEF ReadsFresh, Fresh, Listed, disk, TypeOK
  <2>11. Results'
    <3> SUFFICES ASSUME NEW q \in Process, phase[q] = "store"
                 PROVE  /\ todo'[q] \subseteq Listed(snapshot[q])
                        /\ \A y \in Listed(snapshot[q]) \ todo'[q] :
                             hashed[q][y] = seen[q][y]
      BY <2>1 DEF Results, ShowsHashed, Listed
    <3>1. CASE q = p BY <2>1, <2>3, <3>1 DEF Results, TypeOK
    <3>2. CASE q # p BY <2>1, <3>2 DEF Results, TypeOK
    <3> QED BY <3>1, <3>2
  <2>12. IdleHoldsNothing' BY <2>1 DEF IdleHoldsNothing, TypeOK
  <2> QED BY <2>4, <2>6, <2>7, <2>8, <2>9, <2>10, <2>11, <2>12
<1> QED BY <1>1, <1>2

LEMMA StutterIInv == IInv /\ UNCHANGED vars => IInv'
<1> SUFFICES ASSUME IInv, UNCHANGED vars PROVE IInv' OBVIOUS
<1> USE DEF IInv, vars, disk
<1>1. TypeOK' BY DEF TypeOK
<1>2. \A x, s, c : Asserted(x, s, c)' => Asserted(x, s, c)
  BY DEF Asserted, Held, Checked, Listed
<1>3. TrueNow' /\ TrueToScans' /\ PresentIsSeen'
  BY <1>1, <1>2, NothingNewAsserted DEF LookingUp
<1>4. PastTimes' /\ ReadsFresh' /\ Results' /\ IdleHoldsNothing'
  BY DEF PastTimes, ReadsFresh, Fresh, Listed, Results, ShowsHashed, IdleHoldsNothing
<1> QED BY <1>1, <1>3, <1>4

LEMMA NextIInv == IInv /\ [Next]_vars => IInv'
<1> SUFFICES ASSUME IInv, [Next]_vars PROVE IInv' OBVIOUS
<1>1. CASE \E x \in Path, c \in Content \union {Absent} : Write(x, c)
  BY <1>1, WriteIInv
<1>2. ASSUME NEW p \in Process, NEW k \in Key, Begin(p, k) PROVE IInv'
  BY <1>2, BeginIInv
<1>3. ASSUME NEW p \in Process, NEW x \in todo[p], Visits(p, x) PROVE IInv'
  BY <1>3, StatFileIInv, VerifyHashIInv, AnalyzeFileIInv, HashFileIInv, RestatFileIInv
     DEF Visits
<1>4. ASSUME NEW p \in Process, ReadCache(p) \/ Hit(p) PROVE IInv'
  BY <1>4, ReadCacheIInv, HitIInv
<1>5. ASSUME NEW p \in Process, Complete(p) \/ Store(p) \/ Fail(p) PROVE IInv'
  BY <1>5, CompleteIInv, StoreIInv, FailIInv
<1>6. CASE UNCHANGED vars BY <1>6, StutterIInv
<1> QED BY <1>1, <1>2, <1>3, <1>4, <1>5, <1>6 DEF Next

LEMMA SpecIInv == Spec => []IInv
BY InitIInv, NextIInv, PTL DEF Spec

(* Every variable keeps its type.                                          *)
THEOREM TypeCorrect == Spec => []TypeOK
<1>1. IInv => TypeOK BY DEF IInv
<1> QED BY <1>1, SpecIInv, PTL

(* A verified path is asserted to have the hashed content under the stat   *)
(* the scan took, so the scan saw that content; the entry shows it.        *)
THEOREM HitsShowTheTree == Spec => []ListedHitIsRight
<1>1. IInv => ListedHitIsRight
  <2> SUFFICES ASSUME IInv, NEW p \in Process, Verified(p)
               PROVE  /\ loaded[p].key = key[p]
                      /\ \A x \in Listed(snapshot[p]) : loaded[p].result[x] \in since[p][x]
    BY DEF ListedHitIsRight
  <2>1. phase[p] = "verify" /\ todo[p] = {} BY DEF Verified
  <2>2. /\ loaded[p].key = key[p]
        /\ Listed(loaded[p].stat) = Listed(snapshot[p])
        /\ ShowsHashed(loaded[p])
    BY <2>1 DEF IInv, Results
  <2>3. ASSUME NEW x \in Listed(snapshot[p]) PROVE loaded[p].result[x] \in since[p][x]
    <3>1. x \in Path /\ loaded[p].hash[x] \in Content \union {Absent}
      BY DEF IInv, TypeOK, Entry, Contents, Listed
    <3>2. Asserted(x, snapshot[p][x], loaded[p].hash[x])
      BY <2>1 DEF Asserted, Checked
    <3>3. loaded[p].hash[x] \in since[p][x]
      BY <2>1, <3>1, <3>2 DEF IInv, TrueToScans, LookingUp
    <3> QED BY <2>2, <3>3 DEF ShowsHashed
  <2> QED BY <2>2, <2>3
<1> QED BY <1>1, SpecIInv, PTL

-----------------------------------------------------------------------------
(* A miss in a tree that stands still.  A stat tells whether there is a     *)
(* file and what size it has: that of what was hashed, in an entry; that of *)
(* a content the scan saw, in its snapshot.                                 *)

Matches(stat, c) == IF c = Absent THEN stat = NoStat
                    ELSE stat # NoStat /\ stat.size = Size[c]

Fits(entry) == \A x \in Path : Matches(entry.stat[x], entry.hash[x])

EntriesFit == Fits(cache) /\ \A p \in Process : Fits(loaded[p])

Compared ==
  \A p \in Process : phase[p] = "verify" =>
    /\ todo[p] \subseteq Listed(loaded[p].stat)
    /\ \A x \in Path : snapshot[p][x].size = loaded[p].stat[x].size

SnapshotSeen ==
  \A p \in Process, x \in Path :
    phase[p] = "verify" \/ (phase[p] = "snapshot" /\ x \notin todo[p])
      => \E c \in since[p][x] : Matches(snapshot[p][x], c)

HashedFit ==
  \A p \in Process, x \in Path : phase[p] = "store" =>
    /\ hashed[p][x] # Absent => x \in Listed(snapshot[p])
    /\ x \notin todo[p] => Matches(snapshot[p][x], hashed[p][x])

MInv == IInv /\ EntriesFit /\ Compared /\ SnapshotSeen /\ HashedFit

LEMMA StatMatches ==
  ASSUME TypeOK, NEW x \in Path
  PROVE  Matches(StatOf(x), content[x])
BY ContentAssumption, SizeAssumption DEF Matches, StatOf, NoStat, TypeOK, Contents

LEMMA EmptyFits == Fits(NoEntry)
BY DEF Fits, Matches, NoEntry, Unstatted, Nothing

LEMMA InitMInv == Init => MInv
<1> SUFFICES ASSUME Init PROVE MInv OBVIOUS
<1>1. IInv BY InitIInv
<1> QED BY <1>1, EmptyFits
        DEF Init, MInv, EntriesFit, Compared, SnapshotSeen, HashedFit

(* A scan that ends holds nothing any more.                                *)
LEMMA EndMInv ==
  ASSUME MInv, NEW p \in Process, End(p), UNCHANGED disk, Fits(cache')
  PROVE  EntriesFit' /\ Compared' /\ SnapshotSeen' /\ HashedFit'
<1> USE DEF MInv, IInv
<1>1. /\ phase' = [phase EXCEPT ![p] = "idle"] /\ todo' = [todo EXCEPT ![p] = {}]
      /\ snapshot' = [snapshot EXCEPT ![p] = Unstatted]
      /\ loaded' = [loaded EXCEPT ![p] = NoEntry]
      /\ hashed' = [hashed EXCEPT ![p] = Nothing] /\ since' = [since EXCEPT ![p] = Never]
  BY DEF End
<1>2. EntriesFit'
  BY <1>1, EmptyFits DEF EntriesFit, Fits, TypeOK
<1>3. ASSUME NEW q \in Process, q # p
      PROVE  /\ phase'[q] = phase[q] /\ todo'[q] = todo[q] /\ snapshot'[q] = snapshot[q]
             /\ loaded'[q] = loaded[q] /\ hashed'[q] = hashed[q] /\ since'[q] = since[q]
  BY <1>1, <1>3 DEF TypeOK
<1>4. phase'[p] = "idle"
  BY <1>1 DEF TypeOK
<1> QED BY <1>2, <1>3, <1>4 DEF Compared, SnapshotSeen, HashedFit, Listed

LEMMA MissMInv ==
  ASSUME MInv, NEW p \in Process, Miss(p), UNCHANGED <<disk, cache, key, snapshot, seen, hashed>>
  PROVE  EntriesFit' /\ Compared' /\ SnapshotSeen' /\ HashedFit'
<1> USE DEF MInv, IInv
<1>1. /\ phase' = [phase EXCEPT ![p] = "analyze"] /\ todo' = [todo EXCEPT ![p] = Path]
      /\ loaded' = [loaded EXCEPT ![p] = NoEntry] /\ since' = [since EXCEPT ![p] = Never]
  BY DEF Miss
<1>2. EntriesFit'
  BY <1>1, EmptyFits DEF EntriesFit, Fits, TypeOK
<1>3. ASSUME NEW q \in Process, q # p
      PROVE  /\ phase'[q] = phase[q] /\ todo'[q] = todo[q]
             /\ loaded'[q] = loaded[q] /\ since'[q] = since[q]
  BY <1>1, <1>3 DEF TypeOK
<1>4. phase'[p] = "analyze"
  BY <1>1 DEF TypeOK
<1> QED BY <1>2, <1>3, <1>4 DEF Compared, SnapshotSeen, HashedFit, Listed

LEMMA NextMInv ==
  ASSUME MInv, [Next]_vars
  PROVE  MInv'
<1> USE DEF MInv, IInv
<1> DEFINE New == EntriesFit' /\ Compared' /\ SnapshotSeen' /\ HashedFit'
<1>1. ASSUME UNCHANGED vars
      PROVE  New
  BY <1>1 DEF vars, disk, EntriesFit, Fits, Compared, SnapshotSeen, HashedFit, Listed, Matches
<1>2. ASSUME NEW x \in Path, NEW c \in Content \union {Absent}, Write(x, c)
      PROVE  New
  <2>1. UNCHANGED <<cache, phase, key, todo, snapshot, loaded, seen, hashed>>
    BY <1>2 DEF Write
  <2>2. \A q \in Process, y \in Path : since[q][y] \subseteq since'[q][y]
    BY <1>2 DEF Write, TypeOK
  <2>3. SnapshotSeen'
    <3> SUFFICES ASSUME NEW q \in Process, NEW y \in Path,
                        phase[q] = "verify" \/ (phase[q] = "snapshot" /\ y \notin todo[q])
                 PROVE  \E d \in since'[q][y] : Matches(snapshot[q][y], d)
      BY <2>1 DEF SnapshotSeen, Matches
    <3> QED BY <2>2 DEF SnapshotSeen
  <2>4. EntriesFit' /\ HashedFit'
    BY <2>1 DEF EntriesFit, Fits, HashedFit, Listed, Matches
  <2>5. Compared'
    BY <2>1 DEF Compared, Listed
  <2> QED BY <2>3, <2>4, <2>5
<1>3. ASSUME NEW p \in Process, NEW k \in Key, Begin(p, k)
      PROVE  New
  <2>1. UNCHANGED <<disk, cache, snapshot, loaded, seen, hashed>>
    BY <1>3 DEF Begin
  <2>2. phase'[p] = "snapshot" /\ todo'[p] = Path
    BY <1>3 DEF Begin, TypeOK
  <2>3. \A q \in Process \ {p} :
          phase'[q] = phase[q] /\ todo'[q] = todo[q] /\ since'[q] = since[q]
    BY <1>3 DEF Begin, TypeOK
  <2>4. EntriesFit' /\ Compared' /\ HashedFit'
    BY <2>1, <2>2, <2>3 DEF EntriesFit, Fits, Compared, HashedFit, Listed, Matches
  <2>5. SnapshotSeen'
    BY <2>1, <2>2, <2>3 DEF SnapshotSeen, Matches
  <2> QED BY <2>4, <2>5
<1>4. ASSUME NEW p \in Process, NEW x \in todo[p], StatFile(p, x)
      PROVE  New
  <2>1. /\ phase[p] = "snapshot" /\ x \in Path
        /\ snapshot' = [snapshot EXCEPT ![p][x] = StatOf(x)]
        /\ todo' = [todo EXCEPT ![p] = @ \ {x}]
        /\ UNCHANGED <<disk, cache, phase, key, loaded, seen, hashed, since>>
    BY <1>4 DEF StatFile, TypeOK
  <2>2. content[x] \in since[p][x] /\ Matches(StatOf(x), content[x])
    BY <2>1, StatMatches DEF PresentIsSeen, LookingUp
  <2>3. SnapshotSeen'
    <3> SUFFICES ASSUME NEW q \in Process, NEW y \in Path,
                        phase[q] = "verify" \/ (phase[q] = "snapshot" /\ y \notin todo'[q])
                 PROVE  \E c \in since[q][y] : Matches(snapshot'[q][y], c)
      BY <2>1 DEF SnapshotSeen, Matches
    <3>1. CASE q = p /\ y = x
      BY <2>1, <2>2, <3>1 DEF TypeOK
    <3>2. CASE ~(q = p /\ y = x)
      BY <2>1, <3>2 DEF TypeOK, SnapshotSeen
    <3> QED BY <3>1, <3>2
  <2>4. \A q \in Process : q # p => snapshot'[q] = snapshot[q] /\ todo'[q] = todo[q]
    BY <2>1 DEF TypeOK
  <2> QED BY <2>1, <2>3, <2>4 DEF EntriesFit, Fits, Compared, HashedFit, Listed
<1>5. ASSUME NEW p \in Process, ReadCache(p)
      PROVE  New
  <2>1. CASE ~Comparable(p)
    BY <1>5, <2>1, MissMInv DEF ReadCache
  <2>2. CASE Comparable(p)
    <3>1. /\ phase[p] = "snapshot" /\ todo[p] = {}
          /\ phase' = [phase EXCEPT ![p] = "verify"]
          /\ todo' = [todo EXCEPT ![p] = Suspect(p)]
          /\ loaded' = [loaded EXCEPT ![p] = cache]
          /\ UNCHANGED <<disk, cache, key, snapshot, seen, hashed, since>>
      BY <1>5, <2>2 DEF ReadCache
    <3>2. EntriesFit'
      BY <3>1 DEF EntriesFit, Fits, TypeOK
    <3>3. \A x \in Path : snapshot[p][x].size = cache.stat[x].size
      BY <2>2 DEF Comparable, Listed
    <3>4. Compared'
      BY <3>1, <3>3 DEF Compared, TypeOK, Suspect, Listed
    <3>5. SnapshotSeen' /\ HashedFit'
      BY <3>1 DEF SnapshotSeen, HashedFit, TypeOK, Listed
    <3> QED BY <3>2, <3>4, <3>5
  <2> QED BY <2>1, <2>2
<1>6. ASSUME NEW p \in Process, NEW x \in todo[p], VerifyHash(p, x)
      PROVE  New
  <2>1. CASE content[x] # Absent /\ content[x] = loaded[p].hash[x]
    <3>1. /\ phase[p] = "verify" /\ todo' = [todo EXCEPT ![p] = @ \ {x}]
          /\ UNCHANGED <<disk, cache, phase, key, snapshot, loaded, seen, hashed, since>>
      BY <1>6, <2>1 DEF VerifyHash
    <3> QED BY <3>1 DEF EntriesFit, Fits, Compared, SnapshotSeen, HashedFit, TypeOK, Listed
  <2>2. CASE ~(content[x] # Absent /\ content[x] = loaded[p].hash[x])
    BY <1>6, <2>2, MissMInv DEF VerifyHash
  <2> QED BY <2>1, <2>2
<1>7. ASSUME NEW p \in Process, Hit(p)
      PROVE  New
  <2>1. /\ phase[p] = "verify" /\ End(p) /\ UNCHANGED disk
        /\ cache' = cache \/ cache' = [loaded[p] EXCEPT !.stat = snapshot[p]]
    BY <1>7 DEF Hit, Verified
  <2>2. ASSUME cache' = [loaded[p] EXCEPT !.stat = snapshot[p]]
        PROVE  Fits(cache')
    <3>1. cache'.stat = snapshot[p] /\ cache'.hash = loaded[p].hash
      BY <2>2 DEF TypeOK, Entry
    <3>2. \A x \in Path : snapshot[p][x] # NoStat <=> loaded[p].stat[x] # NoStat
      BY <2>1 DEF Results, Listed
    <3>3. \A x \in Path : snapshot[p][x].size = loaded[p].stat[x].size
      BY <2>1 DEF Compared
    <3> QED BY <3>1, <3>2, <3>3 DEF EntriesFit, Fits, Matches
  <2> QED BY <2>1, <2>2, EndMInv DEF EntriesFit
<1>8. ASSUME NEW p \in Process, NEW x \in todo[p], AnalyzeFile(p, x)
      PROVE  New
  <2>1. /\ phase[p] = "analyze" /\ todo' = [todo EXCEPT ![p] = @ \ {x}]
        /\ UNCHANGED <<disk, cache, phase, key, snapshot, loaded, hashed, since>>
    BY <1>8 DEF AnalyzeFile
  <2> QED BY <2>1 DEF EntriesFit, Fits, Compared, SnapshotSeen, HashedFit, TypeOK, Listed
<1>9. ASSUME NEW p \in Process, Complete(p)
      PROVE  New
  <2>1. /\ phase[p] = "analyze" /\ phase' = [phase EXCEPT ![p] = "store"]
        /\ todo' = [todo EXCEPT ![p] = Listed(snapshot[p])]
        /\ UNCHANGED <<disk, cache, key, snapshot, loaded, seen, hashed, since>>
    BY <1>9 DEF Complete
  <2>2. hashed[p] = Nothing
    BY <2>1 DEF IdleHoldsNothing
  <2>3. HashedFit'
    BY <2>1, <2>2 DEF HashedFit, TypeOK, Listed, Nothing, Matches
  <2> QED BY <2>1, <2>3 DEF EntriesFit, Fits, Compared, SnapshotSeen, TypeOK, Listed
<1>10. ASSUME NEW p \in Process, NEW x \in todo[p], HashFile(p, x)
       PROVE  New
  <2>1. CASE content[x] = Absent
    BY <1>10, <2>1, EndMInv DEF HashFile, EntriesFit
  <2>2. CASE content[x] # Absent
    <3>1. /\ phase[p] = "store" /\ x \in Listed(snapshot[p])
          /\ hashed' = [hashed EXCEPT ![p][x] = content[x]]
          /\ UNCHANGED <<disk, cache, phase, key, todo, snapshot, loaded, seen, since>>
      BY <1>10, <2>2 DEF HashFile, Results
    <3>2. HashedFit'
      BY <3>1 DEF HashedFit, TypeOK, Listed
    <3> QED BY <3>1, <3>2 DEF EntriesFit, Fits, Compared, SnapshotSeen, Listed
  <2> QED BY <2>1, <2>2
<1>11. ASSUME NEW p \in Process, NEW x \in todo[p], RestatFile(p, x)
       PROVE  New
  <2>1. CASE ~Unmoved(p, x)
    BY <1>11, <2>1, EndMInv DEF RestatFile, EntriesFit
  <2>2. CASE Unmoved(p, x)
    <3>1. /\ phase[p] = "store" /\ x \in Listed(snapshot[p]) /\ hashed[p][x] # Absent
          /\ todo' = [todo EXCEPT ![p] = @ \ {x}]
          /\ UNCHANGED <<disk, cache, phase, key, snapshot, loaded, seen, hashed, since>>
      BY <1>11, <2>2 DEF RestatFile, Results
    <3>2. StatOf(x) = snapshot[p][x] /\ x \in Path /\ snapshot[p][x] # NoStat
      BY <2>2, <3>1 DEF Unmoved, Listed
    <3>3. content[x] # Absent /\ mtime[x] = snapshot[p][x].mtime
      BY <3>2 DEF StatOf
    <3>4. content[x] = hashed[p][x]
      BY <3>1, <3>2, <3>3 DEF ReadsFresh, Fresh
    <3>5. Matches(snapshot[p][x], hashed[p][x])
      BY <3>2, <3>4, StatMatches
    <3>6. HashedFit'
      BY <3>1, <3>5 DEF HashedFit, TypeOK, Listed, Matches
    <3> QED BY <3>1, <3>6 DEF EntriesFit, Fits, Compared, SnapshotSeen, TypeOK, Listed
  <2> QED BY <2>1, <2>2
<1>12. ASSUME NEW p \in Process, Store(p)
       PROVE  New
  <2>1. /\ phase[p] = "store" /\ todo[p] = {} /\ End(p) /\ UNCHANGED disk
        /\ \/ cache' = [key |-> key[p], stat |-> snapshot[p], hash |-> hashed[p],
                        result |-> seen[p]]
           \/ cache' = cache
    BY <1>12 DEF Store
  <2>2. Fits(cache')
    BY <2>1 DEF EntriesFit, Fits, HashedFit
  <2> QED BY <2>1, <2>2, EndMInv
<1>13. ASSUME NEW p \in Process, Fail(p)
       PROVE  New
  BY <1>13, EndMInv DEF Fail, EntriesFit
<1>14. IInv' BY NextIInv
<1> QED BY <1>1, <1>2, <1>3, <1>4, <1>5, <1>6, <1>7, <1>8, <1>9, <1>10, <1>11, <1>12, <1>13,
           <1>14 DEF Next, Visits

(* In a tree that stands still, an entry of the key and the contents is a  *)
(* hit: touched files, repairs and other scans do not bring a miss.        *)
THEOREM NoNeedlessMiss == Spec => MissIsNeeded
<1> DEFINE Needed == \A p \in Process :
             /\ LookingUp(p) /\ phase'[p] = "analyze"
             /\ \A x \in Path : since[p][x] = {content[x]}
             => LET entry == IF phase[p] = "snapshot" THEN cache ELSE loaded[p]
                IN \/ entry.key # key[p]
                   \/ \E x \in Path : entry.hash[x] # content[x]
<1>1. MInv /\ [Next]_vars => [Needed]_vars
  <2> SUFFICES ASSUME MInv, [Next]_vars, vars' # vars,
                      NEW p \in Process, LookingUp(p), phase'[p] = "analyze",
                      \A x \in Path : since[p][x] = {content[x]}
               PROVE  LET entry == IF phase[p] = "snapshot" THEN cache ELSE loaded[p]
                      IN \/ entry.key # key[p]
                         \/ \E x \in Path : entry.hash[x] # content[x]
    OBVIOUS
  <2> USE DEF MInv, IInv
  <2>1. \/ ReadCache(p) /\ ~Comparable(p)
        \/ \E x \in todo[p] : VerifyHash(p, x) /\ ~(content[x] # Absent
                                                   /\ content[x] = loaded[p].hash[x])
    <3>1. phase[p] # "analyze" /\ phase'[p] # phase[p] /\ p \in Process
      BY DEF LookingUp
    <3>2. ASSUME NEW q \in Process, End(q) PROVE FALSE
      BY <3>1, <3>2 DEF End, TypeOK
    <3>3. ASSUME NEW q \in Process, NEW x \in todo[q], Visits(q, x)
          PROVE  q = p /\ VerifyHash(p, x) /\ ~(content[x] # Absent
                                              /\ content[x] = loaded[p].hash[x])
      <4>1. ~(StatFile(q, x) \/ AnalyzeFile(q, x))
        BY <3>1 DEF StatFile, AnalyzeFile
      <4>2. ~(HashFile(q, x) \/ RestatFile(q, x))
        BY <3>1, <3>2 DEF HashFile, RestatFile
      <4>3. VerifyHash(q, x) /\ ~(content[x] # Absent /\ content[x] = loaded[q].hash[x])
        BY <3>1, <3>3, <4>1, <4>2 DEF Visits, VerifyHash
      <4>4. q = p
        BY <3>1, <4>3 DEF VerifyHash, Miss, TypeOK
      <4> QED BY <4>3, <4>4
    <3>4. ASSUME NEW q \in Process, ReadCache(q)
          PROVE  q = p /\ ~Comparable(p)
      BY <3>1, <3>4 DEF ReadCache, Miss, TypeOK
    <3>5. ASSUME NEW q \in Process, NEW k \in Key, Begin(q, k) PROVE FALSE
      BY <3>1, <3>5 DEF Begin, TypeOK
    <3>6. ASSUME NEW q \in Process, Complete(q) PROVE FALSE
      BY <3>1, <3>6 DEF Complete, TypeOK
    <3>7. ASSUME NEW q \in Process, Hit(q) \/ Store(q) \/ Fail(q) PROVE FALSE
      BY <3>2, <3>7 DEF Hit, Store, Fail
    <3>8. ASSUME NEW x \in Path, NEW c \in Content \union {Absent}, Write(x, c) PROVE FALSE
      BY <3>1, <3>8 DEF Write
    <3>9. Next
      BY DEF vars
    <3> QED BY <3>3, <3>4, <3>5, <3>6, <3>7, <3>8, <3>9 DEF Next
  <2>2. CASE ReadCache(p) /\ ~Comparable(p)
    <3> SUFFICES ASSUME cache.key = key[p], \A x \in Path : cache.hash[x] = content[x]
                 PROVE  FALSE
      BY <2>2 DEF ReadCache
    <3>1. \A x \in Path : Matches(snapshot[p][x], content[x])
      BY <2>2 DEF ReadCache, SnapshotSeen
    <3>2. \A x \in Path : Matches(cache.stat[x], content[x])
      BY DEF EntriesFit, Fits
    <3> QED BY <2>2, <3>1, <3>2 DEF Comparable, Listed, Matches
  <2>3. ASSUME NEW x \in todo[p], VerifyHash(p, x),
               ~(content[x] # Absent /\ content[x] = loaded[p].hash[x])
        PROVE  \E y \in Path : loaded[p].hash[y] # content[y]
    <3>1. phase[p] = "verify" /\ x \in Path /\ loaded[p].stat[x] # NoStat
      BY <2>3 DEF VerifyHash, Compared, Listed
    <3>2. loaded[p].hash[x] # Absent
      BY <3>1 DEF EntriesFit, Fits, Matches
    <3> QED BY <2>3, <3>1, <3>2
  <2>4. \A x : VerifyHash(p, x) => phase[p] # "snapshot"
    BY DEF VerifyHash
  <2> QED BY <2>1, <2>2, <2>3, <2>4
<1> QED BY InitMInv, NextMInv, <1>1, PTL DEF Spec, MissIsNeeded
=============================================================================
