--------------------------- MODULE FileRunProofs ---------------------------
(***************************************************************************)
(* Proofs about FileRun, for any runs, files, paths, settings and number   *)
(* of edits.  The inductive invariant is built in layers: what a run keeps *)
(* in memory (the results are those of the targets still to deliver), what *)
(* is on disk (which name may refer to which inode, and how far the inode  *)
(* of an open temporary has got), and on top of these one layer for each   *)
(* of the properties.                                                      *)
(***************************************************************************)
EXTENDS FileRun, SequenceTheorems, TLAPS

Holding == {"chmod", "write", "sync", "rename"}     \* its temporary is open
Named == {"create", "cleanup"} \cup Holding         \* its temporary has a name
Replacing == {"resolve"} \cup Named                 \* in atomic_replace
Delivering == {"deliver"} \cup Replacing
Before == {"idle", "read", "format"}                \* nothing delivered yet

TypeOK ==
    /\ setting \in Settings
    /\ inode \in [Inodes -> Inode]
    /\ entry \in [Names -> Inodes \cup {None}]
    /\ edits \in Versions
    /\ pc \in [Runs -> Idle \cup Steps]
    /\ position \in [Runs -> Nat \ {0}]
    /\ sources \in [Runs -> [Paths -> Text \cup {None}]]
    /\ formatted \in [Runs -> Seq(Text \cup {None})]
    /\ number \in [Runs -> Nat]
    /\ changed \in [Runs -> Seq(Paths)]
    /\ replaced \in [Runs -> SUBSET Paths]
    /\ printed \in [Runs -> Seq(Paths)]
    /\ stray \in SUBSET Temps
    /\ open \in [Runs -> BOOLEAN]
    /\ status \in [Runs -> Statuses]

\* Where a run is, and the number of temporaries it has named by then.
ControlOf(p) ==
    /\ position[p] <= Len(Targets[p]) + 1
    /\ pc[p] \in Replacing =>
          More(p) /\ FreeForm(p, Path(p)) /\ ResultOf(sources[p][Path(p)]) # None
    /\ pc[p] = "list" => ~More(p)
    /\ pc[p] = "idle" => position[p] = 1
    /\ pc[p] \in Before => number[p] = 0
    /\ pc[p] \in {"deliver", "resolve"} => number[p] < position[p]
    /\ pc[p] \in Named => number[p] \in 1..position[p]
    /\ status[p] # "none" => pc[p] = "done"
Control == \A p \in Runs : ControlOf(p)

\* Two live processes have different numbers.
Live == \A p, q \in Runs :
    p # q /\ pc[p] \notin Idle /\ pc[q] \notin Idle => Pid[p] # Pid[q]

\* The sequence s holds the results of the targets at the positions I of t
\* that have one, in order.
Has(source, q) == source[q] # None /\ Resolve[q] \notin Fixed
Results(s, t, source, I) ==
    \E g \in [1..Len(s) -> I] :
        /\ \A j, k \in 1..Len(s) : j < k => g[j] < g[k]
        /\ \A i \in I : Has(source, t[i]) => \E j \in 1..Len(s) : g[j] = i
        /\ \A j \in 1..Len(s) :
              Has(source, t[g[j]]) /\ s[j] = ResultOf(source[t[g[j]]])

\* The results kept are those of the targets formatted so far, then those of
\* the targets not delivered yet.
PendingOf(p) ==
    /\ pc[p] \in {"idle", "read"} => formatted[p] = <<>>
    /\ pc[p] = "format" =>
          Results(formatted[p], Targets[p], sources[p], 1..position[p] - 1)
    /\ pc[p] \in Delivering =>
          Results(formatted[p], Targets[p], sources[p], position[p]..Len(Targets[p]))
Pending == \A p \in Runs : PendingOf(p)

MemoryInv == TypeOK /\ Control /\ Live /\ Pending

\* What is read of a path is a whole text its file had, and so is what a
\* file holds.
Genuine(text, f) == text.of = f /\ text.whole /\ text.version <= edits
SourcesGenuine == \A p \in Runs, q \in Paths :
    sources[p][q] # None => Genuine(sources[p][q], Resolve[q])
FilesGenuine == \A f \in Files : Present(f) =>
    Genuine(Held(f).text, f) /\ Held(f).mode = "original" /\ Held(f).synced

\* No inode has two names, and none of a temporary not opened yet has one.
OneName == \A m, n \in Names : entry[m] # None /\ entry[m] = entry[n] => m = n
Unopened(p) ==
    IF pc[p] \in Before THEN DOMAIN Targets[p]
    ELSE {k \in DOMAIN Targets[p] :
             \/ k > position[p]
             \/ k = position[p] /\ pc[p] \in {"deliver", "resolve", "create"}}
NotYetNamed == \A p \in Runs : \A k \in Unopened(p), n \in Names :
    entry[n] # <<p, Targets[p][k]>>

\* How far the temporary of a run has got.
OwnTempOf(p) ==
    pc[p] \in Holding =>
        /\ entry[Temp(p)] = Own(p)
        /\ pc[p] \in {"write", "sync", "rename"} => inode[Own(p)].mode = "original"
        /\ pc[p] \in {"sync", "rename"} =>
              inode[Own(p)].text = Output(sources[p][Path(p)])
        /\ pc[p] = "rename" => inode[Own(p)].synced
OwnTemp == \A p \in Runs : OwnTempOf(p)

DiskInv == SourcesGenuine /\ FilesGenuine /\ OneName /\ NotYetNamed /\ OwnTemp

\* Whose a temporary may be that has a name.
OwnedBy(p, t) == pc[p] \in Holding \cup {"cleanup"} /\ t = Temp(p)
StrayInv ==
    (\A p \in Runs : pc[p] # "killed") =>
        \A t \in Temps : entry[t] # None => t \in stray \/ \E p \in Runs : OwnedBy(p, t)

\* Without edits, failing calls and kills a temporary is its maker's alone.
Undisturbed == edits = 0 /\ "Io" \notin Faults /\ \A p \in Runs : pc[p] # "killed"
DisturbInv ==
    Undisturbed =>
        /\ \A f \in Files : Present(f)
        /\ \A p \in Runs : pc[p] # "cleanup" /\ status[p] # "io"
        /\ \A t \in Temps : entry[t] # None =>
              \E p \in Runs : pc[p] \in Holding /\ t = Temp(p)

\* While nobody edits, a file once formatted stays so, every path was loaded,
\* and what an in-place run has passed is formatted.
Finished == {f \in Files : Held(f).text.formatted}
Passed(p) ==
    IF status[p] = "ok" THEN DOMAIN Targets[p]
    ELSE IF pc[p] \in Delivering \cup {"list"} THEN 1..position[p] - 1
    ELSE {}
LoadedTo(p) ==
    IF pc[p] = "read" THEN 1..position[p] - 1
    ELSE IF pc[p] \in {"format", "list"} \cup Delivering THEN DOMAIN Targets[p]
    ELSE {}
SuccessOf(p) ==
    /\ \A q \in Paths :
          sources[p][q] # None /\ sources[p][q].formatted => Resolve[q] \in Finished
    /\ \A k \in LoadedTo(p) : sources[p][Targets[p][k]] # None
    /\ Delivery[p] = "InPlace" =>
          \A k \in Passed(p) :
              Resolve[Targets[p][k]] \notin Fixed => Resolve[Targets[p][k]] \in Finished
SuccessInv ==
    edits = 0 => (\A f \in Files : Present(f)) /\ (\A p \in Runs : SuccessOf(p))

\* What a run has found changed, replaced and listed.
DifferingTo(p, n) == {Targets[p][k] : k \in {l \in 1..n : Differs(p, Targets[p][l])}}
Examined(p) == IF pc[p] \in Replacing THEN position[p] ELSE position[p] - 1
ReportOf(p) ==
    /\ pc[p] \in Before => changed[p] = <<>> /\ replaced[p] = {}
    /\ pc[p] \in Delivering \cup {"list"} =>
          /\ Lists(changed[p], p, DifferingTo(p, Examined(p)))
          /\ replaced[p] = IF Delivery[p] = "InPlace" THEN DifferingTo(p, position[p] - 1)
                           ELSE {}
    /\ pc[p] \in Replacing => Delivery[p] = "InPlace"
    /\ printed[p] # <<>> => pc[p] = "done"
    /\ Truthful(p)
ReportInv == \A p \in Runs : ReportOf(p)

-----------------------------------------------------------------------------
(* What the assumption gives about the runs of a behaviour and the names   *)
(* of their temporaries.                                                   *)

LEMMA SettingFacts ==
    ASSUME setting \in Settings
    PROVE  /\ Targets \in [Runs -> Seq(Paths)]
           /\ \A p \in Runs : IsInjective(Targets[p])
           /\ Delivery \in [Runs -> {"InPlace", "Check", "Diff"}]
  BY FileRunAssumption DEF Targets, Delivery

\* The path a run is at.
LEMMA PathFacts ==
    ASSUME TypeOK, Control, NEW p \in Runs, More(p)
    PROVE  /\ position[p] \in DOMAIN Targets[p]
           /\ Path(p) \in Paths /\ Resolve[Path(p)] \in Files
           /\ Own(p) \in Inodes /\ Own(p) \notin Files /\ Own(p) # None
<1>1. Targets[p] \in Seq(Paths) /\ position[p] \in 1..Len(Targets[p])
  BY SettingFacts DEF TypeOK, More
<1>2. Path(p) \in Paths
  BY <1>1 DEF Path
<1>3. Resolve[Path(p)] \in Files
  BY <1>2, FileRunAssumption
<1>4. Own(p) \in Runs \X Paths
  BY <1>2 DEF Own
<1> QED
  BY <1>1, <1>2, <1>3, <1>4, FileRunAssumption DEF Inodes

\* The name of its temporary: no target's, and no other live run's.
LEMMA TempFacts ==
    ASSUME TypeOK, Control, NEW p \in Runs, pc[p] \in Named
    PROVE  /\ More(p) /\ Temp(p) \in Temps /\ Temp(p) \in Names /\ Temp(p) \notin Files
           /\ Live => \A q \in Runs : q # p /\ pc[q] \in Named => Temp(q) # Temp(p)
<1>1. More(p) /\ number[p] \in 1..position[p]
  BY DEF Control, ControlOf, Named, Holding, Replacing
<1>2. Resolve[Path(p)] \in Files
  BY <1>1, PathFacts
<1>3. number[p] - 1 \in 0..Len(Targets[p]) - 1
  BY <1>1, SettingFacts DEF TypeOK, More
<1>4. Temp(p) \in Temps
  BY <1>2, <1>3 DEF Temp, Temps
<1>5. Temp(p) \notin Files
  BY <1>2, <1>3, FileRunAssumption DEF Temp, TypeOK, Targets, Pid
<1>6. ASSUME Live, NEW q \in Runs, q # p, pc[q] \in Named
      PROVE  Temp(q) # Temp(p)
  <2>1. Pid[q] # Pid[p]
    BY <1>6 DEF Live, Named, Holding, Idle
  <2> QED
    BY <2>1 DEF Temp
<1> QED
  BY <1>1, <1>4, <1>5, <1>6 DEF Names

LEMMA TempsAreNotFiles ==
    ASSUME setting \in Settings
    PROVE  Temps \cap Files = {}
  BY FileRunAssumption DEF Temps, Targets, Pid

-----------------------------------------------------------------------------
(* Results: the sequence of results against the targets.                   *)

\* A target without a result is passed over, one with a result appends it.
LEMMA ResultsExtend ==
    ASSUME NEW S, NEW T, NEW s \in Seq(S), NEW t \in Seq(T), NEW source,
           NEW k \in 1..Len(t), Results(s, t, source, 1..k - 1),
           Has(source, t[k]) => ResultOf(source[t[k]]) \in S
    PROVE  /\ ~Has(source, t[k]) => Results(s, t, source, 1..k)
           /\ Has(source, t[k]) =>
                 Results(Append(s, ResultOf(source[t[k]])), t, source, 1..k)
<1>1. PICK g \in [1..Len(s) -> 1..k - 1] :
        /\ \A j, l \in 1..Len(s) : j < l => g[j] < g[l]
        /\ \A i \in 1..k - 1 : Has(source, t[i]) => \E j \in 1..Len(s) : g[j] = i
        /\ \A j \in 1..Len(s) :
              Has(source, t[g[j]]) /\ s[j] = ResultOf(source[t[g[j]]])
  BY DEF Results
<1>2. \A i \in 1..k : i # k => i \in 1..k - 1
  OBVIOUS
<1>3. ASSUME ~Has(source, t[k])
      PROVE  Results(s, t, source, 1..k)
  <2>1. g \in [1..Len(s) -> 1..k]
    OBVIOUS
  <2>2. \A i \in 1..k : Has(source, t[i]) => \E j \in 1..Len(s) : g[j] = i
    BY <1>1, <1>2, <1>3
  <2> QED
    BY <1>1, <2>1, <2>2 DEF Results
<1>4. ASSUME Has(source, t[k])
      PROVE  Results(Append(s, ResultOf(source[t[k]])), t, source, 1..k)
  <2> DEFINE n == Len(s)
             a == Append(s, ResultOf(source[t[k]]))
             h == [j \in 1..n + 1 |-> IF j = n + 1 THEN k ELSE g[j]]
  <2>1. /\ n \in Nat /\ Len(a) = n + 1
        /\ \A j \in 1..n : a[j] = s[j]
        /\ a[n + 1] = ResultOf(source[t[k]])
    BY <1>4, AppendProperties
  <2>2. \A j \in 1..n + 1 : j = n + 1 \/ j \in 1..n
    BY <2>1
  <2>3. h \in [1..n + 1 -> 1..k]
    BY <2>2
  <2>4. \A j, l \in 1..n + 1 : j < l => h[j] < h[l]
    <3> TAKE j, l \in 1..n + 1
    <3> HAVE j < l
    <3>1. j \in 1..n /\ h[j] = g[j] /\ g[j] \in 1..k - 1
      BY <2>1, <2>2
    <3>2. CASE l = n + 1
      BY <3>1, <3>2
    <3>3. CASE l \in 1..n
      BY <3>1, <3>3, <1>1, <2>1
    <3> QED
      BY <3>2, <3>3, <2>2
  <2>5. \A i \in 1..k : Has(source, t[i]) => \E j \in 1..n + 1 : h[j] = i
    <3> TAKE i \in 1..k
    <3> HAVE Has(source, t[i])
    <3>1. CASE i = k
      BY <3>1, <2>1
    <3>2. CASE i # k
      <4>1. PICK j \in 1..n : g[j] = i
        BY <3>2, <1>1, <1>2
      <4>2. j \in 1..n + 1 /\ h[j] = i
        BY <4>1, <2>1
      <4> QED
        BY <4>2
    <3> QED
      BY <3>1, <3>2
  <2>6. \A j \in 1..n + 1 :
           Has(source, t[h[j]]) /\ a[j] = ResultOf(source[t[h[j]]])
    <3> TAKE j \in 1..n + 1
    <3>1. CASE j = n + 1
      BY <3>1, <2>1, <1>4
    <3>2. CASE j \in 1..n
      BY <3>2, <2>1, <1>1
    <3> QED
      BY <3>1, <3>2, <2>2
  <2> HIDE DEF h, a, n
  <2>7. n + 1 = Len(a)
    BY <2>1
  <2>8. /\ h \in [1..Len(a) -> 1..k]
        /\ \A j, l \in 1..Len(a) : j < l => h[j] < h[l]
        /\ \A i \in 1..k : Has(source, t[i]) => \E j \in 1..Len(a) : h[j] = i
        /\ \A j \in 1..Len(a) :
              Has(source, t[h[j]]) /\ a[j] = ResultOf(source[t[h[j]]])
    BY <2>3, <2>4, <2>5, <2>6, <2>7, Zenon
  <2>9. Results(a, t, source, 1..k)
    BY <2>8, Zenon DEF Results
  <2> QED
    BY <2>9 DEF a
<1> QED
  BY <1>3, <1>4

\* Delivering in order: the target at hand has the first of the results left.
LEMMA ResultsAdvance ==
    ASSUME NEW S, NEW T, NEW s \in Seq(S), NEW t \in Seq(T), NEW source,
           NEW k \in 1..Len(t), Results(s, t, source, k..Len(t))
    PROVE  /\ ~Has(source, t[k]) => Results(s, t, source, k + 1..Len(t))
           /\ Has(source, t[k]) =>
                 /\ s # <<>> /\ Head(s) = ResultOf(source[t[k]])
                 /\ Results(Tail(s), t, source, k + 1..Len(t))
<1> DEFINE n == Len(s)
<1>0. n \in Nat /\ Len(t) \in Nat
  OBVIOUS
<1>1. PICK g \in [1..n -> k..Len(t)] :
        /\ \A j, l \in 1..n : j < l => g[j] < g[l]
        /\ \A i \in k..Len(t) : Has(source, t[i]) => \E j \in 1..n : g[j] = i
        /\ \A j \in 1..n :
              Has(source, t[g[j]]) /\ s[j] = ResultOf(source[t[g[j]]])
  BY DEF Results
<1>2. \A i \in k + 1..Len(t) : i \in k..Len(t)
  BY <1>0
<1>3. ASSUME ~Has(source, t[k])
      PROVE  Results(s, t, source, k + 1..Len(t))
  <2>1. \A j \in 1..n : g[j] \in k + 1..Len(t)
    <3> TAKE j \in 1..n
    <3>1. g[j] \in k..Len(t) /\ g[j] # k
      BY <1>1, <1>3
    <3> QED
      BY <3>1
  <2>2. g \in [1..n -> k + 1..Len(t)]
    BY <2>1
  <2> QED
    BY <1>1, <1>2, <2>2 DEF Results
<1>4. ASSUME Has(source, t[k])
      PROVE  /\ s # <<>> /\ Head(s) = ResultOf(source[t[k]])
             /\ Results(Tail(s), t, source, k + 1..Len(t))
  <2>1. PICK f \in 1..n : g[f] = k
    BY <1>1, <1>4, <1>0
  <2>2. f = 1
    <3>1. CASE f > 1
      <4>1. 1 \in 1..n /\ g[1] < g[f] /\ g[1] \in k..Len(t)
        BY <3>1, <1>0, <1>1
      <4> QED
        BY <4>1, <2>1
    <3> QED
      BY <3>1
  <2>3. s # <<>> /\ Head(s) = s[1] /\ n >= 1
    BY <2>2, <1>0
  <2>4. Head(s) = ResultOf(source[t[k]])
    BY <2>1, <2>2, <2>3, <1>1
  <2>5. /\ Len(Tail(s)) = n - 1
        /\ \A j \in 1..n - 1 : Tail(s)[j] = s[j + 1]
    BY <2>3, HeadTailProperties
  <2> DEFINE m == n - 1
             h == [j \in 1..m |-> g[j + 1]]
  <2>6. m \in Nat /\ n = m + 1 /\ \A j \in 1..m : j + 1 \in 1..n
    BY <2>3, <1>0
  <2>7. \A j \in 1..m : h[j] = g[j + 1] /\ h[j] \in k + 1..Len(t)
    <3> TAKE j \in 1..m
    <3>1. j + 1 \in 1..n /\ 1 \in 1..n /\ 1 < j + 1
      BY <2>6
    <3>2. g[j + 1] \in k..Len(t) /\ g[1] < g[j + 1]
      BY <3>1, <1>1
    <3> QED
      BY <3>2, <2>1, <2>2
  <2>8. h \in [1..m -> k + 1..Len(t)]
    BY <2>7
  <2>9. \A j, l \in 1..m : j < l => h[j] < h[l]
    <3> TAKE j, l \in 1..m
    <3> HAVE j < l
    <3>1. j + 1 \in 1..n /\ l + 1 \in 1..n /\ j + 1 < l + 1
      BY <2>6
    <3>2. g[j + 1] < g[l + 1]
      BY <3>1, <1>1
    <3> QED
      BY <3>2, <2>7
  <2>10. \A i \in k + 1..Len(t) : Has(source, t[i]) => \E j \in 1..m : h[j] = i
    <3> TAKE i \in k + 1..Len(t)
    <3> HAVE Has(source, t[i])
    <3>1. PICK j \in 1..n : g[j] = i
      BY <1>1, <1>2
    <3>2. j # 1
      BY <3>1, <2>1, <2>2
    <3>3. j - 1 \in 1..m /\ (j - 1) + 1 = j
      BY <3>2, <2>6
    <3>4. h[j - 1] = i
      BY <3>1, <3>3
    <3> QED
      BY <3>3, <3>4
  <2>11. \A j \in 1..m :
            Has(source, t[h[j]]) /\ Tail(s)[j] = ResultOf(source[t[h[j]]])
    <3> TAKE j \in 1..m
    <3>1. j + 1 \in 1..n /\ Tail(s)[j] = s[j + 1] /\ h[j] = g[j + 1]
      BY <2>5, <2>6, <2>7
    <3> QED
      BY <3>1, <1>1
  <2>12. Len(Tail(s)) = m
    BY <2>5
  <2> HIDE DEF h, m
  <2>13. Results(Tail(s), t, source, k + 1..Len(t))
    BY <2>8, <2>9, <2>10, <2>11, <2>12 DEF Results
  <2> QED
    BY <2>3, <2>4, <2>13
<1> QED
  BY <1>3, <1>4

-----------------------------------------------------------------------------
(* Memory: types, where a run is, and the results it keeps.                *)

LEMMA SettingSame ==
    ASSUME setting' = setting
    PROVE  /\ Targets' = Targets /\ Explicit' = Explicit /\ Delivery' = Delivery
           /\ Pid' = Pid /\ Refused' = Refused /\ Faults' = Faults
           /\ Temps' = Temps /\ Names' = Names
  BY DEF Targets, Explicit, Delivery, Pid, Refused, Faults, Temps, Names

LEMMA TextFacts ==
    /\ \A f \in Files, v \in Versions : Saved(f, v) \in Text
    /\ \A x \in Text : /\ Partial(x) \in Text /\ Output(x) \in Text
                       /\ ResultOf(x) \in Text \cup {None}
                       /\ ResultOf(x) # None => ResultOf(x) = Output(x)
                       /\ [x EXCEPT !.whole = FALSE] \in Text
                       /\ (ResultOf(x) = None) = x.formatted
    /\ None \notin Text
  BY FileRunAssumption DEF Text, Saved, Partial, Output, ResultOf, Versions

\* The result a run is about to put in place.
LEMMA ResultAtHand ==
    ASSUME TypeOK, Control, Pending, NEW p \in Runs, pc[p] \in Delivering,
           More(p), FreeForm(p, Path(p))
    PROVE  /\ sources[p][Path(p)] \in Text
           /\ formatted[p] # <<>>
           /\ Result(p) = ResultOf(sources[p][Path(p)])
           /\ Result(p) # None =>
                 Result(p) \in Text /\ Result(p) = Output(sources[p][Path(p)])
<1>1. /\ Targets[p] \in Seq(Paths) /\ formatted[p] \in Seq(Text \cup {None})
      /\ position[p] \in 1..Len(Targets[p])
  BY SettingFacts, PathFacts DEF TypeOK
<1>2. Results(formatted[p], Targets[p], sources[p], position[p]..Len(Targets[p]))
  BY DEF Pending, PendingOf
<1>3. Has(sources[p], Targets[p][position[p]])
  BY DEF Has, FreeForm, Path
<1>4. formatted[p] # <<>> /\ Result(p) = ResultOf(sources[p][Path(p)])
  BY <1>1, <1>2, <1>3, ResultsAdvance DEF Result, Path
<1>5. sources[p][Path(p)] \in Text
  BY PathFacts DEF TypeOK, FreeForm
<1> QED
  BY <1>4, <1>5, TextFacts

LEMMA InitMemory == Init => MemoryInv
<1> SUFFICES ASSUME Init PROVE MemoryInv
  OBVIOUS
<1>1. TypeOK
  <2>1. inode \in [Inodes -> Inode]
    <3>1. ASSUME NEW i \in Inodes, i \notin Files
          PROVE  i[2] \in Paths /\ Resolve[i[2]] \in Files
      BY <3>1, FileRunAssumption DEF Inodes
    <3>2. 0 \in Versions
      BY FileRunAssumption DEF Versions
    <3>3. \A f \in Files : Saved(f, 0) \in Text /\ Partial(Saved(f, 0)) \in Text
      BY <3>2, TextFacts
    <3>4. ASSUME NEW i \in Inodes PROVE inode[i] \in Inode
      BY <3>1, <3>3 DEF Init, Inode
    <3> QED
      BY <3>4 DEF Init
  <2>2. entry \in [Names -> Inodes \cup {None}]
    BY DEF Init, Names, Inodes
  <2>3. edits \in Versions
    BY FileRunAssumption DEF Init, Versions
  <2>4. pc \in [Runs -> Idle \cup Steps] /\ status \in [Runs -> Statuses]
    BY DEF Init, Idle, Statuses
  <2> QED
    BY <2>1, <2>2, <2>3, <2>4, EmptySeq DEF Init, TypeOK
<1>2. Control
  BY <1>1, SettingFacts DEF Init, Control, ControlOf, Before, Named, Holding, Replacing
<1>3. Live /\ Pending
  BY DEF Init, Live, Pending, PendingOf, Idle, Delivering, Replacing, Named, Holding
<1> QED
  BY <1>1, <1>2, <1>3 DEF MemoryInv

\* A run moves on, ends, or goes to another target.
LEMMA MoveTypes ==
    ASSUME TypeOK, NEW p \in Runs
    PROVE  /\ \A s \in Idle \cup Steps : Goto(p, s) => pc' \in [Runs -> Idle \cup Steps]
           /\ \A how \in Statuses : Exit(p, how) =>
                 pc' \in [Runs -> Idle \cup Steps] /\ status' \in [Runs -> Statuses]
           /\ Advance(p) => position' \in [Runs -> Nat \ {0}]
           /\ position' = [position EXCEPT ![p] = 1] => position' \in [Runs -> Nat \ {0}]
<1>1. "done" \in Idle \cup Steps
  BY DEF Idle
<1>2. \A s \in Idle \cup Steps : Goto(p, s) => pc' \in [Runs -> Idle \cup Steps]
  BY DEF TypeOK, Goto
<1>3. \A how \in Statuses : Exit(p, how) =>
         pc' \in [Runs -> Idle \cup Steps] /\ status' \in [Runs -> Statuses]
  BY <1>1, <1>2 DEF TypeOK, Exit
<1>4. Advance(p) => position' \in [Runs -> Nat \ {0}]
  <2>1. position[p] + 1 \in Nat \ {0}
    BY DEF TypeOK
  <2> QED
    BY <2>1 DEF TypeOK, Advance
<1>5. position' = [position EXCEPT ![p] = 1] => position' \in [Runs -> Nat \ {0}]
  BY DEF TypeOK
<1> QED
  BY <1>2, <1>3, <1>4, <1>5

LEMMA TypeStep ==
    ASSUME MemoryInv, Next
    PROVE  TypeOK'
<1> USE DEF MemoryInv, At, NextTarget, disk, results
<1>0. TypeOK /\ setting' = setting /\ Names' = Names /\ Temps' = Temps
  BY SettingSame DEF Next
<1>s. /\ {"done", "killed", "read", "format", "deliver", "resolve", "create", "chmod", "write",
           "sync", "rename", "cleanup", "list"} \subseteq Idle \cup Steps
      /\ {"ok", "differs", "usage", "io", "format", "pipe", "panic"} \subseteq Statuses
  BY DEF Idle, Steps, Statuses
<1>1. ASSUME NEW p \in Runs, Start(p) PROVE TypeOK'
  BY <1>0, <1>s, <1>1, MoveTypes DEF TypeOK, Start
<1>2. ASSUME NEW p \in Runs, Kill(p) PROVE TypeOK'
  BY <1>0, <1>s, <1>2, MoveTypes DEF TypeOK, Kill
<1>3. ASSUME NEW p \in Runs, ClosePipe(p) PROVE TypeOK'
  BY <1>0, <1>3 DEF TypeOK, ClosePipe
<1>4. ASSUME NEW p \in Runs, Read(p) PROVE TypeOK'
  <2>1. /\ pc' \in [Runs -> Idle \cup Steps] /\ status' \in [Runs -> Statuses]
        /\ position' \in [Runs -> Nat \ {0}]
    BY <1>0, <1>s, <1>4, MoveTypes DEF TypeOK, Read
  <2>2. sources' \in [Runs -> [Paths -> Text \cup {None}]]
    <3>1. CASE UNCHANGED sources
      BY <3>1 DEF TypeOK
    <3>2. CASE /\ More(p) /\ entry[Resolve[Path(p)]] # None
               /\ sources' = [sources EXCEPT ![p][Path(p)] =
                                 inode[entry[Resolve[Path(p)]]].text]
      <4>1. inode[entry[Resolve[Path(p)]]] \in Inode
        BY <3>2, PathFacts DEF TypeOK, Names
      <4>2. inode[entry[Resolve[Path(p)]]].text \in Text
        BY <4>1 DEF Inode
      <4> QED
        BY <3>2, <4>2 DEF TypeOK
    <3> QED
      BY <1>4, <3>1, <3>2 DEF Read
  <2> QED
    BY <1>0, <1>4, <2>1, <2>2 DEF TypeOK, Read
<1>5. ASSUME NEW p \in Runs, Format(p) PROVE TypeOK'
  <2>1. /\ pc' \in [Runs -> Idle \cup Steps] /\ status' \in [Runs -> Statuses]
        /\ position' \in [Runs -> Nat \ {0}]
    BY <1>0, <1>s, <1>5, MoveTypes DEF TypeOK, Format, AddResult
  <2>2. formatted' \in [Runs -> Seq(Text \cup {None})]
    <3>1. CASE UNCHANGED formatted
      BY <3>1 DEF TypeOK
    <3>2. CASE More(p) /\ FreeForm(p, Path(p)) /\ AddResult(p)
      <4>1. sources[p][Path(p)] \in Text
        BY <3>2, PathFacts DEF TypeOK, FreeForm
      <4>2. Append(formatted[p], ResultOf(sources[p][Path(p)])) \in Seq(Text \cup {None})
        BY <4>1, TextFacts, AppendProperties DEF TypeOK
      <4> QED
        BY <3>2, <4>2 DEF TypeOK, AddResult
    <3> QED
      BY <1>5, <3>1, <3>2 DEF Format
  <2> QED
    BY <1>0, <1>5, <2>1, <2>2 DEF TypeOK, Format
<1>6. ASSUME NEW p \in Runs, Deliver(p) PROVE TypeOK'
  <2>1. /\ pc' \in [Runs -> Idle \cup Steps] /\ status' \in [Runs -> Statuses]
        /\ position' \in [Runs -> Nat \ {0}]
    BY <1>0, <1>s, <1>6, MoveTypes DEF TypeOK, Deliver
  <2>2. formatted' \in [Runs -> Seq(Text \cup {None})]
    <3>1. CASE UNCHANGED formatted
      BY <3>1 DEF TypeOK
    <3>2. CASE /\ More(p) /\ TakesResult(p)
               /\ formatted' = [formatted EXCEPT ![p] = Tail(@)]
      <4>1. formatted[p] # <<>>
        BY <3>2, <1>6, ResultAtHand DEF TakesResult, Deliver, Delivering
      <4>2. Tail(formatted[p]) \in Seq(Text \cup {None})
        BY <4>1, HeadTailProperties DEF TypeOK
      <4> QED
        BY <3>2, <4>2 DEF TypeOK
    <3> QED
      BY <1>6, <3>1, <3>2 DEF Deliver
  <2>3. changed' \in [Runs -> Seq(Paths)]
    <3>1. CASE UNCHANGED changed
      BY <3>1 DEF TypeOK
    <3>2. CASE More(p) /\ changed' = [changed EXCEPT ![p] = Append(@, Path(p))]
      <4>1. Append(changed[p], Path(p)) \in Seq(Paths)
        BY <3>2, PathFacts, AppendProperties DEF TypeOK
      <4> QED
        BY <3>2, <4>1 DEF TypeOK
    <3> QED
      BY <1>6, <3>1, <3>2 DEF Deliver
  <2> QED
    BY <1>0, <1>6, <2>1, <2>2, <2>3 DEF TypeOK, Deliver
<1>7. ASSUME NEW p \in Runs, ResolveTarget(p) PROVE TypeOK'
  <2>1. number' \in [Runs -> Nat]
    BY <1>7 DEF TypeOK, ResolveTarget
  <2>2. pc' \in [Runs -> Idle \cup Steps] /\ status' \in [Runs -> Statuses]
    BY <1>s, <1>7, MoveTypes DEF TypeOK, ResolveTarget
  <2> QED
    BY <1>0, <1>7, <2>1, <2>2 DEF TypeOK, ResolveTarget
<1>8. ASSUME NEW p \in Runs, CreateTemp(p) PROVE TypeOK'
  <2>1. Own(p) \in Inodes /\ Result(p) \in Text
    BY <1>8, PathFacts, ResultAtHand
       DEF CreateTemp, Call, CallFails, Control, ControlOf, Delivering, Replacing, Named
  <2>2. [text |-> Partial(Result(p)), synced |-> FALSE, mode |-> "default"] \in Inode
    BY <2>1, TextFacts DEF Inode
  <2>3. entry' \in [Names -> Inodes \cup {None}] /\ inode' \in [Inodes -> Inode]
    BY <1>8, <2>1, <2>2 DEF CreateTemp, CallFails, TypeOK
  <2> QED
    BY <1>0, <1>s, <1>8, <2>3, MoveTypes DEF TypeOK, CreateTemp, Call, CallFails
<1>9. ASSUME NEW p \in Runs, SetMode(p) \/ WriteTemp(p) \/ SyncTemp(p) PROVE TypeOK'
  <2>1. Own(p) \in Inodes /\ Result(p) \in Text
    BY <1>9, PathFacts, ResultAtHand
       DEF SetMode, WriteTemp, SyncTemp, Call, CallFails, Control, ControlOf, Delivering, Replacing,
           Named, Holding
  <2>2. \A i \in Inodes : /\ [inode[i] EXCEPT !.mode = "original"] \in Inode
                          /\ [inode[i] EXCEPT !.text = Result(p)] \in Inode
                          /\ [inode[i] EXCEPT !.synced = TRUE] \in Inode
    BY <2>1 DEF Inode, TypeOK
  <2>3. inode' \in [Inodes -> Inode]
    <3>1. PICK x \in Inode : UNCHANGED inode \/ inode' = [inode EXCEPT ![Own(p)] = x]
      BY <1>9, <2>1, <2>2 DEF SetMode, WriteTemp, SyncTemp, CallFails, TypeOK
    <3> QED
      BY <3>1 DEF TypeOK
  <2> QED
    BY <1>0, <1>s, <1>9, <2>3, MoveTypes DEF TypeOK, SetMode, WriteTemp, SyncTemp, Call, CallFails
<1>10. ASSUME NEW p \in Runs, Rename(p) PROVE TypeOK'
  <2>1. /\ More(p) /\ Path(p) \in Paths /\ FreeForm(p, Path(p)) /\ Temp(p) \in Names
        /\ formatted[p] # <<>>
    BY <1>10, PathFacts, ResultAtHand, TempFacts
       DEF Rename, Call, CallFails, Control, ControlOf, Delivering, Replacing, Named, Holding
  <2>2. entry' \in [Names -> Inodes \cup {None}]
    BY <1>10, <2>1 DEF Rename, Call, CallFails, TypeOK
  <2>3. formatted' \in [Runs -> Seq(Text \cup {None})]
    <3>1. Tail(formatted[p]) \in Seq(Text \cup {None})
      BY <2>1, HeadTailProperties DEF TypeOK
    <3> QED
      BY <1>10, <3>1 DEF Rename, Call, CallFails, TypeOK
  <2>4. replaced' \in [Runs -> SUBSET Paths]
    <3>1. replaced[p] \cup {Path(p)} \in SUBSET Paths
      BY <2>1 DEF TypeOK
    <3> QED
      BY <1>10, <3>1 DEF Rename, Call, CallFails, TypeOK
  <2> QED
    BY <1>0, <1>s, <1>10, <2>2, <2>3, <2>4, MoveTypes DEF TypeOK, Rename, Call, CallFails
<1>11. ASSUME NEW p \in Runs, Cleanup(p) PROVE TypeOK'
  <2>1. Temp(p) \in Temps
    BY <1>11, TempFacts DEF Cleanup, Named
  <2> QED
    BY <1>0, <1>s, <1>11, <2>1, MoveTypes DEF TypeOK, Cleanup
<1>12. ASSUME NEW p \in Runs, List(p) PROVE TypeOK'
  BY <1>0, <1>s, <1>12, MoveTypes DEF TypeOK, List
<1>13. ASSUME NEW f \in Files, Save(f) PROVE TypeOK'
  <2>1. edits' \in Versions
    BY <1>13, FileRunAssumption DEF Save, Versions, TypeOK
  <2>2. Saved(f, edits') \in Text /\ entry[f] \in Inodes
    BY <1>13, <2>1, TextFacts DEF Save, TypeOK, Names
  <2>3. inode' \in [Inodes -> Inode]
    BY <1>13, <2>2 DEF Save, TypeOK, Inode
  <2> QED
    BY <1>0, <1>13, <2>1, <2>3 DEF TypeOK, Save
<1>14. ASSUME NEW f \in Files, Delete(f) PROVE TypeOK'
  <2>1. edits' \in Versions
    BY <1>14, FileRunAssumption DEF Delete, Versions, TypeOK
  <2> QED
    BY <1>0, <1>14, <2>1 DEF TypeOK, Delete
<1>15. ASSUME PowerLoss PROVE TypeOK'
  <2>1. pc' \in [Runs -> Idle \cup Steps]
    BY <1>s, <1>15 DEF PowerLoss, TypeOK
  <2>2. inode' \in [Inodes -> Inode]
    <3>1. ASSUME NEW i \in Inodes PROVE [inode[i] EXCEPT !.text.whole = FALSE] \in Inode
      <4>1. inode[i] \in Inode /\ inode[i].text \in Text
        BY DEF TypeOK, Inode
      <4>2. [inode[i].text EXCEPT !.whole = FALSE] \in Text
        BY <4>1, TextFacts
      <4> QED
        BY <4>1, <4>2 DEF Inode
    <3> QED
      BY <1>15, <3>1 DEF PowerLoss, TypeOK
  <2> QED
    BY <1>0, <1>15, <2>1, <2>2 DEF TypeOK, PowerLoss
<1> QED
  BY <1>1, <1>2, <1>3, <1>4, <1>5, <1>6, <1>7, <1>8, <1>9, <1>10, <1>11, <1>12, <1>13,
     <1>14, <1>15 DEF Next, Step


\* A step of one run leaves the others where they are, and the owner all.
LEMMA OtherRuns ==
    ASSUME TypeOK, NEW p \in Runs, Start(p) \/ Step(p) \/ Kill(p) \/ ClosePipe(p),
           NEW q \in Runs, q # p
    PROVE  /\ pc'[q] = pc[q] /\ position'[q] = position[q] /\ sources'[q] = sources[q]
           /\ formatted'[q] = formatted[q] /\ number'[q] = number[q]
           /\ changed'[q] = changed[q] /\ replaced'[q] = replaced[q]
           /\ printed'[q] = printed[q] /\ open'[q] = open[q] /\ status'[q] = status[q]
<1> USE DEF TypeOK, At, Goto, Exit, Advance, AddResult, NextTarget, disk, results
<1>1. CASE Start(p) \/ Kill(p) \/ ClosePipe(p)
  BY <1>1 DEF Start, Kill, ClosePipe
<1>2. CASE Read(p)
  BY <1>2 DEF Read
<1>3. CASE Format(p)
  BY <1>3 DEF Format
<1>4. CASE Deliver(p)
  BY <1>4 DEF Deliver
<1>5. CASE ResolveTarget(p) \/ CreateTemp(p) \/ SetMode(p) \/ WriteTemp(p) \/ SyncTemp(p)
  BY <1>5 DEF ResolveTarget, CreateTemp, SetMode, WriteTemp, SyncTemp, Call, CallFails
<1>6. CASE Rename(p) \/ Cleanup(p) \/ List(p)
  BY <1>6 DEF Rename, Cleanup, List, Call, CallFails
<1> QED
  BY <1>1, <1>2, <1>3, <1>4, <1>5, <1>6 DEF Step

LEMMA OwnerSteps ==
    ASSUME TypeOK, NEW f \in Files, Save(f) \/ Delete(f)
    PROVE  UNCHANGED <<pc, position, sources, formatted, number, changed, replaced,
                       printed, stray, open, status>>
  BY DEF Save, Delete, results

LEMMA PowerSteps ==
    ASSUME TypeOK, PowerLoss
    PROVE  /\ UNCHANGED <<entry, edits, position, sources, formatted, number, changed,
                          replaced, printed, stray, open, status>>
           /\ \A p \in Runs : pc'[p] = IF pc[p] \in Idle THEN pc[p] ELSE "killed"
  BY DEF PowerLoss, results

LEMMA ControlStep ==
    ASSUME MemoryInv, Next
    PROVE  Control'
<1> USE DEF MemoryInv, At, Goto, Exit, Advance, NextTarget, disk, results
<1>0. /\ TypeOK /\ TypeOK' /\ Control /\ setting' = setting
      /\ Targets' = Targets /\ Targets \in [Runs -> Seq(Paths)]
  BY TypeStep, SettingSame, SettingFacts DEF Next, TypeOK
<1>1. ASSUME NEW p \in Runs, Start(p) \/ Step(p) \/ Kill(p) \/ ClosePipe(p),
             NEW q \in Runs, q # p
      PROVE  ControlOf(q)'
  <2>1. /\ pc'[q] = pc[q] /\ position'[q] = position[q] /\ sources'[q] = sources[q]
        /\ number'[q] = number[q] /\ status'[q] = status[q]
    BY <1>0, <1>1, OtherRuns
  <2> QED
    BY <1>0, <2>1 DEF Control, ControlOf, More, FreeForm, Path
<1>2. ASSUME NEW p \in Runs, Start(p) \/ Kill(p) \/ ClosePipe(p)
      PROVE  ControlOf(p)'
  BY <1>0, <1>2 DEF Start, Kill, ClosePipe, TypeOK, Control, ControlOf, More, FreeForm, Path,
     Before, Replacing, Named, Holding, Idle
<1>3. ASSUME NEW p \in Runs, Read(p) PROVE ControlOf(p)'
  <2>1. pc[p] = "read" /\ UNCHANGED number
    BY <1>3 DEF Read
  <2>2. \/ /\ pc'[p] = "format" /\ position'[p] = 1 /\ UNCHANGED status
        \/ /\ pc'[p] = "read" /\ More(p) /\ position'[p] = position[p] + 1 /\ UNCHANGED status
        \/ /\ pc'[p] = "done" /\ UNCHANGED position
    BY <1>0, <1>3 DEF Read, TypeOK
  <2>3. /\ number[p] = 0 /\ number'[p] = 0 /\ status[p] = "none"
        /\ position[p] <= Len(Targets[p]) + 1 /\ Len(Targets[p]) \in Nat
    <3>1. ControlOf(p)
      BY DEF Control
    <3>2. number[p] = 0 /\ status[p] = "none" /\ position[p] <= Len(Targets[p]) + 1
      BY <2>1, <3>1 DEF ControlOf, Before
    <3> QED
      BY <1>0, <2>1, <3>2
  <2>4. position'[p] <= Len(Targets[p]) + 1
    <3>1. position[p] \in Nat
      BY <1>0 DEF TypeOK
    <3>2. More(p) => position[p] <= Len(Targets[p])
      BY DEF More
    <3>3. \/ position'[p] = 1
          \/ position'[p] = position[p] + 1 /\ More(p)
          \/ position'[p] = position[p]
      BY <2>2
    <3> QED
      BY <2>3, <3>1, <3>2, <3>3
  <2>5. pc'[p] \in {"read", "format", "done"} /\ (pc'[p] # "done" => status'[p] = "none")
    BY <2>2, <2>3
  <2>6. pc'[p] \notin {"idle", "list", "deliver", "resolve"} \cup Replacing
    BY <2>5 DEF Replacing, Named, Holding
  <2> QED
    BY <1>0, <2>3, <2>4, <2>5, <2>6, Zenon DEF ControlOf, Replacing
<1>4. ASSUME NEW p \in Runs, Format(p) PROVE ControlOf(p)'
  <2>1. /\ pc[p] = "format" /\ UNCHANGED number
        /\ \/ pc'[p] = "deliver" /\ position'[p] = 1 /\ UNCHANGED status
           \/ /\ pc'[p] = "format" /\ More(p) /\ position'[p] = position[p] + 1
              /\ UNCHANGED status
           \/ pc'[p] = "done" /\ position'[p] = position[p]
    BY <1>0, <1>4 DEF Format, AddResult, TypeOK
  <2>2. /\ number[p] = 0 /\ status[p] = "none" /\ position[p] \in Nat
        /\ position[p] <= Len(Targets[p]) + 1 /\ Len(Targets[p]) \in Nat
    BY <1>0, <2>1 DEF TypeOK, Control, ControlOf, Before
  <2>3. /\ position'[p] <= Len(Targets'[p]) + 1 /\ number'[p] = 0
        /\ pc'[p] = "deliver" => number'[p] < position'[p]
        /\ status'[p] # "none" => pc'[p] = "done"
    BY <1>0, <2>1, <2>2 DEF More
  <2>4. pc'[p] \notin {"idle", "list"} \cup Replacing
    BY <2>1 DEF Replacing, Named, Holding
  <2> QED
    BY <2>3, <2>4 DEF ControlOf, Replacing
<1>5. ASSUME NEW p \in Runs, Deliver(p) PROVE ControlOf(p)'
  <2>1. More(p) /\ FreeForm(p, Path(p)) => Result(p) = ResultOf(sources[p][Path(p)])
    BY <1>5, ResultAtHand DEF Deliver, Delivering
  <2>2. pc[p] = "deliver" /\ UNCHANGED <<number, sources>>
    BY <1>5 DEF Deliver
  <2>3. \/ pc'[p] = "list" /\ ~More(p) /\ UNCHANGED <<position, status>>
        \/ /\ pc'[p] = "deliver" /\ More(p) /\ position'[p] = position[p] + 1
           /\ UNCHANGED status
        \/ /\ pc'[p] = "resolve" /\ More(p) /\ FreeForm(p, Path(p)) /\ Result(p) # None
           /\ UNCHANGED <<position, status>>
        \/ pc'[p] = "done" /\ UNCHANGED position
    BY <1>0, <1>5 DEF Deliver, TypeOK
  <2>4. CASE pc'[p] = "resolve"
    <3>1. pc'[p] \notin {"idle", "list"} \cup Before \cup Named
      BY <2>4 DEF Before, Named, Holding
    <3>2. position[p] \in Nat /\ number[p] < position[p] /\ status[p] = "none"
          /\ position[p] <= Len(Targets[p]) + 1
      BY <1>0, <2>2 DEF TypeOK, Control, ControlOf
    <3>3. (More(p) /\ FreeForm(p, Path(p)) /\ ResultOf(sources[p][Path(p)]) # None)'
      BY <1>0, <2>1, <2>2, <2>3, <2>4 DEF More, FreeForm, Path
    <3>4. /\ position'[p] <= Len(Targets'[p]) + 1 /\ number'[p] < position'[p]
          /\ status'[p] = "none"
      BY <1>0, <2>2, <2>3, <2>4, <3>2
    <3> QED
      BY <2>4, <3>1, <3>3, <3>4 DEF ControlOf
  <2>5. CASE pc'[p] # "resolve"
    <3>1. pc'[p] \in {"list", "deliver", "done"} /\ pc'[p] \notin {"idle"} \cup Before \cup Replacing
      BY <2>3, <2>5 DEF Before, Replacing, Named, Holding
    <3>2. /\ position[p] \in Nat /\ number[p] \in Nat /\ Len(Targets[p]) \in Nat
          /\ number[p] < position[p] /\ status[p] = "none"
          /\ position[p] <= Len(Targets[p]) + 1
      BY <1>0, <2>2 DEF TypeOK, Control, ControlOf
    <3>3. /\ position'[p] <= Len(Targets'[p]) + 1
          /\ pc'[p] = "deliver" => number'[p] < position'[p]
          /\ pc'[p] = "list" => ~More(p)'
          /\ status'[p] # "none" => pc'[p] = "done"
      BY <1>0, <2>2, <2>3, <2>5, <3>2 DEF More
    <3> QED
      BY <3>1, <3>3 DEF ControlOf, Replacing
  <2> QED
    BY <2>4, <2>5
<1>6. ASSUME NEW p \in Runs,
             \/ ResolveTarget(p) \/ CreateTemp(p) \/ SetMode(p) \/ WriteTemp(p) \/ SyncTemp(p)
             \/ Rename(p) /\ ~(pc'[p] = "deliver")
             \/ Cleanup(p)
      PROVE  ControlOf(p)'
  <2>1. pc[p] \in Replacing /\ UNCHANGED <<position, sources>>
    BY <1>6 DEF ResolveTarget, CreateTemp, SetMode, WriteTemp, SyncTemp, Rename, Cleanup,
       Call, CallFails, Replacing, Named, Holding, TypeOK
  <2>2. \/ pc'[p] = "done"
        \/ /\ pc[p] = "resolve" /\ pc'[p] = "create" /\ number'[p] = number[p] + 1
           /\ UNCHANGED status
        \/ pc[p] \in Named /\ pc'[p] \in Named /\ UNCHANGED <<number, status>>
    BY <1>0, <1>6 DEF ResolveTarget, CreateTemp, SetMode, WriteTemp, SyncTemp, Rename,
       Cleanup, Call, CallFails, Named, Holding, TypeOK
  <2>3. /\ position'[p] <= Len(Targets[p]) + 1
        /\ (More(p) /\ FreeForm(p, Path(p)) /\ ResultOf(sources[p][Path(p)]) # None)'
        /\ status[p] = "none"
    <3>1. /\ position[p] <= Len(Targets[p]) + 1
          /\ More(p) /\ FreeForm(p, Path(p)) /\ ResultOf(sources[p][Path(p)]) # None
          /\ status[p] = "none"
      <4>1. ControlOf(p)
        BY DEF Control
      <4>2. pc[p] # "done"
        BY <2>1 DEF Replacing, Named, Holding
      <4> QED
        BY <2>1, <4>1, <4>2 DEF ControlOf
    <3> QED
      BY <1>0, <2>1, <3>1 DEF More, FreeForm, Path
  <2>4. number'[p] \in 1..position'[p] \/ pc'[p] = "done"
    <3>1. /\ pc[p] = "resolve" => number[p] < position[p]
          /\ pc[p] \in Named => number[p] \in 1..position[p]
      BY DEF Control, ControlOf
    <3>2. number[p] \in Nat /\ position[p] \in Nat
      BY <1>0 DEF TypeOK
    <3> QED
      BY <2>1, <2>2, <3>1, <3>2
  <2>5. pc'[p] = "done" \/ (pc'[p] \in Named /\ status'[p] = "none")
    BY <2>2, <2>3 DEF Named
  <2>6. CASE pc'[p] = "done"
    BY <1>0, <2>3, <2>6 DEF ControlOf, Before, Replacing, Named, Holding
  <2>7. CASE pc'[p] \in Named /\ status'[p] = "none" /\ number'[p] \in 1..position'[p]
    <3>1. pc'[p] \notin Before \cup {"idle", "list", "deliver", "resolve"}
      BY <2>7 DEF Before, Named, Holding
    <3> QED
      BY <1>0, <2>3, <2>7, <3>1 DEF ControlOf
  <2> QED
    BY <2>4, <2>5, <2>6, <2>7 DEF Named, Holding
<1>7. ASSUME NEW p \in Runs, Rename(p), pc'[p] = "deliver" PROVE ControlOf(p)'
  BY <1>0, <1>7 DEF Rename, Call, CallFails, TypeOK, Control, ControlOf, More, Before,
     Replacing, Named, Holding
<1>8. ASSUME NEW p \in Runs, List(p) PROVE ControlOf(p)'
  BY <1>0, <1>8 DEF List, TypeOK, Control, ControlOf, Before, Replacing, Named, Holding
<1>9. ASSUME NEW f \in Files, Save(f) \/ Delete(f), NEW q \in Runs PROVE ControlOf(q)'
  BY <1>0, <1>9, OwnerSteps DEF Control, ControlOf, More, FreeForm, Path
<1>10. ASSUME PowerLoss, NEW q \in Runs PROVE ControlOf(q)'
  BY <1>0, <1>10, PowerSteps DEF Control, ControlOf, More, FreeForm, Path, Before, Replacing,
     Named, Holding, Idle
<1>11. ASSUME NEW p \in Runs, Start(p) \/ Step(p) \/ Kill(p) \/ ClosePipe(p)
       PROVE  ControlOf(p)'
  BY <1>2, <1>3, <1>4, <1>5, <1>6, <1>7, <1>8, <1>11 DEF Step
<1> QED
  BY <1>1, <1>9, <1>10, <1>11 DEF Next, Control

LEMMA LiveStep ==
    ASSUME MemoryInv, Next
    PROVE  Live'
<1>0. TypeOK /\ Live /\ Pid' = Pid
  BY SettingSame DEF Next, MemoryInv
<1>1. ASSUME NEW p \in Runs, Start(p) PROVE Live'
  BY <1>0, <1>1 DEF Start, Goto, At, Live, TypeOK, Idle
<1>2. ASSUME NEW p \in Runs, Step(p) \/ Kill(p) \/ ClosePipe(p) PROVE Live'
  <2>1. pc[p] \notin Idle \/ UNCHANGED pc
    BY <1>2 DEF Step, Kill, ClosePipe, Read, Format, Deliver, ResolveTarget, CreateTemp,
       SetMode, WriteTemp, SyncTemp, Rename, Cleanup, List, Call, CallFails, At, Idle
  <2>2. \A q \in Runs : q # p => pc'[q] = pc[q]
    BY <1>0, <1>2, OtherRuns
  <2> QED
    BY <1>0, <2>1, <2>2 DEF Live
<1>3. ASSUME NEW f \in Files, Save(f) \/ Delete(f) PROVE Live'
  BY <1>0, <1>3, OwnerSteps DEF Live
<1>4. ASSUME PowerLoss PROVE Live'
  BY <1>0, <1>4, PowerSteps DEF Live, Idle
<1> QED
  BY <1>1, <1>2, <1>3, <1>4 DEF Next

LEMMA PendingStep ==
    ASSUME MemoryInv, Next
    PROVE  Pending'
<1> USE DEF MemoryInv, At, Goto, Exit, Advance, disk, results
<1>0. /\ TypeOK /\ Control /\ Pending /\ setting' = setting
      /\ Targets' = Targets /\ Targets \in [Runs -> Seq(Paths)]
  BY SettingSame, SettingFacts DEF Next, TypeOK
<1>1. ASSUME NEW p \in Runs, Start(p) \/ Step(p) \/ Kill(p) \/ ClosePipe(p),
             NEW q \in Runs, q # p
      PROVE  PendingOf(q)'
  <2>1. /\ pc'[q] = pc[q] /\ position'[q] = position[q] /\ sources'[q] = sources[q]
        /\ formatted'[q] = formatted[q]
    BY <1>0, <1>1, OtherRuns
  <2> QED
    BY <1>0, <2>1 DEF Pending, PendingOf
\* The results left after a target.
<1>2. ASSUME NEW p \in Runs, pc[p] \in Delivering, More(p), NextTarget(p)
      PROVE  Results(formatted'[p], Targets[p], sources[p], position'[p]..Len(Targets[p]))
  <2>1. /\ formatted[p] \in Seq(Text \cup {None}) /\ Targets[p] \in Seq(Paths)
        /\ position[p] \in 1..Len(Targets[p]) /\ position'[p] = position[p] + 1
    BY <1>0, <1>2, PathFacts DEF TypeOK, NextTarget
  <2>2. Results(formatted[p], Targets[p], sources[p], position[p]..Len(Targets[p]))
    BY <1>2 DEF Pending, PendingOf
  <2>3. formatted'[p] = IF Has(sources[p], Targets[p][position[p]])
                        THEN Tail(formatted[p]) ELSE formatted[p]
    BY <1>0, <1>2 DEF NextTarget, TakesResult, FreeForm, Has, Path, TypeOK
  <2> QED
    BY <2>1, <2>2, <2>3, ResultsAdvance
<1>3. ASSUME NEW p \in Runs, Start(p) \/ Kill(p) \/ ClosePipe(p)
      PROVE  PendingOf(p)'
  BY <1>0, <1>3 DEF Start, Kill, ClosePipe, TypeOK, Pending, PendingOf, Delivering, Replacing,
     Named, Holding
<1>4. ASSUME NEW p \in Runs, Read(p) PROVE PendingOf(p)'
  <2>1. Results(<<>>, Targets[p], sources[p], 1..0)
    <3>1. 1..Len(<<>>) = {} /\ 1..0 = {}
      OBVIOUS
    <3>2. [j \in {} |-> 0] \in [{} -> {}]
      OBVIOUS
    <3> QED
      BY <3>1, <3>2, Zenon DEF Results
  <2>2. \/ pc'[p] = "format" /\ position'[p] = 1 /\ UNCHANGED <<sources, formatted>>
        \/ pc'[p] = "read" /\ UNCHANGED formatted
        \/ pc'[p] = "done"
    BY <1>0, <1>4 DEF Read, TypeOK
  <2>3. formatted[p] = <<>>
    BY <1>4 DEF Read, Pending, PendingOf
  <2> QED
    BY <1>0, <2>1, <2>2, <2>3 DEF PendingOf, Delivering, Replacing, Named, Holding
<1>5. ASSUME NEW p \in Runs, Format(p) PROVE PendingOf(p)'
  <2>1. Results(formatted[p], Targets[p], sources[p], 1..position[p] - 1)
    BY <1>5 DEF Format, Pending, PendingOf
  <2>2. CASE ~More(p)
    <3>1. position[p] - 1 = Len(Targets[p])
      BY <1>0, <2>2 DEF TypeOK, More, Control, ControlOf
    <3>2. /\ pc'[p] = "deliver" /\ position'[p] = 1 /\ formatted'[p] = formatted[p]
          /\ sources'[p] = sources[p]
      BY <1>0, <1>5, <2>2 DEF Format, TypeOK
    <3> QED
      BY <1>0, <2>1, <3>1, <3>2 DEF PendingOf
  <2>3. CASE More(p) /\ UNCHANGED <<pc, status>>
    <3>1. /\ formatted[p] \in Seq(Text \cup {None}) /\ Targets[p] \in Seq(Paths)
          /\ position[p] \in 1..Len(Targets[p]) /\ position'[p] = position[p] + 1
          /\ pc'[p] = "format" /\ sources'[p] = sources[p] /\ Path(p) = Targets[p][position[p]]
      BY <1>0, <1>5, <2>3, PathFacts DEF Format, AddResult, TypeOK, Path
    <3>2. CASE FreeForm(p, Path(p))
      <4>1. formatted'[p] = Append(formatted[p], ResultOf(sources[p][Path(p)]))
        BY <1>0, <1>5, <2>3, <3>2 DEF Format, AddResult, TypeOK
      <4>2. ResultOf(sources[p][Path(p)]) \in Text \cup {None}
        <5>1. Path(p) \in Paths
          BY <1>0, <2>3, PathFacts
        <5>2. sources[p][Path(p)] \in Text
          BY <1>0, <3>2, <5>1 DEF FreeForm, TypeOK
        <5> QED
          BY <5>2, TextFacts
      <4>3. Results(formatted'[p], Targets[p], sources[p], 1..position[p])
        BY <2>1, <3>1, <3>2, <4>1, <4>2, ResultsExtend DEF FreeForm, Has
      <4> QED
        BY <1>0, <3>1, <4>3 DEF PendingOf, Delivering, Replacing, Named, Holding
    <3>3. CASE ~FreeForm(p, Path(p))
      <4>1. formatted'[p] = formatted[p]
        BY <1>0, <1>5, <2>3, <3>3 DEF Format, AddResult, TypeOK
      <4>2. Results(formatted'[p], Targets[p], sources[p], 1..position[p])
        BY <2>1, <3>1, <3>3, <4>1, ResultsExtend DEF FreeForm, Has
      <4> QED
        BY <1>0, <3>1, <4>2 DEF PendingOf, Delivering, Replacing, Named, Holding
    <3> QED
      BY <3>2, <3>3
  <2>4. CASE pc'[p] = "done"
    BY <2>4 DEF PendingOf, Delivering, Replacing, Named, Holding
  <2> QED
    BY <1>0, <1>5, <2>2, <2>3, <2>4 DEF Format, TypeOK
<1>6. ASSUME NEW p \in Runs, Deliver(p) PROVE PendingOf(p)'
  <2>1. CASE pc'[p] \in {"list", "done"}
    BY <2>1 DEF PendingOf, Delivering, Replacing, Named, Holding
  <2>2. CASE More(p) /\ NextTarget(p) /\ UNCHANGED pc
    BY <1>0, <1>2, <1>6, <2>2 DEF PendingOf, Deliver, Delivering
  <2>3. CASE pc'[p] = "resolve" /\ UNCHANGED <<position, formatted>>
    BY <1>0, <1>6, <2>3 DEF Deliver, Pending, PendingOf, Delivering
  <2> QED
    BY <1>0, <1>6, <2>1, <2>2, <2>3 DEF Deliver, TypeOK
<1>7. ASSUME NEW p \in Runs,
             ResolveTarget(p) \/ CreateTemp(p) \/ SetMode(p) \/ WriteTemp(p) \/ SyncTemp(p)
      PROVE  PendingOf(p)'
  BY <1>0, <1>7 DEF ResolveTarget, CreateTemp, SetMode, WriteTemp, SyncTemp, Call, CallFails,
     TypeOK, Pending, PendingOf, Delivering, Replacing, Named, Holding
<1>8. ASSUME NEW p \in Runs, Rename(p) PROVE PendingOf(p)'
  <2>1. pc[p] \in Delivering /\ More(p)
    BY <1>8 DEF Rename, Call, CallFails, Control, ControlOf, Delivering, Replacing, Named,
       Holding
  <2>2. CASE NextTarget(p) /\ Goto(p, "deliver")
    BY <1>0, <1>2, <1>8, <2>1, <2>2 DEF Rename, Call, CallFails, PendingOf, TypeOK
  <2>3. CASE Call(p, "rename", "cleanup")
    BY <1>0, <2>1, <2>3 DEF Call, TypeOK, Pending, PendingOf, Delivering, Replacing, Named,
       Holding
  <2> QED
    BY <1>8, <2>2, <2>3 DEF Rename, CallFails
<1>9. ASSUME NEW p \in Runs, Cleanup(p) \/ List(p) PROVE PendingOf(p)'
  BY <1>0, <1>9 DEF Cleanup, List, TypeOK, PendingOf, Delivering, Replacing, Named, Holding
<1>10. ASSUME NEW f \in Files, Save(f) \/ Delete(f), NEW q \in Runs PROVE PendingOf(q)'
  BY <1>0, <1>10, OwnerSteps DEF Pending, PendingOf
<1>11. ASSUME PowerLoss, NEW q \in Runs PROVE PendingOf(q)'
  BY <1>0, <1>11, PowerSteps DEF Pending, PendingOf, Delivering, Replacing, Named, Holding, Idle
<1>12. ASSUME NEW p \in Runs, Start(p) \/ Step(p) \/ Kill(p) \/ ClosePipe(p)
       PROVE  PendingOf(p)'
  BY <1>3, <1>4, <1>5, <1>6, <1>7, <1>8, <1>9, <1>12 DEF Step
<1> QED
  BY <1>1, <1>10, <1>11, <1>12 DEF Next, Pending

LEMMA MemoryStep ==
    ASSUME MemoryInv, Next
    PROVE  MemoryInv'
  BY TypeStep, ControlStep, LiveStep, PendingStep DEF MemoryInv

-----------------------------------------------------------------------------
(* Disk: what a step may do to names and inodes.                           *)

Opens(p) ==
    /\ pc[p] = "create" /\ pc'[p] = "chmod" /\ edits' = edits
    /\ entry' = [entry EXCEPT ![Temp(p)] = Own(p)]
    /\ inode' = [inode EXCEPT ![Own(p)] = inode'[Own(p)]]
Writes(p) ==
    /\ pc[p] \in {"chmod", "write", "sync"} /\ UNCHANGED <<entry, edits>>
    /\ inode' = [inode EXCEPT ![Own(p)] = inode'[Own(p)]]
Moves(p) ==
    /\ pc[p] = "rename" /\ pc'[p] = "deliver" /\ UNCHANGED <<inode, edits, sources>>
    /\ entry' = [entry EXCEPT ![Resolve[Path(p)]] = entry[Temp(p)], ![Temp(p)] = None]
Removes(p) ==
    /\ pc[p] = "cleanup" /\ UNCHANGED <<inode, edits>>
    /\ entry' = [entry EXCEPT ![Temp(p)] = None]

LEMMA DiskCases ==
    ASSUME MemoryInv, NEW p \in Runs, Start(p) \/ Step(p) \/ Kill(p) \/ ClosePipe(p)
    PROVE  UNCHANGED disk \/ Opens(p) \/ Writes(p) \/ Moves(p) \/ Removes(p)
<1> USE DEF MemoryInv, At, Goto, Exit, disk
<1>0. TypeOK
  OBVIOUS
<1>1. CASE Start(p) \/ Kill(p) \/ ClosePipe(p) \/ Read(p) \/ Format(p) \/ Deliver(p)
  BY <1>1 DEF Start, Kill, ClosePipe, Read, Format, Deliver
<1>2. CASE ResolveTarget(p) \/ List(p)
  BY <1>2 DEF ResolveTarget, List
<1>3. CASE CreateTemp(p)
  <2>1. Own(p) \in Inodes
    BY <1>3, PathFacts DEF CreateTemp, Call, CallFails, Control, ControlOf, Replacing, Named
  <2> QED
    BY <1>0, <1>3, <2>1 DEF CreateTemp, Call, CallFails, Opens, TypeOK
<1>4. CASE SetMode(p) \/ WriteTemp(p) \/ SyncTemp(p)
  <2>1. Own(p) \in Inodes
    BY <1>4, PathFacts DEF SetMode, WriteTemp, SyncTemp, Call, CallFails, Control, ControlOf,
       Replacing, Named, Holding
  <2>2. UNCHANGED <<inode, entry>> \/ inode' = [inode EXCEPT ![Own(p)] = inode'[Own(p)]]
    BY <1>0, <1>4, <2>1 DEF SetMode, WriteTemp, SyncTemp, CallFails, TypeOK
  <2> QED
    BY <1>4, <2>2 DEF SetMode, WriteTemp, SyncTemp, Call, CallFails, Writes
<1>5. CASE Rename(p)
  BY <1>0, <1>5 DEF Rename, Call, CallFails, Moves, TypeOK
<1>6. CASE Cleanup(p)
  BY <1>6 DEF Cleanup, Removes
<1> QED
  BY <1>1, <1>2, <1>3, <1>4, <1>5, <1>6 DEF Step

\* Temporaries are opened in target order, one at a time.
LEMMA UnopenedStep ==
    ASSUME MemoryInv, Next, NEW q \in Runs
    PROVE  /\ Unopened(q)' \subseteq Unopened(q)
           /\ Opens(q) => position[q] \notin Unopened(q)'
<1> USE DEF MemoryInv, At, Goto, Exit, Advance, NextTarget
<1>0. /\ TypeOK /\ Targets' = Targets /\ position[q] \in Nat
      /\ DOMAIN Targets[q] \subseteq Nat
  BY SettingSame, SettingFacts DEF Next, TypeOK
<1>1. CASE pc'[q] = pc[q] /\ position'[q] = position[q]
  BY <1>0, <1>1 DEF Unopened, Opens
<1>2. CASE pc[q] \in Before
  <2>1. pc[q] # "create"
    BY <1>2 DEF Before
  <2> QED
    BY <1>0, <1>2, <2>1 DEF Unopened, Opens
<1>3. CASE /\ pc[q] \notin Before /\ pc'[q] \notin Before
           /\ \/ position'[q] = position[q] + 1
              \/ /\ position'[q] = position[q]
                 /\ \/ pc'[q] \notin {"deliver", "resolve", "create"}
                    \/ pc[q] \in {"deliver", "resolve", "create"}
  <2>1. pc[q] = "create" /\ pc'[q] = "chmod" =>
           position'[q] = position[q] \/ position'[q] = position[q] + 1
    BY <1>3
  <2> QED
    BY <1>0, <1>3, <2>1 DEF Unopened, Opens
<1>4. ASSUME NEW p \in Runs, Start(p) \/ Step(p) \/ Kill(p) \/ ClosePipe(p), q # p
      PROVE  pc'[q] = pc[q] /\ position'[q] = position[q]
  BY <1>0, <1>4, OtherRuns
<1>5. ASSUME NEW f \in Files, Save(f) \/ Delete(f)
      PROVE  pc'[q] = pc[q] /\ position'[q] = position[q]
  BY <1>0, <1>5, OwnerSteps
<1>6. ASSUME PowerLoss
      PROVE  position'[q] = position[q] /\ pc'[q] \in {pc[q], "killed"}
  BY <1>0, <1>6, PowerSteps
<1>7. CASE Start(q) \/ Read(q) \/ Format(q)
  BY <1>2, <1>7 DEF Start, Read, Format, Before
<1>8. CASE Kill(q) \/ ClosePipe(q)
  <2>1. position'[q] = position[q] /\ pc'[q] \in {pc[q], "killed"}
    BY <1>0, <1>8 DEF Kill, ClosePipe, TypeOK
  <2> QED
    BY <1>1, <1>2, <1>3, <2>1 DEF Before
<1>9. CASE Deliver(q) \/ ResolveTarget(q) \/ CreateTemp(q) \/ List(q)
  <2>1. /\ pc[q] \in {"deliver", "resolve", "create", "list"}
        /\ pc'[q] \in {"deliver", "resolve", "create", "chmod", "cleanup", "list", "done"}
        /\ pc'[q] \in {"deliver", "resolve", "create"} => pc[q] \in {"deliver", "resolve", "create"}
        /\ position'[q] \in {position[q], position[q] + 1}
    BY <1>0, <1>9 DEF Deliver, ResolveTarget, CreateTemp, List, Call, CallFails, TypeOK
  <2> QED
    BY <1>3, <2>1 DEF Before
<1>10. CASE SetMode(q) \/ WriteTemp(q) \/ SyncTemp(q) \/ Cleanup(q)
  <2>1. /\ pc[q] \in {"chmod", "write", "sync", "cleanup"}
        /\ pc'[q] \in {"write", "sync", "rename", "cleanup", "done"}
        /\ position'[q] = position[q]
    BY <1>0, <1>10 DEF SetMode, WriteTemp, SyncTemp, Cleanup, Call, CallFails, TypeOK
  <2> QED
    BY <1>3, <2>1 DEF Before
<1>11. CASE Rename(q)
  <2>1. /\ pc[q] = "rename"
        /\ \/ pc'[q] = "deliver" /\ position'[q] = position[q] + 1
           \/ pc'[q] = "cleanup" /\ position'[q] = position[q]
    BY <1>0, <1>11 DEF Rename, Call, CallFails, TypeOK
  <2> QED
    BY <1>3, <2>1 DEF Before
<1>12. CASE PowerLoss
  BY <1>1, <1>2, <1>3, <1>6, <1>12 DEF Before
<1> QED
  BY <1>1, <1>4, <1>5, <1>7, <1>8, <1>9, <1>10, <1>11, <1>12 DEF Next, Step

LEMMA SourcesGenuineStep ==
    ASSUME MemoryInv, DiskInv, Next
    PROVE  SourcesGenuine'
<1> USE DEF MemoryInv, DiskInv, disk, results
<1>0. TypeOK /\ edits \in Nat /\ edits' \in Nat
  BY TypeStep DEF TypeOK, Versions
<1>1. CASE UNCHANGED sources
  <2>1. edits' >= edits
    <3>1. ASSUME NEW p \in Runs, Start(p) \/ Step(p) \/ Kill(p) \/ ClosePipe(p)
          PROVE  edits' = edits
      BY <3>1, DiskCases DEF Opens, Writes, Moves, Removes
    <3>2. ASSUME NEW f \in Files, Save(f) \/ Delete(f) PROVE edits' = edits + 1
      BY <3>2 DEF Save, Delete
    <3> QED
      BY <1>0, <3>1, <3>2, PowerSteps DEF Next
  <2>2. ASSUME NEW p \in Runs, NEW q \in Paths, sources[p][q] # None
        PROVE  Genuine(sources[p][q], Resolve[q])'
    <3>1. sources[p][q].version \in Nat /\ Genuine(sources[p][q], Resolve[q])
      BY <1>0, <2>2 DEF TypeOK, Text, Versions, SourcesGenuine
    <3> QED
      BY <1>0, <1>1, <2>1, <3>1 DEF Genuine
  <2> QED
    BY <1>1, <2>2 DEF SourcesGenuine
<1>2. ASSUME NEW p \in Runs, Read(p), ~UNCHANGED sources PROVE SourcesGenuine'
  <2>1. /\ More(p) /\ entry[Resolve[Path(p)]] # None /\ UNCHANGED <<inode, edits>>
        /\ sources' = [sources EXCEPT ![p][Path(p)] = inode[entry[Resolve[Path(p)]]].text]
    BY <1>2 DEF Read
  <2>2. Path(p) \in Paths /\ Resolve[Path(p)] \in Files
    BY <2>1, PathFacts
  <2>3. Genuine(inode[entry[Resolve[Path(p)]]].text, Resolve[Path(p)])
    BY <2>1, <2>2 DEF FilesGenuine, Present, Held
  <2> QED
    BY <1>0, <2>1, <2>2, <2>3 DEF SourcesGenuine, Genuine, TypeOK
<1> QED
  BY <1>1, <1>2 DEF Next, Step, Start, Kill, ClosePipe, Format, Deliver, ResolveTarget,
     CreateTemp, SetMode, WriteTemp, SyncTemp, Rename, Cleanup, List, Call, CallFails, Save,
     Delete, PowerLoss

\* What the temporary of a run about to rename holds.
LEMMA ReadyTemp ==
    ASSUME MemoryInv, DiskInv, NEW p \in Runs, pc[p] = "rename"
    PROVE  /\ More(p) /\ Resolve[Path(p)] \in Files /\ Temp(p) \in Names \ Files
           /\ entry[Temp(p)] = Own(p) /\ Own(p) # None
           /\ Genuine(inode[Own(p)].text, Resolve[Path(p)]) /\ inode[Own(p)].text.formatted
           /\ inode[Own(p)].mode = "original" /\ inode[Own(p)].synced
<1>1. TypeOK /\ Control /\ pc[p] \in Named /\ pc[p] \in Holding /\ pc[p] \in Replacing
  BY DEF MemoryInv, Named, Holding, Replacing
<1>2. More(p) /\ Temp(p) \in Names \ Files
  BY <1>1, TempFacts
<1>3. Resolve[Path(p)] \in Files /\ Path(p) \in Paths /\ Own(p) # None
  BY <1>1, <1>2, PathFacts
<1>4. /\ entry[Temp(p)] = Own(p) /\ inode[Own(p)].text = Output(sources[p][Path(p)])
      /\ inode[Own(p)].mode = "original" /\ inode[Own(p)].synced
  BY <1>1 DEF DiskInv, OwnTemp, OwnTempOf
<1>5. sources[p][Path(p)] # None
  BY <1>1 DEF Control, ControlOf, FreeForm
<1>6. sources[p][Path(p)] \in Text /\ Genuine(sources[p][Path(p)], Resolve[Path(p)])
  BY <1>1, <1>3, <1>5 DEF TypeOK, DiskInv, SourcesGenuine
<1>7. Genuine(Output(sources[p][Path(p)]), Resolve[Path(p)])
      /\ Output(sources[p][Path(p)]).formatted
  BY <1>6 DEF Genuine, Output, Text
<1> QED
  BY <1>2, <1>3, <1>4, <1>7

\* Only a rename puts another text into a file; the other steps of a run,
\* and power loss, leave it as it is.
LEMMA FilesUntouched ==
    ASSUME MemoryInv, DiskInv, NEW p \in Runs,
           UNCHANGED disk \/ Opens(p) \/ Writes(p) \/ Removes(p) \/ PowerLoss,
           NEW f \in Files
    PROVE  /\ entry'[f] = entry[f] /\ edits' = edits
           /\ entry[f] # None => inode'[entry[f]] = inode[entry[f]]
<1> USE DEF MemoryInv, DiskInv, disk
<1>0. TypeOK /\ Control /\ f \in Names /\ (entry[f] # None => entry[f] \in Inodes)
  BY DEF TypeOK, Names
<1>1. CASE UNCHANGED disk
  BY <1>1
<1>2. CASE Opens(p) \/ Writes(p)
  <2>1. pc[p] \in Named /\ More(p) /\ Temp(p) \notin Files
    BY <1>2, <1>0, TempFacts DEF Opens, Writes, Named, Holding
  <2>2. entry'[f] = entry[f]
    BY <1>0, <1>2, <2>1 DEF Opens, Writes, TypeOK
  <2>3. entry[f] # Own(p)
    <3>1. CASE Opens(p)
      <4>1. position[p] \in Unopened(p) /\ Own(p) = <<p, Targets[p][position[p]]>>
        BY <1>0, <2>1, <3>1, PathFacts DEF Unopened, Opens, Own, Path, Before
      <4> QED
        BY <1>0, <4>1 DEF NotYetNamed
    <3>2. CASE Writes(p)
      <4>1. entry[Temp(p)] = Own(p) /\ Own(p) # None /\ Temp(p) \in Names \ Files
        BY <1>0, <2>1, <3>2, TempFacts, PathFacts DEF Writes, OwnTemp, OwnTempOf, Holding
      <4> QED
        BY <1>0, <4>1 DEF OneName
    <3> QED
      BY <1>2, <3>1, <3>2
  <2> QED
    BY <1>0, <1>2, <2>2, <2>3 DEF Opens, Writes, TypeOK
<1>3. CASE Removes(p)
  <2>1. Temp(p) \notin Files
    BY <1>0, <1>3, TempFacts DEF Removes, Named
  <2> QED
    BY <1>0, <1>3, <2>1 DEF Removes, TypeOK
<1>4. CASE PowerLoss
  <2>1. entry[f] # None => inode[entry[f]].synced
    BY DEF FilesGenuine, Present, Held
  <2> QED
    BY <1>0, <1>4, <2>1 DEF PowerLoss, TypeOK
<1> QED
  BY <1>1, <1>2, <1>3, <1>4

\* What a rename puts into the target, and what it leaves alone.
LEMMA MoveEffect ==
    ASSUME MemoryInv, DiskInv, NEW p \in Runs, Moves(p)
    PROVE  /\ More(p) /\ Path(p) \in Paths /\ Resolve[Path(p)] \in Files
           /\ Temp(p) \in Names \ Files
           /\ Genuine(inode[Own(p)].text, Resolve[Path(p)]) /\ inode[Own(p)].text.formatted
           /\ inode[Own(p)].mode = "original" /\ inode[Own(p)].synced
           /\ Own(p) \in Inodes /\ Own(p) # None
           /\ \A n \in Names : entry'[n] = IF n = Temp(p) THEN None
                                           ELSE IF n = Resolve[Path(p)] THEN Own(p)
                                           ELSE entry[n]
<1>1. /\ More(p) /\ Resolve[Path(p)] \in Files /\ Temp(p) \in Names \ Files
      /\ entry[Temp(p)] = Own(p) /\ Own(p) # None
      /\ Genuine(inode[Own(p)].text, Resolve[Path(p)]) /\ inode[Own(p)].text.formatted
      /\ inode[Own(p)].mode = "original" /\ inode[Own(p)].synced
  BY ReadyTemp DEF Moves
<1>2. Own(p) \in Inodes /\ Path(p) \in Paths
  BY <1>1, PathFacts DEF MemoryInv
<1>3. \A n \in Names : entry'[n] = IF n = Temp(p) THEN None
                                   ELSE IF n = Resolve[Path(p)] THEN Own(p)
                                   ELSE entry[n]
  BY <1>1 DEF Moves, MemoryInv, TypeOK
<1> QED
  BY <1>1, <1>2, <1>3

\* What a save puts into the file, and what it leaves alone.
LEMMA SaveEffect ==
    ASSUME MemoryInv, DiskInv, NEW e \in Files, Save(e)
    PROVE  /\ entry' = entry /\ edits' = edits + 1 /\ Present(e)
           /\ inode'[entry[e]].text = Saved(e, edits') /\ inode'[entry[e]].synced
           /\ inode'[entry[e]].mode = inode[entry[e]].mode
           /\ \A f \in Files : f # e /\ Present(f) => inode'[entry[f]] = inode[entry[f]]
<1>0. TypeOK /\ Files \subseteq Names
  BY DEF MemoryInv, Names
<1>1. /\ entry' = entry /\ edits' = edits + 1 /\ entry[e] # None /\ entry[e] \in Inodes
      /\ inode' = [inode EXCEPT ![entry[e]].text = Saved(e, edits'),
                                ![entry[e]].synced = TRUE]
  BY <1>0 DEF Save, TypeOK
<1>2. /\ inode'[entry[e]].text = Saved(e, edits') /\ inode'[entry[e]].synced
      /\ inode'[entry[e]].mode = inode[entry[e]].mode
  BY <1>0, <1>1 DEF TypeOK, Inode
<1>3. ASSUME NEW f \in Files, f # e, Present(f)
      PROVE  inode'[entry[f]] = inode[entry[f]]
  <2>1. entry[f] # entry[e] /\ entry[f] \in Inodes
    BY <1>0, <1>1, <1>3 DEF DiskInv, OneName, TypeOK, Present
  <2> QED
    BY <1>0, <1>1, <2>1 DEF TypeOK
<1> QED
  BY <1>1, <1>2, <1>3 DEF Present

LEMMA FilesGenuineStep ==
    ASSUME MemoryInv, DiskInv, Next
    PROVE  FilesGenuine'
<1> USE DEF Present, Held
<1> DEFINE Good(f) == Present(f) =>
              Genuine(Held(f).text, f) /\ Held(f).mode = "original" /\ Held(f).synced
<1>0. /\ TypeOK /\ edits \in Nat /\ Files \subseteq Names
      /\ \A i \in Inodes : inode[i] \in Inode /\ inode[i].text.version \in Nat
  BY DEF MemoryInv, TypeOK, Versions, Names, Inode, Text
<1>1. \A f \in Files : Good(f)
  BY DEF DiskInv, FilesGenuine
<1>2. ASSUME NEW p \in Runs,
             UNCHANGED disk \/ Opens(p) \/ Writes(p) \/ Removes(p) \/ PowerLoss,
             NEW f \in Files
      PROVE  Good(f)'
  BY <1>1, <1>2, FilesUntouched DEF Genuine
<1>3. ASSUME NEW p \in Runs, Moves(p), NEW f \in Files PROVE Good(f)'
  <2>1. entry'[f] = IF f = Resolve[Path(p)] THEN Own(p) ELSE entry[f]
    BY <1>0, <1>3, MoveEffect
  <2>2. inode' = inode /\ edits' = edits
    BY <1>3 DEF Moves
  <2> QED
    BY <1>1, <1>3, <2>1, <2>2, MoveEffect DEF Genuine
<1>4. ASSUME NEW e \in Files, Save(e), NEW f \in Files PROVE Good(f)'
  <2>1. CASE f = e
    <3>1. /\ entry' = entry /\ entry[e] # None
          /\ inode'[entry[e]].text = Saved(e, edits') /\ inode'[entry[e]].synced
          /\ inode'[entry[e]].mode = inode[entry[e]].mode
      BY <1>4, SaveEffect
    <3>2. Genuine(Saved(e, edits), e)'
      <4>1. edits' \in Nat
        BY <1>0, <1>4 DEF Save
      <4> QED
        BY <4>1 DEF Genuine, Saved
    <3> QED
      BY <1>1, <2>1, <3>1, <3>2 DEF Genuine
  <2>2. CASE f # e
    <3>1. Present(f) => entry[f] \in Inodes
      BY <1>0 DEF TypeOK
    <3> QED
      BY <1>0, <1>1, <1>4, <2>2, <3>1, SaveEffect DEF Genuine
  <2> QED
    BY <2>1, <2>2
<1>5. ASSUME NEW e \in Files, Delete(e), NEW f \in Files PROVE Good(f)'
  <2>1. /\ inode' = inode /\ edits' = edits + 1
        /\ entry'[f] = IF f = e THEN None ELSE entry[f]
    BY <1>0, <1>5 DEF Delete, TypeOK
  <2>2. entry[f] # None => entry[f] \in Inodes
    BY <1>0 DEF TypeOK
  <2> QED
    BY <1>0, <1>1, <2>1, <2>2 DEF Genuine
<1>6. ASSUME NEW p \in Runs, Start(p) \/ Step(p) \/ Kill(p) \/ ClosePipe(p)
      PROVE  FilesGenuine'
  BY <1>2, <1>3, <1>6, DiskCases DEF FilesGenuine
<1>7. ASSUME PowerLoss PROVE FilesGenuine'
  <2>1. PICK p \in Runs : TRUE
    BY <1>7 DEF PowerLoss
  <2> QED
    BY <1>2, <1>7, <2>1 DEF FilesGenuine
<1> QED
  BY <1>4, <1>5, <1>6, <1>7 DEF Next, FilesGenuine

LEMMA NamesStep ==
    ASSUME MemoryInv, DiskInv, Next
    PROVE  OneName' /\ NotYetNamed'
<1> USE DEF MemoryInv, DiskInv, disk
<1>0. /\ TypeOK /\ Control /\ Files \subseteq Names /\ Names' = Names /\ Targets' = Targets
  BY SettingSame DEF TypeOK, Names, Next
<1>t. \A q \in Runs : Unopened(q)' \subseteq Unopened(q)
  BY UnopenedStep
\* Names lost, and nothing else.
<1>1. ASSUME \A n \in Names : entry'[n] \in {entry[n], None}
      PROVE  OneName' /\ NotYetNamed'
  <2>1. OneName'
    BY <1>0, <1>1 DEF OneName
  <2>2. ASSUME NEW q \in Runs, NEW k \in Unopened(q)', NEW n \in Names
        PROVE  entry'[n] # <<q, Targets[q][k]>>
    <3>1. k \in Unopened(q) /\ k \in DOMAIN Targets[q]
      BY <1>t, <2>2 DEF Unopened
    <3>2. entry[n] # <<q, Targets[q][k]>>
      BY <3>1 DEF NotYetNamed
    <3>3. <<q, Targets[q][k]>> # None
      <4>1. Targets[q][k] \in Paths
        BY <1>0, <3>1, SettingFacts DEF TypeOK
      <4> QED
        BY <4>1, FileRunAssumption
    <3> QED
      BY <1>1, <3>2, <3>3
  <2> QED
    BY <1>0, <2>1, <2>2 DEF NotYetNamed
<1>2. ASSUME NEW p \in Runs, Opens(p) PROVE OneName' /\ NotYetNamed'
  <2>1. /\ pc[p] \in Named /\ More(p) /\ Temp(p) \in Names
        /\ position[p] \in DOMAIN Targets[p] /\ Own(p) # None
    BY <1>0, <1>2, TempFacts, PathFacts DEF Opens, Named
  <2>2. position[p] \in Unopened(p) /\ Own(p) = <<p, Targets[p][position[p]]>>
    BY <1>2, <2>1 DEF Unopened, Opens, Own, Path, Before
  <2>3. \A n \in Names : entry[n] # Own(p)
    BY <2>2 DEF NotYetNamed
  <2>4. \A n \in Names : entry'[n] = IF n = Temp(p) THEN Own(p) ELSE entry[n]
    BY <1>0, <1>2, <2>1 DEF Opens, TypeOK
  <2>5. OneName'
    BY <1>0, <2>3, <2>4 DEF OneName
  <2>6. ASSUME NEW q \in Runs, NEW k \in Unopened(q)', NEW n \in Names
        PROVE  entry'[n] # <<q, Targets[q][k]>>
    <3>1. k \in Unopened(q) /\ k \in DOMAIN Targets[q]
      BY <1>t, <2>6 DEF Unopened
    <3>2. entry[n] # <<q, Targets[q][k]>>
      BY <3>1 DEF NotYetNamed
    <3>3. CASE q = p
      <4>1. k # position[p]
        BY <1>2, <2>6, <3>3, UnopenedStep
      <4>2. Targets[p][k] # Targets[p][position[p]]
        BY <1>0, <2>1, <3>1, <3>3, <4>1, SettingFacts DEF TypeOK, IsInjective
      <4> QED
        BY <2>2, <2>4, <3>2, <3>3, <4>2
    <3>4. CASE q # p
      BY <2>2, <2>4, <3>2, <3>4
    <3> QED
      BY <3>3, <3>4
  <2> QED
    BY <1>0, <2>5, <2>6 DEF NotYetNamed
<1>3. ASSUME NEW p \in Runs, Moves(p) PROVE OneName' /\ NotYetNamed'
  <2>1. /\ More(p) /\ Resolve[Path(p)] \in Files /\ Temp(p) \in Names \ Files
    BY <1>3, ReadyTemp DEF Moves
  <2>2. \A n \in Names : entry'[n] = IF n = Temp(p) THEN None
                                     ELSE IF n = Resolve[Path(p)] THEN entry[Temp(p)]
                                     ELSE entry[n]
    BY <1>0, <1>3, <2>1 DEF Moves, TypeOK
  <2>3. OneName'
    BY <1>0, <2>1, <2>2 DEF OneName
  <2>4. ASSUME NEW q \in Runs, NEW k \in Unopened(q)', NEW n \in Names
        PROVE  entry'[n] # <<q, Targets[q][k]>>
    <3>1. k \in Unopened(q) /\ k \in DOMAIN Targets[q]
      BY <1>t, <2>4 DEF Unopened
    <3>2. \A m \in Names : entry[m] # <<q, Targets[q][k]>>
      BY <3>1 DEF NotYetNamed
    <3>3. <<q, Targets[q][k]>> # None
      <4>1. Targets[q][k] \in Paths
        BY <1>0, <3>1, SettingFacts DEF TypeOK
      <4> QED
        BY <4>1, FileRunAssumption
    <3> QED
      BY <1>0, <2>1, <2>2, <3>2, <3>3
  <2> QED
    BY <1>0, <2>3, <2>4 DEF NotYetNamed
<1>4. ASSUME NEW p \in Runs, Start(p) \/ Step(p) \/ Kill(p) \/ ClosePipe(p)
      PROVE  OneName' /\ NotYetNamed'
  <2>1. UNCHANGED disk \/ Opens(p) \/ Writes(p) \/ Moves(p) \/ Removes(p)
    BY <1>4, DiskCases
  <2>2. CASE UNCHANGED disk \/ Writes(p) \/ Removes(p)
    <3>1. \A n \in Names : entry'[n] \in {entry[n], None}
      BY <1>0, <2>2 DEF Writes, Removes, TypeOK
    <3> QED
      BY <1>1, <3>1
  <2> QED
    BY <1>2, <1>3, <2>1, <2>2
<1>5. ASSUME NEW f \in Files, Save(f) \/ Delete(f) PROVE OneName' /\ NotYetNamed'
  <2>1. \A n \in Names : entry'[n] \in {entry[n], None}
    BY <1>0, <1>5 DEF Save, Delete, TypeOK
  <2> QED
    BY <1>1, <2>1
<1>6. ASSUME PowerLoss PROVE OneName' /\ NotYetNamed'
  <2>1. \A n \in Names : entry'[n] \in {entry[n], None}
    BY <1>6 DEF PowerLoss
  <2> QED
    BY <1>1, <2>1
<1> QED
  BY <1>4, <1>5, <1>6 DEF Next

LEMMA OwnTempStep ==
    ASSUME MemoryInv, DiskInv, Next
    PROVE  OwnTemp'
<1> USE DEF MemoryInv, DiskInv, disk
<1>0. /\ TypeOK /\ Control /\ Targets' = Targets /\ Pid' = Pid
      /\ \A q \in Runs : OwnTempOf(q)
  BY SettingSame DEF Next, OwnTemp
\* What keeps the temporary of a run as it is.
<1>1. ASSUME NEW q \in Runs,
             /\ pc'[q] = pc[q] /\ position'[q] = position[q] /\ sources'[q] = sources[q]
             /\ number'[q] = number[q],
             pc[q] \in Holding =>
                entry'[Temp(q)] = entry[Temp(q)] /\ inode'[Own(q)] = inode[Own(q)]
      PROVE  OwnTempOf(q)'
  <2>1. Temp(q)' = Temp(q) /\ Path(q)' = Path(q) /\ Own(q)' = Own(q)
    BY <1>0, <1>1 DEF Temp, Path, Own
  <2> QED
    BY <1>0, <1>1, <2>1 DEF OwnTempOf
\* Another run works on another temporary.
<1>2. ASSUME NEW p \in Runs, Start(p) \/ Step(p) \/ Kill(p) \/ ClosePipe(p),
             NEW q \in Runs, q # p
      PROVE  OwnTempOf(q)'
  <2>1. /\ pc'[q] = pc[q] /\ position'[q] = position[q] /\ sources'[q] = sources[q]
        /\ number'[q] = number[q]
    BY <1>0, <1>2, OtherRuns
  <2>2. UNCHANGED disk \/ Opens(p) \/ Writes(p) \/ Moves(p) \/ Removes(p)
    BY <1>2, DiskCases
  <2>3. ASSUME pc[q] \in Holding
        PROVE  entry'[Temp(q)] = entry[Temp(q)] /\ inode'[Own(q)] = inode[Own(q)]
    <3>1. pc[q] \in Named
      BY <2>3 DEF Named
    <3>2. Temp(q) \in Names /\ Temp(q) \notin Files
      BY <1>0, <3>1, TempFacts
    <3>3. More(q) /\ Own(q) \in Inodes
      BY <1>0, <3>1, TempFacts, PathFacts
    <3>4. pc[p] \in Named => Temp(q) # Temp(p)
      BY <1>0, <1>2, <3>1, TempFacts
    <3>5. Own(q) # Own(p)
      BY <1>2 DEF Own
    <3>6. CASE UNCHANGED disk
      BY <3>6
    <3>7. CASE Opens(p) \/ Writes(p)
      BY <1>0, <3>2, <3>3, <3>4, <3>5, <3>7 DEF Opens, Writes, Named, TypeOK
    <3>8. CASE Moves(p)
      <4>1. Resolve[Path(p)] \in Files /\ pc[p] \in Named
        BY <3>8, ReadyTemp DEF Moves, Named, Holding
      <4> QED
        BY <1>0, <3>2, <3>4, <3>8, <4>1 DEF Moves, TypeOK
    <3>9. CASE Removes(p)
      BY <1>0, <3>2, <3>4, <3>9 DEF Removes, Named, TypeOK
    <3> QED
      BY <2>2, <3>6, <3>7, <3>8, <3>9
  <2> QED
    BY <1>1, <2>1, <2>3
<1>3. ASSUME NEW p \in Runs, pc'[p] \notin Holding PROVE OwnTempOf(p)'
  BY <1>3 DEF OwnTempOf
<1>4. ASSUME NEW p \in Runs, CreateTemp(p) PROVE OwnTempOf(p)'
  <2>1. CASE pc'[p] = "chmod"
    <3>1. /\ UNCHANGED <<position, number>>
          /\ entry' = [entry EXCEPT ![Temp(p)] = Own(p)] /\ pc[p] \in Named
      BY <1>0, <1>4, <2>1 DEF CreateTemp, Call, CallFails, At, Goto, TypeOK, Named
    <3>2. Temp(p) \in Names /\ Temp(p)' = Temp(p) /\ Own(p)' = Own(p)
      BY <1>0, <3>1, TempFacts DEF Temp, Own, Path
    <3> QED
      BY <1>0, <2>1, <3>1, <3>2 DEF OwnTempOf, TypeOK
  <2>2. CASE pc'[p] = "cleanup"
    BY <1>3, <2>2 DEF Holding
  <2> QED
    BY <1>0, <1>4, <2>1, <2>2 DEF CreateTemp, Call, CallFails, Goto, TypeOK
<1>5. ASSUME NEW p \in Runs, SetMode(p) \/ WriteTemp(p) \/ SyncTemp(p) PROVE OwnTempOf(p)'
  <2>1. CASE pc'[p] = "cleanup"
    BY <1>3, <2>1 DEF Holding
  <2>2. CASE pc'[p] # "cleanup"
    <3>1. /\ pc[p] \in {"chmod", "write", "sync"} /\ pc[p] \in Holding /\ pc[p] \in Named
          /\ pc[p] \in Delivering
      BY <1>5 DEF SetMode, WriteTemp, SyncTemp, Call, CallFails, At, Holding, Named,
         Delivering, Replacing
    <3>2. More(p) /\ Own(p) \in Inodes /\ inode[Own(p)] \in Inode
      BY <1>0, <3>1, TempFacts, PathFacts DEF TypeOK
    <3>3. FreeForm(p, Path(p)) /\ ResultOf(sources[p][Path(p)]) # None
      BY <1>0, <3>1 DEF Control, ControlOf, Replacing
    <3>4. Result(p) = Output(sources[p][Path(p)])
      BY <1>0, <3>1, <3>2, <3>3, ResultAtHand
    <3>5. /\ UNCHANGED <<position, number, sources, entry>>
          /\ \/ /\ pc[p] = "chmod" /\ pc'[p] = "write"
                /\ inode' = [inode EXCEPT ![Own(p)].mode = "original"]
             \/ /\ pc[p] = "write" /\ pc'[p] = "sync"
                /\ inode' = [inode EXCEPT ![Own(p)].text = Result(p)]
             \/ /\ pc[p] = "sync" /\ pc'[p] = "rename"
                /\ inode' = [inode EXCEPT ![Own(p)].synced = TRUE]
      BY <1>0, <1>5, <2>2 DEF SetMode, WriteTemp, SyncTemp, Call, CallFails, At, Goto, TypeOK,
         results
    <3>6. Temp(p)' = Temp(p) /\ Own(p)' = Own(p) /\ Path(p)' = Path(p)
      BY <1>0, <3>5 DEF Temp, Own, Path
    <3>7. CASE pc[p] = "chmod"
      <4>1. inode'[Own(p)].mode = "original"
        BY <1>0, <3>2, <3>5, <3>7 DEF TypeOK, Inode
      <4> QED
        BY <1>0, <3>1, <3>5, <3>6, <3>7, <4>1 DEF OwnTempOf
    <3>8. CASE pc[p] = "write"
      <4>1. /\ inode'[Own(p)].text = Output(sources[p][Path(p)])
            /\ inode'[Own(p)].mode = inode[Own(p)].mode
        BY <1>0, <3>2, <3>4, <3>5, <3>8 DEF TypeOK, Inode
      <4> QED
        BY <1>0, <3>1, <3>5, <3>6, <3>8, <4>1 DEF OwnTempOf
    <3>9. CASE pc[p] = "sync"
      <4>1. /\ inode'[Own(p)].text = inode[Own(p)].text /\ inode'[Own(p)].synced
            /\ inode'[Own(p)].mode = inode[Own(p)].mode
        BY <1>0, <3>2, <3>5, <3>9 DEF TypeOK, Inode
      <4> QED
        BY <1>0, <3>1, <3>5, <3>6, <3>9, <4>1 DEF OwnTempOf
    <3> QED
      BY <3>1, <3>7, <3>8, <3>9
  <2> QED
    BY <2>1, <2>2
<1>6. ASSUME NEW p \in Runs, Start(p) \/ Read(p) \/ Format(p) \/ Deliver(p) PROVE OwnTempOf(p)'
  <2>1. pc'[p] \in {"read", "format", "deliver", "resolve", "list", "done"}
    BY <1>0, <1>6 DEF Start, Read, Format, Deliver, Goto, Exit, At, TypeOK
  <2> QED
    BY <1>3, <2>1 DEF Holding
<1>7. ASSUME NEW p \in Runs, ResolveTarget(p) \/ Rename(p) \/ Cleanup(p) \/ List(p) \/ Kill(p)
      PROVE  OwnTempOf(p)'
  <2>1. pc'[p] \in {"create", "deliver", "cleanup", "done", "killed"}
    BY <1>0, <1>7 DEF ResolveTarget, Rename, Cleanup, List, Kill, Call, CallFails, Goto, Exit,
       At, TypeOK
  <2> QED
    BY <1>3, <2>1 DEF Holding
<1>8. ASSUME NEW p \in Runs, ClosePipe(p) PROVE OwnTempOf(p)'
  BY <1>1, <1>8 DEF ClosePipe, results
<1>9. ASSUME NEW f \in Files, Save(f) \/ Delete(f), NEW q \in Runs PROVE OwnTempOf(q)'
  <2>1. /\ pc'[q] = pc[q] /\ position'[q] = position[q] /\ sources'[q] = sources[q]
        /\ number'[q] = number[q]
    BY <1>0, <1>9, OwnerSteps
  <2>2. ASSUME pc[q] \in Holding
        PROVE  entry'[Temp(q)] = entry[Temp(q)] /\ inode'[Own(q)] = inode[Own(q)]
    <3>1. Temp(q) \in Names /\ Temp(q) \notin Files /\ f \in Names
      BY <1>0, <2>2, TempFacts DEF Named, Names
    <3>2. Own(q) # None /\ Own(q) \in Inodes /\ entry[Temp(q)] = Own(q)
      BY <1>0, <2>2, TempFacts, PathFacts DEF Named, OwnTempOf
    <3>3. entry[f] # Own(q)
      BY <3>1, <3>2 DEF OneName
    <3> QED
      BY <1>0, <1>9, <3>1, <3>2, <3>3 DEF Save, Delete, TypeOK
  <2> QED
    BY <1>1, <2>1, <2>2
<1>10. ASSUME PowerLoss, NEW q \in Runs PROVE OwnTempOf(q)'
  <2>1. pc'[q] \in Idle
    BY <1>0, <1>10, PowerSteps DEF Idle
  <2> QED
    BY <1>3, <2>1 DEF Idle, Holding
<1>11. ASSUME NEW p \in Runs, Start(p) \/ Step(p) \/ Kill(p) \/ ClosePipe(p)
       PROVE  OwnTempOf(p)'
  BY <1>4, <1>5, <1>6, <1>7, <1>8, <1>11 DEF Step
<1> QED
  BY <1>2, <1>9, <1>10, <1>11 DEF Next, OwnTemp

LEMMA InitDisk == Init => DiskInv
<1> SUFFICES ASSUME Init PROVE DiskInv
  OBVIOUS
<1>1. TypeOK /\ Names' = Names' /\ Files \subseteq Names
  BY InitMemory DEF MemoryInv, Names
<1>2. \A n \in Names : entry[n] # None => n \in Files /\ entry[n] = n
  BY DEF Init
<1>3. SourcesGenuine /\ OwnTemp
  BY DEF Init, SourcesGenuine, OwnTemp, OwnTempOf, Holding
<1>4. FilesGenuine
  <2>1. \A f \in Files : /\ entry[f] = f /\ inode[f].text = Saved(f, 0)
                          /\ inode[f].synced /\ inode[f].mode = "original"
    BY <1>1 DEF Init, Inodes
  <2>2. \A f \in Files : Genuine(Saved(f, 0), f)
    BY DEF Init, Genuine, Saved
  <2> QED
    BY <2>1, <2>2 DEF FilesGenuine, Held
<1>5. OneName
  BY <1>2 DEF OneName
<1>6. NotYetNamed
  <2>1. ASSUME NEW p \in Runs, NEW k \in Unopened(p), NEW n \in Names
        PROVE  entry[n] # <<p, Targets[p][k]>>
    <3>1. k \in DOMAIN Targets[p]
      BY <2>1 DEF Unopened
    <3>2. Targets[p][k] \in Paths
      BY <1>1, <3>1, SettingFacts DEF TypeOK
    <3>3. <<p, Targets[p][k]>> \notin Files /\ <<p, Targets[p][k]>> # None
      BY <3>2, FileRunAssumption
    <3> QED
      BY <1>2, <3>3
  <2> QED
    BY <2>1 DEF NotYetNamed
<1> QED
  BY <1>3, <1>4, <1>5, <1>6 DEF DiskInv

\* The invariant of the system's memory and disk.
LEMMA BaseInvariant == Spec => [](MemoryInv /\ DiskInv)
<1>1. Init => MemoryInv /\ DiskInv
  BY InitMemory, InitDisk
<1>2. MemoryInv /\ DiskInv /\ [Next]_vars => (MemoryInv /\ DiskInv)'
  <2> SUFFICES ASSUME MemoryInv, DiskInv, [Next]_vars
               PROVE  MemoryInv' /\ DiskInv'
    OBVIOUS
  <2>1. CASE Next
    BY <2>1, MemoryStep, SourcesGenuineStep, FilesGenuineStep, NamesStep, OwnTempStep
       DEF DiskInv
  <2>2. CASE UNCHANGED vars
    <3>1. UNCHANGED <<setting, inode, entry, edits, pc, position, sources, formatted, number,
                      changed, replaced, printed, stray, open, status>>
      BY <2>2 DEF vars
    <3>2. Targets' = Targets /\ Pid' = Pid /\ Names' = Names /\ Temps' = Temps
      BY <3>1, SettingSame
    <3>3. MemoryInv'
      BY <3>1, <3>2 DEF MemoryInv, TypeOK, Control, ControlOf, Live, Pending, PendingOf, More,
         FreeForm, Path
    <3>4. DiskInv'
      BY <3>1, <3>2 DEF DiskInv, SourcesGenuine, FilesGenuine, Genuine, OneName, NotYetNamed,
         Unopened, OwnTemp, OwnTempOf, Temp, Own, Path, Present, Held
    <3> QED
      BY <3>3, <3>4
  <2> QED
    BY <2>1, <2>2
<1> QED
  BY <1>1, <1>2, PTL DEF Spec

\* Through any interleaving of runs, edits, failing calls, kills and power
\* loss a file that exists holds one whole text, under its own mode bits.
THEOREM TargetsAlwaysWhole == Spec => []TargetsWhole
<1>1. MemoryInv /\ DiskInv => TargetsWhole
  BY DEF DiskInv, FilesGenuine, Genuine, TargetsWhole
<1> QED
  BY <1>1, BaseInvariant, PTL

-----------------------------------------------------------------------------
(* The refinement: a rename is the one step that replaces a text, and the  *)
(* text it puts in place is the formatted form of one the file held.       *)

LEMMA SeenSaved ==
    ASSUME NEW f, NEW v
    PROVE  Seen(Saved(f, v)) = [of |-> f, version |-> v, formatted |-> FALSE]
  BY DEF Seen, Saved

\* What is shown of a file, which is always whole.
LEMMA ShownIs ==
    ASSUME FilesGenuine, NEW f \in Files
    PROVE  Shown[f] = IF Present(f) THEN Seen(Held(f).text) ELSE None
  BY DEF FilesGenuine, Genuine, Shown

LEMMA StoreInit == Init => Store!Init
<1> SUFFICES ASSUME Init PROVE Store!Init
  OBVIOUS
<1>1. FilesGenuine /\ MemoryInv
  BY InitMemory, InitDisk DEF DiskInv
<1>2. \A f \in Files : Present(f) /\ Held(f).text = Saved(f, 0)
  <2>1. \A f \in Files : /\ entry[f] = f /\ inode[f].text = Saved(f, 0) /\ f # None
    BY FileRunAssumption DEF Init, Inodes, Names
  <2> QED
    BY <2>1 DEF Present, Held
<1>3. ASSUME NEW f \in Files
      PROVE  Shown[f] = [of |-> f, version |-> 0, formatted |-> FALSE]
  BY <1>1, <1>2, ShownIs, SeenSaved
<1>4. Shown = [f \in Files |-> [of |-> f, version |-> 0, formatted |-> FALSE]]
  BY <1>3 DEF Shown
<1> QED
  BY <1>4 DEF Init, Store!Init

LEMMA StoreStep ==
    ASSUME MemoryInv, DiskInv, MemoryInv', DiskInv', Next
    PROVE  Store!Next \/ UNCHANGED <<Shown, edits>>
<1>0. /\ FilesGenuine /\ FilesGenuine' /\ TypeOK /\ TypeOK' /\ edits \in Nat
      /\ DOMAIN Shown = Files /\ DOMAIN Shown' = Files
  BY DEF MemoryInv, DiskInv, Shown, TypeOK, Versions
<1>s. /\ Shown = [f \in Files |-> Shown[f]] /\ Shown' = [f \in Files |-> Shown'[f]]
  BY DEF Shown
<1>1. \A f \in Files : /\ Shown[f] = IF Present(f) THEN Seen(Held(f).text) ELSE None
                       /\ Shown'[f] = IF Present(f)' THEN Seen(Held(f).text)' ELSE None
  <2> TAKE f \in Files
  <2>1. Shown[f] = IF Present(f) THEN Seen(Held(f).text) ELSE None
    BY <1>0, ShownIs
  <2>2. Shown'[f] = IF Present(f)' THEN Seen(Held(f).text)' ELSE None
    BY <1>0 DEF FilesGenuine, Genuine, Shown
  <2> QED
    BY <2>1, <2>2
<1>2. ASSUME NEW p \in Runs,
             UNCHANGED disk \/ Opens(p) \/ Writes(p) \/ Removes(p) \/ PowerLoss
      PROVE  UNCHANGED <<Shown, edits>>
  <2>1. edits' = edits
    BY <1>2 DEF disk, Opens, Writes, Removes, PowerLoss
  <2>2. ASSUME NEW f \in Files PROVE Shown'[f] = Shown[f]
    <3>1. Present(f)' = Present(f) /\ (Present(f) => Held(f)' = Held(f))
      BY <1>2, FilesUntouched DEF Present, Held
    <3> QED
      BY <1>1, <3>1 DEF Seen
  <2>3. Shown' = Shown
    BY <1>s, <2>2
  <2> QED
    BY <2>1, <2>3
<1>3. ASSUME NEW p \in Runs, Moves(p) PROVE Store!Next
  <2> DEFINE e == Resolve[Path(p)]
             x == inode[Own(p)].text
  <2>1. e \in Files /\ Genuine(x, e) /\ x.formatted /\ Own(p) # None /\ x \in Text
    BY <1>0, <1>3, MoveEffect DEF TypeOK, Inode
  <2>2. \A f \in Files : entry'[f] = IF f = e THEN Own(p) ELSE entry[f]
    BY <1>3, MoveEffect DEF Names
  <2>3. inode' = inode /\ edits' = edits
    BY <1>3 DEF Moves
  <2>4. x.version \in 0..edits /\ Seen(x) = [of |-> e, version |-> x.version, formatted |-> TRUE]
    BY <1>0, <2>1 DEF Genuine, Text, Versions, Seen
  <2>5. \A f \in Files : Shown'[f] = IF f = e THEN Seen(x) ELSE Shown[f]
    <3> TAKE f \in Files
    <3>1. CASE f = e
      <4>1. Present(f)' /\ Held(f)'.text = x
        BY <2>1, <2>2, <2>3, <3>1 DEF Present, Held
      <4> QED
        BY <1>1, <3>1, <4>1 DEF Seen
    <3>2. CASE f # e
      <4>1. Present(f)' = Present(f) /\ Held(f)' = Held(f)
        BY <2>2, <2>3, <3>2 DEF Present, Held
      <4> QED
        BY <1>1, <3>2, <4>1 DEF Seen
    <3> QED
      BY <3>1, <3>2
  <2>6. Shown' = [Shown EXCEPT ![e] = [of |-> e, version |-> x.version, formatted |-> TRUE]]
    BY <1>0, <1>s, <2>1, <2>4, <2>5
  <2> HIDE DEF e, x
  <2>7. Store!Replace(e)
    BY <2>3, <2>4, <2>6 DEF Store!Replace
  <2> QED
    BY <2>1, <2>7 DEF Store!Next
<1>4. ASSUME NEW e \in Files, Save(e) PROVE Store!Next
  <2>1. edits < MaxEdits /\ edits' = edits + 1
    BY <1>4 DEF Save
  <2>2. ASSUME NEW f \in Files
        PROVE  Shown'[f] = IF f = e THEN [of |-> e, version |-> edits', formatted |-> FALSE]
                           ELSE Shown[f]
    <3>1. CASE f = e
      <4>1. Present(f)' /\ Held(f)'.text = Saved(e, edits')
        BY <1>4, <3>1, SaveEffect DEF Present, Held
      <4>2. Seen(Held(f).text)' = Seen(Saved(e, edits'))
        BY <4>1 DEF Seen
      <4> QED
        BY <1>1, <3>1, <4>1, <4>2, SeenSaved
    <3>2. CASE f # e
      <4>1. Present(f)' = Present(f) /\ (Present(f) => Held(f)' = Held(f))
        BY <1>4, <3>2, SaveEffect DEF Present, Held
      <4> QED
        BY <1>1, <3>2, <4>1 DEF Seen
    <3> QED
      BY <3>1, <3>2
  <2>3. Shown' = [Shown EXCEPT ![e] = [of |-> e, version |-> edits', formatted |-> FALSE]]
    BY <1>0, <1>s, <2>2
  <2>4. Store!Save(e)
    BY <2>1, <2>3 DEF Store!Save
  <2> QED
    BY <2>4 DEF Store!Next
<1>5. ASSUME NEW e \in Files, Delete(e) PROVE Store!Next
  <2>1. edits < MaxEdits /\ edits' = edits + 1 /\ inode' = inode
    BY <1>5 DEF Delete
  <2>2. \A f \in Files : entry'[f] = IF f = e THEN None ELSE entry[f]
    BY <1>0, <1>5 DEF Delete, TypeOK, Names
  <2>3. \A f \in Files : Shown'[f] = IF f = e THEN None ELSE Shown[f]
    BY <1>1, <2>1, <2>2 DEF Present, Held, Seen
  <2>4. Shown' = [Shown EXCEPT ![e] = None]
    BY <1>0, <1>s, <2>3
  <2>5. Store!Delete(e)
    BY <2>1, <2>4 DEF Store!Delete
  <2> QED
    BY <2>5 DEF Store!Next
<1>6. ASSUME NEW p \in Runs, Start(p) \/ Step(p) \/ Kill(p) \/ ClosePipe(p)
      PROVE  Store!Next \/ UNCHANGED <<Shown, edits>>
  BY <1>2, <1>3, <1>6, DiskCases
<1>7. ASSUME PowerLoss PROVE UNCHANGED <<Shown, edits>>
  <2>1. PICK p \in Runs : TRUE
    BY <1>7 DEF PowerLoss
  <2> QED
    BY <1>2, <1>7, <2>1
<1> QED
  BY <1>4, <1>5, <1>6, <1>7 DEF Next

\* In-place formatting as its users may think of it: each file is replaced
\* in one step, by the formatted form of a text it held, whatever is
\* interleaved, fails or is killed.
THEOREM FileRunImplementsFileStore == Spec => ImplementsFileStore
<1>1. Init => Store!Init
  BY StoreInit
<1>2. /\ MemoryInv /\ DiskInv /\ (MemoryInv /\ DiskInv)' /\ [Next]_vars
      => [Store!Next]_<<Shown, edits>>
  <2> SUFFICES ASSUME MemoryInv, DiskInv, MemoryInv', DiskInv', [Next]_vars
               PROVE  Store!Next \/ UNCHANGED <<Shown, edits>>
    OBVIOUS
  <2>1. CASE UNCHANGED vars
    BY <2>1 DEF vars, Shown, Present, Held, Seen
  <2> QED
    BY <2>1, StoreStep
<1> QED
  BY <1>1, <1>2, BaseInvariant, PTL DEF Spec, ImplementsFileStore, Store!Spec

-----------------------------------------------------------------------------
(* Temporaries: each one with a name is some run's, or is on record as     *)
(* having resisted its removal.                                            *)

\* Where a name of a temporary may come from in a step.
LEMMA TempNames ==
    ASSUME MemoryInv, DiskInv, Next, NEW t \in Temps, entry'[t] # None
    PROVE  \/ entry[t] # None /\ \A p \in Runs : Moves(p) \/ Removes(p) => t # Temp(p)
           \/ \E p \in Runs : Opens(p) /\ t = Temp(p)
<1> USE DEF MemoryInv, disk
<1>0. TypeOK /\ t \in Names /\ Temps \cap Files = {}
  BY TempsAreNotFiles DEF TypeOK, Names
<1>1. ASSUME NEW p \in Runs, Moves(p) \/ Removes(p) PROVE t # Temp(p)
  <2>1. CASE Moves(p)
    BY <2>1, <1>0, MoveEffect
  <2>2. CASE Removes(p)
    BY <2>2, <1>0 DEF Removes, TypeOK
  <2> QED
    BY <1>1, <2>1, <2>2
<1>2. ASSUME NEW p \in Runs, Start(p) \/ Step(p) \/ Kill(p) \/ ClosePipe(p)
      PROVE  entry[t] # None \/ (Opens(p) /\ t = Temp(p))
  <2>1. CASE UNCHANGED disk \/ Writes(p)
    BY <2>1 DEF Writes
  <2>2. CASE Opens(p)
    BY <1>0, <2>2 DEF Opens, TypeOK
  <2>3. CASE Moves(p)
    BY <1>0, <2>3, MoveEffect
  <2>4. CASE Removes(p)
    BY <1>0, <2>4 DEF Removes, TypeOK
  <2> QED
    BY <1>2, <2>1, <2>2, <2>3, <2>4, DiskCases
<1>3. ASSUME NEW f \in Files, Save(f) \/ Delete(f) PROVE entry[t] # None
  BY <1>0, <1>3 DEF Save, Delete, TypeOK
<1> QED
  BY <1>1, <1>2, <1>3, PowerSteps DEF Next

\* A run keeps its temporary until it renames it, removes it or is killed.
LEMMA OwnersStay ==
    ASSUME MemoryInv, Next, NEW p \in Runs, pc[p] \in Holding \cup {"cleanup"}
    PROVE  \/ pc'[p] = "killed" \/ Moves(p) \/ Cleanup(p)
           \/ /\ pc'[p] \in Holding \cup {"cleanup"} /\ Temp(p)' = Temp(p)
              /\ pc'[p] = "cleanup" => pc[p] = "cleanup" \/ "Io" \in Faults
                                       \/ entry[Temp(p)] = None
<1> USE DEF MemoryInv, At, Goto
<1>0. TypeOK /\ Targets' = Targets /\ Pid' = Pid
  BY SettingSame DEF Next
<1>1. ASSUME pc'[p] = pc[p] /\ position'[p] = position[p] /\ number'[p] = number[p]
      PROVE  pc'[p] \in Holding \cup {"cleanup"} /\ Temp(p)' = Temp(p)
  BY <1>0, <1>1 DEF Temp, Path
<1>2. ASSUME NEW q \in Runs, Start(q) \/ Step(q) \/ Kill(q) \/ ClosePipe(q), q # p
      PROVE  pc'[p] = pc[p] /\ position'[p] = position[p] /\ number'[p] = number[p]
  BY <1>0, <1>2, OtherRuns
<1>3. ASSUME Start(p) \/ Kill(p) \/ ClosePipe(p)
      PROVE  \/ pc'[p] = "killed"
             \/ pc'[p] = pc[p] /\ position'[p] = position[p] /\ number'[p] = number[p]
  BY <1>0, <1>3 DEF Start, Kill, ClosePipe, Holding, TypeOK
<1>4. ASSUME Step(p)
      PROVE  SetMode(p) \/ WriteTemp(p) \/ SyncTemp(p) \/ Rename(p) \/ Cleanup(p)
  BY <1>4 DEF Step, Read, Format, Deliver, ResolveTarget, CreateTemp, List, Call, CallFails,
     Holding
<1>5. ASSUME SetMode(p) \/ WriteTemp(p) \/ SyncTemp(p) \/ (Rename(p) /\ ~Moves(p))
      PROVE  /\ pc'[p] \in Holding \cup {"cleanup"} /\ Temp(p)' = Temp(p)
             /\ pc'[p] = "cleanup" => "Io" \in Faults \/ entry[Temp(p)] = None
  <2>1. position'[p] = position[p] /\ number'[p] = number[p]
    BY <1>0, <1>5 DEF SetMode, WriteTemp, SyncTemp, Rename, Call, CallFails, Moves, TypeOK
  <2>2. /\ pc'[p] \in {"write", "sync", "rename", "cleanup"}
        /\ pc'[p] = "cleanup" => "Io" \in Faults \/ entry[Temp(p)] = None
    BY <1>0, <1>5 DEF SetMode, WriteTemp, SyncTemp, Rename, Call, CallFails, Moves, TypeOK
  <2> QED
    BY <1>0, <2>1, <2>2 DEF Temp, Path, Holding
<1>6. ASSUME NEW f \in Files, Save(f) \/ Delete(f)
      PROVE  pc'[p] = pc[p] /\ position'[p] = position[p] /\ number'[p] = number[p]
  BY <1>0, <1>6, OwnerSteps
<1>7. ASSUME PowerLoss PROVE pc'[p] = "killed"
  BY <1>0, <1>7, PowerSteps DEF Idle, Holding
<1> QED
  BY <1>1, <1>2, <1>3, <1>4, <1>5, <1>6, <1>7 DEF Next

\* The dead stay dead.
LEMMA KilledStays ==
    ASSUME MemoryInv, Next, NEW p \in Runs, pc[p] = "killed"
    PROVE  pc'[p] = "killed"
<1>0. TypeOK
  BY DEF MemoryInv
<1>1. ~(Start(p) \/ Step(p) \/ Kill(p) \/ ClosePipe(p))
  BY DEF Start, Step, Kill, ClosePipe, Read, Format, Deliver, ResolveTarget, CreateTemp,
     SetMode, WriteTemp, SyncTemp, Rename, Cleanup, List, Call, CallFails, At, Idle
<1>2. ASSUME NEW q \in Runs, Start(q) \/ Step(q) \/ Kill(q) \/ ClosePipe(q)
      PROVE  pc'[p] = pc[p]
  BY <1>0, <1>1, <1>2, OtherRuns
<1> QED
  BY <1>0, <1>2, OwnerSteps, PowerSteps DEF Next, Idle

LEMMA StrayStep ==
    ASSUME MemoryInv, DiskInv, StrayInv, Next
    PROVE  StrayInv'
<1> SUFFICES ASSUME \A p \in Runs : pc'[p] # "killed",
                    NEW t \in Temps, entry'[t] # None
             PROVE  t \in stray' \/ \E p \in Runs : OwnedBy(p, t)'
  BY SettingSame DEF StrayInv, Next
<1>0. TypeOK /\ \A p \in Runs : pc[p] # "killed"
  BY KilledStays DEF MemoryInv
<1>1. CASE \E p \in Runs : Opens(p) /\ t = Temp(p)
  <2>1. PICK p \in Runs : Opens(p) /\ t = Temp(p)
    BY <1>1
  <2>2. CreateTemp(p) \/ UNCHANGED pc
    <3>1. \A q \in Runs : q # p /\ (Start(q) \/ Step(q) \/ Kill(q) \/ ClosePipe(q))
                          => pc'[p] = pc[p]
      BY <1>0, OtherRuns
    <3>2. Start(p) \/ Step(p) \/ Kill(p) \/ ClosePipe(p) => CreateTemp(p)
      BY <1>0, <2>1 DEF Opens, Start, Step, Kill, ClosePipe, Read, Format, Deliver,
         ResolveTarget, SetMode, WriteTemp, SyncTemp, Rename, Cleanup, List, Call, CallFails,
         At, Goto, TypeOK
    <3> QED
      BY <1>0, <2>1, <3>1, <3>2, OwnerSteps, PowerSteps DEF Next, Opens
  <2>3. CreateTemp(p) /\ UNCHANGED <<position, number>>
    BY <2>1, <2>2 DEF Opens, CreateTemp, Call, CallFails
  <2>4. Temp(p)' = Temp(p) /\ pc'[p] = "chmod"
    BY <2>1, <2>3, SettingSame DEF Next, Temp, Path, Opens
  <2> QED
    BY <2>1, <2>4 DEF OwnedBy, Holding
<1>2. CASE entry[t] # None /\ \A p \in Runs : Moves(p) \/ Removes(p) => t # Temp(p)
  <2>1. ASSUME NEW p \in Runs, Cleanup(p)
        PROVE  \/ t # Temp(p) /\ stray' = stray \ {Temp(p)}
               \/ stray' = stray \cup {Temp(p)}
    BY <1>2, <2>1 DEF Cleanup, Removes, At
  <2>2. (\A p \in Runs : ~Cleanup(p)) => stray' = stray
    BY <1>0, OwnerSteps, PowerSteps DEF Next, Start, Step, Kill, ClosePipe, Read, Format,
       Deliver, ResolveTarget, CreateTemp, SetMode, WriteTemp, SyncTemp, Rename, List, Call,
       CallFails
  <2>3. CASE t \in stray
    BY <2>1, <2>2, <2>3
  <2>4. ASSUME NEW p \in Runs, OwnedBy(p, t)
        PROVE  t \in stray' \/ OwnedBy(p, t)'
    <3>1. ~Moves(p) /\ (Cleanup(p) => t \in stray')
      BY <1>2, <2>1, <2>4 DEF OwnedBy
    <3> QED
      BY <2>4, <3>1, OwnersStay DEF OwnedBy
  <2>5. t \in stray \/ \E p \in Runs : OwnedBy(p, t)
    BY <1>0, <1>2 DEF StrayInv
  <2> QED
    BY <2>3, <2>4, <2>5
<1> QED
  BY <1>1, <1>2, TempNames

\* A run that ends by itself leaves no temporary, its own or one it met,
\* unless the removal failed.
THEOREM NoStrayTempsEver == Spec => []NoStrayTemps
<1>1. Init => StrayInv
  BY TempsAreNotFiles DEF Init, StrayInv, Names
<1>2. MemoryInv /\ DiskInv /\ StrayInv /\ [Next]_vars => StrayInv'
  <2> SUFFICES ASSUME MemoryInv, DiskInv, StrayInv, UNCHANGED vars PROVE StrayInv'
    BY StrayStep
  <2> QED
    BY SettingSame DEF vars, StrayInv, OwnedBy, Temp, Path
<1>3. StrayInv => NoStrayTemps
  BY DEF StrayInv, NoStrayTemps, OwnedBy, Holding
<1> QED
  BY <1>1, <1>2, <1>3, BaseInvariant, PTL DEF Spec

LEMMA DisturbStep ==
    ASSUME MemoryInv, DiskInv, DisturbInv, Next
    PROVE  DisturbInv'
<1> SUFFICES ASSUME Undisturbed'
             PROVE  /\ \A f \in Files : Present(f)'
                    /\ \A p \in Runs : pc'[p] # "cleanup" /\ status'[p] # "io"
                    /\ \A t \in Temps : entry'[t] # None =>
                          \E p \in Runs : (pc[p] \in Holding /\ t = Temp(p))'
  BY SettingSame DEF DisturbInv, Next
<1>0. TypeOK /\ Control /\ Live /\ edits \in Nat /\ Files \subseteq Names
  BY DEF MemoryInv, TypeOK, Versions, Names
<1>1. Undisturbed /\ edits' = edits /\ "Io" \notin Faults
  <2>1. \A f \in Files : ~Save(f) /\ ~Delete(f)
    BY <1>0 DEF Undisturbed, Save, Delete
  <2>2. edits' = edits
    BY <1>0, <2>1, DiskCases, PowerSteps DEF Next, Opens, Writes, Moves, Removes, disk
  <2>3. \A p \in Runs : pc[p] # "killed"
    BY KilledStays DEF Undisturbed
  <2> QED
    BY <2>2, <2>3, SettingSame DEF Undisturbed, Next
<1>2. /\ \A f \in Files : Present(f)
      /\ \A p \in Runs : pc[p] # "cleanup" /\ status[p] # "io"
      /\ \A t \in Temps : entry[t] # None =>
            \E p \in Runs : pc[p] \in Holding /\ t = Temp(p)
  BY <1>1 DEF DisturbInv
<1>3. \E p \in Runs : Start(p) \/ Step(p) \/ ClosePipe(p)
  <2>1. ~PowerLoss
    <3>1. ASSUME PowerLoss PROVE FALSE
      <4>1. PICK p \in Runs : pc[p] \notin Idle
        BY <3>1 DEF PowerLoss
      <4> QED
        BY <1>0, <3>1, <4>1, PowerSteps DEF Undisturbed
    <3> QED
      BY <3>1
  <2>2. \A p \in Runs : ~Kill(p)
    BY <1>0 DEF Kill, Goto, TypeOK, Undisturbed
  <2>3. \A f \in Files : ~Save(f) /\ ~Delete(f)
    BY <1>0, <1>1 DEF Save, Delete
  <2> QED
    BY <2>1, <2>2, <2>3 DEF Next
<1>4. PICK p \in Runs : Start(p) \/ Step(p) \/ ClosePipe(p)
  BY <1>3
<1>5. ASSUME NEW f \in Files PROVE Present(f)'
  <2>1. CASE Moves(p)
    BY <1>0, <1>2, <2>1, MoveEffect DEF Present
  <2>2. CASE ~Moves(p)
    <3>1. entry'[f] = entry[f]
      BY <1>4, <2>2, DiskCases, FilesUntouched
    <3> QED
      BY <1>2, <3>1 DEF Present
  <2> QED
    BY <2>1, <2>2
<1>6. pc[p] = "create" => entry[Temp(p)] = None
  <2> SUFFICES ASSUME pc[p] = "create", entry[Temp(p)] # None PROVE FALSE
    OBVIOUS
  <2>1. pc[p] \in Named /\ Temp(p) \in Temps
    BY <1>0, TempFacts DEF Named
  <2>2. PICK q \in Runs : pc[q] \in Holding /\ Temp(p) = Temp(q)
    BY <1>2, <2>1
  <2>3. q # p /\ pc[q] \in Named
    BY <2>2 DEF Holding, Named
  <2> QED
    BY <1>0, <2>1, <2>2, <2>3, TempFacts
<1>7. pc[p] = "rename" => entry[Temp(p)] # None
  BY ReadyTemp
<1>8. pc[p] = "resolve" => entry[Resolve[Path(p)]] # None
  <2>1. pc[p] = "resolve" => Resolve[Path(p)] \in Files
    BY <1>0, PathFacts DEF Control, ControlOf, Replacing
  <2> QED
    BY <1>2, <2>1 DEF Present
<1>9. pc'[p] # "cleanup" /\ status'[p] # "io"
  <2> USE DEF At, Goto, Exit, TypeOK
  <2>1. CASE Start(p) \/ ClosePipe(p)
    BY <1>0, <1>2, <2>1 DEF Start, ClosePipe
  <2>2. CASE Read(p)
    BY <1>0, <1>1, <1>2, <2>2 DEF Read
  <2>3. CASE Format(p)
    BY <1>0, <1>2, <2>3 DEF Format
  <2>4. CASE Deliver(p)
    BY <1>0, <1>2, <2>4 DEF Deliver
  <2>5. CASE ResolveTarget(p) \/ Cleanup(p)
    BY <1>0, <1>1, <1>2, <1>8, <2>5 DEF ResolveTarget, Cleanup
  <2>6. CASE CreateTemp(p)
    BY <1>0, <1>1, <1>2, <1>6, <2>6 DEF CreateTemp, Call, CallFails
  <2>7. CASE SetMode(p) \/ WriteTemp(p) \/ SyncTemp(p)
    BY <1>0, <1>1, <1>2, <2>7 DEF SetMode, WriteTemp, SyncTemp, Call, CallFails
  <2>8. CASE Rename(p)
    BY <1>0, <1>1, <1>2, <1>7, <2>8 DEF Rename, Call, CallFails
  <2>9. CASE List(p)
    BY <1>0, <1>2, <2>9 DEF List
  <2> QED
    BY <1>4, <2>1, <2>2, <2>3, <2>4, <2>5, <2>6, <2>7, <2>8, <2>9 DEF Step
<1>10. \A q \in Runs : pc'[q] # "cleanup" /\ status'[q] # "io"
  <2>1. \A q \in Runs : q # p => pc'[q] = pc[q] /\ status'[q] = status[q]
    BY <1>0, <1>4, OtherRuns
  <2> QED
    BY <1>2, <1>9, <2>1
<1>11. ASSUME NEW t \in Temps, entry'[t] # None
       PROVE  \E q \in Runs : (pc[q] \in Holding /\ t = Temp(q))'
  <2>1. CASE \E q \in Runs : Opens(q) /\ t = Temp(q)
    <3>1. PICK q \in Runs : Opens(q) /\ t = Temp(q)
      BY <2>1
    <3>2. q = p
      BY <1>0, <1>4, <3>1, OtherRuns DEF Opens
    <3>3. CreateTemp(p)
      BY <1>0, <1>4, <3>1, <3>2 DEF Opens, Start, Step, ClosePipe, Read, Format, Deliver,
         ResolveTarget, SetMode, WriteTemp, SyncTemp, Rename, Cleanup, List, Call, CallFails,
         At, Goto, TypeOK
    <3>4. UNCHANGED <<position, number>>
      BY <3>3 DEF CreateTemp, Call, CallFails
    <3>5. Temp(p)' = Temp(p)
      BY <3>4, SettingSame DEF Next, Temp, Path
    <3> QED
      BY <3>1, <3>2, <3>5 DEF Opens, Holding
  <2>2. CASE entry[t] # None /\ \A q \in Runs : Moves(q) \/ Removes(q) => t # Temp(q)
    <3>1. PICK q \in Runs : pc[q] \in Holding /\ t = Temp(q)
      BY <1>2, <2>2
    <3>2. ~Moves(q) /\ ~Cleanup(q) /\ pc'[q] # "killed" /\ pc'[q] # "cleanup"
      BY <1>10, <2>2, <3>1 DEF Cleanup, At, Holding, Undisturbed
    <3> QED
      BY <3>1, <3>2, OwnersStay
  <2> QED
    BY <1>11, <2>1, <2>2, TempNames
<1> QED
  BY <1>5, <1>10, <1>11

\* Without edits, failing calls and kills, no run makes another one fail.
THEOREM RunsNeverDisturb == Spec => []RunsDoNotDisturb
<1>1. Init => DisturbInv
  <2> SUFFICES ASSUME Init PROVE DisturbInv
    OBVIOUS
  <2>1. \A f \in Files : entry[f] = f /\ f # None
    BY FileRunAssumption DEF Init, Names
  <2>2. \A t \in Temps : entry[t] = None
    BY TempsAreNotFiles DEF Init, Names
  <2> QED
    BY <2>1, <2>2 DEF Init, DisturbInv, Present
<1>2. MemoryInv /\ DiskInv /\ DisturbInv /\ [Next]_vars => DisturbInv'
  <2> SUFFICES ASSUME MemoryInv, DiskInv, DisturbInv, UNCHANGED vars PROVE DisturbInv'
    BY DisturbStep
  <2> QED
    BY SettingSame DEF vars, DisturbInv, Undisturbed, Present, Temp, Path
<1>3. DisturbInv => RunsDoNotDisturb
  BY DEF DisturbInv, Undisturbed, RunsDoNotDisturb
<1> QED
  BY <1>1, <1>2, <1>3, BaseInvariant, PTL DEF Spec

-----------------------------------------------------------------------------
(* Success: what an in-place run that ends ok has achieved.                *)

\* Unless somebody edits, no file goes and a formatted one stays formatted.
LEMMA NoEdit ==
    ASSUME MemoryInv, DiskInv, Next, edits' = 0
    PROVE  /\ edits = 0
           /\ \A f \in Files : Present(f) =>
                 Present(f)' /\ (f \in Finished => f \in Finished')
           /\ \A f \in Files : ~Save(f) /\ ~Delete(f)
<1>0. TypeOK /\ edits \in Nat /\ Files \subseteq Names
  BY DEF MemoryInv, TypeOK, Versions, Names
<1>1. \A f \in Files : ~Save(f) /\ ~Delete(f)
  BY <1>0 DEF Save, Delete
<1>2. ASSUME NEW p \in Runs,
             UNCHANGED disk \/ Opens(p) \/ Writes(p) \/ Removes(p) \/ PowerLoss,
             NEW f \in Files, Present(f)
      PROVE  edits = 0 /\ Present(f)' /\ (f \in Finished => f \in Finished')
  BY <1>2, FilesUntouched DEF Present, Finished, Held
<1>3. ASSUME NEW p \in Runs, Moves(p), NEW f \in Files, Present(f)
      PROVE  Present(f)' /\ (f \in Finished => f \in Finished')
  <2>1. entry'[f] = IF f = Resolve[Path(p)] THEN Own(p) ELSE entry[f]
    BY <1>0, <1>3, MoveEffect
  <2>2. inode' = inode
    BY <1>3 DEF Moves
  <2> QED
    BY <1>3, <2>1, <2>2, MoveEffect DEF Present, Finished, Held
<1>4. CASE PowerLoss
  <2>1. PICK p \in Runs : TRUE
    BY <1>4 DEF PowerLoss
  <2>2. edits = 0
    BY <1>4 DEF PowerLoss
  <2> QED
    BY <1>1, <1>2, <1>4, <2>1, <2>2
<1>5. ASSUME NEW p \in Runs, Start(p) \/ Step(p) \/ Kill(p) \/ ClosePipe(p)
      PROVE  edits = 0 /\ \A f \in Files : Present(f) =>
                 Present(f)' /\ (f \in Finished => f \in Finished')
  <2>1. UNCHANGED disk \/ Opens(p) \/ Writes(p) \/ Moves(p) \/ Removes(p)
    BY <1>5, DiskCases
  <2>2. edits = 0
    BY <2>1 DEF disk, Opens, Writes, Moves, Removes
  <2> QED
    BY <1>2, <1>3, <2>1, <2>2
<1> QED
  BY <1>1, <1>4, <1>5 DEF Next

\* A result is missing just where the text was formatted when it was read.
LEMMA ResultNone ==
    ASSUME TypeOK, NEW p \in Runs, NEW q \in Paths, sources[p][q] # None
    PROVE  (ResultOf(sources[p][q]) = None) = sources[p][q].formatted
<1>1. sources[p][q] \in Text
  BY DEF TypeOK
<1> QED
  BY <1>1, TextFacts

LEMMA SuccessStep ==
    ASSUME MemoryInv, DiskInv, SuccessInv, Next
    PROVE  SuccessInv'
<1> SUFFICES ASSUME edits' = 0
             PROVE  (\A f \in Files : Present(f)') /\ (\A p \in Runs : SuccessOf(p)')
  BY DEF SuccessInv
<1>0. /\ TypeOK /\ Control /\ Pending /\ Targets' = Targets /\ Delivery' = Delivery
      /\ Targets \in [Runs -> Seq(Paths)]
  BY SettingSame, SettingFacts DEF MemoryInv, TypeOK, Next
<1>1. edits = 0 /\ (\A f \in Files : Present(f)) /\ (\A p \in Runs : SuccessOf(p))
  BY NoEdit DEF SuccessInv
<1>2. /\ \A f \in Files : Present(f)' /\ (f \in Finished => f \in Finished')
      /\ \A f \in Files : ~Save(f) /\ ~Delete(f)
  BY <1>1, NoEdit
<1>3. \A q \in Paths : Resolve[q] \in Files
  BY FileRunAssumption
\* A run that reads nothing and passes no target keeps what it has.
<1>4. ASSUME NEW p \in Runs, sources'[p] = sources[p],
             LoadedTo(p)' \subseteq LoadedTo(p),
             \A k \in Passed(p)' : k \in Passed(p) \/ Delivery[p] # "InPlace"
                \/ (Resolve[Targets[p][k]] \notin Fixed => Resolve[Targets[p][k]] \in Finished'),
             \A k \in Passed(p) : k \in DOMAIN Targets[p]
      PROVE  SuccessOf(p)'
  <2>1. ASSUME NEW q \in Paths, sources'[p][q] # None, sources'[p][q].formatted
        PROVE  Resolve[q] \in Finished'
    BY <1>1, <1>2, <1>3, <1>4, <2>1 DEF SuccessOf
  <2>2. ASSUME NEW k \in LoadedTo(p)' PROVE sources'[p][Targets'[p][k]] # None
    BY <1>0, <1>1, <1>4, <2>2 DEF SuccessOf
  <2>3. ASSUME Delivery'[p] = "InPlace", NEW k \in Passed(p)',
               Resolve[Targets'[p][k]] \notin Fixed
        PROVE  Resolve[Targets'[p][k]] \in Finished'
    <3>1. CASE k \in Passed(p)
      <4>1. Resolve[Targets[p][k]] \in Files
        BY <1>0, <1>3, <1>4, <3>1
      <4>2. Resolve[Targets[p][k]] \in Finished
        BY <1>0, <1>1, <2>3, <3>1 DEF SuccessOf
      <4> QED
        BY <1>0, <1>2, <4>1, <4>2
    <3>2. CASE k \notin Passed(p)
      BY <1>0, <1>4, <2>3, <3>2
    <3> QED
      BY <3>1, <3>2
  <2> QED
    BY <2>1, <2>2, <2>3 DEF SuccessOf
<1>p. \A p \in Runs : \A k \in Passed(p) : k \in DOMAIN Targets[p]
  <2> TAKE p \in Runs
  <2>1. position[p] \in Nat /\ position[p] <= Len(Targets[p]) + 1 /\ Len(Targets[p]) \in Nat
    BY <1>0 DEF TypeOK, Control, ControlOf
  <2>2. DOMAIN Targets[p] = 1..Len(Targets[p])
    BY <1>0
  <2> QED
    BY <2>1, <2>2 DEF Passed
\* Nothing but the place of a run has changed, and not to a later target.
<1>5. ASSUME NEW p \in Runs, sources'[p] = sources[p], status'[p] = status[p],
             \/ pc'[p] = pc[p] /\ position'[p] = position[p]
             \/ pc'[p] = "killed"
             \/ pc[p] \in Replacing /\ pc'[p] \in Replacing /\ position'[p] = position[p]
             \/ pc[p] = "deliver" /\ pc'[p] \in {"list", "resolve"} /\ position'[p] = position[p]
             \/ pc[p] = "format" /\ pc'[p] = "format"
             \/ pc[p] = "format" /\ pc'[p] = "deliver" /\ position'[p] = 1
      PROVE  SuccessOf(p)'
  <2>1. LoadedTo(p)' \subseteq LoadedTo(p)
    BY <1>0, <1>5 DEF LoadedTo, Delivering, Replacing, Named, Holding
  <2>2. Passed(p)' \subseteq Passed(p)
    BY <1>0, <1>5 DEF Passed, Delivering, Replacing, Named, Holding
  <2> QED
    BY <1>4, <1>5, <1>p, <2>1, <2>2
\* A run that ends otherwise than ok claims nothing.
<1>6. ASSUME NEW p \in Runs, sources'[p] = sources[p], pc'[p] = "done", status'[p] # "ok"
      PROVE  SuccessOf(p)'
  <2>1. LoadedTo(p)' = {} /\ Passed(p)' = {}
    BY <1>6 DEF LoadedTo, Passed, Delivering, Replacing, Named, Holding
  <2> QED
    BY <1>4, <1>6, <1>p, <2>1
<1>7. ASSUME NEW p \in Runs, Read(p) PROVE SuccessOf(p)'
  <2>1. pc[p] = "read" /\ status[p] = "none" /\ UNCHANGED <<inode, entry>>
    BY <1>0, <1>7 DEF Read, At, disk, Control, ControlOf
  <2>2. CASE ~More(p)
    <3>1. /\ pc'[p] = "format" /\ sources'[p] = sources[p] /\ status'[p] = "none"
      BY <1>0, <1>7, <2>1, <2>2 DEF Read, Goto, TypeOK
    <3>2. LoadedTo(p) = DOMAIN Targets[p] /\ LoadedTo(p)' = DOMAIN Targets[p]
      <4>1. position[p] - 1 = Len(Targets[p])
        BY <1>0, <2>2 DEF More, TypeOK, Control, ControlOf
      <4>2. DOMAIN Targets[p] = 1..Len(Targets[p])
        BY <1>0
      <4> QED
        BY <1>0, <2>1, <3>1, <4>1, <4>2 DEF LoadedTo
    <3>3. Passed(p)' = {}
      BY <3>1 DEF Passed, Delivering, Replacing, Named, Holding
    <3> QED
      BY <1>4, <1>p, <3>1, <3>2, <3>3
  <2>3. CASE pc'[p] = "done"
    <3>1. sources'[p] = sources[p] /\ status'[p] # "ok"
      BY <1>0, <1>7, <2>1, <2>3 DEF Read, Goto, Exit, TypeOK
    <3> QED
      BY <1>6, <2>3, <3>1
  <2>4. CASE More(p) /\ pc'[p] # "done"
    <3> DEFINE f == Resolve[Path(p)]
    <3>1. Path(p) \in Paths /\ f \in Files /\ Path(p) = Targets[p][position[p]]
          /\ position[p] \in Nat
      BY <1>0, <2>4, PathFacts DEF Path, TypeOK
    <3>2. entry[f] # None
      BY <1>1, <3>1 DEF Present
    <3>3. /\ sources' = [sources EXCEPT ![p][Path(p)] = Held(f).text]
          /\ position'[p] = position[p] + 1 /\ pc'[p] = "read" /\ status'[p] = "none"
      BY <1>0, <1>7, <2>1, <2>4, <3>2 DEF Read, Goto, Exit, Advance, TypeOK, Held
    <3>4. \A q \in Paths : sources'[p][q] = IF q = Path(p) THEN Held(f).text ELSE sources[p][q]
      BY <1>0, <3>1, <3>3 DEF TypeOK
    <3>5. Held(f).text # None
      <4>1. Held(f).text \in Text
        BY <1>0, <3>1, <3>2 DEF Held, TypeOK, Names, Inode
      <4> QED
        BY <4>1, TextFacts
    <3>6. ASSUME NEW q \in Paths, sources'[p][q] # None, sources'[p][q].formatted
          PROVE  Resolve[q] \in Finished'
      <4>1. CASE q = Path(p)
        BY <1>2, <3>1, <3>4, <3>6, <4>1 DEF Finished
      <4>2. CASE q # Path(p)
        BY <1>1, <1>2, <1>3, <3>4, <3>6, <4>2 DEF SuccessOf
      <4> QED
        BY <4>1, <4>2
    <3>7. ASSUME NEW k \in LoadedTo(p)' PROVE sources'[p][Targets'[p][k]] # None
      <4>1. k \in 1..position[p]
        BY <3>1, <3>3, <3>7 DEF LoadedTo
      <4>2. Targets[p][k] \in Paths
        BY <1>0, <2>4, <3>1, <4>1, PathFacts DEF More
      <4>3. k = position[p] \/ k \in LoadedTo(p)
        BY <2>1, <3>1, <4>1 DEF LoadedTo
      <4> QED
        BY <1>0, <1>1, <3>1, <3>4, <3>5, <4>2, <4>3 DEF SuccessOf
    <3>8. Passed(p)' = {}
      BY <3>3 DEF Passed, Delivering, Replacing, Named, Holding
    <3> QED
      BY <3>6, <3>7, <3>8 DEF SuccessOf
  <2> QED
    BY <2>2, <2>3, <2>4
<1>8. ASSUME NEW p \in Runs, Format(p) PROVE SuccessOf(p)'
  <2>1. /\ sources'[p] = sources[p] /\ pc[p] = "format"
        /\ \/ pc'[p] = "format" /\ status'[p] = status[p]
           \/ pc'[p] = "deliver" /\ position'[p] = 1 /\ status'[p] = status[p]
           \/ pc'[p] = "done" /\ status'[p] # "ok"
    BY <1>0, <1>8 DEF Format, AddResult, Goto, Exit, At, TypeOK
  <2> QED
    BY <1>5, <1>6, <2>1
<1>9. ASSUME NEW p \in Runs, pc[p] \in Delivering, More(p), position'[p] = position[p] + 1,
             pc'[p] = "deliver", sources'[p] = sources[p], status'[p] = status[p],
             \/ Delivery[p] # "InPlace"
             \/ Resolve[Path(p)] \notin Fixed => Resolve[Path(p)] \in Finished'
      PROVE  SuccessOf(p)'
  <2>1. LoadedTo(p)' \subseteq LoadedTo(p)
    BY <1>0, <1>9 DEF LoadedTo, Delivering, Replacing, Named, Holding
  <2>2. ASSUME NEW k \in Passed(p)' PROVE k \in Passed(p) \/ k = position[p]
    <3>1. position[p] \in Nat /\ status[p] = "none"
      BY <1>0, <1>9 DEF TypeOK, Control, ControlOf, Delivering, Replacing, Named, Holding
    <3>2. k \in 1..position[p]
      BY <1>9, <2>2, <3>1 DEF Passed
    <3> QED
      BY <1>9, <3>1, <3>2 DEF Passed
  <2> QED
    BY <1>4, <1>9, <1>p, <2>1, <2>2 DEF Path
<1>10. ASSUME NEW p \in Runs, Deliver(p) PROVE SuccessOf(p)'
  <2>0. pc[p] = "deliver" /\ pc[p] \in Delivering
    BY <1>10 DEF Deliver, At, Delivering
  <2>1. CASE pc'[p] = "done" \/ pc'[p] \in {"list", "resolve"}
    <3>1. /\ sources'[p] = sources[p] /\ (pc'[p] = "done" => status'[p] # "ok")
          /\ pc'[p] # "done" => position'[p] = position[p] /\ status'[p] = status[p]
      BY <1>0, <1>10, <2>1 DEF Deliver, At, Goto, Exit, NextTarget, Advance, TypeOK
    <3> QED
      BY <1>5, <1>6, <2>0, <2>1, <3>1
  <2>2. CASE pc'[p] = "deliver"
    <3>1. /\ More(p) /\ position'[p] = position[p] + 1 /\ sources'[p] = sources[p]
          /\ status'[p] = status[p]
          /\ (FreeForm(p, Path(p)) => Result(p) = None) \/ Delivery[p] # "InPlace"
      BY <1>0, <1>10, <2>0, <2>2 DEF Deliver, At, Goto, Exit, NextTarget, Advance, TypeOK
    <3>2. ASSUME Delivery[p] = "InPlace", Resolve[Path(p)] \notin Fixed
          PROVE  Resolve[Path(p)] \in Finished'
      <4>1. /\ position[p] \in DOMAIN Targets[p] /\ Path(p) \in Paths
            /\ Path(p) = Targets[p][position[p]]
        BY <1>0, <3>1, PathFacts DEF Path
      <4>2. position[p] \in LoadedTo(p)
        BY <2>0, <4>1 DEF LoadedTo
      <4>3. sources[p][Path(p)] # None
        BY <1>1, <4>1, <4>2 DEF SuccessOf
      <4>4. ResultOf(sources[p][Path(p)]) = None
        BY <1>0, <2>0, <3>1, <3>2, <4>3, ResultAtHand DEF FreeForm
      <4>5. Resolve[Path(p)] \in Finished
        BY <1>0, <1>1, <4>1, <4>3, <4>4, ResultNone DEF SuccessOf
      <4> QED
        BY <1>2, <1>3, <4>1, <4>5
    <3> QED
      BY <1>9, <2>0, <2>2, <3>1, <3>2
  <2>3. pc'[p] \in {"deliver", "list", "resolve", "done"}
    BY <1>0, <1>10 DEF Deliver, At, Goto, Exit, TypeOK
  <2> QED
    BY <2>1, <2>2, <2>3
<1>11. ASSUME NEW p \in Runs,
              ResolveTarget(p) \/ CreateTemp(p) \/ SetMode(p) \/ WriteTemp(p) \/ SyncTemp(p)
       PROVE  SuccessOf(p)'
  <2>1. /\ sources'[p] = sources[p] /\ pc[p] \in Replacing
        /\ \/ pc'[p] \in Replacing /\ position'[p] = position[p] /\ status'[p] = status[p]
           \/ pc'[p] = "done" /\ status'[p] # "ok"
    BY <1>0, <1>11 DEF ResolveTarget, CreateTemp, SetMode, WriteTemp, SyncTemp, Call, CallFails,
       At, Goto, Exit, TypeOK, Replacing, Named, Holding, results
  <2> QED
    BY <1>5, <1>6, <2>1
<1>12. ASSUME NEW p \in Runs, Rename(p) PROVE SuccessOf(p)'
  <2>0. pc[p] = "rename" /\ pc[p] \in Replacing /\ pc[p] \in Delivering
    BY <1>12 DEF Rename, Call, CallFails, At, Delivering, Replacing, Named, Holding
  <2>1. CASE pc'[p] = "cleanup"
    <3>1. sources'[p] = sources[p] /\ position'[p] = position[p] /\ status'[p] = status[p]
      BY <1>0, <1>12, <2>1 DEF Rename, Call, CallFails, Goto, TypeOK, results
    <3> QED
      BY <1>5, <2>0, <2>1, <3>1 DEF Replacing, Named
  <2>2. CASE Moves(p)
    <3>1. position'[p] = position[p] + 1 /\ sources'[p] = sources[p] /\ status'[p] = status[p]
      BY <1>0, <1>12, <2>2 DEF Rename, Call, CallFails, Moves, NextTarget, Advance, Goto, TypeOK
    <3>2. Resolve[Path(p)] \in Finished'
      <4>1. entry'[Resolve[Path(p)]] = Own(p) /\ inode' = inode
        BY <2>2, MoveEffect DEF Moves, Names
      <4> QED
        BY <2>2, <4>1, MoveEffect DEF Finished, Held
    <3> QED
      BY <1>9, <2>0, <2>2, <3>1, <3>2, MoveEffect DEF Moves
  <2>3. pc'[p] = "cleanup" \/ Moves(p)
    BY <1>0, <1>12 DEF Rename, Call, CallFails, Moves, At, Goto, TypeOK
  <2> QED
    BY <2>1, <2>2, <2>3
<1>13. ASSUME NEW p \in Runs, Cleanup(p) PROVE SuccessOf(p)'
  <2>1. sources'[p] = sources[p] /\ pc'[p] = "done" /\ status'[p] # "ok"
    BY <1>0, <1>13 DEF Cleanup, Goto, Exit, TypeOK, results
  <2> QED
    BY <1>6, <2>1
<1>14. ASSUME NEW p \in Runs, List(p) PROVE SuccessOf(p)'
  <2>1. pc[p] = "list" /\ pc'[p] = "done" /\ sources'[p] = sources[p]
    BY <1>0, <1>14 DEF List, At, Goto, Exit, TypeOK, results
  <2>2. position[p] - 1 = Len(Targets[p]) /\ DOMAIN Targets[p] = 1..Len(Targets[p])
    BY <1>0, <2>1 DEF Control, ControlOf, More, TypeOK
  <2>3. LoadedTo(p)' = {}
    BY <2>1 DEF LoadedTo, Delivering, Replacing, Named, Holding
  <2>4. \A k \in Passed(p)' : k \in Passed(p)
    <3>1. status[p] = "none"
      BY <1>0, <2>1 DEF Control, ControlOf
    <3>2. Passed(p) = DOMAIN Targets[p]
      BY <2>1, <2>2, <3>1 DEF Passed
    <3>3. Passed(p)' \subseteq DOMAIN Targets[p]
      BY <1>0, <2>1 DEF Passed, Delivering, Replacing, Named, Holding
    <3> QED
      BY <3>2, <3>3
  <2> QED
    BY <1>4, <1>p, <2>1, <2>3, <2>4
<1>15. ASSUME NEW p \in Runs, Start(p) PROVE SuccessOf(p)'
  <2>1. /\ sources'[p] = sources[p] /\ pc'[p] = "read"
        /\ position'[p] = 1 /\ status'[p] = "none"
    BY <1>0, <1>15 DEF Start, At, Goto, TypeOK, results, Control, ControlOf
  <2>2. LoadedTo(p)' = {} /\ Passed(p)' = {}
    BY <2>1 DEF LoadedTo, Passed, Delivering, Replacing, Named, Holding
  <2> QED
    BY <1>4, <1>p, <2>1, <2>2
<1>16. ASSUME NEW p \in Runs, Kill(p) \/ ClosePipe(p) PROVE SuccessOf(p)'
  <2>1. /\ sources'[p] = sources[p] /\ status'[p] = status[p]
        /\ pc'[p] = "killed" \/ (pc'[p] = pc[p] /\ position'[p] = position[p])
    BY <1>0, <1>16 DEF Kill, ClosePipe, Goto, TypeOK, results
  <2> QED
    BY <1>5, <2>1
<1>17. ASSUME NEW p \in Runs, Start(p) \/ Step(p) \/ Kill(p) \/ ClosePipe(p), NEW q \in Runs
       PROVE  SuccessOf(q)'
  <2>1. CASE q = p
    BY <1>7, <1>8, <1>10, <1>11, <1>12, <1>13, <1>14, <1>15, <1>16, <1>17, <2>1 DEF Step
  <2>2. CASE q # p
    BY <1>0, <1>5, <1>17, <2>2, OtherRuns
  <2> QED
    BY <2>1, <2>2
<1>18. ASSUME PowerLoss, NEW q \in Runs PROVE SuccessOf(q)'
  <2>1. /\ sources'[q] = sources[q] /\ status'[q] = status[q]
        /\ pc'[q] = "killed" \/ (pc'[q] = pc[q] /\ position'[q] = position[q])
    BY <1>0, <1>18, PowerSteps
  <2> QED
    BY <1>5, <2>1
<1> QED
  BY <1>2, <1>17, <1>18 DEF Next

\* While nobody edits, a run in place that ends ok has formatted its targets.
THEOREM SuccessIsFormatted == Spec => []SuccessMeansFormatted
<1>1. Init => SuccessInv
  <2> SUFFICES ASSUME Init PROVE SuccessInv
    OBVIOUS
  <2>1. \A f \in Files : entry[f] = f /\ f # None
    BY FileRunAssumption DEF Init, Names
  <2>2. ASSUME NEW p \in Runs PROVE SuccessOf(p)
    <3>1. \A q \in Paths : sources[p][q] = None
      BY DEF Init
    <3>2. LoadedTo(p) = {} /\ Passed(p) = {}
      BY DEF Init, LoadedTo, Passed, Delivering, Replacing, Named, Holding
    <3> QED
      BY <3>1, <3>2 DEF SuccessOf
  <2> QED
    BY <2>1, <2>2 DEF SuccessInv, Present
<1>2. MemoryInv /\ DiskInv /\ SuccessInv /\ [Next]_vars => SuccessInv'
  <2> SUFFICES ASSUME MemoryInv, DiskInv, SuccessInv, UNCHANGED vars PROVE SuccessInv'
    BY SuccessStep
  <2> QED
    BY SettingSame DEF vars, SuccessInv, SuccessOf, LoadedTo, Passed, Finished, Held, Present
<1>3. MemoryInv /\ DiskInv /\ SuccessInv => SuccessMeansFormatted
  <2> SUFFICES ASSUME MemoryInv, DiskInv, SuccessInv, edits = 0,
                      NEW p \in Runs, status[p] = "ok", Delivery[p] = "InPlace",
                      NEW q \in ToSet(Targets[p]), Resolve[q] \notin Fixed
               PROVE  Held(Resolve[q]).text = Output(Saved(Resolve[q], 0))
    BY DEF SuccessMeansFormatted
  <2>1. PICK k \in DOMAIN Targets[p] : q = Targets[p][k]
    BY DEF ToSet
  <2>2. Targets \in [Runs -> Seq(Paths)] /\ TypeOK
    BY SettingFacts DEF MemoryInv, TypeOK
  <2>3. PICK f \in Files : f = Resolve[q]
    BY <2>1, <2>2, FileRunAssumption
  <2>4. Present(f) /\ f \in Finished
    BY <2>1, <2>3 DEF SuccessInv, SuccessOf, Passed
  <2>5. PICK text : text = Held(f).text
    OBVIOUS
  <2>6. text \in Text
    BY <2>2, <2>4, <2>5 DEF TypeOK, Present, Held, Names, Inode
  <2>7. text.of = f /\ text.whole /\ text.version = 0 /\ text.formatted
    <3>1. text.of = f /\ text.whole /\ text.version <= 0 /\ text.formatted
      BY <2>4, <2>5 DEF DiskInv, FilesGenuine, Genuine, Finished
    <3>2. text.version \in Nat
      BY <2>6 DEF Text, Versions
    <3> QED
      BY <3>1, <3>2
  <2>8. text = [of |-> f, version |-> 0, formatted |-> TRUE, whole |-> TRUE]
    BY <2>6, <2>7 DEF Text
  <2>9. Output(Saved(f, 0)) = text
    <3>0. 0 \in Versions
      BY FileRunAssumption DEF Versions
    <3>1. Saved(f, 0) \in Text /\ Output(Saved(f, 0)) \in Text
      BY <3>0, TextFacts
    <3>2. /\ Output(Saved(f, 0)).of = f /\ Output(Saved(f, 0)).version = 0
          /\ Output(Saved(f, 0)).formatted = TRUE /\ Output(Saved(f, 0)).whole = TRUE
      BY <3>1 DEF Output, Saved, Text
    <3> QED
      BY <2>8, <3>1, <3>2 DEF Text
  <2>10. Held(f) = Held(Resolve[q]) /\ Saved(f, 0) = Saved(Resolve[q], 0)
    BY <2>3
  <2> QED
    BY <2>5, <2>9, <2>10
<1> QED
  BY <1>1, <1>2, <1>3, BaseInvariant, PTL DEF Spec

-----------------------------------------------------------------------------
(* Reports: what a run has found, replaced and listed.                     *)

\* A target is found to differ or not, in target order.
LEMMA DifferingGrows ==
    ASSUME setting \in Settings, NEW p \in Runs, NEW n \in DOMAIN Targets[p]
    PROVE  /\ DifferingTo(p, 0) = {}
           /\ ~Differs(p, Targets[p][n]) => DifferingTo(p, n) = DifferingTo(p, n - 1)
           /\ Differs(p, Targets[p][n]) =>
                 /\ DifferingTo(p, n) = DifferingTo(p, n - 1) \cup {Targets[p][n]}
                 /\ \A s \in Seq(Paths) : Lists(s, p, DifferingTo(p, n - 1)) =>
                       Lists(Append(s, Targets[p][n]), p, DifferingTo(p, n))
<1>1. /\ Targets[p] \in Seq(Paths) /\ n \in Nat \ {0}
      /\ \A k \in 1..n : k \in DOMAIN Targets[p] /\ (k = n \/ k \in 1..n - 1)
      /\ \A k \in 1..n - 1 : k \in 1..n /\ k < n
  BY SettingFacts
<1>2. DifferingTo(p, 0) = {}
  BY DEF DifferingTo
<1>3. ~Differs(p, Targets[p][n]) => DifferingTo(p, n) = DifferingTo(p, n - 1)
  BY <1>1 DEF DifferingTo
<1>4. ASSUME Differs(p, Targets[p][n])
      PROVE  DifferingTo(p, n) = DifferingTo(p, n - 1) \cup {Targets[p][n]}
  BY <1>1, <1>4 DEF DifferingTo
<1>5. ASSUME Differs(p, Targets[p][n]),
             NEW s \in Seq(Paths), Lists(s, p, DifferingTo(p, n - 1))
      PROVE  Lists(Append(s, Targets[p][n]), p, DifferingTo(p, n))
  <2> DEFINE a == Append(s, Targets[p][n])
  <2>1. /\ Len(s) \in Nat /\ DOMAIN a = 1..Len(s) + 1 /\ a[Len(s) + 1] = Targets[p][n]
        /\ \A i \in 1..Len(s) : a[i] = s[i]
        /\ \A i \in 1..Len(s) + 1 : i = Len(s) + 1 \/ i \in 1..Len(s)
        /\ DOMAIN s = 1..Len(s)
    BY <1>1
  <2> HIDE DEF a
  <2>2. ToSet(s) = DifferingTo(p, n - 1)
    BY <1>5 DEF Lists
  <2>3. ToSet(a) = ToSet(s) \cup {Targets[p][n]}
    <3>1. ASSUME NEW x \in ToSet(a) PROVE x \in ToSet(s) \cup {Targets[p][n]}
      BY <2>1, <3>1 DEF ToSet
    <3>2. ASSUME NEW x \in ToSet(s) PROVE x \in ToSet(a)
      <4>1. PICK i \in 1..Len(s) : x = s[i]
        BY <2>1, <3>2 DEF ToSet
      <4>2. i \in 1..Len(s) + 1 /\ x = a[i]
        BY <2>1, <4>1
      <4> QED
        BY <2>1, <4>2 DEF ToSet
    <3>3. Targets[p][n] \in ToSet(a)
      <4>1. Len(s) + 1 \in 1..Len(s) + 1
        BY <2>1
      <4> QED
        BY <2>1, <4>1 DEF ToSet
    <3> QED
      BY <3>1, <3>2, <3>3
  <2>4. ASSUME NEW i \in DOMAIN a, NEW j \in DOMAIN a, i < j
        PROVE  \E k, l \in DOMAIN Targets[p] :
                  k < l /\ Targets[p][k] = a[i] /\ Targets[p][l] = a[j]
    <3>1. i \in 1..Len(s) /\ a[i] = s[i]
      BY <2>1, <2>4
    <3>2. CASE j = Len(s) + 1
      <4>1. s[i] \in DifferingTo(p, n - 1)
        BY <2>1, <2>2, <3>1 DEF ToSet
      <4>2. PICK k \in 1..n - 1 : Targets[p][k] = s[i]
        BY <4>1 DEF DifferingTo
      <4>3. k < n /\ k \in DOMAIN Targets[p]
        BY <1>1
      <4> QED
        BY <2>1, <3>1, <3>2, <4>2, <4>3
    <3>3. CASE j \in 1..Len(s)
      BY <1>5, <2>1, <2>4, <3>1, <3>3 DEF Lists
    <3> QED
      BY <2>1, <2>4, <3>2, <3>3
  <2> QED
    BY <1>4, <1>5, <2>2, <2>3, <2>4 DEF Lists, a
<1> QED
  BY <1>2, <1>3, <1>4, <1>5

\* All of the targets have been examined.
LEMMA DifferingAll ==
    ASSUME setting \in Settings, NEW p \in Runs
    PROVE  DifferingTo(p, Len(Targets[p])) = {q \in ToSet(Targets[p]) : Differs(p, q)}
<1>1. DOMAIN Targets[p] = 1..Len(Targets[p])
  BY SettingFacts
<1> QED
  BY <1>1 DEF DifferingTo, ToSet

\* What these notions depend on.
LEMMA ReportTerms ==
    ASSUME setting' = setting, NEW p \in Runs, sources'[p] = sources[p]
    PROVE  /\ \A q : Differs(p, q)' = Differs(p, q)
           /\ \A n : DifferingTo(p, n)' = DifferingTo(p, n)
           /\ \A s, Q : Lists(s, p, Q)' = Lists(s, p, Q)
           /\ Delivery' = Delivery /\ Targets' = Targets
<1>1. Targets' = Targets /\ Delivery' = Delivery
  BY SettingSame
<1>2. \A q : Differs(p, q)' = Differs(p, q)
  BY DEF Differs, FreeForm
<1>3. \A n : DifferingTo(p, n)' = DifferingTo(p, n)
  BY <1>1, <1>2 DEF DifferingTo
<1>4. \A s, Q : Lists(s, p, Q)' = Lists(s, p, Q)
  BY <1>1 DEF Lists
<1> QED
  BY <1>1, <1>2, <1>3, <1>4

\* A run whose report stays as it was, at the same place or killed.
LEMMA ReportStays ==
    ASSUME ReportInv, setting' = setting, NEW p \in Runs,
           sources'[p] = sources[p], changed'[p] = changed[p], replaced'[p] = replaced[p],
           printed'[p] = printed[p], status'[p] = status[p],
           \/ pc'[p] = pc[p] /\ position'[p] = position[p]
           \/ pc'[p] = "killed" /\ pc[p] # "done"
           \/ pc[p] \in Replacing /\ pc'[p] \in Replacing /\ position'[p] = position[p]
           \/ pc[p] = "idle" /\ pc'[p] = "read"
    PROVE  ReportOf(p)'
<1>1. ReportOf(p)
  BY DEF ReportInv
<1>2. Truthful(p)'
  <2>1. /\ \A s, Q : Lists(s, p, Q)' = Lists(s, p, Q)
        /\ \A q : Differs(p, q)' = Differs(p, q)
        /\ Delivery' = Delivery /\ Targets' = Targets
    BY ReportTerms
  <2>2. PICK Q : Q = {q \in ToSet(Targets[p]) : Differs(p, q)}
    OBVIOUS
  <2>3. Q = {q \in ToSet(Targets[p]) : Differs(p, q)}'
    BY <2>1, <2>2
  <2>4. printed'[p] # <<>> => Lists(printed[p], p, Q)
    BY <1>1, <2>2 DEF ReportOf, Truthful
  <2>5. PICK s : s = printed[p]
    OBVIOUS
  <2>6. printed'[p] # <<>> => Lists(s, p, Q)'
    BY <2>1, <2>4, <2>5
  <2>7. printed'[p] # <<>> => Lists(printed[p], p, {q \in ToSet(Targets[p]) : Differs(p, q)})'
    BY <2>3, <2>5, <2>6 DEF Lists
  <2> QED
    BY <1>1, <2>1, <2>7 DEF ReportOf, Truthful
<1>3. /\ pc'[p] \in Before => changed'[p] = <<>> /\ replaced'[p] = {}
      /\ pc'[p] \in Replacing => Delivery'[p] = "InPlace"
      /\ printed'[p] # <<>> => pc'[p] = "done"
  BY <1>1, ReportTerms DEF ReportOf, Before, Replacing, Named, Holding
<1>4. ASSUME pc'[p] \in Delivering \cup {"list"}
      PROVE  /\ Lists(changed[p], p, DifferingTo(p, Examined(p)))'
             /\ (replaced[p] = IF Delivery[p] = "InPlace" THEN DifferingTo(p, position[p] - 1)
                               ELSE {})'
  <2>1. pc[p] \in Delivering \cup {"list"} /\ position'[p] = position[p]
    BY <1>4 DEF Delivering, Replacing, Named, Holding
  <2>2. Examined(p)' = Examined(p)
    BY <1>4, <2>1 DEF Examined, Delivering, Replacing, Named, Holding
  <2>3. PICK n, m, s : n = Examined(p) /\ m = position[p] - 1 /\ s = changed[p]
    OBVIOUS
  <2>4. Lists(s, p, DifferingTo(p, n))
    BY <1>1, <2>1, <2>3 DEF ReportOf
  <2>5. DifferingTo(p, n)' = DifferingTo(p, n) /\ DifferingTo(p, m)' = DifferingTo(p, m)
    BY ReportTerms
  <2>6. PICK Q : Q = DifferingTo(p, n)
    OBVIOUS
  <2>7. Lists(s, p, Q)'
    BY <2>4, <2>6, ReportTerms
  <2> QED
    BY <1>1, <2>1, <2>2, <2>3, <2>5, <2>6, <2>7, ReportTerms DEF ReportOf, Lists
<1> QED
  BY <1>2, <1>3, <1>4 DEF ReportOf

\* A run that has examined its targets up to n and delivered those up to m.
LEMMA ReportReached ==
    ASSUME setting' = setting, NEW p \in Runs, sources'[p] = sources[p], NEW n, NEW m,
           pc'[p] \in {"deliver", "resolve", "list"}, Examined(p)' = n, position'[p] - 1 = m,
           Lists(changed'[p], p, DifferingTo(p, n)),
           replaced'[p] = IF Delivery[p] = "InPlace" THEN DifferingTo(p, m) ELSE {},
           pc'[p] = "resolve" => Delivery[p] = "InPlace",
           printed'[p] = <<>>, status'[p] = "none"
    PROVE  ReportOf(p)'
<1>1. PICK s, Q : s = changed'[p] /\ Q = DifferingTo(p, n)
  OBVIOUS
<1>2. /\ Lists(s, p, Q)' /\ DifferingTo(p, n)' = Q
      /\ DifferingTo(p, m)' = DifferingTo(p, m) /\ Delivery' = Delivery
  BY <1>1, ReportTerms
<1>3. Lists(changed[p], p, DifferingTo(p, Examined(p)))'
  BY <1>1, <1>2 DEF Lists
<1>4. (replaced[p] = IF Delivery[p] = "InPlace" THEN DifferingTo(p, position[p] - 1) ELSE {})'
  BY <1>2
<1>5. pc'[p] \notin Before
  BY DEF Before
<1> QED
  BY <1>2, <1>3, <1>4, <1>5 DEF ReportOf, Truthful, Replacing, Named, Holding

LEMMA ReportStep ==
    ASSUME MemoryInv, ReportInv, Next
    PROVE  ReportInv'
<1>0. /\ TypeOK /\ Control /\ Pending /\ setting \in Settings /\ setting' = setting
      /\ Targets \in [Runs -> Seq(Paths)] /\ Targets' = Targets /\ Delivery' = Delivery
  BY SettingSame, SettingFacts DEF MemoryInv, TypeOK, Next
<1>t. /\ setting' = setting
      /\ pc \in [Runs -> Idle \cup Steps] /\ position \in [Runs -> Nat \ {0}]
      /\ sources \in [Runs -> [Paths -> Text \cup {None}]]
      /\ formatted \in [Runs -> Seq(Text \cup {None})]
      /\ changed \in [Runs -> Seq(Paths)] /\ replaced \in [Runs -> SUBSET Paths]
      /\ printed \in [Runs -> Seq(Paths)] /\ status \in [Runs -> Statuses]
  BY <1>0 DEF TypeOK
\* A run under way has listed nothing yet.
<1>1. ASSUME NEW p \in Runs, pc[p] # "done"
      PROVE  printed[p] = <<>> /\ status[p] = "none"
  BY <1>0, <1>1 DEF ReportInv, ReportOf, Control, ControlOf
\* A run that ends with an error has nothing to answer for.
<1>2. ASSUME NEW p \in Runs, pc'[p] = "done", printed'[p] = <<>>,
             status'[p] \in {"usage", "io", "pipe", "panic", "differs"}
      PROVE  ReportOf(p)'
  BY <1>2 DEF ReportOf, Truthful, Before, Delivering, Replacing, Named, Holding
<1>3. ASSUME NEW p \in Runs, Read(p) PROVE ReportOf(p)'
  <2>1. /\ pc[p] = "read" /\ printed[p] = <<>> /\ status[p] = "none"
        /\ changed[p] = <<>> /\ replaced[p] = {}
    BY <1>1, <1>3 DEF Read, At, ReportInv, ReportOf, Before
  <2>2. changed' = changed /\ replaced' = replaced /\ printed' = printed
    BY <1>3 DEF Read
  <2>3. \/ pc'[p] \in {"read", "format"} /\ status'[p] = "none"
        \/ pc'[p] = "done" /\ status'[p] \in {"usage", "io"}
    BY <1>t, <1>3, <2>1 DEF Read, Goto, Exit
  <2>4. CASE pc'[p] \in {"read", "format"} /\ status'[p] = "none"
    BY <2>1, <2>2, <2>4 DEF ReportOf, Truthful, Delivering, Replacing, Named, Holding
  <2> QED
    BY <1>2, <2>1, <2>2, <2>3, <2>4
<1>4. ASSUME NEW p \in Runs, Format(p) PROVE ReportOf(p)'
  <2>1. /\ pc[p] = "format" /\ printed[p] = <<>> /\ status[p] = "none"
        /\ changed[p] = <<>> /\ replaced[p] = {}
    BY <1>1, <1>4 DEF Format, At, ReportInv, ReportOf, Before
  <2>2. changed' = changed /\ replaced' = replaced /\ printed' = printed /\ sources' = sources
    BY <1>4 DEF Format
  <2>3. \/ pc'[p] = "format" /\ status'[p] = "none"
        \/ pc'[p] = "deliver" /\ position'[p] = 1 /\ status'[p] = "none"
        \/ pc'[p] = "done" /\ status'[p] = "format"
    BY <1>t, <1>4, <2>1 DEF Format, AddResult, Goto, Exit
  <2>4. CASE pc'[p] = "deliver"
    <3>1. Examined(p)' = 0 /\ position'[p] - 1 = 0
      BY <2>3, <2>4 DEF Examined, Replacing, Named, Holding
    <3>2. DifferingTo(p, 0) = {}
      BY DEF DifferingTo
    <3>3. Lists(<<>>, p, {})
      BY DEF Lists, ToSet
    <3>4. Lists(changed'[p], p, DifferingTo(p, 0)) /\ replaced'[p] = {} /\ sources'[p] = sources[p]
      BY <2>1, <2>2, <3>2, <3>3
    <3>5. /\ replaced'[p] = IF Delivery[p] = "InPlace" THEN DifferingTo(p, 0) ELSE {}
          /\ printed'[p] = <<>> /\ status'[p] = "none"
      BY <2>1, <2>2, <2>3, <2>4, <3>2, <3>4
    <3> QED
      BY <1>0, <2>4, <3>1, <3>4, <3>5, ReportReached
  <2>5. CASE pc'[p] = "format" \/ pc'[p] = "done"
    BY <2>1, <2>2, <2>3, <2>5 DEF ReportOf, Truthful, Delivering, Replacing, Named, Holding
  <2> QED
    BY <2>3, <2>4, <2>5
\* A target that differs, or not, and the next one.
<1>5. ASSUME NEW p \in Runs, pc[p] \in Delivering, More(p)
      PROVE  /\ position[p] \in DOMAIN Targets[p] /\ Path(p) = Targets[p][position[p]]
             /\ Path(p) \in Paths /\ position[p] \in Nat
             /\ FreeForm(p, Path(p)) => (Differs(p, Path(p)) <=> Result(p) # None)
  BY <1>0, <1>5, PathFacts, ResultAtHand DEF Differs, Path, TypeOK
<1>6. ASSUME NEW p \in Runs, Deliver(p) PROVE ReportOf(p)'
  <2>0. /\ pc[p] = "deliver" /\ pc[p] \in Delivering
        /\ printed[p] = <<>> /\ status[p] = "none" /\ printed' = printed
        /\ replaced' = replaced /\ sources' = sources /\ Examined(p) = position[p] - 1
    BY <1>1, <1>6 DEF Deliver, At, Delivering, Examined, Replacing, Named, Holding
  <2>1. /\ Lists(changed[p], p, DifferingTo(p, position[p] - 1))
        /\ replaced[p] = IF Delivery[p] = "InPlace" THEN DifferingTo(p, position[p] - 1)
                         ELSE {}
    BY <2>0 DEF ReportInv, ReportOf
  <2>2. CASE ~More(p)
    <3>1. pc'[p] = "list" /\ UNCHANGED <<position, changed, status>>
      BY <1>t, <1>6, <2>2 DEF Deliver, Goto
    <3>2. Examined(p)' = position[p] - 1
      BY <3>1 DEF Examined, Replacing, Named, Holding
    <3> QED
      BY <1>0, <2>0, <2>1, <3>1, <3>2, ReportReached
  <2>3. CASE More(p) /\ (FreeForm(p, Path(p)) => Result(p) = None)
    <3>1. /\ pc' = pc /\ position'[p] = position[p] + 1 /\ changed' = changed
          /\ status' = status
      BY <1>t, <1>6, <2>3 DEF Deliver, NextTarget, Advance
    <3>2. Examined(p)' = position[p] /\ position'[p] - 1 = position[p]
      BY <1>5, <2>0, <2>3, <3>1 DEF Examined, Replacing, Named, Holding
    <3>3. ~Differs(p, Path(p))
      BY <1>5, <2>0, <2>3 DEF Differs
    <3>4. DifferingTo(p, position[p]) = DifferingTo(p, position[p] - 1)
      BY <1>0, <1>5, <2>0, <2>3, <3>3, DifferingGrows
    <3> QED
      BY <1>0, <2>0, <2>1, <3>1, <3>2, <3>4, ReportReached
  <2>4. CASE More(p) /\ FreeForm(p, Path(p)) /\ Result(p) # None
    <3>1. changed'[p] = Append(changed[p], Path(p))
      BY <1>t, <1>6, <2>4 DEF Deliver
    <3>2. Lists(changed'[p], p, DifferingTo(p, position[p]))
      BY <1>0, <1>t, <1>5, <2>0, <2>1, <2>4, <3>1, DifferingGrows
    <3>3. CASE Delivery[p] = "InPlace"
      <4>1. pc'[p] = "resolve" /\ UNCHANGED <<position, status>>
        BY <1>t, <1>6, <2>4, <3>3 DEF Deliver, Goto
      <4>2. Examined(p)' = position[p]
        BY <4>1 DEF Examined, Replacing
      <4> QED
        BY <1>0, <2>0, <2>1, <3>2, <3>3, <4>1, <4>2, ReportReached
    <3>4. CASE Delivery[p] = "Diff" /\ ~open[p]
      <4>1. pc'[p] = "done" /\ status'[p] = "pipe"
        BY <1>t, <1>6, <2>4, <3>4 DEF Deliver, Goto, Exit
      <4> QED
        BY <1>2, <2>0, <4>1
    <3>5. CASE Delivery[p] # "InPlace" /\ ~(Delivery[p] = "Diff" /\ ~open[p])
      <4>1. pc' = pc /\ position'[p] = position[p] + 1 /\ status' = status
        BY <1>t, <1>6, <2>4, <3>5 DEF Deliver, NextTarget, Advance
      <4>2. Examined(p)' = position[p] /\ position'[p] - 1 = position[p]
        BY <1>5, <2>0, <2>4, <4>1 DEF Examined, Replacing, Named, Holding
      <4>3. /\ replaced'[p] = IF Delivery[p] = "InPlace" THEN DifferingTo(p, position[p]) ELSE {}
            /\ printed'[p] = <<>> /\ status'[p] = "none" /\ pc'[p] = "deliver"
            /\ sources'[p] = sources[p]
        BY <2>0, <2>1, <3>5, <4>1
      <4> QED
        BY <1>0, <3>2, <4>2, <4>3, ReportReached
    <3> QED
      BY <3>3, <3>4, <3>5
  <2> QED
    BY <2>2, <2>3, <2>4
<1>7. ASSUME NEW p \in Runs,
             \/ ResolveTarget(p) \/ CreateTemp(p) \/ SetMode(p) \/ WriteTemp(p) \/ SyncTemp(p)
             \/ Rename(p) /\ pc'[p] = "cleanup"
             \/ Cleanup(p)
      PROVE  ReportOf(p)'
  <2>1. /\ pc[p] \in Replacing
        /\ UNCHANGED <<sources, changed, replaced, printed, position>>
        /\ \/ pc'[p] \in Replacing /\ status' = status
           \/ pc'[p] = "done" /\ status'[p] = "io"
    BY <1>t, <1>7 DEF ResolveTarget, CreateTemp, SetMode, WriteTemp, SyncTemp, Rename, Cleanup,
       Call, CallFails, At, Goto, Exit, Replacing, Named, Holding, results
  <2>2. printed[p] = <<>>
    BY <1>1, <2>1 DEF Replacing, Named, Holding
  <2>3. CASE pc'[p] \in Replacing /\ status' = status
    BY <1>0, <2>1, <2>3, ReportStays
  <2>4. CASE pc'[p] = "done" /\ status'[p] = "io"
    BY <1>2, <2>1, <2>2, <2>4
  <2> QED
    BY <2>1, <2>3, <2>4
<1>8. ASSUME NEW p \in Runs, Rename(p), pc'[p] # "cleanup" PROVE ReportOf(p)'
  <2>1. /\ pc[p] = "rename" /\ pc'[p] = "deliver" /\ position'[p] = position[p] + 1
        /\ replaced'[p] = replaced[p] \cup {Path(p)}
        /\ UNCHANGED <<sources, changed, printed, status>>
    BY <1>t, <1>8 DEF Rename, Call, CallFails, NextTarget, Advance, At, Goto
  <2>2. pc[p] \in Replacing /\ pc[p] \in Delivering
    BY <2>1 DEF Delivering, Replacing, Named, Holding
  <2>3. /\ Lists(changed[p], p, DifferingTo(p, position[p])) /\ Delivery[p] = "InPlace"
        /\ replaced[p] = DifferingTo(p, position[p] - 1)
    BY <2>2 DEF ReportInv, ReportOf, Examined
  <2>4. More(p) /\ Differs(p, Path(p))
    BY <1>0, <2>2 DEF Control, ControlOf, Differs
  <2>5. DifferingTo(p, position[p]) = DifferingTo(p, position[p] - 1) \cup {Path(p)}
    BY <1>0, <1>5, <2>2, <2>4, DifferingGrows
  <2>6. Examined(p)' = position[p] /\ position'[p] - 1 = position[p]
    BY <1>5, <2>1, <2>2, <2>4 DEF Examined, Replacing, Named, Holding
  <2>7. printed[p] = <<>> /\ status[p] = "none"
    BY <1>1, <2>1
  <2>8. /\ Lists(changed'[p], p, DifferingTo(p, position[p])) /\ sources'[p] = sources[p]
        /\ replaced'[p] = IF Delivery[p] = "InPlace" THEN DifferingTo(p, position[p]) ELSE {}
        /\ printed'[p] = <<>> /\ status'[p] = "none"
    BY <2>1, <2>3, <2>5, <2>7
  <2> QED
    BY <1>0, <2>1, <2>6, <2>8, ReportReached
<1>9. ASSUME NEW p \in Runs, List(p) PROVE ReportOf(p)'
  <2> DEFINE D == {q \in ToSet(Targets[p]) : Differs(p, q)}
  <2>1. /\ pc[p] = "list" /\ pc'[p] = "done" /\ printed[p] = <<>>
        /\ UNCHANGED <<sources, changed, replaced>>
        /\ \/ /\ Delivery[p] = "Diff" \/ changed[p] = <<>>
              /\ printed' = printed
              /\ status'[p] = IF changed[p] = <<>> THEN "ok" ELSE "differs"
           \/ /\ Delivery[p] # "Diff" /\ changed[p] # <<>>
              /\ printed'[p] = changed[p]
              /\ status'[p] = IF Delivery[p] = "InPlace" THEN "ok" ELSE "differs"
           \/ printed' = printed /\ status'[p] = "panic"
    BY <1>1, <1>t, <1>9 DEF List, At, Goto, Exit, results
  <2>2. position[p] - 1 = Len(Targets[p]) /\ Examined(p) = position[p] - 1
    BY <1>0, <1>t, <2>1 DEF Control, ControlOf, More, Examined, Replacing, Named, Holding
  <2>3. /\ Lists(changed[p], p, D)
        /\ replaced[p] = IF Delivery[p] = "InPlace" THEN D ELSE {}
    <3>1. DifferingTo(p, Len(Targets[p])) = D
      BY <1>0, DifferingAll
    <3> QED
      BY <2>1, <2>2, <3>1 DEF ReportInv, ReportOf
  <2>4. ToSet(changed[p]) = D
    BY <2>3 DEF Lists
  <2>5. ToSet(<<>>) = {}
    BY DEF ToSet
  <2>6. PICK d, s : d = D /\ s = changed[p]
    OBVIOUS
  <2>7. Lists(s, p, d)'
    <3>1. Lists(s, p, d)
      BY <2>3, <2>6
    <3> QED
      BY <1>0, <2>1, <3>1, ReportTerms
  <2>8. {q \in ToSet(Targets[p]) : Differs(p, q)}' = d
    BY <1>0, <2>1, <2>6, ReportTerms
  <2>9. Truthful(p)'
    <3>1. status'[p] # "format"
      BY <2>1
    <3>2. printed'[p] # <<>> => Lists(printed[p], p, {q \in ToSet(Targets[p]) : Differs(p, q)})'
      <4>1. printed'[p] # <<>> => printed'[p] = s
        BY <2>1, <2>6
      <4> QED
        BY <2>7, <2>8, <4>1 DEF Lists
    <3>3. status'[p] = "ok" /\ Delivery'[p] = "InPlace" => replaced'[p] = ToSet(printed'[p])
      BY <1>0, <2>1, <2>3, <2>4, <2>5
    <3>4. status'[p] = "ok" /\ Delivery'[p] # "InPlace" =>
             \A q \in ToSet(Targets'[p]) : ~Differs(p, q)'
      <4>1. ASSUME status'[p] = "ok" /\ Delivery'[p] # "InPlace" PROVE D = {}
        BY <1>0, <2>1, <2>4, <2>5, <4>1
      <4>2. \A q : Differs(p, q)' = Differs(p, q)
        BY <1>0, <2>1, ReportTerms
      <4> QED
        BY <1>0, <4>1, <4>2
    <3> QED
      BY <3>1, <3>2, <3>3, <3>4 DEF Truthful
  <2> QED
    BY <2>1, <2>9 DEF ReportOf, Before, Delivering, Replacing, Named, Holding
<1>10. ASSUME NEW p \in Runs, Start(p) \/ Kill(p) \/ ClosePipe(p) PROVE ReportOf(p)'
  <2>1. /\ UNCHANGED <<sources, changed, replaced, printed, status, position>>
        /\ \/ pc' = pc
           \/ pc'[p] = "killed" /\ pc[p] # "done"
           \/ pc[p] = "idle" /\ pc'[p] = "read"
    BY <1>t, <1>10 DEF Start, Kill, ClosePipe, At, Goto, Idle, results
  <2> QED
    BY <1>0, <2>1, ReportStays
<1>11. ASSUME NEW p \in Runs, Start(p) \/ Step(p) \/ Kill(p) \/ ClosePipe(p), NEW q \in Runs
       PROVE  ReportOf(q)'
  <2>1. CASE q = p
    BY <1>3, <1>4, <1>6, <1>7, <1>8, <1>9, <1>10, <1>11, <2>1 DEF Step
  <2>2. CASE q # p
    BY <1>0, <1>11, <2>2, OtherRuns, ReportStays
  <2> QED
    BY <2>1, <2>2
<1>12. ASSUME NEW f \in Files, Save(f) \/ Delete(f), NEW q \in Runs PROVE ReportOf(q)'
  BY <1>0, <1>12, OwnerSteps, ReportStays
<1>13. ASSUME PowerLoss, NEW q \in Runs PROVE ReportOf(q)'
  <2>1. pc'[q] = pc[q] \/ (pc'[q] = "killed" /\ pc[q] # "done")
    BY <1>0, <1>13, PowerSteps DEF Idle
  <2> QED
    BY <1>0, <1>13, <2>1, PowerSteps, ReportStays
<1> QED
  BY <1>11, <1>12, <1>13 DEF Next, ReportInv

\* A failure to format has replaced nothing; what is listed is what differs,
\* in order; and a run that ends ok has listed all it replaced.
THEOREM ReportsAlwaysTruthful == Spec => []ReportsAreTruthful
<1>1. Init => ReportInv
  <2> SUFFICES ASSUME Init, NEW p \in Runs PROVE ReportOf(p)
    BY DEF ReportInv
  <2>1. /\ pc[p] = "idle" /\ changed[p] = <<>> /\ replaced[p] = {} /\ printed[p] = <<>>
        /\ status[p] = "none"
    BY DEF Init
  <2> QED
    BY <2>1 DEF ReportOf, Truthful, Delivering, Replacing, Named, Holding
<1>2. MemoryInv /\ ReportInv /\ [Next]_vars => ReportInv'
  <2> SUFFICES ASSUME MemoryInv, ReportInv, UNCHANGED vars, NEW p \in Runs PROVE ReportOf(p)'
    BY ReportStep DEF ReportInv
  <2> QED
    BY ReportStays DEF vars
<1>3. ReportInv => ReportsAreTruthful
  BY DEF ReportInv, ReportOf, ReportsAreTruthful
<1> QED
  BY <1>1, <1>2, <1>3, BaseInvariant, PTL DEF Spec

=============================================================================
