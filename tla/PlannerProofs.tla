--------------------------- MODULE PlannerProofs ---------------------------
(***************************************************************************)
(* Proofs about Planner for every set of names, labels, groups and         *)
(* configurations, and with no use of the bounds: the type invariant, the  *)
(* shape of every stack, the exactness of the labelled-DO vector, and the  *)
(* columns kept for the ENDs of a well-formed document.                    *)
(***************************************************************************)
EXTENDS Planner, SequenceTheorems, WellFoundedInduction, TLAPS

(***************************************************************************)
(* Sequences: what removing and replacing entries does, pointwise.         *)
(***************************************************************************)

\* Vec::remove: the entries above move down by one.
LEMMA RemoveAtPointwise ==
    ASSUME NEW S, NEW s \in Seq(S), NEW i \in 1..Len(s)
    PROVE  /\ RemoveAt(s, i) \in Seq(S)
           /\ Len(RemoveAt(s, i)) = Len(s) - 1
           /\ \A j \in 1..(Len(s) - 1) :
                 RemoveAt(s, i)[j] = IF j < i THEN s[j] ELSE s[j + 1]
<1> DEFINE lo == SubSeq(s, 1, i - 1)
           hi == SubSeq(s, i + 1, Len(s))
<1>1. /\ lo \in Seq(S) /\ Len(lo) = i - 1
      /\ \A j \in 1..(i - 1) : lo[j] = s[j]
  BY SubSeqProperties
<1>2. /\ hi \in Seq(S) /\ Len(hi) = Len(s) - i
      /\ \A j \in 1..(Len(s) - i) : hi[j] = s[i + j]
  <2>1. Len(s) \in Nat /\ \A j \in (i + 1)..Len(s) : s[j] \in S
    BY LenProperties, ElementOfSeq
  <2>2. /\ hi \in Seq(S)
        /\ Len(hi) = IF i + 1 <= Len(s) THEN Len(s) - (i + 1) + 1 ELSE 0
        /\ \A j \in 1..(Len(s) - (i + 1) + 1) : hi[j] = s[(i + 1) + j - 1]
    BY <2>1, SubSeqProperties
  <2> QED BY <2>1, <2>2
<1>3. /\ lo \o hi \in Seq(S)
      /\ Len(lo \o hi) = Len(lo) + Len(hi)
      /\ \A j \in 1..(Len(lo) + Len(hi)) :
            (lo \o hi)[j] = IF j <= Len(lo) THEN lo[j] ELSE hi[j - Len(lo)]
  <2> HIDE DEF lo, hi
  <2> QED BY <1>1, <1>2, ConcatProperties
<1>4. RemoveAt(s, i) = lo \o hi
  BY DEF RemoveAt
<1>5. Len(s) \in Nat
  BY LenProperties
<1> HIDE DEF lo, hi
<1>6. ASSUME NEW j \in 1..(Len(s) - 1)
      PROVE  (lo \o hi)[j] = IF j < i THEN s[j] ELSE s[j + 1]
  <2>1. (lo \o hi)[j] = IF j <= i - 1 THEN lo[j] ELSE hi[j - (i - 1)]
    BY <1>1, <1>2, <1>3, <1>5
  <2>2. CASE j <= i - 1
    BY <2>1, <2>2, <1>1, <1>5
  <2>3. CASE j > i - 1
    <3>1. PICK k \in 1..(Len(s) - i) : k = j - (i - 1) /\ i + k = j + 1
      BY <2>3, <1>5
    <3>2. hi[k] = s[j + 1]
      BY <3>1, <1>2
    <3> QED BY <3>1, <3>2, <2>1, <2>3, <1>5
  <2>4. j <= i - 1 \/ j > i - 1
    BY <1>5
  <2> QED BY <2>2, <2>3, <2>4
<1> QED BY <1>1, <1>2, <1>3, <1>4, <1>5, <1>6

LEMMA FrontPointwise ==
    ASSUME NEW S, NEW s \in Seq(S), s # <<>>
    PROVE  /\ Front(s) \in Seq(S)
           /\ Len(Front(s)) = Len(s) - 1
           /\ \A j \in 1..(Len(s) - 1) : Front(s)[j] = s[j]
<1>1. Len(s) \in Nat /\ Len(s) >= 1
  BY LenProperties, EmptySeq
<1>2. \A j \in 1..(Len(s) - 1) : s[j] \in S
  BY <1>1, ElementOfSeq
<1>3. PICK n \in Nat : n = Len(s) - 1
  BY <1>1
<1>4. /\ SubSeq(s, 1, n) \in Seq(S)
      /\ Len(SubSeq(s, 1, n)) = IF 1 <= n THEN n - 1 + 1 ELSE 0
      /\ \A j \in 1..(n - 1 + 1) : SubSeq(s, 1, n)[j] = s[1 + j - 1]
  BY <1>2, <1>3, SubSeqProperties
<1>5. n - 1 + 1 = n /\ \A j \in 1..n : 1 + j - 1 = j
  OBVIOUS
<1>6. Len(SubSeq(s, 1, n)) = n
  BY <1>4
<1>7. \A j \in 1..n : SubSeq(s, 1, n)[j] = s[j]
  BY <1>4, <1>5
<1> QED BY <1>3, <1>4, <1>6, <1>7 DEF Front

LEMMA WithLastPointwise ==
    ASSUME NEW S, NEW s \in Seq(S), NEW x \in S
    PROVE  /\ WithLast(s, x) \in Seq(S)
           /\ Len(WithLast(s, x)) = Len(s)
           /\ \A j \in 1..Len(s) : j # Len(s) => WithLast(s, x)[j] = s[j]
           /\ s # <<>> => WithLast(s, x)[Len(s)] = x
  BY LenProperties, EmptySeq, ExceptSeq DEF WithLast

LEMMA WithFirstPointwise ==
    ASSUME NEW S, NEW s \in Seq(S), NEW x \in S
    PROVE  /\ WithFirst(s, x) \in Seq(S)
           /\ Len(WithFirst(s, x)) = Len(s)
           /\ \A j \in 1..Len(s) :
                 WithFirst(s, x)[j] = IF j = 1 THEN x ELSE s[j]
  BY LenProperties, EmptySeq, ExceptSeq DEF WithFirst

\* A nonempty set of positions has a highest one.
LEMMA InnermostExists ==
    ASSUME NEW n \in Nat, NEW S, S \subseteq 1..n, S # {}
    PROVE  Innermost(S) \in S /\ \A j \in S : j <= Innermost(S)
<1> DEFINE T == {n - i : i \in S}
           R == OpToRel(<, Nat)
<1>1. T \subseteq Nat
  <2>1. \A i \in S : n - i \in Nat
    OBVIOUS
  <2> QED BY <2>1
<1>2. T # {}
  <2>1. PICK i : i \in S
    OBVIOUS
  <2>2. n - i \in T
    BY <2>1
  <2> QED BY <2>2
<1>3. \E x \in T : \A y \in T : ~ (<<y, x>> \in R)
  <2>1. IsWellFoundedOn(R, Nat)
    BY NatLessThanWellFounded
  <2> HIDE DEF R, T
  <2> QED BY <1>1, <1>2, <2>1, WFMin
<1>4. \A x, y \in Nat : <<y, x>> \in R <=> y < x
  BY DEF OpToRel
<1>5. PICK i \in S : \A j \in S : ~ (n - j < n - i)
  <2>1. PICK x \in T : \A y \in T : ~ (y < x)
    BY <1>1, <1>3, <1>4
  <2>2. PICK i \in S : x = n - i
    BY <2>1
  <2>3. \A j \in S : n - j \in T
    OBVIOUS
  <2> QED BY <2>1, <2>2, <2>3
<1>6. \E k \in S : \A j \in S : j <= k
  <2>1. \A j \in S : j <= i
    BY <1>5
  <2> QED BY <2>1, <1>5
<1> QED BY <1>6 DEF Innermost

(***************************************************************************)
(* Stacks.  A good stack is typed, its vectors are in step, and its        *)
(* labelled-DO vector is exact; every operation keeps it good.             *)
(***************************************************************************)
Good(st) == st \in Stack /\ Shape(st) /\ LabelsNameLoops(st)

LEMMA Lengths ==
    ASSUME NEW st, st \in Stack
    PROVE  /\ Len(st.frames) \in Nat /\ Len(st.values) \in Nat /\ Len(st.raw_values) \in Nat
           /\ HasTop(st) <=> Len(st.frames) >= 1
           /\ st.values # <<>> <=> Len(st.values) >= 1
           /\ st.raw_values # <<>> <=> Len(st.raw_values) >= 1
  BY LenProperties, EmptySeq DEF Stack, HasTop

LEMMA ColumnsAreNat ==
    ASSUME NEW st, st \in Stack
    PROVE  Current(st) \in Nat /\ RawCurrent(st) \in Nat
<1>1. st.base \in Nat /\ st.values \in Seq(Nat) /\ st.raw_values \in Seq(Nat)
  BY DEF Stack
<1> QED BY <1>1, Lengths, ElementOfSeq DEF Current, RawCurrent, Last

LEMMA ArithmeticTypes ==
    ASSUME NEW m \in Nat, NEW n \in Nat
    PROVE  SaturatingSub(m, n) \in Nat /\ Clamp(m, n) \in Nat
  BY DEF SaturatingSub, Clamp

LEMMA NewStackGood ==
    ASSUME NEW base \in Nat
    PROVE  Good(NewStack(base))
  BY EmptySeq, LenProperties DEF NewStack, Good, Stack, Shape, LabelsNameLoops

LEMMA SetBaseGood ==
    ASSUME NEW st, Good(st), NEW base \in Nat
    PROVE  Good(SetBase(st, base))
<1> DEFINE new == SetBase(st, base)
<1>1. st.values \in Seq(Nat) /\ st.raw_values \in Seq(Nat)
  BY DEF Good, Stack
<1>2. /\ WithFirst(st.values, base) \in Seq(Nat)
      /\ Len(WithFirst(st.values, base)) = Len(st.values)
      /\ WithFirst(st.raw_values, base) \in Seq(Nat)
      /\ Len(WithFirst(st.raw_values, base)) = Len(st.raw_values)
  BY <1>1, WithFirstPointwise
<1>3. /\ new.values = WithFirst(st.values, base)
      /\ new.raw_values = WithFirst(st.raw_values, base)
      /\ new.frames = st.frames /\ new.labeled_do = st.labeled_do
      /\ new \in Stack
  BY <1>2 DEF SetBase, Good, Stack
<1> QED BY <1>2, <1>3 DEF Good, Shape, LabelsNameLoops

LEMMA SetActiveGood ==
    ASSUME NEW st, Good(st), NEW raw \in Nat, NEW visible \in Nat
    PROVE  Good(SetActive(st, raw, visible))
<1> DEFINE new == SetActive(st, raw, visible)
<1>1. st.values \in Seq(Nat) /\ st.raw_values \in Seq(Nat)
  BY DEF Good, Stack
<1>2. /\ WithLast(st.values, visible) \in Seq(Nat)
      /\ Len(WithLast(st.values, visible)) = Len(st.values)
      /\ WithLast(st.raw_values, raw) \in Seq(Nat)
      /\ Len(WithLast(st.raw_values, raw)) = Len(st.raw_values)
  <2>1. /\ WithLast(st.values, visible) \in Seq(Nat)
        /\ Len(WithLast(st.values, visible)) = Len(st.values)
    BY <1>1, WithLastPointwise
  <2>2. /\ WithLast(st.raw_values, raw) \in Seq(Nat)
        /\ Len(WithLast(st.raw_values, raw)) = Len(st.raw_values)
    BY <1>1, WithLastPointwise
  <2> QED BY <2>1, <2>2
<1>3. /\ new.values = WithLast(st.values, visible)
      /\ new.raw_values = WithLast(st.raw_values, raw)
      /\ new.frames = st.frames /\ new.labeled_do = st.labeled_do
      /\ new \in Stack
  BY <1>2 DEF SetActive, Good, Stack
<1> QED BY <1>2, <1>3 DEF Good, Shape, LabelsNameLoops

LEMMA OrphanGood ==
    ASSUME NEW st, Good(st), NEW k \in ProcedureKinds \cup {None}
    PROVE  Good([st EXCEPT !.orphan_procedure = k])
  BY DEF Good, Stack, Shape, LabelsNameLoops

\* new is st with one more frame, of this kind and without a label.
OnePushed(st, new, kind) ==
    /\ Good(new)
    /\ Len(new.frames) = Len(st.frames) + 1
    /\ new.frames[Len(new.frames)].kind = kind
    /\ new.frames[Len(new.frames)].doLabel = None

LEMMA PushGood ==
    ASSUME NEW st, Good(st), NEW kind \in FrameKinds, NEW amount \in Nat,
           NEW name \in Names \cup {None}, NEW max \in Nat
    PROVE  OnePushed(st, Push(st, kind, amount, name, max), kind)
<1> DEFINE new == Push(st, kind, amount, name, max)
           raw == RawCurrent(st) + amount
           frame == [kind |-> kind, name |-> name,
                     opened |-> RawCurrent(st), doLabel |-> None]
<1>1. /\ st.values \in Seq(Nat) /\ st.raw_values \in Seq(Nat) /\ st.frames \in Seq(Frame)
      /\ st \in Stack
  BY DEF Good, Stack
<1>2. RawCurrent(st) \in Nat /\ raw \in Nat /\ Clamp(raw, max) \in Nat /\ frame \in Frame
  <2>1. RawCurrent(st) \in Nat
    BY <1>1, ColumnsAreNat
  <2>2. raw \in Nat /\ frame \in Frame
    BY <2>1 DEF Frame
  <2>3. Clamp(raw, max) \in Nat
    <3> HIDE DEF raw
    <3> QED BY <2>2, ArithmeticTypes
  <2> QED BY <2>1, <2>2, <2>3
<1>3. /\ new.values = Append(st.values, Clamp(raw, max))
      /\ new.raw_values = Append(st.raw_values, raw)
      /\ new.frames = Append(st.frames, frame)
      /\ new.labeled_do = st.labeled_do
      /\ new.base = st.base /\ new.orphan_procedure = st.orphan_procedure
      /\ new = [st EXCEPT !.raw_values = new.raw_values, !.values = new.values,
                          !.frames = new.frames]
  BY <1>1 DEF Push, Stack
<1> HIDE DEF new, raw, frame
<1>4. /\ new.values \in Seq(Nat) /\ Len(new.values) = Len(st.values) + 1
      /\ new.raw_values \in Seq(Nat) /\ Len(new.raw_values) = Len(st.raw_values) + 1
      /\ new.frames \in Seq(Frame) /\ Len(new.frames) = Len(st.frames) + 1
      /\ \A i \in 1..Len(st.frames) : new.frames[i] = st.frames[i]
      /\ new.frames[Len(st.frames) + 1] = frame
  BY <1>1, <1>2, <1>3, AppendProperties
<1>5. new \in Stack
  BY <1>1, <1>3, <1>4 DEF Stack
<1>6. Shape(new)
  BY <1>4 DEF Shape, Good
<1>7. frame.kind = kind /\ frame.doLabel = None
  BY DEF frame
<1>8. LabelsNameLoops(new)
  <2>1. LabelsNameLoops(st) /\ Len(st.frames) \in Nat
    BY <1>1, Lengths DEF Good
  <2>2. ASSUME NEW d \in new.labeled_do
        PROVE  d.index \in 1..Len(new.frames) /\ new.frames[d.index].doLabel = d.label
    BY <2>1, <1>3, <1>4 DEF LabelsNameLoops
  <2>3. ASSUME NEW i \in 1..Len(new.frames), new.frames[i].doLabel # None
        PROVE  /\ new.frames[i].kind = "Do"
               /\ [label |-> new.frames[i].doLabel, index |-> i] \in new.labeled_do
    <3>1. i \in 1..Len(st.frames)
      BY <2>1, <2>3, <1>4, <1>7
    <3> QED BY <3>1, <2>1, <2>3, <1>3, <1>4 DEF LabelsNameLoops
  <2> QED BY <2>2, <2>3 DEF LabelsNameLoops
<1>9. /\ Good(new) /\ Len(new.frames) = Len(st.frames) + 1
      /\ new.frames[Len(new.frames)] = frame
  BY <1>4, <1>5, <1>6, <1>8, <1>1, Lengths DEF Good
<1>10. OnePushed(st, new, kind)
  BY <1>7, <1>9 DEF OnePushed
<1> QED BY <1>10 DEF new

\* label_do right after the push of its loop.
LEMMA LabelDoGood ==
    ASSUME NEW st, Good(st), NEW label \in Labels, HasTop(st),
           Top(st).kind = "Do", Top(st).doLabel = None
    PROVE  Good(LabelDo(st, label))
<1> DEFINE new == LabelDo(st, label)
           n == Len(st.frames)
           entry == [label |-> label, index |-> n]
<1>1. st \in Stack /\ st.frames \in Seq(Frame) /\ Shape(st) /\ LabelsNameLoops(st)
  BY DEF Good, Stack
<1>2. n \in Nat /\ n >= 1
  BY <1>1, Lengths
<1>3. Top(st) = st.frames[n] /\ Top(st) \in Frame
  BY <1>1, <1>2, ElementOfSeq DEF Top, Last
<1>4. PICK loop \in Frame : /\ loop = [Top(st) EXCEPT !.doLabel = label]
                            /\ loop.doLabel = label
                            /\ loop.kind = "Do" /\ label # None
  <2>1. [Top(st) EXCEPT !.doLabel = label] \in Frame
    BY <1>3 DEF Frame
  <2>2. /\ [Top(st) EXCEPT !.doLabel = label].doLabel = label
        /\ [Top(st) EXCEPT !.doLabel = label].kind = "Do"
    BY <1>3 DEF Frame
  <2> QED BY <2>1, <2>2, NoneIsFresh
<1>5. /\ new.labeled_do = st.labeled_do \cup {entry}
      /\ new.frames = WithLast(st.frames, loop)
      /\ new.values = st.values /\ new.raw_values = st.raw_values
  BY <1>1, <1>4 DEF LabelDo, Stack
<1>5a. new = [st EXCEPT !.labeled_do = new.labeled_do, !.frames = new.frames]
  BY <1>1 DEF LabelDo, Stack
<1> HIDE DEF new
<1>6. /\ new.frames \in Seq(Frame) /\ Len(new.frames) = n
      /\ \A i \in 1..n : i # n => new.frames[i] = st.frames[i]
      /\ new.frames[n] = loop
  <2>0. st.frames \in Seq(Frame) /\ loop \in Frame /\ st.frames # <<>>
    BY <1>1, <1>4 DEF HasTop
  <2>1. /\ WithLast(st.frames, loop) \in Seq(Frame)
        /\ Len(WithLast(st.frames, loop)) = Len(st.frames)
        /\ \A i \in 1..Len(st.frames) :
              i # Len(st.frames) => WithLast(st.frames, loop)[i] = st.frames[i]
        /\ WithLast(st.frames, loop)[Len(st.frames)] = loop
    <3>1. PICK f : f = st.frames
      OBVIOUS
    <3>2. f \in Seq(Frame) /\ f # <<>>
      BY <2>0, <3>1
    <3>3. /\ WithLast(f, loop) \in Seq(Frame)
          /\ Len(WithLast(f, loop)) = Len(f)
          /\ \A i \in 1..Len(f) : i # Len(f) => WithLast(f, loop)[i] = f[i]
          /\ WithLast(f, loop)[Len(f)] = loop
      BY <3>2, <2>0, WithLastPointwise
    <3> QED BY <3>1, <3>3
  <2> QED BY <2>1, <1>5
<1>7. new.labeled_do \subseteq [label : Labels, index : Nat]
  BY <1>1, <1>2, <1>5 DEF Stack
<1>8. new \in Stack /\ Shape(new)
  BY <1>1, <1>5, <1>5a, <1>6, <1>7 DEF Stack, Shape
<1>9. ASSUME NEW d \in new.labeled_do
      PROVE  d.index \in 1..n /\ new.frames[d.index].doLabel = d.label
  <2>1. CASE d = entry
    <3>1. d.index = n /\ d.label = label
      BY <2>1
    <3> QED BY <3>1, <1>2, <1>4, <1>6
  <2>2. CASE d \in st.labeled_do
    <3>1. d.index \in 1..n /\ st.frames[d.index].doLabel = d.label /\ d.label \in Labels
      BY <2>2, <1>1 DEF LabelsNameLoops, Stack
    <3>2. d.index # n
      BY <3>1, <1>3, NoneIsFresh
    <3> QED BY <3>1, <3>2, <1>6
  <2> QED BY <2>1, <2>2, <1>5
<1>10. ASSUME NEW i \in 1..n, new.frames[i].doLabel # None
       PROVE  /\ new.frames[i].kind = "Do"
              /\ [label |-> new.frames[i].doLabel, index |-> i] \in new.labeled_do
  <2>1. CASE i = n
    BY <2>1, <1>2, <1>4, <1>5, <1>6
  <2>2. CASE i # n
    BY <2>2, <1>10, <1>1, <1>5, <1>6 DEF LabelsNameLoops
  <2> QED BY <2>1, <2>2
<1> QED BY <1>6, <1>8, <1>9, <1>10 DEF Good, LabelsNameLoops, new

LEMMA PopGood ==
    ASSUME NEW st, Good(st), HasTop(st)
    PROVE  /\ Good(Pop(st))
           /\ Pop(st).frames = Front(st.frames)
           /\ Pop(st).raw_values = Front(st.raw_values)
           /\ Pop(st).base = st.base
<1> DEFINE new == Pop(st)
           n == Len(st.frames)
<1>1. st \in Stack /\ st.frames \in Seq(Frame) /\ Shape(st) /\ LabelsNameLoops(st)
      /\ st.values \in Seq(Nat) /\ st.raw_values \in Seq(Nat)
      /\ st.labeled_do \subseteq [label : Labels, index : Nat]
  BY DEF Good, Stack
<1>2. n \in Nat /\ n >= 1 /\ Len(st.values) = n + 1 /\ Len(st.raw_values) = n + 1
      /\ st.frames # <<>> /\ st.values # <<>> /\ st.raw_values # <<>>
  BY <1>1, Lengths DEF Shape, HasTop
<1>3. /\ new.values = Front(st.values) /\ new.raw_values = Front(st.raw_values)
      /\ new.frames = Front(st.frames) /\ new.base = st.base
      /\ new.labeled_do = {d \in st.labeled_do : d.index # n}
  BY <1>1, <1>2 DEF Pop, Stack
<1>3a. new = [st EXCEPT !.values = new.values, !.raw_values = new.raw_values,
                        !.frames = new.frames, !.labeled_do = new.labeled_do]
  BY <1>1 DEF Pop, Stack
<1> HIDE DEF new
<1>4. /\ new.frames \in Seq(Frame) /\ Len(new.frames) = n - 1
      /\ \A j \in 1..(n - 1) : new.frames[j] = st.frames[j]
  <2>1. /\ Front(st.frames) \in Seq(Frame) /\ Len(Front(st.frames)) = Len(st.frames) - 1
        /\ \A j \in 1..(Len(st.frames) - 1) : Front(st.frames)[j] = st.frames[j]
    BY <1>1, <1>2, FrontPointwise
  <2> QED BY <2>1, <1>3
<1>5. /\ new.values \in Seq(Nat) /\ Len(new.values) = n
      /\ new.raw_values \in Seq(Nat) /\ Len(new.raw_values) = n
  <2>1. Front(st.values) \in Seq(Nat) /\ Len(Front(st.values)) = Len(st.values) - 1
    BY <1>1, <1>2, FrontPointwise
  <2>2. Front(st.raw_values) \in Seq(Nat) /\ Len(Front(st.raw_values)) = Len(st.raw_values) - 1
    BY <1>1, <1>2, FrontPointwise
  <2> QED BY <2>1, <2>2, <1>2, <1>3
<1>6. new \in Stack /\ Shape(new)
  <2>1. new.labeled_do \subseteq [label : Labels, index : Nat]
    BY <1>1, <1>3
  <2>2. Shape(new)
    BY <1>2, <1>4, <1>5 DEF Shape
  <2>3. new \in Stack
    BY <1>1, <1>3a, <1>4, <1>5, <2>1 DEF Stack
  <2> QED BY <2>2, <2>3
<1>7. ASSUME NEW d \in new.labeled_do
      PROVE  d.index \in 1..(n - 1) /\ new.frames[d.index].doLabel = d.label
  <2>1. d.index \in 1..n /\ d.index # n /\ st.frames[d.index].doLabel = d.label
    BY <1>1, <1>3 DEF LabelsNameLoops
  <2> QED BY <2>1, <1>2, <1>4
<1>8. ASSUME NEW i \in 1..(n - 1), new.frames[i].doLabel # None
      PROVE  /\ new.frames[i].kind = "Do"
             /\ [label |-> new.frames[i].doLabel, index |-> i] \in new.labeled_do
  <2>1. i \in 1..n /\ i # n /\ new.frames[i] = st.frames[i]
    BY <1>2, <1>4
  <2> QED BY <2>1, <1>8, <1>1, <1>3 DEF LabelsNameLoops
<1> QED BY <1>3, <1>4, <1>6, <1>7, <1>8 DEF Good, LabelsNameLoops, new

\* Removing an unlisted frame and renumbering the loops above it.
LEMMA RemoveFrameGood ==
    ASSUME NEW st, st \in Stack, Shape(st), NEW i \in 1..Len(st.frames),
           \A d \in st.labeled_do :
              /\ d.index \in 1..Len(st.frames) /\ d.index # i
              /\ st.frames[d.index].doLabel = d.label,
           \A j \in 1..Len(st.frames) :
              j # i /\ st.frames[j].doLabel # None =>
                 /\ st.frames[j].kind = "Do"
                 /\ [label |-> st.frames[j].doLabel, index |-> j] \in st.labeled_do
    PROVE  Good(RemoveFrame(st, i))
<1> DEFINE new == RemoveFrame(st, i)
           n == Len(st.frames)
           moved(d) == IF d.index > i THEN [d EXCEPT !.index = d.index - 1] ELSE d
<1>1. /\ st.frames \in Seq(Frame) /\ st.values \in Seq(Nat) /\ st.raw_values \in Seq(Nat)
      /\ st.labeled_do \subseteq [label : Labels, index : Nat]
      /\ n \in Nat /\ Len(st.values) = n + 1 /\ Len(st.raw_values) = n + 1
  BY Lengths DEF Stack, Shape
<1>0. n \in Nat /\ i \in 1..n
  BY <1>1
<1>2. /\ new.frames = RemoveAt(st.frames, i)
      /\ new.values = RemoveAt(st.values, i + 1)
      /\ new.raw_values = RemoveAt(st.raw_values, i + 1)
      /\ new.labeled_do = {moved(d) : d \in st.labeled_do}
  BY DEF RemoveFrame, Stack
<1>3. new = [st EXCEPT !.values = new.values, !.raw_values = new.raw_values,
                       !.frames = new.frames, !.labeled_do = new.labeled_do]
  BY DEF RemoveFrame, Stack
<1> HIDE DEF new
<1>4. /\ new.frames \in Seq(Frame) /\ Len(new.frames) = n - 1
      /\ \A j \in 1..(n - 1) :
            new.frames[j] = IF j < i THEN st.frames[j] ELSE st.frames[j + 1]
  <2>1. PICK f : f = st.frames
    OBVIOUS
  <2>2. f \in Seq(Frame) /\ i \in 1..Len(f)
    BY <1>1, <2>1
  <2>3. /\ RemoveAt(f, i) \in Seq(Frame) /\ Len(RemoveAt(f, i)) = Len(f) - 1
        /\ \A j \in 1..(Len(f) - 1) :
              RemoveAt(f, i)[j] = IF j < i THEN f[j] ELSE f[j + 1]
    BY <2>2, RemoveAtPointwise
  <2> QED BY <2>1, <2>3, <1>2
<1>5. new.values \in Seq(Nat) /\ Len(new.values) = n
  <2>1. i + 1 \in 1..Len(st.values)
    BY <1>1
  <2>2. RemoveAt(st.values, i + 1) \in Seq(Nat)
        /\ Len(RemoveAt(st.values, i + 1)) = Len(st.values) - 1
    BY <1>1, <2>1, RemoveAtPointwise
  <2> QED BY <2>2, <1>1, <1>2
<1>6. new.raw_values \in Seq(Nat) /\ Len(new.raw_values) = n
  <2>1. i + 1 \in 1..Len(st.raw_values)
    BY <1>1
  <2>2. RemoveAt(st.raw_values, i + 1) \in Seq(Nat)
        /\ Len(RemoveAt(st.raw_values, i + 1)) = Len(st.raw_values) - 1
    BY <1>1, <2>1, RemoveAtPointwise
  <2> QED BY <2>2, <1>1, <1>2
<1>7. ASSUME NEW d \in st.labeled_do
      PROVE  /\ moved(d) = [label |-> d.label,
                            index |-> IF d.index > i THEN d.index - 1 ELSE d.index]
             /\ moved(d) \in [label : Labels, index : Nat]
             /\ moved(d).index \in 1..(n - 1)
             /\ new.frames[moved(d).index].doLabel = moved(d).label
  <2>1. /\ d \in [label : Labels, index : Nat] /\ d.index \in 1..n /\ d.index # i
        /\ st.frames[d.index].doLabel = d.label
    BY <1>1
  <2>2. CASE d.index > i
    <3>1. PICK k \in Nat : k = d.index - 1
      BY <2>1, <2>2
    <3>2. moved(d) = [label |-> d.label, index |-> k]
      BY <3>1, <2>1, <2>2
    <3>3. k \in 1..(n - 1) /\ ~ (k < i) /\ k + 1 = d.index
      <4>1. PICK x \in 1..n : x = d.index
        BY <2>1
      <4>2. x > i /\ k = x - 1
        BY <4>1, <3>1, <2>2
      <4>3. k \in 1..(n - 1) /\ ~ (k < i) /\ k + 1 = x
        BY <4>2, <1>0
      <4> QED BY <4>1, <4>3
    <3>4. new.frames[k] = st.frames[d.index]
      BY <3>3, <1>4
    <3> QED BY <3>1, <3>2, <3>3, <3>4, <2>1, <2>2
  <2>3. CASE ~ (d.index > i)
    <3>1. moved(d) = d /\ d = [label |-> d.label, index |-> d.index]
      BY <2>1, <2>3
    <3>2. d.index \in 1..(n - 1) /\ d.index < i
      BY <2>1, <2>3, <1>1
    <3>3. new.frames[d.index] = st.frames[d.index]
      BY <3>2, <1>4
    <3> QED BY <3>1, <3>2, <3>3, <2>1, <2>3
  <2> QED BY <2>2, <2>3
<1>8. ASSUME NEW j \in 1..(n - 1), new.frames[j].doLabel # None
      PROVE  /\ new.frames[j].kind = "Do"
             /\ [label |-> new.frames[j].doLabel, index |-> j] \in new.labeled_do
  <2>1. PICK k \in 1..n : k = IF j < i THEN j ELSE j + 1
    BY <1>1
  <2>2. k # i /\ new.frames[j] = st.frames[k]
    <3>1. CASE j < i
      BY <3>1, <2>1, <1>4
    <3>2. CASE ~ (j < i)
      <4>1. k = j + 1
        BY <3>2, <2>1
      <4>2. j + 1 # i
        BY <3>2, <1>0
      <4> QED BY <3>2, <4>1, <4>2, <1>4
    <3> QED BY <3>1, <3>2
  <2>3. PICK d \in st.labeled_do : d = [label |-> st.frames[k].doLabel, index |-> k]
    BY <2>2, <1>8
  <2>4. d.label = st.frames[k].doLabel /\ d.index = k
    BY <2>3
  <2>5. j = IF d.index > i THEN d.index - 1 ELSE d.index
    BY <2>1, <2>4, <1>1
  <2>6. moved(d) = [label |-> st.frames[k].doLabel, index |-> j]
    BY <2>4, <2>5, <1>7
  <2>7. moved(d) \in new.labeled_do
    BY <1>2
  <2> QED BY <2>2, <2>6, <2>7, <1>8
<1>9. \A e \in new.labeled_do : \E d \in st.labeled_do : e = moved(d)
  BY <1>2
<1> HIDE DEF moved
<1>10. new \in Stack /\ Shape(new)
  <2>1. new.labeled_do \subseteq [label : Labels, index : Nat]
    BY <1>7, <1>9
  <2>2. new \in Stack
    BY <1>3, <1>4, <1>5, <1>6, <2>1 DEF Stack
  <2>3. n - 1 + 1 = n
    BY <1>1
  <2>4. Shape(new)
    BY <2>3, <1>4, <1>5, <1>6 DEF Shape
  <2> QED BY <2>2, <2>4
<1>11. \A e \in new.labeled_do :
          e.index \in 1..Len(new.frames) /\ new.frames[e.index].doLabel = e.label
  BY <1>4, <1>7, <1>9
<1> QED BY <1>4, <1>8, <1>10, <1>11 DEF Good, LabelsNameLoops, new

\* A definition is no labelled loop: taking it out leaves the list exact.
LEMMA InnermostGood ==
    ASSUME NEW st, Good(st), DefinitionFrames(st) # {}
    PROVE  Good(RemoveFrame(st, Innermost(DefinitionFrames(st))))
<1> DEFINE i == Innermost(DefinitionFrames(st))
<1>1. st \in Stack /\ Shape(st) /\ LabelsNameLoops(st) /\ Len(st.frames) \in Nat
  BY Lengths DEF Good
<1>2. i \in DefinitionFrames(st)
  BY <1>1, InnermostExists DEF DefinitionFrames
<1>3. i \in 1..Len(st.frames) /\ st.frames[i].kind # "Do"
  BY <1>2 DEF DefinitionFrames, DefinitionKinds
<1>4. st.frames[i].doLabel = None
  BY <1>1, <1>3 DEF LabelsNameLoops
<1>5. \A d \in st.labeled_do : d.label \in Labels
  BY <1>1 DEF Stack
<1>6. \A d \in st.labeled_do : d.index # i
  BY <1>1, <1>4, <1>5, NoneIsFresh DEF LabelsNameLoops
<1> HIDE DEF i
<1>7. Good(RemoveFrame(st, i))
  BY <1>1, <1>3, <1>6, RemoveFrameGood DEF LabelsNameLoops
<1> QED BY <1>7 DEF i

LEMMA RecoverGood ==
    ASSUME NEW st, Good(st), DefinitionFrames(st) # {},
           NEW amount \in Nat, NEW max \in Nat
    PROVE  Good(RecoverDefinitionEnd(st, amount, max))
<1> DEFINE cut == RemoveFrame(st, Innermost(DefinitionFrames(st)))
           raw == SaturatingSub(RawCurrent(cut), amount)
<1>1. Good(cut)
  BY InnermostGood
<1> HIDE DEF cut
<1>2. raw \in Nat
  BY <1>1, ColumnsAreNat, ArithmeticTypes DEF Good
<1> HIDE DEF raw
<1>3. Clamp(raw, max) \in Nat
  BY <1>2, ArithmeticTypes
<1>4. Good(SetActive(cut, raw, Clamp(raw, max)))
  BY <1>1, <1>2, <1>3, SetActiveGood
<1> QED BY <1>4 DEF RecoverDefinitionEnd, BackOut, cut, raw

\* One turn of close_label's loop.
LEMMA CloseLoopGood ==
    ASSUME NEW st, Good(st), NEW label, LoopsEndingAt(st, label) # {}
    PROVE  Good(CloseInnermostLoop(st, label))
<1> DEFINE i == Innermost(LoopsEndingAt(st, label))
           entry == [label |-> label, index |-> i]
           rest == [st EXCEPT !.labeled_do = @ \ {entry}]
<1>1. st \in Stack /\ Shape(st) /\ LabelsNameLoops(st) /\ Len(st.frames) \in Nat
  BY Lengths DEF Good
<1>2. i \in LoopsEndingAt(st, label)
  BY <1>1, InnermostExists DEF LoopsEndingAt, LabelsNameLoops
<1>3. /\ i \in 1..Len(st.frames) /\ st.frames[i].doLabel = label
      /\ \A d \in st.labeled_do : d.index = i => d.label = label
  BY <1>1, <1>2 DEF LoopsEndingAt, LabelsNameLoops
<1> HIDE DEF i
<1>4. /\ rest \in Stack /\ rest.frames = st.frames /\ rest.values = st.values
      /\ rest.raw_values = st.raw_values /\ rest.labeled_do = st.labeled_do \ {entry}
  BY <1>1 DEF Stack
<1>5. Shape(rest)
  BY <1>1, <1>4 DEF Shape
<1>6. ASSUME NEW d \in rest.labeled_do
      PROVE  /\ d.index \in 1..Len(rest.frames) /\ d.index # i
             /\ rest.frames[d.index].doLabel = d.label
  <2>1. d \in st.labeled_do /\ d # entry /\ d \in [label : Labels, index : Nat]
    BY <1>1, <1>4 DEF Stack
  <2>2. d = [label |-> d.label, index |-> d.index]
    BY <2>1
  <2>3. d.index # i
    BY <2>1, <2>2, <1>3
  <2> QED BY <2>1, <2>3, <1>1, <1>4 DEF LabelsNameLoops
<1>7. ASSUME NEW j \in 1..Len(rest.frames), j # i, rest.frames[j].doLabel # None
      PROVE  /\ rest.frames[j].kind = "Do"
             /\ [label |-> rest.frames[j].doLabel, index |-> j] \in rest.labeled_do
  <2>1. [label |-> rest.frames[j].doLabel, index |-> j] # entry
    BY <1>7
  <2> QED BY <2>1, <1>1, <1>4, <1>7 DEF LabelsNameLoops
<1>8. i \in 1..Len(rest.frames)
  BY <1>3, <1>4
<1> HIDE DEF rest
<1>9. Good(RemoveFrame(rest, i))
  BY <1>4, <1>5, <1>6, <1>7, <1>8, RemoveFrameGood
<1> QED BY <1>9, <1>8, <1>4, <1>3 DEF CloseInnermostLoop, rest, i

(***************************************************************************)
(* The planner.  The inductive invariant: the state is typed and every     *)
(* stack it holds, the snapshots included, is good.  Good implies the      *)
(* stack's type, so TypeOK alone would not be inductive: Pop and           *)
(* RemoveFrame index the column vectors by frame numbers.                  *)
(***************************************************************************)
IInv == TypeOK /\ \A st \in Stacks : Good(st)

LEMMA IInvParts ==
    ASSUME IInv
    PROVE  /\ Good(stack) /\ stack \in Stack
           /\ \A i \in 1..Len(preprocessor) : Good(preprocessor[i].state)
           /\ config \in Config /\ group \in Group
  BY PlannerAssumption DEF IInv, TypeOK, Stacks

LEMMA InfoType ==
    ASSUME IInv, ~GroupDone
    PROVE  Info \in StatementInfo /\ position + 1 \in 1..Len(group.statements)
<1>1. group.statements \in Seq(StatementInfo) /\ position \in 0..Len(group.statements)
  BY DEF IInv, TypeOK, Group
<1>2. Len(group.statements) \in Nat
  BY <1>1, LenProperties
<1>3. position + 1 \in 1..Len(group.statements)
  BY <1>1, <1>2 DEF GroupDone
<1> QED BY <1>1, <1>3, ElementOfSeq DEF Info

LEMMA TopType ==
    ASSUME NEW st, st \in Stack, HasTop(st)
    PROVE  Top(st) \in Frame /\ Top(st) = st.frames[Len(st.frames)]
  BY Lengths, ElementOfSeq DEF Top, Last, Stack

LEMMA RefactorEndType ==
    ASSUME IInv
    PROVE  RefactorEnd \in Replacement \cup {None}
<1>1. plan.replacement \in Replacement \cup {None}
  BY DEF IInv, TypeOK, Plan
<1>2. ASSUME HasTop(stack)
      PROVE  EndText(Top(stack)) \in Replacement
  BY <1>2, IInvParts, TopType DEF EndText, Replacement, Frame
<1> QED BY <1>1, <1>2 DEF RefactorEnd

\* Every transition, whatever it does to the stack, ends in Place.
LEMMA PlaceInductive ==
    ASSUME IInv, ~GroupDone, NEW st, Good(st), NEW column \in Nat,
           NEW legal \in BOOLEAN, Place(column, st, legal)
    PROVE  IInv'
<1> USE DEF Place
<1>1. position' \in 0..Len(group'.statements) /\ group' \in Group
  BY InfoType, IInvParts DEF IInv, TypeOK
<1>2. stack' \in Stack /\ config' \in Configs
      /\ preprocessor' \in Seq([state : Stack, seen : BOOLEAN])
  BY DEF IInv, TypeOK, Good
<1>3. wellformed' \in BOOLEAN /\ significant_seen' \in BOOLEAN
  BY DEF IInv, TypeOK
<1>4. PICK first \in Nat : first = IF position = 0 THEN column ELSE plan.first_indent
  BY DEF IInv, TypeOK, Plan
<1>5. plan' = [first_indent |-> first, directive_indent |-> Current(st),
               replacement |-> RefactorEnd,
               last_indent |-> Clamp(first, config.max_indent),
               usable |-> plan.usable \/ Significant(Info)]
  BY <1>4
<1>6. Current(st) \in Nat /\ Clamp(first, config.max_indent) \in Nat
      /\ (plan.usable \/ Significant(Info)) \in BOOLEAN
  <2>1. Current(st) \in Nat
    BY ColumnsAreNat DEF Good
  <2>2. config.max_indent \in Nat
    BY IInvParts DEF Config
  <2> QED BY <2>1, <2>2, ArithmeticTypes
<1>7. plan' \in Plan
  BY <1>5, <1>6, RefactorEndType DEF Plan
<1>8. TypeOK'
  BY <1>1, <1>2, <1>3, <1>7 DEF TypeOK
<1>9. stack' = st /\ preprocessor' = preprocessor
  OBVIOUS
<1>10. \A s \in Stacks' : Good(s)
  BY <1>9, IInvParts DEF Stacks
<1> QED BY <1>8, <1>10 DEF IInv

LEMMA TransitionInductive ==
    ASSUME IInv, Transition
    PROVE  IInv'
<1> ~GroupDone
  BY DEF Transition
<1>1. /\ Good(stack) /\ stack \in Stack /\ RawCurrent(stack) \in Nat /\ stack.base \in Nat
      /\ Info \in StatementInfo /\ config \in Config
  BY IInvParts, InfoType, ColumnsAreNat DEF Stack
<1>2. /\ config.max_indent \in Nat /\ config.indent \in Nat /\ config.case_indent \in Nat
      /\ config.entry_indent \in Nat /\ config.contains_indent \in Nat
      /\ \A k \in FrameKinds : config.amount[k] \in Nat
  BY <1>1 DEF Config
<1>3. ASSUME Member PROVE IInv'
  BY <1>1, <1>3, PlaceInductive DEF Member
<1>4. ASSUME OpenFrame PROVE IInv'
  <2> DEFINE name == IF Info.kind \in DefinitionKinds THEN Info.name ELSE None
             pushed == Push(stack, Info.kind, config.amount[Info.kind], name,
                            config.max_indent)
             opened == IF Info.kind = "Do" /\ Info.doLabel # None
                       THEN LabelDo(pushed, Info.doLabel) ELSE pushed
  <2>1. /\ Info.kind \in FrameKinds /\ config.amount[Info.kind] \in Nat
        /\ name \in Names \cup {None}
        /\ Info.doLabel \in Labels \cup {None}
    BY <1>1, <1>2, <1>4 DEF OpenFrame, StatementInfo
  <2>2. /\ Good(pushed)
        /\ Len(pushed.frames) = Len(stack.frames) + 1
        /\ pushed.frames[Len(pushed.frames)].kind = Info.kind
        /\ pushed.frames[Len(pushed.frames)].doLabel = None
    <3>1. PICK kind \in FrameKinds, amount \in Nat, who \in Names \cup {None}, max \in Nat :
             /\ kind = Info.kind /\ amount = config.amount[Info.kind]
             /\ who = name /\ max = config.max_indent
      BY <1>2, <2>1
    <3>2. OnePushed(stack, Push(stack, kind, amount, who, max), kind)
      BY <1>1, PushGood, Zenon
    <3>3. OnePushed(stack, pushed, Info.kind)
      BY <3>1, <3>2
    <3> QED BY <3>3 DEF OnePushed
  <2> HIDE DEF pushed
  <2>3. HasTop(pushed) /\ Top(pushed) = pushed.frames[Len(pushed.frames)]
    BY <1>1, <2>2, Lengths, TopType DEF Good
  <2>4. Good(opened)
    BY <2>1, <2>2, <2>3, LabelDoGood
  <2>5. Place(RawCurrent(stack), opened, TRUE)
    BY <1>4 DEF OpenFrame, pushed
  <2> HIDE DEF opened
  <2> QED BY <1>1, <2>4, <2>5, PlaceInductive
<1>5. ASSUME BranchLine PROVE IInv'
  <2>1. StepBack(Info) \in Nat
    BY <1>2, <1>5 DEF BranchLine, StepBack, FrameKinds, ConstructKinds
  <2>2. SaturatingSub(RawCurrent(stack), StepBack(Info)) \in Nat
    BY <1>1, <2>1, ArithmeticTypes
  <2> QED BY <1>1, <1>5, <2>2, PlaceInductive DEF BranchLine
<1>6. ASSUME ContainsRestart PROVE IInv'
  <2>1. Clamp(stack.base, config.max_indent) \in Nat
    BY <1>1, <1>2, ArithmeticTypes
  <2>2. Good(RestartAtBase(stack, config.max_indent))
    BY <1>1, <2>1, SetActiveGood DEF RestartAtBase
  <2> QED BY <1>1, <1>6, <2>2, PlaceInductive DEF ContainsRestart
<1>7. ASSUME EndConstruct PROVE IInv'
  <2>1. PICK matches \in BOOLEAN, st \in {stack, Pop(stack)} :
           /\ matches = TopIs(stack, {EndOf[Info.kind]})
           /\ st = IF matches THEN Pop(stack) ELSE stack
           /\ Place(RawCurrent(st), st, matches)
    BY <1>7 DEF EndConstruct, TopIs
  <2>2. Good(st)
    BY <1>1, <2>1, PopGood DEF TopIs
  <2>3. RawCurrent(st) \in Nat
    BY <2>2, ColumnsAreNat DEF Good
  <2> QED BY <2>1, <2>2, <2>3, PlaceInductive
<1>8. ASSUME EndDefinition PROVE IInv'
  <2>1. PICK named \in BOOLEAN, st \in {Pop(stack)} : Place(RawCurrent(st), st, named)
    BY <1>8 DEF EndDefinition
  <2>2. Good(st)
    BY <1>1, <1>8, <2>1, PopGood DEF EndDefinition, TopIs
  <2>3. RawCurrent(st) \in Nat
    BY <2>2, ColumnsAreNat DEF Good
  <2> QED BY <2>1, <2>2, <2>3, PlaceInductive
<1>9. ASSUME RecoverEnd PROVE IInv'
  <2>1. PICK st :
           /\ st = IF IsOrphanEnd
                   THEN PopOrphanProcedure(stack, config.indent, config.max_indent)
                   ELSE IF DefinitionFrames(stack) # {}
                   THEN RecoverDefinitionEnd(stack, config.indent, config.max_indent)
                   ELSE IF HasTop(stack)
                   THEN Branch(stack, config.indent)
                   ELSE stack
           /\ Place(RawCurrent(st), st, FALSE)
    BY <1>9 DEF RecoverEnd
  <2>2. Good(PopOrphanProcedure(stack, config.indent, config.max_indent))
    <3>1. PICK cleared : cleared = [stack EXCEPT !.orphan_procedure = None]
      OBVIOUS
    <3>2. Good(cleared)
      BY <1>1, <3>1, OrphanGood
    <3>3. PICK raw \in Nat : raw = SaturatingSub(RawCurrent(cleared), config.indent)
      BY <3>2, <1>2, ColumnsAreNat, ArithmeticTypes DEF Good
    <3>4. Good(SetActive(cleared, raw, Clamp(raw, config.max_indent)))
      BY <3>2, <3>3, <1>2, ArithmeticTypes, SetActiveGood
    <3> QED BY <3>1, <3>3, <3>4 DEF PopOrphanProcedure, BackOut
  <2>3. DefinitionFrames(stack) # {} =>
           Good(RecoverDefinitionEnd(stack, config.indent, config.max_indent))
    BY <1>1, <1>2, RecoverGood
  <2>4. Good(Branch(stack, config.indent))
    <3>1. PICK raw \in Nat : raw = SaturatingSub(RawCurrent(stack), config.indent)
      BY <1>1, <1>2, ArithmeticTypes
    <3> QED BY <1>1, <3>1, SetActiveGood DEF Branch
  <2>5. Good(st)
    BY <1>1, <2>1, <2>2, <2>3, <2>4
  <2>6. RawCurrent(st) \in Nat
    BY <2>5, ColumnsAreNat DEF Good
  <2> QED BY <2>1, <2>5, <2>6, PlaceInductive
<1>10. ASSUME Include PROVE IInv'
  <2>1. (IF config.include_left THEN stack.base ELSE RawCurrent(stack)) \in Nat
    BY <1>1
  <2> QED BY <1>1, <1>10, <2>1, PlaceInductive DEF Include
<1>11. ASSUME Ordinary PROVE IInv'
  <2>1. PICK marks \in BOOLEAN,
            st \in {stack, [stack EXCEPT !.orphan_procedure = Info.unframed]} :
           /\ marks => Info.unframed # None
           /\ st = IF marks THEN [stack EXCEPT !.orphan_procedure = Info.unframed]
                   ELSE stack
           /\ Place(RawCurrent(stack), st, ~marks)
    BY <1>11 DEF Ordinary
  <2>2. Info.unframed \in ProcedureKinds \cup {None}
    BY <1>1 DEF StatementInfo
  <2>3. Good(st)
    BY <1>1, <2>1, <2>2, OrphanGood
  <2> QED BY <1>1, <2>1, <2>3, PlaceInductive
<1> QED BY <1>3, <1>4, <1>5, <1>6, <1>7, <1>8, <1>9, <1>10, <1>11 DEF Transition

LEMMA GroupType ==
    ASSUME IInv, NEW g \in Groups[config]
    PROVE  g \in Group /\ (g.line0 = "Preprocessor" => g.statements = <<>>)
  BY PlannerAssumption DEF IInv, TypeOK

LEMMA StackAtGood ==
    ASSUME IInv, NEW g \in Groups[config]
    PROVE  Good(StackAt(g))
  BY IInvParts, SetBaseGood, GroupType DEF StackAt, Group

LEMMA UniformPlanType ==
    ASSUME NEW n \in Nat
    PROVE  UniformPlan(n) \in Plan
  BY DEF UniformPlan, Plan

\* The steps that start a group.
LEMMA GroupInductive ==
    ASSUME IInv, NEW g \in Groups[config], PlanDirective(g) \/ PlanUniform(g) \/ StartCode(g)
    PROVE  IInv'
<1>1. Good(stack) /\ Good(StackAt(g)) /\ g \in Group
  BY IInvParts, StackAtGood, GroupType
<1>2. /\ Current(stack) \in Nat /\ Current(StackAt(g)) \in Nat
      /\ UniformPlan(Current(stack)) \in Plan
      /\ UniformPlan(Current(StackAt(g))) \in Plan /\ UniformPlan(0) \in Plan
  BY <1>1, ColumnsAreNat, UniformPlanType DEF Good
<1>3. g.statements \in Seq(StatementInfo) /\ 0 \in 0..Len(g.statements)
      /\ 0 \in 0..Len(<<>>)
  BY <1>1, LenProperties, EmptySeq DEF Group
<1>4. preprocessor \in Seq([state : Stack, seen : BOOLEAN])
      /\ wellformed \in BOOLEAN /\ significant_seen \in BOOLEAN /\ config \in Configs
  BY DEF IInv, TypeOK
<1>5. ASSUME PlanDirective(g) PROVE IInv'
  <2> USE <1>5 DEF PlanDirective
  <2> DEFINE E == [state : Stack, seen : BOOLEAN]
  <2>1. \A i \in 1..Len(preprocessor) : preprocessor[i] \in E /\ Good(preprocessor[i].state)
    BY <1>4, ElementOfSeq, IInvParts
  <2>2. ASSUME preprocessor # <<>>
        PROVE  /\ Len(preprocessor) \in 1..Len(preprocessor)
               /\ Last(preprocessor) \in E /\ Good(Last(preprocessor).state)
    BY <2>1, <2>2, <1>4, LenProperties, EmptySeq DEF Last
  <2>3. Good(stack')
    BY <2>2, <1>1 DEF Restored
  <2>4. /\ preprocessor' \in Seq(E)
        /\ \A i \in 1..Len(preprocessor') : Good(preprocessor'[i].state)
    <3>1. CASE g.event = "If"
      <4>1. PICK e \in E : e = [state |-> stack, seen |-> FALSE]
        BY <1>1 DEF Good
      <4>2. preprocessor' = Append(preprocessor, e) /\ Good(e.state)
        BY <3>1, <4>1, <1>1 DEF Conditionals
      <4> HIDE DEF E
      <4>3. /\ Append(preprocessor, e) \in Seq(E)
            /\ Len(Append(preprocessor, e)) = Len(preprocessor) + 1
            /\ \A i \in 1..Len(preprocessor) : Append(preprocessor, e)[i] = preprocessor[i]
            /\ Append(preprocessor, e)[Len(preprocessor) + 1] = e
        BY <1>4, AppendProperties DEF E
      <4>4. Len(preprocessor) \in Nat
        BY <1>4, LenProperties
      <4> QED BY <4>2, <4>3, <4>4, <2>1
    <3>2. CASE g.event = "Else" /\ preprocessor # <<>>
      <4>1. PICK e \in E : e = [Last(preprocessor) EXCEPT !.seen = TRUE]
        BY <3>2, <2>2
      <4>2. preprocessor' = WithLast(preprocessor, e) /\ Good(e.state)
        BY <3>2, <4>1, <2>2 DEF Conditionals
      <4> HIDE DEF E
      <4>3. /\ WithLast(preprocessor, e) \in Seq(E)
            /\ Len(WithLast(preprocessor, e)) = Len(preprocessor)
            /\ \A j \in 1..Len(preprocessor) :
                  j # Len(preprocessor) => WithLast(preprocessor, e)[j] = preprocessor[j]
            /\ WithLast(preprocessor, e)[Len(preprocessor)] = e
        <5>1. PICK p : p = preprocessor
          OBVIOUS
        <5>2. p \in Seq(E) /\ p # <<>>
          BY <5>1, <3>2, <1>4 DEF E
        <5>3. /\ WithLast(p, e) \in Seq(E)
              /\ Len(WithLast(p, e)) = Len(p)
              /\ \A j \in 1..Len(p) : j # Len(p) => WithLast(p, e)[j] = p[j]
              /\ WithLast(p, e)[Len(p)] = e
          BY <5>2, WithLastPointwise
        <5> QED BY <5>1, <5>3
      <4> QED BY <4>2, <4>3, <2>1
    <3>3. CASE g.event = "EndIf" /\ preprocessor # <<>>
      <4>1. preprocessor' = Front(preprocessor)
        BY <3>3 DEF Conditionals
      <4> HIDE DEF E
      <4>2. /\ Front(preprocessor) \in Seq(E)
            /\ Len(Front(preprocessor)) = Len(preprocessor) - 1
            /\ \A j \in 1..(Len(preprocessor) - 1) : Front(preprocessor)[j] = preprocessor[j]
        BY <3>3, <1>4, FrontPointwise DEF E
      <4>3. Len(preprocessor) \in Nat
        BY <1>4, LenProperties
      <4> QED BY <4>1, <4>2, <4>3, <2>1
    <3>4. CASE /\ g.event # "If"
               /\ ~ (g.event = "Else" /\ preprocessor # <<>>)
               /\ ~ (g.event = "EndIf" /\ preprocessor # <<>>)
      BY <3>4, <1>4, <2>1 DEF Conditionals
    <3> QED BY <3>1, <3>2, <3>3, <3>4
  <2>5. plan' \in Plan
    BY <1>2 DEF Plan
  <2>6. TypeOK'
    BY <1>1, <1>3, <1>4, <2>3, <2>4, <2>5 DEF TypeOK, Good
  <2> QED BY <2>3, <2>4, <2>6 DEF IInv, Stacks
<1>6. ASSUME PlanUniform(g) PROVE IInv'
  <2> USE <1>6 DEF PlanUniform
  <2>1. group' \in Group /\ group'.statements = <<>> /\ position' = 0
    BY <1>1, EmptySeq DEF Group
  <2>2. plan' \in Plan /\ stack' = StackAt(g) /\ preprocessor' = preprocessor
    BY <1>2
  <2>3. TypeOK'
    BY <1>1, <1>3, <1>4, <2>1, <2>2 DEF TypeOK, Good
  <2> QED BY <1>1, <2>2, <2>3, IInvParts DEF IInv, Stacks
<1>7. ASSUME StartCode(g) PROVE IInv'
  <2> USE <1>7 DEF StartCode
  <2>1. TypeOK'
    BY <1>1, <1>2, <1>3, <1>4 DEF TypeOK, Good
  <2> QED BY <1>1, <2>1, IInvParts DEF IInv, Stacks
<1> QED BY <1>5, <1>6, <1>7

LEMMA CloseLabelInductive ==
    ASSUME IInv, CloseLabel
    PROVE  IInv'
<1> USE DEF CloseLabel
<1>1. LoopsEndingAt(stack, Info.label) # {}
  BY DEF LoopsToClose
<1>2. Good(stack')
  BY <1>1, IInvParts, CloseLoopGood
<1>3. wellformed' \in BOOLEAN
  BY DEF IInv, TypeOK
<1>4. TypeOK'
  BY <1>2, <1>3 DEF IInv, TypeOK, Good
<1> QED BY <1>2, <1>4, IInvParts DEF IInv, Stacks

(***************************************************************************)
(* The theorems.                                                           *)
(***************************************************************************)

\* The inductive invariant holds of every behaviour.
THEOREM Inductive == Spec => []IInv
<1>1. Init => IInv
  <2> SUFFICES ASSUME Init PROVE IInv
    OBVIOUS
  <2> USE DEF Init
  <2>1. config.start_indent \in Nat
    BY PlannerAssumption DEF Config
  <2>2. Good(stack)
    BY <2>1, NewStackGood
  <2>3. Len(<<>>) = 0 /\ 0 \in 0..0 /\ <<>> \in Seq(StatementInfo)
        /\ <<>> \in Seq([state : Stack, seen : BOOLEAN])
    BY LenProperties, EmptySeq
  <2>4. group \in Group /\ group.statements = <<>>
    BY <2>3 DEF BlankGroup, Group, LineKinds, Events
  <2>5. plan \in Plan
    BY UniformPlanType
  <2>6. TypeOK
    BY <2>2, <2>3, <2>4, <2>5 DEF TypeOK, Good
  <2> QED BY <2>2, <2>3, <2>6 DEF IInv, Stacks
<1>2. IInv /\ [Next]_vars => IInv'
  <2> SUFFICES ASSUME IInv, [Next]_vars PROVE IInv'
    OBVIOUS
  <2>1. ASSUME NEW g \in Groups[config], PlanDirective(g) \/ PlanUniform(g) \/ StartCode(g)
        PROVE  IInv'
    BY <2>1, GroupInductive
  <2>2. ASSUME CloseLabel PROVE IInv'
    BY <2>2, CloseLabelInductive
  <2>3. ASSUME Transition PROVE IInv'
    BY <2>3, TransitionInductive
  <2>4. ASSUME UNCHANGED vars PROVE IInv'
    BY <2>4 DEF vars, IInv, TypeOK, Stacks
  <2> QED BY <2>1, <2>2, <2>3, <2>4 DEF Next
<1> QED BY <1>1, <1>2, PTL DEF Spec

\* The planner's state is typed: no column goes below zero (the code's
\* saturating subtractions) and no vector is indexed outside its range.
THEOREM TypeCorrect == Spec => []TypeOK
<1>1. IInv => TypeOK
  BY DEF IInv
<1> QED BY <1>1, Inductive, PTL

\* In every stack and snapshot the column vectors stay one longer than the
\* frame vector, whatever ENDs, labels and directives a document has, so no
\* `remove(index + 1)` of the code can panic.
THEOREM ShapeCorrect == Spec => []StackShape
<1>1. IInv => StackShape
  BY DEF IInv, StackShape, Good
<1> QED BY <1>1, Inductive, PTL

\* The labelled-DO vector names exactly the open labelled loops, at their
\* present positions, in every stack and snapshot.
THEOREM LabelsCorrect == Spec => []LabelsExact
<1>1. IInv => LabelsExact
  BY DEF IInv, LabelsExact, Good
<1> QED BY <1>1, Inductive, PTL

(***************************************************************************)
(* Columns.  The visible column of a level is its raw column clamped       *)
(* (Clamped); and, while the ENDs match, the raw column below a frame is   *)
(* the one its opening statement was given (Opened).  First about the      *)
(* vectors, one lemma per way they change, then about the stack.           *)
(***************************************************************************)
Clamped(values, raws, max) ==
    \A i \in 1..Len(raws) : Clamp(values[i], max) = Clamp(raws[i], max)

Opened(base, raws, frames) ==
    /\ raws[1] = base
    /\ \A i \in 1..Len(frames) : frames[i].opened = raws[i]

LEMMA ClampTwice ==
    ASSUME NEW n \in Nat, NEW max \in Nat
    PROVE  Clamp(Clamp(n, max), max) = Clamp(n, max)
  BY DEF Clamp

LEMMA ClampedFirst ==
    ASSUME NEW v \in Seq(Nat), NEW r \in Seq(Nat), Len(v) = Len(r),
           NEW base \in Nat, NEW max, Clamped(v, r, max)
    PROVE  Clamped(WithFirst(v, base), WithFirst(r, base), max)
<1>1. /\ WithFirst(v, base) \in Seq(Nat) /\ Len(WithFirst(v, base)) = Len(v)
      /\ \A j \in 1..Len(v) : WithFirst(v, base)[j] = IF j = 1 THEN base ELSE v[j]
  BY ONLY v \in Seq(Nat), base \in Nat, LenProperties, EmptySeq, ExceptSeq DEF WithFirst
<1>2. /\ WithFirst(r, base) \in Seq(Nat) /\ Len(WithFirst(r, base)) = Len(r)
      /\ \A j \in 1..Len(r) : WithFirst(r, base)[j] = IF j = 1 THEN base ELSE r[j]
  BY ONLY r \in Seq(Nat), base \in Nat, LenProperties, EmptySeq, ExceptSeq DEF WithFirst
<1> QED BY <1>1, <1>2 DEF Clamped

LEMMA ClampedLast ==
    ASSUME NEW v \in Seq(Nat), NEW r \in Seq(Nat), Len(v) = Len(r), r # <<>>, v # <<>>,
           NEW raw \in Nat, NEW visible \in Nat, NEW max,
           Clamp(visible, max) = Clamp(raw, max), Clamped(v, r, max)
    PROVE  Clamped(WithLast(v, visible), WithLast(r, raw), max)
<1>1. /\ \A j \in 1..Len(v) : j # Len(v) => WithLast(v, visible)[j] = v[j]
      /\ WithLast(v, visible)[Len(v)] = visible
  BY WithLastPointwise
<1>2. /\ Len(WithLast(r, raw)) = Len(r)
      /\ \A j \in 1..Len(r) : j # Len(r) => WithLast(r, raw)[j] = r[j]
      /\ WithLast(r, raw)[Len(r)] = raw
  BY WithLastPointwise
<1> QED BY <1>1, <1>2 DEF Clamped

LEMMA ClampedAppend ==
    ASSUME NEW v \in Seq(Nat), NEW r \in Seq(Nat), Len(v) = Len(r),
           NEW raw \in Nat, NEW max \in Nat, Clamped(v, r, max)
    PROVE  Clamped(Append(v, Clamp(raw, max)), Append(r, raw), max)
<1>1. PICK visible \in Nat : visible = Clamp(raw, max) /\ Clamp(visible, max) = Clamp(raw, max)
  BY ArithmeticTypes, ClampTwice
<1>2. PICK n \in Nat : n = Len(v) /\ n = Len(r)
  BY LenProperties
<1>3. Append(v, visible)[n + 1] = visible /\ \A i \in 1..n : Append(v, visible)[i] = v[i]
  BY <1>2, AppendProperties
<1>4. /\ Len(Append(r, raw)) = n + 1
      /\ Append(r, raw)[n + 1] = raw /\ \A i \in 1..n : Append(r, raw)[i] = r[i]
  BY <1>2, AppendProperties
<1>5. 1..(n + 1) = 1..n \cup {n + 1}
  OBVIOUS
<1>6. \A i \in 1..n : Clamp(v[i], max) = Clamp(r[i], max)
  BY <1>2 DEF Clamped
<1>7. \A i \in 1..(n + 1) : Clamp(Append(v, visible)[i], max) = Clamp(Append(r, raw)[i], max)
  BY <1>1, <1>3, <1>4, <1>5, <1>6
<1> QED BY <1>1, <1>4, <1>7 DEF Clamped

LEMMA ClampedFront ==
    ASSUME NEW v \in Seq(Nat), NEW r \in Seq(Nat), Len(v) = Len(r), r # <<>>, v # <<>>,
           NEW max, Clamped(v, r, max)
    PROVE  Clamped(Front(v), Front(r), max)
<1>1. \A j \in 1..(Len(v) - 1) : Front(v)[j] = v[j]
  BY FrontPointwise
<1>2. Len(Front(r)) = Len(r) - 1 /\ \A j \in 1..(Len(r) - 1) : Front(r)[j] = r[j]
  BY FrontPointwise
<1>3. Len(r) \in Nat
  BY LenProperties
<1> QED BY <1>1, <1>2, <1>3 DEF Clamped

LEMMA ClampedRemove ==
    ASSUME NEW v \in Seq(Nat), NEW r \in Seq(Nat), Len(v) = Len(r),
           NEW i \in 1..Len(r), NEW max, Clamped(v, r, max)
    PROVE  Clamped(RemoveAt(v, i), RemoveAt(r, i), max)
<1>1. \A j \in 1..(Len(v) - 1) : RemoveAt(v, i)[j] = IF j < i THEN v[j] ELSE v[j + 1]
  BY RemoveAtPointwise
<1>2. /\ Len(RemoveAt(r, i)) = Len(r) - 1
      /\ \A j \in 1..(Len(r) - 1) : RemoveAt(r, i)[j] = IF j < i THEN r[j] ELSE r[j + 1]
  BY RemoveAtPointwise
<1>3. PICK n \in Nat : n = Len(r)
  BY LenProperties
<1>4. \A j \in 1..(n - 1) : j \in 1..n /\ j + 1 \in 1..n
  OBVIOUS
<1>5. \A j \in 1..n : Clamp(v[j], max) = Clamp(r[j], max)
  BY <1>3 DEF Clamped
<1>6. \A j \in 1..(n - 1) : Clamp(RemoveAt(v, i)[j], max) = Clamp(RemoveAt(r, i)[j], max)
  BY <1>1, <1>2, <1>3, <1>4, <1>5
<1> QED BY <1>2, <1>3, <1>6 DEF Clamped

LEMMA OpenedRestart ==
    ASSUME NEW base \in Nat, NEW r \in Seq(Nat), NEW f, Len(f) \in Nat,
           Len(r) = Len(f) + 1, Opened(base, r, f)
    PROVE  Opened(base, WithLast(r, base), f)
<1>1. PICK n \in Nat : n = Len(f)
  OBVIOUS
<1>2. r # <<>>
  BY <1>1, EmptySeq
<1>3. /\ \A j \in 1..Len(r) : j # Len(r) => WithLast(r, base)[j] = r[j]
      /\ WithLast(r, base)[Len(r)] = base
  BY <1>2, WithLastPointwise
<1>4. \A j \in 1..n : j \in 1..(n + 1) /\ j # n + 1
  OBVIOUS
<1>5. \A j \in 1..n : WithLast(r, base)[j] = r[j]
  BY <1>1, <1>3, <1>4
<1>6. WithLast(r, base)[1] = base
  <2>1. CASE n = 0
    BY <2>1, <1>1, <1>3
  <2>2. CASE n # 0
    BY <2>2, <1>5 DEF Opened
  <2> QED BY <2>1, <2>2
<1>7. \A i \in 1..Len(f) : f[i].opened = WithLast(r, base)[i]
  BY <1>1, <1>5 DEF Opened
<1> QED BY <1>6, <1>7 DEF Opened

LEMMA OpenedAppend ==
    ASSUME NEW base, NEW r \in Seq(Nat), NEW f \in Seq(Frame),
           Len(r) = Len(f) + 1, Opened(base, r, f),
           NEW raw \in Nat, NEW frame \in Frame, frame.opened = r[Len(f) + 1]
    PROVE  Opened(base, Append(r, raw), Append(f, frame))
<1>1. PICK n \in Nat : n = Len(f) /\ Len(r) = n + 1
  BY LenProperties
<1>2. \A i \in 1..(n + 1) : Append(r, raw)[i] = r[i]
  BY <1>1, AppendProperties
<1>3. /\ Len(Append(f, frame)) = n + 1
      /\ Append(f, frame)[n + 1] = frame
      /\ \A i \in 1..n : Append(f, frame)[i] = f[i]
  BY <1>1, AppendProperties
<1>4. 1..(n + 1) = 1..n \cup {n + 1} /\ 1 \in 1..(n + 1) /\ n + 1 \in 1..(n + 1)
  OBVIOUS
<1>5. Append(r, raw)[1] = base
  BY <1>2, <1>4 DEF Opened
<1>6. \A i \in 1..n : f[i].opened = r[i]
  BY <1>1 DEF Opened
<1>7. \A i \in 1..(n + 1) : Append(f, frame)[i].opened = Append(r, raw)[i]
  BY <1>1, <1>2, <1>3, <1>4, <1>6
<1> QED BY <1>3, <1>5, <1>7 DEF Opened

LEMMA OpenedFront ==
    ASSUME NEW base, NEW r \in Seq(Nat), NEW f \in Seq(Frame),
           Len(r) = Len(f) + 1, f # <<>>, Opened(base, r, f)
    PROVE  /\ Opened(base, Front(r), Front(f))
           /\ Front(r) # <<>> /\ Last(Front(r)) = Last(f).opened
<1>1. PICK n \in Nat : n = Len(f) /\ Len(r) = n + 1 /\ n >= 1
  BY LenProperties, EmptySeq
<1>2. r # <<>>
  BY <1>1, EmptySeq
<1>3. Front(r) \in Seq(Nat) /\ Len(Front(r)) = n /\ \A j \in 1..n : Front(r)[j] = r[j]
  BY <1>1, <1>2, FrontPointwise
<1>4. Len(Front(f)) = n - 1 /\ \A j \in 1..(n - 1) : Front(f)[j] = f[j]
  BY <1>1, FrontPointwise
<1>5. \A i \in 1..n : f[i].opened = r[i]
  BY <1>1 DEF Opened
<1>6. Front(r)[1] = base
  BY <1>1, <1>3 DEF Opened
<1>7. \A i \in 1..(n - 1) : Front(f)[i].opened = Front(r)[i]
  <2>1. \A i \in 1..(n - 1) : i \in 1..n
    OBVIOUS
  <2> QED BY <2>1, <1>3, <1>4, <1>5
<1>8. Opened(base, Front(r), Front(f))
  BY <1>4, <1>6, <1>7 DEF Opened
<1>9. Front(r) # <<>>
  BY <1>1, <1>3, EmptySeq
<1>10. Last(Front(r)) = f[n].opened /\ Last(f) = f[n]
  BY <1>1, <1>3, <1>5 DEF Last
<1> QED BY <1>8, <1>9, <1>10

\* Removing the innermost frame is what Pop does to the columns.
LEMMA RemoveLast ==
    ASSUME NEW S, NEW s \in Seq(S), s # <<>>
    PROVE  RemoveAt(s, Len(s)) = Front(s)
<1>1. PICK n \in Nat : n = Len(s) /\ n >= 1
  BY LenProperties, EmptySeq
<1>2. n \in 1..Len(s)
  BY <1>1
<1>3. /\ RemoveAt(s, n) \in Seq(S) /\ Len(RemoveAt(s, n)) = n - 1
      /\ \A j \in 1..(n - 1) : RemoveAt(s, n)[j] = IF j < n THEN s[j] ELSE s[j + 1]
  BY <1>1, <1>2, RemoveAtPointwise
<1>4. /\ Front(s) \in Seq(S) /\ Len(Front(s)) = n - 1
      /\ \A j \in 1..(n - 1) : Front(s)[j] = s[j]
  BY <1>1, FrontPointwise
<1>5. \A j \in 1..(n - 1) : RemoveAt(s, n)[j] = Front(s)[j]
  BY <1>3, <1>4
<1> QED BY <1>1, <1>3, <1>4, <1>5, SeqEqual

AgreesUnder(st, max) == Clamped(st.values, st.raw_values, max)
FramesOpened(st) == Opened(st.base, st.raw_values, st.frames)

\* The parts of a good stack, one below the other.
LEMMA GoodParts ==
    ASSUME NEW st, Good(st)
    PROVE  /\ st \in Stack /\ st.base \in Nat
           /\ st.values \in Seq(Nat) /\ st.raw_values \in Seq(Nat) /\ st.frames \in Seq(Frame)
           /\ Len(st.frames) \in Nat
           /\ Len(st.values) = Len(st.frames) + 1
           /\ Len(st.raw_values) = Len(st.frames) + 1
           /\ Len(st.values) = Len(st.raw_values)
           /\ st.values # <<>> /\ st.raw_values # <<>>
<1>1. st \in Stack /\ Shape(st)
  BY DEF Good
<1>2. st.values \in Seq(Nat) /\ st.raw_values \in Seq(Nat) /\ st.frames \in Seq(Frame) /\ st.base \in Nat
  BY <1>1 DEF Stack
<1> QED BY <1>1, <1>2, Lengths DEF Shape

LEMMA SetBaseColumns ==
    ASSUME NEW st, Good(st), NEW base \in Nat, NEW max \in Nat
    PROVE  /\ AgreesUnder(st, max) => AgreesUnder(SetBase(st, base), max)
           /\ st.frames = <<>> => FramesOpened(SetBase(st, base))
<1> DEFINE new == SetBase(st, base)
<1>1. /\ new.values = WithFirst(st.values, base)
      /\ new.raw_values = WithFirst(st.raw_values, base)
      /\ new.frames = st.frames /\ new.base = base
  BY GoodParts DEF SetBase, Stack
<1> HIDE DEF new
<1>2. ASSUME AgreesUnder(st, max) PROVE AgreesUnder(new, max)
  <2>1. Clamped(WithFirst(st.values, base), WithFirst(st.raw_values, base), max)
    BY <1>2, GoodParts, ClampedFirst DEF AgreesUnder
  <2> QED BY <2>1, <1>1 DEF AgreesUnder
<1>3. ASSUME st.frames = <<>> PROVE FramesOpened(new)
  <2>1. Len(st.frames) = 0
    BY <1>3, EmptySeq
  <2>2. 1 \in 1..Len(st.raw_values)
    BY <2>1, GoodParts
  <2>3. WithFirst(st.raw_values, base)[1] = base
    <3>1. PICK r \in Seq(Nat) : r = st.raw_values
      BY GoodParts
    <3>2. /\ WithFirst(r, base) \in Seq(Nat)
          /\ \A j \in 1..Len(r) : WithFirst(r, base)[j] = IF j = 1 THEN base ELSE r[j]
      BY WithFirstPointwise
    <3> QED BY <3>1, <3>2, <2>2
  <2> QED BY <2>1, <2>3, <1>1 DEF FramesOpened, Opened
<1> QED BY <1>2, <1>3 DEF new

LEMMA SetActiveColumns ==
    ASSUME NEW st, Good(st), NEW raw \in Nat, NEW visible \in Nat, NEW max \in Nat,
           Clamp(visible, max) = Clamp(raw, max)
    PROVE  /\ AgreesUnder(st, max) => AgreesUnder(SetActive(st, raw, visible), max)
           /\ FramesOpened(st) /\ raw = st.base => FramesOpened(SetActive(st, raw, visible))
<1> DEFINE new == SetActive(st, raw, visible)
<1>1. /\ new.values = WithLast(st.values, visible)
      /\ new.raw_values = WithLast(st.raw_values, raw)
      /\ new.frames = st.frames /\ new.base = st.base
  BY GoodParts DEF SetActive, Stack
<1> HIDE DEF new
<1>2. ASSUME AgreesUnder(st, max) PROVE AgreesUnder(new, max)
  <2>1. Clamped(WithLast(st.values, visible), WithLast(st.raw_values, raw), max)
    BY <1>2, GoodParts, ClampedLast DEF AgreesUnder
  <2> QED BY <2>1, <1>1 DEF AgreesUnder
<1>3. ASSUME FramesOpened(st), raw = st.base PROVE FramesOpened(new)
  <2>1. Opened(st.base, WithLast(st.raw_values, st.base), st.frames)
    BY <1>3, GoodParts, OpenedRestart DEF FramesOpened
  <2> QED BY <2>1, <1>1, <1>3 DEF FramesOpened
<1> QED BY <1>2, <1>3 DEF new

LEMMA PushColumns ==
    ASSUME NEW st, Good(st), NEW kind \in FrameKinds, NEW amount \in Nat,
           NEW name \in Names \cup {None}, NEW max \in Nat
    PROVE  /\ AgreesUnder(st, max) => AgreesUnder(Push(st, kind, amount, name, max), max)
           /\ FramesOpened(st) => FramesOpened(Push(st, kind, amount, name, max))
<1> DEFINE new == Push(st, kind, amount, name, max)
           frame == [kind |-> kind, name |-> name,
                     opened |-> RawCurrent(st), doLabel |-> None]
<1>1. RawCurrent(st) \in Nat /\ RawCurrent(st) = st.raw_values[Len(st.frames) + 1]
  BY GoodParts, ColumnsAreNat DEF RawCurrent, Last
<1>2. PICK raw \in Nat : raw = RawCurrent(st) + amount
  BY <1>1
<1>3. /\ new.values = Append(st.values, Clamp(raw, max))
      /\ new.raw_values = Append(st.raw_values, raw)
      /\ new.frames = Append(st.frames, frame)
      /\ new.base = st.base
  BY <1>2, GoodParts DEF Push, Stack
<1>4. frame \in Frame /\ frame.opened = st.raw_values[Len(st.frames) + 1]
  BY <1>1 DEF Frame
<1> HIDE DEF new, frame
<1>5. ASSUME AgreesUnder(st, max) PROVE AgreesUnder(new, max)
  <2>1. Clamped(Append(st.values, Clamp(raw, max)), Append(st.raw_values, raw), max)
    BY <1>5, GoodParts, ClampedAppend DEF AgreesUnder
  <2> QED BY <2>1, <1>3 DEF AgreesUnder
<1>6. ASSUME FramesOpened(st) PROVE FramesOpened(new)
  <2>1. Opened(st.base, Append(st.raw_values, raw), Append(st.frames, frame))
    BY <1>6, <1>4, GoodParts, OpenedAppend DEF FramesOpened
  <2> QED BY <2>1, <1>3 DEF FramesOpened
<1> QED BY <1>5, <1>6 DEF new

LEMMA LabelDoColumns ==
    ASSUME NEW st, Good(st), HasTop(st), NEW label \in Labels, NEW max
    PROVE  /\ AgreesUnder(st, max) => AgreesUnder(LabelDo(st, label), max)
           /\ FramesOpened(st) => FramesOpened(LabelDo(st, label))
<1> DEFINE new == LabelDo(st, label)
           loop == [Top(st) EXCEPT !.doLabel = label]
<1>1. /\ new.frames = WithLast(st.frames, loop) /\ new.values = st.values
      /\ new.raw_values = st.raw_values /\ new.base = st.base
  BY GoodParts DEF LabelDo, Stack
<1>2. Top(st) = st.frames[Len(st.frames)] /\ Top(st) \in Frame
  BY GoodParts, TopType
<1>3. loop \in Frame /\ loop.opened = st.frames[Len(st.frames)].opened
  BY <1>2 DEF Frame
<1> HIDE DEF new, loop
<1>4. AgreesUnder(st, max) => AgreesUnder(new, max)
  BY <1>1 DEF AgreesUnder
<1>5. ASSUME FramesOpened(st) PROVE FramesOpened(new)
  <2>1. st.frames \in Seq(Frame) /\ st.frames # <<>>
    BY GoodParts DEF HasTop
  <2>2. /\ Len(WithLast(st.frames, loop)) = Len(st.frames)
        /\ \A j \in 1..Len(st.frames) :
              j # Len(st.frames) => WithLast(st.frames, loop)[j] = st.frames[j]
        /\ WithLast(st.frames, loop)[Len(st.frames)] = loop
    <3>1. PICK f : f = st.frames
      OBVIOUS
    <3>2. f \in Seq(Frame) /\ f # <<>>
      BY <2>1, <3>1
    <3>3. /\ Len(WithLast(f, loop)) = Len(f)
          /\ \A j \in 1..Len(f) : j # Len(f) => WithLast(f, loop)[j] = f[j]
          /\ WithLast(f, loop)[Len(f)] = loop
      BY <3>2, <1>3, WithLastPointwise
    <3> QED BY <3>1, <3>3
  <2>3. \A i \in 1..Len(st.frames) : WithLast(st.frames, loop)[i].opened = st.frames[i].opened
    BY <2>2, <1>3
  <2>4. Opened(st.base, st.raw_values, WithLast(st.frames, loop))
    BY <1>5, <2>2, <2>3 DEF FramesOpened, Opened
  <2> QED BY <2>4, <1>1 DEF FramesOpened
<1> QED BY <1>4, <1>5 DEF new

LEMMA PopColumns ==
    ASSUME NEW st, Good(st), HasTop(st), NEW max
    PROVE  /\ AgreesUnder(st, max) => AgreesUnder(Pop(st), max)
           /\ FramesOpened(st) =>
                 FramesOpened(Pop(st)) /\ RawCurrent(Pop(st)) = Top(st).opened
<1> DEFINE new == Pop(st)
<1>1. /\ new.raw_values = Front(st.raw_values) /\ new.frames = Front(st.frames)
      /\ new.base = st.base
  BY PopGood
<1>2. st.frames # <<>> /\ Len(st.frames) >= 1 /\ Len(st.values) > 1
  BY GoodParts, Lengths DEF HasTop
<1>3. new.values = Front(st.values)
  BY <1>2, GoodParts DEF Pop, Stack
<1> HIDE DEF new
<1>4. ASSUME AgreesUnder(st, max) PROVE AgreesUnder(new, max)
  <2>1. Clamped(Front(st.values), Front(st.raw_values), max)
    BY <1>4, GoodParts, ClampedFront DEF AgreesUnder
  <2> QED BY <2>1, <1>1, <1>3 DEF AgreesUnder
<1>5. ASSUME FramesOpened(st)
      PROVE  FramesOpened(new) /\ RawCurrent(new) = Top(st).opened
  <2>1. /\ Opened(st.base, Front(st.raw_values), Front(st.frames))
        /\ Front(st.raw_values) # <<>> /\ Last(Front(st.raw_values)) = Last(st.frames).opened
    BY <1>2, <1>5, GoodParts, OpenedFront DEF FramesOpened
  <2> QED BY <2>1, <1>1 DEF FramesOpened, RawCurrent, Top
<1> QED BY <1>4, <1>5 DEF new

\* Taking a frame out of the middle; taking out the top one is a pop.
LEMMA RemoveFrameColumns ==
    ASSUME NEW st, st \in Stack, Shape(st), NEW i \in 1..Len(st.frames), NEW max
    PROVE  /\ AgreesUnder(st, max) => AgreesUnder(RemoveFrame(st, i), max)
           /\ FramesOpened(st) /\ i = Len(st.frames) => FramesOpened(RemoveFrame(st, i))
<1> DEFINE new == RemoveFrame(st, i)
<1>1. /\ new.frames = RemoveAt(st.frames, i) /\ new.base = st.base
      /\ new.values = RemoveAt(st.values, i + 1)
      /\ new.raw_values = RemoveAt(st.raw_values, i + 1)
  BY DEF RemoveFrame, Stack
<1> HIDE DEF new
<1>2. /\ st.values \in Seq(Nat) /\ st.raw_values \in Seq(Nat) /\ st.frames \in Seq(Frame)
      /\ Len(st.frames) \in Nat /\ Len(st.raw_values) = Len(st.frames) + 1
      /\ Len(st.values) = Len(st.raw_values)
  BY Lengths DEF Shape, Stack
<1>3. i + 1 \in 1..Len(st.raw_values)
  BY <1>2
<1>4. ASSUME AgreesUnder(st, max) PROVE AgreesUnder(new, max)
  <2>1. Clamped(RemoveAt(st.values, i + 1), RemoveAt(st.raw_values, i + 1), max)
    BY <1>2, <1>3, <1>4, ClampedRemove DEF AgreesUnder
  <2> QED BY <2>1, <1>1 DEF AgreesUnder
<1>5. ASSUME FramesOpened(st), i = Len(st.frames) PROVE FramesOpened(new)
  <2>1. st.frames # <<>> /\ st.raw_values # <<>> /\ i + 1 = Len(st.raw_values)
    BY <1>2, <1>5, EmptySeq
  <2>2. /\ RemoveAt(st.frames, i) = Front(st.frames)
        /\ RemoveAt(st.raw_values, i + 1) = Front(st.raw_values)
    BY <2>1, <1>2, <1>5, RemoveLast
  <2>3. Opened(st.base, Front(st.raw_values), Front(st.frames))
    BY <2>1, <1>2, <1>5, OpenedFront DEF FramesOpened
  <2> QED BY <2>2, <2>3, <1>1 DEF FramesOpened
<1> QED BY <1>4, <1>5 DEF new

LEMMA BackOutAgrees ==
    ASSUME NEW st, Good(st), NEW amount \in Nat, NEW max \in Nat, AgreesUnder(st, max)
    PROVE  AgreesUnder(BackOut(st, amount, max), max)
<1>1. PICK raw \in Nat : raw = SaturatingSub(RawCurrent(st), amount)
  BY GoodParts, ColumnsAreNat, ArithmeticTypes
<1>2. Clamp(raw, max) \in Nat /\ Clamp(Clamp(raw, max), max) = Clamp(raw, max)
  BY ArithmeticTypes, ClampTwice
<1>3. AgreesUnder(SetActive(st, raw, Clamp(raw, max)), max)
  BY <1>2, SetActiveColumns
<1> QED BY <1>1, <1>3 DEF BackOut

LEMMA RecoverAgrees ==
    ASSUME NEW st, Good(st), DefinitionFrames(st) # {},
           NEW amount \in Nat, NEW max \in Nat, AgreesUnder(st, max)
    PROVE  AgreesUnder(RecoverDefinitionEnd(st, amount, max), max)
<1>1. PICK i : i = Innermost(DefinitionFrames(st))
  OBVIOUS
<1>2. i \in 1..Len(st.frames)
  BY <1>1, GoodParts, InnermostExists DEF DefinitionFrames
<1>3. AgreesUnder(RemoveFrame(st, i), max)
  BY <1>2, GoodParts, RemoveFrameColumns DEF Good
<1>4. Good(RemoveFrame(st, i))
  BY <1>1, InnermostGood
<1>5. AgreesUnder(BackOut(RemoveFrame(st, i), amount, max), max)
  BY <1>3, <1>4, BackOutAgrees
<1> QED BY <1>1, <1>5 DEF RecoverDefinitionEnd

LEMMA CloseLoopColumns ==
    ASSUME NEW st, Good(st), NEW label, LoopsEndingAt(st, label) # {}, NEW max
    PROVE  LET new == CloseInnermostLoop(st, label) IN
           /\ AgreesUnder(st, max) => AgreesUnder(new, max)
           /\ FramesOpened(st) /\ Innermost(LoopsEndingAt(st, label)) = Len(st.frames)
                 => FramesOpened(new)
<1>1. PICK i : i = Innermost(LoopsEndingAt(st, label))
  OBVIOUS
<1>2. i \in LoopsEndingAt(st, label)
  BY <1>1, GoodParts, InnermostExists DEF LoopsEndingAt, LabelsNameLoops, Good
<1>3. i \in 1..Len(st.frames)
  BY <1>2 DEF LoopsEndingAt, LabelsNameLoops, Good
<1>4. PICK rest : rest = [st EXCEPT !.labeled_do = @ \ {[label |-> label, index |-> i]}]
  OBVIOUS
<1>5. /\ rest \in Stack /\ rest.frames = st.frames /\ rest.values = st.values
      /\ rest.raw_values = st.raw_values /\ rest.base = st.base
  BY <1>4, GoodParts DEF Stack
<1>6. Shape(rest)
  BY <1>5 DEF Shape, Good
<1>7. CloseInnermostLoop(st, label) = RemoveFrame(rest, i)
  BY <1>1, <1>3, <1>4 DEF CloseInnermostLoop
<1>8. /\ AgreesUnder(rest, max) => AgreesUnder(RemoveFrame(rest, i), max)
      /\ FramesOpened(rest) /\ i = Len(rest.frames) => FramesOpened(RemoveFrame(rest, i))
  BY <1>3, <1>5, <1>6, RemoveFrameColumns
<1> QED BY <1>1, <1>5, <1>7, <1>8 DEF AgreesUnder, FramesOpened

(***************************************************************************)
(* The columns of the planner's stacks.                                    *)
(***************************************************************************)

\* A step leaves the planner with stacks it had and the one it made: a
\* snapshot is the stack of the #if, and #elif and #else bring it back as it is.
LEMMA SnapshotsKept ==
    ASSUME IInv, Next
    PROVE  /\ config' = config
           /\ \A st \in Stacks' : st \in Stacks \/ st = stack'
           /\ \A g \in Groups[config] : PlanDirective(g) => stack' \in Stacks
<1>1. config' = config
  BY DEF Next, PlanDirective, PlanUniform, StartCode, CloseLabel, Transition, Member, OpenFrame,
         BranchLine, ContainsRestart, EndConstruct, EndDefinition, RecoverEnd, Include, Ordinary,
         Place
<1>2. ASSUME preprocessor' = preprocessor
      PROVE  \A st \in Stacks' : st \in Stacks \/ st = stack'
  BY <1>2 DEF Stacks
<1>3. (\A g \in Groups[config] : ~ PlanDirective(g)) => preprocessor' = preprocessor
  BY DEF Next, PlanUniform, StartCode, CloseLabel, Transition, Member, OpenFrame,
         BranchLine, ContainsRestart, EndConstruct, EndDefinition, RecoverEnd, Include, Ordinary,
         Place
<1> DEFINE E == [state : Stack, seen : BOOLEAN]
<1>4. PICK n \in Nat : n = Len(preprocessor)
  BY LenProperties DEF IInv, TypeOK
<1>5. preprocessor \in Seq(E) /\ \A i \in 1..n : preprocessor[i] \in E /\ preprocessor[i].state \in Stacks
  BY <1>4, ElementOfSeq DEF IInv, TypeOK, Stacks
<1>6. preprocessor # <<>> => n \in 1..n /\ Last(preprocessor) = preprocessor[n]
  BY <1>4, <1>5, EmptySeq DEF Last
<1>7. ASSUME NEW g \in Groups[config], PlanDirective(g)
      PROVE  /\ stack' \in Stacks
             /\ \A i \in 1..Len(preprocessor') : preprocessor'[i].state \in Stacks
  <2> stack \in Stacks
    BY DEF Stacks
  <2>1. stack' = Restored(g.event) /\ preprocessor' = Conditionals(g.event)
    BY <1>7 DEF PlanDirective
  <2>2. stack' \in Stacks
    BY <2>1, <1>5, <1>6 DEF Restored
  <2> HIDE DEF E
  <2>3. CASE g.event = "If"
    <3>1. PICK e \in E : e = [state |-> stack, seen |-> FALSE] /\ e.state = stack
      <4>1. [state |-> stack, seen |-> FALSE] \in [state : Stack, seen : BOOLEAN]
        BY IInvParts
      <4>2. [state |-> stack, seen |-> FALSE].state = stack
        OBVIOUS
      <4> QED BY <4>1, <4>2, Zenon DEF E
    <3>2. preprocessor' = Append(preprocessor, e)
      BY <2>1, <2>3, <3>1 DEF Conditionals
    <3>3. /\ Len(Append(preprocessor, e)) = n + 1 /\ Append(preprocessor, e)[n + 1] = e
          /\ \A i \in 1..n : Append(preprocessor, e)[i] = preprocessor[i]
      BY <1>4, <1>5, <3>1, AppendProperties
    <3>4. 1..(n + 1) = 1..n \cup {n + 1}
      OBVIOUS
    <3> QED BY <2>2, <3>1, <3>2, <3>3, <3>4, <1>5
  <2>4. CASE g.event = "Else" /\ preprocessor # <<>>
    <3>1. PICK e : e = [Last(preprocessor) EXCEPT !.seen = TRUE]
      OBVIOUS
    <3>2. e \in E /\ e.state = preprocessor[n].state
      BY <2>4, <3>1, <1>5, <1>6 DEF E
    <3>3. preprocessor' = [preprocessor EXCEPT ![n] = e]
      BY <2>1, <2>4, <3>1, <1>4 DEF Conditionals, WithLast
    <3>4. /\ Len([preprocessor EXCEPT ![n] = e]) = n
          /\ \A i \in 1..n : [preprocessor EXCEPT ![n] = e][i] = IF i = n THEN e ELSE preprocessor[i]
      BY <1>4, <1>5, <1>6, <2>4, <3>2, ExceptSeq
    <3> QED BY <2>2, <3>2, <3>3, <3>4, <1>5
  <2>5. CASE g.event = "EndIf" /\ preprocessor # <<>>
    <3>1. preprocessor' = Front(preprocessor)
      BY <2>1, <2>5 DEF Conditionals
    <3>2. /\ Len(Front(preprocessor)) = n - 1
          /\ \A i \in 1..(n - 1) : Front(preprocessor)[i] = preprocessor[i]
      BY <2>5, <1>4, <1>5, FrontPointwise
    <3>3. \A i \in 1..(n - 1) : i \in 1..n
      OBVIOUS
    <3> QED BY <2>2, <3>1, <3>2, <3>3, <1>5
  <2>6. CASE /\ g.event # "If"
             /\ ~ (g.event = "Else" /\ preprocessor # <<>>)
             /\ ~ (g.event = "EndIf" /\ preprocessor # <<>>)
    <3>1. preprocessor' = preprocessor
      BY <2>1, <2>6 DEF Conditionals
    <3> QED BY <3>1, <2>2, <1>4, <1>5
  <2> QED BY <2>3, <2>4, <2>5, <2>6
<1>8. ASSUME NEW g \in Groups[config], PlanDirective(g)
      PROVE  \A st \in Stacks' : st \in Stacks \/ st = stack'
  BY <1>7, <1>8 DEF Stacks
<1> QED BY <1>1, <1>2, <1>3, <1>7, <1>8

\* What the active stack becomes, for the steps that start a group and the
\* transitions that change it.
LEMMA ActiveAgrees ==
    ASSUME IInv, VisibleAgreesWithRaw, Next
    PROVE  AgreesUnder(stack', config.max_indent)
<1> DEFINE max == config.max_indent
<1>1. /\ Good(stack) /\ RawCurrent(stack) \in Nat /\ stack.base \in Nat /\ config \in Config
      /\ max \in Nat /\ config.indent \in Nat /\ \A k \in FrameKinds : config.amount[k] \in Nat
  BY IInvParts, GoodParts, ColumnsAreNat DEF Config
<1>2. \A st \in Stacks : AgreesUnder(st, max)
  BY DEF VisibleAgreesWithRaw, VisibleAgrees, AgreesUnder, Clamped
<1>3. AgreesUnder(stack, max)
  BY <1>2 DEF Stacks
<1> HIDE DEF max
<1>4. ASSUME NEW g \in Groups[config], PlanDirective(g) PROVE AgreesUnder(stack', max)
  BY <1>2, <1>4, SnapshotsKept
<1>5. ASSUME NEW g \in Groups[config], PlanUniform(g) \/ StartCode(g)
      PROVE  AgreesUnder(stack', max)
  <2>1. stack' = StackAt(g) /\ g.authored \in Nat
    BY <1>5, GroupType DEF PlanUniform, StartCode, Group
  <2>2. AgreesUnder(SetBase(stack, g.authored), max)
    BY <1>1, <1>3, <2>1, SetBaseColumns
  <2> QED BY <1>3, <2>1, <2>2 DEF StackAt
<1>6. ASSUME CloseLabel PROVE AgreesUnder(stack', max)
  BY <1>1, <1>3, <1>6, CloseLoopColumns DEF CloseLabel, LoopsToClose
<1>7. ASSUME Member \/ BranchLine \/ Include PROVE AgreesUnder(stack', max)
  BY <1>3, <1>7 DEF Member, BranchLine, Include, Place
<1>8. ASSUME OpenFrame, ~GroupDone PROVE AgreesUnder(stack', max)
  <2> DEFINE name == IF Info.kind \in DefinitionKinds THEN Info.name ELSE None
             pushed == Push(stack, Info.kind, config.amount[Info.kind], name, config.max_indent)
  <2>1. /\ Info.kind \in FrameKinds /\ config.amount[Info.kind] \in Nat
        /\ name \in Names \cup {None} /\ Info.doLabel \in Labels \cup {None}
    BY <1>1, <1>8, InfoType DEF OpenFrame, StatementInfo
  <2>2. stack' = IF Info.kind = "Do" /\ Info.doLabel # None
                 THEN LabelDo(pushed, Info.doLabel) ELSE pushed
    BY <1>8 DEF OpenFrame, Place
  <2>3. PICK kind \in FrameKinds, amount \in Nat, who \in Names \cup {None} :
           kind = Info.kind /\ amount = config.amount[Info.kind] /\ who = name
    BY <2>1
  <2>4. pushed = Push(stack, kind, amount, who, max)
    BY <2>3 DEF max
  <2> HIDE DEF pushed, name
  <2>5. OnePushed(stack, pushed, kind)
    <3>1. OnePushed(stack, Push(stack, kind, amount, who, max), kind)
      BY <1>1, PushGood, Zenon
    <3> QED BY <2>4, <3>1
  <2>6. Good(pushed) /\ HasTop(pushed)
    <3>1. Good(pushed) /\ Len(pushed.frames) = Len(stack.frames) + 1
      BY <2>5 DEF OnePushed
    <3> QED BY <1>1, <3>1, GoodParts, Lengths
  <2>7. AgreesUnder(pushed, max)
    BY <1>1, <1>3, <2>4, PushColumns
  <2> QED BY <2>1, <2>2, <2>6, <2>7, LabelDoColumns
<1>9. ASSUME ContainsRestart PROVE AgreesUnder(stack', max)
  <2>1. stack' = SetActive(stack, stack.base, Clamp(stack.base, max))
    BY <1>9 DEF ContainsRestart, Place, RestartAtBase, max
  <2>2. /\ Clamp(stack.base, max) \in Nat
        /\ Clamp(Clamp(stack.base, max), max) = Clamp(stack.base, max)
    BY <1>1, ArithmeticTypes, ClampTwice
  <2> QED BY <1>1, <1>3, <2>1, <2>2, SetActiveColumns
<1>10. ASSUME EndConstruct \/ EndDefinition PROVE AgreesUnder(stack', max)
  <2>1. stack' = stack \/ (HasTop(stack) /\ stack' = Pop(stack))
    BY <1>10 DEF EndConstruct, EndDefinition, Place, TopIs
  <2> QED BY <1>1, <1>3, <2>1, PopColumns
<1>11. ASSUME RecoverEnd PROVE AgreesUnder(stack', max)
  <2>1. stack' = IF IsOrphanEnd
                 THEN PopOrphanProcedure(stack, config.indent, max)
                 ELSE IF DefinitionFrames(stack) # {}
                 THEN RecoverDefinitionEnd(stack, config.indent, max)
                 ELSE IF HasTop(stack)
                 THEN Branch(stack, config.indent)
                 ELSE stack
    BY <1>11 DEF RecoverEnd, Place, max
  <2>2. AgreesUnder(PopOrphanProcedure(stack, config.indent, max), max)
    <3>1. PICK cleared : cleared = [stack EXCEPT !.orphan_procedure = None]
      OBVIOUS
    <3>2. Good(cleared)
      BY <1>1, <3>1, OrphanGood
    <3>3. cleared.values = stack.values /\ cleared.raw_values = stack.raw_values
      BY <1>1, <3>1, GoodParts DEF Stack
    <3>4. AgreesUnder(cleared, max)
      BY <1>3, <3>3 DEF AgreesUnder
    <3>5. AgreesUnder(BackOut(cleared, config.indent, max), max)
      BY <1>1, <3>2, <3>4, BackOutAgrees
    <3> QED BY <3>1, <3>5 DEF PopOrphanProcedure
  <2>3. DefinitionFrames(stack) # {} =>
           AgreesUnder(RecoverDefinitionEnd(stack, config.indent, max), max)
    BY <1>1, <1>3, RecoverAgrees
  <2>4. AgreesUnder(Branch(stack, config.indent), max)
    <3>1. PICK raw \in Nat : raw = SaturatingSub(RawCurrent(stack), config.indent)
      BY <1>1, ArithmeticTypes
    <3>2. AgreesUnder(SetActive(stack, raw, raw), max)
      BY <1>1, <1>3, SetActiveColumns
    <3> QED BY <3>1, <3>2 DEF Branch
  <2> QED BY <1>3, <2>1, <2>2, <2>3, <2>4
<1>12. ASSUME Ordinary PROVE AgreesUnder(stack', max)
  <2>1. stack' \in {stack, [stack EXCEPT !.orphan_procedure = Info.unframed]}
    BY <1>12 DEF Ordinary, Place
  <2>2. stack'.values = stack.values /\ stack'.raw_values = stack.raw_values
    BY <1>1, <2>1, GoodParts DEF Stack
  <2> QED BY <1>3, <2>2 DEF AgreesUnder
<1>13. AgreesUnder(stack', max)
  BY <1>4, <1>5, <1>6, <1>7, <1>8, <1>9, <1>10, <1>11, <1>12 DEF Next, Transition
<1> QED BY <1>13 DEF max

\* Whatever ENDs, labels, restarts and directives a document has, the visible
\* column of a level is its structural column under the limit, in the active
\* stack and in every snapshot.
THEOREM VisibleCorrect == Spec => []VisibleAgreesWithRaw
<1>1. Init => VisibleAgreesWithRaw
  BY LenProperties, EmptySeq DEF Init, NewStack, VisibleAgreesWithRaw, VisibleAgrees, Stacks
<1>2. IInv /\ VisibleAgreesWithRaw /\ [Next]_vars => VisibleAgreesWithRaw'
  <2> SUFFICES ASSUME IInv, VisibleAgreesWithRaw, [Next]_vars PROVE VisibleAgreesWithRaw'
    OBVIOUS
  <2>1. CASE Next
    <3>1. \A st \in Stacks : AgreesUnder(st, config.max_indent)
      BY DEF VisibleAgreesWithRaw, VisibleAgrees, AgreesUnder, Clamped
    <3>2. \A st \in Stacks' : AgreesUnder(st, config'.max_indent)
      BY <2>1, <3>1, SnapshotsKept, ActiveAgrees
    <3> QED BY <3>2 DEF VisibleAgreesWithRaw, VisibleAgrees, AgreesUnder, Clamped
  <2>2. CASE UNCHANGED vars
    BY <2>2 DEF vars, VisibleAgreesWithRaw, VisibleAgrees, Stacks
  <2> QED BY <2>1, <2>2
<1> QED BY <1>1, <1>2, Inductive, PTL DEF Spec

(***************************************************************************)
(* Columns kept for the ENDs.  What a step needs to know beyond IInv: in a *)
(* well-formed document every stack remembers where its frames opened; the *)
(* base is guessed again only while nothing is open, in the snapshots as   *)
(* well, because a frame opens with a significant statement; and           *)
(* --refactor-end writes only for the group's one statement.               *)
(***************************************************************************)
ColumnsInv ==
    /\ wellformed => \A st \in Stacks : FramesOpened(st)
    /\ ~significant_seen => \A st \in Stacks : st.frames = <<>>
    /\ plan.replacement # None => GroupDone

\* Which action plans a statement follows from its kind.
LEMMA Disjoint ==
    /\ "Unknown" \notin FrameKinds \cup DOMAIN EndOf
    /\ FrameKinds \cap DOMAIN EndOf = {}
    /\ \A k \in DOMAIN EndOf :
          /\ k \notin {"Else", "ElseIf", "ElseWhere", "Case", "Entry", "Contains", "Include",
                       "LabelContinue", "Unknown", "Procedure"}
  BY DEF FrameKinds, DefinitionKinds, ConstructKinds, EndOf

LEMMA ActiveOpened ==
    ASSUME IInv, ColumnsInv, Next, wellformed'
    PROVE  wellformed /\ FramesOpened(stack')
<1>1. /\ Good(stack) /\ RawCurrent(stack) \in Nat /\ stack.base \in Nat /\ config \in Config
      /\ config.max_indent \in Nat /\ \A k \in FrameKinds : config.amount[k] \in Nat
  BY IInvParts, GoodParts, ColumnsAreNat DEF Config
<1>2. wellformed
  BY DEF Next, PlanDirective, PlanUniform, StartCode, CloseLabel, Transition, Member, OpenFrame,
         BranchLine, ContainsRestart, EndConstruct, EndDefinition, RecoverEnd, Include, Ordinary,
         Place
<1>3. /\ \A st \in Stacks : FramesOpened(st)
      /\ FramesOpened(stack)
      /\ ~significant_seen => stack.frames = <<>>
  BY <1>2 DEF ColumnsInv, Stacks
<1>4. ASSUME NEW g \in Groups[config], PlanDirective(g) PROVE FramesOpened(stack')
  BY <1>3, <1>4, SnapshotsKept
<1>5. ASSUME NEW g \in Groups[config], PlanUniform(g) \/ StartCode(g)
      PROVE  FramesOpened(stack')
  <2>1. stack' = StackAt(g) /\ g.authored \in Nat
    BY <1>5, GroupType DEF PlanUniform, StartCode, Group
  <2>2. stack.frames = <<>> => FramesOpened(SetBase(stack, g.authored))
    BY <1>1, <2>1, SetBaseColumns
  <2> QED BY <1>3, <2>1, <2>2 DEF StackAt
<1>6. ASSUME CloseLabel PROVE FramesOpened(stack')
  <2>1. Innermost(LoopsToClose) = Len(stack.frames)
    BY <1>6 DEF CloseLabel
  <2>2. /\ LoopsToClose = LoopsEndingAt(stack, Info.label)
        /\ LoopsEndingAt(stack, Info.label) # {}
        /\ stack' = CloseInnermostLoop(stack, Info.label)
    BY <1>6 DEF CloseLabel, LoopsToClose
  <2> QED BY <1>1, <1>3, <2>1, <2>2, CloseLoopColumns
<1>7. ASSUME Member \/ BranchLine \/ Include PROVE FramesOpened(stack')
  BY <1>3, <1>7 DEF Member, BranchLine, Include, Place
<1>8. ASSUME OpenFrame, ~GroupDone PROVE FramesOpened(stack')
  <2> DEFINE name == IF Info.kind \in DefinitionKinds THEN Info.name ELSE None
             pushed == Push(stack, Info.kind, config.amount[Info.kind], name, config.max_indent)
  <2>1. /\ Info.kind \in FrameKinds /\ config.amount[Info.kind] \in Nat
        /\ name \in Names \cup {None} /\ Info.doLabel \in Labels \cup {None}
    BY <1>1, <1>8, InfoType DEF OpenFrame, StatementInfo
  <2>2. stack' = IF Info.kind = "Do" /\ Info.doLabel # None
                 THEN LabelDo(pushed, Info.doLabel) ELSE pushed
    BY <1>8 DEF OpenFrame, Place
  <2>3. PICK kind \in FrameKinds, amount \in Nat, who \in Names \cup {None}, max \in Nat :
           /\ kind = Info.kind /\ amount = config.amount[Info.kind] /\ who = name
           /\ max = config.max_indent
    BY <1>1, <2>1
  <2>4. pushed = Push(stack, kind, amount, who, max)
    BY <2>3
  <2> HIDE DEF pushed, name
  <2>5. OnePushed(stack, pushed, kind)
    <3>1. OnePushed(stack, Push(stack, kind, amount, who, max), kind)
      BY <1>1, PushGood, Zenon
    <3> QED BY <2>4, <3>1
  <2>6. Good(pushed) /\ HasTop(pushed)
    <3>1. Good(pushed) /\ Len(pushed.frames) = Len(stack.frames) + 1
      BY <2>5 DEF OnePushed
    <3> QED BY <1>1, <3>1, GoodParts, Lengths
  <2>7. FramesOpened(pushed)
    BY <1>1, <1>3, <2>4, PushColumns
  <2> QED BY <2>1, <2>2, <2>6, <2>7, LabelDoColumns
<1>9. ASSUME ContainsRestart PROVE FramesOpened(stack')
  <2>1. PICK max \in Nat : max = config.max_indent
    BY <1>1
  <2>2. stack' = SetActive(stack, stack.base, Clamp(stack.base, max))
    BY <1>9, <2>1 DEF ContainsRestart, Place, RestartAtBase
  <2>3. /\ Clamp(stack.base, max) \in Nat
        /\ Clamp(Clamp(stack.base, max), max) = Clamp(stack.base, max)
    BY <1>1, ArithmeticTypes, ClampTwice
  <2> QED BY <1>1, <1>3, <2>2, <2>3, SetActiveColumns
<1>10. ASSUME EndConstruct \/ EndDefinition PROVE FramesOpened(stack')
  <2>1. HasTop(stack) /\ stack' = Pop(stack)
    BY <1>10 DEF EndConstruct, EndDefinition, Place, TopIs
  <2> QED BY <1>1, <1>3, <2>1, PopColumns
<1>11. ASSUME RecoverEnd PROVE FALSE
  BY <1>11 DEF RecoverEnd, Place
<1>12. ASSUME Ordinary PROVE FramesOpened(stack')
  BY <1>3, <1>12 DEF Ordinary, Place
<1> QED BY <1>2, <1>4, <1>5, <1>6, <1>7, <1>8, <1>9, <1>10, <1>11, <1>12 DEF Next, Transition

\* Until a significant statement is seen nothing opens.
LEMMA ActiveEmpty ==
    ASSUME IInv, ColumnsInv, Next, ~significant_seen'
    PROVE  ~significant_seen /\ stack'.frames = <<>>
<1>1. ~significant_seen
  BY DEF Next, PlanDirective, PlanUniform, StartCode, CloseLabel, Transition, Member, OpenFrame,
         BranchLine, ContainsRestart, EndConstruct, EndDefinition, RecoverEnd, Include, Ordinary,
         Place
<1>2. /\ \A st \in Stacks : st.frames = <<>>
      /\ stack.frames = <<>> /\ stack \in Stack /\ LabelsNameLoops(stack)
  BY <1>1, IInvParts DEF ColumnsInv, Stacks, Good
<1>3. ASSUME NEW g \in Groups[config], PlanDirective(g) PROVE stack'.frames = <<>>
  BY <1>2, <1>3, SnapshotsKept
<1>4. ASSUME NEW g \in Groups[config], PlanUniform(g) \/ StartCode(g)
      PROVE  stack'.frames = <<>>
  <2>1. stack' = StackAt(g)
    BY <1>4 DEF PlanUniform, StartCode
  <2>2. SetBase(stack, g.authored).frames = stack.frames
    BY <1>2 DEF SetBase, Stack
  <2> QED BY <1>2, <2>1, <2>2 DEF StackAt
<1>5. ASSUME CloseLabel PROVE FALSE
  <2>1. PICK d \in stack.labeled_do : TRUE
    BY <1>5 DEF CloseLabel, LoopsToClose, LoopsEndingAt
  <2>2. d.index \in 1..Len(stack.frames) /\ Len(stack.frames) = 0
    BY <1>2, <2>1, EmptySeq DEF LabelsNameLoops
  <2> QED BY <2>2
<1>6. ASSUME Transition PROVE stack'.frames = <<>>
  <2>1. Info.class = "Neutral" /\ Info.kind = "Unknown"
    BY <1>6 DEF Transition, Member, OpenFrame, BranchLine, ContainsRestart, EndConstruct,
                EndDefinition, RecoverEnd, Include, Ordinary, Place, Significant
  <2>2. ~OpenFrame /\ ~EndConstruct
    BY <2>1, Disjoint DEF OpenFrame, EndConstruct
  <2>3. ~Member /\ ~BranchLine /\ ~ContainsRestart /\ ~Include
    BY <2>1 DEF Member, IsMember, BranchLine, ContainsRestart, Include
  <2>4. ~EndDefinition /\ ~RecoverEnd
    BY <2>1 DEF EndDefinition, RecoverEnd, IsEndDefinition
  <2>5. Ordinary
    BY <1>6, <2>2, <2>3, <2>4 DEF Transition
  <2>6. stack' \in {stack, [stack EXCEPT !.orphan_procedure = Info.unframed]}
    BY <2>5 DEF Ordinary, Place
  <2> QED BY <1>2, <2>6 DEF Stack
<1> QED BY <1>1, <1>3, <1>4, <1>5, <1>6 DEF Next

\* A transition that plans a statement leaves a replacement only if that was
\* the group's one statement, and then it is the active frame's END.
LEMMA ReplacedByPlace ==
    ASSUME IInv, ColumnsInv, Transition, plan'.replacement # None
    PROVE  /\ position = 0 /\ position' = position + 1 /\ group' = group
           /\ Len(group.statements) = 1 /\ group.one_line
           /\ Info.class = "EndDefinition" /\ HasTop(stack)
           /\ plan'.replacement = EndText(Top(stack))
<1>1. ~GroupDone /\ plan.replacement = None
  BY DEF Transition, ColumnsInv
<1>2. plan'.replacement = RefactorEnd /\ position' = position + 1 /\ group' = group
  BY DEF Transition, Member, OpenFrame, BranchLine, ContainsRestart, EndConstruct,
         EndDefinition, RecoverEnd, Include, Ordinary, Place
<1> QED BY <1>1, <1>2 DEF RefactorEnd

LEMMA ColumnsInductive ==
    ASSUME IInv, ColumnsInv, Next
    PROVE  ColumnsInv'
<1>1. ASSUME wellformed' PROVE \A st \in Stacks' : FramesOpened(st)
  <2>1. wellformed /\ FramesOpened(stack')
    BY <1>1, ActiveOpened
  <2>2. \A st \in Stacks : FramesOpened(st)
    BY <2>1 DEF ColumnsInv
  <2> QED BY <2>1, <2>2, SnapshotsKept
<1>2. ASSUME ~significant_seen' PROVE \A st \in Stacks' : st.frames = <<>>
  <2>1. ~significant_seen /\ stack'.frames = <<>>
    BY <1>2, ActiveEmpty
  <2>2. \A st \in Stacks : st.frames = <<>>
    BY <2>1 DEF ColumnsInv
  <2> QED BY <2>1, <2>2, SnapshotsKept
<1>3. plan'.replacement # None => position' = Len(group'.statements)
  <2>1. ASSUME NEW g \in Groups[config], PlanDirective(g) \/ PlanUniform(g) \/ StartCode(g)
        PROVE  plan'.replacement = None
    BY <2>1 DEF PlanDirective, PlanUniform, StartCode, UniformPlan
  <2>2. ASSUME CloseLabel PROVE plan'.replacement = None
    BY <2>2 DEF CloseLabel, ColumnsInv
  <2>3. ASSUME Transition, plan'.replacement # None
        PROVE  position' = Len(group'.statements)
    BY <2>3, ReplacedByPlace
  <2> QED BY <2>1, <2>2, <2>3 DEF Next
<1> QED BY <1>1, <1>2, <1>3 DEF ColumnsInv, GroupDone

LEMMA ColumnsAlways == Spec => [](IInv /\ ColumnsInv)
<1>1. Init => ColumnsInv
  <2> SUFFICES ASSUME Init PROVE ColumnsInv
    OBVIOUS
  <2>1. Stacks = {NewStack(config.start_indent)}
    BY LenProperties, EmptySeq DEF Init, Stacks
  <2>2. FramesOpened(NewStack(config.start_indent)) /\ NewStack(config.start_indent).frames = <<>>
    BY LenProperties, EmptySeq DEF NewStack, FramesOpened, Opened
  <2> QED BY <2>1, <2>2 DEF Init, ColumnsInv, UniformPlan
<1>2. IInv /\ ColumnsInv /\ [Next]_vars => ColumnsInv'
  <2> SUFFICES ASSUME IInv, ColumnsInv, [Next]_vars PROVE ColumnsInv'
    OBVIOUS
  <2>1. CASE Next
    BY <2>1, ColumnsInductive
  <2>2. CASE UNCHANGED vars
    BY <2>2 DEF vars, ColumnsInv, Stacks, GroupDone
  <2> QED BY <2>1, <2>2
<1> QED BY <1>1, <1>2, Inductive, PTL DEF Spec

LEMMA ColumnsKeptHolds ==
    ASSUME IInv, ColumnsInv
    PROVE  ColumnsKept
<1> SUFFICES ASSUME wellformed
             PROVE  /\ \A i \in 1..Len(stack.frames) : stack.frames[i].opened = stack.raw_values[i]
                    /\ stack.frames = <<>> => stack.raw_values = <<stack.base>>
  BY DEF ColumnsKept
<1>1. FramesOpened(stack) /\ Good(stack)
  BY IInvParts DEF ColumnsInv, Stacks
<1>2. ASSUME stack.frames = <<>> PROVE stack.raw_values = <<stack.base>>
  <2>1. /\ stack.raw_values \in Seq(Nat) /\ stack.base \in Nat
        /\ Len(stack.raw_values) = 1 /\ stack.raw_values[1] = stack.base
    <3>1. stack.raw_values[1] = stack.base
      BY <1>1 DEF FramesOpened, Opened
    <3>2. Len(stack.frames) = 0
      BY <1>2, EmptySeq
    <3>3. /\ stack.raw_values \in Seq(Nat) /\ stack.base \in Nat
          /\ Len(stack.raw_values) = Len(stack.frames) + 1
      BY <1>1, GoodParts
    <3> QED BY <3>1, <3>2, <3>3
  <2>2. PICK r \in Seq(Nat), b \in Nat : r = stack.raw_values /\ b = stack.base
    BY <2>1
  <2>3. Len(r) = 1 /\ r[1] = b
    BY <2>1, <2>2
  <2>4. <<b>> \in Seq(Nat) /\ Len(<<b>>) = 1 /\ <<b>>[1] = b
    OBVIOUS
  <2>5. r = <<b>>
    BY <2>3, <2>4, SeqEqual
  <2> QED BY <2>2, <2>5
<1> QED BY <1>1, <1>2 DEF FramesOpened, Opened

\* An END that closes the innermost frame is placed in the column its opening
\* statement was placed in, and at every point of a well-formed document the
\* column each open frame's END will get is its opening one: CONTAINS
\* restarts, loops closed by label, #else branches and bases guessed late
\* included.
THEOREM EndsAlign == Spec => EndAlignsWithOpener
<1>1. IInv /\ ColumnsInv => ColumnsKept
  BY ColumnsKeptHolds
<1>2. IInv /\ ColumnsInv /\ [Next]_vars => [EndAligns]_vars
  <2> SUFFICES ASSUME IInv, ColumnsInv, Next PROVE EndAligns
    OBVIOUS
  <2>1. ASSUME wellformed', position = 0, position' = 1,
               Info.kind \in DOMAIN EndOf \/ IsEndDefinition
        PROVE  HasTop(stack) /\ plan'.first_indent = Top(stack).opened
    <3>1. Transition
      BY <2>1 DEF Next, PlanDirective, PlanUniform, StartCode, CloseLabel
    <3>2. EndConstruct \/ EndDefinition
      <4>1. CASE Info.kind \in DOMAIN EndOf
        BY <4>1, <3>1, Disjoint DEF Transition, Member, IsMember, OpenFrame, BranchLine,
           ContainsRestart, EndDefinition, RecoverEnd, IsEndDefinition, Include, Ordinary
      <4>2. CASE IsEndDefinition
        BY <4>2, <3>1, <2>1, Disjoint DEF Transition, Member, IsMember, OpenFrame, BranchLine,
           ContainsRestart, RecoverEnd, IsEndDefinition, Include, Ordinary, Place
      <4> QED BY <2>1, <4>1, <4>2
    <3>3. HasTop(stack) /\ Place(RawCurrent(Pop(stack)), Pop(stack), TRUE)
      <4>1. CASE EndConstruct
        <5>1. TopIs(stack, {EndOf[Info.kind]})
          BY <2>1, <4>1 DEF EndConstruct, Place
        <5> QED BY <5>1, <4>1 DEF EndConstruct, TopIs
      <4>2. CASE EndDefinition
        <5>1. Info.end_kind = None \/ Info.end_kind = Top(stack).kind
          BY <2>1, <4>2 DEF EndDefinition, Place
        <5> QED BY <5>1, <4>2 DEF EndDefinition, TopIs
      <4> QED BY <3>2, <4>1, <4>2
    <3>4. plan'.first_indent = RawCurrent(Pop(stack))
      BY <2>1, <3>3 DEF Place
    <3>5. FramesOpened(stack) /\ Good(stack)
      BY <2>1, ActiveOpened, IInvParts DEF ColumnsInv, Stacks
    <3> QED BY <3>3, <3>4, <3>5, PopColumns
  <2> QED BY <2>1 DEF EndAligns
<1> QED BY <1>1, <1>2, ColumnsAlways, PTL DEF Spec, EndAlignsWithOpener

\* --refactor-end rewrites a line only when the END is the whole line, and in
\* a well-formed document with the kind and the name of the frame it closes.
THEOREM RefactorCorrect == Spec => RefactoredEndNamesItsFrame
<1>1. IInv /\ ColumnsInv /\ [Next]_vars => [RefactorIsSound]_vars
  <2> SUFFICES ASSUME IInv, ColumnsInv, Next,
                      plan'.replacement # None, ~GroupDone, position' = position + 1
               PROVE  /\ Len(group.statements) = 1 /\ group.one_line
                      /\ wellformed' =>
                           /\ stack'.frames = Front(stack.frames)
                           /\ plan'.replacement.name = Top(stack).name
                           /\ plan'.replacement.target \in {Top(stack).kind, None}
    BY DEF RefactorIsSound
  <2>1. position \in Nat /\ Info \in StatementInfo
    BY InfoType DEF IInv, TypeOK
  <2>2. Transition
    BY <2>1 DEF Next, PlanDirective, PlanUniform, StartCode, CloseLabel
  <2>3. /\ Len(group.statements) = 1 /\ group.one_line
        /\ Info.class = "EndDefinition" /\ HasTop(stack)
        /\ plan'.replacement = EndText(Top(stack))
    BY <2>2, ReplacedByPlace
  <2>4. /\ plan'.replacement.name = Top(stack).name
        /\ plan'.replacement.target \in {Top(stack).kind, None}
    BY <2>3 DEF EndText
  <2>5. ASSUME wellformed' PROVE stack'.frames = Front(stack.frames)
    <3>1. Info.kind = "EndProcedure" \/ IsEndDefinition
      BY <2>1, <2>3 DEF StatementInfo, IsEndDefinition
    <3>2. "EndProcedure" \in DOMAIN EndOf
      BY DEF EndOf
    <3>3. EndConstruct \/ EndDefinition
      <4>1. CASE Info.kind = "EndProcedure"
        BY <4>1, <2>2, <3>2, Disjoint DEF Transition, Member, IsMember, OpenFrame, BranchLine,
           ContainsRestart, EndDefinition, RecoverEnd, IsEndDefinition, Include, Ordinary
      <4>2. CASE IsEndDefinition
        BY <4>2, <2>2, <2>5, Disjoint DEF Transition, Member, IsMember, OpenFrame, BranchLine,
           ContainsRestart, RecoverEnd, IsEndDefinition, Include, Ordinary, Place
      <4> QED BY <3>1, <4>1, <4>2
    <3>4. HasTop(stack) /\ stack' = Pop(stack)
      BY <2>5, <3>3 DEF EndConstruct, EndDefinition, Place, TopIs
    <3>5. Good(stack)
      BY IInvParts
    <3> QED BY <3>4, <3>5, PopGood
  <2> QED BY <2>3, <2>4, <2>5
<1> QED BY <1>1, ColumnsAlways, PTL DEF Spec, RefactoredEndNamesItsFrame
=============================================================================
