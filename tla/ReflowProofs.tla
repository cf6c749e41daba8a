---------------------------- MODULE ReflowProofs ----------------------------
(***************************************************************************)
(* Proofs about the wrapper and the layout of its lines, for statements of *)
(* any number of tokens of any length, any plan and any budget of columns: *)
(* the lines read as the statement (StatementReads), and none overruns     *)
(* (WrappingFits).                                                         *)
(***************************************************************************)
EXTENDS Reflow, SequenceTheorems, FiniteSetTheorems, WellFoundedInduction, TLAPS

\* Induction over the numbers up to m.
LEMMA UpTo ==
    ASSUME NEW m \in Nat, NEW Z, 0 \in Z, \A n \in 0..m : n < m /\ n \in Z => n + 1 \in Z
    PROVE  0..m \subseteq Z
<1> DEFINE T == {n \in Nat : n \in 0..m /\ n \notin Z}
           R == OpToRel(<, Nat)
<1>1. SUFFICES ASSUME T # {} PROVE FALSE
  OBVIOUS
<1>2. PICK x \in T : \A y \in T : ~ (<<y, x>> \in R)
  <2>1. IsWellFoundedOn(R, Nat) /\ T \subseteq Nat
    BY NatLessThanWellFounded
  <2> HIDE DEF R, T
  <2> QED BY <1>1, <2>1, WFMin
<1>3. \A a, b \in Nat : <<b, a>> \in R <=> b < a
  BY DEF OpToRel
<1>4. x \in Nat /\ x <= m /\ x \notin Z
  <2> HIDE DEF R
  <2>1. x \in Nat /\ x \in 0..m /\ x \notin Z
    BY Zenon
  <2> QED BY <2>1
<1>5. \A y \in T : ~ (y < x)
  BY <1>2, <1>3, <1>4
<1> HIDE DEF R
<1>6. x # 0
  BY <1>4, Zenon
<1>7. x - 1 \in Nat /\ x - 1 \in 0..m /\ x - 1 < m /\ x - 1 < x /\ (x - 1) + 1 = x
  BY <1>4, <1>6
<1>8. x - 1 \in Z
  BY <1>5, <1>7, Zenon
<1>9. x \in Z
  BY <1>7, <1>8
<1> QED BY <1>4, <1>9

-----------------------------------------------------------------------------
(* What the tokens of a line come to *)

\* The folds over a sequence, step by step, and what one more element adds.
JoinStage(s, w, i) == IF i = 0 THEN <<>> ELSE Rejoin(w[i - 1], s[i])
IsJoin(s, m, w) == w = [i \in 0..m |-> JoinStage(s, w, i)]

LEMMA JoinExists ==
    ASSUME NEW s, NEW m \in Nat
    PROVE  \E w : IsJoin(s, m, w)
<1> DEFINE Z == {n \in 0..m : \E w : IsJoin(s, n, w)}
<1>1. 0 \in Z
  <2> DEFINE w == [i \in 0..0 |-> <<>>]
  <2>1. w = [i \in 0..0 |-> JoinStage(s, w, i)]
    BY DEF JoinStage
  <2> QED BY <2>1 DEF IsJoin
<1>2. ASSUME NEW n \in 0..m, n < m, n \in Z PROVE n + 1 \in Z
  <2>1. PICK w : w = [i \in 0..n |-> JoinStage(s, w, i)]
    BY <1>2 DEF IsJoin
  <2> DEFINE v == [i \in 0..(n + 1) |-> IF i = n + 1 THEN Rejoin(w[n], s[n + 1]) ELSE w[i]]
  <2>2. \A i \in 0..n : w[i] = JoinStage(s, w, i)
    BY <2>1
  <2>3. \A i \in 0..n : v[i] = w[i]
    OBVIOUS
  <2>4. \A i \in 0..(n + 1) : v[i] = JoinStage(s, v, i)
    <3>1. ASSUME NEW i \in 0..n PROVE v[i] = JoinStage(s, v, i)
      <4>1. i = 0 \/ v[i - 1] = w[i - 1]
        BY <2>3
      <4> HIDE DEF v
      <4> QED BY <2>2, <2>3, <4>1 DEF JoinStage
    <3>2. v[n + 1] = JoinStage(s, v, n + 1)
      <4>1. v[n] = w[n] /\ n + 1 # 0 /\ (n + 1) - 1 = n /\ n + 1 \in 0..(n + 1)
        BY <2>3
      <4>2. v[n + 1] = Rejoin(w[n], s[n + 1])
        BY <4>1, Zenon
      <4> HIDE DEF v
      <4> QED BY <4>1, <4>2, Zenon DEF JoinStage
    <3>3. \A i \in 0..(n + 1) : i \in 0..n \/ i = n + 1
      OBVIOUS
    <3> HIDE DEF v
    <3> QED BY <3>1, <3>2, <3>3
  <2>5. v = [i \in 0..(n + 1) |-> JoinStage(s, v, i)]
    <3>1. v = [i \in 0..(n + 1) |-> v[i]]
      OBVIOUS
    <3> HIDE DEF v
    <3> QED BY <2>4, <3>1, Zenon
  <2>6. n + 1 \in 0..m
    BY <1>2
  <2> HIDE DEF v
  <2> QED BY <2>5, <2>6 DEF IsJoin
<1>3. 0..m \subseteq Z
  <2> HIDE DEF Z
  <2> QED BY <1>1, <1>2, UpTo
<1>4. m \in Z
  BY <1>3
<1> QED BY <1>4

LEMMA JoinIs ==
    ASSUME NEW s, Len(s) \in Nat
    PROVE  \E w : IsJoin(s, Len(s), w) /\ Rejoined(s) = w[Len(s)]
<1> DEFINE c == CHOOSE w : w = [i \in 0..Len(s) |-> IF i = 0 THEN <<>> ELSE Rejoin(w[i - 1], s[i])]
<1>1. \E w : w = [i \in 0..Len(s) |-> IF i = 0 THEN <<>> ELSE Rejoin(w[i - 1], s[i])]
  <2>1. PICK w : IsJoin(s, Len(s), w)
    BY JoinExists, Zenon
  <2> QED BY <2>1, Zenon DEF IsJoin, JoinStage
<1>2. c = [i \in 0..Len(s) |-> IF i = 0 THEN <<>> ELSE Rejoin(c[i - 1], s[i])]
  BY <1>1, Zenon
<1>3. IsJoin(s, Len(s), c)
  <2> HIDE DEF c
  <2> QED BY <1>2, Zenon DEF IsJoin, JoinStage
<1>4. Rejoined(s) = c[Len(s)]
  BY Zenon DEF Rejoined
<1> HIDE DEF c
<1> QED BY <1>3, <1>4, Zenon

LEMMA JoinAppend ==
    ASSUME NEW T, NEW s \in Seq(T), NEW t \in T
    PROVE  Rejoined(Append(s, t)) = Rejoin(Rejoined(s), t)
<1> DEFINE n == Len(s)
           z == Append(s, t)
<1>1. n \in Nat /\ Len(z) = n + 1 /\ z[n + 1] = t /\ \A i \in 1..n : z[i] = s[i]
  OBVIOUS
<1>2. PICK w : IsJoin(s, n, w) /\ Rejoined(s) = w[n]
  BY <1>1, JoinIs, Zenon
<1>3. PICK v : IsJoin(z, n + 1, v) /\ Rejoined(z) = v[n + 1]
  <2>1. Len(z) \in Nat
    BY <1>1
  <2> HIDE DEF n, z
  <2> QED BY <1>1, <2>1, JoinIs, Zenon
<1> HIDE DEF n, z
<1>4. \A i \in 0..n : w[i] = JoinStage(s, w, i) 
  BY <1>1, <1>2 DEF IsJoin
<1>5. \A i \in 0..(n + 1) : v[i] = JoinStage(z, v, i)
  BY <1>1, <1>3 DEF IsJoin
<1>6. \A i \in 0..n : v[i] = w[i]
  <2> DEFINE E == {i \in 0..n : v[i] = w[i]}
  <2>1. 0 \in E
    <3>1. 0 \in 0..n /\ 0 \in 0..(n + 1)
      BY <1>1
    <3> QED BY <1>4, <1>5, <3>1, Zenon DEF JoinStage
  <2>2. ASSUME NEW i \in 0..n, i < n, i \in E PROVE i + 1 \in E
    <3>1. i + 1 \in 0..n /\ i + 1 \in 0..(n + 1) /\ i + 1 # 0 /\ (i + 1) - 1 = i /\ i + 1 \in 1..n
      BY <1>1, <2>2
    <3>2. v[i] = w[i] /\ z[i + 1] = s[i + 1]
      BY <1>1, <2>2, <3>1
    <3>3. v[i + 1] = w[i + 1]
      <4>1. v[i + 1] = JoinStage(z, v, i + 1) /\ w[i + 1] = JoinStage(s, w, i + 1)
        BY <1>4, <1>5, <3>1, Zenon
      <4>2. JoinStage(z, v, i + 1) = JoinStage(s, w, i + 1)
        BY <1>1, <3>1, <3>2 DEF JoinStage
      <4> QED BY <4>1, <4>2, Zenon
    <3> QED BY <3>1, <3>3
  <2>3. 0..n \subseteq E
    <3> HIDE DEF E
    <3> QED BY <1>1, <2>1, <2>2, UpTo
  <2> QED BY <2>3
<1>7. v[n + 1] = JoinStage(z, v, n + 1) /\ v[n] = w[n] /\ n + 1 # 0 /\ (n + 1) - 1 = n
  BY <1>1, <1>5, <1>6
<1>8. JoinStage(z, v, n + 1) = Rejoin(w[n], t)
  BY <1>1, <1>7 DEF JoinStage
<1>9. z = Append(s, t)
  BY DEF z
<1> QED BY <1>2, <1>3, <1>7, <1>8, <1>9, Zenon

LEMMA JoinNone == Rejoined(<<>>) = <<>>
<1>1. Len(<<>>) = 0
  OBVIOUS
<1>2. PICK w : IsJoin(<<>>, 0, w) /\ Rejoined(<<>>) = w[0]
  BY <1>1, JoinIs
<1>3. w[0] = <<>>
  BY <1>2 DEF IsJoin, JoinStage
<1> QED BY <1>2, <1>3, Zenon

AllStage(s, w, i) == IF i = 0 THEN <<>> ELSE w[i - 1] \o s[i]
IsAll(s, m, w) == w = [i \in 0..m |-> AllStage(s, w, i)]

LEMMA AllExists ==
    ASSUME NEW s, NEW m \in Nat
    PROVE  \E w : IsAll(s, m, w)
<1> DEFINE Z == {n \in 0..m : \E w : IsAll(s, n, w)}
<1>1. 0 \in Z
  <2> DEFINE w == [i \in 0..0 |-> <<>>]
  <2>1. w = [i \in 0..0 |-> AllStage(s, w, i)]
    BY DEF AllStage
  <2> QED BY <2>1 DEF IsAll
<1>2. ASSUME NEW n \in 0..m, n < m, n \in Z PROVE n + 1 \in Z
  <2>1. PICK w : w = [i \in 0..n |-> AllStage(s, w, i)]
    BY <1>2 DEF IsAll
  <2> DEFINE v == [i \in 0..(n + 1) |-> IF i = n + 1 THEN w[n] \o s[n + 1] ELSE w[i]]
  <2>2. \A i \in 0..n : w[i] = AllStage(s, w, i)
    BY <2>1
  <2>3. \A i \in 0..n : v[i] = w[i]
    OBVIOUS
  <2>4. \A i \in 0..(n + 1) : v[i] = AllStage(s, v, i)
    <3>1. ASSUME NEW i \in 0..n PROVE v[i] = AllStage(s, v, i)
      <4>1. i = 0 \/ v[i - 1] = w[i - 1]
        BY <2>3
      <4> HIDE DEF v
      <4> QED BY <2>2, <2>3, <4>1 DEF AllStage
    <3>2. v[n + 1] = AllStage(s, v, n + 1)
      <4>1. v[n] = w[n] /\ n + 1 # 0 /\ (n + 1) - 1 = n /\ n + 1 \in 0..(n + 1)
        BY <2>3
      <4>2. v[n + 1] = w[n] \o s[n + 1]
        BY <4>1, Zenon
      <4> HIDE DEF v
      <4> QED BY <4>1, <4>2, Zenon DEF AllStage
    <3>3. \A i \in 0..(n + 1) : i \in 0..n \/ i = n + 1
      OBVIOUS
    <3> HIDE DEF v
    <3> QED BY <3>1, <3>2, <3>3
  <2>5. v = [i \in 0..(n + 1) |-> AllStage(s, v, i)]
    <3>1. v = [i \in 0..(n + 1) |-> v[i]]
      OBVIOUS
    <3> HIDE DEF v
    <3> QED BY <2>4, <3>1, Zenon
  <2>6. n + 1 \in 0..m
    BY <1>2
  <2> HIDE DEF v
  <2> QED BY <2>5, <2>6 DEF IsAll
<1>3. 0..m \subseteq Z
  <2> HIDE DEF Z
  <2> QED BY <1>1, <1>2, UpTo
<1>4. m \in Z
  BY <1>3
<1> QED BY <1>4

LEMMA AllIs ==
    ASSUME NEW s, Len(s) \in Nat
    PROVE  \E w : IsAll(s, Len(s), w) /\ AllOf(s) = w[Len(s)]
<1> DEFINE c == CHOOSE w : w = [i \in 0..Len(s) |-> IF i = 0 THEN <<>> ELSE w[i - 1] \o s[i]]
<1>1. \E w : w = [i \in 0..Len(s) |-> IF i = 0 THEN <<>> ELSE w[i - 1] \o s[i]]
  <2>1. PICK w : IsAll(s, Len(s), w)
    BY AllExists, Zenon
  <2> QED BY <2>1, Zenon DEF IsAll, AllStage
<1>2. c = [i \in 0..Len(s) |-> IF i = 0 THEN <<>> ELSE c[i - 1] \o s[i]]
  BY <1>1, Zenon
<1>3. IsAll(s, Len(s), c)
  <2> HIDE DEF c
  <2> QED BY <1>2, Zenon DEF IsAll, AllStage
<1>4. AllOf(s) = c[Len(s)]
  BY Zenon DEF AllOf
<1> HIDE DEF c
<1> QED BY <1>3, <1>4, Zenon

LEMMA AllAppend ==
    ASSUME NEW T, NEW s \in Seq(T), NEW t \in T
    PROVE  AllOf(Append(s, t)) = AllOf(s) \o t
<1> DEFINE n == Len(s)
           z == Append(s, t)
<1>1. n \in Nat /\ Len(z) = n + 1 /\ z[n + 1] = t /\ \A i \in 1..n : z[i] = s[i]
  OBVIOUS
<1>2. PICK w : IsAll(s, n, w) /\ AllOf(s) = w[n]
  BY <1>1, AllIs, Zenon
<1>3. PICK v : IsAll(z, n + 1, v) /\ AllOf(z) = v[n + 1]
  <2>1. Len(z) \in Nat
    BY <1>1
  <2> HIDE DEF n, z
  <2> QED BY <1>1, <2>1, AllIs, Zenon
<1> HIDE DEF n, z
<1>4. \A i \in 0..n : w[i] = AllStage(s, w, i) 
  BY <1>1, <1>2 DEF IsAll
<1>5. \A i \in 0..(n + 1) : v[i] = AllStage(z, v, i)
  BY <1>1, <1>3 DEF IsAll
<1>6. \A i \in 0..n : v[i] = w[i]
  <2> DEFINE E == {i \in 0..n : v[i] = w[i]}
  <2>1. 0 \in E
    <3>1. 0 \in 0..n /\ 0 \in 0..(n + 1)
      BY <1>1
    <3> QED BY <1>4, <1>5, <3>1, Zenon DEF AllStage
  <2>2. ASSUME NEW i \in 0..n, i < n, i \in E PROVE i + 1 \in E
    <3>1. i + 1 \in 0..n /\ i + 1 \in 0..(n + 1) /\ i + 1 # 0 /\ (i + 1) - 1 = i /\ i + 1 \in 1..n
      BY <1>1, <2>2
    <3>2. v[i] = w[i] /\ z[i + 1] = s[i + 1]
      BY <1>1, <2>2, <3>1
    <3>3. v[i + 1] = w[i + 1]
      <4>1. v[i + 1] = AllStage(z, v, i + 1) /\ w[i + 1] = AllStage(s, w, i + 1)
        BY <1>4, <1>5, <3>1, Zenon
      <4>2. AllStage(z, v, i + 1) = AllStage(s, w, i + 1)
        BY <1>1, <3>1, <3>2 DEF AllStage
      <4> QED BY <4>1, <4>2, Zenon
    <3> QED BY <3>1, <3>3
  <2>3. 0..n \subseteq E
    <3> HIDE DEF E
    <3> QED BY <1>1, <2>1, <2>2, UpTo
  <2> QED BY <2>3
<1>7. v[n + 1] = AllStage(z, v, n + 1) /\ v[n] = w[n] /\ n + 1 # 0 /\ (n + 1) - 1 = n
  BY <1>1, <1>5, <1>6
<1>8. AllStage(z, v, n + 1) = w[n] \o t
  BY <1>1, <1>7 DEF AllStage
<1>9. z = Append(s, t)
  BY DEF z
<1> QED BY <1>2, <1>3, <1>7, <1>8, <1>9, Zenon

LEMMA AllNone == AllOf(<<>>) = <<>>
<1>1. Len(<<>>) = 0
  OBVIOUS
<1>2. PICK w : IsAll(<<>>, 0, w) /\ AllOf(<<>>) = w[0]
  BY <1>1, AllIs
<1>3. w[0] = <<>>
  BY <1>2 DEF IsAll, AllStage
<1> QED BY <1>2, <1>3, Zenon

TextStage(s, w, i) == IF i = 0 THEN <<>> ELSE w[i - 1] \o Piece(s, i)
IsText(s, m, w) == w = [i \in 0..m |-> TextStage(s, w, i)]

LEMMA TextExists ==
    ASSUME NEW s, NEW m \in Nat
    PROVE  \E w : IsText(s, m, w)
<1> DEFINE Z == {n \in 0..m : \E w : IsText(s, n, w)}
<1>1. 0 \in Z
  <2> DEFINE w == [i \in 0..0 |-> <<>>]
  <2>1. w = [i \in 0..0 |-> TextStage(s, w, i)]
    BY DEF TextStage
  <2> QED BY <2>1 DEF IsText
<1>2. ASSUME NEW n \in 0..m, n < m, n \in Z PROVE n + 1 \in Z
  <2>1. PICK w : w = [i \in 0..n |-> TextStage(s, w, i)]
    BY <1>2 DEF IsText
  <2> DEFINE v == [i \in 0..(n + 1) |-> IF i = n + 1 THEN w[n] \o Piece(s, n + 1) ELSE w[i]]
  <2>2. \A i \in 0..n : w[i] = TextStage(s, w, i)
    BY <2>1
  <2>3. \A i \in 0..n : v[i] = w[i]
    OBVIOUS
  <2>4. \A i \in 0..(n + 1) : v[i] = TextStage(s, v, i)
    <3>1. ASSUME NEW i \in 0..n PROVE v[i] = TextStage(s, v, i)
      <4>1. i = 0 \/ v[i - 1] = w[i - 1]
        BY <2>3
      <4> HIDE DEF v
      <4> QED BY <2>2, <2>3, <4>1 DEF TextStage
    <3>2. v[n + 1] = TextStage(s, v, n + 1)
      <4>1. v[n] = w[n] /\ n + 1 # 0 /\ (n + 1) - 1 = n /\ n + 1 \in 0..(n + 1)
        BY <2>3
      <4>2. v[n + 1] = w[n] \o Piece(s, n + 1)
        BY <4>1, Zenon
      <4> HIDE DEF v
      <4> QED BY <4>1, <4>2, Zenon DEF TextStage
    <3>3. \A i \in 0..(n + 1) : i \in 0..n \/ i = n + 1
      OBVIOUS
    <3> HIDE DEF v
    <3> QED BY <3>1, <3>2, <3>3
  <2>5. v = [i \in 0..(n + 1) |-> TextStage(s, v, i)]
    <3>1. v = [i \in 0..(n + 1) |-> v[i]]
      OBVIOUS
    <3> HIDE DEF v
    <3> QED BY <2>4, <3>1, Zenon
  <2>6. n + 1 \in 0..m
    BY <1>2
  <2> HIDE DEF v
  <2> QED BY <2>5, <2>6 DEF IsText
<1>3. 0..m \subseteq Z
  <2> HIDE DEF Z
  <2> QED BY <1>1, <1>2, UpTo
<1>4. m \in Z
  BY <1>3
<1> QED BY <1>4

LEMMA TextIs ==
    ASSUME NEW s, Len(s) \in Nat
    PROVE  \E w : IsText(s, Len(s), w) /\ Text(s) = w[Len(s)]
<1> DEFINE c == CHOOSE w : w = [i \in 0..Len(s) |-> IF i = 0 THEN <<>> ELSE w[i - 1] \o Piece(s, i)]
<1>1. \E w : w = [i \in 0..Len(s) |-> IF i = 0 THEN <<>> ELSE w[i - 1] \o Piece(s, i)]
  <2>1. PICK w : IsText(s, Len(s), w)
    BY TextExists, Zenon
  <2> QED BY <2>1, Zenon DEF IsText, TextStage
<1>2. c = [i \in 0..Len(s) |-> IF i = 0 THEN <<>> ELSE c[i - 1] \o Piece(s, i)]
  BY <1>1, Zenon
<1>3. IsText(s, Len(s), c)
  <2> HIDE DEF c
  <2> QED BY <1>2, Zenon DEF IsText, TextStage
<1>4. Text(s) = c[Len(s)]
  BY Zenon DEF Text
<1> HIDE DEF c
<1> QED BY <1>3, <1>4, Zenon

LEMMA TextAppend ==
    ASSUME NEW T, NEW s \in Seq(T), NEW t \in T
    PROVE  Text(Append(s, t)) = Text(s) \o Piece(Append(s, t), Len(s) + 1)
<1> DEFINE n == Len(s)
           z == Append(s, t)
<1>1. n \in Nat /\ Len(z) = n + 1 /\ z[n + 1] = t /\ \A i \in 1..n : z[i] = s[i]
  OBVIOUS
<1>2. PICK w : IsText(s, n, w) /\ Text(s) = w[n]
  BY <1>1, TextIs, Zenon
<1>3. PICK v : IsText(z, n + 1, v) /\ Text(z) = v[n + 1]
  <2>1. Len(z) \in Nat
    BY <1>1
  <2> HIDE DEF n, z
  <2> QED BY <1>1, <2>1, TextIs, Zenon
<1> HIDE DEF n, z
<1>4. \A i \in 0..n : w[i] = TextStage(s, w, i) 
  BY <1>1, <1>2 DEF IsText
<1>5. \A i \in 0..(n + 1) : v[i] = TextStage(z, v, i)
  BY <1>1, <1>3 DEF IsText
<1>6. \A i \in 0..n : v[i] = w[i]
  <2> DEFINE E == {i \in 0..n : v[i] = w[i]}
  <2>1. 0 \in E
    <3>1. 0 \in 0..n /\ 0 \in 0..(n + 1)
      BY <1>1
    <3> QED BY <1>4, <1>5, <3>1, Zenon DEF TextStage
  <2>2. ASSUME NEW i \in 0..n, i < n, i \in E PROVE i + 1 \in E
    <3>1. i + 1 \in 0..n /\ i + 1 \in 0..(n + 1) /\ i + 1 # 0 /\ (i + 1) - 1 = i /\ i + 1 \in 1..n
      BY <1>1, <2>2
    <3>2. v[i] = w[i] /\ z[i + 1] = s[i + 1]
      BY <1>1, <2>2, <3>1
    <3>3. v[i + 1] = w[i + 1]
      <4>1. v[i + 1] = TextStage(z, v, i + 1) /\ w[i + 1] = TextStage(s, w, i + 1)
        BY <1>4, <1>5, <3>1, Zenon
      <4>2. TextStage(z, v, i + 1) = TextStage(s, w, i + 1)
        BY <1>1, <3>1, <3>2 DEF TextStage, Piece
      <4> QED BY <4>1, <4>2, Zenon
    <3> QED BY <3>1, <3>3
  <2>3. 0..n \subseteq E
    <3> HIDE DEF E
    <3> QED BY <1>1, <2>1, <2>2, UpTo
  <2> QED BY <2>3
<1>7. v[n + 1] = TextStage(z, v, n + 1) /\ v[n] = w[n] /\ n + 1 # 0 /\ (n + 1) - 1 = n
  BY <1>1, <1>5, <1>6
<1>8. TextStage(z, v, n + 1) = w[n] \o Piece(z, n + 1)
  BY <1>1, <1>7 DEF TextStage
<1>9. z = Append(s, t)
  BY DEF z
<1> QED BY <1>2, <1>3, <1>7, <1>8, <1>9, Zenon DEF n

LEMMA TextNone == Text(<<>>) = <<>>
<1>1. Len(<<>>) = 0
  OBVIOUS
<1>2. PICK w : IsText(<<>>, 0, w) /\ Text(<<>>) = w[0]
  BY <1>1, TextIs
<1>3. w[0] = <<>>
  BY <1>2 DEF IsText, TextStage
<1> QED BY <1>2, <1>3, Zenon

-----------------------------------------------------------------------------
(* Tokens, and the statement they come to *)

LEMMA OneOf ==
    ASSUME NEW T, NEW x \in T
    PROVE  <<x>> \in Seq(T) /\ Len(<<x>>) = 1 /\ <<x>>[1] = x
OBVIOUS

LEMMA NotEmpty ==
    ASSUME NEW T, NEW s \in Seq(T)
    PROVE  Len(s) \in Nat /\ (s # <<>> <=> Len(s) > 0)
BY EmptySeq, LenProperties

LEMMA TokenFacts ==
    ASSUME NEW t \in Tokens
    PROVE  /\ t \in [kind : TokenKinds, text : Seq(Cells), blank : BOOLEAN]
           /\ t.kind \in TokenKinds /\ t.text \in Seq(Cells) /\ t.blank \in BOOLEAN
           /\ Len(t.text) \in Nat /\ Len(t.text) > 0
           /\ t.text[1] # "_" /\ t.text[Len(t.text)] # "_"
           /\ t.kind = "string" => /\ Len(t.text) > 1
                                   /\ t.text[1] = "q" /\ t.text[Len(t.text)] = "q"
           /\ t.kind = "=" => Len(t.text) = 1
           /\ t.kind # "&" => t.text[1] # "&"
<1>1. /\ t \in [kind : TokenKinds, text : Seq(Cells), blank : BOOLEAN]
      /\ t.text # <<>> /\ t.text[1] # "_" /\ t.text[Len(t.text)] # "_"
      /\ t.kind = "string" => /\ Len(t.text) > 1
                              /\ t.text[1] = "q" /\ t.text[Len(t.text)] = "q"
      /\ t.kind = "=" => Len(t.text) = 1
      /\ t.text[1] = "&" => t.kind = "&"
  BY Zenon DEF Tokens
<1>2. t.kind \in TokenKinds /\ t.text \in Seq(Cells) /\ t.blank \in BOOLEAN
  BY <1>1
<1>3. Len(t.text) \in Nat /\ Len(t.text) > 0
  BY <1>1, <1>2, NotEmpty
<1> QED BY <1>1, <1>2, <1>3, Zenon

LEMMA IsToken ==
    ASSUME NEW t \in [kind : TokenKinds, text : Seq(Cells), blank : BOOLEAN],
           Len(t.text) > 0, t.text[1] # "_", t.text[Len(t.text)] # "_",
           t.kind = "string" => /\ Len(t.text) > 1
                                /\ t.text[1] = "q" /\ t.text[Len(t.text)] = "q",
           t.kind = "=" => Len(t.text) = 1,
           t.text[1] = "&" => t.kind = "&"
    PROVE  t \in Tokens
<1>1. t.text # <<>>
  <2>1. t.text \in Seq(Cells)
    OBVIOUS
  <2> QED BY <2>1, NotEmpty
<1> QED BY <1>1, Zenon DEF Tokens

LEMMA StringKind == "string" \in TokenKinds /\ "//" \in TokenKinds
<1>1. Tiers[7] = "//" /\ 7 \in DOMAIN Tiers
  BY DEF Tiers
<1>2. "//" \in {Tiers[i] : i \in DOMAIN Tiers}
  BY <1>1
<1> QED BY <1>2 DEF TokenKinds

\* The literal p with the rest of t behind it.
Longer(p, t) == [p EXCEPT !.text = Front(p.text) \o Tail(t.text)]

LEMMA LongerIsToken ==
    ASSUME NEW p \in Tokens, NEW t \in Tokens, p.kind = "string", t.kind = "string"
    PROVE  /\ Longer(p, t) \in Tokens /\ Longer(p, t).kind = "string"
           /\ Longer(p, t).blank = p.blank /\ Longer(p, t).text = Front(p.text) \o Tail(t.text)
<1> DEFINE m == Len(p.text)
           n == Len(t.text)
           f == Front(p.text)
           r == Tail(t.text)
           x == f \o r
<1>1. /\ p.text \in Seq(Cells) /\ t.text \in Seq(Cells) /\ m \in Nat /\ n \in Nat /\ m > 1 /\ n > 1
      /\ p.text[1] = "q" /\ t.text[n] = "q"
  BY TokenFacts
<1>2. f \in Seq(Cells) /\ Len(f) = m - 1 /\ f[1] = "q"
  BY <1>1 DEF Front
<1>3. r \in Seq(Cells) /\ Len(r) = n - 1 /\ r[n - 1] = "q"
  <2>1. t.text # <<>>
    BY <1>1
  <2>2. r \in Seq(Cells) /\ Len(r) = n - 1
    BY <1>1, <2>1
  <2>3. r[n - 1] = t.text[(n - 1) + 1]
    BY <1>1, <2>1, <2>2, HeadTailProperties
  <2> QED BY <1>1, <2>2, <2>3
<1> HIDE DEF f, r, m, n
<1>4. /\ x \in Seq(Cells) /\ Len(x) = (m - 1) + (n - 1) /\ x[1] = "q" /\ x[Len(x)] = "q"
  <2>1. /\ x \in Seq(Cells) /\ Len(x) = Len(f) + Len(r)
        /\ \A i \in 1..Len(f) + Len(r) : x[i] = IF i <= Len(f) THEN f[i] ELSE r[i - Len(f)]
    <3> HIDE DEF x
    <3> QED BY <1>2, <1>3, ConcatProperties, Zenon DEF x
  <2> HIDE DEF x
  <2>2. x[1] = f[1] /\ x[(m - 1) + (n - 1)] = r[n - 1]
    BY <1>1, <1>2, <1>3, <2>1
  <2> QED BY <1>2, <1>3, <2>1, <2>2
<1> HIDE DEF x
<1>5. p \in [kind : TokenKinds, text : Seq(Cells), blank : BOOLEAN]
  BY TokenFacts
<1>6. Longer(p, t) = [p EXCEPT !.text = x]
  BY DEF Longer, x, f, r
<1>7. /\ Longer(p, t) \in [kind : TokenKinds, text : Seq(Cells), blank : BOOLEAN]
      /\ Longer(p, t).kind = "string" /\ Longer(p, t).text = x /\ Longer(p, t).blank = p.blank
  BY <1>4, <1>5, <1>6
<1>8. Longer(p, t) \in Tokens
  <2> DEFINE l == Longer(p, t)
  <2>1. /\ l \in [kind : TokenKinds, text : Seq(Cells), blank : BOOLEAN]
        /\ l.text = x /\ l.kind = "string" /\ Len(x) > 1 /\ x[1] = "q" /\ x[Len(x)] = "q"
    BY <1>1, <1>4, <1>7
  <2> HIDE DEF l
  <2>2. Len(x) > 0 /\ "q" # "_" /\ "q" # "&" /\ l.kind # "="
    BY <1>1, <1>4, <2>1
  <2>3. l \in Tokens
    BY <2>1, <2>2, IsToken, Zenon
  <2> QED BY <2>3 DEF l
<1> QED BY <1>7, <1>8 DEF x, f, r

LEMMA RejoinType ==
    ASSUME NEW acc \in Seq(Tokens), NEW t \in Tokens
    PROVE  Rejoin(acc, t) \in Seq(Tokens)
<1>1. CASE Resumes(acc, t)
  <2> DEFINE n == Len(acc)
  <2>1. n \in Nat /\ n > 1 /\ acc[n - 1] \in Tokens /\ acc[n - 1].kind = "string" /\ t.kind = "string"
    BY <1>1 DEF Resumes
  <2>2. Longer(acc[n - 1], t) \in Tokens
    BY <2>1, LongerIsToken
  <2>3. SubSeq(acc, 1, n - 2) \in Seq(Tokens)
    BY <2>1
  <2>4. Rejoin(acc, t) = Append(SubSeq(acc, 1, n - 2), Longer(acc[n - 1], t))
    BY <1>1 DEF Rejoin, Longer
  <2> QED BY <2>2, <2>3, <2>4
<1>2. CASE ~Resumes(acc, t)
  BY <1>2 DEF Rejoin
<1> QED BY <1>1, <1>2

LEMMA RejoinedType ==
    ASSUME NEW s \in Seq(Tokens)
    PROVE  Rejoined(s) \in Seq(Tokens)
<1>1. Len(s) \in Nat
  OBVIOUS
<1>2. PICK w : IsJoin(s, Len(s), w) /\ Rejoined(s) = w[Len(s)]
  BY <1>1, JoinIs
<1>3. \A i \in 0..Len(s) : w[i] = JoinStage(s, w, i)
  BY <1>2 DEF IsJoin
<1> DEFINE G == {i \in 0..Len(s) : w[i] \in Seq(Tokens)}
<1>4. 0 \in G
  <2>1. 0 \in 0..Len(s) /\ w[0] = <<>>
    BY <1>1, <1>3 DEF JoinStage
  <2> QED BY <2>1, EmptySeq
<1>5. ASSUME NEW i \in 0..Len(s), i < Len(s), i \in G PROVE i + 1 \in G
  <2>1. i + 1 \in 0..Len(s) /\ i + 1 # 0 /\ (i + 1) - 1 = i /\ s[i + 1] \in Tokens
    BY <1>1, <1>5
  <2>2. w[i + 1] = Rejoin(w[i], s[i + 1])
    BY <1>3, <2>1 DEF JoinStage
  <2> QED BY <1>5, <2>1, <2>2, RejoinType
<1>6. 0..Len(s) \subseteq G
  <2> HIDE DEF G
  <2> QED BY <1>1, <1>4, <1>5, UpTo
<1> QED BY <1>1, <1>2, <1>6

LEMMA AllOfType ==
    ASSUME NEW s \in Seq(Seq(Tokens))
    PROVE  AllOf(s) \in Seq(Tokens)
<1>1. Len(s) \in Nat
  OBVIOUS
<1>2. PICK w : IsAll(s, Len(s), w) /\ AllOf(s) = w[Len(s)]
  BY <1>1, AllIs
<1>3. \A i \in 0..Len(s) : w[i] = AllStage(s, w, i)
  BY <1>2 DEF IsAll
<1> DEFINE G == {i \in 0..Len(s) : w[i] \in Seq(Tokens)}
<1>4. 0 \in G
  <2>1. 0 \in 0..Len(s) /\ w[0] = <<>>
    BY <1>1, <1>3 DEF AllStage
  <2> QED BY <2>1, EmptySeq
<1>5. ASSUME NEW i \in 0..Len(s), i < Len(s), i \in G PROVE i + 1 \in G
  <2>1. i + 1 \in 0..Len(s) /\ i + 1 # 0 /\ (i + 1) - 1 = i /\ s[i + 1] \in Seq(Tokens)
    BY <1>1, <1>5
  <2>2. w[i + 1] = w[i] \o s[i + 1]
    BY <1>3, <2>1, Zenon DEF AllStage
  <2>4. w[i] \o s[i + 1] \in Seq(Tokens)
    BY <1>5, <2>1, ConcatProperties
  <2> QED BY <2>1, <2>2, <2>4
<1>6. 0..Len(s) \subseteq G
  <2> HIDE DEF G
  <2> QED BY <1>1, <1>4, <1>5, UpTo
<1> QED BY <1>1, <1>2, <1>6

LEMMA PieceFacts ==
    ASSUME NEW s \in Seq(Tokens), NEW i \in 1..Len(s)
    PROVE  /\ Piece(s, i) \in Seq(Cells)
           /\ Len(Piece(s, i)) = Len(s[i].text) + (IF i > 1 /\ s[i].blank THEN 1 ELSE 0)
           /\ i = 1 => Piece(s, i) = s[1].text
           /\ Piece(s, i)[Len(Piece(s, i))] # "_"
<1>1. s[i] \in Tokens
  OBVIOUS
<1>2. s[i].text \in Seq(Cells) /\ Len(s[i].text) > 0 /\ s[i].text[Len(s[i].text)] # "_"
  BY <1>1, TokenFacts
<1> DEFINE x == s[i].text
<1>3. "_" \in Cells
  BY DEF Cells
<1>4. CASE i > 1 /\ s[i].blank
  <2>1. Piece(s, i) = <<"_">> \o x
    BY <1>4 DEF Piece
  <2> HIDE DEF x
  <2> DEFINE b == <<"_">>
  <2>2. b \in Seq(Cells) /\ Len(b) = 1
    BY <1>3, OneOf
  <2>3. x \in Seq(Cells) /\ Len(x) \in Nat /\ Len(x) > 0
    BY <1>2, NotEmpty DEF x
  <2>8. x[Len(x)] # "_"
    BY <1>2, Zenon DEF x
  <2> HIDE DEF b
  <2> DEFINE y == b \o x
  <2>5. Piece(s, i) = y
    BY <2>1 DEF b
  <2> HIDE DEF y
  <2>4. /\ y \in Seq(Cells) /\ Len(y) = Len(b) + Len(x)
        /\ \A k \in 1..Len(b) + Len(x) : y[k] = IF k <= Len(b) THEN b[k] ELSE x[k - Len(b)]
    BY <2>2, <2>3, ConcatProperties, Zenon DEF y
  <2>6. y \in Seq(Cells) /\ Len(y) = Len(x) + 1 /\ y[Len(x) + 1] = x[Len(x)]
    <3>1. Len(b) + Len(x) = Len(x) + 1 /\ Len(x) + 1 \in 1..Len(b) + Len(x)
          /\ ~(Len(x) + 1 <= Len(b)) /\ (Len(x) + 1) - Len(b) = Len(x)
      BY <2>2, <2>3
    <3> QED BY <2>4, <3>1, Zenon
  <2>7. (IF i > 1 /\ s[i].blank THEN 1 ELSE 0) = 1 /\ i # 1
    BY <1>4
  <2> QED BY <2>5, <2>6, <2>7, <2>8, Zenon DEF x
<1>5. CASE ~(i > 1 /\ s[i].blank)
  <2>1. Piece(s, i) = <<>> \o x
    BY <1>5 DEF Piece
  <2>2. <<>> \o x = x
    BY <1>2, ConcatEmptySeq
  <2>3. Len(s[i].text) \in Nat
    BY <1>2, NotEmpty
  <2>4. Piece(s, i) = s[i].text
    BY <2>1, <2>2
  <2> HIDE DEF x
  <2>5. Len(s[i].text) = Len(s[i].text) + (IF i > 1 /\ s[i].blank THEN 1 ELSE 0)
    <3>1. (IF i > 1 /\ s[i].blank THEN 1 ELSE 0) = 0
      BY <1>5, Zenon
    <3>2. \A n \in Nat : n = n + 0
      OBVIOUS
    <3> QED BY <2>3, <3>1, <3>2, Zenon
  <2> QED BY <1>2, <2>4, <2>5, Zenon
<1> QED BY <1>4, <1>5

LEMMA TextType ==
    ASSUME NEW s \in Seq(Tokens)
    PROVE  Text(s) \in Seq(Cells)
<1>1. Len(s) \in Nat
  OBVIOUS
<1>2. PICK w : IsText(s, Len(s), w) /\ Text(s) = w[Len(s)]
  BY <1>1, TextIs
<1>3. \A i \in 0..Len(s) : w[i] = TextStage(s, w, i)
  BY <1>2 DEF IsText
<1> DEFINE G == {i \in 0..Len(s) : w[i] \in Seq(Cells)}
<1>4. 0 \in G
  <2>1. 0 \in 0..Len(s) /\ w[0] = <<>>
    BY <1>1, <1>3 DEF TextStage
  <2> QED BY <2>1, EmptySeq
<1>5. ASSUME NEW i \in 0..Len(s), i < Len(s), i \in G PROVE i + 1 \in G
  <2>1. i + 1 \in 0..Len(s) /\ i + 1 # 0 /\ (i + 1) - 1 = i /\ i + 1 \in 1..Len(s)
    BY <1>1, <1>5
  <2>2. w[i + 1] = w[i] \o Piece(s, i + 1)
    BY <1>3, <2>1, Zenon DEF TextStage
  <2>3. Piece(s, i + 1) \in Seq(Cells)
    BY <2>1, PieceFacts
  <2>4. w[i] \o Piece(s, i + 1) \in Seq(Cells)
    BY <1>5, <2>1, <2>3, ConcatProperties
  <2> QED BY <2>1, <2>2, <2>4
<1>6. 0..Len(s) \subseteq G
  <2> HIDE DEF G
  <2> QED BY <1>1, <1>4, <1>5, UpTo
<1> QED BY <1>1, <1>2, <1>6

\* A line is as long as its pieces, and opens with ink.
LEMMA TextGrows ==
    ASSUME NEW s \in Seq(Tokens), NEW t \in Tokens
    PROVE  /\ Len(Text(s)) \in Nat
           /\ Len(Text(Append(s, t))) = Len(Text(s)) + Len(t.text)
                                        + (IF Len(s) > 0 /\ t.blank THEN 1 ELSE 0)
<1> DEFINE z == Append(s, t)
           n == Len(s)
<1>1. z \in Seq(Tokens) /\ n \in Nat /\ Len(z) = n + 1 /\ z[n + 1] = t /\ n + 1 \in 1..Len(z)
  OBVIOUS
<1>2. Text(z) = Text(s) \o Piece(z, n + 1)
  BY TextAppend, Zenon
<1> HIDE DEF z, n
<1>3. /\ Piece(z, n + 1) \in Seq(Cells)
      /\ Len(Piece(z, n + 1)) = Len(t.text) + (IF n + 1 > 1 /\ t.blank THEN 1 ELSE 0)
  BY <1>1, PieceFacts, Zenon
<1>4. Text(s) \in Seq(Cells)
  BY TextType
<1>5. Len(Text(z)) = Len(Text(s)) + Len(Piece(z, n + 1))
  BY <1>2, <1>3, <1>4, ConcatProperties, Zenon
<1>6. PICK d : d = IF n > 0 /\ t.blank THEN 1 ELSE 0
  OBVIOUS
<1>7. d \in Nat /\ (IF n + 1 > 1 /\ t.blank THEN 1 ELSE 0) = d
  BY <1>1, <1>6
<1>8. PICK l \in Nat : l = Len(t.text)
  BY TokenFacts, Zenon
<1>9. PICK m \in Nat : m = Len(Text(s))
  BY <1>4, NotEmpty, Zenon
<1>10. m + (l + d) = m + l + d
  BY <1>7, <1>8, <1>9
<1>11. Len(Text(z)) = m + (l + d)
  BY <1>3, <1>5, <1>7, <1>8, <1>9, Zenon
<1> QED BY <1>6, <1>8, <1>9, <1>10, <1>11, Zenon DEF z, n

LEMMA TextOpens ==
    ASSUME NEW s \in Seq(Tokens), s # <<>>
    PROVE  /\ Len(Text(s)) \in Nat /\ Len(Text(s)) > 0
           /\ Text(s)[1] = s[1].text[1]
           /\ Text(s)[Len(Text(s))] # "_"
<1>1. Len(s) \in Nat /\ Len(s) > 0
  BY NotEmpty
<1>2. PICK w : IsText(s, Len(s), w) /\ Text(s) = w[Len(s)]
  BY <1>1, TextIs
<1>3. \A i \in 0..Len(s) : w[i] = TextStage(s, w, i)
  BY <1>2 DEF IsText
<1> DEFINE G == {i \in 0..Len(s) : i # 0 => /\ w[i] \in Seq(Cells) /\ Len(w[i]) > 0
                                           /\ w[i][1] = s[1].text[1]
                                           /\ w[i][Len(w[i])] # "_"}
<1>4. 0 \in G
  BY <1>1
<1>5. ASSUME NEW i \in 0..Len(s), i < Len(s), i \in G PROVE i + 1 \in G
  <2>1. i + 1 \in 0..Len(s) /\ i + 1 # 0 /\ (i + 1) - 1 = i /\ i + 1 \in 1..Len(s)
    <3>1. i < Len(s)
      BY <1>5, Zenon
    <3> QED BY <1>1, <3>1
  <2> DEFINE y == Piece(s, i + 1)
             x == w[i]
             v == w[i + 1]
  <2>2. v = x \o y
    BY <1>3, <2>1, Zenon DEF TextStage
  <2>3. y \in Seq(Cells) /\ y[Len(y)] # "_"
    BY <2>1, PieceFacts, Zenon
  <2>4. Len(y) \in Nat /\ Len(y) > 0
    <3>1. s[i + 1] \in Tokens
      BY <2>1
    <3>2. PICK l \in Nat : l = Len(s[i + 1].text) /\ l > 0
      BY <3>1, TokenFacts, Zenon
    <3>3. PICK d : d = IF i + 1 > 1 /\ s[i + 1].blank THEN 1 ELSE 0
      OBVIOUS
    <3>4. d \in Nat
      BY <3>3
    <3>5. Len(y) = l + d
      BY <2>1, <3>2, <3>3, PieceFacts, Zenon
    <3> HIDE DEF y
    <3> QED BY <3>2, <3>4, <3>5
  <2>5. CASE i = 0
    <3>1. x = <<>> /\ v = y
      <4>1. x = <<>>
        BY <1>1, <1>3, <2>5 DEF TextStage
      <4> HIDE DEF x, y, v
      <4>2. <<>> \o y = y
        BY <2>3, ConcatEmptySeq
      <4> QED BY <2>2, <4>1, <4>2, Zenon
    <3>2. y = s[1].text
      <4>1. i + 1 = 1
        BY <2>5
      <4> QED BY <2>1, <4>1, PieceFacts, Zenon
    <3> QED BY <2>1, <2>3, <2>4, <3>1, <3>2, Zenon
  <2>6. CASE i # 0
    <3>1. x \in Seq(Cells) /\ Len(x) > 0 /\ x[1] = s[1].text[1]
      BY <1>5, <2>6, Zenon
    <3>2. Len(x) \in Nat
      BY <3>1, NotEmpty, Zenon
    <3> HIDE DEF x, y, v
    <3>3. /\ v \in Seq(Cells) /\ Len(v) = Len(x) + Len(y)
          /\ \A k \in 1..Len(x) + Len(y) : v[k] = IF k <= Len(x) THEN x[k] ELSE y[k - Len(x)]
      BY <2>2, <2>3, <3>1, ConcatProperties, Zenon
    <3>4. \A m, n \in Nat : m > 0 /\ n > 0 =>
             /\ 1 \in 1..m + n /\ m + n \in 1..m + n /\ 1 <= m /\ ~(m + n <= m)
             /\ (m + n) - m = n /\ m + n > 0
      OBVIOUS
    <3>5. v[1] = x[1] /\ v[Len(v)] = y[Len(y)] /\ Len(v) > 0
      BY <2>4, <3>1, <3>2, <3>3, <3>4, Zenon
    <3>6. /\ v \in Seq(Cells) /\ Len(v) > 0 /\ v[1] = s[1].text[1] /\ v[Len(v)] # "_"
      BY <2>3, <3>1, <3>3, <3>5, Zenon
    <3> QED BY <2>1, <3>6, Zenon DEF v
  <2> QED BY <2>5, <2>6
<1>6. 0..Len(s) \subseteq G
  <2> HIDE DEF G
  <2> QED BY <1>1, <1>4, <1>5, UpTo
<1>7. Len(s) \in 0..Len(s) /\ Len(s) # 0
  BY <1>1
<1>8. /\ Text(s) \in Seq(Cells) /\ Len(Text(s)) > 0
      /\ Text(s)[1] = s[1].text[1] /\ Text(s)[Len(Text(s))] # "_"
  <2>1. Len(s) \in G
    BY <1>6, <1>7, Zenon
  <2>2. /\ w[Len(s)] \in Seq(Cells) /\ Len(w[Len(s)]) > 0
        /\ w[Len(s)][1] = s[1].text[1] /\ w[Len(s)][Len(w[Len(s)])] # "_"
    BY <1>7, <2>1, Zenon
  <2> QED BY <1>2, <2>2, Zenon
<1>9. Len(Text(s)) \in Nat
  BY <1>8, NotEmpty, Zenon
<1> QED BY <1>8, <1>9, Zenon

\* The same up to the rejoining of literals, whatever follows.
LEMMA RejoinedOn ==
    ASSUME NEW p \in Seq(Tokens), NEW q \in Seq(Tokens), NEW r \in Seq(Tokens),
           Rejoined(p) = Rejoined(q)
    PROVE  Rejoined(p \o r) = Rejoined(q \o r)
<1>1. Len(r) \in Nat
  OBVIOUS
<1> DEFINE G == {i \in 0..Len(r) : Rejoined(p \o SubSeq(r, 1, i)) = Rejoined(q \o SubSeq(r, 1, i))}
<1>2. 0 \in G
  <2>1. SubSeq(r, 1, 0) = <<>>
    BY SubSeqEmpty
  <2>2. p \o <<>> = p /\ q \o <<>> = q
    BY ConcatEmptySeq
  <2>3. 0 \in 0..Len(r)
    BY <1>1
  <2> QED BY <2>1, <2>2, <2>3, Zenon
<1>3. ASSUME NEW i \in 0..Len(r), i < Len(r), i \in G PROVE i + 1 \in G
  <2>1. i + 1 \in 0..Len(r) /\ r[i + 1] \in Tokens /\ SubSeq(r, 1, i) \in Seq(Tokens)
    BY <1>1, <1>3
  <2> DEFINE h == SubSeq(r, 1, i)
             e == r[i + 1]
  <2>2. SubSeq(r, 1, i + 1) = Append(h, e)
    BY <1>1, <1>3
  <2> HIDE DEF h, e
  <2>3. h \in Seq(Tokens) /\ e \in Tokens
    BY <2>1 DEF h, e
  <2>4. /\ p \o Append(h, e) = Append(p \o h, e) /\ q \o Append(h, e) = Append(q \o h, e)
        /\ p \o h \in Seq(Tokens) /\ q \o h \in Seq(Tokens)
    BY <2>3
  <2>5. /\ Rejoined(Append(p \o h, e)) = Rejoin(Rejoined(p \o h), e)
        /\ Rejoined(Append(q \o h, e)) = Rejoin(Rejoined(q \o h), e)
    BY <2>3, <2>4, JoinAppend, Zenon
  <2>6. Rejoined(p \o h) = Rejoined(q \o h)
    BY <1>3, Zenon DEF h
  <2> QED BY <2>1, <2>2, <2>4, <2>5, <2>6, Zenon
<1>4. 0..Len(r) \subseteq G
  <2> HIDE DEF G
  <2> QED BY <1>1, <1>2, <1>3, UpTo
<1>5. SubSeq(r, 1, Len(r)) = r /\ Len(r) \in 0..Len(r)
  BY <1>1, SubSeqFull
<1> QED BY <1>4, <1>5, Zenon

\* x is two halves, each quoted with the e that x is quoted with.
Half(x, e, i, j) == <<e>> \o SubSeq(SubSeq(x, 2, Len(x) - 1), i, j) \o <<e>>

LEMMA HalfIs ==
    ASSUME NEW T, NEW x \in Seq(T), NEW e \in T, NEW i \in Nat, NEW j \in Nat,
           i >= 1, j <= Len(x) - 2, i <= j + 1
    PROVE  /\ Half(x, e, i, j) \in Seq(T) /\ Len(Half(x, e, i, j)) = (j - i) + 3
           /\ Half(x, e, i, j)[1] = e /\ Half(x, e, i, j)[(j - i) + 3] = e
           /\ \A k \in 2..(j - i) + 2 : Half(x, e, i, j)[k] = x[k + i - 1]
<1> DEFINE m == Len(x)
           c == SubSeq(x, 2, m - 1)
           h == SubSeq(c, i, j)
           a == <<e>>
           b == a \o h
           y == b \o a
<1>1. m \in Nat /\ m >= 2 /\ (\A k \in 1..m : x[k] \in T)
  OBVIOUS
<1> HIDE DEF m
<1>2. c \in Seq(T) /\ Len(c) = m - 2 /\ \A k \in 1..m - 2 : c[k] = x[k + 1]
  <2>1. \A k \in 2..m - 1 : x[k] \in T
    BY <1>1
  <2>2. /\ SubSeq(x, 2, m - 1) \in Seq(T)
        /\ Len(SubSeq(x, 2, m - 1)) = IF 2 <= m - 1 THEN (m - 1) - 2 + 1 ELSE 0
        /\ \A k \in 1..(m - 1) - 2 + 1 : SubSeq(x, 2, m - 1)[k] = x[2 + k - 1]
    BY <1>1, <2>1, SubSeqProperties
  <2> HIDE DEF c
  <2>3. /\ c \in Seq(T) /\ Len(c) = IF 2 <= m - 1 THEN (m - 1) - 2 + 1 ELSE 0
        /\ \A k \in 1..(m - 1) - 2 + 1 : c[k] = x[2 + k - 1]
    BY <2>2, Zenon DEF c
  <2> QED BY <1>1, <2>3
<1> HIDE DEF c
<1>3. h \in Seq(T) /\ Len(h) = (j - i) + 1 /\ \A k \in 1..(j - i) + 1 : h[k] = x[k + i]
  <2>1. \A k \in i..j : c[k] \in T
    BY <1>1, <1>2 DEF m
  <2>2. /\ SubSeq(c, i, j) \in Seq(T)
        /\ Len(SubSeq(c, i, j)) = IF i <= j THEN j - i + 1 ELSE 0
        /\ \A k \in 1..j - i + 1 : SubSeq(c, i, j)[k] = c[i + k - 1]
    BY <2>1, SubSeqProperties
  <2> HIDE DEF h
  <2>3. /\ h \in Seq(T) /\ Len(h) = IF i <= j THEN j - i + 1 ELSE 0
        /\ \A k \in 1..j - i + 1 : h[k] = c[i + k - 1]
    BY <2>2, Zenon DEF h
  <2> QED BY <1>1, <1>2, <2>3 DEF m
<1>4. a \in Seq(T) /\ Len(a) = 1 /\ a[1] = e
  BY OneOf
<1> HIDE DEF h, a
<1>5. /\ b \in Seq(T) /\ Len(b) = Len(a) + Len(h)
      /\ \A k \in 1..Len(a) + Len(h) : b[k] = IF k <= Len(a) THEN a[k] ELSE h[k - Len(a)]
  BY <1>3, <1>4, ConcatProperties, Zenon
<1> HIDE DEF b
<1>6. /\ y \in Seq(T) /\ Len(y) = Len(b) + Len(a)
      /\ \A k \in 1..Len(b) + Len(a) : y[k] = IF k <= Len(b) THEN b[k] ELSE a[k - Len(b)]
  BY <1>4, <1>5, ConcatProperties, Zenon
<1>7. Half(x, e, i, j) = y
  BY Zenon DEF Half, m, c, h, a, b
<1> HIDE DEF y
<1>8. y \in Seq(T) /\ Len(y) = (j - i) + 3 /\ Len(b) = (j - i) + 2
  BY <1>3, <1>4, <1>5, <1>6
<1>9. y[1] = e /\ y[(j - i) + 3] = e
  BY <1>3, <1>4, <1>5, <1>6, <1>8
<1>10. ASSUME NEW k \in 2..(j - i) + 2 PROVE y[k] = x[k + i - 1]
  <2>1. y[k] = b[k] /\ b[k] = h[k - 1]
    BY <1>3, <1>4, <1>5, <1>6, <1>8
  <2>2. h[k - 1] = x[(k - 1) + i]
    BY <1>3
  <2> QED BY <2>1, <2>2
<1> QED BY <1>7, <1>8, <1>9, <1>10, Zenon

QuotedBy(x, e) == x[1] = e /\ x[Len(x)] = e

\* The halves of x behind its n-th element, joined again, behind any f.
Rejoins(T, x, e, n) ==
    /\ Front(Half(x, e, 1, n)) \o Tail(Half(x, e, n + 1, Len(x) - 2)) = x
    /\ \A f \in Seq(T) :
          Front(f \o Tail(Half(x, e, 1, n))) \o Tail(Half(x, e, n + 1, Len(x) - 2))
              = f \o Tail(x)

LEMMA Halves ==
    ASSUME NEW T, NEW x \in Seq(T), NEW e \in T, NEW n \in Nat,
           n >= 1, n <= Len(x) - 2, QuotedBy(x, e)
    PROVE  Rejoins(T, x, e, n)
<1> DEFINE m == Len(x)
           y == Half(x, e, 1, n)
           z == Half(x, e, n + 1, m - 2)
           r == Tail(z)
           u == Front(y)
           w == Tail(y)
<1>1. m \in Nat /\ m >= 3 /\ m - 2 \in Nat /\ n + 1 \in Nat /\ n <= m - 2 /\ x # <<>>
  <2>1. Len(x) \in Nat /\ Len(x) > 0
    OBVIOUS
  <2> QED BY <2>1, NotEmpty
<1>2. /\ y \in Seq(T) /\ Len(y) = n + 2 /\ y[1] = e /\ y[n + 2] = e
      /\ \A k \in 2..n + 1 : y[k] = x[k]
  <2>1. 1 \in Nat /\ 1 >= 1 /\ n <= Len(x) - 2 /\ 1 <= n + 1
    BY <1>1
  <2>2. /\ y \in Seq(T) /\ Len(y) = (n - 1) + 3 /\ y[1] = e /\ y[(n - 1) + 3] = e
        /\ \A k \in 2..(n - 1) + 2 : y[k] = x[k + 1 - 1]
    BY <2>1, HalfIs
  <2> HIDE DEF y
  <2> QED BY <2>2
<1>3. /\ z \in Seq(T) /\ Len(z) = m - n /\ z[m - n] = e
      /\ \A k \in 2..m - n - 1 : z[k] = x[k + n]
  <2>1. n + 1 \in Nat /\ m - 2 \in Nat /\ n + 1 >= 1 /\ m - 2 <= Len(x) - 2 /\ n + 1 <= (m - 2) + 1
    BY <1>1
  <2>2. /\ z \in Seq(T) /\ Len(z) = ((m - 2) - (n + 1)) + 3 /\ z[((m - 2) - (n + 1)) + 3] = e
        /\ \A k \in 2..((m - 2) - (n + 1)) + 2 : z[k] = x[k + (n + 1) - 1]
    <3>1. PICK i \in Nat, j \in Nat : i = n + 1 /\ j = m - 2
      BY <1>1
    <3>2. i >= 1 /\ j <= Len(x) - 2 /\ i <= j + 1
      BY <2>1, <3>1
    <3>3. /\ Half(x, e, i, j) \in Seq(T) /\ Len(Half(x, e, i, j)) = (j - i) + 3
          /\ Half(x, e, i, j)[(j - i) + 3] = e
          /\ \A k \in 2..(j - i) + 2 : Half(x, e, i, j)[k] = x[k + i - 1]
      BY <3>2, HalfIs
    <3> QED BY <3>1, <3>3, Zenon
  <2> HIDE DEF z, m
  <2> QED BY <1>1, <2>2
<1>4. \A k \in 1..m : x[k] \in T
  OBVIOUS
<1>5. x[m] = e /\ x[1] = e
  BY DEF QuotedBy
<1> HIDE DEF y, z, m
<1>6. r \in Seq(T) /\ Len(r) = m - n - 1 /\ \A k \in 1..m - n - 1 : r[k] = x[k + n + 1]
  <2>1. z # <<>>
    BY <1>1, <1>3, NotEmpty
  <2>2. r \in Seq(T) /\ Len(r) = Len(z) - 1 /\ \A k \in 1..Len(r) : r[k] = z[k + 1]
    BY <1>3, <2>1, HeadTailProperties, Zenon
  <2> HIDE DEF r
  <2>3. ASSUME NEW k \in 1..m - n - 1 PROVE r[k] = x[k + n + 1]
    <3>1. r[k] = z[k + 1]
      BY <1>1, <1>3, <2>2
    <3>2. CASE k = m - n - 1
      <4>1. k + 1 = m - n /\ k + n + 1 = m
        BY <1>1, <3>2
      <4> QED BY <1>3, <1>5, <3>1, <4>1
    <3>3. CASE k # m - n - 1
      <4>1. k + 1 \in 2..m - n - 1 /\ (k + 1) + n = k + n + 1
        BY <1>1, <3>3
      <4> QED BY <1>3, <3>1, <4>1
    <3> QED BY <3>2, <3>3
  <2> QED BY <1>1, <1>3, <2>2, <2>3
<1>7. u \in Seq(T) /\ Len(u) = n + 1 /\ \A k \in 1..n + 1 : u[k] = x[k]
  <2>1. u = SubSeq(y, 1, n + 1)
    BY <1>2 DEF Front
  <2>2. \A k \in 1..n + 1 : y[k] \in T
    BY <1>2
  <2>3. /\ SubSeq(y, 1, n + 1) \in Seq(T)
        /\ Len(SubSeq(y, 1, n + 1)) = IF 1 <= n + 1 THEN (n + 1) - 1 + 1 ELSE 0
        /\ \A k \in 1..(n + 1) - 1 + 1 : SubSeq(y, 1, n + 1)[k] = y[1 + k - 1]
    BY <1>1, <2>2, SubSeqProperties
  <2> HIDE DEF u
  <2>4. /\ u \in Seq(T) /\ Len(u) = IF 1 <= n + 1 THEN (n + 1) - 1 + 1 ELSE 0
        /\ \A k \in 1..(n + 1) - 1 + 1 : u[k] = y[1 + k - 1]
    BY <2>1, <2>3, Zenon
  <2>5. \A k \in 1..n + 1 : y[k] = x[k]
    <3>1. ASSUME NEW k \in 1..n + 1 PROVE y[k] = x[k]
      <4>1. k = 1 \/ k \in 2..n + 1
        OBVIOUS
      <4> QED BY <1>2, <1>5, <4>1
    <3> QED BY <3>1
  <2> QED BY <1>1, <2>4, <2>5
<1>8. w \in Seq(T) /\ Len(w) = n + 1 /\ \A k \in 1..n : w[k] = x[k + 1]
  <2>1. y # <<>>
    BY <1>1, <1>2, NotEmpty
  <2>2. w \in Seq(T) /\ Len(w) = Len(y) - 1 /\ \A k \in 1..Len(w) : w[k] = y[k + 1]
    BY <1>2, <2>1, HeadTailProperties, Zenon
  <2> HIDE DEF w
  <2> QED BY <1>1, <1>2, <2>2
<1> HIDE DEF r, u, w
<1>9. u \o r = x
  <2>1. /\ u \o r \in Seq(T) /\ Len(u \o r) = Len(u) + Len(r)
        /\ \A k \in 1..Len(u) + Len(r) : (u \o r)[k] = IF k <= Len(u) THEN u[k] ELSE r[k - Len(u)]
    BY <1>6, <1>7, ConcatProperties, Zenon
  <2> DEFINE v == u \o r
  <2> HIDE DEF v
  <2>2. /\ v \in Seq(T) /\ Len(v) = Len(u) + Len(r)
        /\ \A k \in 1..Len(u) + Len(r) : v[k] = IF k <= Len(u) THEN u[k] ELSE r[k - Len(u)]
    BY <2>1, Zenon DEF v
  <2>3. Len(v) = m
    BY <1>1, <1>6, <1>7, <2>2
  <2>4. ASSUME NEW k \in 1..m PROVE v[k] = x[k]
    <3>0. k \in 1..Len(u) + Len(r) /\ Len(u) = n + 1 /\ k \in Nat
      BY <1>1, <1>6, <1>7
    <3>1. CASE k <= n + 1
      <4>1. v[k] = u[k]
        BY <2>2, <3>0, <3>1, Zenon
      <4>2. k \in 1..n + 1
        BY <3>1
      <4> QED BY <1>7, <4>1, <4>2, Zenon
    <3>2. CASE ~(k <= n + 1)
      <4>1. v[k] = r[k - (n + 1)]
        BY <2>2, <3>0, <3>2, Zenon
      <4>2. k - (n + 1) \in 1..m - n - 1 /\ (k - (n + 1)) + n + 1 = k
        BY <1>1, <3>2
      <4>3. r[k - (n + 1)] = x[(k - (n + 1)) + n + 1]
        BY <1>6, <4>2, Zenon
      <4> QED BY <4>1, <4>2, <4>3, Zenon
    <3> QED BY <3>1, <3>2
  <2>5. v = x
    BY <2>2, <2>3, <2>4, SeqEqual DEF m
  <2> QED BY <2>5 DEF v
<1>10. ASSUME NEW f \in Seq(T) PROVE Front(f \o w) \o r = f \o Tail(x)
  <2> DEFINE l == Len(f)
             g == f \o w
             h == Front(g)
             v == h \o r
             t == Tail(x)
             q == f \o t
  <2>1. l \in Nat
    OBVIOUS
  <2>2. t \in Seq(T) /\ Len(t) = m - 1 /\ \A k \in 1..m - 1 : t[k] = x[k + 1]
    BY <1>1, HeadTailProperties DEF m
  <2> HIDE DEF t, l
  <2>3. /\ g \in Seq(T) /\ Len(g) = l + Len(w)
        /\ \A k \in 1..l + Len(w) : g[k] = IF k <= l THEN f[k] ELSE w[k - l]
    BY <1>8, ConcatProperties, Zenon DEF l
  <2>4. /\ q \in Seq(T) /\ Len(q) = l + Len(t)
        /\ \A k \in 1..l + Len(t) : q[k] = IF k <= l THEN f[k] ELSE t[k - l]
    BY <2>2, ConcatProperties, Zenon DEF l
  <2> HIDE DEF g, q
  <2>5. h \in Seq(T) /\ Len(h) = l + n /\ \A k \in 1..l + n : h[k] = g[k]
    <3>1. h = SubSeq(g, 1, l + n)
      BY <1>8, <2>1, <2>3 DEF Front
    <3>2. \A k \in 1..l + n : g[k] \in T
      BY <1>8, <2>1, <2>3
    <3>3. /\ SubSeq(g, 1, l + n) \in Seq(T)
          /\ Len(SubSeq(g, 1, l + n)) = IF 1 <= l + n THEN (l + n) - 1 + 1 ELSE 0
          /\ \A k \in 1..(l + n) - 1 + 1 : SubSeq(g, 1, l + n)[k] = g[1 + k - 1]
      BY <1>1, <2>1, <3>2, SubSeqProperties
    <3> HIDE DEF h
    <3>4. /\ h \in Seq(T) /\ Len(h) = IF 1 <= l + n THEN (l + n) - 1 + 1 ELSE 0
          /\ \A k \in 1..(l + n) - 1 + 1 : h[k] = g[1 + k - 1]
      BY <3>1, <3>3, Zenon
    <3> QED BY <2>1, <3>4
  <2> HIDE DEF h
  <2>6. /\ v \in Seq(T) /\ Len(v) = Len(h) + Len(r)
        /\ \A k \in 1..Len(h) + Len(r) : v[k] = IF k <= Len(h) THEN h[k] ELSE r[k - Len(h)]
    BY <1>6, <2>5, ConcatProperties, Zenon
  <2> HIDE DEF v
  <2>7. Len(v) = l + m - 1 /\ Len(q) = l + m - 1
    BY <1>1, <1>6, <2>1, <2>2, <2>4, <2>5, <2>6
  <2>8. ASSUME NEW k \in 1..l + m - 1 PROVE v[k] = q[k]
    <3>1. /\ k \in Nat /\ k \in 1..l + Len(t) /\ k \in 1..Len(h) + Len(r) /\ Len(h) = l + n
          /\ Len(w) = n + 1
      <4>1. Len(t) = m - 1 /\ Len(r) = m - n - 1 /\ Len(h) = l + n /\ Len(w) = n + 1
        BY <1>6, <1>8, <2>2, <2>5, Zenon
      <4>2. /\ k \in Nat /\ k \in 1..l + (m - 1) /\ k \in 1..(l + n) + (m - n - 1)
        BY <1>1, <2>1
      <4> QED BY <4>1, <4>2, Zenon
    <3>2. CASE k <= l
      <4>1. k <= l + n /\ k \in 1..l + n /\ k \in 1..l + (n + 1)
        BY <1>1, <2>1, <3>2
      <4>2. v[k] = h[k] /\ h[k] = g[k]
        BY <2>5, <2>6, <3>1, <4>1, Zenon
      <4>3. g[k] = f[k] /\ q[k] = f[k]
        BY <2>3, <2>4, <3>1, <3>2, <4>1, Zenon
      <4> QED BY <4>2, <4>3, Zenon
    <3>3. CASE ~(k <= l) /\ k <= l + n
      <4>1. k \in 1..l + n /\ k \in 1..l + (n + 1) /\ k - l \in 1..n /\ k - l \in 1..m - 1
        BY <1>1, <2>1, <3>3
      <4>2. v[k] = h[k] /\ h[k] = g[k]
        BY <2>5, <2>6, <3>1, <3>3, <4>1, Zenon
      <4>3. g[k] = w[k - l] /\ q[k] = t[k - l]
        BY <2>3, <2>4, <3>1, <3>3, <4>1, Zenon
      <4>4. w[k - l] = x[(k - l) + 1] /\ t[k - l] = x[(k - l) + 1]
        BY <1>8, <2>2, <4>1, Zenon
      <4> QED BY <4>2, <4>3, <4>4, Zenon
    <3>4. CASE ~(k <= l + n)
      <4>1. /\ ~(k <= l) /\ k - (l + n) \in 1..m - n - 1 /\ k - l \in 1..m - 1
            /\ (k - (l + n)) + n + 1 = (k - l) + 1
        BY <1>1, <2>1, <3>4
      <4>2. v[k] = r[k - (l + n)] /\ q[k] = t[k - l]
        BY <2>4, <2>6, <3>1, <3>4, <4>1, Zenon
      <4>3. r[k - (l + n)] = x[(k - (l + n)) + n + 1] /\ t[k - l] = x[(k - l) + 1]
        BY <1>6, <2>2, <4>1, Zenon
      <4> QED BY <4>1, <4>2, <4>3, Zenon
    <3>5. k <= l => k <= l + n
      BY <1>1, <2>1, <3>1
    <3> QED BY <3>2, <3>3, <3>4, <3>5
  <2>9. v = q
    BY <2>4, <2>6, <2>7, <2>8, SeqEqual
  <2> QED BY <2>9 DEF v, q, h, g, t
<1> QED BY <1>9, <1>10, Zenon DEF Rejoins, u, w, r, y, z, m

-----------------------------------------------------------------------------
(* A literal in two halves *)

HalfOf(t, i, j, b) == [t EXCEPT !.text = Half(t.text, "q", i, j), !.blank = b]
FirstHalf(t, n)    == HalfOf(t, 1, n, t.blank)
SecondHalf(t, n)   == HalfOf(t, n + 1, Len(t.text) - 2, FALSE)

LEMMA TokenHalf ==
    ASSUME NEW t \in Tokens, t.kind = "string", NEW i \in Nat, NEW j \in Nat,
           i >= 1, j <= Len(t.text) - 2, i <= j + 1, NEW b \in BOOLEAN
    PROVE  /\ HalfOf(t, i, j, b) \in Tokens /\ HalfOf(t, i, j, b).kind = "string"
           /\ HalfOf(t, i, j, b).text = Half(t.text, "q", i, j) /\ HalfOf(t, i, j, b).blank = b
<1> DEFINE x == Half(t.text, "q", i, j)
           h == [t EXCEPT !.text = x, !.blank = b]
<1>1. t \in [kind : TokenKinds, text : Seq(Cells), blank : BOOLEAN] /\ t.text \in Seq(Cells)
  BY TokenFacts, Zenon
<1>2. "q" \in Cells
  BY DEF Cells
<1>3. x \in Seq(Cells) /\ Len(x) = (j - i) + 3 /\ x[1] = "q" /\ x[(j - i) + 3] = "q"
  BY <1>1, <1>2, HalfIs
<1> HIDE DEF x
<1>4. (j - i) + 3 > 1 /\ (j - i) + 3 > 0
  OBVIOUS
<1>5. /\ h \in [kind : TokenKinds, text : Seq(Cells), blank : BOOLEAN]
      /\ h.kind = "string" /\ h.text = x /\ h.blank = b
  BY <1>1, <1>3
<1> HIDE DEF h
<1>6. h.kind # "=" /\ "q" # "_" /\ "q" # "&"
  BY <1>5
<1>7. h \in Tokens
  BY <1>3, <1>4, <1>5, <1>6, IsToken, Zenon
<1> QED BY <1>5, <1>7, Zenon DEF HalfOf, h, x

LEMMA ConcatFacts == Concat \in Tokens /\ Concat.kind = "//" /\ Len(Concat.text) = 2 /\ Concat.blank
<1>1. "/" \in Cells
  BY DEF Cells
<1>2. <<"/", "/">> \in Seq(Cells) /\ Len(<<"/", "/">>) = 2 /\ <<"/", "/">>[1] = "/" /\ <<"/", "/">>[2] = "/"
  BY <1>1
<1>3. /\ Concat \in [kind : TokenKinds, text : Seq(Cells), blank : BOOLEAN]
      /\ Concat.kind = "//" /\ Concat.text = <<"/", "/">> /\ Concat.blank
  BY <1>2, StringKind DEF Concat
<1>4. "/" # "_" /\ "/" # "&" /\ 2 > 0 /\ Concat.kind # "string" /\ Concat.kind # "="
  BY <1>3
<1>5. Concat \in Tokens
  BY <1>2, <1>3, <1>4, IsToken, Zenon
<1> QED BY <1>2, <1>3, <1>5, Zenon

LEMMA HalvesAreTokens ==
    ASSUME NEW t \in Tokens, t.kind = "string", NEW n \in Nat, n >= 1, n <= Len(t.text) - 2
    PROVE  /\ FirstHalf(t, n) \in Tokens /\ FirstHalf(t, n).kind = "string"
           /\ FirstHalf(t, n).text = Half(t.text, "q", 1, n) /\ FirstHalf(t, n).blank = t.blank
           /\ SecondHalf(t, n) \in Tokens /\ SecondHalf(t, n).kind = "string"
           /\ SecondHalf(t, n).text = Half(t.text, "q", n + 1, Len(t.text) - 2)
           /\ ~SecondHalf(t, n).blank
<1>1. t.text \in Seq(Cells) /\ t.blank \in BOOLEAN
  BY TokenFacts, Zenon
<1>2. PICK m \in Nat : m = Len(t.text)
  BY <1>1, NotEmpty, Zenon
<1>3. /\ 1 \in Nat /\ 1 >= 1 /\ n <= m - 2 /\ 1 <= n + 1
      /\ n + 1 \in Nat /\ m - 2 \in Nat /\ n + 1 >= 1 /\ m - 2 <= m - 2 /\ n + 1 <= (m - 2) + 1
  BY <1>2
<1>4. FALSE \in BOOLEAN
  OBVIOUS
<1>5. /\ FirstHalf(t, n) \in Tokens /\ FirstHalf(t, n).kind = "string"
      /\ FirstHalf(t, n).text = Half(t.text, "q", 1, n) /\ FirstHalf(t, n).blank = t.blank
  BY <1>1, <1>2, <1>3, TokenHalf DEF FirstHalf
<1>6. /\ SecondHalf(t, n) \in Tokens /\ SecondHalf(t, n).kind = "string"
      /\ SecondHalf(t, n).text = Half(t.text, "q", n + 1, Len(t.text) - 2)
      /\ SecondHalf(t, n).blank = FALSE
  <2>1. PICK i \in Nat, j \in Nat : i = n + 1 /\ j = m - 2 /\ i >= 1 /\ j <= m - 2 /\ i <= j + 1
    BY <1>3
  <2> DEFINE h == HalfOf(t, i, j, FALSE)
  <2>2. h \in Tokens /\ h.kind = "string" /\ h.text = Half(t.text, "q", i, j) /\ h.blank = FALSE
    <3>1. i >= 1 /\ j <= Len(t.text) - 2 /\ i <= j + 1
      BY <1>2, <2>1, Zenon
    <3> QED BY <1>4, <3>1, TokenHalf, Zenon
  <2>3. SecondHalf(t, n) = h
    BY <1>2, <2>1, Zenon DEF SecondHalf
  <2> HIDE DEF h
  <2> QED BY <1>2, <2>1, <2>2, <2>3, Zenon
<1> QED BY <1>5, <1>6

\* What a literal and its halves read as.
LEMMA HalvesRead ==
    ASSUME NEW t \in Tokens, t.kind = "string", NEW n \in Nat, n >= 1, n <= Len(t.text) - 2
    PROVE  /\ Longer(FirstHalf(t, n), SecondHalf(t, n)) = t
           /\ \A p \in Tokens : p.kind = "string" =>
                 Longer(Longer(p, FirstHalf(t, n)), SecondHalf(t, n)) = Longer(p, t)
<1> DEFINE a == FirstHalf(t, n)
           b == SecondHalf(t, n)
<1>1. /\ a \in Tokens /\ a.kind = "string" /\ a.text = Half(t.text, "q", 1, n) /\ a.blank = t.blank
      /\ b \in Tokens /\ b.kind = "string" /\ b.text = Half(t.text, "q", n + 1, Len(t.text) - 2)
  BY HalvesAreTokens, Zenon
<1>2. "q" \in Cells /\ t.text \in Seq(Cells) /\ QuotedBy(t.text, "q")
  <2>1. "q" \in Cells
    BY DEF Cells
  <2> QED BY <2>1, TokenFacts, Zenon DEF QuotedBy
<1>3. /\ Front(a.text) \o Tail(b.text) = t.text
      /\ \A f \in Seq(Cells) : Front(f \o Tail(a.text)) \o Tail(b.text) = f \o Tail(t.text)
  <2>1. /\ Front(Half(t.text, "q", 1, n)) \o Tail(Half(t.text, "q", n + 1, Len(t.text) - 2)) = t.text
        /\ \A f \in Seq(Cells) :
              Front(f \o Tail(Half(t.text, "q", 1, n)))
                \o Tail(Half(t.text, "q", n + 1, Len(t.text) - 2)) = f \o Tail(t.text)
    <3>1. PICK x \in Seq(Cells), e \in Cells : x = t.text /\ e = "q"
      BY <1>2
    <3>2. QuotedBy(x, e) /\ n <= Len(x) - 2
      BY <1>2, <3>1, Zenon
    <3>3. Rejoins(Cells, x, e, n)
      BY <3>2, Halves
    <3> QED BY <3>1, <3>3, Zenon DEF Rejoins
  <2> QED BY <1>1, <2>1, Zenon
<1> HIDE DEF a, b
<1>4. Longer(a, b) = t
  <2>1. Longer(a, b).text = t.text /\ Longer(a, b).kind = t.kind /\ Longer(a, b).blank = t.blank
    BY <1>1, <1>3, LongerIsToken, Zenon
  <2>2. Longer(a, b) \in Tokens
    BY <1>1, LongerIsToken, Zenon
  <2>3. /\ Longer(a, b) \in [kind : TokenKinds, text : Seq(Cells), blank : BOOLEAN]
        /\ t \in [kind : TokenKinds, text : Seq(Cells), blank : BOOLEAN]
    BY <2>2, TokenFacts, Zenon
  <2> QED BY <2>1, <2>3
<1>5. ASSUME NEW p \in Tokens, p.kind = "string" PROVE Longer(Longer(p, a), b) = Longer(p, t)
  <2>1. /\ Longer(p, a) \in Tokens /\ Longer(p, a).kind = "string" /\ Longer(p, a).blank = p.blank
        /\ Longer(p, a).text = Front(p.text) \o Tail(a.text)
        /\ Longer(p, t) \in Tokens /\ Longer(p, t).kind = "string" /\ Longer(p, t).blank = p.blank
        /\ Longer(p, t).text = Front(p.text) \o Tail(t.text)
    BY <1>1, <1>5, LongerIsToken, Zenon
  <2> DEFINE l == Longer(Longer(p, a), b)
  <2>2. /\ l \in Tokens /\ l.kind = "string" /\ l.blank = p.blank
        /\ l.text = Front(Longer(p, a).text) \o Tail(b.text)
    BY <1>1, <2>1, LongerIsToken, Zenon
  <2>3. Front(p.text) \in Seq(Cells)
    <3>1. p.text \in Seq(Cells) /\ Len(p.text) > 0
      BY TokenFacts, Zenon
    <3> QED BY <3>1 DEF Front
  <2>4. l.text = Longer(p, t).text
    BY <1>3, <2>1, <2>2, <2>3, Zenon
  <2> HIDE DEF l
  <2>5. /\ l \in [kind : TokenKinds, text : Seq(Cells), blank : BOOLEAN]
        /\ Longer(p, t) \in [kind : TokenKinds, text : Seq(Cells), blank : BOOLEAN]
    BY <2>1, <2>2, TokenFacts, Zenon
  <2>6. l.kind = Longer(p, t).kind /\ l.blank = Longer(p, t).blank
    BY <2>1, <2>2, Zenon
  <2>7. l = Longer(p, t)
    BY <2>4, <2>5, <2>6
  <2> QED BY <2>7 DEF l
<1> QED BY <1>4, <1>5 DEF a, b

LEMMA RejoinCases ==
    ASSUME NEW acc, NEW t
    PROVE  /\ ~Resumes(acc, t) => Rejoin(acc, t) = Append(acc, t)
           /\ Resumes(acc, t) =>
                 Rejoin(acc, t) = Append(SubSeq(acc, 1, Len(acc) - 2), Longer(acc[Len(acc) - 1], t))
BY DEF Rejoin, Longer

LEMMA PrefixIs ==
    ASSUME NEW T, NEW s \in Seq(T), NEW c \in Seq(T), Len(s) <= Len(c),
           \A k \in 1..Len(s) : c[k] = s[k]
    PROVE  SubSeq(c, 1, Len(s)) = s
<1> DEFINE n == Len(s)
           d == SubSeq(c, 1, n)
<1>1. n \in Nat
  OBVIOUS
<1>2. \A k \in 1..n : c[k] \in T
  OBVIOUS
<1> HIDE DEF n
<1>3. d \in Seq(T) /\ Len(d) = (IF 1 <= n THEN n - 1 + 1 ELSE 0) /\ \A k \in 1..n - 1 + 1 : d[k] = c[1 + k - 1]
  BY <1>1, <1>2, SubSeqProperties
<1> HIDE DEF d
<1>4. \A k \in 1..n : d[k] = c[k]
  BY <1>1, <1>3
<1>5. Len(d) = n
  BY <1>1, <1>3
<1>6. d = s
  BY <1>3, <1>4, <1>5, SeqEqual DEF n
<1> QED BY <1>6 DEF d, n

\* A literal that follows a // that follows a literal.
LEMMA Resumed ==
    ASSUME NEW s \in Seq(Tokens), NEW x \in Tokens, NEW t \in Tokens,
           x.kind = "string", t.kind = "string"
    PROVE  Rejoin(Append(Append(s, x), Concat), t) = Append(s, Longer(x, t))
<1> DEFINE a == Append(s, x)
           c == Append(a, Concat)
           n == Len(s)
<1>1. n \in Nat /\ a \in Seq(Tokens) /\ Len(a) = n + 1 /\ a[n + 1] = x
  OBVIOUS
<1>2. Concat \in Tokens /\ Concat.kind = "//"
  BY ConcatFacts
<1> HIDE DEF a
<1>3. c \in Seq(Tokens) /\ Len(c) = n + 2 /\ c[n + 2] = Concat /\ c[n + 1] = x
  BY <1>1, <1>2
<1>4. SubSeq(c, 1, n) = s
  <2>1. \A k \in 1..n : c[k] = s[k]
    BY <1>1, <1>2 DEF a
  <2> QED BY <1>1, <1>3, <2>1, PrefixIs
<1> HIDE DEF c
<1>5. Resumes(c, t)
  <2>1. n + 2 > 1 /\ (n + 2) - 1 = n + 1
    BY <1>1
  <2> QED BY <1>2, <1>3, <2>1, Zenon DEF Resumes
<1>6. (n + 2) - 1 = n + 1 /\ (n + 2) - 2 = n
  BY <1>1
<1>7. Rejoin(c, t) = Append(s, Longer(x, t))
  <2>1. Rejoin(c, t) = Append(SubSeq(c, 1, Len(c) - 2), Longer(c[Len(c) - 1], t))
    BY <1>5, RejoinCases, Zenon
  <2>2. Len(c) - 2 = n /\ Len(c) - 1 = n + 1
    BY <1>3, <1>6, Zenon
  <2> QED BY <1>3, <1>4, <2>1, <2>2, Zenon
<1> QED BY <1>7 DEF c, a

LEMMA SplitReads ==
    ASSUME NEW t \in Tokens, t.kind = "string", NEW n \in Nat, n >= 1, n <= Len(t.text) - 2,
           NEW p \in Seq(Tokens)
    PROVE  Rejoined(Append(Append(Append(p, FirstHalf(t, n)), Concat), SecondHalf(t, n)))
               = Rejoined(Append(p, t))
<1> DEFINE a == FirstHalf(t, n)
           b == SecondHalf(t, n)
           acc == Rejoined(p)
<1>1. a \in Tokens /\ a.kind = "string" /\ b \in Tokens /\ b.kind = "string"
  BY HalvesAreTokens, Zenon
<1>2. acc \in Seq(Tokens) /\ Concat \in Tokens /\ Concat.kind # "string"
  BY RejoinedType, ConcatFacts
<1>3. Longer(a, b) = t /\ \A q \in Tokens : q.kind = "string" => Longer(Longer(q, a), b) = Longer(q, t)
  BY HalvesRead, Zenon
<1> HIDE DEF a, b, acc
<1>4. Rejoined(Append(p, t)) = Rejoin(acc, t)
  BY JoinAppend, Zenon DEF acc
<1>5. Rejoined(Append(Append(Append(p, a), Concat), b)) = Rejoin(Rejoin(Rejoin(acc, a), Concat), b)
  <2>1. Append(p, a) \in Seq(Tokens) /\ Append(Append(p, a), Concat) \in Seq(Tokens)
    BY <1>1, <1>2, AppendProperties
  <2> QED BY <1>1, <1>2, <2>1, JoinAppend, Zenon DEF acc
<1>6. \A c : Rejoin(c, Concat) = Append(c, Concat)
  BY <1>2, RejoinCases, Zenon DEF Resumes
<1>7. CASE Resumes(acc, t)
  <2> DEFINE m == Len(acc)
             s == SubSeq(acc, 1, m - 2)
             q == acc[m - 1]
  <2>1. Resumes(acc, a)
    BY <1>1, <1>7, Zenon DEF Resumes
  <2>2. m \in Nat /\ m > 1 /\ q \in Tokens /\ q.kind = "string" /\ s \in Seq(Tokens)
    <3>1. m > 1 /\ q.kind = "string"
      BY <1>7, Zenon DEF Resumes
    <3>2. m \in Nat
      BY <1>2
    <3>3. m - 1 \in 1..m /\ \A k \in 1..m - 2 : k \in 1..m
      BY <3>1, <3>2
    <3>4. q \in Tokens /\ \A k \in 1..m - 2 : acc[k] \in Tokens
      BY <1>2, <3>3, ElementOfSeq
    <3>5. s \in Seq(Tokens)
      BY <3>2, <3>4, SubSeqProperties
    <3> QED BY <3>1, <3>2, <3>4, <3>5
  <2> HIDE DEF m, s, q
  <2>3. Rejoin(acc, a) = Append(s, Longer(q, a)) /\ Rejoin(acc, t) = Append(s, Longer(q, t))
    BY <1>7, <2>1, RejoinCases, Zenon DEF m, s, q
  <2>4. Longer(q, a) \in Tokens /\ Longer(q, a).kind = "string"
    BY <1>1, <2>2, LongerIsToken, Zenon
  <2>5. Rejoin(Append(Append(s, Longer(q, a)), Concat), b) = Append(s, Longer(Longer(q, a), b))
    BY <1>1, <2>2, <2>4, Resumed, Zenon
  <2>6. Longer(Longer(q, a), b) = Longer(q, t)
    BY <1>3, <2>2, Zenon
  <2>7. Rejoined(Append(Append(Append(p, a), Concat), b)) = Rejoined(Append(p, t))
    BY <1>4, <1>5, <1>6, <2>3, <2>5, <2>6, Zenon
  <2> QED BY <2>7 DEF a, b
<1>8. CASE ~Resumes(acc, t)
  <2>1. ~Resumes(acc, a)
    BY <1>1, <1>8, Zenon DEF Resumes
  <2>2. Rejoin(acc, a) = Append(acc, a) /\ Rejoin(acc, t) = Append(acc, t)
    BY <1>8, <2>1, RejoinCases, Zenon
  <2>3. Rejoin(Append(Append(acc, a), Concat), b) = Append(acc, Longer(a, b))
    BY <1>1, <1>2, Resumed, Zenon
  <2>4. Rejoined(Append(Append(Append(p, a), Concat), b)) = Rejoined(Append(p, t))
    BY <1>3, <1>4, <1>5, <1>6, <2>2, <2>3, Zenon
  <2> QED BY <2>4 DEF a, b
<1> QED BY <1>7, <1>8

-----------------------------------------------------------------------------
(* A scan, cell by cell *)

ScanFirst(state) == [stack |-> state.stack, quote |-> state.quote,
                     indent |-> state.prev_indent, comment |-> FALSE]
ScanStage(state, cells, target, w, i) ==
    IF i = 0 THEN ScanFirst(state)
    ELSE ScanCell(w[i - 1], cells[i], ScanOrigin(state, target) + i - 1, ScanStart(state, target))
IsScan(state, cells, target, m, w) == w = [i \in 0..m |-> ScanStage(state, cells, target, w, i)]

LEMMA ScanExists ==
    ASSUME NEW state, NEW cells, NEW target, NEW m \in Nat
    PROVE  \E w : IsScan(state, cells, target, m, w)
<1> DEFINE Z == {n \in 0..m : \E w : IsScan(state, cells, target, n, w)}
           Stage(w, i) == ScanStage(state, cells, target, w, i)
<1>1. 0 \in Z
  <2> DEFINE w == [i \in 0..0 |-> ScanFirst(state)]
  <2>1. w = [i \in 0..0 |-> Stage(w, i)]
    BY DEF ScanStage
  <2>2. 0 \in 0..m
    OBVIOUS
  <2> QED BY <2>1, <2>2, Zenon DEF IsScan
<1>2. ASSUME NEW n \in 0..m, n < m, n \in Z PROVE n + 1 \in Z
  <2>1. PICK w : w = [i \in 0..n |-> Stage(w, i)]
    BY <1>2, Zenon DEF IsScan
  <2> DEFINE v == [i \in 0..(n + 1) |-> IF i = n + 1 THEN Stage(w, n + 1) ELSE w[i]]
  <2>2. \A i \in 0..n : w[i] = Stage(w, i)
    BY <2>1, Zenon
  <2>3. \A i \in 0..n : v[i] = w[i]
    OBVIOUS
  <2>4. v[n + 1] = Stage(w, n + 1)
    <3>1. n + 1 \in 0..(n + 1)
      OBVIOUS
    <3> QED BY <3>1, Zenon
  <2>5. ASSUME NEW i \in 0..(n + 1) PROVE v[i] = Stage(v, i)
    <3>1. i = 0 \/ (i - 1 \in 0..n /\ (i - 1) + 1 = i)
      OBVIOUS
    <3>2. i = 0 \/ v[i - 1] = w[i - 1]
      BY <2>3, <3>1
    <3>3. i \in 0..n \/ i = n + 1
      OBVIOUS
    <3>4. v[i] = Stage(w, i)
      <4> HIDE DEF v
      <4> QED BY <2>2, <2>3, <2>4, <3>3, Zenon
    <3> HIDE DEF v
    <3>5. Stage(w, i) = Stage(v, i)
      BY <3>2, Zenon DEF ScanStage
    <3> QED BY <3>4, <3>5, Zenon
  <2>6. v = [i \in 0..(n + 1) |-> Stage(v, i)]
    <3>1. v = [i \in 0..(n + 1) |-> v[i]]
      OBVIOUS
    <3> HIDE DEF v
    <3> QED BY <2>5, <3>1, Zenon
  <2>7. n + 1 \in 0..m
    BY <1>2
  <2> HIDE DEF v
  <2> QED BY <2>6, <2>7, Zenon DEF IsScan
<1>3. 0..m \subseteq Z
  <2> HIDE DEF Z
  <2> QED BY <1>1, <1>2, UpTo
<1>4. m \in Z
  BY <1>3
<1> QED BY <1>4

LEMMA ScanIs ==
    ASSUME NEW state, NEW cells, NEW target, Len(cells) \in Nat
    PROVE  \E w : /\ IsScan(state, cells, target, Len(cells), w)
                  /\ Scan(state, cells, target)
                         = [stack |-> w[Len(cells)].stack, quote |-> w[Len(cells)].quote,
                            prev_indent |-> w[Len(cells)].indent,
                            start_indent |-> ScanStart(state, target)]
<1> DEFINE c == CHOOSE w : w = [i \in 0..Len(cells) |->
                   IF i = 0 THEN [stack |-> state.stack, quote |-> state.quote,
                                  indent |-> state.prev_indent, comment |-> FALSE]
                   ELSE ScanCell(w[i - 1], cells[i], ScanOrigin(state, target) + i - 1,
                                 ScanStart(state, target))]
<1>1. \E w : w = [i \in 0..Len(cells) |->
                   IF i = 0 THEN [stack |-> state.stack, quote |-> state.quote,
                                  indent |-> state.prev_indent, comment |-> FALSE]
                   ELSE ScanCell(w[i - 1], cells[i], ScanOrigin(state, target) + i - 1,
                                 ScanStart(state, target))]
  <2>1. PICK w : IsScan(state, cells, target, Len(cells), w)
    BY ScanExists, Zenon
  <2> QED BY <2>1, Zenon DEF IsScan, ScanStage, ScanFirst
<1>2. c = [i \in 0..Len(cells) |->
                   IF i = 0 THEN [stack |-> state.stack, quote |-> state.quote,
                                  indent |-> state.prev_indent, comment |-> FALSE]
                   ELSE ScanCell(c[i - 1], cells[i], ScanOrigin(state, target) + i - 1,
                                 ScanStart(state, target))]
  BY <1>1, Zenon
<1>3. IsScan(state, cells, target, Len(cells), c)
  <2> HIDE DEF c
  <2> QED BY <1>2, Zenon DEF IsScan, ScanStage, ScanFirst
<1>4. Scan(state, cells, target)
        = [stack |-> c[Len(cells)].stack, quote |-> c[Len(cells)].quote,
           prev_indent |-> c[Len(cells)].indent, start_indent |-> ScanStart(state, target)]
  BY Zenon DEF Scan
<1> HIDE DEF c
<1> QED BY <1>3, <1>4, Zenon

Openings == [alignment : Nat, first_item_seen : BOOLEAN]
\* ParenAlignmentState between two lines, and within one.
ScanStates == [stack : Seq(Openings), quote : BOOLEAN, prev_indent : Nat, start_indent : Int]
Accs       == [stack : Seq(Openings), quote : BOOLEAN, indent : Nat, comment : BOOLEAN]

LEMMA FirstItemIs ==
    ASSUME NEW acc \in Accs, NEW position \in Nat
    PROVE  /\ FirstItem(acc, position) \in Accs
           /\ FirstItem(acc, position).quote = acc.quote
           /\ FirstItem(acc, position).comment = acc.comment
           /\ acc.stack = <<>> \/ Top(acc.stack).first_item_seen => FirstItem(acc, position) = acc
           /\ ~(acc.stack = <<>> \/ Top(acc.stack).first_item_seen) =>
                 /\ FirstItem(acc, position).indent = position
                 /\ FirstItem(acc, position).stack =
                       [acc.stack EXCEPT ![Len(acc.stack)] =
                            [alignment |-> position, first_item_seen |-> TRUE]]
<1>1. acc.stack \in Seq(Openings)
  BY DEF Accs
<1>2. CASE acc.stack = <<>> \/ Top(acc.stack).first_item_seen
  BY <1>2 DEF FirstItem
<1>3. CASE ~(acc.stack = <<>> \/ Top(acc.stack).first_item_seen)
  <2> DEFINE n == Len(acc.stack)
             r == [alignment |-> position, first_item_seen |-> TRUE]
             s == [acc.stack EXCEPT ![n] = r]
  <2>1. n \in 1..Len(acc.stack) /\ r \in Openings
    BY <1>1, <1>3, NotEmpty DEF Openings
  <2>2. s \in Seq(Openings)
    BY <1>1, <2>1
  <2>3. FirstItem(acc, position) = [[acc EXCEPT !.stack = s] EXCEPT !.indent = position]
    BY <1>3 DEF FirstItem, Accs
  <2> HIDE DEF s
  <2>4. /\ FirstItem(acc, position) \in Accs
        /\ FirstItem(acc, position).stack = s /\ FirstItem(acc, position).indent = position
        /\ FirstItem(acc, position).quote = acc.quote
        /\ FirstItem(acc, position).comment = acc.comment
    BY <2>2, <2>3 DEF Accs
  <2> QED BY <1>3, <2>4 DEF s
<1> QED BY <1>2, <1>3

\* The open delimiters once another one opens: the one outside of it has an item.
Held(stack) == IF stack = <<>> THEN stack ELSE [stack EXCEPT ![Len(stack)].first_item_seen = TRUE]

LEMMA HeldIs ==
    ASSUME NEW s \in Seq(Openings)
    PROVE  /\ Held(s) \in Seq(Openings) /\ Len(Held(s)) = Len(s)
           /\ \A i \in 1..Len(s) :
                 /\ Held(s)[i].alignment = s[i].alignment
                 /\ Held(s)[i].first_item_seen = (i = Len(s) \/ s[i].first_item_seen)
<1>1. CASE s = <<>>
  BY <1>1, EmptySeq DEF Held
<1>2. CASE s # <<>>
  <2> DEFINE n == Len(s)
  <2>1. n \in 1..Len(s) /\ s[n] \in Openings
    BY <1>2, NotEmpty
  <2> DEFINE r == [s[n] EXCEPT !.first_item_seen = TRUE]
             h == [s EXCEPT ![n] = r]
  <2>2. r \in Openings /\ r.alignment = s[n].alignment /\ r.first_item_seen = TRUE
    BY <2>1 DEF Openings
  <2>3. Held(s) = h
    BY <1>2 DEF Held
  <2> HIDE DEF r
  <2>4. /\ h \in Seq(Openings) /\ Len(h) = Len(s)
        /\ \A j \in 1..Len(s) : h[j] = IF j = n THEN r ELSE s[j]
    BY <2>1, <2>2, ExceptSeq
  <2> HIDE DEF h
  <2>5. \A j \in 1..Len(s) : s[j].first_item_seen \in BOOLEAN
    <3>1. \A j \in 1..Len(s) : s[j] \in Openings
      OBVIOUS
    <3> QED BY <3>1 DEF Openings
  <2>6. ASSUME NEW i \in 1..Len(s)
        PROVE  /\ h[i].alignment = s[i].alignment
               /\ h[i].first_item_seen = (i = Len(s) \/ s[i].first_item_seen)
    <3>1. CASE i = n
      BY <2>2, <2>4, <3>1
    <3>2. CASE i # n
      <4>1. h[i] = s[i]
        BY <2>4, <3>2
      <4> QED BY <2>5, <3>2, <4>1
    <3> QED BY <3>1, <3>2
  <2> QED BY <2>3, <2>4, <2>6
<1> QED BY <1>1, <1>2

LEMMA OpenedIs ==
    ASSUME NEW acc \in Accs, NEW position \in Nat
    PROVE  /\ Opened(acc, position) \in Accs
           /\ Opened(acc, position).quote = acc.quote
           /\ Opened(acc, position).comment = acc.comment
           /\ Opened(acc, position).indent = position
           /\ Opened(acc, position).stack =
                 Append(Held(acc.stack), [alignment |-> position, first_item_seen |-> FALSE])
<1> DEFINE r == [alignment |-> position, first_item_seen |-> FALSE]
           s == Append(Held(acc.stack), r)
<1>1. acc.stack \in Seq(Openings) /\ r \in Openings
  BY DEF Accs, Openings
<1>2. s \in Seq(Openings)
  BY <1>1, HeldIs, AppendProperties
<1>3. Opened(acc, position) = [[acc EXCEPT !.indent = position] EXCEPT !.stack = s]
  BY DEF Opened, Held, Accs
<1> HIDE DEF s
<1>4. /\ Opened(acc, position) \in Accs
      /\ Opened(acc, position).stack = s /\ Opened(acc, position).indent = position
      /\ Opened(acc, position).quote = acc.quote
      /\ Opened(acc, position).comment = acc.comment
  BY <1>2, <1>3 DEF Accs
<1> QED BY <1>4 DEF s

Shorter(stack) == IF stack = <<>> THEN <<>> ELSE Front(stack)

LEMMA ShorterIs ==
    ASSUME NEW s \in Seq(Openings)
    PROVE  /\ Shorter(s) \in Seq(Openings)
           /\ Len(Shorter(s)) = IF Len(s) = 0 THEN 0 ELSE Len(s) - 1
           /\ \A i \in 1..Len(Shorter(s)) : Shorter(s)[i] = s[i]
<1>1. CASE s = <<>>
  BY <1>1, EmptySeq DEF Shorter
<1>2. CASE s # <<>>
  <2> DEFINE n == Len(s)
             f == SubSeq(s, 1, n - 1)
  <2>1. n \in Nat /\ n > 0 /\ \A i \in 1..n : s[i] \in Openings
    BY <1>2, NotEmpty
  <2>2. Shorter(s) = f
    BY <1>2 DEF Shorter, Front
  <2> HIDE DEF n
  <2>3. \A i \in 1..n - 1 : s[i] \in Openings
    BY <2>1
  <2>4. /\ f \in Seq(Openings) /\ Len(f) = IF 1 <= n - 1 THEN (n - 1) - 1 + 1 ELSE 0
        /\ \A i \in 1..(n - 1) - 1 + 1 : f[i] = s[1 + i - 1]
    BY <2>1, <2>3, SubSeqProperties
  <2> HIDE DEF f
  <2>5. Len(f) = n - 1 /\ \A i \in 1..n - 1 : f[i] = s[i]
    BY <2>1, <2>4
  <2>6. Len(f) = IF n = 0 THEN 0 ELSE n - 1
    BY <2>1, <2>5
  <2> QED BY <2>2, <2>4, <2>5, <2>6, Zenon DEF n
<1> QED BY <1>1, <1>2

LEMMA ClosedIs ==
    ASSUME NEW acc \in Accs, NEW start \in Nat
    PROVE  /\ Closed(acc, start) \in Accs
           /\ Closed(acc, start).quote = acc.quote
           /\ Closed(acc, start).comment = acc.comment
           /\ Closed(acc, start).stack = Shorter(acc.stack)
           /\ Closed(acc, start).indent = IF Shorter(acc.stack) = <<>> THEN start
                                          ELSE Top(Shorter(acc.stack)).alignment
<1> DEFINE s == Shorter(acc.stack)
           d == IF s = <<>> THEN start ELSE Top(s).alignment
<1>1. s \in Seq(Openings)
  BY ShorterIs DEF Accs
<1>2. d \in Nat
  <2> HIDE DEF s
  <2>1. CASE s = <<>>
    BY <2>1
  <2>2. CASE s # <<>>
    <3>1. Len(s) \in 1..Len(s)
      BY <1>1, <2>2, NotEmpty
    <3>2. s[Len(s)] \in Openings
      BY <1>1, <3>1, ElementOfSeq
    <3> QED BY <2>2, <3>2 DEF Top, Openings
  <2> QED BY <2>1, <2>2
<1>3. Closed(acc, start) = [[acc EXCEPT !.stack = s] EXCEPT !.indent = d]
  BY DEF Closed, Shorter
<1> HIDE DEF s, d
<1>4. /\ Closed(acc, start) \in Accs
      /\ Closed(acc, start).stack = s /\ Closed(acc, start).indent = d
      /\ Closed(acc, start).quote = acc.quote
      /\ Closed(acc, start).comment = acc.comment
  BY <1>1, <1>2, <1>3 DEF Accs
<1> QED BY <1>4 DEF s, d

Toggled(acc)   == [acc EXCEPT !.quote = ~@]
Commented(acc) == [acc EXCEPT !.comment = TRUE]

LEMMA MarkedIs ==
    ASSUME NEW acc \in Accs
    PROVE  /\ Toggled(acc) \in Accs /\ Toggled(acc).stack = acc.stack
           /\ Toggled(acc).indent = acc.indent /\ Toggled(acc).comment = acc.comment
           /\ Toggled(acc).quote = ~acc.quote
           /\ Commented(acc) \in Accs /\ Commented(acc).stack = acc.stack
           /\ Commented(acc).indent = acc.indent /\ Commented(acc).comment = TRUE
           /\ Commented(acc).quote = acc.quote
BY DEF Accs, Toggled, Commented

\* What a cell does, by the cell and by where it stands.
Does(acc, cell) ==
    IF acc.comment \/ (acc.quote /\ cell # "q") THEN "nothing"
    ELSE IF cell = "q" THEN (IF acc.quote THEN "unquote" ELSE "quote")
    ELSE IF cell = "!" THEN "comment"
    ELSE IF cell = "(" THEN "open"
    ELSE IF cell = ")" THEN "close"
    ELSE IF cell \in {"_", "/"} THEN "nothing" ELSE "item"

Done(acc, deed, position, start) ==
    IF deed = "nothing" THEN acc
    ELSE IF deed = "unquote" THEN Toggled(acc)
    ELSE IF deed = "quote" THEN Toggled(FirstItem(acc, position))
    ELSE IF deed = "comment" THEN Commented(acc)
    ELSE IF deed = "open" THEN Opened(acc, position)
    ELSE IF deed = "close" THEN Closed(acc, start)
    ELSE FirstItem(acc, position)

LEMMA ScanCellDoes ==
    ASSUME NEW acc, NEW cell, NEW position, NEW start
    PROVE  ScanCell(acc, cell, position, start) = Done(acc, Does(acc, cell), position, start)
<1>1. CASE acc.comment \/ (acc.quote /\ cell # "q")
  <2>1. Does(acc, cell) = "nothing"
    BY <1>1, Zenon DEF Does
  <2> QED BY <1>1, <2>1, Zenon DEF ScanCell, Done
<1> DEFINE busy == acc.comment \/ (acc.quote /\ cell # "q")
<1>2. CASE ~busy /\ cell = "q" /\ acc.quote
  <2>1. Does(acc, cell) = "unquote"
    BY <1>2, Zenon DEF Does
  <2>2. ScanCell(acc, cell, position, start) = Toggled(acc)
    BY <1>2 DEF ScanCell, Toggled
  <2> QED BY <2>1, <2>2 DEF Done
<1>3. CASE ~busy /\ cell = "q" /\ ~acc.quote
  <2>1. Does(acc, cell) = "quote"
    BY <1>3, Zenon DEF Does
  <2>2. ScanCell(acc, cell, position, start) = Toggled(FirstItem(acc, position))
    BY <1>3 DEF ScanCell, Toggled
  <2> QED BY <2>1, <2>2 DEF Done
<1>4. CASE ~busy /\ cell = "!"
  <2>1. Does(acc, cell) = "comment"
    BY <1>4 DEF Does
  <2>2. ScanCell(acc, cell, position, start) = Commented(acc)
    BY <1>4 DEF ScanCell, Commented
  <2> QED BY <2>1, <2>2 DEF Done
<1>5. CASE ~busy /\ cell = "("
  <2>1. Does(acc, cell) = "open"
    BY <1>5 DEF Does
  <2>2. ScanCell(acc, cell, position, start) = Opened(acc, position)
    BY <1>5 DEF ScanCell
  <2> QED BY <2>1, <2>2 DEF Done
<1>6. CASE ~busy /\ cell = ")"
  <2>1. Does(acc, cell) = "close"
    BY <1>6 DEF Does
  <2>2. ScanCell(acc, cell, position, start) = Closed(acc, start)
    BY <1>6 DEF ScanCell
  <2> QED BY <2>1, <2>2 DEF Done
<1>7. CASE ~busy /\ cell \in {"_", "/"}
  <2>1. Does(acc, cell) = "nothing"
    BY <1>7 DEF Does
  <2>2. ScanCell(acc, cell, position, start) = acc
    BY <1>7 DEF ScanCell
  <2> QED BY <2>1, <2>2 DEF Done
<1>8. CASE ~busy /\ cell \notin {"q", "!", "(", ")", "_", "/"}
  <2>1. Does(acc, cell) = "item"
    BY <1>8 DEF Does
  <2>2. ScanCell(acc, cell, position, start) = FirstItem(acc, position)
    BY <1>8 DEF ScanCell
  <2> QED BY <2>1, <2>2 DEF Done
<1> QED BY <1>1, <1>2, <1>3, <1>4, <1>5, <1>6, <1>7, <1>8

Deeds == {"nothing", "unquote", "quote", "comment", "open", "close", "item"}

LEMMA DoesType == \A acc, cell : Does(acc, cell) \in Deeds
BY DEF Does, Deeds

LEMMA DoneType ==
    ASSUME NEW acc \in Accs, NEW deed \in Deeds, NEW position \in Nat, NEW start \in Nat
    PROVE  Done(acc, deed, position, start) \in Accs
<1>1. /\ FirstItem(acc, position) \in Accs /\ Toggled(acc) \in Accs /\ Commented(acc) \in Accs
      /\ Opened(acc, position) \in Accs /\ Closed(acc, start) \in Accs
  BY FirstItemIs, MarkedIs, OpenedIs, ClosedIs
<1>2. Toggled(FirstItem(acc, position)) \in Accs
  BY <1>1, MarkedIs
<1> QED BY <1>1, <1>2, Zenon DEF Done

LEMMA ScanRules ==
    ASSUME NEW state \in ScanStates, NEW target \in Nat
    PROVE  /\ ScanFirst(state) \in Accs
           /\ ScanOrigin(state, target) \in Nat /\ ScanStart(state, target) \in Nat
BY DEF ScanStates, Accs, ScanFirst, ScanOrigin, ScanStart

LEMMA ScanSteps ==
    ASSUME NEW state \in ScanStates, NEW cells, NEW m \in Nat, NEW target \in Nat, NEW w,
           IsScan(state, cells, target, m, w)
    PROVE  /\ w[0] = ScanFirst(state)
           /\ \A i \in 0..m : w[i] \in Accs
           /\ \A i \in 0..m : i < m =>
                 w[i + 1] = Done(w[i], Does(w[i], cells[i + 1]),
                                 ScanOrigin(state, target) + i, ScanStart(state, target))
<1> DEFINE o == ScanOrigin(state, target)
           t == ScanStart(state, target)
<1>1. ScanFirst(state) \in Accs /\ o \in Nat /\ t \in Nat
  BY ScanRules
<1>2. \A i \in 0..m : w[i] = ScanStage(state, cells, target, w, i)
  BY DEF IsScan
<1>3. w[0] = ScanFirst(state)
  BY <1>2 DEF ScanStage
<1> HIDE DEF o, t
<1>4. ASSUME NEW i \in 0..m, i < m
      PROVE  w[i + 1] = Done(w[i], Does(w[i], cells[i + 1]), o + i, t)
  <2>1. i + 1 \in 0..m /\ i + 1 # 0 /\ (i + 1) - 1 = i /\ o + (i + 1) - 1 = o + i
    BY <1>1, <1>4
  <2>2. w[i + 1] = ScanCell(w[i], cells[i + 1], o + i, t)
    BY <1>2, <2>1, Zenon DEF ScanStage, o, t
  <2> QED BY <2>2, ScanCellDoes, Zenon
<1> DEFINE G == {i \in 0..m : w[i] \in Accs}
<1>5. 0 \in G
  BY <1>1, <1>3
<1>6. ASSUME NEW i \in 0..m, i < m, i \in G PROVE i + 1 \in G
  <2>1. i + 1 \in 0..m /\ o + i \in Nat
    BY <1>1, <1>6
  <2>2. Does(w[i], cells[i + 1]) \in Deeds
    BY DoesType, Zenon
  <2>3. Done(w[i], Does(w[i], cells[i + 1]), o + i, t) \in Accs
    BY <1>1, <1>6, <2>1, <2>2, DoneType
  <2> QED BY <1>4, <1>6, <2>1, <2>3
<1>7. 0..m \subseteq G
  <2> HIDE DEF G
  <2> QED BY <1>5, <1>6, UpTo
<1> QED BY <1>3, <1>4, <1>7 DEF o, t

LEMMA ScanType ==
    ASSUME NEW state \in ScanStates, NEW cells, Len(cells) \in Nat, NEW target \in Nat
    PROVE  Scan(state, cells, target) \in ScanStates
<1> DEFINE m == Len(cells)
<1>1. PICK w : /\ IsScan(state, cells, target, m, w)
               /\ Scan(state, cells, target)
                      = [stack |-> w[m].stack, quote |-> w[m].quote,
                         prev_indent |-> w[m].indent, start_indent |-> ScanStart(state, target)]
  BY ScanIs, Zenon
<1>2. w[m] \in Accs
  <2>1. \A i \in 0..m : w[i] \in Accs
    BY <1>1, ScanSteps, Zenon
  <2>2. m \in 0..m
    OBVIOUS
  <2> QED BY <2>1, <2>2, Zenon
<1>3. ScanStart(state, target) \in Nat
  BY ScanRules
<1> HIDE DEF m
<1> QED BY <1>1, <1>2, <1>3 DEF Accs, ScanStates

LEMMA NoAlignmentType == NoAlignment \in ScanStates
BY EmptySeq DEF NoAlignment, ScanStates

-----------------------------------------------------------------------------
(* Where a line may break *)

LEMMA MinIn ==
    ASSUME NEW Z, Z \subseteq Nat, Z # {}
    PROVE  Min(Z) \in Z
<1>1. SUFFICES \E x \in Z : \A y \in Z : x <= y
  BY Zenon DEF Min
<1>2. SUFFICES ASSUME \A x \in Z : \E y \in Z : ~(x <= y) PROVE FALSE
  OBVIOUS
<1>3. PICK e \in Z : TRUE
  OBVIOUS
<1> DEFINE G == {n \in 0..e : \A x \in Z : x > n}
<1>4. e \in Nat
  BY <1>3
<1>5. 0 \in G
  BY <1>2, <1>4
<1>6. ASSUME NEW n \in 0..e, n < e, n \in G PROVE n + 1 \in G
  <2>1. ASSUME NEW x \in Z PROVE x > n + 1
    <3>1. PICK y \in Z : ~(x <= y)
      BY <1>2
    <3>2. x \in Nat /\ y \in Nat /\ y > n
      BY <1>6
    <3> QED BY <3>1, <3>2
  <2> QED BY <1>6, <2>1
<1>7. 0..e \subseteq G
  <2> HIDE DEF G
  <2> QED BY <1>4, <1>5, <1>6, UpTo
<1> QED BY <1>3, <1>4, <1>7

LEMMA MaxIn ==
    ASSUME NEW b \in Int, NEW Z, Z \subseteq 1..b, Z # {}
    PROVE  Max(Z) \in Z
<1>1. SUFFICES \E x \in Z : \A y \in Z : x >= y
  BY Zenon DEF Max
<1>2. SUFFICES ASSUME \A x \in Z : \E y \in Z : ~(x >= y) PROVE FALSE
  OBVIOUS
<1>3. PICK e \in Z : TRUE
  OBVIOUS
<1> DEFINE G == {n \in 0..b : \E x \in Z : x > n}
<1>4. b \in Nat
  BY <1>3
<1>5. 0 \in G
  BY <1>3, <1>4
<1>6. ASSUME NEW n \in 0..b, n < b, n \in G PROVE n + 1 \in G
  <2>1. PICK x \in Z : x > n
    BY <1>6
  <2>2. PICK y \in Z : ~(x >= y)
    BY <1>2
  <2>3. x \in Nat /\ y \in Nat
    OBVIOUS
  <2> QED BY <1>6, <2>1, <2>2, <2>3
<1>7. 0..b \subseteq G
  <2> HIDE DEF G
  <2> QED BY <1>4, <1>5, <1>6, UpTo
<1> QED BY <1>4, <1>7

LEMMA EndFacts ==
    ASSUME NEW s \in Seq(Tokens), NEW i \in 1..Len(s)
    PROVE  /\ EndOf(s, i) \in Nat /\ EndOf(s, i) > 0 /\ StartOf(s, i) \in Int
           /\ StartOf(s, i) + Len(s[i].text) = EndOf(s, i)
           /\ i = Len(s) => EndOf(s, i) = Len(Text(s))
<1> DEFINE p == SubSeq(s, 1, i)
<1>1. p \in Seq(Tokens) /\ Len(p) = i
  OBVIOUS
<1>2. p # <<>>
  BY <1>1, NotEmpty
<1> HIDE DEF p
<1>3. Len(Text(p)) \in Nat /\ Len(Text(p)) > 0
  BY <1>1, <1>2, TextOpens, Zenon
<1>4. EndOf(s, i) \in Nat /\ EndOf(s, i) > 0
  BY <1>3, Zenon DEF EndOf, p
<1>5. PICK l \in Nat : l = Len(s[i].text)
  <2>1. s[i] \in Tokens
    OBVIOUS
  <2> QED BY <2>1, TokenFacts, Zenon
<1>6. PICK e \in Nat : e = EndOf(s, i)
  BY <1>4
<1>7. StartOf(s, i) = e - l
  BY <1>5, <1>6, Zenon DEF StartOf
<1>8. (e - l) + l = e /\ e - l \in Int
  OBVIOUS
<1>9. i = Len(s) => EndOf(s, i) = Len(Text(s))
  BY SubSeqFull, Zenon DEF EndOf
<1> QED BY <1>4, <1>5, <1>6, <1>7, <1>8, <1>9, Zenon

LEMMA EndGrows ==
    ASSUME NEW s \in Seq(Tokens), NEW i \in Nat, i >= 1, i < Len(s)
    PROVE  StartOf(s, i + 1) = EndOf(s, i) + (IF s[i + 1].blank THEN 1 ELSE 0)
<1> DEFINE p == SubSeq(s, 1, i)
           t == s[i + 1]
<1>1. p \in Seq(Tokens) /\ Len(p) = i /\ t \in Tokens /\ SubSeq(s, 1, i + 1) = Append(p, t)
  OBVIOUS
<1> HIDE DEF p
<1>2. PICK d \in Nat : d = IF t.blank THEN 1 ELSE 0
  OBVIOUS
<1> HIDE DEF t
<1>3. PICK l \in Nat : l = Len(t.text)
  BY <1>1, TokenFacts, Zenon
<1>4. PICK m \in Nat : m = Len(Text(p))
  BY <1>1, TextGrows, Zenon
<1>5. Len(Text(Append(p, t))) = m + l + d
  <2>1. Len(p) > 0
    BY <1>1
  <2>2. (IF Len(p) > 0 /\ t.blank THEN 1 ELSE 0) = d
    BY <1>2, <2>1, Zenon
  <2> QED BY <1>1, <1>3, <1>4, <2>2, TextGrows, Zenon
<1>6. EndOf(s, i + 1) = m + l + d
  BY <1>1, <1>5, Zenon DEF EndOf
<1>7. StartOf(s, i + 1) = (m + l + d) - l /\ EndOf(s, i) = m
  BY <1>3, <1>4, <1>6, Zenon DEF StartOf, EndOf, t, p
<1>8. (m + l + d) - l = m + d
  OBVIOUS
<1> QED BY <1>2, <1>7, <1>8, Zenon DEF t

\* A place to break: its token ends in time, and no marker opens what follows.
Place(s, limit, i) == i \in 1..Len(s) /\ EndOf(s, i) <= limit /\ OpensOrdinary(s, i)

LEMMA OperatorPlace ==
    ASSUME NEW s, NEW start, NEW limit, NEW i \in OperatorBreak(s, start, limit)
    PROVE  Place(s, limit, i)
BY DEF OperatorBreak, Place

LEMMA HeadPlace ==
    ASSUME NEW s \in Seq(Tokens), NEW limit, NEW i \in StatementHead(s, limit), OpensOrdinary(s, i)
    PROVE  Place(s, limit, i)
<1> DEFINE reached == {k \in 1..Len(s) : EndOf(s, k) <= limit /\ Depth(s, k) = 0}
           colons == {k \in reached : s[k].kind = "::"}
           assigns == {k \in reached : Assigns(s, k)}
<1>1. colons \subseteq Nat /\ assigns \subseteq Nat
  OBVIOUS
<1>2. /\ colons # {} => Min(colons) \in colons
      /\ assigns # {} => Min(assigns) \in assigns
  <2> HIDE DEF colons, assigns
  <2> QED BY <1>1, MinIn
<1>3. i \in reached
  <2>1. i \in IF colons # {} THEN {Min(colons)} ELSE IF assigns # {} THEN {Min(assigns)} ELSE {}
    BY Zenon DEF StatementHead
  <2>2. i \in colons \/ i \in assigns
    <3> HIDE DEF colons, assigns
    <3> QED BY <1>2, <2>1
  <2> QED BY <2>2
<1> QED BY <1>3 DEF Place

LEMMA AssignmentPlaces ==
    ASSUME NEW s \in Seq(Tokens), NEW limit \in Nat, NEW i
    PROVE  /\ i \in LastAssignment(s, limit) => Place(s, limit, i)
           /\ i \in FirstAssignment(s, limit) => Place(s, limit, i)
<1>1. ASSUME i \in LastAssignment(s, limit) PROVE Place(s, limit, i)
  BY <1>1 DEF LastAssignment, Place
<1>2. ASSUME i \in FirstAssignment(s, limit) PROVE Place(s, limit, i)
  <2>1. i \in 1..Len(s) /\ StartOf(s, i) < limit /\ Assigns(s, i) /\ OpensOrdinary(s, i)
    BY <1>2 DEF FirstAssignment
  <2>2. s[i] \in Tokens /\ s[i].kind = "="
    BY <1>2, <2>1 DEF FirstAssignment
  <2>3. Len(s[i].text) = 1
    BY <2>2, TokenFacts, Zenon
  <2>4. StartOf(s, i) + 1 = EndOf(s, i) /\ StartOf(s, i) \in Int
    BY <2>1, <2>3, EndFacts, Zenon
  <2>5. PICK x \in Int : x = StartOf(s, i)
    BY <2>4
  <2>6. x + 1 <= limit
    BY <2>1, <2>5
  <2> QED BY <2>1, <2>4, <2>5, <2>6, Zenon DEF Place
<1> QED BY <1>1, <1>2

LEMMA BlankPlace ==
    ASSUME NEW s \in Seq(Tokens), NEW limit \in Nat, NEW i \in LastBlank(s, limit)
    PROVE  Place(s, limit, i)
<1>1. i \in 1..(Len(s) - 1) /\ StartOf(s, i + 1) <= limit /\ s[i + 1].blank /\ OpensOrdinary(s, i)
  BY DEF LastBlank
<1>2. i \in Nat /\ i >= 1 /\ i < Len(s) /\ i \in 1..Len(s)
  BY <1>1
<1>3. StartOf(s, i + 1) = EndOf(s, i) + 1
  <2>1. (IF s[i + 1].blank THEN 1 ELSE 0) = 1
    BY <1>1
  <2> QED BY <1>2, <2>1, EndGrows, Zenon
<1>4. PICK e \in Nat : e = EndOf(s, i)
  BY <1>2, EndFacts, Zenon
<1>5. e + 1 <= limit => e <= limit
  OBVIOUS
<1> QED BY <1>1, <1>2, <1>3, <1>4, <1>5, Zenon DEF Place

LEMMA WrapPlace ==
    ASSUME NEW s \in Seq(Tokens), NEW limit \in Nat, NEW i \in WrapPosition(s, limit)
    PROVE  Place(s, limit, i)
<1> DEFINE head == StatementHead(s, limit)
<1>1. \A found, other : i \in Otherwise(found, other) => i \in found \/ i \in other
  BY DEF Otherwise
<1>2. CASE head # {}
  <2>1. \/ i \in OperatorBreak(s, EndOf(s, Max(head)), limit)
        \/ i \in {k \in head : OpensOrdinary(s, k)}
    BY <1>1, <1>2, Zenon DEF WrapPosition
  <2> QED BY <2>1, OperatorPlace, HeadPlace
<1>3. CASE head = {}
  <2>1. \/ i \in OperatorBreak(s, 0, limit) \/ i \in LastAssignment(s, limit)
        \/ i \in LastBlank(s, limit)
    BY <1>1, <1>3, Zenon DEF WrapPosition
  <2> QED BY <2>1, OperatorPlace, AssignmentPlaces, BlankPlace
<1> QED BY <1>2, <1>3

\* How much of a literal may stay on the line, by literal_wrap_split.
KeptOf(s, limit, k) ==
    {n \in 1..AtMost(Less(limit, StartOf(s, k) + 5), Len(s[k].text) - 2) : s[k].text[n + 1] = "_"}

\* A literal to split: how much of it is kept, and where the concatenation then ends.
LEMMA LiteralPlace ==
    ASSUME NEW s \in Seq(Tokens), NEW limit \in Nat, NEW split \in LiteralSplit(s, limit)
    PROVE  \E i \in 1..Len(s), n \in Nat :
              /\ split = <<i, n>> /\ s[i].kind = "string" /\ n >= 1 /\ n <= Len(s[i].text) - 2
              /\ StartOf(s, i) + n + 5 <= limit
<1> DEFINE strings == {k \in 1..Len(s) : s[k].kind = "string" /\ EndOf(s, k) > limit}
           chosen == {k \in strings : /\ k = Min(strings) /\ StartOf(s, k) < limit
                                      /\ KeptOf(s, limit, k) # {}}
<1>0. LiteralSplit(s, limit) = {<<k, Max(KeptOf(s, limit, k))>> : k \in chosen}
  BY Zenon DEF LiteralSplit, KeptOf
<1>1. PICK i \in chosen : split = <<i, Max(KeptOf(s, limit, i))>>
  <2> HIDE DEF chosen
  <2> QED BY <1>0, Zenon
<1>1a. i \in strings /\ KeptOf(s, limit, i) # {}
  <2> HIDE DEF strings
  <2> QED BY <1>1, Zenon
<1>2. i \in 1..Len(s) /\ s[i].kind = "string"
  BY <1>1a, Zenon
<1>2a. s[i] \in Tokens
  BY <1>2
<1>3. PICK x \in Int : x = StartOf(s, i)
  BY <1>2, EndFacts, Zenon
<1>4. PICK l \in Nat : l = Len(s[i].text)
  BY <1>2a, TokenFacts, Zenon
<1> DEFINE b == AtMost(Less(limit, x + 5), l - 2)
           K == KeptOf(s, limit, i)
<1>5. b \in Int
  BY DEF AtMost, Less
<1>6. K \subseteq 1..b
  BY <1>3, <1>4 DEF KeptOf
<1>7. Max(K) \in K
  <2> HIDE DEF b, K
  <2> QED BY <1>1a, <1>5, <1>6, MaxIn DEF K
<1>8. Max(K) \in 1..b
  <2> HIDE DEF b, K
  <2> QED BY <1>6, <1>7
<1> HIDE DEF K
<1>9. PICK n \in Nat : n = Max(K) /\ n \in 1..b
  BY <1>5, <1>8
<1>10. n >= 1 /\ n <= l - 2 /\ x + n + 5 <= limit
  BY <1>9 DEF AtMost, Less
<1>11. split = <<i, n>>
  BY <1>1, <1>9, Zenon DEF K
<1> QED BY <1>2, <1>3, <1>4, <1>10, <1>11, Zenon
-----------------------------------------------------------------------------
(* What a statement keeps while it is broken *)

\* What never changes: the statement, and what the plan and the settings are.
Begun ==
    outcome # "none" =>
        /\ \E s \in Statements : statement = {s}
        /\ DOMAIN plan = PlanFields /\ plan.first_indent \in Nat
        /\ config \in Configs

Unmeasured ==
    outcome = "unmeasured" =>
        lines = <<>> /\ rest = S.tokens /\ scan = NoAlignment /\ charged = <<>>

\* The lines so far and the tokens left are the statement, cut where a line may begin.
LinesSoFar ==
    outcome = "breaking" =>
        /\ column \in Nat /\ scan \in ScanStates
        /\ lines \in Seq(Seq(Tokens)) /\ rest \in Seq(Tokens) /\ rest # <<>>
        /\ Rejoined(AllOf(lines) \o rest) = Rejoined(S.tokens)
        /\ lines # <<>> => rest[1].kind # "&"
        /\ \A k \in 2..Len(lines) : lines[k] # <<>> /\ lines[k][1].kind # "&"
        /\ S.comments \subseteq {Cardinality(S.breaks) + 1}

ReadInv == Begun /\ Unmeasured /\ LinesSoFar /\ LinesReadAsWritten

LEMMA TheStatement ==
    ASSUME Begun, outcome # "none"
    PROVE  /\ statement = {S} /\ S \in Statements
           /\ DOMAIN S = StatementFields
           /\ S.form \in {"plain", "conditional", "directive"}
           /\ S.tokens \in Seq(Tokens) /\ S.tokens # <<>> /\ S.tokens[1].text[1] # "1"
           /\ S.label \in Nat
           /\ S.breaks \subseteq 1..Len(S.tokens) - 1
           /\ S.form = "directive" => S.breaks = {} /\ S.comments = {} /\ S.label = 0
<1>1. PICK s \in Statements : statement = {s}
  BY Zenon DEF Begun
<1>2. S = s
  BY <1>1 DEF S
<1> QED BY <1>1, <1>2, ReflowAssumption, Zenon

LEMMA ConfigFacts ==
    ASSUME Begun, outcome # "none"
    PROVE  /\ config.max_indent \in Nat /\ config.continuation_indent \in Nat
           /\ config.line_length \in Nat /\ plan.first_indent \in Nat
           /\ DOMAIN plan = PlanFields /\ config \in Configs
BY EmissionAssumption DEF Begun

LEMMA ArithmeticType ==
    ASSUME NEW n \in Nat, NEW m \in Nat
    PROVE  Less(n, m) \in Nat /\ AtLeast(n, m) \in Nat /\ AtMost(n, m) \in Nat
BY DEF Less, AtLeast, AtMost

LEMMA ClampType ==
    ASSUME NEW n \in Nat, config.max_indent \in Nat
    PROVE  Clamp(n) \in Nat /\ Clamp(n) <= n
BY DEF Clamp, AtMost

LEMMA CountType ==
    ASSUME NEW a \in Int, NEW b \in Int, NEW S0, S0 \subseteq a..b
    PROVE  IsFiniteSet(S0) /\ Cardinality(S0) \in Nat
BY FS_Interval, FS_Subset, FS_CardinalityType

LEMMA GrowthType ==
    ASSUME NEW s \in Seq(Tokens)
    PROVE  Growth(s) \in Nat
<1>1. Len(s) \in Int /\ 1 \in Int
  OBVIOUS
<1> DEFINE L == {i \in 1..Len(s) : s[i].kind = "::" /\ (i = 1 \/ ~s[i].blank)}
           R == {i \in 1..Len(s) : s[i].kind = "::" /\ (i = Len(s) \/ ~s[i + 1].blank)}
<1>2. L \subseteq 1..Len(s) /\ R \subseteq 1..Len(s)
  OBVIOUS
<1>3. Growth(s) = Cardinality(L) + Cardinality(R)
  BY Zenon DEF Growth
<1> HIDE DEF L, R
<1>4. Cardinality(L) \in Nat /\ Cardinality(R) \in Nat
  BY <1>1, <1>2, CountType, Zenon
<1> QED BY <1>3, <1>4

LEMMA ColumnTypes ==
    ASSUME Begun, outcome # "none"
    PROVE  /\ Inset \in Nat /\ FirstBodyColumn \in Nat /\ ContinuationColumn \in Nat
           /\ Budget \in Nat /\ LineBudget \in Nat /\ Len(SentinelText) = 6
<1>1. Inset \in Nat
  BY DEF Inset
<1>2. Less(plan.first_indent, Inset) \in Nat /\ S.label \in Nat
  BY <1>1, ConfigFacts, TheStatement, ArithmeticType
<1>3. \A n \in Nat : LabelledBodyColumn(n) \in Nat
  <2> TAKE n \in Nat
  <2>1. Clamp(n) \in Nat /\ Less(n, S.label) \in Nat
    BY <1>2, ConfigFacts, ClampType, ArithmeticType
  <2>2. Clamp(Less(n, S.label)) \in Nat
    BY <2>1, ConfigFacts, ClampType
  <2>3. AtLeast(Clamp(Less(n, S.label)), 1) \in Nat
    BY <2>2, ArithmeticType
  <2> QED BY <1>2, <2>1, <2>3 DEF LabelledBodyColumn
<1>4. FirstBodyColumn \in Nat
  <2> DEFINE target == Less(plan.first_indent, Inset)
  <2>1. target \in Nat /\ LabelledBodyColumn(target) \in Nat
    BY <1>2, <1>3
  <2> HIDE DEF target
  <2>2. (IF S.label = 0 THEN target ELSE LabelledBodyColumn(target)) \in Nat
    BY <2>1
  <2> QED BY <1>1, <2>2 DEF FirstBodyColumn, target
<1>5. ContinuationColumn \in Nat
  <2>1. (IF config.indent_continuation THEN config.continuation_indent ELSE 0) \in Nat
    BY ConfigFacts
  <2> QED BY <1>1, <1>2, <2>1 DEF ContinuationColumn
<1>6. Budget \in Nat
  BY ConfigFacts, TheStatement, GrowthType, ArithmeticType DEF Budget
<1>7. LineBudget \in Nat
  BY <1>6, ConfigFacts DEF LineBudget
<1>8. Len(SentinelText) = 6
  BY DEF SentinelText
<1> QED BY <1>1, <1>4, <1>5, <1>6, <1>7, <1>8

\* The columns of the next line.
LEMMA NextColumnType ==
    ASSUME Begun, outcome # "none", column \in Nat, NEW state \in ScanStates
    PROVE  NextColumn(state) \in Nat
<1>1. state.stack \in Seq(Openings)
  BY DEF ScanStates
<1>2. CASE state.stack = <<>>
  BY <1>2, ColumnTypes DEF NextColumn
<1>3. CASE state.stack # <<>>
  <2>1. Top(state.stack) \in Openings
    BY <1>1, <1>3 DEF Top
  <2>2. Top(state.stack).alignment \in Nat
    BY <2>1 DEF Openings
  <2> QED BY <2>2, ColumnTypes DEF NextColumn
<1> QED BY <1>2, <1>3

LEMMA ScannedType ==
    ASSUME column \in Nat, scan \in ScanStates, NEW s \in Seq(Tokens)
    PROVE  Scanned(s) \in ScanStates
<1> DEFINE e == <<"_", "&">>
<1>1. e \in Seq(Cells)
  BY DEF Cells
<1>2. Len(Text(s) \o e) \in Nat
  <2> HIDE DEF e
  <2>1. Text(s) \in Seq(Cells)
    BY TextType, Zenon
  <2> QED BY <1>1, <2>1
<1> QED BY <1>2, ScanType DEF Scanned

LEMMA GenericPlace ==
    ASSUME Begun, outcome # "none", column \in Nat, rest \in Seq(Tokens), NEW i \in Generic
    PROVE  Place(rest, Limit, i)
<1>1. Limit \in Nat
  <2>1. column + 2 \in Nat /\ LineBudget \in Nat
    BY ColumnTypes
  <2> QED BY <2>1, ArithmeticType, Zenon DEF Limit
<1>2. i \in AssignmentChoice \/ i \in WrapPosition(rest, Limit)
  BY DEF Generic, Otherwise
<1>3. ASSUME i \in AssignmentChoice PROVE i \in FirstAssignment(rest, Limit)
  BY <1>3, Zenon DEF AssignmentChoice
<1> QED BY <1>1, <1>2, <1>3, AssignmentPlaces, WrapPlace

\* A break leaves tokens for another line, and two columns for the marker.
LEMMA PlaceLeaves ==
    ASSUME Begun, outcome # "none", column \in Nat, rest \in Seq(Tokens), TooLong,
           NEW i, Place(rest, Limit, i)
    PROVE  /\ i \in 1..Len(rest) /\ i < Len(rest) /\ rest[i + 1].kind # "&"
           /\ column + EndOf(rest, i) + 2 <= LineBudget
<1>1. i \in 1..Len(rest) /\ EndOf(rest, i) <= Limit /\ OpensOrdinary(rest, i)
  BY Zenon DEF Place
<1>2. EndOf(rest, i) \in Nat /\ EndOf(rest, i) > 0
      /\ (i = Len(rest) => EndOf(rest, i) = Len(Text(rest)))
  BY <1>1, EndFacts, Zenon
<1>3. PICK e \in Nat : e = EndOf(rest, i)
  BY <1>2, Zenon
<1>4. column + e + 2 <= LineBudget
  BY <1>1, <1>2, <1>3, ColumnTypes DEF Limit, Less
<1>5. i # Len(rest)
  <2>1. ~(column + e > LineBudget)
    BY <1>4, ColumnTypes
  <2> QED BY <1>2, <1>3, <2>1, Zenon DEF TooLong
<1>6. i < Len(rest)
  BY <1>1, <1>5
<1>7. rest[i + 1].kind # "&"
  BY <1>1, <1>6, Zenon DEF OpensOrdinary
<1> QED BY <1>1, <1>3, <1>4, <1>6, <1>7, Zenon

LEMMA CutIs ==
    ASSUME NEW T, NEW r \in Seq(T), NEW i \in Nat, i <= Len(r)
    PROVE  /\ SubSeq(r, 1, i) \in Seq(T) /\ Len(SubSeq(r, 1, i)) = i
           /\ \A k \in 1..i : SubSeq(r, 1, i)[k] = r[k]
           /\ SubSeq(r, i + 1, Len(r)) \in Seq(T) /\ Len(SubSeq(r, i + 1, Len(r))) = Len(r) - i
           /\ \A k \in 1..(Len(r) - i) : SubSeq(r, i + 1, Len(r))[k] = r[k + i]
           /\ SubSeq(r, 1, i) \o SubSeq(r, i + 1, Len(r)) = r
<1>1. Len(r) \in Nat /\ \A k \in 1..Len(r) : r[k] \in T
  OBVIOUS
<1> DEFINE a == SubSeq(r, 1, i)
           b == SubSeq(r, i + 1, Len(r))
<1>2. /\ a \in Seq(T) /\ Len(a) = IF 1 <= i THEN i - 1 + 1 ELSE 0
      /\ \A k \in 1..i - 1 + 1 : a[k] = r[1 + k - 1]
  <2>1. \A k \in 1..i : r[k] \in T
    BY <1>1
  <2> QED BY <1>1, <2>1, SubSeqProperties
<1>3. /\ b \in Seq(T) /\ Len(b) = IF i + 1 <= Len(r) THEN Len(r) - (i + 1) + 1 ELSE 0
      /\ \A k \in 1..Len(r) - (i + 1) + 1 : b[k] = r[i + 1 + k - 1]
  <2>1. \A k \in i + 1..Len(r) : r[k] \in T
    BY <1>1
  <2> QED BY <1>1, <2>1, SubSeqProperties
<1> HIDE DEF a, b
<1>4. Len(a) = i /\ \A k \in 1..i : a[k] = r[k]
  BY <1>2
<1>5. Len(b) = Len(r) - i /\ \A k \in 1..(Len(r) - i) : b[k] = r[k + i]
  BY <1>1, <1>3
<1>6. a \o b = r
  <2> DEFINE c == a \o b
  <2>1. /\ c \in Seq(T) /\ Len(c) = Len(a) + Len(b)
        /\ \A k \in 1..Len(a) + Len(b) : c[k] = IF k <= Len(a) THEN a[k] ELSE b[k - Len(a)]
    BY <1>2, <1>3, ConcatProperties, Zenon
  <2> HIDE DEF c
  <2>2. Len(c) = Len(r)
    BY <1>1, <1>4, <1>5, <2>1
  <2>3. \A k \in 1..Len(c) : c[k] = r[k]
    BY <1>1, <1>4, <1>5, <2>1, <2>2
  <2>4. c = r
    BY <2>1, <2>2, <2>3, SeqEqual, Zenon
  <2> QED BY <2>4 DEF c
<1> QED BY <1>2, <1>3, <1>4, <1>5, <1>6, Zenon DEF a, b

LEMMA CutAt ==
    ASSUME NEW T, NEW r \in Seq(T), NEW i \in Nat, i >= 1, i <= Len(r)
    PROVE  /\ SubSeq(r, 1, i - 1) \in Seq(T) /\ Len(SubSeq(r, 1, i - 1)) = i - 1
           /\ i > 1 => SubSeq(r, 1, i - 1)[1] = r[1]
           /\ SubSeq(r, i + 1, Len(r)) \in Seq(T)
           /\ Append(SubSeq(r, 1, i - 1), r[i]) \o SubSeq(r, i + 1, Len(r)) = r
<1> DEFINE a == SubSeq(r, 1, i - 1)
           d == SubSeq(r, 1, i)
           e == Append(a, r[i])
<1>1. i - 1 \in Nat /\ i - 1 <= Len(r) /\ r[i] \in T /\ Len(r) \in Nat
  OBVIOUS
<1>2. a \in Seq(T) /\ Len(a) = i - 1 /\ \A k \in 1..i - 1 : a[k] = r[k]
  BY <1>1, CutIs, Zenon
<1>3. d \in Seq(T) /\ Len(d) = i /\ \A k \in 1..i : d[k] = r[k]
  BY <1>1, CutIs, Zenon
<1> HIDE DEF a, d
<1>4. /\ e \in Seq(T) /\ Len(e) = Len(a) + 1 /\ \A k \in 1..Len(a) : e[k] = a[k]
      /\ e[Len(a) + 1] = r[i]
  BY <1>1, <1>2, AppendProperties, Zenon
<1> HIDE DEF e
<1>5. Len(e) = Len(d) /\ \A k \in 1..Len(e) : e[k] = d[k]
  BY <1>1, <1>2, <1>3, <1>4
<1>6. e = d
  BY <1>3, <1>4, <1>5, SeqEqual, Zenon
<1>7. SubSeq(r, i + 1, Len(r)) \in Seq(T) /\ d \o SubSeq(r, i + 1, Len(r)) = r
  BY <1>1, CutIs, Zenon DEF d
<1>8. i > 1 => a[1] = r[1]
  BY <1>2
<1> QED BY <1>2, <1>6, <1>7, <1>8, Zenon DEF a, e

\* Two tokens at the end of a line and one at the start of the next.
LEMMA TwoMore ==
    ASSUME NEW T, NEW s \in Seq(T), NEW f \in T, NEW c \in T
    PROVE  /\ s \o <<f, c>> = Append(Append(s, f), c)
           /\ s \o <<f, c>> \in Seq(T) /\ s \o <<f, c>> # <<>>
           /\ (s \o <<f, c>>)[1] = IF s = <<>> THEN f ELSE s[1]
<1> DEFINE fc == <<f, c>>
           w == s \o fc
           p == Append(s, f)
           v == Append(p, c)
<1>1. fc \in Seq(T) /\ Len(fc) = 2 /\ fc[1] = f /\ fc[2] = c
  OBVIOUS
<1> HIDE DEF fc
<1>2. /\ w \in Seq(T) /\ Len(w) = Len(s) + Len(fc)
      /\ \A k \in 1..Len(s) + Len(fc) : w[k] = IF k <= Len(s) THEN s[k] ELSE fc[k - Len(s)]
  BY <1>1, ConcatProperties, Zenon
<1>3. /\ p \in Seq(T) /\ Len(p) = Len(s) + 1 /\ \A k \in 1..Len(s) : p[k] = s[k]
      /\ p[Len(s) + 1] = f
  BY AppendProperties
<1> HIDE DEF w, p
<1>4. /\ v \in Seq(T) /\ Len(v) = Len(p) + 1 /\ \A k \in 1..Len(p) : v[k] = p[k]
      /\ v[Len(p) + 1] = c
  BY <1>3, AppendProperties, Zenon
<1> HIDE DEF v
<1>5. PICK n \in Nat : n = Len(s)
  OBVIOUS
<1>6. Len(w) = n + 2 /\ Len(v) = n + 2 /\ Len(p) = n + 1
  BY <1>1, <1>2, <1>3, <1>4, <1>5
<1>7. \A k \in 1..n + 2 : w[k] = v[k]
  <2> TAKE k \in 1..n + 2
  <2>1. CASE k <= n
    BY <1>1, <1>2, <1>3, <1>4, <1>5, <1>6, <2>1
  <2>2. CASE k = n + 1
    BY <1>1, <1>2, <1>3, <1>4, <1>5, <1>6, <2>2
  <2>3. CASE k = n + 2
    BY <1>1, <1>2, <1>3, <1>4, <1>5, <1>6, <2>3
  <2> QED BY <2>1, <2>2, <2>3
<1>8. w = v
  BY <1>2, <1>4, <1>6, <1>7, SeqEqual, Zenon
<1>9. w # <<>>
  <2>1. Len(w) > 0
    BY <1>6
  <2> QED BY <1>2, <2>1, NotEmpty
<1>10. w[1] = IF s = <<>> THEN f ELSE s[1]
  BY <1>1, <1>2, <1>6
<1> QED BY <1>2, <1>8, <1>9, <1>10, Zenon DEF fc, w, p, v

LEMMA OneBefore ==
    ASSUME NEW T, NEW r \in Seq(T), NEW g \in T
    PROVE  <<g>> \o r \in Seq(T) /\ <<g>> \o r # <<>> /\ (<<g>> \o r)[1] = g
<1> DEFINE g1 == <<g>>
           y == g1 \o r
<1>1. g1 \in Seq(T) /\ Len(g1) = 1 /\ g1[1] = g
  BY OneOf
<1> HIDE DEF g1
<1>2. /\ y \in Seq(T) /\ Len(y) = Len(g1) + Len(r)
      /\ \A k \in 1..Len(g1) + Len(r) : y[k] = IF k <= Len(g1) THEN g1[k] ELSE r[k - Len(g1)]
  BY <1>1, ConcatProperties, Zenon
<1> HIDE DEF y
<1>3. Len(y) > 0 /\ y[1] = g
  BY <1>1, <1>2
<1>4. y # <<>>
  BY <1>2, <1>3, NotEmpty
<1> QED BY <1>2, <1>3, <1>4, Zenon DEF y, g1

\* Concatenation, as the provers take it: by name.
Cat(s, r) == s \o r

LEMMA CatAssoc ==
    ASSUME NEW s \in Seq(Tokens), NEW h \in Seq(Tokens), NEW r \in Seq(Tokens)
    PROVE  Cat(Cat(s, h), r) = Cat(s, Cat(h, r)) /\ Cat(s, h) \in Seq(Tokens)
BY ConcatAssociative, ConcatProperties DEF Cat

LEMMA AppendCat ==
    ASSUME NEW s \in Seq(Tokens), NEW f \in Tokens, NEW c \in Tokens, NEW g \in Tokens
    PROVE  /\ Append(s, f) = Cat(s, <<f>>) /\ Append(s, f) \in Seq(Tokens)
           /\ Append(Append(Append(s, f), c), g) = Cat(Cat(s, <<f, c>>), <<g>>)
           /\ Append(Append(Append(s, f), c), g) \in Seq(Tokens)
<1>1. Append(s, f) = s \o <<f>> /\ Append(s, f) \in Seq(Tokens)
  BY AppendIsConcat, AppendProperties
<1>2. s \o <<f, c>> = Append(Append(s, f), c) /\ s \o <<f, c>> \in Seq(Tokens)
  BY TwoMore
<1> DEFINE w == s \o <<f, c>>
<1> HIDE DEF w
<1>3. Append(w, g) = w \o <<g>> /\ Append(w, g) \in Seq(Tokens)
  BY <1>2, AppendIsConcat, AppendProperties DEF w
<1> QED BY <1>1, <1>2, <1>3, Zenon DEF Cat, w

\* A line broken off the rest: the statement is still the lines and the rest.
LEMMA CutReads ==
    ASSUME NEW ls \in Seq(Seq(Tokens)), NEW r \in Seq(Tokens), NEW i \in Nat, i >= 1, i < Len(r)
    PROVE  /\ SubSeq(r, 1, i) \in Seq(Tokens) /\ SubSeq(r, i + 1, Len(r)) \in Seq(Tokens)
           /\ SubSeq(r, 1, i) # <<>> /\ SubSeq(r, i + 1, Len(r)) # <<>>
           /\ SubSeq(r, 1, i)[1] = r[1] /\ SubSeq(r, i + 1, Len(r))[1] = r[i + 1]
           /\ AllOf(Append(ls, SubSeq(r, 1, i))) \o SubSeq(r, i + 1, Len(r)) = AllOf(ls) \o r
<1> DEFINE a == SubSeq(r, 1, i)
           b == SubSeq(r, i + 1, Len(r))
<1>1. /\ a \in Seq(Tokens) /\ Len(a) = i /\ \A k \in 1..i : a[k] = r[k]
      /\ b \in Seq(Tokens) /\ Len(b) = Len(r) - i
      /\ \A k \in 1..(Len(r) - i) : b[k] = r[k + i]
      /\ a \o b = r
  BY CutIs
<1> HIDE DEF a, b
<1>2. a[1] = r[1] /\ b[1] = r[i + 1] /\ Len(a) > 0 /\ Len(b) > 0
  <2>1. Len(r) \in Nat /\ 1 \in 1..i /\ 1 \in 1..(Len(r) - i) /\ 1 + i = i + 1
    OBVIOUS
  <2>2. a[1] = r[1] /\ b[1] = r[i + 1]
    BY <1>1, <2>1
  <2> QED BY <1>1, <2>1, <2>2
<1>3. a # <<>> /\ b # <<>>
  BY <1>1, <1>2, NotEmpty
<1>4. AllOf(Append(ls, a)) = AllOf(ls) \o a /\ AllOf(ls) \in Seq(Tokens)
  BY <1>1, AllAppend, AllOfType
<1>5. (AllOf(ls) \o a) \o b = AllOf(ls) \o (a \o b)
  <2>1. a \in Seq(Tokens) /\ b \in Seq(Tokens)
    BY <1>1
  <2>2. AllOf(ls) \in Seq(Tokens)
    BY AllOfType
  <2> QED BY <2>1, <2>2, ConcatAssociative
<1>6. AllOf(Append(ls, a)) \o b = AllOf(ls) \o r
  BY <1>1, <1>4, <1>5
<1> QED BY <1>1, <1>2, <1>3, <1>6 DEF a, b

\* A line that ends inside of a literal, and what it leaves.
FirstPart(r, i, n)  == SubSeq(r, 1, i - 1) \o <<FirstHalf(r[i], n), Concat>>
SecondPart(r, i, n) == <<SecondHalf(r[i], n)>> \o SubSeq(r, i + 1, Len(r))

LEMMA LiteralCutReads ==
    ASSUME NEW ls \in Seq(Seq(Tokens)), NEW r \in Seq(Tokens), NEW i \in Nat,
           i >= 1, i <= Len(r), r[i].kind = "string",
           NEW n \in Nat, n >= 1, n <= Len(r[i].text) - 2
    PROVE  /\ FirstPart(r, i, n) \in Seq(Tokens) /\ SecondPart(r, i, n) \in Seq(Tokens)
           /\ FirstPart(r, i, n) # <<>> /\ SecondPart(r, i, n) # <<>>
           /\ FirstPart(r, i, n)[1] = r[1] \/ FirstPart(r, i, n)[1].kind = "string"
           /\ SecondPart(r, i, n)[1].kind = "string"
           /\ Rejoined(AllOf(Append(ls, FirstPart(r, i, n))) \o SecondPart(r, i, n))
                  = Rejoined(AllOf(ls) \o r)
<1> DEFINE head == SubSeq(r, 1, i - 1)
           tail == SubSeq(r, i + 1, Len(r))
           t == r[i]
           f == FirstHalf(t, n)
           g == SecondHalf(t, n)
           all == AllOf(ls)
           fc == <<f, Concat>>
           g1 == <<g>>
           t1 == <<t>>
           p == Cat(all, head)
           a == Cat(head, fc)
           b == Cat(g1, tail)
<1>1. t \in Tokens
  OBVIOUS
<1>2. /\ f \in Tokens /\ g \in Tokens /\ Concat \in Tokens
      /\ f.kind = "string" /\ g.kind = "string"
  BY <1>1, HalvesAreTokens, ConcatFacts
<1>3. /\ head \in Seq(Tokens) /\ tail \in Seq(Tokens) /\ Len(head) = i - 1
      /\ (i > 1 => head[1] = r[1]) /\ Append(head, t) \o tail = r
  BY CutAt
<1>4. FirstPart(r, i, n) = a /\ SecondPart(r, i, n) = b
  BY Zenon DEF FirstPart, SecondPart, Cat
<1>5. all \in Seq(Tokens)
  BY AllOfType
<1> HIDE DEF head, tail, all
<1>6. fc \in Seq(Tokens) /\ g1 \in Seq(Tokens) /\ t1 \in Seq(Tokens)
  <2> HIDE DEF t, f, g
  <2> QED BY <1>1, <1>2
<1>7. p \in Seq(Tokens)
  BY <1>3, <1>5, CatAssoc
<1> HIDE DEF p
<1>8. Rejoined(Cat(Cat(p, fc), g1)) = Rejoined(Cat(p, t1))
  <2>1. Rejoined(Append(Append(Append(p, f), Concat), g)) = Rejoined(Append(p, t))
    BY <1>1, <1>7, SplitReads
  <2> HIDE DEF t, f, g
  <2>2. /\ Append(Append(Append(p, f), Concat), g) = Cat(Cat(p, fc), g1)
        /\ Append(p, t) = Cat(p, t1)
    BY <1>1, <1>2, <1>7, AppendCat
  <2> QED BY <2>1, <2>2, Zenon
<1> HIDE DEF t, f, g
<1>9. a \in Seq(Tokens) /\ a # <<>> /\ a[1] = IF head = <<>> THEN f ELSE head[1]
  BY <1>2, <1>3, TwoMore DEF Cat
<1>10. b \in Seq(Tokens) /\ b # <<>> /\ b[1] = g
  BY <1>2, <1>3, OneBefore DEF Cat
<1>11. Cat(Cat(head, t1), tail) = r
  <2>1. Append(head, t) = Cat(head, t1)
    BY <1>1, <1>2, <1>3, AppendCat
  <2> QED BY <1>3, <2>1, Zenon DEF Cat
<1> HIDE DEF fc, g1, t1
<1>12. Cat(Cat(all, a), b) = Cat(Cat(Cat(p, fc), g1), tail)
  <2>1. Cat(all, a) = Cat(p, fc) /\ Cat(p, fc) \in Seq(Tokens)
    BY <1>3, <1>5, <1>6, <1>7, CatAssoc DEF p
  <2>2. Cat(Cat(p, fc), b) = Cat(Cat(Cat(p, fc), g1), tail)
    BY <1>3, <1>6, <2>1, CatAssoc
  <2> QED BY <2>1, <2>2, Zenon
<1>13. Cat(all, r) = Cat(Cat(p, t1), tail)
  <2>1. Cat(head, t1) \in Seq(Tokens)
    BY <1>3, <1>6, CatAssoc
  <2>2. Cat(all, Cat(head, t1)) = Cat(p, t1)
    BY <1>3, <1>5, <1>6, CatAssoc DEF p
  <2>3. Cat(all, Cat(Cat(head, t1), tail)) = Cat(Cat(all, Cat(head, t1)), tail)
    BY <1>3, <1>5, <2>1, CatAssoc
  <2> QED BY <1>11, <2>2, <2>3, Zenon
<1>14. Rejoined(Cat(Cat(Cat(p, fc), g1), tail)) = Rejoined(Cat(Cat(p, t1), tail))
  <2>1. Cat(p, fc) \in Seq(Tokens) /\ Cat(p, t1) \in Seq(Tokens)
    BY <1>6, <1>7, CatAssoc
  <2>2. Cat(Cat(p, fc), g1) \in Seq(Tokens)
    BY <1>6, <2>1, CatAssoc
  <2>3. \A x, z \in Seq(Tokens) : Rejoined(x) = Rejoined(z) => Rejoined(x \o tail) = Rejoined(z \o tail)
    BY <1>3, RejoinedOn, Zenon
  <2> QED BY <1>8, <2>1, <2>2, <2>3, Zenon DEF Cat
<1>15. AllOf(Append(ls, a)) = Cat(all, a)
  <2> HIDE DEF a
  <2> QED BY <1>9, AllAppend, Zenon DEF all, Cat
<1>16. Rejoined(Cat(AllOf(Append(ls, a)), b)) = Rejoined(Cat(all, r))
  BY <1>12, <1>13, <1>14, <1>15, Zenon
<1> HIDE DEF a, b
<1>17. a[1] = r[1] \/ a[1].kind = "string"
  <2>1. head # <<>> => i > 1
    BY <1>3
  <2> QED BY <1>2, <1>3, <1>9, <2>1, Zenon
<1>18. b[1].kind = "string"
  BY <1>2, <1>10, Zenon
<1> QED BY <1>4, <1>9, <1>10, <1>16, <1>17, <1>18, Zenon DEF all, Cat
-----------------------------------------------------------------------------
(* The lines read as the statement *)

LEMMA OneLine ==
    ASSUME NEW s \in Seq(Tokens)
    PROVE  AllOf(<<s>>) = s
<1>1. <<>> \in Seq(Seq(Tokens)) /\ Append(<<>>, s) = <<s>>
  OBVIOUS
<1>2. AllOf(Append(<<>>, s)) = AllOf(<<>>) \o s
  BY <1>1, AllAppend
<1>3. <<>> \o s = s
  OBVIOUS
<1> QED BY <1>1, <1>2, <1>3, AllNone, Zenon

LEMMA ReadStarts ==
    ASSUME ReflowInit
    PROVE  ReadInv
<1>1. CASE EmitInit /\ outcome = "none"
  BY <1>1 DEF ReadInv, Begun, Unmeasured, LinesSoFar, LinesReadAsWritten
<1>2. ASSUME NEW s \in Statements, NEW p \in Plans, NEW c \in Configs, ReflowIn(s, p, c)
      PROVE  ReadInv
  <2>1. /\ statement = {s} /\ outcome = "unmeasured" /\ lines = <<>> /\ rest = s.tokens
        /\ scan = NoAlignment /\ charged = <<>> /\ plan = p /\ config = c
    BY <1>2 DEF ReflowIn
  <2>2. Begun
    BY <2>1, EmissionAssumption DEF Begun
  <2>3. S = s
    BY <2>1 DEF S
  <2> QED BY <2>1, <2>2, <2>3 DEF ReadInv, Unmeasured, LinesSoFar, LinesReadAsWritten
<1> QED BY <1>1, <1>2 DEF ReflowInit

\* One more line of a statement that is broken.
LEMMA BreakKeeps ==
    ASSUME ReadInv, outcome = "breaking", NEW a \in Seq(Tokens), NEW b \in Seq(Tokens),
           BreakInto(a, b), a # <<>>, b # <<>>,
           lines # <<>> => a[1].kind # "&", b[1].kind # "&",
           Rejoined(AllOf(Append(lines, a)) \o b) = Rejoined(AllOf(lines) \o rest)
    PROVE  ReadInv'
<1>1. /\ lines' = Append(lines, a) /\ rest' = b /\ scan' = Scanned(a)
      /\ column' = NextColumn(Scanned(a))
      /\ UNCHANGED <<config, plan, statement, outcome>>
  BY DEF BreakInto, emitVars
<1>2. /\ Begun /\ column \in Nat /\ scan \in ScanStates /\ lines \in Seq(Seq(Tokens))
      /\ Rejoined(AllOf(lines) \o rest) = Rejoined(S.tokens)
      /\ S.comments \subseteq {Cardinality(S.breaks) + 1}
      /\ \A k \in 2..Len(lines) : lines[k] # <<>> /\ lines[k][1].kind # "&"
  BY DEF ReadInv, LinesSoFar
<1>3. S' = S
  BY <1>1 DEF S
<1>4. Begun'
  BY <1>1, <1>2 DEF Begun
<1>5. column' \in Nat /\ scan' \in ScanStates
  BY <1>1, <1>2, ScannedType, NextColumnType
<1>6. /\ lines' \in Seq(Seq(Tokens)) /\ Len(lines') = Len(lines) + 1
      /\ \A k \in 1..Len(lines) : lines'[k] = lines[k]
      /\ lines'[Len(lines) + 1] = a
  BY <1>1, <1>2, AppendProperties
<1>7. \A k \in 2..Len(lines') : lines'[k] # <<>> /\ lines'[k][1].kind # "&"
  <2> TAKE k \in 2..Len(lines')
  <2>1. Len(lines) \in Nat
    BY <1>2
  <2>2. CASE k \in 2..Len(lines)
    <3>1. k \in 1..Len(lines)
      BY <2>1, <2>2
    <3> QED BY <1>2, <1>6, <2>2, <3>1, Zenon
  <2>3. CASE k = Len(lines) + 1
    <3>1. lines # <<>>
      BY <2>1, <2>3
    <3> QED BY <1>6, <2>3, <3>1
  <2> QED BY <1>6, <2>1, <2>2, <2>3
<1>8. Rejoined(AllOf(lines') \o rest') = Rejoined(S'.tokens)
  BY <1>1, <1>2, <1>3
<1>9. S'.comments \subseteq {Cardinality(S'.breaks) + 1}
  BY <1>2, <1>3
<1>10. LinesSoFar'
  BY <1>1, <1>5, <1>6, <1>7, <1>8, <1>9, Zenon DEF LinesSoFar
<1> QED BY <1>1, <1>4, <1>10 DEF ReadInv, Unmeasured, LinesReadAsWritten

LEMMA ReadBreaksStatement ==
    ASSUME ReadInv, BreakStatement
    PROVE  ReadInv'
<1>1. outcome = "breaking" /\ TooLong
  BY DEF BreakStatement
<1>2. PICK i \in Generic : BreakInto(SubSeq(rest, 1, i), SubSeq(rest, i + 1, Len(rest)))
  BY DEF BreakStatement
<1>3. Begun /\ column \in Nat /\ rest \in Seq(Tokens) /\ lines \in Seq(Seq(Tokens))
      /\ (lines # <<>> => rest[1].kind # "&")
  BY <1>1 DEF ReadInv, LinesSoFar
<1>4. i \in 1..Len(rest) /\ i < Len(rest) /\ rest[i + 1].kind # "&"
  BY <1>1, <1>3, GenericPlace, PlaceLeaves
<1> DEFINE a == SubSeq(rest, 1, i)
           b == SubSeq(rest, i + 1, Len(rest))
<1>5. /\ a \in Seq(Tokens) /\ b \in Seq(Tokens) /\ a # <<>> /\ b # <<>>
      /\ a[1] = rest[1] /\ b[1] = rest[i + 1]
      /\ AllOf(Append(lines, a)) \o b = AllOf(lines) \o rest
  <2>1. i \in Nat /\ i >= 1
    BY <1>4
  <2> QED BY <1>3, <1>4, <2>1, CutReads, Zenon
<1> HIDE DEF a, b
<1>6. BreakInto(a, b)
  BY <1>2 DEF a, b
<1>7. (lines # <<>> => a[1].kind # "&") /\ b[1].kind # "&"
  BY <1>3, <1>4, <1>5, Zenon
<1>8. Rejoined(AllOf(Append(lines, a)) \o b) = Rejoined(AllOf(lines) \o rest)
  BY <1>5
<1> QED BY <1>1, <1>5, <1>6, <1>7, <1>8, BreakKeeps

\* What BreakLiteral cuts, as the halves of the token.
LEMMA LiteralIs ==
    ASSUME NEW t \in Tokens, NEW n \in Nat, n >= 1, n <= Len(t.text) - 2
    PROVE  LET content == SubSeq(t.text, 2, Len(t.text) - 1) IN
           /\ Quoted(t, SubSeq(content, 1, n), t.blank) = FirstHalf(t, n)
           /\ Quoted(t, SubSeq(content, n + 1, Len(content)), FALSE) = SecondHalf(t, n)
<1> DEFINE m == Len(t.text)
           content == SubSeq(t.text, 2, m - 1)
<1>1. m \in Nat /\ t.text \in Seq(Cells)
  BY TokenFacts
<1>2. Len(content) = m - 2
  BY <1>1
<1>3. Quoted(t, SubSeq(content, n + 1, m - 2), FALSE) = SecondHalf(t, n)
  BY Zenon DEF Quoted, SecondHalf, HalfOf, Half
<1>4. Quoted(t, SubSeq(content, 1, n), t.blank) = FirstHalf(t, n)
  BY Zenon DEF Quoted, FirstHalf, HalfOf, Half
<1>5. Quoted(t, SubSeq(content, n + 1, Len(content)), FALSE) = SecondHalf(t, n)
  BY <1>2, <1>3, Zenon
<1> QED BY <1>4, <1>5, Zenon

LEMMA ReadBreaksLiteral ==
    ASSUME ReadInv, BreakLiteral
    PROVE  ReadInv'
<1>1. outcome = "breaking" /\ TooLong
  BY DEF BreakLiteral
<1> DEFINE content(i) == SubSeq(rest[i].text, 2, Len(rest[i].text) - 1)
<1>2. PICK s \in Split :
         BreakInto(SubSeq(rest, 1, s[1] - 1)
                     \o <<Quoted(rest[s[1]], SubSeq(content(s[1]), 1, s[2]), rest[s[1]].blank), Concat>>,
                   <<Quoted(rest[s[1]], SubSeq(content(s[1]), s[2] + 1, Len(content(s[1]))), FALSE)>>
                     \o SubSeq(rest, s[1] + 1, Len(rest)))
  BY Zenon DEF BreakLiteral
<1>3. /\ Begun /\ column \in Nat /\ rest \in Seq(Tokens) /\ lines \in Seq(Seq(Tokens))
      /\ lines # <<>> => rest[1].kind # "&"
  BY <1>1 DEF ReadInv, LinesSoFar
<1>4. Limit \in Nat
  <2>1. column + 2 \in Nat /\ LineBudget \in Nat
    BY <1>1, <1>3, ColumnTypes
  <2> QED BY <2>1, ArithmeticType, Zenon DEF Limit
<1>5. s \in LiteralSplit(rest, Limit)
  BY DEF Split
<1>6. PICK i \in 1..Len(rest), n \in Nat :
         s = <<i, n>> /\ rest[i].kind = "string" /\ n >= 1 /\ n <= Len(rest[i].text) - 2
  BY <1>3, <1>4, <1>5, LiteralPlace
<1>7. i \in Nat /\ i >= 1 /\ i <= Len(rest) /\ rest[i] \in Tokens
  BY <1>3
<1>8. s[1] = i /\ s[2] = n
  BY <1>6
<1> DEFINE a == FirstPart(rest, i, n)
           b == SecondPart(rest, i, n)
<1>9. BreakInto(a, b)
  <2> HIDE DEF content
  <2>1. BreakInto(SubSeq(rest, 1, i - 1)
                     \o <<Quoted(rest[i], SubSeq(content(i), 1, n), rest[i].blank), Concat>>,
                  <<Quoted(rest[i], SubSeq(content(i), n + 1, Len(content(i))), FALSE)>>
                     \o SubSeq(rest, i + 1, Len(rest)))
    BY <1>2, <1>8, Zenon
  <2>2. /\ Quoted(rest[i], SubSeq(content(i), 1, n), rest[i].blank) = FirstHalf(rest[i], n)
        /\ Quoted(rest[i], SubSeq(content(i), n + 1, Len(content(i))), FALSE)
              = SecondHalf(rest[i], n)
    BY <1>6, <1>7, LiteralIs, Zenon DEF content
  <2> QED BY <2>1, <2>2, Zenon DEF FirstPart, SecondPart
<1>10. /\ a \in Seq(Tokens) /\ b \in Seq(Tokens) /\ a # <<>> /\ b # <<>>
       /\ a[1] = rest[1] \/ a[1].kind = "string"
       /\ b[1].kind = "string"
       /\ Rejoined(AllOf(Append(lines, a)) \o b) = Rejoined(AllOf(lines) \o rest)
  BY <1>3, <1>6, <1>7, LiteralCutReads, Zenon
<1> HIDE DEF a, b
<1>11. (lines # <<>> => a[1].kind # "&") /\ b[1].kind # "&"
  <2>1. "string" # "&"
    OBVIOUS
  <2> QED BY <1>3, <1>10, <2>1, Zenon
<1> QED BY <1>1, <1>9, <1>10, <1>11, BreakKeeps, Zenon

LEMMA ReadJoins ==
    ASSUME ReadInv, JoinStatement
    PROVE  ReadInv'
<1>1. /\ outcome = "unmeasured" /\ Detachable /\ outcome' = "joined" /\ lines' = <<S.tokens>>
      /\ plan' = [plan EXCEPT !.cont = Len(<<S.tokens>>) > 1, !.uniform = S.form = "directive"]
      /\ UNCHANGED <<config, statement>>
  BY DEF JoinStatement, WriteOut, Measured
<1>2. Begun /\ S' = S
  BY <1>1 DEF ReadInv, S
<1>3. S.tokens \in Seq(Tokens)
  BY <1>1, <1>2, TheStatement
<1>4. Begun'
  <2>1. plan'.first_indent = plan.first_indent /\ DOMAIN plan' = DOMAIN plan
    BY <1>1, <1>2 DEF Begun, PlanFields
  <2> QED BY <1>1, <1>2, <2>1 DEF Begun
<1>5. LinesReadAsWritten'
  <2>1. AllOf(lines') = S.tokens
    BY <1>1, <1>3, OneLine
  <2>2. Rejoined(AllOf(lines'))  = Rejoined(S'.tokens)
    BY <1>2, <2>1
  <2>3. S'.comments \subseteq {Cardinality(S'.breaks) + 1}
    BY <1>1, <1>2 DEF Detachable
  <2>4. \A k \in 2..Len(lines') : FALSE
    BY <1>1
  <2> QED BY <2>2, <2>3, <2>4, Zenon DEF LinesReadAsWritten
<1> QED BY <1>1, <1>4, <1>5 DEF ReadInv, Unmeasured, LinesSoFar

LEMMA ReadStartsBreaking ==
    ASSUME ReadInv, StartBreaking
    PROVE  ReadInv'
<1>1. /\ outcome = "unmeasured" /\ outcome' = "breaking"
      /\ S.form = "directive" \/ Detachable
      /\ column' = IF S.form = "directive" THEN plan.first_indent + Len(SentinelText)
                   ELSE FirstBodyColumn
      /\ UNCHANGED <<plan, config, statement, lines, rest, scan>>
  BY DEF StartBreaking, Measured, emitVars
<1>2. Begun /\ S' = S /\ lines = <<>> /\ rest = S.tokens /\ scan = NoAlignment
  BY <1>1 DEF ReadInv, Unmeasured, S
<1>3. S.tokens \in Seq(Tokens) /\ S.tokens # <<>>
      /\ (S.form = "directive" => S.breaks = {} /\ S.comments = {})
  BY <1>1, <1>2, TheStatement
<1>4. Begun'
  BY <1>1, <1>2 DEF Begun
<1>5. column' \in Nat
  BY <1>1, <1>2, ColumnTypes, ConfigFacts
<1>6. AllOf(lines') \o rest' = S.tokens
  <2>1. <<>> \o S.tokens = S.tokens
    BY <1>3
  <2> QED BY <1>1, <1>2, <2>1, AllNone
<1>7. lines' \in Seq(Seq(Tokens)) /\ Len(lines') = 0
  BY <1>1, <1>2
<1>8. S'.comments \subseteq {Cardinality(S'.breaks) + 1}
  BY <1>1, <1>2, <1>3 DEF Detachable
<1>9. \A k \in 2..Len(lines') : FALSE
  BY <1>7
<1>10. scan' \in ScanStates /\ rest' \in Seq(Tokens) /\ rest' # <<>> /\ lines' = <<>>
  BY <1>1, <1>2, <1>3, NoAlignmentType
<1>11. Rejoined(AllOf(lines') \o rest') = Rejoined(S'.tokens)
  BY <1>2, <1>6
<1>12. LinesSoFar'
  BY <1>5, <1>7, <1>8, <1>9, <1>10, <1>11, Zenon DEF LinesSoFar
<1> QED BY <1>1, <1>4, <1>12 DEF ReadInv, Unmeasured, LinesReadAsWritten

LEMMA ReadFinishes ==
    ASSUME ReadInv, FinishStatement
    PROVE  ReadInv'
<1>1. /\ outcome = "breaking" /\ outcome' = "wrapped" /\ lines' = Append(lines, rest)
      /\ plan' = [plan EXCEPT !.cont = Len(Append(lines, rest)) > 1,
                              !.uniform = S.form = "directive"]
      /\ UNCHANGED <<config, statement>>
  BY DEF FinishStatement, WriteOut
<1>2. S' = S
  BY <1>1 DEF S
<1>3. /\ Begun /\ lines \in Seq(Seq(Tokens)) /\ rest \in Seq(Tokens) /\ rest # <<>>
      /\ Rejoined(AllOf(lines) \o rest) = Rejoined(S.tokens)
      /\ lines # <<>> => rest[1].kind # "&"
      /\ \A k \in 2..Len(lines) : lines[k] # <<>> /\ lines[k][1].kind # "&"
      /\ S.comments \subseteq {Cardinality(S.breaks) + 1}
  BY <1>1 DEF ReadInv, LinesSoFar
<1>4. Begun'
  <2>1. plan'.first_indent = plan.first_indent /\ DOMAIN plan' = DOMAIN plan
    BY <1>1, <1>3 DEF Begun, PlanFields
  <2> QED BY <1>1, <1>3, <2>1 DEF Begun
<1>5. /\ Len(lines') = Len(lines) + 1 /\ Len(lines) \in Nat
      /\ \A k \in 1..Len(lines) : lines'[k] = lines[k]
      /\ lines'[Len(lines) + 1] = rest
  BY <1>1, <1>3, AppendProperties
<1>6. AllOf(lines') = AllOf(lines) \o rest
  BY <1>1, <1>3, AllAppend
<1>7. \A k \in 2..Len(lines') : lines'[k] # <<>> /\ lines'[k][1].kind # "&"
  <2> TAKE k \in 2..Len(lines')
  <2>1. CASE k \in 2..Len(lines)
    <3>1. k \in 1..Len(lines)
      BY <1>5, <2>1
    <3> QED BY <1>3, <1>5, <2>1, <3>1, Zenon
  <2>2. CASE k = Len(lines) + 1
    <3>1. lines # <<>>
      BY <1>5, <2>2
    <3> QED BY <1>3, <1>5, <2>2, <3>1
  <2> QED BY <1>5, <2>1, <2>2
<1>8. Rejoined(AllOf(lines')) = Rejoined(S'.tokens)
  BY <1>2, <1>3, <1>6
<1>9. LinesReadAsWritten'
  BY <1>2, <1>3, <1>7, <1>8, Zenon DEF LinesReadAsWritten
<1> QED BY <1>1, <1>4, <1>9 DEF ReadInv, Unmeasured, LinesSoFar

LEMMA ReadStays ==
    ASSUME ReadInv, UNCHANGED <<config, plan, reflowVars>>
    PROVE  ReadInv'
<1>1. S' = S
  BY DEF S, reflowVars
<1> QED BY <1>1 DEF ReadInv, Begun, Unmeasured, LinesSoFar, LinesReadAsWritten, reflowVars

LEMMA ReadIsCopied ==
    ASSUME ReadInv, outcome # "none", NEW how \in {"copied", "declined"}, WriteCopy(how)
    PROVE  ReadInv'
<1>1. outcome' = how /\ UNCHANGED <<config, plan, statement, lines>>
  BY DEF WriteCopy
<1>2. Begun'
  BY <1>1 DEF ReadInv, Begun
<1>3. outcome' \notin {"unmeasured", "breaking", "joined", "wrapped"}
  BY <1>1
<1> QED BY <1>2, <1>3 DEF ReadInv, Begun, Unmeasured, LinesSoFar, LinesReadAsWritten

LEMMA ReadStep ==
    ASSUME ReadInv, [ReflowNext]_vars
    PROVE  ReadInv'
<1>1. CASE (EmitUniform \/ EmitCode) /\ outcome # "breaking" /\ UNCHANGED reflowVars
  BY <1>1, ReadStays DEF EmitUniform, EmitCode
<1>2. CASE EmitAgain /\ Settled /\ UNCHANGED reflowVars
  BY <1>2, ReadStays DEF EmitAgain
<1>3. CASE KeepStatement
  BY <1>3, ReadIsCopied DEF KeepStatement, Measured
<1>4. CASE KeepDirective
  BY <1>4, ReadIsCopied DEF KeepDirective, Measured
<1>5. CASE DeclineStatement
  BY <1>5, ReadIsCopied DEF DeclineStatement
<1>6. CASE UNCHANGED vars
  BY <1>6, ReadStays DEF vars, emitVars
<1> QED BY <1>1, <1>2, <1>3, <1>4, <1>5, <1>6, ReadJoins, ReadStartsBreaking, ReadBreaksStatement,
           ReadBreaksLiteral, ReadFinishes DEF ReflowNext

\* LinesReadAsWritten (I3, I5): wrap_body loses no token at a seam and opens no
\* line with a marker, whatever the statement, its literals and the settings are.
THEOREM StatementReads == ReflowSpec => []LinesReadAsWritten
<1>1. ReadInv => LinesReadAsWritten
  BY DEF ReadInv
<1> QED BY <1>1, ReadStarts, ReadStep, PTL DEF ReflowSpec
-----------------------------------------------------------------------------
(* max_indent, and the alignment of two walks over the same cells *)

\* What the layout writes at a, the wrapper has charged with c.
Under(n, a, c) == n + Clamp(a) <= c

LEMMA ClampAdds ==
    ASSUME config.max_indent \in Nat, NEW a \in Nat, NEW b \in Nat
    PROVE  /\ Clamp(a) \in Nat /\ Clamp(a) <= a
           /\ a <= b => Clamp(a) <= Clamp(b)
           /\ Clamp(a + b) <= Clamp(a) + b
BY DEF Clamp, AtMost

\* Further down the line, and at a column no further out.
LEMMA UnderMoves ==
    ASSUME config.max_indent \in Nat, NEW n \in Nat, NEW a \in Nat, NEW c \in Nat, Under(n, a, c)
    PROVE  /\ \A m \in Nat : Under(n, a + m, c + m)
           /\ \A m \in Nat : m <= a => Under(n, m, c)
           /\ Clamp(a) <= c
<1>1. Clamp(a) \in Nat /\ n + Clamp(a) <= c
  BY ClampAdds DEF Under
<1>2. ASSUME NEW m \in Nat PROVE Under(n, a + m, c + m)
  <2>1. a + m \in Nat
    OBVIOUS
  <2>2. Clamp(a + m) <= Clamp(a) + m /\ Clamp(a + m) \in Nat
    BY <2>1, ClampAdds
  <2> QED BY <1>1, <2>2 DEF Under
<1>3. ASSUME NEW m \in Nat, m <= a PROVE Under(n, m, c)
  <2>1. Clamp(m) <= Clamp(a) /\ Clamp(m) \in Nat
    BY <1>3, ClampAdds
  <2> QED BY <1>1, <2>1 DEF Under
<1> QED BY <1>1, <1>2, <1>3

\* Delimiters open in both, at columns the layout does not exceed.
Aligned(n, u, v) ==
    /\ Len(u) = Len(v)
    /\ \A i \in 1..Len(u) : /\ u[i].first_item_seen = v[i].first_item_seen
                            /\ Under(n, v[i].alignment, u[i].alignment)

Near(n, u, v) ==
    /\ u.quote = v.quote /\ u.comment = v.comment /\ Aligned(n, u.stack, v.stack)
    /\ Clamp(v.indent) <= u.indent
    /\ u.stack # <<>> => Under(n, v.indent, u.indent)

LEMMA AlignedEmpty ==
    ASSUME NEW n, NEW u \in Seq(Openings), NEW v \in Seq(Openings), Aligned(n, u, v)
    PROVE  /\ u = <<>> <=> v = <<>>
           /\ u # <<>> => /\ Len(u) > 0 /\ Len(v) = Len(u)
                          /\ Top(u).first_item_seen = Top(v).first_item_seen
                          /\ Under(n, Top(v).alignment, Top(u).alignment)
<1>1. Len(u) = Len(v) /\ Len(u) \in Nat
  BY DEF Aligned
<1>2. u = <<>> <=> v = <<>>
  BY <1>1
<1>3. ASSUME u # <<>>
      PROVE  /\ Len(u) > 0 /\ Top(u).first_item_seen = Top(v).first_item_seen
             /\ Under(n, Top(v).alignment, Top(u).alignment)
  <2>1. Len(u) > 0 /\ Len(u) \in 1..Len(u)
    BY <1>3
  <2> QED BY <1>1, <2>1, Zenon DEF Aligned, Top
<1> QED BY <1>1, <1>2, <1>3

LEMMA TopIs ==
    ASSUME NEW s \in Seq(Openings), s # <<>>
    PROVE  Top(s) \in Openings /\ Top(s).alignment \in Nat
<1>1. Len(s) \in 1..Len(s)
  OBVIOUS
<1>2. Top(s) \in Openings
  BY <1>1 DEF Top
<1> QED BY <1>2 DEF Openings

LEMMA HeldAligned ==
    ASSUME NEW n, NEW u \in Seq(Openings), NEW v \in Seq(Openings), Aligned(n, u, v)
    PROVE  Aligned(n, Held(u), Held(v))
<1>1. Len(u) = Len(v)
  BY DEF Aligned
<1>2. Len(Held(u)) = Len(u) /\ Len(Held(v)) = Len(u)
  BY <1>1, HeldIs
<1>3. ASSUME NEW i \in 1..Len(u)
      PROVE  /\ Held(u)[i].first_item_seen = Held(v)[i].first_item_seen
             /\ Under(n, Held(v)[i].alignment, Held(u)[i].alignment)
  <2>1. u[i].first_item_seen = v[i].first_item_seen /\ Under(n, v[i].alignment, u[i].alignment)
    BY DEF Aligned
  <2>2. /\ Held(u)[i].alignment = u[i].alignment /\ Held(v)[i].alignment = v[i].alignment
        /\ Held(u)[i].first_item_seen = (i = Len(u) \/ u[i].first_item_seen)
        /\ Held(v)[i].first_item_seen = (i = Len(u) \/ v[i].first_item_seen)
    BY <1>1, HeldIs
  <2> QED BY <2>1, <2>2, Zenon
<1> QED BY <1>2, <1>3, Zenon DEF Aligned

LEMMA ShorterAligned ==
    ASSUME NEW n, NEW u \in Seq(Openings), NEW v \in Seq(Openings), Aligned(n, u, v)
    PROVE  Aligned(n, Shorter(u), Shorter(v))
<1>1. Len(u) = Len(v) /\ Len(u) \in Nat
  BY DEF Aligned
<1>2. /\ Len(Shorter(u)) = IF Len(u) = 0 THEN 0 ELSE Len(u) - 1
      /\ Len(Shorter(v)) = IF Len(u) = 0 THEN 0 ELSE Len(u) - 1
      /\ \A i \in 1..Len(Shorter(u)) : Shorter(u)[i] = u[i]
      /\ \A i \in 1..Len(Shorter(v)) : Shorter(v)[i] = v[i]
  BY <1>1, ShorterIs
<1>3. \A i \in 1..Len(Shorter(u)) : i \in 1..Len(u) /\ i \in 1..Len(Shorter(v))
  BY <1>1, <1>2
<1> QED BY <1>2, <1>3, Zenon DEF Aligned

LEMMA AppendAligned ==
    ASSUME NEW n, NEW u \in Seq(Openings), NEW v \in Seq(Openings), Aligned(n, u, v),
           NEW p \in Nat, NEW q \in Nat, Under(n, q, p)
    PROVE  Aligned(n, Append(u, [alignment |-> p, first_item_seen |-> FALSE]),
                      Append(v, [alignment |-> q, first_item_seen |-> FALSE]))
<1> DEFINE a == [alignment |-> p, first_item_seen |-> FALSE]
           b == [alignment |-> q, first_item_seen |-> FALSE]
           x == Append(u, a)
           y == Append(v, b)
<1>1. Len(u) = Len(v) /\ Len(u) \in Nat
  BY DEF Aligned
<1>2. a \in Openings /\ b \in Openings
  BY DEF Openings
<1>3. a.alignment = p /\ b.alignment = q /\ a.first_item_seen = b.first_item_seen
  OBVIOUS
<1> HIDE DEF a, b
<1>4. /\ Len(x) = Len(u) + 1 /\ \A i \in 1..Len(u) : x[i] = u[i]
      /\ x[Len(u) + 1] = a
  BY <1>2, AppendProperties
<1>5. /\ Len(y) = Len(u) + 1 /\ \A i \in 1..Len(u) : y[i] = v[i]
      /\ y[Len(u) + 1] = b
  BY <1>1, <1>2, AppendProperties
<1> HIDE DEF x, y
<1>6. ASSUME NEW i \in 1..Len(x)
      PROVE  /\ x[i].first_item_seen = y[i].first_item_seen
             /\ Under(n, y[i].alignment, x[i].alignment)
  <2>1. i \in 1..Len(u) \/ i = Len(u) + 1
    BY <1>1, <1>4
  <2>2. CASE i \in 1..Len(u)
    BY <1>4, <1>5, <2>2, Zenon DEF Aligned
  <2>3. CASE i = Len(u) + 1
    BY <1>3, <1>4, <1>5, <2>3, Zenon
  <2> QED BY <2>1, <2>2, <2>3
<1>7. Len(x) = Len(y)
  BY <1>4, <1>5
<1>8. Aligned(n, x, y)
  BY <1>6, <1>7, Zenon DEF Aligned
<1> QED BY <1>8 DEF a, b, x, y

LEMMA ItemAligned ==
    ASSUME NEW n, NEW u \in Seq(Openings), NEW v \in Seq(Openings), Aligned(n, u, v), u # <<>>,
           NEW p \in Nat, NEW q \in Nat, Under(n, q, p)
    PROVE  Aligned(n, [u EXCEPT ![Len(u)] = [alignment |-> p, first_item_seen |-> TRUE]],
                      [v EXCEPT ![Len(v)] = [alignment |-> q, first_item_seen |-> TRUE]])
<1> DEFINE a == [alignment |-> p, first_item_seen |-> TRUE]
           b == [alignment |-> q, first_item_seen |-> TRUE]
           x == [u EXCEPT ![Len(u)] = a]
           y == [v EXCEPT ![Len(v)] = b]
<1>1. Len(u) = Len(v) /\ Len(u) \in 1..Len(u)
  BY DEF Aligned
<1>2. a \in Openings /\ b \in Openings
  BY DEF Openings
<1>3. a.alignment = p /\ b.alignment = q /\ a.first_item_seen = b.first_item_seen
  OBVIOUS
<1> HIDE DEF a, b
<1>4. Len(x) = Len(u) /\ \A i \in 1..Len(u) : x[i] = IF i = Len(u) THEN a ELSE u[i]
  BY <1>1, <1>2, ExceptSeq
<1>5. Len(y) = Len(u) /\ \A i \in 1..Len(u) : y[i] = IF i = Len(u) THEN b ELSE v[i]
  BY <1>1, <1>2, ExceptSeq
<1> HIDE DEF x, y
<1>6. ASSUME NEW i \in 1..Len(x)
      PROVE  /\ x[i].first_item_seen = y[i].first_item_seen
             /\ Under(n, y[i].alignment, x[i].alignment)
  <2>1. i \in 1..Len(u)
    BY <1>4
  <2>2. CASE i # Len(u)
    BY <1>4, <1>5, <2>1, <2>2, Zenon DEF Aligned
  <2>3. CASE i = Len(u)
    BY <1>3, <1>4, <1>5, <2>1, <2>3, Zenon
  <2> QED BY <2>2, <2>3
<1>7. Aligned(n, x, y)
  BY <1>4, <1>5, <1>6, Zenon DEF Aligned
<1> QED BY <1>7 DEF a, b, x, y

\* Two walks that meet the same cell stay beside each other.
LEMMA ItemNear ==
    ASSUME config.max_indent \in Nat, NEW n \in Nat, NEW u \in Accs, NEW v \in Accs, Near(n, u, v),
           NEW p \in Nat, NEW q \in Nat, Under(n, q, p)
    PROVE  Near(n, FirstItem(u, p), FirstItem(v, q))
<1> DEFINE a == FirstItem(u, p)
           b == FirstItem(v, q)
<1>1. /\ u.stack \in Seq(Openings) /\ v.stack \in Seq(Openings) /\ u.quote = v.quote
      /\ u.comment = v.comment /\ Aligned(n, u.stack, v.stack)
  BY DEF Accs, Near
<1>2. /\ u.stack = <<>> <=> v.stack = <<>>
      /\ u.stack # <<>> => Top(u.stack).first_item_seen = Top(v.stack).first_item_seen
  BY <1>1, AlignedEmpty
<1>3. a.quote = b.quote /\ a.comment = b.comment
  BY <1>1, FirstItemIs
<1>4. CASE u.stack = <<>> \/ Top(u.stack).first_item_seen
  <2>1. v.stack = <<>> \/ Top(v.stack).first_item_seen
    BY <1>2, <1>4
  <2>2. a = u /\ b = v
    BY <1>4, <2>1, FirstItemIs
  <2> QED BY <2>2
<1>5. CASE ~(u.stack = <<>> \/ Top(u.stack).first_item_seen)
  <2>1. ~(v.stack = <<>> \/ Top(v.stack).first_item_seen)
    BY <1>2, <1>5
  <2>2. /\ a.indent = p /\ b.indent = q
        /\ a.stack = [u.stack EXCEPT ![Len(u.stack)] =
                         [alignment |-> p, first_item_seen |-> TRUE]]
        /\ b.stack = [v.stack EXCEPT ![Len(v.stack)] =
                         [alignment |-> q, first_item_seen |-> TRUE]]
    BY <1>5, <2>1, FirstItemIs
  <2>3. Aligned(n, a.stack, b.stack)
    BY <1>1, <1>5, <2>2, ItemAligned
  <2>4. Clamp(b.indent) <= a.indent /\ Under(n, b.indent, a.indent)
    BY <2>2, UnderMoves
  <2> QED BY <1>3, <2>3, <2>4, Zenon DEF Near
<1> QED BY <1>4, <1>5

LEMMA OpenedNear ==
    ASSUME config.max_indent \in Nat, NEW n \in Nat, NEW u \in Accs, NEW v \in Accs, Near(n, u, v),
           NEW p \in Nat, NEW q \in Nat, Under(n, q, p)
    PROVE  Near(n, Opened(u, p), Opened(v, q))
<1> DEFINE a == Opened(u, p)
           b == Opened(v, q)
<1>1. /\ u.stack \in Seq(Openings) /\ v.stack \in Seq(Openings) /\ u.quote = v.quote
      /\ u.comment = v.comment /\ Aligned(n, u.stack, v.stack)
  BY DEF Accs, Near
<1>2. /\ a.quote = b.quote /\ a.comment = b.comment /\ a.indent = p /\ b.indent = q
      /\ a.stack = Append(Held(u.stack), [alignment |-> p, first_item_seen |-> FALSE])
      /\ b.stack = Append(Held(v.stack), [alignment |-> q, first_item_seen |-> FALSE])
  BY <1>1, OpenedIs
<1>3. Held(u.stack) \in Seq(Openings) /\ Held(v.stack) \in Seq(Openings)
      /\ Aligned(n, Held(u.stack), Held(v.stack))
  BY <1>1, HeldIs, HeldAligned
<1>4. Aligned(n, a.stack, b.stack)
  BY <1>2, <1>3, AppendAligned
<1>5. Clamp(b.indent) <= a.indent /\ Under(n, b.indent, a.indent)
  BY <1>2, UnderMoves
<1> QED BY <1>2, <1>4, <1>5, Zenon DEF Near

LEMMA ClosedNear ==
    ASSUME config.max_indent \in Nat, NEW n \in Nat, NEW u \in Accs, NEW v \in Accs, Near(n, u, v),
           NEW s \in Nat, NEW t \in Nat, Under(n, t, s)
    PROVE  Near(n, Closed(u, s), Closed(v, t))
<1> DEFINE a == Closed(u, s)
           b == Closed(v, t)
           x == Shorter(u.stack)
           y == Shorter(v.stack)
<1>1. /\ u.stack \in Seq(Openings) /\ v.stack \in Seq(Openings) /\ u.quote = v.quote
      /\ u.comment = v.comment /\ Aligned(n, u.stack, v.stack)
  BY DEF Accs, Near
<1>2. /\ a.quote = b.quote /\ a.comment = b.comment
      /\ a.stack = x /\ b.stack = y
      /\ a.indent = IF x = <<>> THEN s ELSE Top(x).alignment
      /\ b.indent = IF y = <<>> THEN t ELSE Top(y).alignment
  BY <1>1, ClosedIs
<1>3. x \in Seq(Openings) /\ y \in Seq(Openings) /\ Aligned(n, x, y)
  BY <1>1, ShorterIs, ShorterAligned
<1> HIDE DEF a, b, x, y
<1>4. /\ x = <<>> <=> y = <<>>
      /\ x # <<>> => Under(n, Top(y).alignment, Top(x).alignment)
  BY <1>3, AlignedEmpty
<1>5. CASE x = <<>>
  <2>1. a.indent = s /\ b.indent = t /\ a.stack = <<>>
    BY <1>2, <1>4, <1>5
  <2>2. Clamp(b.indent) <= a.indent
    BY <2>1, UnderMoves
  <2> QED BY <1>2, <1>3, <2>1, <2>2, Zenon DEF Near, a, b
<1>6. CASE x # <<>>
  <2>1. a.indent = Top(x).alignment /\ b.indent = Top(y).alignment /\ y # <<>>
    BY <1>2, <1>4, <1>6
  <2>2. Top(x).alignment \in Nat /\ Top(y).alignment \in Nat
    BY <1>3, <1>6, <2>1, TopIs
  <2>3. Under(n, b.indent, a.indent)
    BY <1>4, <1>6, <2>1
  <2>4. Clamp(b.indent) <= a.indent
    BY <2>1, <2>2, <2>3, UnderMoves
  <2> QED BY <1>2, <1>3, <2>3, <2>4, Zenon DEF Near, a, b
<1> QED BY <1>5, <1>6

LEMMA MarkedNear ==
    ASSUME NEW n, NEW u \in Accs, NEW v \in Accs, Near(n, u, v)
    PROVE  Near(n, Toggled(u), Toggled(v)) /\ Near(n, Commented(u), Commented(v))
<1>1. Near(n, Toggled(u), Toggled(v))
  BY MarkedIs DEF Near
<1>2. Near(n, Commented(u), Commented(v))
  BY MarkedIs DEF Near
<1> QED BY <1>1, <1>2

LEMMA DoneNear ==
    ASSUME config.max_indent \in Nat, NEW n \in Nat, NEW u \in Accs, NEW v \in Accs, Near(n, u, v),
           NEW p \in Nat, NEW q \in Nat, Under(n, q, p),
           NEW s \in Nat, NEW t \in Nat, Under(n, t, s), NEW cell
    PROVE  Near(n, Done(u, Does(u, cell), p, s), Done(v, Does(v, cell), q, t))
<1>1. Does(u, cell) = Does(v, cell)
  BY Zenon DEF Does, Near
<1>2. /\ Near(n, FirstItem(u, p), FirstItem(v, q))
      /\ Near(n, Opened(u, p), Opened(v, q))
      /\ Near(n, Closed(u, s), Closed(v, t))
      /\ Near(n, Toggled(u), Toggled(v)) /\ Near(n, Commented(u), Commented(v))
  BY ItemNear, OpenedNear, ClosedNear, MarkedNear
<1>3. Near(n, Toggled(FirstItem(u, p)), Toggled(FirstItem(v, q)))
  BY <1>2, FirstItemIs, MarkedNear
<1> DEFINE d == Does(u, cell)
<1> HIDE DEF d
<1>4. Near(n, Done(u, d, p, s), Done(v, d, q, t))
  BY <1>2, <1>3, Zenon DEF Done
<1> QED BY <1>1, <1>4, Zenon DEF d

\* The states between lines.
Abreast(n, u, v) ==
    /\ u.quote = v.quote /\ Aligned(n, u.stack, v.stack)
    /\ Clamp(v.prev_indent) <= u.prev_indent
    /\ u.stack # <<>> => Under(n, v.prev_indent, u.prev_indent)

Beside(n, u, v) ==
    /\ Abreast(n, u, v)
    /\ u.start_indent >= 0 /\ v.start_indent >= 0 /\ Under(n, v.start_indent, u.start_indent)

\* The digits of a label and the blank behind them open nothing and align nothing.
Inert(state, cells) ==
    cells = <<>> \/ /\ state.stack = <<>> /\ ~state.quote
                    /\ \A i \in 1..Len(cells) : cells[i] \in {"1", "_"}

Idle(acc, cell) ==
    acc.stack = <<>> /\ ~acc.quote /\ ~acc.comment /\ cell \in {"1", "_"}

LEMMA InertStays ==
    ASSUME NEW acc \in Accs, NEW cell, Idle(acc, cell), NEW p \in Nat, NEW t \in Nat
    PROVE  Done(acc, Does(acc, cell), p, t) = acc
<1> USE DEF Idle
<1>1. Does(acc, cell) = "nothing" \/ Does(acc, cell) = "item"
  <2>1. CASE cell = "1"
    <3>1. Does(acc, "1") = "item"
      BY DEF Does
    <3> QED BY <2>1, <3>1
  <2>2. CASE cell = "_"
    <3>1. Does(acc, "_") = "nothing"
      BY DEF Does
    <3> QED BY <2>2, <3>1
  <2> QED BY <2>1, <2>2
<1>2. FirstItem(acc, p) = acc
  BY FirstItemIs
<1>3. Done(acc, "nothing", p, t) = acc /\ Done(acc, "item", p, t) = acc
  BY <1>2 DEF Done
<1> QED BY <1>1, <1>3

LEMMA ScanWalk ==
    ASSUME NEW state \in ScanStates, NEW cells \in Seq(Cells), NEW target \in Nat
    PROVE  \E w : /\ w[0] = ScanFirst(state) /\ \A i \in 0..Len(cells) : w[i] \in Accs
                  /\ \A i \in 0..Len(cells) : i < Len(cells) =>
                         w[i + 1] = Done(w[i], Does(w[i], cells[i + 1]),
                                         ScanOrigin(state, target) + i, ScanStart(state, target))
                  /\ Scan(state, cells, target)
                        = [stack |-> w[Len(cells)].stack, quote |-> w[Len(cells)].quote,
                           prev_indent |-> w[Len(cells)].indent,
                           start_indent |-> ScanStart(state, target)]
<1> DEFINE m == Len(cells)
<1>1. m \in Nat
  OBVIOUS
<1>2. PICK w : /\ IsScan(state, cells, target, m, w)
               /\ Scan(state, cells, target)
                     = [stack |-> w[m].stack, quote |-> w[m].quote, prev_indent |-> w[m].indent,
                        start_indent |-> ScanStart(state, target)]
  BY <1>1, ScanIs, Zenon
<1> HIDE DEF m
<1>3. /\ w[0] = ScanFirst(state) /\ \A i \in 0..m : w[i] \in Accs
      /\ \A i \in 0..m : i < m =>
            w[i + 1] = Done(w[i], Does(w[i], cells[i + 1]),
                            ScanOrigin(state, target) + i, ScanStart(state, target))
  <2>1. IsScan(state, cells, target, m, w)
    BY <1>2, Zenon
  <2> QED BY <1>1, <2>1, ScanSteps
<1> QED BY <1>2, <1>3, Zenon DEF m

LEMMA ScanBeside ==
    ASSUME config.max_indent \in Nat, NEW n \in Nat,
           NEW u \in ScanStates, NEW v \in ScanStates, Abreast(n, u, v),
           NEW a \in Seq(Cells), NEW b \in Seq(Cells), Inert(v, a), NEW c \in Nat, NEW t \in Nat,
           Under(n, ScanOrigin(v, t) + Len(a), ScanOrigin(u, c)),
           Under(n, ScanStart(v, t), ScanStart(u, c))
    PROVE  Beside(n, Scan(u, b, c), Scan(v, a \o b, t))
<1> DEFINE ab == a \o b
           o == ScanOrigin(u, c)
           q == ScanOrigin(v, t)
           s == ScanStart(u, c)
           r == ScanStart(v, t)
<1>1. /\ ab \in Seq(Cells) /\ Len(ab) = Len(a) + Len(b)
      /\ \A k \in 1..Len(a) + Len(b) : ab[k] = IF k <= Len(a) THEN a[k] ELSE b[k - Len(a)]
  BY ConcatProperties
<1>2. ScanFirst(u) \in Accs /\ ScanFirst(v) \in Accs /\ o \in Nat /\ q \in Nat
      /\ s \in Nat /\ r \in Nat
  BY ScanRules
<1>3. Near(n, ScanFirst(u), ScanFirst(v))
  BY DEF Near, Abreast, ScanFirst
<1>4. Len(a) \in Nat /\ Len(b) \in Nat /\ Len(ab) \in Nat
  BY <1>1
<1> DEFINE la == Len(a)
           lb == Len(b)
<1> HIDE DEF ab, o, q, s, r
<1>7. PICK w : /\ w[0] = ScanFirst(u) /\ \A i \in 0..lb : w[i] \in Accs
               /\ \A i \in 0..lb : i < lb =>
                      w[i + 1] = Done(w[i], Does(w[i], b[i + 1]), o + i, s)
               /\ Scan(u, b, c) = [stack |-> w[lb].stack, quote |-> w[lb].quote,
                                   prev_indent |-> w[lb].indent, start_indent |-> s]
  BY ScanWalk, Zenon DEF s, o
<1>8. PICK x : /\ x[0] = ScanFirst(v) /\ \A i \in 0..Len(ab) : x[i] \in Accs
               /\ \A i \in 0..Len(ab) : i < Len(ab) =>
                      x[i + 1] = Done(x[i], Does(x[i], ab[i + 1]), q + i, r)
               /\ Scan(v, ab, t) = [stack |-> x[Len(ab)].stack, quote |-> x[Len(ab)].quote,
                                    prev_indent |-> x[Len(ab)].indent, start_indent |-> r]
  BY <1>1, ScanWalk, Zenon DEF q, r
<1>9. Len(ab) = la + lb /\ la \in Nat /\ lb \in Nat
  BY <1>1, <1>4
<1> HIDE DEF la, lb
<1> DEFINE F == {i \in 0..la : x[i] = ScanFirst(v)}
<1>10. 0 \in F
  BY <1>8, <1>9
<1>11. ASSUME NEW i \in 0..la, i < la, i \in F PROVE i + 1 \in F
  <2>1. i \in 0..Len(ab) /\ i < Len(ab) /\ i + 1 \in 0..la /\ i + 1 \in 1..la
        /\ i + 1 \in 1..la + lb /\ i + 1 <= la /\ q + i \in Nat
    BY <1>2, <1>9, <1>11
  <2>2. ab[i + 1] = a[i + 1]
    BY <1>1, <2>1 DEF la, lb
  <2>3. a # <<>>
    BY <1>9, <2>1 DEF la
  <2>4. a[i + 1] \in {"1", "_"} /\ v.stack = <<>> /\ ~v.quote
    BY <2>1, <2>3, Zenon DEF Inert, la
  <2>5. ScanFirst(v).stack = <<>> /\ ~ScanFirst(v).quote /\ ~ScanFirst(v).comment
    BY <2>4 DEF ScanFirst
  <2>6. x[i + 1] = Done(ScanFirst(v), Does(ScanFirst(v), a[i + 1]), q + i, r)
    BY <1>8, <1>11, <2>1, <2>2, Zenon
  <2>7. x[i + 1] = ScanFirst(v)
    <3>1. Done(ScanFirst(v), Does(ScanFirst(v), a[i + 1]), q + i, r) = ScanFirst(v)
      <4> DEFINE f == ScanFirst(v)
                 d == a[i + 1]
                 m == q + i
      <4>1. f \in Accs /\ Idle(f, d) /\ m \in Nat /\ r \in Nat
        BY <1>2, <2>1, <2>4, <2>5 DEF Idle
      <4> HIDE DEF f, d, m
      <4>2. Done(f, Does(f, d), m, r) = f
        BY <4>1, InertStays, Zenon
      <4> QED BY <4>2 DEF f, d, m
    <3> QED BY <2>6, <3>1, Zenon
  <2> QED BY <2>1, <2>7
<1>12. x[la] = ScanFirst(v)
  <2>1. 0..la \subseteq F
    <3> HIDE DEF F
    <3> QED BY <1>9, <1>10, <1>11, UpTo
  <2> QED BY <1>9, <2>1
<1> DEFINE G == {i \in 0..lb : Near(n, w[i], x[la + i])}
<1>13. 0 \in G
  <2>1. la + 0 = la /\ 0 \in 0..lb
    BY <1>9
  <2> QED BY <1>3, <1>7, <1>12, <2>1, Zenon
<1>14. ASSUME NEW i \in 0..lb, i < lb, i \in G PROVE i + 1 \in G
  <2>1. /\ la + i \in 0..Len(ab) /\ la + i < Len(ab) /\ i + 1 \in 0..lb
        /\ la + i + 1 \in 1..la + lb /\ ~(la + i + 1 <= la) /\ (la + i + 1) - la = i + 1
        /\ o + i \in Nat /\ q + (la + i) \in Nat /\ q + (la + i) = (q + la) + i
        /\ la + (i + 1) = la + i + 1 /\ i \in Nat /\ q + la \in Nat
    BY <1>2, <1>9, <1>14
  <2>2. ab[la + i + 1] = b[i + 1]
    <3>1. \A k \in 1..la + lb : ab[k] = IF k <= la THEN a[k] ELSE b[k - la]
      BY <1>1, Zenon DEF la, lb
    <3>2. ab[la + i + 1] = b[(la + i + 1) - la]
      BY <2>1, <3>1, Zenon
    <3> QED BY <2>1, <3>2, Zenon
  <2>3. Near(n, w[i], x[la + i]) /\ w[i] \in Accs /\ x[la + i] \in Accs
    BY <1>7, <1>8, <1>14, <2>1
  <2>4. Under(n, q + (la + i), o + i)
    <3>1. Under(n, q + la, o)
      BY Zenon DEF q, o, la
    <3>2. Under(n, (q + la) + i, o + i)
      BY <1>2, <2>1, <3>1, UnderMoves, Zenon
    <3> QED BY <2>1, <3>2, Zenon
  <2>5. Under(n, r, s)
    BY Zenon DEF r, s
  <2>6. Near(n, Done(w[i], Does(w[i], b[i + 1]), o + i, s),
                Done(x[la + i], Does(x[la + i], b[i + 1]), q + (la + i), r))
    BY <1>2, <2>1, <2>3, <2>4, <2>5, DoneNear, Zenon
  <2>7. /\ w[i + 1] = Done(w[i], Does(w[i], b[i + 1]), o + i, s)
        /\ x[la + i + 1] = Done(x[la + i], Does(x[la + i], b[i + 1]), q + (la + i), r)
    BY <1>7, <1>8, <1>14, <2>1, <2>2, Zenon
  <2>8. Near(n, w[i + 1], x[la + (i + 1)])
    BY <2>1, <2>6, <2>7, Zenon
  <2> QED BY <2>1, <2>8
<1>15. Near(n, w[lb], x[Len(ab)])
  <2>1. 0..lb \subseteq G
    <3> HIDE DEF G
    <3> QED BY <1>9, <1>13, <1>14, UpTo
  <2>2. lb \in G
    BY <1>9, <2>1
  <2> QED BY <1>9, <2>2
<1> DEFINE y == w[lb]
           z == x[Len(ab)]
<1>16. /\ Scan(u, b, c) = [stack |-> y.stack, quote |-> y.quote, prev_indent |-> y.indent,
                           start_indent |-> s]
       /\ Scan(v, ab, t) = [stack |-> z.stack, quote |-> z.quote, prev_indent |-> z.indent,
                            start_indent |-> r]
  BY <1>7, <1>8, Zenon
<1> HIDE DEF y, z
<1>17. Abreast(n, Scan(u, b, c), Scan(v, ab, t))
  BY <1>15, <1>16 DEF Near, Abreast, y, z
<1>18. Scan(u, b, c).start_indent = s /\ Scan(v, ab, t).start_indent = r
  BY <1>16
<1>19. Under(n, r, s) /\ s >= 0 /\ r >= 0
  BY <1>2 DEF r, s
<1> QED BY <1>17, <1>18, <1>19 DEF Beside, ab
-----------------------------------------------------------------------------
(* The text of a line *)

Ink(cells, i)   == cells[i] # "_"
Digit(cells, i) == cells[i] = "1"
Digits(n)       == [i \in 1..n |-> "1"]
Inked(cells)    == {i \in 1..Len(cells) : Ink(cells, i)}

LEMMA LastInk ==
    ASSUME NEW n \in Nat, NEW Z, Z \subseteq 1..n
    PROVE  /\ Z # {} => \E i \in Z : \A j \in Z : j <= i
           /\ \A i \in Z : (\A j \in Z : j <= i) =>
                 (CHOOSE k \in Z : \A j \in Z : j <= k) = i
<1>1. ASSUME Z # {} PROVE \E i \in Z : \A j \in Z : j <= i
  <2>1. SUFFICES ASSUME \A i \in Z : \E j \in Z : ~(j <= i) PROVE FALSE
    BY Zenon
  <2>2. PICK e \in Z : TRUE
    BY <1>1
  <2> DEFINE G == {k \in 0..n : \E i \in Z : i > k}
  <2>3. 0 \in G
    BY <2>2
  <2>4. ASSUME NEW k \in 0..n, k < n, k \in G PROVE k + 1 \in G
    <3>1. PICK i \in Z : i > k
      BY <2>4
    <3>2. PICK j \in Z : ~(j <= i)
      BY <2>1
    <3>3. i \in Int /\ j \in Int /\ k \in Int
      OBVIOUS
    <3>4. k + 1 \in 0..n /\ j > k + 1
      BY <2>4, <3>1, <3>2, <3>3
    <3> QED BY <3>4
  <2>5. 0..n \subseteq G
    <3> HIDE DEF G
    <3> QED BY <2>3, <2>4, UpTo
  <2>6. n \in G
    BY <2>5
  <2> QED BY <2>6
<1>2. ASSUME NEW i \in Z, \A j \in Z : j <= i, NEW k \in Z, \A j \in Z : j <= k PROVE k = i
  <2>1. k <= i /\ i <= k /\ i \in Int /\ k \in Int
    BY <1>2
  <2> QED BY <2>1
<1> QED BY <1>1, <1>2, Zenon

LEMMA FirstInk ==
    ASSUME NEW n \in Nat, NEW Z, Z \subseteq 1..n, NEW i \in Z, \A j \in Z : i <= j
    PROVE  (CHOOSE k \in Z : \A j \in Z : k <= j) = i
<1>1. ASSUME NEW k \in Z, \A j \in Z : k <= j PROVE k = i
  <2>1. k <= i /\ i <= k /\ i \in Int /\ k \in Int
    BY <1>1
  <2> QED BY <2>1
<1> QED BY <1>1, Zenon

LEMMA TrimEndIs ==
    ASSUME NEW cells \in Seq(Cells)
    PROVE  /\ TrimEnd(cells) \in Seq(Cells) /\ Len(TrimEnd(cells)) <= Len(cells)
           /\ cells # <<>> /\ Ink(cells, Len(cells)) => TrimEnd(cells) = cells
<1> DEFINE Z == Inked(cells)
           n == Len(cells)
           c == CHOOSE i \in Z : \A j \in Z : j <= i
<1>1. n \in Nat /\ Z \subseteq 1..n
  BY DEF Inked
<1>2. TrimEnd(cells) = SubSeq(cells, 1, IF Z = {} THEN 0 ELSE c)
  BY Zenon DEF TrimEnd, Inked, Ink
<1>3. Z # {} => c \in Z
  <2> HIDE DEF Z, n
  <2>1. Z # {} => \E i \in Z : \A j \in Z : j <= i
    BY <1>1, LastInk
  <2> QED BY <2>1
<1>4. cells # <<>> /\ Ink(cells, n) => n \in Z
  <2>1. cells # <<>> => n \in 1..n
    OBVIOUS
  <2> QED BY <2>1, Zenon DEF Inked
<1>5. n \in Z => c = n
  <2> HIDE DEF Z
  <2>1. \A j \in Z : j <= n
    BY <1>1
  <2> QED BY <1>1, <2>1, LastInk, Zenon
<1> HIDE DEF Z, c
<1> DEFINE e == IF Z = {} THEN 0 ELSE c
<1>6. e \in 0..n
  <2>1. CASE Z = {}
    BY <1>1, <2>1
  <2>2. CASE Z # {}
    <3>1. c \in 1..n
      BY <1>1, <1>3, <2>2, Zenon
    <3>2. c \in 0..n
      BY <1>1, <3>1
    <3> QED BY <2>2, <3>2, Zenon
  <2> QED BY <2>1, <2>2
<1>7. n \in Z => e = n
  BY <1>5
<1> HIDE DEF e
<1>8. SubSeq(cells, 1, e) \in Seq(Cells) /\ Len(SubSeq(cells, 1, e)) = e
  BY <1>1, <1>6
<1>9. SubSeq(cells, 1, n) = cells
  OBVIOUS
<1> QED BY <1>1, <1>2, <1>4, <1>6, <1>7, <1>8, <1>9 DEF e

LEMMA LabelIs ==
    ASSUME NEW cells, NEW m \in Nat, Len(cells) = m, NEW n \in Nat, n <= m,
           \A i \in 1..n : Digit(cells, i), n < m => ~Digit(cells, n + 1)
    PROVE  LabelLength(cells) = n
<1> DEFINE P(k) == (\A i \in 1..k : Digit(cells, i)) /\ (k < m => ~Digit(cells, k + 1))
<1>1. LabelLength(cells) = CHOOSE k \in 0..m : P(k)
  BY Zenon DEF LabelLength, Digit
<1>2. n \in 0..m /\ P(n)
  OBVIOUS
<1>3. ASSUME NEW k \in 0..m, P(k) PROVE k = n
  <2>1. CASE k < n
    BY <1>3, <2>1
  <2>2. CASE n < k
    BY <1>3, <2>2
  <2> QED BY <2>1, <2>2
<1> HIDE DEF P
<1> QED BY <1>1, <1>2, <1>3, Zenon

LEMMA Repeated ==
    ASSUME NEW T, NEW c \in T, NEW n \in Nat
    PROVE  LET s == [i \in 1..n |-> c] IN
           s \in Seq(T) /\ Len(s) = n /\ \A i \in 1..n : s[i] = c
OBVIOUS

\* The digits of a label, blanks, and the text.
LabelledText(n, p, body) == (Digits(n) \o Blanks(p)) \o body

LabelledShape(n, p, body) ==
    /\ Digits(n) \in Seq(Cells) /\ Len(Digits(n)) = n
    /\ \A i \in 1..n : Digits(n)[i] = "1"
    /\ Digits(n) \o Blanks(p) \in Seq(Cells) /\ Len(Digits(n) \o Blanks(p)) = n + p
    /\ \A i \in 1..n + p : (Digits(n) \o Blanks(p))[i] \in {"1", "_"}
    /\ LabelledText(n, p, body) \in Seq(Cells)
    /\ Len(LabelledText(n, p, body)) = n + p + Len(body)
    /\ \A i \in 1..n : Digit(LabelledText(n, p, body), i)
    /\ \A i \in 1..p : ~Ink(LabelledText(n, p, body), n + i)
    /\ \A i \in 1..Len(body) : LabelledText(n, p, body)[n + p + i] = body[i]

LEMMA LabelledIs ==
    ASSUME NEW n \in Nat, NEW p \in Nat, NEW body \in Seq(Cells)
    PROVE  LabelledShape(n, p, body)
<1> DEFINE d == Digits(n)
           b == Blanks(p)
           db == d \o b
           t == db \o body
<1>1. d \in Seq(Cells) /\ Len(d) = n /\ \A i \in 1..n : d[i] = "1"
  <2>1. "1" \in Cells
    BY DEF Cells
  <2> QED BY <2>1, Repeated DEF Digits
<1>2. b \in Seq(Cells) /\ Len(b) = p /\ \A i \in 1..p : b[i] = "_"
  <2>1. "_" \in Cells
    BY DEF Cells
  <2> QED BY <2>1, Repeated DEF Blanks
<1> HIDE DEF d, b
<1>3. db \in Seq(Cells) /\ Len(db) = n + p
      /\ \A i \in 1..n + p : db[i] = IF i <= n THEN d[i] ELSE b[i - n]
  BY <1>1, <1>2, ConcatProperties
<1>4. Len(body) \in Nat
  OBVIOUS
<1> HIDE DEF db
<1>5. t \in Seq(Cells) /\ Len(t) = n + p + Len(body)
      /\ \A i \in 1..n + p + Len(body) : t[i] = IF i <= n + p THEN db[i] ELSE body[i - (n + p)]
  <2>1. t \in Seq(Cells) /\ Len(t) = Len(db) + Len(body)
        /\ \A i \in 1..Len(db) + Len(body) : t[i] = IF i <= Len(db) THEN db[i] ELSE body[i - Len(db)]
    BY <1>3, ConcatProperties
  <2> HIDE DEF t
  <2> QED BY <1>3, <2>1, Zenon
<1> HIDE DEF t
<1>6. ASSUME NEW i \in 1..n + p PROVE db[i] \in {"1", "_"}
  <2>1. i <= n \/ i - n \in 1..p
    OBVIOUS
  <2>2. CASE i <= n
    <3>1. i \in 1..n
      BY <2>2
    <3> QED BY <1>1, <1>3, <2>2, <3>1, Zenon
  <2>3. CASE ~(i <= n)
    BY <1>2, <1>3, <2>1, <2>3, Zenon
  <2> QED BY <2>2, <2>3
<1>7. ASSUME NEW i \in 1..n PROVE t[i] = "1"
  <2>1. i \in 1..n + p /\ i <= n /\ i <= n + p /\ i \in 1..n + p + Len(body)
    BY <1>4
  <2> QED BY <1>1, <1>3, <1>5, <2>1, Zenon
<1>8. ASSUME NEW i \in 1..p PROVE t[n + i] = "_"
  <2>1. n + i \in 1..n + p /\ ~(n + i <= n) /\ n + i <= n + p /\ n + i \in 1..n + p + Len(body)
        /\ (n + i) - n = i
    BY <1>4
  <2> QED BY <1>2, <1>3, <1>5, <2>1, Zenon
<1>9. ASSUME NEW i \in 1..Len(body) PROVE t[n + p + i] = body[i]
  <2>1. n + p + i \in 1..n + p + Len(body) /\ ~(n + p + i <= n + p) /\ (n + p + i) - (n + p) = i
    BY <1>4
  <2> QED BY <1>5, <2>1, Zenon
<1>10. (\A i \in 1..n : Digit(t, i)) /\ (\A i \in 1..p : ~Ink(t, n + i))
  BY <1>7, <1>8, Zenon DEF Digit, Ink
<1> QED BY <1>1, <1>3, <1>5, <1>6, <1>9, <1>10, Zenon DEF d, b, db, t, LabelledText, LabelledShape

\* What the emitter splits off a labelled line.
LEMMA LabelSplits ==
    ASSUME NEW n \in Nat, NEW p \in Nat, n >= 1, p >= 1,
           NEW body \in Seq(Cells), body # <<>>, Ink(body, 1)
    PROVE  LET t == LabelledText(n, p, body) IN
           /\ LabelLength(t) = n /\ HasLabel(t) /\ ~IsLabelFragment(t)
           /\ Label(t) = Digits(n) /\ Unlabelled(t) = body
<1> DEFINE t == LabelledText(n, p, body)
           l == Len(body)
           m == n + p + l
<1>1. t \in Seq(Cells) /\ Len(t) = m /\ l \in Nat /\ l >= 1
      /\ (\A i \in 1..n : Digit(t, i)) /\ (\A i \in 1..p : ~Ink(t, n + i))
      /\ (\A i \in 1..l : t[n + p + i] = body[i])
  <2>1. l \in Nat /\ l >= 1
    OBVIOUS
  <2>2. LabelledShape(n, p, body)
    BY LabelledIs
  <2> QED BY <2>1, <2>2, Zenon DEF LabelledShape
<1>2. Digits(n) \in Seq(Cells) /\ Len(Digits(n)) = n /\ \A i \in 1..n : Digits(n)[i] = "1"
  <2>1. LabelledShape(n, p, body)
    BY LabelledIs
  <2> QED BY <2>1, Zenon DEF LabelledShape
<1> HIDE DEF t, l
<1>3. m \in Nat /\ n <= m /\ n < m /\ n + 1 < m /\ n + 1 \in 1..m /\ 1 \in 1..p /\ 0 < n
  BY <1>1
<1> HIDE DEF m
<1>4. t[n + 1] = "_"
  BY <1>1, <1>3, Zenon DEF Ink
<1>5. ~Digit(t, n + 1)
  BY <1>4 DEF Digit
<1>6. LabelLength(t) = n
  BY <1>1, <1>3, <1>5, LabelIs
<1>7. HasLabel(t)
  <2>1. n > 0 /\ n < Len(t)
    BY <1>1, <1>3
  <2> QED BY <1>4, <1>6, <2>1 DEF HasLabel
<1>8. ~IsLabelFragment(t)
  <2>1. Len(t) # n + 1
    BY <1>1, <1>3
  <2> QED BY <1>6, <2>1, Zenon DEF IsLabelFragment
<1>9. Label(t) = Digits(n)
  <2>1. SubSeq(t, 1, n) \in Seq(Cells) /\ Len(SubSeq(t, 1, n)) = n
        /\ \A i \in 1..n : SubSeq(t, 1, n)[i] = t[i]
    BY <1>1, <1>3, CutIs
  <2>2. \A i \in 1..n : SubSeq(t, 1, n)[i] = Digits(n)[i]
    BY <1>1, <1>2, <2>1, Zenon DEF Digit
  <2>3. SubSeq(t, 1, n) = Digits(n)
    BY <1>2, <2>1, <2>2, SeqEqual
  <2> QED BY <1>6, <2>3, Zenon DEF Label
<1>10. Unlabelled(t) = body
  <2> DEFINE y == SubSeq(t, n + 1, m)
             h == p + l
  <2>1. h \in Nat /\ h >= 1 /\ p + 1 \in 1..h /\ h = m - n /\ \A k \in 1..h : k <= p \/ k - p \in 1..l
    BY <1>1 DEF m
  <2>2. y \in Seq(Cells) /\ Len(y) = h /\ \A k \in 1..h : y[k] = t[k + n]
    BY <1>1, <1>3, <2>1, CutIs
  <2> HIDE DEF y, h
  <2>3. ASSUME NEW k \in 1..h, Ink(y, k) PROVE p + 1 <= k
    <3>1. SUFFICES ASSUME k \in 1..p PROVE FALSE
      BY <2>1
    <3>2. n + k = k + n
      OBVIOUS
    <3>3. y[k] = t[n + k] /\ ~Ink(t, n + k)
      BY <1>1, <2>2, <3>1, <3>2, Zenon
    <3> QED BY <2>3, <3>3, Zenon DEF Ink
  <2>4. ASSUME NEW k \in 1..l PROVE y[p + k] = body[k]
    <3>1. p + k \in 1..h /\ (p + k) + n = n + p + k
      BY <1>1 DEF h
    <3> QED BY <1>1, <2>2, <3>1, Zenon
  <2>5. Ink(y, p + 1)
    <3>1. 1 \in 1..l
      BY <1>1
    <3> QED BY <2>4, <3>1, Zenon DEF Ink
  <2> DEFINE Z == Inked(y)
  <2>6. Z \subseteq 1..h /\ p + 1 \in Z /\ \A j \in Z : p + 1 <= j
    BY <2>1, <2>2, <2>3, <2>5, Zenon DEF Inked
  <2>7. TrimStart(y) = IF Z = {} THEN <<>>
                       ELSE SubSeq(y, CHOOSE i \in Z : \A j \in Z : i <= j, Len(y))
    BY Zenon DEF TrimStart, Inked, Ink
  <2> HIDE DEF Z
  <2>8. (CHOOSE i \in Z : \A j \in Z : i <= j) = p + 1
    BY <2>1, <2>6, FirstInk, Zenon
  <2>9. TrimStart(y) = SubSeq(y, p + 1, h)
    BY <2>2, <2>6, <2>7, <2>8, Zenon
  <2>10. SubSeq(y, p + 1, h) \in Seq(Cells) /\ Len(SubSeq(y, p + 1, h)) = h - p
         /\ \A k \in 1..(h - p) : SubSeq(y, p + 1, h)[k] = y[k + p]
    <3>1. p <= Len(y)
      BY <2>1, <2>2
    <3> QED BY <2>2, <3>1, CutIs
  <2>11. h - p = l /\ \A k \in 1..l : k + p = p + k
    BY <1>1 DEF h
  <2>12. \A k \in 1..l : SubSeq(y, p + 1, h)[k] = body[k]
    BY <2>4, <2>10, <2>11, Zenon
  <2>13. SubSeq(y, p + 1, h) = body
    BY <2>10, <2>11, <2>12, SeqEqual DEF l
  <2>14. Unlabelled(t) = TrimStart(y)
    BY <1>1, <1>6, Zenon DEF Unlabelled, y
  <2> QED BY <2>9, <2>13, <2>14, Zenon
<1> QED BY <1>6, <1>7, <1>8, <1>9, <1>10 DEF t

\* A text without a label.
LEMMA NoLabelSplits ==
    ASSUME NEW body \in Seq(Cells), body # <<>>, ~Digit(body, 1)
    PROVE  LabelLength(body) = 0 /\ ~HasLabel(body) /\ ~IsLabelFragment(body)
<1>1. Len(body) \in Nat /\ 0 <= Len(body) /\ 0 + 1 = 1
  OBVIOUS
<1>2. LabelLength(body) = 0
  BY <1>1, LabelIs
<1> QED BY <1>2 DEF HasLabel, IsLabelFragment
-----------------------------------------------------------------------------
(* What a line comes to, and what alignment may add to it *)

Marker == <<"_", "&">>

LEMMA TwoOf ==
    ASSUME NEW T, NEW x \in T, NEW y \in T
    PROVE  <<x, y>> \in Seq(T) /\ Len(<<x, y>>) = 2 /\ <<x, y>>[2] = y /\ <<x, y>> # <<>>
OBVIOUS

LEMMA MarkedText ==
    ASSUME NEW s \in Seq(Tokens), s # <<>>, NEW c \in {<<>>, Marker}
    PROVE  /\ Text(s) \o c \in Seq(Cells) /\ Text(s) \o c # <<>>
           /\ Len(Text(s)) \in Nat /\ Len(Text(s) \o c) = Len(Text(s)) + Len(c)
           /\ Len(c) = (IF c = <<>> THEN 0 ELSE 2)
           /\ (Text(s) \o c)[1] = s[1].text[1]
           /\ Ink(Text(s) \o c, 1) /\ Ink(Text(s) \o c, Len(Text(s) \o c))
<1> DEFINE x == Text(s)
           y == x \o c
<1>1. x \in Seq(Cells) /\ Len(x) \in Nat /\ Len(x) > 0 /\ x[1] = s[1].text[1]
  BY TextType, TextOpens, Zenon
<1>2. x[Len(x)] # "_"
  BY TextOpens, Zenon
<1>3. s[1].text[1] # "_"
  <2>1. s[1] \in Tokens
    <3>1. 1 \in 1..Len(s)
      OBVIOUS
    <3> QED BY <3>1
  <2> QED BY <2>1, TokenFacts, Zenon
<1>4. c \in Seq(Cells) /\ (c = <<>> \/ (Len(c) = 2 /\ c[2] = "&" /\ c # <<>>))
  <2>1. "_" \in Cells /\ "&" \in Cells
    BY DEF Cells
  <2>2. Marker \in Seq(Cells) /\ Len(Marker) = 2 /\ Marker[2] = "&" /\ Marker # <<>>
    BY <2>1, TwoOf, Zenon DEF Marker
  <2>3. c = <<>> => c \in Seq(Cells)
    OBVIOUS
  <2>4. c = <<>> \/ c = Marker
    OBVIOUS
  <2> QED BY <2>2, <2>3, <2>4, Zenon
<1> HIDE DEF x
<1>5. PICK m \in Nat : m = Len(x)
  BY <1>1
<1>6. m > 0
  BY <1>1, <1>5
<1>7. PICK k \in Nat : k = Len(c)
  BY <1>4
<1>8. k = (IF c = <<>> THEN 0 ELSE 2)
  BY <1>4, <1>7
<1>9. y \in Seq(Cells) /\ Len(y) = m + k
      /\ \A i \in 1..m + k : y[i] = IF i <= m THEN x[i] ELSE c[i - m]
  BY <1>1, <1>4, <1>5, <1>7, ConcatProperties
<1> HIDE DEF y
<1>10. y[1] = x[1] /\ y # <<>>
  BY <1>6, <1>9
<1>11. y[m + k] # "_"
  <2>1. CASE c = <<>>
    <3>1. m + k = m /\ m \in 1..m + k /\ m <= m
      BY <1>6, <1>8, <2>1
    <3>2. y[m] = x[m]
      BY <1>9, <3>1, Zenon
    <3> QED BY <1>2, <1>5, <3>1, <3>2, Zenon
  <2>2. CASE c # <<>>
    <3>1. m + k = m + 2 /\ m + 2 \in 1..m + k /\ ~(m + 2 <= m) /\ (m + 2) - m = 2
      BY <1>6, <1>8, <2>2
    <3>2. y[m + 2] = c[2]
      BY <1>9, <3>1, Zenon
    <3>3. c[2] = "&"
      BY <1>4, <2>2, Zenon
    <3>4. y[m + 2] = "&"
      BY <3>2, <3>3, Zenon
    <3>5. "&" # "_"
      OBVIOUS
    <3> QED BY <3>1, <3>4, <3>5, Zenon
  <2> QED BY <2>1, <2>2
<1>12. Ink(y, 1) /\ Ink(y, Len(y))
  BY <1>1, <1>3, <1>9, <1>10, <1>11, Zenon DEF Ink
<1> QED BY <1>1, <1>5, <1>7, <1>8, <1>9, <1>10, <1>12, Zenon DEF x, y

\* The places where alignment puts a blank: before and behind a `::`.
IsDouble(t) == t.kind = "::"
Before(s) == {i \in 2..Len(s) : IsDouble(s[i]) /\ ~s[i].blank}
Behind(s) == {i \in 1..Len(s) - 1 : IsDouble(s[i]) /\ ~s[i + 1].blank}

LEMMA WidenedIs ==
    ASSUME NEW s \in Seq(Tokens)
    PROVE  /\ Widened(s) = Cardinality(Before(s)) + Cardinality(Behind(s))
           /\ IsFiniteSet(Before(s)) /\ IsFiniteSet(Behind(s))
           /\ Cardinality(Before(s)) \in Nat /\ Cardinality(Behind(s)) \in Nat
<1>1. Len(s) \in Int /\ 1 \in Int /\ Before(s) \subseteq 1..Len(s) /\ Behind(s) \subseteq 1..Len(s)
  BY DEF Before, Behind
<1>2. /\ IsFiniteSet(Before(s)) /\ IsFiniteSet(Behind(s))
      /\ Cardinality(Before(s)) \in Nat /\ Cardinality(Behind(s)) \in Nat
  BY <1>1, CountType, Zenon
<1>3. Widened(s) = Cardinality(Before(s)) + Cardinality(Behind(s))
  BY Zenon DEF Widened, Before, Behind, IsDouble
<1> QED BY <1>2, <1>3

LEMMA Fewer ==
    ASSUME NEW a \in Seq(Tokens), NEW s \in Seq(Tokens),
           \E d \in Nat : /\ \A i \in Before(a) : i + d \in Before(s)
                          /\ \A i \in Behind(a) : i + d \in Behind(s)
    PROVE  Widened(a) <= Widened(s)
<1>1. PICK d \in Nat : /\ \A i \in Before(a) : i + d \in Before(s)
                       /\ \A i \in Behind(a) : i + d \in Behind(s)
  OBVIOUS
<1>2. ASSUME NEW X, NEW Y, X \subseteq Int, IsFiniteSet(Y), \A i \in X : i + d \in Y
      PROVE  Cardinality(X) <= Cardinality(Y)
  <2> DEFINE f == [i \in X |-> i + d]
  <2>1. f \in [X -> Y]
    BY <1>2
  <2>2. \A i, j \in X : f[i] = f[j] => i = j
    <3>1. ASSUME NEW i \in X, NEW j \in X, i + d = j + d PROVE i = j
      <4>1. i \in Int /\ j \in Int
        BY <1>2
      <4> QED BY <3>1, <4>1
    <3> QED BY <3>1
  <2> HIDE DEF f
  <2>3. f \in Injection(X, Y)
    BY <2>1, <2>2, Zenon DEF Injection, IsInjective
  <2> QED BY <1>2, <2>3, FS_Injection
<1>3. Before(a) \subseteq Int /\ Behind(a) \subseteq Int
  BY DEF Before, Behind
<1>4. Cardinality(Before(a)) <= Cardinality(Before(s))
      /\ Cardinality(Behind(a)) <= Cardinality(Behind(s))
  BY <1>1, <1>2, <1>3, WidenedIs
<1> QED BY <1>4, WidenedIs

LEMMA WidenedGrowth ==
    ASSUME NEW s \in Seq(Tokens)
    PROVE  Widened(s) \in Nat /\ Widened(s) <= Growth(s)
<1> DEFINE X == {i \in 1..Len(s) : IsDouble(s[i]) /\ (i = 1 \/ ~s[i].blank)}
           Y == {i \in 1..Len(s) : IsDouble(s[i]) /\ (i = Len(s) \/ ~s[i + 1].blank)}
<1>1. Growth(s) = Cardinality(X) + Cardinality(Y)
  BY Zenon DEF Growth, IsDouble
<1>2. Before(s) \subseteq X /\ Behind(s) \subseteq Y
  BY DEF Before, Behind
<1>3. Len(s) \in Int /\ 1 \in Int /\ X \subseteq 1..Len(s) /\ Y \subseteq 1..Len(s)
  OBVIOUS
<1> HIDE DEF X, Y
<1>4. IsFiniteSet(X) /\ IsFiniteSet(Y) /\ Cardinality(X) \in Nat /\ Cardinality(Y) \in Nat
  BY <1>3, CountType, Zenon
<1>5. Cardinality(Before(s)) <= Cardinality(X) /\ Cardinality(Behind(s)) <= Cardinality(Y)
  BY <1>2, <1>4, FS_Subset
<1> QED BY <1>1, <1>4, <1>5, WidenedIs

\* A line of which only the end is new.
LEMMA WidenedFront ==
    ASSUME NEW a \in Seq(Tokens), NEW s \in Seq(Tokens), NEW m \in Nat, m <= Len(a), m <= Len(s),
           \A i \in 1..m : a[i].kind = s[i].kind /\ a[i].blank = s[i].blank,
           \A i \in m + 1..Len(a) : a[i].kind # "::" /\ a[i].blank
    PROVE  Widened(a) <= Widened(s)
<1>1. \A i \in 1..m : IsDouble(a[i]) = IsDouble(s[i]) /\ a[i].blank = s[i].blank
  BY Zenon DEF IsDouble
<1>2. \A i \in m + 1..Len(a) : ~IsDouble(a[i]) /\ a[i].blank
  BY Zenon DEF IsDouble
<1>3. ASSUME NEW i \in Before(a) PROVE i \in Before(s)
  <2>1. i \in 2..Len(a) /\ IsDouble(a[i]) /\ ~a[i].blank
    BY DEF Before
  <2>2. i \in 1..m /\ i \in 2..Len(s)
    BY <1>2, <2>1
  <2>3. IsDouble(s[i]) /\ ~s[i].blank
    BY <1>1, <2>1, <2>2
  <2> QED BY <2>2, <2>3, Zenon DEF Before
<1>4. ASSUME NEW i \in Behind(a) PROVE i \in Behind(s)
  <2>1. i \in 1..Len(a) - 1 /\ IsDouble(a[i]) /\ ~a[i + 1].blank
    BY DEF Behind
  <2>2. i + 1 \in 1..Len(a) /\ i \in 1..Len(a)
    BY <2>1
  <2>3. i + 1 \in 1..m /\ i \in 1..m /\ i \in 1..Len(s) - 1
    BY <1>2, <2>1, <2>2
  <2>4. IsDouble(s[i]) /\ ~s[i + 1].blank
    BY <1>1, <2>1, <2>3
  <2> QED BY <2>3, <2>4, Zenon DEF Behind
<1>5. (\A i \in Before(a) : i + 0 \in Before(s)) /\ (\A i \in Behind(a) : i + 0 \in Behind(s))
  <2>1. (\A i \in Before(a) : i + 0 = i) /\ (\A i \in Behind(a) : i + 0 = i)
    BY DEF Before, Behind
  <2> QED BY <1>3, <1>4, <2>1
<1>6. \E d \in Nat : /\ \A i \in Before(a) : i + d \in Before(s)
                     /\ \A i \in Behind(a) : i + d \in Behind(s)
  <2>1. 0 \in Nat
    OBVIOUS
  <2> QED BY <1>5, <2>1, Zenon
<1> QED BY <1>6, Fewer

\* What is left of a line.
LEMMA WidenedBack ==
    ASSUME NEW a \in Seq(Tokens), NEW s \in Seq(Tokens), NEW d \in Nat, Len(a) + d = Len(s),
           a # <<>>, a[1].kind = s[1 + d].kind,
           \A i \in 2..Len(a) : a[i].kind = s[i + d].kind /\ a[i].blank = s[i + d].blank
    PROVE  Widened(a) <= Widened(s)
<1>1. \A i \in 2..Len(a) : IsDouble(a[i]) = IsDouble(s[i + d]) /\ a[i].blank = s[i + d].blank
  BY Zenon DEF IsDouble
<1>2. IsDouble(a[1]) = IsDouble(s[1 + d])
  BY Zenon DEF IsDouble
<1>3. ASSUME NEW i \in Before(a) PROVE i + d \in Before(s)
  <2>1. i \in 2..Len(a) /\ IsDouble(a[i]) /\ ~a[i].blank
    BY DEF Before
  <2>2. i + d \in 2..Len(s)
    BY <2>1
  <2>3. IsDouble(s[i + d]) /\ ~s[i + d].blank
    BY <1>1, <2>1
  <2> QED BY <2>2, <2>3, Zenon DEF Before
<1>4. ASSUME NEW i \in Behind(a) PROVE i + d \in Behind(s)
  <2>1. i \in 1..Len(a) - 1 /\ IsDouble(a[i]) /\ ~a[i + 1].blank
    BY DEF Behind
  <2>2. i + d \in 1..Len(s) - 1 /\ i + 1 \in 2..Len(a) /\ (i + 1) + d = (i + d) + 1
        /\ (i = 1 \/ i \in 2..Len(a))
    BY <2>1
  <2>3. IsDouble(s[i + d])
    BY <1>1, <1>2, <2>1, <2>2
  <2>4. ~s[(i + d) + 1].blank
    BY <1>1, <2>1, <2>2, Zenon
  <2> QED BY <2>2, <2>3, <2>4, Zenon DEF Behind
<1> QED BY <1>3, <1>4, Fewer

\* What a break leaves, between two tokens and inside a literal.
LEMMA CutWidens ==
    ASSUME NEW r \in Seq(Tokens), NEW i \in Nat, i >= 1, i < Len(r)
    PROVE  /\ Widened(SubSeq(r, 1, i)) <= Widened(r)
           /\ Widened(SubSeq(r, i + 1, Len(r))) <= Widened(r)
<1> DEFINE a == SubSeq(r, 1, i)
           b == SubSeq(r, i + 1, Len(r))
<1>1. PICK m \in Nat : m = Len(r)
  OBVIOUS
<1>2. i <= Len(r) /\ i < m
  BY <1>1
<1>3. /\ a \in Seq(Tokens) /\ Len(a) = i /\ \A k \in 1..i : a[k] = r[k]
      /\ b \in Seq(Tokens) /\ Len(b) = m - i /\ \A k \in 1..m - i : b[k] = r[k + i]
  BY <1>1, <1>2, CutIs
<1> HIDE DEF a, b
<1>4. Widened(a) <= Widened(r)
  <2>1. \A k \in 1..i : a[k].kind = r[k].kind /\ a[k].blank = r[k].blank
    BY <1>3, Zenon
  <2>2. \A k \in i + 1..Len(a) : FALSE
    BY <1>3
  <2>3. i <= Len(a) /\ i <= Len(r)
    BY <1>2, <1>3
  <2> QED BY <1>3, <2>1, <2>2, <2>3, WidenedFront
<1>5. Widened(b) <= Widened(r)
  <2>1. Len(b) + i = Len(r) /\ b # <<>> /\ 1 \in 1..m - i
    BY <1>1, <1>2, <1>3
  <2>2. b[1].kind = r[1 + i].kind
    BY <1>3, <2>1, Zenon
  <2>3. \A k \in 2..Len(b) : k \in 1..m - i
    BY <1>3
  <2>4. \A k \in 2..Len(b) : b[k].kind = r[k + i].kind /\ b[k].blank = r[k + i].blank
    BY <1>3, <2>3, Zenon
  <2> QED BY <1>3, <2>1, <2>2, <2>4, WidenedBack
<1> QED BY <1>4, <1>5 DEF a, b

LEMMA FirstPartIs ==
    ASSUME NEW r \in Seq(Tokens), NEW i \in Nat, i >= 1, i <= Len(r),
           NEW n \in Nat, FirstHalf(r[i], n) \in Tokens
    PROVE  FirstPart(r, i, n) = Append(Append(SubSeq(r, 1, i - 1), FirstHalf(r[i], n)), Concat)
<1> DEFINE f == FirstHalf(r[i], n)
           p == SubSeq(r, 1, i - 1)
           c == Concat
<1>1. p \in Seq(Tokens) /\ c \in Tokens /\ f \in Tokens
  BY CutAt, ConcatFacts
<1> HIDE DEF p, c, f
<1>2. p \o <<f, c>> = Append(Append(p, f), c)
  BY <1>1, TwoMore
<1> QED BY <1>2, Zenon DEF p, c, f, FirstPart

LEMMA LiteralCutWidens ==
    ASSUME NEW r \in Seq(Tokens), NEW i \in Nat, i >= 1, i <= Len(r), r[i].kind = "string",
           NEW n \in Nat, n >= 1, n <= Len(r[i].text) - 2
    PROVE  /\ Widened(FirstPart(r, i, n)) <= Widened(r)
           /\ Widened(SecondPart(r, i, n)) <= Widened(r)
<1> DEFINE f == FirstHalf(r[i], n)
           g == SecondHalf(r[i], n)
           p == SubSeq(r, 1, i - 1)
           b == SubSeq(r, i + 1, Len(r))
           q == Append(p, f)
           x == FirstPart(r, i, n)
           y == SecondPart(r, i, n)
<1>1. PICK m \in Nat : m = Len(r)
  OBVIOUS
<1>2. r[i] \in Tokens
  OBVIOUS
<1>3. /\ f \in Tokens /\ f.kind = "string" /\ f.blank = r[i].blank
      /\ g \in Tokens /\ g.kind = "string"
  BY <1>2, HalvesAreTokens
<1>4. Concat \in Tokens /\ Concat.kind = "//" /\ Concat.blank
  BY ConcatFacts
<1>5. i - 1 \in Nat /\ i - 1 <= Len(r) /\ i <= Len(r) /\ i <= m
  BY <1>1
<1>6. p \in Seq(Tokens) /\ Len(p) = i - 1 /\ \A k \in 1..i - 1 : p[k] = r[k]
  BY <1>5, CutIs
<1>7. b \in Seq(Tokens) /\ Len(b) = m - i /\ \A k \in 1..m - i : b[k] = r[k + i]
  BY <1>1, <1>5, CutIs
<1> HIDE DEF f, g, p, b
<1>8. q \in Seq(Tokens) /\ Len(q) = i /\ q[i] = f /\ \A k \in 1..i - 1 : q[k] = p[k]
  BY <1>3, <1>5, <1>6, AppendProperties
<1>9. x = Append(q, Concat)
  BY <1>3, FirstPartIs, Zenon DEF f, p
<1> HIDE DEF q, x
<1>10. x \in Seq(Tokens) /\ Len(x) = i + 1 /\ x[i + 1] = Concat /\ \A k \in 1..i : x[k] = q[k]
  BY <1>4, <1>8, <1>9, AppendProperties
<1>11. Widened(x) <= Widened(r)
  <2>1. ASSUME NEW k \in 1..i PROVE x[k].kind = r[k].kind /\ x[k].blank = r[k].blank
    <3>1. k = i \/ k \in 1..i - 1
      OBVIOUS
    <3>2. CASE k = i
      BY <1>3, <1>8, <1>10, <3>2, Zenon
    <3>3. CASE k \in 1..i - 1
      BY <1>6, <1>8, <1>10, <3>3, Zenon
    <3> QED BY <3>1, <3>2, <3>3
  <2>2. ASSUME NEW k \in i + 1..Len(x) PROVE x[k].kind # "::" /\ x[k].blank
    <3>1. k = i + 1
      BY <1>10
    <3>2. x[k].kind = "//" /\ x[k].blank
      BY <1>4, <1>10, <3>1, Zenon
    <3> QED BY <3>2
  <2>3. i <= Len(x)
    BY <1>10
  <2> QED BY <1>5, <1>10, <2>1, <2>2, <2>3, WidenedFront
<1>12. y \in Seq(Tokens) /\ Len(y) = 1 + (m - i)
       /\ y[1] = g /\ \A k \in 2..Len(y) : y[k] = b[k - 1]
  <2> DEFINE h == <<g>>
  <2>1. h \in Seq(Tokens) /\ Len(h) = 1 /\ h[1] = g
    BY <1>3, OneOf, Zenon
  <2> HIDE DEF h
  <2>2. y = h \o b
    BY Zenon DEF SecondPart, h, g, b
  <2>3. h \o b \in Seq(Tokens) /\ Len(h \o b) = 1 + (m - i)
        /\ \A k \in 1..1 + (m - i) : (h \o b)[k] = IF k <= 1 THEN h[k] ELSE b[k - 1]
    <3> DEFINE z == h \o b
    <3>1. z \in Seq(Tokens) /\ Len(z) = Len(h) + Len(b)
          /\ \A k \in 1..Len(h) + Len(b) : z[k] = IF k <= Len(h) THEN h[k] ELSE b[k - Len(h)]
      BY <1>7, <2>1, ConcatProperties
    <3> HIDE DEF z
    <3>2. z \in Seq(Tokens) /\ Len(z) = 1 + (m - i)
          /\ \A k \in 1..1 + (m - i) : z[k] = IF k <= 1 THEN h[k] ELSE b[k - 1]
      BY <1>7, <2>1, <3>1, Zenon
    <3> QED BY <3>2 DEF z
  <2> HIDE DEF y
  <2>4. y \in Seq(Tokens) /\ Len(y) = 1 + (m - i)
        /\ \A k \in 1..1 + (m - i) : y[k] = IF k <= 1 THEN h[k] ELSE b[k - 1]
    BY <2>2, <2>3, Zenon
  <2>5. 1 \in 1..1 + (m - i) /\ 1 <= 1
        /\ \A k \in 2..Len(y) : k \in 1..1 + (m - i) /\ ~(k <= 1)
    BY <1>5, <2>4
  <2> QED BY <2>1, <2>4, <2>5, Zenon
<1> HIDE DEF y
<1>13. Widened(y) <= Widened(r)
  <2>1. PICK d \in Nat : d = i - 1
    BY <1>5
  <2>2. Len(y) + d = Len(r) /\ 1 + d = i /\ y # <<>>
    BY <1>1, <1>5, <1>12, <2>1
  <2>3. y[1].kind = r[1 + d].kind
    BY <1>3, <1>12, <2>2, Zenon
  <2>4. \A k \in 2..Len(y) : k - 1 \in 1..m - i /\ (k - 1) + i = k + d
    BY <1>12, <2>1
  <2>5. \A k \in 2..Len(y) : y[k].kind = r[k + d].kind /\ y[k].blank = r[k + d].blank
    BY <1>7, <1>12, <2>4, Zenon
  <2> QED BY <1>12, <2>2, <2>3, <2>5, WidenedBack
<1> QED BY <1>11, <1>13 DEF x, y

LEMMA LiteralCutEnds ==
    ASSUME NEW r \in Seq(Tokens), NEW i \in Nat, i >= 1, i <= Len(r), r[i].kind = "string",
           NEW n \in Nat, n >= 1, n <= Len(r[i].text) - 2
    PROVE  Len(Text(FirstPart(r, i, n))) = StartOf(r, i) + n + 5
<1> DEFINE f == FirstHalf(r[i], n)
           p == SubSeq(r, 1, i - 1)
           q == Append(p, f)
           t == r[i]
<1>1. t \in Tokens
  OBVIOUS
<1>2. f \in Tokens /\ f.text = Half(t.text, "q", 1, n) /\ f.blank = t.blank
  BY <1>1, HalvesAreTokens
<1>3. Len(f.text) = n + 2
  <2>1. "q" \in Cells
    BY DEF Cells
  <2>2. t.text \in Seq(Cells)
    BY <1>1, TokenFacts, Zenon
  <2>3. Len(Half(t.text, "q", 1, n)) = (n - 1) + 3
    BY <2>1, <2>2, HalfIs
  <2> QED BY <1>2, <2>3
<1>4. p \in Seq(Tokens) /\ Len(p) = i - 1 /\ Len(p) \in Nat
  BY CutAt
<1>5. Concat \in Tokens /\ Len(Concat.text) = 2 /\ Concat.blank
  BY ConcatFacts
<1>6. SubSeq(r, 1, i) = Append(p, t)
  OBVIOUS
<1> HIDE DEF f, p, t
<1>7. PICK l \in Nat : l = Len(t.text)
  BY <1>1, TokenFacts, Zenon
<1>8. PICK m \in Nat : m = Len(Text(p))
  BY <1>1, <1>4, TextGrows, Zenon
<1>9. PICK d \in Nat : d = IF Len(p) > 0 /\ t.blank THEN 1 ELSE 0
  OBVIOUS
<1>10. Len(Text(Append(p, t))) = m + l + d
  BY <1>1, <1>4, <1>7, <1>8, <1>9, TextGrows, Zenon
<1>11. Len(Text(q)) = m + (n + 2) + d
  BY <1>2, <1>3, <1>4, <1>8, <1>9, TextGrows, Zenon
<1>12. q \in Seq(Tokens) /\ Len(q) > 0
  BY <1>2, <1>4
<1> HIDE DEF q
<1>13. FirstPart(r, i, n) = Append(q, Concat)
  BY <1>2, FirstPartIs, Zenon DEF f, p, q
<1>14. Len(Text(Append(q, Concat))) = Len(Text(q)) + 2 + 1
  BY <1>5, <1>12, TextGrows
<1>15. StartOf(r, i) = (m + l + d) - l
  BY <1>6, <1>7, <1>10, Zenon DEF StartOf, EndOf, t
<1> QED BY <1>11, <1>13, <1>14, <1>15
-----------------------------------------------------------------------------
(* One line of the wrapper, written *)

\* What every line of a statement that is written again is, before its text.
OfStatement(line) ==
    /\ DOMAIN line = LineFields /\ line.lead \in Nat /\ line.gap \in Nat
    /\ line.kind = "Code" /\ line.omp = (IF Cond THEN "spaced" ELSE "none")
    /\ Cond => line.lead = 0
    /\ ~Cond => line.gap = 0

LEMMA Conditionals ==
    ASSUME NEW line, OfStatement(line), Cond => config.openmp
    PROVE  /\ IsConditional(line) <=> Cond
           /\ line.omp # "compact" /\ (line.omp # "none" => Cond)
           /\ Inset = (IF Cond THEN 3 ELSE 0)
<1>1. CASE Cond
  <2>1. line.omp = "spaced"
    BY <1>1 DEF OfStatement
  <2>2. config.openmp
    BY <1>1
  <2> QED BY <1>1, <2>1, <2>2 DEF IsConditional, Inset
<1>2. CASE ~Cond
  <2>1. line.omp = "none"
    BY <1>2 DEF OfStatement
  <2> QED BY <1>2, <2>1 DEF IsConditional, Inset
<1> QED BY <1>1, <1>2

LEMMA PlacedIs ==
    ASSUME NEW line, OfStatement(line), Cond => config.openmp,
           NEW c \in Nat, NEW cells \in Seq(Cells), TrimEnd(cells) = cells, cells # <<>>
    PROVE  /\ OfStatement(Placed(line, c, cells))
           /\ Placed(line, c, cells).cells = cells
           /\ ~Cond => Placed(line, c, cells).lead = c
           /\ Width(Placed(line, c, cells)) = Inset + c + Len(cells)
<1> DEFINE e == Placed(line, c, cells)
<1>1. (IsConditional(line) <=> Cond) /\ Inset = (IF Cond THEN 3 ELSE 0)
  BY Conditionals
<1>2. Len(cells) \in Nat /\ TrimEnd(cells) # <<>>
  OBVIOUS
<1>3. DOMAIN line = LineFields /\ line.kind = "Code"
      /\ line.omp = (IF Cond THEN "spaced" ELSE "none") /\ (~Cond => line.gap = 0)
  BY DEF OfStatement
<1>4. CASE Cond
  <2>1. e = [line EXCEPT !.omp = "spaced", !.lead = 0, !.gap = 1 + c, !.cells = cells]
    BY <1>1, <1>2, <1>4 DEF Placed
  <2>2. /\ DOMAIN e = LineFields /\ e.kind = "Code" /\ e.omp = "spaced" /\ e.lead = 0
        /\ e.gap = 1 + c /\ e.cells = cells
    BY <1>3, <2>1 DEF LineFields
  <2> HIDE DEF e
  <2>3. OfStatement(e)
    BY <1>4, <2>2 DEF OfStatement
  <2>4. Width(e) = 0 + (1 + c) + 2 + Len(cells)
    BY <2>2 DEF Width, Prefix
  <2> QED BY <1>1, <1>2, <1>4, <2>2, <2>3, <2>4 DEF e
<1>5. CASE ~Cond
  <2>1. e = [line EXCEPT !.lead = c, !.cells = cells]
    BY <1>1, <1>5 DEF Placed, Spaced
  <2>2. /\ DOMAIN e = LineFields /\ e.kind = "Code" /\ e.omp = "none" /\ e.lead = c
        /\ e.gap = 0 /\ e.cells = cells
    BY <1>3, <1>5, <2>1 DEF LineFields
  <2> HIDE DEF e
  <2>3. OfStatement(e)
    BY <1>5, <2>2 DEF OfStatement
  <2>4. Width(e) = c + 0 + 0 + Len(cells)
    BY <2>2 DEF Width, Prefix
  <2> QED BY <1>1, <1>2, <1>5, <2>2, <2>3, <2>4 DEF e
<1> QED BY <1>4, <1>5

LEMMA EmitsStatement ==
    ASSUME NEW line, OfStatement(line), Cond => config.openmp, plan.apply,
           NEW indent, NEW first, NEW cont, NEW alignment
    PROVE  Emit(line, indent, first, cont, alignment, {})
               = EmitStatement(line, Target(line, indent, first, cont, alignment), first, cont,
                               line.cells)
<1>1. line.kind = "Code"
  BY DEF OfStatement
<1>2. line.omp # "compact" /\ (line.omp # "none" => config.openmp)
  BY Conditionals
<1>3. line.kind # "Preprocessor" /\ line.kind # "Blank" /\ line.kind # "FindentFix"
      /\ line.kind # "Comment"
  BY <1>1
<1> QED BY <1>2, <1>3 DEF Emit

\* `!$ ` takes the last columns of max_indent.
Capped(a) == IF Cond /\ config.max_indent # 0 THEN AtMost(a, Less(config.max_indent, 3)) ELSE a

LEMMA TargetIs ==
    ASSUME NEW line, OfStatement(line), Cond => config.openmp, ~IsLabelFragment(line.cells),
           NEW indent \in Nat, NEW cont
    PROVE  Target(line, indent, TRUE, cont, {}) = Capped(Less(indent, Inset))
<1>1. (IsConditional(line) <=> Cond) /\ Inset = (IF Cond THEN 3 ELSE 0)
  BY Conditionals
<1>2. Less(indent, 0) = indent
  BY DEF Less
<1>3. CASE Cond
  <2>1. IsConditional(line) /\ Inset = 3
    BY <1>1, <1>3
  <2> QED BY <1>3, <2>1, Zenon DEF Target, Capped
<1>4. CASE ~Cond
  <2>1. ~IsConditional(line) /\ Inset = 0
    BY <1>1, <1>4
  <2> QED BY <1>2, <1>4, <2>1, Zenon DEF Target, Capped
<1> QED BY <1>3, <1>4

LEMMA NextTargetIs ==
    ASSUME NEW line, OfStatement(line), Cond => config.openmp, ~IsLabelFragment(line.cells),
           ~LeadingAmpersand(line.cells), NEW indent \in Nat, NEW alignment
    PROVE  Target(line, indent, FALSE, TRUE, alignment) =
               Capped(IF alignment # {} THEN CHOOSE c \in alignment : TRUE
                      ELSE IF config.indent_continuation
                      THEN Less(indent, Inset) + config.continuation_indent
                      ELSE IF Cond THEN 0 ELSE line.lead)
<1>1. (IsConditional(line) <=> Cond) /\ Inset = (IF Cond THEN 3 ELSE 0)
  BY Conditionals
<1>2. Less(indent, 0) = indent
  BY DEF Less
<1>3. CASE Cond
  <2>1. IsConditional(line) /\ Inset = 3
    BY <1>1, <1>3
  <2> QED BY <1>3, <2>1, SMT DEF Target, Capped
<1>4. CASE ~Cond
  <2>1. ~IsConditional(line) /\ Inset = 0
    BY <1>1, <1>4
  <2> QED BY <1>2, <1>4, <2>1, SMT DEF Target, Capped
<1> QED BY <1>3, <1>4

LEMMA FragmentTarget ==
    ASSUME NEW line, IsLabelFragment(line.cells), NEW indent, NEW cont, NEW alignment
    PROVE  Target(line, indent, FALSE, cont, alignment) = 0
BY SMT DEF Target

LEMMA CappedIs ==
    ASSUME config.max_indent \in Nat, NEW a \in Nat
    PROVE  Capped(a) \in Nat /\ Capped(a) <= a
BY DEF Capped, AtMost, Less

LEMMA Untrimmed ==
    ASSUME NEW cells \in Seq(Cells), cells # <<>>, Ink(cells, Len(cells)), NEW open
    PROVE  TrimEnd(cells) = cells /\ TrimEndProtected(cells, open) = cells
<1>1. TrimEnd(cells) = cells
  BY TrimEndIs
<1> QED BY <1>1, Zenon DEF TrimEndProtected

\* A line behind the first, where the emitter puts it.
LEMMA EmitsNext ==
    ASSUME NEW line, OfStatement(line), Cond => config.openmp, plan.apply, config.max_indent \in Nat,
           line.cells \in Seq(Cells), line.cells # <<>>, Ink(line.cells, Len(line.cells)),
           NEW indent, NEW alignment,
           Target(line, indent, FALSE, TRUE, alignment) \in Nat
    PROVE  LET e == Emit(line, indent, FALSE, TRUE, alignment, {})
               c == Clamp(Target(line, indent, FALSE, TRUE, alignment))
           IN  /\ OfStatement(e) /\ e.cells = line.cells
               /\ ~Cond => e.lead = c
               /\ Width(e) = Inset + c + Len(line.cells)
<1> DEFINE t == Target(line, indent, FALSE, TRUE, alignment)
           b == line.cells
           c == Clamp(t)
           e == Emit(line, indent, FALSE, TRUE, alignment, {})
<1>1. c \in Nat /\ c <= t
  BY ClampAdds
<1>2. TrimEnd(b) = b /\ TrimEndProtected(b, literal) = b
  BY Untrimmed
<1>3. e = EmitStatement(line, t, FALSE, TRUE, b)
  BY EmitsStatement
<1> HIDE DEF e, t
<1>4. EmitStatement(line, t, FALSE, TRUE, b) = Placed(line, c, b)
  BY <1>2, Zenon DEF EmitStatement
<1> HIDE DEF c
<1>5. e = Placed(line, c, b)
  BY <1>3, <1>4, Zenon
<1>6. /\ OfStatement(Placed(line, c, b)) /\ Placed(line, c, b).cells = b
      /\ ~Cond => Placed(line, c, b).lead = c
      /\ Width(Placed(line, c, b)) = Inset + c + Len(b)
  BY <1>1, <1>2, PlacedIs
<1> QED BY <1>5, <1>6, Zenon DEF e, c, t

\* A first line without a label, where the emitter puts it.
LEMMA EmitsFirst ==
    ASSUME NEW line, OfStatement(line), Cond => config.openmp, plan.apply, config.max_indent \in Nat,
           line.cells \in Seq(Cells), line.cells # <<>>, Ink(line.cells, Len(line.cells)),
           NEW indent, NEW cont, ~HasLabel(line.cells),
           Target(line, indent, TRUE, cont, {}) \in Nat
    PROVE  LET e == Emit(line, indent, TRUE, cont, {}, {})
               c == Clamp(Target(line, indent, TRUE, cont, {}))
           IN  /\ OfStatement(e) /\ e.cells = line.cells
               /\ ~Cond => e.lead = c
               /\ Width(e) = Inset + c + Len(line.cells)
<1> DEFINE t == Target(line, indent, TRUE, cont, {})
           b == line.cells
           c == Clamp(t)
           e == Emit(line, indent, TRUE, cont, {}, {})
<1>1. c \in Nat /\ c <= t
  BY ClampAdds
<1>2. TrimEnd(b) = b /\ TrimEndProtected(b, literal) = b
  BY Untrimmed
<1>3. e = EmitStatement(line, t, TRUE, cont, b)
  BY EmitsStatement
<1> HIDE DEF e, t
<1>4. EmitStatement(line, t, TRUE, cont, b) = Placed(line, c, b)
  BY <1>2, Zenon DEF EmitStatement
<1> HIDE DEF c
<1>5. e = Placed(line, c, b)
  BY <1>3, <1>4, Zenon
<1>6. /\ OfStatement(Placed(line, c, b)) /\ Placed(line, c, b).cells = b
      /\ ~Cond => Placed(line, c, b).lead = c
      /\ Width(Placed(line, c, b)) = Inset + c + Len(b)
  BY <1>1, <1>2, PlacedIs
<1> QED BY <1>5, <1>6, Zenon DEF e, c, t

LEMMA OneBlank == <<"_">> = Blanks(1)
<1> DEFINE a == <<"_">>
           b == Blanks(1)
<1>1. "_" \in Cells /\ 1 \in Nat
  BY DEF Cells
<1>2. a \in Seq(Cells) /\ Len(a) = 1 /\ a[1] = "_"
  BY <1>1, OneOf, Zenon
<1>3. b \in Seq(Cells) /\ Len(b) = 1 /\ \A i \in 1..1 : b[i] = "_"
  BY <1>1, Repeated DEF Blanks
<1> HIDE DEF a, b
<1>4. \A i \in 1..1 : i = 1
  OBVIOUS
<1>5. \A i \in 1..1 : a[i] = b[i]
  BY <1>2, <1>3, <1>4, Zenon
<1>6. a = b
  BY <1>2, <1>3, <1>5, SeqEqual
<1> QED BY <1>6 DEF a, b

\* A labelled line: its label at the margin or before its text.
LabelPadding(target) == AtLeast(Clamp(Less(target, S.label)), 1)

Labelled(line, body) ==
    \E p \in Nat : /\ p >= 1 /\ (p = 1 \/ config.label_left)
                   /\ line.cells = LabelledText(S.label, p, body)

LEMMA EmitsLabelled ==
    ASSUME NEW line, OfStatement(line), Cond => config.openmp, plan.apply, config.max_indent \in Nat,
           S.label \in Nat, S.label >= 1,
           NEW body \in Seq(Cells), body # <<>>, Ink(body, 1), Ink(body, Len(body)),
           Labelled(line, body), NEW indent, NEW cont,
           NEW t \in Nat, Target(line, indent, TRUE, cont, {}) = t
    PROVE  LET e == Emit(line, indent, TRUE, cont, {}, {}) IN
           /\ OfStatement(e) /\ Labelled(e, body)
           /\ Width(e) = Inset + (IF config.label_left THEN S.label + LabelPadding(t)
                                  ELSE Clamp(t) + S.label + 1) + Len(body)
<1> DEFINE L == S.label
           q == LabelPadding(t)
           c == Clamp(t)
           e == Emit(line, indent, TRUE, cont, {}, {})
<1>1. PICK p \in Nat : p >= 1 /\ line.cells = LabelledText(L, p, body)
  BY Zenon DEF Labelled
<1> DEFINE x == LabelledText(L, p, body)
<1>2. /\ HasLabel(x) /\ ~IsLabelFragment(x) /\ Label(x) = Digits(L) /\ Unlabelled(x) = body
  BY <1>1, LabelSplits, Zenon
<1>3. TrimEndProtected(body, literal) = body
  BY Untrimmed
<1>4. Len(Digits(L)) = L /\ Len(body) \in Nat
  <2>1. LabelledShape(L, p, body)
    BY LabelledIs
  <2>2. Len(body) \in Nat
    OBVIOUS
  <2> QED BY <2>1, <2>2, Zenon DEF LabelledShape
<1>5. c \in Nat
  BY ClampAdds
<1>6. Less(t, L) \in Nat
  BY DEF Less
<1>7. Clamp(Less(t, L)) \in Nat
  BY <1>6, ClampAdds
<1>8. q \in Nat /\ q >= 1
  BY <1>7 DEF LabelPadding, AtLeast
<1>9. e = EmitStatement(line, t, TRUE, cont, line.cells)
  BY EmitsStatement
<1> HIDE DEF e, x
<1>10. e = EmitStatement(line, t, TRUE, cont, x)
  BY <1>1, <1>9, Zenon DEF x
<1>11. e = IF config.label_left THEN Placed(line, 0, LabelledText(L, q, body))
           ELSE Placed(line, c, LabelledText(L, 1, body))
  <2>1. e = IF config.label_left
            THEN Placed(line, 0, Digits(L) \o Blanks(AtLeast(Clamp(Less(t, L)), 1)) \o body)
            ELSE Placed(line, c, Digits(L) \o <<"_">> \o body)
    <3>1. Len(Label(x)) = L
      BY <1>2, <1>4, Zenon
    <3>2. CASE config.label_left
      BY <1>2, <1>3, <1>10, <3>1, <3>2, Zenon DEF EmitStatement
    <3>3. CASE ~config.label_left
      BY <1>2, <1>3, <1>10, <3>1, <3>3, Zenon DEF EmitStatement
    <3> QED BY <3>2, <3>3
  <2>2. <<"_">> = Blanks(1)
    BY OneBlank
  <2> QED BY <2>1, <2>2, Zenon DEF LabelledText, LabelPadding
<1> HIDE DEF q, c
<1>12. ASSUME NEW n \in Nat, n >= 1
       PROVE  LET y == LabelledText(L, n, body) IN
              /\ y \in Seq(Cells) /\ y # <<>> /\ TrimEnd(y) = y /\ Len(y) = L + n + Len(body)
  <2> DEFINE y == LabelledText(L, n, body)
  <2>1. /\ y \in Seq(Cells) /\ Len(y) = L + n + Len(body)
        /\ \A i \in 1..Len(body) : y[L + n + i] = body[i]
    <3>1. LabelledShape(L, n, body)
      BY LabelledIs
    <3> QED BY <3>1, Zenon DEF LabelledShape
  <2> HIDE DEF y
  <2>2. y # <<>>
    BY <1>4, <1>12, <2>1
  <2>3. Len(body) \in 1..Len(body)
    OBVIOUS
  <2>4. y[Len(y)] = body[Len(body)]
    BY <2>1, <2>3, Zenon
  <2>5. Ink(y, Len(y))
    BY <2>4, Zenon DEF Ink
  <2>6. TrimEnd(y) = y
    BY <2>1, <2>2, <2>5, Untrimmed
  <2> QED BY <2>1, <2>2, <2>6 DEF y
<1>13. CASE config.label_left
  <2> DEFINE y == LabelledText(L, q, body)
  <2>1. y \in Seq(Cells) /\ y # <<>> /\ TrimEnd(y) = y /\ Len(y) = L + q + Len(body)
    BY <1>8, <1>12
  <2>2. e = Placed(line, 0, y)
    BY <1>11, <1>13
  <2> HIDE DEF y
  <2>3. OfStatement(e) /\ e.cells = y /\ Width(e) = Inset + 0 + Len(y)
    <3>1. 0 \in Nat
      OBVIOUS
    <3> QED BY <2>1, <2>2, <3>1, PlacedIs, Zenon
  <2>4. Labelled(e, body)
    BY <1>8, <1>13, <2>3, Zenon DEF Labelled, y
  <2>5. Inset \in Nat
    BY DEF Inset
  <2>6. Width(e) = Inset + (L + q) + Len(body)
    BY <1>4, <1>8, <2>1, <2>3, <2>5
  <2> QED BY <1>13, <2>3, <2>4, <2>6 DEF e, q
<1>14. CASE ~config.label_left
  <2> DEFINE y == LabelledText(L, 1, body)
  <2>1. y \in Seq(Cells) /\ y # <<>> /\ TrimEnd(y) = y /\ Len(y) = L + 1 + Len(body)
    BY <1>12
  <2>2. e = Placed(line, c, y)
    BY <1>11, <1>14
  <2> HIDE DEF y
  <2>3. OfStatement(e) /\ e.cells = y /\ Width(e) = Inset + c + Len(y)
    BY <1>5, <2>1, <2>2, PlacedIs
  <2>4. Labelled(e, body)
    <3>1. 1 \in Nat /\ 1 >= 1
      OBVIOUS
    <3> QED BY <2>3, <3>1, Zenon DEF Labelled, y
  <2>5. Inset \in Nat
    BY DEF Inset
  <2>6. Width(e) = Inset + (c + L + 1) + Len(body)
    BY <1>4, <1>5, <2>1, <2>3, <2>5
  <2> QED BY <1>14, <2>3, <2>4, <2>6 DEF e, c
<1> QED BY <1>13, <1>14

\* The first line of a statement: its text, with its label.
FirstText(line, body) == IF S.label = 0 THEN line.cells = body ELSE Labelled(line, body)

LEMMA FirstLine ==
    ASSUME Begun, outcome # "none", plan.apply, Cond => config.openmp,
           NEW line, OfStatement(line), NEW cont,
           NEW body \in Seq(Cells), body # <<>>, Ink(body, 1), Ink(body, Len(body)), ~Digit(body, 1),
           FirstText(line, body)
    PROVE  LET e == Emit(line, plan.first_indent, TRUE, cont, {}, {}) IN
           /\ OfStatement(e) /\ FirstText(e, body)
           /\ Width(e) <= FirstBodyColumn + Len(body)
<1> DEFINE f == plan.first_indent
           b == Less(f, Inset)
           T == Target(line, f, TRUE, cont, {})
           e == Emit(line, f, TRUE, cont, {}, {})
           x == line.cells
           n == Len(body)
<1>1. config.max_indent \in Nat /\ f \in Nat /\ S.label \in Nat
  BY ConfigFacts, TheStatement
<1>2. Inset \in Nat /\ n \in Nat
  BY ColumnTypes
<1>3. b \in Nat
  BY <1>1, <1>2, ArithmeticType
<1>4. ~IsLabelFragment(x)
  <2>1. CASE S.label = 0
    BY <2>1, NoLabelSplits DEF FirstText
  <2>2. CASE S.label # 0
    <3>1. S.label >= 1
      BY <1>1, <2>2
    <3>2. PICK p \in Nat : p >= 1 /\ x = LabelledText(S.label, p, body)
      BY <2>2, Zenon DEF FirstText, Labelled
    <3>3. ~IsLabelFragment(LabelledText(S.label, p, body))
      BY <1>1, <3>1, <3>2, LabelSplits, Zenon
    <3> QED BY <3>2, <3>3, Zenon
  <2> QED BY <2>1, <2>2
<1>5. T = Capped(b)
  BY <1>1, <1>4, TargetIs, Zenon
<1>6. T \in Nat /\ T <= b
  BY <1>1, <1>3, <1>5, CappedIs
<1>7. Clamp(T) \in Nat /\ Clamp(T) <= Clamp(b) /\ Clamp(b) <= b /\ Clamp(b) \in Nat
  BY <1>1, <1>3, <1>6, ClampAdds
<1> HIDE DEF T, b, e, f
<1>8. CASE S.label = 0
  <2>1. x = body
    BY <1>8 DEF FirstText
  <2>2. ~HasLabel(x)
    BY <2>1, NoLabelSplits
  <2>3. OfStatement(e) /\ e.cells = x /\ Width(e) = Inset + Clamp(T) + Len(x)
    <3>1. x \in Seq(Cells) /\ x # <<>> /\ Ink(x, Len(x))
      BY <2>1, Zenon
    <3> QED BY <1>1, <1>6, <2>2, <3>1, EmitsFirst DEF e, T
  <2>4. FirstBodyColumn = Inset + b
    BY <1>8 DEF FirstBodyColumn, b, f
  <2>5. Width(e) <= FirstBodyColumn + n
    BY <1>2, <1>3, <1>7, <2>1, <2>3, <2>4
  <2>6. FirstText(e, body)
    BY <1>8, <2>1, <2>3 DEF FirstText
  <2> QED BY <2>3, <2>5, <2>6 DEF e, f
<1>9. CASE S.label # 0
  <2>1. S.label >= 1 /\ Labelled(line, body)
    BY <1>1, <1>9 DEF FirstText
  <2>2. /\ OfStatement(e) /\ Labelled(e, body)
        /\ Width(e) = Inset + (IF config.label_left THEN S.label + LabelPadding(T)
                               ELSE Clamp(T) + S.label + 1) + n
    BY <1>1, <1>6, <2>1, EmitsLabelled, Zenon DEF e, T
  <2>3. FirstBodyColumn = Inset + LabelledBodyColumn(b)
    BY <1>9 DEF FirstBodyColumn, b, f
  <2>4. Less(T, S.label) \in Nat /\ Less(b, S.label) \in Nat /\ Less(T, S.label) <= Less(b, S.label)
    BY <1>1, <1>3, <1>6 DEF Less
  <2>5. /\ Clamp(Less(T, S.label)) \in Nat /\ Clamp(Less(b, S.label)) \in Nat
        /\ Clamp(Less(T, S.label)) <= Clamp(Less(b, S.label))
    BY <1>1, <2>4, ClampAdds
  <2>6. LabelPadding(T) \in Nat /\ LabelPadding(b) \in Nat /\ LabelPadding(T) <= LabelPadding(b)
    BY <2>5 DEF LabelPadding, AtLeast
  <2>7. LabelledBodyColumn(b) = IF config.label_left THEN S.label + LabelPadding(b)
                                ELSE Clamp(b) + S.label + 1
    BY DEF LabelledBodyColumn, LabelPadding
  <2>8. Width(e) <= FirstBodyColumn + n
    BY <1>1, <1>2, <1>7, <2>2, <2>3, <2>6, <2>7
  <2>9. FirstText(e, body)
    BY <1>9, <2>2 DEF FirstText
  <2> QED BY <2>2, <2>8, <2>9 DEF e, f
<1> QED BY <1>8, <1>9

\* The lines behind it, under the column that they were charged.
NextColumns(line, alignment, c) ==
    \/ alignment = {} /\ c = ContinuationColumn /\ (~Cond => line.lead <= c)
    \/ \E a \in Nat : alignment = {a} /\ Under(Inset, a, c)

LEMMA NextLine ==
    ASSUME Begun, outcome # "none", plan.apply, Cond => config.openmp,
           NEW line, OfStatement(line), NEW c \in Nat, NEW alignment, NextColumns(line, alignment, c),
           line.cells \in Seq(Cells), line.cells # <<>>, Ink(line.cells, Len(line.cells)),
           ~LeadingAmpersand(line.cells)
    PROVE  LET e == Emit(line, plan.first_indent, FALSE, TRUE, alignment, {}) IN
           /\ OfStatement(e) /\ e.cells = line.cells
           /\ ~Cond => e.lead <= c
           /\ Width(e) <= c + Len(line.cells)
<1> DEFINE f == plan.first_indent
           b == Less(f, Inset)
           T == Target(line, f, FALSE, TRUE, alignment)
           e == Emit(line, f, FALSE, TRUE, alignment, {})
           x == line.cells
           n == Len(x)
           moved == IF alignment # {} THEN CHOOSE k \in alignment : TRUE
                    ELSE IF config.indent_continuation THEN b + config.continuation_indent
                    ELSE IF Cond THEN 0 ELSE line.lead
<1>1. config.max_indent \in Nat /\ f \in Nat /\ config.continuation_indent \in Nat
  BY ConfigFacts
<1>2. Inset \in Nat /\ n \in Nat /\ ContinuationColumn \in Nat
  BY ColumnTypes
<1>3. b \in Nat
  BY <1>1, <1>2, ArithmeticType
<1>4. ~Cond => Inset = 0
  BY DEF Inset
<1>5. line.lead \in Nat
  BY DEF OfStatement
<1>6. IsLabelFragment(x) => T = 0
  BY FragmentTarget, Zenon
<1>7. ~IsLabelFragment(x) => T = Capped(moved)
  BY <1>1, NextTargetIs, Zenon
<1>8. ContinuationColumn = Inset + b
                            + IF config.indent_continuation THEN config.continuation_indent ELSE 0
  BY DEF ContinuationColumn
<1> HIDE DEF b, T, f, e, n
<1>9. moved \in Nat /\ Under(Inset, moved, c) /\ Inset <= c
  <2>1. CASE alignment = {} /\ c = ContinuationColumn /\ (~Cond => line.lead <= c)
    <3>1. moved = IF config.indent_continuation THEN b + config.continuation_indent
                  ELSE IF Cond THEN 0 ELSE line.lead
      BY <2>1
    <3> HIDE DEF moved
    <3>2. moved \in Nat /\ Inset + moved <= c /\ Inset <= c
      BY <1>1, <1>2, <1>3, <1>4, <1>5, <1>8, <2>1, <3>1
    <3>3. Clamp(moved) \in Nat /\ Clamp(moved) <= moved
      BY <1>1, <3>2, ClampAdds
    <3>4. Under(Inset, moved, c)
      BY <1>2, <3>2, <3>3 DEF Under
    <3> QED BY <3>2, <3>4 DEF moved
  <2>2. ASSUME NEW a \in Nat, alignment = {a}, Under(Inset, a, c)
        PROVE  moved \in Nat /\ Under(Inset, moved, c) /\ Inset <= c
    <3>1. moved = a
      BY <2>2
    <3>2. Clamp(a) \in Nat
      BY <1>1, ClampAdds
    <3>3. Inset <= c
      BY <1>2, <2>2, <3>2 DEF Under
    <3> QED BY <2>2, <3>1, <3>3
  <2> QED BY <2>1, <2>2, Zenon DEF NextColumns
<1> HIDE DEF moved
<1>10. T \in Nat /\ T <= moved
  <2>1. Capped(moved) \in Nat /\ Capped(moved) <= moved
    BY <1>1, <1>9, CappedIs
  <2> QED BY <1>6, <1>7, <1>9, <2>1
<1>11. Under(Inset, T, c) /\ Clamp(T) \in Nat
  BY <1>1, <1>2, <1>9, <1>10, UnderMoves, ClampAdds
<1>12. /\ OfStatement(e) /\ e.cells = x /\ (~Cond => e.lead = Clamp(T))
       /\ Width(e) = Inset + Clamp(T) + n
  BY <1>1, <1>10, EmitsNext DEF e, T, n
<1>13. Inset + Clamp(T) <= c
  BY <1>11 DEF Under
<1>14. Clamp(T) <= c /\ Width(e) <= c + n
  BY <1>2, <1>11, <1>12, <1>13
<1> QED BY <1>12, <1>14 DEF e, f, n
-----------------------------------------------------------------------------
(* The alignment behind a line that is written, beside the wrapper's *)

\* What advance_alignment scans of a line, and from where.
ScanOf(state, line, first, alignment) ==
    Scan(state, ParenScanLine(line, first), ScanTarget(line, first, alignment))

LEMMA FirstScan ==
    ASSUME Begun, outcome # "none", Cond => config.openmp,
           NEW line, OfStatement(line),
           NEW body \in Seq(Cells), body # <<>>, Ink(body, 1), ~Digit(body, 1),
           FirstText(line, body)
    PROVE  /\ ScanOf(NoAlignment, line, TRUE, {}) \in ScanStates
           /\ Beside(Inset, Scan(NoAlignment, body, FirstBodyColumn),
                            ScanOf(NoAlignment, line, TRUE, {}))
<1> DEFINE f == plan.first_indent
           b == Less(f, Inset)
           L == S.label
           x == line.cells
           t == ScanTarget(line, TRUE, {})
           c == FirstBodyColumn
<1>1. config.max_indent \in Nat /\ f \in Nat /\ L \in Nat
  BY ConfigFacts, TheStatement
<1>2. Inset \in Nat /\ c \in Nat
  BY ColumnTypes
<1>3. b \in Nat
  BY <1>1, <1>2, ArithmeticType
<1>4. b = IF IsConditional(line) THEN Less(f, 3) ELSE f
  <2>1. (IsConditional(line) <=> Cond) /\ Inset = (IF Cond THEN 3 ELSE 0)
    BY Conditionals
  <2>2. Less(f, 0) = f
    BY <1>1 DEF Less
  <2> QED BY <2>1, <2>2
<1> HIDE DEF b, c
<1>5. NoAlignment \in ScanStates /\ Abreast(Inset, NoAlignment, NoAlignment)
  <2>1. Clamp(0) <= 0
    BY <1>1, ClampAdds
  <2> QED BY <2>1, NoAlignmentType DEF NoAlignment, Abreast, Aligned
<1>6. \A n \in Nat : ScanOrigin(NoAlignment, n) = n /\ ScanStart(NoAlignment, n) = n
  BY DEF NoAlignment, ScanOrigin, ScanStart
<1>7. SUFFICES \E a \in Seq(Cells) :
                  /\ Inert(NoAlignment, a) /\ ParenScanLine(line, TRUE) = a \o body
                  /\ t \in Nat /\ Under(Inset, t + Len(a), c) /\ Under(Inset, t, c)
  <2>1. PICK a \in Seq(Cells) :
               /\ Inert(NoAlignment, a) /\ ParenScanLine(line, TRUE) = a \o body
               /\ t \in Nat /\ Under(Inset, t + Len(a), c) /\ Under(Inset, t, c)
    BY <1>7
  <2> HIDE DEF t
  <2>2. /\ Under(Inset, ScanOrigin(NoAlignment, t) + Len(a), ScanOrigin(NoAlignment, c))
        /\ Under(Inset, ScanStart(NoAlignment, t), ScanStart(NoAlignment, c))
    BY <1>2, <1>6, <2>1, Zenon
  <2>3. Beside(Inset, Scan(NoAlignment, body, c), Scan(NoAlignment, a \o body, t))
    BY <1>1, <1>2, <1>5, <2>1, <2>2, ScanBeside
  <2>4. Len(a \o body) \in Nat
    BY <2>1
  <2>5. Scan(NoAlignment, a \o body, t) \in ScanStates
    BY <1>5, <2>1, <2>4, ScanType
  <2> QED BY <2>1, <2>3, <2>5, Zenon DEF ScanOf, t, c
<1>8. <<>> \in Seq(Cells) /\ Inert(NoAlignment, <<>>) /\ <<>> \o body = body /\ Len(<<>>) = 0
  BY EmptySeq DEF Inert
<1>9. CASE L = 0
  <2>1. x = body
    BY <1>9 DEF FirstText
  <2>2. ~HasLabel(x)
    BY <2>1, NoLabelSplits
  <2>3. ParenScanLine(line, TRUE) = <<>> \o body
    BY <1>8, <2>1, <2>2 DEF ParenScanLine
  <2>4. t = b
    BY <1>4, <2>2, SMT DEF ScanTarget
  <2>5. c = Inset + b
    BY <1>9 DEF FirstBodyColumn, b, c
  <2>6. Under(Inset, b, c)
    <3>1. Clamp(b) \in Nat /\ Clamp(b) <= b
      BY <1>1, <1>3, ClampAdds
    <3> QED BY <1>2, <1>3, <2>5, <3>1 DEF Under
  <2>7. b + Len(<<>>) = b
    BY <1>3
  <2> QED BY <1>3, <1>8, <2>3, <2>4, <2>6, <2>7, Zenon
<1>10. CASE L # 0
  <2>1. L >= 1 /\ Labelled(line, body)
    BY <1>1, <1>10 DEF FirstText
  <2>2. PICK p \in Nat : /\ p >= 1 /\ (p = 1 \/ config.label_left)
                         /\ x = LabelledText(L, p, body)
    BY <2>1, Zenon DEF Labelled
  <2>3. HasLabel(x) /\ Label(x) = Digits(L) /\ Unlabelled(x) = body
    <3>1. LET y == LabelledText(L, p, body) IN
          HasLabel(y) /\ Label(y) = Digits(L) /\ Unlabelled(y) = body
      BY <1>1, <2>1, <2>2, LabelSplits, Zenon
    <3> QED BY <2>2, <3>1, Zenon
  <2>4. LabelledShape(L, p, body)
    BY <1>1, LabelledIs
  <2>5. Len(Label(x)) = L
    BY <2>3, <2>4, Zenon DEF LabelledShape
  <2>6. c = Inset + LabelledBodyColumn(b)
    BY <1>10 DEF FirstBodyColumn, b, c
  <2>7. CASE config.label_left
    <3> DEFINE m == AtLeast(Less(b, L), 1)
    <3>1. ParenScanLine(line, TRUE) = <<>> \o body
      BY <1>8, <2>3, <2>7 DEF ParenScanLine
    <3>2. t = L + m
      BY <1>4, <2>3, <2>5, <2>7, SMT DEF ScanTarget
    <3>3. c = Inset + (L + LabelPadding(b))
      BY <2>6, <2>7 DEF LabelledBodyColumn, LabelPadding
    <3>4. Less(b, L) \in Nat
      BY <1>1, <1>3, ArithmeticType
    <3>5. Clamp(Less(b, L)) \in Nat /\ Clamp(1) \in Nat /\ Clamp(1) <= 1
      BY <1>1, <3>4, ClampAdds
    <3>6. m \in Nat /\ Clamp(m) <= LabelPadding(b)
      BY <3>4, <3>5 DEF LabelPadding, AtLeast
    <3> HIDE DEF m
    <3>7. Clamp(m + L) <= Clamp(m) + L /\ Clamp(m) \in Nat /\ m + L = L + m
      <4>1. Clamp(m + L) <= Clamp(m) + L /\ Clamp(m) \in Nat
        BY <1>1, <3>6, ClampAdds
      <4>2. m + L = L + m
        BY <1>1, <3>6
      <4> QED BY <4>1, <4>2
    <3>8. L + m \in Nat
      BY <1>1, <3>6
    <3>9. Clamp(L + m) \in Nat
      BY <1>1, <3>8, ClampAdds
    <3>10. LabelPadding(b) \in Nat
      BY <3>5 DEF LabelPadding, AtLeast
    <3>11. Inset + Clamp(L + m) <= c
      BY <1>1, <1>2, <3>3, <3>6, <3>7, <3>9, <3>10
    <3>12. Under(Inset, t, c) /\ t + Len(<<>>) = t /\ t \in Nat
      <4> HIDE DEF t
      <4>1. t \in Nat
        BY <3>2, <3>8, Zenon
      <4>2. t + Len(<<>>) = t
        BY <1>8, <4>1
      <4>3. Under(Inset, t, c)
        BY <3>2, <3>11, Zenon DEF Under
      <4> QED BY <4>1, <4>2, <4>3
    <3> HIDE DEF t
    <3> QED BY <1>8, <3>1, <3>12, Zenon
  <2>8. CASE ~config.label_left
    <3> DEFINE a == Digits(L) \o Blanks(1)
    <3>1. p = 1
      BY <2>2, <2>8
    <3>2. a \in Seq(Cells) /\ Len(a) = L + 1 /\ \A i \in 1..L + 1 : a[i] \in {"1", "_"}
      BY <2>4, <3>1, Zenon DEF LabelledShape
    <3>3. ParenScanLine(line, TRUE) = a \o body
      BY <2>2, <2>8, <3>1 DEF ParenScanLine, LabelledText
    <3> HIDE DEF a
    <3>4. t = b \/ t = Less(b, 1)
      BY <1>4, <2>3, <2>8, SMT DEF ScanTarget
    <3>5. t \in Nat /\ t <= b
      <4> HIDE DEF t
      <4> QED BY <1>3, <3>4 DEF Less
    <3>6. c = Inset + (Clamp(b) + L + 1)
      BY <2>6, <2>8 DEF LabelledBodyColumn
    <3> HIDE DEF t
    <3>7. Clamp(t) \in Nat /\ Clamp(b) \in Nat /\ Clamp(t) <= Clamp(b)
      BY <1>1, <1>3, <3>5, ClampAdds
    <3>8. L + 1 \in Nat /\ t + (L + 1) \in Nat
      BY <1>1, <3>5
    <3>9. Clamp(t + (L + 1)) \in Nat /\ Clamp(t + (L + 1)) <= Clamp(t) + (L + 1)
      BY <1>1, <3>5, <3>8, ClampAdds
    <3>10. Inset + Clamp(t + (L + 1)) <= c /\ Inset + Clamp(t) <= c
      BY <1>1, <1>2, <3>6, <3>7, <3>9
    <3>11. Under(Inset, t + Len(a), c) /\ Under(Inset, t, c)
      BY <3>2, <3>10, Zenon DEF Under
    <3>12. Inert(NoAlignment, a)
      BY <3>2 DEF Inert, NoAlignment
    <3> QED BY <3>2, <3>3, <3>5, <3>11, <3>12, Zenon
  <2> QED BY <2>7, <2>8
<1> QED BY <1>9, <1>10

\* The columns of the next line, where lines are aligned.
NextOf(state) ==
    IF ~plan.align \/ state.stack = <<>> THEN ContinuationColumn ELSE Top(state.stack).alignment

CurrentOf(state) == IF state.stack = <<>> THEN {} ELSE {Top(state.stack).alignment}

LEMMA NextScan ==
    ASSUME Begun, outcome # "none", Cond => config.openmp, plan.align, plan.cont,
           NEW line, OfStatement(line), line.cells \in Seq(Cells),
           NEW u \in ScanStates, NEW v \in ScanStates, Beside(Inset, u, v)
    PROVE  /\ ScanOf(v, line, FALSE, CurrentOf(v)) \in ScanStates
           /\ Beside(Inset, Scan(u, line.cells, NextOf(u)), ScanOf(v, line, FALSE, CurrentOf(v)))
<1> DEFINE f == plan.first_indent
           b == Less(f, Inset)
           al == CurrentOf(v)
           x == line.cells
           t == ScanTarget(line, FALSE, al)
           c == NextOf(u)
           r == IF config.indent_continuation THEN config.continuation_indent ELSE 0
           base == IF al # {} THEN CHOOSE k \in al : TRUE ELSE f + r
<1>1. config.max_indent \in Nat /\ f \in Nat /\ config.continuation_indent \in Nat
  BY ConfigFacts
<1>2. Inset \in Nat /\ ContinuationColumn \in Nat
  BY ColumnTypes
<1>3. b \in Nat /\ r \in Nat
  BY <1>1, <1>2, ArithmeticType
<1>4. ContinuationColumn = Inset + b + r
  BY DEF ContinuationColumn
<1>5. /\ u.stack \in Seq(Openings) /\ v.stack \in Seq(Openings)
      /\ u.prev_indent \in Nat /\ v.prev_indent \in Nat
      /\ u.start_indent \in Int /\ v.start_indent \in Int
  BY DEF ScanStates
<1>6. /\ Abreast(Inset, u, v) /\ Aligned(Inset, u.stack, v.stack)
      /\ Clamp(v.prev_indent) <= u.prev_indent
      /\ u.stack # <<>> => Under(Inset, v.prev_indent, u.prev_indent)
      /\ u.start_indent >= 0 /\ v.start_indent >= 0
      /\ Under(Inset, v.start_indent, u.start_indent)
  BY Zenon DEF Beside, Abreast
<1>7. u.stack = <<>> <=> v.stack = <<>>
  BY <1>5, <1>6, AlignedEmpty
<1>8. t = Less(base, Inset)
  <2>1. (IsConditional(line) <=> Cond) /\ Inset = (IF Cond THEN 3 ELSE 0)
    BY Conditionals
  <2>2. t = IF IsConditional(line) THEN Less(base, 3) ELSE base
    BY SMT DEF ScanTarget
  <2>3. base \in Nat
    <3>1. CASE v.stack = <<>>
      BY <1>1, <1>3, <3>1 DEF CurrentOf
    <3>2. CASE v.stack # <<>>
      <4>1. Top(v.stack).alignment \in Nat
        BY <1>5, <3>2, TopIs
      <4> QED BY <3>2, <4>1 DEF CurrentOf
    <3> QED BY <3>1, <3>2
  <2>4. Less(base, 0) = base
    BY <2>3 DEF Less
  <2> QED BY <2>1, <2>2, <2>4
<1>9. ParenScanLine(line, FALSE) = <<>> \o x
  <2>1. <<>> \o x = x
    OBVIOUS
  <2> QED BY <2>1 DEF ParenScanLine
<1> HIDE DEF b, r, t
<1>10. c \in Nat /\ t \in Nat
       /\ Under(Inset, ScanOrigin(v, t), ScanOrigin(u, c))
  <2>1. CASE u.stack = <<>>
    <3>1. c = Inset + b + r
      BY <1>4, <2>1 DEF NextOf
    <3>2. base = f + r
      BY <1>7, <2>1 DEF CurrentOf
    <3>3. t \in Nat /\ Inset + t <= c
      <4>1. t = Less(f + r, Inset) /\ b = Less(f, Inset)
        BY <1>8, <3>2, Zenon DEF b
      <4> QED BY <1>1, <1>2, <1>3, <3>1, <4>1 DEF Less
    <3>4. c \in Nat
      BY <1>2, <1>3, <3>1
    <3>5. Clamp(v.prev_indent) \in Nat /\ Clamp(v.prev_indent + t) <= Clamp(v.prev_indent) + t
      BY <1>1, <1>5, <3>3, ClampAdds
    <3>6. v.prev_indent + t \in Nat
      BY <1>5, <3>3
    <3>7. Clamp(v.prev_indent + t) \in Nat
      BY <1>1, <3>6, ClampAdds
    <3>8. Inset + Clamp(v.prev_indent + t) <= u.prev_indent + c
      BY <1>2, <1>5, <1>6, <3>3, <3>4, <3>5, <3>7
    <3>9. ScanOrigin(v, t) = v.prev_indent + t /\ ScanOrigin(u, c) = u.prev_indent + c
      BY <1>7, <2>1 DEF ScanOrigin
    <3> QED BY <3>3, <3>4, <3>8, <3>9, Zenon DEF Under
  <2>2. CASE u.stack # <<>>
    <3>1. Top(u.stack).alignment \in Nat /\ Top(v.stack).alignment \in Nat
      BY <1>5, <1>7, <2>2, TopIs
    <3>2. c = Top(u.stack).alignment
      BY <2>2 DEF NextOf
    <3>3. base = Top(v.stack).alignment
      BY <1>7, <2>2 DEF CurrentOf
    <3>4. t \in Nat
      BY <1>2, <1>8, <3>1, <3>3, ArithmeticType
    <3>5. ScanOrigin(v, t) = v.prev_indent + 0 /\ ScanOrigin(u, c) = u.prev_indent + 0
      BY <1>7, <2>2 DEF ScanOrigin
    <3>6. ScanOrigin(v, t) = v.prev_indent /\ ScanOrigin(u, c) = u.prev_indent
      BY <1>5, <3>5
    <3> QED BY <1>6, <2>2, <3>1, <3>2, <3>4, <3>6, Zenon
  <2> QED BY <2>1, <2>2
<1> HIDE DEF c
<1>11. ScanStart(v, t) = v.start_indent /\ ScanStart(u, c) = u.start_indent
  BY <1>5, <1>6 DEF ScanStart
<1>12. Under(Inset, ScanStart(v, t), ScanStart(u, c))
  BY <1>6, <1>11, Zenon
<1> DEFINE e == <<>>
<1>13. e \in Seq(Cells) /\ Inert(v, e) /\ Len(e) = 0
  BY EmptySeq DEF Inert
<1>14. ScanOrigin(v, t) \in Nat
  BY <1>10, ScanRules
<1>15. ScanOrigin(v, t) + Len(e) = ScanOrigin(v, t)
  BY <1>13, <1>14
<1>16. Beside(Inset, Scan(u, x, c), Scan(v, <<>> \o x, t))
  <2> HIDE DEF e
  <2>1. Under(Inset, ScanOrigin(v, t) + Len(e), ScanOrigin(u, c))
    BY <1>10, <1>15, Zenon
  <2>2. Beside(Inset, Scan(u, x, c), Scan(v, e \o x, t))
    BY <1>1, <1>2, <1>6, <1>10, <1>12, <1>13, <2>1, ScanBeside
  <2> QED BY <2>2 DEF e
<1>17. Len(<<>> \o x) \in Nat
  OBVIOUS
<1>18. Scan(v, <<>> \o x, t) \in ScanStates
  BY <1>10, <1>17, ScanType
<1> QED BY <1>9, <1>16, <1>18, Zenon DEF ScanOf, t, c
-----------------------------------------------------------------------------
(* What the wrapper charged, and what the layout has written of it *)

Followed(k) == k < Len(lines) \/ outcome = "breaking"
Body(k)     == Text(lines[k]) \o (IF Followed(k) THEN Marker ELSE <<>>)
Spare(s)    == IF S.form = "directive" THEN 0 ELSE Widened(s)

WroteOut == outcome \in {"joined", "wrapped"}
Underway == outcome = "breaking" \/ WroteOut

Settings ==
    outcome # "none" =>
        /\ plan.apply /\ plan.replacement = {}
        /\ S.form # "plain" => config.openmp

\* The lines of the wrapper, at the columns it charged them.
Charges ==
    Underway =>
        /\ lines \in Seq(Seq(Tokens)) /\ charged \in Seq(Nat) /\ Len(charged) = Len(lines)
        /\ \A k \in 1..Len(lines) :
              /\ lines[k] # <<>>
              /\ charged[k] + Len(Body(k)) + Spare(lines[k]) <= config.line_length
              /\ S.form = "directive" => charged[k] = plan.first_indent + 6
        /\ lines # <<>> => lines[1][1].text[1] # "1"

\* What is left to break.
Ahead ==
    outcome = "breaking" =>
        /\ lines = <<>> => rest[1].text[1] # "1"
        /\ S.form = "directive" => column = plan.first_indent + 6
        /\ Widened(rest) <= Growth(S.tokens)

\* The alignment behind each line, as next_continuation found it.
ColumnAt(w, k) == IF k = 1 THEN FirstBodyColumn ELSE NextOf(w[k - 1])

History(w) ==
    LET n == IF outcome = "breaking" THEN Len(lines) ELSE Len(lines) - 1 IN
    /\ w[0] = NoAlignment /\ \A k \in 0..n : w[k] \in ScanStates
    /\ \A k \in 1..n : w[k] = Scan(w[k - 1], Text(lines[k]) \o Marker, charged[k])
    /\ \A k \in 1..Len(lines) : charged[k] = ColumnAt(w, k)
    /\ outcome = "breaking" => scan = w[n] /\ column = ColumnAt(w, n + 1)

\* A line of the wrapper, in the source of the layout or in what it wrote.
OfDirective(line, k) ==
    /\ DOMAIN line = LineFields /\ line.lead \in Nat /\ line.lead <= plan.first_indent
    /\ line.kind = "Comment" /\ line.omp = "none" /\ line.gap = 0
    /\ line.cells \in Seq(Cells) /\ Len(line.cells) <= 6 + Len(Body(k))

Form(line, k) ==
    IF S.form = "directive" THEN OfDirective(line, k)
    ELSE /\ OfStatement(line)
         /\ IF k = 1 THEN FirstText(line, Body(1))
            ELSE line.cells = Body(k) /\ (~Cond => line.lead <= charged[k])

Sits(line, k) == Form(line, k) /\ Width(line) <= charged[k] + Len(Body(k))

IsSequence(s) == \E T : s \in Seq(T)

Written ==
    WroteOut =>
        /\ lines # <<>> /\ Len(source) = Len(lines)
        /\ IsSequence(out) /\ Len(out) <= Len(lines)
        /\ plan.uniform = (S.form = "directive") /\ plan.cont = (Len(lines) > 1)
        /\ \A k \in 1..Len(source) : Form(source[k], k)
        /\ \A k \in 1..Len(out) : Sits(out[k], k)

\* The alignment of the layout, beside that of the wrapper.
Alongside(w) ==
    WroteOut /\ plan.align /\ Len(out) < Len(lines) =>
        IF out = <<>> THEN paren_state = NoAlignment
        ELSE paren_state \in ScanStates /\ Beside(Inset, w[Len(out)], paren_state)

LEMMA BodyIs ==
    ASSUME Charges, Underway, NEW k \in 1..Len(lines)
    PROVE  /\ lines[k] \in Seq(Tokens) /\ lines[k] # <<>> /\ charged[k] \in Nat
           /\ Body(k) \in Seq(Cells) /\ Body(k) # <<>> /\ Len(Body(k)) \in Nat
           /\ Ink(Body(k), 1) /\ Ink(Body(k), Len(Body(k)))
           /\ Body(k)[1] = lines[k][1].text[1]
           /\ Len(Body(k)) = Len(Text(lines[k])) + (IF Followed(k) THEN 2 ELSE 0)
           /\ Len(Text(lines[k])) \in Nat
<1>1. lines \in Seq(Seq(Tokens)) /\ charged \in Seq(Nat) /\ Len(charged) = Len(lines)
      /\ \A i \in 1..Len(lines) : lines[i] # <<>>
  BY Zenon DEF Charges
<1>2. lines[k] \in Seq(Tokens) /\ lines[k] # <<>>
  BY <1>1
<1>3. charged[k] \in Nat
  BY <1>1
<1> DEFINE c == IF Followed(k) THEN Marker ELSE <<>>
           s == lines[k]
           b == Text(s) \o c
<1>4. c \in {<<>>, Marker} /\ (c = <<>> <=> ~Followed(k))
  <2>1. Marker # <<>>
    BY DEF Marker
  <2> QED BY <2>1
<1> HIDE DEF c, s
<1>5. /\ b \in Seq(Cells) /\ b # <<>>
      /\ Len(Text(s)) \in Nat /\ Len(b) = Len(Text(s)) + Len(c)
      /\ Len(c) = (IF c = <<>> THEN 0 ELSE 2)
      /\ b[1] = s[1].text[1] /\ Ink(b, 1) /\ Ink(b, Len(b))
  BY <1>2, <1>4, MarkedText DEF s
<1>6. Len(b) = Len(Text(s)) + (IF Followed(k) THEN 2 ELSE 0) /\ Len(b) \in Nat
  BY <1>4, <1>5
<1>7. Body(k) = b
  BY Zenon DEF Body, b, c, s
<1> HIDE DEF b
<1> QED BY <1>2, <1>3, <1>5, <1>6, <1>7, Zenon DEF s

LEMMA OpensUnmarked ==
    ASSUME Charges, WroteOut, LinesReadAsWritten, NEW k \in 2..Len(lines)
    PROVE  ~LeadingAmpersand(Body(k))
<1>1. k \in 1..Len(lines) /\ Underway
  BY DEF Underway
<1>2. lines[k] \in Seq(Tokens) /\ lines[k] # <<>> /\ Body(k)[1] = lines[k][1].text[1]
  BY <1>1, BodyIs
<1>3. lines[k][1].kind # "&"
  BY Zenon DEF LinesReadAsWritten, WroteOut
<1>4. lines[k][1] \in Tokens
  <2> DEFINE s == lines[k]
  <2> HIDE DEF s
  <2>1. s \in Seq(Tokens) /\ s # <<>>
    BY <1>2 DEF s
  <2>2. 1 \in 1..Len(s)
    BY <2>1
  <2>3. s[1] \in Tokens
    BY <2>1, <2>2
  <2> QED BY <2>3 DEF s
<1>5. lines[k][1].text[1] # "&"
  BY <1>3, <1>4 DEF Tokens
<1> QED BY <1>2, <1>5, Zenon DEF LeadingAmpersand
-----------------------------------------------------------------------------
(* A line of a statement is laid out *)

\* What the next line of the source comes to.
Writes(w) ==
    \E e : /\ out' = Append(out, e) /\ Sits(e, Len(out) + 1)
           /\ plan.align /\ Len(out) + 1 < Len(lines) =>
                 paren_state' \in ScanStates /\ Beside(Inset, w[Len(out) + 1], paren_state')

LEMMA OneMore ==
    ASSUME NEW s, IsSequence(s), NEW e
    PROVE  /\ IsSequence(Append(s, e)) /\ Append(s, e) # <<>>
           /\ Len(s) \in Nat /\ Len(Append(s, e)) = Len(s) + 1
           /\ \A k \in 1..Len(s) : Append(s, e)[k] = s[k]
           /\ Append(s, e)[Len(s) + 1] = e
<1>1. PICK T : s \in Seq(T)
  BY DEF IsSequence
<1> DEFINE U == T \cup {e}
           a == Append(s, e)
<1>2. s \in Seq(U) /\ e \in U
  BY <1>1
<1> HIDE DEF U
<1>3. /\ a \in Seq(U) /\ Len(a) = Len(s) + 1 /\ Len(s) \in Nat
      /\ \A k \in 1..Len(s) : a[k] = s[k]
      /\ a[Len(s) + 1] = e
  BY <1>2, AppendProperties
<1> HIDE DEF a
<1>4. a # <<>>
  BY <1>3
<1> QED BY <1>3, <1>4, Zenon DEF IsSequence, a

LEMMA CodeFacts ==
    ASSUME Begun, Settings, Charges, Written, WroteOut, S.form # "directive", EmitCode
    PROVE  /\ outcome # "none" /\ Underway /\ Len(out) \in Nat /\ Len(out) + 1 \in 1..Len(lines)
           /\ Len(lines) \in Nat
           /\ Form(Next1, Len(out) + 1) /\ OfStatement(Next1)
           /\ plan.apply /\ (Cond => config.openmp) /\ plan.replacement = {}
           /\ Next1.kind = "Code" /\ plan.cont = (Len(lines) > 1)
<1>1. outcome # "none" /\ Underway
  BY DEF WroteOut, Underway
<1>2. plan.apply /\ plan.replacement = {} /\ (S.form # "plain" => config.openmp)
  BY <1>1, Zenon DEF Settings
<1>3. Cond => config.openmp
  <2>1. "conditional" # "plain"
    OBVIOUS
  <2> QED BY <1>2, <2>1, Zenon DEF Cond
<1>4. Len(source) = Len(lines) /\ Len(out) <= Len(lines) /\ plan.cont = (Len(lines) > 1)
      /\ \A k \in 1..Len(source) : Form(source[k], k)
  BY Zenon DEF Written
<1>5. Len(out) < Len(source)
  BY DEF EmitCode
<1>6. lines \in Seq(Seq(Tokens))
  BY <1>1, Zenon DEF Charges
<1>7. Len(lines) \in Nat
  BY <1>6
<1>8. Len(out) \in Nat /\ Len(out) + 1 \in 1..Len(lines)
  <2> QED BY <1>4, <1>5, <1>7
<1>9. Form(Next1, Len(out) + 1)
  BY <1>4, <1>8, Zenon DEF Next1
<1>10. OfStatement(Next1)
  BY <1>9, Zenon DEF Form
<1>11. Next1.kind = "Code"
  BY <1>10, Zenon DEF OfStatement
<1> QED BY <1>1, <1>2, <1>3, <1>4, <1>7, <1>8, <1>9, <1>10, <1>11

LEMMA WritesFirst ==
    ASSUME Begun, Settings, Charges, Written, WroteOut, S.form # "directive", EmitCode,
           NEW w, History(w), Alongside(w), out = <<>>
    PROVE  Writes(w)
<1> DEFINE x == Next1
           f == plan.first_indent
           d == Len(lines) > 1
           b == Body(1)
           e == Emit(x, f, TRUE, d, {}, {})
           q == ScanOf(NoAlignment, x, TRUE, {})
<1>1. /\ outcome # "none" /\ Underway /\ OfStatement(x) /\ plan.apply /\ (Cond => config.openmp)
      /\ plan.replacement = {} /\ x.kind = "Code" /\ plan.cont = d /\ Form(x, Len(out) + 1)
      /\ Len(lines) \in Nat /\ Len(out) + 1 \in 1..Len(lines)
  BY CodeFacts
<1>2. Len(out) + 1 = 1 /\ 1 \in 1..Len(lines)
  BY <1>1
<1>3. FirstText(x, b)
  BY <1>1, <1>2, Zenon DEF Form
<1>4. /\ b \in Seq(Cells) /\ b # <<>> /\ Ink(b, 1) /\ Ink(b, Len(b)) /\ b[1] = lines[1][1].text[1]
  BY <1>1, <1>2, BodyIs
<1>5. ~Digit(b, 1)
  <2>1. lines # <<>>
    BY <1>2
  <2>2. lines[1][1].text[1] # "1"
    BY <1>1, <2>1, Zenon DEF Charges
  <2> QED BY <1>4, <2>2, Zenon DEF Digit
<1>6. charged[1] = FirstBodyColumn
  <2>1. charged[1] = ColumnAt(w, 1)
    BY <1>2, Zenon DEF History
  <2> QED BY <2>1, Zenon DEF ColumnAt
<1> HIDE DEF b, d, x, f
<1>7. OfStatement(e) /\ FirstText(e, b) /\ Width(e) <= FirstBodyColumn + Len(b)
  BY <1>1, <1>3, <1>4, <1>5, FirstLine, Zenon DEF e, f
<1>8. q \in ScanStates /\ Beside(Inset, Scan(NoAlignment, b, FirstBodyColumn), q)
  BY <1>1, <1>3, <1>4, <1>5, FirstScan, Zenon DEF q
<1> HIDE DEF e, q
<1>9. First = TRUE
  BY DEF First
<1>10. out' = Append(out, e)
  BY <1>1, <1>9 DEF EmitCode, e, x, f, d
<1>11. plan.align => paren_state' = Scan(paren_state, ParenScanLine(x, TRUE), ScanTarget(x, TRUE, {}))
  BY <1>1, <1>9 DEF EmitCode, x
<1>12. Sits(e, Len(out) + 1)
  BY <1>2, <1>6, <1>7, Zenon DEF Sits, Form, b
<1>13. ASSUME plan.align, Len(out) + 1 < Len(lines)
       PROVE  paren_state' \in ScanStates /\ Beside(Inset, w[Len(out) + 1], paren_state')
  <2>1. paren_state = NoAlignment
    <3>1. Len(out) < Len(lines)
      BY <1>2, <1>13
    <3> QED BY <1>13, <3>1, Zenon DEF Alongside
  <2>2. paren_state' = q
    BY <1>11, <1>13, <2>1, Zenon DEF q, ScanOf
  <2>3. w[1] = Scan(NoAlignment, b, FirstBodyColumn)
    <3>1. outcome # "breaking"
      BY DEF WroteOut
    <3>2. 1 \in 1..(Len(lines) - 1) /\ 1 - 1 = 0 /\ 1 < Len(lines)
      BY <1>1, <1>2, <1>13
    <3>3. w[1] = Scan(w[1 - 1], Text(lines[1]) \o Marker, charged[1]) /\ w[0] = NoAlignment
      BY <3>1, <3>2, Zenon DEF History
    <3>4. b = Text(lines[1]) \o Marker
      BY <3>2, Zenon DEF b, Body, Followed
    <3> QED BY <1>6, <3>2, <3>3, <3>4, Zenon
  <2> QED BY <1>2, <1>8, <2>2, <2>3, Zenon
<1> QED BY <1>10, <1>12, <1>13, Zenon DEF Writes

LEMMA WritesNext ==
    ASSUME Begun, Settings, Charges, Written, WroteOut, LinesReadAsWritten,
           S.form # "directive", EmitCode,
           NEW w, History(w), Alongside(w), out # <<>>
    PROVE  Writes(w)
<1> DEFINE x == Next1
           f == plan.first_indent
           n == Len(out)
           k == n + 1
           b == Body(k)
           c == charged[k]
           al == IF plan.align THEN CurrentOf(paren_state) ELSE {}
           e == Emit(x, f, FALSE, TRUE, al, {})
           q == ScanOf(paren_state, x, FALSE, al)
<1>1. /\ outcome # "none" /\ Underway /\ OfStatement(x) /\ plan.apply /\ (Cond => config.openmp)
      /\ x.kind = "Code" /\ plan.cont = (Len(lines) > 1) /\ Form(x, k)
      /\ Len(lines) \in Nat /\ n \in Nat /\ k \in 1..Len(lines)
  BY CodeFacts
<1>2. n >= 1 /\ n \in 1..Len(lines) /\ n <= Len(lines) - 1 /\ n < Len(lines)
      /\ k \in 2..Len(lines) /\ k # 1 /\ k - 1 = n
  <2>1. n # 0
    <3>1. IsSequence(out)
      BY Zenon DEF Written
    <3>2. PICK T : out \in Seq(T)
      BY <3>1 DEF IsSequence
    <3> QED BY <3>2
  <2> HIDE DEF n
  <2> QED BY <1>1, <2>1
<1>3. plan.cont
  <2>1. Len(lines) > 1
    BY <1>1, <1>2
  <2>2. plan.cont = (Len(lines) > 1)
    BY <1>1
  <2> QED BY <2>1, <2>2, Zenon
<1> HIDE DEF n
<1>4. x.cells = b /\ (~Cond => x.lead <= c)
  BY <1>1, <1>2, Zenon DEF Form
<1>5. /\ b \in Seq(Cells) /\ b # <<>> /\ Ink(b, Len(b)) /\ c \in Nat
  BY <1>1, BodyIs
<1>6. ~LeadingAmpersand(b)
  BY <1>2, OpensUnmarked
<1>7. w[n] \in ScanStates /\ c = NextOf(w[n])
  <2>1. outcome # "breaking"
    BY DEF WroteOut
  <2>2. n \in 0..(Len(lines) - 1)
    BY <1>1, <1>2
  <2>3. w[n] \in ScanStates /\ charged[k] = ColumnAt(w, k)
    BY <1>1, <2>1, <2>2, Zenon DEF History
  <2>4. ColumnAt(w, k) = NextOf(w[k - 1])
    BY <1>2, Zenon DEF ColumnAt
  <2> QED BY <1>2, <2>3, <2>4, Zenon
<1>8. plan.align => paren_state \in ScanStates /\ Beside(Inset, w[n], paren_state)
  BY <1>2, Zenon DEF Alongside, n
<1> HIDE DEF b, c, k
<1>9. NextColumns(x, al, c)
  <2>1. CASE ~plan.align
    <3>1. al = {} /\ c = ContinuationColumn
      BY <1>7, <2>1 DEF NextOf
    <3> QED BY <1>4, <3>1, Zenon DEF NextColumns
  <2>2. CASE plan.align
    <3> DEFINE u == w[n]
               v == paren_state
    <3>1. u.stack \in Seq(Openings) /\ v.stack \in Seq(Openings) /\ Aligned(Inset, u.stack, v.stack)
      BY <1>7, <1>8, <2>2 DEF ScanStates, Beside, Abreast
    <3>2. /\ u.stack = <<>> <=> v.stack = <<>>
          /\ u.stack # <<>> => Under(Inset, Top(v.stack).alignment, Top(u.stack).alignment)
      BY <3>1, AlignedEmpty
    <3>3. CASE u.stack = <<>>
      <4>1. al = {} /\ c = ContinuationColumn
        BY <1>7, <2>2, <3>2, <3>3, Zenon DEF NextOf, CurrentOf
      <4> QED BY <1>4, <4>1, Zenon DEF NextColumns
    <3>4. CASE u.stack # <<>>
      <4>1. al = {Top(v.stack).alignment} /\ c = Top(u.stack).alignment
        BY <1>7, <2>2, <3>2, <3>4, Zenon DEF NextOf, CurrentOf
      <4>2. Top(v.stack).alignment \in Nat
        BY <3>1, <3>2, <3>4, TopIs
      <4> QED BY <3>2, <3>4, <4>1, <4>2, Zenon DEF NextColumns
    <3> QED BY <3>3, <3>4
  <2> QED BY <2>1, <2>2
<1> HIDE DEF x, f, al
<1>10. OfStatement(e) /\ e.cells = x.cells /\ (~Cond => e.lead <= c) /\ Width(e) <= c + Len(x.cells)
  BY <1>1, <1>4, <1>5, <1>6, <1>9, NextLine, Zenon DEF e, f
<1> HIDE DEF e
<1>11. First = FALSE
  BY DEF First
<1>12. al = IF ~plan.align THEN {} ELSE Current
  BY Zenon DEF al, Current, CurrentOf
<1>13. out' = Append(out, e)
  BY <1>1, <1>3, <1>11, <1>12 DEF EmitCode, e, x, f
<1>14. plan.align => paren_state' = Scan(paren_state, ParenScanLine(x, FALSE), ScanTarget(x, FALSE, al))
  BY <1>1, <1>11, <1>12 DEF EmitCode, x
<1>15. Sits(e, k)
  BY <1>2, <1>4, <1>10, Zenon DEF Sits, Form, b, c
<1>16. ASSUME plan.align, k < Len(lines)
       PROVE  paren_state' \in ScanStates /\ Beside(Inset, w[k], paren_state')
  <2>1. al = CurrentOf(paren_state)
    BY <1>16 DEF al
  <2>2. q \in ScanStates /\ Beside(Inset, Scan(w[n], x.cells, NextOf(w[n])), q)
    BY <1>1, <1>3, <1>4, <1>5, <1>7, <1>8, <1>16, <2>1, NextScan, Zenon DEF q
  <2>3. paren_state' = q
    BY <1>14, <1>16, Zenon DEF q, ScanOf
  <2>4. w[k] = Scan(w[n], x.cells, NextOf(w[n]))
    <3>1. outcome # "breaking"
      BY DEF WroteOut
    <3>2. k \in 1..(Len(lines) - 1)
      BY <1>1, <1>16 DEF k
    <3>3. w[k] = Scan(w[k - 1], Text(lines[k]) \o Marker, charged[k])
      BY <3>1, <3>2, Zenon DEF History
    <3>4. b = Text(lines[k]) \o Marker
      BY <1>16, Zenon DEF b, Body, Followed
    <3> QED BY <1>2, <1>4, <1>7, <3>3, <3>4, Zenon DEF c
  <2> QED BY <2>2, <2>3, <2>4, Zenon
<1> QED BY <1>13, <1>15, <1>16, Zenon DEF Writes, k, n
-----------------------------------------------------------------------------
(* WrappedLinesFit, and what it takes *)

FitInv ==
    /\ ReadInv /\ Settings /\ Charges /\ Ahead /\ Written
    /\ Underway /\ S.form # "directive" => \E w : History(w) /\ Alongside(w)

\* The layout changes neither the settings nor what the wrapper made.
Fixed == UNCHANGED <<config, plan, reflowVars>>

LEMMA FixedIs ==
    ASSUME Fixed
    PROVE  /\ config' = config /\ plan' = plan /\ statement' = statement /\ outcome' = outcome
           /\ lines' = lines /\ rest' = rest /\ column' = column /\ scan' = scan
           /\ charged' = charged /\ S' = S
BY DEF Fixed, reflowVars, S

LEMMA FixedColumns ==
    ASSUME Fixed
    PROVE  /\ Inset' = Inset /\ Cond' = Cond
           /\ \A n : Clamp(n)' = Clamp(n)
           /\ FirstBodyColumn' = FirstBodyColumn /\ ContinuationColumn' = ContinuationColumn
           /\ \A s : NextOf(s)' = NextOf(s)
           /\ \A k : Body(k)' = Body(k)
<1>1. /\ config' = config /\ plan' = plan /\ outcome' = outcome /\ lines' = lines /\ S' = S
  BY FixedIs
<1>2. Cond' = Cond
  BY <1>1 DEF Cond
<1>3. Inset' = Inset
  BY <1>2 DEF Inset
<1>4. \A n : Clamp(n)' = Clamp(n)
  BY <1>1, Zenon DEF Clamp
<1>5. \A n : LabelledBodyColumn(n)' = LabelledBodyColumn(n)
  BY <1>1, Zenon DEF LabelledBodyColumn, Clamp
<1>6. FirstBodyColumn' = FirstBodyColumn
  BY <1>1, <1>3, <1>5, Zenon DEF FirstBodyColumn, LabelledBodyColumn, Clamp
<1>7. ContinuationColumn' = ContinuationColumn
  BY <1>1, <1>3, Zenon DEF ContinuationColumn
<1>8. \A s : NextOf(s)' = NextOf(s)
  BY <1>1, <1>7, Zenon DEF NextOf
<1>9. \A k : Body(k)' = Body(k)
  BY <1>1, Zenon DEF Body, Followed
<1> QED BY <1>2, <1>3, <1>4, <1>6, <1>7, <1>8, <1>9

LEMMA FixedForm ==
    ASSUME Fixed
    PROVE  \A line, k : Sits(line, k)' = Sits(line, k) /\ Form(line, k)' = Form(line, k)
<1>1. /\ config' = config /\ plan' = plan /\ lines' = lines /\ charged' = charged /\ S' = S
      /\ outcome' = outcome
  BY FixedIs
<1>2. Cond' = Cond /\ \A k : Body(k)' = Body(k)
  BY FixedColumns
<1>3. \A line : OfStatement(line)' = OfStatement(line)
  BY <1>2, Zenon DEF OfStatement
<1>4. \A line, b : FirstText(line, b)' = FirstText(line, b)
  BY <1>1, Zenon DEF FirstText, Labelled
<1>5. \A line, k : OfDirective(line, k)' = OfDirective(line, k)
  BY <1>1, <1>2, Zenon DEF OfDirective
<1>6. \A line, k : Form(line, k)' = Form(line, k)
  BY <1>1, <1>2, <1>3, <1>4, <1>5, Zenon DEF Form
<1>7. \A line, k : Sits(line, k)' = Sits(line, k)
  BY <1>1, <1>2, <1>6, Zenon DEF Sits
<1> QED BY <1>6, <1>7

LEMMA FixedHistory ==
    ASSUME Fixed, NEW w, History(w)
    PROVE  History(w)'
<1>1. /\ config' = config /\ plan' = plan /\ lines' = lines /\ charged' = charged /\ S' = S
      /\ outcome' = outcome /\ scan' = scan /\ column' = column
  BY FixedIs
<1>2. FirstBodyColumn' = FirstBodyColumn /\ (\A s : NextOf(s)' = NextOf(s))
  BY FixedColumns
<1>3. \A k : ColumnAt(w, k)' = ColumnAt(w, k)
  BY <1>2, Zenon DEF ColumnAt
<1> QED BY <1>1, <1>3, Zenon DEF History

LEMMA FixedCharges ==
    ASSUME Fixed, Settings, Charges, Ahead
    PROVE  Settings' /\ Charges' /\ Ahead'
<1>1. /\ config' = config /\ plan' = plan /\ lines' = lines /\ charged' = charged /\ S' = S
      /\ outcome' = outcome /\ rest' = rest /\ column' = column
  BY FixedIs
<1>2. \A k : Body(k)' = Body(k)
  BY FixedColumns
<1>3. Settings'
  BY <1>1, Zenon DEF Settings
<1>4. Charges'
  BY <1>1, <1>2, Zenon DEF Charges, Underway, WroteOut, Spare
<1>5. Ahead'
  BY <1>1, Zenon DEF Ahead
<1> QED BY <1>3, <1>4, <1>5
-----------------------------------------------------------------------------
(* The layout keeps it *)

LEMMA LayoutKeeps ==
    ASSUME FitInv, Fixed, WroteOut => Written',
           WroteOut /\ S.form # "directive" => \E w : History(w) /\ Alongside(w)',
           outcome # "breaking"
    PROVE  FitInv'
<1>1. S' = S /\ outcome' = outcome
  BY FixedIs
<1>2. Settings' /\ Charges' /\ Ahead'
  BY FixedCharges DEF FitInv
<1>3. ReadInv'
  BY ReadStays DEF FitInv, Fixed
<1>4. Written'
  <2>1. CASE WroteOut
    BY <2>1
  <2>2. CASE ~WroteOut
    BY <1>1, <2>2 DEF Written, WroteOut
  <2> QED BY <2>1, <2>2
<1>5. ASSUME Underway', S'.form # "directive" PROVE \E w : History(w)' /\ Alongside(w)'
  <2>1. WroteOut
    BY <1>1, <1>5 DEF Underway, WroteOut
  <2>2. PICK w : History(w) /\ Alongside(w)'
    BY <1>1, <1>5, <2>1, Zenon
  <2>3. History(w)'
    BY <2>2, FixedHistory
  <2> QED BY <2>2, <2>3, Zenon
<1> QED BY <1>2, <1>3, <1>4, <1>5, Zenon DEF FitInv

LEMMA OneMoreWritten ==
    ASSUME FitInv, Fixed, WroteOut, source' = source, NEW e, out' = Append(out, e),
           Sits(e, Len(out) + 1), Len(out) < Len(source)
    PROVE  Written'
<1>1. S' = S /\ outcome' = outcome /\ plan' = plan /\ lines' = lines
  BY FixedIs
<1>2. /\ lines # <<>> /\ Len(source) = Len(lines) /\ IsSequence(out) /\ Len(out) <= Len(lines)
      /\ plan.uniform = (S.form = "directive") /\ plan.cont = (Len(lines) > 1)
      /\ \A k \in 1..Len(source) : Form(source[k], k)
      /\ \A k \in 1..Len(out) : Sits(out[k], k)
  BY Zenon DEF FitInv, Written
<1>3. /\ IsSequence(out') /\ Len(out) \in Nat /\ Len(out') = Len(out) + 1
      /\ \A k \in 1..Len(out) : out'[k] = out[k]
      /\ out'[Len(out) + 1] = e
  BY <1>2, OneMore
<1>4. Len(lines) \in Nat
  <2>1. lines \in Seq(Seq(Tokens))
    BY Zenon DEF FitInv, Charges, Underway
  <2> QED BY <2>1
<1>5. Len(out') <= Len(lines)
  BY <1>2, <1>3, <1>4
<1>6. ASSUME NEW k \in 1..Len(out') PROVE Sits(out'[k], k)
  <2>1. k \in 1..Len(out) \/ k = Len(out) + 1
    BY <1>3
  <2> QED BY <1>2, <1>3, <2>1, Zenon
<1>7. \A line, k : Sits(line, k)' = Sits(line, k) /\ Form(line, k)' = Form(line, k)
  BY FixedForm
<1>8. (\A k \in 1..Len(source) : Form(source[k], k))'
  BY <1>2, <1>7, Zenon
<1>9. (\A k \in 1..Len(out) : Sits(out[k], k))'
  BY <1>6, <1>7, Zenon
<1> QED BY <1>1, <1>2, <1>3, <1>5, <1>8, <1>9, Zenon DEF Written

LEMMA FitWritesCode ==
    ASSUME FitInv, EmitCode, outcome # "breaking", UNCHANGED reflowVars
    PROVE  FitInv'
<1>1. Fixed /\ source' = source /\ Len(out) < Len(source) /\ ~plan.uniform
  BY DEF EmitCode, Fixed
<1>2. CASE ~WroteOut
  BY <1>1, <1>2, LayoutKeeps
<1>3. CASE WroteOut
  <2>1. Begun /\ Settings /\ Charges /\ Written /\ LinesReadAsWritten
    BY DEF FitInv, ReadInv
  <2>2. S.form # "directive"
    BY <1>1, <1>3, <2>1 DEF Written
  <2>3. PICK w : History(w) /\ Alongside(w)
    BY <1>3, <2>2, Zenon DEF FitInv, Underway
  <2>4. Writes(w)
    BY <1>3, <2>1, <2>2, <2>3, WritesFirst, WritesNext, Zenon
  <2>5. PICK e : /\ out' = Append(out, e) /\ Sits(e, Len(out) + 1)
                 /\ plan.align /\ Len(out) + 1 < Len(lines) =>
                       paren_state' \in ScanStates /\ Beside(Inset, w[Len(out) + 1], paren_state')
    BY <2>4, Zenon DEF Writes
  <2>6. Written'
    BY <1>1, <1>3, <2>5, OneMoreWritten
  <2>7. Alongside(w)'
    <3>1. /\ outcome' = outcome /\ plan' = plan /\ lines' = lines /\ config' = config
      BY <1>1, FixedIs
    <3>2. Inset' = Inset /\ \A n : Clamp(n)' = Clamp(n)
      BY <1>1, FixedColumns
    <3>3. IsSequence(out)
      BY <1>3, <2>1, Zenon DEF Written
    <3>4. Len(out') = Len(out) + 1 /\ out' # <<>>
      BY <2>5, <3>3, OneMore
    <3>5. ASSUME plan.align, Len(out') < Len(lines)
          PROVE  paren_state' \in ScanStates /\ Beside(Inset, w[Len(out)], paren_state)'
      <4>1. paren_state' \in ScanStates /\ Beside(Inset, w[Len(out')], paren_state')
        BY <2>5, <3>4, <3>5, Zenon
      <4> QED BY <3>2, <4>1, Zenon DEF Beside, Abreast, Aligned, Under
    <3> QED BY <3>1, <3>4, <3>5, Zenon DEF Alongside
  <2> QED BY <1>1, <2>3, <2>6, <2>7, LayoutKeeps, Zenon
<1> QED BY <1>2, <1>3

\* A line of a directive, where the emitter puts it.
LEMMA DirectiveLine ==
    ASSUME Begun, outcome # "none", plan.apply, S.form = "directive", NEW line, NEW k \in Nat,
           OfDirective(line, k), Len(Body(k)) \in Nat
    PROVE  LET e == Emit(line, plan.first_indent, TRUE, FALSE, {}, {}) IN
           /\ OfDirective(e, k) /\ Width(e) <= plan.first_indent + 6 + Len(Body(k))
<1> DEFINE f == plan.first_indent
           e == Emit(line, f, TRUE, FALSE, {}, {})
           b == TrimEnd(line.cells)
           l == IF line.lead > 0 THEN AtLeast(Clamp(f), 1) ELSE 0
<1>1. f \in Nat /\ config.max_indent \in Nat
  BY ConfigFacts
<1>2. Clamp(f) \in Nat /\ Clamp(f) <= f
  BY <1>1, ClampAdds
<1>3. /\ DOMAIN line = LineFields /\ line.lead \in Nat /\ line.lead <= f
      /\ line.kind = "Comment" /\ line.omp = "none" /\ line.gap = 0
      /\ line.cells \in Seq(Cells) /\ Len(line.cells) <= 6 + Len(Body(k))
  BY DEF OfDirective
<1>4. l \in Nat /\ l <= f
  BY <1>1, <1>2, <1>3 DEF AtLeast
<1>5. b \in Seq(Cells) /\ Len(b) <= Len(line.cells)
  BY <1>3, TrimEndIs
<1>6. e = EmitComment(line, f)
  BY <1>3, Zenon DEF Emit
<1> HIDE DEF e, b, l
<1>7. e = [line EXCEPT !.lead = l, !.gap = line.gap, !.cells = b]
  BY <1>3, <1>6 DEF EmitComment, b, l
<1>8. /\ DOMAIN e = LineFields /\ e.lead = l /\ e.kind = "Comment" /\ e.omp = "none" /\ e.gap = 0
      /\ e.cells = b
  BY <1>3, <1>7 DEF LineFields
<1>9. Len(b) <= 6 + Len(Body(k))
  <2>1. Len(line.cells) \in Nat /\ Len(b) \in Nat
    BY <1>3, <1>5
  <2> QED BY <1>3, <1>5, <2>1
<1>10. OfDirective(e, k)
  BY <1>4, <1>5, <1>8, <1>9 DEF OfDirective
<1>11. Width(e) = l + 0 + 0 + Len(b)
  BY <1>8 DEF Width, Prefix
<1>12. Width(e) <= f + 6 + Len(Body(k))
  <2>1. Len(b) \in Nat
    BY <1>5
  <2> QED BY <1>1, <1>4, <1>9, <1>11, <2>1
<1> QED BY <1>10, <1>12 DEF e

LEMMA FitWritesUniform ==
    ASSUME FitInv, EmitUniform, outcome # "breaking", UNCHANGED reflowVars
    PROVE  FitInv'
<1> DEFINE k == Len(out) + 1
           x == source[k]
           e == Emit(x, plan.first_indent, TRUE, FALSE, {}, {})
<1>1. Fixed /\ source' = source /\ Len(out) < Len(source)
      /\ (plan.uniform \/ x.kind = "Preprocessor")
  BY DEF EmitUniform, Fixed, Next1
<1>2. CASE ~WroteOut
  BY <1>1, <1>2, LayoutKeeps
<1>3. CASE WroteOut
  <2>1. Begun /\ Settings /\ Charges /\ Written
    BY DEF FitInv, ReadInv
  <2>2. /\ Len(source) = Len(lines) /\ IsSequence(out) /\ plan.uniform = (S.form = "directive")
        /\ \A i \in 1..Len(source) : Form(source[i], i)
    BY <1>3, <2>1, Zenon DEF Written
  <2>3. Len(out) \in Nat
    BY <2>2, OneMore
  <2>4. Len(lines) \in Nat /\ Underway /\ outcome # "none"
    <3>1. lines \in Seq(Seq(Tokens))
      BY <1>3, <2>1, Zenon DEF Charges, Underway
    <3> QED BY <1>3, <3>1 DEF Underway, WroteOut
  <2>5. k \in 1..Len(lines) /\ k \in Nat
    BY <1>1, <2>2, <2>3, <2>4
  <2>6. Form(x, k)
    BY <2>2, <2>5, Zenon
  <2>7. S.form = "directive"
    <3>1. SUFFICES ASSUME S.form # "directive" PROVE FALSE
      OBVIOUS
    <3>2. OfStatement(x)
      BY <2>6, <3>1, Zenon DEF Form
    <3>3. x.kind = "Code"
      BY <3>2, Zenon DEF OfStatement
    <3> HIDE DEF x
    <3>4. x.kind # "Preprocessor"
      BY <3>3
    <3>5. ~plan.uniform
      BY <2>2, <3>1
    <3> QED BY <1>1, <3>4, <3>5
  <2>8. plan.uniform /\ plan.apply
    BY <2>1, <2>2, <2>4, <2>7 DEF Settings
  <2>9. out' = Append(out, e)
    BY <2>8 DEF EmitUniform, Next1
  <2>10. OfDirective(x, k) /\ Len(Body(k)) \in Nat
    BY <2>1, <2>4, <2>5, <2>6, <2>7, BodyIs, Zenon DEF Form
  <2> HIDE DEF x, k
  <2>11. OfDirective(e, k) /\ Width(e) <= plan.first_indent + 6 + Len(Body(k))
    BY <2>1, <2>4, <2>5, <2>7, <2>8, <2>10, DirectiveLine, Zenon DEF e
  <2>12. charged[k] = plan.first_indent + 6
    BY <2>1, <2>4, <2>5, <2>7, Zenon DEF Charges
  <2> HIDE DEF e
  <2>13. Sits(e, k)
    BY <2>7, <2>11, <2>12, Zenon DEF Sits, Form
  <2>14. Written'
    BY <1>1, <1>3, <2>9, <2>13, OneMoreWritten DEF k
  <2> QED BY <1>1, <2>7, <2>14, LayoutKeeps, Zenon
<1> QED BY <1>2, <1>3

LEMMA FitWritesAgain ==
    ASSUME FitInv, EmitAgain, Settled, UNCHANGED reflowVars
    PROVE  FitInv'
<1>1. /\ Fixed /\ source' = out /\ out' = <<>> /\ paren_state' = NoAlignment
      /\ Len(out) = Len(source) /\ outcome # "breaking"
  BY DEF EmitAgain, Fixed, Settled
<1>2. CASE ~WroteOut
  BY <1>1, <1>2, LayoutKeeps
<1>3. CASE WroteOut
  <2>1. /\ lines # <<>> /\ Len(source) = Len(lines)
        /\ plan.uniform = (S.form = "directive") /\ plan.cont = (Len(lines) > 1)
        /\ \A k \in 1..Len(out) : Sits(out[k], k)
    BY <1>3, Zenon DEF FitInv, Written
  <2>2. S' = S /\ outcome' = outcome /\ plan' = plan /\ lines' = lines
    BY <1>1, FixedIs
  <2>3. \A line, k : Sits(line, k)' = Sits(line, k) /\ Form(line, k)' = Form(line, k)
    BY <1>1, FixedForm
  <2>4. (\A k \in 1..Len(source) : Form(source[k], k))'
    BY <1>1, <2>1, <2>3, Zenon DEF Sits
  <2>5. out' = <<>> /\ Len(out') = 0 /\ IsSequence(out') /\ \A k \in 1..Len(out') : FALSE
    <3>1. <<>> \in Seq({})
      OBVIOUS
    <3> QED BY <1>1, <3>1 DEF IsSequence
  <2>6. (\A k \in 1..Len(out) : Sits(out[k], k))'
    BY <2>5, Zenon
  <2>7. Len(out') <= Len(lines')
    <3>1. lines \in Seq(Seq(Tokens))
      BY <1>3, Zenon DEF FitInv, Charges, Underway
    <3> QED BY <2>2, <2>5, <3>1
  <2>8. Written'
    BY <1>1, <2>1, <2>2, <2>4, <2>5, <2>6, <2>7, Zenon DEF Written
  <2>9. \A w : Alongside(w)'
    BY <1>1, Zenon DEF Alongside
  <2>10. S.form # "directive" => \E w : History(w) /\ Alongside(w)'
    BY <1>3, <2>9, Zenon DEF FitInv, Underway
  <2> QED BY <1>1, <2>8, <2>10, LayoutKeeps
<1> QED BY <1>2, <1>3
-----------------------------------------------------------------------------
(* The lines of the wrapper, before they are laid out *)

\* The text of a line, put together piece by piece.
Pieces(a, b, c, d, e) == a \o b \o c \o d \o e

LEMMA PiecesType ==
    ASSUME NEW a \in Seq(Cells), NEW b \in Seq(Cells), NEW c \in Seq(Cells), NEW d \in Seq(Cells)
    PROVE  /\ Pieces(a, b, c, d, <<>>) \in Seq(Cells)
           /\ Len(Pieces(a, b, c, d, <<>>)) = Len(a) + Len(b) + Len(c) + Len(d)
BY DEF Pieces

LEMMA PiecesAre ==
    ASSUME NEW b \in Seq(Cells), NEW c \in Seq(Cells), NEW d \in Seq(Cells)
    PROVE  Pieces(<<>>, b, c, d, <<>>) = b \o (c \o d)
<1>1. /\ <<>> \o b = b /\ (b \o c) \o d \in Seq(Cells)
      /\ ((b \o c) \o d) \o <<>> = (b \o c) \o d
  OBVIOUS
<1>2. (b \o c) \o d = b \o (c \o d)
  BY CatAssoc DEF Cat
<1> QED BY <1>1, <1>2, Zenon DEF Pieces

LEMMA LineIs ==
    ASSUME NEW s \in Seq(Tokens), NEW k \in Nat, NEW m \in Nat, S.label \in Nat,
           S.form = "directive" => S.label = 0, plan.first_indent \in Nat
    PROVE  LET x == Line(s, k = 1, k < m, FALSE)
               b == Text(s) \o (IF k < m THEN Marker ELSE <<>>)
           IN  /\ DOMAIN x = LineFields /\ x.lead \in Nat /\ x.lead <= plan.first_indent
               /\ S.form = "directive" =>
                     /\ x.kind = "Comment" /\ x.omp = "none" /\ x.gap = 0
                     /\ x.cells \in Seq(Cells) /\ Len(x.cells) = 6 + Len(b)
               /\ S.form # "directive" =>
                     /\ OfStatement(x) /\ x.lead = 0
                     /\ k # 1 => x.cells = b
                     /\ k = 1 => FirstText(x, b)
<1> DEFINE x == Line(s, k = 1, k < m, FALSE)
           d == IF k < m THEN Marker ELSE <<>>
           t == Text(s)
           b == t \o d
           p == IF S.form = "directive" THEN SentinelText ELSE <<>>
           l == IF k = 1 /\ S.label > 0 THEN [i \in 1..S.label |-> "1"] \o <<"_">> ELSE <<>>
           cells == Pieces(p, l, t, d, <<>>)
<1>1. /\ x.kind = (IF S.form = "directive" THEN "Comment" ELSE "Code")
      /\ x.omp = (IF Cond THEN "spaced" ELSE "none")
      /\ x.lead = (IF S.form = "directive" THEN plan.first_indent ELSE 0)
      /\ x.gap = (IF Cond THEN 1 ELSE 0)
      /\ DOMAIN x = LineFields
  BY DEF Line, LineFields
<1>2. x.cells = cells
  BY DEF Line, Pieces, Marker
<1>3. t \in Seq(Cells) /\ d \in Seq(Cells) /\ <<>> \in Seq(Cells)
  <2>1. Marker \in Seq(Cells)
    BY DEF Marker, Cells
  <2>2. <<>> \in Seq(Cells)
    OBVIOUS
  <2> QED BY <2>1, <2>2, TextType
<1> HIDE DEF x, d, t
<1>4. CASE S.form = "directive"
  <2>1. p = SentinelText /\ l = <<>>
    BY <1>4
  <2>2. SentinelText \in Seq(Cells) /\ Len(SentinelText) = 6
    BY DEF SentinelText, Cells
  <2>3. cells = Pieces(SentinelText, <<>>, t, d, <<>>)
    BY <2>1
  <2> HIDE DEF cells
  <2>4. cells \in Seq(Cells) /\ Len(cells) = 6 + Len(<<>>) + Len(t) + Len(d)
    <3> DEFINE e == <<>>
               z == SentinelText
    <3>1. z \in Seq(Cells) /\ e \in Seq(Cells) /\ Len(z) = 6
      BY <1>3, <2>2
    <3> HIDE DEF e, z
    <3>2. /\ Pieces(z, e, t, d, <<>>) \in Seq(Cells)
          /\ Len(Pieces(z, e, t, d, <<>>)) = Len(z) + Len(e) + Len(t) + Len(d)
      <4> HIDE DEF p, l, b
      <4>1. t \in Seq(Cells) /\ d \in Seq(Cells)
        BY <1>3, Zenon
      <4> QED BY <3>1, <4>1, PiecesType
    <3>3. cells = Pieces(z, e, t, d, <<>>)
      BY <2>3, Zenon DEF z, e
    <3>4. cells \in Seq(Cells) /\ Len(cells) = 6 + Len(e) + Len(t) + Len(d)
      BY <3>1, <3>2, <3>3, Zenon
    <3> QED BY <3>4, Zenon DEF e
  <2>5. Len(<<>>) = 0 /\ Len(b) = Len(t) + Len(d)
    BY <1>3
  <2>6. Len(t) \in Nat /\ Len(d) \in Nat
    BY <1>3
  <2>7. Len(cells) = 6 + Len(b)
    <3> HIDE DEF b
    <3> QED BY <2>4, <2>5, <2>6
  <2>8. ~Cond
    BY <1>4 DEF Cond
  <2> HIDE DEF b
  <2>9. x.lead \in Nat /\ x.lead <= plan.first_indent
    BY <1>1, <1>4
  <2>10. x.kind = "Comment" /\ x.omp = "none" /\ x.gap = 0
    BY <1>1, <1>4, <2>8
  <2> QED BY <1>1, <1>2, <1>4, <2>4, <2>7, <2>9, <2>10 DEF b, d, t, x
<1>5. CASE S.form # "directive"
  <2>1. p = <<>>
    BY <1>5
  <2>2. x.lead = 0 /\ x.kind = "Code" /\ 0 <= plan.first_indent
    BY <1>1, <1>5
  <2>3. OfStatement(x)
    BY <1>1, <2>2 DEF OfStatement
  <2>4. k # 1 \/ S.label = 0 => x.cells = b
    <3>1. SUFFICES ASSUME k # 1 \/ S.label = 0 PROVE x.cells = b
      OBVIOUS
    <3>2. l = <<>>
      BY <3>1
    <3> HIDE DEF l, p
    <3>3. Pieces(<<>>, <<>>, t, d, <<>>) = b
      <4>1. <<>> \o b = b
        BY <1>3
      <4> QED BY <1>3, <4>1, PiecesAre, Zenon
    <3> QED BY <1>2, <2>1, <3>2, <3>3, Zenon
  <2>5. k = 1 /\ S.label # 0 => Labelled(x, b)
    <3>1. SUFFICES ASSUME k = 1, S.label # 0 PROVE Labelled(x, b)
      OBVIOUS
    <3> DEFINE h == Digits(S.label) \o Blanks(1)
    <3>2. l = h
      <4>1. S.label > 0
        BY <3>1
      <4>2. <<"_">> = Blanks(1)
        BY OneBlank
      <4> QED BY <3>1, <4>1, <4>2, Zenon DEF Digits
    <3>3. h \in Seq(Cells)
      <4>1. 1 \in Nat /\ b \in Seq(Cells)
        BY <1>3
      <4>2. LabelledShape(S.label, 1, b)
        BY <4>1, LabelledIs
      <4> QED BY <4>2, Zenon DEF LabelledShape
    <3> HIDE DEF l, h, p
    <3>4. Pieces(<<>>, h, t, d, <<>>) = h \o b
      BY <1>3, <3>3, PiecesAre
    <3>5. x.cells = h \o b
      BY <1>2, <2>1, <3>2, <3>4, Zenon
    <3>6. x.cells = LabelledText(S.label, 1, b)
      BY <3>5, Zenon DEF LabelledText, h
    <3>7. 1 \in Nat /\ 1 >= 1
      OBVIOUS
    <3> QED BY <3>6, <3>7, Zenon DEF Labelled
  <2>6. k = 1 => FirstText(x, b)
    BY <2>4, <2>5, Zenon DEF FirstText
  <2>7. x.lead \in Nat /\ x.lead <= plan.first_indent
    BY <2>2
  <2> HIDE DEF b, cells, l, p
  <2> QED BY <1>1, <1>5, <2>2, <2>3, <2>4, <2>6, <2>7 DEF b, d, t, x
<1> QED BY <1>4, <1>5

\* The lines the wrapper writes are lines the layout can charge.
LEMMA WriteOutWrites ==
    ASSUME Begun, outcome # "none", NEW how \in {"joined", "wrapped"},
           NEW tokens \in Seq(Seq(Tokens)), tokens # <<>>,
           \A k \in 1..Len(tokens) : tokens[k] # <<>>,
           WriteOut(how, tokens, FALSE), charged' \in Seq(Nat), Len(charged') = Len(tokens)
    PROVE  Written'
<1> DEFINE m == Len(tokens)
           L(k) == Line(tokens[k], k = 1, k < m, FALSE)
           B(k) == Text(tokens[k]) \o (IF k < m THEN Marker ELSE <<>>)
<1>1. /\ outcome' = how /\ lines' = tokens /\ out' = <<>>
      /\ source' = [k \in 1..m |-> L(k)]
      /\ plan' = [plan EXCEPT !.cont = m > 1, !.uniform = S.form = "directive"]
      /\ config' = config /\ statement' = statement
  BY DEF WriteOut
<1>2. S' = S
  BY <1>1 DEF S
<1>3. /\ S.label \in Nat /\ (S.form = "directive" => S.label = 0)
      /\ DOMAIN plan = PlanFields /\ plan.first_indent \in Nat
  BY TheStatement, ConfigFacts
<1>4. /\ plan'.first_indent = plan.first_indent /\ plan'.uniform = (S.form = "directive")
      /\ plan'.cont = (m > 1)
  <2> HIDE DEF m
  <2> QED BY <1>1, <1>3 DEF PlanFields
<1>5. m \in Nat /\ m >= 1
  <2>1. m \in Nat /\ m # 0
    OBVIOUS
  <2> QED BY <2>1
<1>6. Cond' = Cond
  BY <1>2 DEF Cond
<1>7. \A k : Body(k)' = B(k)
  <2>1. outcome' # "breaking"
    BY <1>1
  <2> QED BY <1>1, <2>1 DEF Body, Followed
<1>8. \A line : OfStatement(line)' = OfStatement(line)
  BY <1>6, Zenon DEF OfStatement
<1>9. \A line, b : FirstText(line, b)' = FirstText(line, b)
  BY <1>1, <1>2, Zenon DEF FirstText, Labelled
<1>10. ASSUME NEW k \in 1..m
       PROVE  LET x == L(k) b == B(k) IN
              /\ DOMAIN x = LineFields /\ x.lead \in Nat /\ x.lead <= plan.first_indent
              /\ S.form = "directive" =>
                    /\ x.kind = "Comment" /\ x.omp = "none" /\ x.gap = 0
                    /\ x.cells \in Seq(Cells) /\ Len(x.cells) = 6 + Len(b)
              /\ S.form # "directive" =>
                    /\ OfStatement(x) /\ x.lead = 0
                    /\ k # 1 => x.cells = b
                    /\ k = 1 => FirstText(x, b)
  <2>1. k \in Nat /\ tokens[k] \in Seq(Tokens)
    OBVIOUS
  <2> HIDE DEF m
  <2> QED BY <1>3, <1>5, <2>1, LineIs
<1>11. ASSUME NEW k \in 1..m PROVE B(k) \in Seq(Cells)
  <2>1. tokens[k] \in Seq(Tokens) /\ tokens[k] # <<>>
    OBVIOUS
  <2> QED BY <2>1, MarkedText
<1>12. \A k \in 1..m : charged[k]' \in Nat
  OBVIOUS
<1> HIDE DEF L, B, m
<1>13. ASSUME NEW k \in 1..m, NEW x, x = L(k) PROVE Form(x, k)'
  <2>1. CASE S.form = "directive"
    <3>1. Len(B(k)) \in Nat
      BY <1>11
    <3>2. /\ DOMAIN x = LineFields /\ x.lead \in Nat /\ x.lead <= plan.first_indent
          /\ x.kind = "Comment" /\ x.omp = "none" /\ x.gap = 0
          /\ x.cells \in Seq(Cells) /\ Len(x.cells) = 6 + Len(B(k))
      BY <1>10, <1>13, <2>1, Zenon
    <3>3. Len(x.cells) <= 6 + Len(B(k))
      BY <3>1, <3>2
    <3>4. OfDirective(x, k)'
      BY <1>4, <1>7, <3>2, <3>3, Zenon DEF OfDirective
    <3> QED BY <1>2, <2>1, <3>4, Zenon DEF Form
  <2>2. CASE S.form # "directive"
    <3>1. /\ OfStatement(x) /\ x.lead = 0
          /\ k # 1 => x.cells = B(k)
          /\ k = 1 => FirstText(x, B(1))
      BY <1>10, <1>13, <2>2, Zenon
    <3>2. x.lead <= charged[k]'
      BY <1>12, <3>1
    <3>3. OfStatement(x)' /\ (k = 1 => FirstText(x, B(1))')
      BY <1>8, <1>9, <3>1, Zenon
    <3>4. /\ OfStatement(x)'
          /\ IF k = 1 THEN FirstText(x, Body(1))'
             ELSE (x.cells = Body(k))' /\ (~Cond => x.lead <= charged[k])'
      BY <1>7, <1>8, <1>9, <3>1, <3>2, Zenon
    <3> QED BY <1>2, <2>2, <3>4, Zenon DEF Form
  <2> QED BY <2>1, <2>2
<1>14. Len(source') = m /\ \A k \in 1..m : source'[k] = L(k)
  BY <1>1, <1>5
<1>15. (\A k \in 1..Len(source) : Form(source[k], k))'
  BY <1>13, <1>14, Zenon
<1>16. out' = <<>> /\ Len(out') = 0 /\ IsSequence(out') /\ \A k \in 1..Len(out') : FALSE
  <2>1. <<>> \in Seq({})
    OBVIOUS
  <2> QED BY <1>1, <2>1 DEF IsSequence
<1>17. (\A k \in 1..Len(out) : Sits(out[k], k))'
  BY <1>16, Zenon
<1>18. lines' # <<>> /\ Len(lines') = m /\ Len(out') <= Len(lines')
  BY <1>1, <1>5, <1>16 DEF m
<1>19. (plan.uniform = (S.form = "directive") /\ plan.cont = (Len(lines) > 1))'
  BY <1>2, <1>4, <1>18
<1> QED BY <1>14, <1>15, <1>16, <1>17, <1>18, <1>19, Zenon DEF Written
-----------------------------------------------------------------------------
(* The wrapper charges no more than the line length *)

LEMMA FitStarts ==
    ASSUME ReflowInit
    PROVE  FitInv
<1>1. ReadInv
  BY ReadStarts
<1>2. CASE EmitInit /\ outcome = "none"
  <2>1. ~Underway /\ ~WroteOut /\ outcome # "breaking"
    BY <1>2 DEF Underway, WroteOut
  <2> QED BY <1>1, <1>2, <2>1, Zenon DEF FitInv, Settings, Charges, Ahead, Written
<1>3. ASSUME NEW s \in Statements, NEW p \in Plans, NEW c \in Configs,
             p.apply, p.replacement = {}, s.form # "plain" => c.openmp, ReflowIn(s, p, c)
      PROVE  FitInv
  <2>1. statement = {s} /\ outcome = "unmeasured" /\ plan = p /\ config = c
    BY <1>3 DEF ReflowIn
  <2>2. S = s
    BY <2>1 DEF S
  <2>3. ~Underway /\ ~WroteOut /\ outcome # "breaking"
    BY <2>1 DEF Underway, WroteOut
  <2>4. Settings
    BY <1>3, <2>1, <2>2, Zenon DEF Settings
  <2> QED BY <1>1, <2>3, <2>4, Zenon DEF FitInv, Charges, Ahead, Written
<1> QED BY <1>2, <1>3 DEF ReflowInit

LEMMA FitIsCopied ==
    ASSUME FitInv, outcome # "none", NEW how \in {"copied", "declined"}, WriteCopy(how)
    PROVE  FitInv'
<1>1. ReadInv'
  BY ReadIsCopied DEF FitInv
<1>2. outcome' = how /\ UNCHANGED <<config, plan, statement>>
  BY DEF WriteCopy
<1>3. S' = S
  BY <1>2 DEF S
<1>4. (~Underway /\ ~WroteOut /\ outcome # "breaking")'
  BY <1>2 DEF Underway, WroteOut
<1>5. Settings'
  BY <1>2, <1>3, Zenon DEF FitInv, Settings
<1> QED BY <1>1, <1>4, <1>5, Zenon DEF FitInv, Charges, Ahead, Written

LEMMA SameColumns ==
    ASSUME config' = config, S' = S, plan'.first_indent = plan.first_indent,
           plan'.align = plan.align
    PROVE  /\ FirstBodyColumn' = FirstBodyColumn /\ ContinuationColumn' = ContinuationColumn
           /\ \A s : NextOf(s)' = NextOf(s)
           /\ \A w, k : ColumnAt(w, k)' = ColumnAt(w, k)
<1>1. Inset' = Inset
  BY DEF Inset, Cond
<1>2. FirstBodyColumn' = FirstBodyColumn
  BY <1>1, Zenon DEF FirstBodyColumn, LabelledBodyColumn, Clamp
<1>3. ContinuationColumn' = ContinuationColumn
  BY <1>1, Zenon DEF ContinuationColumn
<1>4. \A s : NextOf(s)' = NextOf(s)
  BY <1>3, Zenon DEF NextOf
<1>5. \A w, k : ColumnAt(w, k)' = ColumnAt(w, k)
  BY <1>2, <1>4, Zenon DEF ColumnAt
<1> QED BY <1>2, <1>3, <1>4, <1>5

LEMMA FitStartsBreaking ==
    ASSUME FitInv, StartBreaking
    PROVE  FitInv'
<1>1. /\ outcome = "unmeasured" /\ outcome' = "breaking"
      /\ column' = IF S.form = "directive" THEN plan.first_indent + Len(SentinelText)
                   ELSE FirstBodyColumn
      /\ UNCHANGED <<plan, config, statement, lines, rest, scan, charged>>
  BY DEF StartBreaking, Measured, emitVars
<1>2. /\ Begun /\ S' = S /\ lines = <<>> /\ rest = S.tokens /\ scan = NoAlignment
      /\ charged = <<>>
  BY <1>1 DEF FitInv, ReadInv, Unmeasured, S
<1>3. S.tokens \in Seq(Tokens) /\ S.tokens[1].text[1] # "1"
  BY <1>1, <1>2, TheStatement
<1>4. ReadInv'
  BY ReadStartsBreaking DEF FitInv
<1>5. Settings'
  BY <1>1, <1>2, Zenon DEF FitInv, Settings
<1>6. Charges'
  <2>1. lines' = <<>> /\ charged' = <<>>
    BY <1>1, <1>2
  <2>2. /\ lines' \in Seq(Seq(Tokens)) /\ charged' \in Seq(Nat) /\ Len(charged') = Len(lines')
        /\ \A k \in 1..Len(lines') : FALSE
    BY <2>1
  <2> QED BY <2>1, <2>2, Zenon DEF Charges
<1>7. Ahead'
  <2>1. Widened(rest') <= Growth(S'.tokens)
    BY <1>1, <1>2, <1>3, WidenedGrowth
  <2>2. Len(SentinelText) = 6
    BY <1>1, <1>2, ColumnTypes
  <2>3. S'.form = "directive" => column' = plan'.first_indent + 6
    BY <1>1, <1>2, <2>2
  <2> QED BY <1>1, <1>2, <1>3, <2>1, <2>3, Zenon DEF Ahead
<1>8. (~WroteOut)'
  BY <1>1 DEF WroteOut
<1>9. ASSUME S'.form # "directive" PROVE \E w : History(w)' /\ Alongside(w)'
  <2> DEFINE w == [k \in {0} |-> NoAlignment]
  <2>1. w[0] = NoAlignment /\ w[0] \in ScanStates
    BY NoAlignmentType
  <2> HIDE DEF w
  <2>2. column' = ColumnAt(w, 1)'
    <3>1. ColumnAt(w, 1)' = ColumnAt(w, 1)
      BY <1>1, <1>2, SameColumns
    <3> QED BY <1>1, <1>2, <1>9, <3>1 DEF ColumnAt
  <2>3. Len(lines') = 0 /\ scan' = w[0] /\ outcome' = "breaking"
    BY <1>1, <1>2, <2>1
  <2>4. /\ \A k \in 0..0 : w[k] \in ScanStates
        /\ \A k \in 1..0 : FALSE
        /\ 0 + 1 = 1
    BY <2>1
  <2>5. History(w)'
    BY <2>1, <2>2, <2>3, <2>4, Zenon DEF History
  <2> QED BY <1>8, <2>5, Zenon DEF Alongside
<1> QED BY <1>4, <1>5, <1>6, <1>7, <1>8, <1>9, Zenon DEF FitInv, Written

LEMMA Spared ==
    ASSUME NEW l \in Nat, NEW g \in Nat, NEW n \in Nat, n > 0, n <= Less(l, g), NEW w \in Nat, w <= g
    PROVE  n + w <= l
BY DEF Less

LEMMA FitJoins ==
    ASSUME FitInv, JoinStatement
    PROVE  FitInv'
<1> DEFINE s == S.tokens
           c == FirstBodyColumn
<1>1. /\ outcome = "unmeasured" /\ S.form # "directive" /\ outcome' = "joined" /\ lines' = <<s>>
      /\ plan' = [plan EXCEPT !.cont = Len(<<s>>) > 1, !.uniform = S.form = "directive"]
      /\ charged' = <<c>> /\ out' = <<>> /\ paren_state' = NoAlignment
      /\ c + Len(Text(s)) <= Budget
      /\ WriteOut("joined", <<s>>, FALSE)
      /\ UNCHANGED <<config, statement>>
  BY DEF JoinStatement, WriteOut, Measured, Fits
<1>2. Begun /\ S' = S
  BY <1>1 DEF FitInv, ReadInv, S
<1>3. /\ s \in Seq(Tokens) /\ s # <<>> /\ s[1].text[1] # "1"
      /\ DOMAIN plan = PlanFields /\ config.line_length \in Nat
      /\ c \in Nat
  BY <1>1, <1>2, TheStatement, ConfigFacts, ColumnTypes
<1>4. ReadInv'
  BY ReadJoins DEF FitInv
<1>5. /\ plan'.first_indent = plan.first_indent /\ plan'.align = plan.align
      /\ plan'.apply = plan.apply /\ plan'.replacement = plan.replacement
  BY <1>1, <1>3 DEF PlanFields
<1> HIDE DEF s, c
<1>6. Settings'
  BY <1>1, <1>2, <1>5, Zenon DEF FitInv, Settings
<1>7. /\ lines' \in Seq(Seq(Tokens)) /\ Len(lines') = 1 /\ lines'[1] = s /\ lines' # <<>>
      /\ charged' \in Seq(Nat) /\ Len(charged') = 1 /\ charged'[1] = c
  BY <1>1, <1>3
<1>8. Charges'
  <2>1. Body(1)' = Text(s) \o <<>>
    <3>1. ~Followed(1)'
      BY <1>1, <1>7 DEF Followed
    <3> QED BY <1>7, <3>1, Zenon DEF Body
  <2>2. Text(s) \in Seq(Cells) /\ Len(Text(s)) \in Nat /\ Len(Text(s)) > 0
    BY <1>3, TextType, TextOpens
  <2>3. Body(1)' = Text(s)
    <3> DEFINE t == Text(s)
    <3>1. t \in Seq(Cells) /\ Body(1)' = t \o <<>>
      BY <2>1, <2>2
    <3> HIDE DEF t
    <3>2. t \o <<>> = t
      BY <3>1
    <3> QED BY <3>1, <3>2 DEF t
  <2>4. Widened(s) \in Nat /\ Widened(s) <= Growth(s) /\ Growth(s) \in Nat
    BY <1>3, WidenedGrowth, GrowthType
  <2>5. c + Len(Text(s)) + Widened(s) <= config.line_length
    <3>1. PICK n \in Nat : n = c + Len(Text(s))
      BY <1>3, <2>2
    <3>2. n > 0 /\ n <= Less(config.line_length, Growth(s))
      BY <1>1, <1>3, <2>2, <3>1 DEF Budget, s
    <3>3. n + Widened(s) <= config.line_length
      BY <1>3, <2>4, <3>2, Spared
    <3> QED BY <3>1, <3>3
  <2>6. \A z : Spare(z)' = Widened(z)
    BY <1>1, <1>2 DEF Spare
  <2>7. \A k \in 1..1 : k = 1
    OBVIOUS
  <2>8. charged'[1] + Len(Body(1)') + Widened(lines'[1]) <= config'.line_length
    BY <1>1, <1>7, <2>3, <2>5
  <2>9. (\A k \in 1..Len(lines) :
            /\ lines[k] # <<>>
            /\ charged[k] + Len(Body(k)) + Spare(lines[k]) <= config.line_length
            /\ S.form = "directive" => charged[k] = plan.first_indent + 6)'
    BY <1>1, <1>2, <1>3, <1>7, <2>6, <2>7, <2>8, Zenon
  <2> QED BY <1>3, <1>7, <2>9, Zenon DEF Charges
<1>9. Ahead'
  BY <1>1 DEF Ahead
<1>10. Written'
  <2>1. \A k \in 1..Len(<<s>>) : <<s>>[k] # <<>>
    BY <1>3
  <2>2. <<s>> \in Seq(Seq(Tokens)) /\ <<s>> # <<>> /\ Len(<<s>>) = 1
    BY <1>3
  <2>3. "joined" \in {"joined", "wrapped"} /\ outcome # "none"
    BY <1>1
  <2> QED BY <1>1, <1>2, <1>7, <2>1, <2>2, <2>3, WriteOutWrites, Zenon
<1>11. \E w : History(w)' /\ Alongside(w)'
  <2> DEFINE w == [k \in {0} |-> NoAlignment]
  <2>1. w[0] = NoAlignment /\ w[0] \in ScanStates
    BY NoAlignmentType
  <2> HIDE DEF w
  <2>2. ColumnAt(w, 1)' = c
    <3>1. ColumnAt(w, 1)' = ColumnAt(w, 1)
      BY <1>1, <1>2, <1>5, SameColumns
    <3> QED BY <3>1, Zenon DEF ColumnAt, c
  <2>3. /\ \A k \in 0..0 : w[k] \in ScanStates
        /\ \A k \in 1..0 : FALSE
        /\ \A k \in 1..1 : k = 1
        /\ 1 - 1 = 0
    BY <2>1
  <2>4. outcome' # "breaking"
    BY <1>1
  <2>5. History(w)'
    BY <1>7, <2>1, <2>2, <2>3, <2>4, Zenon DEF History
  <2>6. Alongside(w)'
    BY <1>1, Zenon DEF Alongside
  <2> QED BY <2>5, <2>6, Zenon
<1> QED BY <1>4, <1>6, <1>8, <1>9, <1>10, <1>11, Zenon DEF FitInv

\* A line within the budget of the wrapper leaves room for what alignment adds.
LEMMA LineFits ==
    ASSUME Begun, outcome # "none", NEW a \in Seq(Tokens), Widened(a) <= Growth(S.tokens),
           NEW n \in Nat, n > 0, n <= LineBudget
    PROVE  n + Spare(a) <= config.line_length
<1>1. config.line_length \in Nat /\ S.tokens \in Seq(Tokens)
  BY ConfigFacts, TheStatement
<1>2. Widened(a) \in Nat /\ Growth(S.tokens) \in Nat
  BY <1>1, WidenedGrowth, GrowthType
<1>3. CASE S.form = "directive"
  BY <1>1, <1>3 DEF LineBudget, Spare
<1>4. CASE S.form # "directive"
  <2>1. n <= Less(config.line_length, Growth(S.tokens)) /\ Spare(a) = Widened(a)
    BY <1>4 DEF LineBudget, Budget, Spare
  <2> QED BY <1>1, <1>2, <2>1, Spared
<1> QED BY <1>3, <1>4

\* One more line, charged the column of the wrapper.
LEMMA ChargesGrow ==
    ASSUME Charges, Underway, Underway', NEW a \in Seq(Tokens), a # <<>>, column \in Nat,
           NEW n \in Nat, Len(lines) = n,
           config' = config, S' = S, plan'.first_indent = plan.first_indent,
           lines' = Append(lines, a), charged' = Append(charged, column),
           \A k \in 1..n : Body(k)' = Body(k),
           column + Len(Body(n + 1)') + Spare(a) <= config.line_length,
           S.form = "directive" => column = plan.first_indent + 6,
           lines = <<>> => a[1].text[1] # "1"
    PROVE  /\ Charges' /\ lines' # <<>> /\ Len(lines') = n + 1
           /\ \A k \in 1..n : lines'[k] = lines[k] /\ charged'[k] = charged[k]
           /\ lines'[n + 1] = a /\ charged'[n + 1] = column
<1>1. /\ lines \in Seq(Seq(Tokens)) /\ charged \in Seq(Nat) /\ Len(charged) = n
      /\ \A k \in 1..n :
            /\ lines[k] # <<>>
            /\ charged[k] + Len(Body(k)) + Spare(lines[k]) <= config.line_length
            /\ S.form = "directive" => charged[k] = plan.first_indent + 6
      /\ lines # <<>> => lines[1][1].text[1] # "1"
  BY Zenon DEF Charges
<1>2. /\ lines' \in Seq(Seq(Tokens)) /\ Len(lines') = n + 1 /\ n \in Nat
      /\ \A k \in 1..n : lines'[k] = lines[k]
      /\ lines'[n + 1] = a
  BY <1>1, AppendProperties
<1>3. /\ charged' \in Seq(Nat) /\ Len(charged') = n + 1
      /\ \A k \in 1..n : charged'[k] = charged[k]
      /\ charged'[n + 1] = column
  BY <1>1, AppendProperties
<1>4. lines' # <<>>
  <2>1. Len(lines') > 0
    BY <1>2
  <2> QED BY <1>2, <2>1, NotEmpty
<1>5. \A z : Spare(z)' = Spare(z)
  BY Zenon DEF Spare
<1>6. lines'[1][1].text[1] # "1"
  <2>1. CASE lines = <<>>
    <3>1. n + 1 = 1
      BY <2>1
    <3> QED BY <1>2, <2>1, <3>1
  <2>2. CASE lines # <<>>
    <3>1. 1 \in 1..n
      BY <1>1, <2>2
    <3> QED BY <1>1, <1>2, <2>2, <3>1, Zenon
  <2> QED BY <2>1, <2>2
<1>7. (\A k \in 1..Len(lines) :
          /\ lines[k] # <<>>
          /\ charged[k] + Len(Body(k)) + Spare(lines[k]) <= config.line_length
          /\ S.form = "directive" => charged[k] = plan.first_indent + 6)'
  <2>1. \A k \in 1..n + 1 : k \in 1..n \/ k = n + 1
    BY <1>2
  <2>2. \A k \in 1..n :
           /\ lines'[k] # <<>>
           /\ charged'[k] + Len(Body(k)') + Spare(lines'[k]) <= config'.line_length
           /\ S'.form = "directive" => charged'[k] = plan'.first_indent + 6
    BY <1>1, <1>2, <1>3, Zenon
  <2>3. /\ lines'[n + 1] # <<>>
        /\ charged'[n + 1] + Len(Body(n + 1)') + Spare(lines'[n + 1]) <= config'.line_length
        /\ S'.form = "directive" => charged'[n + 1] = plan'.first_indent + 6
    BY <1>2, <1>3, Zenon
  <2> QED BY <1>2, <1>5, <2>1, <2>2, <2>3, Zenon
<1> QED BY <1>2, <1>3, <1>4, <1>6, <1>7, Zenon DEF Charges

\* Lines and charges grow by one.
Grows(n, a) ==
    /\ Len(lines') = n + 1 /\ lines'[n + 1] = a /\ charged'[n + 1] = column
    /\ \A k \in 1..n : lines'[k] = lines[k] /\ charged'[k] = charged[k]

LEMMA HistoryGrows ==
    ASSUME NEW w, History(w), outcome = "breaking", outcome' = "breaking",
           NEW n \in Nat, Len(lines) = n, NEW a, Grows(n, a),
           NEW q \in ScanStates, q = Scan(scan, Text(a) \o Marker, column),
           scan' = q, column' = NextOf(q),
           config' = config, S' = S, plan'.first_indent = plan.first_indent,
           plan'.align = plan.align
    PROVE  \E v : History(v)'
<1> DEFINE v == [k \in 0..(n + 1) |-> IF k <= n THEN w[k] ELSE q]
<1>1. /\ w[0] = NoAlignment /\ \A k \in 0..n : w[k] \in ScanStates
      /\ \A k \in 1..n : w[k] = Scan(w[k - 1], Text(lines[k]) \o Marker, charged[k])
      /\ \A k \in 1..n : charged[k] = ColumnAt(w, k)
      /\ scan = w[n] /\ column = ColumnAt(w, n + 1)
  BY Zenon DEF History
<1>2. /\ \A k \in 0..n : v[k] = w[k]
      /\ v[n + 1] = q
  OBVIOUS
<1> HIDE DEF v
<1>3. /\ \A k \in 0..(n + 1) : k \in 0..n \/ k = n + 1
      /\ \A k \in 1..(n + 1) : k \in 1..n \/ k = n + 1
      /\ \A k \in 1..n : k \in 0..n /\ k - 1 \in 0..n
      /\ 0 \in 0..n /\ n \in 0..n /\ (n + 1) - 1 = n /\ (n + 1) + 1 - 1 = n + 1 /\ (n + 1) + 1 # 1
  OBVIOUS
<1>4. \A z, k : ColumnAt(z, k)' = ColumnAt(z, k)
  BY SameColumns
<1>5. v[0] = NoAlignment /\ \A k \in 0..(n + 1) : v[k] \in ScanStates
  BY <1>1, <1>2, <1>3, Zenon
<1>6. \A k \in 1..(n + 1) : v[k] = Scan(v[k - 1], Text(lines'[k]) \o Marker, charged'[k])
  <2>1. \A k \in 1..n : v[k] = Scan(v[k - 1], Text(lines'[k]) \o Marker, charged'[k])
    BY <1>1, <1>2, <1>3, Zenon DEF Grows
  <2>2. v[n + 1] = Scan(v[(n + 1) - 1], Text(lines'[n + 1]) \o Marker, charged'[n + 1])
    BY <1>1, <1>2, <1>3, Zenon DEF Grows
  <2> QED BY <1>3, <2>1, <2>2, Zenon
<1>7. \A k \in 1..(n + 1) : ColumnAt(v, k) = ColumnAt(w, k)
  <2> TAKE k \in 1..(n + 1)
  <2>1. CASE k = 1
    BY <2>1, Zenon DEF ColumnAt
  <2>2. CASE k # 1
    <3>1. k - 1 \in 0..n
      OBVIOUS
    <3>2. v[k - 1] = w[k - 1]
      BY <1>2, <3>1, Zenon
    <3> QED BY <2>2, <3>2, Zenon DEF ColumnAt
  <2> QED BY <2>1, <2>2
<1>8. \A k \in 1..(n + 1) : charged'[k] = ColumnAt(v, k)
  <2>1. n + 1 \in 1..(n + 1) /\ \A k \in 1..n : k \in 1..(n + 1)
    OBVIOUS
  <2> QED BY <1>1, <1>3, <1>7, <2>1, Zenon DEF Grows
<1>9. scan' = v[n + 1] /\ column' = ColumnAt(v, (n + 1) + 1)
  <2>1. scan' = v[n + 1]
    BY <1>2, Zenon
  <2>2. PICK m \in Nat : m = (n + 1) + 1 /\ m # 1 /\ m - 1 = n + 1
    OBVIOUS
  <2>3. ColumnAt(v, m) = NextOf(v[m - 1])
    BY <2>2, Zenon DEF ColumnAt
  <2> QED BY <1>2, <2>1, <2>2, <2>3, Zenon
<1>10. Len(lines') = n + 1
  BY DEF Grows
<1>11. History(v)'
  BY <1>4, <1>5, <1>6, <1>8, <1>9, <1>10, Zenon DEF History
<1> QED BY <1>11, Zenon

LEMMA HistoryEnds ==
    ASSUME NEW w, History(w), outcome = "breaking", outcome' # "breaking",
           NEW n \in Nat, Len(lines) = n, NEW a, Grows(n, a),
           config' = config, S' = S, plan'.first_indent = plan.first_indent,
           plan'.align = plan.align
    PROVE  History(w)'
<1>1. /\ w[0] = NoAlignment /\ \A k \in 0..n : w[k] \in ScanStates
      /\ \A k \in 1..n : w[k] = Scan(w[k - 1], Text(lines[k]) \o Marker, charged[k])
      /\ \A k \in 1..n : charged[k] = ColumnAt(w, k)
      /\ column = ColumnAt(w, n + 1)
  BY Zenon DEF History
<1>2. /\ \A k \in 1..(n + 1) : k \in 1..n \/ k = n + 1
      /\ (n + 1) - 1 = n
  OBVIOUS
<1>3. \A z, k : ColumnAt(z, k)' = ColumnAt(z, k)
  BY SameColumns
<1>4. \A k \in 1..n : w[k] = Scan(w[k - 1], Text(lines'[k]) \o Marker, charged'[k])
  BY <1>1, Zenon DEF Grows
<1>5. \A k \in 1..(n + 1) : charged'[k] = ColumnAt(w, k)
  BY <1>1, <1>2, Zenon DEF Grows
<1>6. Len(lines') = n + 1
  BY DEF Grows
<1> QED BY <1>1, <1>2, <1>3, <1>4, <1>5, <1>6, Zenon DEF History

LEMMA FitBreaks ==
    ASSUME FitInv, outcome = "breaking", NEW a \in Seq(Tokens), NEW b \in Seq(Tokens),
           BreakInto(a, b), a # <<>>, a[1] = rest[1] \/ a[1].text[1] = "q",
           column + Len(Text(a)) + 2 <= LineBudget,
           Widened(a) <= Widened(rest), Widened(b) <= Widened(rest), ReadInv'
    PROVE  FitInv'
<1>1. /\ lines' = Append(lines, a) /\ rest' = b /\ charged' = Append(charged, column)
      /\ scan' = Scanned(a) /\ column' = NextColumn(Scanned(a))
      /\ outcome' = "breaking" /\ UNCHANGED <<config, plan, statement>>
  BY DEF BreakInto, emitVars
<1>2. /\ Begun /\ Settings /\ Charges /\ Ahead /\ column \in Nat /\ scan \in ScanStates
      /\ rest \in Seq(Tokens)
  BY DEF FitInv, ReadInv, LinesSoFar
<1>3. S' = S /\ Underway /\ Underway' /\ ~WroteOut' /\ outcome # "none"
  BY <1>1 DEF S, Underway, WroteOut
<1>4. PICK n \in Nat : n = Len(lines)
  <2>1. lines \in Seq(Seq(Tokens))
    BY <1>2, <1>3, Zenon DEF Charges
  <2> QED BY <2>1
<1>5. Widened(rest) <= Growth(S.tokens)
      /\ (S.form = "directive" => column = plan.first_indent + 6)
      /\ (lines = <<>> => rest[1].text[1] # "1")
  BY <1>2, Zenon DEF Ahead
<1>6. Widened(a) <= Growth(S.tokens) /\ Widened(b) <= Growth(S.tokens)
  <2>1. Widened(a) \in Nat /\ Widened(b) \in Nat /\ Widened(rest) \in Nat
    BY <1>2, WidenedGrowth
  <2>2. Growth(S.tokens) \in Nat
    BY <1>2, <1>3, TheStatement, GrowthType
  <2> QED BY <1>5, <2>1, <2>2
<1>7. /\ Len(Text(a)) \in Nat /\ Len(Text(a) \o Marker) = Len(Text(a)) + 2
      /\ Text(a) \o Marker \in Seq(Cells)
  <2>1. Marker \in {<<>>, Marker} /\ Marker # <<>>
    BY DEF Marker
  <2> QED BY <2>1, MarkedText
<1>8. /\ \A k \in 1..n : Body(k)' = Body(k)
      /\ Body(n + 1)' = Text(a) \o Marker
  <2>1. \A k : Followed(k) /\ Followed(k)'
    BY <1>1 DEF Followed
  <2>2. /\ \A k \in 1..n : lines'[k] = lines[k]
        /\ lines'[n + 1] = a
    <3>1. lines \in Seq(Seq(Tokens))
      BY <1>2, <1>3, Zenon DEF Charges
    <3> QED BY <1>1, <1>4, <3>1, AppendProperties
  <2> QED BY <2>1, <2>2, Zenon DEF Body
<1>9. column + Len(Body(n + 1)') + Spare(a) <= config.line_length
  <2>1. PICK m \in Nat : m = column + Len(Body(n + 1)')
    BY <1>2, <1>7, <1>8
  <2>2. m > 0 /\ m <= LineBudget
    <3>1. PICK t \in Nat : t = Len(Text(a))
      BY <1>7
    <3>2. m = column + t + 2 /\ column + t + 2 <= LineBudget
      <4>1. Len(Body(n + 1)') = t + 2
        BY <1>7, <1>8, <3>1, Zenon
      <4>2. column + t + 2 <= LineBudget
        BY <3>1, Zenon
      <4> QED BY <1>2, <2>1, <3>1, <4>1, <4>2
    <3>3. LineBudget \in Nat
      BY <1>2, <1>3, ColumnTypes
    <3> QED BY <1>2, <3>1, <3>2, <3>3
  <2>3. m + Spare(a) <= config.line_length
    BY <1>2, <1>3, <1>6, <2>2, LineFits
  <2> QED BY <2>1, <2>3
<1>10. lines = <<>> => a[1].text[1] # "1"
  <2>1. "q" # "1"
    OBVIOUS
  <2> QED BY <1>5, <2>1, Zenon
<1>11. Charges' /\ lines' # <<>> /\ Grows(n, a)
  BY <1>1, <1>2, <1>3, <1>4, <1>5, <1>8, <1>9, <1>10, ChargesGrow DEF Grows
<1>12. Settings'
  BY <1>1, <1>2, <1>3, Zenon DEF Settings
<1>13. Ahead'
  <2>1. S'.form = "directive" => column' = plan'.first_indent + 6
    BY <1>1, <1>3, <1>5 DEF NextColumn
  <2> QED BY <1>1, <1>3, <1>6, <1>11, <2>1, Zenon DEF Ahead
<1>14. ASSUME S'.form # "directive" PROVE \E w : History(w)' /\ Alongside(w)'
  <2>1. PICK w : History(w)
    BY <1>3, <1>14, Zenon DEF FitInv
  <2> DEFINE q == Scanned(a)
  <2>2. q \in ScanStates /\ q = Scan(scan, Text(a) \o Marker, column)
    BY <1>2, ScannedType DEF Scanned, Marker
  <2>3. column' = NextOf(q)
    BY <1>1, <1>3, <1>14 DEF NextColumn, NextOf
  <2> HIDE DEF q
  <2>4. scan' = q
    BY <1>1 DEF q
  <2>5. \E v : History(v)'
    BY <1>1, <1>3, <1>4, <1>11, <2>1, <2>2, <2>3, <2>4, HistoryGrows
  <2> QED BY <1>3, <2>5, Zenon DEF Alongside
<1> QED BY <1>3, <1>11, <1>12, <1>13, <1>14, Zenon DEF FitInv, Written
-----------------------------------------------------------------------------
(* Each step of the wrapper keeps it *)

LEMMA FitBreaksStatement ==
    ASSUME FitInv, BreakStatement
    PROVE  FitInv'
<1>1. outcome = "breaking" /\ TooLong
  BY DEF BreakStatement
<1>2. PICK i \in Generic : BreakInto(SubSeq(rest, 1, i), SubSeq(rest, i + 1, Len(rest)))
  BY DEF BreakStatement
<1>3. Begun /\ column \in Nat /\ rest \in Seq(Tokens) /\ lines \in Seq(Seq(Tokens))
  BY <1>1 DEF FitInv, ReadInv, LinesSoFar
<1>4. i \in 1..Len(rest) /\ i < Len(rest) /\ column + EndOf(rest, i) + 2 <= LineBudget
  BY <1>1, <1>3, GenericPlace, PlaceLeaves
<1> DEFINE a == SubSeq(rest, 1, i)
           b == SubSeq(rest, i + 1, Len(rest))
<1>5. i \in Nat /\ i >= 1
  BY <1>4
<1>6. /\ a \in Seq(Tokens) /\ b \in Seq(Tokens) /\ a # <<>> /\ a[1] = rest[1]
  BY <1>3, <1>4, <1>5, CutReads, Zenon
<1>7. Widened(a) <= Widened(rest) /\ Widened(b) <= Widened(rest)
  BY <1>3, <1>4, <1>5, CutWidens, Zenon
<1>8. column + Len(Text(a)) + 2 <= LineBudget
  BY <1>4, Zenon DEF EndOf
<1>9. BreakInto(a, b)
  BY <1>2
<1>10. ReadInv'
  BY ReadBreaksStatement DEF FitInv
<1> HIDE DEF a, b
<1> QED BY <1>1, <1>6, <1>7, <1>8, <1>9, <1>10, FitBreaks, Zenon

LEMMA FitBreaksLiteral ==
    ASSUME FitInv, BreakLiteral
    PROVE  FitInv'
<1>1. outcome = "breaking" /\ TooLong
  BY DEF BreakLiteral
<1> DEFINE content(i) == SubSeq(rest[i].text, 2, Len(rest[i].text) - 1)
<1>2. PICK s \in Split :
         BreakInto(SubSeq(rest, 1, s[1] - 1)
                     \o <<Quoted(rest[s[1]], SubSeq(content(s[1]), 1, s[2]), rest[s[1]].blank), Concat>>,
                   <<Quoted(rest[s[1]], SubSeq(content(s[1]), s[2] + 1, Len(content(s[1]))), FALSE)>>
                     \o SubSeq(rest, s[1] + 1, Len(rest)))
  BY Zenon DEF BreakLiteral
<1>3. Begun /\ column \in Nat /\ rest \in Seq(Tokens) /\ lines \in Seq(Seq(Tokens))
  BY <1>1 DEF FitInv, ReadInv, LinesSoFar
<1>4. Limit \in Nat /\ LineBudget \in Nat
  <2>1. column + 2 \in Nat /\ LineBudget \in Nat
    BY <1>1, <1>3, ColumnTypes
  <2> QED BY <2>1, ArithmeticType, Zenon DEF Limit
<1>5. s \in LiteralSplit(rest, Limit)
  BY DEF Split
<1>6. PICK i \in 1..Len(rest), n \in Nat :
         /\ s = <<i, n>> /\ rest[i].kind = "string" /\ n >= 1 /\ n <= Len(rest[i].text) - 2
         /\ StartOf(rest, i) + n + 5 <= Limit
  BY <1>3, <1>4, <1>5, LiteralPlace
<1>7. i \in Nat /\ i >= 1 /\ i <= Len(rest) /\ rest[i] \in Tokens
  BY <1>3
<1>8. s[1] = i /\ s[2] = n
  BY <1>6
<1> DEFINE a == FirstPart(rest, i, n)
           b == SecondPart(rest, i, n)
<1>9. BreakInto(a, b)
  <2> HIDE DEF content
  <2>1. BreakInto(SubSeq(rest, 1, i - 1)
                     \o <<Quoted(rest[i], SubSeq(content(i), 1, n), rest[i].blank), Concat>>,
                  <<Quoted(rest[i], SubSeq(content(i), n + 1, Len(content(i))), FALSE)>>
                     \o SubSeq(rest, i + 1, Len(rest)))
    BY <1>2, <1>8, Zenon
  <2>2. /\ Quoted(rest[i], SubSeq(content(i), 1, n), rest[i].blank) = FirstHalf(rest[i], n)
        /\ Quoted(rest[i], SubSeq(content(i), n + 1, Len(content(i))), FALSE)
              = SecondHalf(rest[i], n)
    BY <1>6, <1>7, LiteralIs, Zenon DEF content
  <2> QED BY <2>1, <2>2, Zenon DEF FirstPart, SecondPart
<1>10. /\ a \in Seq(Tokens) /\ b \in Seq(Tokens) /\ a # <<>>
       /\ a[1] = rest[1] \/ a[1].kind = "string"
  BY <1>3, <1>6, <1>7, LiteralCutReads, Zenon
<1>11. Widened(a) <= Widened(rest) /\ Widened(b) <= Widened(rest)
  BY <1>3, <1>6, <1>7, LiteralCutWidens, Zenon
<1>12. column + Len(Text(a)) + 2 <= LineBudget
  <2>1. Len(Text(a)) = StartOf(rest, i) + n + 5
    BY <1>3, <1>6, <1>7, LiteralCutEnds, Zenon
  <2>2. Len(Text(a)) \in Nat /\ Len(Text(a)) > 0
    BY <1>10, TextOpens, Zenon
  <2>3. PICK m \in Nat : m = Len(Text(a))
    BY <2>2, Zenon
  <2>4. m > 0 /\ m <= Limit
    BY <1>6, <2>1, <2>2, <2>3
  <2>5. column + m + 2 <= LineBudget
    BY <1>3, <1>4, <2>4 DEF Limit, Less
  <2> QED BY <2>3, <2>5, Zenon
<1> HIDE DEF a, b
<1>13. a[1] = rest[1] \/ a[1].text[1] = "q"
  <2>1. 1 \in 1..Len(a)
    BY <1>10
  <2>2. a[1] \in Tokens
    BY <1>10, <2>1
  <2>3. a[1].kind = "string" => a[1].text[1] = "q"
    BY <2>2, TokenFacts, Zenon
  <2> QED BY <1>10, <2>3, Zenon
<1>14. ReadInv'
  BY ReadBreaksLiteral DEF FitInv
<1> QED BY <1>1, <1>9, <1>10, <1>11, <1>12, <1>13, <1>14, FitBreaks, Zenon

LEMMA FitFinishes ==
    ASSUME FitInv, FinishStatement
    PROVE  FitInv'
<1>1. /\ outcome = "breaking" /\ ~TooLong /\ outcome' = "wrapped"
      /\ lines' = Append(lines, rest) /\ charged' = Append(charged, column)
      /\ plan' = [plan EXCEPT !.cont = Len(Append(lines, rest)) > 1,
                              !.uniform = S.form = "directive"]
      /\ out' = <<>> /\ paren_state' = NoAlignment
      /\ WriteOut("wrapped", Append(lines, rest), FALSE)
      /\ UNCHANGED <<config, statement>>
  BY DEF FinishStatement, WriteOut
<1>2. /\ Begun /\ Settings /\ Charges /\ Ahead /\ column \in Nat
      /\ rest \in Seq(Tokens) /\ rest # <<>>
  BY <1>1 DEF FitInv, ReadInv, LinesSoFar
<1>3. S' = S /\ Underway /\ Underway' /\ outcome # "none"
  BY <1>1 DEF S, Underway, WroteOut
<1>4. ReadInv'
  BY ReadFinishes DEF FitInv
<1>5. lines \in Seq(Seq(Tokens)) /\ charged \in Seq(Nat) /\ Len(charged) = Len(lines)
      /\ \A k \in 1..Len(lines) : lines[k] # <<>>
  BY <1>2, <1>3, Zenon DEF Charges
<1>6. PICK n \in Nat : n = Len(lines)
  BY <1>5
<1>7. /\ plan'.first_indent = plan.first_indent /\ plan'.align = plan.align
      /\ plan'.apply = plan.apply /\ plan'.replacement = plan.replacement
  <2>1. DOMAIN plan = PlanFields
    BY <1>2, <1>3, ConfigFacts
  <2> QED BY <1>1, <2>1 DEF PlanFields
<1>8. Settings'
  BY <1>1, <1>2, <1>3, <1>7, Zenon DEF Settings
<1>9. Widened(rest) <= Growth(S.tokens)
      /\ (S.form = "directive" => column = plan.first_indent + 6)
      /\ (lines = <<>> => rest[1].text[1] # "1")
  BY <1>1, <1>2, Zenon DEF Ahead
<1>10. /\ lines' \in Seq(Seq(Tokens)) /\ Len(lines') = n + 1 /\ lines'[n + 1] = rest
       /\ \A k \in 1..n : lines'[k] = lines[k]
       /\ charged' \in Seq(Nat) /\ Len(charged') = n + 1
  BY <1>1, <1>2, <1>5, <1>6, AppendProperties
<1>11. /\ \A k \in 1..n : Body(k)' = Body(k)
       /\ Body(n + 1)' = Text(rest) \o <<>>
  <2>1. \A k \in 1..n : Followed(k) /\ Followed(k)'
    BY <1>1, <1>10 DEF Followed
  <2>2. ASSUME NEW k, k = n + 1 PROVE ~Followed(k)'
    BY <1>1, <1>10, <2>2 DEF Followed
  <2> QED BY <1>10, <2>1, <2>2, Zenon DEF Body
<1>12. Len(Body(n + 1)') = Len(Text(rest)) /\ Len(Text(rest)) \in Nat /\ Len(Text(rest)) > 0
  <2> DEFINE t == Text(rest)
  <2>1. t \in Seq(Cells) /\ Len(t) \in Nat /\ Len(t) > 0 /\ Body(n + 1)' = t \o <<>>
    BY <1>2, <1>11, TextType, TextOpens
  <2> HIDE DEF t
  <2>2. t \o <<>> = t
    BY <2>1
  <2> QED BY <2>1, <2>2, Zenon DEF t
<1>13. column + Len(Body(n + 1)') + Spare(rest) <= config.line_length
  <2>1. PICK m \in Nat : m = column + Len(Text(rest))
    BY <1>2, <1>12
  <2>2. m > 0
    BY <1>2, <1>12, <2>1
  <2>3. m <= LineBudget
    <3>1. LineBudget \in Nat
      BY <1>2, <1>3, ColumnTypes
    <3>2. ~(m > LineBudget)
      BY <1>1, <2>1, Zenon DEF TooLong
    <3> QED BY <3>1, <3>2
  <2>4. m + Spare(rest) <= config.line_length
    BY <1>2, <1>3, <1>9, <2>2, <2>3, LineFits
  <2>5. m = column + Len(Body(n + 1)')
    BY <1>12, <2>1, Zenon
  <2> QED BY <2>4, <2>5, Zenon
<1>14. Charges' /\ lines' # <<>> /\ Grows(n, rest)
  BY <1>1, <1>2, <1>3, <1>6, <1>7, <1>9, <1>11, <1>13, ChargesGrow DEF Grows
<1>15. Ahead'
  BY <1>1 DEF Ahead
<1>16. Written'
  <2> DEFINE tokens == Append(lines, rest)
  <2>1. tokens \in Seq(Seq(Tokens)) /\ tokens # <<>> /\ Len(charged') = Len(tokens)
    BY <1>1, <1>10, <1>14
  <2>2. \A k \in 1..Len(tokens) : tokens[k] # <<>>
    <3>1. \A k \in 1..(n + 1) : k \in 1..n \/ k = n + 1
      OBVIOUS
    <3>2. Len(tokens) = n + 1 /\ tokens[n + 1] = rest /\ \A k \in 1..n : tokens[k] = lines[k]
      BY <1>1, <1>10
    <3> QED BY <1>2, <1>5, <1>6, <3>1, <3>2, Zenon
  <2>3. "wrapped" \in {"joined", "wrapped"} /\ WriteOut("wrapped", tokens, FALSE)
    BY <1>1
  <2> HIDE DEF tokens
  <2> QED BY <1>2, <1>3, <1>10, <2>1, <2>2, <2>3, WriteOutWrites, Zenon
<1>17. ASSUME S'.form # "directive" PROVE \E w : History(w)' /\ Alongside(w)'
  <2>1. PICK w : History(w)
    BY <1>3, <1>17, Zenon DEF FitInv
  <2>2. History(w)'
    <3>1. outcome' # "breaking"
      BY <1>1
    <3> QED BY <1>1, <1>3, <1>6, <1>7, <1>14, <2>1, <3>1, HistoryEnds
  <2>3. Alongside(w)'
    BY <1>1, Zenon DEF Alongside
  <2> QED BY <2>2, <2>3, Zenon
<1> QED BY <1>4, <1>8, <1>14, <1>15, <1>16, <1>17, Zenon DEF FitInv

LEMMA FitStays ==
    ASSUME FitInv, UNCHANGED vars
    PROVE  FitInv'
<1>1. Fixed /\ source' = source /\ out' = out /\ paren_state' = paren_state
  BY DEF Fixed, vars, emitVars
<1>2. /\ config' = config /\ plan' = plan /\ outcome' = outcome /\ lines' = lines
      /\ charged' = charged /\ S' = S
  BY <1>1, FixedIs
<1>3. ReadInv'
  BY <1>1, ReadStays DEF FitInv, Fixed
<1>4. Settings' /\ Charges' /\ Ahead'
  BY <1>1, FixedCharges DEF FitInv
<1>5. \A line, k : Sits(line, k)' = Sits(line, k) /\ Form(line, k)' = Form(line, k)
  BY <1>1, FixedForm
<1>6. Written'
  BY <1>1, <1>2, <1>5, Zenon DEF FitInv, Written, WroteOut
<1>7. \A w : Alongside(w)' = Alongside(w)
  <2>1. Inset' = Inset /\ \A n : Clamp(n)' = Clamp(n)
    BY <1>1, FixedColumns
  <2>2. \A u, v : Beside(Inset, u, v)' = Beside(Inset, u, v)
    BY <2>1, Zenon DEF Beside, Abreast, Aligned, Under
  <2> QED BY <1>1, <1>2, <2>2, Zenon DEF Alongside, WroteOut
<1>8. ASSUME Underway', S'.form # "directive" PROVE \E w : History(w)' /\ Alongside(w)'
  <2>1. Underway
    BY <1>2, <1>8 DEF Underway, WroteOut
  <2>2. PICK w : History(w) /\ Alongside(w)
    BY <1>2, <1>8, <2>1, Zenon DEF FitInv
  <2>3. History(w)'
    BY <1>1, <2>2, FixedHistory
  <2> QED BY <1>7, <2>2, <2>3, Zenon
<1> QED BY <1>3, <1>4, <1>6, <1>8, Zenon DEF FitInv

LEMMA FitStep ==
    ASSUME FitInv, [ReflowNext]_vars
    PROVE  FitInv'
<1>1. CASE (EmitUniform \/ EmitCode) /\ outcome # "breaking" /\ UNCHANGED reflowVars
  BY <1>1, FitWritesUniform, FitWritesCode
<1>2. CASE EmitAgain /\ Settled /\ UNCHANGED reflowVars
  BY <1>2, FitWritesAgain
<1>3. CASE KeepStatement
  BY <1>3, FitIsCopied DEF KeepStatement, Measured
<1>4. CASE KeepDirective
  BY <1>4, FitIsCopied DEF KeepDirective, Measured
<1>5. CASE DeclineStatement
  BY <1>5, FitIsCopied DEF DeclineStatement
<1>6. CASE UNCHANGED vars
  BY <1>6, FitStays
<1> QED BY <1>1, <1>2, <1>3, <1>4, <1>5, <1>6, FitJoins, FitStartsBreaking, FitBreaksStatement,
           FitBreaksLiteral, FitFinishes DEF ReflowNext

LEMMA FitInvFits ==
    ASSUME FitInv
    PROVE  WrappedLinesFit
<1> SUFFICES ASSUME WroteOut, NEW i \in 1..Len(out)
             PROVE  Width(out[i]) + (IF S.form = "directive" THEN 0 ELSE Widened(lines[i]))
                        <= config.line_length
  BY Zenon DEF WrappedLinesFit, WroteOut
<1>1. Begun /\ Charges /\ Written /\ Underway /\ outcome # "none"
  BY DEF FitInv, ReadInv, Underway, WroteOut
<1>2. IsSequence(out) /\ Len(out) <= Len(lines) /\ \A k \in 1..Len(out) : Sits(out[k], k)
  BY <1>1, Zenon DEF Written
<1>3. Len(out) \in Nat
  BY <1>2, OneMore
<1>4. lines \in Seq(Seq(Tokens))
  BY <1>1, Zenon DEF Charges
<1>5. i \in 1..Len(lines)
  BY <1>2, <1>3, <1>4
<1>6. /\ charged[i] \in Nat /\ Len(Body(i)) \in Nat /\ lines[i] \in Seq(Tokens)
  BY <1>1, <1>5, BodyIs
<1>7. charged[i] + Len(Body(i)) + Spare(lines[i]) <= config.line_length
  BY <1>1, <1>5, Zenon DEF Charges
<1>8. Width(out[i]) <= charged[i] + Len(Body(i))
  BY <1>2, Zenon DEF Sits
<1>9. Spare(lines[i]) = (IF S.form = "directive" THEN 0 ELSE Widened(lines[i]))
  BY Zenon DEF Spare
<1>10. Spare(lines[i]) \in Nat /\ config.line_length \in Nat
  BY <1>1, <1>6, WidenedGrowth, ConfigFacts DEF Spare
<1>11. Width(out[i]) \in Int
  <2>1. Form(out[i], i)
    BY <1>2, Zenon DEF Sits
  <2>2. /\ out[i].lead \in Nat /\ out[i].gap \in Nat /\ Len(out[i].cells) \in Nat
    <3>1. CASE S.form = "directive"
      <4>1. OfDirective(out[i], i)
        BY <2>1, <3>1, Zenon DEF Form
      <4> QED BY <4>1 DEF OfDirective
    <3>2. CASE S.form # "directive"
      <4>1. OfStatement(out[i]) /\ (IF i = 1 THEN FirstText(out[i], Body(1)) ELSE out[i].cells = Body(i))
        BY <2>1, <3>2, Zenon DEF Form
      <4>2. Len(out[i].cells) \in Nat
        <5>1. CASE out[i].cells = Body(i)
          BY <1>6, <5>1
        <5>2. CASE i = 1 /\ S.label # 0
          <6>1. Labelled(out[i], Body(1))
            BY <4>1, <5>2, Zenon DEF FirstText
          <6>2. PICK p \in Nat : out[i].cells = LabelledText(S.label, p, Body(1))
            BY <6>1 DEF Labelled
          <6>3. S.label \in Nat /\ Body(1) \in Seq(Cells)
            BY <1>1, <1>5, <5>2, BodyIs, TheStatement
          <6>4. LabelledText(S.label, p, Body(1)) \in Seq(Cells)
            BY <6>3, LabelledIs DEF LabelledShape
          <6> QED BY <6>2, <6>4
        <5> QED BY <4>1, <5>1, <5>2, Zenon DEF FirstText
      <4> QED BY <4>1, <4>2 DEF OfStatement
    <3> QED BY <3>1, <3>2
  <2> QED BY <2>2 DEF Width, Prefix
<1> QED BY <1>6, <1>7, <1>8, <1>9, <1>10, <1>11

\* WrappedLinesFit (wrapping.rs, labelled_body_column, next_continuation): the
\* columns the layout gives the lines of the wrapper are never further out than
\* those it charged them, at any width, label, sentinel, nesting and setting.
THEOREM WrappingFits == ReflowSpec => []WrappedLinesFit
<1> QED BY FitStarts, FitStep, FitInvFits, PTL DEF ReflowSpec
=============================================================================
