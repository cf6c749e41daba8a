----------------------------- MODULE LineProofs -----------------------------
(***************************************************************************)
(* Proofs about the line lexer and the passes that walk lines with states  *)
(* of their own, for documents of any number of lines of any bytes.        *)
(***************************************************************************)
EXTENDS LineWalkers, FiniteSetTheorems, WellFoundedInduction, TLAPS

\* Induction over the numbers up to m.
LEMMA UpTo ==
    ASSUME NEW m \in Nat, NEW S, 0 \in S, \A n \in 0..m : n < m /\ n \in S => n + 1 \in S
    PROVE  0..m \subseteq S
<1> DEFINE T == {n \in Nat : n \in 0..m /\ n \notin S}
           R == OpToRel(<, Nat)
<1>1. SUFFICES ASSUME T # {} PROVE FALSE
  OBVIOUS
<1>2. PICK x \in T : \A y \in T : ~ (<<y, x>> \in R)
  <2>1. IsWellFoundedOn(R, Nat) /\ T \subseteq Nat
    BY NatLessThanWellFounded
  <2> HIDE DEF R, T
  <2> QED BY <1>1, <2>1, WFMin
<1>3. \A a, b \in Nat : <<b, a>> \in R <=> b < a
  BY DEF OpToRel
<1>4. x \in Nat /\ x <= m /\ x \notin S
  <2> HIDE DEF R
  <2>1. x \in Nat /\ x \in 0..m /\ x \notin S
    BY Zenon
  <2> QED BY <2>1
<1>5. \A y \in T : ~ (y < x)
  BY <1>2, <1>3, <1>4
<1> HIDE DEF R
<1>6. x # 0
  BY <1>4, Zenon
<1>7. x - 1 \in Nat /\ x - 1 \in 0..m /\ x - 1 < m /\ x - 1 < x /\ (x - 1) + 1 = x
  BY <1>4, <1>6
<1>8. x - 1 \in S
  BY <1>5, <1>7, Zenon
<1>9. x \in S
  BY <1>7, <1>8
<1> QED BY <1>4, <1>9

-----------------------------------------------------------------------------
(* What the walker remembers *)

\* The walker is in a comment, in a payload, in a literal of a delimiter, or in
\* code; a delimiter that may still be doubled is as good as code.
Modes == {"Comment", "Hollerith", "Code"} \cup Quotes

Mode(w) == IF w.comment > 0 THEN "Comment"
           ELSE IF w.hollerith > 0 THEN "Hollerith"
           ELSE IF w.half \/ w.quote = NoQuote THEN "Code"
           ELSE w.quote

Named(s, i) == i # 1 /\ s[i - 1] \in InName

CodeAfter(b, named) ==
    IF b \in Quotes THEN b
    ELSE IF b = Bang THEN "Comment"
    ELSE IF b = Hollerith /\ ~named THEN "Hollerith"
    ELSE "Code"

After(m, b, named) ==
    IF m = "Comment" THEN "Comment"
    ELSE IF m = "Hollerith" THEN "Code"
    ELSE IF m = "Code" THEN CodeAfter(b, named)
    ELSE IF b = m THEN "Code"
    ELSE m

CodeKind(b, named) ==
    IF b \in Quotes THEN "StringLiteral"
    ELSE IF b = Bang THEN "Comment"
    ELSE IF b = Hollerith /\ ~named THEN "Hollerith"
    ELSE "Code"

KindIn(m, b, named) ==
    IF m = "Comment" THEN "Comment"
    ELSE IF m = "Hollerith" THEN "Hollerith"
    ELSE IF m = "Code" THEN CodeKind(b, named)
    ELSE "StringLiteral"

WalkType ==
    [quote : Quotes \cup {NoQuote}, hollerith : {0, 1}, half : BOOLEAN,
     comment : Nat, kinds : Seq(RegionKinds)]

WalkOK(w) ==
    /\ w \in WalkType
    /\ w.half => w.quote # NoQuote
    /\ w.comment > 0 \/ w.hollerith > 0 => w.quote = NoQuote /\ ~w.half
    /\ w.comment > 0 => w.hollerith = 0

\* The delimiters are none of the other names.
LEMMA QuoteFacts ==
    \A q \in Quotes : /\ q # NoQuote /\ q # Bang /\ q # Amp /\ q # Blank /\ q # Hollerith
                      /\ q # "Comment" /\ q # "Hollerith" /\ q # "Code"
BY DEF Quotes, NoQuote, Bang, Amp, Blank, Hollerith

\* v is w after byte i of s.
Goes(w, s, i, v) ==
    /\ WalkOK(v)
    /\ Mode(v) = After(Mode(w), s[i], Named(s, i))
    /\ v.kinds = Append(w.kinds, KindIn(Mode(w), s[i], Named(s, i)))
    /\ v.comment = IF w.comment > 0 THEN w.comment ELSE IF Mode(v) = "Comment" THEN i ELSE 0

Fields(v, q, h, half, c, ks) ==
    /\ v \in WalkType
    /\ v.quote = q /\ v.hollerith = h /\ (v.half <=> half) /\ v.comment = c /\ v.kinds = ks

LEMMA RegionFields ==
    ASSUME NEW w \in WalkType, NEW k \in RegionKinds
    PROVE  Fields(Region(w, k), w.quote, w.hollerith, w.half, w.comment, Append(w.kinds, k))
<1>1. Append(w.kinds, k) \in Seq(RegionKinds)
  BY DEF WalkType
<1> QED BY <1>1 DEF WalkType, Region, Fields

LEMMA HalfFields ==
    ASSUME NEW w \in WalkType, NEW x \in BOOLEAN
    PROVE  Fields([w EXCEPT !.half = x], w.quote, w.hollerith, x, w.comment, w.kinds)
BY DEF WalkType, Fields

LEMMA PaidFields ==
    ASSUME NEW w \in WalkType, w.hollerith = 1
    PROVE  Fields([w EXCEPT !.hollerith = @ - 1], w.quote, 0, w.half, w.comment, w.kinds)
BY DEF WalkType, Fields

Freed(w) == [w EXCEPT !.quote = NoQuote, !.half = FALSE]

LEMMA FreedFields ==
    ASSUME NEW w \in WalkType
    PROVE  Fields(Freed(w), NoQuote, w.hollerith, FALSE, w.comment, w.kinds)
BY DEF WalkType, Fields, Freed

LEMMA OpenedFields ==
    ASSUME NEW w \in WalkType, NEW q \in Quotes
    PROVE  Fields([w EXCEPT !.quote = q], q, w.hollerith, w.half, w.comment, w.kinds)
BY DEF WalkType, Fields

LEMMA CommentFields ==
    ASSUME NEW w \in WalkType, NEW i \in Nat
    PROVE  Fields([w EXCEPT !.comment = i], w.quote, w.hollerith, w.half, i, w.kinds)
BY DEF WalkType, Fields

LEMMA OwedFields ==
    ASSUME NEW w \in WalkType
    PROVE  Fields([w EXCEPT !.hollerith = 1], w.quote, 1, w.half, w.comment, w.kinds)
BY DEF WalkType, Fields

ModeFor(q, h, half, c) ==
    IF c > 0 THEN "Comment"
    ELSE IF h > 0 THEN "Hollerith"
    ELSE IF half \/ q = NoQuote THEN "Code"
    ELSE q

\* What the fields of a walk say of it.
Known(v, q, h, half, c, ks) ==
    WalkOK(v) /\ Mode(v) = ModeFor(q, h, half, c) /\ v.kinds = ks /\ v.comment = c

Sound(q, h, half, c) ==
    /\ half => q # NoQuote
    /\ c > 0 \/ h > 0 => q = NoQuote /\ ~half
    /\ c > 0 => h = 0

LEMMA FieldsKnown ==
    ASSUME NEW v, NEW q, NEW h, NEW half, NEW c, NEW ks,
           Fields(v, q, h, half, c, ks), Sound(q, h, half, c)
    PROVE  Known(v, q, h, half, c, ks)
<1>1. v.quote = q /\ v.hollerith = h /\ (v.half <=> half) /\ v.comment = c /\ v.kinds = ks
      /\ v \in WalkType
  BY Zenon DEF Fields
<1>2. WalkOK(v)
  BY <1>1 DEF WalkOK, Sound
<1>3. Mode(v) = ModeFor(q, h, half, c)
  BY <1>1 DEF Mode, ModeFor
<1> QED BY <1>1, <1>2, <1>3, Zenon DEF Known

\* The comment a step finds.
CommentAt(c, mode, i) == IF c > 0 THEN c ELSE IF mode = "Comment" THEN i ELSE 0

LEMMA KnownGoes ==
    ASSUME NEW w, NEW s, NEW i, NEW v, NEW q, NEW h, NEW half, NEW c, NEW ks,
           Known(v, q, h, half, c, ks),
           ModeFor(q, h, half, c) = After(Mode(w), s[i], Named(s, i)),
           ks = Append(w.kinds, KindIn(Mode(w), s[i], Named(s, i))),
           c = CommentAt(w.comment, ModeFor(q, h, half, c), i)
    PROVE  Goes(w, s, i, v)
<1>1. WalkOK(v) /\ Mode(v) = ModeFor(q, h, half, c) /\ v.kinds = ks /\ v.comment = c
  BY Zenon DEF Known
<1>2. v.comment = CommentAt(w.comment, Mode(v), i)
  BY <1>1, Zenon
<1>3. Mode(v) = After(Mode(w), s[i], Named(s, i))
  BY <1>1, Zenon
<1>4. v.kinds = Append(w.kinds, KindIn(Mode(w), s[i], Named(s, i)))
  BY <1>1, Zenon
<1> QED BY <1>1, <1>2, <1>3, <1>4, Zenon DEF Goes, CommentAt

LEMMA CodeByteGoes ==
    ASSUME NEW w, WalkOK(w), w.comment = 0, w.hollerith = 0, NEW s, NEW i \in Nat \ {0},
           w.half => s[i] # w.quote, w.half \/ w.quote = NoQuote
    PROVE  Goes(w, s, i, CodeByte(w, s, i))
<1> DEFINE v == CodeByte(w, s, i)
           f == Freed(w)
<1>1. Mode(w) = "Code"
  BY DEF Mode
<1>2. f \in WalkType /\ Fields(f, NoQuote, 0, FALSE, 0, w.kinds)
  BY FreedFields DEF WalkOK, Fields
<1>3. CASE s[i] \in Quotes
  <2>1. v = Region([f EXCEPT !.quote = s[i]], "StringLiteral")
    BY <1>3, Zenon DEF CodeByte, Freed
  <2>2. Fields([f EXCEPT !.quote = s[i]], s[i], 0, FALSE, 0, w.kinds)
    <3> HIDE DEF f
    <3> QED BY <1>2, <1>3, OpenedFields DEF Fields
  <2>3. Fields(v, s[i], 0, FALSE, 0, Append(w.kinds, "StringLiteral"))
    <3> DEFINE o == [f EXCEPT !.quote = s[i]]
    <3> HIDE DEF o
    <3>1. o \in WalkType /\ "StringLiteral" \in RegionKinds
      BY <2>2 DEF Fields, RegionKinds, o
    <3>2. Fields(Region(o, "StringLiteral"), o.quote, o.hollerith, o.half, o.comment,
                 Append(o.kinds, "StringLiteral"))
      BY <3>1, RegionFields
    <3> HIDE DEF v
    <3> QED BY <2>1, <2>2, <3>2 DEF Fields, o
  <2>4. s[i] # NoQuote /\ s[i] # "Comment"
    BY <1>3, QuoteFacts
  <2>5. After("Code", s[i], Named(s, i)) = s[i]
        /\ KindIn("Code", s[i], Named(s, i)) = "StringLiteral"
    BY <1>3 DEF After, CodeAfter, KindIn, CodeKind
  <2> HIDE DEF v
  <2>12. Sound(s[i], 0, FALSE, 0)
    BY <2>4 DEF Sound
  <2>7. Known(v, s[i], 0, FALSE, 0, Append(w.kinds, "StringLiteral"))
    BY <2>3, <2>12, FieldsKnown, Zenon
  <2>8. ModeFor(s[i], 0, FALSE, 0) = After(Mode(w), s[i], Named(s, i))
    BY <1>1, <2>4, <2>5 DEF ModeFor
  <2>9. 0 = CommentAt(w.comment, ModeFor(s[i], 0, FALSE, 0), i)
    BY <1>1, <2>4, <2>5 DEF CommentAt, ModeFor
  <2>10. Append(w.kinds, "StringLiteral") = Append(w.kinds, KindIn(Mode(w), s[i], Named(s, i)))
    BY <1>1, <2>4, <2>5
  <2>13. Goes(w, s, i, v)
    BY <2>7, <2>8, <2>9, <2>10, KnownGoes, Zenon
  <2> QED BY <2>13 DEF v
<1>4. CASE s[i] \notin Quotes /\ s[i] = Bang
  <2>1. v = Region([f EXCEPT !.comment = i], "Comment")
    BY <1>4, Zenon DEF CodeByte, Freed
  <2>2. Fields([f EXCEPT !.comment = i], NoQuote, 0, FALSE, i, w.kinds)
    <3> HIDE DEF f
    <3> QED BY <1>2, CommentFields DEF Fields
  <2>3. Fields(v, NoQuote, 0, FALSE, i, Append(w.kinds, "Comment"))
    <3> DEFINE o == [f EXCEPT !.comment = i]
    <3> HIDE DEF o
    <3>1. o \in WalkType /\ "Comment" \in RegionKinds
      BY <2>2 DEF Fields, RegionKinds, o
    <3>2. Fields(Region(o, "Comment"), o.quote, o.hollerith, o.half, o.comment,
                 Append(o.kinds, "Comment"))
      BY <3>1, RegionFields
    <3> HIDE DEF v
    <3> QED BY <2>1, <2>2, <3>2 DEF Fields, o
  <2>5. After("Code", s[i], Named(s, i)) = "Comment" /\ KindIn("Code", s[i], Named(s, i)) = "Comment"
    BY <1>4 DEF After, CodeAfter, KindIn, CodeKind
  <2> HIDE DEF v
  <2>12. Sound(NoQuote, 0, FALSE, i)
    BY <1>1 DEF Sound
  <2>7. Known(v, NoQuote, 0, FALSE, i, Append(w.kinds, "Comment"))
    BY <2>3, <2>12, FieldsKnown, Zenon
  <2>8. ModeFor(NoQuote, 0, FALSE, i) = After(Mode(w), s[i], Named(s, i))
    BY <1>1, <2>5 DEF ModeFor
  <2>9. i = CommentAt(w.comment, ModeFor(NoQuote, 0, FALSE, i), i)
    BY <1>1, <2>5 DEF CommentAt, ModeFor
  <2>10. Append(w.kinds, "Comment") = Append(w.kinds, KindIn(Mode(w), s[i], Named(s, i)))
    BY <1>1, <2>5
  <2>13. Goes(w, s, i, v)
    BY <2>7, <2>8, <2>9, <2>10, KnownGoes, Zenon
  <2> QED BY <2>13 DEF v
<1>5. CASE s[i] \notin Quotes /\ s[i] # Bang /\ s[i] = Hollerith /\ ~Named(s, i)
  <2>1. v = Region([f EXCEPT !.hollerith = 1], "Hollerith")
    <3>1. i = 1 \/ s[i - 1] \notin InName
      BY <1>5 DEF Named
    <3> QED BY <1>5, <3>1, Zenon DEF CodeByte, Freed
  <2>2. Fields([f EXCEPT !.hollerith = 1], NoQuote, 1, FALSE, 0, w.kinds)
    <3> HIDE DEF f
    <3> QED BY <1>2, OwedFields DEF Fields
  <2>3. Fields(v, NoQuote, 1, FALSE, 0, Append(w.kinds, "Hollerith"))
    <3> DEFINE o == [f EXCEPT !.hollerith = 1]
    <3> HIDE DEF o
    <3>1. o \in WalkType /\ "Hollerith" \in RegionKinds
      BY <2>2 DEF Fields, RegionKinds, o
    <3>2. Fields(Region(o, "Hollerith"), o.quote, o.hollerith, o.half, o.comment,
                 Append(o.kinds, "Hollerith"))
      BY <3>1, RegionFields
    <3> HIDE DEF v
    <3> QED BY <2>1, <2>2, <3>2 DEF Fields, o
  <2>5. After("Code", s[i], Named(s, i)) = "Hollerith"
        /\ KindIn("Code", s[i], Named(s, i)) = "Hollerith"
    BY <1>5 DEF After, CodeAfter, KindIn, CodeKind
  <2> HIDE DEF v
  <2>12. Sound(NoQuote, 1, FALSE, 0)
    BY <1>1 DEF Sound
  <2>7. Known(v, NoQuote, 1, FALSE, 0, Append(w.kinds, "Hollerith"))
    BY <2>3, <2>12, FieldsKnown, Zenon
  <2>8. ModeFor(NoQuote, 1, FALSE, 0) = After(Mode(w), s[i], Named(s, i))
    BY <1>1, <2>5 DEF ModeFor
  <2>9. 0 = CommentAt(w.comment, ModeFor(NoQuote, 1, FALSE, 0), i)
    BY <1>1, <2>5 DEF CommentAt, ModeFor
  <2>10. Append(w.kinds, "Hollerith") = Append(w.kinds, KindIn(Mode(w), s[i], Named(s, i)))
    BY <1>1, <2>5
  <2>13. Goes(w, s, i, v)
    BY <2>7, <2>8, <2>9, <2>10, KnownGoes, Zenon
  <2> QED BY <2>13 DEF v
<1>6. CASE s[i] \notin Quotes /\ s[i] # Bang /\ ~ (s[i] = Hollerith /\ ~Named(s, i))
  <2>1. v = Region(f, "Code")
    <3>1. ~ (s[i] = Hollerith /\ (i = 1 \/ s[i - 1] \notin InName))
      BY <1>6 DEF Named
    <3> QED BY <1>6, <3>1, Zenon DEF CodeByte, Freed
  <2>3. Fields(v, NoQuote, 0, FALSE, 0, Append(w.kinds, "Code"))
    <3> HIDE DEF f
    <3>1. "Code" \in RegionKinds
      BY DEF RegionKinds
    <3>2. Fields(Region(f, "Code"), f.quote, f.hollerith, f.half, f.comment, Append(f.kinds, "Code"))
      BY <1>2, <3>1, RegionFields
    <3> HIDE DEF v
    <3> QED BY <1>2, <2>1, <3>2 DEF Fields
  <2>5. After("Code", s[i], Named(s, i)) = "Code" /\ KindIn("Code", s[i], Named(s, i)) = "Code"
    BY <1>6 DEF After, CodeAfter, KindIn, CodeKind
  <2> HIDE DEF v
  <2>12. Sound(NoQuote, 0, FALSE, 0)
    BY <1>1 DEF Sound
  <2>7. Known(v, NoQuote, 0, FALSE, 0, Append(w.kinds, "Code"))
    BY <2>3, <2>12, FieldsKnown, Zenon
  <2>8. ModeFor(NoQuote, 0, FALSE, 0) = After(Mode(w), s[i], Named(s, i))
    BY <1>1, <2>5 DEF ModeFor
  <2>9. 0 = CommentAt(w.comment, ModeFor(NoQuote, 0, FALSE, 0), i)
    BY <1>1, <2>5 DEF CommentAt, ModeFor
  <2>10. Append(w.kinds, "Code") = Append(w.kinds, KindIn(Mode(w), s[i], Named(s, i)))
    BY <1>1, <2>5
  <2>13. Goes(w, s, i, v)
    BY <2>7, <2>8, <2>9, <2>10, KnownGoes, Zenon
  <2> QED BY <2>13 DEF v
<1> QED BY <1>3, <1>4, <1>5, <1>6

LEMMA WalkByteGoes ==
    ASSUME NEW w, WalkOK(w), NEW s, NEW i \in Nat \ {0}
    PROVE  Goes(w, s, i, WalkByte(w, s, i))
<1> DEFINE v == WalkByte(w, s, i)
<1>0. w \in WalkType /\ \A k \in {"Comment", "Hollerith", "StringLiteral"} : k \in RegionKinds
  BY DEF WalkOK, RegionKinds
<1>1. w.comment \in Nat /\ w.hollerith \in {0, 1} /\ w.half \in BOOLEAN
      /\ w.quote \in Quotes \cup {NoQuote}
  BY <1>0 DEF WalkType
<1>2. CASE w.comment > 0
  <2>1. v = Region(w, "Comment")
    BY <1>2, Zenon DEF WalkByte
  <2>2. Fields(v, w.quote, w.hollerith, w.half, w.comment, Append(w.kinds, "Comment"))
    BY <1>0, <2>1, RegionFields
  <2>3. KindIn("Comment", s[i], Named(s, i)) = "Comment" /\ After("Comment", s[i], Named(s, i)) = "Comment"
    BY DEF After, KindIn
  <2>4. Mode(w) = "Comment"
    BY <1>2 DEF Mode
  <2> HIDE DEF v
  <2>5. w.hollerith = 0 /\ w.quote = NoQuote /\ ~w.half
    BY <1>2 DEF WalkOK
  <2>12. Sound(w.quote, w.hollerith, w.half, w.comment)
    BY <1>1, <1>2, <2>5 DEF Sound
  <2>7. Known(v, w.quote, w.hollerith, w.half, w.comment, Append(w.kinds, "Comment"))
    BY <2>2, <2>12, FieldsKnown, Zenon
  <2>8. ModeFor(w.quote, w.hollerith, w.half, w.comment) = After(Mode(w), s[i], Named(s, i))
    BY <1>1, <1>2, <2>3, <2>4 DEF ModeFor
  <2>9. w.comment = CommentAt(w.comment, ModeFor(w.quote, w.hollerith, w.half, w.comment), i)
    BY <1>1, <1>2, <2>3, <2>4 DEF CommentAt, ModeFor
  <2>10. Append(w.kinds, "Comment") = Append(w.kinds, KindIn(Mode(w), s[i], Named(s, i)))
    BY <1>1, <1>2, <2>3, <2>4
  <2>13. Goes(w, s, i, v)
    BY <2>7, <2>8, <2>9, <2>10, KnownGoes, Zenon
  <2> QED BY <2>13 DEF v
<1>3. CASE w.comment = 0 /\ w.hollerith > 0
  <2> DEFINE o == [w EXCEPT !.hollerith = @ - 1]
  <2>1. v = Region(o, "Hollerith")
    <3>1. ~ (w.comment > 0)
      BY <1>3
    <3> QED BY <1>3, <3>1, Zenon DEF WalkByte
  <2>2. Fields(o, w.quote, 0, w.half, w.comment, w.kinds)
    BY <1>0, <1>1, <1>3, PaidFields
  <2> HIDE DEF o, v
  <2>3. Fields(v, w.quote, 0, w.half, w.comment, Append(w.kinds, "Hollerith"))
    <3>1. Fields(Region(o, "Hollerith"), o.quote, o.hollerith, o.half, o.comment,
                 Append(o.kinds, "Hollerith"))
      BY <1>0, <2>2, RegionFields DEF Fields
    <3> QED BY <2>1, <2>2, <3>1 DEF Fields
  <2>4. /\ KindIn("Hollerith", s[i], Named(s, i)) = "Hollerith"
        /\ After("Hollerith", s[i], Named(s, i)) = "Code"
    BY DEF After, KindIn
  <2>5. Mode(w) = "Hollerith" /\ w.quote = NoQuote /\ ~w.half
    BY <1>3 DEF Mode, WalkOK
  <2>12. Sound(w.quote, 0, w.half, w.comment)
    BY <1>1, <1>3, <2>5 DEF Sound
  <2>7. Known(v, w.quote, 0, w.half, w.comment, Append(w.kinds, "Hollerith"))
    BY <2>3, <2>12, FieldsKnown, Zenon
  <2>8. ModeFor(w.quote, 0, w.half, w.comment) = After(Mode(w), s[i], Named(s, i))
    BY <1>1, <1>3, <2>4, <2>5 DEF ModeFor
  <2>9. w.comment = CommentAt(w.comment, ModeFor(w.quote, 0, w.half, w.comment), i)
    BY <1>1, <1>3, <2>4, <2>5 DEF CommentAt, ModeFor
  <2>10. Append(w.kinds, "Hollerith") = Append(w.kinds, KindIn(Mode(w), s[i], Named(s, i)))
    BY <1>1, <1>3, <2>4, <2>5
  <2>13. Goes(w, s, i, v)
    BY <2>7, <2>8, <2>9, <2>10, KnownGoes, Zenon
  <2> QED BY <2>13 DEF v
<1>4. CASE w.comment = 0 /\ w.hollerith = 0 /\ (w.quote = NoQuote \/ (w.half /\ s[i] # w.quote))
  <2>1. v = CodeByte(w, s, i)
    BY <1>4 DEF WalkByte, LiteralByte
  <2>2. (w.half => s[i] # w.quote) /\ (w.half \/ w.quote = NoQuote)
    BY <1>4 DEF WalkOK
  <2>3. Goes(w, s, i, CodeByte(w, s, i))
    BY <1>4, <2>2, CodeByteGoes
  <2> QED BY <2>1, <2>3
<1>5. CASE w.comment = 0 /\ w.hollerith = 0 /\ w.quote # NoQuote /\ w.half /\ s[i] = w.quote
  <2> DEFINE o == [w EXCEPT !.half = FALSE]
  <2>0. s[i] \in Quotes
    BY <1>1, <1>5
  <2>1. v = Region(o, "StringLiteral")
    <3>1. ~ (w.comment > 0) /\ ~ (w.hollerith > 0)
      BY <1>5
    <3> QED BY <1>5, <3>1, Zenon DEF WalkByte, LiteralByte
  <2>2. Fields(o, w.quote, 0, FALSE, 0, w.kinds)
    BY <1>0, <1>5, HalfFields
  <2> HIDE DEF o, v
  <2>3. Fields(v, w.quote, 0, FALSE, 0, Append(w.kinds, "StringLiteral"))
    <3>1. Fields(Region(o, "StringLiteral"), o.quote, o.hollerith, o.half, o.comment,
                 Append(o.kinds, "StringLiteral"))
      BY <1>0, <2>2, RegionFields DEF Fields
    <3> QED BY <2>1, <2>2, <3>1 DEF Fields
  <2>4. Mode(w) = "Code"
    BY <1>5 DEF Mode
  <2>5. After("Code", s[i], Named(s, i)) = s[i]
        /\ KindIn("Code", s[i], Named(s, i)) = "StringLiteral"
    BY <2>0 DEF After, CodeAfter, KindIn, CodeKind
  <2>6. s[i] # NoQuote /\ s[i] # "Comment"
    BY <2>0, QuoteFacts
  <2>12. Sound(w.quote, 0, FALSE, 0)
    BY <1>5 DEF Sound
  <2>7. Known(v, w.quote, 0, FALSE, 0, Append(w.kinds, "StringLiteral"))
    BY <2>3, <2>12, FieldsKnown, Zenon
  <2>8. ModeFor(w.quote, 0, FALSE, 0) = After(Mode(w), s[i], Named(s, i))
    BY <1>5, <2>4, <2>5, <2>6 DEF ModeFor
  <2>9. 0 = CommentAt(w.comment, ModeFor(w.quote, 0, FALSE, 0), i)
    BY <1>5, <2>4, <2>5, <2>6 DEF CommentAt, ModeFor
  <2>10. Append(w.kinds, "StringLiteral") = Append(w.kinds, KindIn(Mode(w), s[i], Named(s, i)))
    BY <1>5, <2>4, <2>5, <2>6
  <2>13. Goes(w, s, i, v)
    BY <2>7, <2>8, <2>9, <2>10, KnownGoes, Zenon
  <2> QED BY <2>13 DEF v
<1>6. CASE w.comment = 0 /\ w.hollerith = 0 /\ w.quote # NoQuote /\ ~w.half
  <2> DEFINE o == [w EXCEPT !.half = s[i] = w.quote]
  <2>0. w.quote \in Quotes
    BY <1>1, <1>6
  <2>1. v = Region(o, "StringLiteral")
    <3>1. ~ (w.comment > 0) /\ ~ (w.hollerith > 0)
      BY <1>6
    <3> QED BY <1>6, <3>1, Zenon DEF WalkByte, LiteralByte
  <2>2. Fields(o, w.quote, 0, s[i] = w.quote, 0, w.kinds)
    <3>1. (s[i] = w.quote) \in BOOLEAN
      OBVIOUS
    <3> QED BY <1>0, <1>6, <3>1, HalfFields
  <2> HIDE DEF o, v
  <2>3. Fields(v, w.quote, 0, s[i] = w.quote, 0, Append(w.kinds, "StringLiteral"))
    <3>1. Fields(Region(o, "StringLiteral"), o.quote, o.hollerith, o.half, o.comment,
                 Append(o.kinds, "StringLiteral"))
      BY <1>0, <2>2, RegionFields DEF Fields
    <3> QED BY <2>1, <2>2, <3>1 DEF Fields
  <2>4. Mode(w) = w.quote /\ w.quote # "Comment" /\ w.quote # "Hollerith" /\ w.quote # "Code"
    BY <1>6, <2>0, QuoteFacts DEF Mode
  <2>5. KindIn(w.quote, s[i], Named(s, i)) = "StringLiteral"
    BY <2>4 DEF KindIn
  <2>6. After(w.quote, s[i], Named(s, i)) = IF s[i] = w.quote THEN "Code" ELSE w.quote
    BY <2>4 DEF After
  <2>11. (s[i] = w.quote) \in BOOLEAN
    OBVIOUS
  <2>12. Sound(w.quote, 0, s[i] = w.quote, 0)
    BY <1>1, <1>6, <2>11 DEF Sound
  <2>7. Known(v, w.quote, 0, s[i] = w.quote, 0, Append(w.kinds, "StringLiteral"))
    BY <2>3, <2>12, FieldsKnown, Zenon
  <2>8. ModeFor(w.quote, 0, s[i] = w.quote, 0) = After(Mode(w), s[i], Named(s, i))
    BY <1>6, <2>4, <2>5, <2>6 DEF ModeFor
  <2>9. 0 = CommentAt(w.comment, ModeFor(w.quote, 0, s[i] = w.quote, 0), i)
    BY <1>6, <2>4, <2>5, <2>6 DEF CommentAt, ModeFor
  <2>10. Append(w.kinds, "StringLiteral") = Append(w.kinds, KindIn(Mode(w), s[i], Named(s, i)))
    BY <1>6, <2>4, <2>5, <2>6
  <2>13. Goes(w, s, i, v)
    BY <2>7, <2>8, <2>9, <2>10, KnownGoes, Zenon
  <2> QED BY <2>13 DEF v
<1> QED BY <1>1, <1>2, <1>3, <1>4, <1>5, <1>6
-----------------------------------------------------------------------------
(* A scan is a run over the modes *)

ModeOf(lex) == IF lex.hollerith > 0 THEN "Hollerith"
               ELSE IF lex.quote = NoQuote THEN "Code" ELSE lex.quote

WalkStart(lex) == [quote |-> lex.quote, hollerith |-> lex.hollerith,
                   half |-> FALSE, comment |-> 0, kinds |-> <<>>]

Stage(lex, s, w, i) == IF i = 0 THEN WalkStart(lex) ELSE WalkByte(w[i - 1], s, i)

\* w is the first m steps of the walk over s.
IsWalk(lex, s, m, w) == w = [i \in 0..m |-> Stage(lex, s, w, i)]

LEMMA WalkExists ==
    ASSUME NEW lex, NEW s, NEW m \in Nat
    PROVE  \E w : IsWalk(lex, s, m, w)
<1> DEFINE S == {n \in 0..m : \E w : IsWalk(lex, s, n, w)}
<1>1. 0 \in S
  <2> DEFINE w == [i \in 0..0 |-> WalkStart(lex)]
  <2>1. w = [i \in 0..0 |-> Stage(lex, s, w, i)]
    BY DEF Stage
  <2> QED BY <2>1 DEF IsWalk
<1>2. ASSUME NEW n \in 0..m, n < m, n \in S PROVE n + 1 \in S
  <2>1. PICK w : w = [i \in 0..n |-> Stage(lex, s, w, i)]
    BY <1>2 DEF IsWalk
  <2> DEFINE v == [i \in 0..(n + 1) |-> IF i = n + 1 THEN WalkByte(w[n], s, n + 1) ELSE w[i]]
  <2>2. \A i \in 0..n : w[i] = Stage(lex, s, w, i)
    BY <2>1
  <2>3. \A i \in 0..n : v[i] = w[i]
    OBVIOUS
  <2>4. \A i \in 0..(n + 1) : v[i] = Stage(lex, s, v, i)
    <3>1. ASSUME NEW i \in 0..n PROVE v[i] = Stage(lex, s, v, i)
      <4>1. i = 0 \/ v[i - 1] = w[i - 1]
        BY <2>3
      <4> HIDE DEF v
      <4> QED BY <2>2, <2>3, <4>1 DEF Stage
    <3>2. v[n + 1] = Stage(lex, s, v, n + 1)
      <4>1. v[n + 1] = WalkByte(w[n], s, n + 1) /\ v[n] = w[n] /\ n + 1 # 0 /\ (n + 1) - 1 = n
        BY <2>3
      <4> HIDE DEF v
      <4> QED BY <4>1 DEF Stage
    <3>3. \A i \in 0..(n + 1) : i \in 0..n \/ i = n + 1
      OBVIOUS
    <3> HIDE DEF v
    <3> QED BY <3>1, <3>2, <3>3
  <2>5. v = [i \in 0..(n + 1) |-> Stage(lex, s, v, i)]
    <3>1. v = [i \in 0..(n + 1) |-> v[i]]
      OBVIOUS
    <3> HIDE DEF v
    <3> QED BY <2>4, <3>1, Zenon
  <2>6. n + 1 \in 0..m
    BY <1>2
  <2> HIDE DEF v
  <2> QED BY <2>5, <2>6 DEF IsWalk
<1>3. 0..m \subseteq S
  <2> HIDE DEF S
  <2> QED BY <1>1, <1>2, UpTo
<1>4. m \in S
  BY <1>3
<1> QED BY <1>4

LEMMA WalkIsWalk ==
    ASSUME NEW lex, NEW s, Len(s) \in Nat
    PROVE  \E w : IsWalk(lex, s, Len(s), w) /\ Walk(lex, s) = w[Len(s)]
<1> DEFINE c == CHOOSE w : w = [i \in 0..Len(s) |->
                   IF i = 0
                   THEN [quote |-> lex.quote, hollerith |-> lex.hollerith,
                         half |-> FALSE, comment |-> 0, kinds |-> <<>>]
                   ELSE WalkByte(w[i - 1], s, i)]
<1>1. \E w : w = [i \in 0..Len(s) |->
                   IF i = 0
                   THEN [quote |-> lex.quote, hollerith |-> lex.hollerith,
                         half |-> FALSE, comment |-> 0, kinds |-> <<>>]
                   ELSE WalkByte(w[i - 1], s, i)]
  <2>1. PICK w : IsWalk(lex, s, Len(s), w)
    BY WalkExists, Zenon
  <2> QED BY <2>1, Zenon DEF IsWalk, Stage, WalkStart
<1>2. c = [i \in 0..Len(s) |->
                   IF i = 0
                   THEN [quote |-> lex.quote, hollerith |-> lex.hollerith,
                         half |-> FALSE, comment |-> 0, kinds |-> <<>>]
                   ELSE WalkByte(c[i - 1], s, i)]
  BY <1>1, Zenon
<1>3. IsWalk(lex, s, Len(s), c)
  <2> HIDE DEF c
  <2> QED BY <1>2, Zenon DEF IsWalk, Stage, WalkStart
<1>4. Walk(lex, s) = c[Len(s)]
  BY Zenon DEF Walk
<1> HIDE DEF c
<1> QED BY <1>3, <1>4, Zenon

\* A state a line may be entered with: no payload is ever owed (WalkedTo).
Enterable(lex) == lex \in LexStates /\ lex.hollerith = 0

LEMMA StartOK ==
    ASSUME NEW lex, Enterable(lex)
    PROVE  /\ WalkOK(WalkStart(lex)) /\ Mode(WalkStart(lex)) = ModeOf(lex)
           /\ WalkStart(lex).kinds = <<>> /\ WalkStart(lex).comment = 0
<1>1. <<>> \in Seq(RegionKinds)
  OBVIOUS
<1>2. lex.quote \in Quotes \cup {NoQuote} /\ lex.hollerith = 0
  BY DEF Enterable, LexStates
<1>3. /\ WalkStart(lex).quote = lex.quote /\ WalkStart(lex).hollerith = 0
      /\ WalkStart(lex).half = FALSE /\ WalkStart(lex).comment = 0 /\ WalkStart(lex).kinds = <<>>
  BY <1>2 DEF WalkStart
<1>4. WalkStart(lex) \in WalkType
  BY <1>1, <1>2 DEF WalkStart, WalkType
<1>5. WalkOK(WalkStart(lex))
  BY <1>3, <1>4 DEF WalkOK
<1>6. Mode(WalkStart(lex)) = ModeOf(lex)
  BY <1>2, <1>3 DEF Mode, ModeOf
<1> QED BY <1>3, <1>5, <1>6

LEMMA WalkSteps ==
    ASSUME NEW lex, Enterable(lex), NEW s, NEW m \in Nat, NEW w, IsWalk(lex, s, m, w)
    PROVE  /\ w[0] = WalkStart(lex)
           /\ \A n \in 0..m : WalkOK(w[n])
           /\ \A n \in 1..m : Goes(w[n - 1], s, n, w[n])
<1>1. \A i \in 0..m : w[i] = Stage(lex, s, w, i)
  BY DEF IsWalk
<1>2. w[0] = WalkStart(lex)
  BY <1>1 DEF Stage
<1>3. \A i \in 1..m : w[i] = WalkByte(w[i - 1], s, i)
  BY <1>1 DEF Stage
<1> DEFINE S == {n \in 0..m : WalkOK(w[n])}
<1>4. 0 \in S
  BY <1>2, StartOK
<1>5. ASSUME NEW n \in 1..m, WalkOK(w[n - 1]) PROVE Goes(w[n - 1], s, n, w[n])
  <2>1. n \in Nat \ {0}
    OBVIOUS
  <2>2. Goes(w[n - 1], s, n, WalkByte(w[n - 1], s, n))
    BY <1>5, <2>1, WalkByteGoes
  <2> QED BY <1>3, <2>2
<1>6. ASSUME NEW n \in 0..m, n < m, n \in S PROVE n + 1 \in S
  <2>1. n + 1 \in 1..m /\ (n + 1) - 1 = n /\ n + 1 \in 0..m
    BY <1>6
  <2>2. WalkOK(w[(n + 1) - 1])
    BY <1>6, <2>1
  <2>3. Goes(w[(n + 1) - 1], s, n + 1, w[n + 1])
    BY <1>5, <2>1, <2>2, Zenon
  <2>4. WalkOK(w[n + 1])
    BY <2>3, Zenon DEF Goes
  <2> QED BY <2>1, <2>4
<1>7. 0..m \subseteq S
  <2> HIDE DEF S
  <2> QED BY <1>4, <1>6, UpTo
<1>8. \A n \in 0..m : WalkOK(w[n])
  BY <1>7
<1>9. \A n \in 1..m : n - 1 \in 0..m
  OBVIOUS
<1>10. \A n \in 1..m : WalkOK(w[n - 1])
  BY <1>8, <1>9, Zenon
<1> QED BY <1>2, <1>5, <1>8, <1>10

\* The modes before every byte of s, and after the last.
IsRun(mu, m, s) ==
    /\ mu \in [0..Len(s) -> Modes]
    /\ mu[0] = m
    /\ \A i \in 1..Len(s) : mu[i] = After(mu[i - 1], s[i], Named(s, i))

Run(m, s) == CHOOSE mu : IsRun(mu, m, s)

\* The kinds and the comment among the first n bytes of a run.
KindsSoFar(ks, mu, s, n) ==
    /\ ks \in Seq(RegionKinds) /\ Len(ks) = n
    /\ \A i \in 1..n : ks[i] = KindIn(mu[i - 1], s[i], Named(s, i))

CommentSoFar(c, mu, n) ==
    \/ c = 0 /\ \A i \in 0..n : mu[i] # "Comment"
    \/ c \in 1..n /\ mu[c - 1] # "Comment" /\ \A i \in c..n : mu[i] = "Comment"

LEMMA ModeType == ASSUME NEW w, WalkOK(w) PROVE Mode(w) \in Modes
<1>1. w.quote \in Quotes \cup {NoQuote}
  BY DEF WalkOK, WalkType
<1> QED BY <1>1 DEF Mode, Modes

LEMMA ModeComment ==
    ASSUME NEW w, WalkOK(w)
    PROVE  w.comment \in Nat /\ (w.comment > 0 <=> Mode(w) = "Comment")
<1>1. w.quote \in Quotes \cup {NoQuote} /\ w.comment \in Nat
  BY DEF WalkOK, WalkType
<1>2. \A q \in Quotes : q # "Comment"
  BY QuoteFacts
<1> QED BY <1>1, <1>2 DEF Mode

LEMMA WalkIsRun ==
    ASSUME NEW lex, Enterable(lex), NEW s, Len(s) \in Nat, NEW w, IsWalk(lex, s, Len(s), w),
           NEW mu, mu = [i \in 0..Len(s) |-> Mode(w[i])]
    PROVE  IsRun(mu, ModeOf(lex), s)
<1>1. \A n \in 0..Len(s) : WalkOK(w[n])
  BY WalkSteps
<1>2. \A n \in 1..Len(s) : Goes(w[n - 1], s, n, w[n])
  BY WalkSteps
<1>3. mu \in [0..Len(s) -> Modes]
  BY <1>1, ModeType
<1>4. mu[0] = ModeOf(lex)
  <2>1. mu[0] = Mode(w[0])
    OBVIOUS
  <2>2. w[0] = WalkStart(lex)
    BY WalkSteps
  <2>3. Mode(WalkStart(lex)) = ModeOf(lex)
    BY StartOK
  <2> QED BY <2>1, <2>2, <2>3, Zenon
<1>5. \A i \in 1..Len(s) : mu[i] = Mode(w[i]) /\ mu[i - 1] = Mode(w[i - 1])
  OBVIOUS
<1>6. \A i \in 1..Len(s) : mu[i] = After(mu[i - 1], s[i], Named(s, i))
  BY <1>2, <1>5, Zenon DEF Goes
<1> QED BY <1>3, <1>4, <1>6, Zenon DEF IsRun

LEMMA KindType ==
    ASSUME NEW m, NEW b, NEW named
    PROVE  KindIn(m, b, named) \in RegionKinds
BY DEF KindIn, CodeKind, RegionKinds

LEMMA WalkReads ==
    ASSUME NEW lex, Enterable(lex), NEW s, Len(s) \in Nat, NEW w, IsWalk(lex, s, Len(s), w),
           NEW mu, mu = [i \in 0..Len(s) |-> Mode(w[i])]
    PROVE  \A n \in 0..Len(s) :
              KindsSoFar(w[n].kinds, mu, s, n) /\ CommentSoFar(w[n].comment, mu, n)
<1> DEFINE S == {n \in 0..Len(s) : KindsSoFar(w[n].kinds, mu, s, n)
                                  /\ CommentSoFar(w[n].comment, mu, n)}
<1>1. \A n \in 0..Len(s) : WalkOK(w[n]) /\ mu[n] = Mode(w[n])
  BY WalkSteps
<1>2. \A n \in 1..Len(s) : Goes(w[n - 1], s, n, w[n])
  BY WalkSteps
<1>3. 0 \in S
  <2>0. w[0] = WalkStart(lex)
    BY WalkSteps
  <2>1. w[0].kinds = <<>> /\ w[0].comment = 0 /\ ~ (w[0].comment > 0)
    <3>1. WalkStart(lex).kinds = <<>> /\ WalkStart(lex).comment = 0
      BY StartOK
    <3>2. w[0].kinds = <<>> /\ w[0].comment = 0
      BY <2>0, <3>1, Zenon
    <3> QED BY <3>2
  <2>2. mu[0] # "Comment"
    BY <1>1, <2>1, ModeComment
  <2>3. KindsSoFar(w[0].kinds, mu, s, 0)
    BY <2>1 DEF KindsSoFar
  <2>4. CommentSoFar(w[0].comment, mu, 0)
    BY <2>1, <2>2 DEF CommentSoFar
  <2> QED BY <2>3, <2>4
<1>4. ASSUME NEW n \in 0..Len(s), n < Len(s), n \in S PROVE n + 1 \in S
  <2>1. n + 1 \in 1..Len(s) /\ (n + 1) - 1 = n /\ n + 1 \in 0..Len(s)
    BY <1>4
  <2>2. Goes(w[n], s, n + 1, w[n + 1])
    BY <1>2, <2>1
  <2>3. mu[n] = Mode(w[n]) /\ mu[n + 1] = Mode(w[n + 1]) /\ WalkOK(w[n]) /\ WalkOK(w[n + 1])
    BY <1>1, <2>1
  <2>4. KindsSoFar(w[n + 1].kinds, mu, s, n + 1)
    <3> DEFINE k == KindIn(mu[n], s[n + 1], Named(s, n + 1))
               ks == w[n].kinds
    <3>1. w[n + 1].kinds = Append(ks, k)
      BY <2>2, <2>3, Zenon DEF Goes
    <3>2. ks \in Seq(RegionKinds) /\ Len(ks) = n
          /\ \A i \in 1..n : ks[i] = KindIn(mu[i - 1], s[i], Named(s, i))
      BY <1>4 DEF KindsSoFar
    <3>3. k \in RegionKinds
      BY KindType
    <3> HIDE DEF ks
    <3>4. /\ Append(ks, k) \in Seq(RegionKinds) /\ Len(Append(ks, k)) = n + 1
          /\ \A i \in 1..n : Append(ks, k)[i] = ks[i]
          /\ Append(ks, k)[n + 1] = k
      <4> HIDE DEF k
      <4> QED BY <3>2, <3>3
    <3>5. \A i \in 1..(n + 1) : Append(ks, k)[i] = KindIn(mu[i - 1], s[i], Named(s, i))
      <4>1. \A i \in 1..(n + 1) : i \in 1..n \/ i = n + 1
        BY <1>4
      <4>2. Append(ks, k)[n + 1] = KindIn(mu[(n + 1) - 1], s[n + 1], Named(s, n + 1))
        BY <2>1, <3>4
      <4> HIDE DEF k
      <4>3. \A i \in 1..n : Append(ks, k)[i] = KindIn(mu[i - 1], s[i], Named(s, i))
        BY <3>2, <3>4
      <4> QED BY <4>1, <4>2, <4>3, Zenon
    <3> HIDE DEF k
    <3> QED BY <3>1, <3>4, <3>5 DEF KindsSoFar
  <2>5. CommentSoFar(w[n + 1].comment, mu, n + 1)
    <3>1. CommentSoFar(w[n].comment, mu, n)
      BY <1>4
    <3>2. /\ w[n].comment \in Nat /\ w[n + 1].comment \in Nat
          /\ (w[n].comment > 0 <=> mu[n] = "Comment")
          /\ (w[n + 1].comment > 0 <=> mu[n + 1] = "Comment")
      BY <2>3, ModeComment
    <3>3. w[n + 1].comment = IF w[n].comment > 0 THEN w[n].comment
                             ELSE IF mu[n + 1] = "Comment" THEN n + 1 ELSE 0
      BY <2>2, <2>3, Zenon DEF Goes
    <3>4. \A i \in 0..(n + 1) : i \in 0..n \/ i = n + 1
      BY <1>4
    <3>5. CASE w[n].comment > 0
      <4>1. w[n + 1].comment = w[n].comment /\ mu[n + 1] = "Comment"
        BY <3>2, <3>3, <3>5
      <4>2. PICK c : c = w[n].comment
        OBVIOUS
      <4>3. c \in 1..n /\ mu[c - 1] # "Comment" /\ \A i \in c..n : mu[i] = "Comment"
        BY <3>1, <3>5, <4>2 DEF CommentSoFar
      <4>4. c \in 1..(n + 1) /\ \A i \in c..(n + 1) : i \in c..n \/ i = n + 1
        BY <1>4, <4>3
      <4>5. \A i \in c..(n + 1) : mu[i] = "Comment"
        BY <4>1, <4>3, <4>4
      <4>6. CommentSoFar(c, mu, n + 1)
        BY <4>3, <4>4, <4>5 DEF CommentSoFar
      <4> QED BY <4>1, <4>2, <4>6, Zenon
    <3>6. CASE w[n].comment = 0 /\ mu[n + 1] = "Comment"
      <4>1. w[n + 1].comment = n + 1 /\ mu[n] # "Comment"
        BY <3>2, <3>3, <3>6
      <4>2. mu[(n + 1) - 1] # "Comment"
        BY <2>1, <4>1
      <4>3. \A i \in (n + 1)..(n + 1) : mu[i] = "Comment"
        BY <3>6
      <4> QED BY <4>1, <4>2, <4>3, <2>1 DEF CommentSoFar
    <3>7. CASE w[n].comment = 0 /\ mu[n + 1] # "Comment"
      <4>1. w[n + 1].comment = 0
        BY <3>3, <3>7
      <4>2. \A i \in 0..n : mu[i] # "Comment"
        BY <3>1, <3>7 DEF CommentSoFar
      <4> QED BY <3>4, <3>7, <4>1, <4>2 DEF CommentSoFar
    <3> QED BY <3>2, <3>5, <3>6, <3>7
  <2> QED BY <2>1, <2>4, <2>5
<1>5. 0..Len(s) \subseteq S
  <2> HIDE DEF S
  <2> QED BY <1>3, <1>4, UpTo
<1> QED BY <1>5

\* What a scan of s says, given the modes of its run.
ReadBy(scan, mu, s) ==
    /\ KindsSoFar(scan.kinds, mu, s, Len(s))
    /\ CommentSoFar(scan.comment, mu, Len(s))
    /\ scan.lex = [quote     |-> IF mu[Len(s)] \in Quotes THEN mu[Len(s)] ELSE NoQuote,
                   hollerith |-> IF mu[Len(s)] = "Hollerith" THEN 1 ELSE 0]

LEMMA ScanOfRun ==
    ASSUME NEW lex, Enterable(lex), NEW s, Len(s) \in Nat
    PROVE  \E mu : IsRun(mu, ModeOf(lex), s) /\ ReadBy(Scan(lex, s), mu, s)
<1>1. PICK w : IsWalk(lex, s, Len(s), w) /\ Walk(lex, s) = w[Len(s)]
  BY WalkIsWalk
<1>2. PICK mu : mu = [i \in 0..Len(s) |-> Mode(w[i])]
  OBVIOUS
<1>3. IsRun(mu, ModeOf(lex), s)
  BY <1>1, <1>2, WalkIsRun
<1>4. Len(s) \in 0..Len(s)
  OBVIOUS
<1>5. KindsSoFar(w[Len(s)].kinds, mu, s, Len(s)) /\ CommentSoFar(w[Len(s)].comment, mu, Len(s))
  BY <1>1, <1>2, <1>4, WalkReads
<1>6. PICK v : v = w[Len(s)]
  OBVIOUS
<1>7. WalkOK(v) /\ mu[Len(s)] = Mode(v)
  BY <1>1, <1>2, <1>4, <1>6, WalkSteps
<1>8. /\ Scan(lex, s).kinds = v.kinds /\ Scan(lex, s).comment = v.comment
      /\ Scan(lex, s).lex = [quote |-> IF v.half THEN NoQuote ELSE v.quote,
                             hollerith |-> v.hollerith]
  BY <1>1, <1>6 DEF Scan
<1>9. /\ (IF v.half THEN NoQuote ELSE v.quote) = (IF Mode(v) \in Quotes THEN Mode(v) ELSE NoQuote)
      /\ v.hollerith = IF Mode(v) = "Hollerith" THEN 1 ELSE 0
  <2>1. /\ v.quote \in Quotes \cup {NoQuote} /\ v.hollerith \in {0, 1} /\ v.half \in BOOLEAN
        /\ v.comment \in Nat
    BY <1>7 DEF WalkOK, WalkType
  <2>2. /\ v.half => v.quote # NoQuote
        /\ v.comment > 0 \/ v.hollerith > 0 => v.quote = NoQuote /\ ~v.half
        /\ v.comment > 0 => v.hollerith = 0
    BY <1>7 DEF WalkOK
  <2>3. "Comment" \notin Quotes /\ "Hollerith" \notin Quotes /\ "Code" \notin Quotes
        /\ NoQuote \notin Quotes
    BY QuoteFacts
  <2> QED BY <2>1, <2>2, <2>3 DEF Mode
<1>10. Scan(lex, s).lex = [quote     |-> IF mu[Len(s)] \in Quotes THEN mu[Len(s)] ELSE NoQuote,
                          hollerith |-> IF mu[Len(s)] = "Hollerith" THEN 1 ELSE 0]
  BY <1>7, <1>8, <1>9, Zenon
<1>11. ReadBy(Scan(lex, s), mu, s)
  BY <1>5, <1>6, <1>8, <1>10, Zenon DEF ReadBy
<1> QED BY <1>3, <1>11

\* A byte leads from a mode to one mode, so a run has no choice.
LEMMA RunUnique ==
    ASSUME NEW s, Len(s) \in Nat, NEW m, NEW mu, NEW nu, IsRun(mu, m, s), IsRun(nu, m, s)
    PROVE  mu = nu
<1> DEFINE S == {n \in 0..Len(s) : mu[n] = nu[n]}
<1>1. 0 \in S
  BY DEF IsRun
<1>2. ASSUME NEW n \in 0..Len(s), n < Len(s), n \in S PROVE n + 1 \in S
  <2>1. n + 1 \in 1..Len(s) /\ (n + 1) - 1 = n /\ n + 1 \in 0..Len(s) /\ mu[n] = nu[n]
    BY <1>2
  <2>2. /\ mu[n + 1] = After(mu[(n + 1) - 1], s[n + 1], Named(s, n + 1))
        /\ nu[n + 1] = After(nu[(n + 1) - 1], s[n + 1], Named(s, n + 1))
    BY <2>1, Zenon DEF IsRun
  <2>3. mu[n + 1] = nu[n + 1]
    BY <2>1, <2>2, Zenon
  <2> QED BY <2>1, <2>3
<1>3. 0..Len(s) \subseteq S
  <2> HIDE DEF S
  <2> QED BY <1>1, <1>2, UpTo
<1>4. \A n \in 0..Len(s) : mu[n] = nu[n]
  BY <1>3
<1>5. mu = [i \in 0..Len(s) |-> mu[i]] /\ nu = [i \in 0..Len(s) |-> nu[i]]
  BY DEF IsRun
<1> QED BY <1>4, <1>5

LEMMA ScanReads ==
    ASSUME NEW lex, Enterable(lex), NEW s, Len(s) \in Nat
    PROVE  /\ IsRun(Run(ModeOf(lex), s), ModeOf(lex), s)
           /\ ReadBy(Scan(lex, s), Run(ModeOf(lex), s), s)
<1>1. PICK mu : IsRun(mu, ModeOf(lex), s) /\ ReadBy(Scan(lex, s), mu, s)
  BY ScanOfRun
<1>2. IsRun(Run(ModeOf(lex), s), ModeOf(lex), s)
  BY <1>1, Zenon DEF Run
<1>3. mu = Run(ModeOf(lex), s)
  BY <1>1, <1>2, RunUnique
<1> QED BY <1>1, <1>2, <1>3
-----------------------------------------------------------------------------
(* Comparing runs *)

\* What byte i is read as.
Reads(mu, s, i) == KindIn(mu[i - 1], s[i], Named(s, i))

\* Whether a name ends before a byte matters only to a Hollerith head in code.
SameHead(m, b, named, other) == m # "Code" \/ b # Hollerith \/ (named <=> other)

LEMMA HeadStep ==
    ASSUME NEW m, NEW b, NEW named \in BOOLEAN, NEW other \in BOOLEAN, SameHead(m, b, named, other)
    PROVE  After(m, b, named) = After(m, b, other) /\ KindIn(m, b, named) = KindIn(m, b, other)
BY DEF SameHead, After, CodeAfter, KindIn, CodeKind

LEMMA NamedType == \A s, i : Named(s, i) \in BOOLEAN
BY DEF Named

\* The l bytes of T behind a and those of s behind b are the same, entered in
\* the same mode.
Alike(T, nu, a, s, mu, b, l) ==
    /\ Len(T) \in Nat /\ (\E m : IsRun(nu, m, T))
    /\ Len(s) \in Nat /\ (\E m : IsRun(mu, m, s))
    /\ a \in Nat /\ b \in Nat /\ l \in Nat /\ a + l <= Len(T) /\ b + l <= Len(s)
    /\ \A j \in 1..l : T[a + j] = s[b + j]
    /\ nu[a] = mu[b]
    /\ l > 0 => SameHead(nu[a], T[a + 1], Named(T, a + 1), Named(s, b + 1))

\* They are read the same way.
Agree(T, nu, a, s, mu, b, l) ==
    /\ \A j \in 0..l : nu[a + j] = mu[b + j]
    /\ \A j \in 1..l : Reads(nu, T, a + j) = Reads(mu, s, b + j)

LEMMA RunsAgree ==
    ASSUME NEW T, NEW s, NEW nu, NEW mu, NEW a, NEW b, NEW l, Alike(T, nu, a, s, mu, b, l)
    PROVE  Agree(T, nu, a, s, mu, b, l)
<1>0. /\ Len(T) \in Nat /\ (\E m : IsRun(nu, m, T))
      /\ Len(s) \in Nat /\ (\E m : IsRun(mu, m, s))
      /\ a \in Nat /\ b \in Nat /\ l \in Nat /\ a + l <= Len(T) /\ b + l <= Len(s)
      /\ \A j \in 1..l : T[a + j] = s[b + j]
      /\ nu[a] = mu[b]
      /\ l > 0 => SameHead(nu[a], T[a + 1], Named(T, a + 1), Named(s, b + 1))
  BY Zenon DEF Alike
<1> USE <1>0
<1> DEFINE S == {j \in 0..l : nu[a + j] = mu[b + j]}
<1>1. 0 \in S
  OBVIOUS
<1>2. ASSUME NEW j \in 0..l, j < l
      PROVE  /\ a + (j + 1) \in 1..Len(T) /\ b + (j + 1) \in 1..Len(s)
             /\ (a + (j + 1)) - 1 = a + j /\ (b + (j + 1)) - 1 = b + j
             /\ j + 1 \in 1..l /\ j + 1 \in 0..l
  BY <1>2
<1>3. ASSUME NEW j \in 0..l, j < l
      PROVE  SameHead(nu[a + j], T[a + (j + 1)], Named(T, a + (j + 1)), Named(s, b + (j + 1)))
  <2>1. CASE j = 0
    <3>1. l > 0 /\ a + j = a /\ a + (j + 1) = a + 1 /\ b + (j + 1) = b + 1
      BY <1>3, <2>1
    <3> QED BY <3>1
  <2>2. CASE j # 0
    <3>1. j \in 1..l /\ a + (j + 1) # 1 /\ b + (j + 1) # 1
          /\ (a + (j + 1)) - 1 = a + j /\ (b + (j + 1)) - 1 = b + j
      BY <1>3, <2>2
    <3>2. T[a + j] = s[b + j]
      BY <3>1
    <3>3. Named(T, a + (j + 1)) <=> Named(s, b + (j + 1))
      BY <3>1, <3>2 DEF Named
    <3> QED BY <3>3, Zenon DEF SameHead
  <2> QED BY <2>1, <2>2
<1>4. ASSUME NEW j \in 0..l, j < l, nu[a + j] = mu[b + j]
      PROVE  /\ nu[a + (j + 1)] = mu[b + (j + 1)]
             /\ Reads(nu, T, a + (j + 1)) = Reads(mu, s, b + (j + 1))
  <2>1. /\ a + (j + 1) \in 1..Len(T) /\ b + (j + 1) \in 1..Len(s)
        /\ (a + (j + 1)) - 1 = a + j /\ (b + (j + 1)) - 1 = b + j /\ j + 1 \in 1..l
    BY <1>2, <1>4
  <2>2. PICK x, y : x = a + (j + 1) /\ y = b + (j + 1)
    OBVIOUS
  <2>3. T[x] = s[y]
    BY <2>1, <2>2
  <2>4. nu[x - 1] = mu[y - 1] /\ nu[x - 1] = nu[a + j]
    BY <1>4, <2>1, <2>2
  <2>5. SameHead(nu[x - 1], T[x], Named(T, x), Named(s, y))
    BY <1>3, <1>4, <2>2, <2>4, Zenon
  <2>6. /\ nu[x] = After(nu[x - 1], T[x], Named(T, x))
        /\ mu[y] = After(mu[y - 1], s[y], Named(s, y))
    BY <2>1, <2>2, Zenon DEF IsRun
  <2>7. /\ After(nu[x - 1], T[x], Named(T, x)) = After(nu[x - 1], T[x], Named(s, y))
        /\ KindIn(nu[x - 1], T[x], Named(T, x)) = KindIn(nu[x - 1], T[x], Named(s, y))
    <3>1. Named(T, x) \in BOOLEAN /\ Named(s, y) \in BOOLEAN
      BY NamedType
    <3> QED BY <2>5, <3>1, HeadStep
  <2>8. nu[x] = mu[y]
    BY <2>3, <2>4, <2>6, <2>7, Zenon
  <2>9. Reads(nu, T, x) = Reads(mu, s, y)
    BY <2>3, <2>4, <2>7, Zenon DEF Reads
  <2> QED BY <2>2, <2>8, <2>9, Zenon
<1>5. ASSUME NEW j \in 0..l, j < l, j \in S PROVE j + 1 \in S
  <2>1. nu[a + j] = mu[b + j] /\ j + 1 \in 0..l
    BY <1>2, <1>5
  <2>2. nu[a + (j + 1)] = mu[b + (j + 1)]
    BY <1>4, <1>5, <2>1, Zenon
  <2> QED BY <2>1, <2>2
<1>6. 0..l \subseteq S
  <2> HIDE DEF S
  <2> QED BY <1>1, <1>5, UpTo
<1>7. \A j \in 0..l : nu[a + j] = mu[b + j]
  BY <1>6
<1>8. ASSUME NEW j \in 1..l PROVE Reads(nu, T, a + j) = Reads(mu, s, b + j)
  <2>1. PICK i : i = j - 1
    OBVIOUS
  <2>2. i \in 0..l /\ i < l /\ i + 1 = j
    BY <2>1
  <2>3. Reads(nu, T, a + (i + 1)) = Reads(mu, s, b + (i + 1))
    BY <1>4, <1>7, <2>2, Zenon
  <2> QED BY <2>2, <2>3, Zenon
<1> QED BY <1>7, <1>8 DEF Agree

\* Blanks and markers lead nowhere, except out of a payload.
LEMMA BlankStep ==
    ASSUME NEW mu, NEW m, NEW s, IsRun(mu, m, s), Len(s) \in Nat, NEW i \in 1..Len(s),
           s[i] \in {Blank, Amp}, mu[i - 1] # "Hollerith"
    PROVE  mu[i] = mu[i - 1]
<1>1. mu[i] = After(mu[i - 1], s[i], Named(s, i))
  BY DEF IsRun
<1>2. s[i] \notin Quotes /\ s[i] # Bang /\ s[i] # Hollerith
  BY DEF Quotes, Bang, Hollerith, Blank, Amp
<1>3. mu[i - 1] \in Modes
  <2>1. i - 1 \in 0..Len(s)
    OBVIOUS
  <2> QED BY <2>1 DEF IsRun
<1> QED BY <1>1, <1>2, <1>3 DEF After, CodeAfter, Modes

LEMMA BlanksKeep ==
    ASSUME NEW mu, NEW m, NEW s, IsRun(mu, m, s), Len(s) \in Nat, NEW a \in Nat, NEW b \in Nat,
           a <= b, b <= Len(s), \A j \in (a + 1)..b : s[j] \in {Blank, Amp}, mu[a] # "Hollerith"
    PROVE  \A j \in a..b : mu[j] = mu[a]
<1> DEFINE S == {j \in 0..(b - a) : mu[a + j] = mu[a]}
<1>1. 0 \in S
  OBVIOUS
<1>2. ASSUME NEW j \in 0..(b - a), j < b - a, j \in S PROVE j + 1 \in S
  <2>1. PICK i : i = a + (j + 1)
    OBVIOUS
  <2>2. i \in 1..Len(s) /\ i \in (a + 1)..b /\ i - 1 = a + j /\ j + 1 \in 0..(b - a)
    BY <1>2, <2>1
  <2>3. s[i] \in {Blank, Amp} /\ mu[i - 1] = mu[a] /\ mu[i - 1] # "Hollerith"
    BY <1>2, <2>2
  <2>4. mu[i] = mu[i - 1]
    BY <2>2, <2>3, BlankStep
  <2> QED BY <2>1, <2>2, <2>3, <2>4
<1>3. 0..(b - a) \subseteq S
  <2>1. b - a \in Nat
    OBVIOUS
  <2> HIDE DEF S
  <2> QED BY <1>1, <1>2, <2>1, UpTo
<1>4. ASSUME NEW j \in a..b PROVE mu[j] = mu[a]
  <2>1. j - a \in 0..(b - a) /\ a + (j - a) = j
    OBVIOUS
  <2>2. j - a \in S
    BY <1>3, <2>1
  <2> QED BY <2>1, <2>2
<1> QED BY <1>4

LEMMA CommentStep ==
    ASSUME NEW mu, NEW m, NEW s, IsRun(mu, m, s), Len(s) \in Nat, NEW i \in 1..Len(s)
    PROVE  Reads(mu, s, i) = "Comment" <=> mu[i] = "Comment"
<1>1. mu[i] = After(mu[i - 1], s[i], Named(s, i))
  BY DEF IsRun
<1>2. \A q \in Quotes : q # "Comment"
  BY QuoteFacts
<1>3. mu[i - 1] \in Modes
  <2>1. i - 1 \in 0..Len(s)
    OBVIOUS
  <2> QED BY <2>1 DEF IsRun
<1> QED BY <1>1, <1>2, <1>3 DEF After, CodeAfter, KindIn, CodeKind, Reads, Modes

LEMMA CommentStays ==
    ASSUME NEW mu, NEW m, NEW s, IsRun(mu, m, s), Len(s) \in Nat, NEW a \in 0..Len(s),
           mu[a] = "Comment"
    PROVE  \A j \in a..Len(s) : mu[j] = "Comment"
<1> DEFINE S == {j \in 0..(Len(s) - a) : mu[a + j] = "Comment"}
<1>1. 0 \in S
  OBVIOUS
<1>2. ASSUME NEW j \in 0..(Len(s) - a), j < Len(s) - a, j \in S PROVE j + 1 \in S
  <2>1. PICK i : i = a + (j + 1)
    OBVIOUS
  <2>2. i \in 1..Len(s) /\ i - 1 = a + j /\ j + 1 \in 0..(Len(s) - a)
    BY <1>2, <2>1
  <2>3. mu[i] = After(mu[i - 1], s[i], Named(s, i)) /\ mu[i - 1] = "Comment"
    BY <1>2, <2>2 DEF IsRun
  <2> QED BY <2>1, <2>2, <2>3 DEF After
<1>3. 0..(Len(s) - a) \subseteq S
  <2>1. Len(s) - a \in Nat
    OBVIOUS
  <2> HIDE DEF S
  <2> QED BY <1>1, <1>2, <2>1, UpTo
<1>4. ASSUME NEW j \in a..Len(s) PROVE mu[j] = "Comment"
  <2>1. j - a \in 0..(Len(s) - a) /\ a + (j - a) = j
    OBVIOUS
  <2>2. j - a \in S
    BY <1>3, <2>1
  <2> QED BY <2>1, <2>2
<1> QED BY <1>4
\* Byte i is the marker that continues s.
MarkAt(mu, s, i) ==
    /\ i \in 1..Len(s) /\ s[i] = Amp /\ mu[i - 1] \in {"Code"} \cup Quotes
    /\ \A j \in (i + 1)..Len(s) : s[j] = Blank \/ mu[j] = "Comment"

Marked(mu, s) == \E i : MarkAt(mu, s, i)

LEMMA MarkKeeps ==
    ASSUME NEW mu, NEW m, NEW s, IsRun(mu, m, s), Len(s) \in Nat, NEW i, MarkAt(mu, s, i)
    PROVE  i \in 1..Len(s) /\ mu[i] = mu[i - 1] /\ mu[i] \in {"Code"} \cup Quotes
<1>1. i \in 1..Len(s) /\ s[i] = Amp /\ mu[i - 1] \in {"Code"} \cup Quotes
  BY Zenon DEF MarkAt
<1>2. mu[i - 1] # "Hollerith" /\ s[i] \in {Blank, Amp}
  BY <1>1, QuoteFacts
<1> QED BY <1>1, <1>2, BlankStep

\* Behind the marker the literal goes on, or there are blanks and a comment.
LEMMA MarkTail ==
    ASSUME NEW mu, NEW m, NEW s, IsRun(mu, m, s), Len(s) \in Nat, NEW i, MarkAt(mu, s, i)
    PROVE  /\ \A j \in i..Len(s) : mu[j] = mu[i] \/ (mu[i] = "Code" /\ mu[j] = "Comment")
           /\ mu[i] \in Quotes => \A j \in (i + 1)..Len(s) : s[j] = Blank
<1>1. i \in 1..Len(s) /\ mu[i] \in {"Code"} \cup Quotes
  BY MarkKeeps
<1>2. \A j \in (i + 1)..Len(s) : s[j] = Blank \/ mu[j] = "Comment"
  BY DEF MarkAt
<1>3. \A q \in Quotes : q # "Comment" /\ q # "Hollerith" /\ q # "Code"
  BY QuoteFacts
<1> DEFINE Fine(j) == mu[j] = mu[i] \/ (mu[i] = "Code" /\ mu[j] = "Comment")
           l == Len(s) - i
           S == {k \in 0..l : Fine(i + k)}
<1>4. l \in Nat
  BY <1>1
<1>5. 0 \in S
  <2>1. i + 0 = i /\ 0 \in 0..l
    BY <1>1
  <2> QED BY <2>1
<1>6. ASSUME NEW j \in (i + 1)..Len(s), Fine(j - 1)
      PROVE  Fine(j) /\ (mu[i] \in Quotes => s[j] = Blank)
  <2>1. j \in 1..Len(s) /\ mu[j] = After(mu[j - 1], s[j], Named(s, j))
    <3>1. j \in 1..Len(s)
      BY <1>1
    <3> QED BY <3>1 DEF IsRun
  <2>2. CASE mu[j] # "Comment"
    <3>1. s[j] = Blank /\ s[j] \in {Blank, Amp}
      BY <1>2, <2>2
    <3>2. mu[j - 1] # "Comment"
      <4>1. j - 1 \in 0..Len(s) /\ j \in (j - 1)..Len(s)
        BY <2>1
      <4> QED BY <2>2, <4>1, CommentStays
    <3>3. mu[j - 1] = mu[i] /\ mu[j - 1] # "Hollerith"
      BY <1>1, <1>3, <1>6, <3>2
    <3>4. mu[j] = mu[j - 1]
      BY <2>1, <3>1, <3>3, BlankStep
    <3>5. mu[j] = mu[i]
      BY <3>3, <3>4, Zenon
    <3> QED BY <3>1, <3>5, Zenon
  <2>3. CASE mu[j] = "Comment"
    <3>1. mu[i] = "Code"
      <4>1. SUFFICES ASSUME mu[i] \in Quotes PROVE FALSE
        BY <1>1
      <4>2. mu[j - 1] = mu[i] /\ mu[j - 1] \in Quotes
        BY <1>3, <1>6, <4>1
      <4>3. After(mu[j - 1], s[j], Named(s, j)) \in {"Code", mu[j - 1]}
        BY <1>3, <4>2 DEF After
      <4> QED BY <1>3, <2>1, <2>3, <4>2, <4>3
    <3> QED BY <1>3, <2>3, <3>1
  <2> QED BY <2>2, <2>3
<1>7. ASSUME NEW k \in 0..l, k < l, k \in S PROVE k + 1 \in S
  <2>1. PICK j : j = i + (k + 1)
    OBVIOUS
  <2>2. j \in (i + 1)..Len(s) /\ j - 1 = i + k /\ k + 1 \in 0..l
    BY <1>1, <1>7, <2>1
  <2>3. Fine(j - 1)
    BY <1>7, <2>2
  <2>4. Fine(j)
    BY <1>6, <2>2, <2>3, Zenon
  <2> QED BY <2>1, <2>2, <2>4
<1>8. 0..l \subseteq S
  <2> HIDE DEF S, l
  <2> QED BY <1>4, <1>5, <1>7, UpTo
<1>9. ASSUME NEW j \in i..Len(s) PROVE Fine(j)
  <2>1. j - i \in 0..l /\ i + (j - i) = j
    BY <1>1
  <2>2. j - i \in S
    BY <1>8, <2>1
  <2> QED BY <2>1, <2>2
<1>10. ASSUME NEW j \in (i + 1)..Len(s), mu[i] \in Quotes PROVE s[j] = Blank
  <2>1. j - 1 \in i..Len(s)
    BY <1>1
  <2> QED BY <1>6, <1>9, <1>10, <2>1, Zenon
<1> QED BY <1>9, <1>10

\* The state left behind by a line that ends in mode m and is continued.
LexOf(m) == [quote |-> IF m \in Quotes THEN m ELSE NoQuote, hollerith |-> 0]

LEMMA LexOfFacts ==
    /\ LexOf("Code") = Clean /\ LexOf("Comment") = Clean
    /\ \A m \in {"Code"} \cup Quotes :
          Enterable(LexOf(m)) /\ ModeOf(LexOf(m)) = m /\ (InLiteral(LexOf(m)) <=> m \in Quotes)
    /\ \A lex : Enterable(lex) => lex = LexOf(ModeOf(lex)) /\ ModeOf(lex) \in {"Code"} \cup Quotes
<1>0. \A q \in Quotes : q # NoQuote /\ q # "Code" /\ q # "Comment"
  BY QuoteFacts
<1>1. LexOf("Code") = Clean /\ LexOf("Comment") = Clean
  BY <1>0 DEF LexOf, Clean
<1>2. ASSUME NEW m \in {"Code"} \cup Quotes
      PROVE  Enterable(LexOf(m)) /\ ModeOf(LexOf(m)) = m /\ (InLiteral(LexOf(m)) <=> m \in Quotes)
  <2>1. LexOf(m).quote = (IF m \in Quotes THEN m ELSE NoQuote) /\ LexOf(m).hollerith = 0
    BY DEF LexOf
  <2>2. Enterable(LexOf(m))
    BY DEF LexOf, Enterable, LexStates
  <2> QED BY <1>0, <2>1, <2>2 DEF ModeOf, InLiteral
<1>3. ASSUME NEW lex, Enterable(lex)
      PROVE  lex = LexOf(ModeOf(lex)) /\ ModeOf(lex) \in {"Code"} \cup Quotes
  <2>1. lex.quote \in Quotes \cup {NoQuote} /\ lex.hollerith = 0
    BY <1>3 DEF Enterable, LexStates
  <2>2. lex = [quote |-> lex.quote, hollerith |-> 0]
    BY <1>3, <2>1 DEF Enterable, LexStates
  <2>3. ModeOf(lex) = IF lex.quote = NoQuote THEN "Code" ELSE lex.quote
    BY <2>1 DEF ModeOf
  <2>4. (IF ModeOf(lex) \in Quotes THEN ModeOf(lex) ELSE NoQuote) = lex.quote
    BY <1>0, <2>1, <2>3
  <2>5. lex = LexOf(ModeOf(lex))
    BY <2>2, <2>4, Zenon DEF LexOf
  <2> QED BY <2>1, <2>3, <2>5
<1> QED BY <1>1, <1>2, <1>3

LEMMA ContinuedIsMarked ==
    ASSUME NEW mu, NEW m, NEW s, IsRun(mu, m, s), Len(s) \in Nat, DOMAIN s = 1..Len(s), NEW scan,
           ReadBy(scan, mu, s)
    PROVE  Continued(s, scan) <=> Marked(mu, s)
<1>1. \A i \in 1..Len(s) : scan.kinds[i] = Reads(mu, s, i)
  BY DEF ReadBy, KindsSoFar, Reads
<1>2. InLiteral(scan.lex) <=> mu[Len(s)] \in Quotes
  <2>1. scan.lex.quote = IF mu[Len(s)] \in Quotes THEN mu[Len(s)] ELSE NoQuote
    BY DEF ReadBy
  <2> QED BY <2>1, QuoteFacts DEF InLiteral
<1>3. \A q \in Quotes : q # "Comment" /\ q # "Hollerith" /\ q # "Code"
  BY QuoteFacts
<1>4. \A i \in 1..Len(s) : mu[i - 1] \in Modes
  <2>1. \A i \in 1..Len(s) : i - 1 \in 0..Len(s)
    OBVIOUS
  <2> QED BY <2>1 DEF IsRun
<1>5. ASSUME NEW i \in 1..Len(s), s[i] = Amp
      PROVE  /\ Reads(mu, s, i) = "Code" <=> mu[i - 1] = "Code"
             /\ Reads(mu, s, i) = "StringLiteral" <=> mu[i - 1] \in Quotes
  <2>1. Amp \notin Quotes /\ Amp # Bang /\ Amp # Hollerith
    BY DEF Amp, Quotes, Bang, Hollerith
  <2>2. CodeKind(s[i], Named(s, i)) = "Code"
    BY <1>5, <2>1 DEF CodeKind
  <2> QED BY <1>3, <1>4, <2>2 DEF Reads, KindIn, Modes
<1> DEFINE inked == {i \in DOMAIN s : s[i] # Blank /\ scan.kinds[i] # "Comment"}
<1>6. \A i \in 1..Len(s) : i \in inked <=> s[i] # Blank /\ mu[i] # "Comment"
  BY <1>1, CommentStep
<1>7. Continued(s, scan) <=>
         \E i \in inked :
            /\ \A j \in inked : j <= i
            /\ s[i] = Amp
            /\ \/ scan.kinds[i] = "Code"
               \/ scan.kinds[i] = "StringLiteral" /\ InLiteral(scan.lex)
  BY Zenon DEF Continued
<1>8. inked \subseteq 1..Len(s)
  OBVIOUS
<1> HIDE DEF inked
<1>9. ASSUME NEW i \in inked, \A j \in inked : j <= i, s[i] = Amp,
             \/ scan.kinds[i] = "Code"
             \/ scan.kinds[i] = "StringLiteral" /\ InLiteral(scan.lex)
      PROVE  MarkAt(mu, s, i)
  <2>1. i \in 1..Len(s) /\ mu[i - 1] \in {"Code"} \cup Quotes
    BY <1>1, <1>5, <1>8, <1>9
  <2>2. ASSUME NEW j \in (i + 1)..Len(s) PROVE s[j] = Blank \/ mu[j] = "Comment"
    <3>1. j \in 1..Len(s) /\ ~ (j <= i)
      BY <2>1
    <3> QED BY <1>6, <1>9, <3>1
  <2> QED BY <1>9, <2>1, <2>2 DEF MarkAt
<1>10. ASSUME NEW i, MarkAt(mu, s, i)
       PROVE  /\ i \in inked /\ \A j \in inked : j <= i
              /\ s[i] = Amp
              /\ \/ scan.kinds[i] = "Code"
                 \/ scan.kinds[i] = "StringLiteral" /\ InLiteral(scan.lex)
  <2>1. /\ i \in 1..Len(s) /\ s[i] = Amp /\ mu[i - 1] \in {"Code"} \cup Quotes
        /\ \A j \in (i + 1)..Len(s) : s[j] = Blank \/ mu[j] = "Comment"
    BY <1>10 DEF MarkAt
  <2>2. mu[i] = mu[i - 1]
    BY <1>10, MarkKeeps
  <2>3. i \in inked
    <3>1. s[i] # Blank
      BY <2>1 DEF Amp, Blank
    <3> QED BY <1>3, <1>6, <2>1, <2>2, <3>1
  <2>4. \A j \in inked : j <= i
    <3>1. ASSUME NEW j \in inked PROVE j <= i
      <4>1. j \in 1..Len(s)
        BY <1>8
      <4>2. s[j] # Blank /\ mu[j] # "Comment"
        BY <1>6, <4>1
      <4> QED BY <2>1, <4>1, <4>2
    <3> QED BY <3>1
  <2>5. CASE mu[i - 1] = "Code"
    BY <1>1, <1>5, <2>1, <2>3, <2>4, <2>5
  <2>6. CASE mu[i - 1] \in Quotes
    <3>1. mu[Len(s)] = mu[i]
      <4>1. Len(s) \in i..Len(s) /\ mu[i] # "Code"
        BY <1>3, <2>1, <2>2, <2>6
      <4> QED BY <1>10, <4>1, MarkTail
    <3>2. InLiteral(scan.lex)
      BY <1>2, <2>2, <2>6, <3>1
    <3> QED BY <1>1, <1>5, <2>1, <2>3, <2>4, <2>6, <3>2
  <2> QED BY <2>1, <2>5, <2>6
<1>11. (\E i \in inked :
            /\ \A j \in inked : j <= i
            /\ s[i] = Amp
            /\ \/ scan.kinds[i] = "Code"
               \/ scan.kinds[i] = "StringLiteral" /\ InLiteral(scan.lex))
       <=> \E i : MarkAt(mu, s, i)
  BY <1>9, <1>10, Zenon
<1> QED BY <1>7, <1>11, Zenon DEF Marked
-----------------------------------------------------------------------------
(* What a scanned line says *)

LineReads(line, mu, s) ==
    /\ KindsSoFar(line.kinds, mu, s, Len(s))
    /\ CommentSoFar(line.comment, mu, Len(s))
    /\ line.continued \in BOOLEAN /\ (line.continued <=> Marked(mu, s))
    /\ line.lex = LexOf(IF Marked(mu, s) THEN mu[Len(s)] ELSE "Code")

LEMMA ScanLineReads ==
    ASSUME NEW lex, Enterable(lex), NEW s, Len(s) \in Nat, DOMAIN s = 1..Len(s)
    PROVE  /\ IsRun(Run(ModeOf(lex), s), ModeOf(lex), s)
           /\ LineReads(ScanLine(lex, s), Run(ModeOf(lex), s), s)
           /\ Enterable(ScanLine(lex, s).lex)
<1> DEFINE mu == Run(ModeOf(lex), s)
           scan == Scan(lex, s)
           line == ScanLine(lex, s)
<1>1. IsRun(mu, ModeOf(lex), s) /\ ReadBy(scan, mu, s)
  BY ScanReads
<1>2. Continued(s, scan) <=> Marked(mu, s)
  <2> HIDE DEF mu, scan
  <2> QED BY <1>1, ContinuedIsMarked
<1>3. /\ line.kinds = scan.kinds /\ line.comment = scan.comment
      /\ line.continued = Continued(s, scan)
      /\ line.lex = IF Continued(s, scan) THEN scan.lex ELSE Clean
  BY DEF ScanLine
<1>4. Continued(s, scan) \in BOOLEAN
  BY DEF Continued
<1>5. Marked(mu, s) => /\ mu[Len(s)] # "Hollerith"
                       /\ mu[Len(s)] \in {"Code", "Comment"} \cup Quotes
  <2> HIDE DEF mu
  <2>1. ASSUME NEW i, MarkAt(mu, s, i)
        PROVE  mu[Len(s)] # "Hollerith" /\ mu[Len(s)] \in {"Code", "Comment"} \cup Quotes
    <3>1. mu[i] \in {"Code"} \cup Quotes /\ Len(s) \in i..Len(s)
      BY <1>1, <2>1, MarkKeeps
    <3>2. mu[Len(s)] = mu[i] \/ (mu[i] = "Code" /\ mu[Len(s)] = "Comment")
      BY <1>1, <2>1, <3>1, MarkTail
    <3> QED BY <3>1, <3>2, QuoteFacts
  <2> QED BY <2>1 DEF Marked
<1>6. Marked(mu, s) => scan.lex = LexOf(mu[Len(s)])
  <2>1. scan.lex = [quote     |-> IF mu[Len(s)] \in Quotes THEN mu[Len(s)] ELSE NoQuote,
                    hollerith |-> IF mu[Len(s)] = "Hollerith" THEN 1 ELSE 0]
    BY <1>1, Zenon DEF ReadBy
  <2> HIDE DEF mu, scan
  <2> QED BY <1>5, <2>1 DEF LexOf
<1>7. line.lex = LexOf(IF Marked(mu, s) THEN mu[Len(s)] ELSE "Code")
  <2> HIDE DEF mu, scan, line
  <2> QED BY <1>2, <1>3, <1>6, LexOfFacts
<1>8. Enterable(line.lex)
  <2> HIDE DEF mu, scan, line
  <2>1. CASE Marked(mu, s) /\ mu[Len(s)] \in {"Code"} \cup Quotes
    BY <1>7, <2>1, LexOfFacts
  <2>2. CASE Marked(mu, s) /\ mu[Len(s)] = "Comment"
    <3>1. line.lex = LexOf("Code")
      BY <1>7, <2>2, LexOfFacts
    <3> QED BY <3>1, LexOfFacts
  <2>3. CASE ~Marked(mu, s)
    <3>1. line.lex = LexOf("Code")
      BY <1>7, <2>3
    <3> QED BY <3>1, LexOfFacts
  <2> QED BY <1>5, <2>1, <2>2, <2>3
<1>9. LineReads(line, mu, s)
  <2>1. KindsSoFar(line.kinds, mu, s, Len(s)) /\ CommentSoFar(line.comment, mu, Len(s))
    BY <1>1, <1>3, Zenon DEF ReadBy
  <2>2. line.continued \in BOOLEAN
    BY <1>3, <1>4, Zenon
  <2>3. line.continued <=> Marked(mu, s)
    BY <1>2, <1>3, Zenon
  <2> HIDE DEF mu, scan, line
  <2> QED BY <1>7, <2>1, <2>2, <2>3, Zenon DEF LineReads
<1> QED BY <1>1, <1>8, <1>9

\* A comment has one first byte.
LEMMA CommentOnce ==
    ASSUME NEW mu, NEW n \in Nat, NEW c, NEW d, CommentSoFar(c, mu, n), CommentSoFar(d, mu, n)
    PROVE  c = d
<1>1. CASE c = 0
  <2>1. \A i \in 0..n : mu[i] # "Comment"
    BY <1>1 DEF CommentSoFar
  <2>2. ~ (d \in 1..n)
    <3>1. SUFFICES ASSUME d \in 1..n PROVE FALSE
      OBVIOUS
    <3>2. mu[d] = "Comment"
      BY <3>1 DEF CommentSoFar
    <3>3. d \in 0..n
      BY <3>1
    <3> QED BY <2>1, <3>2, <3>3
  <2> QED BY <1>1, <2>2 DEF CommentSoFar
<1>2. CASE d = 0
  <2>1. \A i \in 0..n : mu[i] # "Comment"
    BY <1>2 DEF CommentSoFar
  <2>2. ~ (c \in 1..n)
    <3>1. SUFFICES ASSUME c \in 1..n PROVE FALSE
      OBVIOUS
    <3>2. mu[c] = "Comment"
      BY <3>1 DEF CommentSoFar
    <3>3. c \in 0..n
      BY <3>1
    <3> QED BY <2>1, <3>2, <3>3
  <2> QED BY <1>2, <2>2 DEF CommentSoFar
<1>3. CASE c # 0 /\ d # 0
  <2>1. /\ c \in 1..n /\ mu[c - 1] # "Comment" /\ \A i \in c..n : mu[i] = "Comment"
        /\ d \in 1..n /\ mu[d - 1] # "Comment" /\ \A i \in d..n : mu[i] = "Comment"
    BY <1>3 DEF CommentSoFar
  <2>2. ~ (c < d)
    <3>1. SUFFICES ASSUME c < d PROVE FALSE
      OBVIOUS
    <3>2. d - 1 \in c..n
      BY <2>1, <3>1
    <3> QED BY <2>1, <3>2
  <2>3. ~ (d < c)
    <3>1. SUFFICES ASSUME d < c PROVE FALSE
      OBVIOUS
    <3>2. c - 1 \in d..n
      BY <2>1, <3>1
    <3> QED BY <2>1, <3>2
  <2> QED BY <2>1, <2>2, <2>3
<1> QED BY <1>1, <1>2, <1>3

-----------------------------------------------------------------------------
(* Pieces of a line, and where its ink is *)

LEMMA FromFacts ==
    ASSUME NEW s \in Seq(Bytes), NEW i \in 1..Len(s) + 1
    PROVE  /\ From(s, i) \in Seq(Bytes) /\ Len(From(s, i)) = Len(s) - i + 1
           /\ \A j \in 1..Len(s) - i + 1 : From(s, i)[j] = s[(i - 1) + j]
           /\ DOMAIN From(s, i) = 1..Len(From(s, i))
BY DEF From

LEMMA BehindFacts ==
    ASSUME NEW s \in Seq(Bytes), NEW k \in 0..Len(s)
    PROVE  /\ From(s, k + 1) \in Seq(Bytes) /\ Len(From(s, k + 1)) = Len(s) - k
           /\ \A j \in 1..(Len(s) - k) : From(s, k + 1)[j] = s[k + j]
           /\ DOMAIN From(s, k + 1) = 1..(Len(s) - k)
BY DEF From

LEMMA HeadFacts ==
    ASSUME NEW s \in Seq(Bytes), NEW k \in 0..Len(s)
    PROVE  /\ SubSeq(s, 1, k) \in Seq(Bytes) /\ Len(SubSeq(s, 1, k)) = k
           /\ \A j \in 1..k : SubSeq(s, 1, k)[j] = s[j]
           /\ DOMAIN SubSeq(s, 1, k) = 1..k
OBVIOUS

FirstAt(s, i) == /\ i \in 1..Len(s) + 1 /\ \A j \in 1..(i - 1) : s[j] = Blank
                 /\ i <= Len(s) => s[i] # Blank

LEMMA FirstExists ==
    ASSUME NEW s, Len(s) \in Nat
    PROVE  \E i : FirstAt(s, i)
<1> DEFINE S == {n \in 0..Len(s) : (\A j \in 1..n : s[j] = Blank) \/ \E i : FirstAt(s, i)}
<1>1. 0 \in S
  OBVIOUS
<1>2. ASSUME NEW n \in 0..Len(s), n < Len(s), n \in S PROVE n + 1 \in S
  <2>1. n + 1 \in 0..Len(s)
    BY <1>2
  <2>2. CASE (\A j \in 1..n : s[j] = Blank) /\ s[n + 1] = Blank
    <3>1. \A j \in 1..(n + 1) : j \in 1..n \/ j = n + 1
      OBVIOUS
    <3> QED BY <2>1, <2>2, <3>1
  <2>3. CASE (\A j \in 1..n : s[j] = Blank) /\ s[n + 1] # Blank
    <3>1. FirstAt(s, n + 1)
      BY <1>2, <2>3 DEF FirstAt
    <3> QED BY <2>1, <3>1
  <2>4. CASE \E i : FirstAt(s, i)
    BY <2>1, <2>4
  <2> QED BY <1>2, <2>2, <2>3, <2>4
<1>3. 0..Len(s) \subseteq S
  <2> HIDE DEF S
  <2> QED BY <1>1, <1>2, UpTo
<1>4. Len(s) \in S
  BY <1>3
<1>5. CASE \A j \in 1..Len(s) : s[j] = Blank
  <2>1. FirstAt(s, Len(s) + 1)
    BY <1>5 DEF FirstAt
  <2> QED BY <2>1
<1> QED BY <1>4, <1>5

LEMMA FirstOnce ==
    ASSUME NEW s, Len(s) \in Nat, NEW i, NEW j, FirstAt(s, i), FirstAt(s, j)
    PROVE  i = j
<1>1. i \in 1..Len(s) + 1 /\ j \in 1..Len(s) + 1
  BY DEF FirstAt
<1>2. ~ (i < j)
  <2>1. SUFFICES ASSUME i < j PROVE FALSE
    OBVIOUS
  <2>2. i \in 1..(j - 1) /\ i <= Len(s)
    BY <1>1, <2>1
  <2> QED BY <2>2 DEF FirstAt
<1>3. ~ (j < i)
  <2>1. SUFFICES ASSUME j < i PROVE FALSE
    OBVIOUS
  <2>2. j \in 1..(i - 1) /\ j <= Len(s)
    BY <1>1, <2>1
  <2> QED BY <2>2 DEF FirstAt
<1> QED BY <1>1, <1>2, <1>3

LEMMA FirstInkIs ==
    ASSUME NEW s, Len(s) \in Nat, DOMAIN s = 1..Len(s)
    PROVE  FirstAt(s, FirstInk(s))
<1>1. PICK i : FirstAt(s, i)
  BY FirstExists
<1>2. CASE \E k \in DOMAIN s : s[k] # Blank
  <2>1. PICK k \in 1..Len(s) : s[k] # Blank
    BY <1>2
  <2>2. i <= Len(s)
    <3>1. SUFFICES ASSUME ~ (i <= Len(s)) PROVE FALSE
      OBVIOUS
    <3>2. k \in 1..(i - 1)
      BY <1>1, <3>1 DEF FirstAt
    <3> QED BY <1>1, <2>1, <3>2 DEF FirstAt
  <2>3. i \in DOMAIN s /\ s[i] # Blank /\ \A j \in 1..(i-1) : s[j] = Blank
    BY <1>1, <2>2 DEF FirstAt
  <2>4. FirstInk(s) = CHOOSE v \in DOMAIN s : s[v] # Blank /\ \A j \in 1..(v-1) : s[j] = Blank
    BY <1>2, Zenon DEF FirstInk
  <2>5. PICK f : f = FirstInk(s)
    OBVIOUS
  <2>6. f \in DOMAIN s /\ s[f] # Blank /\ \A j \in 1..(f-1) : s[j] = Blank
    BY <2>3, <2>4, <2>5, Zenon
  <2>7. FirstAt(s, f)
    BY <2>6 DEF FirstAt
  <2> QED BY <2>5, <2>7
<1>3. CASE ~ \E k \in DOMAIN s : s[k] # Blank
  <2>1. FirstInk(s) = Len(s) + 1
    BY <1>3, Zenon DEF FirstInk
  <2>2. FirstAt(s, Len(s) + 1)
    BY <1>3 DEF FirstAt
  <2> QED BY <2>1, <2>2
<1> QED BY <1>2, <1>3

LastAt(s, i) == /\ i \in 0..Len(s) /\ \A j \in (i + 1)..Len(s) : s[j] = Blank
                /\ i > 0 => s[i] # Blank

LEMMA LastExists ==
    ASSUME NEW s, Len(s) \in Nat
    PROVE  \E i : LastAt(s, i)
<1> DEFINE L == Len(s)
           S == {n \in 0..L : (\A j \in (L - n + 1)..L : s[j] = Blank) \/ \E i : LastAt(s, i)}
<1>1. 0 \in S
  OBVIOUS
<1>2. ASSUME NEW n \in 0..L, n < L, n \in S PROVE n + 1 \in S
  <2>1. n + 1 \in 0..L
    BY <1>2
  <2>2. CASE (\A j \in (L - n + 1)..L : s[j] = Blank) /\ s[L - n] = Blank
    <3>1. \A j \in (L - (n + 1) + 1)..L : j \in (L - n + 1)..L \/ j = L - n
      BY <1>2
    <3> QED BY <2>1, <2>2, <3>1
  <2>3. CASE (\A j \in (L - n + 1)..L : s[j] = Blank) /\ s[L - n] # Blank
    <3>1. LastAt(s, L - n)
      BY <1>2, <2>3 DEF LastAt
    <3> QED BY <2>1, <3>1
  <2>4. CASE \E i : LastAt(s, i)
    BY <2>1, <2>4
  <2> QED BY <1>2, <2>2, <2>3, <2>4
<1>3. 0..L \subseteq S
  <2> HIDE DEF S
  <2> QED BY <1>1, <1>2, UpTo
<1>4. L \in S
  BY <1>3
<1>5. CASE \A j \in (L - L + 1)..L : s[j] = Blank
  <2>1. LastAt(s, 0)
    BY <1>5 DEF LastAt
  <2> QED BY <2>1
<1> QED BY <1>4, <1>5

LEMMA LastOnce ==
    ASSUME NEW s, Len(s) \in Nat, NEW i, NEW j, LastAt(s, i), LastAt(s, j)
    PROVE  i = j
<1>1. i \in 0..Len(s) /\ j \in 0..Len(s)
  BY DEF LastAt
<1>2. ~ (i < j)
  <2>1. SUFFICES ASSUME i < j PROVE FALSE
    OBVIOUS
  <2>2. j \in (i + 1)..Len(s) /\ j > 0
    BY <1>1, <2>1
  <2> QED BY <2>2 DEF LastAt
<1>3. ~ (j < i)
  <2>1. SUFFICES ASSUME j < i PROVE FALSE
    OBVIOUS
  <2>2. i \in (j + 1)..Len(s) /\ i > 0
    BY <1>1, <2>1
  <2> QED BY <2>2 DEF LastAt
<1> QED BY <1>1, <1>2, <1>3

LEMMA LastInkIs ==
    ASSUME NEW s, Len(s) \in Nat, DOMAIN s = 1..Len(s)
    PROVE  LastAt(s, LastInk(s))
<1>1. PICK i : LastAt(s, i)
  BY LastExists
<1>2. CASE \E k \in DOMAIN s : s[k] # Blank
  <2>1. PICK k \in 1..Len(s) : s[k] # Blank
    BY <1>2
  <2>2. i > 0
    <3>1. SUFFICES ASSUME ~ (i > 0) PROVE FALSE
      OBVIOUS
    <3>2. k \in (i + 1)..Len(s)
      BY <1>1, <3>1 DEF LastAt
    <3> QED BY <1>1, <2>1, <3>2 DEF LastAt
  <2>3. i \in DOMAIN s /\ s[i] # Blank /\ \A j \in (i+1)..Len(s) : s[j] = Blank
    BY <1>1, <2>2 DEF LastAt
  <2>4. LastInk(s) = CHOOSE v \in DOMAIN s :
                       s[v] # Blank /\ \A j \in (v+1)..Len(s) : s[j] = Blank
    BY <1>2, Zenon DEF LastInk
  <2>5. PICK f : f = LastInk(s)
    OBVIOUS
  <2>6. f \in DOMAIN s /\ s[f] # Blank /\ \A j \in (f+1)..Len(s) : s[j] = Blank
    BY <2>3, <2>4, <2>5, Zenon
  <2>7. LastAt(s, f)
    BY <2>6 DEF LastAt
  <2> QED BY <2>5, <2>7
<1>3. CASE ~ \E k \in DOMAIN s : s[k] # Blank
  <2>1. LastInk(s) = 0
    BY <1>3, Zenon DEF LastInk
  <2>2. LastAt(s, 0)
    BY <1>3 DEF LastAt
  <2> QED BY <2>1, <2>2
<1> QED BY <1>2, <1>3
-----------------------------------------------------------------------------
(* Blanks around a line *)

\* The line without some blanks before it.
LEMMA SuffixReads ==
    ASSUME NEW s \in Seq(Bytes), NEW k \in 0..Len(s), \A j \in 1..k : s[j] = Blank,
           NEW lex, Enterable(lex), NEW a, NEW b,
           a = ScanLine(lex, s), b = ScanLine(lex, From(s, k + 1))
    PROVE  /\ a.continued = b.continued /\ a.lex = b.lex
           /\ b.comment \in Nat /\ a.comment = (IF b.comment > 0 THEN k + b.comment ELSE 0)
           /\ Len(a.kinds) = Len(s) /\ Len(b.kinds) = Len(s) - k
           /\ \A j \in 1..(Len(s) - k) : a.kinds[k + j] = b.kinds[j]
<1> DEFINE t == From(s, k + 1)
           m == ModeOf(lex)
           mu == Run(m, s)
           nu == Run(m, t)
           l == Len(s) - k
<1>1. /\ t \in Seq(Bytes) /\ Len(t) = l /\ DOMAIN t = 1..Len(t)
      /\ \A j \in 1..l : t[j] = s[k + j]
  BY BehindFacts
<1>2. Len(s) \in Nat /\ DOMAIN s = 1..Len(s) /\ l \in Nat /\ Len(t) \in Nat
  BY <1>1
<1>3. IsRun(mu, m, s) /\ LineReads(a, mu, s)
  BY <1>2, ScanLineReads
<1>4. IsRun(nu, m, t) /\ LineReads(b, nu, t)
  BY <1>1, <1>2, ScanLineReads
<1>5. m \in {"Code"} \cup Quotes /\ m # "Hollerith"
  BY LexOfFacts, QuoteFacts
<1> HIDE DEF t, m, mu, nu
<1>6. mu[k] = m /\ \A j \in 0..k : mu[j] = m
  <2>1. mu[0] = m
    BY <1>3 DEF IsRun
  <2>2. \A j \in (0 + 1)..k : s[j] \in {Blank, Amp}
    OBVIOUS
  <2>3. \A j \in 0..k : mu[j] = mu[0]
    BY <1>2, <1>3, <1>5, <2>1, <2>2, BlanksKeep
  <2> QED BY <2>1, <2>3
<1>7. nu[0] = m
  BY <1>4 DEF IsRun
<1>8. l > 0 => SameHead(mu[k], s[k + 1], Named(s, k + 1), Named(t, 0 + 1))
  <2>1. ~Named(t, 0 + 1)
    BY DEF Named
  <2>2. ~Named(s, k + 1)
    <3>1. CASE k = 0
      BY <3>1 DEF Named
    <3>2. CASE k > 0
      <4>1. s[(k + 1) - 1] = Blank
        BY <3>2
      <4>2. Blank \notin InName
        BY DEF InName, Blank, Name, Hollerith
      <4> QED BY <4>1, <4>2 DEF Named
    <3> QED BY <3>1, <3>2
  <2> QED BY <2>1, <2>2 DEF SameHead
<1>9. /\ \A j \in 0..l : mu[k + j] = nu[0 + j]
      /\ \A j \in 1..l : Reads(mu, s, k + j) = Reads(nu, t, 0 + j)
  <2>1. k \in Nat /\ 0 \in Nat /\ k + l <= Len(s) /\ 0 + l <= Len(t)
        /\ \A j \in 1..l : s[k + j] = t[0 + j]
    BY <1>1
  <2>2. mu[k] = nu[0]
    BY <1>6, <1>7
  <2> HIDE DEF l
  <2>3. Alike(s, mu, k, t, nu, 0, l)
    <3>1. (\E x : IsRun(mu, x, s)) /\ (\E x : IsRun(nu, x, t)) /\ Len(s) \in Nat /\ Len(t) \in Nat
      BY <1>2, <1>3, <1>4, Zenon
    <3>2. l \in Nat
      BY <1>2
    <3> QED BY <1>8, <2>1, <2>2, <3>1, <3>2, Zenon DEF Alike
  <2>4. Agree(s, mu, k, t, nu, 0, l)
    BY <2>3, RunsAgree, Zenon
  <2> QED BY <2>4, Zenon DEF Agree
<1>10. /\ \A j \in 0..l : mu[k + j] = nu[j]
       /\ \A j \in 1..l : Reads(mu, s, k + j) = Reads(nu, t, j)
  BY <1>9
<1>11. ASSUME NEW i, MarkAt(mu, s, i) PROVE Marked(nu, t)
  <2>1. /\ i \in 1..Len(s) /\ s[i] = Amp /\ mu[i - 1] \in {"Code"} \cup Quotes
        /\ \A j \in (i + 1)..Len(s) : s[j] = Blank \/ mu[j] = "Comment"
    BY <1>11 DEF MarkAt
  <2>2. i > k
    <3>1. Amp # Blank
      BY DEF Amp, Blank
    <3> QED BY <2>1, <3>1
  <2>3. PICK j : j = i - k
    OBVIOUS
  <2>4. j \in 1..l /\ i = k + j /\ j - 1 \in 0..l /\ i - 1 = k + (j - 1)
    BY <2>1, <2>2, <2>3
  <2>5. t[j] = Amp /\ nu[j - 1] \in {"Code"} \cup Quotes
    BY <1>1, <1>10, <2>1, <2>4
  <2>6. ASSUME NEW h \in (j + 1)..Len(t) PROVE t[h] = Blank \/ nu[h] = "Comment"
    <3>1. k + h \in (i + 1)..Len(s) /\ h \in 1..l /\ h \in 0..l
      BY <1>1, <2>4
    <3> QED BY <1>1, <1>10, <2>1, <3>1
  <2>7. MarkAt(nu, t, j)
    BY <1>1, <2>4, <2>5, <2>6 DEF MarkAt
  <2> QED BY <2>7 DEF Marked
<1>12. ASSUME NEW j, MarkAt(nu, t, j) PROVE Marked(mu, s)
  <2>1. /\ j \in 1..l /\ t[j] = Amp /\ nu[j - 1] \in {"Code"} \cup Quotes
        /\ \A h \in (j + 1)..l : t[h] = Blank \/ nu[h] = "Comment"
    BY <1>1, <1>12 DEF MarkAt
  <2>2. PICK i : i = k + j
    OBVIOUS
  <2>3. i \in 1..Len(s) /\ j - 1 \in 0..l /\ i - 1 = k + (j - 1)
    BY <2>1, <2>2
  <2>4. s[i] = Amp /\ mu[i - 1] \in {"Code"} \cup Quotes
    BY <1>1, <1>10, <2>1, <2>2, <2>3
  <2>5. ASSUME NEW x \in (i + 1)..Len(s) PROVE s[x] = Blank \/ mu[x] = "Comment"
    <3>1. PICK h : h = x - k
      OBVIOUS
    <3>2. h \in (j + 1)..l /\ h \in 1..l /\ h \in 0..l /\ x = k + h
      BY <2>1, <2>2, <3>1
    <3> QED BY <1>1, <1>10, <2>1, <3>2
  <2>6. MarkAt(mu, s, i)
    BY <2>3, <2>4, <2>5 DEF MarkAt
  <2> QED BY <2>6 DEF Marked
<1>13. Marked(mu, s) <=> Marked(nu, t)
  BY <1>11, <1>12, Zenon DEF Marked
<1>14. a.continued = b.continued
  <2>1. /\ a.continued \in BOOLEAN /\ b.continued \in BOOLEAN
        /\ a.continued <=> Marked(mu, s)
        /\ b.continued <=> Marked(nu, t)
    BY <1>3, <1>4 DEF LineReads
  <2> QED BY <1>13, <2>1
<1>15. a.lex = b.lex
  <2>1. mu[Len(s)] = nu[Len(t)]
    <3>1. l \in 0..l /\ k + l = Len(s)
      BY <1>2
    <3> QED BY <1>1, <1>10, <3>1
  <2>2. /\ a.lex = LexOf(IF Marked(mu, s) THEN mu[Len(s)] ELSE "Code")
        /\ b.lex = LexOf(IF Marked(nu, t) THEN nu[Len(t)] ELSE "Code")
    BY <1>3, <1>4 DEF LineReads
  <2> QED BY <1>13, <2>1, <2>2
<1>16. /\ Len(a.kinds) = Len(s) /\ Len(b.kinds) = l
       /\ \A j \in 1..l : a.kinds[k + j] = b.kinds[j]
  <2>1. /\ Len(a.kinds) = Len(s) /\ \A i \in 1..Len(s) : a.kinds[i] = Reads(mu, s, i)
        /\ Len(b.kinds) = l /\ \A i \in 1..l : b.kinds[i] = Reads(nu, t, i)
    BY <1>1, <1>3, <1>4 DEF LineReads, KindsSoFar, Reads
  <2>2. \A j \in 1..l : k + j \in 1..Len(s)
    OBVIOUS
  <2> QED BY <1>10, <2>1, <2>2
<1>17. b.comment \in Nat /\ a.comment = (IF b.comment > 0 THEN k + b.comment ELSE 0)
  <2>1. CommentSoFar(a.comment, mu, Len(s)) /\ CommentSoFar(b.comment, nu, l)
    BY <1>1, <1>3, <1>4 DEF LineReads
  <2>2. PICK d : d = b.comment
    OBVIOUS
  <2>3. m # "Comment"
    BY <1>5, QuoteFacts
  <2>4. CASE d = 0
    <3>1. \A i \in 0..l : nu[i] # "Comment"
      BY <2>1, <2>2, <2>4 DEF CommentSoFar
    <3>2. ASSUME NEW i \in 0..Len(s) PROVE mu[i] # "Comment"
      <4>1. i \in 0..k \/ (i - k \in 0..l /\ k + (i - k) = i)
        OBVIOUS
      <4> QED BY <1>6, <1>10, <2>3, <3>1, <4>1
    <3>3. CommentSoFar(0, mu, Len(s))
      BY <3>2 DEF CommentSoFar
    <3>4. a.comment = 0
      BY <1>2, <2>1, <3>3, CommentOnce
    <3> QED BY <2>2, <2>4, <3>4
  <2>5. CASE d # 0
    <3>1. d \in 1..l /\ nu[d - 1] # "Comment" /\ \A i \in d..l : nu[i] = "Comment"
      BY <2>1, <2>2, <2>5 DEF CommentSoFar
    <3>2. PICK c : c = k + d
      OBVIOUS
    <3>3. c \in 1..Len(s) /\ c - 1 = k + (d - 1) /\ d - 1 \in 0..l
      BY <3>1, <3>2
    <3>4. mu[c - 1] # "Comment"
      BY <1>10, <3>1, <3>3
    <3>5. ASSUME NEW i \in c..Len(s) PROVE mu[i] = "Comment"
      <4>1. i - k \in d..l /\ i - k \in 0..l /\ k + (i - k) = i
        BY <3>1, <3>2
      <4> QED BY <1>10, <3>1, <4>1
    <3>6. CommentSoFar(c, mu, Len(s))
      BY <3>3, <3>4, <3>5 DEF CommentSoFar
    <3>7. a.comment = c
      BY <1>2, <2>1, <3>6, CommentOnce
    <3> QED BY <2>2, <3>1, <3>2, <3>7
  <2> QED BY <2>4, <2>5
<1> QED BY <1>14, <1>15, <1>16, <1>17

\* The line without some blanks after it.
LEMMA HeadReads ==
    ASSUME NEW s \in Seq(Bytes), NEW k \in 0..Len(s), \A j \in (k + 1)..Len(s) : s[j] = Blank,
           NEW lex, Enterable(lex), NEW a, NEW b,
           a = ScanLine(lex, s), b = ScanLine(lex, SubSeq(s, 1, k))
    PROVE  a.continued = b.continued /\ a.lex = b.lex /\ a.comment = b.comment
<1> DEFINE t == SubSeq(s, 1, k)
           m == ModeOf(lex)
           mu == Run(m, s)
           nu == Run(m, t)
<1>1. /\ t \in Seq(Bytes) /\ Len(t) = k /\ DOMAIN t = 1..Len(t)
      /\ \A j \in 1..k : t[j] = s[j]
  BY HeadFacts
<1>2. Len(s) \in Nat /\ DOMAIN s = 1..Len(s) /\ k \in Nat /\ Len(t) \in Nat
  BY <1>1
<1>3. IsRun(mu, m, s) /\ LineReads(a, mu, s)
  BY <1>2, ScanLineReads
<1>4. IsRun(nu, m, t) /\ LineReads(b, nu, t)
  BY <1>1, <1>2, ScanLineReads
<1> HIDE DEF t, m, mu, nu
<1>5. mu[0] = m /\ nu[0] = m
  BY <1>3, <1>4 DEF IsRun
<1>6. k > 0 => SameHead(mu[0], s[0 + 1], Named(s, 0 + 1), Named(t, 0 + 1))
  BY DEF Named, SameHead
<1>7. \A j \in 0..k : mu[0 + j] = nu[0 + j]
  <2>1. 0 \in Nat /\ 0 + k <= Len(s) /\ 0 + k <= Len(t) /\ \A j \in 1..k : s[0 + j] = t[0 + j]
    BY <1>1
  <2>2. mu[0] = nu[0]
    BY <1>5
  <2>3. Alike(s, mu, 0, t, nu, 0, k)
    <3>1. (\E x : IsRun(mu, x, s)) /\ (\E x : IsRun(nu, x, t)) /\ Len(s) \in Nat /\ Len(t) \in Nat
      BY <1>2, <1>3, <1>4, Zenon
    <3> QED BY <1>2, <1>6, <2>1, <2>2, <3>1, Zenon DEF Alike
  <2>4. Agree(s, mu, 0, t, nu, 0, k)
    BY <2>3, RunsAgree, Zenon
  <2> QED BY <2>4, Zenon DEF Agree
<1>8. \A j \in 0..k : mu[j] = nu[j]
  BY <1>7
<1>9. ASSUME NEW i, MarkAt(mu, s, i) PROVE MarkAt(nu, t, i)
  <2>1. /\ i \in 1..Len(s) /\ s[i] = Amp /\ mu[i - 1] \in {"Code"} \cup Quotes
        /\ \A j \in (i + 1)..Len(s) : s[j] = Blank \/ mu[j] = "Comment"
    BY <1>9 DEF MarkAt
  <2>2. i <= k
    <3>1. Amp # Blank
      BY DEF Amp, Blank
    <3> QED BY <2>1, <3>1
  <2>3. i \in 1..k /\ i - 1 \in 0..k
    BY <2>1, <2>2
  <2>4. \A j \in (i + 1)..k : j \in (i + 1)..Len(s) /\ j \in 1..k /\ j \in 0..k
    BY <2>3
  <2> QED BY <1>1, <1>8, <2>1, <2>3, <2>4 DEF MarkAt
<1>10. ASSUME NEW i, MarkAt(nu, t, i) PROVE MarkAt(mu, s, i)
  <2>1. /\ i \in 1..k /\ t[i] = Amp /\ nu[i - 1] \in {"Code"} \cup Quotes
        /\ \A j \in (i + 1)..k : t[j] = Blank \/ nu[j] = "Comment"
    BY <1>1, <1>10 DEF MarkAt
  <2>2. i - 1 \in 0..k /\ i \in 1..Len(s)
    BY <2>1
  <2>3. \A j \in (i + 1)..Len(s) : j \in (k + 1)..Len(s) \/ (j \in (i + 1)..k /\ j \in 1..k /\ j \in 0..k)
    BY <2>1
  <2> QED BY <1>1, <1>8, <2>1, <2>2, <2>3 DEF MarkAt
<1>11. Marked(mu, s) <=> Marked(nu, t)
  BY <1>9, <1>10, Zenon DEF Marked
<1>12. a.continued = b.continued
  <2>1. /\ a.continued \in BOOLEAN /\ b.continued \in BOOLEAN
        /\ a.continued <=> Marked(mu, s)
        /\ b.continued <=> Marked(nu, t)
    BY <1>3, <1>4 DEF LineReads
  <2> QED BY <1>11, <2>1
<1>13. \A j \in (k + 1)..Len(s) : s[j] \in {Blank, Amp}
  OBVIOUS
<1>14. a.lex = b.lex
  <2>1. Marked(mu, s) => mu[Len(s)] = nu[Len(t)]
    <3>1. ASSUME NEW i, MarkAt(mu, s, i) PROVE mu[Len(s)] = mu[k]
      <4>1. MarkAt(nu, t, i)
        BY <1>9, <3>1
      <4>2. k \in i..Len(s) /\ mu[i] \in {"Code"} \cup Quotes
        <5>1. i \in 1..k
          BY <1>1, <4>1 DEF MarkAt
        <5> QED BY <1>2, <1>3, <3>1, <5>1, MarkKeeps
      <4>3. mu[k] # "Hollerith"
        <5>1. mu[k] = mu[i] \/ (mu[i] = "Code" /\ mu[k] = "Comment")
          BY <1>2, <1>3, <3>1, <4>2, MarkTail
        <5> QED BY <4>2, <5>1, QuoteFacts
      <4>4. \A j \in k..Len(s) : mu[j] = mu[k]
        BY <1>2, <1>3, <1>13, <4>3, BlanksKeep
      <4> QED BY <1>2, <4>4
    <3>2. k \in 0..k
      BY <1>2
    <3> QED BY <1>1, <1>8, <3>1, <3>2 DEF Marked
  <2>2. /\ a.lex = LexOf(IF Marked(mu, s) THEN mu[Len(s)] ELSE "Code")
        /\ b.lex = LexOf(IF Marked(nu, t) THEN nu[Len(t)] ELSE "Code")
    BY <1>3, <1>4 DEF LineReads
  <2> QED BY <1>11, <2>1, <2>2
<1>15. a.comment = b.comment
  <2>1. CommentSoFar(a.comment, mu, Len(s)) /\ CommentSoFar(b.comment, nu, k)
    BY <1>1, <1>3, <1>4 DEF LineReads
  <2>2. PICK c : c = a.comment
    OBVIOUS
  <2>3. CASE c = 0
    <3>1. \A i \in 0..Len(s) : mu[i] # "Comment"
      BY <2>1, <2>2, <2>3 DEF CommentSoFar
    <3>2. CommentSoFar(0, nu, k)
      BY <1>8, <3>1 DEF CommentSoFar
    <3> QED BY <1>2, <2>1, <2>2, <2>3, <3>2, CommentOnce
  <2>4. CASE c # 0
    <3>1. c \in 1..Len(s) /\ mu[c - 1] # "Comment" /\ \A i \in c..Len(s) : mu[i] = "Comment"
      BY <2>1, <2>2, <2>4 DEF CommentSoFar
    <3>2. c <= k
      <4>1. SUFFICES ASSUME c > k PROVE FALSE
        BY <3>1
      <4>2. s[c] = Blank /\ s[c] \in {Blank, Amp} /\ mu[c] = "Comment"
        BY <3>1, <4>1
      <4>3. mu[c] = After(mu[c - 1], s[c], Named(s, c))
        BY <1>3, <3>1 DEF IsRun
      <4>4. mu[c - 1] # "Hollerith"
        BY <4>2, <4>3 DEF After
      <4>5. mu[c] = mu[c - 1]
        BY <1>2, <1>3, <3>1, <4>2, <4>4, BlankStep
      <4> QED BY <3>1, <4>2, <4>5
    <3>3. c \in 1..k /\ c - 1 \in 0..k /\ \A i \in c..k : i \in c..Len(s) /\ i \in 0..k
      BY <3>1, <3>2
    <3>4. CommentSoFar(c, nu, k)
      BY <1>8, <3>1, <3>3 DEF CommentSoFar
    <3> QED BY <1>2, <2>1, <2>2, <3>4, CommentOnce
  <2> QED BY <2>3, <2>4
<1> QED BY <1>12, <1>14, <1>15
-----------------------------------------------------------------------------
(* The shape of a line *)

LEMMA InkType ==
    ASSUME NEW s \in Seq(Bytes)
    PROVE  /\ Len(s) \in Nat /\ DOMAIN s = 1..Len(s)
           /\ FirstInk(s) \in 1..Len(s) + 1 /\ LastInk(s) \in 0..Len(s)
           /\ \A j \in 1..(FirstInk(s) - 1) : s[j] = Blank
           /\ FirstInk(s) <= Len(s) => s[FirstInk(s)] # Blank
           /\ \A j \in (LastInk(s) + 1)..Len(s) : s[j] = Blank
           /\ LastInk(s) > 0 => s[LastInk(s)] # Blank
<1>1. Len(s) \in Nat /\ DOMAIN s = 1..Len(s)
  OBVIOUS
<1>2. FirstAt(s, FirstInk(s)) /\ LastAt(s, LastInk(s))
  BY <1>1, FirstInkIs, LastInkIs
<1> QED BY <1>1, <1>2 DEF FirstAt, LastAt

LEMMA FirstInkAt ==
    ASSUME NEW s \in Seq(Bytes), NEW i, FirstAt(s, i)
    PROVE  FirstInk(s) = i
<1>1. Len(s) \in Nat /\ DOMAIN s = 1..Len(s)
  OBVIOUS
<1>2. FirstAt(s, FirstInk(s))
  BY <1>1, FirstInkIs
<1> QED BY <1>1, <1>2, FirstOnce

LEMMA LastInkAt ==
    ASSUME NEW s \in Seq(Bytes), NEW i, LastAt(s, i)
    PROVE  LastInk(s) = i
<1>1. Len(s) \in Nat /\ DOMAIN s = 1..Len(s)
  OBVIOUS
<1>2. LastAt(s, LastInk(s))
  BY <1>1, LastInkIs
<1> QED BY <1>1, <1>2, LastOnce

Prefixes == {"None", "BlankSeparated", "CompactContinuation"}

LEMMA PrefixShape ==
    ASSUME NEW s \in Seq(Bytes)
    PROVE  /\ Prefix(s) \in Prefixes
           /\ Prefix(s) # "None" => /\ FirstInk(s) + 2 <= Len(s)
                                    /\ s[FirstInk(s)] = Bang /\ s[FirstInk(s) + 1] = Dollar
           /\ Prefix(s) = "BlankSeparated" <=>
                 /\ FirstInk(s) + 2 <= Len(s)
                 /\ s[FirstInk(s)] = Bang /\ s[FirstInk(s) + 1] = Dollar
                 /\ s[FirstInk(s) + 2] = Blank
           /\ Prefix(s) = "CompactContinuation" <=>
                 /\ FirstInk(s) + 2 <= Len(s)
                 /\ s[FirstInk(s)] = Bang /\ s[FirstInk(s) + 1] = Dollar
                 /\ s[FirstInk(s) + 2] = Amp
<1>1. FirstInk(s) \in 1..Len(s) + 1 /\ Len(s) \in Nat
  BY InkType
<1>2. PICK at : at = FirstInk(s)
  OBVIOUS
<1>3. Amp # Blank
  BY DEF Amp, Blank
<1>4. Prefix(s) = IF \/ Len(s) < at + 2
                     \/ s[at] # Bang
                     \/ s[at + 1] # Dollar
                  THEN "None"
                  ELSE IF s[at + 2] = Blank THEN "BlankSeparated"
                  ELSE IF s[at + 2] = Amp THEN "CompactContinuation"
                  ELSE "None"
  BY <1>2, Zenon DEF Prefix
<1> QED BY <1>1, <1>2, <1>3, <1>4 DEF Prefixes

\* What is asked about the start of a line is asked behind its blanks.
LEMMA InkSuffix ==
    ASSUME NEW s \in Seq(Bytes), NEW k \in 0..Len(s), \A j \in 1..k : s[j] = Blank,
           NEW t, t = From(s, k + 1)
    PROVE  /\ FirstInk(t) = FirstInk(s) - k
           /\ FirstInk(t) <= Len(t) <=> FirstInk(s) <= Len(s)
           /\ FirstInk(s) <= Len(s) => t[FirstInk(t)] = s[FirstInk(s)]
           /\ Prefix(t) = Prefix(s)
           /\ SteppedOver(t) <=> SteppedOver(s)
           /\ \A b : StartsWith(t, b) <=> StartsWith(s, b)
<1>1. /\ t \in Seq(Bytes) /\ Len(t) = Len(s) - k /\ DOMAIN t = 1..Len(t)
      /\ \A j \in 1..(Len(s) - k) : t[j] = s[k + j]
  BY BehindFacts
<1>2. PICK f : f = FirstInk(s)
  OBVIOUS
<1>3. /\ f \in 1..Len(s) + 1 /\ (\A j \in 1..(f - 1) : s[j] = Blank)
      /\ f <= Len(s) => s[f] # Blank
  BY <1>2, InkType
<1>4. f > k
  <2>1. SUFFICES ASSUME ~ (f > k) PROVE FALSE
    OBVIOUS
  <2>2. f \in 1..k /\ f <= Len(s)
    BY <1>3, <2>1
  <2> QED BY <1>3, <2>2
<1>5. FirstAt(t, f - k)
  <2>1. f - k \in 1..Len(t) + 1
    BY <1>1, <1>3, <1>4
  <2>2. ASSUME NEW j \in 1..((f - k) - 1) PROVE t[j] = Blank
    <3>1. j \in 1..(Len(s) - k) /\ k + j \in 1..(f - 1)
      BY <1>3, <1>4
    <3> QED BY <1>1, <1>3, <3>1
  <2>3. f - k <= Len(t) => t[f - k] # Blank
    <3>1. SUFFICES ASSUME f - k <= Len(t) PROVE t[f - k] # Blank
      OBVIOUS
    <3>2. f - k \in 1..(Len(s) - k) /\ k + (f - k) = f /\ f <= Len(s)
      BY <1>1, <1>3, <1>4, <3>1
    <3> QED BY <1>1, <1>3, <3>2
  <2> QED BY <2>1, <2>2, <2>3 DEF FirstAt
<1>6. PICK g : g = FirstInk(t)
  OBVIOUS
<1>7. g = f - k
  BY <1>1, <1>5, <1>6, FirstInkAt
<1>8. g <= Len(t) <=> f <= Len(s)
  BY <1>1, <1>3, <1>7
<1>9. ASSUME NEW d \in {0, 1, 2}, f + d <= Len(s) PROVE t[g + d] = s[f + d]
  <2>1. g + d \in 1..(Len(s) - k) /\ k + (g + d) = f + d
    BY <1>3, <1>4, <1>7, <1>9
  <2> QED BY <1>1, <2>1
<1>10. f <= Len(s) => t[g] = s[f]
  <2>1. g + 0 = g /\ f + 0 = f
    BY <1>3, <1>7
  <2> QED BY <1>9, <2>1
<1>11. f + 2 <= Len(s) => t[g + 1] = s[f + 1] /\ t[g + 2] = s[f + 2]
  <2>1. f + 2 <= Len(s) => f + 1 <= Len(s)
    BY <1>3
  <2> QED BY <1>9, <2>1
<1>12. g + 2 <= Len(t) <=> f + 2 <= Len(s)
  BY <1>1, <1>3, <1>7
<1>13. f + 2 <= Len(s) => f <= Len(s)
  BY <1>3
<1>14. Prefix(t) = Prefix(s)
  <2>1. /\ Prefix(s) \in Prefixes /\ Prefix(t) \in Prefixes
        /\ Prefix(s) = "BlankSeparated" <=>
              f + 2 <= Len(s) /\ s[f] = Bang /\ s[f + 1] = Dollar /\ s[f + 2] = Blank
        /\ Prefix(t) = "BlankSeparated" <=>
              g + 2 <= Len(t) /\ t[g] = Bang /\ t[g + 1] = Dollar /\ t[g + 2] = Blank
        /\ Prefix(s) = "CompactContinuation" <=>
              f + 2 <= Len(s) /\ s[f] = Bang /\ s[f + 1] = Dollar /\ s[f + 2] = Amp
        /\ Prefix(t) = "CompactContinuation" <=>
              g + 2 <= Len(t) /\ t[g] = Bang /\ t[g + 1] = Dollar /\ t[g + 2] = Amp
    BY <1>1, <1>2, <1>6, PrefixShape
  <2>2. /\ Prefix(t) = "BlankSeparated" <=> Prefix(s) = "BlankSeparated"
        /\ Prefix(t) = "CompactContinuation" <=> Prefix(s) = "CompactContinuation"
    BY <1>10, <1>11, <1>12, <1>13, <2>1
  <2> QED BY <2>1, <2>2 DEF Prefixes
<1>15. SteppedOver(t) <=> SteppedOver(s)
  <2>1. ~ (g <= Len(t)) <=> g > Len(t)
    BY <1>1, <1>3, <1>7
  <2>2. ~ (f <= Len(s)) <=> f > Len(s)
    BY <1>3
  <2> QED BY <1>2, <1>6, <1>8, <1>10, <1>14, <2>1, <2>2 DEF SteppedOver
<1>16. \A b : StartsWith(t, b) <=> StartsWith(s, b)
  BY <1>2, <1>6, <1>8, <1>10 DEF StartsWith
<1> QED BY <1>2, <1>6, <1>7, <1>8, <1>10, <1>14, <1>15, <1>16

\* Nor does it matter how many blanks end it, once the sentinel is whole.
LEMMA InkHead ==
    ASSUME NEW s \in Seq(Bytes), NEW k \in LastInk(s)..Len(s), FirstInk(s) <= Len(s),
           NEW t, t = SubSeq(s, 1, k)
    PROVE  /\ FirstInk(t) = FirstInk(s) /\ FirstInk(s) <= k
           /\ t[FirstInk(t)] = s[FirstInk(s)]
           /\ \A b : StartsWith(t, b) <=> StartsWith(s, b)
           /\ (Prefix(s) = "BlankSeparated" => FirstInk(s) + 2 <= k) => Prefix(t) = Prefix(s)
<1>1. /\ Len(s) \in Nat /\ LastInk(s) \in 0..Len(s) /\ k \in 0..Len(s)
      /\ FirstInk(s) \in 1..Len(s)
      /\ \A j \in (k + 1)..Len(s) : s[j] = Blank
  BY InkType
<1>2. /\ t \in Seq(Bytes) /\ Len(t) = k /\ DOMAIN t = 1..k
      /\ \A j \in 1..k : t[j] = s[j]
  BY <1>1, HeadFacts
<1>3. PICK f : f = FirstInk(s)
  OBVIOUS
<1>4. f \in 1..Len(s) /\ (\A j \in 1..(f - 1) : s[j] = Blank) /\ s[f] # Blank
  BY <1>1, <1>3, InkType
<1>5. f <= k
  <2>1. SUFFICES ASSUME ~ (f <= k) PROVE FALSE
    OBVIOUS
  <2>2. f \in (k + 1)..Len(s)
    BY <1>1, <1>4, <2>1
  <2> QED BY <1>1, <1>4, <2>2
<1>6. FirstAt(t, f)
  <2>1. \A j \in 1..(f - 1) : j \in 1..k
    BY <1>1, <1>4, <1>5
  <2>2. f \in 1..k /\ f \in 1..Len(t) + 1
    BY <1>1, <1>2, <1>4, <1>5
  <2> QED BY <1>2, <1>4, <2>1, <2>2 DEF FirstAt
<1>7. FirstInk(t) = f
  BY <1>2, <1>6, FirstInkAt
<1>8. t[f] = s[f]
  BY <1>2, <1>4, <1>5
<1>9. \A b : StartsWith(t, b) <=> StartsWith(s, b)
  BY <1>2, <1>3, <1>4, <1>5, <1>7, <1>8 DEF StartsWith
<1>10. ASSUME Prefix(s) = "BlankSeparated" => f + 2 <= k PROVE Prefix(t) = Prefix(s)
  <2>1. /\ Prefix(s) \in Prefixes /\ Prefix(t) \in Prefixes
        /\ Prefix(s) = "BlankSeparated" <=>
              f + 2 <= Len(s) /\ s[f] = Bang /\ s[f + 1] = Dollar /\ s[f + 2] = Blank
        /\ Prefix(t) = "BlankSeparated" <=>
              f + 2 <= k /\ t[f] = Bang /\ t[f + 1] = Dollar /\ t[f + 2] = Blank
        /\ Prefix(s) = "CompactContinuation" <=>
              f + 2 <= Len(s) /\ s[f] = Bang /\ s[f + 1] = Dollar /\ s[f + 2] = Amp
        /\ Prefix(t) = "CompactContinuation" <=>
              f + 2 <= k /\ t[f] = Bang /\ t[f + 1] = Dollar /\ t[f + 2] = Amp
    BY <1>2, <1>3, <1>7, PrefixShape
  <2>2. f + 2 <= k => t[f + 1] = s[f + 1] /\ t[f + 2] = s[f + 2] /\ f + 2 <= Len(s)
    <3>1. f + 2 <= k => f + 1 \in 1..k /\ f + 2 \in 1..k
      BY <1>1, <1>4
    <3> QED BY <1>1, <1>2, <1>4, <3>1
  <2>3. Prefix(s) = "CompactContinuation" => f + 2 <= k
    <3>1. SUFFICES ASSUME Prefix(s) = "CompactContinuation", ~ (f + 2 <= k) PROVE FALSE
      OBVIOUS
    <3>2. f + 2 \in (k + 1)..Len(s) /\ s[f + 2] = Amp
      BY <1>1, <1>4, <2>1, <3>1
    <3>3. Amp # Blank
      BY DEF Amp, Blank
    <3> QED BY <1>1, <3>2, <3>3
  <2>4. /\ Prefix(t) = "BlankSeparated" <=> Prefix(s) = "BlankSeparated"
        /\ Prefix(t) = "CompactContinuation" <=> Prefix(s) = "CompactContinuation"
    BY <1>8, <1>10, <2>1, <2>2, <2>3
  <2> QED BY <2>1, <2>4 DEF Prefixes
<1> QED BY <1>3, <1>5, <1>7, <1>8, <1>9, <1>10
-----------------------------------------------------------------------------
(* A physical line *)

Lexes == {lex \in LexStates : lex.hollerith = 0}

LEMMA LexesFacts == \A lex : lex \in Lexes <=> Enterable(lex)
BY DEF Lexes, Enterable

LineStates == [lex : Lexes, continued : BOOLEAN]

Lexed(p)  == p.kind \in {"Code", "FindentFix"}
BodyOf(p) == From(p.bytes, p.start)
ScanOf(p, states) == StreamLine(states[p.stream].lex, BodyOf(p), p.stream)

\* p is the line s as the buffer reads it after states.
LineOf(p, states, s) ==
    /\ p.bytes = s
    /\ p.stream = StreamOf(states, s)
    /\ p.kind = KindOf(p.stream, s)
    /\ p.start = IF p.stream = "Conditional" THEN BodyStart(s) ELSE FirstInk(s)
    /\ p.transparent = (/\ Lexed(p) /\ p.stream = "Conditional"
                        /\ ~Resumes(states[p.stream].lex, BodyOf(p)))
    /\ p.regions = IF Lexed(p) THEN ScanOf(p, states).kinds ELSE <<>>
    /\ p.comment = IF Lexed(p) /\ ScanOf(p, states).comment > 0
                   THEN p.start - 1 + ScanOf(p, states).comment ELSE 0
    /\ p.continues = (Lexed(p) /\ ScanOf(p, states).continued)
    /\ p.state = IF ~Lexed(p) \/ p.transparent THEN states[p.stream]
                 ELSE [lex |-> ScanOf(p, states).lex, continued |-> ScanOf(p, states).continued]

LEMMA LineFields ==
    ASSUME NEW states, NEW s, NEW p, p = PhysicalLine(states, s)
    PROVE  LineOf(p, states, s)
<1> DEFINE stream == StreamOf(states, s)
           kind   == KindOf(stream, s)
           start  == IF stream = "Conditional" THEN BodyStart(s) ELSE FirstInk(s)
           state  == states[stream]
           lexed  == kind \in {"Code", "FindentFix"}
           transparent == /\ lexed /\ stream = "Conditional"
                          /\ ~Resumes(state.lex, From(s, start))
           scan   == StreamLine(state.lex, From(s, start), stream)
<1>1. p = [bytes |-> s, stream |-> stream, kind |-> kind, start |-> start,
           transparent |-> transparent,
           regions   |-> IF lexed THEN scan.kinds ELSE <<>>,
           comment   |-> IF lexed /\ scan.comment > 0 THEN start - 1 + scan.comment ELSE 0,
           continues |-> lexed /\ scan.continued,
           state     |-> IF ~lexed \/ transparent THEN state
                         ELSE [lex |-> scan.lex, continued |-> scan.continued]]
  BY Zenon DEF PhysicalLine
<1>2. /\ p.bytes = s /\ p.stream = stream /\ p.kind = kind /\ p.start = start
      /\ p.transparent = transparent
      /\ p.regions = (IF lexed THEN scan.kinds ELSE <<>>)
      /\ p.comment = (IF lexed /\ scan.comment > 0 THEN start - 1 + scan.comment ELSE 0)
      /\ p.continues = (lexed /\ scan.continued)
      /\ p.state = (IF ~lexed \/ transparent THEN state
                    ELSE [lex |-> scan.lex, continued |-> scan.continued])
  <2> HIDE DEF stream, kind, start, state, transparent, scan, lexed
  <2> QED BY <1>1
<1>3. /\ stream = StreamOf(states, s) /\ kind = KindOf(stream, s)
      /\ start = (IF stream = "Conditional" THEN BodyStart(s) ELSE FirstInk(s))
      /\ transparent = (lexed /\ stream = "Conditional" /\ ~Resumes(state.lex, From(s, start)))
  OBVIOUS
<1>4. (Lexed(p) <=> lexed) /\ BodyOf(p) = From(s, start) /\ ScanOf(p, states) = scan
  <2>1. Lexed(p) <=> lexed
    <3> HIDE DEF stream, start, state, transparent, scan
    <3> QED BY <1>2 DEF Lexed
  <2>2. BodyOf(p) = From(s, start)
    <3> HIDE DEF stream, kind, start, state, transparent, scan, lexed
    <3> QED BY <1>2 DEF BodyOf
  <2>3. ScanOf(p, states) = scan
    <3> HIDE DEF kind, start, transparent, lexed
    <3> QED BY <1>2, <2>2 DEF ScanOf
  <2> QED BY <2>1, <2>2, <2>3
<1>5. p.transparent = (Lexed(p) /\ p.stream = "Conditional"
                       /\ ~Resumes(states[p.stream].lex, BodyOf(p)))
  <2>1. state = states[stream]
    OBVIOUS
  <2> HIDE DEF stream, kind, start, state, transparent, scan, lexed
  <2>2. transparent = (Lexed(p) /\ stream = "Conditional" /\ ~Resumes(states[stream].lex, BodyOf(p)))
    BY <1>3, <1>4, <2>1, Zenon
  <2> QED BY <1>2, <2>2, Zenon
<1>6. p.state = IF ~Lexed(p) \/ p.transparent THEN states[p.stream]
                ELSE [lex |-> ScanOf(p, states).lex, continued |-> ScanOf(p, states).continued]
  <2>1. state = states[stream]
    OBVIOUS
  <2> HIDE DEF stream, kind, start, state, transparent, scan, lexed
  <2> QED BY <1>2, <1>4, <2>1, Zenon
<1>7. /\ p.regions = IF Lexed(p) THEN ScanOf(p, states).kinds ELSE <<>>
      /\ p.comment = IF Lexed(p) /\ ScanOf(p, states).comment > 0
                     THEN p.start - 1 + ScanOf(p, states).comment ELSE 0
      /\ p.continues = (Lexed(p) /\ ScanOf(p, states).continued)
  <2> HIDE DEF stream, kind, start, state, transparent, scan, lexed
  <2> QED BY <1>2, <1>4, Zenon
<1>8. /\ p.bytes = s /\ p.stream = StreamOf(states, s) /\ p.kind = KindOf(p.stream, s)
      /\ p.start = IF p.stream = "Conditional" THEN BodyStart(s) ELSE FirstInk(s)
  <2> HIDE DEF stream, kind, start, state, transparent, scan, lexed
  <2> QED BY <1>2, <1>3, Zenon
<1> HIDE DEF stream, kind, start, state, transparent, scan, lexed
<1> QED BY <1>5, <1>6, <1>7, <1>8, Zenon DEF LineOf

LEMMA LineShape ==
    ASSUME NEW states, NEW s \in Seq(Bytes), NEW p, LineOf(p, states, s)
    PROVE  /\ p.stream \in Streams /\ p.kind \in LineKinds
           /\ p.start \in 1..Len(s) + 1
           /\ p.stream = "Ordinary" => /\ Prefix(s) # "BlankSeparated"
                                       /\ p.start = FirstInk(s)
                                       /\ p.kind = "Code" <=> ~SteppedOver(s)
                                       /\ p.kind = "FindentFix" => s[FirstInk(s)] = Bang
                                       /\ p.kind = "Comment" => s[FirstInk(s)] = Bang
                                       /\ p.kind = "Blank" <=> FirstInk(s) > Len(s)
                                       /\ p.kind = "Preprocessor" <=>
                                            FirstInk(s) <= Len(s) /\ s[FirstInk(s)] \in {Hash, Coco}
           /\ p.stream = "Conditional" => /\ p.kind = "Code" /\ p.start = BodyStart(s)
                                          /\ Prefix(s) # "None" /\ FirstInk(s) + 2 <= Len(s)
<1>1. /\ p.stream = StreamOf(states, s) /\ p.kind = KindOf(p.stream, s)
      /\ p.start = IF p.stream = "Conditional" THEN BodyStart(s) ELSE FirstInk(s)
  BY Zenon DEF LineOf
<1>2. /\ FirstInk(s) \in 1..Len(s) + 1 /\ Len(s) \in Nat /\ Prefix(s) \in Prefixes
      /\ Prefix(s) # "None" => FirstInk(s) + 2 <= Len(s)
  BY InkType, PrefixShape
<1>3. \/ p.stream = "Conditional" /\ Prefix(s) # "None"
      \/ p.stream = "Ordinary" /\ Prefix(s) # "BlankSeparated"
  BY <1>1, <1>2 DEF StreamOf, Prefixes
<1>4. CASE p.stream = "Conditional"
  <2>1. p.kind = "Code"
    BY <1>1, <1>2, <1>3, <1>4 DEF KindOf
  <2>2. p.start = BodyStart(s) /\ BodyStart(s) \in 1..Len(s) + 1
    BY <1>1, <1>2, <1>3, <1>4, PrefixShape DEF BodyStart
  <2> QED BY <1>2, <1>3, <1>4, <2>1, <2>2 DEF Streams, LineKinds
<1>5. CASE p.stream = "Ordinary"
  <2>1. /\ p.kind = "Code" <=> ~SteppedOver(s)
        /\ p.kind = "FindentFix" => s[FirstInk(s)] = Bang
        /\ p.kind = "Comment" => s[FirstInk(s)] = Bang
        /\ p.kind = "Blank" <=> FirstInk(s) > Len(s)
        /\ p.kind = "Preprocessor" <=> FirstInk(s) <= Len(s) /\ s[FirstInk(s)] \in {Hash, Coco}
        /\ p.kind \in LineKinds
    <3>1. PICK f : f = FirstInk(s)
      OBVIOUS
    <3>2. p.kind = IF f > Len(s) THEN "Blank"
                   ELSE IF s[f] \in {Hash, Coco} THEN "Preprocessor"
                   ELSE IF s[f] # Bang THEN "Code"
                   ELSE IF IsFix(s) THEN "FindentFix" ELSE "Comment"
      <4>1. p.stream # "Conditional"
        BY <1>5
      <4> QED BY <1>1, <3>1, <4>1, Zenon DEF KindOf
    <3>3. SteppedOver(s) <=> \/ f > Len(s) \/ s[f] \in {Hash, Coco} \/ s[f] = Bang
      <4>1. Prefix(s) # "BlankSeparated"
        BY <1>3, <1>5
      <4> QED BY <3>1, <4>1, Zenon DEF SteppedOver
    <3>4. Bang # Hash /\ Bang # Coco
      BY DEF Bang, Hash, Coco
    <3> HIDE DEF Bang, Hash, Coco
    <3> QED BY <1>2, <3>1, <3>2, <3>3, <3>4 DEF LineKinds
  <2> QED BY <1>1, <1>2, <1>3, <1>5, <2>1 DEF Streams
<1> QED BY <1>3, <1>4, <1>5

LEMMA LineStart ==
    ASSUME NEW states, NEW s \in Seq(Bytes), NEW p, LineOf(p, states, s)
    PROVE  /\ p.bytes = s /\ p.stream \in Streams /\ p.start \in 1..Len(s) + 1 /\ Len(s) \in Nat
           /\ p.stream = "Ordinary" => p.start = FirstInk(s)
<1>1. p.bytes = s
  BY Zenon DEF LineOf
<1>2. /\ p.stream \in Streams /\ p.start \in 1..Len(s) + 1
      /\ p.stream = "Ordinary" => p.start = FirstInk(s)
  BY LineShape
<1> QED BY <1>1, <1>2

-----------------------------------------------------------------------------
(* A line of a group *)

LEMMA GroupLineIs ==
    ASSUME NEW lex, NEW s
    PROVE  /\ (lex # Clean /\ SteppedOver(s)) =>
                 /\ GroupLine(lex, s).kinds = <<>> /\ GroupLine(lex, s).comment = 0
                 /\ GroupLine(lex, s).lex = lex /\ GroupLine(lex, s).continued = FALSE
           /\ ~(lex # Clean /\ SteppedOver(s)) => GroupLine(lex, s) = ScanLine(lex, s)
BY DEF GroupLine

LEMMA ScanLineTyped ==
    ASSUME NEW lex, Enterable(lex), NEW s \in Seq(Bytes)
    PROVE  Enterable(ScanLine(lex, s).lex) /\ ScanLine(lex, s).continued \in BOOLEAN
<1>1. Len(s) \in Nat /\ DOMAIN s = 1..Len(s)
  OBVIOUS
<1> QED BY <1>1, ScanLineReads DEF LineReads

LEMMA GroupLineTyped ==
    ASSUME NEW lex, Enterable(lex), NEW s \in Seq(Bytes)
    PROVE  Enterable(GroupLine(lex, s).lex) /\ GroupLine(lex, s).continued \in BOOLEAN
<1>1. CASE lex # Clean /\ SteppedOver(s)
  BY <1>1, GroupLineIs
<1>2. CASE ~(lex # Clean /\ SteppedOver(s))
  <2>1. GroupLine(lex, s) = ScanLine(lex, s)
    BY <1>2, GroupLineIs
  <2> QED BY <2>1, ScanLineTyped
<1> QED BY <1>1, <1>2

LEMMA CleanEnterable == Enterable(Clean)
BY DEF Enterable, Clean, LexStates

LEMMA LineTyped ==
    ASSUME NEW states \in [Streams -> LineStates], NEW s \in Seq(Bytes), NEW p,
           LineOf(p, states, s)
    PROVE  p.state \in LineStates
<1>1. p.stream \in Streams /\ p.start \in 1..Len(s) + 1
  BY LineShape
<1>2. states[p.stream] \in LineStates
  BY <1>1
<1>3. states[p.stream].lex \in Lexes
  BY <1>2 DEF LineStates
<1>4. Enterable(states[p.stream].lex)
  BY <1>3, LexesFacts
<1>5. BodyOf(p) \in Seq(Bytes)
  <2>1. p.bytes = s
    BY Zenon DEF LineOf
  <2>2. From(s, p.start) \in Seq(Bytes)
    BY <1>1, FromFacts
  <2> QED BY <2>1, <2>2, Zenon DEF BodyOf
<1>6. CASE ~Lexed(p) \/ p.transparent
  <2>1. p.state = states[p.stream]
    BY <1>6, Zenon DEF LineOf
  <2> QED BY <1>2, <2>1
<1>7. CASE ~(~Lexed(p) \/ p.transparent)
  <2>1. p.state = [lex |-> ScanOf(p, states).lex, continued |-> ScanOf(p, states).continued]
    BY <1>7, Zenon DEF LineOf
  <2>2. p.transparent = (/\ Lexed(p) /\ p.stream = "Conditional"
                         /\ ~Resumes(states[p.stream].lex, BodyOf(p)))
    BY Zenon DEF LineOf
  <2>3. p.stream # "Ordinary" => Resumes(states[p.stream].lex, BodyOf(p))
    BY <1>1, <1>7, <2>2 DEF Streams
  <2>4. ScanOf(p, states) = IF p.stream = "Ordinary"
                            THEN GroupLine(states[p.stream].lex, BodyOf(p))
                            ELSE ScanLine(states[p.stream].lex, BodyOf(p))
    BY <2>3, Zenon DEF ScanOf, StreamLine
  <2>5. Enterable(ScanOf(p, states).lex) /\ ScanOf(p, states).continued \in BOOLEAN
    BY <1>4, <1>5, <2>4, GroupLineTyped, ScanLineTyped
  <2>6. ScanOf(p, states).lex \in Lexes
    BY <2>5, LexesFacts
  <2> QED BY <2>1, <2>5, <2>6 DEF LineStates
<1> QED BY <1>6, <1>7
\* A body that resumes a literal is no line a statement steps over.
LEMMA ResumesReads ==
    ASSUME NEW lex, Enterable(lex), NEW s \in Seq(Bytes), Resumes(lex, s)
    PROVE  GroupLine(lex, s) = ScanLine(lex, s)
<1>1. SUFFICES ASSUME lex # Clean PROVE ~SteppedOver(s)
  BY GroupLineIs
<1>2. InLiteral(lex)
  <2>1. lex = LexOf(ModeOf(lex)) /\ ModeOf(lex) \in {"Code"} \cup Quotes
    BY LexOfFacts
  <2>2. ModeOf(lex) # "Code"
    BY <1>1, <2>1, LexOfFacts
  <2> QED BY <2>1, <2>2, LexOfFacts
<1>3. StartsWith(s, Amp)
  BY <1>2 DEF Resumes
<1>4. FirstInk(s) <= Len(s) /\ s[FirstInk(s)] = Amp
  BY <1>3 DEF StartsWith
<1>5. Amp # Hash /\ Amp # Coco /\ Amp # Bang
  BY DEF Amp, Hash, Coco, Bang
<1>6. ~ (FirstInk(s) > Len(s))
  BY <1>4, InkType
<1> QED BY <1>4, <1>5, <1>6 DEF SteppedOver

\* A line of a group reads the same with the blanks before it and without.
SameBehind(a, b, k) ==
    /\ a.lex = b.lex /\ a.continued = b.continued
    /\ b.comment \in Nat /\ a.comment = (IF b.comment > 0 THEN k + b.comment ELSE 0)
    /\ \A j \in DOMAIN b.kinds : j \in Nat /\ k + j \in DOMAIN a.kinds
                                 /\ a.kinds[k + j] = b.kinds[j]

LEMMA ScanSuffix ==
    ASSUME NEW s \in Seq(Bytes), NEW k \in 0..Len(s), \A j \in 1..k : s[j] = Blank,
           NEW lex, Enterable(lex)
    PROVE  SameBehind(ScanLine(lex, s), ScanLine(lex, From(s, k + 1)), k)
<1>1. PICK a, b : a = ScanLine(lex, s) /\ b = ScanLine(lex, From(s, k + 1))
  OBVIOUS
<1>2. /\ a.continued = b.continued /\ a.lex = b.lex
      /\ b.comment \in Nat /\ a.comment = (IF b.comment > 0 THEN k + b.comment ELSE 0)
      /\ Len(a.kinds) = Len(s) /\ Len(b.kinds) = Len(s) - k
      /\ \A j \in 1..(Len(s) - k) : a.kinds[k + j] = b.kinds[j]
  BY <1>1, SuffixReads
<1>3. a.kinds \in Seq(RegionKinds) /\ b.kinds \in Seq(RegionKinds)
  <2>1. Len(s) \in Nat /\ DOMAIN s = 1..Len(s)
    OBVIOUS
  <2>2. From(s, k + 1) \in Seq(Bytes)
    BY BehindFacts
  <2>3. Len(From(s, k + 1)) \in Nat /\ DOMAIN From(s, k + 1) = 1..Len(From(s, k + 1))
    BY <2>2
  <2>4. /\ LineReads(a, Run(ModeOf(lex), s), s)
        /\ LineReads(b, Run(ModeOf(lex), From(s, k + 1)), From(s, k + 1))
    BY <1>1, <2>1, <2>3, ScanLineReads
  <2> QED BY <2>4, Zenon DEF LineReads, KindsSoFar
<1>4. DOMAIN a.kinds = 1..Len(s) /\ DOMAIN b.kinds = 1..(Len(s) - k)
  BY <1>2, <1>3
<1>5. \A j \in DOMAIN b.kinds : j \in Nat /\ k + j \in DOMAIN a.kinds
                                /\ a.kinds[k + j] = b.kinds[j]
  BY <1>2, <1>4
<1>6. SameBehind(a, b, k)
  BY <1>2, <1>5, Zenon DEF SameBehind
<1> QED BY <1>1, <1>6, Zenon

LEMMA GroupSuffix ==
    ASSUME NEW s \in Seq(Bytes), NEW k \in 0..Len(s), \A j \in 1..k : s[j] = Blank,
           NEW lex, Enterable(lex)
    PROVE  SameBehind(GroupLine(lex, s), GroupLine(lex, From(s, k + 1)), k)
<1>1. SteppedOver(From(s, k + 1)) <=> SteppedOver(s)
  BY InkSuffix
<1>2. CASE lex # Clean /\ SteppedOver(s)
  <2>1. PICK a, b : a = GroupLine(lex, s) /\ b = GroupLine(lex, From(s, k + 1))
    OBVIOUS
  <2>2. /\ a.kinds = <<>> /\ a.comment = 0 /\ a.lex = lex /\ a.continued = FALSE
        /\ b.kinds = <<>> /\ b.comment = 0 /\ b.lex = lex /\ b.continued = FALSE
    <3>1. lex # Clean /\ SteppedOver(From(s, k + 1))
      BY <1>1, <1>2
    <3>2. a.kinds = <<>> /\ a.comment = 0 /\ a.lex = lex /\ a.continued = FALSE
      BY <1>2, <2>1, GroupLineIs
    <3>3. b.kinds = <<>> /\ b.comment = 0 /\ b.lex = lex /\ b.continued = FALSE
      BY <2>1, <3>1, GroupLineIs
    <3> QED BY <3>2, <3>3
  <2>3. DOMAIN b.kinds = {}
    BY <2>2
  <2>4. SameBehind(a, b, k)
    <3>1. 0 \in Nat /\ 0 = (IF 0 > 0 THEN k + 0 ELSE 0)
      OBVIOUS
    <3>2. a.lex = b.lex /\ a.continued = b.continued /\ b.comment \in Nat
          /\ a.comment = (IF b.comment > 0 THEN k + b.comment ELSE 0)
      BY <2>2, <3>1
    <3>3. \A j \in DOMAIN b.kinds : j \in Nat /\ k + j \in DOMAIN a.kinds
                                    /\ a.kinds[k + j] = b.kinds[j]
      BY <2>3
    <3> QED BY <3>2, <3>3, Zenon DEF SameBehind
  <2> QED BY <2>1, <2>4, Zenon
<1>3. CASE ~(lex # Clean /\ SteppedOver(s))
  <2>1. GroupLine(lex, s) = ScanLine(lex, s)
        /\ GroupLine(lex, From(s, k + 1)) = ScanLine(lex, From(s, k + 1))
    BY <1>1, <1>3, GroupLineIs
  <2>2. SameBehind(ScanLine(lex, s), ScanLine(lex, From(s, k + 1)), k)
    BY ScanSuffix
  <2> QED BY <2>1, <2>2
<1> QED BY <1>2, <1>3

LEMMA FromOne == ASSUME NEW s \in Seq(Bytes) PROVE From(s, 1) = s
BY DEF From

\* Any state of the line's stream that can be resumed gives the line the same
\* comment and leaves the same state, wherever before its ink the scan begins.
LEMMA SearchSame ==
    ASSUME NEW states \in [Streams -> LineStates], NEW s \in Seq(Bytes), NEW p,
           LineOf(p, states, s), Lexed(p), NEW lex, lex = states[p.stream].lex,
           Resumes(lex, BodyOf(p)), NEW body, body = From(s, SearchStart(p))
    PROVE  /\ Resumes(lex, body) /\ GroupLine(lex, body).lex = p.state.lex
           /\ p.comment = IF GroupLine(lex, body).comment > 0
                          THEN SearchStart(p) - 1 + GroupLine(lex, body).comment ELSE 0
<1>1. /\ p.bytes = s /\ p.stream \in Streams /\ p.start \in 1..Len(s) + 1
      /\ p.stream = "Ordinary" => p.start = FirstInk(s)
  BY LineShape DEF LineOf
<1>2. Enterable(lex)
  <2>1. states[p.stream] \in LineStates
    BY <1>1
  <2>2. states[p.stream].lex \in Lexes
    BY <2>1 DEF LineStates
  <2> QED BY <2>2, LexesFacts
<1>3. ~p.transparent
  BY Zenon DEF LineOf
<1>4. /\ p.state.lex = ScanOf(p, states).lex
      /\ p.comment = IF ScanOf(p, states).comment > 0
                     THEN p.start - 1 + ScanOf(p, states).comment ELSE 0
  <2>1. p.state = [lex |-> ScanOf(p, states).lex, continued |-> ScanOf(p, states).continued]
    BY <1>3, Zenon DEF LineOf
  <2>2. p.comment = IF Lexed(p) /\ ScanOf(p, states).comment > 0
                    THEN p.start - 1 + ScanOf(p, states).comment ELSE 0
    BY Zenon DEF LineOf
  <2> QED BY <2>1, <2>2
<1>5. BodyOf(p) = From(s, p.start)
  BY <1>1, Zenon DEF BodyOf
<1>6. CASE p.stream = "Conditional"
  <2>1. body = BodyOf(p) /\ SearchStart(p) = p.start
    BY <1>5, <1>6 DEF SearchStart
  <2>2. ScanOf(p, states) = ScanLine(lex, body)
    BY <1>6, <2>1 DEF ScanOf, StreamLine
  <2>3. GroupLine(lex, body) = ScanLine(lex, body)
    <3>1. BodyOf(p) \in Seq(Bytes)
      BY <1>1, <1>5, FromFacts
    <3> QED BY <1>2, <2>1, <3>1, ResumesReads
  <2> QED BY <1>4, <2>1, <2>2, <2>3
<1>7. CASE p.stream = "Ordinary"
  <2>1. body = s /\ SearchStart(p) = 1
    BY <1>7, FromOne DEF SearchStart
  <2>2. ScanOf(p, states) = GroupLine(lex, BodyOf(p))
    BY <1>7 DEF ScanOf, StreamLine
  <2>3. PICK k : k = p.start - 1
    OBVIOUS
  <2>4. k \in 0..Len(s) /\ p.start = k + 1 /\ \A j \in 1..k : s[j] = Blank
    BY <1>1, <1>7, <2>3, InkType
  <2>5. BodyOf(p) = From(s, k + 1)
    BY <1>5, <2>4
  <2>6. SameBehind(GroupLine(lex, s), GroupLine(lex, BodyOf(p)), k)
    BY <1>2, <2>4, <2>5, GroupSuffix
  <2>7. StartsWith(BodyOf(p), Amp) <=> StartsWith(s, Amp)
    BY <2>4, <2>5, InkSuffix
  <2>8. Resumes(lex, body)
    BY <2>1, <2>7 DEF Resumes
  <2>9. PICK a, b : a = GroupLine(lex, s) /\ b = GroupLine(lex, BodyOf(p))
    OBVIOUS
  <2>10. /\ a.lex = b.lex /\ b.comment \in Nat
         /\ a.comment = (IF b.comment > 0 THEN k + b.comment ELSE 0)
    BY <2>6, <2>9, Zenon DEF SameBehind
  <2>11. p.state.lex = b.lex /\ p.comment = IF b.comment > 0 THEN p.start - 1 + b.comment ELSE 0
    BY <1>4, <2>2, <2>9, Zenon
  <2>12. p.comment = IF a.comment > 0 THEN 1 - 1 + a.comment ELSE 0
    BY <2>4, <2>10, <2>11
  <2>13. a.lex = p.state.lex
    BY <2>10, <2>11
  <2> QED BY <2>1, <2>8, <2>9, <2>12, <2>13, Zenon
<1> QED BY <1>1, <1>6, <1>7 DEF Streams

\* Step 12 reads the code of a line as the buffer does.
LEMMA CodeScan ==
    ASSUME NEW states \in [Streams -> LineStates], NEW s \in Seq(Bytes), NEW p,
           LineOf(p, states, s), p.kind = "Code", NEW lex, lex = states[p.stream].lex,
           Resumes(lex, BodyOf(p)) \/ p.stream = "Ordinary"
    PROVE  /\ Enterable(lex) /\ BodyOf(p) \in Seq(Bytes)
           /\ ~p.transparent /\ ScanOf(p, states) = ScanLine(lex, BodyOf(p))
<1>1. /\ p.bytes = s /\ p.stream \in Streams /\ p.start \in 1..Len(s) + 1
      /\ p.stream = "Ordinary" => p.start = FirstInk(s) /\ ~SteppedOver(s)
  BY LineShape DEF LineOf
<1>2. Enterable(lex)
  <2>1. states[p.stream] \in LineStates
    BY <1>1
  <2>2. states[p.stream].lex \in Lexes
    BY <2>1 DEF LineStates
  <2> QED BY <2>2, LexesFacts
<1>3. BodyOf(p) = From(s, p.start)
  BY <1>1, Zenon DEF BodyOf
<1>4. BodyOf(p) \in Seq(Bytes)
  BY <1>1, <1>3, FromFacts
<1>5. CASE p.stream = "Conditional"
  <2>1. Resumes(lex, BodyOf(p))
    BY <1>5
  <2>2. ~p.transparent
    BY <2>1, Zenon DEF LineOf
  <2>3. ScanOf(p, states) = ScanLine(lex, BodyOf(p))
    BY <1>5, <2>1 DEF ScanOf, StreamLine
  <2> QED BY <1>2, <1>4, <2>2, <2>3
<1>6. CASE p.stream = "Ordinary"
  <2>1. PICK k : k = p.start - 1
    OBVIOUS
  <2>2. k \in 0..Len(s) /\ p.start = k + 1 /\ \A j \in 1..k : s[j] = Blank
    BY <1>1, <1>6, <2>1, InkType
  <2>3. ~SteppedOver(BodyOf(p))
    <3>1. BodyOf(p) = From(s, k + 1)
      BY <1>3, <2>2
    <3> QED BY <1>1, <1>6, <2>2, <3>1, InkSuffix
  <2>4. ScanOf(p, states) = GroupLine(lex, BodyOf(p))
    BY <1>6 DEF ScanOf, StreamLine
  <2>5. GroupLine(lex, BodyOf(p)) = ScanLine(lex, BodyOf(p))
    BY <2>3, GroupLineIs
  <2>6. ~p.transparent
    <3>1. p.stream # "Conditional"
      BY <1>6
    <3> QED BY <3>1, Zenon DEF LineOf
  <2> QED BY <1>2, <1>4, <2>4, <2>5, <2>6
<1> QED BY <1>1, <1>5, <1>6 DEF Streams
-----------------------------------------------------------------------------
(* The code of a line, and the markers in it *)

LEMMA ScanRange ==
    ASSUME NEW lex, Enterable(lex), NEW s \in Seq(Bytes)
    PROVE  /\ ScanLine(lex, s).kinds \in Seq(RegionKinds)
           /\ Len(ScanLine(lex, s).kinds) = Len(s) /\ ScanLine(lex, s).comment \in 0..Len(s)
<1>1. Len(s) \in Nat /\ DOMAIN s = 1..Len(s)
  OBVIOUS
<1>2. PICK a : a = ScanLine(lex, s)
  OBVIOUS
<1>3. LineReads(a, Run(ModeOf(lex), s), s)
  BY <1>1, <1>2, ScanLineReads
<1>4. a.kinds \in Seq(RegionKinds) /\ Len(a.kinds) = Len(s)
  BY <1>3, Zenon DEF LineReads, KindsSoFar
<1>5. a.comment \in 0..Len(s)
  <2>1. CommentSoFar(a.comment, Run(ModeOf(lex), s), Len(s))
    BY <1>3, Zenon DEF LineReads
  <2>2. a.comment = 0 \/ a.comment \in 1..Len(s)
    BY <2>1, Zenon DEF CommentSoFar
  <2> QED BY <1>1, <2>2
<1> QED BY <1>2, <1>4, <1>5

\* Regions and comment of a line are regions and a byte of it.
LEMMA LineRange ==
    ASSUME NEW states \in [Streams -> LineStates], NEW s \in Seq(Bytes), NEW p,
           LineOf(p, states, s)
    PROVE  /\ p.regions \in Seq(RegionKinds) /\ p.comment \in 0..Len(s)
           /\ p.comment > 0 => p.comment >= p.start
           /\ Len(p.regions) <= Len(s) - p.start + 1
<1>1. p.bytes = s /\ p.stream \in Streams /\ p.start \in 1..Len(s) + 1 /\ Len(s) \in Nat
  BY LineStart
<1>2. PICK lex : lex = states[p.stream].lex
  OBVIOUS
<1>3. Enterable(lex)
  <2>1. states[p.stream] \in LineStates
    BY <1>1
  <2>2. states[p.stream].lex \in Lexes
    BY <2>1 DEF LineStates
  <2> QED BY <1>2, <2>2, LexesFacts
<1>4. PICK t : t = BodyOf(p)
  OBVIOUS
<1>5. t \in Seq(Bytes) /\ Len(t) = Len(s) - p.start + 1 /\ Len(t) \in Nat
  <2>1. t = From(s, p.start)
    BY <1>1, <1>4 DEF BodyOf
  <2> QED BY <1>1, <2>1, FromFacts
<1>6. PICK scan : scan = ScanOf(p, states)
  OBVIOUS
<1>7. scan.kinds \in Seq(RegionKinds) /\ Len(scan.kinds) <= Len(t) /\ scan.comment \in 0..Len(t)
  <2>1. <<>> \in Seq(RegionKinds) /\ Len(<<>>) <= Len(t) /\ 0 \in 0..Len(t)
    BY <1>5
  <2>2. /\ ScanLine(lex, t).kinds \in Seq(RegionKinds) /\ Len(ScanLine(lex, t).kinds) <= Len(t)
        /\ ScanLine(lex, t).comment \in 0..Len(t)
    BY <1>3, <1>5, ScanRange
  <2>3. CASE scan = ScanLine(lex, t)
    BY <2>2, <2>3
  <2>4. CASE scan.kinds = <<>> /\ scan.comment = 0
    BY <2>1, <2>4
  <2>5. CASE p.stream = "Ordinary"
    <3>1. scan = GroupLine(lex, t)
      BY <1>2, <1>4, <1>6, <2>5 DEF ScanOf, StreamLine
    <3>2. scan = ScanLine(lex, t) \/ (scan.kinds = <<>> /\ scan.comment = 0)
      <4>1. CASE lex # Clean /\ SteppedOver(t)
        <5>1. GroupLine(lex, t).kinds = <<>> /\ GroupLine(lex, t).comment = 0
          BY <4>1, GroupLineIs, Zenon
        <5> QED BY <3>1, <5>1, Zenon
      <4>2. CASE ~(lex # Clean /\ SteppedOver(t))
        <5>1. GroupLine(lex, t) = ScanLine(lex, t)
          BY <4>2, GroupLineIs, Zenon
        <5> QED BY <3>1, <5>1, Zenon
      <4> QED BY <4>1, <4>2
    <3> QED BY <2>3, <2>4, <3>2
  <2>6. CASE p.stream # "Ordinary"
    <3>1. scan = IF Resumes(lex, t) THEN ScanLine(lex, t)
                 ELSE [kinds |-> <<>>, comment |-> 0, lex |-> lex,
                       continued |-> ScanLine(Clean, t).continued]
      BY <1>2, <1>4, <1>6, <2>6, Zenon DEF ScanOf, StreamLine
    <3>2. scan = ScanLine(lex, t) \/ (scan.kinds = <<>> /\ scan.comment = 0)
      BY <3>1
    <3> QED BY <2>3, <2>4, <3>2
  <2> QED BY <2>5, <2>6
<1>8. /\ p.regions = IF Lexed(p) THEN scan.kinds ELSE <<>>
      /\ p.comment = IF Lexed(p) /\ scan.comment > 0 THEN p.start - 1 + scan.comment ELSE 0
  BY <1>6, Zenon DEF LineOf
<1>9. p.regions \in Seq(RegionKinds) /\ Len(p.regions) <= Len(t)
  <2>1. <<>> \in Seq(RegionKinds) /\ Len(<<>>) <= Len(t)
    BY <1>5
  <2> QED BY <1>7, <1>8, <2>1
<1>10. p.comment \in 0..Len(s) /\ (p.comment > 0 => p.comment >= p.start)
  BY <1>1, <1>5, <1>7, <1>8
<1> QED BY <1>5, <1>9, <1>10

\* What the line has in front of its comment.
LEMMA CodeBytesFacts ==
    ASSUME NEW states \in [Streams -> LineStates], NEW s \in Seq(Bytes), NEW p,
           LineOf(p, states, s)
    PROVE  /\ CodeBytes(p) \in Seq(Bytes)
           /\ Len(CodeBytes(p)) = (IF p.comment > 0 THEN p.comment - p.start
                                   ELSE Len(s) - p.start + 1)
           /\ \A j \in 1..Len(CodeBytes(p)) : CodeBytes(p)[j] = s[p.start - 1 + j]
<1>1. p.bytes = s /\ p.start \in 1..Len(s) + 1 /\ Len(s) \in Nat
  BY LineStart
<1>2. p.comment \in 0..Len(s) /\ (p.comment > 0 => p.comment >= p.start)
  BY LineRange
<1>3. PICK a, e : a = p.start /\ e = CodeEnd(p)
  OBVIOUS
<1>4. a \in 1..Len(s) + 1 /\ e \in (a - 1)..Len(s)
      /\ e = IF p.comment > 0 THEN p.comment - 1 ELSE Len(s)
  BY <1>1, <1>2, <1>3 DEF CodeEnd
<1>5. CodeBytes(p) = SubSeq(s, a, e)
  BY <1>1, <1>3, Zenon DEF CodeBytes
<1>6. /\ SubSeq(s, a, e) \in Seq(Bytes) /\ Len(SubSeq(s, a, e)) = e - a + 1
      /\ \A j \in 1..(e - a + 1) : SubSeq(s, a, e)[j] = s[a - 1 + j]
  BY <1>4
<1> QED BY <1>1, <1>2, <1>3, <1>4, <1>5, <1>6

\* A scanned line in terms of its run.
LEMMA CodeRun ==
    ASSUME NEW states \in [Streams -> LineStates], NEW s \in Seq(Bytes), NEW p,
           LineOf(p, states, s), p.kind = "Code", NEW lex, Enterable(lex),
           ScanOf(p, states) = ScanLine(lex, BodyOf(p)),
           NEW t, t = BodyOf(p), NEW mu, mu = Run(ModeOf(lex), t)
    PROVE  /\ t \in Seq(Bytes) /\ Len(t) = Len(s) - p.start + 1
           /\ \A j \in 1..Len(t) : t[j] = s[p.start - 1 + j]
           /\ IsRun(mu, ModeOf(lex), t)
           /\ p.regions \in Seq(RegionKinds) /\ Len(p.regions) = Len(t)
           /\ \A j \in 1..Len(t) : p.regions[j] = Reads(mu, t, j)
           /\ p.continues <=> Marked(mu, t)
           /\ Len(CodeBytes(p)) \in 0..Len(t)
           /\ \A j \in 1..Len(t) : mu[j] # "Comment" <=> j <= Len(CodeBytes(p))
           /\ \A j \in 1..Len(CodeBytes(p)) : CodeBytes(p)[j] = t[j]
<1>1. p.bytes = s /\ p.start \in 1..Len(s) + 1 /\ Len(s) \in Nat
  BY LineStart
<1>2. t = From(s, p.start)
  BY <1>1 DEF BodyOf
<1>3. /\ t \in Seq(Bytes) /\ Len(t) = Len(s) - p.start + 1 /\ DOMAIN t = 1..Len(t)
      /\ \A j \in 1..Len(t) : t[j] = s[p.start - 1 + j]
  BY <1>1, <1>2, FromFacts
<1>4. Len(t) \in Nat
  BY <1>3
<1>5. PICK line : line = ScanLine(lex, t)
  OBVIOUS
<1>6. IsRun(mu, ModeOf(lex), t) /\ LineReads(line, mu, t)
  BY <1>3, <1>4, <1>5, ScanLineReads
<1>7. Lexed(p)
  BY DEF Lexed
<1>8. /\ p.regions = line.kinds
      /\ p.comment = IF line.comment > 0 THEN p.start - 1 + line.comment ELSE 0
      /\ p.continues = line.continued
  <2>1. /\ p.regions = IF Lexed(p) THEN ScanOf(p, states).kinds ELSE <<>>
        /\ p.comment = IF Lexed(p) /\ ScanOf(p, states).comment > 0
                       THEN p.start - 1 + ScanOf(p, states).comment ELSE 0
        /\ p.continues = (Lexed(p) /\ ScanOf(p, states).continued)
    BY Zenon DEF LineOf
  <2>2. line.continued \in BOOLEAN
    BY <1>6 DEF LineReads
  <2> QED BY <1>5, <1>7, <2>1, <2>2
<1>9. /\ line.kinds \in Seq(RegionKinds) /\ Len(line.kinds) = Len(t)
      /\ \A j \in 1..Len(t) : line.kinds[j] = Reads(mu, t, j)
  BY <1>6 DEF LineReads, KindsSoFar, Reads
<1>10. p.continues <=> Marked(mu, t)
  BY <1>6, <1>8 DEF LineReads
<1>11. CommentSoFar(line.comment, mu, Len(t))
  BY <1>6 DEF LineReads
<1>12. PICK c : c = line.comment
  OBVIOUS
<1>13. /\ CodeBytes(p) \in Seq(Bytes)
       /\ Len(CodeBytes(p)) = (IF p.comment > 0 THEN p.comment - p.start ELSE Len(s) - p.start + 1)
       /\ \A j \in 1..Len(CodeBytes(p)) : CodeBytes(p)[j] = s[p.start - 1 + j]
  BY CodeBytesFacts
<1>14. PICK e : e = Len(CodeBytes(p))
  OBVIOUS
<1>15. c \in 0..Len(t) /\ e = IF c > 0 THEN c - 1 ELSE Len(t)
  <2>1. c \in 0..Len(t)
    <3>1. c = 0 \/ c \in 1..Len(t)
      BY <1>11, <1>12, Zenon DEF CommentSoFar
    <3> QED BY <1>4, <3>1
  <2>2. p.comment = IF c > 0 THEN p.start - 1 + c ELSE 0
    BY <1>8, <1>12
  <2> QED BY <1>1, <1>3, <1>13, <1>14, <2>1, <2>2
<1>16. e \in 0..Len(t)
  BY <1>4, <1>15
<1>17. ASSUME NEW j \in 1..Len(t) PROVE mu[j] # "Comment" <=> j <= e
  <2>1. CASE c = 0
    <3>1. \A i \in 0..Len(t) : mu[i] # "Comment"
      BY <1>11, <1>12, <2>1 DEF CommentSoFar
    <3>2. j \in 0..Len(t) /\ j <= e
      BY <1>15, <2>1
    <3> QED BY <3>1, <3>2
  <2>2. CASE c # 0
    <3>1. c \in 1..Len(t) /\ mu[c - 1] # "Comment" /\ \A i \in c..Len(t) : mu[i] = "Comment"
      BY <1>11, <1>12, <2>2 DEF CommentSoFar
    <3>2. e = c - 1
      BY <1>15, <3>1
    <3>3. CASE j <= e
      <4>1. SUFFICES ASSUME mu[j] = "Comment" PROVE FALSE
        BY <3>3
      <4>2. j \in 0..Len(t) /\ c - 1 \in j..Len(t)
        BY <3>1, <3>2, <3>3
      <4>3. mu[c - 1] = "Comment"
        BY <1>4, <1>6, <4>1, <4>2, CommentStays
      <4> QED BY <3>1, <4>3
    <3>4. CASE ~(j <= e)
      <4>1. j \in c..Len(t)
        BY <3>1, <3>2, <3>4
      <4> QED BY <3>1, <3>4, <4>1
    <3> QED BY <3>3, <3>4
  <2> QED BY <2>1, <2>2
<1>18. \A j \in 1..e : CodeBytes(p)[j] = t[j]
  <2>1. \A j \in 1..e : j \in 1..Len(t)
    BY <1>4, <1>16
  <2> QED BY <1>3, <1>13, <1>14, <2>1
<1> QED BY <1>3, <1>6, <1>8, <1>9, <1>10, <1>14, <1>16, <1>17, <1>18
-----------------------------------------------------------------------------
(* The text of a group *)

Pieces == [byte : Bytes, region : RegionKinds \cup {"None"}]

Piece(p, f) == [i \in 1..(f.end - f.first + 1) |->
                  [byte   |-> p.bytes[f.first + i - 1],
                   region |-> RegionAt(p, f.first + i - 1)]]

Space(joins, f) == IF joins /\ ~f.marker THEN <<[byte |-> Blank, region |-> "None"]>> ELSE <<>>

LEMMA JoinedIs ==
    ASSUME NEW text, NEW p, NEW joins, NEW f, f = Fragment(p, joins)
    PROVE  Joined(text, p, joins) = IF f.end < f.first THEN text
                                    ELSE text \o Space(joins, f) \o Piece(p, f)
BY Zenon DEF Joined, Piece, Space

\* The fragment is the code from its first to its last byte in ink, markers off.
LEMMA FragmentFacts ==
    ASSUME NEW states \in [Streams -> LineStates], NEW s \in Seq(Bytes), NEW p,
           LineOf(p, states, s), NEW joins, NEW f, f = Fragment(p, joins),
           NEW code, code = CodeBytes(p)
    PROVE  /\ f.marker = (joins /\ StartsWith(code, Amp))
           /\ \E a \in Nat, b \in Nat :
                 /\ f.first = p.start - 1 + a /\ f.end = p.start - 1 + b
                 /\ a = FirstInk(code) + (IF f.marker THEN 1 ELSE 0)
                 /\ a >= 1 /\ b <= Len(code)
                 /\ b = IF p.continues /\ LastInk(code) >= a /\ code[LastInk(code)] = Amp
                        THEN LastInk(code) - 1 ELSE LastInk(code)
<1>1. p.start \in Nat
  BY LineStart
<1>2. code \in Seq(Bytes)
  BY CodeBytesFacts
<1>3. Len(code) \in Nat /\ FirstInk(code) \in 1..Len(code) + 1 /\ LastInk(code) \in 0..Len(code)
  BY <1>2, InkType
<1>4. PICK a : a = FirstInk(code) + (IF joins /\ StartsWith(code, Amp) THEN 1 ELSE 0)
  OBVIOUS
<1>5. PICK b : b = IF p.continues /\ LastInk(code) >= a /\ code[LastInk(code)] = Amp
                   THEN LastInk(code) - 1 ELSE LastInk(code)
  OBVIOUS
<1>6. /\ f.marker = (joins /\ StartsWith(code, Amp))
      /\ f.first = p.start - 1 + a /\ f.end = p.start - 1 + b
  BY <1>4, <1>5 DEF Fragment
<1>7. a \in Nat /\ a >= 1
  BY <1>3, <1>4
<1>8. b \in Nat /\ b <= Len(code)
  BY <1>3, <1>5, <1>7
<1>9. a = FirstInk(code) + (IF f.marker THEN 1 ELSE 0)
  BY <1>4, <1>6
<1> QED BY <1>5, <1>6, <1>7, <1>8, <1>9

LEMMA RegionType ==
    ASSUME NEW states \in [Streams -> LineStates], NEW s \in Seq(Bytes), NEW p,
           LineOf(p, states, s), NEW i
    PROVE  RegionAt(p, i) \in RegionKinds \cup {"None"}
<1>1. p.regions \in Seq(RegionKinds)
  BY LineRange
<1>2. \A j \in DOMAIN p.regions : p.regions[j] \in RegionKinds
  BY <1>1
<1> QED BY <1>2 DEF RegionAt

LEMMA PieceType ==
    ASSUME NEW states \in [Streams -> LineStates], NEW s \in Seq(Bytes), NEW p,
           LineOf(p, states, s), NEW joins, NEW f, f = Fragment(p, joins), ~(f.end < f.first)
    PROVE  /\ Piece(p, f) \in Seq(Pieces) /\ Space(joins, f) \in Seq(Pieces)
           /\ f.end - f.first + 1 \in Nat /\ Len(Piece(p, f)) = f.end - f.first + 1
           /\ Len(Space(joins, f)) = IF joins /\ ~f.marker THEN 1 ELSE 0
<1>1. p.bytes = s /\ p.start \in 1..Len(s) + 1 /\ Len(s) \in Nat
  BY LineStart
<1>2. PICK code : code = CodeBytes(p)
  OBVIOUS
<1>3. Len(code) = (IF p.comment > 0 THEN p.comment - p.start ELSE Len(s) - p.start + 1)
      /\ p.comment \in 0..Len(s)
  BY <1>2, CodeBytesFacts, LineRange
<1>4. PICK a \in Nat, b \in Nat : /\ f.first = p.start - 1 + a /\ f.end = p.start - 1 + b
                                  /\ a >= 1 /\ b <= Len(code)
  <2>1. \E a \in Nat, b \in Nat :
                 /\ f.first = p.start - 1 + a /\ f.end = p.start - 1 + b
                 /\ a = FirstInk(code) + (IF f.marker THEN 1 ELSE 0)
                 /\ a >= 1 /\ b <= Len(code)
                 /\ b = IF p.continues /\ LastInk(code) >= a /\ code[LastInk(code)] = Amp
                        THEN LastInk(code) - 1 ELSE LastInk(code)
    BY <1>2, FragmentFacts
  <2> QED BY <2>1, Zenon
<1>5. PICK x, l : x = f.first /\ l = f.end - f.first + 1
  OBVIOUS
<1>6. l \in Nat /\ \A i \in 1..l : x + i - 1 \in 1..Len(s)
  <2>1. p.start \in Nat /\ Len(s) \in Nat /\ p.start >= 1
    BY <1>1
  <2>2. Len(code) \in Int /\ Len(code) <= Len(s) - p.start + 1
    BY <1>1, <1>3
  <2>3. x = p.start - 1 + a /\ l = b - a + 1
    BY <1>4, <1>5, <2>1
  <2>4. ~(p.start - 1 + b < p.start - 1 + a)
    BY <1>4
  <2> QED BY <1>4, <2>1, <2>2, <2>3, <2>4
<1>7. ASSUME NEW i \in 1..l
      PROVE  [byte |-> p.bytes[x + i - 1], region |-> RegionAt(p, x + i - 1)] \in Pieces
  <2>1. p.bytes[x + i - 1] \in Bytes
    BY <1>1, <1>6
  <2>2. RegionAt(p, x + i - 1) \in RegionKinds \cup {"None"}
    BY RegionType
  <2> QED BY <2>1, <2>2 DEF Pieces
<1>8. Piece(p, f) = [i \in 1..l |-> [byte |-> p.bytes[x + i - 1], region |-> RegionAt(p, x + i - 1)]]
  BY <1>5, Zenon DEF Piece
<1>9. Piece(p, f) \in [1..l -> Pieces]
  <2> DEFINE R(i) == [byte |-> p.bytes[x + i - 1], region |-> RegionAt(p, x + i - 1)]
  <2>1. \A i \in 1..l : R(i) \in Pieces
    BY <1>7
  <2>2. Piece(p, f) = [i \in 1..l |-> R(i)]
    BY <1>8
  <2> HIDE DEF R
  <2> QED BY <2>1, <2>2
<1>10. Piece(p, f) \in Seq(Pieces) /\ Len(Piece(p, f)) = l
  BY <1>6, <1>9
<1>11. [byte |-> Blank, region |-> "None"] \in Pieces
  BY DEF Pieces, Bytes
<1>12. Space(joins, f) \in Seq(Pieces) /\ Len(Space(joins, f)) = IF joins /\ ~f.marker THEN 1 ELSE 0
  <2>1. PICK r : r = [byte |-> Blank, region |-> "None"]
    OBVIOUS
  <2>2. Space(joins, f) = IF joins /\ ~f.marker THEN <<r>> ELSE <<>>
    BY <2>1, Zenon DEF Space
  <2>3. <<r>> \in Seq(Pieces) /\ Len(<<r>>) = 1 /\ <<>> \in Seq(Pieces) /\ Len(<<>>) = 0
    BY <1>11, <2>1
  <2> QED BY <2>2, <2>3
<1> QED BY <1>5, <1>6, <1>10, <1>12

LEMMA JoinedType ==
    ASSUME NEW states \in [Streams -> LineStates], NEW s \in Seq(Bytes), NEW p,
           LineOf(p, states, s), NEW joins, NEW text \in Seq(Pieces)
    PROVE  Joined(text, p, joins) \in Seq(Pieces)
<1>1. PICK f : f = Fragment(p, joins)
  OBVIOUS
<1>2. CASE f.end < f.first
  <2>1. Joined(text, p, joins) = text
    BY <1>1, <1>2, JoinedIs
  <2> QED BY <2>1
<1>3. CASE ~(f.end < f.first)
  <2>1. Joined(text, p, joins) = text \o Space(joins, f) \o Piece(p, f)
    BY <1>1, <1>3, JoinedIs
  <2>2. Piece(p, f) \in Seq(Pieces) /\ Space(joins, f) \in Seq(Pieces)
    BY <1>1, <1>3, PieceType
  <2> QED BY <2>1, <2>2
<1> QED BY <1>2, <1>3

-----------------------------------------------------------------------------
(* The state between two lines *)

Opens == {"no", "code", Amp, Backslash}

Groups == [stream : Streams, code : BOOLEAN, eligible : BOOLEAN, text : Seq(Pieces),
           open : Opens, shapes : SUBSET Shapes]

WType ==
    /\ buffer \in [Streams -> LineStates]
    /\ trim \in [Streams -> Lexes] /\ wrap \in [Streams -> Lexes]
    /\ group \in Groups
    /\ group.code => group.open \in {"no", "code"}
    /\ group.eligible => group.code

LEMMA GroupOfType ==
    ASSUME NEW states, states = buffer, states \in [Streams -> LineStates],
           NEW s \in Seq(Bytes), NEW p, LineOf(p, states, s)
    PROVE  /\ GroupOf(p) \in Groups
           /\ GroupOf(p).code => GroupOf(p).open \in {"no", "code"}
           /\ GroupOf(p).eligible => GroupOf(p).code
<1>1. p.stream \in Streams
  BY LineStart
<1>2. <<>> \in Seq(Pieces)
  OBVIOUS
<1>3. Joined(<<>>, p, FALSE) \in Seq(Pieces)
  BY <1>2, JoinedType
<1> DEFINE op == IF p.kind \in {"Blank", "Comment"} THEN "no"
                 ELSE IF p.kind # "Preprocessor" THEN OpenAfter("no", p)
                 ELSE IF EndsWith(p.bytes, DirectiveMarker(p.bytes))
                 THEN DirectiveMarker(p.bytes) ELSE "no"
           tx == IF p.kind = "Code" THEN Joined(<<>>, p, FALSE) ELSE <<>>
           sh == IF \E st \in Streams : buffer[st].lex # Clean THEN {"open before"} ELSE {}
           co == p.kind \in {"Code", "FindentFix"}
<1>4. GroupOf(p) = [stream |-> p.stream, code |-> co, eligible |-> co,
                    text |-> tx, open |-> op, shapes |-> sh]
  BY Zenon DEF GroupOf
<1>5. op \in Opens /\ (co => op \in {"no", "code"})
  BY DEF OpenAfter, DirectiveMarker, Opens
<1>6. tx \in Seq(Pieces)
  BY <1>2, <1>3
<1>7. sh \in SUBSET Shapes
  BY DEF Shapes
<1>8. co \in BOOLEAN
  OBVIOUS
<1> HIDE DEF op, tx, sh, co
<1> QED BY <1>1, <1>4, <1>5, <1>6, <1>7, <1>8 DEF Groups

\* What joining a line makes of the fields of a group.
LEMMA GroupWithFields ==
    ASSUME NEW p, group \in Groups
    PROVE  /\ group.open # "code" =>
                /\ GroupWith(p).stream = group.stream /\ GroupWith(p).code = group.code
                /\ GroupWith(p).eligible = group.eligible /\ GroupWith(p).text = group.text
                /\ GroupWith(p).shapes = group.shapes
                /\ GroupWith(p).open = (IF EndsWith(CodeBytes(p), group.open) THEN group.open ELSE "no")
           /\ group.open = "code" =>
                /\ GroupWith(p).stream = group.stream /\ GroupWith(p).code = group.code
                /\ GroupWith(p).eligible = (group.eligible /\ ~Skipped(p))
                /\ GroupWith(p).text = (IF Skipped(p) THEN group.text ELSE Joined(group.text, p, TRUE))
                /\ GroupWith(p).shapes = group.shapes \cup ShapesOf(p, group.text)
                /\ GroupWith(p).open = OpenAfter(group.open, p)
           /\ GroupWith(p) = [stream |-> GroupWith(p).stream, code |-> GroupWith(p).code,
                              eligible |-> GroupWith(p).eligible, text |-> GroupWith(p).text,
                              open |-> GroupWith(p).open, shapes |-> GroupWith(p).shapes]
<1>1. PICK g : g = group
  OBVIOUS
<1>2. g \in [stream : Streams, code : BOOLEAN, eligible : BOOLEAN, text : Seq(Pieces),
             open : Opens, shapes : SUBSET Shapes]
  BY <1>1 DEF Groups
<1>3. CASE g.open # "code"
  <2>1. PICK o : o = IF EndsWith(CodeBytes(p), g.open) THEN g.open ELSE "no"
    OBVIOUS
  <2>2. GroupWith(p) = [g EXCEPT !.open = o]
    BY <1>1, <1>3, <2>1 DEF GroupWith
  <2> QED BY <1>1, <1>2, <1>3, <2>1, <2>2
<1>4. CASE g.open = "code"
  <2>1. PICK o, e, t, sh : /\ o = OpenAfter(g.open, p) /\ e = (g.eligible /\ ~Skipped(p))
                           /\ t = IF Skipped(p) THEN g.text ELSE Joined(g.text, p, TRUE)
                           /\ sh = g.shapes \cup ShapesOf(p, g.text)
    OBVIOUS
  <2>2. GroupWith(p) = [g EXCEPT !.open = o, !.eligible = e, !.text = t, !.shapes = sh]
    BY <1>1, <1>4, <2>1 DEF GroupWith
  <2> QED BY <1>1, <1>2, <1>4, <2>1, <2>2
<1> QED BY <1>3, <1>4

LEMMA GroupWithType ==
    ASSUME group \in Groups, group.code => group.open \in {"no", "code"},
           group.eligible => group.code, ~AtBoundary,
           NEW states \in [Streams -> LineStates], NEW s \in Seq(Bytes), NEW p,
           LineOf(p, states, s)
    PROVE  /\ GroupWith(p) \in Groups
           /\ GroupWith(p).code => GroupWith(p).open \in {"no", "code"}
           /\ GroupWith(p).eligible => GroupWith(p).code
<1>1. /\ group.stream \in Streams /\ group.code \in BOOLEAN /\ group.eligible \in BOOLEAN
      /\ group.text \in Seq(Pieces) /\ group.open \in Opens /\ group.shapes \in SUBSET Shapes
  BY DEF Groups
<1>2. Joined(group.text, p, TRUE) \in Seq(Pieces)
  BY <1>1, JoinedType
<1>3. PICK h : h = GroupWith(p)
  OBVIOUS
<1>4. ShapesOf(p, group.text) \in SUBSET Shapes
  BY DEF ShapesOf
<1>5. Skipped(p) \in BOOLEAN
  BY DEF Skipped
<1>6. /\ h.stream \in Streams /\ h.code \in BOOLEAN /\ h.eligible \in BOOLEAN
      /\ h.text \in Seq(Pieces) /\ h.open \in Opens /\ h.shapes \in SUBSET Shapes
      /\ h.code => h.open \in {"no", "code"}
      /\ h.eligible => h.code
  <2>1. CASE group.open # "code"
    <3>1. /\ h.stream = group.stream /\ h.code = group.code
          /\ h.eligible = group.eligible /\ h.text = group.text
          /\ h.shapes = group.shapes
          /\ h.open = (IF EndsWith(CodeBytes(p), group.open) THEN group.open ELSE "no")
      BY <1>3, <2>1, GroupWithFields
    <3> QED BY <1>1, <2>1, <3>1 DEF Opens, AtBoundary
  <2>2. CASE group.open = "code"
    <3>1. /\ h.stream = group.stream /\ h.code = group.code
          /\ h.eligible = (group.eligible /\ ~Skipped(p))
          /\ h.text = (IF Skipped(p) THEN group.text ELSE Joined(group.text, p, TRUE))
          /\ h.shapes = group.shapes \cup ShapesOf(p, group.text)
          /\ h.open = OpenAfter(group.open, p)
      BY <1>3, <2>2, GroupWithFields
    <3>2. h.open \in {"no", "code"}
      BY <2>2, <3>1 DEF OpenAfter
    <3> QED BY <1>1, <1>2, <1>4, <1>5, <3>1, <3>2 DEF Opens
  <2> QED BY <2>1, <2>2
<1>7. h = [stream |-> h.stream, code |-> h.code, eligible |-> h.eligible, text |-> h.text,
           open |-> h.open, shapes |-> h.shapes]
  BY <1>3, GroupWithFields
<1>8. h \in Groups
  BY <1>6, <1>7 DEF Groups
<1> QED BY <1>3, <1>6, <1>8
-----------------------------------------------------------------------------
(* One line through the buffer and the passes *)

Moves(p, s) ==
    /\ Take(p) /\ Trim(s) /\ SearchComment(p) /\ NormalizeMarkers(p)
    /\ odd' = odd \cup OddOf(p)

LEMMA LinesAreBytes == \A s \in Lines : s \in Seq(Bytes)
BY LinesAssumption

LEMMA StepIs ==
    ASSUME NEW s \in Lines, WalkLine(s)
    PROVE  \E p : LineOf(p, buffer, s) /\ Moves(p, s)
<1>1. PICK p : p = PhysicalLine(buffer, s)
  OBVIOUS
<1>2. LineOf(p, buffer, s)
  BY <1>1, LineFields
<1>3. Moves(p, s)
  BY <1>1, Zenon DEF WalkLine, Moves
<1> QED BY <1>2, <1>3

LEMMA TrimTyped ==
    ASSUME NEW s \in Seq(Bytes), trim \in [Streams -> Lexes], Trim(s)
    PROVE  trim' \in [Streams -> Lexes]
<1>1. TrimStream(s) \in Streams
  BY DEF TrimStream, Streams
<1>2. PICK lex : lex = trim[TrimStream(s)]
  OBVIOUS
<1>3. Enterable(lex)
  BY <1>1, <1>2, LexesFacts
<1>4. From(s, TrimStart(s)) \in Seq(Bytes)
  <2>1. TrimStart(s) \in 1..Len(s) + 1
    <3>1. CASE Prefix(s) = "BlankSeparated"
      <4>1. FirstInk(s) + 2 <= Len(s) /\ FirstInk(s) \in 1..Len(s) + 1 /\ Len(s) \in Nat
        BY <3>1, PrefixShape, InkType
      <4>2. TrimStart(s) = FirstInk(s) + 3
        BY <3>1 DEF TrimStart, BodyStart
      <4> QED BY <4>1, <4>2
    <3>2. CASE Prefix(s) # "BlankSeparated"
      BY <3>2 DEF TrimStart
    <3> QED BY <3>1, <3>2
  <2> QED BY <2>1, FromFacts
<1>5. Enterable(GroupLine(lex, From(s, TrimStart(s))).lex)
  BY <1>3, <1>4, GroupLineTyped
<1>6. TrimScan(s).lex \in Lexes
  BY <1>2, <1>5, LexesFacts DEF TrimScan
<1>7. trim' = [trim EXCEPT ![TrimStream(s)] = TrimScan(s).lex]
  BY DEF Trim
<1> QED BY <1>6, <1>7

LEMMA SearchTyped ==
    ASSUME NEW states \in [Streams -> LineStates], NEW s \in Seq(Bytes), NEW p,
           LineOf(p, states, s), wrap \in [Streams -> Lexes], SearchComment(p)
    PROVE  wrap' \in [Streams -> Lexes] /\ SearchStates \in [Streams -> Lexes]
<1>1. p.stream \in Streams /\ p.bytes = s /\ p.start \in 1..Len(s) + 1
  BY LineStart
<1>2. SearchStates \in [Streams -> Lexes]
  <2>1. Clean \in Lexes
    BY CleanEnterable, LexesFacts
  <2> QED BY <2>1 DEF SearchStates
<1>3. PICK lex : lex = SearchStates[p.stream]
  OBVIOUS
<1>4. Enterable(lex)
  BY <1>1, <1>2, <1>3, LexesFacts
<1>5. PICK body : body = From(p.bytes, SearchStart(p))
  OBVIOUS
<1>6. body \in Seq(Bytes)
  <2>1. SearchStart(p) \in 1..Len(s) + 1
    BY <1>1 DEF SearchStart
  <2> QED BY <1>1, <1>5, <2>1, FromFacts
<1>7. GroupLine(lex, body).lex \in Lexes
  BY <1>4, <1>6, GroupLineTyped, LexesFacts
<1>8. wrap' = [SearchStates EXCEPT ![p.stream] = GroupLine(lex, body).lex] \/ wrap' = SearchStates
  BY <1>3, <1>5, Zenon DEF SearchComment
<1> QED BY <1>2, <1>7, <1>8

Step12s == [continuation : BOOLEAN, lex : Lexes, open : Streams \cup {"none"}]

\* What step 12 does with a line, by the buffer's own reading of a line.
Step12With(p, line) ==
    [continuation |-> line.continued, lex |-> line.lex,
     open |-> IF line.continued THEN p.stream ELSE "none"]

LEMMA Step12Is ==
    ASSUME NEW p, NormalizeMarkers(p)
    PROVE  /\ PassedOver(p) => step12' = step12 /\ marks' = {}
           /\ ~PassedOver(p) => step12' = Step12With(p, ScanLine(step12.lex, BodyOf(p)))
<1>1. CASE PassedOver(p)
  BY <1>1 DEF NormalizeMarkers
<1>2. CASE ~PassedOver(p)
  <2>1. PICK t, scan : t = BodyOf(p) /\ scan = Scan(step12.lex, t)
    OBVIOUS
  <2>2. step12' = [continuation |-> Continued(t, scan),
                   lex |-> IF Continued(t, scan) THEN scan.lex ELSE Clean,
                   open |-> IF Continued(t, scan) THEN p.stream ELSE "none"]
    BY <1>2, <2>1, Zenon DEF NormalizeMarkers, BodyOf
  <2>3. PICK line : line = ScanLine(step12.lex, t)
    OBVIOUS
  <2>4. line.continued = Continued(t, scan)
        /\ line.lex = IF Continued(t, scan) THEN scan.lex ELSE Clean
    BY <2>1, <2>3 DEF ScanLine
  <2> QED BY <1>2, <2>1, <2>2, <2>3, <2>4, Zenon DEF Step12With
<1> QED BY <1>1, <1>2

LEMMA Step12Typed ==
    ASSUME NEW states \in [Streams -> LineStates], NEW s \in Seq(Bytes), NEW p,
           LineOf(p, states, s), step12 \in Step12s, NormalizeMarkers(p)
    PROVE  step12' \in Step12s
<1>1. CASE PassedOver(p)
  BY <1>1, Step12Is
<1>2. CASE ~PassedOver(p)
  <2>1. PICK lex, line : lex = step12.lex /\ line = ScanLine(lex, BodyOf(p))
    OBVIOUS
  <2>2. p.stream \in Streams /\ BodyOf(p) \in Seq(Bytes)
    BY LineStart, FromFacts DEF BodyOf
  <2>3. Enterable(lex)
    BY <2>1, LexesFacts DEF Step12s
  <2>4. Enterable(line.lex) /\ line.continued \in BOOLEAN
    BY <2>1, <2>2, <2>3, ScanLineTyped
  <2>5. line.lex \in Lexes
    BY <2>4, LexesFacts
  <2>6. step12' = Step12With(p, line)
    BY <1>2, <2>1, Step12Is
  <2> QED BY <2>2, <2>4, <2>5, <2>6 DEF Step12With, Step12s
<1> QED BY <1>1, <1>2

LEMMA WTypeInit ==
    ASSUME WInit
    PROVE  WType /\ step12 \in Step12s
<1>1. Clean \in Lexes
  BY CleanEnterable, LexesFacts
<1>2. buffer \in [Streams -> LineStates]
  BY <1>1 DEF WInit, Init, LineStates
<1>3. trim \in [Streams -> Lexes] /\ wrap \in [Streams -> Lexes]
  BY <1>1 DEF WInit
<1>4. group = NoGroup
  BY DEF WInit, Init
<1>5. group \in Groups /\ ~group.code /\ ~group.eligible
  BY <1>4 DEF NoGroup, Groups, Opens, Streams, Shapes
<1>6. step12 \in Step12s
  BY <1>1 DEF WInit, Step12s
<1> QED BY <1>2, <1>3, <1>5, <1>6 DEF WType

LEMMA WTypeStep ==
    ASSUME WType, step12 \in Step12s, NEW s \in Seq(Bytes), NEW p, LineOf(p, buffer, s),
           Moves(p, s)
    PROVE  WType' /\ step12' \in Step12s
<1>1. PICK states : states = buffer
  OBVIOUS
<1>2. states \in [Streams -> LineStates] /\ LineOf(p, states, s)
  BY <1>1 DEF WType
<1>3. p.stream \in Streams
  BY <1>2, LineStart
<1>4. buffer' \in [Streams -> LineStates]
  <2>1. p.state \in LineStates
    BY <1>2, LineTyped
  <2>2. buffer' = [buffer EXCEPT ![p.stream] = p.state]
    BY DEF Moves, Take
  <2> QED BY <2>1, <2>2 DEF WType
<1>5. trim' \in [Streams -> Lexes]
  BY TrimTyped DEF WType, Moves
<1>6. wrap' \in [Streams -> Lexes]
  BY <1>2, SearchTyped DEF WType, Moves
<1>7. step12' \in Step12s
  BY <1>2, Step12Typed DEF Moves
<1>8. /\ group' \in Groups
      /\ group'.code => group'.open \in {"no", "code"}
      /\ group'.eligible => group'.code
  <2>1. CASE AtBoundary
    <3>1. group' = GroupOf(p)
      BY <2>1 DEF Moves, Take
    <3>2. /\ GroupOf(p) \in Groups
          /\ GroupOf(p).code => GroupOf(p).open \in {"no", "code"}
          /\ GroupOf(p).eligible => GroupOf(p).code
      BY <1>1, <1>2, GroupOfType
    <3> QED BY <3>1, <3>2
  <2>2. CASE ~AtBoundary
    <3>1. group' = GroupWith(p)
      BY <2>2 DEF Moves, Take
    <3>2. /\ GroupWith(p) \in Groups
          /\ GroupWith(p).code => GroupWith(p).open \in {"no", "code"}
          /\ GroupWith(p).eligible => GroupWith(p).code
      BY <1>2, <2>2, GroupWithType DEF WType
    <3> QED BY <3>1, <3>2
  <2> QED BY <2>1, <2>2
<1> QED BY <1>4, <1>5, <1>6, <1>7, <1>8 DEF WType
-----------------------------------------------------------------------------
(* The search for a comment *)

Searched == group.eligible /\ group.shapes \subseteq {"two streams", "split head"}

SearchOK ==
    Searched => (\A st \in Streams : wrap[st] = buffer[st].lex) /\ found = last.comment

LEMMA SearchedLine ==
    ASSUME WType, SearchOK, NEW s \in Seq(Bytes), NEW p, LineOf(p, buffer, s), Moves(p, s),
           Searched'
    PROVE  /\ Lexed(p) /\ Resumes(buffer[p.stream].lex, BodyOf(p))
           /\ \A st \in Streams : SearchStates[st] = buffer[st].lex
<1>1. p.stream \in Streams /\ p.kind \in LineKinds
  BY LineShape
<1>2. CASE AtBoundary
  <2>1. group' = GroupOf(p)
    BY <1>2 DEF Moves, Take
  <2>2. /\ GroupOf(p).eligible = (p.kind \in {"Code", "FindentFix"})
        /\ GroupOf(p).shapes = IF \E st \in Streams : buffer[st].lex # Clean
                               THEN {"open before"} ELSE {}
    BY Zenon DEF GroupOf
  <2>3. Lexed(p)
    BY <2>1, <2>2 DEF Searched, Lexed
  <2>4. \A st \in Streams : buffer[st].lex = Clean
    BY <2>1, <2>2 DEF Searched
  <2>5. Resumes(buffer[p.stream].lex, BodyOf(p))
    <3>1. ~InLiteral(Clean)
      BY DEF InLiteral, Clean
    <3> QED BY <1>1, <2>4, <3>1 DEF Resumes
  <2>6. \A st \in Streams : SearchStates[st] = Clean
    BY <1>2 DEF SearchStates
  <2> QED BY <2>3, <2>4, <2>5, <2>6
<1>3. CASE ~AtBoundary
  <2>1. group' = GroupWith(p)
    BY <1>3 DEF Moves, Take
  <2>2. group \in Groups
    BY DEF WType
  <2>3. GroupWith(p).eligible => group.eligible
    BY <2>2, GroupWithFields
  <2>4. group.eligible
    BY <2>1, <2>3 DEF Searched
  <2>5. group.open = "code"
    BY <1>3, <2>4 DEF WType, AtBoundary
  <2>6. /\ GroupWith(p).eligible = (group.eligible /\ ~Skipped(p))
        /\ GroupWith(p).shapes = group.shapes \cup ShapesOf(p, group.text)
    BY <2>2, <2>5, GroupWithFields
  <2>7. ~Skipped(p) /\ group.shapes \cup ShapesOf(p, group.text) \subseteq {"two streams", "split head"}
    BY <2>1, <2>6 DEF Searched
  <2>8. Lexed(p)
    BY <1>1, <2>7 DEF Skipped, Lexed, LineKinds
  <2>9. Resumes(buffer[p.stream].lex, BodyOf(p))
    <3>1. "bare resume" \notin ShapesOf(p, group.text)
      BY <2>7
    <3> QED BY <2>7, <3>1 DEF ShapesOf, Shapes, BodyOf
  <2>10. \A st \in Streams : wrap[st] = buffer[st].lex
    BY <2>4, <2>7 DEF SearchOK, Searched
  <2> QED BY <1>3, <2>8, <2>9, <2>10 DEF SearchStates
<1> QED BY <1>2, <1>3

LEMMA SearchStep ==
    ASSUME WType, SearchOK, NEW s \in Seq(Bytes), NEW p, LineOf(p, buffer, s), Moves(p, s)
    PROVE  SearchOK'
<1> SUFFICES ASSUME Searched'
             PROVE  (\A st \in Streams : wrap'[st] = buffer'[st].lex) /\ found' = last'.comment
  BY DEF SearchOK, Searched
<1>1. PICK states : states = buffer
  OBVIOUS
<1>2. states \in [Streams -> LineStates] /\ LineOf(p, states, s)
  BY <1>1 DEF WType
<1>3. /\ Lexed(p) /\ Resumes(buffer[p.stream].lex, BodyOf(p))
      /\ \A st \in Streams : SearchStates[st] = buffer[st].lex
  BY SearchedLine
<1>4. PICK lex, body : lex = states[p.stream].lex /\ body = From(s, SearchStart(p))
  OBVIOUS
<1>5. p.stream \in Streams /\ p.bytes = s
  BY <1>2, LineStart
<1>6. /\ Resumes(lex, body) /\ GroupLine(lex, body).lex = p.state.lex
      /\ p.comment = IF GroupLine(lex, body).comment > 0
                     THEN SearchStart(p) - 1 + GroupLine(lex, body).comment ELSE 0
  BY <1>1, <1>2, <1>3, <1>4, SearchSame
<1>7. SearchStates[p.stream] = lex /\ From(p.bytes, SearchStart(p)) = body
  BY <1>1, <1>3, <1>4, <1>5
<1>8. /\ found' = (IF GroupLine(lex, body).comment > 0
                   THEN SearchStart(p) - 1 + GroupLine(lex, body).comment ELSE 0)
      /\ wrap' = [SearchStates EXCEPT ![p.stream] = GroupLine(lex, body).lex]
  BY <1>6, <1>7, Zenon DEF Moves, SearchComment
<1>9. buffer' = [buffer EXCEPT ![p.stream] = p.state] /\ last' = p
  BY DEF Moves, Take
<1>10. SearchStates \in [Streams -> Lexes] /\ buffer \in [Streams -> LineStates]
  BY <1>2, SearchTyped DEF WType, Moves
<1>11. ASSUME NEW st \in Streams
       PROVE  wrap'[st] = buffer'[st].lex
  <2>1. CASE st = p.stream
    BY <1>5, <1>6, <1>8, <1>9, <1>10, <2>1
  <2>2. CASE st # p.stream
    <3>1. wrap'[st] = SearchStates[st] /\ buffer'[st] = buffer[st]
      BY <1>8, <1>9, <1>10, <2>2
    <3> QED BY <1>3, <3>1
  <2> QED BY <2>1, <2>2
<1> QED BY <1>6, <1>8, <1>9, <1>11
-----------------------------------------------------------------------------
(* The markers of step 12 *)

\* A fix line leaves the literal of its stream as it was, and continues nothing.
LEMMA FixKeeps ==
    ASSUME NEW states \in [Streams -> LineStates], NEW s \in Seq(Bytes), NEW p,
           LineOf(p, states, s), p.kind = "FindentFix"
    PROVE  p.stream = "Ordinary" /\ p.state = [lex |-> states[p.stream].lex, continued |-> FALSE]
<1>1. /\ p.stream = "Ordinary" /\ p.start = FirstInk(s) /\ s[FirstInk(s)] = Bang
      /\ p.bytes = s /\ p.start \in 1..Len(s) + 1 /\ p.start # Len(s) + 1
      /\ SteppedOver(s)
  <2>1. p.stream = "Ordinary" /\ p.bytes = s /\ p.stream \in Streams /\ p.start \in 1..Len(s) + 1
    BY LineShape, LineStart DEF Streams
  <2>2. p.start = FirstInk(s) /\ s[FirstInk(s)] = Bang
        /\ (p.kind = "Blank" <=> FirstInk(s) > Len(s)) /\ (p.kind = "Code" <=> ~SteppedOver(s))
    BY <2>1, LineShape
  <2> QED BY <2>1, <2>2, InkType
<1>2. PICK lex, t : lex = states[p.stream].lex /\ t = BodyOf(p)
  OBVIOUS
<1>3. Enterable(lex) /\ p.stream \in Streams
  BY <1>1, <1>2, LexesFacts DEF LineStates, Streams
<1>4. /\ t \in Seq(Bytes) /\ Len(t) = Len(s) - p.start + 1 /\ Len(s) \in Nat
      /\ \A j \in 1..Len(t) : t[j] = s[p.start - 1 + j]
      /\ DOMAIN t = 1..Len(t)
  <2>1. t = From(s, p.start) /\ p.start \in 1..Len(s) + 1
    BY <1>1, <1>2 DEF BodyOf
  <2>2. /\ t \in Seq(Bytes) /\ Len(t) = Len(s) - p.start + 1
        /\ \A j \in 1..Len(s) - p.start + 1 : t[j] = s[(p.start - 1) + j]
        /\ DOMAIN t = 1..Len(t)
    BY <2>1, FromFacts
  <2>3. Len(s) \in Nat
    BY InkType
  <2> QED BY <2>2, <2>3, Zenon
<1>5. Len(t) \in Nat /\ Len(t) >= 1 /\ t[1] = Bang
  BY <1>1, <1>4
<1>6. ~p.transparent /\ p.state = [lex |-> GroupLine(lex, t).lex, continued |-> GroupLine(lex, t).continued]
  <2>1. ScanOf(p, states) = GroupLine(lex, t)
    BY <1>1, <1>2 DEF ScanOf, StreamLine
  <2>2. ~p.transparent
    BY <1>1 DEF LineOf
  <2>3. Lexed(p)
    BY DEF Lexed
  <2> QED BY <2>1, <2>2, <2>3 DEF LineOf
<1>7. GroupLine(lex, t).lex = lex /\ GroupLine(lex, t).continued = FALSE
  <2>1. CASE lex # Clean /\ SteppedOver(t)
    BY <2>1, GroupLineIs
  <2>2. CASE ~(lex # Clean /\ SteppedOver(t))
    <3>1. GroupLine(lex, t) = ScanLine(lex, t)
      BY <2>2, GroupLineIs
    <3>2. SteppedOver(t)
      <4>1. From(s, (p.start - 1) + 1) = t /\ p.start - 1 \in 0..Len(s)
            /\ \A j \in 1..(p.start - 1) : s[j] = Blank
        BY <1>1, <1>2, InkType DEF BodyOf
      <4>2. SteppedOver(t) <=> SteppedOver(s)
        BY <4>1, InkSuffix
      <4> QED BY <1>1, <4>2
    <3>3. lex = Clean
      BY <2>2, <3>2
    <3>4. PICK mu : mu = Run(ModeOf(lex), t)
      OBVIOUS
    <3>5. IsRun(mu, ModeOf(lex), t) /\ LineReads(ScanLine(lex, t), mu, t)
      BY <1>3, <1>4, <1>5, <3>4, ScanLineReads
    <3>6. ModeOf(lex) = "Code"
      BY <3>3 DEF ModeOf, Clean, NoQuote
    <3>7. mu[1] = "Comment"
      <4>1. mu[0] = "Code" /\ mu[1] = After(mu[0], Bang, Named(t, 1))
        BY <1>5, <3>5, <3>6 DEF IsRun
      <4> QED BY <4>1, QuoteFacts DEF After, CodeAfter
    <3>8. \A j \in 1..Len(t) : mu[j] = "Comment"
      BY <1>5, <3>5, <3>7, CommentStays
    <3>9. ~Marked(mu, t)
      <4> SUFFICES ASSUME NEW i, MarkAt(mu, t, i)
                   PROVE  FALSE
        BY DEF Marked
      <4>1. i \in 1..Len(t) /\ mu[i] \in {"Code"} \cup Quotes
        BY <1>5, <3>5, MarkKeeps
      <4> QED BY <3>8, <4>1, QuoteFacts
    <3>10. ScanLine(lex, t).continued = FALSE /\ ScanLine(lex, t).lex = LexOf("Code")
      BY <3>5, <3>9 DEF LineReads
    <3> QED BY <3>1, <3>3, <3>10, LexOfFacts
  <2> QED BY <2>1, <2>2
<1> QED BY <1>1, <1>2, <1>6, <1>7
MarkStates ==
    /\ step12.open = "none" => step12.lex = Clean
    /\ \A st \in Streams : step12.open = st => step12.lex = buffer[st].lex
    /\ \A st \in Streams : Open(buffer[st]) => step12.open = st

Matched == odd \subseteq {"compact", "open directive"}

MarkOK == Matched => MarkStates

\* Step 12 reads the next line from the state the buffer is in.
LEMMA MarkedLine ==
    ASSUME WType, step12 \in Step12s, MarkStates, NEW s \in Seq(Bytes), NEW p,
           LineOf(p, buffer, s), Moves(p, s), Matched', ~PassedOver(p)
    PROVE  /\ p.kind = "Code" /\ step12.lex = buffer[p.stream].lex
           /\ Resumes(buffer[p.stream].lex, BodyOf(p))
           /\ step12.open \in {"none", p.stream}
<1>1. p.kind = "Code" /\ step12.open \in {"none", p.stream}
  BY DEF PassedOver
<1>2. p.stream \in Streams
  BY LineStart
<1>3. Resumes(buffer[p.stream].lex, BodyOf(p))
  <2>1. OddOf(p) \subseteq {"compact", "open directive"}
    BY DEF Matched, Moves
  <2>2. "resume" \notin OddOf(p)
    BY <2>1
  <2> QED BY <1>1, <2>2 DEF OddOf, OddShapes, BodyOf
<1>4. step12.lex = buffer[p.stream].lex
  <2>1. CASE step12.open = "none"
    <3>1. step12.lex = Clean
      BY <2>1 DEF MarkStates
    <3>2. ~Open(buffer[p.stream])
      BY <1>2, <2>1 DEF MarkStates, Streams
    <3> QED BY <3>1, <3>2 DEF Open
  <2>2. CASE step12.open = p.stream
    BY <1>2, <2>2 DEF MarkStates
  <2> QED BY <1>1, <2>1, <2>2
<1> QED BY <1>1, <1>3, <1>4

\* A code line of the buffer, read from a state whose literal it resumes.
LEMMA ResumedState ==
    ASSUME NEW states \in [Streams -> LineStates], NEW s \in Seq(Bytes), NEW p,
           LineOf(p, states, s), p.kind = "Code", NEW lex, lex = states[p.stream].lex,
           Resumes(lex, BodyOf(p))
    PROVE  /\ Enterable(lex) /\ BodyOf(p) \in Seq(Bytes)
           /\ p.state = [lex |-> ScanLine(lex, BodyOf(p)).lex,
                         continued |-> ScanLine(lex, BodyOf(p)).continued]
           /\ p.continues = ScanLine(lex, BodyOf(p)).continued
           /\ ScanLine(lex, BodyOf(p)).continued \in BOOLEAN
           /\ ~ScanLine(lex, BodyOf(p)).continued => ScanLine(lex, BodyOf(p)).lex = Clean
<1>1. /\ Enterable(lex) /\ BodyOf(p) \in Seq(Bytes)
      /\ ~p.transparent /\ ScanOf(p, states) = ScanLine(lex, BodyOf(p))
  BY CodeScan
<1>2. ScanLine(lex, BodyOf(p)).continued \in BOOLEAN
  BY <1>1, ScanLineTyped
<1>3. ~ScanLine(lex, BodyOf(p)).continued => ScanLine(lex, BodyOf(p)).lex = Clean
  BY DEF ScanLine
<1>4. Lexed(p)
  BY DEF Lexed
<1>5. /\ p.state = [lex |-> ScanOf(p, states).lex, continued |-> ScanOf(p, states).continued]
      /\ p.continues = (Lexed(p) /\ ScanOf(p, states).continued)
  BY <1>1, <1>4 DEF LineOf
<1> QED BY <1>1, <1>2, <1>3, <1>4, <1>5

LEMMA MarkStep ==
    ASSUME WType, step12 \in Step12s, MarkOK, NEW s \in Seq(Bytes), NEW p,
           LineOf(p, buffer, s), Moves(p, s)
    PROVE  MarkOK'
<1> SUFFICES ASSUME Matched'
             PROVE  MarkStates'
  BY DEF MarkOK
<1>1. MarkStates
  <2>1. odd \subseteq odd'
    BY DEF Moves
  <2> QED BY <2>1 DEF Matched, MarkOK
<1>2. /\ p.stream \in Streams /\ "none" \notin Streams /\ p.kind \in LineKinds
      /\ buffer' = [buffer EXCEPT ![p.stream] = p.state] /\ buffer \in [Streams -> LineStates]
  BY LineShape DEF Streams, Moves, Take, WType
<1>3. /\ \A st \in Streams : buffer'[st] = IF st = p.stream THEN p.state ELSE buffer[st]
  BY <1>2
<1>4. ASSUME p.kind # "Code"
      PROVE  MarkStates'
  <2>1. step12' = step12
    BY <1>4, Step12Is DEF PassedOver, Moves
  <2>2. \/ p.state = buffer[p.stream]
        \/ p.state = [lex |-> buffer[p.stream].lex, continued |-> FALSE]
    <3>1. CASE p.kind = "FindentFix"
      BY <1>2, <3>1, FixKeeps
    <3>2. CASE p.kind # "FindentFix"
      <4>1. ~Lexed(p)
        BY <1>4, <3>2 DEF Lexed
      <4> QED BY <4>1 DEF LineOf
    <3> QED BY <3>1, <3>2
  <2>3. p.state.lex = buffer[p.stream].lex /\ (Open(p.state) => Open(buffer[p.stream]))
    BY <2>2 DEF Open
  <2>4. \A st \in Streams : buffer'[st].lex = buffer[st].lex
                            /\ (Open(buffer'[st]) => Open(buffer[st]))
    BY <1>3, <2>3
  <2> QED BY <1>1, <2>1, <2>4 DEF MarkStates, Open
<1>5. ASSUME p.kind = "Code", PassedOver(p)
      PROVE  MarkStates'
  <2>1. step12' = step12
    BY <1>5, Step12Is DEF Moves
  <2>2. step12.open # "none" /\ step12.open # p.stream /\ step12.open \in Streams
    BY <1>5 DEF PassedOver, Step12s
  <2>3. ~Open(p.state)
    <3> SUFFICES ASSUME Open(p.state)
                 PROVE  FALSE
      OBVIOUS
    <3>1. Awaited(step12.open)
      BY DEF Awaited
    <3>2. "both streams" \in OddOf(p)
      BY <2>2, <3>1 DEF OddOf, OddShapes
    <3> QED BY <3>2 DEF Matched, Moves
  <2>4. \A st \in Streams : Open(buffer'[st]) => Open(buffer[st])
    BY <1>3, <2>3 DEF Open
  <2>5. \A st \in Streams : step12.open = st => buffer'[st] = buffer[st]
    BY <1>3, <2>2
  <2> QED BY <1>1, <2>1, <2>4, <2>5 DEF MarkStates, Open
<1>6. ASSUME ~PassedOver(p)
      PROVE  MarkStates'
  <2>1. /\ p.kind = "Code" /\ step12.lex = buffer[p.stream].lex
        /\ Resumes(buffer[p.stream].lex, BodyOf(p))
        /\ step12.open \in {"none", p.stream}
    BY <1>1, <1>6, MarkedLine
  <2>2. PICK states, lex, line : /\ states = buffer /\ lex = states[p.stream].lex
                                 /\ line = ScanLine(lex, BodyOf(p))
    OBVIOUS
  <2>3. /\ p.state = [lex |-> line.lex, continued |-> line.continued]
        /\ line.continued \in BOOLEAN /\ (~line.continued => line.lex = Clean)
    BY <1>2, <2>1, <2>2, ResumedState
  <2>4. step12' = Step12With(p, line)
    BY <1>6, <2>1, <2>2, Step12Is DEF Moves
  <2>5. step12'.lex = line.lex
        /\ step12'.open = (IF line.continued THEN p.stream ELSE "none")
    BY <2>4 DEF Step12With
  <2>6. Open(p.state) => line.continued
    BY <2>3 DEF Open
  <2>7. \A st \in Streams : st # p.stream => buffer'[st] = buffer[st] /\ ~Open(buffer[st])
    BY <1>1, <1>2, <1>3, <2>1 DEF MarkStates
  <2>8. buffer'[p.stream] = p.state /\ p.state.lex = line.lex
    BY <1>2, <1>3, <2>3
  <2>9. ASSUME NEW st \in Streams, Open(buffer'[st])
        PROVE  step12'.open = st
    <3>1. st = p.stream
      BY <2>7, <2>9 DEF Open
    <3> QED BY <2>5, <2>6, <2>8, <2>9, <3>1 DEF Open
  <2>10. ASSUME NEW st \in Streams, step12'.open = st
         PROVE  step12'.lex = buffer'[st].lex
    BY <1>2, <2>5, <2>8, <2>10
  <2>11. step12'.open = "none" => step12'.lex = Clean
    BY <1>2, <2>3, <2>5
  <2> QED BY <2>9, <2>10, <2>11 DEF MarkStates, Open
<1> QED BY <1>4, <1>5, <1>6 DEF PassedOver

LEMMA RegionIs ==
    ASSUME NEW p, p.start \in Nat, NEW n \in Nat, DOMAIN p.regions = 1..n, NEW j \in 1..n
    PROVE  RegionAt(p, p.start - 1 + j) = p.regions[j]
<1>1. PICK x : x = p.start - 1 + j
  OBVIOUS
<1>2. x - p.start + 1 = j
  BY <1>1
<1> QED BY <1>1, <1>2 DEF RegionAt

\* A marker that may be rewritten is code to the buffer.
LEMMA LeadingIsCode ==
    ASSUME NEW states \in [Streams -> LineStates], NEW s \in Seq(Bytes), NEW p,
           LineOf(p, states, s), p.kind = "Code", NEW lex, Enterable(lex), ~InLiteral(lex),
           ScanOf(p, states) = ScanLine(lex, BodyOf(p)), MarkerAt(p, "leading") > 0
    PROVE  RegionAt(p, MarkerAt(p, "leading")) = "Code"
<1>1. PICK t, mu, code, at : /\ t = BodyOf(p) /\ mu = Run(ModeOf(lex), t)
                             /\ code = CodeBytes(p) /\ at = FirstInk(code)
  OBVIOUS
<1>2. /\ t \in Seq(Bytes) /\ Len(t) = Len(s) - p.start + 1
      /\ IsRun(mu, ModeOf(lex), t)
      /\ Len(p.regions) = Len(t) /\ p.regions \in Seq(RegionKinds)
      /\ \A j \in 1..Len(t) : p.regions[j] = Reads(mu, t, j)
      /\ Len(code) \in 0..Len(t)
      /\ \A j \in 1..Len(code) : code[j] = t[j]
  BY <1>1, CodeRun
<1>3. code \in Seq(Bytes) /\ p.start \in Nat
  BY <1>1, CodeBytesFacts, LineStart
<1>4. Len(t) \in Nat /\ DOMAIN code = 1..Len(code)
      /\ \A j \in 1..(at - 1) : code[j] = Blank
  BY <1>1, <1>2, <1>3, InkType
<1>5. /\ at \in 1..Len(code) /\ code[at] = Amp /\ MarkerAt(p, "leading") = p.start - 1 + at
  BY <1>1, <1>4 DEF MarkerAt
<1>6. ModeOf(lex) = "Code"
  BY LexOfFacts DEF ModeOf, InLiteral, Enterable
<1>7. mu[0] = "Code"
  BY <1>2, <1>6 DEF IsRun
<1>8. \A j \in 0..(at - 1) : mu[j] = mu[0]
  <2>1. PICK a, b : a = 0 /\ b = at - 1
    OBVIOUS
  <2>2. a \in Nat /\ b \in Nat /\ a <= b /\ b <= Len(t) /\ mu[a] # "Hollerith"
    BY <1>2, <1>4, <1>5, <1>7, <2>1
  <2>3. \A j \in (a + 1)..b : t[j] \in {Blank, Amp}
    BY <1>2, <1>4, <1>5, <2>1
  <2>4. \A j \in a..b : mu[j] = mu[a]
    BY <1>2, <1>4, <2>2, <2>3, BlanksKeep
  <2> QED BY <2>1, <2>4
<1>9. at \in 1..Len(t) /\ mu[at - 1] = "Code" /\ t[at] = Amp
  BY <1>2, <1>4, <1>5, <1>7, <1>8
<1>10. Reads(mu, t, at) = "Code"
  <2>1. Amp \notin Quotes /\ Amp # Bang /\ Amp # Hollerith
    BY DEF Amp, Quotes, Bang, Hollerith
  <2> QED BY <1>9, <2>1 DEF Reads, KindIn, CodeKind
<1>11. RegionAt(p, p.start - 1 + at) = p.regions[at]
  <2>1. DOMAIN p.regions = 1..Len(t) /\ Len(t) \in Nat
    BY <1>2, <1>4
  <2> QED BY <1>3, <1>9, <2>1, RegionIs
<1> QED BY <1>2, <1>5, <1>9, <1>10, <1>11

LEMMA TrailingIsCode ==
    ASSUME NEW states \in [Streams -> LineStates], NEW s \in Seq(Bytes), NEW p,
           LineOf(p, states, s), p.kind = "Code", NEW lex, Enterable(lex),
           ScanOf(p, states) = ScanLine(lex, BodyOf(p)),
           Continued(BodyOf(p), Scan(lex, BodyOf(p))),
           ~InLiteral(Scan(lex, BodyOf(p)).lex), MarkerAt(p, "trailing") > 0
    PROVE  RegionAt(p, MarkerAt(p, "trailing")) = "Code"
<1>1. PICK t, mu, code, at, scan : /\ t = BodyOf(p) /\ mu = Run(ModeOf(lex), t)
                             /\ code = CodeBytes(p) /\ at = LastInk(code) /\ scan = Scan(lex, t)
  OBVIOUS
<1>2. /\ t \in Seq(Bytes) /\ Len(t) = Len(s) - p.start + 1
      /\ IsRun(mu, ModeOf(lex), t)
      /\ Len(p.regions) = Len(t) /\ p.regions \in Seq(RegionKinds)
      /\ \A j \in 1..Len(t) : p.regions[j] = Reads(mu, t, j)
      /\ Len(code) \in 0..Len(t)
      /\ \A j \in 1..Len(t) : mu[j] # "Comment" <=> j <= Len(code)
      /\ \A j \in 1..Len(code) : code[j] = t[j]
  BY <1>1, CodeRun
<1>3. code \in Seq(Bytes) /\ p.start \in Nat
  BY <1>1, CodeBytesFacts, LineStart
<1>4. Len(t) \in Nat /\ DOMAIN code = 1..Len(code) /\ DOMAIN t = 1..Len(t)
      /\ Len(code) \in Nat
  BY <1>2, <1>3
<1>5. /\ at \in 1..Len(code) /\ MarkerAt(p, "trailing") = p.start - 1 + at
  BY <1>1, <1>4 DEF MarkerAt
<1>6. ReadBy(scan, mu, t)
  BY <1>1, <1>4, ScanReads
<1>7. Marked(mu, t)
  BY <1>1, <1>2, <1>4, <1>6, ContinuedIsMarked
<1>8. PICK i : MarkAt(mu, t, i)
  BY <1>7 DEF Marked
<1>9. /\ i \in 1..Len(t) /\ mu[i] = mu[i - 1] /\ mu[i] \in {"Code"} \cup Quotes /\ t[i] = Amp
      /\ \A j \in (i + 1)..Len(t) : t[j] = Blank \/ mu[j] = "Comment"
      /\ \A j \in i..Len(t) : mu[j] = mu[i] \/ (mu[i] = "Code" /\ mu[j] = "Comment")
  <2>1. i \in 1..Len(t) /\ mu[i] = mu[i - 1] /\ mu[i] \in {"Code"} \cup Quotes
    BY <1>2, <1>4, <1>8, MarkKeeps
  <2>2. \A j \in i..Len(t) : mu[j] = mu[i] \/ (mu[i] = "Code" /\ mu[j] = "Comment")
    BY <1>2, <1>4, <1>8, MarkTail
  <2>3. t[i] = Amp /\ \A j \in (i + 1)..Len(t) : t[j] = Blank \/ mu[j] = "Comment"
    BY <1>8 DEF MarkAt
  <2> QED BY <2>1, <2>2, <2>3
<1>10. mu[i] = "Code"
  <2> SUFFICES ASSUME mu[i] \in Quotes
               PROVE  FALSE
    BY <1>9
  <2>1. mu[Len(t)] = mu[i]
    BY <1>4, <1>9, QuoteFacts
  <2>2. scan.lex.quote = mu[i]
    BY <1>6, <2>1 DEF ReadBy
  <2> QED BY <1>1, <2>2, QuoteFacts DEF InLiteral
<1>11. i = at
  <2>1. i <= Len(code)
    BY <1>2, <1>9, <1>10
  <2>2. \A j \in (i + 1)..Len(code) : code[j] = Blank
    BY <1>2, <1>4, <1>9
  <2>3. code[i] # Blank
    <3>1. i \in 1..Len(code)
      BY <1>4, <1>9, <2>1
    <3>2. code[i] = t[i]
      BY <1>2, <3>1
    <3> QED BY <1>9, <3>2 DEF Amp, Blank
  <2>4. LastAt(code, i)
    BY <1>4, <1>9, <2>1, <2>2, <2>3 DEF LastAt
  <2> QED BY <1>1, <1>3, <2>4, LastInkAt
<1>12. Reads(mu, t, at) = "Code"
  <2>1. Amp \notin Quotes /\ Amp # Bang /\ Amp # Hollerith
    BY DEF Amp, Quotes, Bang, Hollerith
  <2> QED BY <1>9, <1>10, <1>11, <2>1 DEF Reads, KindIn, CodeKind
<1>13. RegionAt(p, p.start - 1 + at) = p.regions[at]
  <2>1. DOMAIN p.regions = 1..Len(t) /\ Len(t) \in Nat
    BY <1>2, <1>4
  <2> QED BY <1>3, <1>9, <1>11, <2>1, RegionIs
<1> QED BY <1>2, <1>5, <1>9, <1>11, <1>12, <1>13
LEMMA MarkersStep ==
    ASSUME WType, step12 \in Step12s, MarkOK, NEW s \in Seq(Bytes), NEW p,
           LineOf(p, buffer, s), Moves(p, s)
    PROVE  MarkersAreCode'
<1> SUFFICES ASSUME Matched', NEW m \in marks', MarkerAt(p, m) > 0
             PROVE  RegionAt(p, MarkerAt(p, m)) = "Code"
  <2>1. last' = p
    BY DEF Moves, Take
  <2> QED BY <2>1 DEF MarkersAreCode, Matched
<1>1. MarkStates
  <2>1. odd \subseteq odd'
    BY DEF Moves
  <2> QED BY <2>1 DEF Matched, MarkOK
<1>2. ~PassedOver(p)
  BY Step12Is DEF Moves
<1>3. PICK states, lex, t : states = buffer /\ lex = states[p.stream].lex /\ t = BodyOf(p)
  OBVIOUS
<1>4. /\ p.kind = "Code" /\ step12.lex = lex /\ Resumes(lex, t)
  BY <1>1, <1>2, <1>3, MarkedLine
<1>5. states \in [Streams -> LineStates] /\ LineOf(p, states, s)
  BY <1>3 DEF WType
<1>6. /\ Enterable(lex) /\ ScanOf(p, states) = ScanLine(lex, t)
  BY <1>3, <1>4, <1>5, CodeScan
<1>7. marks' = {m2 \in {"leading", "trailing"} :
                  /\ MayRewrite(lex, Scan(lex, t).lex)
                  /\ (m2 = "leading" => step12.continuation)
                  /\ (m2 = "trailing" => Continued(t, Scan(lex, t)))}
  BY <1>2, <1>3, <1>4, Zenon DEF Moves, NormalizeMarkers, BodyOf
<1>8. m \in {"leading", "trailing"} /\ MayRewrite(lex, Scan(lex, t).lex)
      /\ (m = "trailing" => Continued(t, Scan(lex, t)))
  BY <1>7
<1>9. ~InLiteral(lex) /\ ~InLiteral(Scan(lex, t).lex)
  BY <1>8 DEF MayRewrite
<1>10. CASE m = "leading"
  BY <1>3, <1>4, <1>5, <1>6, <1>9, <1>10, LeadingIsCode
<1>11. CASE m = "trailing"
  BY <1>3, <1>4, <1>5, <1>6, <1>8, <1>9, <1>11, TrailingIsCode
<1> QED BY <1>8, <1>10, <1>11
-----------------------------------------------------------------------------
(* A trimmed line is read as the line it was *)

LEMMA SteppedHead ==
    ASSUME NEW s \in Seq(Bytes), NEW k \in LastInk(s)..Len(s), FirstInk(s) <= Len(s),
           Prefix(s) = "BlankSeparated" => FirstInk(s) + 2 <= k
    PROVE  SteppedOver(SubSeq(s, 1, k)) <=> SteppedOver(s)
<1>1. PICK t : t = SubSeq(s, 1, k)
  OBVIOUS
<1>2. /\ FirstInk(t) = FirstInk(s) /\ FirstInk(s) <= k /\ t[FirstInk(t)] = s[FirstInk(s)]
      /\ Prefix(t) = Prefix(s)
  BY <1>1, InkHead
<1>3. k \in 0..Len(s)
  BY InkType
<1>4. Len(t) = k /\ FirstInk(s) \in Nat
  BY <1>1, <1>3, HeadFacts, InkType
<1>5. FirstInk(t) <= Len(t) /\ ~(FirstInk(t) > Len(t)) /\ ~(FirstInk(s) > Len(s))
  <2>1. Len(s) \in Nat /\ k \in Nat
    BY <1>3, InkType
  <2> QED BY <1>2, <1>4, <2>1
<1>6. PICK b, x : b = s[FirstInk(s)] /\ x = Prefix(s)
  OBVIOUS
<1>7. SteppedOver(t) <=> b \in {Hash, Coco} \/ (b = Bang /\ x # "BlankSeparated")
  BY <1>2, <1>5, <1>6, Zenon DEF SteppedOver
<1>8. SteppedOver(s) <=> b \in {Hash, Coco} \/ (b = Bang /\ x # "BlankSeparated")
  BY <1>5, <1>6, Zenon DEF SteppedOver
<1> QED BY <1>1, <1>7, <1>8

\* Two readings of a line that leave the same state.
SameReading(a, b) ==
    a.continued = b.continued /\ a.lex = b.lex /\ a.comment = b.comment

LEMMA HeadScan ==
    ASSUME NEW s \in Seq(Bytes), NEW k \in LastInk(s)..Len(s), NEW lex, Enterable(lex)
    PROVE  SameReading(ScanLine(lex, SubSeq(s, 1, k)), ScanLine(lex, s))
<1>1. k \in 0..Len(s) /\ \A j \in (k + 1)..Len(s) : s[j] = Blank
  BY InkType
<1>2. PICK a, b : a = ScanLine(lex, s) /\ b = ScanLine(lex, SubSeq(s, 1, k))
  OBVIOUS
<1>3. a.continued = b.continued /\ a.lex = b.lex /\ a.comment = b.comment
  BY <1>1, <1>2, HeadReads
<1> QED BY <1>2, <1>3 DEF SameReading

LEMMA HeadStream ==
    ASSUME NEW s \in Seq(Bytes), NEW k \in LastInk(s)..Len(s), FirstInk(s) <= Len(s),
           NEW lex, Enterable(lex), NEW stream \in Streams,
           Prefix(s) # "BlankSeparated" \/ stream = "Conditional"
    PROVE  /\ SameReading(StreamLine(lex, SubSeq(s, 1, k), stream), StreamLine(lex, s, stream))
           /\ Resumes(lex, SubSeq(s, 1, k)) <=> Resumes(lex, s)
<1>1. PICK t : t = SubSeq(s, 1, k)
  OBVIOUS
<1>2. Resumes(lex, t) <=> Resumes(lex, s)
  <2>1. StartsWith(t, Amp) <=> StartsWith(s, Amp)
    BY <1>1, InkHead
  <2> QED BY <2>1 DEF Resumes
<1>3. SameReading(ScanLine(lex, t), ScanLine(lex, s))
  BY <1>1, HeadScan
<1>4. SameReading(ScanLine(Clean, t), ScanLine(Clean, s))
  BY <1>1, CleanEnterable, HeadScan
<1>5. CASE stream = "Ordinary"
  <2>1. SteppedOver(t) <=> SteppedOver(s)
    BY <1>1, <1>5, SteppedHead
  <2>2. SameReading(GroupLine(lex, t), GroupLine(lex, s))
    <3>1. CASE lex # Clean /\ SteppedOver(s)
      <4>1. /\ GroupLine(lex, s).comment = 0 /\ GroupLine(lex, s).lex = lex
            /\ GroupLine(lex, s).continued = FALSE
        BY <3>1, GroupLineIs
      <4>2. /\ GroupLine(lex, t).comment = 0 /\ GroupLine(lex, t).lex = lex
            /\ GroupLine(lex, t).continued = FALSE
        BY <2>1, <3>1, GroupLineIs
      <4> QED BY <4>1, <4>2, Zenon DEF SameReading
    <3>2. CASE ~(lex # Clean /\ SteppedOver(s))
      <4>1. GroupLine(lex, s) = ScanLine(lex, s) /\ GroupLine(lex, t) = ScanLine(lex, t)
        BY <2>1, <3>2, GroupLineIs
      <4> QED BY <1>3, <4>1
    <3> QED BY <3>1, <3>2
  <2> QED BY <1>1, <1>2, <1>5, <2>2 DEF StreamLine
<1>6. CASE stream = "Conditional"
  <2>1. CASE Resumes(lex, s)
    <3>1. StreamLine(lex, t, stream) = ScanLine(lex, t) /\ StreamLine(lex, s, stream) = ScanLine(lex, s)
      BY <1>2, <1>6, <2>1 DEF StreamLine
    <3> QED BY <1>1, <1>2, <1>3, <3>1
  <2>2. CASE ~Resumes(lex, s)
    <3>1. /\ StreamLine(lex, t, stream) = [kinds |-> <<>>, comment |-> 0, lex |-> lex,
                                           continued |-> ScanLine(Clean, t).continued]
          /\ StreamLine(lex, s, stream) = [kinds |-> <<>>, comment |-> 0, lex |-> lex,
                                           continued |-> ScanLine(Clean, s).continued]
      BY <1>2, <1>6, <2>2 DEF StreamLine
    <3> QED BY <1>1, <1>2, <1>4, <3>1 DEF SameReading
  <2> QED BY <2>1, <2>2
<1> QED BY <1>5, <1>6 DEF Streams

\* The tail of a head is the head of the tail.
LEMMA HeadBehind ==
    ASSUME NEW s \in Seq(Bytes), NEW i \in 1..Len(s) + 1, NEW k \in (i - 1)..Len(s)
    PROVE  From(SubSeq(s, 1, k), i) = SubSeq(From(s, i), 1, k - i + 1)
<1>1. Len(s) \in Nat /\ k \in 0..Len(s)
  BY InkType
<1>2. PICK t : t = SubSeq(s, 1, k)
  OBVIOUS
<1>3. t \in Seq(Bytes) /\ Len(t) = k /\ \A j \in 1..k : t[j] = s[j]
  BY <1>1, <1>2, HeadFacts
<1>4. PICK l, a, b, r : /\ l = k - i + 1 /\ a = From(t, i) /\ r = From(s, i)
                        /\ b = SubSeq(r, 1, l)
  OBVIOUS
<1>5. l \in Nat /\ i \in 1..Len(t) + 1
  BY <1>1, <1>3, <1>4
<1>6. a \in Seq(Bytes) /\ Len(a) = l /\ \A j \in 1..l : a[j] = t[(i - 1) + j]
  <2>1. a \in Seq(Bytes) /\ Len(a) = Len(t) - i + 1
        /\ \A j \in 1..Len(t) - i + 1 : a[j] = t[(i - 1) + j]
    BY <1>3, <1>4, <1>5, FromFacts
  <2> QED BY <1>3, <1>4, <2>1
<1>7. r \in Seq(Bytes) /\ Len(r) = Len(s) - i + 1
      /\ \A j \in 1..Len(s) - i + 1 : r[j] = s[(i - 1) + j]
  BY <1>4, FromFacts
<1>8. b \in Seq(Bytes) /\ Len(b) = l /\ \A j \in 1..l : b[j] = r[j]
  <2>1. l \in 0..Len(r)
    BY <1>1, <1>4, <1>5, <1>7
  <2> QED BY <1>4, <1>7, <2>1, HeadFacts
<1>9. ASSUME NEW j \in 1..l
      PROVE  a[j] = b[j]
  <2>1. (i - 1) + j \in 1..k /\ j \in 1..Len(s) - i + 1
    BY <1>1, <1>4, <1>5
  <2> QED BY <1>3, <1>6, <1>7, <1>8, <2>1
<1>10. a = b
  BY <1>5, <1>6, <1>8, <1>9
<1> QED BY <1>2, <1>4, <1>10

LEMMA LastInkBehind ==
    ASSUME NEW s \in Seq(Bytes), NEW i \in 1..Len(s) + 1, i <= LastInk(s)
    PROVE  LastInk(From(s, i)) = LastInk(s) - i + 1
<1>1. PICK t, n, m : t = From(s, i) /\ n = LastInk(s) /\ m = n - i + 1
  OBVIOUS
<1>2. Len(s) \in Nat /\ n \in 0..Len(s) /\ (\A j \in (n + 1)..Len(s) : s[j] = Blank) /\ s[n] # Blank
  BY <1>1, InkType
<1>3. t \in Seq(Bytes) /\ Len(t) = Len(s) - i + 1
      /\ \A j \in 1..Len(s) - i + 1 : t[j] = s[(i - 1) + j]
  BY <1>1, FromFacts
<1>4. m \in 1..Len(t)
  BY <1>1, <1>2, <1>3
<1>5. t[m] # Blank
  <2>1. m \in 1..Len(s) - i + 1
    BY <1>3, <1>4
  <2>2. t[m] = s[(i - 1) + m]
    BY <1>3, <2>1
  <2>3. (i - 1) + m = n
    BY <1>1, <1>2
  <2> QED BY <1>2, <2>2, <2>3
<1>6. \A j \in (m + 1)..Len(t) : t[j] = Blank
  <2> SUFFICES ASSUME NEW j \in (m + 1)..Len(t)
               PROVE  t[j] = Blank
    OBVIOUS
  <2>1. j \in 1..Len(s) - i + 1 /\ (i - 1) + j \in (n + 1)..Len(s)
    BY <1>1, <1>2, <1>3, <1>4
  <2> QED BY <1>2, <1>3, <2>1
<1>7. LastAt(t, m)
  BY <1>4, <1>5, <1>6 DEF LastAt
<1> QED BY <1>1, <1>3, <1>7, LastInkAt
LEMMA BlankHead ==
    ASSUME NEW s \in Seq(Bytes), NEW k \in LastInk(s)..Len(s), FirstInk(s) > Len(s)
    PROVE  FirstInk(SubSeq(s, 1, k)) > Len(SubSeq(s, 1, k))
<1>1. k \in 0..Len(s) /\ Len(s) \in Nat
  BY InkType
<1>2. PICK t : t = SubSeq(s, 1, k)
  OBVIOUS
<1>3. t \in Seq(Bytes) /\ Len(t) = k /\ \A j \in 1..k : t[j] = s[j]
  BY <1>1, <1>2, HeadFacts
<1>4. \A j \in 1..Len(s) : s[j] = Blank
  BY InkType
<1>5. FirstAt(t, k + 1)
  BY <1>1, <1>3, <1>4 DEF FirstAt
<1>6. FirstInk(t) = k + 1
  BY <1>3, <1>5, FirstInkAt
<1> QED BY <1>1, <1>2, <1>3, <1>6

LEMMA BlankLine ==
    ASSUME NEW states, NEW s \in Seq(Bytes), NEW p, LineOf(p, states, s), FirstInk(s) > Len(s)
    PROVE  /\ p.stream = "Ordinary" /\ p.kind = "Blank" /\ p.comment = 0
           /\ p.continues = FALSE /\ p.state = states["Ordinary"]
<1>1. Prefix(s) \notin {"BlankSeparated", "CompactContinuation"}
  BY PrefixShape, InkType
<1>2. p.stream = "Ordinary"
  BY <1>1 DEF LineOf, StreamOf
<1>3. p.kind = "Blank"
  BY DEF LineOf, KindOf
<1>4. ~Lexed(p)
  BY <1>3 DEF Lexed
<1> QED BY <1>2, <1>3, <1>4 DEF LineOf

LEMMA FixHead ==
    ASSUME NEW s \in Seq(Bytes), NEW k \in LastInk(s)..Len(s), FirstInk(s) <= Len(s),
           NEW t, t = SubSeq(s, 1, k), FirstInk(t) = FirstInk(s), FirstInk(s) <= k,
           t[FirstInk(t)] = s[FirstInk(s)]
    PROVE  IsFix(t) <=> IsFix(s)
<1>1. PICK i, a, b : i = FirstInk(s) + 1 /\ a = From(t, i) /\ b = From(s, i)
  OBVIOUS
<1>2. FirstInk(s) \in 1..Len(s) + 1 /\ Len(s) \in Nat /\ LastInk(s) \in 0..Len(s)
  BY InkType
<1>3. i \in 1..Len(s) + 1 /\ k \in (i - 1)..Len(s)
  BY <1>1, <1>2
<1>4. a = SubSeq(b, 1, k - i + 1)
  BY <1>1, <1>3, HeadBehind
<1>5. b \in Seq(Bytes) /\ Len(b) = Len(s) - i + 1
      /\ \A j \in 1..Len(s) - i + 1 : b[j] = s[(i - 1) + j]
  BY <1>1, <1>3, FromFacts
<1>6. PICK l : l = k - i + 1
  OBVIOUS
<1>7. l \in LastInk(b)..Len(b)
  <2>1. LastInk(b) \in 0..Len(b)
    BY <1>5, InkType
  <2>2. CASE i <= LastInk(s)
    <3>1. LastInk(b) = LastInk(s) - i + 1
      BY <1>1, <1>3, <2>2, LastInkBehind
    <3> QED BY <1>2, <1>3, <1>5, <1>6, <3>1
  <2>3. CASE ~(i <= LastInk(s))
    <3>1. \A j \in (LastInk(s) + 1)..Len(s) : s[j] = Blank
      BY InkType
    <3>2. \A j \in 1..Len(b) : b[j] = Blank
      <4> SUFFICES ASSUME NEW j \in 1..Len(b)
                   PROVE  b[j] = Blank
        OBVIOUS
      <4>1. j \in 1..Len(s) - i + 1 /\ (i - 1) + j \in (LastInk(s) + 1)..Len(s)
        BY <1>2, <1>3, <1>5, <2>3
      <4> QED BY <1>5, <3>1, <4>1
    <3>3. LastAt(b, 0)
      <4>1. Len(b) \in Nat
        BY <1>2, <1>3, <1>5
      <4> QED BY <3>2, <4>1 DEF LastAt
    <3>4. LastInk(b) = 0
      BY <1>5, <3>3, LastInkAt
    <3> QED BY <1>2, <1>3, <1>5, <1>6, <3>4
  <2> QED BY <2>2, <2>3
<1>8. StartsWith(a, Fix) <=> StartsWith(b, Fix)
  <2>1. CASE FirstInk(b) <= Len(b)
    <3>1. a = SubSeq(b, 1, l) /\ b \in Seq(Bytes)
      BY <1>4, <1>5, <1>6
    <3>2. \A x : StartsWith(a, x) <=> StartsWith(b, x)
      BY <1>7, <2>1, <3>1, InkHead
    <3> QED BY <3>2
  <2>2. CASE ~(FirstInk(b) <= Len(b))
    <3>1. FirstInk(b) > Len(b)
      BY <1>5, <2>2, InkType
    <3>2. FirstInk(a) > Len(a)
      BY <1>4, <1>5, <1>6, <1>7, <3>1, BlankHead
    <3>3. ~(FirstInk(a) <= Len(a))
      <4>1. a \in Seq(Bytes)
        <5>1. l \in 0..Len(b)
          BY <1>5, <1>7, InkType
        <5> QED BY <1>4, <1>5, <1>6, <5>1, HeadFacts
      <4> QED BY <3>2, <4>1, InkType
    <3> QED BY <2>2, <3>3 DEF StartsWith
  <2> QED BY <2>1, <2>2
<1> QED BY <1>1, <1>8 DEF IsFix

LEMMA InkBefore ==
    ASSUME NEW s \in Seq(Bytes), NEW i \in 1..Len(s), s[i] # Blank
    PROVE  i <= LastInk(s) /\ FirstInk(s) <= i
BY InkType

\* The body of a line in ink starts in ink.
LEMMA BodyInk ==
    ASSUME NEW states, NEW s \in Seq(Bytes), NEW p, LineOf(p, states, s), ~BlankBody(p),
           FirstInk(s) <= Len(s)
    PROVE  p.start <= LastInk(s)
<1>1. /\ p.bytes = s /\ p.stream \in Streams /\ p.start \in 1..Len(s) + 1 /\ Len(s) \in Nat
      /\ p.stream = "Ordinary" => p.start = FirstInk(s)
  BY LineStart
<1>2. FirstInk(s) \in 1..Len(s) /\ s[FirstInk(s)] # Blank
  BY InkType
<1>3. CASE p.stream = "Ordinary"
  BY <1>1, <1>2, <1>3, InkBefore
<1>4. CASE p.stream = "Conditional"
  <2>1. p.start = BodyStart(s) /\ Prefix(s) # "None" /\ FirstInk(s) + 2 <= Len(s)
    BY <1>4, LineShape
  <2>2. CASE Prefix(s) = "BlankSeparated"
    <3>1. PICK b : b = From(s, p.start)
      OBVIOUS
    <3>2. b \in Seq(Bytes) /\ Len(b) = Len(s) - p.start + 1
          /\ \A j \in 1..Len(s) - p.start + 1 : b[j] = s[(p.start - 1) + j]
      BY <1>1, <3>1, FromFacts
    <3>3. ~(FirstInk(b) > Len(b))
      BY <1>1, <2>2, <3>1 DEF BlankBody
    <3>4. PICK j : j = FirstInk(b)
      OBVIOUS
    <3>5. j \in 1..Len(s) - p.start + 1 /\ b[j] # Blank
      BY <1>1, <3>2, <3>3, <3>4, InkType
    <3>6. (p.start - 1) + j \in 1..Len(s) /\ s[(p.start - 1) + j] # Blank
      BY <1>1, <3>2, <3>5
    <3>7. (p.start - 1) + j <= LastInk(s)
      BY <3>6, InkBefore
    <3>8. LastInk(s) \in Nat
      BY InkType
    <3> QED BY <1>1, <3>5, <3>7, <3>8
  <2>3. CASE Prefix(s) = "CompactContinuation"
    <3>1. s[FirstInk(s) + 2] = Amp /\ p.start = FirstInk(s) + 2
      BY <2>1, <2>3, PrefixShape DEF BodyStart
    <3>2. FirstInk(s) + 2 \in 1..Len(s)
      BY <1>1, <1>2, <2>1
    <3>3. s[FirstInk(s) + 2] # Blank
      BY <3>1 DEF Amp, Blank
    <3> QED BY <3>1, <3>2, <3>3, InkBefore
  <2> QED BY <2>1, <2>2, <2>3, PrefixShape DEF Prefixes
<1> QED BY <1>1, <1>3, <1>4 DEF Streams
LEMMA HeadLine ==
    ASSUME NEW states \in [Streams -> LineStates], NEW s \in Seq(Bytes), NEW p,
           LineOf(p, states, s), NEW k \in LastInk(s)..Len(s), ~BlankBody(p),
           NEW q, LineOf(q, states, SubSeq(s, 1, k))
    PROVE  SameLine(q, p)
<1>1. PICK t : t = SubSeq(s, 1, k)
  OBVIOUS
<1>2. Len(s) \in Nat /\ k \in 0..Len(s) /\ LastInk(s) \in 0..Len(s) /\ FirstInk(s) \in 1..Len(s) + 1
  BY InkType
<1>3. t \in Seq(Bytes) /\ Len(t) = k /\ LineOf(q, states, t)
  BY <1>1, <1>2, HeadFacts
<1>4. CASE FirstInk(s) > Len(s)
  <2>1. FirstInk(t) > Len(t)
    BY <1>1, <1>4, BlankHead
  <2>2. /\ p.stream = "Ordinary" /\ p.kind = "Blank" /\ p.comment = 0
        /\ p.continues = FALSE /\ p.state = states["Ordinary"]
    BY <1>4, BlankLine
  <2>3. /\ q.stream = "Ordinary" /\ q.kind = "Blank" /\ q.comment = 0
        /\ q.continues = FALSE /\ q.state = states["Ordinary"]
    BY <1>3, <2>1, BlankLine
  <2> QED BY <2>2, <2>3 DEF SameLine
<1>5. CASE FirstInk(s) <= Len(s)
  <2>1. /\ p.bytes = s /\ p.stream \in Streams /\ p.start \in 1..Len(s) + 1
        /\ p.stream = "Ordinary" => p.start = FirstInk(s)
    BY LineStart
  <2>2. p.start <= LastInk(s)
    BY <1>5, BodyInk
  <2>3. Prefix(s) = "BlankSeparated" => FirstInk(s) + 2 <= k
    <3> SUFFICES ASSUME Prefix(s) = "BlankSeparated"
                 PROVE  FirstInk(s) + 2 <= k
      OBVIOUS
    <3>1. p.stream = "Conditional"
      BY DEF LineOf, StreamOf
    <3>2. p.start = FirstInk(s) + 3
      BY <3>1 DEF LineOf, BodyStart
    <3> QED BY <1>2, <2>2, <3>2
  <2>4. /\ FirstInk(t) = FirstInk(s) /\ FirstInk(s) <= k
        /\ t[FirstInk(t)] = s[FirstInk(s)] /\ Prefix(t) = Prefix(s)
    BY <1>1, <1>5, <2>3, InkHead
  <2>5. q.stream = p.stream
    BY <1>3, <2>4 DEF LineOf, StreamOf
  <2>6. q.start = p.start
    BY <1>3, <2>4, <2>5 DEF LineOf, BodyStart
  <2>7. q.kind = p.kind
    <3>1. IsFix(t) <=> IsFix(s)
      BY <1>1, <1>5, <2>4, FixHead
    <3>2. ~(FirstInk(t) > Len(t)) /\ ~(FirstInk(s) > Len(s))
      BY <1>2, <1>3, <1>5, <2>4
    <3>3. PICK b : b = s[FirstInk(s)]
      OBVIOUS
    <3>4. KindOf(p.stream, t) = IF p.stream = "Conditional" THEN "Code"
                                ELSE IF b \in {Hash, Coco} THEN "Preprocessor"
                                ELSE IF b # Bang THEN "Code"
                                ELSE IF IsFix(t) THEN "FindentFix" ELSE "Comment"
      BY <2>4, <3>2, <3>3 DEF KindOf
    <3>5. KindOf(p.stream, s) = IF p.stream = "Conditional" THEN "Code"
                                ELSE IF b \in {Hash, Coco} THEN "Preprocessor"
                                ELSE IF b # Bang THEN "Code"
                                ELSE IF IsFix(s) THEN "FindentFix" ELSE "Comment"
      BY <3>2, <3>3 DEF KindOf
    <3>6. p.kind = KindOf(p.stream, s) /\ q.kind = KindOf(p.stream, t)
      BY <1>3, <2>5 DEF LineOf
    <3> QED BY <3>1, <3>4, <3>5, <3>6
  <2>8. PICK i, b, l, lex : /\ i = p.start /\ b = BodyOf(p) /\ l = k - i + 1
                            /\ lex = states[p.stream].lex
    OBVIOUS
  <2>9. b = From(s, i) /\ i \in 1..Len(s) + 1 /\ k \in (i - 1)..Len(s)
    BY <1>2, <2>1, <2>2, <2>8 DEF BodyOf
  <2>10. BodyOf(q) = SubSeq(b, 1, l)
    <3>1. BodyOf(q) = From(t, i)
      BY <1>3, <2>6, <2>8 DEF BodyOf, LineOf
    <3>2. From(t, i) = SubSeq(From(s, i), 1, k - i + 1)
      BY <1>1, <2>9, HeadBehind
    <3> QED BY <2>8, <2>9, <3>1, <3>2
  <2>11. b \in Seq(Bytes) /\ Len(b) = Len(s) - i + 1
    BY <2>9, FromFacts
  <2>12. LastInk(b) = LastInk(s) - i + 1
    BY <2>2, <2>8, <2>9, LastInkBehind
  <2>13. l \in LastInk(b)..Len(b)
    BY <1>2, <2>8, <2>9, <2>11, <2>12
  <2>14. FirstInk(b) <= Len(b)
    <3>1. LastInk(b) \in 1..Len(b)
      <4>1. i \in Nat /\ LastInk(s) \in Nat /\ i <= LastInk(s)
        BY <1>2, <2>2, <2>8, <2>9
      <4> QED BY <1>2, <2>9, <2>11, <2>12, <4>1
    <3>2. b[LastInk(b)] # Blank
      BY <2>11, <3>1, InkType
    <3>3. FirstInk(b) <= LastInk(b)
      BY <2>11, <3>1, <3>2, InkBefore
    <3>4. FirstInk(b) \in Nat /\ Len(b) \in Nat
      BY <2>11, InkType
    <3> QED BY <3>1, <3>3, <3>4
  <2>15. Prefix(b) # "BlankSeparated" \/ p.stream = "Conditional"
    <3> SUFFICES ASSUME p.stream = "Ordinary"
                 PROVE  Prefix(b) # "BlankSeparated"
      BY <2>1 DEF Streams
    <3>1. PICK n : n = i - 1
      OBVIOUS
    <3>2. n \in 0..Len(s) /\ b = From(s, n + 1) /\ \A j \in 1..n : s[j] = Blank
      BY <1>2, <2>1, <2>8, <2>9, <3>1, InkType
    <3>3. Prefix(b) = Prefix(s)
      BY <3>2, InkSuffix
    <3>4. Prefix(s) # "BlankSeparated"
      BY LineShape
    <3> QED BY <3>3, <3>4
  <2>16. Enterable(lex)
    BY <2>1, <2>8, LexesFacts DEF LineStates
  <2>17. /\ SameReading(StreamLine(lex, SubSeq(b, 1, l), p.stream), StreamLine(lex, b, p.stream))
         /\ Resumes(lex, SubSeq(b, 1, l)) <=> Resumes(lex, b)
    BY <2>1, <2>11, <2>13, <2>14, <2>15, <2>16, HeadStream
  <2>18. SameReading(ScanOf(q, states), ScanOf(p, states))
         /\ (Resumes(states[q.stream].lex, BodyOf(q)) <=> Resumes(states[p.stream].lex, BodyOf(p)))
    BY <2>5, <2>8, <2>10, <2>17 DEF ScanOf
  <2>19. (Lexed(q) <=> Lexed(p)) /\ (q.transparent <=> p.transparent)
    <3>1. Lexed(q) <=> Lexed(p)
      BY <2>7 DEF Lexed
    <3>2. p.transparent = (/\ Lexed(p) /\ p.stream = "Conditional"
                           /\ ~Resumes(states[p.stream].lex, BodyOf(p)))
      BY DEF LineOf
    <3>3. q.transparent = (/\ Lexed(q) /\ q.stream = "Conditional"
                           /\ ~Resumes(states[q.stream].lex, BodyOf(q)))
      BY <1>3 DEF LineOf
    <3> QED BY <2>5, <2>18, <3>1, <3>2, <3>3
  <2>20. PICK x, y : x = ScanOf(p, states) /\ y = ScanOf(q, states)
    OBVIOUS
  <2>21. x.comment = y.comment /\ x.continued = y.continued /\ x.lex = y.lex
    BY <2>18, <2>20 DEF SameReading
  <2>22. /\ p.comment = IF Lexed(p) /\ x.comment > 0 THEN p.start - 1 + x.comment ELSE 0
         /\ p.continues = (Lexed(p) /\ x.continued)
         /\ p.state = IF ~Lexed(p) \/ p.transparent THEN states[p.stream]
                      ELSE [lex |-> x.lex, continued |-> x.continued]
    BY <2>20, Zenon DEF LineOf
  <2>23. /\ q.comment = IF Lexed(q) /\ y.comment > 0 THEN q.start - 1 + y.comment ELSE 0
         /\ q.continues = (Lexed(q) /\ y.continued)
         /\ q.state = IF ~Lexed(q) \/ q.transparent THEN states[q.stream]
                      ELSE [lex |-> y.lex, continued |-> y.continued]
    BY <1>3, <2>20, Zenon DEF LineOf
  <2>24. q.comment = p.comment
    BY <2>6, <2>19, <2>21, <2>22, <2>23
  <2>25. q.state = p.state
    BY <2>5, <2>19, <2>21, <2>22, <2>23
  <2>26. q.continues = p.continues
    <3>1. (Lexed(q) /\ y.continued) = (Lexed(p) /\ x.continued)
      BY <2>19, <2>21
    <3> QED BY <2>22, <2>23, <3>1, Zenon
  <2> QED BY <2>5, <2>7, <2>24, <2>25, <2>26 DEF SameLine
<1> QED BY <1>2, <1>4, <1>5
-----------------------------------------------------------------------------
(* What trimming keeps *)

LEMMA MaxExists ==
    ASSUME NEW n \in Nat, NEW S, S \subseteq 1..n, S # {}
    PROVE  \E i \in S : \A j \in S : j <= i
<1> DEFINE Best(m) == (\A j \in S : ~(j <= m)) \/ (\E i \in S : \A j \in S : j <= m => j <= i)
           T == {m \in 0..n : Best(m)}
<1>1. 0 \in T
  OBVIOUS
<1>2. ASSUME NEW m \in 0..n, m < n, m \in T
      PROVE  m + 1 \in T
  <2>1. CASE m + 1 \in S
    <3>1. \A j \in S : j <= m + 1 => j <= m + 1
      OBVIOUS
    <3> QED BY <1>2, <2>1, <3>1
  <2>2. CASE m + 1 \notin S
    <3>1. \A j \in S : j <= m + 1 => j <= m
      BY <2>2
    <3>2. \A j \in S : j <= m => j <= m + 1
      OBVIOUS
    <3> QED BY <1>2, <3>1, <3>2
  <2> QED BY <2>1, <2>2
<1> HIDE DEF T
<1>3. 0..n \subseteq T
  BY <1>1, <1>2, UpTo
<1>4. n \in T
  BY <1>3
<1>5. Best(n)
  BY <1>4 DEF T
<1>6. (\A j \in S : ~(j <= n)) \/ (\E i \in S : \A j \in S : j <= n => j <= i)
  BY <1>5
<1> HIDE DEF Best
<1>7. \A j \in S : j \in 1..n /\ j <= n
  OBVIOUS
<1>8. CASE \A j \in S : ~(j <= n)
  BY <1>7, <1>8, Zenon
<1>9. CASE \E i \in S : \A j \in S : j <= n => j <= i
  BY <1>7, <1>9, Zenon
<1> QED BY <1>6, <1>8, <1>9

\* The line as the trimmer reads it.
LEMMA TrimTarget ==
    ASSUME NEW s \in Seq(Bytes)
    PROVE  /\ TrimStream(s) \in Streams /\ TrimStart(s) \in 1..Len(s) + 1
           /\ From(s, TrimStart(s)) \in Seq(Bytes)
           /\ Len(From(s, TrimStart(s))) = Len(s) - TrimStart(s) + 1
<1>1. TrimStream(s) \in Streams
  BY DEF TrimStream, Streams
<1>2. TrimStart(s) \in 1..Len(s) + 1
  <2>1. CASE Prefix(s) = "BlankSeparated"
    <3>1. FirstInk(s) + 2 <= Len(s) /\ FirstInk(s) \in 1..Len(s) + 1 /\ Len(s) \in Nat
      BY <2>1, PrefixShape, InkType
    <3>2. TrimStart(s) = FirstInk(s) + 3
      BY <2>1 DEF TrimStart, BodyStart
    <3> QED BY <3>1, <3>2
  <2>2. CASE Prefix(s) # "BlankSeparated"
    BY <2>2 DEF TrimStart
  <2> QED BY <2>1, <2>2
<1> QED BY <1>1, <1>2, FromFacts

LEMMA GroupRange ==
    ASSUME NEW lex, Enterable(lex), NEW s \in Seq(Bytes)
    PROVE  GroupLine(lex, s).kinds \in Seq(RegionKinds) /\ Len(GroupLine(lex, s).kinds) <= Len(s)
<1>1. CASE lex # Clean /\ SteppedOver(s)
  <2>1. GroupLine(lex, s).kinds = <<>>
    BY <1>1, GroupLineIs
  <2> QED BY <2>1
<1>2. CASE ~(lex # Clean /\ SteppedOver(s))
  <2>1. GroupLine(lex, s) = ScanLine(lex, s)
    BY <1>2, GroupLineIs
  <2>2. ScanLine(lex, s).kinds \in Seq(RegionKinds) /\ Len(ScanLine(lex, s).kinds) = Len(s)
    BY ScanRange
  <2> QED BY <2>1, <2>2
<1> QED BY <1>1, <1>2

\* The floor lies in the line, and no protected byte lies behind it.
LEMMA FloorIs ==
    ASSUME NEW s \in Seq(Bytes), trim \in [Streams -> Lexes]
    PROVE  /\ Floor(s) \in 0..Len(s)
           /\ \A j \in DOMAIN TrimScan(s).kinds :
                 TrimScan(s).kinds[j] \in Protected => TrimStart(s) - 1 + j <= Floor(s)
<1>1. PICK lex, t, ks, i0 : /\ lex = trim[TrimStream(s)] /\ t = From(s, TrimStart(s))
                            /\ ks = TrimScan(s).kinds /\ i0 = TrimStart(s)
  OBVIOUS
<1>2. /\ i0 \in 1..Len(s) + 1 /\ t \in Seq(Bytes) /\ Len(t) = Len(s) - i0 + 1 /\ Len(s) \in Nat
  BY <1>1, TrimTarget
<1>3. Enterable(lex)
  BY <1>1, TrimTarget, LexesFacts
<1>4. ks \in Seq(RegionKinds) /\ Len(ks) <= Len(t)
  <2>1. ks = GroupLine(lex, t).kinds
    BY <1>1 DEF TrimScan
  <2> QED BY <1>2, <1>3, <2>1, GroupRange
<1>5. PICK held : held = {i \in DOMAIN TrimScan(s).kinds : TrimScan(s).kinds[i] \in Protected}
  OBVIOUS
<1>6. held \subseteq 1..Len(ks) /\ Len(ks) \in Nat
  BY <1>1, <1>4, <1>5
<1>7. Floor(s) = IF held = {} THEN 0
                 ELSE i0 - 1 + CHOOSE i \in held : \A j \in held : j <= i
  <2>1. /\ (held = {}) => Floor(s) = 0
        /\ (held # {}) => Floor(s) = TrimStart(s) - 1 + CHOOSE i \in held : \A j \in held : j <= i
    BY <1>5, SMT DEF Floor
  <2> QED BY <1>1, <2>1, Zenon
<1>8. CASE held = {}
  <2>1. Floor(s) = 0
    BY <1>7, <1>8
  <2> QED BY <1>1, <1>2, <1>5, <1>8, <2>1
<1>9. CASE held # {}
  <2>1. \E i \in held : \A j \in held : j <= i
    BY <1>6, <1>9, MaxExists
  <2>2. PICK m : m = CHOOSE i \in held : \A j \in held : j <= i
    OBVIOUS
  <2>3. m \in held /\ \A j \in held : j <= m
    BY <2>1, <2>2
  <2>4. Floor(s) = i0 - 1 + m
    BY <1>7, <1>9, <2>2
  <2>5. m \in 1..Len(ks)
    BY <1>6, <2>3
  <2>6. i0 - 1 + m \in 0..Len(s)
    BY <1>2, <1>4, <1>6, <2>5
  <2>7. ASSUME NEW j \in DOMAIN ks, ks[j] \in Protected
        PROVE  i0 - 1 + j <= i0 - 1 + m
    <3>1. j \in held /\ j \in Int /\ m \in Int /\ i0 \in Int
      BY <1>1, <1>2, <1>5, <1>6, <2>5, <2>7
    <3>2. j <= m
      BY <2>3, <3>1
    <3> QED BY <3>1, <3>2
  <2> QED BY <1>1, <2>4, <2>6, <2>7
<1> QED BY <1>8, <1>9

LEMMA KeptRange ==
    ASSUME NEW s \in Seq(Bytes), trim \in [Streams -> Lexes], Trim(s)
    PROVE  kept' \in LastInk(s)..Len(s) /\ Floor(s) <= kept'
<1>1. Floor(s) \in 0..Len(s) /\ LastInk(s) \in 0..Len(s) /\ Len(s) \in Nat
  BY FloorIs, InkType
<1>2. kept' = IF LastInk(s) > Floor(s) THEN LastInk(s) ELSE Floor(s)
  BY DEF Trim
<1> QED BY <1>1, <1>2

\* A line that opens with a comment leaves nothing open.
LEMMA BangLine ==
    ASSUME NEW s \in Seq(Bytes), FirstInk(s) <= Len(s), s[FirstInk(s)] = Bang
    PROVE  ScanLine(Clean, s).lex = Clean
<1>1. PICK n, t : n = FirstInk(s) - 1 /\ t = From(s, n + 1)
  OBVIOUS
<1>2. /\ n \in 0..Len(s) /\ n < Len(s) /\ Len(s) \in Nat /\ n + 1 = FirstInk(s)
      /\ \A j \in 1..n : s[j] = Blank
  BY <1>1, InkType
<1>3. ScanLine(Clean, s).lex = ScanLine(Clean, t).lex
  BY <1>1, <1>2, CleanEnterable, ScanSuffix DEF SameBehind
<1>4. t \in Seq(Bytes) /\ Len(t) = Len(s) - n /\ DOMAIN t = 1..(Len(s) - n)
      /\ \A j \in 1..(Len(s) - n) : t[j] = s[n + j]
  BY <1>1, <1>2, BehindFacts
<1>5. Len(t) \in Nat /\ 1 \in 1..Len(t) /\ t[1] = Bang /\ DOMAIN t = 1..Len(t)
  <2>1. 1 \in 1..(Len(s) - n)
    BY <1>2
  <2>2. t[1] = s[n + 1]
    BY <1>4, <2>1
  <2> QED BY <1>2, <1>4, <2>1, <2>2
<1>6. PICK mu : mu = Run("Code", t)
  OBVIOUS
<1>7. ModeOf(Clean) = "Code"
  BY DEF ModeOf, Clean, NoQuote
<1>8. IsRun(mu, "Code", t) /\ LineReads(ScanLine(Clean, t), mu, t)
  BY <1>5, <1>6, <1>7, CleanEnterable, ScanLineReads
<1>9. mu[1] = "Comment"
  <2>1. mu[0] = "Code" /\ mu[1] = After(mu[0], Bang, Named(t, 1))
    BY <1>5, <1>8 DEF IsRun
  <2> QED BY <2>1, QuoteFacts DEF After, CodeAfter
<1>10. \A j \in 1..Len(t) : mu[j] = "Comment"
  BY <1>5, <1>8, <1>9, CommentStays
<1>11. ~Marked(mu, t)
  <2> SUFFICES ASSUME NEW i, MarkAt(mu, t, i)
               PROVE  FALSE
    BY DEF Marked
  <2>1. i \in 1..Len(t) /\ mu[i] \in {"Code"} \cup Quotes
    BY <1>5, <1>8, MarkKeeps
  <2> QED BY <1>10, <2>1, QuoteFacts
<1>12. ScanLine(Clean, t).lex = LexOf("Code")
  BY <1>8, <1>11 DEF LineReads
<1> QED BY <1>3, <1>12, LexOfFacts

LEMMA BlankScan ==
    ASSUME NEW s \in Seq(Bytes), FirstInk(s) > Len(s)
    PROVE  ScanLine(Clean, s).lex = Clean
<1>1. /\ Len(s) \in Nat /\ DOMAIN s = 1..Len(s) /\ \A j \in 1..Len(s) : s[j] = Blank
  BY InkType
<1>2. PICK mu : mu = Run(ModeOf(Clean), s)
  OBVIOUS
<1>3. LineReads(ScanLine(Clean, s), mu, s)
  BY <1>1, <1>2, CleanEnterable, ScanLineReads
<1>4. ~Marked(mu, s)
  <2>1. Amp # Blank
    BY DEF Amp, Blank
  <2> QED BY <1>1, <2>1 DEF Marked, MarkAt
<1>5. ScanLine(Clean, s).lex = LexOf("Code")
  BY <1>3, <1>4 DEF LineReads
<1> QED BY <1>5, LexOfFacts
\* The trimmer leaves the state the buffer leaves, and gives every code byte
\* the region the buffer gives it.
TrimmedAs(p, s, k) ==
    /\ TrimStream(s) = p.stream /\ TrimScan(s).lex = p.state.lex
    /\ k \in Nat /\ p.start = TrimStart(s) + k
    /\ \A j \in DOMAIN p.regions : k + j \in DOMAIN TrimScan(s).kinds
                                   /\ TrimScan(s).kinds[k + j] = p.regions[j]

LEMMA TrimmedLine ==
    ASSUME NEW states \in [Streams -> LineStates], NEW s \in Seq(Bytes), NEW p,
           LineOf(p, states, s), trim \in [Streams -> Lexes], NEW lex,
           lex = states[p.stream].lex, lex = trim[p.stream],
           ~(p.stream = "Conditional" /\ Prefix(s) = "CompactContinuation"),
           p.kind = "Code" => Resumes(lex, BodyOf(p)),
           p.kind = "Preprocessor" => ScanLine(Clean, s).lex = Clean
    PROVE  \E k : TrimmedAs(p, s, k)
<1>1. /\ p.bytes = s /\ p.stream \in Streams /\ p.start \in 1..Len(s) + 1
      /\ p.stream = "Ordinary" => p.start = FirstInk(s)
  BY LineStart
<1>2. p.stream = TrimStream(s) /\ p.stream = IF Prefix(s) = "BlankSeparated"
                                             THEN "Conditional" ELSE "Ordinary"
  BY DEF LineOf, StreamOf, TrimStream
<1>3. Enterable(lex)
  BY <1>1, LexesFacts
<1>4. TrimScan(s) = GroupLine(lex, From(s, TrimStart(s)))
  BY <1>2 DEF TrimScan
<1>5. CASE p.stream = "Conditional"
  <2>1. p.kind = "Code" /\ p.start = BodyStart(s)
    BY <1>5, LineShape
  <2>2. TrimStart(s) = p.start /\ BodyOf(p) = From(s, TrimStart(s))
    BY <1>1, <1>2, <1>5, <2>1 DEF TrimStart, BodyOf
  <2>3. PICK line : line = ScanLine(lex, BodyOf(p))
    OBVIOUS
  <2>4. /\ BodyOf(p) \in Seq(Bytes) /\ p.state = [lex |-> line.lex, continued |-> line.continued]
    BY <2>1, <2>3, ResumedState
  <2>5. TrimScan(s) = line
    BY <1>3, <1>4, <2>1, <2>2, <2>3, <2>4, ResumesReads
  <2>6. p.regions = line.kinds
    <3>1. ScanOf(p, states) = line
      BY <2>1, <2>3, CodeScan
    <3> QED BY <2>1, <3>1 DEF LineOf, Lexed
  <2>7. \A j \in DOMAIN p.regions : 0 + j = j
    <3>1. p.regions \in Seq(RegionKinds)
      BY LineRange
    <3> QED BY <3>1
  <2>8. p.state.lex = line.lex /\ p.start = TrimStart(s) + 0
    BY <1>1, <2>2, <2>4
  <2>9. TrimmedAs(p, s, 0)
    BY <1>2, <2>5, <2>6, <2>7, <2>8 DEF TrimmedAs
  <2> QED BY <2>9
<1>6. CASE p.stream = "Ordinary"
  <2>1. /\ Prefix(s) # "BlankSeparated" /\ p.start = FirstInk(s) /\ p.kind \in LineKinds
        /\ p.kind = "Code" <=> ~SteppedOver(s)
        /\ p.kind = "FindentFix" => s[FirstInk(s)] = Bang
        /\ p.kind = "Comment" => s[FirstInk(s)] = Bang
        /\ p.kind = "Blank" <=> FirstInk(s) > Len(s)
    BY <1>6, LineShape
  <2>2. TrimStart(s) = 1 /\ TrimScan(s) = GroupLine(lex, s)
    <3>1. TrimStart(s) = 1
      BY <2>1 DEF TrimStart
    <3> QED BY <1>4, <3>1, FromOne
  <2>3. PICK k : k = p.start - 1
    OBVIOUS
  <2>4. /\ k \in 0..Len(s) /\ k \in Nat /\ p.start = TrimStart(s) + k /\ k + 1 = p.start
        /\ \A j \in 1..k : s[j] = Blank
    <3>1. \A j \in 1..(FirstInk(s) - 1) : s[j] = Blank
      BY InkType
    <3>2. Len(s) \in Nat
      BY InkType
    <3> QED BY <1>1, <2>1, <2>2, <2>3, <3>1, <3>2
  <2>5. CASE Lexed(p)
    <3>1. SameBehind(GroupLine(lex, s), GroupLine(lex, From(s, k + 1)), k)
      BY <1>3, <2>4, GroupSuffix
    <3>2. BodyOf(p) = From(s, k + 1)
      BY <1>1, <2>4 DEF BodyOf
    <3>3. ScanOf(p, states) = GroupLine(lex, From(s, k + 1))
      BY <1>6, <3>2 DEF ScanOf, StreamLine
    <3>4. ~p.transparent
      BY <1>6 DEF LineOf
    <3>5. PICK x : x = GroupLine(lex, From(s, k + 1))
      OBVIOUS
    <3>6. p.regions = x.kinds /\ p.state.lex = x.lex
      BY <2>5, <3>3, <3>4, <3>5 DEF LineOf
    <3>7. /\ GroupLine(lex, s).lex = x.lex
          /\ \A j \in DOMAIN x.kinds : k + j \in DOMAIN GroupLine(lex, s).kinds
                                       /\ GroupLine(lex, s).kinds[k + j] = x.kinds[j]
      BY <3>1, <3>5 DEF SameBehind
    <3>8. TrimmedAs(p, s, k)
      BY <1>2, <2>2, <2>4, <3>6, <3>7 DEF TrimmedAs
    <3> QED BY <3>8
  <2>6. CASE ~Lexed(p)
    <3>1. p.state = states[p.stream] /\ p.regions = <<>>
      BY <2>6 DEF LineOf
    <3>2. p.kind \in {"Blank", "Comment", "Preprocessor"} /\ SteppedOver(s)
      BY <2>1, <2>6 DEF Lexed, LineKinds
    <3>3. GroupLine(lex, s).lex = lex
      <4>1. CASE lex # Clean
        BY <3>2, <4>1, GroupLineIs
      <4>2. CASE lex = Clean
        <5>1. GroupLine(lex, s) = ScanLine(lex, s)
          BY <4>2, GroupLineIs
        <5>2. ScanLine(Clean, s).lex = Clean
          <6>1. CASE p.kind = "Blank"
            BY <2>1, <6>1, BlankScan
          <6>2. CASE p.kind = "Comment"
            <7>1. ~(FirstInk(s) > Len(s)) /\ s[FirstInk(s)] = Bang
              BY <2>1, <6>2
            <7>2. FirstInk(s) <= Len(s)
              BY <7>1, InkType
            <7> QED BY <7>1, <7>2, BangLine
          <6>3. CASE p.kind = "Preprocessor"
            BY <6>3
          <6> QED BY <3>2, <6>1, <6>2, <6>3
        <5> QED BY <4>2, <5>1, <5>2
      <4> QED BY <4>1, <4>2
    <3>4. DOMAIN p.regions = {}
      BY <3>1
    <3>5. p.state.lex = lex
      BY <3>1
    <3>6. TrimmedAs(p, s, k)
      BY <1>2, <2>2, <2>4, <3>3, <3>4, <3>5 DEF TrimmedAs
    <3> QED BY <3>6
  <2> QED BY <2>5, <2>6
<1> QED BY <1>1, <1>5, <1>6 DEF Streams

TrimMatched == odd \subseteq {"both streams"}

TrimOK == TrimMatched => \A st \in Streams : trim[st] = buffer[st].lex

LEMMA TrimStep ==
    ASSUME WType, TrimOK, NEW s \in Seq(Bytes), NEW p, LineOf(p, buffer, s), Moves(p, s)
    PROVE  TrimOK' /\ TrimKeepsPayload'
<1>1. PICK states : states = buffer
  OBVIOUS
<1>2. states \in [Streams -> LineStates] /\ LineOf(p, states, s) /\ trim \in [Streams -> Lexes]
  BY <1>1 DEF WType
<1>3. /\ p.bytes = s /\ p.stream \in Streams /\ p.start \in 1..Len(s) + 1 /\ Len(s) \in Nat
  BY <1>2, LineStart
<1>4. /\ last' = p /\ buffer' = [buffer EXCEPT ![p.stream] = p.state]
      /\ odd' = odd \cup OddOf(p) /\ Trim(s)
  BY DEF Moves, Take
<1>5. ASSUME TrimMatched'
      PROVE  \E k : TrimmedAs(p, s, k)
  <2>1. OddOf(p) \subseteq {"both streams"} /\ TrimMatched
    BY <1>4, <1>5 DEF TrimMatched
  <2>2. ~(p.stream = "Conditional" /\ Prefix(s) = "CompactContinuation")
    <3>1. "compact" \notin OddOf(p)
      BY <2>1
    <3> QED BY <1>3, <3>1 DEF OddOf, OddShapes
  <2>3. p.kind = "Code" => Resumes(states[p.stream].lex, BodyOf(p))
    <3>1. "resume" \notin OddOf(p)
      BY <2>1
    <3> QED BY <1>1, <3>1 DEF OddOf, OddShapes, BodyOf
  <2>4. p.kind = "Preprocessor" => ScanLine(Clean, s).lex = Clean
    <3>1. "open directive" \notin OddOf(p)
      BY <2>1
    <3> QED BY <1>3, <3>1 DEF OddOf, OddShapes
  <2>5. states[p.stream].lex = trim[p.stream]
    BY <1>1, <1>3, <2>1 DEF TrimOK
  <2> QED BY <1>2, <2>2, <2>3, <2>4, <2>5, TrimmedLine
<1>6. TrimOK'
  <2> SUFFICES ASSUME TrimMatched', NEW st \in Streams
               PROVE  trim'[st] = buffer'[st].lex
    BY DEF TrimOK
  <2>1. PICK k : TrimmedAs(p, s, k)
    BY <1>5
  <2>2. trim' = [trim EXCEPT ![p.stream] = p.state.lex]
    BY <1>4, <2>1 DEF Trim, TrimmedAs
  <2>3. trim[st] = buffer[st].lex
    BY <1>4 DEF TrimOK, TrimMatched
  <2>4. CASE st = p.stream
    BY <1>1, <1>2, <1>3, <1>4, <2>2, <2>4
  <2>5. CASE st # p.stream
    <3>1. trim'[st] = trim[st] /\ buffer'[st] = buffer[st]
      BY <1>1, <1>2, <1>4, <2>2, <2>5
    <3> QED BY <2>3, <3>1
  <2> QED BY <2>4, <2>5
<1>7. TrimKeepsPayload'
  <2> SUFFICES ASSUME TrimMatched', NEW i \in (kept' + 1)..Len(s), RegionAt(p, i) \in Protected
               PROVE  FALSE
    BY <1>3, <1>4 DEF TrimKeepsPayload, TrimMatched
  <2>1. PICK k : TrimmedAs(p, s, k)
    BY <1>5
  <2>2. PICK j : j = i - p.start + 1
    OBVIOUS
  <2>3. j \in DOMAIN p.regions /\ p.regions[j] \in Protected
    BY <2>2 DEF RegionAt, Protected
  <2>4. k + j \in DOMAIN TrimScan(s).kinds /\ TrimScan(s).kinds[k + j] \in Protected
    BY <2>1, <2>3 DEF TrimmedAs
  <2>5. TrimStart(s) - 1 + (k + j) <= Floor(s)
    BY <1>2, <2>4, FloorIs
  <2>6. Floor(s) <= kept' /\ kept' \in LastInk(s)..Len(s)
    BY <1>2, <1>4, KeptRange
  <2>7. /\ k \in Nat /\ p.start = TrimStart(s) + k /\ TrimStart(s) \in Int
        /\ Floor(s) \in Int /\ kept' \in Int /\ LastInk(s) \in Int
    BY <1>2, <2>1, <2>6, TrimTarget, FloorIs, InkType DEF TrimmedAs
  <2>8. PICK a, c, e : a = TrimStart(s) /\ c = Floor(s) /\ e = kept'
    OBVIOUS
  <2>9. /\ a \in Int /\ c \in Int /\ e \in Int /\ k \in Nat /\ p.start = a + k
        /\ i \in Int /\ e + 1 <= i
    <3>1. a \in Int /\ c \in Int /\ e \in Int /\ k \in Nat /\ p.start = a + k
      BY <2>7, <2>8, Zenon
    <3>2. i \in (e + 1)..Len(s)
      BY <2>8, Zenon
    <3> QED BY <1>3, <3>1, <3>2
  <2>10. a - 1 + (k + j) <= c /\ c <= e
    BY <2>5, <2>6, <2>8
  <2>11. a - 1 + (k + j) = i
    BY <2>2, <2>9
  <2> QED BY <2>9, <2>10, <2>11
<1> QED BY <1>6, <1>7
-----------------------------------------------------------------------------
(* The lines of a stream are one text *)

\* What is open behind the text t.
Behind(t) == Run("Code", t)[Len(t)]

LEMMA RunsExist ==
    ASSUME NEW m \in {"Code"} \cup Quotes, NEW t \in Seq(Bytes)
    PROVE  IsRun(Run(m, t), m, t)
<1>1. PICK lex : lex = LexOf(m)
  OBVIOUS
<1>2. Enterable(lex) /\ ModeOf(lex) = m /\ Len(t) \in Nat
  BY <1>1, LexOfFacts
<1> QED BY <1>2, ScanReads

LEMMA SameSeq ==
    ASSUME NEW A, NEW a \in Seq(A), NEW b \in Seq(A), NEW n \in Nat, Len(a) = n, Len(b) = n,
           \A j \in 1..n : a[j] = b[j]
    PROVE  a = b
OBVIOUS

LEMMA CatFacts ==
    ASSUME NEW A, NEW c \in Seq(A), NEW t \in Seq(A), NEW w, w = c \o t
    PROVE  /\ w \in Seq(A) /\ Len(w) = Len(c) + Len(t) /\ Len(c) \in Nat /\ Len(t) \in Nat
           /\ \A j \in 1..Len(c) : w[j] = c[j]
           /\ \A j \in 1..Len(t) : w[Len(c) + j] = t[j]
<1>1. w \in Seq(A) /\ Len(c) \in Nat /\ Len(t) \in Nat /\ Len(w) = Len(c) + Len(t)
  OBVIOUS
<1>2. \A j \in 1..Len(c) : w[j] = c[j]
  BY <1>1
<1>3. \A j \in 1..Len(t) : w[Len(c) + j] = t[j]
  BY <1>1
<1> QED BY <1>1, <1>2, <1>3

Grown(w, nu, c, mu) ==
    /\ IsRun(nu, "Code", w) /\ IsRun(mu, "Code", c)
    /\ \A j \in 0..Len(c) : nu[j] = mu[j]
    /\ \A j \in 1..Len(c) : Reads(nu, w, j) = Reads(mu, c, j)

\* A text reads as it did before something was appended to it.
LEMMA GrownRun ==
    ASSUME NEW c \in Seq(Bytes), NEW t \in Seq(Bytes)
    PROVE  Grown(c \o t, Run("Code", c \o t), c, Run("Code", c))
<1>0. PICK w, nu, mu : w = c \o t /\ nu = Run("Code", w) /\ mu = Run("Code", c)
  OBVIOUS
<1>1. /\ w \in Seq(Bytes) /\ Len(w) = Len(c) + Len(t) /\ Len(c) \in Nat /\ Len(t) \in Nat
      /\ \A j \in 1..Len(c) : w[j] = c[j]
  BY <1>0, CatFacts
<1>2. IsRun(nu, "Code", w) /\ IsRun(mu, "Code", c)
  BY <1>0, <1>1, RunsExist
<1>3. PICK z, l : z = 0 /\ l = Len(c)
  OBVIOUS
<1>4. Alike(w, nu, z, c, mu, z, l)
  <2>1. Len(w) \in Nat /\ Len(c) \in Nat
    BY <1>1
  <2>2. (\E m : IsRun(nu, m, w)) /\ (\E m : IsRun(mu, m, c))
    BY <1>2
  <2>3. z \in Nat /\ l \in Nat /\ z + l <= Len(w) /\ z + l <= Len(c)
    BY <1>1, <1>3
  <2>4. \A j \in 1..l : w[z + j] = c[z + j]
    BY <1>1, <1>3
  <2>5. nu[z] = mu[z]
    BY <1>2, <1>3 DEF IsRun
  <2>6. l > 0 => SameHead(nu[z], w[z + 1], Named(w, z + 1), Named(c, z + 1))
    BY <1>3 DEF SameHead, Named
  <2> QED BY <2>1, <2>2, <2>3, <2>4, <2>5, <2>6, Zenon DEF Alike
<1>5. Agree(w, nu, z, c, mu, z, l)
  BY <1>4, RunsAgree, Zenon
<1>6. /\ \A j \in 0..l : nu[z + j] = mu[z + j]
      /\ \A j \in 1..l : Reads(nu, w, z + j) = Reads(mu, c, z + j)
  BY <1>5, Zenon DEF Agree
<1>7. \A j \in 0..l : z + j = j
  BY <1>1, <1>3
<1>8. \A j \in 1..l : z + j = j
  BY <1>1, <1>3
<1>9. /\ \A j \in 0..Len(c) : nu[j] = mu[j]
      /\ \A j \in 1..Len(c) : Reads(nu, w, j) = Reads(mu, c, j)
  BY <1>3, <1>6, <1>7, <1>8
<1>10. Grown(w, nu, c, mu)
  BY <1>2, <1>9, Zenon DEF Grown
<1> QED BY <1>0, <1>10

EndsName(c) == c # <<>> /\ c[Len(c)] \in InName

\* The bytes t, which s has behind b, continue the text c.
Fits(c, t, mu, s, b) ==
    /\ c \in Seq(Bytes) /\ t \in Seq(Bytes) /\ s \in Seq(Bytes) /\ (\E m : IsRun(mu, m, s))
    /\ b \in Nat /\ b + Len(t) <= Len(s) /\ \A j \in 1..Len(t) : t[j] = s[b + j]
    /\ Behind(c) = mu[b]
    /\ t # <<>> => SameHead(mu[b], t[1], EndsName(c), Named(s, b + 1))

GoesOn(c, t, mu, s, b) ==
    /\ \A j \in 0..Len(t) : Run("Code", c \o t)[Len(c) + j] = mu[b + j]
    /\ \A j \in 1..Len(t) : Reads(Run("Code", c \o t), c \o t, Len(c) + j) = Reads(mu, s, b + j)

\* What is appended reads as it does by itself from what the text left open.
LEMMA AppendedRun ==
    ASSUME NEW c, NEW t, NEW mu, NEW s, NEW b, Fits(c, t, mu, s, b)
    PROVE  GoesOn(c, t, mu, s, b)
<1>0. PICK w, nu : w = c \o t /\ nu = Run("Code", w)
  OBVIOUS
<1> USE DEF Fits
<1>1. /\ w \in Seq(Bytes) /\ Len(w) = Len(c) + Len(t) /\ Len(c) \in Nat /\ Len(t) \in Nat
      /\ \A j \in 1..Len(c) : w[j] = c[j]
      /\ \A j \in 1..Len(t) : w[Len(c) + j] = t[j]
  BY <1>0, CatFacts
<1>2. PICK nc : nc = Run("Code", c)
  OBVIOUS
<1>3. IsRun(nu, "Code", w) /\ \A j \in 0..Len(c) : nu[j] = nc[j]
  <2>1. Grown(w, nu, c, nc)
    BY <1>0, <1>2, GrownRun
  <2> QED BY <2>1 DEF Grown
<1>4. nu[Len(c)] = mu[b]
  BY <1>1, <1>2, <1>3 DEF Behind
<1>5. PICK a, l : a = Len(c) /\ l = Len(t)
  OBVIOUS
<1>6. Named(w, a + 1) <=> EndsName(c)
  <2>1. CASE a = 0
    <3>1. c = <<>>
      <4>1. Len(c) = 0 /\ c \in Seq(Bytes)
        BY <1>5, <2>1
      <4> QED BY <4>1
    <3> QED BY <2>1, <3>1 DEF Named, EndsName
  <2>2. CASE a # 0
    <3>1. c # <<>> /\ a \in 1..Len(c) /\ a + 1 # 1 /\ (a + 1) - 1 = a
      BY <1>1, <1>5, <2>2
    <3>2. w[a] = c[Len(c)]
      BY <1>1, <1>5, <3>1
    <3> QED BY <3>1, <3>2 DEF Named, EndsName
  <2> QED BY <2>1, <2>2
<1>7. Alike(w, nu, a, s, mu, b, l)
  <2>1. Len(w) \in Nat /\ Len(s) \in Nat
    BY <1>1
  <2>2. (\E x : IsRun(nu, x, w)) /\ (\E x : IsRun(mu, x, s))
    BY <1>3
  <2>3. a \in Nat /\ b \in Nat /\ l \in Nat /\ a + l <= Len(w) /\ b + l <= Len(s)
    BY <1>1, <1>5
  <2>4. \A j \in 1..l : w[a + j] = s[b + j]
    BY <1>1, <1>5
  <2>5. nu[a] = mu[b]
    BY <1>4, <1>5
  <2>6. l > 0 => SameHead(nu[a], w[a + 1], Named(w, a + 1), Named(s, b + 1))
    <3> SUFFICES ASSUME l > 0
                 PROVE  SameHead(nu[a], w[a + 1], Named(w, a + 1), Named(s, b + 1))
      OBVIOUS
    <3>1. t # <<>> /\ 1 \in 1..Len(t)
      BY <1>1, <1>5
    <3>2. w[a + 1] = t[1]
      BY <1>1, <1>5, <3>1
    <3>3. SameHead(mu[b], t[1], EndsName(c), Named(s, b + 1))
      BY <3>1
    <3> QED BY <1>6, <2>5, <3>2, <3>3 DEF SameHead
  <2> QED BY <2>1, <2>2, <2>3, <2>4, <2>5, <2>6, Zenon DEF Alike
<1>8. Agree(w, nu, a, s, mu, b, l)
  BY <1>7, RunsAgree, Zenon
<1> QED BY <1>0, <1>5, <1>8, Zenon DEF Agree, GoesOn
\* What a code line leaves open is what its marker, or its last byte, is in.
LEMMA LineEnds ==
    ASSUME NEW states \in [Streams -> LineStates], NEW s \in Seq(Bytes), NEW p,
           LineOf(p, states, s), p.kind = "Code", ~p.transparent, NEW lex, Enterable(lex),
           ScanOf(p, states) = ScanLine(lex, BodyOf(p)),
           NEW t, t = BodyOf(p), NEW mu, mu = Run(ModeOf(lex), t)
    PROVE  /\ p.state.lex # Clean => ModeOf(p.state.lex) = mu[Len(t)]
           /\ \A i : MarkAt(mu, t, i) => ModeOf(p.state.lex) = mu[i]
<1>1. t \in Seq(Bytes) /\ IsRun(mu, ModeOf(lex), t)
  BY CodeRun
<1>2. Len(t) \in Nat /\ DOMAIN t = 1..Len(t)
  BY <1>1
<1>3. LineReads(ScanLine(lex, t), mu, t)
  BY <1>2, ScanLineReads
<1>4. p.state.lex = LexOf(IF Marked(mu, t) THEN mu[Len(t)] ELSE "Code")
  <2>1. Lexed(p)
    BY DEF Lexed
  <2>2. p.state.lex = ScanLine(lex, t).lex
    BY <2>1 DEF LineOf
  <2> QED BY <1>3, <2>2 DEF LineReads
<1>5. ASSUME NEW i, MarkAt(mu, t, i)
      PROVE  /\ Marked(mu, t) /\ mu[i] \in {"Code"} \cup Quotes
             /\ mu[Len(t)] = mu[i] \/ (mu[i] = "Code" /\ mu[Len(t)] = "Comment")
  <2>1. i \in 1..Len(t) /\ mu[i] \in {"Code"} \cup Quotes
    BY <1>1, <1>2, <1>5, MarkKeeps
  <2>2. \A j \in i..Len(t) : mu[j] = mu[i] \/ (mu[i] = "Code" /\ mu[j] = "Comment")
    BY <1>1, <1>2, <1>5, MarkTail
  <2> QED BY <1>2, <1>5, <2>1, <2>2 DEF Marked
<1>6. ASSUME NEW i, MarkAt(mu, t, i)
      PROVE  ModeOf(p.state.lex) = mu[i]
  <2>1. p.state.lex = LexOf(mu[Len(t)])
    BY <1>4, <1>5, <1>6
  <2>2. LexOf(mu[Len(t)]) = LexOf(mu[i])
    BY <1>5, <1>6, LexOfFacts
  <2> QED BY <1>5, <1>6, <2>1, <2>2, LexOfFacts
<1>7. ASSUME p.state.lex # Clean
      PROVE  ModeOf(p.state.lex) = mu[Len(t)]
  <2>1. Marked(mu, t) /\ p.state.lex = LexOf(mu[Len(t)])
    BY <1>4, <1>7, LexOfFacts
  <2>2. PICK i : MarkAt(mu, t, i)
    BY <2>1 DEF Marked
  <2>3. mu[Len(t)] # "Comment"
    BY <1>7, <2>1, LexOfFacts
  <2> QED BY <1>5, <1>6, <2>2, <2>3
<1> QED BY <1>6, <1>7

\* The bytes c leave the state lex open.
Carries(c, lex) ==
    /\ c \in Seq(Bytes) /\ Behind(c) = ModeOf(lex)
    /\ lex = Clean => c = <<>>

ChainOK ==
    /\ chain \in [Streams -> Seq(Bytes)]
    /\ \A st \in Streams : Carries(chain[st], buffer[st].lex)

LEMMA CleanMode == ModeOf(Clean) = "Code"
BY DEF ModeOf, Clean, NoQuote

LEMMA NothingBehind == Behind(<<>>) = "Code"
<1>1. PICK e : e = <<>>
  OBVIOUS
<1>2. e \in Seq(Bytes) /\ Len(e) = 0
  BY <1>1
<1>3. IsRun(Run("Code", e), "Code", e)
  BY <1>2, RunsExist
<1> QED BY <1>1, <1>2, <1>3 DEF Behind, IsRun

LEMMA NonClean ==
    ASSUME NEW lex, Enterable(lex), lex # Clean
    PROVE  ModeOf(lex) \in Quotes /\ ModeOf(lex) # "Code" /\ InLiteral(lex)
<1>1. lex = LexOf(ModeOf(lex)) /\ ModeOf(lex) \in {"Code"} \cup Quotes
  BY LexOfFacts
<1>2. ModeOf(lex) # "Code"
  BY <1>1, LexOfFacts
<1>3. InLiteral(lex) <=> ModeOf(lex) \in Quotes
  BY <1>1, LexOfFacts
<1> QED BY <1>1, <1>2, <1>3

ChainReads(p, c) ==
    /\ BodyOf(p) \in Seq(Bytes) /\ c \o BodyOf(p) \in Seq(Bytes)
    /\ p.regions = From(Scan(Clean, c \o BodyOf(p)).kinds, Len(c) + 1)
    /\ p.state.lex # Clean => Behind(c \o BodyOf(p)) = ModeOf(p.state.lex)

\* The code of line p, read behind all its stream left open.
LEMMA ChainLine ==
    ASSUME NEW states \in [Streams -> LineStates], NEW s \in Seq(Bytes), NEW p,
           LineOf(p, states, s), p.kind = "Code", ~p.transparent, NEW c,
           Carries(c, states[p.stream].lex)
    PROVE  ChainReads(p, c)
<1>0. PICK lex, t, w : lex = states[p.stream].lex /\ t = BodyOf(p) /\ w = c \o t
  OBVIOUS
<1>1. p.stream \in Streams /\ c \in Seq(Bytes) /\ Behind(c) = ModeOf(lex)
      /\ (lex = Clean => c = <<>>)
  BY <1>0, LineStart DEF Carries
<1>2. Enterable(lex) /\ ScanOf(p, states) = ScanLine(lex, t)
  <2>1. Resumes(lex, BodyOf(p)) \/ p.stream = "Ordinary"
    <3>1. p.transparent = (/\ Lexed(p) /\ p.stream = "Conditional"
                           /\ ~Resumes(states[p.stream].lex, BodyOf(p)))
      BY DEF LineOf
    <3> QED BY <1>0, <1>1, <3>1 DEF Lexed, Streams
  <2> QED BY <1>0, <2>1, CodeScan
<1>3. PICK mu : mu = Run(ModeOf(lex), t)
  OBVIOUS
<1>4. /\ t \in Seq(Bytes) /\ IsRun(mu, ModeOf(lex), t)
      /\ p.regions \in Seq(RegionKinds) /\ Len(p.regions) = Len(t)
      /\ \A j \in 1..Len(t) : p.regions[j] = Reads(mu, t, j)
  BY <1>0, <1>2, <1>3, CodeRun
<1>5. /\ w \in Seq(Bytes) /\ Len(w) = Len(c) + Len(t) /\ Len(c) \in Nat /\ Len(t) \in Nat
  BY <1>0, <1>1, <1>4, CatFacts
<1>6. PICK nu, z : nu = Run("Code", w) /\ z = 0
  OBVIOUS
<1>7. /\ \A j \in 0..Len(t) : nu[Len(c) + j] = mu[z + j]
      /\ \A j \in 1..Len(t) : Reads(nu, w, Len(c) + j) = Reads(mu, t, z + j)
  <2>1. z \in Nat /\ z + Len(t) <= Len(t) /\ \A j \in 1..Len(t) : t[j] = t[z + j]
    BY <1>5, <1>6
  <2>2. Behind(c) = mu[z]
    BY <1>1, <1>4, <1>6 DEF IsRun
  <2>3. ASSUME t # <<>>
        PROVE  SameHead(mu[z], t[1], EndsName(c), Named(t, z + 1))
    <3>1. CASE lex = Clean
      BY <1>1, <1>6, <3>1 DEF SameHead, Named, EndsName
    <3>2. CASE lex # Clean
      <4>1. mu[z] # "Code"
        BY <1>1, <1>2, <2>2, <3>2, NonClean
      <4> QED BY <4>1 DEF SameHead
    <3> QED BY <3>1, <3>2
  <2>4. Fits(c, t, mu, t, z)
    BY <1>1, <1>4, <2>1, <2>2, <2>3, Zenon DEF Fits
  <2>5. GoesOn(c, t, mu, t, z)
    BY <2>4, AppendedRun
  <2> QED BY <1>0, <1>6, <2>5, Zenon DEF GoesOn
<1>8. /\ \A j \in 0..Len(t) : z + j = j
      /\ \A j \in 1..Len(t) : z + j = j
  BY <1>5, <1>6
<1>9. PICK scan : scan = Scan(Clean, w)
  OBVIOUS
<1>10. ReadBy(scan, nu, w)
  <2>1. ReadBy(Scan(Clean, w), Run(ModeOf(Clean), w), w)
    BY <1>5, CleanEnterable, ScanReads
  <2> QED BY <1>6, <1>9, <2>1, CleanMode
<1>11. PICK ks, n : ks = scan.kinds /\ n = Len(c)
  OBVIOUS
<1>12. /\ ks \in Seq(RegionKinds) /\ Len(ks) = Len(w)
       /\ \A i \in 1..Len(w) : ks[i] = Reads(nu, w, i)
  BY <1>10, <1>11 DEF ReadBy, KindsSoFar, Reads
<1>13. PICK r : r = From(ks, n + 1)
  OBVIOUS
<1>14. r \in Seq(RegionKinds) /\ Len(r) = Len(t) /\ \A j \in 1..Len(t) : r[j] = ks[n + j]
  <2>1. n \in Nat /\ n <= Len(ks) /\ Len(ks) - n = Len(t)
    BY <1>5, <1>11, <1>12
  <2>2. r = SubSeq(ks, n + 1, Len(ks))
    BY <1>13 DEF From
  <2> QED BY <1>5, <1>12, <2>1, <2>2
<1>15. ASSUME NEW j \in 1..Len(t)
       PROVE  r[j] = p.regions[j]
  <2>1. n + j \in 1..Len(w)
    BY <1>5, <1>11
  <2>2. ks[n + j] = Reads(nu, w, n + j) /\ r[j] = ks[n + j]
    BY <1>12, <1>14, <2>1
  <2>3. Reads(nu, w, n + j) = Reads(mu, t, j)
    BY <1>7, <1>8, <1>11
  <2> QED BY <1>4, <2>2, <2>3
<1>16. p.regions = r
  BY <1>4, <1>5, <1>14, <1>15, SameSeq
<1>17. ASSUME p.state.lex # Clean
       PROVE  Behind(w) = ModeOf(p.state.lex)
  <2>1. ModeOf(p.state.lex) = mu[Len(t)]
    BY <1>0, <1>2, <1>3, <1>17, LineEnds
  <2>2. nu[Len(c) + Len(t)] = mu[Len(t)]
    BY <1>5, <1>7, <1>8
  <2> QED BY <1>5, <1>6, <2>1, <2>2 DEF Behind
<1> QED BY <1>0, <1>4, <1>5, <1>9, <1>11, <1>13, <1>16, <1>17 DEF ChainReads

LEMMA ChainStep ==
    ASSUME WType, ChainOK, NEW s \in Seq(Bytes), NEW p, LineOf(p, buffer, s), Moves(p, s)
    PROVE  ChainOK' /\ ReadAsOne(last')
<1>1. PICK states : states = buffer
  OBVIOUS
<1>2. states \in [Streams -> LineStates] /\ LineOf(p, states, s)
  BY <1>1 DEF WType
<1>3. /\ p.stream \in Streams /\ p.bytes = s /\ last' = p
      /\ buffer' = [buffer EXCEPT ![p.stream] = p.state]
      /\ chain' = IF p.kind # "Code" \/ p.transparent THEN chain
                  ELSE [chain EXCEPT ![p.stream] =
                          IF p.state.lex = Clean THEN <<>> ELSE ChainWith(p)]
  BY <1>2, LineStart DEF Moves, Take
<1>4. PICK c : c = chain[p.stream]
  OBVIOUS
<1>5. Carries(c, states[p.stream].lex)
  BY <1>1, <1>3, <1>4 DEF ChainOK
<1>6. CASE p.kind # "Code" \/ p.transparent
  <2>1. chain' = chain
    BY <1>3, <1>6
  <2>2. p.state.lex = buffer[p.stream].lex
    <3>1. CASE p.kind = "FindentFix" /\ ~p.transparent
      <4>1. p.state = [lex |-> states[p.stream].lex, continued |-> FALSE]
        BY <1>2, <3>1, FixKeeps
      <4> QED BY <1>1, <4>1
    <3>2. CASE ~(p.kind = "FindentFix" /\ ~p.transparent)
      <4>1. ~Lexed(p) \/ p.transparent
        BY <1>6, <3>2 DEF Lexed
      <4> QED BY <4>1 DEF LineOf
    <3> QED BY <3>1, <3>2
  <2>3. \A st \in Streams : buffer'[st].lex = buffer[st].lex
    BY <1>1, <1>2, <1>3, <2>2
  <2>4. ChainOK'
    BY <2>1, <2>3 DEF ChainOK
  <2> QED BY <1>3, <1>6, <2>4 DEF ReadAsOne
<1>7. CASE p.kind = "Code" /\ ~p.transparent
  <2>1. PICK w : w = c \o BodyOf(p)
    OBVIOUS
  <2>2. /\ BodyOf(p) \in Seq(Bytes) /\ w \in Seq(Bytes)
        /\ p.regions = From(Scan(Clean, w).kinds, Len(c) + 1)
        /\ p.state.lex # Clean => Behind(w) = ModeOf(p.state.lex)
    <3>1. ChainReads(p, c)
      BY <1>2, <1>5, <1>7, ChainLine
    <3> QED BY <2>1, <3>1 DEF ChainReads
  <2>3. ChainWith(p) = w
    BY <1>4, <2>1 DEF ChainWith, BodyOf
  <2>4. ReadAsOne(last')
    BY <1>3, <1>4, <2>2, <2>3 DEF ReadAsOne
  <2>5. PICK v : v = IF p.state.lex = Clean THEN <<>> ELSE w
    OBVIOUS
  <2>6. Carries(v, p.state.lex)
    <3>1. CASE p.state.lex = Clean
      BY <2>5, <3>1, NothingBehind, CleanMode DEF Carries
    <3>2. CASE p.state.lex # Clean
      BY <2>2, <2>5, <3>2 DEF Carries
    <3> QED BY <3>1, <3>2
  <2>7. chain' = [chain EXCEPT ![p.stream] = v]
    BY <1>3, <1>7, <2>3, <2>5
  <2>8. \A st \in Streams : /\ chain'[st] = IF st = p.stream THEN v ELSE chain[st]
                            /\ buffer'[st] = IF st = p.stream THEN p.state ELSE buffer[st]
    BY <1>1, <1>2, <1>3, <2>7 DEF ChainOK
  <2>9. chain' \in [Streams -> Seq(Bytes)]
    BY <1>3, <2>6, <2>7 DEF ChainOK, Carries
  <2>10. ASSUME NEW st \in Streams
         PROVE  Carries(chain'[st], buffer'[st].lex)
    BY <2>6, <2>8 DEF ChainOK
  <2> QED BY <2>4, <2>9, <2>10 DEF ChainOK
<1> QED BY <1>6, <1>7
-----------------------------------------------------------------------------
(* The text of a statement *)

BytesOf(text) == [i \in DOMAIN text |-> text[i].byte]

\* Read as the text T, no byte is a comment, and each has the region its own
\* line gave it.
TextReads(text, nu, T) ==
    /\ \A i \in 0..Len(T) : nu[i] # "Comment"
    /\ \A i \in 1..Len(T) : text[i].region # "None" => Reads(nu, T, i) = text[i].region

TextOK(text) == TextReads(text, Run("Code", BytesOf(text)), BytesOf(text))

LEMMA BytesOfFacts ==
    ASSUME NEW text \in Seq(Pieces)
    PROVE  /\ BytesOf(text) \in Seq(Bytes) /\ Len(BytesOf(text)) = Len(text)
           /\ Len(text) \in Nat /\ \A i \in 1..Len(text) : BytesOf(text)[i] = text[i].byte
<1>1. PICK n : n = Len(text)
  OBVIOUS
<1>2. n \in Nat /\ DOMAIN text = 1..n /\ \A i \in 1..n : text[i] \in Pieces
  BY <1>1
<1>3. \A i \in 1..n : text[i].byte \in Bytes
  BY <1>2 DEF Pieces
<1>4. BytesOf(text) = [i \in 1..n |-> text[i].byte]
  BY <1>2, Zenon DEF BytesOf
<1>5. BytesOf(text) \in [1..n -> Bytes]
  BY <1>3, <1>4
<1> QED BY <1>1, <1>2, <1>4, <1>5

LEMMA BytesCat ==
    ASSUME NEW text \in Seq(Pieces), NEW add \in Seq(Pieces)
    PROVE  BytesOf(text \o add) = BytesOf(text) \o BytesOf(add)
<1>1. PICK w, t, a, b, r : /\ w = text \o add /\ t = BytesOf(text) /\ a = BytesOf(add)
                           /\ b = BytesOf(w) /\ r = t \o a
  OBVIOUS
<1>2. /\ w \in Seq(Pieces) /\ Len(w) = Len(text) + Len(add)
      /\ Len(text) \in Nat /\ Len(add) \in Nat
      /\ \A j \in 1..Len(text) : w[j] = text[j]
      /\ \A j \in 1..Len(add) : w[Len(text) + j] = add[j]
  BY <1>1, CatFacts
<1>3. /\ t \in Seq(Bytes) /\ Len(t) = Len(text) /\ \A i \in 1..Len(text) : t[i] = text[i].byte
      /\ a \in Seq(Bytes) /\ Len(a) = Len(add) /\ \A i \in 1..Len(add) : a[i] = add[i].byte
      /\ b \in Seq(Bytes) /\ Len(b) = Len(w) /\ \A i \in 1..Len(w) : b[i] = w[i].byte
  BY <1>1, <1>2, BytesOfFacts
<1>4. /\ r \in Seq(Bytes) /\ Len(r) = Len(t) + Len(a)
      /\ \A j \in 1..Len(t) : r[j] = t[j]
      /\ \A j \in 1..Len(a) : r[Len(t) + j] = a[j]
  <2>1. t \in Seq(Bytes) /\ a \in Seq(Bytes) /\ r = t \o a
    BY <1>1, <1>3
  <2> HIDE <1>3
  <2> QED BY <2>1, CatFacts
<1>5. ASSUME NEW j \in 1..Len(w)
      PROVE  b[j] = r[j]
  <2>1. CASE j <= Len(text)
    <3>1. j \in 1..Len(text) /\ j \in 1..Len(t)
      BY <1>2, <1>3, <2>1
    <3>2. b[j] = w[j].byte /\ w[j] = text[j] /\ t[j] = text[j].byte /\ r[j] = t[j]
      BY <1>2, <1>3, <1>4, <3>1
    <3> QED BY <3>2
  <2>2. CASE j > Len(text)
    <3>1. PICK i : i = j - Len(text)
      OBVIOUS
    <3>2. i \in 1..Len(add) /\ Len(text) + i = j
      BY <1>2, <2>2, <3>1
    <3>3. w[Len(text) + i] = add[i] /\ r[Len(t) + i] = a[i] /\ a[i] = add[i].byte
      BY <1>2, <1>3, <1>4, <3>2
    <3>4. b[j] = w[j].byte
      BY <1>3
    <3> QED BY <1>3, <3>2, <3>3, <3>4
  <2> QED BY <1>2, <2>1, <2>2
<1>6. b = r
  BY <1>2, <1>3, <1>4, <1>5, SameSeq
<1> QED BY <1>1, <1>6

\* Bytes that read the same in their line may join the text.
AddReads(add, mu, s, b) ==
    /\ \A j \in 0..Len(add) : mu[b + j] # "Comment"
    /\ \A j \in 1..Len(add) : add[j].region # "None" => Reads(mu, s, b + j) = add[j].region

\* The text is well read, and lies behind it what lies behind byte j of mu.
Grew(text, mu, j) == text \in Seq(Pieces) /\ TextOK(text) /\ Behind(BytesOf(text)) = mu[j]

LEMMA TextGrows ==
    ASSUME NEW text \in Seq(Pieces), NEW add \in Seq(Pieces), TextOK(text),
           NEW mu, NEW s, NEW b, Fits(BytesOf(text), BytesOf(add), mu, s, b),
           AddReads(add, mu, s, b)
    PROVE  Grew(text \o add, mu, b + Len(add))
<1>1. PICK x, t, a, w, nu, nt : /\ x = text \o add /\ t = BytesOf(text) /\ a = BytesOf(add)
                                /\ w = t \o a /\ nu = Run("Code", w) /\ nt = Run("Code", t)
  OBVIOUS
<1>2. BytesOf(x) = w
  BY <1>1, BytesCat
<1>3. /\ t \in Seq(Bytes) /\ Len(t) = Len(text) /\ a \in Seq(Bytes) /\ Len(a) = Len(add)
      /\ Len(text) \in Nat /\ Len(add) \in Nat
  BY <1>1, BytesOfFacts
<1>4. /\ x \in Seq(Pieces) /\ Len(x) = Len(text) + Len(add)
      /\ \A j \in 1..Len(text) : x[j] = text[j]
      /\ \A j \in 1..Len(add) : x[Len(text) + j] = add[j]
  BY <1>1, CatFacts
<1>5. w \in Seq(Bytes) /\ Len(w) = Len(t) + Len(a)
  BY <1>1, <1>3, CatFacts
<1>6. /\ \A j \in 0..Len(t) : nu[j] = nt[j]
      /\ \A j \in 1..Len(t) : Reads(nu, w, j) = Reads(nt, t, j)
  <2>1. Grown(w, nu, t, nt)
    BY <1>1, <1>3, GrownRun
  <2> QED BY <2>1 DEF Grown
<1>7. /\ \A j \in 0..Len(a) : nu[Len(t) + j] = mu[b + j]
      /\ \A j \in 1..Len(a) : Reads(nu, w, Len(t) + j) = Reads(mu, s, b + j)
  <2>1. GoesOn(t, a, mu, s, b)
    BY <1>1, AppendedRun
  <2> QED BY <1>1, <2>1, Zenon DEF GoesOn
<1>8. TextReads(text, nt, t)
  BY <1>1 DEF TextOK
<1>9. ASSUME NEW i \in 0..Len(w)
      PROVE  nu[i] # "Comment"
  <2>1. CASE i <= Len(t)
    BY <1>3, <1>6, <1>8, <2>1 DEF TextReads
  <2>2. CASE i > Len(t)
    <3>1. PICK j : j = i - Len(t)
      OBVIOUS
    <3>2. j \in 0..Len(a) /\ Len(t) + j = i
      BY <1>3, <1>5, <2>2, <3>1
    <3>3. nu[i] = mu[b + j]
      BY <1>7, <3>2
    <3> QED BY <1>3, <3>2, <3>3 DEF AddReads
  <2> QED BY <1>3, <2>1, <2>2
<1>10. ASSUME NEW i \in 1..Len(w), x[i].region # "None"
       PROVE  Reads(nu, w, i) = x[i].region
  <2>1. CASE i <= Len(t)
    <3>1. i \in 1..Len(t) /\ x[i] = text[i]
      BY <1>3, <1>4, <2>1
    <3> QED BY <1>6, <1>8, <1>10, <3>1 DEF TextReads
  <2>2. CASE i > Len(t)
    <3>1. PICK j : j = i - Len(t)
      OBVIOUS
    <3>2. j \in 1..Len(add) /\ Len(t) + j = i
      BY <1>3, <1>5, <2>2, <3>1
    <3>3. x[i] = add[j] /\ Reads(nu, w, i) = Reads(mu, s, b + j)
      BY <1>3, <1>4, <1>7, <3>2
    <3> QED BY <1>10, <3>2, <3>3 DEF AddReads
  <2> QED BY <1>3, <2>1, <2>2
<1>11. TextOK(x)
  BY <1>1, <1>2, <1>9, <1>10 DEF TextOK, TextReads
<1>12. Behind(w) = mu[b + Len(add)]
  <2>1. nu[Len(t) + Len(a)] = mu[b + Len(a)]
    BY <1>3, <1>7
  <2> QED BY <1>1, <1>3, <1>5, <2>1 DEF Behind
<1> QED BY <1>1, <1>2, <1>4, <1>11, <1>12 DEF Grew

LEMMA EmptyText == TextOK(<<>>) /\ BytesOf(<<>>) = <<>>
<1>1. PICK e, b : e = <<>> /\ b = BytesOf(e)
  OBVIOUS
<1>2. e \in Seq(Pieces) /\ Len(e) = 0
  BY <1>1
<1>3. b \in Seq(Bytes) /\ Len(b) = 0
  BY <1>1, <1>2, BytesOfFacts
<1>4. b = <<>>
  BY <1>3
<1>5. IsRun(Run("Code", b), "Code", b)
  BY <1>3, RunsExist
<1>6. TextReads(e, Run("Code", b), b)
  BY <1>3, <1>5 DEF TextReads, IsRun
<1> QED BY <1>1, <1>4, <1>6 DEF TextOK

\* A blank joins a text that ends in code.
LEMMA BlankGrows ==
    ASSUME NEW text \in Seq(Pieces), TextOK(text), Behind(BytesOf(text)) = "Code",
           NEW x, x = text \o <<[byte |-> Blank, region |-> "None"]>>
    PROVE  /\ x \in Seq(Pieces) /\ TextOK(x) /\ Behind(BytesOf(x)) = "Code"
           /\ ~EndsName(BytesOf(x))
<1>1. PICK add, s, mu, z : /\ add = <<[byte |-> Blank, region |-> "None"]>> /\ s = BytesOf(add)
                           /\ mu = Run("Code", s) /\ z = 0
  OBVIOUS
<1>2. [byte |-> Blank, region |-> "None"] \in Pieces
  BY DEF Pieces, Bytes
<1>3. add \in Seq(Pieces) /\ Len(add) = 1 /\ add[1].byte = Blank /\ add[1].region = "None"
  BY <1>1, <1>2
<1>4. s \in Seq(Bytes) /\ Len(s) = 1 /\ s[1] = Blank
  <2>1. s \in Seq(Bytes) /\ Len(s) = Len(add) /\ \A i \in 1..Len(add) : s[i] = add[i].byte
    BY <1>1, <1>3, BytesOfFacts
  <2> QED BY <1>3, <2>1
<1>5. IsRun(mu, "Code", s)
  BY <1>1, <1>4, RunsExist
<1>6. mu[0] = "Code" /\ mu[1] = "Code"
  <2>1. mu[0] = "Code"
    BY <1>5 DEF IsRun
  <2>2. 1 \in 1..Len(s) /\ s[1] \in {Blank, Amp} /\ mu[1 - 1] # "Hollerith" /\ Len(s) \in Nat
    BY <1>4, <2>1
  <2>3. mu[1] = mu[1 - 1]
    BY <1>5, <2>2, BlankStep
  <2> QED BY <2>1, <2>3
<1>7. Fits(BytesOf(text), s, mu, s, z)
  <2>1. BytesOf(text) \in Seq(Bytes)
    BY BytesOfFacts
  <2>2. z \in Nat /\ z + Len(s) <= Len(s) /\ \A j \in 1..Len(s) : s[j] = s[z + j]
    BY <1>1, <1>4
  <2>3. Behind(BytesOf(text)) = mu[z]
    BY <1>1, <1>6
  <2>4. SameHead(mu[z], s[1], EndsName(BytesOf(text)), Named(s, z + 1))
    BY <1>4 DEF SameHead, Blank, Hollerith
  <2> QED BY <1>4, <1>5, <2>1, <2>2, <2>3, <2>4, Zenon DEF Fits
<1>8. AddReads(add, mu, s, z)
  BY <1>1, <1>3, <1>6 DEF AddReads
<1>9. TextOK(x) /\ Behind(BytesOf(x)) = mu[z + Len(add)]
  <2>1. Fits(BytesOf(text), BytesOf(add), mu, s, z)
    BY <1>1, <1>7, Zenon
  <2>2. Grew(text \o add, mu, z + Len(add))
    BY <1>3, <1>8, <2>1, TextGrows
  <2>3. x = text \o add
    BY <1>1, Zenon
  <2> QED BY <2>2, <2>3, Zenon DEF Grew
<1>10. x \in Seq(Pieces) /\ Len(x) = Len(text) + 1 /\ x[Len(text) + 1] = add[1] /\ Len(text) \in Nat
  BY <1>1, <1>3, CatFacts
<1>11. ~EndsName(BytesOf(x))
  <2>1. Len(BytesOf(x)) = Len(text) + 1 /\ BytesOf(x)[Len(text) + 1] = Blank
    <3>1. Len(text) + 1 \in 1..Len(x)
      BY <1>10
    <3> QED BY <1>3, <1>10, <3>1, BytesOfFacts
  <2> QED BY <2>1 DEF EndsName, InName, Name, Hollerith, Blank
<1> QED BY <1>1, <1>3, <1>6, <1>9, <1>10, <1>11
\* Bytes a to b of the code are the fragment, in terms of the run of the line.
Spans(f, joins, p, mu, t, code, a, b) ==
    /\ a \in Nat /\ b \in Nat /\ a >= 1 /\ a - 1 <= Len(t) /\ b <= Len(t)
    /\ f.first = p.start - 1 + a /\ f.end = p.start - 1 + b
    /\ \A j \in 1..(a - 1) : t[j] \in {Blank, Amp}
    /\ \A j \in 0..(a - 1) : mu[j] = mu[0]
    /\ \A j \in 1..b : mu[j] # "Comment"
    /\ p.continues /\ a <= b => mu[b] = ModeOf(p.state.lex)
    /\ p.continues /\ b < a => mu[0] = ModeOf(p.state.lex)
    /\ f.marker = (joins /\ StartsWith(code, Amp))

LEMMA FragmentSpans ==
    ASSUME NEW states \in [Streams -> LineStates], NEW s \in Seq(Bytes), NEW p,
           LineOf(p, states, s), p.kind = "Code", ~p.transparent, NEW lex, Enterable(lex),
           ScanOf(p, states) = ScanLine(lex, BodyOf(p)),
           NEW t, t = BodyOf(p), NEW mu, mu = Run(ModeOf(lex), t),
           NEW joins, NEW f, f = Fragment(p, joins), NEW code, code = CodeBytes(p)
    PROVE  \E a, b : Spans(f, joins, p, mu, t, code, a, b)
<1>1. /\ t \in Seq(Bytes) /\ IsRun(mu, ModeOf(lex), t)
      /\ p.continues <=> Marked(mu, t)
      /\ Len(code) \in 0..Len(t)
      /\ \A j \in 1..Len(t) : mu[j] # "Comment" <=> j <= Len(code)
      /\ \A j \in 1..Len(code) : code[j] = t[j]
  BY CodeRun
<1>2. code \in Seq(Bytes)
  BY CodeBytesFacts
<1>3. PICK x, y, l : x = FirstInk(code) /\ y = LastInk(code) /\ l = Len(code)
  OBVIOUS
<1>4. /\ l \in Nat /\ x \in 1..l + 1 /\ y \in 0..l
      /\ \A j \in 1..(x - 1) : code[j] = Blank
      /\ \A j \in (y + 1)..l : code[j] = Blank
  BY <1>2, <1>3, InkType
<1>5. PICK a \in Nat, b \in Nat :
         /\ f.first = p.start - 1 + a /\ f.end = p.start - 1 + b
         /\ a = x + (IF f.marker THEN 1 ELSE 0)
         /\ a >= 1 /\ b <= l
         /\ b = IF p.continues /\ y >= a /\ code[y] = Amp THEN y - 1 ELSE y
  <2>1. \E a \in Nat, b \in Nat :
                 /\ f.first = p.start - 1 + a /\ f.end = p.start - 1 + b
                 /\ a = FirstInk(code) + (IF f.marker THEN 1 ELSE 0)
                 /\ a >= 1 /\ b <= Len(code)
                 /\ b = IF p.continues /\ LastInk(code) >= a /\ code[LastInk(code)] = Amp
                        THEN LastInk(code) - 1 ELSE LastInk(code)
    BY FragmentFacts
  <2> QED BY <1>3, <2>1, Zenon
<1>6. f.marker = (joins /\ StartsWith(code, Amp))
  BY FragmentFacts
<1>7. Len(t) \in Nat /\ l <= Len(t)
  BY <1>1, <1>3
<1>8. a - 1 <= l /\ \A j \in 1..(a - 1) : code[j] \in {Blank, Amp}
  <2>1. CASE f.marker
    <3>1. x <= l /\ code[x] = Amp
      BY <1>3, <1>6, <2>1 DEF StartsWith
    <3>2. a = x + 1
      BY <1>5, <2>1
    <3>3. \A j \in 1..(a - 1) : j \in 1..(x - 1) \/ j = x
      BY <1>4, <3>2
    <3> QED BY <1>4, <3>1, <3>2, <3>3
  <2>2. CASE ~f.marker
    <3>1. a = x
      BY <1>4, <1>5, <2>2
    <3> QED BY <1>4, <3>1
  <2> QED BY <2>1, <2>2
<1>9. \A j \in 1..(a - 1) : t[j] \in {Blank, Amp}
  <2>1. \A j \in 1..(a - 1) : j \in 1..Len(code)
    BY <1>3, <1>4, <1>8
  <2> QED BY <1>1, <1>8, <2>1
<1>10. mu[0] = ModeOf(lex) /\ ModeOf(lex) \in {"Code"} \cup Quotes
  BY <1>1, LexOfFacts DEF IsRun
<1>11. \A j \in 0..(a - 1) : mu[j] = mu[0]
  <2>1. PICK z, e : z = 0 /\ e = a - 1
    OBVIOUS
  <2>2. z \in Nat /\ e \in Nat /\ z <= e /\ e <= Len(t)
    <3>1. a \in Nat /\ a >= 1 /\ a - 1 <= l
      BY <1>5, <1>8
    <3> QED BY <1>4, <1>7, <2>1, <3>1
  <2>3. mu[z] # "Hollerith"
    BY <1>10, <2>1, QuoteFacts
  <2>4. \A j \in (z + 1)..e : t[j] \in {Blank, Amp}
    BY <1>9, <2>1
  <2>5. \A j \in z..e : mu[j] = mu[z]
    <3>1. IsRun(mu, ModeOf(lex), t)
      BY <1>1
    <3> QED BY <1>7, <2>2, <2>3, <2>4, <3>1, BlanksKeep
  <2> QED BY <2>1, <2>5
<1>12. \A j \in 1..b : mu[j] # "Comment"
  <2>1. \A j \in 1..b : j \in 1..Len(t) /\ j <= Len(code)
    BY <1>3, <1>4, <1>5, <1>7
  <2> QED BY <1>1, <2>1
<1>13. ASSUME p.continues
       PROVE  /\ y \in 1..l /\ code[y] = Amp
              /\ mu[y] = mu[y - 1] /\ mu[y] = ModeOf(p.state.lex)
  <2>1. PICK i : MarkAt(mu, t, i)
    BY <1>1, <1>13 DEF Marked
  <2>2. i \in 1..Len(t) /\ mu[i] = mu[i - 1] /\ mu[i] \in {"Code"} \cup Quotes
    BY <1>1, <1>7, <2>1, MarkKeeps
  <2>3. t[i] = Amp /\ \A j \in (i + 1)..Len(t) : t[j] = Blank \/ mu[j] = "Comment"
    BY <2>1 DEF MarkAt
  <2>4. ModeOf(p.state.lex) = mu[i]
    BY <2>1, LineEnds
  <2>5. i \in 1..l
    <3>1. mu[i] # "Comment"
      BY <2>2, QuoteFacts
    <3> QED BY <1>1, <1>3, <1>4, <2>2, <3>1
  <2>6. code[i] = Amp
    BY <1>1, <1>3, <2>3, <2>5
  <2>7. ASSUME NEW j \in (i + 1)..l PROVE code[j] = Blank
    <3>1. j \in 1..Len(t) /\ j <= Len(code) /\ j \in 1..Len(code) /\ j \in (i + 1)..Len(t)
      BY <1>3, <1>4, <1>7, <2>5
    <3> QED BY <1>1, <2>3, <3>1
  <2>8. LastAt(code, i)
    <3>1. Len(code) = l /\ l \in Nat /\ i \in 0..l
      BY <1>3, <1>4, <2>5
    <3>2. code[i] # Blank
      BY <2>6 DEF Amp, Blank
    <3> QED BY <2>7, <3>1, <3>2 DEF LastAt
  <2>9. y = i
    BY <1>2, <1>3, <2>8, LastInkAt
  <2> QED BY <2>2, <2>4, <2>5, <2>6, <2>9
<1>14. ASSUME p.continues, a <= b
       PROVE  mu[b] = ModeOf(p.state.lex)
  <2>1. b = y - 1
    BY <1>4, <1>5, <1>13, <1>14
  <2> QED BY <1>13, <1>14, <2>1
<1>15. ASSUME p.continues, b < a
       PROVE  mu[0] = ModeOf(p.state.lex)
  <2>1. y - 1 \in 0..(a - 1)
    BY <1>4, <1>5, <1>13, <1>15
  <2> QED BY <1>11, <1>13, <1>15, <2>1
<1>16. a - 1 <= Len(t) /\ b <= Len(t)
  BY <1>5, <1>4, <1>7, <1>8
<1>17. Spans(f, joins, p, mu, t, code, a, b)
  BY <1>5, <1>6, <1>9, <1>11, <1>12, <1>14, <1>15, <1>16, Zenon DEF Spans
<1> QED BY <1>17
\* A literal that goes on over the line break is resumed behind a marker.
LEMMA ResumedMarked ==
    ASSUME NEW states \in [Streams -> LineStates], NEW s \in Seq(Bytes), NEW p,
           LineOf(p, states, s), p.kind = "Code", NEW lex, Enterable(lex),
           ScanOf(p, states) = ScanLine(lex, BodyOf(p)), Resumes(lex, BodyOf(p)), InLiteral(lex)
    PROVE  StartsWith(CodeBytes(p), Amp)
<1>1. PICK t, mu, code, x : /\ t = BodyOf(p) /\ mu = Run(ModeOf(lex), t)
                            /\ code = CodeBytes(p) /\ x = FirstInk(t)
  OBVIOUS
<1>2. /\ t \in Seq(Bytes) /\ IsRun(mu, ModeOf(lex), t)
      /\ Len(code) \in 0..Len(t)
      /\ \A j \in 1..Len(t) : mu[j] # "Comment" <=> j <= Len(code)
      /\ \A j \in 1..Len(code) : code[j] = t[j]
  BY <1>1, CodeRun
<1>3. code \in Seq(Bytes) /\ Len(t) \in Nat /\ Len(code) \in Nat
  BY <1>1, <1>2, CodeBytesFacts
<1>4. x \in 1..Len(t) /\ t[x] = Amp /\ \A j \in 1..(x - 1) : t[j] = Blank
  <2>1. x \in 1..Len(t) + 1 /\ \A j \in 1..(x - 1) : t[j] = Blank
    BY <1>1, <1>2, InkType
  <2>2. x <= Len(t) /\ t[x] = Amp
    BY <1>1 DEF Resumes, StartsWith
  <2> QED BY <1>3, <2>1, <2>2
<1>5. mu[0] = ModeOf(lex) /\ ModeOf(lex) \in Quotes
  BY <1>2, LexOfFacts DEF IsRun
<1>6. mu[x] = mu[0]
  <2>1. PICK z : z = 0
    OBVIOUS
  <2>2. z \in Nat /\ x \in Nat /\ z <= x /\ x <= Len(t) /\ mu[z] # "Hollerith"
    BY <1>3, <1>4, <1>5, <2>1, QuoteFacts
  <2>3. \A j \in (z + 1)..x : t[j] \in {Blank, Amp}
    BY <1>4, <2>1
  <2>4. \A j \in z..x : mu[j] = mu[z]
    BY <1>2, <1>3, <2>2, <2>3, BlanksKeep
  <2> QED BY <2>1, <2>2, <2>4
<1>7. x <= Len(code)
  <2>1. mu[x] # "Comment"
    BY <1>5, <1>6, QuoteFacts
  <2> QED BY <1>2, <1>4, <2>1
<1>8. \A j \in 1..x : j \in 1..Len(code) /\ code[j] = t[j]
  BY <1>2, <1>3, <1>4, <1>7
<1>9. FirstAt(code, x)
  <2>1. code[x] = Amp /\ \A j \in 1..(x - 1) : code[j] = Blank
    <3>1. x \in 1..x /\ \A j \in 1..(x - 1) : j \in 1..x
      BY <1>4
    <3> QED BY <1>4, <1>8, <3>1
  <2>2. x \in 1..Len(code) + 1
    BY <1>3, <1>4, <1>7
  <2> QED BY <2>1, <2>2 DEF FirstAt, Amp, Blank
<1>10. FirstInk(code) = x
  BY <1>3, <1>9, FirstInkAt
<1> QED BY <1>1, <1>4, <1>7, <1>8, <1>10 DEF StartsWith

\* The statement so far, and what its stream leaves open.
Told(text, lex) == text \in Seq(Pieces) /\ TextOK(text) /\ Behind(BytesOf(text)) = ModeOf(lex)

\* No name is split from a Hollerith head over the line break.
Unsplit(text, p, joins) ==
    ~(/\ EndsName(BytesOf(text)) /\ Fragment(p, joins).marker
      /\ p.bytes[Fragment(p, joins).first] = Hollerith)

\* A fragment as bytes of the line.
LEMMA PieceReads ==
    ASSUME NEW states \in [Streams -> LineStates], NEW s \in Seq(Bytes), NEW p,
           LineOf(p, states, s), p.kind = "Code", ~p.transparent, NEW lex, Enterable(lex),
           ScanOf(p, states) = ScanLine(lex, BodyOf(p)),
           NEW t, t = BodyOf(p), NEW mu, mu = Run(ModeOf(lex), t),
           NEW joins, NEW f, f = Fragment(p, joins), NEW code, code = CodeBytes(p),
           NEW a, NEW b, Spans(f, joins, p, mu, t, code, a, b), a <= b
    PROVE  /\ ~(f.end < f.first)
           /\ Piece(p, f) \in Seq(Pieces) /\ Len(Piece(p, f)) = b - a + 1
           /\ \A j \in 1..(b - a + 1) : Piece(p, f)[j].byte = t[a - 1 + j]
           /\ AddReads(Piece(p, f), mu, t, a - 1)
<1>1. /\ t \in Seq(Bytes) /\ Len(t) = Len(s) - p.start + 1
      /\ \A j \in 1..Len(t) : t[j] = s[p.start - 1 + j]
      /\ IsRun(mu, ModeOf(lex), t)
      /\ p.regions \in Seq(RegionKinds) /\ Len(p.regions) = Len(t)
      /\ \A j \in 1..Len(t) : p.regions[j] = Reads(mu, t, j)
  BY CodeRun
<1>2. p.bytes = s /\ p.start \in Nat /\ Len(s) \in Nat /\ Len(t) \in Nat
  BY <1>1, LineStart
<1>3. /\ a \in Nat /\ b \in Nat /\ a >= 1 /\ b <= Len(t)
      /\ f.first = p.start - 1 + a /\ f.end = p.start - 1 + b
      /\ \A j \in 0..(a - 1) : mu[j] = mu[0]
      /\ \A j \in 1..b : mu[j] # "Comment"
  BY DEF Spans
<1>4. f.end - f.first + 1 = b - a + 1 /\ ~(f.end < f.first) /\ b - a + 1 \in Nat
  BY <1>2, <1>3
<1>5. Piece(p, f) \in Seq(Pieces) /\ Len(Piece(p, f)) = b - a + 1
  BY <1>4, PieceType
<1>6. PICK n, e : n = b - a + 1 /\ e = a - 1
  OBVIOUS
<1>7. n \in Nat /\ e \in Nat /\ e + n = b /\ a = e + 1
  BY <1>3, <1>4, <1>6
<1>8. \A j \in 1..n : /\ e + j \in 1..Len(t) /\ e + j \in 1..b
                      /\ f.first + j - 1 = p.start - 1 + (e + j)
  BY <1>2, <1>3, <1>7
<1>9. ASSUME NEW j \in 1..n
      PROVE  /\ Piece(p, f)[j].byte = t[e + j]
             /\ Piece(p, f)[j].region = Reads(mu, t, e + j)
  <2>1. PICK i : i = e + j
    OBVIOUS
  <2>2. i \in 1..Len(t) /\ f.first + j - 1 = p.start - 1 + i
    BY <1>8, <2>1
  <2>3. j \in 1..(f.end - f.first + 1)
    BY <1>4, <1>6
  <2>4. Piece(p, f)[j] = [byte   |-> p.bytes[f.first + j - 1],
                          region |-> RegionAt(p, f.first + j - 1)]
    BY <2>3 DEF Piece
  <2>5. p.bytes[p.start - 1 + i] = t[i]
    BY <1>1, <1>2, <2>2
  <2>6. RegionAt(p, p.start - 1 + i) = p.regions[i]
    <3>1. DOMAIN p.regions = 1..Len(t)
      BY <1>1
    <3> QED BY <1>2, <2>2, <3>1, RegionIs
  <2>7. p.regions[i] = Reads(mu, t, i)
    BY <1>1, <2>2
  <2> QED BY <2>1, <2>2, <2>4, <2>5, <2>6, <2>7
<1>10. \A j \in 0..n : mu[e + j] # "Comment"
  <2>1. mu[e] # "Comment"
    <3>1. mu[0] = ModeOf(lex) /\ ModeOf(lex) \in {"Code"} \cup Quotes
      BY <1>1, LexOfFacts DEF IsRun
    <3>2. e \in 0..(a - 1)
      BY <1>7
    <3> QED BY <1>3, <3>1, <3>2, QuoteFacts
  <2>2. \A j \in 0..n : j \in 1..n \/ (j = 0 /\ e + j = e)
    BY <1>7
  <2> QED BY <1>3, <1>8, <2>1, <2>2
<1>11. AddReads(Piece(p, f), mu, t, e)
  BY <1>5, <1>6, <1>9, <1>10 DEF AddReads
<1> QED BY <1>4, <1>5, <1>6, <1>9, <1>11
\* The text a fragment is appended to: a blank stands for an unmarked break.
LEMMA BreakReads ==
    ASSUME NEW text \in Seq(Pieces), NEW lex, Enterable(lex), Told(text, lex), NEW joins,
           NEW f, f.marker \in BOOLEAN, joins /\ ~f.marker => ~InLiteral(lex),
           ~joins => text = <<>>
    PROVE  /\ Told(text \o Space(joins, f), lex)
           /\ EndsName(BytesOf(text \o Space(joins, f))) =>
                 EndsName(BytesOf(text)) /\ joins /\ f.marker
<1>1. CASE joins /\ ~f.marker
  <2>1. PICK x : x = text \o <<[byte |-> Blank, region |-> "None"]>>
    OBVIOUS
  <2>2. text \o Space(joins, f) = x
    BY <1>1, <2>1, Zenon DEF Space
  <2>3. ModeOf(lex) = "Code"
    BY <1>1, LexOfFacts
  <2>4. TextOK(text) /\ Behind(BytesOf(text)) = "Code"
    BY <2>3 DEF Told
  <2>5. x \in Seq(Pieces) /\ TextOK(x) /\ Behind(BytesOf(x)) = "Code" /\ ~EndsName(BytesOf(x))
    BY <2>1, <2>4, BlankGrows
  <2>6. Told(x, lex)
    BY <2>3, <2>5 DEF Told
  <2> QED BY <2>2, <2>5, <2>6, Zenon
<1>2. CASE ~(joins /\ ~f.marker)
  <2>1. Space(joins, f) = <<>>
    BY <1>2, Zenon DEF Space
  <2>2. text \o <<>> = text
    OBVIOUS
  <2>3. ~joins => ~EndsName(BytesOf(text))
    BY EmptyText DEF EndsName
  <2> QED BY <1>2, <2>1, <2>2, <2>3, Zenon
<1> QED BY <1>1, <1>2

Together(text, p, joins, f) == text \o Space(joins, f) \o Piece(p, f)

LEMMA JoinedFull ==
    ASSUME NEW text, NEW p, NEW joins, NEW f, f = Fragment(p, joins), ~(f.end < f.first)
    PROVE  Joined(text, p, joins) = Together(text, p, joins, f)
<1>1. Joined(text, p, joins) = IF f.end < f.first THEN text
                               ELSE text \o Space(joins, f) \o Piece(p, f)
  BY JoinedIs
<1> QED BY <1>1, Zenon DEF Together

\* The fragment of a line, appended to what the lines before it told, reads as
\* it does in its line, and leaves open what the line leaves open.
LEMMA FragmentReads ==
    ASSUME NEW states \in [Streams -> LineStates], NEW s \in Seq(Bytes), NEW p,
           LineOf(p, states, s), p.kind = "Code", ~p.transparent, NEW lex, Enterable(lex),
           ScanOf(p, states) = ScanLine(lex, BodyOf(p)), Resumes(lex, BodyOf(p)),
           NEW text \in Seq(Pieces), Told(text, lex), NEW joins \in BOOLEAN, ~joins => text = <<>>,
           Unsplit(text, p, joins)
    PROVE  /\ TextOK(Joined(text, p, joins))
           /\ p.continues => Told(Joined(text, p, joins), p.state.lex)
<1>1. PICK t, mu, code, f : /\ t = BodyOf(p) /\ mu = Run(ModeOf(lex), t)
                            /\ code = CodeBytes(p) /\ f = Fragment(p, joins)
  OBVIOUS
<1>2. PICK a, b : Spans(f, joins, p, mu, t, code, a, b)
  BY <1>1, FragmentSpans
<1>3. t \in Seq(Bytes) /\ IsRun(mu, ModeOf(lex), t) /\ Len(t) \in Nat
  <2>1. t \in Seq(Bytes) /\ IsRun(mu, ModeOf(lex), t)
    BY <1>1, CodeRun
  <2> QED BY <2>1
<1>4. mu[0] = ModeOf(lex)
  BY <1>3 DEF IsRun
<1>5. CASE b < a
  <2>1. p.start \in Nat
    BY LineStart
  <2>2. f.end < f.first
    BY <1>2, <1>5, <2>1 DEF Spans
  <2>3. Joined(text, p, joins) = text
    BY <1>1, <2>2, JoinedIs
  <2>4. p.continues => mu[0] = ModeOf(p.state.lex)
    BY <1>2, <1>5 DEF Spans
  <2> QED BY <1>4, <2>3, <2>4 DEF Told
<1>6. CASE a <= b
  <2>1. /\ ~(f.end < f.first)
        /\ Piece(p, f) \in Seq(Pieces) /\ Len(Piece(p, f)) = b - a + 1
        /\ \A j \in 1..(b - a + 1) : Piece(p, f)[j].byte = t[a - 1 + j]
        /\ AddReads(Piece(p, f), mu, t, a - 1)
    BY <1>1, <1>2, <1>6, PieceReads
  <2>2. PICK u, c : u = text \o Space(joins, f) /\ c = BytesOf(u)
    OBVIOUS
  <2>3. Told(u, lex) /\ (EndsName(c) => EndsName(BytesOf(text)) /\ f.marker)
    <3>1. joins /\ ~f.marker => ~InLiteral(lex)
      <4>1. InLiteral(lex) => StartsWith(code, Amp)
        BY <1>1, ResumedMarked
      <4> QED BY <1>2, <4>1 DEF Spans
    <3>2. f.marker \in BOOLEAN
      BY <1>2 DEF Spans, StartsWith
    <3> QED BY <2>2, <3>1, <3>2, BreakReads
  <2>4. PICK add, n, e : add = Piece(p, f) /\ n = b - a + 1 /\ e = a - 1
    OBVIOUS
  <2>5. /\ add \in Seq(Pieces) /\ Len(add) = n /\ AddReads(add, mu, t, e)
        /\ \A j \in 1..n : add[j].byte = t[e + j]
    BY <2>1, <2>4
  <2>6. /\ e \in Nat /\ n \in Nat /\ n >= 1 /\ e + n = b /\ e + n <= Len(t) /\ a = e + 1
        /\ a \in Nat /\ a >= 1
    <3>1. a \in Nat /\ b \in Nat /\ a >= 1 /\ b <= Len(t)
      BY <1>2 DEF Spans
    <3> QED BY <1>6, <2>4, <3>1
  <2>7. PICK d : d = BytesOf(add)
    OBVIOUS
  <2>8. d \in Seq(Bytes) /\ Len(d) = n /\ \A j \in 1..n : d[j] = t[e + j]
    <3>1. d \in Seq(Bytes) /\ Len(d) = Len(add) /\ \A j \in 1..Len(add) : d[j] = add[j].byte
      BY <2>5, <2>7, BytesOfFacts
    <3> QED BY <2>5, <3>1
  <2>9. c \in Seq(Bytes) /\ Behind(c) = mu[e] /\ u \in Seq(Pieces) /\ TextOK(u)
    <3>1. u \in Seq(Pieces) /\ TextOK(u) /\ Behind(c) = ModeOf(lex)
      BY <2>2, <2>3 DEF Told
    <3>2. c \in Seq(Bytes)
      BY <2>2, <3>1, BytesOfFacts
    <3>3. mu[e] = mu[0]
      <4>1. \A j \in 0..(a - 1) : mu[j] = mu[0]
        BY <1>2 DEF Spans
      <4> QED BY <2>4, <2>6, <4>1
    <3> QED BY <1>4, <3>1, <3>2, <3>3
  <2>10. SameHead(mu[e], d[1], EndsName(c), Named(t, e + 1))
    <3>1. ~Named(t, e + 1)
      <4>1. \A j \in 1..(a - 1) : t[j] \in {Blank, Amp}
        BY <1>2 DEF Spans
      <4>2. e # 0 => t[e] \in {Blank, Amp}
        BY <2>4, <2>6, <4>1
      <4>3. (e + 1) - 1 = e /\ (e + 1 # 1 => e # 0)
        BY <2>6
      <4>4. e # 0 => t[e] \notin InName
        BY <4>2 DEF InName, Name, Hollerith, Blank, Amp
      <4> QED BY <4>3, <4>4 DEF Named
    <3>2. ASSUME EndsName(c), d[1] = Hollerith
          PROVE  FALSE
      <4>1. EndsName(BytesOf(text)) /\ f.marker
        BY <2>3, <3>2
      <4>2. 1 \in 1..n
        BY <2>6
      <4>3. d[1] = t[e + 1]
        BY <2>8, <4>2
      <4>4. t[a] = p.bytes[f.first]
        <5>1. /\ Len(t) = Len(s) - p.start + 1
              /\ \A j \in 1..Len(t) : t[j] = s[p.start - 1 + j]
          BY <1>1, CodeRun
        <5>2. f.first = p.start - 1 + a /\ b <= Len(t)
          BY <1>2 DEF Spans
        <5>3. a \in 1..Len(t)
          BY <1>3, <2>6
        <5>4. p.bytes = s
          BY LineStart
        <5> QED BY <5>1, <5>2, <5>3, <5>4
      <4> QED BY <1>1, <2>6, <3>2, <4>1, <4>3, <4>4 DEF Unsplit
    <3>3. d[1] # Hollerith \/ ~EndsName(c)
      BY <3>2
    <3>4. EndsName(c) \in BOOLEAN
      BY DEF EndsName
    <3> QED BY <3>1, <3>3, <3>4 DEF SameHead
  <2>11. Fits(c, d, mu, t, e)
    BY <1>3, <2>6, <2>8, <2>9, <2>10 DEF Fits
  <2>12. Grew(u \o add, mu, e + Len(add))
    <3>1. Fits(BytesOf(u), BytesOf(add), mu, t, e)
      BY <2>2, <2>7, <2>11, Zenon
    <3> QED BY <2>5, <2>9, <3>1, TextGrows
  <2>13. Joined(text, p, joins) = u \o add
    <3>1. f = Fragment(p, joins) /\ ~(f.end < f.first)
      BY <1>1, <2>1
    <3>2. Joined(text, p, joins) = Together(text, p, joins, f)
      BY <3>1, JoinedFull
    <3> QED BY <2>2, <2>4, <3>2, Zenon DEF Together
  <2>14. p.continues => mu[b] = ModeOf(p.state.lex)
    BY <1>2, <1>6 DEF Spans
  <2>15. e + Len(add) = b
    BY <2>5, <2>6
  <2> QED BY <2>12, <2>13, <2>14, <2>15 DEF Grew, Told
<1>7. b < a \/ a <= b
  BY <1>2 DEF Spans
<1> QED BY <1>5, <1>6, <1>7
\* A line that opens with a comment, read from a clean state.
LEMMA BangOpens ==
    ASSUME NEW t \in Seq(Bytes), Len(t) >= 1, t[1] = Bang
    PROVE  ScanLine(Clean, t).comment = 1
<1>1. PICK mu : mu = Run("Code", t)
  OBVIOUS
<1>2. Len(t) \in Nat /\ DOMAIN t = 1..Len(t) /\ 1 \in 1..Len(t) /\ 1 \in 0..Len(t)
  <2>1. Len(t) \in Nat /\ DOMAIN t = 1..Len(t)
    OBVIOUS
  <2> QED BY <2>1
<1>3. IsRun(mu, "Code", t) /\ LineReads(ScanLine(Clean, t), mu, t)
  <2>1. /\ IsRun(Run(ModeOf(Clean), t), ModeOf(Clean), t)
        /\ LineReads(ScanLine(Clean, t), Run(ModeOf(Clean), t), t)
    BY <1>2, CleanEnterable, ScanLineReads
  <2> QED BY <1>1, <2>1, CleanMode
<1>4. mu[1] = "Comment" /\ mu[0] = "Code"
  <2>1. mu[0] = "Code" /\ mu[1] = After(mu[1 - 1], t[1], Named(t, 1))
    BY <1>2, <1>3 DEF IsRun
  <2>2. 1 - 1 = 0
    OBVIOUS
  <2> QED BY <2>1, <2>2 DEF After, CodeAfter, Bang, Quotes
<1>5. PICK c : c = ScanLine(Clean, t).comment
  OBVIOUS
<1>6. CommentSoFar(c, mu, Len(t))
  BY <1>3, <1>5 DEF LineReads
<1>7. c \in 1..Len(t) /\ mu[c - 1] # "Comment"
  BY <1>2, <1>4, <1>6 DEF CommentSoFar
<1>8. ~(1 <= c - 1)
  <2> SUFFICES ASSUME 1 <= c - 1
               PROVE  FALSE
    OBVIOUS
  <2>1. c - 1 \in 1..Len(t)
    BY <1>2, <1>7
  <2>2. mu[c - 1] = "Comment"
    BY <1>2, <1>3, <1>4, <2>1, CommentStays
  <2> QED BY <1>7, <2>2
<1> QED BY <1>2, <1>5, <1>7, <1>8

\* A fix line that no literal is open before adds nothing to a statement.
LEMMA FixEmpty ==
    ASSUME NEW states \in [Streams -> LineStates], NEW s \in Seq(Bytes), NEW p,
           LineOf(p, states, s), p.kind = "FindentFix",
           states[p.stream].lex = Clean \/ Resumes(states[p.stream].lex, BodyOf(p))
    PROVE  ~p.continues /\ \A text, joins : Joined(text, p, joins) = text
<1>1. /\ p.stream = "Ordinary" /\ p.start = FirstInk(s) /\ s[FirstInk(s)] = Bang
      /\ p.bytes = s /\ p.start \in 1..Len(s) + 1 /\ p.start # Len(s) + 1
      /\ SteppedOver(s)
  <2>1. p.stream = "Ordinary" /\ p.bytes = s /\ p.stream \in Streams /\ p.start \in 1..Len(s) + 1
    BY LineShape, LineStart DEF Streams
  <2>2. p.start = FirstInk(s) /\ s[FirstInk(s)] = Bang
        /\ (p.kind = "Blank" <=> FirstInk(s) > Len(s)) /\ (p.kind = "Code" <=> ~SteppedOver(s))
    BY <2>1, LineShape
  <2> QED BY <2>1, <2>2, InkType
<1>2. PICK lex, t : lex = states[p.stream].lex /\ t = BodyOf(p)
  OBVIOUS
<1>3. Enterable(lex)
  <2>1. p.stream \in Streams
    BY <1>1 DEF Streams
  <2> QED BY <1>2, <2>1, LexesFacts DEF LineStates
<1>4. t \in Seq(Bytes) /\ Len(t) >= 1 /\ t[1] = Bang
  <2>1. t = From(s, p.start) /\ p.start \in 1..Len(s) + 1
    BY <1>1, <1>2 DEF BodyOf
  <2>2. /\ t \in Seq(Bytes) /\ Len(t) = Len(s) - p.start + 1
        /\ \A j \in 1..Len(s) - p.start + 1 : t[j] = s[(p.start - 1) + j]
    BY <2>1, FromFacts
  <2>3. PICK n, x : n = Len(s) /\ x = p.start
    OBVIOUS
  <2>4. n \in Nat /\ x \in 1..n + 1 /\ x # n + 1
    BY <1>1, <2>3, InkType
  <2>5. n - x + 1 >= 1 /\ 1 \in 1..(n - x + 1) /\ (x - 1) + 1 = x
    BY <2>4
  <2> QED BY <1>1, <2>2, <2>3, <2>5
<1>5. lex = Clean
  <2> SUFFICES ASSUME lex # Clean, StartsWith(t, Amp)
               PROVE  FALSE
    BY <1>2, <1>3, NonClean DEF Resumes
  <2>1. FirstAt(t, 1)
    BY <1>4 DEF FirstAt, Bang, Blank
  <2>2. FirstInk(t) = 1
    BY <1>4, <2>1, FirstInkAt
  <2> QED BY <1>4, <2>2 DEF StartsWith, Bang, Amp
<1>6. ScanOf(p, states) = ScanLine(Clean, t)
  BY <1>1, <1>2, <1>5 DEF ScanOf, StreamLine, GroupLine
<1>7. Lexed(p) /\ ScanOf(p, states).comment = 1
  BY <1>4, <1>6, BangOpens DEF Lexed
<1>8. p.comment = p.start
  <2>1. p.comment = p.start - 1 + 1
    BY <1>7 DEF LineOf
  <2> QED BY <1>1, <2>1
<1>9. ASSUME NEW text, NEW joins
      PROVE  Joined(text, p, joins) = text
  <2>1. PICK f, code : f = Fragment(p, joins) /\ code = CodeBytes(p)
    OBVIOUS
  <2>2. Len(code) = 0
    <3>1. Len(code) = (IF p.comment > 0 THEN p.comment - p.start ELSE Len(s) - p.start + 1)
      BY <2>1, CodeBytesFacts
    <3> QED BY <1>1, <1>8, <3>1
  <2>3. f.end < f.first
    <3>1. PICK a \in Nat, b \in Nat : /\ f.first = p.start - 1 + a /\ f.end = p.start - 1 + b
                                      /\ a >= 1 /\ b <= Len(code)
      <4>1. \E a \in Nat, b \in Nat :
                   /\ f.first = p.start - 1 + a /\ f.end = p.start - 1 + b
                   /\ a = FirstInk(code) + (IF f.marker THEN 1 ELSE 0)
                   /\ a >= 1 /\ b <= Len(code)
                   /\ b = IF p.continues /\ LastInk(code) >= a /\ code[LastInk(code)] = Amp
                          THEN LastInk(code) - 1 ELSE LastInk(code)
        BY <2>1, FragmentFacts
      <4> QED BY <4>1, Zenon
    <3> QED BY <1>1, <2>2, <3>1
  <2> QED
    <3>1. f = Fragment(p, joins)
      BY <2>1
    <3> QED BY <2>3, <3>1, JoinedIs
<1>10. ~p.continues
  <2>1. p.state = [lex |-> lex, continued |-> FALSE]
    BY <1>2, FixKeeps
  <2>2. ~p.transparent
    BY <1>1 DEF LineOf
  <2>3. p.state = [lex |-> ScanOf(p, states).lex, continued |-> ScanOf(p, states).continued]
    BY <1>7, <2>2 DEF LineOf
  <2>4. p.continues = ScanOf(p, states).continued
    <3>1. p.continues = (Lexed(p) /\ ScanOf(p, states).continued)
      BY DEF LineOf
    <3>2. ScanOf(p, states).continued \in BOOLEAN
      BY <1>6 DEF ScanLine, Continued
    <3> QED BY <1>7, <3>1, <3>2
  <2> QED BY <2>1, <2>3, <2>4
<1> QED BY <1>9, <1>10

\* A group's text, and what it leaves open while the group goes on.
StatementOK ==
    group.code /\ group.shapes = {} =>
       /\ TextOK(group.text)
       /\ group.open = "code" => Told(group.text, buffer[group.stream].lex)

LEMMA StatementBegins ==
    ASSUME WType, NEW s \in Seq(Bytes), NEW p, LineOf(p, buffer, s), Moves(p, s), AtBoundary
    PROVE  StatementOK'
<1> SUFFICES ASSUME group'.code, group'.shapes = {}
             PROVE  /\ TextOK(group'.text)
                    /\ group'.open = "code" => Told(group'.text, buffer'[group'.stream].lex)
  BY DEF StatementOK
<1>1. PICK states, g : states = buffer /\ g = GroupOf(p)
  OBVIOUS
<1>2. /\ states \in [Streams -> LineStates] /\ LineOf(p, states, s) /\ group' = g
      /\ buffer' = [states EXCEPT ![p.stream] = p.state]
  BY <1>1 DEF WType, Moves, Take
<1>3. p.stream \in Streams /\ buffer'[p.stream].lex = p.state.lex
  BY <1>2, LineStart
<1>4. /\ g.code = (p.kind \in {"Code", "FindentFix"}) /\ g.stream = p.stream
      /\ g.text = (IF p.kind = "Code" THEN Joined(<<>>, p, FALSE) ELSE <<>>)
      /\ g.open = (IF p.kind \in {"Blank", "Comment"} THEN "no"
                   ELSE IF p.kind # "Preprocessor" THEN OpenAfter("no", p)
                   ELSE IF EndsWith(p.bytes, DirectiveMarker(p.bytes))
                   THEN DirectiveMarker(p.bytes) ELSE "no")
      /\ g.shapes = (IF \E st \in Streams : states[st].lex # Clean THEN {"open before"} ELSE {})
  BY <1>1, Zenon DEF GroupOf
<1>5. states[p.stream].lex = Clean
  BY <1>2, <1>3, <1>4
<1>6. p.kind \in {"Code", "FindentFix"} /\ g.open = OpenAfter("no", p)
  BY <1>2, <1>4
<1>7. g.open = "code" => p.continues
  BY <1>6 DEF OpenAfter, Skipped
<1>8. CASE p.kind = "Code"
  <2>1. PICK text : text = <<>>
    OBVIOUS
  <2>2. text \in Seq(Pieces) /\ TextOK(text) /\ BytesOf(text) = <<>>
    BY <2>1, EmptyText
  <2>3. Told(text, Clean) /\ ~EndsName(BytesOf(text))
    BY <2>2, NothingBehind, CleanMode DEF Told, EndsName
  <2>4. Resumes(Clean, BodyOf(p))
    BY DEF Resumes, InLiteral, Clean
  <2>5. Enterable(Clean) /\ ~p.transparent /\ ScanOf(p, states) = ScanLine(Clean, BodyOf(p))
    BY <1>2, <1>5, <1>8, <2>4, CodeScan
  <2>6. Unsplit(text, p, FALSE)
    BY <2>3 DEF Unsplit
  <2>7. PICK r : r = Joined(text, p, FALSE)
    OBVIOUS
  <2>8. TextOK(r) /\ (p.continues => Told(r, p.state.lex))
    BY <1>2, <1>8, <2>1, <2>2, <2>3, <2>4, <2>5, <2>6, <2>7, FragmentReads
  <2>9. g.text = r
    BY <1>4, <1>8, <2>1, <2>7
  <2> QED BY <1>2, <1>3, <1>4, <1>7, <2>8, <2>9
<1>9. CASE p.kind = "FindentFix"
  <2>1. ~p.continues
    BY <1>2, <1>5, <1>9, FixEmpty
  <2>2. g.text = <<>>
    BY <1>4, <1>9
  <2> QED BY <1>2, <1>7, <2>1, <2>2, EmptyText
<1> QED BY <1>6, <1>8, <1>9

LEMMA StatementGoesOn ==
    ASSUME WType, StatementOK, NEW s \in Seq(Bytes), NEW p, LineOf(p, buffer, s), Moves(p, s),
           ~AtBoundary
    PROVE  StatementOK'
<1> SUFFICES ASSUME group'.code, group'.shapes = {}
             PROVE  /\ TextOK(group'.text)
                    /\ group'.open = "code" => Told(group'.text, buffer'[group'.stream].lex)
  BY DEF StatementOK
<1>1. PICK states, text, h : states = buffer /\ text = group.text /\ h = GroupWith(p)
  OBVIOUS
<1>2. /\ states \in [Streams -> LineStates] /\ LineOf(p, states, s) /\ group' = h
      /\ buffer' = [states EXCEPT ![p.stream] = p.state]
  BY <1>1 DEF WType, Moves, Take
<1>3. p.stream \in Streams /\ p.kind \in LineKinds /\ buffer'[p.stream].lex = p.state.lex
  BY <1>2, LineShape
<1>4. group \in Groups /\ text \in Seq(Pieces)
  BY <1>1 DEF WType, Groups
<1>5. h.code = group.code
  BY <1>1, <1>4, GroupWithFields
<1>6. group.open = "code"
  BY <1>2, <1>5 DEF WType, AtBoundary
<1>7. /\ h.stream = group.stream
      /\ h.text = (IF Skipped(p) THEN text ELSE Joined(text, p, TRUE))
      /\ h.shapes = group.shapes \cup ShapesOf(p, text)
      /\ h.open = OpenAfter(group.open, p)
  BY <1>1, <1>4, <1>6, GroupWithFields
<1>8. group.shapes = {} /\ ShapesOf(p, text) = {}
  BY <1>2, <1>7
<1>9. TextOK(text) /\ Told(text, states[group.stream].lex)
  BY <1>1, <1>2, <1>5, <1>6, <1>8 DEF StatementOK
<1>10. CASE Skipped(p)
  <2>1. ~Lexed(p)
    BY <1>10 DEF Skipped, Lexed
  <2>2. p.state = states[p.stream]
    BY <1>2, <2>1 DEF LineOf
  <2>3. buffer'[group.stream].lex = states[group.stream].lex
    <3>1. group.stream \in Streams
      BY <1>4 DEF Groups
    <3> QED BY <1>2, <1>3, <2>2, <3>1
  <2> QED BY <1>2, <1>7, <1>9, <1>10, <2>3
<1>11. CASE ~Skipped(p)
  <2>1. p.kind \in {"Code", "FindentFix"}
    BY <1>3, <1>11 DEF Skipped, LineKinds
  <2>2. PICK lex : lex = states[p.stream].lex
    OBVIOUS
  <2>3. Resumes(lex, BodyOf(p)) /\ p.stream = group.stream
    <3>1. "bare resume" \notin ShapesOf(p, text) /\ "two streams" \notin ShapesOf(p, text)
      BY <1>8
    <3> QED BY <1>1, <1>11, <2>2, <3>1 DEF ShapesOf, Shapes, BodyOf
  <2>4. Unsplit(text, p, TRUE)
    <3>1. "split head" \notin ShapesOf(p, text)
      BY <1>8
    <3>2. ~(/\ text # <<>> /\ text[Len(text)].byte \in InName
            /\ Fragment(p, TRUE).marker /\ p.bytes[Fragment(p, TRUE).first] = Hollerith)
      BY <1>11, <3>1 DEF ShapesOf, Shapes
    <3>3. EndsName(BytesOf(text)) => text # <<>> /\ text[Len(text)].byte \in InName
      <4>1. PICK c, n : c = BytesOf(text) /\ n = Len(text)
        OBVIOUS
      <4>2. c \in Seq(Bytes) /\ Len(c) = n /\ n \in Nat /\ \A i \in 1..n : c[i] = text[i].byte
        BY <1>4, <4>1, BytesOfFacts
      <4>3. ASSUME c # <<>>
            PROVE  n \in 1..n /\ text # <<>>
        BY <1>4, <4>1, <4>2, <4>3
      <4> QED BY <4>1, <4>2, <4>3 DEF EndsName
    <3> QED BY <3>2, <3>3 DEF Unsplit
  <2>5. h.open = "code" => p.continues
    BY <1>7, <1>11 DEF OpenAfter
  <2>6. Told(text, lex)
    BY <1>9, <2>2, <2>3
  <2>7. CASE p.kind = "Code"
    <3>1. Enterable(lex) /\ ~p.transparent /\ ScanOf(p, states) = ScanLine(lex, BodyOf(p))
      BY <1>2, <2>2, <2>3, <2>7, CodeScan
    <3>2. PICK r : r = Joined(text, p, TRUE)
      OBVIOUS
    <3>3. TextOK(r) /\ (p.continues => Told(r, p.state.lex))
      BY <1>2, <1>4, <2>3, <2>4, <2>6, <2>7, <3>1, <3>2, FragmentReads
    <3>4. h.text = r
      BY <1>7, <1>11, <3>2
    <3> QED BY <1>2, <1>3, <1>7, <2>3, <2>5, <3>3, <3>4
  <2>8. CASE p.kind = "FindentFix"
    <3>1. states[p.stream].lex = Clean \/ Resumes(states[p.stream].lex, BodyOf(p))
      BY <2>2, <2>3
    <3>2. states \in [Streams -> LineStates] /\ LineOf(p, states, s)
      BY <1>2
    <3>3. ~p.continues /\ \A r, joins : Joined(r, p, joins) = r
      BY <2>8, <3>1, <3>2, FixEmpty
    <3> QED BY <1>2, <1>7, <1>9, <1>11, <2>5, <3>3
  <2> QED BY <2>1, <2>7, <2>8
<1> QED BY <1>10, <1>11

\* A text that reads well is classified as its lines are.
LEMMA StatementLexes ==
    ASSUME WType, StatementOK
    PROVE  StatementLexesLikeItsLines /\ PayloadEndsWithItsLine
<1>1. PayloadEndsWithItsLine
  <2>1. \A st \in Streams : buffer[st].lex \in Lexes
    BY DEF WType, LineStates
  <2> QED BY <2>1 DEF PayloadEndsWithItsLine, Lexes
<1>2. PICK text, T : text = group.text /\ T = BytesOf(text)
  OBVIOUS
<1>3. PICK scan, nu : scan = Scan(Clean, T) /\ nu = Run("Code", T)
  OBVIOUS
<1>4. ASSUME group.code, group.shapes = {}
      PROVE  /\ scan.comment = 0
             /\ \A i \in DOMAIN text : text[i].region # "None" =>
                   (scan.kinds[i] \in Protected <=> text[i].region \in Protected)
  <2>1. text \in Seq(Pieces)
    BY <1>2 DEF WType, Groups
  <2>2. T \in Seq(Bytes) /\ Len(T) = Len(text) /\ Len(text) \in Nat /\ DOMAIN text = 1..Len(text)
    <3>1. T \in Seq(Bytes) /\ Len(T) = Len(text) /\ Len(text) \in Nat
      BY <1>2, <2>1, BytesOfFacts
    <3> QED BY <2>1, <3>1
  <2>3. TextReads(text, nu, T)
    BY <1>2, <1>3, <1>4 DEF StatementOK, TextOK
  <2>4. ReadBy(scan, nu, T)
    <3>1. ReadBy(Scan(Clean, T), Run(ModeOf(Clean), T), T)
      BY <2>2, CleanEnterable, ScanReads
    <3> QED BY <1>3, <3>1, CleanMode
  <2>5. scan.comment = 0
    <3>1. PICK c : c = scan.comment
      OBVIOUS
    <3>2. CommentSoFar(c, nu, Len(T))
      BY <2>4, <3>1 DEF ReadBy
    <3>3. \A i \in 0..Len(T) : nu[i] # "Comment"
      BY <2>3 DEF TextReads
    <3>4. c = 0 \/ (c \in 1..Len(T) /\ nu[c] = "Comment")
      BY <2>2, <3>2 DEF CommentSoFar
    <3>5. c \in 1..Len(T) => c \in 0..Len(T)
      BY <2>2
    <3> QED BY <3>1, <3>3, <3>4, <3>5
  <2>6. \A i \in 1..Len(T) : scan.kinds[i] = Reads(nu, T, i)
    BY <2>4 DEF ReadBy, KindsSoFar, Reads
  <2>7. \A i \in 1..Len(T) : text[i].region # "None" => Reads(nu, T, i) = text[i].region
    BY <2>3 DEF TextReads
  <2> QED BY <2>2, <2>5, <2>6, <2>7
<1>5. scan = Scan(Clean, [i \in DOMAIN group.text |-> group.text[i].byte])
  BY <1>2, <1>3, Zenon DEF BytesOf
<1>6. StatementLexesLikeItsLines
  BY <1>2, <1>4, <1>5, Zenon DEF StatementLexesLikeItsLines
<1> QED BY <1>1, <1>6
-----------------------------------------------------------------------------
(* The inductive invariant and the theorems *)

\* The inductive invariant of the line walkers.
WInv == /\ WType /\ step12 \in Step12s /\ SearchOK /\ MarkOK /\ TrimOK
        /\ ChainOK /\ StatementOK

LEMMA WInvInit == ASSUME WInit PROVE WInv /\ WalkersAgree
<1>1. WType /\ step12 \in Step12s
  BY WTypeInit
<1>2. group = NoGroup /\ marks = {}
  BY DEF WInit, Init
<1>3. ~Searched
  BY <1>2 DEF Searched, NoGroup
<1>4. MarkStates
  <2>1. step12.lex = Clean /\ step12.open = "none"
        /\ buffer = [st \in Streams |-> [lex |-> Clean, continued |-> FALSE]]
    BY DEF WInit, Init
  <2>2. \A st \in Streams : ~Open(buffer[st])
    BY <2>1 DEF Open
  <2>3. \A st \in Streams : st # "none"
    BY DEF Streams
  <2> QED BY <2>1, <2>2, <2>3 DEF MarkStates
<1>5. CommentFound
  BY <1>3 DEF CommentFound, Searched
<1>6. MarkersAreCode
  BY <1>2 DEF MarkersAreCode
<1>7. TrimOK
  BY DEF WInit, Init, TrimOK
<1>8. ChainOK
  <2>1. /\ chain = [st \in Streams |-> <<>>]
        /\ buffer = [st \in Streams |-> [lex |-> Clean, continued |-> FALSE]]
    BY DEF WInit, Init
  <2>2. PICK e : e = <<>>
    OBVIOUS
  <2>3. e \in Seq(Bytes) /\ Carries(e, Clean)
    BY <2>2, NothingBehind, CleanMode DEF Carries
  <2> QED BY <2>1, <2>2, <2>3 DEF ChainOK
<1>9. StatementOK
  BY <1>2 DEF StatementOK, NoGroup
<1> QED BY <1>1, <1>3, <1>4, <1>5, <1>6, <1>7, <1>8, <1>9
        DEF WInv, SearchOK, MarkOK, WalkersAgree

LEMMA WInvStep ==
    ASSUME WInv, NEW s \in Seq(Bytes), NEW p, LineOf(p, buffer, s), Moves(p, s)
    PROVE  WInv' /\ WalkersAgree' /\ TrimKeepsPayload' /\ ReadAsOne(last')
<1>1. WType' /\ step12' \in Step12s
  BY WTypeStep DEF WInv
<1>2. SearchOK'
  BY SearchStep DEF WInv
<1>3. MarkOK'
  BY MarkStep DEF WInv
<1>4. MarkersAreCode'
  BY MarkersStep DEF WInv
<1>5. CommentFound'
  BY <1>2 DEF SearchOK, Searched, CommentFound
<1>6. TrimOK' /\ TrimKeepsPayload'
  BY TrimStep DEF WInv
<1>7. ChainOK' /\ ReadAsOne(last')
  BY ChainStep DEF WInv
<1>8. StatementOK'
  BY StatementBegins, StatementGoesOn DEF WInv
<1> QED BY <1>1, <1>2, <1>3, <1>4, <1>5, <1>6, <1>7, <1>8 DEF WInv, WalkersAgree

LEMMA WInvStutter ==
    ASSUME WInv, WalkersAgree, UNCHANGED vars
    PROVE  WInv' /\ WalkersAgree'
<1>1. /\ buffer' = buffer /\ trim' = trim /\ wrap' = wrap /\ group' = group /\ step12' = step12
      /\ odd' = odd /\ found' = found /\ last' = last /\ marks' = marks /\ chain' = chain
  BY DEF vars, sourceVars, walkerVars
<1>2. WType' /\ step12' \in Step12s
  BY <1>1 DEF WInv, WType
<1>3. SearchOK'
  BY <1>1 DEF WInv, SearchOK, Searched
<1>4. MarkOK'
  BY <1>1 DEF WInv, MarkOK, Matched, MarkStates, Open
<1>5. WalkersAgree'
  BY <1>1 DEF WalkersAgree, CommentFound, MarkersAreCode, MarkerAt, RegionAt, CodeBytes, CodeEnd
<1>6. TrimOK'
  BY <1>1 DEF WInv, TrimOK, TrimMatched
<1>7. ChainOK'
  BY <1>1 DEF WInv, ChainOK
<1>8. StatementOK'
  BY <1>1 DEF WInv, StatementOK
<1> QED BY <1>2, <1>3, <1>4, <1>5, <1>6, <1>7, <1>8 DEF WInv

LEMMA WInvNext ==
    ASSUME WInv, WalkersAgree, [WNext]_vars
    PROVE  WInv' /\ WalkersAgree'
<1>1. CASE UNCHANGED vars
  BY <1>1, WInvStutter
<1>2. ASSUME NEW s \in Lines, WalkLine(s)
      PROVE  WInv' /\ WalkersAgree'
  <2>1. PICK p : LineOf(p, buffer, s) /\ Moves(p, s)
    BY <1>2, StepIs
  <2>2. s \in Seq(Bytes)
    BY LinesAreBytes
  <2> QED BY <2>1, <2>2, WInvStep
<1> QED BY <1>1, <1>2 DEF WNext

\* On a group the wrapper may rewrite, the comment it detaches is the one the
\* buffer found (detach_final_inline_comment), and a marker the continuation
\* pass may strip or respace is code to the buffer (normalize_continuations).
THEOREM WalkersAgreeHolds == WSpec => []WalkersAgree
<1>1. WInit => WInv /\ WalkersAgree
  BY WInvInit
<1>2. WInv /\ WalkersAgree /\ [WNext]_vars => WInv' /\ WalkersAgree'
  BY WInvNext
<1> QED BY <1>1, <1>2, PTL DEF WSpec

LEMMA TrimSame ==
    ASSUME WInv, NEW s \in Seq(Bytes), NEW p, LineOf(p, buffer, s), Moves(p, s)
    PROVE  BlankBody(last') \/ SameLine(PhysicalLine(buffer, SubSeq(last'.bytes, 1, kept')), last')
<1>1. last' = p /\ Trim(s)
  BY DEF Moves, Take
<1>2. PICK states, k : states = buffer /\ k = kept'
  OBVIOUS
<1>3. states \in [Streams -> LineStates] /\ LineOf(p, states, s) /\ trim \in [Streams -> Lexes]
  BY <1>2 DEF WInv, WType
<1>4. p.bytes = s
  BY <1>3, LineStart
<1>5. k \in LastInk(s)..Len(s)
  BY <1>1, <1>2, <1>3, KeptRange
<1>6. PICK q : q = PhysicalLine(states, SubSeq(s, 1, k))
  OBVIOUS
<1>7. LineOf(q, states, SubSeq(s, 1, k))
  BY <1>6, LineFields
<1>8. BlankBody(p) \/ SameLine(q, p)
  BY <1>3, <1>5, <1>7, HeadLine
<1> QED BY <1>1, <1>2, <1>4, <1>6, <1>8

\* Trimming a line drops no byte of a literal or of a Hollerith constant
\* (protected_trailing_floor), and the trimmed line is read as the line it was:
\* the same kind, stream, comment and continuation, the same state behind it.
THEOREM TrimmingIsHarmlessHolds == WSpec => TrimmingIsHarmless
<1>1. WInit => WInv /\ WalkersAgree
  BY WInvInit
<1>2. WInv /\ WalkersAgree /\ [WNext]_vars => WInv' /\ WalkersAgree'
  BY WInvNext
<1>3. WInv /\ [WNext]_vars =>
         /\ [TrimKeepsPayload']_vars
         /\ [\/ BlankBody(last')
             \/ SameLine(PhysicalLine(buffer, SubSeq(last'.bytes, 1, kept')), last')]_vars
  <2> SUFFICES ASSUME WInv, NEW s \in Lines, WalkLine(s)
               PROVE  /\ TrimKeepsPayload'
                      /\ \/ BlankBody(last')
                         \/ SameLine(PhysicalLine(buffer, SubSeq(last'.bytes, 1, kept')), last')
    BY DEF WNext
  <2>1. PICK p : LineOf(p, buffer, s) /\ Moves(p, s)
    BY StepIs
  <2>2. s \in Seq(Bytes)
    BY LinesAreBytes
  <2> QED BY <2>1, <2>2, WInvStep, TrimSame
<1> QED BY <1>1, <1>2, <1>3, PTL DEF WSpec, TrimmingIsHarmless, TrimmedReadsTheSame

\* A literal, a comment or a Hollerith constant begins and ends in the statement
\* where it does in the physical lines, however many lines the statement is
\* spread over (LogicalGroup::visit); a line read behind all its stream left
\* open has the regions the buffer gave it (SourceBuffer::line); and no line
\* owes Hollerith payload to the next.
THEOREM StatementsLexAsOneHolds == WSpec => StatementsLexAsOne
<1>1. WInit => WInv /\ WalkersAgree
  BY WInvInit
<1>2. WInv /\ WalkersAgree /\ [WNext]_vars => WInv' /\ WalkersAgree'
  BY WInvNext
<1>3. WInv => StatementLexesLikeItsLines /\ PayloadEndsWithItsLine
  BY StatementLexes DEF WInv
<1>4. WInv /\ [WNext]_vars => [ReadAsOne(last')]_vars
  <2> SUFFICES ASSUME WInv, NEW s \in Lines, WalkLine(s)
               PROVE  ReadAsOne(last')
    BY DEF WNext
  <2>1. PICK p : LineOf(p, buffer, s) /\ Moves(p, s)
    BY StepIs
  <2>2. s \in Seq(Bytes)
    BY LinesAreBytes
  <2> QED BY <2>1, <2>2, WInvStep
<1> QED BY <1>1, <1>2, <1>3, <1>4, PTL DEF WSpec, StatementsLexAsOne, ChainLexesAsOne
=============================================================================
