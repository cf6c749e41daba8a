-------------------------- MODULE TransformProofs --------------------------
(***************************************************************************)
(* Proofs about the text a run rewrites.                                   *)
(*                                                                         *)
(* Line edits, for every line and every list of requests: what finish      *)
(* copies and what it puts in.  The argument carries one relation between  *)
(* the new line so far, the requests applied and the cursor through the    *)
(* loop; a step copies a stretch of the line and then puts in a text.      *)
(*                                                                         *)
(* Normalization, for files of any number of lines: the views the passes   *)
(* read are current, every line leaves with the terminator its mode        *)
(* promises, and what is delivered is delivered again as it is.            *)
(***************************************************************************)
EXTENDS EditBuffer, Normalize, SequenceTheorems, FiniteSetTheorems,
        WellFoundedInduction, TLAPS

-----------------------------------------------------------------------------
(* EditBuffer *)

InRange(es, i, p) == es[i].start <= p /\ p < es[i].end

\* The bytes in o are those below b that no request of A covers, in order.
BytesKept(es, o, A, b) ==
    /\ \A k \in 1..Len(o) : o[k].from = "line" =>
          o[k].at < b /\ \A i \in A : ~InRange(es, i, o[k].at)
    /\ \A p \in 0..b - 1 :
          \/ \E k \in 1..Len(o) : o[k].from = "line" /\ o[k].at = p
          \/ \E i \in A : InRange(es, i, p)
    /\ \A k, l \in 1..Len(o) :
          (k < l /\ o[k].from = "line" /\ o[l].from = "line") => o[k].at < o[l].at

\* The texts in o are those of requests of A, each where its range was.
TextsKept(es, o, A, b) ==
    /\ \A l \in 1..Len(o) : o[l].from = "edit" => o[l].at \in A
    /\ \A i \in A : es[i].end <= b
    /\ \A k, l \in 1..Len(o) :
          (o[k].from = "line" /\ o[l].from = "edit") =>
              /\ k < l => o[k].at < es[o[l].at].start
              /\ l < k => o[k].at >= es[o[l].at].end

Disjoint(es, A) ==
    \A i, j \in A : i = j \/ es[i].end <= es[j].start \/ es[j].end <= es[i].start

Kept(es, o, A, b) == BytesKept(es, o, A, b) /\ TextsKept(es, o, A, b) /\ Disjoint(es, A)

WellFormed(es, n) ==
    /\ es \in Seq(Edits)
    /\ \A i \in 1..Len(es) : es[i].start <= es[i].end /\ es[i].end <= n

-----------------------------------------------------------------------------
(* What the two parts of a step do to the new line. *)

\* Copied(b, c) is the bytes b, b + 1, ..., c - 1.
LEMMA CopiedFacts ==
    ASSUME NEW b \in Nat, NEW c \in Nat, b <= c
    PROVE  /\ Copied(b, c) \in Seq(Parts) /\ Len(Copied(b, c)) = c - b
           /\ \A k \in 1..c - b : Copied(b, c)[k].from = "line" /\ Copied(b, c)[k].at = b + k - 1
<1>1. c - b \in Nat
  OBVIOUS
<1>2. \A k \in 1..c - b : [from |-> "line", at |-> b + k - 1] \in Parts
  BY DEF Parts
<1>3. Copied(b, c) \in [1..c - b -> Parts]
  BY <1>1, <1>2 DEF Copied
<1> QED
  BY <1>1, <1>3 DEF Copied

\* Copying the line from the cursor on keeps the relation.
LEMMA CopyKeeps ==
    ASSUME NEW n \in Nat, NEW es, WellFormed(es, n),
           NEW o \in Seq(Parts), NEW A \in SUBSET (1..Len(es)),
           NEW b \in Nat, NEW c \in Nat, b <= c, Kept(es, o, A, b)
    PROVE  /\ o \o Copied(b, c) \in Seq(Parts)
           /\ Kept(es, o \o Copied(b, c), A, c)
<1> DEFINE q == o \o Copied(b, c)
           m == Len(o)
<1>1. /\ Copied(b, c) \in Seq(Parts) /\ Len(Copied(b, c)) = c - b
      /\ \A k \in 1..c - b : Copied(b, c)[k].from = "line" /\ Copied(b, c)[k].at = b + k - 1
  BY CopiedFacts
<1>2. /\ q \in Seq(Parts) /\ m \in Nat /\ Len(q) = m + (c - b)
      /\ \A k \in 1..m : q[k] = o[k]
      /\ \A k \in m + 1..m + (c - b) : q[k] = Copied(b, c)[k - m]
  <2>1. /\ o \o Copied(b, c) \in Seq(Parts)
        /\ Len(o \o Copied(b, c)) = Len(o) + (c - b)
        /\ \A k \in 1..Len(o) + (c - b) : (o \o Copied(b, c))[k] =
              IF k <= Len(o) THEN o[k] ELSE Copied(b, c)[k - Len(o)]
    <3> DEFINE x == Copied(b, c)
    <3>1. x \in Seq(Parts) /\ Len(x) = c - b
      BY <1>1
    <3> HIDE DEF x
    <3>2. /\ o \o x \in Seq(Parts) /\ Len(o \o x) = Len(o) + Len(x)
          /\ \A k \in 1..Len(o) + Len(x) :
                (o \o x)[k] = IF k <= Len(o) THEN o[k] ELSE x[k - Len(o)]
      BY <3>1, ConcatProperties
    <3> QED
      BY <3>1, <3>2 DEF x
  <2>2. m \in Nat
    OBVIOUS
  <2>3. q \in Seq(Parts) /\ Len(q) = m + (c - b)
    BY <2>1
  <2>4. \A k \in 1..m + (c - b) : q[k] = IF k <= m THEN o[k] ELSE Copied(b, c)[k - m]
    BY <2>1
  <2> HIDE DEF q, m
  <2>5. c - b \in Nat
    OBVIOUS
  <2> QED
    BY <2>2, <2>3, <2>4, <2>5
<1>3. \A k \in m + 1..m + (c - b) :
         q[k].from = "line" /\ q[k].at = b + (k - m) - 1
  <2> TAKE k \in m + 1..m + (c - b)
  <2>1. k - m \in 1..c - b
    BY <1>2
  <2>2. q[k] = Copied(b, c)[k - m]
    BY <1>2
  <2> QED
    BY <1>1, <2>1, <2>2
<1>4. \A k \in 1..Len(q) : k \in 1..m \/ k \in m + 1..m + (c - b)
  BY <1>2
<1>5. \A i \in A : es[i].start \in Nat /\ es[i].end \in Nat /\ es[i].end <= b
  <2> TAKE i \in A
  <2>1. es[i] \in Edits
    BY DEF WellFormed
  <2>2. es[i].end <= b
    BY DEF Kept, TextsKept
  <2> QED
    BY <2>1, <2>2 DEF Edits
<1>6. \A k \in 1..m : o[k].at \in Nat /\ q[k].at = o[k].at /\ q[k].from = o[k].from
  <2> TAKE k \in 1..m
  <2>1. o[k] \in Parts /\ q[k] = o[k]
    BY <1>2
  <2> QED
    BY <2>1 DEF Parts
<1>9. m \in Nat /\ Len(q) = m + (c - b) /\ c - b \in Nat
  BY <1>2
<1> HIDE DEF q, m
<1>7. BytesKept(es, q, A, c)
  <2>1. \A k \in 1..Len(q) : q[k].from = "line" =>
            q[k].at < c /\ \A i \in A : ~InRange(es, i, q[k].at)
    <3> TAKE k \in 1..Len(q)
    <3>1. CASE k \in 1..m
      BY <3>1, <1>2, <1>6 DEF Kept, BytesKept, m
    <3>2. CASE k \in m + 1..m + (c - b)
      <4>1. q[k].at = b + (k - m) - 1 /\ q[k].at < c /\ q[k].at >= b
        BY <3>2, <1>9, <1>3
      <4>2. q[k].at \in Nat
        BY <4>1, <1>9, <3>2
      <4>3. \A i \in A : ~(q[k].at < es[i].end)
        <5> TAKE i \in A
        <5>1. es[i].end \in Nat /\ es[i].end <= b
          BY <1>5
        <5> QED
          BY <4>1, <4>2, <5>1
      <4> QED
        BY <4>1, <4>3 DEF InRange
    <3> QED
      BY <3>1, <3>2, <1>4
  <2>2. \A p \in 0..c - 1 : \/ \E k \in 1..Len(q) : q[k].from = "line" /\ q[k].at = p
                            \/ \E i \in A : InRange(es, i, p)
    <3> TAKE p \in 0..c - 1
    <3>1. CASE p < b
      <4>1. p \in 0..b - 1
        BY <3>1
      <4>2. \/ \E k \in 1..m : o[k].from = "line" /\ o[k].at = p
            \/ \E i \in A : InRange(es, i, p)
        BY <4>1 DEF Kept, BytesKept, m
      <4> QED
        BY <4>2, <1>2
    <3>2. CASE p >= b
      <4>1. p - b + m + 1 \in m + 1..m + (c - b) /\ p - b + m + 1 \in 1..Len(q)
        BY <3>2, <1>2
      <4>2. q[p - b + m + 1].from = "line" /\ q[p - b + m + 1].at = p
        BY <4>1, <1>2, <1>3
      <4> QED
        BY <4>1, <4>2
    <3> QED
      BY <3>1, <3>2
  <2>3. \A k, l \in 1..Len(q) : (k < l /\ q[k].from = "line" /\ q[l].from = "line")
                                  => q[k].at < q[l].at
    <3> SUFFICES ASSUME NEW k \in 1..Len(q), NEW l \in 1..Len(q), k < l,
                        q[k].from = "line", q[l].from = "line"
                 PROVE  q[k].at < q[l].at
      OBVIOUS
    <3>1. CASE l \in 1..m
      BY <3>1, <1>6, <1>9 DEF Kept, BytesKept, m
    <3>2. CASE k \in 1..m /\ l \in m + 1..m + (c - b)
      <4>1. q[k].at < b /\ q[k].at \in Nat
        BY <3>2, <1>2, <1>6 DEF Kept, BytesKept, m
      <4>2. q[l].at >= b
        BY <3>2, <1>9, <1>3
      <4> QED
        BY <4>1, <4>2, <1>3, <3>2, <1>9
    <3>3. CASE k \in m + 1..m + (c - b) /\ l \in m + 1..m + (c - b)
      BY <3>3, <1>9, <1>3
    <3> QED
      BY <3>1, <3>2, <3>3, <1>2, <1>4
  <2> QED
    BY <2>1, <2>2, <2>3 DEF BytesKept
<1>8. TextsKept(es, q, A, c)
  <2>1. \A l \in 1..Len(q) : q[l].from = "edit" => l \in 1..m /\ q[l].at \in A
    BY <1>2, <1>3, <1>4 DEF Kept, TextsKept, m
  <2>2. \A i \in A : es[i].end <= c
    BY <1>5
  <2>3. \A k, l \in 1..Len(q) :
           (q[k].from = "line" /\ q[l].from = "edit") =>
              /\ k < l => q[k].at < es[q[l].at].start
              /\ l < k => q[k].at >= es[q[l].at].end
    <3> SUFFICES ASSUME NEW k \in 1..Len(q), NEW l \in 1..Len(q),
                        q[k].from = "line", q[l].from = "edit"
                 PROVE  /\ k < l => q[k].at < es[q[l].at].start
                        /\ l < k => q[k].at >= es[q[l].at].end
      OBVIOUS
    <3>1. l \in 1..m /\ q[l].at \in A /\ q[l] = o[l]
      BY <2>1, <1>2
    <3>2. CASE k \in 1..m
      BY <3>1, <3>2, <1>2 DEF Kept, TextsKept, m
    <3>3. CASE k \in m + 1..m + (c - b)
      <4>1. q[k].at >= b /\ q[k].at \in Nat
        BY <3>3, <1>9, <1>3
      <4>2. ~(k < l)
        BY <3>1, <3>3, <1>9
      <4>3. es[q[l].at].end \in Nat /\ es[q[l].at].end <= b
        BY <3>1, <1>5
      <4> QED
        BY <4>1, <4>2, <4>3
    <3> QED
      BY <3>2, <3>3, <1>4
  <2> QED
    BY <2>1, <2>2, <2>3 DEF TextsKept
<1> QED
  BY <1>2, <1>7, <1>8 DEF Kept, q

\* Putting in the text of a request that starts where the copy ended keeps the
\* relation, with the request among those applied and the cursor at its end.
LEMMA InsertKeeps ==
    ASSUME NEW n \in Nat, NEW es, WellFormed(es, n),
           NEW o \in Seq(Parts), NEW A \in SUBSET (1..Len(es)),
           NEW i \in 1..Len(es), Kept(es, o, A, es[i].start)
    PROVE  /\ Append(o, [from |-> "edit", at |-> i]) \in Seq(Parts)
           /\ Kept(es, Append(o, [from |-> "edit", at |-> i]), A \cup {i}, es[i].end)
<1> DEFINE q == Append(o, [from |-> "edit", at |-> i])
           m == Len(o)
           b == es[i].start
           c == es[i].end
           B == A \cup {i}
<1>1. [from |-> "edit", at |-> i] \in Parts
  BY DEF Parts, WellFormed
<1>2. /\ q \in Seq(Parts) /\ m \in Nat /\ Len(q) = m + 1
      /\ \A k \in 1..m : q[k] = o[k]
  BY <1>1
<1>3. q[m + 1].from = "edit" /\ q[m + 1].at = i
  BY <1>1
<1>4. /\ b \in Nat /\ c \in Nat /\ b <= c
      /\ \A j \in A : es[j].start \in Nat /\ es[j].end \in Nat /\ es[j].end <= b
  <2>1. \A j \in 1..Len(es) : es[j].start \in Nat /\ es[j].end \in Nat
    <3> TAKE j \in 1..Len(es)
    <3>1. es[j] \in Edits
      BY DEF WellFormed
    <3> QED
      BY <3>1 DEF Edits
  <2>2. \A j \in A : es[j].end <= es[i].start
    BY DEF Kept, TextsKept
  <2> QED
    BY <2>1, <2>2 DEF WellFormed
<1>5. \A k \in 1..m : o[k].at \in Nat /\ q[k].at = o[k].at /\ q[k].from = o[k].from
  <2> TAKE k \in 1..m
  <2>1. o[k] \in Parts /\ q[k] = o[k]
    BY <1>2
  <2> QED
    BY <2>1 DEF Parts
<1>6. /\ m \in Nat /\ Len(q) = m + 1
      /\ \A k \in 1..Len(q) : k \in 1..m \/ k = m + 1
  BY <1>2
<1>7. BytesKept(es, o, A, b) /\ TextsKept(es, o, A, b) /\ Disjoint(es, A)
  BY DEF Kept
<1>8. b = es[i].start /\ c = es[i].end /\ B = A \cup {i} /\ m = Len(o)
  OBVIOUS
<1> HIDE DEF q, m, b, c, B
<1>9. BytesKept(es, q, B, c)
  <2>1. \A k \in 1..Len(q) : q[k].from = "line" =>
            k \in 1..m /\ q[k].at \in Nat /\ q[k].at < b
    BY <1>3, <1>5, <1>6, <1>7, <1>8 DEF BytesKept
  <2>2. \A k \in 1..Len(q) : q[k].from = "line" =>
            q[k].at < c /\ \A j \in B : ~InRange(es, j, q[k].at)
    <3> SUFFICES ASSUME NEW k \in 1..Len(q), q[k].from = "line", NEW j \in B
                 PROVE  q[k].at < c /\ ~InRange(es, j, q[k].at)
      BY <2>1, <1>4
    <3>1. k \in 1..m /\ q[k].at \in Nat /\ q[k].at < b
      BY <2>1
    <3>2. q[k].at < c
      BY <3>1, <1>4
    <3>3. CASE j \in A
      BY <3>1, <3>2, <3>3, <1>5, <1>7, <1>8 DEF BytesKept
    <3>4. CASE j = i
      BY <3>1, <3>2, <3>4, <1>4, <1>8 DEF InRange
    <3> QED
      BY <3>3, <3>4, <1>8
  <2>3. \A p \in 0..c - 1 : \/ \E k \in 1..Len(q) : q[k].from = "line" /\ q[k].at = p
                            \/ \E j \in B : InRange(es, j, p)
    <3> TAKE p \in 0..c - 1
    <3>1. CASE p < b
      <4>1. p \in 0..b - 1
        BY <3>1, <1>4
      <4>2. \/ \E k \in 1..m : o[k].from = "line" /\ o[k].at = p
            \/ \E j \in A : InRange(es, j, p)
        BY <4>1, <1>7, <1>8 DEF BytesKept
      <4>3. \A k \in 1..m : k \in 1..Len(q)
        BY <1>6
      <4> QED
        BY <4>2, <4>3, <1>5, <1>8
    <3>2. CASE p >= b
      BY <3>2, <1>4, <1>8 DEF InRange
    <3> QED
      BY <3>1, <3>2, <1>4
  <2>4. \A k, l \in 1..Len(q) : (k < l /\ q[k].from = "line" /\ q[l].from = "line")
                                => q[k].at < q[l].at
    BY <2>1, <1>5, <1>7, <1>8 DEF BytesKept
  <2> QED
    BY <2>2, <2>3, <2>4 DEF BytesKept
<1>10. TextsKept(es, q, B, c)
  <2>1. \A l \in 1..Len(q) : q[l].from = "edit" => q[l].at \in B
    BY <1>3, <1>5, <1>6, <1>7, <1>8 DEF TextsKept
  <2>2. \A j \in B : es[j].end <= c
    BY <1>4, <1>8
  <2>3. \A k, l \in 1..Len(q) :
           (q[k].from = "line" /\ q[l].from = "edit") =>
              /\ k < l => q[k].at < es[q[l].at].start
              /\ l < k => q[k].at >= es[q[l].at].end
    <3> SUFFICES ASSUME NEW k \in 1..Len(q), NEW l \in 1..Len(q),
                        q[k].from = "line", q[l].from = "edit"
                 PROVE  /\ k < l => q[k].at < es[q[l].at].start
                        /\ l < k => q[k].at >= es[q[l].at].end
      OBVIOUS
    <3>1. k \in 1..m
      BY <1>3, <1>6
    <3>2. CASE l \in 1..m
      BY <3>1, <3>2, <1>5, <1>7, <1>8 DEF TextsKept
    <3>3. CASE l = m + 1
      <4>1. q[k].at < b
        BY <3>1, <1>5, <1>7, <1>8 DEF BytesKept
      <4>2. ~(l < k)
        BY <3>1, <3>3, <1>6
      <4> QED
        BY <4>1, <4>2, <3>3, <1>3, <1>8
    <3> QED
      BY <3>2, <3>3, <1>6
  <2> QED
    BY <2>1, <2>2, <2>3 DEF TextsKept
<1>11. Disjoint(es, B)
  BY <1>4, <1>7, <1>8 DEF Disjoint
<1> QED
  BY <1>2, <1>9, <1>10, <1>11 DEF Kept, q, c, B

-----------------------------------------------------------------------------
(* The relation holds in every reachable state. *)

Bound == IF pc = "done" THEN Len(line) ELSE cursor

EInv ==
    /\ ETypeOK
    /\ pc = "asking" => out = <<>> /\ applied = {} /\ cursor = 0 /\ next = 1
    /\ Kept(edits, out, applied, Bound)

LEMMA NothingKept ==
    ASSUME NEW es PROVE Kept(es, <<>>, {}, 0)
BY DEF Kept, BytesKept, TextsKept, Disjoint

LEMMA TypeWellFormed ==
    ETypeOK => WellFormed(edits, Len(line)) /\ Len(line) \in Nat
BY DEF ETypeOK, WellFormed, Requests

LEMMA EInvInit == EInit => EInv
<1> SUFFICES ASSUME EInit PROVE EInv
  OBVIOUS
<1>1. ETypeOK
  BY EditAssumption DEF EInit, ETypeOK, Requests
<1>2. Kept(edits, out, applied, Bound)
  BY NothingKept DEF EInit, Bound
<1> QED
  BY <1>1, <1>2 DEF EInit, EInv

LEMMA EInvStep == EInv /\ [ENext]_editVars => EInv'
<1> SUFFICES ASSUME EInv, [ENext]_editVars PROVE EInv'
  OBVIOUS
<1>1. ASSUME NEW a \in 0..Len(line) + 1, NEW b \in 0..Len(line) + 1,
             NEW text \in Inserts, Replace(a, b, text)
      PROVE  EInv'
  <2>1. /\ pc = "asking" /\ pc' = "asking" /\ out' = <<>> /\ applied' = {}
        /\ cursor' = 0 /\ next' = 1 /\ line' = line
    BY <1>1 DEF EInv, Replace
  <2>2. Kept(edits', out', applied', Bound')
    <3>1. Kept(edits', <<>>, {}, 0)
      BY NothingKept
    <3> QED
      BY <2>1, <3>1 DEF Bound
  <2>3. CASE edits' = edits
    BY <1>1, <2>1, <2>2, <2>3 DEF EInv, ETypeOK, Requests, Replace
  <2>4. CASE edits' = Append(edits, [start |-> a, end |-> b, text |-> text])
             /\ ~OutOfRange(a, b)
    <3> DEFINE e == [start |-> a, end |-> b, text |-> text]
    <3>1. /\ e \in Edits /\ e.start = a /\ e.end = b /\ a <= b /\ b <= Len(line)
          /\ line \in Seq(Byte) /\ edits \in Seq(Edits)
      BY <2>4 DEF Edits, OutOfRange, EInv, ETypeOK
    <3> HIDE DEF e
    <3>2. /\ edits' \in Seq(Edits) /\ Len(edits') = Len(edits) + 1
          /\ edits'[Len(edits) + 1] = e
          /\ \A i \in 1..Len(edits) : edits'[i] = edits[i]
      BY <2>4, <3>1 DEF e
    <3>3. \A i \in 1..Len(edits') : edits'[i].start <= edits'[i].end
                                    /\ edits'[i].end <= Len(line)
      <4> TAKE i \in 1..Len(edits')
      <4>1. CASE i \in 1..Len(edits)
        BY <4>1, <3>2 DEF EInv, ETypeOK, Requests
      <4>2. CASE i = Len(edits) + 1
        BY <4>2, <3>1, <3>2
      <4> QED
        BY <4>1, <4>2, <3>1, <3>2
    <3>4. skipped' \in Nat
      BY <1>1, <2>4 DEF EInv, ETypeOK, Replace
    <3> QED
      BY <2>1, <2>2, <3>1, <3>2, <3>3, <3>4 DEF EInv, ETypeOK, Requests
  <2> QED
    BY <1>1, <2>3, <2>4 DEF Replace
<1>2. CASE Sort
  <2>1. Kept(edits', out', applied', Bound')
    BY <1>2 DEF Sort, EInv, Bound
  <2>2. Orders' = Orders
    BY <1>2 DEF Sort, Orders, Requests, Precedes
  <2>3. order' \in Orders'
    BY <1>2, <2>2 DEF Sort
  <2> QED
    BY <1>2, <2>1, <2>3 DEF Sort, EInv, ETypeOK, Requests
<1>3. CASE Splice
  <2> DEFINE i == order[next]
  <2>1. /\ i \in 1..Len(edits) /\ edits[i].start \in Nat /\ edits[i].end \in Nat
        /\ edits[i].start <= edits[i].end /\ edits[i].end <= Len(line)
        /\ next \in Nat /\ Len(edits) \in Nat /\ cursor \in Nat /\ Len(line) \in Nat
    <3>1. i \in 1..Len(edits)
      BY <1>3 DEF Splice, EInv, ETypeOK, Orders, Requests
    <3>2. edits[i] \in Edits
      BY <3>1 DEF EInv, ETypeOK
    <3> QED
      BY <3>1, <3>2 DEF Edits, EInv, ETypeOK, Requests
  <2>2. /\ pc = "splicing" /\ pc' = "splicing" /\ edits' = edits /\ line' = line
        /\ order' = order /\ next' = next + 1 /\ next <= Len(edits)
    BY <1>3 DEF Splice
  <2>3. Orders' = Orders
    BY <2>2 DEF Orders, Requests, Precedes
  <2>4. Kept(edits, out, applied, cursor)
    BY <2>2 DEF EInv, Bound
  <2>5. /\ out' \in Seq(Parts) /\ applied' \in SUBSET (1..Len(edits))
        /\ cursor' \in 0..Len(line) /\ skipped' \in Nat
        /\ Kept(edits, out', applied', cursor')
    <3>1. CASE Overlaps(edits[i])
      <4>1. out' = out /\ applied' = applied /\ cursor' = cursor /\ skipped' = skipped + 1
        BY <1>3, <3>1 DEF Splice
      <4>2. out \in Seq(Parts) /\ applied \subseteq 1..Len(edits) /\ cursor \in 0..Len(line)
            /\ skipped \in Nat
        BY DEF EInv, ETypeOK, Requests
      <4> QED
        BY <2>4, <4>1, <4>2
    <3>2. CASE ~Overlaps(edits[i])
      <4> DEFINE o == out \o Copied(cursor, edits[i].start)
      <4>1. cursor <= edits[i].start
        BY <3>2, <2>1 DEF Overlaps
      <4>2. /\ out \in Seq(Parts) /\ applied \in SUBSET (1..Len(edits))
            /\ WellFormed(edits, Len(line))
        BY TypeWellFormed DEF EInv, ETypeOK, Requests
      <4>3. o \in Seq(Parts) /\ Kept(edits, o, applied, edits[i].start)
        BY <2>1, <2>4, <4>1, <4>2, CopyKeeps
      <4>4. /\ out' = Append(o, [from |-> "edit", at |-> i])
            /\ cursor' = edits[i].end /\ applied' = applied \cup {i}
            /\ skipped' = skipped
        BY <1>3, <3>2 DEF Splice
      <4> HIDE DEF o, i
      <4>5. /\ Append(o, [from |-> "edit", at |-> i]) \in Seq(Parts)
            /\ Kept(edits, Append(o, [from |-> "edit", at |-> i]), applied \cup {i},
                    edits[i].end)
        BY <2>1, <4>2, <4>3, InsertKeeps
      <4>6. skipped' \in Nat
        BY <4>4 DEF EInv, ETypeOK
      <4>7. out' \in Seq(Parts) /\ Kept(edits, out', applied', cursor')
        BY <4>4, <4>5
      <4> QED
        BY <2>1, <4>2, <4>4, <4>6, <4>7
    <3> QED
      BY <3>1, <3>2
  <2>6. ETypeOK'
    <3>1. order' \in Orders'
      BY <2>2, <2>3 DEF EInv, ETypeOK
    <3>2. /\ line' \in Seq(Byte) /\ edits' \in Seq(Edits)
          /\ \A j \in Requests' : edits'[j].start <= edits'[j].end
                                  /\ edits'[j].end <= Len(line')
      BY <2>2 DEF EInv, ETypeOK, Requests
    <3>3. next' \in 1..Len(edits') + 1
      BY <2>1, <2>2 DEF EInv, ETypeOK
    <3> QED
      BY <2>2, <2>5, <3>1, <3>2, <3>3 DEF ETypeOK, Requests
  <2> QED
    BY <2>2, <2>5, <2>6 DEF EInv, Bound
<1>4. CASE Rest
  <2>1. /\ pc = "splicing" /\ pc' = "done" /\ edits' = edits /\ line' = line
        /\ order' = order /\ applied' = applied /\ cursor' = cursor /\ next' = next
        /\ skipped' = skipped /\ out' = out \o Copied(cursor, Len(line))
    BY <1>4 DEF Rest
  <2>2. /\ Kept(edits, out, applied, cursor) /\ cursor \in Nat /\ Len(line) \in Nat
        /\ cursor <= Len(line)
    BY <2>1 DEF EInv, Bound, ETypeOK
  <2>3. /\ out \in Seq(Parts) /\ applied \in SUBSET (1..Len(edits))
        /\ WellFormed(edits, Len(line))
    BY TypeWellFormed DEF EInv, ETypeOK, Requests
  <2>4. out' \in Seq(Parts) /\ Kept(edits, out', applied, Len(line))
    BY <2>1, <2>2, <2>3, CopyKeeps
  <2>5. order' \in Orders'
    BY <2>1 DEF EInv, ETypeOK, Orders, Requests, Precedes
  <2>6. ETypeOK'
    BY <2>1, <2>4, <2>5 DEF EInv, ETypeOK, Requests
  <2> QED
    BY <2>1, <2>4, <2>6 DEF EInv, Bound
<1>5. CASE UNCHANGED editVars
  <2>1. ETypeOK'
    BY <1>5 DEF editVars, EInv, ETypeOK, Requests, Orders, Precedes
  <2> QED
    BY <1>5, <2>1 DEF editVars, EInv, Bound
<1> QED
  BY <1>1, <1>2, <1>3, <1>4, <1>5 DEF ENext

LEMMA EInvCorrect == ESpec => []EInv
BY EInvInit, EInvStep, PTL DEF ESpec

-----------------------------------------------------------------------------
(* The theorems. *)

\* The state of an edit is always well-formed: requests are ranges of the line,
\* and the order finish uses is a stable sort.  (EditBuffer::replace, finish)
THEOREM EditTypeCorrect == ESpec => []ETypeOK
BY EInvCorrect, PTL DEF EInv

\* Whatever is asked for, the bytes no applied request names are in the new line,
\* each once and in order, and no others are.  (EditBuffer::finish)
THEOREM SurvivorsCorrect == ESpec => []SurvivorsKept
<1>1. EInv => SurvivorsKept
  <2> SUFFICES ASSUME EInv, pc = "done" PROVE SurvivorsKept
    BY DEF SurvivorsKept
  <2>1. BytesKept(edits, out, applied, Len(line)) /\ out \in Seq(Parts)
    BY DEF EInv, Kept, Bound, ETypeOK
  <2>2. \A p \in 0..Len(line) - 1 :
           (\E k \in 1..Len(out) : out[k] = [from |-> "line", at |-> p])
             <=> (\A i \in applied : ~Covers(i, p))
    <3> TAKE p \in 0..Len(line) - 1
    <3>1. ASSUME NEW k \in 1..Len(out), out[k] = [from |-> "line", at |-> p]
          PROVE  out[k].from = "line" /\ out[k].at = p
      BY <3>1
    <3>2. ASSUME NEW k \in 1..Len(out), out[k].from = "line", out[k].at = p
          PROVE  out[k] = [from |-> "line", at |-> p]
      <4>1. out[k] \in Parts
        BY <2>1
      <4> QED
        BY <3>2, <4>1 DEF Parts
    <3>3. (\E k \in 1..Len(out) : out[k] = [from |-> "line", at |-> p])
            <=> (\E k \in 1..Len(out) : out[k].from = "line" /\ out[k].at = p)
      BY <3>1, <3>2
    <3>4. (\E k \in 1..Len(out) : out[k].from = "line" /\ out[k].at = p)
            <=> (\A i \in applied : ~InRange(edits, i, p))
      BY <2>1 DEF BytesKept
    <3>5. \A i \in applied : Covers(i, p) <=> InRange(edits, i, p)
      BY DEF Covers, InRange
    <3> QED
      BY <3>3, <3>4, <3>5
  <2> QED
    BY <2>1, <2>2 DEF SurvivorsKept, BytesKept
<1> QED
  BY <1>1, EInvCorrect, PTL

\* Every text stands where the line held what it replaces, and no byte is
\* replaced twice, however the requests overlap.  (EditBuffer::finish)
THEOREM TextsCorrect == ESpec => []TextsInPlace
<1>1. EInv => TextsInPlace
  BY DEF EInv, Kept, Disjoint, TextsKept, Bound, TextsInPlace
<1> QED
  BY <1>1, EInvCorrect, PTL
-----------------------------------------------------------------------------
(* What comes of requests that agree. *)

Agreeing ==
    \A i, j \in Requests : i < j =>
        Apart(i, j) /\ (edits[i].start = edits[j].start => edits[i].end = edits[i].start)

\* The requests looked at so far.
Seen == {order[m] : m \in 1..next - 1}

\* The texts in the new line are of requests looked at, in the order of these;
\* the cursor is where the range of an applied one ended; and none of requests
\* that agree is left out.
SpliceInv ==
    /\ \A k \in 1..Len(out) : out[k].from = "edit" => out[k].at \in Seen
    /\ \A k, l \in 1..Len(out) :
          (k < l /\ out[k].from = "edit" /\ out[l].from = "edit") =>
              Precedes(out[k].at, out[l].at)
    /\ cursor = 0 \/ \E i \in applied : cursor = edits[i].end
    /\ applied \subseteq Seen
    /\ Agreeing => applied = Seen
    /\ pc = "done" => next = Len(edits) + 1

\* A permutation of the requests reaches them all.
LEMMA AllSeen ==
    ASSUME ETypeOK, pc # "asking", next = Len(edits) + 1
    PROVE  Seen = Requests
<1>1. Len(edits) \in Nat /\ order \in Orders /\ next - 1 = Len(edits)
  BY DEF ETypeOK
<1>2. order \in [Requests -> Requests]
  BY <1>1 DEF Orders
<1>3. \A m, n \in Requests : m # n => order[m] # order[n]
  <2> TAKE m, n \in Requests
  <2>1. m < n => order[m] # order[n]
    BY <1>1 DEF Orders
  <2>2. n < m => order[n] # order[m]
    BY <1>1 DEF Orders
  <2> QED
    BY <2>1, <2>2, <1>1 DEF Requests
<1>4. order \in Injection(Requests, Requests)
  BY <1>2, <1>3 DEF Injection, IsInjective
<1>5. IsFiniteSet(Requests)
  BY <1>1, FS_Interval DEF Requests
<1>6. order \in Surjection(Requests, Requests)
  BY <1>4, <1>5, FS_Injection
<1>7. \A i \in Requests : \E m \in Requests : order[m] = i
  BY <1>6 DEF Surjection
<1> QED
  BY <1>1, <1>2, <1>7 DEF Seen, Requests

\* The request looked at comes after those looked at before.
LEMMA NextPrecedes ==
    ASSUME ETypeOK, pc # "asking", next <= Len(edits)
    PROVE  /\ order[next] \in Requests /\ Seen \subseteq Requests
           /\ \A i \in Seen : Precedes(i, order[next])
<1>1. /\ Len(edits) \in Nat /\ order \in Orders /\ next \in Nat /\ next \in Requests
      /\ \A m \in 1..next - 1 : m \in Requests /\ m < next
  BY DEF ETypeOK, Requests
<1>2. \A m \in Requests : m < next => Precedes(order[m], order[next])
  BY <1>1 DEF Orders
<1>3. order \in [Requests -> Requests]
  BY <1>1 DEF Orders
<1> QED
  BY <1>1, <1>2, <1>3 DEF Seen

\* Requests that agree leave the one looked at in front of the cursor.
LEMMA AgreeingReach ==
    ASSUME ETypeOK, pc # "asking", next <= Len(edits), SpliceInv, Agreeing
    PROVE  ~Overlaps(edits[order[next]])
<1>1. PICK i : i = order[next]
  OBVIOUS
<1>2. /\ i \in Requests /\ Seen \subseteq Requests
      /\ \A j \in Seen : Precedes(j, i)
  BY <1>1, NextPrecedes
<1>3. \A j \in Requests : /\ edits[j].start \in Nat /\ edits[j].end \in Nat
                          /\ edits[j].start <= edits[j].end
  <2> TAKE j \in Requests
  <2>1. edits[j] \in Edits /\ edits[j].start <= edits[j].end
    BY DEF ETypeOK, Requests
  <2> QED
    BY <2>1 DEF Edits
<1>4. CASE cursor = 0
  BY <1>1, <1>2, <1>3, <1>4 DEF Overlaps
<1>5. ASSUME NEW j \in applied, cursor = edits[j].end
      PROVE  cursor <= edits[i].start
  <2>1. j \in Seen /\ j \in Requests /\ Precedes(j, i)
    BY <1>2 DEF SpliceInv
  <2>2. i \in Nat /\ j \in Nat
    BY <1>2, <2>1 DEF ETypeOK, Requests
  <2>3. i # j => Apart(i, j) \/ Apart(j, i)
    BY <1>2, <2>1, <2>2 DEF Agreeing
  <2>4. CASE edits[j].start < edits[i].start
    BY <1>2, <1>3, <1>5, <2>1, <2>3, <2>4 DEF Apart
  <2>5. CASE edits[j].start = edits[i].start /\ j < i
    BY <1>2, <1>3, <1>5, <2>1, <2>5 DEF Agreeing
  <2> QED
    BY <2>1, <2>4, <2>5 DEF Precedes
<1>6. cursor <= edits[i].start
  BY <1>2, <1>3, <1>4, <1>5 DEF SpliceInv
<1>7. cursor \in Nat /\ edits[i].start \in Nat
  BY <1>2, <1>3 DEF ETypeOK
<1> QED
  BY <1>1, <1>6, <1>7 DEF Overlaps

LEMMA SpliceInvInit == EInit => SpliceInv
<1> SUFFICES ASSUME EInit PROVE SpliceInv
  OBVIOUS
<1>1. Seen = {} /\ applied = {} /\ cursor = 0 /\ Len(out) = 0 /\ pc = "asking"
  BY DEF EInit, Seen
<1> QED
  BY <1>1 DEF SpliceInv

\* The copied bytes are no texts; the text put in comes last.
LEMMA TextsAfterCopy ==
    ASSUME NEW o \in Seq(Parts), NEW b \in Nat, NEW c \in Nat, b <= c
    PROVE  LET q == o \o Copied(b, c) IN
           /\ q \in Seq(Parts)
           /\ \A k \in 1..Len(q) : q[k].from = "edit" => k \in 1..Len(o) /\ q[k] = o[k]
<1>1. PICK t : t = Copied(b, c)
  OBVIOUS
<1>2. PICK q : q = o \o t
  OBVIOUS
<1>3. /\ t \in Seq(Parts) /\ Len(t) = c - b /\ c - b \in Nat
      /\ \A k \in 1..c - b : t[k].from = "line"
  <2>1. /\ Copied(b, c) \in Seq(Parts) /\ Len(Copied(b, c)) = c - b
        /\ \A k \in 1..c - b : Copied(b, c)[k].from = "line"
    BY CopiedFacts
  <2> QED
    BY <1>1, <2>1
<1>4. q \in Seq(Parts) /\ Len(q) = Len(o) + (c - b)
  <2>1. t \in Seq(Parts) /\ Len(t) = c - b
    BY <1>3
  <2> QED
    BY <1>2, <2>1, ConcatProperties
<1>5. \A k \in 1..Len(q) : q[k] = IF k <= Len(o) THEN o[k] ELSE t[k - Len(o)]
  BY <1>2, <1>3
<1>6. ASSUME NEW k \in 1..Len(q), q[k].from = "edit"
      PROVE  k \in 1..Len(o) /\ q[k] = o[k]
  <2>1. CASE k <= Len(o)
    BY <1>5, <2>1
  <2>2. CASE ~(k <= Len(o))
    <3>1. k - Len(o) \in 1..c - b /\ q[k] = t[k - Len(o)]
      BY <1>4, <1>5, <2>2
    <3>2. q[k].from = "line"
      BY <1>3, <3>1
    <3> QED
      BY <1>6, <3>2
  <2> QED
    BY <2>1, <2>2
<1> QED
  BY <1>1, <1>2, <1>4, <1>6

LEMMA SpliceInvStep == EInv /\ SpliceInv /\ [ENext]_editVars => SpliceInv'
<1> SUFFICES ASSUME EInv, SpliceInv, [ENext]_editVars PROVE SpliceInv'
  OBVIOUS
<1>t. ETypeOK /\ out \in Seq(Parts) /\ next \in Nat
  BY DEF EInv, ETypeOK
<1>1. ASSUME NEW a, NEW b, NEW text, Replace(a, b, text)
      PROVE  SpliceInv'
  <2>1. /\ out' = <<>> /\ applied' = {} /\ cursor' = 0 /\ next' = 1 /\ pc' = "asking"
    BY <1>1 DEF EInv, Replace
  <2>2. Len(out') = 0 /\ Seen' = {}
    BY <2>1 DEF Seen
  <2> QED
    BY <2>1, <2>2 DEF SpliceInv
<1>2. CASE Sort
  <2>1. /\ out' = <<>> /\ applied' = {} /\ cursor' = 0 /\ next' = 1 /\ pc' = "splicing"
    BY <1>2 DEF EInv, Sort
  <2>2. Len(out') = 0 /\ Seen' = {}
    BY <2>1 DEF Seen
  <2> QED
    BY <2>1, <2>2 DEF SpliceInv
<1>3. CASE Splice
  <2>1. /\ pc = "splicing" /\ pc' = "splicing" /\ edits' = edits /\ order' = order
        /\ next' = next + 1 /\ next <= Len(edits)
    BY <1>3 DEF Splice
  <2>2. PICK i : i = order[next]
    OBVIOUS
  <2>3. i \in Requests /\ Seen \subseteq Requests /\ \A j \in Seen : Precedes(j, i)
    BY <1>t, <2>1, <2>2, NextPrecedes
  <2>4. Seen' = Seen \cup {i}
    <3>1. 1..(next + 1) - 1 = (1..next - 1) \cup {next}
      BY <1>t, <2>1 DEF ETypeOK
    <3> QED
      BY <2>1, <2>2, <3>1 DEF Seen
  <2>5. Agreeing' = Agreeing /\ \A m, n : Precedes(m, n)' = Precedes(m, n)
    BY <2>1 DEF Agreeing, Apart, Requests, Precedes
  <2>6. CASE Overlaps(edits[i])
    <3>1. cursor' = cursor /\ out' = out /\ applied' = applied
      BY <1>3, <2>2, <2>6 DEF Splice
    <3>2. ~Agreeing
      BY <1>t, <2>1, <2>2, <2>6, AgreeingReach
    <3> QED
      BY <2>1, <2>4, <2>5, <3>1, <3>2 DEF SpliceInv, Precedes
  <2>7. CASE ~Overlaps(edits[i])
    <3>1. PICK o : o = out \o Copied(cursor, edits[i].start)
      OBVIOUS
    <3>2. PICK q : q = Append(o, [from |-> "edit", at |-> i])
      OBVIOUS
    <3>3. out' = q /\ cursor' = edits[i].end /\ applied' = applied \cup {i}
      BY <1>3, <2>2, <2>7, <3>1, <3>2 DEF Splice
    <3>4. cursor \in Nat /\ edits[i].start \in Nat /\ cursor <= edits[i].start /\ i \in Nat
      <4>1. edits[i] \in Edits /\ i \in Nat
        BY <1>t, <2>3 DEF ETypeOK, Requests
      <4> QED
        BY <1>t, <2>7, <4>1 DEF ETypeOK, Edits, Overlaps
    <3>5. /\ o \in Seq(Parts)
          /\ \A k \in 1..Len(o) : o[k].from = "edit" => k \in 1..Len(out) /\ o[k] = out[k]
      <4>1. LET p == out \o Copied(cursor, edits[i].start) IN
            /\ p \in Seq(Parts)
            /\ \A k \in 1..Len(p) : p[k].from = "edit" => k \in 1..Len(out) /\ p[k] = out[k]
        BY <1>t, <3>4, TextsAfterCopy
      <4> QED
        BY <3>1, <4>1
    <3>6. /\ Len(q) = Len(o) + 1 /\ q[Len(o) + 1].at = i
          /\ \A k \in 1..Len(o) : q[k] = o[k]
      BY <3>2, <3>5
    <3>7. 1..Len(q) = (1..Len(o)) \cup {Len(o) + 1} /\ Len(o) \in Nat
      BY <3>5, <3>6
    <3>8. ASSUME NEW k \in 1..Len(o), q[k].from = "edit"
          PROVE  q[k].at \in Seen /\ k \in 1..Len(out) /\ q[k] = out[k]
      BY <3>5, <3>6, <3>8 DEF SpliceInv
    <3>9. \A k \in 1..Len(q) : q[k].from = "edit" => q[k].at \in Seen \cup {i}
      BY <3>6, <3>7, <3>8
    <3>10. ASSUME NEW k \in 1..Len(q), NEW l \in 1..Len(q), k < l,
                  q[k].from = "edit", q[l].from = "edit"
           PROVE  Precedes(q[k].at, q[l].at)
      <4>1. k \in 1..Len(o)
        BY <3>7, <3>10
      <4>2. CASE l \in 1..Len(o)
        BY <3>8, <3>10, <4>1, <4>2 DEF SpliceInv
      <4>3. CASE l = Len(o) + 1
        BY <2>3, <3>6, <3>8, <3>10, <4>1, <4>3
      <4> QED
        BY <3>7, <4>2, <4>3
    <3>11. applied' \subseteq Seen' /\ (Agreeing' => applied' = Seen')
      BY <2>4, <2>5, <3>3 DEF SpliceInv
    <3>12. \E j \in applied' : cursor' = edits'[j].end
      BY <2>1, <3>3
    <3>13. \A k, l \in 1..Len(out') :
              (k < l /\ out'[k].from = "edit" /\ out'[l].from = "edit") =>
                  Precedes(out[k].at, out[l].at)'
      <4> TAKE k, l \in 1..Len(out')
      <4> HAVE k < l /\ out'[k].from = "edit" /\ out'[l].from = "edit"
      <4>1. Precedes(q[k].at, q[l].at)
        BY <3>3, <3>10
      <4> QED
        BY <2>1, <3>3, <4>1 DEF Precedes
    <3> QED
      BY <2>1, <2>4, <3>3, <3>9, <3>11, <3>12, <3>13 DEF SpliceInv
  <2> QED
    BY <2>6, <2>7
<1>4. CASE Rest
  <2>1. /\ pc = "splicing" /\ pc' = "done" /\ edits' = edits /\ order' = order
        /\ applied' = applied /\ cursor' = cursor /\ next' = next /\ next > Len(edits)
        /\ out' = out \o Copied(cursor, Len(line))
    BY <1>4 DEF Rest
  <2>2. PICK q : q = out \o Copied(cursor, Len(line))
    OBVIOUS
  <2>3. cursor \in Nat /\ Len(line) \in Nat /\ cursor <= Len(line)
    BY <1>t DEF ETypeOK
  <2>4. \A k \in 1..Len(q) : q[k].from = "edit" => k \in 1..Len(out) /\ q[k] = out[k]
    <3>1. LET p == out \o Copied(cursor, Len(line)) IN
          \A k \in 1..Len(p) : p[k].from = "edit" => k \in 1..Len(out) /\ p[k] = out[k]
      BY <1>t, <2>3, TextsAfterCopy
    <3> QED
      BY <2>2, <3>1
  <2>5. out' = q /\ Seen' = Seen /\ Agreeing' = Agreeing
    BY <2>1, <2>2 DEF Seen, Agreeing, Apart, Requests
  <2>6. next = Len(edits) + 1
    BY <1>t, <2>1 DEF ETypeOK
  <2>7. \A k \in 1..Len(out') : out'[k].from = "edit" => out'[k].at \in Seen'
    BY <2>4, <2>5 DEF SpliceInv
  <2>8. \A k, l \in 1..Len(out') :
           (k < l /\ out'[k].from = "edit" /\ out'[l].from = "edit") =>
               Precedes(out[k].at, out[l].at)'
    <3> TAKE k, l \in 1..Len(out')
    <3> HAVE k < l /\ out'[k].from = "edit" /\ out'[l].from = "edit"
    <3>1. /\ k \in 1..Len(out) /\ l \in 1..Len(out) /\ q[k] = out[k] /\ q[l] = out[l]
          /\ out[k].from = "edit" /\ out[l].from = "edit"
      BY <2>4, <2>5
    <3>2. Precedes(q[k].at, q[l].at)
      BY <3>1 DEF SpliceInv
    <3> QED
      BY <2>1, <2>5, <3>2 DEF Precedes
  <2> QED
    BY <2>1, <2>5, <2>6, <2>7, <2>8 DEF SpliceInv
<1>5. CASE UNCHANGED editVars
  BY <1>5 DEF editVars, SpliceInv, Seen, Agreeing, Apart, Requests, Precedes
<1> QED
  BY <1>1, <1>2, <1>3, <1>4, <1>5 DEF ENext

\* Requests that agree are all applied, in whatever order they were asked for,
\* and texts stand in the new line in the order of a stable sort by where they
\* go in.  (EditBuffer::finish)
THEOREM AgreeingCorrect == ESpec => []AgreeingApplied
<1>1. EInv /\ SpliceInv => AgreeingApplied
  <2> SUFFICES ASSUME EInv, SpliceInv, pc = "done" PROVE AgreeingApplied
    BY DEF AgreeingApplied
  <2>1. Seen = Requests
    BY AllSeen DEF EInv, SpliceInv
  <2> QED
    BY <2>1 DEF SpliceInv, Agreeing, AgreeingApplied
<1>2. ESpec => []SpliceInv
  BY SpliceInvInit, SpliceInvStep, EInvCorrect, PTL DEF ESpec
<1> QED
  BY <1>1, <1>2, EInvCorrect, PTL
-----------------------------------------------------------------------------
(* Normalize *)

(***************************************************************************)
(* Positions of lines.                                                     *)
(***************************************************************************)

\* A nonempty set of positions has a highest one.
LEMMA HighestPosition ==
    ASSUME NEW n \in Nat, NEW S, S \subseteq 1..n, S # {}
    PROVE  \E k \in S : \A j \in S : j <= k
<1> DEFINE T == {n - i : i \in S}
           R == OpToRel(<, Nat)
<1>1. T \subseteq Nat
  <2>1. \A i \in S : n - i \in Nat
    OBVIOUS
  <2> QED BY <2>1
<1>2. T # {}
  <2>1. PICK i : i \in S
    OBVIOUS
  <2>2. n - i \in T
    BY <2>1
  <2> QED BY <2>2
<1>3. \E x \in T : \A y \in T : ~ (<<y, x>> \in R)
  <2>1. IsWellFoundedOn(R, Nat)
    BY NatLessThanWellFounded
  <2> HIDE DEF R, T
  <2> QED BY <1>1, <1>2, <2>1, WFMin
<1>4. \A x, y \in Nat : <<y, x>> \in R <=> y < x
  BY DEF OpToRel
<1>5. PICK x \in T : \A y \in T : ~ (y < x)
  BY <1>1, <1>3, <1>4
<1>6. PICK i \in S : x = n - i
  BY <1>5
<1>7. \A j \in S : n - j \in T
  OBVIOUS
<1>8. \A j \in S : ~ (n - j < n - i)
  BY <1>5, <1>6, <1>7
<1> QED BY <1>6, <1>8

LEMMA MaxIsHighest ==
    ASSUME NEW n \in Nat, NEW S, S \subseteq 1..n, S # {}
    PROVE  Max(S) \in S /\ \A j \in S : j <= Max(S)
<1>1. \E k \in S : \A j \in S : k >= j
  <2>1. PICK k \in S : \A j \in S : j <= k
    BY HighestPosition
  <2> QED BY <2>1
<1> QED BY <1>1 DEF Max

\* How many kept positions are in front of i.
Rank(kept, i) == Cardinality({j \in kept : j < i})

LEMMA RankType ==
    ASSUME NEW n \in Nat, NEW kept, kept \subseteq 1..n, NEW i
    PROVE  Rank(kept, i) \in Nat
<1>1. IsFiniteSet(1..n)
  BY FS_Interval
<1>2. {j \in kept : j < i} \in SUBSET (1..n)
  OBVIOUS
<1>3. IsFiniteSet({j \in kept : j < i})
  BY <1>1, <1>2, FS_Subset
<1> QED BY <1>3, FS_CardinalityType DEF Rank

\* The highest kept position has all the others in front of it, and it alone.
LEMMA RankOfHighest ==
    ASSUME NEW n \in Nat, NEW kept, kept \subseteq 1..n,
           NEW top \in kept, \A j \in kept : j <= top
    PROVE  /\ Rank(kept, top) = Cardinality(kept) - 1
           /\ \A i \in kept : Rank(kept, i) = Cardinality(kept) - 1 => i = top
<1>1. IsFiniteSet(kept)
  <2>1. IsFiniteSet(1..n)
    BY FS_Interval
  <2> QED BY <2>1, FS_Subset
<1>2. {j \in kept : j < top} = kept \ {top}
  <2>1. \A j \in kept : j \in Int
    OBVIOUS
  <2>2. \A j \in kept : j < top <=> j # top
    BY <2>1
  <2> QED BY <2>2
<1>3. /\ IsFiniteSet(kept \ {top})
      /\ Cardinality(kept \ {top}) = Cardinality(kept) - 1
  BY <1>1, FS_RemoveElement
<1>4. ASSUME NEW i \in kept, Rank(kept, i) = Cardinality(kept) - 1, i # top
      PROVE  FALSE
  <2>1. {j \in kept : j < i} \in SUBSET ((kept \ {top}) \ {i})
    BY <1>4
  <2>2. /\ IsFiniteSet((kept \ {top}) \ {i})
        /\ Cardinality((kept \ {top}) \ {i}) = Cardinality(kept \ {top}) - 1
    BY <1>3, <1>4, FS_RemoveElement
  <2>3. Cardinality({j \in kept : j < i}) <= Cardinality((kept \ {top}) \ {i})
    BY <2>1, <2>2, FS_Subset
  <2>4. Cardinality(kept) \in Nat
    BY <1>1, FS_CardinalityType
  <2> QED BY <1>3, <1>4, <2>2, <2>3, <2>4 DEF Rank
<1> QED BY <1>2, <1>3, <1>4 DEF Rank

\* Every number below the size is the rank of a kept position.
LEMMA RanksFill ==
    ASSUME NEW n \in Nat, NEW kept, kept \subseteq 1..n
    PROVE  /\ Cardinality(kept) \in Nat /\ Cardinality(kept) <= n
           /\ \A k \in 1..Cardinality(kept) :
                 \E i \in kept : Rank(kept, i) = k - 1
<1>0. /\ IsFiniteSet(1..n) /\ Cardinality(1..n) = n
      /\ IsFiniteSet(kept) /\ Cardinality(kept) <= n
      /\ Cardinality(kept) \in Nat
  <2>1. IsFiniteSet(1..n) /\ Cardinality(1..n) = n
    BY FS_Interval
  <2>2. IsFiniteSet(kept) /\ Cardinality(kept) <= Cardinality(1..n)
    BY <2>1, FS_Subset
  <2> QED BY <2>1, <2>2, FS_CardinalityType
<1> DEFINE c == Cardinality(kept)
           Missing == {k \in 1..c : \A i \in kept : Rank(kept, i) # k - 1}
<1>1. SUFFICES ASSUME Missing # {} PROVE FALSE
  BY <1>0
<1>2. PICK k \in Missing : \A l \in Missing : l <= k
  <2>1. c \in Nat /\ Missing \subseteq 1..c
    BY <1>0
  <2> HIDE DEF Missing, c
  <2> QED BY <1>1, <2>1, HighestPosition
<1>3. kept # {}
  BY <1>0, <1>2, FS_EmptySet
<1>4. PICK top \in kept : \A j \in kept : j <= top
  BY <1>3, HighestPosition
<1>5. Rank(kept, top) = c - 1
  BY <1>4, RankOfHighest
<1>6. k + 1 \in 1..c /\ k + 1 \notin Missing
  <2>1. k # c
    BY <1>2, <1>4, <1>5
  <2> QED BY <1>0, <1>2, <2>1
<1>7. PICK i \in kept : Rank(kept, i) = k
  BY <1>0, <1>2, <1>6
<1> DEFINE front == {j \in kept : j < i}
<1>8. front \subseteq 1..n /\ IsFiniteSet(front) /\ Cardinality(front) = k
  BY <1>0, <1>7, FS_Subset DEF Rank
<1>9. front # {}
  <2>1. k # 0
    BY <1>2
  <2> HIDE DEF front
  <2> QED BY <1>8, <2>1, FS_EmptySet
<1>10. PICK p \in front : \A j \in front : j <= p
  <2> HIDE DEF front
  <2> QED BY <1>8, <1>9, HighestPosition
<1>11. Rank(front, p) = k - 1
  <2> HIDE DEF front
  <2> QED BY <1>8, <1>10, RankOfHighest
<1>12. {j \in front : j < p} = {j \in kept : j < p}
  <2>1. \A j \in kept : j \in Int
    OBVIOUS
  <2>2. \A j \in kept : j < p => j < i
    BY <1>10, <2>1
  <2> QED BY <2>2
<1>13. Rank(kept, p) = k - 1
  BY <1>11, <1>12 DEF Rank
<1> QED BY <1>2, <1>10, <1>13

\* Lines that stay: how many, which, and which is the last.
LEMMA WithoutPointwise ==
    ASSUME NEW S, NEW lines \in Seq(S), NEW gone,
           NEW top \in 1..Len(lines), top \notin gone,
           \A j \in 1..Len(lines) : j \notin gone => j <= top
    PROVE  /\ Without(lines, gone) \in Seq(S)
           /\ Len(Without(lines, gone)) \in 1..Len(lines)
           /\ Last(Without(lines, gone)) = lines[top]
           /\ \A k \in 1..Len(Without(lines, gone)) :
                 \E i \in (1..Len(lines)) \ gone : Without(lines, gone)[k] = lines[i]
<1> DEFINE n == Len(lines)
           kept == (1..n) \ gone
           c == Cardinality(kept)
           Nth(k) == CHOOSE i \in kept : Cardinality({j \in kept : j < i}) = k - 1
           W == [k \in 1..c |-> lines[Nth(k)]]
<1>0. n \in Nat /\ kept \subseteq 1..n /\ top \in kept /\ \A j \in kept : j <= top
  BY LenProperties
<1>1. W = Without(lines, gone)
  BY DEF Without
<1>2. /\ c \in Nat /\ c <= n
      /\ \A k \in 1..c : \E i \in kept : Rank(kept, i) = k - 1
  <2> HIDE DEF n, kept
  <2> QED BY <1>0, RanksFill
<1>3. \A k \in 1..c : Nth(k) \in kept /\ Rank(kept, Nth(k)) = k - 1
  <2> HIDE DEF n, kept, c
  <2> QED BY <1>2 DEF Rank
<1>4. c >= 1
  <2>1. IsFiniteSet(kept)
    <3>1. IsFiniteSet(1..n)
      BY <1>0, FS_Interval
    <3> HIDE DEF n, kept
    <3> QED BY <1>0, <3>1, FS_Subset
  <2>2. c # 0
    <3> HIDE DEF n, kept
    <3> QED BY <1>0, <2>1, FS_EmptySet
  <2> QED BY <1>2, <2>2
<1>5. Nth(c) = top
  <2> HIDE DEF n, kept, Nth
  <2>1. \A i \in kept : Rank(kept, i) = c - 1 => i = top
    BY <1>0, RankOfHighest
  <2>2. c \in 1..c
    BY <1>2, <1>4
  <2> QED BY <1>3, <2>1, <2>2
<1>6. \A k \in 1..c : lines[Nth(k)] \in S
  <2> HIDE DEF Nth
  <2> QED BY <1>0, <1>3, ElementOfSeq
<1>7. W \in Seq(S) /\ Len(W) = c
  <2> HIDE DEF Nth, c
  <2> QED BY <1>2, <1>6
<1>8. Last(W) = lines[top]
  <2> HIDE DEF Nth, c
  <2> QED BY <1>2, <1>4, <1>5, <1>7 DEF Last
<1>9. \A k \in 1..c : \E i \in kept : W[k] = lines[i]
  <2> HIDE DEF Nth, c, kept
  <2> QED BY <1>3
<1> HIDE DEF W, c, Nth
<1> QED BY <1>1, <1>2, <1>4, <1>7, <1>8, <1>9

(***************************************************************************)
(* Documents.                                                              *)
(***************************************************************************)

\* What a line may come to hold.
Words == Texts \cup {"", " ", ";", "x"}

Doc == [lines : Seq(Words), newline : {"Lf", "CrLf"},
        trailing_newline : BOOLEAN, line_endings : Seq(Newlines),
        preserve_line_endings : BOOLEAN]

\* A line of a file, or of what the passes make of it.
AnyLine == [text : Words, newline : Newlines]

LEMMA LinesOfFile ==
    ASSUME NEW f \in Seq(Line)
    PROVE  f \in Seq(AnyLine)
<1>1. Line \subseteq AnyLine
  BY DEF Line, AnyLine, Words
<1> QED BY <1>1, SeqMonotonic

\* e is d but for the lines.
SamePolicy(d, e) ==
    /\ e.newline = d.newline
    /\ e.trailing_newline <=> d.trailing_newline
    /\ e.line_endings = d.line_endings
    /\ e.preserve_line_endings <=> d.preserve_line_endings

LEMMA DocFields ==
    ASSUME NEW d \in Doc
    PROVE  /\ d.lines \in Seq(Words) /\ d.newline \in {"Lf", "CrLf"}
           /\ d.line_endings \in Seq(Newlines)
  BY DEF Doc

LEMMA EditLines ==
    ASSUME NEW d \in Doc, NEW new \in Seq(Words)
    PROVE  /\ [d EXCEPT !.lines = new] \in Doc
           /\ [d EXCEPT !.lines = new].lines = new
           /\ SamePolicy(d, [d EXCEPT !.lines = new])
<1>1. [d EXCEPT !.lines = new] \in Doc
  BY Zenon DEF Doc
<1> QED BY <1>1 DEF Doc, SamePolicy

LEMMA EditSetLines ==
    ASSUME NEW d \in Doc, NEW new \in Seq(Words)
    PROVE  /\ SetLines(d, new) \in Doc
           /\ SetLines(d, new).lines = new
           /\ SetLines(d, new).newline = d.newline
           /\ SetLines(d, new).trailing_newline <=> d.trailing_newline
           /\ SetLines(d, new).line_endings = d.line_endings
           /\ SetLines(d, new).preserve_line_endings =>
                  d.preserve_line_endings
<1> DEFINE b == d.preserve_line_endings /\ Len(new) = Len(d.lines)
<1>1. b \in BOOLEAN
  OBVIOUS
<1>2. SetLines(d, new) = [d EXCEPT !.lines = new, !.preserve_line_endings = b]
  BY DEF SetLines
<1>3. \A c \in BOOLEAN : [d EXCEPT !.lines = new, !.preserve_line_endings = c] \in Doc
  BY Zenon DEF Doc
<1>4. \A c \in BOOLEAN :
        LET e == [d EXCEPT !.lines = new, !.preserve_line_endings = c]
        IN  /\ e.lines = new /\ e.newline = d.newline
            /\ e.trailing_newline <=> d.trailing_newline
            /\ e.line_endings = d.line_endings
            /\ e.preserve_line_endings <=> c
  BY DEF Doc
<1> QED BY <1>1, <1>2, <1>3, <1>4

LEMMA EditPreserve ==
    ASSUME NEW d \in Doc
    PROVE  /\ PreserveOriginalLineEndings(d) \in Doc
           /\ PreserveOriginalLineEndings(d).lines = d.lines
           /\ PreserveOriginalLineEndings(d).newline = d.newline
           /\ PreserveOriginalLineEndings(d).trailing_newline <=> d.trailing_newline
           /\ PreserveOriginalLineEndings(d).line_endings = d.line_endings
           /\ PreserveOriginalLineEndings(d).preserve_line_endings
<1>1. [d EXCEPT !.preserve_line_endings = TRUE] \in Doc
  BY Zenon DEF Doc
<1> QED BY <1>1 DEF Doc, PreserveOriginalLineEndings

LEMMA FrontFacts ==
    ASSUME NEW S, NEW s \in Seq(S), s # <<>>
    PROVE  /\ Front(s) \in Seq(S) /\ Len(Front(s)) = Len(s) - 1
           /\ \A i \in 1..(Len(s) - 1) : Front(s)[i] = s[i]
<1> DEFINE n == Len(s) - 1
           t == SubSeq(s, 1, n)
<1>1. n \in Nat /\ Len(s) = n + 1
  BY EmptySeq, LenProperties
<1>2. \A i \in 1..n : s[i] \in S
  <2> HIDE DEF n
  <2> QED BY <1>1, ElementOfSeq
<1>3. /\ t \in Seq(S)
      /\ Len(t) = IF 1 <= n THEN n - 1 + 1 ELSE 0
      /\ \A i \in 1..(n - 1 + 1) : t[i] = s[1 + i - 1]
  <2> HIDE DEF n
  <2> QED BY <1>1, <1>2, SubSeqProperties
<1>4. Front(s) = t
  BY DEF Front
<1> HIDE DEF t, n
<1>5. Len(t) = n /\ \A i \in 1..n : t[i] = s[i]
  BY <1>1, <1>3
<1> USE DEF n
<1> QED BY <1>3, <1>4, <1>5

LEMMA EditTail ==
    ASSUME NEW d \in Doc, d.lines # <<>>, HasEmptyTail(d),
           d.line_endings # <<>>
    PROVE  /\ CanonicalizeTail(d) \in Doc
           /\ CanonicalizeTail(d).lines = Front(d.lines)
           /\ CanonicalizeTail(d).newline = d.newline
           /\ CanonicalizeTail(d).trailing_newline
           /\ CanonicalizeTail(d).line_endings = Front(d.line_endings)
           /\ CanonicalizeTail(d).preserve_line_endings <=> d.preserve_line_endings
<1>1. /\ Front(d.lines) \in Seq(Words) /\ Front(d.line_endings) \in Seq(Newlines)
  BY DocFields, FrontFacts
<1>2. \A a \in Seq(Words), b \in Seq(Newlines) :
        [d EXCEPT !.lines = a, !.line_endings = b, !.trailing_newline = TRUE] \in Doc
  BY Zenon DEF Doc
<1>3. \A a \in Seq(Words), b \in Seq(Newlines) :
        LET e == [d EXCEPT !.lines = a, !.line_endings = b, !.trailing_newline = TRUE]
        IN  /\ e.lines = a /\ e.newline = d.newline
            /\ e.trailing_newline
            /\ e.line_endings = b
            /\ e.preserve_line_endings <=> d.preserve_line_endings
  BY DEF Doc
<1>4. CanonicalizeTail(d) = [d EXCEPT !.lines = Front(d.lines),
                              !.line_endings = Front(d.line_endings),
                              !.trailing_newline = TRUE]
  BY DEF CanonicalizeTail
<1> HIDE DEF HasEmptyTail
<1>5. CanonicalizeTail(d) \in Doc
  BY <1>1, <1>2, <1>4
<1> DEFINE a == Front(d.lines)
           b == Front(d.line_endings)
           e == [d EXCEPT !.lines = a, !.line_endings = b, !.trailing_newline = TRUE]
<1>6. /\ e.lines = a /\ e.newline = d.newline
      /\ e.trailing_newline
      /\ e.line_endings = b
      /\ e.preserve_line_endings <=> d.preserve_line_endings
  BY <1>1, <1>3, Zenon
<1>7. CanonicalizeTail(d) = e
  BY <1>4
<1> HIDE DEF e
<1> QED BY <1>5, <1>6, <1>7, Zenon

LEMMA CountPositive ==
    ASSUME NEW f \in Seq(AnyLine), NEW newline
    PROVE  /\ Count(f, newline) \in Nat
           /\ Count(f, newline) > 0 <=> \E i \in 1..Len(f) : f[i].newline = newline
<1> DEFINE S == {i \in 1..Len(f) : f[i].newline = newline}
<1>1. IsFiniteSet(S)
  <2>1. IsFiniteSet(1..Len(f))
    BY LenProperties, FS_Interval
  <2> QED BY <2>1, FS_Subset
<1>2. Cardinality(S) \in Nat /\ (Cardinality(S) = 0 <=> S = {})
  <2> HIDE DEF S
  <2> QED BY <1>1, FS_CardinalityType, FS_EmptySet
<1>3. S = {} <=> ~ \E i \in 1..Len(f) : f[i].newline = newline
  OBVIOUS
<1>4. Count(f, newline) = Cardinality(S)
  BY DEF Count
<1> HIDE DEF S
<1> QED BY <1>2, <1>3, <1>4

LEMMA OneTuple ==
    ASSUME NEW S, NEW x \in S
    PROVE  <<x>> \in Seq(S) /\ Len(<<x>>) = 1 /\ \A i \in 1..1 : <<x>>[i] = x
  OBVIOUS

LEMMA OneEmptyLine ==
    ASSUME NEW lines \in Seq(Words), Len(lines) = 1,
           \A i \in 1..1 : lines[i] = ""
    PROVE  lines = <<"">>
<1>0. "" \in Words
  BY DEF Words
<1>1. <<"">> \in Seq(Words) /\ Len(<<"">>) = 1 /\ \A i \in 1..1 : <<"">>[i] = ""
  BY <1>0, OneTuple, Zenon
<1>2. \A i \in 1..Len(lines) : lines[i] = <<"">>[i]
  BY <1>1, Zenon
<1> QED BY <1>1, <1>2, SeqEqual

\* The lines a file is read as: its own, or one empty line.
Read(f) == IF f = <<>> THEN <<[text |-> "", newline |-> "None"]>> ELSE f

LEMMA ReadFacts ==
    ASSUME NEW f \in Seq(AnyLine)
    PROVE  /\ Len(Read(f)) \in Nat /\ Len(Read(f)) >= 1
           /\ \A i \in 1..Len(Read(f)) :
                 Read(f)[i].text \in Words /\ Read(f)[i].newline \in Newlines
           /\ f # <<>> => Read(f) = f
           /\ f = <<>> => /\ Len(Read(f)) = 1 /\ Read(f)[1].text = ""
                          /\ Read(f)[1].newline = "None"
<1>1. CASE f = <<>>
  <2> DEFINE one == [text |-> "", newline |-> "None"]
  <2>1. Read(f) = <<one>>
    BY <1>1 DEF Read
  <2>2. one.text = "" /\ one.newline = "None"
    OBVIOUS
  <2> HIDE DEF one
  <2>3. Len(<<one>>) = 1 /\ <<one>>[1] = one
    OBVIOUS
  <2>4. Len(Read(f)) = 1 /\ Read(f)[1].text = "" /\ Read(f)[1].newline = "None"
    BY <2>1, <2>2, <2>3
  <2>5. "" \in Words /\ "None" \in Newlines
    BY DEF Words, Newlines
  <2>6. \A i \in 1..1 : i = 1
    OBVIOUS
  <2>7. 1 \in Nat /\ 1 >= 1
    OBVIOUS
  <2> QED BY <1>1, <2>4, <2>5, <2>6, <2>7, Zenon
<1>2. CASE f # <<>>
  <2>1. Len(f) \in Nat /\ Len(f) >= 1
    BY <1>2, EmptySeq
  <2>2. \A i \in 1..Len(f) : f[i] \in AnyLine
    BY ElementOfSeq
  <2>3. \A l \in AnyLine : l.text \in Words /\ l.newline \in Newlines
    BY DEF AnyLine
  <2> QED BY <1>2, <2>1, <2>2, <2>3 DEF Read
<1> QED BY <1>1, <1>2

LEMMA FromBytesFacts ==
    ASSUME NEW f \in Seq(AnyLine)
    PROVE  /\ FromBytes(f) \in Doc
           /\ Len(FromBytes(f).lines) = Len(Read(f))
           /\ \A i \in 1..Len(Read(f)) : FromBytes(f).lines[i] = Read(f)[i].text
           /\ Len(FromBytes(f).line_endings) = Len(Read(f))
           /\ \A i \in 1..Len(Read(f)) : FromBytes(f).line_endings[i] = Read(f)[i].newline
           /\ FromBytes(f).newline = IF Count(f, "CrLf") > Count(f, "Lf") THEN "CrLf" ELSE "Lf"
           /\ FromBytes(f).trailing_newline <=>
                 f # <<>> /\ \A i \in 1..Len(f) : f[i].newline # "None"
           /\ ~FromBytes(f).preserve_line_endings
<1> DEFINE r == Read(f)
           t == [i \in 1..Len(r) |-> r[i].text]
           e == [i \in 1..Len(r) |-> r[i].newline]
           n == IF Count(f, "CrLf") > Count(f, "Lf") THEN "CrLf" ELSE "Lf"
           o == f # <<>> /\ ~(Count(f, "None") > 0)
           d == [lines |-> t, newline |-> n, trailing_newline |-> o,
                 line_endings |-> e, preserve_line_endings |-> FALSE]
<1>1. FromBytes(f) = d
  BY DEF FromBytes, Read
<1>2. /\ t \in Seq(Words) /\ Len(t) = Len(r) /\ \A i \in 1..Len(r) : t[i] = r[i].text
      /\ e \in Seq(Newlines) /\ Len(e) = Len(r) /\ \A i \in 1..Len(r) : e[i] = r[i].newline
  <2> HIDE DEF r
  <2>1. /\ Len(r) \in Nat
        /\ \A i \in 1..Len(r) : r[i].text \in Words /\ r[i].newline \in Newlines
    <3> USE DEF r
    <3> QED BY ReadFacts
  <2> QED BY <2>1
<1>3. n \in {"Lf", "CrLf"} /\ o \in BOOLEAN
  OBVIOUS
<1>4. o <=> f # <<>> /\ \A i \in 1..Len(f) : f[i].newline # "None"
  BY CountPositive
<1> HIDE DEF r, t, e, n, o
<1>5. d \in Doc
  BY <1>2, <1>3, Zenon DEF Doc
<1>6. /\ d.lines = t /\ d.newline = n /\ d.trailing_newline = o
      /\ d.line_endings = e /\ ~d.preserve_line_endings
  OBVIOUS
<1> HIDE DEF d
<1> USE DEF r, n
<1> QED BY <1>1, <1>2, <1>3, <1>4, <1>5, <1>6, Zenon

Separators == {";", "; ", "x;"}

LEMMA SeparatedFacts ==
    ASSUME NEW d \in Doc
    PROVE  /\ Separated(d) \in Doc /\ SamePolicy(d, Separated(d))
           /\ Len(Separated(d).lines) = Len(d.lines)
           /\ \A i \in 1..Len(d.lines) :
                 /\ Separated(d).lines[i] = WithoutSeparator(d.lines[i])
                 /\ Separated(d).lines[i] \notin Separators
<1> DEFINE new == [i \in DOMAIN d.lines |-> WithoutSeparator(d.lines[i])]
<1>1. /\ Len(d.lines) \in Nat /\ DOMAIN d.lines = 1..Len(d.lines)
      /\ \A i \in 1..Len(d.lines) : d.lines[i] \in Words
  BY DocFields, LenProperties, ElementOfSeq
<1>2. \A t \in Words : /\ WithoutSeparator(t) \in Words
                       /\ WithoutSeparator(t) \notin Separators
  BY DEF WithoutSeparator, Words, Separators
<1> DEFINE e == [i \in 1..Len(d.lines) |-> WithoutSeparator(d.lines[i])]
<1>3. /\ e \in Seq(Words) /\ Len(e) = Len(d.lines)
      /\ \A i \in 1..Len(d.lines) : e[i] = WithoutSeparator(d.lines[i])
  BY <1>1, <1>2
<1>4. new = e
  BY <1>1
<1>5. Separated(d) = [d EXCEPT !.lines = new]
  BY DEF Separated
<1> HIDE DEF new, e
<1>6. /\ Separated(d) \in Doc /\ Separated(d).lines = new
      /\ SamePolicy(d, Separated(d))
  BY <1>3, <1>4, <1>5, EditLines
<1> QED BY <1>1, <1>2, <1>3, <1>4, <1>6

LEMMA TrimmedFacts ==
    ASSUME NEW d \in Doc
    PROVE  /\ Trimmed(d) \in Doc /\ SamePolicy(d, Trimmed(d))
           /\ Len(Trimmed(d).lines) = Len(d.lines)
           /\ \A i \in 1..Len(d.lines) :
                 Trimmed(d).lines[i] = TrimmedText(d.lines[i])
<1> DEFINE new == [i \in DOMAIN d.lines |-> TrimmedText(d.lines[i])]
<1>1. /\ Len(d.lines) \in Nat /\ DOMAIN d.lines = 1..Len(d.lines)
      /\ \A i \in 1..Len(d.lines) : d.lines[i] \in Words
  BY DocFields, LenProperties, ElementOfSeq
<1>2. \A t \in Words : TrimmedText(t) \in Words
  BY DEF TrimmedText, Words
<1> DEFINE e == [i \in 1..Len(d.lines) |-> TrimmedText(d.lines[i])]
<1>3. /\ e \in Seq(Words) /\ Len(e) = Len(d.lines)
      /\ \A i \in 1..Len(d.lines) : e[i] = TrimmedText(d.lines[i])
  BY <1>1, <1>2
<1>4. new = e
  BY <1>1
<1>5. Trimmed(d) = [d EXCEPT !.lines = new]
  BY DEF Trimmed
<1> HIDE DEF new, e
<1>6. /\ Trimmed(d) \in Doc /\ Trimmed(d).lines = new
      /\ SamePolicy(d, Trimmed(d))
  BY <1>3, <1>4, <1>5, EditLines
<1> QED BY <1>1, <1>3, <1>4, <1>6

LEMMA TrimmedTwice ==
    ASSUME NEW t
    PROVE  TrimmedText(TrimmedText(t)) = TrimmedText(t)
  BY DEF TrimmedText

(***************************************************************************)
(* What holds of the document in front of pass k.                          *)
(***************************************************************************)

\* The terminators of a document that keeps those of file f: all of them, or
\* all but that of a last line without one.
EndingsOf(f, d) ==
    /\ d.preserve_line_endings
    /\ Len(d.line_endings) = Len(d.lines)
    /\ f = <<>> => d.lines = <<"">>
    /\ \/ /\ d.line_endings = FromBytes(f).line_endings
          /\ d.trailing_newline <=> FromBytes(f).trailing_newline
       \/ /\ Len(f) > 1 /\ Last(f).newline = "None"
          /\ d.line_endings = Front(FromBytes(f).line_endings)
          /\ d.trailing_newline

Sound(m, o, f, d, k) ==
    /\ d \in Doc /\ d.lines # <<>>
    /\ d.newline = FromBytes(f).newline
    /\ k <= 15 => ~HasEmptyTail(d)
    /\ (k > 6 /\ "normalize_semicolons" \in o) =>
          \A i \in 1..Len(d.lines) : d.lines[i] \notin Separators
    /\ m # "CanonicalizeOnly" => ~d.preserve_line_endings
    /\ m = "CanonicalizeOnly" => EndingsOf(f, d)
    /\ k < 7 => d.line_endings # <<>>

LEMMA SoundAtFirst ==
    ASSUME NEW m, NEW o, NEW f \in Seq(AnyLine), IsFile(f),
           NEW d, d = IF m # "CanonicalizeOnly" THEN FromBytes(f)
                      ELSE PreserveOriginalLineEndings(FromBytes(f))
    PROVE  Sound(m, o, f, d, 1)
<1> DEFINE b == FromBytes(f)
<1>1. /\ b \in Doc /\ Len(b.lines) = Len(Read(f)) /\ Len(b.line_endings) = Len(Read(f))
      /\ \A i \in 1..Len(Read(f)) : b.lines[i] = Read(f)[i].text
      /\ b.trailing_newline <=> f # <<>> /\ \A i \in 1..Len(f) : f[i].newline # "None"
      /\ ~b.preserve_line_endings
  BY FromBytesFacts, Zenon
<1>2. /\ Len(Read(f)) \in Nat /\ Len(Read(f)) >= 1
      /\ f # <<>> => Read(f) = f
  BY ReadFacts, Zenon
<1>a. f = <<>> => Len(Read(f)) = 1 /\ Read(f)[1].text = ""
  BY ReadFacts, Zenon
<1>b. Len(Read(f)) # 0
  <2>1. Len(Read(f)) \in Nat /\ Len(Read(f)) >= 1
    BY ReadFacts, Zenon
  <2> QED BY <2>1
<1> HIDE DEF b
<1>3. /\ d \in Doc /\ d.lines = b.lines /\ d.newline = b.newline
      /\ d.trailing_newline <=> b.trailing_newline
      /\ d.line_endings = b.line_endings
      /\ d.preserve_line_endings <=> m = "CanonicalizeOnly"
  <2>1. CASE m = "CanonicalizeOnly"
    <3>1. d = PreserveOriginalLineEndings(b)
      BY <2>1 DEF b
    <3> QED BY <1>1, <2>1, <3>1, EditPreserve
  <2>2. CASE m # "CanonicalizeOnly"
    <3>1. d = b
      BY <2>2 DEF b
    <3> QED BY <1>1, <2>2, <3>1
  <2> QED BY <2>1, <2>2
<1>4. /\ d.lines \in Seq(Words) /\ d.line_endings \in Seq(Newlines)
      /\ d.lines # <<>> /\ d.line_endings # <<>>
  <2>1. d.lines \in Seq(Words) /\ d.line_endings \in Seq(Newlines)
    BY <1>3, DocFields
  <2>2. Len(d.lines) = Len(Read(f)) /\ Len(d.line_endings) = Len(Read(f))
    BY <1>1, <1>3, Zenon
  <2> QED BY <1>b, <2>1, <2>2, EmptySeq
<1>5. ~HasEmptyTail(d)
  <2>1. SUFFICES ASSUME ~d.trailing_newline, Len(d.lines) > 1
                 PROVE  Last(d.lines) # ""
    BY DEF HasEmptyTail
  <2>2. f # <<>> /\ Read(f) = f
    <3>1. Len(d.lines) = Len(Read(f))
      BY <1>1, <1>3, Zenon
    <3>2. Len(Read(f)) # 1
      <4>1. Len(Read(f)) > 1
        BY <2>1, <3>1, Zenon
      <4>2. Len(Read(f)) \in Nat
        BY <1>2, Zenon
      <4>3. \A x \in Nat : x > 1 => x # 1
        OBVIOUS
      <4> QED BY <4>1, <4>2, <4>3, Zenon
    <3>3. f # <<>>
      BY <1>a, <3>2, Zenon
    <3> QED BY <1>2, <3>3, Zenon
  <2>3. PICK i \in 1..Len(f) : f[i].newline = "None"
    BY <1>1, <1>3, <2>1, <2>2
  <2>4. i = Len(f) /\ f[i].text # ""
    BY <2>3 DEF IsFile
  <2>5. Len(d.lines) = Len(f) /\ d.lines[i] = f[i].text
    BY <1>1, <1>3, <2>2, <2>3
  <2> QED BY <2>4, <2>5 DEF Last
<1>6. f = <<>> => d.lines = <<"">>
  <2>1. ASSUME f = <<>> PROVE d.lines = <<"">>
    <3>1. Len(d.lines) = Len(Read(f)) /\ Len(Read(f)) = 1
      BY <1>1, <1>a, <1>3, <2>1, Zenon
    <3>5. \A i \in 1..1 : Read(f)[i].text = ""
      <4>1. \A i \in 1..1 : i = 1
        OBVIOUS
      <4> QED BY <1>a, <2>1, <4>1, Zenon
    <3>6. \A i \in 1..1 : d.lines[i] = ""
      BY <1>1, <1>3, <3>1, <3>5, Zenon
    <3> QED BY <1>4, <3>1, <3>6, OneEmptyLine
  <2> QED BY <2>1
<1>7. m = "CanonicalizeOnly" => EndingsOf(f, d)
  BY <1>1, <1>3, <1>6 DEF EndingsOf, b
<1> QED BY <1>3, <1>4, <1>5, <1>7 DEF Sound, b

\* A document no pass touched.
LEMMA SoundKept ==
    ASSUME NEW m, NEW o, NEW f, NEW d, NEW k \in 1..15, Sound(m, o, f, d, k),
           ~(k = 6 /\ "normalize_semicolons" \in o)
    PROVE  Sound(m, o, f, d, k + 1)
  BY DEF Sound

\* Lines of which some were dropped, joined with their neighbour or not.
Thinned(old, new) ==
    /\ new \in Seq(Words)
    /\ Len(new) \in 1..Len(old)
    /\ Last(new) \in {Last(old), "x"}
    /\ \A k \in 1..Len(new) :
          new[k] = "x" \/ \E i \in 1..Len(old) : new[k] = old[i]

LEMMA SoundThinned ==
    ASSUME NEW m, NEW o, NEW f, NEW d, NEW k \in 1..14, Sound(m, o, f, d, k),
           k # 6, m # "CanonicalizeOnly",
           NEW new, Thinned(d.lines, new),
           NEW e, e = [d EXCEPT !.lines = new] \/ e = SetLines(d, new)
    PROVE  Sound(m, o, f, e, k + 1) /\ e.lines = new
<1>1. d \in Doc /\ d.lines # <<>> /\ ~HasEmptyTail(d) /\ new \in Seq(Words)
  BY DEF Sound, Thinned
<1>2. /\ e \in Doc /\ e.lines = new /\ e.newline = d.newline
      /\ e.trailing_newline <=> d.trailing_newline
      /\ e.line_endings = d.line_endings
      /\ e.preserve_line_endings => d.preserve_line_endings
  <2>1. CASE e = [d EXCEPT !.lines = new]
    BY <1>1, <2>1, EditLines DEF SamePolicy
  <2>2. CASE e = SetLines(d, new)
    BY <1>1, <2>2, EditSetLines
  <2> QED BY <2>1, <2>2
<1>3. Len(new) \in Nat /\ Len(d.lines) \in Nat /\ Len(new) <= Len(d.lines) /\ new # <<>>
  <2>1. Len(new) \in Nat /\ Len(d.lines) \in Nat
    BY <1>1, DocFields, LenProperties
  <2>2. Len(new) <= Len(d.lines) /\ Len(new) # 0
    BY <2>1 DEF Thinned
  <2> QED BY <1>1, <2>1, <2>2, EmptySeq
<1>4. ~HasEmptyTail(e)
  <2>1. SUFFICES ASSUME ~e.trailing_newline, Len(e.lines) > 1, Last(e.lines) = ""
                 PROVE  FALSE
    BY DEF HasEmptyTail
  <2>2. ~d.trailing_newline /\ Len(d.lines) > 1
    <3>1. ~d.trailing_newline
      BY <1>2, <2>1, Zenon
    <3>2. Len(new) > 1
      BY <1>2, <2>1, Zenon
    <3> QED BY <1>3, <3>1, <3>2
  <2>3. Last(d.lines) # ""
    BY <1>1, <2>2 DEF HasEmptyTail
  <2>4. Last(new) \in {Last(d.lines), "x"}
    BY DEF Thinned
  <2> QED BY <1>2, <2>1, <2>3, <2>4
<1>5. (k + 1 > 6 /\ "normalize_semicolons" \in o) =>
          \A i \in 1..Len(new) : new[i] \notin Separators
  <2>1. ASSUME k + 1 > 6, "normalize_semicolons" \in o, NEW i \in 1..Len(new)
        PROVE  new[i] \notin Separators
    <3>1. k > 6
      BY <2>1
    <3>2. \A j \in 1..Len(d.lines) : d.lines[j] \notin Separators
      BY <2>1, <3>1 DEF Sound
    <3>3. new[i] = "x" \/ \E j \in 1..Len(d.lines) : new[i] = d.lines[j]
      BY DEF Thinned
    <3>4. "x" \notin Separators
      BY DEF Separators
    <3> QED BY <3>2, <3>3, <3>4
  <2> QED BY <2>1
<1>6. e.newline = FromBytes(f).newline
  BY <1>2 DEF Sound
<1>7. ~e.preserve_line_endings
  BY <1>2 DEF Sound
<1>8. k + 1 < 7 => e.line_endings # <<>>
  BY <1>2 DEF Sound
<1> QED BY <1>2, <1>3, <1>4, <1>5, <1>6, <1>7, <1>8 DEF Sound

LEMMA SoundTrimmed ==
    ASSUME NEW m, NEW o, NEW f, NEW d,
           NEW k \in {15, 16}, Sound(m, o, f, d, k)
    PROVE  Sound(m, o, f, Trimmed(d), 16)
<1> DEFINE e == Trimmed(d)
<1>1. /\ d \in Doc /\ e \in Doc /\ Len(e.lines) = Len(d.lines)
      /\ e.newline = d.newline
      /\ e.trailing_newline <=> d.trailing_newline
      /\ e.line_endings = d.line_endings
      /\ e.preserve_line_endings <=> d.preserve_line_endings
      /\ \A i \in 1..Len(d.lines) : e.lines[i] = TrimmedText(d.lines[i])
  BY TrimmedFacts DEF Sound, SamePolicy
<1>2. e.lines # <<>>
  <2>1. d.lines \in Seq(Words) /\ e.lines \in Seq(Words) /\ d.lines # <<>>
    BY <1>1, DocFields DEF Sound
  <2> HIDE DEF e
  <2> QED BY <1>1, <2>1, EmptySeq
<1> HIDE DEF e
<1>3. "normalize_semicolons" \in o =>
          \A i \in 1..Len(e.lines) : e.lines[i] \notin Separators
  <2>1. \A t : t \notin Separators => TrimmedText(t) \notin Separators
    BY DEF TrimmedText, Separators
  <2>2. k > 6
    OBVIOUS
  <2> QED BY <1>1, <2>1, <2>2 DEF Sound
<1>4. m = "CanonicalizeOnly" => EndingsOf(f, e)
  <2>1. f = <<>> /\ m = "CanonicalizeOnly" => e.lines = <<"">>
    <3>1. ASSUME f = <<>>, m = "CanonicalizeOnly" PROVE e.lines = <<"">>
      <4>1. d.lines = <<"">>
        BY <3>1 DEF Sound, EndingsOf
      <4>2. Len(d.lines) = 1 /\ \A i \in 1..1 : d.lines[i] = ""
        BY <4>1, OneTuple, Zenon
      <4>3. TrimmedText("") = ""
        BY DEF TrimmedText
      <4>4. Len(e.lines) = 1 /\ \A i \in 1..1 : e.lines[i] = ""
        BY <1>1, <4>2, <4>3
      <4> QED BY <1>1, <4>4, DocFields, OneEmptyLine
    <3> QED BY <3>1
  <2> QED BY <1>1, <2>1 DEF Sound, EndingsOf
<1>5. /\ e.newline = FromBytes(f).newline
      /\ m # "CanonicalizeOnly" => ~e.preserve_line_endings
  BY <1>1 DEF Sound
<1> USE DEF e
<1> QED BY <1>1, <1>2, <1>3, <1>4, <1>5 DEF Sound

LEMMA SoundSeparated ==
    ASSUME NEW m, NEW o, NEW f \in Seq(AnyLine), IsFile(f),
           NEW d, Sound(m, o, f, d, 6),
           NEW e, e = IF Separated(d) = d THEN Separated(d)
                      ELSE CanonicalizeTail(Separated(d))
    PROVE  Sound(m, o, f, e, 7)
<1> DEFINE s == Separated(d)
           b == FromBytes(f)
<1>1. /\ d \in Doc /\ s \in Doc /\ Len(s.lines) = Len(d.lines)
      /\ s.newline = d.newline
      /\ s.trailing_newline <=> d.trailing_newline
      /\ s.line_endings = d.line_endings
      /\ s.preserve_line_endings <=> d.preserve_line_endings
      /\ \A i \in 1..Len(d.lines) : s.lines[i] = WithoutSeparator(d.lines[i])
      /\ \A i \in 1..Len(d.lines) : s.lines[i] \notin Separators
  BY SeparatedFacts DEF Sound, SamePolicy
<1>2. /\ d.lines \in Seq(Words) /\ s.lines \in Seq(Words)
      /\ s.line_endings \in Seq(Newlines)
      /\ s.lines # <<>> /\ s.line_endings # <<>>
  <2>1. d.lines \in Seq(Words) /\ s.lines \in Seq(Words) /\ d.lines # <<>>
        /\ s.line_endings \in Seq(Newlines) /\ d.line_endings # <<>>
    BY <1>1, DocFields DEF Sound
  <2> HIDE DEF s
  <2> QED BY <1>1, <2>1, EmptySeq
<1>3. m = "CanonicalizeOnly" /\ f = <<>> => s.lines = <<"">>
  <2>1. ASSUME f = <<>>, m = "CanonicalizeOnly" PROVE s.lines = <<"">>
    <3>1. d.lines = <<"">>
      BY <2>1 DEF Sound, EndingsOf
    <3>2. Len(d.lines) = 1 /\ \A i \in 1..1 : d.lines[i] = ""
      BY <3>1, OneTuple, Zenon
    <3>3. WithoutSeparator("") = ""
      BY DEF WithoutSeparator
    <3> HIDE DEF s
    <3>4. Len(s.lines) = 1 /\ \A i \in 1..1 : s.lines[i] = ""
      BY <1>1, <3>2, <3>3
    <3> QED BY <1>2, <3>4, OneEmptyLine
  <2> QED BY <2>1
<1>4. s.newline = b.newline /\ (m # "CanonicalizeOnly" => ~s.preserve_line_endings)
  BY <1>1 DEF Sound
<1>5. m = "CanonicalizeOnly" => EndingsOf(f, s)
  BY <1>1, <1>3 DEF Sound, EndingsOf
<1> HIDE DEF s
<1>6. CASE ~HasEmptyTail(s)
  <2>1. e = s
    BY <1>6 DEF CanonicalizeTail, s
  <2> QED BY <1>1, <1>2, <1>4, <1>5, <1>6, <2>1 DEF Sound, b
<1>7. CASE HasEmptyTail(s)
  <2>1. Separated(d) # d
    BY <1>7 DEF Sound, s
  <2>2. e = CanonicalizeTail(s)
    BY <2>1 DEF s
  <2>3. /\ e \in Doc /\ e.lines = Front(s.lines) /\ e.newline = s.newline
        /\ e.trailing_newline /\ e.line_endings = Front(s.line_endings)
        /\ e.preserve_line_endings <=> s.preserve_line_endings
    BY <1>1, <1>2, <1>7, <2>2, EditTail
  <2>4. ~s.trailing_newline /\ Len(s.lines) > 1
    BY <1>7 DEF HasEmptyTail
  <2>5. /\ Front(s.lines) \in Seq(Words) /\ Len(Front(s.lines)) = Len(s.lines) - 1
        /\ \A i \in 1..(Len(s.lines) - 1) : Front(s.lines)[i] = s.lines[i]
        /\ Len(Front(s.line_endings)) = Len(s.line_endings) - 1
    BY <1>2, FrontFacts
  <2>6. Len(s.lines) \in Nat
    BY <1>2, LenProperties
  <2>7. e.lines # <<>>
    <3>1. Len(e.lines) # 0
      BY <2>3, <2>4, <2>5, <2>6
    <3> QED BY <2>3, <2>5, <3>1, EmptySeq
  <2>8. \A i \in 1..Len(e.lines) : e.lines[i] \notin Separators
    <3>1. \A i \in 1..(Len(s.lines) - 1) : i \in 1..Len(s.lines)
      BY <2>6
    <3>2. \A i \in 1..(Len(s.lines) - 1) : s.lines[i] \notin Separators
      BY <1>1, <3>1, Zenon
    <3>3. Len(e.lines) = Len(s.lines) - 1 /\ e.lines = Front(s.lines)
      BY <2>3, <2>5, Zenon
    <3> QED BY <2>5, <3>2, <3>3, Zenon
  <2>9. ~HasEmptyTail(e)
    BY <2>3 DEF HasEmptyTail
  <2>10. ASSUME m = "CanonicalizeOnly" PROVE EndingsOf(f, e)
    <3>1. EndingsOf(f, s)
      BY <1>5, <2>10
    <3>2. f # <<>>
      <4>1. Len(<<"">>) = 1 /\ ~(1 > 1)
        OBVIOUS
      <4> QED BY <2>4, <3>1, <4>1 DEF EndingsOf
    <3>3. s.line_endings = b.line_endings /\ ~b.trailing_newline
      BY <2>4, <3>1 DEF EndingsOf, b
    <3>4. /\ Len(b.line_endings) = Len(Read(f)) /\ Read(f) = f
          /\ b.trailing_newline <=> f # <<>> /\ \A i \in 1..Len(f) : f[i].newline # "None"
      BY <3>2, FromBytesFacts, ReadFacts, Zenon DEF b
    <3>5. PICK i \in 1..Len(f) : f[i].newline = "None"
      BY <3>2, <3>3, <3>4, Zenon
    <3>6. i = Len(f)
      BY <3>5 DEF IsFile
    <3>7. Len(s.line_endings) = Len(s.lines)
      BY <3>1 DEF EndingsOf
    <3>8. Len(f) > 1 /\ Last(f).newline = "None"
      BY <2>4, <3>3, <3>4, <3>5, <3>6, <3>7, Zenon DEF Last
    <3>9. e.line_endings = Front(b.line_endings)
      BY <2>3, <3>3
    <3>10. Len(e.line_endings) = Len(e.lines)
      BY <2>3, <2>5, <3>7
    <3>11. e.preserve_line_endings
      BY <2>3, <3>1 DEF EndingsOf
    <3> QED BY <2>3, <3>2, <3>8, <3>9, <3>10, <3>11, Zenon DEF EndingsOf, b
  <2> QED BY <1>4, <2>3, <2>7, <2>8, <2>9, <2>10 DEF Sound, b
<1> QED BY <1>6, <1>7

(***************************************************************************)
(* Passes that drop or join lines.                                         *)
(***************************************************************************)

LEMMA JoinedThins ==
    ASSUME NEW lines \in Seq(Words), lines # <<>>, NEW first, NEW second,
           first # second,
           NEW heads, heads \subseteq {i \in 1..Len(lines) - 1 :
                                          lines[i] = first /\ lines[i + 1] = second}
    PROVE  Thinned(lines, Joined(lines, heads))
<1> DEFINE n == Len(lines)
           mid == [i \in 1..n |-> IF i \in heads THEN "x" ELSE lines[i]]
           gone == {i + 1 : i \in heads}
           new == Without(mid, gone)
<1>1. n \in Nat /\ n >= 1 /\ \A i \in 1..n : lines[i] \in Words
  BY EmptySeq, LenProperties, ElementOfSeq
<1>2. /\ mid \in Seq(Words) /\ Len(mid) = n
      /\ \A i \in 1..n : mid[i] = IF i \in heads THEN "x" ELSE lines[i]
  <2>1. "x" \in Words
    BY DEF Words
  <2> HIDE DEF n
  <2> QED BY <1>1, <2>1
<1>3. \A i \in heads : i \in Int /\ 1 <= i /\ i <= n - 1
  BY <1>1
<1>4. n \notin heads
  BY <1>1, <1>3
<1>5. \E top \in 1..n : /\ top \notin gone
                        /\ \A j \in 1..n : j \notin gone => j <= top
                        /\ mid[top] \in {lines[n], "x"}
  <2>1. CASE n \notin gone
    <3>1. mid[n] = lines[n]
      <4> HIDE DEF n, mid
      <4> QED BY <1>1, <1>2, <1>4
    <3> HIDE DEF n, mid, gone
    <3> QED BY <1>1, <2>1, <3>1
  <2>2. CASE n \in gone
    <3>1. PICK i \in heads : n = i + 1
      BY <2>2
    <3>2. i \in 1..n /\ i = n - 1 /\ mid[i] = "x"
      <4>1. i \in 1..n /\ i = n - 1
        <5> HIDE DEF n
        <5> QED BY <1>1, <1>3, <3>1
      <4> HIDE DEF n, mid
      <4> QED BY <1>2, <4>1
    <3>3. i \notin gone
      <4>1. SUFFICES ASSUME NEW j \in heads, i = j + 1 PROVE FALSE
        OBVIOUS
      <4> QED BY <4>1
    <3>4. \A j \in 1..n : j \notin gone => j <= i
      <4> HIDE DEF gone, n
      <4> QED BY <1>1, <2>2, <3>2
    <3> HIDE DEF n, mid, gone
    <3> QED BY <3>2, <3>3, <3>4
  <2> QED BY <2>1, <2>2
<1>6. PICK top \in 1..n : /\ top \notin gone
                          /\ \A j \in 1..n : j \notin gone => j <= top
                          /\ mid[top] \in {lines[n], "x"}
  BY <1>5
<1> HIDE DEF gone, mid
<1>7. /\ new \in Seq(Words) /\ Len(new) \in 1..n /\ Last(new) = mid[top]
      /\ \A k \in 1..Len(new) : \E i \in (1..n) \ gone : new[k] = mid[i]
  BY <1>2, <1>6, WithoutPointwise
<1>8. Joined(lines, heads) = new
  BY DEF Joined, new, mid, gone
<1> HIDE DEF new
<1>9. \A k \in 1..Len(new) : new[k] = "x" \/ \E i \in 1..n : new[k] = lines[i]
  BY <1>2, <1>7
<1> QED BY <1>6, <1>7, <1>8, <1>9 DEF Thinned, Last

LEMMA RemovalThins ==
    ASSUME NEW lines \in Seq(Words), lines # <<>>,
           NEW gone, gone \subseteq 1..Len(lines) - 1
    PROVE  Thinned(lines, Without(lines, gone))
<1> DEFINE n == Len(lines)
           new == Without(lines, gone)
<1>1. n \in Nat /\ n >= 1
  BY EmptySeq, LenProperties
<1>2. n \in 1..n /\ n \notin gone /\ \A j \in 1..n : j \notin gone => j <= n
  BY <1>1
<1>3. /\ new \in Seq(Words) /\ Len(new) \in 1..n /\ Last(new) = lines[n]
      /\ \A k \in 1..Len(new) : \E i \in (1..n) \ gone : new[k] = lines[i]
  BY <1>2, WithoutPointwise
<1> HIDE DEF new
<1> QED BY <1>3 DEF Thinned, Last, new

(***************************************************************************)
(* The bytes of a document.                                                *)
(***************************************************************************)

\* r is the bytes of lines under terminators ends.
RendersTo(lines, ends, r) ==
    /\ r \in Seq(AnyLine)
    /\ Len(r) = IF lines[Len(lines)] = "" /\ ends[Len(lines)] = "None"
                THEN Len(lines) - 1 ELSE Len(lines)
    /\ \A i \in 1..Len(r) :
          i \in 1..Len(lines) /\ r[i].text = lines[i] /\ r[i].newline = ends[i]

LEMMA RenderedFacts ==
    ASSUME NEW lines \in Seq(Words), lines # <<>>,
           NEW ends, \A i \in 1..Len(lines) : ends[i] \in Newlines
    PROVE  RendersTo(lines, ends, Rendered(lines, ends))
<1> DEFINE n == Len(lines)
           all == [i \in 1..n |-> [text |-> lines[i], newline |-> ends[i]]]
           bare == lines[n] = "" /\ ends[n] = "None"
           r == Rendered(lines, ends)
<1>1. n \in Nat /\ n >= 1 /\ n \in 1..n /\ \A i \in 1..n : lines[i] \in Words
  BY EmptySeq, LenProperties, ElementOfSeq
<1>2. \A i \in 1..n : [text |-> lines[i], newline |-> ends[i]] \in AnyLine
  BY <1>1 DEF AnyLine
<1>3. /\ all \in Seq(AnyLine) /\ Len(all) = n
      /\ \A i \in 1..n : all[i] = [text |-> lines[i], newline |-> ends[i]]
  <2> HIDE DEF n
  <2> QED BY <1>1, <1>2
<1>4. \A i \in 1..n : all[i].text = lines[i] /\ all[i].newline = ends[i]
  BY <1>3
<1>5. Last(all) = [text |-> "", newline |-> "None"] <=> bare
  <2>1. Last(all) = [text |-> lines[n], newline |-> ends[n]]
    <3> HIDE DEF n, all
    <3> QED BY <1>1, <1>3 DEF Last
  <2>2. \A a, b : [text |-> a, newline |-> b] = [text |-> "", newline |-> "None"]
                     <=> a = "" /\ b = "None"
    OBVIOUS
  <2>3. [text |-> lines[n], newline |-> ends[n]] = [text |-> "", newline |-> "None"]
           <=> lines[n] = "" /\ ends[n] = "None"
    BY <2>2
  <2> HIDE DEF n, all
  <2> QED BY <2>1, <2>3
<1>6. r = IF bare THEN Front(all) ELSE all
  <2>1. r = IF lines # <<>> /\ Last(all) = [text |-> "", newline |-> "None"]
            THEN Front(all) ELSE all
    BY DEF Rendered
  <2> HIDE DEF all, bare, r
  <2> QED BY <1>5, <2>1, Zenon
<1>7. all # <<>>
  <2> HIDE DEF all, n
  <2> QED BY <1>1, <1>3, EmptySeq
<1> HIDE DEF all, r
<1>8. CASE bare
  <2>1. /\ Front(all) \in Seq(AnyLine) /\ Len(Front(all)) = Len(all) - 1
        /\ \A i \in 1..(Len(all) - 1) : Front(all)[i] = all[i]
    BY <1>3, <1>7, FrontFacts
  <2>2. r = Front(all)
    BY <1>6, <1>8
  <2>3. Len(r) = n - 1 /\ \A i \in 1..(n - 1) : i \in 1..n /\ r[i] = all[i]
    <3> HIDE DEF n
    <3> QED BY <1>1, <1>3, <2>1, <2>2
  <2> QED BY <1>4, <1>8, <2>1, <2>2, <2>3, Zenon DEF r, RendersTo
<1>9. CASE ~bare
  <2>1. r = all
    BY <1>6, <1>9
  <2> QED BY <1>3, <1>4, <1>9, <2>1, Zenon DEF r, RendersTo
<1> QED BY <1>8, <1>9

LEMMA TerminatorsFacts ==
    ASSUME NEW d \in Doc, NEW newline \in {"Lf", "CrLf"}
    PROVE  \A i \in 1..Len(d.lines) :
              /\ Terminators(d, newline)[i] =
                    IF i < Len(d.lines) \/ d.trailing_newline THEN newline ELSE "None"
              /\ Terminators(d, newline)[i] \in Newlines
  BY DEF Terminators, Newlines

\* The analysis reads the lines of a document that has no empty last line
\* without terminator.
LEMMA AnalyzedSame ==
    ASSUME NEW d \in Doc, d.lines # <<>>, ~HasEmptyTail(d)
    PROVE  Analyzed(d) = d.lines
<1> DEFINE n == Len(d.lines)
           t == Terminators(d, "Lf")
           r == ToLfBytes(d)
           b == FromBytes(r).lines
<1>1. n \in Nat /\ n >= 1 /\ n \in 1..n /\ d.lines \in Seq(Words)
  BY DocFields, EmptySeq, LenProperties
<1>2. \A i \in 1..n : /\ t[i] = IF i < n \/ d.trailing_newline THEN "Lf" ELSE "None"
                      /\ t[i] \in Newlines
  BY TerminatorsFacts
<1>3. /\ r \in Seq(AnyLine)
      /\ Len(r) = IF d.lines[n] = "" /\ t[n] = "None" THEN n - 1 ELSE n
      /\ \A i \in 1..Len(r) : i \in 1..n /\ r[i].text = d.lines[i]
  <2> HIDE DEF t
  <2>1. r = Rendered(d.lines, t)
    BY DEF ToLfBytes, t
  <2>2. \A i \in 1..Len(d.lines) : t[i] \in Newlines
    BY <1>2
  <2>4. d.lines \in Seq(Words)
    BY <1>1
  <2> HIDE DEF t
  <2>3. RendersTo(d.lines, t, Rendered(d.lines, t))
    BY <2>2, <2>4, RenderedFacts, Zenon
  <2> HIDE DEF r
  <2> QED BY <2>1, <2>3, Zenon DEF RendersTo
<1> HIDE DEF r
<1>4. /\ FromBytes(r) \in Doc /\ Len(b) = Len(Read(r))
      /\ \A i \in 1..Len(Read(r)) : b[i] = Read(r)[i].text
  BY <1>3, FromBytesFacts
<1>5. b \in Seq(Words)
  BY <1>4, DocFields
<1>6. Analyzed(d) = b
  BY DEF Analyzed, r
<1> HIDE DEF b
<1>7. CASE d.lines[n] = "" /\ t[n] = "None"
  <2>1. ~d.trailing_newline
    <3> HIDE DEF t, n
    <3>1. t[n] = IF n < n \/ d.trailing_newline THEN "Lf" ELSE "None"
      BY <1>1, <1>2
    <3> QED BY <1>7, <3>1
  <2>2. n = 1
    <3>1. ~(n > 1)
      BY <1>7, <2>1 DEF HasEmptyTail, Last
    <3> HIDE DEF n
    <3> QED BY <1>1, <3>1
  <2>3. r = <<>>
    <3>1. Len(r) = 0
      <4> HIDE DEF n, t
      <4>1. Len(r) = n - 1
        BY <1>3, <1>7, Zenon
      <4> QED BY <2>2, <4>1
    <3> QED BY <1>3, <3>1, EmptySeq
  <2>4. Len(b) = 1 /\ \A i \in 1..1 : b[i] = ""
    <3>1. Len(Read(r)) = 1 /\ Read(r)[1].text = ""
      BY <1>3, <2>3, ReadFacts, Zenon
    <3>2. \A i \in 1..1 : i = 1
      OBVIOUS
    <3> QED BY <1>4, <3>1, <3>2, Zenon
  <2>5. b = <<"">>
    BY <1>5, <2>4, OneEmptyLine
  <2>6. Len(d.lines) = 1 /\ \A i \in 1..1 : d.lines[i] = ""
    <3>1. \A i \in 1..1 : i = 1
      OBVIOUS
    <3>2. d.lines[1] = ""
      BY <1>7, <2>2, Zenon
    <3> QED BY <2>2, <3>1, <3>2, Zenon
  <2>7. d.lines = <<"">>
    BY <1>1, <2>6, OneEmptyLine
  <2> QED BY <1>6, <2>5, <2>7
<1>8. CASE ~(d.lines[n] = "" /\ t[n] = "None")
  <2>1. Len(r) = n
    <3> HIDE DEF n, t
    <3> QED BY <1>3, <1>8
  <2>2. r # <<>>
    <3>1. Len(r) # 0
      <4> HIDE DEF n
      <4> QED BY <1>1, <2>1
    <3> QED BY <3>1, EmptySeq
  <2>3. Read(r) = r
    BY <1>3, <2>2, ReadFacts, Zenon
  <2>4. Len(b) = n /\ \A i \in 1..n : b[i] = d.lines[i]
    BY <1>3, <1>4, <2>1, <2>3, Zenon
  <2> QED BY <1>1, <1>5, <1>6, <2>4, SeqEqual
<1> QED BY <1>7, <1>8

(***************************************************************************)
(* The cached view.                                                        *)
(***************************************************************************)

Views == [lines : Seq(Words), stale : SUBSET {"spelling", "offsets"}]

\* The passes in front of which nothing is pending.
Starts == {1, 2, 5, 7, 8, 11, 12, 13, 14, 15}

\* The view before pass k, of document d: right about everything while the
\* current run changed nothing, about the lines where semicolons, openmp and
\* continuations read it, and about offsets for semicolons.
ViewOf(d, k, cached, changed) ==
    /\ cached = {} \/ \E v \in Views : cached = {v}
    /\ changed \in {"No", "Text", "Structure"}
    /\ k \in Starts => changed = "No"
    /\ (changed = "No" /\ k <= 15) =>
          \A v \in cached : v.lines = d.lines /\ v.stale = {}
    /\ k \in {6, 9, 10} => \A v \in cached : v.lines = d.lines
    /\ k = 6 => \A v \in cached : v.stale \subseteq {"spelling"}

DocumentInv ==
    /\ mode \in {"NormalizeOnly", "CanonicalizeOnly", "Full"}
    /\ source \in Seq(AnyLine) /\ IsFile(source)
    /\ at \in 1..16
    /\ Sound(mode, options, source, document, at)

ViewInv == ViewOf(document, at, view, stage)

OutputInv == output # {} => at = 16 /\ output = {Delivered(document)}

PipelineInv == DocumentInv /\ ViewInv /\ OutputInv

LEMMA PassNumbers ==
    /\ Len(Passes) = 15
    /\ Passes[1] = "macros" /\ Passes[2] = "declared" /\ Passes[3] = "join"
    /\ Passes[4] = "parens" /\ Passes[5] = "sync_names" /\ Passes[6] = "semicolons"
    /\ Passes[7] = "modernize" /\ Passes[8] = "line_rules" /\ Passes[9] = "openmp"
    /\ Passes[10] = "continuations" /\ Passes[11] = "returns"
    /\ Passes[12] = "canonical_end" /\ Passes[13] = "rewrap"
    /\ Passes[14] = "line_rules_again" /\ Passes[15] = "trim"
  BY DEF Passes

LEMMA Numbers ==
    \A k \in 1..15 : \/ k = 1 \/ k = 2 \/ k = 3 \/ k = 4 \/ k = 5 \/ k = 6 \/ k = 7
                     \/ k = 8 \/ k = 9 \/ k = 10 \/ k = 11 \/ k = 12 \/ k = 13
                     \/ k = 14 \/ k = 15
  OBVIOUS

\* Which pass is next, and whether it ends a run.
LEMMA PassAt ==
    ASSUME NEW k \in 1..15
    PROVE  /\ Passes[k] \in EndsRun <=> k \in {1, 4, 6, 7, 10, 11, 13, 14}
           /\ Passes[k] = "macros" <=> k = 1
           /\ Passes[k] = "declared" <=> k = 2
           /\ Passes[k] = "join" <=> k = 3
           /\ Passes[k] = "parens" <=> k = 4
           /\ Passes[k] = "sync_names" <=> k = 5
           /\ Passes[k] = "semicolons" <=> k = 6
           /\ Passes[k] = "modernize" <=> k = 7
           /\ Passes[k] = "line_rules" <=> k = 8
           /\ Passes[k] = "openmp" <=> k = 9
           /\ Passes[k] = "continuations" <=> k = 10
           /\ Passes[k] = "returns" <=> k = 11
           /\ Passes[k] = "canonical_end" <=> k = 12
           /\ Passes[k] = "rewrap" <=> k = 13
           /\ Passes[k] = "line_rules_again" <=> k = 14
           /\ Passes[k] = "trim" <=> k = 15
  BY PassNumbers, Numbers DEF EndsRun

\* What is known of the view a pass reads, made afresh or not.
LEMMA ContextFacts ==
    ASSUME DocumentInv, ViewInv, at <= 15
    PROVE  /\ Context \in Views
           /\ stage = "No" => Context.lines = document.lines /\ Context.stale = {}
           /\ at \in {6, 9, 10} => Context.lines = document.lines
           /\ at = 6 => Context.stale \subseteq {"spelling"}
<1>1. /\ document \in Doc /\ document.lines # <<>> /\ ~HasEmptyTail(document)
      /\ document.lines \in Seq(Words)
  <2>1. document \in Doc /\ document.lines # <<>> /\ ~HasEmptyTail(document)
    BY DEF DocumentInv, Sound
  <2> QED BY <2>1, DocFields
<1>2. CASE view = {}
  <2>1. Context = Fresh
    BY <1>2 DEF Context
  <2>2. Analyzed(document) = document.lines
    BY <1>1, AnalyzedSame
  <2>3. Fresh = [lines |-> document.lines, stale |-> {}]
    BY <2>2 DEF Fresh
  <2>4. Fresh \in Views /\ Fresh.lines = document.lines /\ Fresh.stale = {}
    BY <1>1, <2>3 DEF Views
  <2> QED BY <2>1, <2>4
<1>3. ASSUME NEW v \in Views, view = {v}
      PROVE  /\ Context \in Views
             /\ stage = "No" => Context.lines = document.lines /\ Context.stale = {}
             /\ at \in {6, 9, 10} => Context.lines = document.lines
             /\ at = 6 => Context.stale \subseteq {"spelling"}
  <2>1. Context = v
    BY <1>3 DEF Context
  <2>2. /\ stage = "No" => v.lines = document.lines /\ v.stale = {}
        /\ at \in {6, 9, 10} => v.lines = document.lines
        /\ at = 6 => v.stale \subseteq {"spelling"}
    BY <1>3 DEF ViewInv, ViewOf
  <2> QED BY <2>1, <2>2
<1>4. view = {} \/ \E v \in Views : view = {v}
  BY DEF ViewInv, ViewOf
<1> QED BY <1>2, <1>3, <1>4

\* A pass that hands in document d keeps the view right.
LEMMA FinishView ==
    ASSUME DocumentInv, ViewInv, at \in {1, 2, 3, 4, 5, 6, 7, 8, 9, 10, 11, 13, 14},
           NEW d, NEW changed \in {"No", "Text", "Structure"},
           NEW what \in SUBSET {"spelling", "offsets"},
           Finish(Passes[at], d, changed, what),
           changed = "No" => d.lines = document.lines,
           at \in {5, 8, 9} => d.lines = document.lines,
           at = 5 => what \subseteq {"spelling"}
    PROVE  ViewOf(document', at', view', stage')
<1> DEFINE c == Context
           known == IF changed = "No" THEN c ELSE [c EXCEPT !.stale = @ \cup what]
           whole == Or(stage, changed)
<1>1. /\ c \in Views
      /\ stage = "No" => c.lines = document.lines /\ c.stale = {}
      /\ at \in {6, 9, 10} => c.lines = document.lines
  BY ContextFacts
<1>2. /\ at \in 1..15 /\ at' = at + 1 /\ document' = d
      /\ IF Passes[at] \in EndsRun
         THEN /\ view' = IF Dropped(whole) THEN {} ELSE {known}
              /\ stage' = "No"
         ELSE view' = {known} /\ stage' = whole
  BY DEF Finish, c, known, whole
<1>3. Passes[at] \in EndsRun <=> at \in {1, 4, 6, 7, 10, 11, 13, 14}
  BY <1>2, PassAt
<1>4. /\ stage \in {"No", "Text", "Structure"}
      /\ at \in Starts => stage = "No"
  BY DEF ViewInv, ViewOf
<1>5. /\ whole \in {"No", "Text", "Structure"}
      /\ whole = "No" <=> stage = "No" /\ changed = "No"
  BY <1>4 DEF Or
<1> HIDE DEF c, whole
<1>6. /\ known \in Views /\ known.lines = c.lines
      /\ changed = "No" => known = c
      /\ known.stale \subseteq c.stale \cup what
  <2>1. CASE changed = "No"
    BY <1>1, <2>1
  <2>2. CASE changed # "No"
    <3>1. known = [c EXCEPT !.stale = c.stale \cup what]
      BY <2>2
    <3>2. c.stale \cup what \in SUBSET {"spelling", "offsets"}
      BY <1>1 DEF Views
    <3>3. \A st \in SUBSET {"spelling", "offsets"} :
             /\ [c EXCEPT !.stale = st] \in Views
             /\ [c EXCEPT !.stale = st].lines = c.lines
             /\ [c EXCEPT !.stale = st].stale = st
      BY <1>1 DEF Views
    <3> QED BY <2>2, <3>1, <3>2, <3>3
  <2> QED BY <2>1, <2>2
<1> HIDE DEF known
<1>7. CASE Passes[at] \in EndsRun
  <2>1. stage' = "No" /\ view' = IF Dropped(whole) THEN {} ELSE {known}
    BY <1>2, <1>7
  <2>2. view' = {} \/ (view' = {known} /\ whole = "No")
    BY <1>5, <2>1 DEF Dropped
  <2>3. at' \notin {6, 9, 10}
    BY <1>2, <1>3, <1>7
  <2>4. whole = "No" => known \in Views /\ known.lines = d.lines /\ known.stale = {}
    BY <1>1, <1>5, <1>6
  <2> QED BY <1>2, <2>1, <2>2, <2>3, <2>4 DEF ViewOf
<1>8. CASE Passes[at] \notin EndsRun
  <2>1. view' = {known} /\ stage' = whole
    BY <1>2, <1>8
  <2>2. at \in {2, 3, 5, 8, 9} /\ at' \in {3, 4, 6, 9, 10}
    BY <1>2, <1>3, <1>8
  <2>3. at' \notin Starts
    BY <2>2 DEF Starts
  <2>4. whole = "No" => known.lines = d.lines /\ known.stale = {}
    BY <1>1, <1>5, <1>6
  <2>5. at' \in {6, 9, 10} => known.lines = d.lines
    <3>1. at' \in {6, 9, 10} => at \in {5, 8, 9}
      BY <1>2, <2>2
    <3>2. at \in {5, 8} => stage = "No"
      BY <1>4 DEF Starts
    <3> QED BY <1>1, <1>6, <3>1, <3>2
  <2>6. at' = 6 => known.stale \subseteq {"spelling"}
    <3>1. at' = 6 => at = 5
      BY <1>2, <2>2
    <3>2. at = 5 => stage = "No"
      BY <1>4 DEF Starts
    <3> QED BY <1>1, <1>6, <3>1, <3>2
  <2> QED BY <1>2, <1>5, <1>6, <2>1, <2>3, <2>4, <2>5, <2>6 DEF ViewOf
<1> QED BY <1>7, <1>8

\* A pass that only moves on.
LEMMA PassedOver ==
    ASSUME DocumentInv, ViewInv, at \in {3, 7, 11, 12, 13, 14, 15},
           at' = at + 1, view' \in {view, {}}, stage' = stage,
           at # 15 => document' = document
    PROVE  ViewOf(document', at', view', stage')
<1>1. at' \in {4, 8, 12, 13, 14, 15, 16}
  OBVIOUS
<1>2. at \in Starts \/ at = 3
  BY DEF Starts
<1>3. at = 3 => at' \notin Starts
  BY DEF Starts
<1>4. at' \notin {6, 9, 10}
  BY <1>1
<1>5. at' <= 15 => at # 15
  OBVIOUS
<1>6. at <= 15
  OBVIOUS
<1> QED BY <1>2, <1>3, <1>4, <1>5, <1>6 DEF ViewInv, ViewOf

(***************************************************************************)
(* Every step keeps the invariant.                                         *)
(***************************************************************************)

LEMMA AtNumber ==
    ASSUME NEW p, At(p), DocumentInv
    PROVE  at \in 1..15 /\ Passes[at] = p
  BY PassNumbers DEF At, DocumentInv

LEMMA FinishDocument ==
    ASSUME DocumentInv, NEW p, NEW d, NEW changed, NEW what,
           Finish(p, d, changed, what), at \in 1..15,
           Sound(mode, options, source, d, at + 1)
    PROVE  DocumentInv'
  BY DEF DocumentInv, Finish

LEMMA RespellKeeps ==
    ASSUME DocumentInv, ViewInv,
           NEW p \in {"macros", "declared", "sync_names", "openmp"}, Respell(p)
    PROVE  DocumentInv' /\ ViewInv'
<1>1. at \in 1..15 /\ Passes[at] = p
  BY AtNumber DEF Respell
<1>2. at \in {1, 2, 5, 9}
  BY <1>1, PassAt
<1>3. PICK changed \in {"No", "Text"}, what \in SUBSET {"spelling"} :
        Finish(Passes[at], document, changed, what)
  BY <1>1 DEF Respell
<1>4. Sound(mode, options, source, document, at + 1)
  BY <1>1, <1>2, SoundKept DEF DocumentInv
<1>5. what \in SUBSET {"spelling", "offsets"} /\ changed \in {"No", "Text", "Structure"}
  OBVIOUS
<1>6. ViewOf(document', at', view', stage')
  BY <1>2, <1>3, <1>5, FinishView
<1>7. DocumentInv'
  BY <1>1, <1>3, <1>4, FinishDocument
<1> QED BY <1>6, <1>7 DEF ViewInv

LEMMA RewriteKeeps ==
    ASSUME DocumentInv, ViewInv,
           NEW p \in {"parens", "modernize", "line_rules", "continuations",
                      "line_rules_again"}, Rewrite(p)
    PROVE  DocumentInv' /\ ViewInv'
<1>1. at \in 1..15 /\ Passes[at] = p
  BY AtNumber DEF Rewrite
<1>2. at \in {4, 7, 8, 10, 14}
  BY <1>1, PassAt
<1>3. PICK changed \in {"No", "Text"}, what \in SUBSET {"spelling", "offsets"} :
        Finish(Passes[at], document, changed, what)
  BY <1>1 DEF Rewrite
<1>4. Sound(mode, options, source, document, at + 1)
  BY <1>1, <1>2, SoundKept DEF DocumentInv
<1>5. changed \in {"No", "Text", "Structure"} /\ at # 5
  BY <1>2
<1>6. ViewOf(document', at', view', stage')
  BY <1>2, <1>3, <1>5, FinishView
<1>7. DocumentInv'
  BY <1>1, <1>3, <1>4, FinishDocument
<1> QED BY <1>6, <1>7 DEF ViewInv

LEMMA ChangedType ==
    ASSUME NEW d, NEW changed \in {"Text", "Structure"}
    PROVE  /\ Changed(d, changed) \in {"No", "Text", "Structure"}
           /\ Changed(d, changed) = "No" => d.lines = document.lines
  BY DEF Changed

LEMMA JoinTokensKeeps ==
    ASSUME DocumentInv, ViewInv, JoinTokens
    PROVE  DocumentInv' /\ ViewInv'
<1> DEFINE heads == Pairs("a&", "&b")
           new == Joined(document.lines, heads)
           d == [document EXCEPT !.lines = new]
<1>1. at \in 1..15 /\ Passes[at] = "join" /\ Enabled(Passes[at])
  BY AtNumber DEF JoinTokens, At
<1>2. at = 3 /\ mode # "CanonicalizeOnly"
  BY <1>1, PassAt DEF Enabled, NormalizesWhitespace
<1>3. Finish(Passes[at], d, Changed(d, "Structure"), {"spelling", "offsets"})
  BY <1>1 DEF JoinTokens
<1>4. Sound(mode, options, source, document, at)
  BY DEF DocumentInv
<1>5. document.lines \in Seq(Words) /\ document.lines # <<>>
  BY <1>4, DocFields DEF Sound
<1>6. Thinned(document.lines, new)
  <2>1. heads \subseteq {i \in 1..Len(document.lines) - 1 :
            document.lines[i] = "a&" /\ document.lines[i + 1] = "&b"}
    BY DEF Pairs
  <2>2. "a&" # "&b"
    OBVIOUS
  <2> HIDE DEF heads
  <2> QED BY <1>5, <2>1, <2>2, JoinedThins
<1> HIDE DEF new
<1>7. Sound(mode, options, source, d, at + 1)
  <2>1. at \in 1..14 /\ at # 6
    BY <1>2
  <2> QED BY <1>2, <1>4, <1>6, <2>1, SoundThinned
<1> HIDE DEF d
<1>8. DocumentInv'
  BY <1>1, <1>3, <1>7, FinishDocument
<1>9. ViewOf(document', at', view', stage')
  <2>1. /\ Changed(d, "Structure") \in {"No", "Text", "Structure"}
        /\ Changed(d, "Structure") = "No" => d.lines = document.lines
    BY ChangedType
  <2>2. at \notin {5, 8, 9} /\ at # 5
    BY <1>2
  <2> QED BY <1>2, <1>3, <2>1, <2>2, FinishView
<1> QED BY <1>8, <1>9 DEF ViewInv

LEMMA SemicolonsKeeps ==
    ASSUME DocumentInv, ViewInv, Semicolons
    PROVE  DocumentInv' /\ ViewInv'
<1> DEFINE s == Separated(document)
           e == IF s = document THEN s ELSE CanonicalizeTail(s)
           structure == Len(e.lines) < Len(s.lines)
           changed == Changed(e, IF structure THEN "Structure" ELSE "Text")
<1>1. at \in 1..15 /\ Passes[at] = "semicolons"
  BY AtNumber DEF Semicolons
<1>2. at = 6
  BY <1>1, PassAt
<1>3. Finish(Passes[at], e, changed, {"spelling", "offsets"})
  BY <1>1 DEF Semicolons
<1>4. Sound(mode, options, source, document, 6) /\ source \in Seq(AnyLine) /\ IsFile(source)
  BY <1>2 DEF DocumentInv
<1>5. Sound(mode, options, source, e, 7)
  BY <1>4, SoundSeparated
<1>6. /\ changed \in {"No", "Text", "Structure"}
      /\ changed = "No" => e.lines = document.lines
  <2>1. (IF structure THEN "Structure" ELSE "Text") \in {"Text", "Structure"}
    OBVIOUS
  <2> HIDE DEF structure, e
  <2> QED BY <2>1, ChangedType
<1> HIDE DEF e, changed
<1>7. DocumentInv'
  <2>1. Sound(mode, options, source, e, at + 1)
    BY <1>2, <1>5
  <2> QED BY <1>1, <1>3, <2>1, FinishDocument
<1>8. ViewOf(document', at', view', stage')
  <2>1. at \notin {5, 8, 9} /\ at # 5
    BY <1>2
  <2> QED BY <1>2, <1>3, <1>6, <2>1, FinishView
<1> QED BY <1>7, <1>8 DEF ViewInv

LEMMA ReturnsKeeps ==
    ASSUME DocumentInv, ViewInv, Returns
    PROVE  DocumentInv' /\ ViewInv'
<1>1. at \in 1..15 /\ Passes[at] = "returns" /\ Enabled(Passes[at])
  BY AtNumber DEF Returns, At
<1>2. at = 11 /\ mode # "CanonicalizeOnly"
  BY <1>1, PassAt DEF Enabled, NormalizesWhitespace
<1>3. PICK gone \in SUBSET {i \in 1..Len(document.lines) - 1 : document.lines[i] = "return"} :
        LET d == SetLines(document, Without(document.lines, gone))
        IN  Finish("returns", d, Changed(d, "Structure"), {"spelling", "offsets"})
  BY DEF Returns
<1> DEFINE new == Without(document.lines, gone)
           d == SetLines(document, new)
<1>4. Finish(Passes[at], d, Changed(d, "Structure"), {"spelling", "offsets"})
  BY <1>1, <1>3
<1>5. Sound(mode, options, source, document, at)
  BY DEF DocumentInv
<1>6. Thinned(document.lines, new)
  <2>1. document.lines \in Seq(Words) /\ document.lines # <<>>
    BY <1>5, DocFields DEF Sound
  <2>2. gone \subseteq 1..Len(document.lines) - 1
    OBVIOUS
  <2> QED BY <2>1, <2>2, RemovalThins
<1> HIDE DEF new
<1>7. Sound(mode, options, source, d, at + 1)
  <2>1. at \in 1..14 /\ at # 6
    BY <1>2
  <2> QED BY <1>2, <1>5, <1>6, <2>1, SoundThinned
<1> HIDE DEF d
<1>8. DocumentInv'
  BY <1>1, <1>4, <1>7, FinishDocument
<1>9. ViewOf(document', at', view', stage')
  <2>1. /\ Changed(d, "Structure") \in {"No", "Text", "Structure"}
        /\ Changed(d, "Structure") = "No" => d.lines = document.lines
    BY ChangedType
  <2>2. at \notin {5, 8, 9} /\ at # 5
    BY <1>2
  <2> QED BY <1>2, <1>4, <2>1, <2>2, FinishView
<1> QED BY <1>8, <1>9 DEF ViewInv

LEMMA RewrapKeeps ==
    ASSUME DocumentInv, ViewInv, Rewrap
    PROVE  DocumentInv' /\ ViewInv'
<1>1. at \in 1..15 /\ Passes[at] = "rewrap" /\ Enabled(Passes[at])
  BY AtNumber DEF Rewrap, At
<1>2. at = 13 /\ mode # "CanonicalizeOnly"
  BY <1>1, PassAt DEF Enabled
<1>3. PICK heads \in SUBSET Pairs("x&", "x") :
        IF heads = {} THEN Finish("rewrap", document, "No", {})
        ELSE Finish("rewrap", SetLines(document, Joined(Context.lines, heads)),
                    "Structure", {"spelling", "offsets"})
  BY DEF Rewrap
<1>4. Sound(mode, options, source, document, at)
  BY DEF DocumentInv
<1>5. at \notin {5, 8, 9} /\ at # 5
  BY <1>2
<1>6. CASE heads = {}
  <2>1. Finish(Passes[at], document, "No", {})
    BY <1>1, <1>3, <1>6
  <2>2. Sound(mode, options, source, document, at + 1)
    BY <1>2, <1>4, SoundKept
  <2>3. DocumentInv'
    BY <1>1, <2>1, <2>2, FinishDocument
  <2>4. ViewOf(document', at', view', stage')
    BY <1>2, <1>5, <2>1, FinishView
  <2> QED BY <2>3, <2>4 DEF ViewInv
<1>7. CASE heads # {}
  <2>1. Context.lines = document.lines
    <3>1. stage = "No"
      BY <1>2 DEF ViewInv, ViewOf, Starts
    <3> QED BY <1>1, <3>1, ContextFacts
  <2> DEFINE new == Joined(document.lines, heads)
             d == SetLines(document, new)
  <2>2. Finish(Passes[at], d, "Structure", {"spelling", "offsets"})
    BY <1>1, <1>3, <1>7, <2>1
  <2>3. Thinned(document.lines, new)
    <3>1. document.lines \in Seq(Words) /\ document.lines # <<>>
      BY <1>4, DocFields DEF Sound
    <3>2. heads \subseteq {i \in 1..Len(document.lines) - 1 :
              document.lines[i] = "x&" /\ document.lines[i + 1] = "x"}
      BY DEF Pairs
    <3>3. "x&" # "x"
      OBVIOUS
    <3> QED BY <3>1, <3>2, <3>3, JoinedThins
  <2> HIDE DEF new
  <2>4. Sound(mode, options, source, d, at + 1)
    <3>1. at \in 1..14 /\ at # 6
      BY <1>2
    <3> QED BY <1>2, <1>4, <2>3, <3>1, SoundThinned
  <2> HIDE DEF d
  <2>5. DocumentInv'
    BY <1>1, <2>2, <2>4, FinishDocument
  <2>6. ViewOf(document', at', view', stage')
    BY <1>2, <1>5, <2>2, FinishView
  <2> QED BY <2>5, <2>6 DEF ViewInv
<1> QED BY <1>6, <1>7

LEMMA CanonicalEndKeeps ==
    ASSUME DocumentInv, ViewInv, CanonicalEnd
    PROVE  DocumentInv' /\ ViewInv'
<1>1. at \in 1..15 /\ Passes[at] = "canonical_end"
  BY AtNumber DEF CanonicalEnd
<1>2. at = 12
  BY <1>1, PassAt
<1>3. /\ at' = at + 1 /\ view' \in {view, {}}
      /\ UNCHANGED <<mode, options, source, document, stage>>
  BY DEF CanonicalEnd
<1>4. Sound(mode, options, source, document, at + 1)
  BY <1>1, <1>2, SoundKept DEF DocumentInv
<1>5. DocumentInv'
  BY <1>1, <1>3, <1>4 DEF DocumentInv
<1>6. ViewOf(document', at', view', stage')
  BY <1>2, <1>3, PassedOver
<1> QED BY <1>5, <1>6 DEF ViewInv

LEMMA TrimPassKeeps ==
    ASSUME DocumentInv, ViewInv, TrimPass
    PROVE  DocumentInv' /\ ViewInv'
<1>1. at \in 1..15 /\ Passes[at] = "trim"
  BY AtNumber DEF TrimPass
<1>2. at = 15
  BY <1>1, PassAt
<1>3. /\ document' = Trimmed(document) /\ at' = at + 1
      /\ UNCHANGED <<mode, options, source, view, stage>>
  BY DEF TrimPass
<1>4. Sound(mode, options, source, Trimmed(document), 16)
  BY <1>2, SoundTrimmed DEF DocumentInv
<1>5. DocumentInv'
  BY <1>2, <1>3, <1>4 DEF DocumentInv
<1>6. ViewOf(document', at', view', stage')
  BY <1>2, <1>3, PassedOver
<1> QED BY <1>5, <1>6 DEF ViewInv

LEMMA SkipKeeps ==
    ASSUME DocumentInv, ViewInv, Skip
    PROVE  DocumentInv' /\ ViewInv'
<1>1. at \in 1..15 /\ ~Enabled(Passes[at])
  BY PassNumbers DEF Skip, DocumentInv
<1>2. at \in {3, 4, 6, 7, 10, 11, 12, 13, 14}
  BY <1>1, PassAt DEF Enabled
<1>3. Sound(mode, options, source, document, at + 1)
  <2>1. at = 6 => "normalize_semicolons" \notin options
    BY <1>1, PassAt DEF Enabled
  <2> QED BY <1>1, <2>1, SoundKept DEF DocumentInv
<1>4. CASE Passes[at] \in {"parens", "semicolons", "continuations"}
  <2>1. Finish(Passes[at], document, "No", {})
    BY <1>4 DEF Skip
  <2>2. DocumentInv'
    BY <1>1, <1>3, <2>1, FinishDocument
  <2>3. at \in {4, 6, 10} /\ at # 5
    BY <1>1, <1>4, PassAt
  <2>4. ViewOf(document', at', view', stage')
    BY <2>1, <2>3, FinishView
  <2> QED BY <2>2, <2>4 DEF ViewInv
<1>5. CASE Passes[at] \notin {"parens", "semicolons", "continuations"}
  <2>1. at' = at + 1 /\ UNCHANGED <<mode, options, source, document, view, stage>>
    BY <1>5 DEF Skip
  <2>2. at \in {3, 7, 11, 12, 13, 14}
    BY <1>1, <1>2, <1>5, PassAt
  <2>3. ViewOf(document', at', view', stage')
    BY <2>1, <2>2, PassedOver
  <2>4. DocumentInv'
    BY <1>1, <1>3, <2>1 DEF DocumentInv
  <2> QED BY <2>3, <2>4 DEF ViewInv
<1> QED BY <1>4, <1>5

(***************************************************************************)
(* The invariant.                                                          *)
(***************************************************************************)

LEMMA InitHolds == Init => PipelineInv
<1>1. SUFFICES ASSUME Init PROVE PipelineInv
  OBVIOUS
<1>2. source \in Seq(AnyLine) /\ IsFile(source)
  BY <1>1, NormalizeAssumption, LinesOfFile DEF Init
<1>3. mode \in {"NormalizeOnly", "CanonicalizeOnly", "Full"}
  BY <1>1, NormalizeAssumption DEF Init
<1>4. Sound(mode, options, source, document, 1)
  BY <1>1, <1>2, SoundAtFirst DEF Init, NormalizesWhitespace
<1>5. DocumentInv
  BY <1>1, <1>2, <1>3, <1>4 DEF Init, DocumentInv
<1>6. ViewInv
  BY <1>1 DEF Init, ViewInv, ViewOf, Starts
<1>7. OutputInv
  BY <1>1 DEF Init, OutputInv
<1> QED BY <1>5, <1>6, <1>7 DEF PipelineInv

LEMMA NextKeeps == PipelineInv /\ [Next]_vars => PipelineInv'
<1>1. SUFFICES ASSUME PipelineInv, [Next]_vars PROVE PipelineInv'
  OBVIOUS
<1>2. DocumentInv /\ ViewInv /\ OutputInv
  BY <1>1 DEF PipelineInv
<1>3. ASSUME at <= 15, UNCHANGED output PROVE OutputInv'
  <2>1. output = {}
    BY <1>2, <1>3 DEF OutputInv
  <2> QED BY <1>3, <2>1 DEF OutputInv
<1>4. ASSUME NEW p \in {"macros", "declared", "sync_names", "openmp"}, Respell(p)
      PROVE  PipelineInv'
  <2>1. at <= 15 /\ UNCHANGED output
    BY <1>2, <1>4, AtNumber DEF Respell, Finish
  <2> QED BY <1>2, <1>3, <1>4, <2>1, RespellKeeps DEF PipelineInv
<1>5. ASSUME NEW p \in {"parens", "modernize", "line_rules", "continuations",
                        "line_rules_again"}, Rewrite(p)
      PROVE  PipelineInv'
  <2>1. at <= 15 /\ UNCHANGED output
    BY <1>2, <1>5, AtNumber DEF Rewrite, Finish
  <2> QED BY <1>2, <1>3, <1>5, <2>1, RewriteKeeps DEF PipelineInv
<1>6. CASE JoinTokens
  <2>1. at <= 15 /\ UNCHANGED output
    BY <1>2, <1>6, AtNumber DEF JoinTokens, Finish
  <2> QED BY <1>2, <1>3, <1>6, <2>1, JoinTokensKeeps DEF PipelineInv
<1>7. CASE Semicolons
  <2>1. at <= 15 /\ UNCHANGED output
    BY <1>2, <1>7, AtNumber DEF Semicolons, Finish
  <2> QED BY <1>2, <1>3, <1>7, <2>1, SemicolonsKeeps DEF PipelineInv
<1>8. CASE Returns
  <2>1. at <= 15 /\ UNCHANGED output
    BY <1>2, <1>8, AtNumber DEF Returns, Finish
  <2> QED BY <1>2, <1>3, <1>8, <2>1, ReturnsKeeps DEF PipelineInv
<1>9. CASE CanonicalEnd
  <2>1. at <= 15 /\ UNCHANGED output
    BY <1>2, <1>9, AtNumber DEF CanonicalEnd
  <2> QED BY <1>2, <1>3, <1>9, <2>1, CanonicalEndKeeps DEF PipelineInv
<1>10. CASE Rewrap
  <2>1. at <= 15 /\ UNCHANGED output
    BY <1>2, <1>10, AtNumber DEF Rewrap, Finish
  <2> QED BY <1>2, <1>3, <1>10, <2>1, RewrapKeeps DEF PipelineInv
<1>11. CASE TrimPass
  <2>1. at <= 15 /\ UNCHANGED output
    BY <1>2, <1>11, AtNumber DEF TrimPass
  <2> QED BY <1>2, <1>3, <1>11, <2>1, TrimPassKeeps DEF PipelineInv
<1>12. CASE Skip
  <2>1. at <= 15 /\ UNCHANGED output
    BY <1>2, <1>12, PassNumbers DEF Skip, Finish
  <2> QED BY <1>2, <1>3, <1>12, <2>1, SkipKeeps DEF PipelineInv
<1>13. CASE Deliver
  <2>1. /\ at = 16 /\ output' = {Delivered(document)}
        /\ UNCHANGED <<mode, options, source, document, at, view, stage>>
    BY <1>2, <1>13, PassNumbers DEF Deliver, DocumentInv
  <2>2. DocumentInv' /\ ViewInv'
    BY <1>2, <2>1 DEF DocumentInv, ViewInv
  <2>3. Delivered(document)' = Delivered(document)
    BY <2>1 DEF Delivered
  <2>4. OutputInv'
    BY <2>1, <2>3 DEF OutputInv
  <2> QED BY <2>2, <2>4 DEF PipelineInv
<1>14. CASE UNCHANGED vars
  <2>1. DocumentInv' /\ ViewInv'
    BY <1>2, <1>14 DEF DocumentInv, ViewInv, vars
  <2>2. Delivered(document)' = Delivered(document)
    BY <1>14 DEF Delivered, vars
  <2>3. OutputInv'
    BY <1>2, <1>14, <2>2 DEF OutputInv, vars
  <2> QED BY <2>1, <2>3 DEF PipelineInv
<1> QED BY <1>1, <1>4, <1>5, <1>6, <1>7, <1>8, <1>9, <1>10, <1>11, <1>12, <1>13,
           <1>14 DEF Next

LEMMA PipelineKept == Spec => []PipelineInv
  BY InitHolds, NextKeeps, PTL DEF Spec

(***************************************************************************)
(* The views.                                                              *)
(***************************************************************************)

LEMMA ViewHolds ==
    ASSUME PipelineInv
    PROVE  ViewCurrent
<1>1. DocumentInv /\ ViewInv
  BY DEF PipelineInv
<1>2. SUFFICES ASSUME at <= Len(Passes), Passes[at] \in DOMAIN Needs,
                      Enabled(Passes[at])
               PROVE  /\ Context.lines = document.lines
                      /\ Context.stale \cap Needs[Passes[at]] = {}
  BY DEF ViewCurrent
<1>3. at \in 1..15
  BY <1>1, <1>2, PassNumbers DEF DocumentInv
<1>4. /\ stage = "No" => Context.lines = document.lines /\ Context.stale = {}
      /\ at \in {6, 9, 10} => Context.lines = document.lines
      /\ at = 6 => Context.stale \subseteq {"spelling"}
  BY <1>1, <1>3, ContextFacts
<1>5. at \in {1, 2, 5, 6, 7, 8, 10, 11, 13, 14}
  <2>1. Passes[at] \in {"macros", "declared", "sync_names", "modernize", "line_rules",
                        "returns", "rewrap", "line_rules_again"}
                       \cup {"semicolons", "continuations"}
    BY <1>2 DEF Needs
  <2> QED BY <1>3, <2>1, PassAt
<1>6. at \notin {6, 10} => stage = "No"
  BY <1>1, <1>5 DEF ViewInv, ViewOf, Starts
<1>7. at = 6 => Needs[Passes[at]] = {"offsets"}
  <2>1. Needs["semicolons"] = {"offsets"}
    BY DEF Needs
  <2> QED BY <1>3, <2>1, PassAt
<1>8. at = 10 => Needs[Passes[at]] = {}
  <2>1. Needs["continuations"] = {}
    BY DEF Needs
  <2> QED BY <1>3, <2>1, PassAt
<1> QED BY <1>4, <1>5, <1>6, <1>7, <1>8

\* Every pass reads a view that is right about the lines and about the
\* spellings and offsets it takes from it, in every mode, whatever the passes
\* before it changed and whichever are switched on (PassContextCache,
\* pipeline.rs).
THEOREM ViewCorrect == Spec => []ViewCurrent
<1>1. PipelineInv => ViewCurrent
  BY ViewHolds
<1> QED BY <1>1, PipelineKept, PTL

(***************************************************************************)
(* Terminators.                                                            *)
(***************************************************************************)

\* The terminators a document is written with.
Ends(d) == IF ExactLineEndings(d) THEN d.line_endings ELSE Terminators(d, d.newline)

LEMMA ToBytesFacts ==
    ASSUME NEW d \in Doc, d.lines # <<>>
    PROVE  RendersTo(d.lines, Ends(d), ToBytes(d))
<1>1. /\ d.lines \in Seq(Words) /\ d.newline \in {"Lf", "CrLf"}
      /\ d.line_endings \in Seq(Newlines)
  BY DocFields
<1>2. \A i \in 1..Len(d.lines) : Ends(d)[i] \in Newlines
  <2>1. CASE ExactLineEndings(d)
    <3>1. Ends(d) = d.line_endings /\ Len(d.line_endings) = Len(d.lines)
      BY <2>1 DEF Ends, ExactLineEndings
    <3> QED BY <1>1, <3>1, ElementOfSeq
  <2>2. CASE ~ExactLineEndings(d)
    <3>1. Ends(d) = Terminators(d, d.newline)
      BY <2>2 DEF Ends
    <3> QED BY <1>1, <3>1, TerminatorsFacts
  <2> QED BY <2>1, <2>2
<1>3. RendersTo(d.lines, Ends(d), Rendered(d.lines, Ends(d)))
  BY <1>1, <1>2, RenderedFacts, Zenon
<1>4. ToBytes(d) = Rendered(d.lines, Ends(d))
  BY DEF ToBytes, Ends
<1> QED BY <1>3, <1>4

LEMMA NoneLast ==
    ASSUME NEW f, IsFile(f), NEW i \in 1..Len(f), f[i].newline = "None"
    PROVE  i = Len(f)
  BY DEF IsFile

\* In canonicalize-only, line i leaves with the terminator it came with.
LEMMA KeptEndings ==
    ASSUME NEW f \in Seq(AnyLine), IsFile(f), NEW d \in Doc, d.lines # <<>>,
           EndingsOf(f, d), NEW bytes, bytes = ToBytes(d)
    PROVE  /\ \/ Len(bytes) = Len(f)
              \/ Len(bytes) = Len(f) - 1 /\ Last(f).newline = "None"
           /\ \A i \in 1..Len(bytes) : i \in 1..Len(f) /\ bytes[i].newline = f[i].newline
<1> DEFINE b == FromBytes(f)
           ends == d.line_endings
           n == Len(d.lines)
<1>1. /\ Len(ends) = n /\ d.preserve_line_endings
      /\ f = <<>> => d.lines = <<"">>
      /\ \/ ends = b.line_endings
         \/ Len(f) > 1 /\ Last(f).newline = "None" /\ ends = Front(b.line_endings)
  BY DEF EndingsOf
<1>2. Ends(d) = ends
  BY <1>1 DEF Ends, ExactLineEndings
<1>3. RendersTo(d.lines, ends, bytes)
  BY <1>2, ToBytesFacts
<1>4. /\ n \in Nat /\ n >= 1 /\ n \in 1..n /\ Len(f) \in Nat
  BY DocFields, EmptySeq, LenProperties
<1>5. /\ b.line_endings \in Seq(Newlines) /\ Len(b.line_endings) = Len(Read(f))
      /\ \A i \in 1..Len(Read(f)) : b.line_endings[i] = Read(f)[i].newline
  BY FromBytesFacts, DocFields
<1> HIDE DEF b, ends, n
<1>6. /\ \/ Len(bytes) = n - 1 /\ d.lines[n] = "" /\ ends[n] = "None"
         \/ Len(bytes) = n /\ ~(d.lines[n] = "" /\ ends[n] = "None")
      /\ \A i \in 1..Len(bytes) : i \in 1..n /\ bytes[i].newline = ends[i]
  BY <1>3, Zenon DEF RendersTo, n
<1>7. CASE f = <<>>
  <2>1. Len(Read(f)) = 1 /\ Read(f)[1].newline = "None" /\ Len(f) = 0
    BY <1>7, ReadFacts, EmptySeq, Zenon
  <2>2. ends = b.line_endings
    <3>1. ~(Len(f) > 1)
      BY <2>1
    <3> QED BY <1>1, <3>1, Zenon
  <2>3. n = 1 /\ d.lines[1] = ""
    <3>1. d.lines = <<"">>
      BY <1>1, <1>7
    <3>2. "" \in Words /\ 1 \in 1..1
      BY DEF Words
    <3> QED BY <3>1, <3>2, OneTuple, Zenon DEF n
  <2>4. ends[1] = "None"
    <3>1. 1 \in 1..1
      OBVIOUS
    <3> QED BY <1>5, <2>1, <2>2, <3>1, Zenon
  <2>5. Len(bytes) = 0
    <3>1. Len(bytes) = n - 1
      BY <1>6, <2>3, <2>4, Zenon
    <3>2. n = 1
      BY <2>3, Zenon
    <3> QED BY <3>1, <3>2
  <2>6. 1..Len(bytes) = {}
    BY <2>5
  <2> QED BY <2>1, <2>5, <2>6, Zenon
<1>8. CASE f # <<>>
  <2>1. Read(f) = f
    BY <1>8, ReadFacts, Zenon
  <2>2. Len(b.line_endings) = Len(f) /\ \A i \in 1..Len(f) : b.line_endings[i] = f[i].newline
    BY <1>5, <2>1, Zenon
  <2>3. CASE ends = b.line_endings
    <3>1. n = Len(f)
      BY <1>1, <2>2, <2>3, Zenon
    <3>2. \A i \in 1..Len(bytes) : i \in 1..Len(f) /\ bytes[i].newline = f[i].newline
      BY <1>6, <2>2, <2>3, <3>1, Zenon
    <3>3. ends[n] = "None" => Last(f).newline = "None"
      BY <1>4, <2>2, <2>3, <3>1, Zenon DEF Last
    <3> QED BY <1>6, <3>1, <3>2, <3>3, Zenon
  <2>4. CASE Len(f) > 1 /\ Last(f).newline = "None" /\ ends = Front(b.line_endings)
    <3>1. b.line_endings # <<>>
      <4>1. Len(b.line_endings) # 0
        BY <1>4, <2>2, <2>4
      <4> QED BY <1>5, <4>1, EmptySeq
    <3>2. /\ Len(ends) = Len(f) - 1
          /\ \A i \in 1..(Len(f) - 1) : ends[i] = b.line_endings[i]
      BY <1>5, <2>2, <2>4, <3>1, FrontFacts, Zenon
    <3>3. n = Len(f) - 1
      BY <1>1, <3>2, Zenon
    <3>4. \A i \in 1..n : i \in 1..Len(f) /\ i # Len(f)
      BY <1>4, <3>3
    <3>5. \A i \in 1..n : ends[i] = f[i].newline
      BY <2>2, <3>2, <3>3, <3>4, Zenon
    <3>6. \A i \in 1..n : f[i].newline # "None"
      BY <3>4, NoneLast, Zenon
    <3>7. ends[n] # "None"
      BY <1>4, <3>5, <3>6, Zenon
    <3>8. Len(bytes) = Len(f) - 1
      BY <1>6, <3>3, <3>7, Zenon
    <3>9. \A i \in 1..Len(bytes) : i \in 1..Len(f) /\ bytes[i].newline = f[i].newline
      BY <1>6, <3>4, <3>5, Zenon
    <3> QED BY <2>4, <3>8, <3>9, Zenon
  <2> QED BY <1>1, <2>3, <2>4, Zenon
<1> QED BY <1>7, <1>8

\* Otherwise every line is written with one terminator, and the last one with
\* it or with none.
LEMMA UniformEnds ==
    ASSUME NEW d \in Doc, d.lines # <<>>, ~d.preserve_line_endings
    PROVE  \A i \in 1..Len(d.lines) :
              Ends(d)[i] = IF i < Len(d.lines) \/ d.trailing_newline THEN d.newline
                           ELSE "None"
<1>1. Ends(d) = Terminators(d, d.newline)
  BY DEF Ends, ExactLineEndings
<1>2. d.newline \in {"Lf", "CrLf"}
  BY DocFields
<1> QED BY <1>1, <1>2, TerminatorsFacts

\* What full mode makes of a document before its bytes are written.
Whitespace(d) == OutputWhitespace(Restored(FromBytes(ToLfBytes(d)), d))

LEMMA LaidOut ==
    ASSUME NEW d \in Doc, d.lines # <<>>
    PROVE  LET r == Restored(FromBytes(ToLfBytes(d)), d)
           IN  /\ r \in Doc /\ r.lines # <<>> /\ ~r.preserve_line_endings
               /\ r.newline = d.newline
               /\ r.trailing_newline <=> d.trailing_newline
               /\ r.lines = Analyzed(d)
<1> DEFINE laid == FromBytes(ToLfBytes(d))
           r == Restored(laid, d)
<1>1. ToLfBytes(d) \in Seq(AnyLine)
  <2>1. \A i \in 1..Len(d.lines) : Terminators(d, "Lf")[i] \in Newlines
    BY TerminatorsFacts
  <2>2. d.lines \in Seq(Words)
    BY DocFields
  <2>3. RendersTo(d.lines, Terminators(d, "Lf"), Rendered(d.lines, Terminators(d, "Lf")))
    BY <2>1, <2>2, RenderedFacts, Zenon
  <2>4. ToLfBytes(d) = Rendered(d.lines, Terminators(d, "Lf"))
    BY DEF ToLfBytes
  <2> QED BY <2>3, <2>4, Zenon DEF RendersTo
<1>2. /\ laid \in Doc /\ Len(laid.lines) = Len(Read(ToLfBytes(d)))
      /\ ~laid.preserve_line_endings
  BY <1>1, FromBytesFacts, Zenon
<1>3. laid.lines # <<>>
  <2>1. Len(Read(ToLfBytes(d))) \in Nat /\ Len(Read(ToLfBytes(d))) >= 1
    BY <1>1, ReadFacts, Zenon
  <2>2. Len(laid.lines) # 0
    <3> HIDE DEF laid
    <3> QED BY <1>2, <2>1
  <2>3. laid.lines \in Seq(Words)
    BY <1>2, DocFields
  <2> HIDE DEF laid
  <2> QED BY <2>2, <2>3, EmptySeq
<1>4. laid.lines = Analyzed(d)
  BY DEF Analyzed
<1> HIDE DEF laid
<1>5. \A nl \in {"Lf", "CrLf"}, tr \in BOOLEAN :
        [laid EXCEPT !.newline = nl, !.trailing_newline = tr] \in Doc
  BY <1>2, Zenon DEF Doc
<1>6. \A nl \in {"Lf", "CrLf"}, tr \in BOOLEAN :
        LET e == [laid EXCEPT !.newline = nl, !.trailing_newline = tr]
        IN  /\ e.lines = laid.lines /\ e.newline = nl
            /\ e.trailing_newline <=> tr
            /\ e.preserve_line_endings <=> laid.preserve_line_endings
  BY <1>2 DEF Doc
<1>7. d.newline \in {"Lf", "CrLf"} /\ d.trailing_newline \in BOOLEAN
  BY Zenon DEF Doc
<1>8. r = [laid EXCEPT !.newline = d.newline, !.trailing_newline = d.trailing_newline]
  BY DEF Restored
<1>9. r \in Doc
  BY <1>5, <1>7, <1>8
<1>10. /\ r.lines = laid.lines /\ r.newline = d.newline
       /\ r.trailing_newline <=> d.trailing_newline
       /\ r.preserve_line_endings <=> laid.preserve_line_endings
  BY <1>6, <1>7, <1>8
<1> HIDE DEF r
<1>11. /\ r \in Doc /\ r.lines # <<>> /\ ~r.preserve_line_endings
       /\ r.newline = d.newline
       /\ r.trailing_newline <=> d.trailing_newline
       /\ r.lines = Analyzed(d)
  BY <1>2, <1>3, <1>4, <1>9, <1>10, Zenon
<1> USE DEF r, laid
<1> QED BY <1>11, Zenon

\* The lines up to the last that holds something are kept, trimmed.
LEMMA OutputFacts ==
    ASSUME NEW r \in Doc, r.lines # <<>>
    PROVE  LET w == OutputWhitespace(r)
           IN  /\ w \in Doc /\ w.newline = r.newline
               /\ w.preserve_line_endings <=> r.preserve_line_endings
               /\ w.trailing_newline <=>
                     r.trailing_newline \/ Len(r.lines) > 1 \/ r.lines[1] # ""
               /\ Len(w.lines) \in 1..Len(r.lines)
               /\ \A i \in 1..Len(w.lines) : w.lines[i] = TrimmedText(r.lines[i])
               /\ Len(w.lines) > 1 => Last(w.lines) # ""
               /\ \A i \in 1..Len(r.lines) :
                     TrimmedText(r.lines[i]) # "" => i <= Len(w.lines)
<1> DEFINE t == Trimmed(r)
           n == Len(r.lines)
           m == Max(InkedLines(t.lines))
           ls == SubSeq(t.lines, 1, m)
           b == r.trailing_newline \/ Len(r.lines) > 1 \/ r.lines[1] # ""
           w == OutputWhitespace(r)
<1>1. /\ t \in Doc /\ Len(t.lines) = n
      /\ \A i \in 1..n : t.lines[i] = TrimmedText(r.lines[i])
      /\ t.newline = r.newline
      /\ t.preserve_line_endings <=> r.preserve_line_endings
  BY TrimmedFacts DEF SamePolicy
<1>2. n \in Nat /\ n >= 1 /\ 1 \in 1..n
  BY DocFields, EmptySeq, LenProperties
<1>3. t.lines \in Seq(Words)
  BY <1>1, DocFields
<1> HIDE DEF t, n
<1>4. InkedLines(t.lines) = {i \in 1..n : i = 1 \/ t.lines[i] # ""}
  BY <1>1 DEF InkedLines
<1>5. /\ m \in 1..n
      /\ m = 1 \/ t.lines[m] # ""
      /\ \A i \in 1..n : t.lines[i] # "" => i <= m
  <2> DEFINE S == {i \in 1..n : i = 1 \/ t.lines[i] # ""}
  <2>1. S \subseteq 1..n
    OBVIOUS
  <2>2. S # {}
    <3>1. 1 \in S
      BY <1>2
    <3> HIDE DEF S
    <3> QED BY <3>1
  <2>3. Max(S) \in S /\ \A j \in S : j <= Max(S)
    <3> HIDE DEF S
    <3> QED BY <1>2, <2>1, <2>2, MaxIsHighest
  <2>4. m = Max(S)
    BY <1>4
  <2> HIDE DEF m
  <2>5. m \in S /\ \A j \in S : j <= m
    <3> HIDE DEF S
    <3> QED BY <2>3, <2>4, Zenon
  <2> QED BY <2>5, Zenon
<1> HIDE DEF m
<1>6. m \in 1..n /\ m \in Nat /\ 1 <= m /\ m <= n
  <2>1. m \in 1..n
    BY <1>5
  <2> QED BY <1>2, <2>1
<1>7. /\ ls \in Seq(Words) /\ Len(ls) = m
      /\ \A i \in 1..m : ls[i] = t.lines[i]
  <2>1. m \in Int /\ 1 <= m /\ \A i \in 1..m : t.lines[i] \in Words
    <3>1. \A i \in 1..n : t.lines[i] \in Words
      BY <1>1, <1>3, ElementOfSeq
    <3>2. \A i \in 1..m : i \in 1..n
      BY <1>2, <1>6
    <3> QED BY <1>6, <3>1, <3>2
  <2>2. /\ ls \in Seq(Words)
        /\ Len(ls) = IF 1 <= m THEN m - 1 + 1 ELSE 0
        /\ \A i \in 1..(m - 1 + 1) : ls[i] = t.lines[1 + i - 1]
    BY <2>1, SubSeqProperties
  <2> HIDE DEF ls
  <2> QED BY <2>1, <2>2
<1> HIDE DEF ls
<1>8. b \in BOOLEAN
  OBVIOUS
<1>9. w = [t EXCEPT !.lines = ls, !.trailing_newline = b]
  BY DEF OutputWhitespace, t, m, ls
<1> HIDE DEF b, w
<1>10. \A a \in Seq(Words), c \in BOOLEAN :
         [t EXCEPT !.lines = a, !.trailing_newline = c] \in Doc
  BY <1>1, Zenon DEF Doc
<1>11. \A a \in Seq(Words), c \in BOOLEAN :
         LET e == [t EXCEPT !.lines = a, !.trailing_newline = c]
         IN  /\ e.lines = a /\ e.newline = t.newline
             /\ e.trailing_newline <=> c
             /\ e.preserve_line_endings <=> t.preserve_line_endings
  BY <1>1 DEF Doc
<1>12. w \in Doc
  BY <1>7, <1>8, <1>9, <1>10
<1>13. /\ w.lines = ls /\ w.newline = t.newline
       /\ w.trailing_newline <=> b
       /\ w.preserve_line_endings <=> t.preserve_line_endings
  BY <1>7, <1>8, <1>9, <1>11
<1>14. \A i \in 1..m : i \in 1..n
  BY <1>2, <1>6
<1>15. Len(ls) \in 1..n /\ \A i \in 1..Len(ls) : ls[i] = TrimmedText(r.lines[i])
  BY <1>1, <1>6, <1>7, <1>14, Zenon
<1>16. Len(ls) > 1 => Last(ls) # ""
  <2>1. m > 1 => m # 1 /\ m \in 1..m
    BY <1>2, <1>6
  <2> QED BY <1>5, <1>7, <2>1, Zenon DEF Last
<1>17. \A i \in 1..n : TrimmedText(r.lines[i]) # "" => i <= Len(ls)
  BY <1>1, <1>5, <1>7, Zenon
<1> QED BY <1>1, <1>12, <1>13, <1>15, <1>16, <1>17, Zenon DEF w, n, b

\* Lines that end alike: with newline, the last perhaps with nothing, and then
\* it holds something.
Uniform(newline, bytes) ==
    /\ bytes \in Seq(AnyLine)
    /\ \A i \in 1..Len(bytes) : /\ bytes[i].newline \in {newline, "None"}
                                /\ i < Len(bytes) => bytes[i].newline = newline
                                /\ bytes[i].newline = "None" => bytes[i].text # ""

LEMMA WrittenFacts ==
    ASSUME NEW e \in Doc, e.lines # <<>>, ~e.preserve_line_endings,
           NEW bytes, bytes = ToBytes(e)
    PROVE  /\ bytes \in Seq(AnyLine)
           /\ Len(bytes) = IF e.lines[Len(e.lines)] = "" /\ ~e.trailing_newline
                           THEN Len(e.lines) - 1 ELSE Len(e.lines)
           /\ \A i \in 1..Len(bytes) :
                 /\ i \in 1..Len(e.lines) /\ bytes[i].text = e.lines[i]
                 /\ bytes[i].newline = IF i < Len(e.lines) \/ e.trailing_newline
                                       THEN e.newline ELSE "None"
<1> DEFINE n == Len(e.lines)
<1>1. RendersTo(e.lines, Ends(e), bytes)
  BY ToBytesFacts
<1>2. \A i \in 1..n : Ends(e)[i] = IF i < n \/ e.trailing_newline THEN e.newline
                                   ELSE "None"
  BY UniformEnds
<1>3. n \in Nat /\ n >= 1 /\ n \in 1..n /\ ~(n < n)
  BY DocFields, EmptySeq, LenProperties
<1>4. e.newline # "None"
  BY DocFields
<1> HIDE DEF n
<1>5. Ends(e)[n] = "None" <=> ~e.trailing_newline
  BY <1>2, <1>3, <1>4, Zenon
<1>6. /\ bytes \in Seq(AnyLine)
      /\ Len(bytes) = IF e.lines[n] = "" /\ Ends(e)[n] = "None" THEN n - 1 ELSE n
      /\ \A i \in 1..Len(bytes) :
            i \in 1..n /\ bytes[i].text = e.lines[i] /\ bytes[i].newline = Ends(e)[i]
  BY <1>1 DEF RendersTo, n
<1>7. Len(bytes) = IF e.lines[n] = "" /\ ~e.trailing_newline THEN n - 1 ELSE n
  BY <1>5, <1>6, Zenon
<1> QED BY <1>2, <1>6, <1>7, Zenon DEF n

LEMMA WrittenUniform ==
    ASSUME NEW e \in Doc, e.lines # <<>>, ~e.preserve_line_endings,
           NEW bytes, bytes = ToBytes(e)
    PROVE  Uniform(e.newline, bytes)
<1> DEFINE n == Len(e.lines)
           l == Len(bytes)
<1>1. /\ bytes \in Seq(AnyLine)
      /\ l = IF e.lines[n] = "" /\ ~e.trailing_newline THEN n - 1 ELSE n
      /\ \A i \in 1..l :
            /\ i \in 1..n /\ bytes[i].text = e.lines[i]
            /\ bytes[i].newline = IF i < n \/ e.trailing_newline
                                  THEN e.newline ELSE "None"
  BY WrittenFacts
<1>2. n \in Nat /\ n >= 1
  BY DocFields, EmptySeq, LenProperties
<1>3. e.newline # "None"
  BY DocFields
<1> HIDE DEF n, l
<1>4. l = n - 1 \/ l = n
  BY <1>1, Zenon
<1>5. \A i \in 1..l : i < l => i < n
  BY <1>2, <1>4
<1>6. ASSUME NEW i \in 1..l, bytes[i].newline = "None" PROVE bytes[i].text # ""
  <2>1. ~(i < n) /\ ~e.trailing_newline /\ i \in 1..n
    BY <1>1, <1>3, <1>6, Zenon
  <2>2. i = n
    BY <1>2, <2>1
  <2>3. l = n
    BY <1>2, <1>4, <2>2
  <2>4. ~(n = n - 1)
    BY <1>2
  <2>5. e.lines[n] # ""
    BY <1>1, <2>1, <2>3, <2>4, Zenon
  <2> QED BY <1>1, <2>2, <2>5, Zenon
<1>7. \A i \in 1..l : /\ bytes[i].newline \in {e.newline, "None"}
                      /\ i < l => bytes[i].newline = e.newline
  BY <1>1, <1>5, Zenon
<1> QED BY <1>1, <1>6, <1>7, Zenon DEF Uniform, l

\* Lines that end alike are read with their terminator.
LEMMA Majority ==
    ASSUME NEW newline \in {"Lf", "CrLf"}, NEW f \in Seq(AnyLine),
           \A i \in 1..Len(f) : f[i].newline \in {newline, "None"},
           NEW k \in 1..Len(f), f[k].newline = newline
    PROVE  FromBytes(f).newline = newline
<1>1. FromBytes(f).newline = IF Count(f, "CrLf") > Count(f, "Lf") THEN "CrLf" ELSE "Lf"
  BY FromBytesFacts, Zenon
<1>2. \A nl : /\ Count(f, nl) \in Nat
              /\ Count(f, nl) > 0 <=> \E i \in 1..Len(f) : f[i].newline = nl
  BY CountPositive
<1>3. CASE newline = "Lf"
  <2>1. ~ \E i \in 1..Len(f) : f[i].newline = "CrLf"
    BY <1>3
  <2>2. ~(Count(f, "CrLf") > 0)
    BY <1>2, <2>1, Zenon
  <2>3. Count(f, "CrLf") \in Nat /\ Count(f, "Lf") \in Nat
    BY <1>2, Zenon
  <2>4. ~(Count(f, "CrLf") > Count(f, "Lf"))
    BY <2>2, <2>3
  <2> QED BY <1>1, <1>3, <2>4, Zenon
<1>4. CASE newline = "CrLf"
  <2>1. ~ \E i \in 1..Len(f) : f[i].newline = "Lf"
    BY <1>4
  <2>2. ~(Count(f, "Lf") > 0) /\ Count(f, "CrLf") > 0
    BY <1>2, <1>4, <2>1, Zenon
  <2>3. Count(f, "CrLf") \in Nat /\ Count(f, "Lf") \in Nat
    BY <1>2, Zenon
  <2>4. Count(f, "CrLf") > Count(f, "Lf")
    BY <2>2, <2>3
  <2> QED BY <1>1, <1>4, <2>4, Zenon
<1> QED BY <1>3, <1>4

LEMMA SameBytes ==
    ASSUME NEW r \in Seq(AnyLine), NEW q \in Seq(AnyLine), Len(r) = Len(q),
           \A i \in 1..Len(q) : r[i].text = q[i].text /\ r[i].newline = q[i].newline
    PROVE  r = q
<1>1. \A a, b \in AnyLine : a.text = b.text /\ a.newline = b.newline => a = b
  BY DEF AnyLine
<1>2. \A i \in 1..Len(q) : r[i] \in AnyLine /\ q[i] \in AnyLine
  BY ElementOfSeq
<1>3. ASSUME NEW i \in 1..Len(q) PROVE r[i] = q[i]
  <2>1. r[i] \in AnyLine /\ q[i] \in AnyLine
    BY <1>2
  <2>2. r[i].text = q[i].text /\ r[i].newline = q[i].newline
    OBVIOUS
  <2> QED BY <1>1, <2>1, <2>2, Zenon
<1> QED BY <1>3, SeqEqual

\* A document read from lines that end alike is written as those lines.
LEMMA ReadAndWritten ==
    ASSUME NEW newline \in {"Lf", "CrLf"}, NEW bytes, Uniform(newline, bytes),
           NEW e \in Doc, ~e.preserve_line_endings,
           e.lines = FromBytes(bytes).lines, e.newline = FromBytes(bytes).newline,
           e.trailing_newline <=> FromBytes(bytes).trailing_newline
    PROVE  ToBytes(e) = bytes
<1> DEFINE n == Len(bytes)
           q == ToBytes(e)
<1>1. /\ bytes \in Seq(AnyLine)
      /\ \A i \in 1..n : /\ bytes[i].newline \in {newline, "None"}
                         /\ i < n => bytes[i].newline = newline
                         /\ bytes[i].newline = "None" => bytes[i].text # ""
  BY DEF Uniform
<1>2. /\ Len(e.lines) = Len(Read(bytes))
      /\ \A i \in 1..Len(Read(bytes)) : e.lines[i] = Read(bytes)[i].text
      /\ e.trailing_newline <=>
            bytes # <<>> /\ \A i \in 1..n : bytes[i].newline # "None"
  <2>1. bytes \in Seq(AnyLine)
    BY <1>1, Zenon
  <2>2. /\ Len(FromBytes(bytes).lines) = Len(Read(bytes))
        /\ \A i \in 1..Len(Read(bytes)) : FromBytes(bytes).lines[i] = Read(bytes)[i].text
    BY <2>1, FromBytesFacts, Zenon
  <2>3. FromBytes(bytes).trailing_newline <=>
            bytes # <<>> /\ \A i \in 1..n : bytes[i].newline # "None"
    BY <2>1, FromBytesFacts, Zenon
  <2>4. /\ Len(e.lines) = Len(Read(bytes))
        /\ \A i \in 1..Len(Read(bytes)) : e.lines[i] = Read(bytes)[i].text
    BY <2>2, Zenon
  <2> HIDE DEF n
  <2> QED BY <2>3, <2>4, Zenon
<1>3. /\ Len(Read(bytes)) \in Nat /\ Len(Read(bytes)) >= 1
      /\ bytes # <<>> => Read(bytes) = bytes
  BY <1>1, ReadFacts, Zenon
<1>4. bytes = <<>> => Len(Read(bytes)) = 1 /\ Read(bytes)[1].text = ""
  BY <1>1, ReadFacts, Zenon
<1>5. e.lines # <<>>
  <2>1. Len(Read(bytes)) # 0
    <3>1. Len(Read(bytes)) \in Nat /\ Len(Read(bytes)) >= 1
      BY <1>3, Zenon
    <3> QED BY <3>1
  <2> QED BY <1>2, <2>1, DocFields, EmptySeq
<1>6. /\ q \in Seq(AnyLine)
      /\ Len(q) = IF e.lines[Len(e.lines)] = "" /\ ~e.trailing_newline
                  THEN Len(e.lines) - 1 ELSE Len(e.lines)
      /\ \A i \in 1..Len(q) :
            /\ i \in 1..Len(e.lines) /\ q[i].text = e.lines[i]
            /\ q[i].newline = IF i < Len(e.lines) \/ e.trailing_newline
                              THEN e.newline ELSE "None"
  BY <1>5, WrittenFacts
<1> HIDE DEF q
<1>7. CASE bytes = <<>>
  <2>1. Len(e.lines) = 1 /\ ~e.trailing_newline
    BY <1>2, <1>4, <1>7, Zenon
  <2>2. e.lines[1] = ""
    <3>1. 1 \in 1..1
      OBVIOUS
    <3> QED BY <1>2, <1>4, <1>7, <3>1, Zenon
  <2>3. Len(q) = 1 - 1
    BY <1>6, <2>1, <2>2, Zenon
  <2>4. q = <<>>
    <3>1. Len(q) = 0
      BY <2>3
    <3> QED BY <1>6, <3>1, EmptySeq
  <2> QED BY <1>7, <2>4 DEF q
<1>8. CASE bytes # <<>>
  <2>1. /\ Len(e.lines) = n /\ \A i \in 1..n : e.lines[i] = bytes[i].text
        /\ e.trailing_newline <=> \A i \in 1..n : bytes[i].newline # "None"
    BY <1>2, <1>3, <1>8, Zenon
  <2>2. n \in Nat /\ n >= 1 /\ n \in 1..n
    <3>1. bytes \in Seq(AnyLine)
      BY <1>1, Zenon
    <3> QED BY <1>8, <3>1, EmptySeq, LenProperties
  <2> HIDE DEF n
  <2>3. \A i \in 1..n : ~(i < n) => i = n
    BY <2>2
  <2>4. newline # "None"
    OBVIOUS
  <2>5. ~e.trailing_newline <=> bytes[n].newline = "None"
    BY <1>1, <2>1, <2>2, <2>3, <2>4, Zenon
  <2>6. Len(q) = n
    BY <1>1, <1>6, <2>1, <2>2, <2>5, Zenon
  <2>7. ASSUME NEW i \in 1..n PROVE q[i].newline = bytes[i].newline
    <3>1. CASE i < n \/ e.trailing_newline
      <4>1. bytes[i].newline = newline
        BY <1>1, <2>1, <3>1, Zenon
      <4>2. FromBytes(bytes).newline = newline
        <5>1. \A j \in 1..Len(bytes) : bytes[j].newline \in {newline, "None"}
          BY <1>1 DEF n
        <5>2. i \in 1..Len(bytes)
          BY DEF n
        <5> QED BY <1>1, <4>1, <5>1, <5>2, Majority
      <4>3. q[i].newline = e.newline
        BY <1>6, <2>1, <2>6, <3>1, Zenon
      <4> QED BY <4>1, <4>2, <4>3
    <3>2. CASE ~(i < n \/ e.trailing_newline)
      <4>1. q[i].newline = "None"
        BY <1>6, <2>1, <2>6, <3>2, Zenon
      <4>2. bytes[i].newline = "None"
        BY <2>3, <2>5, <3>2, Zenon
      <4> QED BY <4>1, <4>2
    <3> QED BY <3>1, <3>2
  <2>8. \A i \in 1..n : q[i].text = bytes[i].text
    BY <1>6, <2>1, <2>6, Zenon
  <2> USE DEF n
  <2>9. Len(q) = Len(bytes)
    BY <2>6
  <2>10. \A i \in 1..Len(bytes) : q[i].text = bytes[i].text /\ q[i].newline = bytes[i].newline
    BY <2>7, <2>8
  <2>11. q = bytes
    BY <1>1, <1>6, <2>9, <2>10, SameBytes
  <2> QED BY <2>11 DEF q
<1> QED BY <1>7, <1>8

\* What full mode delivers: lines that end alike, each with its terminator, the
\* last one not empty unless it is the only one; each a trimmed line of d.
LEMMA FullBytes ==
    ASSUME NEW d \in Doc, d.lines # <<>>,
           NEW bytes, bytes = ToBytes(Whitespace(d))
    PROVE  /\ Uniform(d.newline, bytes)
           /\ bytes # <<>> => Last(bytes).newline = d.newline
           /\ Len(bytes) > 1 => Last(bytes).text # ""
           /\ \A i \in 1..Len(bytes) :
                 i \in 1..Len(Analyzed(d)) /\ bytes[i].text = TrimmedText(Analyzed(d)[i])
<1> DEFINE r == Restored(FromBytes(ToLfBytes(d)), d)
           w == OutputWhitespace(r)
           n == Len(w.lines)
<1>1. /\ r \in Doc /\ r.lines # <<>> /\ ~r.preserve_line_endings
      /\ r.newline = d.newline
      /\ r.lines = Analyzed(d)
  BY LaidOut, Zenon
<1> HIDE DEF r
<1>2. /\ w \in Doc /\ w.newline = r.newline
      /\ w.preserve_line_endings <=> r.preserve_line_endings
      /\ w.trailing_newline <=>
            r.trailing_newline \/ Len(r.lines) > 1 \/ r.lines[1] # ""
      /\ n \in 1..Len(r.lines)
      /\ \A i \in 1..n : w.lines[i] = TrimmedText(r.lines[i])
      /\ n > 1 => Last(w.lines) # ""
  BY <1>1, OutputFacts, Zenon
<1>3. bytes = ToBytes(w)
  BY DEF Whitespace, w, r
<1> HIDE DEF w
<1>4. /\ Len(r.lines) \in Nat /\ Len(r.lines) >= 1
      /\ n \in Nat /\ n >= 1 /\ n <= Len(r.lines)
  <2>1. r.lines \in Seq(Words) /\ n \in 1..Len(r.lines)
    BY <1>1, <1>2, DocFields
  <2> HIDE DEF n
  <2> QED BY <1>1, <2>1, EmptySeq
<1>5. w.lines # <<>>
  BY <1>4, EmptySeq
<1>6. ~w.preserve_line_endings
  BY <1>1, <1>2, Zenon
<1>7. /\ bytes \in Seq(AnyLine)
      /\ Len(bytes) = IF w.lines[n] = "" /\ ~w.trailing_newline THEN n - 1 ELSE n
      /\ \A i \in 1..Len(bytes) :
            /\ i \in 1..n /\ bytes[i].text = w.lines[i]
            /\ bytes[i].newline = IF i < n \/ w.trailing_newline
                                  THEN w.newline ELSE "None"
  BY <1>2, <1>3, <1>5, <1>6, WrittenFacts
<1>8. Uniform(w.newline, bytes)
  BY <1>2, <1>3, <1>5, <1>6, WrittenUniform
<1> HIDE DEF n
<1>9. \A i \in 1..n : i \in 1..Len(r.lines)
  BY <1>4
<1>10. \A i \in 1..Len(bytes) :
          i \in 1..Len(Analyzed(d)) /\ bytes[i].text = TrimmedText(Analyzed(d)[i])
  BY <1>1, <1>2, <1>7, <1>9, Zenon
<1>11. CASE w.trailing_newline
  <2>1. Len(bytes) = n /\ \A i \in 1..n : bytes[i].newline = w.newline
    BY <1>7, <1>11, Zenon
  <2>2. n \in 1..n
    BY <1>4
  <2>3. Last(bytes).newline = d.newline
    BY <1>1, <1>2, <2>1, <2>2, Zenon DEF Last
  <2>4. Len(bytes) > 1 => Last(bytes).text # ""
    BY <1>2, <1>7, <2>1, <2>2, Zenon DEF Last, n
  <2> QED BY <1>1, <1>2, <1>8, <1>10, <2>3, <2>4, Zenon
<1>12. CASE ~w.trailing_newline
  <2>1. ~(Len(r.lines) > 1) /\ r.lines[1] = ""
    BY <1>2, <1>12, Zenon
  <2>2. n = 1
    <3>1. ~(Len(r.lines) > 1)
      BY <2>1, Zenon
    <3> QED BY <1>4, <3>1
  <2>3. w.lines[1] = ""
    <3>1. TrimmedText("") = ""
      BY DEF TrimmedText
    <3>2. 1 \in 1..1
      OBVIOUS
    <3> QED BY <1>2, <2>1, <2>2, <3>1, <3>2, Zenon
  <2>4. Len(bytes) = 1 - 1
    BY <1>7, <1>12, <2>2, <2>3, Zenon
  <2>5. Len(bytes) = 0
    BY <2>4
  <2>6. bytes = <<>> /\ ~(Len(bytes) > 1)
    <3>1. bytes \in Seq(AnyLine)
      BY <1>7, Zenon
    <3> QED BY <2>5, <3>1, EmptySeq
  <2> QED BY <1>1, <1>2, <1>8, <1>10, <2>6, Zenon
<1> QED BY <1>11, <1>12

LEMMA DeliveredFacts ==
    ASSUME PipelineInv, NEW bytes \in output
    PROVE  /\ bytes = Delivered(document)
           /\ mode \in {"NormalizeOnly", "CanonicalizeOnly", "Full"}
           /\ source \in Seq(AnyLine) /\ IsFile(source)
           /\ Sound(mode, options, source, document, 16)
           /\ Sound(mode, options, source, Trimmed(document), 16)
<1>1. DocumentInv /\ at = 16 /\ output = {Delivered(document)}
  BY DEF PipelineInv, OutputInv
<1>2. Sound(mode, options, source, document, 16)
  BY <1>1 DEF DocumentInv
<1>3. Sound(mode, options, source, Trimmed(document), 16)
  BY <1>2, SoundTrimmed
<1> QED BY <1>1, <1>2, <1>3 DEF DocumentInv

LEMMA TerminatorsHold ==
    ASSUME PipelineInv
    PROVE  TerminatorsRight
<1>1. ASSUME NEW bytes \in output, mode = "CanonicalizeOnly"
      PROVE  /\ \/ Len(bytes) = Len(source)
                \/ Len(bytes) = Len(source) - 1 /\ Last(source).newline = "None"
             /\ \A i \in 1..Len(bytes) : bytes[i].newline = source[i].newline
  <2> DEFINE t == Trimmed(document)
  <2>1. bytes = ToBytes(t)
    BY <1>1, DeliveredFacts DEF Delivered
  <2>2. /\ source \in Seq(AnyLine) /\ IsFile(source)
        /\ Sound(mode, options, source, t, 16)
    BY <1>1, DeliveredFacts
  <2>3. t \in Doc /\ t.lines # <<>> /\ EndingsOf(source, t)
    BY <1>1, <2>2 DEF Sound
  <2> HIDE DEF t
  <2> QED BY <2>1, <2>2, <2>3, KeptEndings
<1>2. ASSUME NEW bytes \in output
      PROVE  /\ NormalizesWhitespace => \A i \in 1..Len(bytes) :
                    bytes[i].newline \in {FromBytes(source).newline, "None"}
             /\ mode = "Full" /\ bytes # <<>> =>
                    /\ Last(bytes).newline # "None"
                    /\ Len(bytes) > 1 => Last(bytes).text # ""
  <2>1. /\ bytes = Delivered(document)
        /\ Sound(mode, options, source, document, 16)
        /\ Sound(mode, options, source, Trimmed(document), 16)
    BY <1>2, DeliveredFacts
  <2>2. CASE mode = "CanonicalizeOnly"
    BY <2>2 DEF NormalizesWhitespace
  <2>3. CASE mode # "CanonicalizeOnly" /\ mode # "Full"
    <3> DEFINE t == Trimmed(document)
    <3>1. bytes = ToBytes(t)
      BY <2>1, <2>3 DEF Delivered
    <3>2. /\ t \in Doc /\ t.lines # <<>> /\ ~t.preserve_line_endings
          /\ t.newline = FromBytes(source).newline
      BY <2>1, <2>3 DEF Sound
    <3> HIDE DEF t
    <3>3. Uniform(t.newline, bytes)
      BY <3>1, <3>2, WrittenUniform
    <3> QED BY <2>3, <3>2, <3>3 DEF Uniform
  <2>4. CASE mode = "Full"
    <3>1. bytes = ToBytes(Whitespace(document))
      BY <2>1, <2>4 DEF Delivered, Whitespace
    <3>2. /\ document \in Doc /\ document.lines # <<>>
          /\ document.newline = FromBytes(source).newline
      BY <2>1 DEF Sound
    <3>3. /\ Uniform(document.newline, bytes)
          /\ bytes # <<>> => Last(bytes).newline = document.newline
          /\ Len(bytes) > 1 => Last(bytes).text # ""
      BY <3>1, <3>2, FullBytes
    <3>4. document.newline # "None"
      BY <3>2, DocFields
    <3> QED BY <3>2, <3>3, <3>4, Zenon DEF Uniform
  <2> QED BY <2>2, <2>3, <2>4
<1>3. EndingsKept
  BY <1>1 DEF EndingsKept
<1>4. LinesEndAlike
  BY <1>2, Zenon DEF LinesEndAlike
<1> QED BY <1>3, <1>4 DEF TerminatorsRight

\* Canonicalize-only keeps every line's own terminator, the other modes end
\* every line the way most of the file did, and full mode ends a file once, for
\* files of any number of lines (document.rs, format/full/layout.rs).
THEOREM TerminatorsCorrect == Spec => []TerminatorsRight
<1>1. PipelineInv => TerminatorsRight
  BY TerminatorsHold
<1> QED BY <1>1, PipelineKept, PTL

(***************************************************************************)
(* Formatting again.                                                       *)
(***************************************************************************)

NoSeparators(bytes) == \A i \in 1..Len(bytes) : bytes[i].text \notin Separators

AllTrimmed(bytes) ==
    \A i \in 1..Len(bytes) : TrimmedText(bytes[i].text) = bytes[i].text

\* What is read back, per line.
LEMMA ReadBack ==
    ASSUME NEW bytes \in Seq(AnyLine), AllTrimmed(bytes),
           NEW b, b = FromBytes(bytes)
    PROVE  /\ b \in Doc /\ b.lines # <<>> /\ b.lines \in Seq(Words)
           /\ ~b.preserve_line_endings
           /\ \A i \in 1..Len(b.lines) : TrimmedText(b.lines[i]) = b.lines[i]
           /\ NoSeparators(bytes) => \A i \in 1..Len(b.lines) : b.lines[i] \notin Separators
           /\ bytes # <<>> => /\ Len(b.lines) = Len(bytes)
                              /\ \A i \in 1..Len(bytes) : b.lines[i] = bytes[i].text
           /\ bytes = <<>> => /\ Len(b.lines) = 1 /\ b.lines[1] = ""
                              /\ ~b.trailing_newline
<1>1. /\ b \in Doc /\ Len(b.lines) = Len(Read(bytes))
      /\ \A i \in 1..Len(Read(bytes)) : b.lines[i] = Read(bytes)[i].text
      /\ ~b.preserve_line_endings
      /\ bytes = <<>> => ~b.trailing_newline
  BY FromBytesFacts, Zenon
<1>2. b.lines \in Seq(Words)
  BY <1>1, DocFields
<1>3. Len(b.lines) # 0
  <2>1. Len(Read(bytes)) \in Nat /\ Len(Read(bytes)) >= 1
    BY ReadFacts, Zenon
  <2>2. Len(b.lines) \in Nat /\ Len(b.lines) >= 1
    BY <1>1, <2>1, Zenon
  <2> QED BY <2>2
<1>4. b.lines # <<>>
  BY <1>2, <1>3, EmptySeq
<1>5. CASE bytes = <<>>
  <2>1. Len(Read(bytes)) = 1 /\ Read(bytes)[1].text = ""
    BY <1>5, ReadFacts, Zenon
  <2>2. 1 \in 1..1 /\ \A i \in 1..1 : i = 1
    OBVIOUS
  <2>3. Len(b.lines) = 1 /\ b.lines[1] = ""
    BY <1>1, <2>1, <2>2, Zenon
  <2>4. TrimmedText("") = "" /\ "" \notin Separators
    BY DEF TrimmedText, Separators
  <2> QED BY <1>1, <1>2, <1>4, <1>5, <2>2, <2>3, <2>4, Zenon
<1>6. CASE bytes # <<>>
  <2>1. Read(bytes) = bytes
    BY <1>6, ReadFacts, Zenon
  <2>2. Len(b.lines) = Len(bytes) /\ \A i \in 1..Len(bytes) : b.lines[i] = bytes[i].text
    BY <1>1, <2>1, Zenon
  <2>3. \A i \in 1..Len(b.lines) : TrimmedText(b.lines[i]) = b.lines[i]
    BY <2>2, Zenon DEF AllTrimmed
  <2>4. NoSeparators(bytes) => \A i \in 1..Len(b.lines) : b.lines[i] \notin Separators
    BY <2>2, Zenon DEF NoSeparators
  <2> QED BY <1>1, <1>2, <1>4, <1>6, <2>2, <2>3, <2>4, Zenon
<1> QED BY <1>5, <1>6

LEMMA SameLines ==
    ASSUME NEW d \in Doc, NEW e \in Doc, SamePolicy(d, e), e.lines = d.lines
    PROVE  e = d
<1>1. d = [lines |-> d.lines, newline |-> d.newline,
           trailing_newline |-> d.trailing_newline, line_endings |-> d.line_endings,
           preserve_line_endings |-> d.preserve_line_endings]
  BY Zenon DEF Doc
<1>2. e = [lines |-> e.lines, newline |-> e.newline,
           trailing_newline |-> e.trailing_newline, line_endings |-> e.line_endings,
           preserve_line_endings |-> e.preserve_line_endings]
  BY Zenon DEF Doc
<1>3. /\ d.trailing_newline \in BOOLEAN /\ e.trailing_newline \in BOOLEAN
      /\ d.preserve_line_endings \in BOOLEAN /\ e.preserve_line_endings \in BOOLEAN
  BY Zenon DEF Doc
<1>4. /\ e.trailing_newline = d.trailing_newline
      /\ e.preserve_line_endings = d.preserve_line_endings
  BY <1>3, Zenon DEF SamePolicy
<1> QED BY <1>1, <1>2, <1>4, Zenon DEF SamePolicy

LEMMA NothingToSeparate ==
    ASSUME NEW d \in Doc, \A i \in 1..Len(d.lines) : d.lines[i] \notin Separators
    PROVE  Separated(d) = d
<1> DEFINE e == Separated(d)
<1>1. /\ e \in Doc /\ SamePolicy(d, e) /\ Len(e.lines) = Len(d.lines)
      /\ \A i \in 1..Len(d.lines) : e.lines[i] = WithoutSeparator(d.lines[i])
  BY SeparatedFacts, Zenon
<1>2. \A t : t \notin Separators => WithoutSeparator(t) = t
  BY DEF WithoutSeparator, Separators
<1> HIDE DEF e
<1>3. e.lines = d.lines
  <2>1. e.lines \in Seq(Words) /\ d.lines \in Seq(Words)
    BY <1>1, DocFields
  <2>2. \A i \in 1..Len(e.lines) : e.lines[i] = d.lines[i]
    BY <1>1, <1>2, Zenon
  <2> QED BY <1>1, <2>1, <2>2, SeqEqual
<1>4. e = d
  BY <1>1, <1>3, SameLines
<1> QED BY <1>4 DEF e

LEMMA NothingToTrim ==
    ASSUME NEW d \in Doc, \A i \in 1..Len(d.lines) : TrimmedText(d.lines[i]) = d.lines[i]
    PROVE  Trimmed(d) = d
<1> DEFINE e == Trimmed(d)
<1>1. /\ e \in Doc /\ SamePolicy(d, e) /\ Len(e.lines) = Len(d.lines)
      /\ \A i \in 1..Len(d.lines) : e.lines[i] = TrimmedText(d.lines[i])
  BY TrimmedFacts, Zenon
<1> HIDE DEF e
<1>2. e.lines = d.lines
  <2>1. e.lines \in Seq(Words) /\ d.lines \in Seq(Words)
    BY <1>1, DocFields
  <2>2. \A i \in 1..Len(e.lines) : e.lines[i] = d.lines[i]
    BY <1>1, Zenon
  <2> QED BY <1>1, <2>1, <2>2, SeqEqual
<1>3. e = d
  BY <1>1, <1>2, SameLines
<1> QED BY <1>3 DEF e

LEMMA LastIndex ==
    \A n \in Nat : \A i \in 1..n : i < n \/ i = n
  OBVIOUS

\* The last line has its terminator, and is not empty after others.
EndsOnce(newline, bytes) ==
    /\ bytes # <<>> => Last(bytes).newline = newline
    /\ Len(bytes) > 1 => Last(bytes).text # ""

\* Full mode, again.
LEMMA FullAgain ==
    ASSUME NEW newline \in {"Lf", "CrLf"}, NEW bytes, Uniform(newline, bytes),
           AllTrimmed(bytes),
           EndsOnce(newline, bytes)
    PROVE  ToBytes(Whitespace(FromBytes(bytes))) = bytes
<1> DEFINE b == FromBytes(bytes)
           n == Len(b.lines)
<1>1. bytes \in Seq(AnyLine)
  BY DEF Uniform
<1>2. /\ b \in Doc /\ b.lines # <<>> /\ b.lines \in Seq(Words)
      /\ ~b.preserve_line_endings
      /\ \A i \in 1..n : TrimmedText(b.lines[i]) = b.lines[i]
  BY <1>1, ReadBack, Zenon
<1>3. bytes # <<>> => /\ n = Len(bytes)
                      /\ \A i \in 1..Len(bytes) : b.lines[i] = bytes[i].text
  BY <1>1, ReadBack, Zenon
<1>4. bytes = <<>> => n = 1 /\ b.lines[1] = "" /\ ~b.trailing_newline
  BY <1>1, ReadBack, Zenon
<1>5. bytes # <<>> => b.trailing_newline
  <2>1. ASSUME bytes # <<>> PROVE \A i \in 1..Len(bytes) : bytes[i].newline # "None"
    <3>1. Len(bytes) \in Nat
      BY <1>1, LenProperties
    <3>2. \A i \in 1..Len(bytes) : i < Len(bytes) \/ i = Len(bytes)
      BY <3>1, LastIndex, Zenon
    <3>3. newline # "None"
      OBVIOUS
    <3> QED BY <2>1, <3>2, <3>3, Zenon DEF Uniform, Last, EndsOnce
  <2> QED BY <1>1, <2>1, FromBytesFacts, Zenon
<1> HIDE DEF b
<1>6. n \in Nat /\ n >= 1 /\ n \in 1..n
  <2>1. b.lines \in Seq(Words) /\ b.lines # <<>>
    BY <1>2, Zenon
  <2>2. n \in Nat \ {0}
    BY <2>1, EmptySeq, Zenon
  <2> HIDE DEF n
  <2> QED BY <2>2
<1> HIDE DEF n
<1>7. n > 1 => b.lines[n] # ""
  <2>1. CASE bytes = <<>>
    <3>1. n = 1
      BY <1>4, <2>1, Zenon
    <3>2. ~(1 > 1)
      OBVIOUS
    <3> QED BY <3>1, <3>2, Zenon
  <2>2. CASE bytes # <<>>
    BY <1>3, <1>6, <2>2, Zenon DEF Last, EndsOnce
  <2> QED BY <2>1, <2>2
<1>8. Analyzed(b) = b.lines
  <2>1. ~HasEmptyTail(b)
    BY <1>7, Zenon DEF HasEmptyTail, Last, n
  <2> QED BY <1>2, <2>1, AnalyzedSame
<1> DEFINE r == Restored(FromBytes(ToLfBytes(b)), b)
           w == OutputWhitespace(r)
<1>9. /\ r \in Doc /\ r.lines # <<>> /\ ~r.preserve_line_endings
      /\ r.newline = b.newline
      /\ r.trailing_newline <=> b.trailing_newline
      /\ r.lines = b.lines
  BY <1>2, <1>8, LaidOut, Zenon
<1> HIDE DEF r
<1>10. /\ w \in Doc /\ w.newline = r.newline
       /\ w.preserve_line_endings <=> r.preserve_line_endings
       /\ w.trailing_newline <=>
             r.trailing_newline \/ Len(r.lines) > 1 \/ r.lines[1] # ""
       /\ Len(w.lines) \in 1..Len(r.lines)
       /\ \A i \in 1..Len(w.lines) : w.lines[i] = TrimmedText(r.lines[i])
       /\ \A i \in 1..Len(r.lines) :
             TrimmedText(r.lines[i]) # "" => i <= Len(w.lines)
  BY <1>9, OutputFacts, Zenon
<1>11. Whitespace(b) = w
  BY DEF Whitespace, w, r
<1> HIDE DEF w
<1>12. w.trailing_newline <=> b.trailing_newline
  <2>1. CASE bytes = <<>>
    <3>1. Len(r.lines) = 1 /\ r.lines[1] = ""
      BY <1>4, <1>9, <2>1, Zenon DEF n
    <3>2. ~(1 > 1)
      OBVIOUS
    <3> QED BY <1>9, <1>10, <3>1, <3>2, Zenon
  <2>2. CASE bytes # <<>>
    BY <1>5, <1>9, <1>10, <2>2, Zenon
  <2> QED BY <2>1, <2>2
<1>13. Len(w.lines) = n
  <2>1. Len(w.lines) \in 1..n
    BY <1>9, <1>10, Zenon DEF n
  <2>2. n > 1 => n <= Len(w.lines)
    <3>1. \A i \in 1..n : TrimmedText(b.lines[i]) # "" => i <= Len(w.lines)
      BY <1>9, <1>10, Zenon DEF n
    <3>2. TrimmedText(b.lines[n]) = b.lines[n]
      BY <1>2, <1>6, Zenon DEF n
    <3> QED BY <1>6, <1>7, <3>1, <3>2, Zenon
  <2> QED BY <1>6, <2>1, <2>2
<1>14. w.lines = b.lines
  <2>1. w.lines \in Seq(Words)
    BY <1>10, DocFields
  <2>2. \A i \in 1..Len(w.lines) : w.lines[i] = b.lines[i]
    BY <1>2, <1>9, <1>10, <1>13, Zenon
  <2>3. Len(w.lines) = Len(b.lines)
    BY <1>13 DEF n
  <2> QED BY <1>2, <2>1, <2>2, <2>3, SeqEqual
<1>15. w \in Doc /\ ~w.preserve_line_endings /\ w.newline = b.newline
  BY <1>9, <1>10, Zenon
<1> USE DEF b
<1>16. ToBytes(w) = bytes
  BY <1>12, <1>14, <1>15, ReadAndWritten
<1> QED BY <1>11, <1>16

\* Normalize-only, again.
LEMMA NormalizedAgain ==
    ASSUME NEW newline \in {"Lf", "CrLf"}, NEW bytes, Uniform(newline, bytes),
           AllTrimmed(bytes)
    PROVE  ToBytes(Trimmed(FromBytes(bytes))) = bytes
<1> DEFINE b == FromBytes(bytes)
<1>1. bytes \in Seq(AnyLine)
  BY DEF Uniform
<1>2. /\ b \in Doc /\ ~b.preserve_line_endings
      /\ \A i \in 1..Len(b.lines) : TrimmedText(b.lines[i]) = b.lines[i]
  BY <1>1, ReadBack, Zenon
<1>3. Trimmed(b) = b
  BY <1>2, NothingToTrim
<1>4. ToBytes(b) = bytes
  BY <1>2, ReadAndWritten
<1> QED BY <1>3, <1>4

LEMMA EndingsFit ==
    ASSUME NEW f \in Seq(AnyLine), NEW d, EndingsOf(f, d), f # <<>>
    PROVE  Len(d.lines) <= Len(f)
<1> DEFINE b == FromBytes(f)
<1>1. /\ b.line_endings \in Seq(Newlines) /\ Len(b.line_endings) = Len(f)
  BY FromBytesFacts, ReadFacts, DocFields, Zenon
<1>2. Len(f) \in Nat /\ Len(f) >= 1
  BY EmptySeq
<1> HIDE DEF b
<1>3. b.line_endings # <<>>
  <2>1. Len(b.line_endings) # 0
    BY <1>1, <1>2
  <2> QED BY <1>1, <2>1, EmptySeq
<1>4. Len(Front(b.line_endings)) = Len(f) - 1
  BY <1>1, <1>3, FrontFacts, Zenon
<1>5. Len(d.line_endings) = Len(f) \/ Len(d.line_endings) = Len(f) - 1
  BY <1>1, <1>4, Zenon DEF EndingsOf, b
<1>6. Len(d.lines) = Len(d.line_endings)
  BY DEF EndingsOf
<1> QED BY <1>2, <1>5, <1>6

\* Canonicalize-only, again.
LEMMA CanonicalizedAgain ==
    ASSUME NEW f \in Seq(AnyLine), IsFile(f), NEW d \in Doc, d.lines # <<>>,
           EndingsOf(f, d), NEW bytes, bytes = ToBytes(d), AllTrimmed(bytes)
    PROVE  ToBytes(Trimmed(PreserveOriginalLineEndings(FromBytes(bytes)))) = bytes
<1> DEFINE b == PreserveOriginalLineEndings(FromBytes(bytes))
           ends == d.line_endings
           m == Len(d.lines)
           n == Len(bytes)
           q == ToBytes(b)
<1>1. RendersTo(d.lines, ends, bytes)
  <2>1. Ends(d) = ends
    BY DEF Ends, ExactLineEndings, EndingsOf
  <2> QED BY <2>1, ToBytesFacts
<1>2. /\ bytes \in Seq(AnyLine)
      /\ n = IF d.lines[m] = "" /\ ends[m] = "None" THEN m - 1 ELSE m
      /\ \A i \in 1..n : bytes[i].text = d.lines[i] /\ bytes[i].newline = ends[i]
  BY <1>1, Zenon DEF RendersTo
<1>3. \A i \in 1..n : i \in 1..Len(f) /\ bytes[i].newline = f[i].newline
  BY KeptEndings
<1>4. /\ m \in Nat /\ n \in Nat /\ Len(f) \in Nat
  BY <1>2, DocFields, LenProperties
<1> HIDE DEF ends, n, m
<1>5. bytes # <<>> => n \in 1..n /\ n >= 1
  <2>1. ASSUME bytes # <<>> PROVE n \in 1..n /\ n >= 1
    <3>1. n # 0
      BY <1>2, <2>1, EmptySeq DEF n
    <3> QED BY <1>4, <3>1
  <2> QED BY <2>1
<1>6. bytes # <<>> => ~(bytes[n].text = "" /\ bytes[n].newline = "None")
  <2>1. SUFFICES ASSUME bytes # <<>>, bytes[n].text = "", bytes[n].newline = "None"
                 PROVE  FALSE
    OBVIOUS
  <2>2. n \in 1..Len(f) /\ f[n].newline = "None"
    BY <1>3, <1>5, <2>1, Zenon
  <2>3. n = Len(f)
    BY <2>2, NoneLast, Zenon
  <2>4. f # <<>>
    <3>1. Len(f) # 0
      <4>1. n \in 1..Len(f)
        BY <2>2, Zenon
      <4> QED BY <1>4, <4>1
    <3> QED BY <3>1, EmptySeq
  <2>5. m <= Len(f)
    BY <2>4, EndingsFit DEF m
  <2>6. n # m - 1
    BY <1>4, <2>3, <2>5
  <2>7. n = m /\ ~(d.lines[m] = "" /\ ends[m] = "None")
    BY <1>2, <2>6, Zenon
  <2> QED BY <1>2, <1>5, <2>1, <2>7, Zenon
<1>7. /\ b \in Doc /\ b.lines # <<>> /\ b.preserve_line_endings
      /\ \A i \in 1..Len(b.lines) : TrimmedText(b.lines[i]) = b.lines[i]
      /\ b.lines = FromBytes(bytes).lines
      /\ b.line_endings = FromBytes(bytes).line_endings
  <2>1. /\ FromBytes(bytes) \in Doc /\ FromBytes(bytes).lines # <<>>
        /\ \A i \in 1..Len(FromBytes(bytes).lines) :
              TrimmedText(FromBytes(bytes).lines[i]) = FromBytes(bytes).lines[i]
    BY <1>2, ReadBack, Zenon
  <2>2. /\ b \in Doc /\ b.lines = FromBytes(bytes).lines
        /\ b.line_endings = FromBytes(bytes).line_endings
        /\ b.preserve_line_endings
    BY <2>1, EditPreserve, Zenon
  <2> QED BY <2>1, <2>2, Zenon
<1>8. /\ Len(b.lines) = Len(Read(bytes)) /\ Len(b.line_endings) = Len(Read(bytes))
      /\ \A i \in 1..Len(Read(bytes)) : /\ b.lines[i] = Read(bytes)[i].text
                                        /\ b.line_endings[i] = Read(bytes)[i].newline
  <2>1. bytes \in Seq(AnyLine)
    BY <1>2, Zenon
  <2> DEFINE c == FromBytes(bytes)
  <2>2. /\ Len(c.lines) = Len(Read(bytes)) /\ Len(c.line_endings) = Len(Read(bytes))
        /\ \A i \in 1..Len(Read(bytes)) : c.lines[i] = Read(bytes)[i].text
        /\ \A i \in 1..Len(Read(bytes)) : c.line_endings[i] = Read(bytes)[i].newline
    BY <2>1, FromBytesFacts, Zenon
  <2>3. b.lines = c.lines /\ b.line_endings = c.line_endings
    BY <1>7, Zenon
  <2> HIDE DEF b, c
  <2> QED BY <2>2, <2>3, Zenon
<1> HIDE DEF b, q
<1>9. Trimmed(b) = b
  BY <1>7, NothingToTrim
<1>10. RendersTo(b.lines, b.line_endings, q)
  <2>1. Ends(b) = b.line_endings
    BY <1>7, <1>8, Zenon DEF Ends, ExactLineEndings
  <2> QED BY <1>7, <2>1, ToBytesFacts DEF q
<1> DEFINE k == Len(b.lines)
<1>11. /\ q \in Seq(AnyLine)
       /\ Len(q) = IF b.lines[k] = "" /\ b.line_endings[k] = "None" THEN k - 1 ELSE k
       /\ \A i \in 1..Len(q) : q[i].text = b.lines[i] /\ q[i].newline = b.line_endings[i]
  BY <1>10, Zenon DEF RendersTo
<1> HIDE DEF k
<1>12. CASE bytes = <<>>
  <2>1. /\ Len(Read(bytes)) = 1 /\ Read(bytes)[1].text = ""
        /\ Read(bytes)[1].newline = "None"
    BY <1>2, <1>12, ReadFacts, Zenon
  <2>2. 1 \in 1..1
    OBVIOUS
  <2>3. k = 1 /\ b.lines[1] = "" /\ b.line_endings[1] = "None"
    BY <1>8, <2>1, <2>2, Zenon DEF k
  <2>4. Len(q) = 1 - 1
    BY <1>11, <2>3, Zenon
  <2>5. q = <<>>
    <3>1. Len(q) = 0
      BY <2>4
    <3>2. q \in Seq(AnyLine)
      BY <1>11, Zenon
    <3> QED BY <3>1, <3>2, EmptySeq
  <2> QED BY <1>9, <1>12, <2>5, Zenon DEF q, b
<1>13. CASE bytes # <<>>
  <2>1. Read(bytes) = bytes
    BY <1>2, <1>13, ReadFacts, Zenon
  <2>2. k = n /\ \A i \in 1..n : b.lines[i] = bytes[i].text
                                 /\ b.line_endings[i] = bytes[i].newline
    BY <1>8, <2>1, Zenon DEF k, n
  <2>3. ~(b.lines[k] = "" /\ b.line_endings[k] = "None")
    BY <1>5, <1>6, <1>13, <2>2, Zenon
  <2>4. Len(q) = n
    BY <1>11, <2>2, <2>3, Zenon
  <2>5. \A i \in 1..n : q[i].text = bytes[i].text /\ q[i].newline = bytes[i].newline
    BY <1>11, <2>2, <2>4, Zenon
  <2>6. q = bytes
    BY <1>2, <1>11, <2>4, <2>5, SameBytes, Zenon DEF n
  <2> QED BY <1>9, <2>6, Zenon DEF q, b
<1> QED BY <1>12, <1>13

\* The analysis reads lines of the document, or one empty line.
LEMMA AnalyzedLines ==
    ASSUME NEW d \in Doc, d.lines # <<>>
    PROVE  \A i \in 1..Len(Analyzed(d)) :
              Analyzed(d)[i] = "" \/ \E j \in 1..Len(d.lines) : Analyzed(d)[i] = d.lines[j]
<1> DEFINE r == ToLfBytes(d)
<1>1. RendersTo(d.lines, Terminators(d, "Lf"), r)
  <2>1. \A i \in 1..Len(d.lines) : Terminators(d, "Lf")[i] \in Newlines
    BY TerminatorsFacts
  <2>2. d.lines \in Seq(Words)
    BY DocFields
  <2>3. RendersTo(d.lines, Terminators(d, "Lf"), Rendered(d.lines, Terminators(d, "Lf")))
    BY <2>1, <2>2, RenderedFacts, Zenon
  <2>4. ToLfBytes(d) = Rendered(d.lines, Terminators(d, "Lf"))
    BY DEF ToLfBytes
  <2> QED BY <2>3, <2>4, Zenon
<1>2. /\ r \in Seq(AnyLine)
      /\ \A i \in 1..Len(r) : i \in 1..Len(d.lines) /\ r[i].text = d.lines[i]
  BY <1>1, Zenon DEF RendersTo
<1> HIDE DEF r
<1>3. /\ Len(FromBytes(r).lines) = Len(Read(r))
      /\ \A i \in 1..Len(Read(r)) : FromBytes(r).lines[i] = Read(r)[i].text
  BY <1>2, FromBytesFacts, Zenon
<1>4. Analyzed(d) = FromBytes(r).lines
  BY DEF Analyzed, r
<1>5. \A i \in 1..Len(Read(r)) :
         Read(r)[i].text = "" \/ \E j \in 1..Len(d.lines) : Read(r)[i].text = d.lines[j]
  <2>1. CASE r = <<>>
    <3>1. Len(Read(r)) = 1 /\ Read(r)[1].text = ""
      BY <1>2, <2>1, ReadFacts, Zenon
    <3>2. \A i \in 1..1 : i = 1
      OBVIOUS
    <3> QED BY <3>1, <3>2, Zenon
  <2>2. CASE r # <<>>
    <3>1. Read(r) = r
      BY <1>2, <2>2, ReadFacts, Zenon
    <3> QED BY <1>2, <3>1, Zenon
  <2> QED BY <2>1, <2>2
<1> QED BY <1>3, <1>4, <1>5, Zenon

\* Every mode delivers trimmed lines, without a separator to remove.
LEMMA DeliveredLines ==
    ASSUME PipelineInv, NEW bytes \in output
    PROVE  /\ AllTrimmed(bytes)
           /\ "normalize_semicolons" \in options => NoSeparators(bytes)
<1> DEFINE d == document
           t == Trimmed(d)
<1>1. /\ bytes = Delivered(d)
      /\ Sound(mode, options, source, d, 16)
      /\ Sound(mode, options, source, t, 16)
  BY DeliveredFacts
<1>2. /\ d \in Doc /\ d.lines # <<>> /\ t \in Doc /\ t.lines # <<>>
  BY <1>1 DEF Sound
<1>3. \A x : x \notin Separators => TrimmedText(x) \notin Separators
  BY DEF TrimmedText, Separators
<1>4. ASSUME "normalize_semicolons" \in options
      PROVE  /\ \A i \in 1..Len(d.lines) : d.lines[i] \notin Separators
             /\ \A i \in 1..Len(t.lines) : t.lines[i] \notin Separators
  <2>1. 16 > 6
    OBVIOUS
  <2> QED BY <1>1, <1>4, <2>1 DEF Sound
<1>5. Len(t.lines) = Len(d.lines) /\ \A i \in 1..Len(d.lines) : t.lines[i] = TrimmedText(d.lines[i])
  BY <1>2, TrimmedFacts, Zenon
<1>6. \A i \in 1..Len(t.lines) : TrimmedText(t.lines[i]) = t.lines[i]
  BY <1>5, TrimmedTwice, Zenon
<1> HIDE DEF d, t
<1>7. CASE mode # "Full"
  <2>1. bytes = ToBytes(t)
    BY <1>1, <1>7 DEF Delivered, t
  <2>2. \A i \in 1..Len(bytes) : i \in 1..Len(t.lines) /\ bytes[i].text = t.lines[i]
    <3>1. RendersTo(t.lines, Ends(t), bytes)
      BY <1>2, <2>1, ToBytesFacts
    <3> QED BY <3>1, Zenon DEF RendersTo
  <2> QED BY <1>4, <1>6, <2>2, Zenon DEF AllTrimmed, NoSeparators
<1>8. CASE mode = "Full"
  <2>1. bytes = ToBytes(Whitespace(d))
    BY <1>1, <1>8 DEF Delivered, Whitespace
  <2>2. \A i \in 1..Len(bytes) :
          i \in 1..Len(Analyzed(d)) /\ bytes[i].text = TrimmedText(Analyzed(d)[i])
    BY <1>2, <2>1, FullBytes, Zenon
  <2>3. AllTrimmed(bytes)
    BY <2>2, TrimmedTwice, Zenon DEF AllTrimmed
  <2>4. "" \notin Separators
    BY DEF Separators
  <2>5. \A i \in 1..Len(Analyzed(d)) :
           Analyzed(d)[i] = "" \/ \E j \in 1..Len(d.lines) : Analyzed(d)[i] = d.lines[j]
    BY <1>2, AnalyzedLines
  <2>6. "normalize_semicolons" \in options => NoSeparators(bytes)
    BY <1>3, <1>4, <2>2, <2>4, <2>5, Zenon DEF NoSeparators
  <2> QED BY <2>3, <2>6
<1> QED BY <1>7, <1>8

LEMMA SettledHolds ==
    ASSUME PipelineInv
    PROVE  ShapeSettled
<1>1. SUFFICES ASSUME NEW bytes \in output
               PROVE  LET again  == IF NormalizesWhitespace THEN FromBytes(bytes)
                                    ELSE PreserveOriginalLineEndings(FromBytes(bytes))
                          purged == IF /\ "normalize_semicolons" \in options
                                       /\ Separated(again) # again
                                    THEN CanonicalizeTail(Separated(again)) ELSE again
                      IN  Delivered(purged) = bytes
  BY DEF ShapeSettled
<1> DEFINE again  == IF NormalizesWhitespace THEN FromBytes(bytes)
                     ELSE PreserveOriginalLineEndings(FromBytes(bytes))
           purged == IF "normalize_semicolons" \in options /\ Separated(again) # again
                     THEN CanonicalizeTail(Separated(again)) ELSE again
           d == document
           t == Trimmed(d)
<1>2. /\ bytes = Delivered(d)
      /\ mode \in {"NormalizeOnly", "CanonicalizeOnly", "Full"}
      /\ source \in Seq(AnyLine) /\ IsFile(source)
      /\ Sound(mode, options, source, d, 16)
      /\ Sound(mode, options, source, t, 16)
  BY DeliveredFacts
<1>3. /\ AllTrimmed(bytes)
      /\ "normalize_semicolons" \in options => NoSeparators(bytes)
  BY DeliveredLines
<1>4. d \in Doc /\ d.lines # <<>> /\ t \in Doc /\ t.lines # <<>>
  BY <1>2 DEF Sound
<1> HIDE DEF d, t
<1>5. ToBytes(t) \in Seq(AnyLine) /\ ToBytes(Whitespace(d)) \in Seq(AnyLine)
  <2>1. ToBytes(t) \in Seq(AnyLine)
    BY <1>4, ToBytesFacts DEF RendersTo
  <2>2. ToBytes(Whitespace(d)) \in Seq(AnyLine)
    BY <1>4, FullBytes DEF Uniform
  <2> QED BY <2>1, <2>2
<1>6. bytes = IF mode = "Full" THEN ToBytes(Whitespace(d)) ELSE ToBytes(t)
  BY <1>2, Zenon DEF Delivered, Whitespace, t
<1>7. bytes \in Seq(AnyLine)
  BY <1>5, <1>6
<1>8. /\ again \in Doc
      /\ "normalize_semicolons" \in options =>
            \A i \in 1..Len(again.lines) : again.lines[i] \notin Separators
  <2> DEFINE b == FromBytes(bytes)
  <2>1. /\ b \in Doc
        /\ NoSeparators(bytes) => \A i \in 1..Len(b.lines) : b.lines[i] \notin Separators
    BY <1>3, <1>7, ReadBack, Zenon
  <2>2. PreserveOriginalLineEndings(b) \in Doc /\ PreserveOriginalLineEndings(b).lines = b.lines
    BY <2>1, EditPreserve, Zenon
  <2>3. again \in Doc /\ again.lines = b.lines
    <3>1. again = b \/ again = PreserveOriginalLineEndings(b)
      BY Zenon
    <3> HIDE DEF again, b
    <3> QED BY <2>1, <2>2, <3>1, Zenon
  <2> HIDE DEF again, b
  <2> QED BY <1>3, <2>1, <2>3, Zenon
<1>9. purged = again
  <2> HIDE DEF again
  <2>1. "normalize_semicolons" \in options => Separated(again) = again
    BY <1>8, NothingToSeparate
  <2> QED BY <2>1, Zenon
<1>10. CASE mode = "Full"
  <2>1. again = FromBytes(bytes)
    BY <1>10 DEF NormalizesWhitespace
  <2>2. bytes = ToBytes(Whitespace(d))
    BY <1>6, <1>10
  <2>3. /\ Uniform(d.newline, bytes)
        /\ bytes # <<>> => Last(bytes).newline = d.newline
        /\ Len(bytes) > 1 => Last(bytes).text # ""
    BY <1>4, <2>2, FullBytes, Zenon
  <2>4. EndsOnce(d.newline, bytes)
    BY <2>3, Zenon DEF EndsOnce
  <2>5. d.newline \in {"Lf", "CrLf"}
    BY <1>4, DocFields
  <2>6. ToBytes(Whitespace(FromBytes(bytes))) = bytes
    BY <1>3, <2>3, <2>4, <2>5, FullAgain, Zenon
  <2>7. Delivered(again) = ToBytes(Whitespace(again))
    BY <1>10 DEF Delivered, Whitespace
  <2> HIDE DEF again, purged
  <2>8. Delivered(purged) = bytes
    BY <1>9, <2>1, <2>6, <2>7
  <2> QED BY <2>8 DEF again, purged
<1>11. CASE mode = "NormalizeOnly"
  <2>1. again = FromBytes(bytes)
    BY <1>11 DEF NormalizesWhitespace
  <2>2. bytes = ToBytes(t)
    BY <1>6, <1>11
  <2>3. ~t.preserve_line_endings
    BY <1>2, <1>11 DEF Sound
  <2>4. Uniform(t.newline, bytes)
    BY <1>4, <2>2, <2>3, WrittenUniform
  <2>5. t.newline \in {"Lf", "CrLf"}
    BY <1>4, DocFields
  <2>6. ToBytes(Trimmed(FromBytes(bytes))) = bytes
    BY <1>3, <2>4, <2>5, NormalizedAgain
  <2>7. Delivered(again) = ToBytes(Trimmed(again))
    BY <1>11 DEF Delivered
  <2> HIDE DEF again, purged
  <2>8. Delivered(purged) = bytes
    BY <1>9, <2>1, <2>6, <2>7
  <2> QED BY <2>8 DEF again, purged
<1>12. CASE mode = "CanonicalizeOnly"
  <2>1. again = PreserveOriginalLineEndings(FromBytes(bytes))
    BY <1>12 DEF NormalizesWhitespace
  <2>2. bytes = ToBytes(t)
    BY <1>6, <1>12
  <2>3. EndingsOf(source, t)
    BY <1>2, <1>12 DEF Sound
  <2>4. ToBytes(Trimmed(PreserveOriginalLineEndings(FromBytes(bytes)))) = bytes
    BY <1>2, <1>3, <1>4, <2>2, <2>3, CanonicalizedAgain
  <2>5. Delivered(again) = ToBytes(Trimmed(again))
    BY <1>12 DEF Delivered
  <2> HIDE DEF again, purged
  <2>6. Delivered(purged) = bytes
    BY <1>9, <2>1, <2>4, <2>5
  <2> QED BY <2>6 DEF again, purged
<1> QED BY <1>2, <1>10, <1>11, <1>12

\* What a run delivers, a second run with nothing more to join or remove
\* delivers as it is, terminators and all, in every mode and for files of any
\* number of lines (semicolons.rs, layout_post/output.rs).
THEOREM SettledCorrect == Spec => []ShapeSettled
<1>1. PipelineInv => ShapeSettled
  BY SettledHolds
<1> QED BY <1>1, PipelineKept, PTL
=============================================================================
