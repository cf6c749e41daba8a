----------------------------- MODULE EditBuffer -----------------------------
(***************************************************************************)
(* The replacements a rule makes in one line (src/src/transform/edit.rs).  *)
(* Rules ask for byte ranges to be replaced, in any order; finish sorts    *)
(* the requests by where they start, keeping the order of those that start *)
(* at one offset, and copies the line around them.  A request that starts  *)
(* inside a range already replaced is left out.                            *)
(***************************************************************************)
EXTENDS Integers, Sequences, FiniteSets

CONSTANTS Byte,       \* bytes
          Lines,      \* the lines to edit
          Inserts,    \* the texts a rule may put in
          MaxRequests \* bound on the number of requests

ASSUME EditAssumption == /\ Lines \subseteq Seq(Byte) /\ Inserts \subseteq Seq(Byte)
                         /\ MaxRequests \in Nat

VARIABLES
    line,     \* EditBuffer::source
    edits,    \* the requests taken
    skipped,  \* the number left out
    order,    \* the requests in the order finish applies them
    next,     \* position in order
    cursor,   \* number of bytes of the line done with
    out,      \* the new line
    applied,  \* history: the requests applied
    pc        \* "asking", "splicing" or "done"

editVars == <<line, edits, skipped, order, next, cursor, out, applied, pc>>

Edits == [start : Nat, end : Nat, text : Inserts]

\* The new line is told by where each part of it comes from: a byte of the
\* line, by its offset from 0, or the text of a request.
Parts == [from : {"line", "edit"}, at : Nat]

EInit ==
    /\ line \in Lines
    /\ edits = <<>> /\ skipped = 0
    /\ order = <<>> /\ next = 1 /\ cursor = 0 /\ out = <<>> /\ applied = {}
    /\ pc = "asking"

OutOfRange(a, b) == a > b \/ b > Len(line)

\* EditBuffer::replace; insert and delete are special cases.
Replace(a, b, text) ==
    /\ pc = "asking" /\ Len(edits) + skipped < MaxRequests
    /\ IF OutOfRange(a, b)
       THEN skipped' = skipped + 1 /\ UNCHANGED edits
       ELSE /\ edits' = IF SubSeq(line, a + 1, b) = text THEN edits
                        ELSE Append(edits, [start |-> a, end |-> b, text |-> text])
            /\ UNCHANGED skipped
    /\ UNCHANGED <<line, order, next, cursor, out, applied, pc>>

\* Mutant: requests that start at one offset come in any order.
Precedes_Unstable(i, j) == edits[i].start <= edits[j].start

\* A stable sort by the start.
Precedes(i, j) ==
    \/ edits[i].start < edits[j].start
    \/ edits[i].start = edits[j].start /\ i < j

Requests == 1..Len(edits)

Orders == {f \in [Requests -> Requests] :
              \A m, n \in Requests : m < n => f[m] # f[n] /\ Precedes(f[m], f[n])}

\* finish sorts first.
Sort ==
    /\ pc = "asking"
    /\ order' \in Orders
    /\ pc' = "splicing"
    /\ UNCHANGED <<line, edits, skipped, next, cursor, out, applied>>

\* Mutant: no request is left out.
Overlaps_Never(e) == FALSE

\* The request starts in a range already replaced.
Overlaps(e) == e.start < cursor

\* Mutant: one byte too many.
Copied_OneMore(a, b) == [k \in 1..b - a + 1 |-> [from |-> "line", at |-> a + k - 1]]

\* The bytes of the line from offset a up to offset b.
Copied(a, b) == [k \in 1..b - a |-> [from |-> "line", at |-> a + k - 1]]

\* One request of the loop in finish.
Splice ==
    /\ pc = "splicing" /\ next <= Len(edits)
    /\ LET i == order[next] IN
       IF Overlaps(edits[i])
       THEN skipped' = skipped + 1 /\ UNCHANGED <<cursor, out, applied>>
       ELSE /\ out' = Append(out \o Copied(cursor, edits[i].start),
                             [from |-> "edit", at |-> i])
            /\ cursor' = edits[i].end
            /\ applied' = applied \cup {i}
            /\ UNCHANGED skipped
    /\ next' = next + 1
    /\ UNCHANGED <<line, edits, order, pc>>

\* The rest of the line follows.
Rest ==
    /\ pc = "splicing" /\ next > Len(edits)
    /\ out' = out \o Copied(cursor, Len(line))
    /\ pc' = "done"
    /\ UNCHANGED <<line, edits, skipped, order, next, cursor, applied>>

ENext ==
    \/ \E a, b \in 0..Len(line) + 1, text \in Inserts : Replace(a, b, text)
    \/ Sort \/ Splice \/ Rest

ESpec == EInit /\ [][ENext]_editVars

-----------------------------------------------------------------------------
(* Properties. *)

ETypeOK ==
    /\ line \in Seq(Byte) /\ edits \in Seq(Edits) /\ skipped \in Nat
    /\ \A i \in Requests : edits[i].start <= edits[i].end /\ edits[i].end <= Len(line)
    /\ pc \in {"asking", "splicing", "done"}
    /\ pc # "asking" => order \in Orders
    /\ next \in 1..Len(edits) + 1 /\ cursor \in 0..Len(line)
    /\ out \in Seq(Parts) /\ applied \subseteq Requests

Covers(i, p) == edits[i].start <= p /\ p < edits[i].end

\* Every byte that no applied request names is in the new line, once and in its
\* place among the others, and no other byte of the line is.  (edit.rs: "so
\* every byte it did not name survives untouched".)
SurvivorsKept ==
    pc = "done" =>
        /\ \A p \in 0..Len(line) - 1 :
              (\E k \in 1..Len(out) : out[k] = [from |-> "line", at |-> p])
                <=> (\A i \in applied : ~Covers(i, p))
        /\ \A k, l \in 1..Len(out) :
              (k < l /\ out[k].from = "line" /\ out[l].from = "line")
                => out[k].at < out[l].at

\* A text is put in where the line holds what it replaces, after every byte in
\* front of its range and before every byte behind it; and no two requests that
\* were applied replace the same byte.  (edit.rs: "two rules disagreeing must
\* not produce a scrambled line".)
TextsInPlace ==
    /\ \A i, j \in applied : i = j \/ edits[i].end <= edits[j].start
                                   \/ edits[j].end <= edits[i].start
    /\ pc = "done" => \A k, l \in 1..Len(out) :
          (out[k].from = "line" /\ out[l].from = "edit") =>
              /\ k < l => out[k].at < edits[out[l].at].start
              /\ l < k => out[k].at >= edits[out[l].at].end

\* Requests that do not disagree.
Apart(i, j) == edits[i].end <= edits[j].start \/ edits[j].end <= edits[i].start

\* Rules that do not disagree all have their way, in whatever order they ask;
\* but an insertion must be asked for before a replacement that starts there.
\* Texts put in at one offset stay in the order they were asked for.
AgreeingApplied ==
    pc = "done" =>
        /\ (\A i, j \in Requests : i < j =>
                Apart(i, j) /\ (edits[i].start = edits[j].start => edits[i].end = edits[i].start))
              => applied = Requests
        /\ \A k, l \in 1..Len(out) :
              (k < l /\ out[k].from = "edit" /\ out[l].from = "edit") =>
                  Precedes(out[k].at, out[l].at)
=============================================================================
