------------------------------ MODULE Document ------------------------------
(***************************************************************************)
(* The mutable text of a formatting run (src/src/transform/document.rs): a *)
(* list of lines, the terminator policy, and the authored terminators.     *)
(*                                                                         *)
(* A file is the sequence of its lines with their terminators.  Only the   *)
(* last may have none, and is then not empty: an empty line without        *)
(* terminator leaves no byte.                                              *)
(***************************************************************************)
EXTENDS Naturals, Sequences, FiniteSetsExt, SequencesExt

CONSTANT Texts  \* what a line may hold; "" is the empty line

Newlines == {"Lf", "CrLf", "None"}

Line == [text : Texts, newline : Newlines]

IsFile(file) == \A i \in 1..Len(file) :
    file[i].newline = "None" => i = Len(file) /\ file[i].text # ""

Documents == [lines : Seq(Texts), newline : {"Lf", "CrLf"},
              trailing_newline : BOOLEAN, line_endings : Seq(Newlines),
              preserve_line_endings : BOOLEAN]

Count(file, newline) == Cardinality({i \in 1..Len(file) : file[i].newline = newline})

\* Document::from_bytes
FromBytes(file) ==
    LET open == Count(file, "None") > 0
        read == IF file = <<>> THEN <<[text |-> "", newline |-> "None"]>> ELSE file
    IN  [lines |-> [i \in 1..Len(read) |-> read[i].text],
         newline |-> IF Count(file, "CrLf") > Count(file, "Lf") THEN "CrLf" ELSE "Lf",
         trailing_newline |-> file # <<>> /\ ~open,
         line_endings |-> [i \in 1..Len(read) |-> read[i].newline],
         preserve_line_endings |-> FALSE]

\* The bytes of lines under their terminators.
Rendered(lines, endings) ==
    LET all == [i \in 1..Len(lines) |-> [text |-> lines[i], newline |-> endings[i]]]
    IN  IF lines # <<>> /\ Last(all) = [text |-> "", newline |-> "None"]
        THEN Front(all) ELSE all

ExactLineEndings(d) ==
    d.preserve_line_endings /\ Len(d.line_endings) = Len(d.lines)

\* One terminator for all lines, and the policy for the last.
Terminators(d, newline) ==
    [i \in 1..Len(d.lines) |->
        IF i < Len(d.lines) \/ d.trailing_newline THEN newline ELSE "None"]

ToBytes(d) == Rendered(d.lines, IF ExactLineEndings(d) THEN d.line_endings
                                ELSE Terminators(d, d.newline))

\* Document::to_lf_bytes: what the engine and the analysis read.
ToLfBytes(d) == Rendered(d.lines, Terminators(d, "Lf"))

\* The lines of a source buffer made from it.
Analyzed(d) == FromBytes(ToLfBytes(d)).lines

PreserveOriginalLineEndings(d) == [d EXCEPT !.preserve_line_endings = TRUE]

SetLines(d, lines) ==
    [d EXCEPT !.lines = lines,
              !.preserve_line_endings = @ /\ Len(lines) = Len(d.lines)]

HasEmptyTail(d) == ~d.trailing_newline /\ Len(d.lines) > 1 /\ Last(d.lines) = ""

\* Mutant: the terminators are left as they were.
CanonicalizeTail_LinesOnly(d) ==
    IF HasEmptyTail(d)
    THEN [d EXCEPT !.lines = Front(@), !.trailing_newline = TRUE] ELSE d

\* Document::canonicalize_empty_unterminated_tail
CanonicalizeTail(d) ==
    IF HasEmptyTail(d)
    THEN [d EXCEPT !.lines = Front(@), !.line_endings = Front(@),
                   !.trailing_newline = TRUE]
    ELSE d
=============================================================================
