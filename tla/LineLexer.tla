----------------------------- MODULE LineLexer -----------------------------
(***************************************************************************)
(* The protected-region walker (src/src/source/regions.rs): which bytes of *)
(* a line are code, and which belong to a character literal, a Hollerith   *)
(* constant or a comment.                                                  *)
(*                                                                         *)
(* A line is a sequence of bytes, a byte one of the classes the walker     *)
(* tells apart.  `nH` of a Hollerith constant is one element, "1H", and    *)
(* its payload is the one byte after it.                                   *)
(***************************************************************************)
EXTENDS Integers, Sequences

Name      == "x"    \* a letter, a digit or an underscore
Amp       == "&"
Bang      == "!"
Blank     == " "    \* horizontal white space
Hollerith == "1H"
Quotes    == {"'", "\""}
Hash      == "#"    \* opens a cpp directive
Coco      == "??"   \* opens a coco directive
Backslash == "\\"
Dollar    == "$"
Fix       == "findentfix:"
NoQuote   == "none"

Bytes == {Name, Amp, Bang, Blank, Hollerith, Hash, Coco, Backslash, Dollar, Fix}
            \cup Quotes

Streams == {"Ordinary", "Conditional"}

\* LexState: the open delimiter, and the payload bytes still owed.
LexStates == [quote : Quotes \cup {NoQuote}, hollerith : {0, 1}]

Clean == [quote |-> NoQuote, hollerith |-> 0]

RegionKinds == {"Code", "StringLiteral", "Comment", "Hollerith"}
Protected   == {"StringLiteral", "Hollerith"}

InLiteral(lex) == lex.quote # NoQuote

\* The bytes that end in a letter, a digit or an underscore.
InName == {Name, Hollerith}
-----------------------------------------------------------------------------
(* Shape of a line. *)

\* The first and the last byte of s that is not blank; out of s if none is.
FirstInk(s) ==
    IF \E i \in DOMAIN s : s[i] # Blank
    THEN CHOOSE i \in DOMAIN s : s[i] # Blank /\ \A j \in 1..(i-1) : s[j] = Blank
    ELSE Len(s) + 1

LastInk(s) ==
    IF \E i \in DOMAIN s : s[i] # Blank
    THEN CHOOSE i \in DOMAIN s :
           s[i] # Blank /\ \A j \in (i+1)..Len(s) : s[j] = Blank
    ELSE 0

From(s, i)      == SubSeq(s, i, Len(s))
StartsWith(s, b) == FirstInk(s) <= Len(s) /\ s[FirstInk(s)] = b
EndsWith(s, b)   == LastInk(s) > 0 /\ s[LastInk(s)] = b

\* How a line is marked as conditional compilation: `!$ `, `!$&`, or not.
Prefix(s) ==
    LET at == FirstInk(s)
    IN IF \/ Len(s) < at + 2
          \/ s[at] # Bang
          \/ s[at + 1] # Dollar
       THEN "None"
       ELSE IF s[at + 2] = Blank THEN "BlankSeparated"
       ELSE IF s[at + 2] = Amp THEN "CompactContinuation"
       ELSE "None"

\* The first byte of the Fortran body behind the sentinel; a compact sentinel
\* leaves its `&` to the body.
BodyStart(s) == FirstInk(s) + IF Prefix(s) = "BlankSeparated" THEN 3 ELSE 2

\* A continued statement steps over blanks, comments and directives.
SteppedOver(s) ==
    \/ FirstInk(s) > Len(s)
    \/ s[FirstInk(s)] \in {Hash, Coco}
    \/ s[FirstInk(s)] = Bang /\ Prefix(s) # "BlankSeparated"
-----------------------------------------------------------------------------
(* The walk over one slice. *)

\* The walk before byte i: what is open, whether the last byte was a delimiter
\* that closes the literal unless it is doubled, and the kinds so far.
Region(walk, kind) == [walk EXCEPT !.kinds = Append(@, kind)]

\* A byte met in code.  A Hollerith head counts only where no name ends.
CodeByte(walk, s, i) ==
    LET free == [walk EXCEPT !.quote = NoQuote, !.half = FALSE]
    IN IF s[i] \in Quotes
       THEN Region([free EXCEPT !.quote = s[i]], "StringLiteral")
       ELSE IF s[i] = Bang
       THEN Region([free EXCEPT !.comment = i], "Comment")
       ELSE IF s[i] = Hollerith /\ (i = 1 \/ s[i - 1] \notin InName)
       THEN Region([free EXCEPT !.hollerith = 1], "Hollerith")
       ELSE Region(free, "Code")

LiteralByte(walk, s, i) ==
    IF ~walk.half
    THEN Region([walk EXCEPT !.half = s[i] = walk.quote], "StringLiteral")
    ELSE IF s[i] = walk.quote
    THEN Region([walk EXCEPT !.half = FALSE], "StringLiteral")
    ELSE CodeByte(walk, s, i)

WalkByte(walk, s, i) ==
    IF walk.comment > 0 THEN Region(walk, "Comment")
    ELSE IF walk.hollerith > 0
    THEN Region([walk EXCEPT !.hollerith = @ - 1], "Hollerith")
    ELSE IF walk.quote # NoQuote THEN LiteralByte(walk, s, i)
    ELSE CodeByte(walk, s, i)

Walk(lex, s) ==
    LET walk[i \in 0..Len(s)] ==
            IF i = 0
            THEN [quote |-> lex.quote, hollerith |-> lex.hollerith,
                  half |-> FALSE, comment |-> 0, kinds |-> <<>>]
            ELSE WalkByte(walk[i - 1], s, i)
    IN walk[Len(s)]

\* LexState::scan: the kind of every byte and the state left behind.
Scan(lex, s) ==
    LET walk == Walk(lex, s)
    IN [kinds   |-> walk.kinds,
        comment |-> walk.comment,
        lex     |-> [quote     |-> IF walk.half THEN NoQuote ELSE walk.quote,
                     hollerith |-> walk.hollerith]]

\* Mutant: the very last byte, blank or not.
Continued_LastByte(s, scan) ==
    /\ s # <<>> /\ s[Len(s)] = Amp
    /\ \/ scan.kinds[Len(s)] = "Code"
       \/ scan.kinds[Len(s)] = "StringLiteral" /\ InLiteral(scan.lex)

\* scan_line: the last byte in ink before a comment is an `&` of code, or of a
\* literal still open.
Continued(s, scan) ==
    LET inked == {i \in DOMAIN s : s[i] # Blank /\ scan.kinds[i] # "Comment"}
    IN \E i \in inked :
         /\ \A j \in inked : j <= i
         /\ s[i] = Amp
         /\ \/ scan.kinds[i] = "Code"
            \/ scan.kinds[i] = "StringLiteral" /\ InLiteral(scan.lex)

\* Mutant: every line is scanned afresh.
ScanLine_Afresh(lex, s) ==
    LET scan == Scan(Clean, s)
    IN [kinds |-> scan.kinds, comment |-> scan.comment,
        continued |-> Continued(s, scan),
        lex |-> IF Continued(s, scan) THEN scan.lex ELSE Clean]

\* Only a continuation marker carries the state into the next line.
ScanLine(lex, s) ==
    LET scan == Scan(lex, s)
    IN [kinds |-> scan.kinds, comment |-> scan.comment,
        continued |-> Continued(s, scan),
        lex |-> IF Continued(s, scan) THEN scan.lex ELSE Clean]

\* scan_group_line: a raw line of a continuation group; no kinds if stepped
\* over.
GroupLine(lex, s) ==
    IF lex # Clean /\ SteppedOver(s)
    THEN [kinds |-> <<>>, comment |-> 0, lex |-> lex, continued |-> FALSE]
    ELSE ScanLine(lex, s)

\* A literal resumes only on a body that opens with `&`.
Resumes(lex, body) == InLiteral(lex) => StartsWith(body, Amp)

\* advance_stream_line.  A conditional body that cannot resume the literal is
\* transparent: it says only whether it continues.
StreamLine(lex, body, stream) ==
    IF stream = "Ordinary" THEN GroupLine(lex, body)
    ELSE IF Resumes(lex, body) THEN ScanLine(lex, body)
    ELSE [kinds |-> <<>>, comment |-> 0, lex |-> lex,
          continued |-> ScanLine(Clean, body).continued]
=============================================================================
