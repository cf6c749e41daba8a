---------------------------- MODULE SourceLines ----------------------------
(***************************************************************************)
(* A document read line by line: the buffer that classifies its physical   *)
(* lines (src/src/source/buffer.rs) and the groups that join them into     *)
(* statements (src/src/source/logical_statement.rs).                       *)
(*                                                                         *)
(* Ordinary code and conditional-compilation code (`!$ `) are two streams: *)
(* each carries what it left open past the lines of the other.  The code   *)
(* assembles the groups after the buffer is complete; a group looks at no  *)
(* line before its turn, so both advance together here.                    *)
(***************************************************************************)
EXTENDS LineLexer, FiniteSets

CONSTANTS Lines,     \* the physical lines a document may hold
          MaxLines   \* bound on their number

ASSUME LinesAssumption == Lines \subseteq Seq(Bytes) /\ MaxLines \in Nat \ {0}

VARIABLES
    read,     \* number of lines read
    buffer,   \* per stream: the lexical state, and whether it is continued
    last,     \* the physical line read last
    group,    \* the logical group being assembled
    chain     \* history, per stream: the bytes since its state was last clean

sourceVars == <<read, buffer, last, group, chain>>

LineKinds == {"Blank", "Comment", "Code", "Preprocessor", "FindentFix"}

\* Shapes of source the readers do not all read alike (history of a group).
Shapes == {"bare resume",    \* a literal goes on without a leading `&`
           "two streams",    \* a line of the other stream
           "split head",     \* a name split before a Hollerith head
           "open before"}    \* a stream was open when the group began
-----------------------------------------------------------------------------
(* SourceBuffer::line *)

StreamOf(states, s) ==
    IF \/ Prefix(s) = "BlankSeparated"
       \/ Prefix(s) = "CompactContinuation" /\ states["Conditional"].continued
    THEN "Conditional"
    ELSE "Ordinary"

IsFix(s) == LET at == FirstInk(s) IN
    s[at] = Bang /\ StartsWith(From(s, at + 1), Fix)

KindOf(stream, s) ==
    IF FirstInk(s) > Len(s) THEN "Blank"
    ELSE IF stream = "Conditional" THEN "Code"
    ELSE IF s[FirstInk(s)] \in {Hash, Coco} THEN "Preprocessor"
    ELSE IF s[FirstInk(s)] # Bang THEN "Code"
    ELSE IF IsFix(s) THEN "FindentFix" ELSE "Comment"

\* The physical line s after states: where its code starts, the region of
\* every code byte, its comment (0 if none), and the state of its stream.
PhysicalLine(states, s) ==
    LET stream == StreamOf(states, s)
        kind   == KindOf(stream, s)
        start  == IF stream = "Conditional" THEN BodyStart(s) ELSE FirstInk(s)
        state  == states[stream]
        lexed  == kind \in {"Code", "FindentFix"}
        transparent == /\ lexed /\ stream = "Conditional"
                       /\ ~Resumes(state.lex, From(s, start))
        scan   == StreamLine(state.lex, From(s, start), stream)
    IN [bytes |-> s, stream |-> stream, kind |-> kind, start |-> start,
        transparent |-> transparent,
        regions   |-> IF lexed THEN scan.kinds ELSE <<>>,
        comment   |-> IF lexed /\ scan.comment > 0
                      THEN start - 1 + scan.comment ELSE 0,
        continues |-> lexed /\ scan.continued,
        state     |-> IF ~lexed \/ transparent THEN state
                      ELSE [lex |-> scan.lex, continued |-> scan.continued]]

\* The region byte i of line p belongs to.
RegionAt(p, i) ==
    IF i - p.start + 1 \in DOMAIN p.regions
    THEN p.regions[i - p.start + 1] ELSE "None"

CodeEnd(p)   == IF p.comment > 0 THEN p.comment - 1 ELSE Len(p.bytes)
CodeBytes(p) == SubSeq(p.bytes, p.start, CodeEnd(p))

\* History: everything its stream left open before line p, and line p.
ChainWith(p) == chain[p.stream] \o From(p.bytes, p.start)
-----------------------------------------------------------------------------
(* LogicalGroup::visit *)

\* normalized_fragment: the part of line p that is text of the statement,
\* without the markers that join it to its neighbours.
Fragment(p, joins) ==
    LET s      == CodeBytes(p)
        marker == joins /\ StartsWith(s, Amp)
        first  == FirstInk(s) + IF marker THEN 1 ELSE 0
        end    == LastInk(s)
    IN [marker |-> marker,
        first  |-> p.start - 1 + first,
        end    |-> p.start - 1 +
                   IF p.continues /\ end >= first /\ s[end] = Amp
                   THEN end - 1 ELSE end]

\* Mutant: no blank stands for the line break.
Joined_Glued(text, p, joins) ==
    LET f == Fragment(p, joins)
        piece == [i \in 1..(f.end - f.first + 1) |->
                    [byte   |-> p.bytes[f.first + i - 1],
                     region |-> RegionAt(p, f.first + i - 1)]]
    IN IF f.end < f.first THEN text ELSE text \o piece

\* The statement text with the fragment of line p appended: each byte with the
\* region its own line gives it.
Joined(text, p, joins) ==
    LET f == Fragment(p, joins)
        piece == [i \in 1..(f.end - f.first + 1) |->
                    [byte   |-> p.bytes[f.first + i - 1],
                     region |-> RegionAt(p, f.first + i - 1)]]
        space == IF joins /\ ~f.marker
                 THEN <<[byte |-> Blank, region |-> "None"]>> ELSE <<>>
    IN IF f.end < f.first THEN text ELSE text \o space \o piece

\* A code line of a group that is not part of its statement.
Skipped(p) == p.kind \in {"Preprocessor", "Comment", "Blank"}

\* What the group still waits for after a line of a continued statement.
OpenAfter(open, p) ==
    IF Skipped(p) THEN open ELSE IF p.continues THEN "code" ELSE "no"

DirectiveMarker(s) == IF StartsWith(s, Coco) THEN Amp ELSE Backslash

\* The shapes line p adds to a group with this text.
ShapesOf(p, text) ==
    {sh \in Shapes :
       \/ /\ sh = "bare resume" /\ ~Skipped(p)
          /\ ~Resumes(buffer[p.stream].lex, From(p.bytes, p.start))
       \/ sh = "two streams" /\ ~Skipped(p) /\ p.stream # group.stream
       \/ /\ sh = "split head" /\ ~Skipped(p) /\ text # <<>>
          /\ text[Len(text)].byte \in InName
          /\ Fragment(p, TRUE).marker
          /\ p.bytes[Fragment(p, TRUE).first] = Hollerith}

\* The group line p opens.
GroupOf(p) ==
    [stream   |-> p.stream,
     code     |-> p.kind \in {"Code", "FindentFix"},
     eligible |-> p.kind \in {"Code", "FindentFix"},
     text     |-> IF p.kind = "Code" THEN Joined(<<>>, p, FALSE) ELSE <<>>,
     open     |-> IF p.kind \in {"Blank", "Comment"} THEN "no"
                  ELSE IF p.kind # "Preprocessor" THEN OpenAfter("no", p)
                  ELSE IF EndsWith(p.bytes, DirectiveMarker(p.bytes))
                  THEN DirectiveMarker(p.bytes) ELSE "no",
     shapes   |-> IF \E st \in Streams : buffer[st].lex # Clean
                  THEN {"open before"} ELSE {}]

\* The group after line p joins it.
GroupWith(p) ==
    IF group.open # "code"
    THEN [group EXCEPT !.open = IF EndsWith(CodeBytes(p), @) THEN @ ELSE "no"]
    ELSE [group EXCEPT
            !.open     = OpenAfter(@, p),
            !.eligible = @ /\ ~Skipped(p),
            !.text     = IF Skipped(p) THEN @ ELSE Joined(@, p, TRUE),
            !.shapes   = @ \cup ShapesOf(p, group.text)]

\* No group is open: the next line starts one.
AtBoundary == group.open = "no"
-----------------------------------------------------------------------------
NoLine == [bytes |-> <<>>, stream |-> "Ordinary", kind |-> "Blank", start |-> 1,
           transparent |-> FALSE, regions |-> <<>>, comment |-> 0,
           continues |-> FALSE, state |-> [lex |-> Clean, continued |-> FALSE]]

NoGroup == [stream |-> "Ordinary", code |-> FALSE, eligible |-> FALSE,
            text |-> <<>>, open |-> "no", shapes |-> {}]

Init ==
    /\ read = 0
    /\ buffer = [st \in Streams |-> [lex |-> Clean, continued |-> FALSE]]
    /\ last = NoLine
    /\ group = NoGroup
    /\ chain = [st \in Streams |-> <<>>]

\* Line p is read and joins a group or starts one.
Take(p) ==
    /\ read' = read + 1
    /\ buffer' = [buffer EXCEPT ![p.stream] = p.state]
    /\ last' = p
    /\ group' = IF AtBoundary THEN GroupOf(p) ELSE GroupWith(p)
    /\ chain' = IF p.kind # "Code" \/ p.transparent THEN chain
                ELSE [chain EXCEPT ![p.stream] =
                        IF p.state.lex = Clean THEN <<>> ELSE ChainWith(p)]

Read(s) ==
    /\ read < MaxLines
    /\ Take(PhysicalLine(buffer, s))

Next == \E s \in Lines : Read(s)

Spec == Init /\ [][Next]_sourceVars
=============================================================================
