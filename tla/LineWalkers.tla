---------------------------- MODULE LineWalkers ----------------------------
(***************************************************************************)
(* The passes that walk the physical lines of a document with a lexical    *)
(* state of their own, beside the SourceBuffer all of them should agree    *)
(* with: trailing-whitespace trimming (layout_post/output.rs), the search  *)
(* for a comment the wrapper may detach (full/reflow/mod.rs), and the      *)
(* continuation-marker rule of step 12 (continuations.rs).                 *)
(*                                                                         *)
(* In the program each pass is a loop over the whole document.  A step     *)
(* here takes one line through every loop, so that what they make of the   *)
(* same line can be compared.                                              *)
(***************************************************************************)
EXTENDS SourceLines

VARIABLES
    trim,      \* per stream: the state of the trimmer
    kept,      \* how many bytes of the last line trimming kept
    wrap,      \* per stream: the state of the comment search, per group
    found,     \* where it found a comment on the last line, 0 if nowhere
    step12,    \* its single state, whether a line is owed, the stream it is in
    marks,     \* which markers of the last line step 12 may rewrite
    odd        \* history: shapes of the document the trimmer reads otherwise

walkerVars == <<trim, kept, wrap, found, step12, marks, odd>>
vars == <<sourceVars, walkerVars>>

\* History values of `odd`.
OddShapes == {"compact",           \* a conditional line with a compact sentinel
              "resume",            \* a literal resumed without `&`
              "open directive",    \* a directive that ends in an open literal
              "both streams"}      \* both streams left open at once
-----------------------------------------------------------------------------
(* trim_trailing_horizontal over StreamLexStates *)

\* Without statement context a compact sentinel is left to the ordinary stream.
TrimStream(s) == IF Prefix(s) = "BlankSeparated" THEN "Conditional" ELSE "Ordinary"

TrimStart(s) == IF Prefix(s) = "BlankSeparated" THEN BodyStart(s) ELSE 1

TrimScan(s) == GroupLine(trim[TrimStream(s)], From(s, TrimStart(s)))

\* Mutant: a Hollerith payload is not protected.
Floor_LiteralsOnly(s) ==
    LET scan == TrimScan(s)
        held == {i \in DOMAIN scan.kinds : scan.kinds[i] = "StringLiteral"}
    IN IF held = {} THEN 0
       ELSE TrimStart(s) - 1 + CHOOSE i \in held : \A j \in held : j <= i

\* The end of the last protected region: no blank before it is trimmed.
Floor(s) ==
    LET scan == TrimScan(s)
        held == {i \in DOMAIN scan.kinds : scan.kinds[i] \in Protected}
    IN IF held = {} THEN 0
       ELSE TrimStart(s) - 1 + CHOOSE i \in held : \A j \in held : j <= i

Trim(s) ==
    /\ kept' = IF LastInk(s) > Floor(s) THEN LastInk(s) ELSE Floor(s)
    /\ trim' = [trim EXCEPT ![TrimStream(s)] = TrimScan(s).lex]
-----------------------------------------------------------------------------
(* stream_comment_start over the lines of one group *)

\* Every group is searched from clean states.
SearchStates == IF AtBoundary THEN [st \in Streams |-> Clean] ELSE wrap

\* Mutant: the sentinel is scanned with its line.
SearchStart_Raw(p) == 1

SearchStart(p) == IF p.stream = "Conditional" THEN p.start ELSE 1

SearchComment(p) ==
    LET lex  == SearchStates[p.stream]
        body == From(p.bytes, SearchStart(p))
        scan == GroupLine(lex, body)
    IN IF Resumes(lex, body)
       THEN /\ found' = IF scan.comment > 0
                        THEN SearchStart(p) - 1 + scan.comment ELSE 0
            /\ wrap' = [SearchStates EXCEPT ![p.stream] = scan.lex]
       ELSE /\ found' = 0
            /\ wrap' = SearchStates
-----------------------------------------------------------------------------
(* normalize_continuations *)

\* A line that carries no statement, or one of the stream not being continued.
PassedOver(p) ==
    p.kind # "Code" \/ (step12.open # "none" /\ step12.open # p.stream)

\* Mutant: only the state the line leaves behind is asked about.
MayRewrite_AfterOnly(lex, after) == after = Clean

\* No marker is touched on a line that a literal or a payload enters or leaves.
MayRewrite(lex, after) ==
    /\ ~InLiteral(lex) /\ lex.hollerith = 0
    /\ ~InLiteral(after) /\ after.hollerith = 0

\* Whether the neighbouring line splits a word with this one also matters in
\* the code; it only keeps markers, and every marker counts here.
NormalizeMarkers(p) ==
    LET scan == Scan(step12.lex, From(p.bytes, p.start))
        continued == Continued(From(p.bytes, p.start), scan)
        may == MayRewrite(step12.lex, scan.lex)
    IN IF PassedOver(p)
       THEN /\ marks' = {}
            /\ UNCHANGED step12
       ELSE /\ marks' = {m \in {"leading", "trailing"} :
                           may /\ (m = "leading" => step12.continuation)
                               /\ (m = "trailing" => continued)}
            /\ step12' = [continuation |-> continued,
                          lex  |-> IF continued THEN scan.lex ELSE Clean,
                          open |-> IF continued THEN p.stream ELSE "none"]

\* The marker byte of line p, 0 if there is none.
MarkerAt(p, mark) ==
    LET code == CodeBytes(p)
        at   == IF mark = "leading" THEN FirstInk(code) ELSE LastInk(code)
    IN IF at \in DOMAIN code /\ code[at] = Amp THEN p.start - 1 + at ELSE 0
-----------------------------------------------------------------------------
\* A stream in this state is left open: it is continued, or a fix line cut it
\* off within a literal.
Open(state) == state.continued \/ state.lex # Clean

\* Stream st is waited for, by the buffer or, past a fix line, by step 12 only.
Awaited(st) == Open(buffer[st]) \/ step12.open = st

OddOf(p) ==
    {o \in OddShapes :
       \/ o = "compact" /\ p.stream = "Conditional"
                        /\ Prefix(p.bytes) = "CompactContinuation"
       \/ o = "resume" /\ p.kind = "Code"
                       /\ ~Resumes(buffer[p.stream].lex, From(p.bytes, p.start))
       \/ o = "open directive" /\ p.kind = "Preprocessor"
                               /\ ScanLine(Clean, p.bytes).lex # Clean
       \/ o = "both streams" /\ Open(p.state)
                             /\ \E st \in Streams \ {p.stream} : Awaited(st)}

WInit ==
    /\ Init
    /\ trim = [st \in Streams |-> Clean]
    /\ kept = 0
    /\ wrap = [st \in Streams |-> Clean]
    /\ found = 0
    /\ step12 = [lex |-> Clean, continuation |-> FALSE, open |-> "none"]
    /\ marks = {}
    /\ odd = {}

\* One line through the buffer, the group and every pass.
WalkLine(s) ==
    LET p == PhysicalLine(buffer, s)
    IN /\ read < MaxLines
       /\ Take(p)
       /\ Trim(s)
       /\ SearchComment(p)
       /\ NormalizeMarkers(p)
       /\ odd' = odd \cup OddOf(p)

WNext == \E s \in Lines : WalkLine(s)

WSpec == WInit /\ [][WNext]_vars
-----------------------------------------------------------------------------
(* Properties. *)

\* Line p has the regions it has in one text with all its stream left open.
ReadAsOne(p) ==
    p.kind = "Code" /\ ~p.transparent =>
       p.regions = From(Scan(Clean, ChainWith(p)).kinds, Len(chain[p.stream]) + 1)

\* A literal continued over several lines is one literal: reading it line by
\* line, with comments, blanks, directives and lines of the other stream in
\* between, gives every byte the region it has when the lines of its stream
\* are read as one text (SourceBuffer::line, advance_stream_line).
ChainLexesAsOne == [][ReadAsOne(last')]_vars

\* The statement the classifier is shown has the same protected bytes as the
\* physical lines it came from, and no comment: a `;` or a keyword is code in
\* one exactly when it is in the other (LogicalGroup::visit).
StatementLexesLikeItsLines ==
    group.code /\ group.shapes = {} =>
       LET scan == Scan(Clean, [i \in DOMAIN group.text |-> group.text[i].byte])
       IN /\ scan.comment = 0
          /\ \A i \in DOMAIN group.text :
               group.text[i].region # "None" =>
                 (scan.kinds[i] \in Protected <=>
                  group.text[i].region \in Protected)

\* No line owes Hollerith payload to the next: one cut off by the end of its
\* line ends with it, because its last byte never continues the line.
PayloadEndsWithItsLine == \A st \in Streams : buffer[st].lex.hollerith = 0

\* One statement, one reading, however many lines it is spread over.
StatementsLexAsOne ==
    /\ [](StatementLexesLikeItsLines /\ PayloadEndsWithItsLine)
    /\ ChainLexesAsOne

\* Trimming never drops a byte of a literal or of a Hollerith constant
\* (protected_trailing_floor), as long as the trimmer and the buffer give the
\* line to the same stream and let the same lines resume a literal.
TrimKeepsPayload ==
    odd \subseteq {"both streams"} =>
       \A i \in (kept + 1)..Len(last.bytes) : RegionAt(last, i) \notin Protected

\* A conditional line with nothing behind its sentinel, which then ends in the
\* blank that is trimmed.
BlankBody(p) ==
    Prefix(p.bytes) = "BlankSeparated"
      /\ FirstInk(From(p.bytes, p.start)) > Len(From(p.bytes, p.start))

SameLine(p, q) ==
    /\ p.kind = q.kind /\ p.stream = q.stream /\ p.comment = q.comment
    /\ p.continues = q.continues /\ p.state = q.state

\* Formatting what was formatted changes nothing: a trimmed line has the kind,
\* the stream and the continuation it had before, and leaves the same state.
\* The exception is a conditional line with a blank body.
TrimmedReadsTheSame ==
    [][\/ BlankBody(last')
       \/ SameLine(PhysicalLine(buffer, SubSeq(last'.bytes, 1, kept')), last')]_vars

\* Trimming changes no statement.
TrimmingIsHarmless == [][TrimKeepsPayload']_vars /\ TrimmedReadsTheSame

\* The wrapper joins a statement from code the buffer cut its comment off, and
\* puts back the comment it finds itself: on a group it may rewrite, the two
\* have to be the same comment (detach_final_inline_comment).
CommentFound ==
    group.eligible /\ group.shapes \subseteq {"two streams", "split head"} =>
       found = last.comment

\* Step 12 rewrites a marker only where it is syntax: an `&` it may strip or
\* respace is code to the buffer too, never a byte of a literal.
MarkersAreCode ==
    odd \subseteq {"compact", "open directive"} =>
       \A m \in marks :
          MarkerAt(last, m) > 0 => RegionAt(last, MarkerAt(last, m)) = "Code"

\* The wrapper and the continuation pass read a line as the buffer does.
WalkersAgree == CommentFound /\ MarkersAreCode

\* "Reflow is declined when the group interleaves anything that cannot sit
\* between a continuation marker and the text it continues": a group the
\* wrapper may rewrite has one sentinel, or none, on all of its lines.
RewrittenGroupIsOneStream ==
    group.eligible => "two streams" \notin group.shapes
=============================================================================
