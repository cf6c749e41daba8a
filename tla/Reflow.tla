------------------------------- MODULE Reflow -------------------------------
(***************************************************************************)
(* Breaking one overlong statement or directive into physical lines        *)
(* (format/wrapping.rs, format/full/reflow/mod.rs, reflow/sentinel.rs),    *)
(* between two layouts: the lines of the author are laid out, measured,    *)
(* joined and broken, and the lines of the wrapper are laid out.           *)
(*                                                                         *)
(* A token is [kind, text, blank]: blank says that a blank stands before   *)
(* it in the joined statement.  Every break but that of a literal falls    *)
(* behind a token, and is given by its number.                             *)
(***************************************************************************)
EXTENDS Emission, FiniteSets, FiniteSetsExt

CONSTANTS Statements

Tiers == <<"::", ",", ".eqv.", ".or.", ".and.", "==", "//", "+", "*">>
TokenKinds == {Tiers[i] : i \in DOMAIN Tiers}
              \cup {"name", "number", "string", "(", ")", "=", "=>", "&", "@"}

\* A token begins and ends with ink; a literal is quoted at both ends, and the
\* marker is the only token that begins with one.
Tokens ==
    {t \in [kind : TokenKinds, text : Seq(Cells), blank : BOOLEAN] :
        /\ t.text # <<>> /\ t.text[1] # "_" /\ t.text[Len(t.text)] # "_"
        /\ t.kind = "string" => /\ Len(t.text) > 1
                                /\ t.text[1] = "q" /\ t.text[Len(t.text)] = "q"
        /\ t.kind = "=" => Len(t.text) = 1
        /\ t.text[1] = "&" => t.kind = "&"}

\* The author breaks behind the tokens of breaks and comments on the lines of comments.
StatementFields == {"tokens", "form", "label", "breaks", "comments", "directive_comment"}

\* The label is split off the tokens (split_label), and a directive is one line
\* without a comment (sentinel::prepare).
ASSUME ReflowAssumption == \A s \in Statements :
    /\ DOMAIN s = StatementFields
    /\ s.form \in {"plain", "conditional", "directive"}
    /\ s.tokens \in Seq(Tokens) /\ s.tokens # <<>> /\ s.tokens[1].text[1] # "1"
    /\ s.label \in Nat
    /\ s.breaks \subseteq 1..Len(s.tokens) - 1
    /\ s.comments \subseteq 1..Cardinality(s.breaks) + 1
    /\ s.form = "directive" => s.breaks = {} /\ s.comments = {} /\ s.label = 0

VARIABLES
    statement,   \* fixed: a singleton, or {} when lines are written only
    outcome,     \* "unmeasured", "breaking", or how the statement was written
    lines,       \* wrap_body: the lines so far, as tokens
    rest,        \* wrap_body: the tokens left
    column,      \* wrap_body: the column rest starts at
    scan,        \* wrap_body: paren_state
    charged      \* history: the columns lines were charged

reflowVars == <<statement, outcome, lines, rest, column, scan, charged>>
vars == <<emitVars, reflowVars>>

S == CHOOSE s \in statement : TRUE
-----------------------------------------------------------------------------
(* Tokens *)

Piece(tokens, i) == (IF i > 1 /\ tokens[i].blank THEN <<"_">> ELSE <<>>) \o tokens[i].text

Text(tokens) ==
    LET text[i \in 0..Len(tokens)] ==
            IF i = 0 THEN <<>> ELSE text[i - 1] \o Piece(tokens, i)
    IN  text[Len(tokens)]

EndOf(tokens, i)   == Len(Text(SubSeq(tokens, 1, i)))
StartOf(tokens, i) == EndOf(tokens, i) - Len(tokens[i].text)

\* An opening delimiter carries the depth outside of it, and so does its closing one.
Depth(tokens, i) ==
    LET open[k \in 0..i - 1] ==
            IF k = 0 THEN 0
            ELSE IF tokens[k].kind = "(" THEN open[k - 1] + 1
            ELSE IF tokens[k].kind = ")" THEN Less(open[k - 1], 1) ELSE open[k - 1]
    IN  IF tokens[i].kind = ")" THEN Less(open[i - 1], 1) ELSE open[i - 1]

IsNamedArgument(tokens, i) ==
    /\ Depth(tokens, i) # 0
    /\ i > 2 /\ tokens[i - 1].kind = "name" /\ tokens[i - 2].kind \in {"(", ","}

Assigns(tokens, i) == tokens[i].kind \in {"=", "=>"} /\ ~IsNamedArgument(tokens, i)

\* is_multiple_subscript_double_colon
InSubscripts(tokens, i) ==
    \E k \in 1..(i - 1) :
        /\ tokens[k].kind = "@" /\ Depth(tokens, k) = Depth(tokens, i)
        /\ \A m \in (k + 1)..(i - 1) :
              Depth(tokens, m) > Depth(tokens, i)
              \/ (Depth(tokens, m) = Depth(tokens, i) /\ tokens[m].kind # ",")

OpensOrdinary(tokens, i) == i < Len(tokens) => tokens[i + 1].kind # "&"

\* break_tier: the operators a line may end with.
Breaks(tokens, i) ==
    /\ tokens[i].kind \in {Tiers[t] : t \in DOMAIN Tiers}
    /\ tokens[i].kind = "::" => ~InSubscripts(tokens, i)
    /\ tokens[i].kind = "+" => /\ i > 1 /\ tokens[i].blank
                               /\ i < Len(tokens) => tokens[i + 1].blank

TierOf(kind) == CHOOSE t \in DOMAIN Tiers : Tiers[t] = kind

Lexicographic(r, s) ==
    \E k \in DOMAIN r : r[k] < s[k] /\ \A m \in 1..(k - 1) : r[m] = s[m]

MinimumFill(limit) == limit \div 4   \* MINIMUM_BREAK_FILL is 0.25

\* operator_break_position: fills the line, shallowest, loosest, rightmost.
OperatorBreak(tokens, start, limit) ==
    LET candidates == {i \in 1..Len(tokens) :
            /\ StartOf(tokens, i) >= start /\ EndOf(tokens, i) <= limit
            /\ Breaks(tokens, i) /\ OpensOrdinary(tokens, i)}
        Rank(i) == <<IF EndOf(tokens, i) < MinimumFill(limit) THEN 1 ELSE 0,
                     Depth(tokens, i), TierOf(tokens[i].kind), -i>>
    IN  {i \in candidates : \A j \in candidates \ {i} : Lexicographic(Rank(i), Rank(j))}

\* The declaration attributes, or else the target of an assignment.
StatementHead(tokens, limit) ==
    LET reached == {i \in 1..Len(tokens) : EndOf(tokens, i) <= limit /\ Depth(tokens, i) = 0}
        colons == {i \in reached : tokens[i].kind = "::"}
        assigns == {i \in reached : Assigns(tokens, i)}
    IN  IF colons # {} THEN {Min(colons)} ELSE IF assigns # {} THEN {Min(assigns)} ELSE {}

Otherwise(found, other) == IF found # {} THEN found ELSE other

LastAssignment(tokens, limit) ==
    LET found == {i \in 1..Len(tokens) : EndOf(tokens, i) <= limit /\ Assigns(tokens, i)} IN
    {i \in found : i = Max(found) /\ OpensOrdinary(tokens, i)}

LastBlank(tokens, limit) ==
    LET found == {i \in 1..(Len(tokens) - 1) :
                     StartOf(tokens, i + 1) <= limit /\ tokens[i + 1].blank} IN
    {i \in found : i = Max(found) /\ OpensOrdinary(tokens, i)}

\* wrap_position
WrapPosition(tokens, limit) ==
    LET head == StatementHead(tokens, limit) IN
    IF head # {}
    THEN Otherwise(OperatorBreak(tokens, EndOf(tokens, Max(head)), limit),
                   {i \in head : OpensOrdinary(tokens, i)})
    ELSE Otherwise(OperatorBreak(tokens, 0, limit),
                   Otherwise(LastAssignment(tokens, limit), LastBlank(tokens, limit)))

\* assignment_wrap_position: not the `=>` of a pointer assignment.
FirstAssignment(tokens, limit) ==
    LET found == {i \in 1..Len(tokens) : /\ StartOf(tokens, i) < limit
                                         /\ tokens[i].kind = "=" /\ Assigns(tokens, i)} IN
    {i \in found : i = Min(found) /\ OpensOrdinary(tokens, i)}

\* literal_wrap_split: the literal that overruns, and how much of it is kept.
LiteralSplit(tokens, limit) ==
    LET strings == {i \in 1..Len(tokens) : tokens[i].kind = "string" /\ EndOf(tokens, i) > limit}
        Kept(i) == {n \in 1..AtMost(Less(limit, StartOf(tokens, i) + 5), Len(tokens[i].text) - 2) :
                       tokens[i].text[n + 1] = "_"}
    IN  {<<i, Max(Kept(i))>> : i \in {k \in strings : /\ k = Min(strings)
                                                      /\ StartOf(tokens, k) < limit
                                                      /\ Kept(k) # {}}}

Quoted(token, text, blank) == [token EXCEPT !.text = <<"q">> \o text \o <<"q">>, !.blank = blank]
Concat == [kind |-> "//", text |-> <<"/", "/">>, blank |-> TRUE]
-----------------------------------------------------------------------------
(* The statement and its columns *)

Cond  == S.form = "conditional"
Inset == IF Cond THEN 3 ELSE 0   \* CONDITIONAL_SENTINEL_COLUMNS

\* labelled_body_column
LabelledBodyColumn(indent) ==
    IF config.label_left
    THEN S.label + AtLeast(Clamp(Less(indent, S.label)), 1)
    ELSE Clamp(indent) + S.label + 1

\* Mutant: the sentinel is charged to the body alone.
FirstBodyColumn_Bare == Less(plan.first_indent, Inset)

FirstBodyColumn ==
    LET target == Less(plan.first_indent, Inset) IN
    Inset + IF S.label = 0 THEN target ELSE LabelledBodyColumn(target)

ContinuationColumn ==
    Inset + Less(plan.first_indent, Inset)
          + IF config.indent_continuation THEN config.continuation_indent ELSE 0

\* declaration_separator_growth: what alignment will add around the ::.
Growth(tokens) ==
    Cardinality({i \in 1..Len(tokens) : tokens[i].kind = "::" /\ (i = 1 \/ ~tokens[i].blank)})
    + Cardinality({i \in 1..Len(tokens) :
          tokens[i].kind = "::" /\ (i = Len(tokens) \/ ~tokens[i + 1].blank)})

Budget == Less(config.line_length, Growth(S.tokens))

SentinelText == <<"!", "x", "x", "x", "x", "_">>  \* !$omp

\* A line of Fortran, as the wrapper or the author leaves it.
Line(tokens, labelled, continued, comment) ==
    [kind |-> IF S.form = "directive" THEN "Comment" ELSE "Code",
     omp  |-> IF Cond THEN "spaced" ELSE "none",
     lead |-> IF S.form = "directive" THEN plan.first_indent ELSE 0,
     gap  |-> IF Cond THEN 1 ELSE 0,
     cells |-> (IF S.form = "directive" THEN SentinelText ELSE <<>>)
               \o (IF labelled /\ S.label > 0 THEN [i \in 1..S.label |-> "1"] \o <<"_">> ELSE <<>>)
               \o Text(tokens)
               \o (IF continued THEN <<"_", "&">> ELSE <<>>)
               \o (IF comment THEN <<"_", "!", "x">> ELSE <<>>)]

AuthoredTokens ==
    LET ends == SetToSortSeq(S.breaks \cup {Len(S.tokens)}, <) IN
    [k \in 1..Len(ends) |-> SubSeq(S.tokens, IF k = 1 THEN 1 ELSE ends[k - 1] + 1, ends[k])]

Authored ==
    [k \in 1..Len(AuthoredTokens) |->
        Line(AuthoredTokens[k], k = 1, k < Len(AuthoredTokens), k \in S.comments)]

\* Mutant: whatever comment there is can be lifted.
Detachable_Any == TRUE

\* detach_final_inline_comment: no comment, or one on the last line.
Detachable ==
    S.comments = {} \/ (S.comments = {Cardinality(S.breaks) + 1} /\ ~S.directive_comment)
-----------------------------------------------------------------------------
ReflowIn(s, p, c) ==
    /\ statement = {s} /\ outcome = "unmeasured"
    /\ lines = <<>> /\ rest = s.tokens /\ column = 0 /\ scan = NoAlignment /\ charged = <<>>
    /\ plan = p /\ config = c
    /\ source = Authored
    /\ out = <<>> /\ literal = FALSE /\ paren_state = NoAlignment /\ placed = <<>>
    /\ earlier = <<>>

ReflowInit ==
    \/ /\ EmitInit
       /\ statement = {} /\ outcome = "none" /\ lines = <<>> /\ rest = <<>> /\ column = 0
       /\ scan = NoAlignment /\ charged = <<>>
    \/ \E s \in Statements, p \in Plans, c \in Configs :
          /\ ~p.uniform /\ p.apply /\ p.replacement = {}
          /\ p.cont = (s.breaks # {})
          /\ s.form # "plain" => c.openmp
          /\ ReflowIn(s, p, c)

Overrun(written) == \E i \in 1..Len(written) : Width(written[i]) > config.line_length

\* The lines of the wrapper go through the layout.
WriteOut(how, tokens, comment) ==
    /\ outcome' = how /\ lines' = tokens
    /\ source' = [k \in 1..Len(tokens) |-> Line(tokens[k], k = 1, k < Len(tokens), comment)]
    /\ plan' = [plan EXCEPT !.cont = Len(tokens) > 1, !.uniform = S.form = "directive"]
    /\ out' = <<>> /\ literal' = FALSE /\ paren_state' = NoAlignment /\ placed' = <<>>
    /\ UNCHANGED <<config, statement, scan, earlier>>

\* copy_group: as the author wrote it.
WriteCopy(how) ==
    /\ outcome' = how
    /\ out' = <<>> /\ literal' = FALSE /\ paren_state' = NoAlignment /\ placed' = <<>>
    /\ UNCHANGED <<config, plan, source, earlier, statement, lines, rest, column, scan, charged>>

Measured == outcome = "unmeasured" /\ Len(out) = Len(source)
Fits     == FirstBodyColumn + Len(Text(S.tokens)) <= Budget

\* emit_statement_group: nothing to do, or nothing that can be done.
KeepStatement ==
    /\ Measured /\ S.form # "directive"
    /\ ~Overrun(out) \/ (~Fits /\ ~Detachable)
       \/ (Fits /\ (~Detachable \/ (S.breaks = {} /\ S.comments = {})))
    /\ WriteCopy("copied")

\* emit_unbroken_statement: joined, or rid of its comment.
JoinStatement ==
    /\ Measured /\ S.form # "directive"
    /\ Overrun(out) /\ Fits /\ Detachable /\ (S.breaks # {} \/ S.comments # {})
    /\ WriteOut("joined", <<S.tokens>>, FALSE)
    /\ charged' = <<FirstBodyColumn>>
    /\ UNCHANGED <<rest, column>>

\* emit_sentinel_group
KeepDirective ==
    /\ Measured /\ S.form = "directive"
    /\ ~Overrun(source) /\ ~Overrun(out)
    /\ WriteCopy("copied")

StartBreaking ==
    /\ Measured
    /\ IF S.form = "directive" THEN Overrun(source) \/ Overrun(out)
       ELSE Overrun(out) /\ ~Fits /\ Detachable
    /\ outcome' = "breaking"
    /\ column' = IF S.form = "directive" THEN plan.first_indent + Len(SentinelText)
                 ELSE FirstBodyColumn
    /\ UNCHANGED <<emitVars, statement, lines, rest, scan, charged>>

LineBudget == IF S.form = "directive" THEN config.line_length ELSE Budget
TooLong == column + Len(Text(rest)) > LineBudget

Limit == Less(LineBudget, column + 2)

\* next_continuation
Scanned(tokens) == Scan(scan, Text(tokens) \o <<"_", "&">>, column)
NextColumn(state) ==
    IF S.form = "directive" THEN column
    ELSE IF ~plan.align \/ state.stack = <<>> THEN ContinuationColumn
    ELSE Top(state.stack).alignment

\* The first break may leave the whole of the right-hand side to the next line.
AssignmentChoice ==
    {i \in FirstAssignment(rest, Limit) :
        /\ lines = <<>> /\ S.form # "directive"
        /\ LET next == Scan(scan, Text(SubSeq(rest, 1, i)), column) IN
           NextColumn(next) + Len(Text(SubSeq(rest, i + 1, Len(rest)))) <= LineBudget}

Generic == Otherwise(AssignmentChoice, WrapPosition(rest, Limit))

\* The generic break is at a blank, and its position behind the blank.
AtBlank ==
    /\ AssignmentChoice = {} /\ StatementHead(rest, Limit) = {}
    /\ OperatorBreak(rest, 0, Limit) = {} /\ LastAssignment(rest, Limit) = {}

GenericPosition(i) == EndOf(rest, i) + IF AtBlank THEN 1 ELSE 0

\* The literal is split where no generic break fills the line.
Split ==
    IF S.form = "directive" \/ \E i \in Generic : GenericPosition(i) >= MinimumFill(Limit)
    THEN {} ELSE LiteralSplit(rest, Limit)

BreakInto(line, remainder) ==
    /\ lines' = Append(lines, line) /\ rest' = remainder
    /\ charged' = Append(charged, column)
    /\ scan' = Scanned(line) /\ column' = NextColumn(Scanned(line))
    /\ UNCHANGED <<emitVars, statement, outcome>>

BreakStatement ==
    /\ outcome = "breaking" /\ TooLong /\ Split = {}
    /\ \E i \in Generic : BreakInto(SubSeq(rest, 1, i), SubSeq(rest, i + 1, Len(rest)))

BreakLiteral ==
    /\ outcome = "breaking" /\ TooLong
    /\ \E s \in Split :
          LET i == s[1]
              content == SubSeq(rest[i].text, 2, Len(rest[i].text) - 1)
          IN  BreakInto(SubSeq(rest, 1, i - 1)
                          \o <<Quoted(rest[i], SubSeq(content, 1, s[2]), rest[i].blank), Concat>>,
                        <<Quoted(rest[i], SubSeq(content, s[2] + 1, Len(content)), FALSE)>>
                          \o SubSeq(rest, i + 1, Len(rest)))

\* Decline::NoSafeBreak
DeclineStatement ==
    /\ outcome = "breaking" /\ TooLong /\ Split = {} /\ Generic = {}
    /\ WriteCopy("declined")

FinishStatement ==
    /\ outcome = "breaking" /\ ~TooLong
    /\ WriteOut("wrapped", Append(lines, rest), FALSE)
    /\ charged' = Append(charged, column)
    /\ UNCHANGED <<rest, column>>

Settled == outcome \notin {"unmeasured", "breaking"}

ReflowNext ==
    \/ (EmitUniform \/ EmitCode) /\ outcome # "breaking" /\ UNCHANGED reflowVars
    \/ EmitAgain /\ Settled /\ UNCHANGED reflowVars
    \/ KeepStatement \/ JoinStatement \/ KeepDirective \/ StartBreaking
    \/ BreakStatement \/ BreakLiteral \/ DeclineStatement \/ FinishStatement

ReflowSpec == ReflowInit /\ [][ReflowNext]_vars
-----------------------------------------------------------------------------
(* Properties *)

\* What alignment adds to a line as written: it leaves a `::` alone that opens
\* or ends the line (declaration_separator_info).
Widened(tokens) ==
    Cardinality({i \in 2..Len(tokens) : tokens[i].kind = "::" /\ ~tokens[i].blank})
    + Cardinality({i \in 1..Len(tokens) - 1 : tokens[i].kind = "::" /\ ~tokens[i + 1].blank})

\* wrapping.rs: the wrapper decides where a statement breaks, the layout where
\* its lines begin.  The columns the layout then writes never exceed those the
\* wrapper charged: no line of a wrapped or joined statement overruns.
WrappedLinesFit ==
    outcome \in {"joined", "wrapped"} =>
        \A i \in 1..Len(out) :
            Width(out[i]) + (IF S.form = "directive" THEN 0 ELSE Widened(lines[i]))
                <= config.line_length

\* A literal split at // is the literal again.
Resumes(acc, t) ==
    /\ t.kind = "string" /\ Len(acc) > 1
    /\ acc[Len(acc)].kind = "//" /\ acc[Len(acc) - 1].kind = "string"

Rejoin(acc, t) ==
    IF Resumes(acc, t)
    THEN Append(SubSeq(acc, 1, Len(acc) - 2),
                [acc[Len(acc) - 1] EXCEPT !.text = Front(@) \o Tail(t.text)])
    ELSE Append(acc, t)

Rejoined(tokens) ==
    LET joined[i \in 0..Len(tokens)] == IF i = 0 THEN <<>> ELSE Rejoin(joined[i - 1], tokens[i])
    IN  joined[Len(tokens)]

AllOf(pieces) ==
    LET all[i \in 0..Len(pieces)] == IF i = 0 THEN <<>> ELSE all[i - 1] \o pieces[i]
    IN  all[Len(pieces)]

\* The lines written read as the statement (I3, I5): nothing is lost at a seam,
\* no continuation opens with a marker, and no comment disappears that was not
\* lifted above the statement.
LinesReadAsWritten ==
    outcome \in {"joined", "wrapped"} =>
        /\ Rejoined(AllOf(lines)) = Rejoined(S.tokens)
        /\ \A k \in 2..Len(lines) : lines[k] # <<>> /\ lines[k][1].kind # "&"
        /\ S.comments \subseteq {Cardinality(S.breaks) + 1}
=============================================================================
