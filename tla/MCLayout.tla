------------------------------ MODULE MCLayout ------------------------------
(***************************************************************************)
(* Small statements to break, small groups of lines to write and small     *)
(* documents to align, for TLC.  A behaviour breaks a statement and writes *)
(* it, or lays out one document.                                           *)
(***************************************************************************)
EXTENDS Reflow, PostLayout

CONSTANTS MaxPieces,   \* the pieces behind the head of a statement
          LineLength   \* the budget of a line

Token(kind, text, blank) == [kind |-> kind, text |-> text, blank |-> blank]
Name(blank)   == Token("name", <<"x", "x">>, blank)
Op(kind)      == Token(kind, <<"x">>, TRUE)
Open          == Token("(", <<"(">>, FALSE)
Close         == Token(")", <<")">>, FALSE)
Comma         == Token(",", <<"x">>, FALSE)
Literal(text) == Token("string", <<"q">> \o text \o <<"q">>, TRUE)

Heads == {<<Name(FALSE), Op("=")>>, <<Name(FALSE), Token("::", <<"x", "x">>, FALSE)>>,
          <<Name(FALSE), Token("=>", <<"x", "x">>, TRUE)>>, <<Name(FALSE), Open, Name(FALSE)>>}
Pieces == {<<Name(TRUE), Comma>>, <<Op("+"), Name(TRUE)>>, <<Name(TRUE), Open, Name(FALSE)>>,
           <<Close>>, <<Comma, Name(TRUE), Op("=")>>, <<Token("&", <<"&">>, TRUE)>>,
           <<Literal(<<"x", "_", "x", "x", "_", "x">>)>>}

Bodies == {h \o FlattenSeq(p) : h \in Heads,
                                p \in UNION {[1..n -> Pieces] : n \in 1..MaxPieces}}

Of(tokens) == [tokens |-> tokens, form |-> "plain", label |-> 0, breaks |-> {}, comments |-> {},
               directive_comment |-> FALSE]

\* Every body on a line of its own; some with labels, sentinels, seams, comments.
MCStatements ==
    {Of(b) : b \in Bodies}
    \cup {[Of(b) EXCEPT !.label = 2] : b \in Bodies}
    \cup {[Of(b) EXCEPT !.form = "conditional"] : b \in Bodies}
    \cup {[Of(b) EXCEPT !.form = "directive"] : b \in Bodies}
    \cup {[Of(b) EXCEPT !.breaks = {3}, !.comments = c, !.directive_comment = d] :
             b \in {bb \in Bodies : Len(bb) > 3}, c \in SUBSET {1, 2}, d \in BOOLEAN}

Base == [openmp |-> TRUE, normalizes |-> TRUE, label_left |-> TRUE, indent_ampersand |-> FALSE,
         indent_continuation |-> TRUE, continuation_indent |-> 2, max_indent |-> 0,
         line_length |-> LineLength]
MCConfigs ==
    {Base, [Base EXCEPT !.label_left = FALSE, !.indent_ampersand = TRUE],
     [Base EXCEPT !.max_indent = 2], [Base EXCEPT !.indent_continuation = FALSE],
     [Base EXCEPT !.openmp = FALSE, !.normalizes = FALSE, !.max_indent = 2]}

PlanOf(uniform, cont, align, apply, first) ==
    [uniform |-> uniform, first_indent |-> first, directive_indent |-> 0, cont |-> cont,
     align |-> align, apply |-> apply, replacement |-> {}]
MCPlans ==
    {PlanOf(FALSE, cont, align, TRUE, 3) : cont \in BOOLEAN, align \in BOOLEAN}
    \cup {PlanOf(TRUE, FALSE, FALSE, apply, 3) : apply \in BOOLEAN}
    \cup {PlanOf(FALSE, TRUE, TRUE, TRUE, 1)}
    \cup {[PlanOf(FALSE, FALSE, FALSE, TRUE, 3) EXCEPT !.replacement = {<<"x">>}]}

PlainLine(cells) == [kind |-> "Code", omp |-> "none", lead |-> 1, gap |-> 0, cells |-> cells]
Starts == {PlainLine(<<"x", "(", "x", "&">>), PlainLine(<<"1", "1", "_", "x", "(", "_", "x", "_", "&">>),
           [PlainLine(<<"1", "1", "_", "x", "_", "(", "x", "&">>) EXCEPT !.lead = 0],
           PlainLine(<<"x", "q", "_", "_">>),
           [PlainLine(<<"x", "(", "(", "x", ")", "_", "&">>) EXCEPT !.omp = "spaced"],
           [PlainLine(<<"x", "_">>) EXCEPT !.kind = "Comment", !.omp = "near"],
           [PlainLine(<<"x", "_">>) EXCEPT !.kind = "Preprocessor"]}
Continuations ==
    {PlainLine(<<"x", ")", "_", "&">>), PlainLine(<<"&", "x", "(", "x", "&">>),
     PlainLine(<<"x", "(", "x", "&">>), PlainLine(<<"1", "1", "&">>),
     [PlainLine(<<"&", "x", ")", "_", "&">>) EXCEPT !.omp = "spaced"], PlainLine(<<"q">>),
     [PlainLine(<<"x", "x">>) EXCEPT !.kind = "FindentFix"],
     [PlainLine(<<>>) EXCEPT !.kind = "Blank"],
     [PlainLine(<<"&", "x">>) EXCEPT !.omp = "compact"],
     [PlainLine(<<"x", "x">>) EXCEPT !.kind = "Preprocessor"]}
Sequential == {<<s>> : s \in Starts} \cup {<<s, c>> : s \in Starts, c \in Continuations}
              \cup {<<s, c, d>> : s \in Starts, c \in Continuations, d \in Continuations}

\* A conditional statement is continued by conditional lines.
MCGroups ==
    {g \in Sequential : g[1].omp = "spaced" =>
        \A i \in 2..Len(g) : g[i].omp # "none" \/ g[i].kind # "Code"}
-----------------------------------------------------------------------------
(* Documents to align *)

Plain(head) == [BlankLine EXCEPT !.kind = "code", !.head = head]
Decl(head, before, body) ==
    [Plain(head) EXCEPT !.carries = TRUE, !.before = before, !.after = 1, !.body = body]
Remarked(l, gap) == [l EXCEPT !.gap = gap, !.comment = 3]
Going(l, open)   == [l EXCEPT !.continued = TRUE, !.open = open]
Hung(l)          == [l EXCEPT !.hangs = TRUE]
Said(role)       == [Plain(4) EXCEPT !.role = role]
Remark           == [BlankLine EXCEPT !.kind = "comment"]
Directive(role)  == [BlankLine EXCEPT !.kind = "cpp", !.role = role]

Decls == {Decl(2, 3, 2), Decl(4, 1, 2), Decl(2, 1, 2), Decl(2, 0, 2), Decl(4, 3, 7)}
Gaps  == {<<>>, <<BlankLine>>, <<BlankLine, BlankLine>>, <<Remark>>, <<Plain(4)>>}
Declared == {<<a>> \o x \o <<b>> \o y \o <<c>> : a, b, c \in Decls, x, y \in Gaps}

Remarks == {Remarked(Plain(2), 4), Remarked(Plain(4), 2), Plain(3), Remarked(Decl(2, 2, 1), 2),
            Remarked(Decl(2, 1, 2), 2), Going(Remarked(Plain(3), 3), 1), BlankLine}
Commentary == {<<a, b, c, d>> : a, b, c \in Remarks, d \in Remarks \ {BlankLine}}

\* The second hangs and has a `::` of its own.
Hangers ==
    {<<Going(Decl(2, g, 4), o), Hung(l), m>> :
        g \in 1..3, o \in {1, 2}, l \in {Plain(3), Remarked(Plain(3), 1), Decl(2, 1, 2)},
        m \in {Decl(2, 3, 2), Remarked(Plain(6), 3)}}
    \cup {<<Going(Decl(2, 3, 4), 1), Hung(Decl(2, 3, 2)), Going(Decl(5, 11, 2), 1), Hung(Plain(3))>>}

Framed == {Said(r) : r \in Roles \ {"none", "endif", "carried", "type"}}
          \cup {Plain(4), BlankLine, Directive("none"), Directive("endif")}
Units  == {<<Said("unit"), a, b, c, d>> : a, b, c \in Framed, d \in {BlankLine, Said("end"), Plain(4)}}
          \cup {<<Said("type"), Said("contains"), a, b, Said("end type")>> : a, b \in Framed}
          \cup {<<Said("end"), a, d, Directive("carried"), b, c>> :
                   a, b, c \in {BlankLine, Plain(4)}, d \in {Directive("none"), Directive("endif")}}

MCPages == Declared \cup Commentary \cup Hangers \cup Units

Align(declarations, comments, spacing, max, budget) ==
    [declarations |-> declarations, comments |-> comments, spacing |-> spacing,
     max_blank_lines |-> max, budget |-> budget]
MCStyles == {Align(TRUE, TRUE, TRUE, {0}, 14), Align(TRUE, FALSE, TRUE, {1}, 99),
             Align(FALSE, TRUE, FALSE, {2}, 14), Align(TRUE, FALSE, TRUE, {}, 99)}
-----------------------------------------------------------------------------
One(set) == CHOOSE x \in set : TRUE

LayoutInit ==
    \/ /\ ReflowInit
       /\ style = One(Styles) /\ page = <<>> /\ pass = "idle" /\ measured = <<>>
       /\ widened = FALSE /\ rounds = 0 /\ delivered = {}
    \/ /\ PageInit
       /\ EmitIn(One(Groups), One(Plans), One(Configs))
       /\ statement = {} /\ outcome = "none" /\ lines = <<>> /\ rest = <<>> /\ column = 0
       /\ scan = NoAlignment /\ charged = <<>>

LayoutNext ==
    \/ pass = "idle" /\ ReflowNext /\ UNCHANGED pageVars
    \/ PageNext /\ UNCHANGED vars

LayoutSpec == LayoutInit /\ [][LayoutNext]_<<vars, pageVars>>

\* Layout is a projection (I1): a group written again and a document laid out again
\* come out as they went in, and padding that holds nothing up is gone, unless the
\* line it is on would not fit.
LayoutSettles == EmissionSettles /\ PageSettles /\ PaddingIsHeld
=============================================================================
