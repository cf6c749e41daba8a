----------------------------- MODULE PostLayout -----------------------------
(***************************************************************************)
(* Laying a document out until its widths agree (lay_out in                *)
(* src/src/format/full/layout.rs) and the passes behind the layout engine  *)
(* (post_layout in transform/pipeline.rs, transform/passes/layout_post):   *)
(* the columns of `::` and of trailing comments, the blank lines between   *)
(* program units, the cap on blank lines, the blank tail.                  *)
(*                                                                         *)
(* A line is what its columns and its place in the file depend on: lead,   *)
(* head (the text up to the gap before `::`, or all of its code), before   *)
(* and after (the gaps around `::`), body (the code behind), the comment   *)
(* with its gap.  A line that hangs begins in the column of the open       *)
(* parenthesis of the code line above it; open counts the columns from     *)
(* there to the end of the code.  A line that a backslash carries a directive *)
(* over to is a "cpp" line of the role "carried", and holds text.          *)
(***************************************************************************)
EXTENDS Integers, Sequences, SequencesExt, FiniteSetsExt

CONSTANTS Pages,    \* the documents to lay out: sequences of lines
          Styles    \* FormatConfigs

PageLineFields == {"kind", "role", "lead", "head", "before", "after", "body", "carries",
                   "continued", "hangs", "open", "gap", "comment"}
StyleFields == {"declarations", "comments", "spacing", "max_blank_lines", "budget"}
PageKinds == {"code", "comment", "blank", "cpp"}
Roles == {"none", "unit", "end", "end procedure", "contains", "type", "end type",
          "interface", "end interface", "endif", "carried"}

ASSUME PostLayoutAssumption ==
    /\ \A p \in Pages : \A i \in 1..Len(p) :
          DOMAIN p[i] = PageLineFields /\ p[i].kind \in PageKinds /\ p[i].role \in Roles
    \* The cap on blank lines, or none: preserve.
    /\ \A s \in Styles : DOMAIN s = StyleFields /\ \A n, m \in s.max_blank_lines : n = m

VARIABLES
    style,      \* fixed
    page,       \* the lines
    pass,       \* what runs next
    measured,   \* the widths declaration_separator_alignment began with
    widened,    \* widths_changed
    rounds,     \* the rounds of lay_out left
    delivered   \* history: what the first run delivered, none or one

pageVars == <<style, page, pass, measured, widened, rounds, delivered>>

Carries(l)     == l.kind = "code" /\ l.carries
Commented(l)   == l.kind = "code" /\ l.comment > 0
Column(l)      == l.lead + l.head + l.before
Minimum(l)     == l.lead + l.head + 1
CodeEnd(l)     == IF Carries(l) THEN Column(l) + 2 + l.after + l.body ELSE l.lead + l.head
CommentAt(l)   == CodeEnd(l) + l.gap
PageWidth(l)   == IF Commented(l) THEN CommentAt(l) + l.comment ELSE CodeEnd(l)
BlankLine      == [kind |-> "blank", role |-> "none", lead |-> 0, head |-> 0, before |-> 0,
                   after |-> 0, body |-> 0, carries |-> FALSE, continued |-> FALSE,
                   hangs |-> FALSE, open |-> 0, gap |-> 0, comment |-> 0]
IsBlank(l)     == l.kind = "blank"

\* continues_previous_line: the nearest text above ends with `&`.
Above(p, i) == {j \in 1..i - 1 : p[j].kind \in {"code", "cpp"}}
Continues(p, i) == Above(p, i) # {} /\ p[Max(Above(p, i))].continued
-----------------------------------------------------------------------------
(* The engine: only a line that hangs has a column that depends on widths. *)

RECURSIVE Laid(_, _)
Laid(done, todo) ==
    IF todo = <<>> THEN done
    ELSE LET l == Head(todo)
             p == Append(done, l)
             i == Len(p) IN
         Laid(IF l.hangs /\ Continues(p, i)
              THEN [p EXCEPT ![i].lead = CodeEnd(p[Max(Above(p, i))]) - p[Max(Above(p, i))].open]
              ELSE p,
              Tail(todo))
-----------------------------------------------------------------------------
(* Declaration separators: declaration_separator_alignment *)

InParagraph(p, i) == Carries(p[i]) \/ p[i].kind = "comment" \/ Continues(p, i)

ParagraphEnd(p, i) == Min({j \in i..Len(p) + 1 : j > Len(p) \/ ~InParagraph(p, j)})

\* collect_paragraph
Paragraph(p, i) == {j \in i..ParagraphEnd(p, i) - 1 : Carries(p[j])}

\* next_carrier: over blank lines and comments only.
NextCarrier(p, i) ==
    LET stops == {j \in i..Len(p) : Carries(p[j]) \/ p[j].kind \in {"code", "cpp"}} IN
    IF stops = {} \/ ~Carries(p[Min(stops)]) THEN {} ELSE {Min(stops)}

SharesOneColumn(p, run) == \A i, j \in run : Column(p[i]) >= Minimum(p[j])

\* The paragraphs that are one block of align_blocks, and where it ends.
RECURSIVE Merged(_, _, _)
Merged(p, run, at) ==
    LET next == NextCarrier(p, at) IN
    IF next = {} THEN [run |-> run, at |-> at]
    ELSE LET resume == Max(next)
             wider  == run \cup Paragraph(p, resume) IN
         IF SharesOneColumn(p, wider) THEN Merged(p, wider, ParagraphEnd(p, resume))
         ELSE [run |-> run, at |-> at]

RECURSIVE Runs(_, _)
Runs(p, i) ==
    IF i > Len(p) THEN {}
    ELSE IF ~Carries(p[i]) THEN Runs(p, i + 1)
    ELSE LET merged == Merged(p, Paragraph(p, i), ParagraphEnd(p, i)) IN
         {merged.run} \cup Runs(p, merged.at)

\* A block ends before a line that cannot stand in its column.
BlocksOf(p, run) ==
    LET Place(acc, i) ==
            LET wanted == Max({acc.column, Minimum(p[i])})
                fits   == Column(p[i]) >= wanted /\ \A j \in acc.block : Column(p[j]) >= wanted
            IN  IF acc.block = {} \/ fits
                THEN [acc EXCEPT !.block = @ \cup {i}, !.column = wanted]
                ELSE [blocks |-> acc.blocks \cup {acc.block}, block |-> {i},
                      column |-> Minimum(p[i])]
        end == FoldLeft(Place, [blocks |-> {}, block |-> {}, column |-> 0],
                        SetToSortSeq(run, LAMBDA a, b : a < b))
    IN  end.blocks \cup {end.block}

DeclarationBlocks(p) == UNION {BlocksOf(p, run) : run \in Runs(p, 1)}

\* The code of a line with its `::` in a column.
WidthAt(l, column) == column + 3 + l.body

\* Mutant: the budget is not asked.
AlignedMembers_NoBudget(p, block) ==
    LET column == Max({Minimum(p[i]) : i \in block}) IN
    IF Cardinality(block) > 1 /\ \A i \in block : Column(p[i]) >= column THEN block ELSE {}

\* aligned_members: the widest is left out while the shared column breaks the budget.
AlignedMembers(p, block) ==
    LET able    == {i \in block : WidthAt(p[i], Minimum(p[i])) <= style.budget}
        Upto(c) == {i \in able : Minimum(p[i]) <= c}
        columns == {c \in {Minimum(p[i]) : i \in able} :
                       \A i \in Upto(c) : WidthAt(p[i], c) <= style.budget}
    IN  IF columns = {} THEN {}
        ELSE LET members == Upto(Max(columns)) IN
             IF Cardinality(members) > 1 /\ \A i \in members : Column(p[i]) >= Max(columns)
             THEN members ELSE {}

\* normalize_declaration_block
Normalized(p, block, i) ==
    LET members == AlignedMembers(p, block)
        target  == IF i \in members THEN Max({Minimum(p[j]) : j \in members}) ELSE Minimum(p[i])
    IN  [p[i] EXCEPT !.before = target - p[i].lead - p[i].head, !.after = 1]

\* One sweep of its loop.
SeparatorSweep(p) ==
    LET blocks == DeclarationBlocks(p) IN
    [i \in 1..Len(p) |->
        IF Carries(p[i])
        THEN Normalized(p, CHOOSE b \in blocks : i \in b, i) ELSE p[i]]
-----------------------------------------------------------------------------
(* Trailing comments: trailing_comment_alignment *)

\* A line a run of comments goes on behind.
Transparent(p, i) == p[i].kind \in {"blank", "comment"}
                     \/ (p[i].kind = "code" /\ ~Commented(p[i]) /\ Continues(p, i))

CommentRun(p, i) ==
    LET Alike(j) == Commented(p[j]) /\ CommentAt(p[j]) = CommentAt(p[i])
        Between(j) == Min({i, j})..Max({i, j}) IN
    {j \in 1..Len(p) : Alike(j) /\ \A k \in Between(j) : Alike(k) \/ Transparent(p, k)}

CommentTarget(p, run) == Max({CodeEnd(p[j]) + 1 : j \in run})

\* align_comment_runs
CommentSweep(p) ==
    [i \in 1..Len(p) |->
        IF ~Commented(p[i]) THEN p[i]
        ELSE LET run    == CommentRun(p, i)
                 target == CommentTarget(p, run)
                 fits   == \A j \in run : target + p[j].comment <= style.budget
             IN  [p[i] EXCEPT !.gap = IF Cardinality(run) > 1 /\ fits
                                      THEN target - CodeEnd(p[i]) ELSE 1]]
-----------------------------------------------------------------------------
(* Blank lines *)

NoLines(n) == [i \in 1..n |-> BlankLine]

WithoutBlankEnd(p) == SubSeq(p, 1, Max({0} \cup {i \in 1..Len(p) : ~IsBlank(p[i])}))

EndsBlank(p) == p # <<>> /\ IsBlank(p[Len(p)])

Down(n) == IF n = 0 THEN 0 ELSE n - 1

\* program_unit_spacing.  owed: the blank lines a unit END owes the line behind it;
\* authored counts those found so far.
OwesNothing == [owed |-> "none", authored |-> 0]
OwesOne     == [owed |-> "exactly", authored |-> 0]
OwesSome    == [owed |-> "at least", authored |-> 0]

SeparatorWidth(pending) ==
    CASE pending.owed = "none" -> 0
      [] pending.owed = "exactly" -> 1
      [] OTHER -> Max({1, Min({pending.authored}
                              \cup {Max({cap, 1}) : cap \in style.max_blank_lines})})

SpaceDirective(acc, l) ==
    LET owing == acc.pending.owed # "none" /\ l.role \notin {"endif", "carried"}
        gap   == IF owing /\ acc.out # <<>> /\ ~EndsBlank(acc.out)
                 THEN NoLines(SeparatorWidth(acc.pending)) ELSE <<>>
    IN  [acc EXCEPT !.out = @ \o gap \o <<l>>, !.pending = IF owing THEN OwesNothing ELSE @]

Nest(depth, l, opens, closes) ==
    IF l.role = closes THEN Down(depth) ELSE IF l.role = opens THEN depth + 1 ELSE depth

SpaceCode(acc, l) ==
    LET types    == Nest(acc.types, l, "type", "end type")
        is_end   == /\ acc.interfaces = 0
                    /\ l.role = "end" \/ (l.role = "end procedure" /\ types = 0)
        units    == IF acc.interfaces = 0 /\ l.role = "unit" THEN acc.units + 1 ELSE acc.units
        contains == units > 0 /\ types = 0 /\ l.role = "contains"
        paid     == acc.out \o NoLines(SeparatorWidth(acc.pending))
        before   == IF ~contains THEN paid
                    ELSE IF WithoutBlankEnd(paid) = <<>> THEN <<>>
                    ELSE Append(WithoutBlankEnd(paid), BlankLine)
    IN  [out |-> Append(before, l),
         units |-> IF is_end THEN Down(units) ELSE units,
         types |-> types,
         interfaces |-> Nest(acc.interfaces, l, "interface", "end interface"),
         pending |-> IF is_end THEN OwesSome ELSE IF contains THEN OwesOne ELSE OwesNothing]

SpaceBlank(acc) ==
    IF acc.pending.owed # "none"
    THEN [acc EXCEPT !.pending.authored = IF acc.pending.owed = "at least" THEN @ + 1 ELSE @]
    ELSE IF (acc.units > 0 \/ acc.interfaces > 0) /\ EndsBlank(acc.out) THEN acc
    ELSE [acc EXCEPT !.out = Append(@, BlankLine)]

UnitSpacing(p) ==
    FoldLeft(LAMBDA acc, l : IF l.kind = "cpp" THEN SpaceDirective(acc, l)
                             ELSE IF IsBlank(l) THEN SpaceBlank(acc)
                             ELSE SpaceCode(acc, l),
             [out |-> <<>>, units |-> 0, types |-> 0, interfaces |-> 0, pending |-> OwesNothing], p).out

\* limit_blank_lines: not inside a statement that goes on.
LimitBlanks(p) ==
    FoldLeft(LAMBDA acc, l :
                IF IsBlank(l)
                THEN IF acc.goes_on \/ acc.blanks < Max(style.max_blank_lines)
                     THEN [acc EXCEPT !.out = Append(@, l), !.blanks = @ + 1] ELSE acc
                ELSE [out |-> Append(acc.out, l), blanks |-> 0,
                      goes_on |-> IF l.kind = "code" THEN l.continued ELSE acc.goes_on],
             [out |-> <<>>, blanks |-> 0, goes_on |-> FALSE], p).out

\* output_whitespace: the blank tail goes, but not the only line.
Finished(p) == SubSeq(p, 1, Max({Min({1, Len(p)})} \cup {i \in 1..Len(p) : ~IsBlank(p[i])}))
-----------------------------------------------------------------------------
(* lay_out *)

Widths(p) == [i \in 1..Len(p) |-> PageWidth(p[i])]

PageInit ==
    /\ style \in Styles /\ page \in Pages
    /\ pass = "engine" /\ measured = <<>> /\ widened = FALSE /\ rounds = 2 /\ delivered = {}

Engine ==
    /\ pass = "engine"
    /\ page' = Laid(<<>>, page) /\ pass' = "separators" /\ measured' = Widths(page')
    /\ widened' = FALSE
    /\ UNCHANGED <<style, rounds, delivered>>

\* The loop goes on until a sweep changes nothing.
AlignSeparators ==
    LET swept == IF style.declarations THEN SeparatorSweep(page) ELSE page IN
    /\ pass \in {"separators", "separators again"}
    /\ IF swept # page THEN page' = swept /\ UNCHANGED <<pass, widened>>
       ELSE /\ pass' = IF pass = "separators" THEN "comments" ELSE "output"
            /\ widened' = (widened \/ Widths(page) # measured)
            /\ UNCHANGED page
    /\ UNCHANGED <<style, measured, rounds, delivered>>

AlignComments ==
    LET swept == IF style.comments THEN CommentSweep(page) ELSE page IN
    /\ pass = "comments"
    /\ page' = swept
    /\ pass' = IF swept # page THEN pass ELSE "units"
    /\ UNCHANGED <<style, measured, widened, rounds, delivered>>

SpaceUnits ==
    /\ pass = "units" /\ pass' = "blanks"
    /\ page' = IF style.spacing THEN UnitSpacing(page) ELSE page
    /\ UNCHANGED <<style, measured, widened, rounds, delivered>>

CapBlanks ==
    /\ pass = "blanks" /\ pass' = "separators again"
    /\ page' = IF style.max_blank_lines = {} THEN page ELSE LimitBlanks(page)
    /\ measured' = Widths(page')
    /\ UNCHANGED <<style, widened, rounds, delivered>>

\* Mutant: one round, whatever it widened.
FinishRound_One ==
    /\ pass = "output" /\ page' = Finished(page)
    /\ IF delivered = {}
       THEN delivered' = {page'} /\ pass' = "engine" ELSE UNCHANGED delivered /\ pass' = "done"
    /\ UNCHANGED <<style, measured, widened, rounds>>

\* output_whitespace, and the next round; what is delivered is formatted again.
FinishRound ==
    /\ pass = "output" /\ page' = Finished(page)
    /\ IF widened /\ rounds > 1
       THEN rounds' = rounds - 1 /\ pass' = "engine" /\ UNCHANGED delivered
       ELSE IF delivered = {}
       THEN rounds' = 2 /\ pass' = "engine" /\ delivered' = {page'}
       ELSE rounds' = 0 /\ pass' = "done" /\ UNCHANGED delivered
    /\ UNCHANGED <<style, measured, widened>>

PageNext == Engine \/ AlignSeparators \/ AlignComments \/ SpaceUnits \/ CapBlanks \/ FinishRound

PageSpec == PageInit /\ [][PageNext]_pageVars
-----------------------------------------------------------------------------
(* Properties *)

\* A `::` in a line whose column depends on the lines above.
Swinging(p) == \E i \in 1..Len(p) : p[i].hangs /\ Carries(p[i])

\* layout.rs: two rounds are sufficient (I1).  What was delivered once is delivered
\* again, unless a line that hangs on a parenthesis has a `::` of its own to align.
PageSettles == pass = "done" /\ ~Swinging(page) => delivered = {page}

\* alignment.rs: padding lines up and costs nothing.  Every gap wider than one blank
\* is held open by another line that stands in the same column with one, and no line
\* is padded past the budget.
PaddingIsHeld ==
    pass = "done" => \A i \in 1..Len(page) :
        /\ style.declarations /\ Carries(page[i]) /\ page[i].before > 1 =>
              /\ \E j \in 1..Len(page) : Carries(page[j]) /\ Column(page[j]) = Column(page[i])
                                         /\ page[j].before = 1
              /\ CodeEnd(page[i]) <= style.budget
        /\ style.comments /\ Commented(page[i]) /\ page[i].gap > 1 =>
              /\ \E j \in 1..Len(page) : /\ Commented(page[j]) /\ page[j].gap = 1
                                         /\ CommentAt(page[j]) = CommentAt(page[i])
              /\ PageWidth(page[i]) <= style.budget
=============================================================================
