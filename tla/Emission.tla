------------------------------ MODULE Emission ------------------------------
(***************************************************************************)
(* Writing the physical lines of one planned group (emit_group in          *)
(* src/src/format/engine.rs, emit_line_to_with_lex in format/emitter.rs,   *)
(* ParenAlignmentState in format/continuation.rs).                         *)
(*                                                                         *)
(* The text of a line is a sequence of cells, one per column: "_" is a     *)
(* blank, "1" a digit of a label, "q" a quote, "x" anything else.  lead    *)
(* counts the blanks before it, gap those between a sentinel and the text. *)
(***************************************************************************)
EXTENDS Integers, Sequences, SequencesExt

CONSTANTS Groups,       \* the groups to write: sequences of lines
          Plans,        \* the plans the planner may make for them
          Configs       \* FormatConfigs

Kinds == {"Code", "Preprocessor", "Blank", "Comment", "FindentFix"}
Sentinels == {"none", "spaced", "compact", "near"}
Cells == {"(", ")", "/", "!", "&", "q", "x", "1", "_"}

LineFields == {"kind", "omp", "lead", "gap", "cells"}
PlanFields == {"uniform", "first_indent", "directive_indent", "cont", "align", "apply",
               "replacement"}
ConfigFields == {"openmp", "normalizes", "label_left", "indent_ampersand",
                 "indent_continuation", "continuation_indent", "max_indent", "line_length"}

ASSUME EmissionAssumption ==
    /\ \A g \in Groups : g # <<>> /\ \A i \in 1..Len(g) :
          DOMAIN g[i] = LineFields /\ g[i].kind \in Kinds /\ g[i].omp \in Sentinels
    /\ \A p \in Plans : DOMAIN p = PlanFields /\ p.first_indent \in Nat
    /\ \A c \in Configs :
          /\ DOMAIN c = ConfigFields
          /\ {c.max_indent, c.continuation_indent, c.line_length} \subseteq Nat

VARIABLES
    config, plan,   \* fixed
    source,         \* the lines of the group
    out,            \* the lines written
    literal,        \* LexState: a character literal is open
    paren_state,    \* ParenAlignmentState
    (* history *)
    placed,         \* the alignment each line was written at: a set
    earlier         \* what was written from the source of the author

emitVars == <<config, plan, source, out, literal, paren_state, placed, earlier>>

AtLeast(n, m)   == IF n < m THEN m ELSE n
AtMost(n, m)    == IF n > m THEN m ELSE n
Less(n, m)      == IF n < m THEN 0 ELSE n - m  \* saturating_sub
Clamp(indent)   == IF config.max_indent = 0 THEN indent ELSE AtMost(indent, config.max_indent)
Blanks(n)       == [i \in 1..n |-> "_"]
-----------------------------------------------------------------------------
(* What the text of a line is *)

LeadingAmpersand(cells) == cells # <<>> /\ cells[1] = "&"

LabelLength(cells) ==
    CHOOSE n \in 0..Len(cells) :
        /\ \A i \in 1..n : cells[i] = "1"
        /\ n < Len(cells) => cells[n + 1] # "1"

\* split_label: the digits, and the text after the gap of the author.
HasLabel(cells) ==
    LET n == LabelLength(cells) IN n > 0 /\ n < Len(cells) /\ cells[n + 1] \in {"_", "&"}

TrimStart(cells) ==
    LET inked == {i \in 1..Len(cells) : cells[i] # "_"} IN
    IF inked = {} THEN <<>>
    ELSE SubSeq(cells, CHOOSE i \in inked : \A j \in inked : i <= j, Len(cells))

Label(cells)     == SubSeq(cells, 1, LabelLength(cells))
Unlabelled(cells) == TrimStart(SubSeq(cells, LabelLength(cells) + 1, Len(cells)))

IsLabelFragment(cells) ==
    LET n == LabelLength(cells) IN n > 0 /\ Len(cells) = n + 1 /\ cells[n + 1] = "&"

\* Whether a literal is open behind the first n cells of a line: n is past the
\* start of a comment, or the quotes among them are odd in number.
OpenCell(acc, c) ==
    IF acc.comment THEN acc
    ELSE IF c = "q" THEN [acc EXCEPT !.open = ~@]
    ELSE IF c = "!" /\ ~acc.open THEN [acc EXCEPT !.comment = TRUE]
    ELSE acc

OpenAfter(cells, n, open) ==
    LET state[i \in 0..n] == IF i = 0 THEN [open |-> open, comment |-> FALSE]
                             ELSE OpenCell(state[i - 1], cells[i])
    IN  state[n].open

TrimEnd(cells) ==
    LET inked == {i \in 1..Len(cells) : cells[i] # "_"} IN
    SubSeq(cells, 1, IF inked = {} THEN 0 ELSE CHOOSE i \in inked : \A j \in inked : j <= i)

\* trim_end_horizontal_protected
TrimEndProtected(cells, open) ==
    IF OpenAfter(cells, Len(cells), open) THEN cells ELSE TrimEnd(cells)
-----------------------------------------------------------------------------
(* ParenAlignmentState *)

NoAlignment == [stack |-> <<>>, quote |-> FALSE, prev_indent |-> 0, start_indent |-> -1]

Top(stack) == stack[Len(stack)]
Current    == IF paren_state.stack = <<>> THEN {} ELSE {Top(paren_state.stack).alignment}

\* The first item of an open delimiter stands at position.
FirstItem(acc, position) ==
    IF acc.stack = <<>> \/ Top(acc.stack).first_item_seen THEN acc
    ELSE [acc EXCEPT !.stack[Len(acc.stack)] = [alignment |-> position, first_item_seen |-> TRUE],
                     !.indent = position]

Opened(acc, position) ==
    [acc EXCEPT !.indent = position,
        !.stack = Append(IF @ = <<>> THEN @
                         ELSE [@ EXCEPT ![Len(@)].first_item_seen = TRUE],
                         [alignment |-> position, first_item_seen |-> FALSE])]

Closed(acc, start) ==
    LET rest == IF acc.stack = <<>> THEN <<>> ELSE Front(acc.stack) IN
    [acc EXCEPT !.stack = rest, !.indent = IF rest = <<>> THEN start ELSE Top(rest).alignment]

\* One cell of a line that started in column start.
ScanCell(acc, cell, position, start) ==
    IF acc.comment \/ (acc.quote /\ cell # "q") THEN acc
    ELSE CASE cell = "q" -> [(IF acc.quote THEN acc ELSE FirstItem(acc, position))
                              EXCEPT !.quote = ~@]
           [] cell = "!" -> [acc EXCEPT !.comment = TRUE]
           [] cell = "(" -> Opened(acc, position)
           [] cell = ")" -> Closed(acc, start)
           [] cell \in {"_", "/"} -> acc
           [] OTHER -> FirstItem(acc, position)

ScanStart(state, target) == IF state.start_indent < 0 THEN target ELSE state.start_indent
ScanOrigin(state, target) == state.prev_indent + IF state.stack = <<>> THEN target ELSE 0

\* ParenAlignmentState::scan, from the column the line is written at.
Scan(state, cells, target) ==
    LET scanned[i \in 0..Len(cells)] ==
            IF i = 0 THEN [stack |-> state.stack, quote |-> state.quote,
                           indent |-> state.prev_indent, comment |-> FALSE]
            ELSE ScanCell(scanned[i - 1], cells[i], ScanOrigin(state, target) + i - 1,
                          ScanStart(state, target))
        end == scanned[Len(cells)]
    IN  [stack |-> end.stack, quote |-> end.quote, prev_indent |-> end.indent,
         start_indent |-> ScanStart(state, target)]
-----------------------------------------------------------------------------
(* One physical line *)

Spaced(line, lead, cells) == [line EXCEPT !.lead = lead, !.cells = cells]

IsConditional(line) == line.omp \in {"spaced", "compact"} /\ config.openmp

\* Comments and disabled sentinels: indented as the author had them or not.
EmitComment(line, indent) ==
    [line EXCEPT
        !.lead  = IF @ > 0 THEN AtLeast(Clamp(indent), 1) ELSE 0,
        !.gap   = IF line.omp # "near" THEN @ ELSE IF TrimEnd(line.cells) = <<>> THEN 0 ELSE 1,
        !.cells = TrimEnd(@)]

\* The column of a statement or continuation, before labels.
Target(line, indent, first, cont, alignment) ==
    LET base == IF IsConditional(line) THEN Less(indent, 3) ELSE indent
        moved ==
            IF first THEN base
            ELSE IF LeadingAmpersand(line.cells)
            THEN base + (IF config.indent_ampersand /\ cont THEN config.continuation_indent ELSE 0)
            ELSE IF alignment # {} THEN CHOOSE column \in alignment : TRUE
            ELSE IF config.indent_continuation /\ cont THEN base + config.continuation_indent
            ELSE IF cont THEN (IF IsConditional(line) THEN 0 ELSE line.lead)
            ELSE base
        capped == IF IsConditional(line) /\ config.max_indent # 0
                  THEN AtMost(moved, Less(config.max_indent, 3)) ELSE moved
    IN  IF (~first \/ cont) /\ IsLabelFragment(line.cells) THEN 0 ELSE capped

\* `!$ ` takes the first columns of a conditional line.
Placed(line, column, cells) ==
    IF ~IsConditional(line) THEN Spaced(line, column, cells)
    ELSE IF TrimEnd(cells) = <<>> THEN [line EXCEPT !.omp = "spaced", !.lead = 0, !.gap = 0,
                                                    !.cells = <<>>]
    ELSE [line EXCEPT !.omp = "spaced", !.lead = 0, !.gap = 1 + column, !.cells = cells]

\* Mutant: a label too wide for its indent swallows the gap.
EmitStatement_NoGap(line, target, first, cont, text) ==
    LET label == Label(text)
        body == TrimEndProtected(Unlabelled(text), literal)
    IN  IF ~first \/ (cont /\ IsLabelFragment(text)) \/ ~HasLabel(text)
        THEN Placed(line, Clamp(target), TrimEndProtected(text, literal))
        ELSE Placed(line, 0, label \o Blanks(Clamp(Less(target, Len(label)))) \o body)

EmitStatement(line, target, first, cont, text) ==
    LET label == Label(text)
        body == TrimEndProtected(Unlabelled(text), literal)
        padding == AtLeast(Clamp(Less(target, Len(label))), 1)
    IN  IF ~first \/ (cont /\ IsLabelFragment(text)) \/ ~HasLabel(text)
        THEN Placed(line, Clamp(target), TrimEndProtected(text, literal))
        ELSE IF config.label_left
        THEN Placed(line, 0, label \o Blanks(padding) \o body)
        ELSE Placed(line, Clamp(target), label \o <<"_">> \o body)

\* emit_line_to_with_lex
Emit(line, indent, first, cont, alignment, replacement) ==
    LET text == IF replacement = {} THEN line.cells ELSE CHOOSE r \in replacement : TRUE
    IN  CASE line.kind = "Preprocessor" -> [line EXCEPT !.lead = 0, !.cells = TrimEnd(@)]
          [] line.kind # "Preprocessor" /\ ~plan.apply ->
                Spaced(line, line.lead, TrimEndProtected(text, literal))
          [] line.kind = "Blank" /\ plan.apply -> Spaced(line, 0, <<>>)
          [] line.kind = "FindentFix" /\ plan.apply -> [line EXCEPT !.cells = TrimEnd(@)]
          [] line.kind = "Comment" /\ plan.apply -> EmitComment(line, indent)
          [] OTHER ->
                IF line.omp # "none" /\ ~config.openmp THEN EmitComment(line, indent)
                ELSE IF IsConditional(line) /\ ~config.normalizes /\ line.omp = "compact"
                THEN Spaced(line, 0, TrimEndProtected(line.cells, literal))
                ELSE EmitStatement(line, Target(line, indent, first, cont, alignment), first,
                                   cont, text)

\* The fixed-width label of findent: two digits at the margin.
Narrow(line) ==
    /\ Len(Label(line.cells)) = 2 /\ line.lead = 0
    /\ \E i \in 2..Len(line.cells) : line.cells[i] = "(" /\ line.cells[i - 1] = "_"

\* advance_alignment: the column the scan of a line starts from.
ScanTarget(line, first, alignment) ==
    LET base == IF first THEN plan.first_indent
                ELSE IF alignment # {} THEN CHOOSE column \in alignment : TRUE
                ELSE plan.first_indent + IF config.indent_continuation /\ plan.cont
                                         THEN config.continuation_indent ELSE 0
        shifted == IF IsConditional(line) THEN Less(base, 3) ELSE base
        label == Len(Label(line.cells))
    IN  IF ~first \/ ~HasLabel(line.cells) THEN shifted
        ELSE IF config.label_left THEN label + AtLeast(Less(shifted, label), 1)
        ELSE IF Narrow(line) THEN Less(shifted, 1) ELSE shifted

ParenScanLine(line, first) ==
    IF first /\ config.label_left /\ HasLabel(line.cells) THEN Unlabelled(line.cells)
    ELSE line.cells
-----------------------------------------------------------------------------
EmitIn(group, p, c) ==
    /\ source = group /\ plan = p /\ config = c
    /\ out = <<>> /\ literal = FALSE /\ paren_state = NoAlignment /\ placed = <<>>
    /\ earlier = <<>>

EmitInit == \E g \in Groups, p \in Plans, c \in Configs : EmitIn(g, p, c)

Next1 == source[Len(out) + 1]
First == out = <<>>

\* PlanBody::Uniform, and a directive inside a statement.
EmitUniform ==
    /\ Len(out) < Len(source)
    /\ plan.uniform \/ Next1.kind = "Preprocessor"
    /\ out' = Append(out, Emit(Next1,
                 IF plan.uniform THEN plan.first_indent ELSE plan.directive_indent,
                 TRUE, FALSE, {}, {}))
    /\ literal' = IF Next1.kind = "Code" THEN OpenAfter(Next1.cells, Len(Next1.cells), literal)
                  ELSE literal
    /\ placed' = Append(placed, {})
    /\ UNCHANGED <<config, plan, source, paren_state, earlier>>

\* PlanBody::Code
EmitCode ==
    LET alignment == IF First \/ ~plan.align THEN {} ELSE Current
        replacement == IF First THEN plan.replacement ELSE {}
        text == IF replacement = {} THEN Next1.cells ELSE CHOOSE r \in replacement : TRUE
    IN  /\ Len(out) < Len(source) /\ ~plan.uniform /\ Next1.kind # "Preprocessor"
        /\ out' = Append(out, Emit(Next1, plan.first_indent, First, plan.cont, alignment,
                                   replacement))
        /\ literal' = IF Next1.kind = "Code" THEN OpenAfter(text, Len(text), literal)
                      ELSE literal
        /\ placed' = Append(placed, IF /\ Next1.kind = "Code" /\ ~LeadingAmpersand(Next1.cells)
                                       /\ ~IsLabelFragment(Next1.cells)
                                    THEN alignment ELSE {})
        /\ paren_state' = IF plan.align /\ Next1.kind = "Code"
                          THEN Scan(paren_state, ParenScanLine(Next1, First),
                                    ScanTarget(Next1, First, alignment))
                          ELSE paren_state
        /\ UNCHANGED <<config, plan, source, earlier>>

\* The output is the source of the next run (lay_out runs the engine twice).
EmitAgain ==
    /\ Len(out) = Len(source) /\ earlier = <<>>
    /\ earlier' = out /\ source' = out
    /\ out' = <<>> /\ literal' = FALSE /\ paren_state' = NoAlignment /\ placed' = <<>>
    /\ UNCHANGED <<config, plan>>

EmitNext == EmitUniform \/ EmitCode \/ EmitAgain
EmitSpec == EmitInit /\ [][EmitNext]_emitVars
-----------------------------------------------------------------------------
(* Properties *)

\* The columns before the text of a line, and those of all of it.
Prefix(line) == line.lead + line.gap + IF line.omp = "none" THEN 0 ELSE 2
Width(line)  == Prefix(line) + Len(line.cells)

\* A narrow label: the first writing takes it off the margin, or sets the text
\* behind it one blank away from it, however wide the author's gap was.
Moved == plan.align /\ ~config.label_left /\ HasLabel(earlier[1].cells)

\* Layout is a projection: written again by the same plan, the lines come out
\* as they went in (emit_line_to_with_lex; lay_out stops after two rounds).
\* Not so for the labels that advance_alignment reads off the author's line.
EmissionSettles ==
    earlier # <<>> /\ ~Moved => \A i \in 1..Len(out) : out[i] = earlier[i]
=============================================================================
