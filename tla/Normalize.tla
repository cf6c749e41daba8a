----------------------------- MODULE Normalize -----------------------------
(***************************************************************************)
(* The pass order of normalization (src/src/transform/pipeline.rs) and the *)
(* delivery of its result (format/full/driver.rs, format/full/layout.rs):  *)
(* which pass reads which view of the document, and what becomes of lines  *)
(* and line terminators.                                                   *)
(*                                                                         *)
(* A view (Analysis and ScopeTree) is built when a run of passes starts    *)
(* without one, shared by the passes of the run, kept for the next run if  *)
(* nothing changed and dropped otherwise.  What a pass rewrites depends on *)
(* the text and is nondeterministic; the texts tell apart what decides     *)
(* about lines: blanks, separators, split tokens, continued statements,    *)
(* removable RETURNs.                                                      *)
(***************************************************************************)
EXTENDS Document

CONSTANTS Modes,      \* of NormalizeOnly, CanonicalizeOnly, Full
          OptionSets, \* the sets of switches a run is given
          Files       \* the files to format

Options == {"continuation_markers", "remove_redundant_parens",
            "normalize_semicolons", "modernize_declarations",
            "remove_terminal_return", "refactor_end", "rewrap"}

ASSUME NormalizeAssumption ==
    /\ Modes \subseteq {"NormalizeOnly", "CanonicalizeOnly", "Full"}
    /\ OptionSets \subseteq SUBSET Options
    /\ \A file \in Files : file \in Seq(Line) /\ IsFile(file)

VARIABLES
    mode, options,
    source,    \* the file
    document,
    at,        \* number of the next pass
    view,      \* the cached view: none, or one
    stage,     \* what the passes of the current run changed
    output     \* the bytes delivered: none, or one

vars == <<mode, options, source, document, at, view, stage, output>>

Passes == <<"macros",
            "declared", "join", "parens",
            "sync_names", "semicolons",
            "modernize",
            "line_rules", "openmp", "continuations",
            "returns",
            "canonical_end",
            "rewrap", "line_rules_again",
            "trim">>

\* The passes that end a run of PassContextCache.
EndsRun == {"macros", "parens", "semicolons", "modernize", "continuations",
            "returns", "rewrap", "line_rules_again"}

\* What a view must still be right about for each pass that reads it.
Needs == [p \in {"macros", "declared", "sync_names", "semicolons", "modernize",
                 "line_rules", "continuations", "returns", "rewrap",
                 "line_rules_again"} |->
             CASE p = "semicolons"    -> {"offsets"}
               [] p = "continuations" -> {}
               [] OTHER               -> {"spelling", "offsets"}]

NormalizesWhitespace == mode # "CanonicalizeOnly"

Enabled(p) ==
    CASE p = "join"          -> NormalizesWhitespace
      [] p = "parens"        -> "remove_redundant_parens" \in options
      [] p = "semicolons"    -> "normalize_semicolons" \in options
      [] p = "modernize"     -> "modernize_declarations" \in options
      [] p = "continuations" -> NormalizesWhitespace /\ "continuation_markers" \in options
      [] p = "returns"       -> NormalizesWhitespace /\ "remove_terminal_return" \in options
      [] p = "canonical_end" -> ~NormalizesWhitespace /\ "refactor_end" \in options
      [] p = "rewrap"        -> mode = "Full" /\ "rewrap" \in options
         \* only if the pass before joined something, which dropped the view
      [] p = "line_rules_again" -> mode = "Full" /\ "rewrap" \in options /\ view = {}
      [] OTHER               -> TRUE

Init ==
    /\ mode \in Modes /\ options \in OptionSets /\ source \in Files
    /\ document = IF NormalizesWhitespace THEN FromBytes(source)
                  ELSE PreserveOriginalLineEndings(FromBytes(source))
    /\ at = 1 /\ view = {} /\ stage = "No" /\ output = {}
-----------------------------------------------------------------------------
(* PassContextCache *)

Fresh == [lines |-> Analyzed(document), stale |-> {}]

Context == IF view = {} THEN Fresh ELSE CHOOSE v \in view : TRUE

\* Changed::or
Or(a, b) == IF "Structure" \in {a, b} THEN "Structure"
            ELSE IF "Text" \in {a, b} THEN "Text" ELSE "No"

\* Mutant: only a change of structure drops the view.
Dropped_Structure(changed) == changed = "Structure"

Dropped(changed) == changed # "No"

\* Pass p leaves document d and reports what it changed; readers of the old
\* view are then wrong about `what`.
Finish(p, d, changed, what) ==
    LET whole == Or(stage, changed)
        known == IF changed = "No" THEN Context
                 ELSE [Context EXCEPT !.stale = @ \cup what]
    IN  /\ document' = d
        /\ at' = at + 1
        /\ IF p \in EndsRun
           THEN /\ view' = IF Dropped(whole) THEN {} ELSE {known}
                /\ stage' = "No"
           ELSE view' = {known} /\ stage' = whole
        /\ UNCHANGED <<mode, options, source, output>>

At(p) == at <= Len(Passes) /\ Passes[at] = p /\ Enabled(p)

\* A pass that is switched off; the last one of a shared run still ends it.
Skip ==
    /\ at <= Len(Passes) /\ ~Enabled(Passes[at])
    /\ IF Passes[at] \in {"parens", "semicolons", "continuations"}
       THEN Finish(Passes[at], document, "No", {})
       ELSE at' = at + 1 /\ UNCHANGED <<mode, options, source, document, view, stage, output>>
-----------------------------------------------------------------------------
(* Passes *)

Code == {"x", "x ", "x;", "x&", "a&", "&b", "return"}

HasCode == \E i \in 1..Len(document.lines) : document.lines[i] \in Code

\* Case passes rewrite names in place.
Respell(p) ==
    /\ At(p)
    /\ \/ Finish(p, document, "No", {})
       \/ HasCode /\ Finish(p, document, "Text", {"spelling"})

\* These rewrite the text of lines, and the width with it.
Rewrite(p) ==
    /\ At(p)
    /\ \/ Finish(p, document, "No", {})
       \/ HasCode /\ Finish(p, document, "Text", {"spelling", "offsets"})

\* The lines that stay, in their order.
Without(lines, gone) ==
    LET kept   == (1..Len(lines)) \ gone
        Nth(k) == CHOOSE i \in kept : Cardinality({j \in kept : j < i}) = k - 1
    IN  [k \in 1..Cardinality(kept) |-> lines[Nth(k)]]

Changed(d, changed) == IF d.lines = document.lines THEN "No" ELSE changed

\* Each line of `heads` and the next become one.
Joined(lines, heads) ==
    Without([i \in 1..Len(lines) |-> IF i \in heads THEN "x" ELSE lines[i]],
            {i + 1 : i \in heads})

Pairs(first, second) ==
    {i \in 1..Len(document.lines) - 1 :
        document.lines[i] = first /\ document.lines[i + 1] = second}

\* join_lexical_token_continuations removes lines in place.
JoinTokens ==
    LET d == [document EXCEPT !.lines = Joined(@, Pairs("a&", "&b"))]
    IN  At("join") /\ Finish("join", d, Changed(d, "Structure"), {"spelling", "offsets"})

\* Mutant: a blank hides the separator in front of it.
WithoutSeparator_AtEnd(text) ==
    CASE text = ";" -> "" [] text = "x;" -> "x" [] OTHER -> text

WithoutSeparator(text) ==
    CASE text = ";" -> "" [] text = "; " -> " " [] text = "x;" -> "x" [] OTHER -> text

Separated(d) == [d EXCEPT !.lines = [i \in DOMAIN @ |-> WithoutSeparator(@[i])]]

\* semicolons::run
Semicolons ==
    /\ At("semicolons")
    /\ LET d == Separated(document)
           e == IF d = document THEN d ELSE CanonicalizeTail(d)
           structure == Len(e.lines) < Len(d.lines)
       IN  Finish("semicolons", e, Changed(e, IF structure THEN "Structure" ELSE "Text"),
                  {"spelling", "offsets"})

\* remove_terminal_procedure_returns; an END follows.
Returns ==
    /\ At("returns")
    /\ \E gone \in SUBSET {i \in 1..Len(document.lines) - 1 : document.lines[i] = "return"} :
          LET d == SetLines(document, Without(document.lines, gone))
          IN  Finish("returns", d, Changed(d, "Structure"), {"spelling", "offsets"})

\* canonical_end::run has a view of its own; note_change.
CanonicalEnd ==
    /\ At("canonical_end")
    /\ \E changed \in {"No", "Text"} :
          /\ changed = "No" \/ HasCode
          /\ view' = IF Dropped(changed) THEN {} ELSE view
    /\ at' = at + 1
    /\ UNCHANGED <<mode, options, source, document, stage, output>>

\* rewrap::prepare copies the lines of the view's groups, some of them joined;
\* the line rules run again only after a join.
Rewrap ==
    /\ At("rewrap")
    /\ \E heads \in SUBSET Pairs("x&", "x") :
          IF heads = {} THEN Finish("rewrap", document, "No", {})
          ELSE Finish("rewrap", SetLines(document, Joined(Context.lines, heads)),
                      "Structure", {"spelling", "offsets"})

TrimmedText(text) ==
    CASE text = " " -> "" [] text = "; " -> ";" [] text = "x " -> "x" [] OTHER -> text

Trimmed(d) == [d EXCEPT !.lines = [i \in DOMAIN @ |-> TrimmedText(@[i])]]

\* trim_trailing_horizontal
TrimPass ==
    /\ At("trim")
    /\ document' = Trimmed(document) /\ at' = at + 1
    /\ UNCHANGED <<mode, options, source, view, stage, output>>
-----------------------------------------------------------------------------
(* Delivery *)

\* Mutant: the policy of the laid-out text is used.
Restored_None(laid, d) == laid

\* lay_out gives the engine's output the terminators of the document.
Restored(laid, d) ==
    [laid EXCEPT !.newline = d.newline, !.trailing_newline = d.trailing_newline]

InkedLines(lines) == {i \in 1..Len(lines) : i = 1 \/ lines[i] # ""}

\* output_whitespace
OutputWhitespace(d) ==
    LET trimmed == Trimmed(d)
    IN  [trimmed EXCEPT !.lines = SubSeq(@, 1, Max(InkedLines(@))),
                        !.trailing_newline = \/ d.trailing_newline
                                             \/ Len(d.lines) > 1
                                             \/ d.lines[1] # ""]

\* What the mode delivers of a normalized document.
Delivered(d) ==
    IF mode = "Full"
    THEN ToBytes(OutputWhitespace(Restored(FromBytes(ToLfBytes(d)), d)))
    ELSE ToBytes(Trimmed(d))

Deliver ==
    /\ at > Len(Passes) /\ output = {}
    /\ output' = {Delivered(document)}
    /\ UNCHANGED <<mode, options, source, document, at, view, stage>>

Next ==
    \/ \E p \in {"macros", "declared", "sync_names", "openmp"} : Respell(p)
    \/ \E p \in {"parens", "modernize", "line_rules", "continuations",
                 "line_rules_again"} : Rewrite(p)
    \/ JoinTokens \/ Semicolons \/ Returns \/ CanonicalEnd \/ Rewrap
    \/ TrimPass \/ Skip \/ Deliver

Spec == Init /\ [][Next]_vars

-----------------------------------------------------------------------------
(* Properties. *)

\* A pass reads a view that is still right about what it takes from it: the
\* same lines, and offsets and spellings where it needs them.  (Comments of
\* pipeline.rs: "Re-analysis is required before a pass that reads statement or
\* scope data whenever an earlier pass may have changed the text it describes";
\* normalize_continuations asserts the number of lines.)
ViewCurrent ==
    (at <= Len(Passes) /\ Passes[at] \in DOMAIN Needs /\ Enabled(Passes[at])) =>
        /\ Context.lines = document.lines
        /\ Context.stale \cap Needs[Passes[at]] = {}

\* --canonicalize-only keeps every line and its own terminator; only a last
\* line without terminator that held nothing but separators may go.
\* (document.rs: "canonicalization-only can promise that a token rewrite does
\* not silently normalize mixed line endings".)
EndingsKept ==
    mode = "CanonicalizeOnly" => \A bytes \in output :
        /\ \/ Len(bytes) = Len(source)
           \/ Len(bytes) = Len(source) - 1 /\ Last(source).newline = "None"
        /\ \A i \in 1..Len(bytes) : bytes[i].newline = source[i].newline

\* The other modes end every line the way most lines of the file ended, and
\* full mode ends a file that holds anything once: with a terminator, and with
\* no empty line at its end.
LinesEndAlike ==
    \A bytes \in output :
        /\ NormalizesWhitespace => \A i \in 1..Len(bytes) :
              bytes[i].newline \in {FromBytes(source).newline, "None"}
        /\ mode = "Full" /\ bytes # <<>> =>
              /\ Last(bytes).newline # "None"
              /\ Len(bytes) > 1 => Last(bytes).text # ""

\* Every mode keeps its promise about terminators.
TerminatorsRight == EndingsKept /\ LinesEndAlike

\* What is delivered has settled: formatted again, with no more joins or
\* removals to make, it is delivered as it is, terminators and all.
ShapeSettled ==
    \A bytes \in output :
        LET again  == IF NormalizesWhitespace THEN FromBytes(bytes)
                      ELSE PreserveOriginalLineEndings(FromBytes(bytes))
            purged == IF "normalize_semicolons" \in options /\ Separated(again) # again
                      THEN CanonicalizeTail(Separated(again)) ELSE again
        IN  Delivered(purged) = bytes
=============================================================================
