------------------------------ MODULE MCIntake ------------------------------
(***************************************************************************)
(* What comes before any formatting, for TLC: reading the command line,    *)
(* merging the settings, matching exclusions, selecting the sources of a   *)
(* run, telling free form from fixed.  Each hands the next a value and is  *)
(* over by then, so a behaviour here is one of them.                       *)
(***************************************************************************)
EXTENDS FormatDetect, Arguments, Settings, Exclude, Selection

VARIABLE part  \* what this behaviour runs: fixed

(* the command line *)
Token(name, value) == [name |-> name, value |-> value]
MCTokens ==
    {Token(name, "absent") : name \in
        {"word", "--", "unknown", "stdin", "stdin-filename", "config", "project-context",
         "context-path", "all", "all-files", "isolated", "stdout", "check", "diff",
         "show-files", "query-format", "last-indent", "help", "no-config"}}
    \cup {Token(name, "text") : name \in
             {"stdin-filename", "context-path", "project-context", "config", "all"}}
    \cup {Token("word", "empty"), Token("input-format", "fixed")}

(* the settings *)
Setting(id) == [id |-> id, number |-> 2, flag |-> TRUE, mode |-> "IndentOnly"]
MCSettings ==
    {Setting(id) : id \in {"DisableIndent", "RestartContains", "NoContinuationIndent",
                           "StartIndent", "StartIndentAuto", "Mode", "Rewrap", "RefactorEnd",
                           "RefactorUpcase", "Wrap", "NoWrap"}}
    \cup {[Setting(id) EXCEPT !.number = 7] :
              id \in {"do", "Case", "ContainsIndent", "ContinuationIndent"}}
    \cup {[Setting("Indent") EXCEPT !.number = n] : n \in {4, 5}}
    \cup {[Setting("Mode") EXCEPT !.mode = "Full"], [Setting("Rewrap") EXCEPT !.flag = FALSE]}
MCDirectories == {[standalone |-> FALSE, pyproject |-> p] : p \in {"no match", "match"}}

(* the sources of a checkout *)
Untracked(name) ==
    [NoPath EXCEPT !.name = name, !.file = name, !.inside = TRUE, !.context = TRUE]
Tracked(name) == [Untracked(name) EXCEPT !.tracked = TRUE]

PlainFile    == Tracked("plain")
AliasFile    == [Untracked("alias") EXCEPT !.file = "plain"]
FixedFile    == [Tracked("fixed") EXCEPT !.form = "fixed"]
OutsideFile  == [Tracked("outside") EXCEPT !.inside = FALSE, !.context = FALSE]
OwnedFile    == [Tracked("owned") EXCEPT !.submodule = TRUE]
ExcludedFile == [Tracked("excluded") EXCEPT !.excluded = TRUE]
NewFile      == [Untracked("new") EXCEPT !.context = FALSE]
TextFile     == [Untracked("text") EXCEPT !.source = FALSE]

MCPaths == {PlainFile, AliasFile, FixedFile, OutsideFile, OwnedFile, ExcludedFile,
            NewFile, TextFile}

BareRun == [kind |-> "Files", paths |-> {}, named |-> {}, project |-> FALSE,
            contexts |-> FALSE, isolated |-> FALSE, directory |-> FALSE,
            submodules |-> TRUE, free |-> FALSE, normalizes |-> TRUE,
            action |-> "Rewrite", form |-> "free", checkout |-> TRUE]
Styles == {[BareRun EXCEPT !.contexts = c, !.submodules = s, !.normalizes = n,
                           !.free = f, !.checkout = k] : c, s, n, f, k \in BOOLEAN}
MCInvocations ==
    {[i EXCEPT !.paths = p] : i \in Styles,
        p \in {{PlainFile}, {AliasFile}, {FixedFile, NewFile}, {ExcludedFile}, {TextFile}}}
    \cup
    {[i EXCEPT !.paths = p, !.isolated = TRUE] :
        i \in {j \in Styles : ~j.contexts}, p \in {{PlainFile}, {FixedFile, NewFile}}}
    \cup
    {[i EXCEPT !.paths = p, !.action = a] : i \in Styles,
        p \in {{PlainFile}, {FixedFile}}, a \in {"Stdout", "QueryFormat", "ShowFiles"}}
    \cup
    {[i EXCEPT !.kind = k, !.directory = d, !.action = a] : i \in Styles,
        k \in {"All", "AllFiles"}, d \in BOOLEAN,
        a \in {"Rewrite", "QueryFormat", "ShowFiles"}}
    \cup
    {[i EXCEPT !.kind = "Directory", !.isolated = o, !.action = a, !.paths = {TextFile}] :
        i \in Styles, o \in BOOLEAN, a \in {"Rewrite", "QueryFormat", "Stdout"}}
    \cup
    {[i EXCEPT !.kind = "Stdin", !.named = n, !.project = p, !.action = a, !.form = f] :
        i \in Styles, n \in {{}, {PlainFile}, {NewFile}}, p \in BOOLEAN,
        a \in {"Rewrite", "QueryFormat", "IndentQuery"}, f \in Forms}

(* exclusions *)
MCPatterns == UNION {[1..n -> {"a", "b", "?", "*", "/"}] : n \in 1..4}
MCSourcePaths ==
    {p \in UNION {[1..n -> {"a", "b", "/"}] : n \in 1..4} :
        /\ p[1] # "/" /\ Last(p) # "/"
        /\ \A i \in 1..(Len(p) - 1) : "/" \in {p[i], p[i + 1]} => p[i] # p[i + 1]}

(* fixed and free form *)
Card == [kind |-> "code", gutter |-> "blank", mark |-> "blank", label |-> FALSE,
         gap |-> FALSE, field |-> "text", ending |-> "closed"]
CppLine(word, condition) ==
    [kind |-> "cpp", word |-> word, condition |-> condition, continues |-> FALSE]
MCSourceLines ==
    {Card}
    \cup {[Card EXCEPT !.ending = e] : e \in {"amp", "operator", "io star"}}
    \cup {[Card EXCEPT !.gutter = g] : g \in {"legacy", "name", "bang", "tab"}}
    \cup {[Card EXCEPT !.gutter = g, !.ending = "amp"] : g \in {"cname", "amp"}}
    \cup {[Card EXCEPT !.mark = m] : m \in {"amp", "letter", "digit", "bang", "hash"}}
    \cup {[Card EXCEPT !.mark = m, !.ending = "amp"] : m \in {"amp", "other"}}
    \cup {[Card EXCEPT !.mark = "amp", !.field = "none", !.ending = "amp"],
          [Card EXCEPT !.mark = "letter", !.field = "comma"],
          [Card EXCEPT !.gutter = "digits", !.mark = "digit", !.label = TRUE],
          [Card EXCEPT !.mark = "digit", !.gap = TRUE],
          [Card EXCEPT !.mark = "digit", !.gap = TRUE, !.field = "comma"]}
    \cup {CppLine(w, c) : w \in {"if", "elif"}, c \in Literal}
    \cup {CppLine(w, "unknown") : w \in {"ifdef", "else", "elifdef", "endif"}}
    \cup {[CppLine("if", "true") EXCEPT !.continues = TRUE],
          [kind |-> "fypp", word |-> "include", condition |-> "unknown", continues |-> TRUE]}
-----------------------------------------------------------------------------
intakeVars == <<part, detectVars, argVars, setVars, excludeVars, selVars>>

ExcludeIdle == pattern = <<"a">> /\ path = <<"a">> /\ excluded = "unknown"
SelIdle == SelIn(BareRun)

MCInit ==
    /\ DetectInit /\ ArgInit /\ SetInit
    /\ \/ part \in {"detect", "arguments", "settings"} /\ ExcludeIdle /\ SelIdle
       \/ part = "exclude" /\ ExcludeInit /\ SelIdle
       \/ part = "select" /\ SelInit /\ ExcludeIdle

MCNext ==
    /\ UNCHANGED part
    /\ \/ part = "detect" /\ DetectNext
          /\ UNCHANGED <<argVars, setVars, excludeVars, selVars>>
       \/ part = "arguments" /\ ArgNext
          /\ UNCHANGED <<detectVars, setVars, excludeVars, selVars>>
       \/ part = "settings" /\ SetNext
          /\ UNCHANGED <<detectVars, argVars, excludeVars, selVars>>
       \/ part = "exclude" /\ IsExcluded
          /\ UNCHANGED <<detectVars, argVars, setVars, selVars>>
       \/ part = "select" /\ SelNext
          /\ UNCHANGED <<detectVars, argVars, setVars, excludeVars>>

MCSpec == MCInit /\ [][MCNext]_intakeVars
=============================================================================
