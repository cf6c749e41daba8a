------------------------------ MODULE Arguments ------------------------------
(***************************************************************************)
(* The command line (src/src/cli/parse.rs, parse/, draft.rs).              *)
(*                                                                         *)
(* The arguments are read from left to right.  Each one is handed to a     *)
(* handler that extends the selection of inputs or the set of requested    *)
(* actions, or refuses; what remains to be checked about their combination *)
(* is checked when all were read.                                          *)
(***************************************************************************)
EXTENDS Naturals, Sequences, FiniteSets

CONSTANTS Tokens,       \* the arguments that may be given
          MaxTokens     \* bound on their number

\* The options, by what the schema says of their values (options.rs).
Flags == {"last-indent", "last-usable", "all", "all-files", "stdin", "stdout",
          "isolated", "check", "diff", "show-files", "query-format", "no-config",
          "help", "version", "indent-only", "full"}
Optional == {"no-submodules", "wrap", "rewrap"}
Required == {"context-path", "project-context", "stdin-filename", "exclude",
             "extend-exclude", "config", "input-format", "output-format", "indent"}
Options == Flags \cup Optional \cup Required

ActionRequests == {"stdout", "check", "diff", "show-files", "query-format",
                   "last-indent", "last-usable"}

Values == {"absent", "empty", "fixed", "dashed", "text"}

\* A word is an argument without a dash; an unknown one has a dash and is in no
\* schema, or writes a long option with one dash.
ASSUME TokensAssumption ==
    /\ Tokens \subseteq [name : Options \cup {"word", "--", "unknown"}, value : Values]
    /\ MaxTokens \in Nat

VARIABLES
    draft,      \* DraftInvocation
    awaiting,   \* the option whose value is the next argument, or "none"
    ended,      \* `--` was read
    switches,   \* help and version, once read
    config,     \* ConfigSelection
    outcome,    \* "reading", "refused", "help", "version" or "run"
    action,     \* the action of a run
    (* history *)
    read,       \* arguments read
    given       \* how often each option was understood; bad: a value it refuses

argVars == <<draft, awaiting, ended, switches, config, outcome, action, read, given>>
-----------------------------------------------------------------------------
(* DraftInvocation *)

Implicit == [kind |-> "Implicit", paths |-> 0, name |-> FALSE, project |-> FALSE,
             isolated |-> FALSE]
Stdin(name, project, isolated) ==
    [Implicit EXCEPT !.kind = "Stdin", !.name = name, !.project = project,
                     !.isolated = isolated]
ExplicitPaths(paths, isolated) ==
    [Implicit EXCEPT !.kind = "ExplicitPaths", !.paths = paths, !.isolated = isolated]

\* A bulk selection has at most one path, its directory.
Bulk(kind, directory) == [Implicit EXCEPT !.kind = kind, !.paths = directory]

BulkKinds == {"All", "AllFiles"}

With(d, selection) == [d EXCEPT !.selection = selection]
Conflicting(d)        == [d EXCEPT !.refused = TRUE]

PushPath(d) ==
    LET s == d.selection IN
    CASE s.kind = "Implicit"      -> With(d, ExplicitPaths(1, FALSE))
      [] s.kind = "ExplicitPaths" -> [d EXCEPT !.selection.paths = @ + 1]
      [] s.kind \in BulkKinds /\ s.paths = 0 -> [d EXCEPT !.selection.paths = 1]
      [] OTHER                    -> Conflicting(d)

SelectStdin(d) ==
    CASE d.selection.kind = "Implicit" -> With(d, Stdin(FALSE, FALSE, FALSE))
      [] d.selection.kind = "Stdin"    -> d
      [] OTHER                         -> Conflicting(d)

SelectStdinFilename(d) ==
    LET s == d.selection IN
    CASE s.kind = "Implicit"          -> With(d, Stdin(TRUE, FALSE, FALSE))
      [] s.kind = "Stdin" /\ ~s.name  -> [d EXCEPT !.selection.name = TRUE]
      [] s.kind = "ExplicitPaths" /\ s.paths = 0 /\ s.isolated ->
            With(d, Stdin(TRUE, FALSE, TRUE))
      [] OTHER                        -> Conflicting(d)

SelectProjectContext(d) ==
    LET s == d.selection IN
    CASE s.kind = "Implicit" -> With(d, Stdin(FALSE, TRUE, FALSE))
      [] s.kind = "Stdin" /\ ~s.isolated /\ ~s.project -> [d EXCEPT !.selection.project = TRUE]
      [] OTHER -> Conflicting(d)

\* Mutant: the directory of an isolated selection is taken over.
SelectAll_Isolated(d, kind) ==
    LET s == d.selection IN
    CASE s.kind = "Implicit" -> With(d, Bulk(kind, 0))
      [] s.kind = "ExplicitPaths" /\ s.paths <= 1 -> With(d, Bulk(kind, s.paths))
      [] s.kind = kind -> d
      [] OTHER -> Conflicting(d)

SelectAll(d, kind) ==
    LET s == d.selection IN
    CASE s.kind = "Implicit" -> With(d, Bulk(kind, 0))
      [] s.kind = "ExplicitPaths" /\ ~s.isolated /\ s.paths <= 1 ->
            With(d, Bulk(kind, s.paths))
      [] s.kind = kind -> d
      [] OTHER -> Conflicting(d)

SetIsolated(d) ==
    LET s == d.selection IN
    IF d.contexts > 0 THEN Conflicting(d) ELSE
    CASE s.kind = "Implicit"    -> With(d, ExplicitPaths(0, TRUE))
      [] s.kind = "Stdin" /\ s.name /\ ~s.project -> [d EXCEPT !.selection.isolated = TRUE]
      [] s.kind = "ExplicitPaths" -> [d EXCEPT !.selection.isolated = TRUE]
      [] OTHER                  -> Conflicting(d)

PushContextPath(d) ==
    IF d.selection.isolated THEN Conflicting(d) ELSE [d EXCEPT !.contexts = @ + 1]

RequestAction(d, request) == [d EXCEPT !.actions = @ \cup {request}]

HasFileSelection(s) ==
    s.kind \in BulkKinds \/ (s.kind = "ExplicitPaths" /\ s.paths > 0)

\* What the handlers could not see one by one.
Validate(d) ==
    LET s == d.selection
        Asked(requests) == d.actions \cap requests # {}
        query == {"last-indent", "last-usable"}
        conflicts ==
            \/ s.kind = "Stdin" /\ Asked({"stdout", "check", "diff", "show-files"})
            \/ /\ Asked({"stdout"})
               /\ \/ s.kind # "ExplicitPaths" \/ s.paths # 1
                  \/ Asked({"check", "diff", "show-files"})
            \/ s.kind = "ExplicitPaths" /\ s.paths = 0 /\ s.isolated
            \/ s.isolated /\ d.contexts > 0
            \/ Asked({"diff", "check", "show-files"}) /\ ~HasFileSelection(s)
            \/ Asked({"show-files"}) /\ Asked({"check", "diff"} \cup query)
            \/ /\ Asked({"query-format"})
               /\ \/ Asked(ActionRequests \ {"query-format"})
                  \/ s.project \/ s.isolated \/ d.contexts > 0
            \/ /\ Asked(query)
               /\ \/ s.kind \in {"ExplicitPaths"} \cup BulkKinds
                  \/ Asked({"check", "diff"})
    IN  ~conflicts

ResolveAction(d) ==
    IF "query-format" \in d.actions THEN "QueryFormat"
    ELSE IF "show-files" \in d.actions THEN "ShowFiles"
    ELSE IF "stdout" \in d.actions THEN "Stdout"
    ELSE IF {"diff", "check"} \subseteq d.actions THEN "DiffCheck"
    ELSE IF "diff" \in d.actions THEN "Diff"
    ELSE IF "check" \in d.actions THEN "Check"
    ELSE IF {"last-indent", "last-usable"} \subseteq d.actions THEN "Both"
    ELSE IF "last-indent" \in d.actions THEN "LastIndent"
    ELSE IF "last-usable" \in d.actions THEN "LastUsable" ELSE "Rewrite"

\* ConfigSelection::resolve
ConfigResolves ==
    /\ config.explicit \in {<<>>, <<"text">>, <<"fixed">>}
    /\ config.no => config.explicit = <<>>
-----------------------------------------------------------------------------
ArgInit ==
    /\ draft = [selection |-> Implicit, actions |-> {}, contexts |-> 0, refused |-> FALSE]
    /\ awaiting = "none" /\ ended = FALSE /\ switches = {}
    /\ config = [no |-> FALSE, explicit |-> <<>>]
    /\ outcome = "reading" /\ action = "none"
    /\ read = 0 /\ given = [o \in Options \cup {"word", "bad"} |-> 0]

PathOptions == {"stdin-filename", "project-context", "context-path"}

BadValue(option, value) ==
    \/ option \in PathOptions \cup {"exclude", "extend-exclude"} /\ value = "empty"
    \/ option \in {"input-format", "output-format"} /\ value # "text"
    \/ option \in {"indent", "no-submodules", "wrap", "rewrap"}
          /\ value \notin {"absent", "text"}

\* An option and its value: the match of parse_long.
Handled(option, value) ==
    IF BadValue(option, value) THEN Conflicting(draft) ELSE
    CASE option = "word"             -> PushPath(draft)
      [] option = "stdin"            -> SelectStdin(draft)
      [] option = "stdin-filename"   -> SelectStdinFilename(draft)
      [] option = "project-context"  -> SelectProjectContext(draft)
      [] option = "context-path"     -> PushContextPath(draft)
      [] option = "all"              -> SelectAll(draft, "All")
      [] option = "all-files"        -> SelectAll(draft, "AllFiles")
      [] option = "isolated"         -> SetIsolated(draft)
      [] option \in ActionRequests   -> RequestAction(draft, option)
      [] OTHER                       -> draft

Apply(option, value) ==
    LET result == Handled(option, value) IN
    /\ draft' = result
    /\ outcome' = IF result.refused THEN "refused" ELSE "reading"
    /\ switches' = switches \cup ({option} \cap {"help", "version"})
    /\ config' = CASE option = "config"    -> [config EXCEPT !.explicit = Append(@, value)]
                   [] option = "no-config" -> [config EXCEPT !.no = TRUE]
                   [] OTHER                -> config
    /\ given' = [given EXCEPT ![IF BadValue(option, value) THEN "bad" ELSE option] = @ + 1]

Refuse ==
    /\ outcome' = "refused"
    /\ given' = [given EXCEPT !["bad"] = @ + 1]
    /\ UNCHANGED <<draft, switches, config>>

\* The value of the option before, whatever the argument looks like.
TakeValue(token) ==
    /\ awaiting # "none"
    /\ Apply(awaiting, IF token.name # "word" THEN "dashed" ELSE token.value)
    /\ awaiting' = "none" /\ UNCHANGED ended

EndOptions(token) ==
    /\ awaiting = "none" /\ token.name = "--"
    /\ ended' = TRUE
    /\ UNCHANGED <<draft, awaiting, switches, config, outcome, given>>

PushWord(token) ==
    /\ awaiting = "none" /\ token.name # "--"
    /\ ended \/ token.name = "word"
    /\ Apply("word", token.value)
    /\ UNCHANGED <<awaiting, ended>>

RefuseOption(token) ==
    /\ awaiting = "none" /\ ~ended
    /\ \/ token.name = "unknown"
       \/ token.name \in Flags /\ token.value # "absent"
    /\ Refuse /\ UNCHANGED <<awaiting, ended>>

ReadOption(token) ==
    /\ awaiting = "none" /\ ~ended /\ token.name \in Options
    /\ token.name \in Flags => token.value = "absent"
    /\ IF token.name \in Required /\ token.value = "absent"
       THEN /\ awaiting' = token.name
            /\ UNCHANGED <<draft, switches, config, outcome, given>>
       ELSE Apply(token.name, token.value) /\ UNCHANGED awaiting
    /\ UNCHANGED ended

MissingValue ==
    /\ awaiting # "none"
    /\ Refuse /\ UNCHANGED <<awaiting, ended, action>>

\* finish: the combination is validated even when only help was asked for.
Finish ==
    /\ awaiting = "none"
    /\ outcome' = IF ~Validate(draft) THEN "refused"
                  ELSE IF "help" \in switches THEN "help"
                  ELSE IF "version" \in switches THEN "version"
                  ELSE IF ~ConfigResolves THEN "refused" ELSE "run"
    /\ action' = ResolveAction(draft)
    /\ UNCHANGED <<draft, awaiting, ended, switches, config, given>>

ArgNext ==
    /\ outcome = "reading"
    /\ \/ /\ read < MaxTokens /\ read' = read + 1 /\ UNCHANGED action
          /\ \E token \in Tokens :
                \/ TakeValue(token) \/ EndOptions(token) \/ PushWord(token)
                \/ RefuseOption(token) \/ ReadOption(token)
       \/ UNCHANGED read /\ (MissingValue \/ Finish)

ArgSpec == ArgInit /\ [][ArgNext]_argVars
-----------------------------------------------------------------------------
(* Properties *)

Has(options) == \E o \in options : given[o] > 0

\* Options that contradict each other in whatever order they are given, ...
Contradiction ==
    LET stdin == Has({"stdin", "stdin-filename", "project-context"})
        bulk  == Has({"all", "all-files"})
        words == given["word"]
        query == {"last-indent", "last-usable"}
    IN  \/ Has({"bad"})
        \/ stdin /\ (words > 0 \/ bulk \/ Has({"stdout", "check", "diff", "show-files"}))
        \/ given["stdin-filename"] > 1 \/ given["project-context"] > 1
        \/ given["all"] > 0 /\ given["all-files"] > 0
        \/ bulk /\ words > 1
        \/ Has({"isolated"}) /\ (bulk \/ Has({"project-context", "context-path", "query-format"}))
        \/ Has({"stdout"}) /\ (words > 1 \/ bulk \/ Has({"check", "diff", "show-files"}))
        \/ Has({"show-files"}) /\ Has({"check", "diff"} \cup query)
        \/ Has({"query-format"})
              /\ Has((ActionRequests \ {"query-format"}) \cup {"project-context", "context-path"})
        \/ Has(query) /\ (words > 0 \/ bulk \/ Has({"check", "diff"}))
        \/ ~Has({"help", "version"}) /\ config.no /\ config.explicit # <<>>
        \/ ~Has({"help", "version"}) /\ Len(config.explicit) > 1

\* ... and options that ask for another one.
Incomplete ==
    LET words == given["word"]
        bulk  == Has({"all", "all-files"})
    IN  \/ Has({"isolated"}) /\ words = 0 /\ given["stdin-filename"] = 0
        \/ Has({"stdout"}) /\ words = 0
        \/ Has({"check", "diff", "show-files"}) /\ words = 0 /\ ~bulk
        \/ ~Has({"help", "version"}) /\ ~ConfigResolves

\* Whether a command line is refused, what a run reads and what it does depend
\* on the options given, not on their order (the setters of draft.rs against its validate).  The one
\* exception is an isolated named buffer that is also called --stdin.
OrderDoesNotMatter ==
    outcome \in {"refused", "run"} /\ ~(Has({"stdin"}) /\ Has({"isolated"})) =>
        /\ outcome = "refused" <=> Contradiction \/ Incomplete
        /\ outcome = "run" =>
              LET s == draft.selection IN
              /\ s.kind = IF Has({"all"}) THEN "All"
                       ELSE IF Has({"all-files"}) THEN "AllFiles"
                       ELSE IF Has({"stdin", "stdin-filename", "project-context"}) THEN "Stdin"
                       ELSE IF Has({"word"}) THEN "ExplicitPaths" ELSE "Implicit"
              /\ s.paths = given["word"] /\ s.isolated = Has({"isolated"})
              /\ s.name = Has({"stdin-filename"}) /\ s.project = Has({"project-context"})
              /\ draft.contexts = given["context-path"]
              /\ draft.actions = {r \in ActionRequests : given[r] > 0}
=============================================================================
