------------------------------ MODULE Selection ------------------------------
(***************************************************************************)
(* From an invocation to the sources of a run (src/src/io/mod.rs,          *)
(* select.rs, sources.rs, exclude.rs, context.rs, report.rs).              *)
(*                                                                         *)
(* A path is a spelling: two of them may name the same file.  The files of *)
(* a checkout are edited and removed while a run reads them.               *)
(***************************************************************************)
EXTENDS Naturals, FiniteSets

CONSTANTS Paths,        \* the paths of the checkout and those a user may write
          Invocations,  \* the invocations to consider
          MaxEdits      \* bound on edits and removals

Forms  == {"free", "fixed", "blank"}
Kinds  == {"Stdin", "Files", "Directory", "All", "AllFiles"}
Actions == {"Rewrite", "Stdout", "Check", "ShowFiles", "QueryFormat", "IndentQuery"}

\* tracked: git lists it.  submodule, excluded, inside (the directory of a bulk
\* run), context (the context paths): where it lies.  source: has a suffix of
\* Fortran.  form: what the detector says of it.
PathType == [name : STRING, file : STRING, tracked : BOOLEAN, submodule : BOOLEAN,
             excluded : BOOLEAN, inside : BOOLEAN, context : BOOLEAN,
             source : BOOLEAN, form : Forms]

\* named: the path --stdin-filename gives.  project, contexts: --project-context
\* and --context-path.  form: that of stdin.
InvocationType == [kind : Kinds, paths : SUBSET Paths, named : SUBSET Paths,
                   project : BOOLEAN, contexts : BOOLEAN, isolated : BOOLEAN,
                   directory : BOOLEAN, submodules : BOOLEAN, free : BOOLEAN,
                   normalizes : BOOLEAN, action : Actions, form : Forms,
                   checkout : BOOLEAN]

\* Of the combinations DraftInvocation::validate refuses, one is needed here:
\* --stdout without a path to read.
ASSUME SelectionAssumption ==
    /\ Paths \subseteq PathType
    /\ \A p, q \in Paths : p.name = q.name => p = q
    /\ Invocations \subseteq InvocationType
    /\ \A i \in Invocations : i.action = "Stdout" =>
          i.kind \in {"Files", "Directory"} /\ i.paths # {}
    /\ MaxEdits \in Nat

VARIABLES
    run,        \* the invocation, after promote_directory_argument
    stage,      \* what the run does next, or how it ended
    tracked,    \* what git listed: a set of at most one set of paths
    targets, project,  \* Selection
    pending,    \* paths still to be read
    loaded,     \* Loaded: path and text of each source that was read
    facts,      \* the texts the context was built from
    out,        \* what was written: an input, its form, and how it was treated
    (* the checkout *)
    texts,      \* text of each file: its version, or Gone
    edits

selVars == <<run, stage, tracked, targets, project, pending, loaded, facts, out, texts, edits>>

Gone == 0
StdinText == MaxEdits + 3  \* the text of a named buffer is in no file

Ended == {"ok", "usage", "missing", "panic"}
NoPath == [name |-> "none", file |-> "none", tracked |-> FALSE, submodule |-> FALSE,
           excluded |-> FALSE, inside |-> FALSE, context |-> FALSE, source |-> TRUE,
           form |-> "free"]
-----------------------------------------------------------------------------
AllSelection == run.kind \in {"All", "AllFiles"}
StdinMode    == run.kind = "Stdin"
Named        == run.named # {}

\* promote_directory_argument
Promote(invocation) ==
    IF /\ invocation.kind = "Directory"
       /\ invocation.action # "Stdout" /\ ~invocation.isolated
    THEN [invocation EXCEPT !.kind = "AllFiles", !.directory = TRUE]
    ELSE invocation

\* tracked_sources, with the suffix check of the listing.
TrackedSources == {p \in Paths : p.tracked /\ p.source}
WithoutSubmodules == {p \in TrackedSources : ~p.submodule}
GitListed == IF run.submodules THEN TrackedSources ELSE WithoutSubmodules

\* ExcludeMatcher::is_excluded
Kept(paths) == {p \in paths : ~p.excluded}
Within(paths) == IF run.directory THEN {p \in paths : p.inside} ELSE paths

\* filesystem_sources: regular files under the context paths.
Walked == {p \in Paths : p.context /\ p.source /\ p.name = p.file /\ texts[p.file] # Gone}

\* context_sources; without a checkout the context paths are walked.
ContextSources ==
    IF tracked # {}
    THEN {{p \in Kept(UNION tracked) : run.contexts => p.context}}
    ELSE IF run.contexts THEN {Kept(Walked)} ELSE {}

\* skips_fixed_form
SkipsFixedForm == ~run.free /\ run.action # "IndentQuery" /\ run.form = "fixed"

FormOf(path) == IF run.free THEN "free" ELSE IF path.form = "free" THEN "free" ELSE "fixed"

End(how) == stage' = how
Emit(input, form, how) == out' = out \cup {[input |-> input, form |-> form, how |-> how]}

KeepSelection == UNCHANGED <<tracked, targets, project, pending, loaded, facts>>
-----------------------------------------------------------------------------
SelIn(invocation) ==
    /\ run = Promote(invocation)
    /\ stage = "start" /\ tracked = {} /\ targets = {} /\ project = {} /\ pending = {}
    /\ loaded = {} /\ facts = {} /\ out = {}
    /\ texts = [f \in {p.file : p \in Paths} |-> 1] /\ edits = 0

SelInit == \E i \in Invocations : SelIn(i)

\* execute: which route is taken.
Dispatch ==
    /\ stage = "start"
    /\ stage' = IF run.action = "QueryFormat" THEN "query"
                ELSE IF StdinMode /\ ~Named /\ ~run.project /\ ~run.contexts THEN "bare"
                ELSE "resolve"
    /\ UNCHANGED out /\ KeepSelection

\* execute_query_format
QueryStdin ==
    /\ stage = "query" /\ StdinMode
    /\ Emit("stdin", run.form, "form named") /\ End("ok")
    /\ KeepSelection

QueryFiles ==
    /\ stage = "query" /\ ~StdinMode
    /\ IF AllSelection /\ ~run.checkout
       THEN End("usage") /\ UNCHANGED targets
       ELSE /\ targets' = IF AllSelection
                          THEN Within(Kept(IF run.kind = "AllFiles" THEN WithoutSubmodules
                                           ELSE GitListed))
                          ELSE run.paths
            /\ stage' = "query files"
    /\ UNCHANGED <<out, tracked, project, pending, loaded, facts>>

QueryFile ==
    /\ stage = "query files"
    /\ IF targets = {} THEN End("ok") /\ UNCHANGED <<targets, out>>
       ELSE \E p \in targets :
            IF ~p.source THEN End("usage") /\ UNCHANGED <<targets, out>>
            ELSE IF texts[p.file] = Gone THEN End("missing") /\ UNCHANGED <<targets, out>>
            ELSE /\ Emit(p.name, p.form, "form named")
                 /\ targets' = targets \ {p} /\ UNCHANGED stage
    /\ UNCHANGED <<tracked, project, pending, loaded, facts>>

\* format_bare_stdin, and stdin_shortcut when a path or a project is named.
PassStdin == Emit("stdin", run.form, "passed") /\ End("ok")
FormatStdin == Emit("stdin", run.form, "formatted") /\ End("ok")

BareStdin ==
    /\ stage = "bare"
    /\ IF SkipsFixedForm THEN PassStdin ELSE FormatStdin
    /\ KeepSelection

\* Scope::resolve
Resolve ==
    /\ stage = "resolve"
    /\ stage' = IF run.project /\ ~run.checkout THEN "usage" ELSE "shortcut"
    /\ UNCHANGED out /\ KeepSelection

\* Mutant: a named buffer is taken for free form.
Shortcut_Named ==
    /\ stage = "shortcut"
    /\ IF ~StdinMode THEN stage' = "select" /\ UNCHANGED out
       ELSE IF SkipsFixedForm /\ ~Named THEN PassStdin
       ELSE IF ~run.normalizes THEN FormatStdin
       ELSE stage' = "select" /\ UNCHANGED out
    /\ KeepSelection

Shortcut ==
    /\ stage = "shortcut"
    /\ IF ~StdinMode THEN stage' = "select" /\ UNCHANGED out
       ELSE IF SkipsFixedForm THEN PassStdin
       ELSE IF ~run.normalizes THEN FormatStdin
       ELSE stage' = "select" /\ UNCHANGED out
    /\ KeepSelection

\* select_paths, first half: the listing of git.
List ==
    /\ stage = "select"
    /\ tracked' = IF run.checkout /\ (AllSelection \/ run.project \/ ~run.isolated)
                  THEN {GitListed} ELSE {}
    /\ stage' = IF AllSelection /\ ~run.checkout THEN "usage" ELSE "listed"
    /\ UNCHANGED <<out, targets, project, pending, loaded, facts>>

Targets ==
    CASE run.kind = "All"      -> Within(Kept(UNION tracked))
      [] run.kind = "AllFiles" -> Within(Kept(WithoutSubmodules))
      [] run.kind = "Stdin"    -> {}
      [] OTHER                 -> run.paths

\* Mutant: the context paths bound only what git lists.
Project_AddsTargets ==
    IF run.isolated THEN {}
    ELSE ((UNION ContextSources) \cup Targets) \ run.named

Project ==
    IF run.isolated THEN {}
    ELSE (IF run.project \/ (ContextSources # {} /\ run.contexts)
          THEN UNION ContextSources
          ELSE (UNION ContextSources) \cup Targets) \ run.named

Select ==
    /\ stage = "listed"
    /\ targets' = Targets /\ project' = Project
    /\ pending' = IF run.action = "ShowFiles" THEN {} ELSE Targets \cup Project
    /\ stage' = IF run.project /\ tracked = {} THEN "panic"
                ELSE IF run.action = "ShowFiles" THEN "ok" ELSE "load"
    /\ out' = IF run.action # "ShowFiles" THEN out
              ELSE {[input |-> p.name, form |-> p.form, how |-> "listed"] : p \in Targets}
    /\ UNCHANGED <<tracked, loaded, facts>>

\* Loaded::read, one path at a time.  A path the user named must exist.
\* Mutant: so must every other.
Explicit_All(path) == path \in targets

Explicit(path) == path \in targets /\ ~AllSelection /\ ~StdinMode

ReadPath ==
    /\ stage = "load" /\ pending # {}
    /\ \E p \in pending :
          /\ pending' = pending \ {p}
          /\ IF ~p.source THEN End("usage") /\ UNCHANGED loaded
             ELSE IF texts[p.file] = Gone
             THEN /\ stage' = IF Explicit(p) THEN "missing" ELSE stage
                  /\ UNCHANGED loaded
             ELSE /\ loaded' = loaded \cup {[path |-> p, text |-> texts[p.file]]}
                  /\ UNCHANGED stage
    /\ UNCHANGED <<tracked, targets, project, facts, out>>

FreeForm(paths) == {s \in loaded : s.path \in paths /\ FormOf(s.path) = "free"}

\* analyze_sources and build_context, after retain_loaded.
Analyzed == IF run.normalizes THEN FreeForm(targets) \cup FreeForm(project) ELSE {}

Absorbed == IF run.isolated \/ ~run.normalizes THEN {} ELSE FreeForm(project)

\* The current text of a named buffer stands in for the file's.
StdinAbsorbed ==
    /\ StdinMode /\ Named /\ ~run.isolated
    /\ run.contexts => \A p \in run.named : p.context

BuildContext ==
    /\ stage = "load" /\ pending = {}
    /\ facts' = Absorbed \cup IF StdinAbsorbed
                              THEN {[path |-> p, text |-> StdinText] : p \in run.named} ELSE {}
    /\ stage' = IF Absorbed \subseteq Analyzed THEN "deliver" ELSE "panic"
    /\ UNCHANGED <<tracked, targets, project, pending, loaded, out>>

DeliverStdin ==
    /\ stage = "deliver" /\ StdinMode
    /\ FormatStdin /\ KeepSelection

\* format_to_stdout and format_files; format_one wants the facts of its target.
Deliver ==
    LET sources == {s \in loaded : s.path \in targets} IN
    /\ stage = "deliver" /\ ~StdinMode
    /\ out' = {[input |-> s.path.name, form |-> s.path.form,
                how |-> IF FormOf(s.path) = "fixed" THEN "passed" ELSE "formatted"] :
                   s \in sources}
    /\ stage' = IF \/ run.action = "Stdout" /\ sources = {}
                   \/ run.normalizes /\ ~(FreeForm(targets) \subseteq Analyzed)
                THEN "panic" ELSE "ok"
    /\ KeepSelection

RunStep ==
    /\ \/ Dispatch \/ QueryStdin \/ QueryFiles \/ QueryFile \/ BareStdin \/ Resolve
       \/ Shortcut \/ List \/ Select \/ ReadPath \/ BuildContext \/ DeliverStdin \/ Deliver
    /\ UNCHANGED <<run, texts, edits>>

\* Someone edits or removes a file of the checkout.
Edit ==
    /\ stage \notin Ended /\ edits < MaxEdits
    /\ \E f \in DOMAIN texts : \E text \in {edits + 2, Gone} :
          texts[f] # Gone /\ texts' = [texts EXCEPT ![f] = text]
    /\ edits' = edits + 1
    /\ UNCHANGED <<run, stage, tracked, targets, project, pending, loaded, facts, out>>

SelNext == RunStep \/ Edit
SelSpec == SelInit /\ [][SelNext]_selVars
-----------------------------------------------------------------------------
(* Properties *)

\* On no route is a fixed-form text rewritten, unless -ifree says it is free or
\* an indent query rewrites nothing (skips_fixed_form, format_to_stdout,
\* format_files, detect_path in read_source: each route guards itself).
FixedPassesThrough ==
    \A o \in out : o.how = "formatted" /\ o.form = "fixed" =>
        run.free \/ run.action = "IndentQuery"

\* The context a file is formatted in: nothing when the run is isolated or does
\* not normalize; else sources in free form that git lists, outside the excluded
\* and the submodules that are not wanted and inside the context paths, or else
\* targets of the run; and never the file behind a named buffer under its name.
ProjectIsBounded ==
    \A f \in facts :
        /\ ~run.isolated /\ run.normalizes
        /\ f.text = StdinText \/ FormOf(f.path) = "free"
        /\ run.contexts => f.path.context
        /\ f.text # StdinText =>
              /\ f.path \notin run.named
              /\ \/ f.path \in targets /\ ~run.project
                 \/ ~f.path.excluded /\ (run.checkout => f.path.tracked)
              /\ (f.path.submodule /\ run.checkout) => (run.submodules \/ f.path \in targets)

\* A run fails for want of a file only if the user named that file: one that git
\* listed may vanish before it is read (Loaded::read); and none of the
\* expectations of the routes is disappointed: each is met by a guard of another
\* function.
OnlyNamedFilesAreMissed ==
    /\ stage # "panic"
    /\ stage = "missing" /\ run.action # "QueryFormat" => run.kind \in {"Files", "Directory"}

\* A run formats what was selected, in the context that was asked for.
SelectionIsRight == FixedPassesThrough /\ ProjectIsBounded /\ OnlyNamedFilesAreMissed
=============================================================================
