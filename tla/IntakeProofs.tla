---------------------------- MODULE IntakeProofs ----------------------------
(***************************************************************************)
(* Proofs about what comes before any formatting, for any command line, any*)
(* invocation and any number of edits.                                     *)
(***************************************************************************)
EXTENDS FormatDetect, Selection, Arguments, Settings, Exclude, WellFoundedInduction,
        TLAPS

Routes == {"start", "query", "query files", "bare", "resolve", "shortcut", "select",
           "listed", "load", "deliver"}

\* What git lists for this run, if it is asked at all.
Listing == IF run.checkout /\ (AllSelection \/ run.project \/ ~run.isolated)
           THEN {GitListed} ELSE {}

\* Which invocation can be where: the guards that the expectations further on
\* rely on.
RouteInv ==
    /\ run \in InvocationType /\ stage \in Routes \cup Ended
    /\ run.action = "Stdout" => run.kind \in {"Files", "Directory"} /\ run.paths # {}
    /\ stage \in {"query", "query files"} => run.action = "QueryFormat"
    /\ StdinMode /\ stage \in {"select", "listed", "load", "deliver"} =>
          ~SkipsFixedForm /\ run.normalizes
    /\ run.project /\ stage \in {"shortcut", "select", "listed"} => run.checkout
    /\ stage = "listed" => tracked = Listing

\* What a path of the context is, whatever its text.
Allowed(p) ==
    /\ ~run.isolated
    /\ run.contexts => p.context
    /\ p \notin run.named
    /\ \/ p \in targets /\ ~run.project
       \/ ~p.excluded /\ (run.checkout => p.tracked)
    /\ p.submodule /\ run.checkout => run.submodules \/ p \in targets

ContextInv ==
    /\ stage \in {"load"} => \A p \in project : Allowed(p)
    /\ stage \notin {"deliver"} \cup Ended => facts = {}

\* A target the user named is still to be read, or was read.
NamedAreRead ==
    stage \in {"load", "deliver"} /\ ~AllSelection /\ ~StdinMode =>
        /\ targets = run.paths
        /\ \A p \in targets : p \in pending \/ \E s \in loaded : s.path = p
        /\ stage = "deliver" => pending = {}

SelectionInv == RouteInv /\ ContextInv /\ NamedAreRead /\ SelectionIsRight

LEMMA InitSelection == SelInit => SelectionInv
<1> SUFFICES ASSUME NEW i \in Invocations, SelIn(i) PROVE SelectionInv
  BY DEF SelInit
<1>1. i \in InvocationType /\ run = Promote(i)
  BY SelectionAssumption DEF SelIn
<1>2. /\ run \in InvocationType /\ run.action = i.action /\ run.paths = i.paths
      /\ i.action = "Stdout" => run.kind = i.kind
  BY <1>1 DEF Promote, InvocationType, Kinds
<1>3. RouteInv
  BY <1>2, SelectionAssumption DEF SelIn, RouteInv, Routes
<1>4. ContextInv /\ NamedAreRead
  BY DEF SelIn, ContextInv, NamedAreRead, Ended
<1>5. SelectionIsRight
  BY DEF SelIn, SelectionIsRight, FixedPassesThrough, ProjectIsBounded, OnlyNamedFilesAreMissed
<1> QED
  BY <1>3, <1>4, <1>5 DEF SelectionInv

LEMMA RouteStep ==
    ASSUME SelectionInv, SelNext
    PROVE  RouteInv'
<1>1. RouteInv /\ run' = run
  BY DEF SelectionInv, SelNext, RunStep, Edit
<1>2. /\ StdinMode' = StdinMode /\ AllSelection' = AllSelection
      /\ SkipsFixedForm' = SkipsFixedForm /\ GitListed' = GitListed
  BY <1>1 DEF StdinMode, AllSelection, SkipsFixedForm, GitListed
<1>3. Listing' = Listing
  BY <1>1, <1>2 DEF Listing
<1> USE DEF RouteInv, Routes, Ended, End, KeepSelection
<1>4. CASE Dispatch \/ QueryStdin \/ BareStdin \/ Resolve \/ Shortcut
  BY <1>1, <1>2, <1>4 DEF Dispatch, QueryStdin, BareStdin, Resolve, Shortcut, PassStdin,
     FormatStdin, StdinMode
<1>5. CASE QueryFiles \/ QueryFile
  BY <1>1, <1>5 DEF QueryFiles, QueryFile
<1>6. CASE List
  BY <1>1, <1>2, <1>3, <1>6 DEF List, Listing
<1>7. CASE Select \/ BuildContext \/ DeliverStdin \/ Deliver
  BY <1>1, <1>2, <1>7 DEF Select, BuildContext, DeliverStdin, Deliver, FormatStdin
<1>8. CASE ReadPath
  BY <1>1, <1>2, <1>8 DEF ReadPath
<1>9. CASE Edit
  BY <1>1, <1>2, <1>3, <1>9 DEF Edit
<1> QED
  BY <1>4, <1>5, <1>6, <1>7, <1>8, <1>9 DEF SelNext, RunStep

\* Every path of the context was asked for.
LEMMA ProjectAllowed ==
    ASSUME RouteInv, Select, run' = run
    PROVE  \A p \in project' : Allowed(p)'
<1>1. tracked = Listing /\ project' = Project /\ targets' = Targets
  BY DEF RouteInv, Select
<1>2. ASSUME NEW p \in Project
      PROVE  ~run.isolated /\ p \notin run.named
             /\ (p \in UNION ContextSources \/ (p \in Targets /\ ~run.project))
             /\ (run.contexts => p \in UNION ContextSources)
  <2>1. run.contexts => ContextSources # {}
    BY DEF ContextSources
  <2>2. ~run.isolated /\ p \notin run.named
    BY <1>2 DEF Project
  <2>3. CASE run.project \/ (ContextSources # {} /\ run.contexts)
    <3>1. p \in UNION ContextSources
      BY <1>2, <2>2, <2>3 DEF Project
    <3> QED
      BY <2>2, <3>1
  <2>4. CASE ~(run.project \/ (ContextSources # {} /\ run.contexts))
    <3>1. p \in (UNION ContextSources) \cup Targets
      BY <1>2, <2>2, <2>4 DEF Project
    <3>2. ~run.project /\ ~run.contexts
      BY <2>1, <2>4, Zenon
    <3> QED
      BY <2>2, <3>1, <3>2
  <2> QED
    BY <2>3, <2>4
<1>3. ASSUME NEW p \in UNION ContextSources, ~run.isolated
      PROVE  /\ run.contexts => p.context
             /\ ~p.excluded /\ (run.checkout => p.tracked)
             /\ p.submodule /\ run.checkout => run.submodules
  <2>1. CASE tracked # {}
    <3>1. tracked = {GitListed}
      BY <1>1, <2>1 DEF Listing
    <3>2. p \in GitListed /\ ~p.excluded /\ (run.contexts => p.context)
      BY <1>3, <2>1, <3>1 DEF ContextSources, Kept
    <3> QED
      BY <3>2 DEF GitListed, WithoutSubmodules, TrackedSources
  <2>2. CASE tracked = {}
    <3>1. ~run.checkout
      BY <1>1, <1>3, <2>2 DEF Listing
    <3>2. p \in Kept(Walked)
      BY <1>3, <2>2 DEF ContextSources
    <3> QED
      BY <3>1, <3>2 DEF Kept, Walked
  <2> QED
    BY <2>1, <2>2
<1> QED
  BY <1>1, <1>2, <1>3 DEF Allowed

LEMMA ContextStep ==
    ASSUME SelectionInv, SelNext
    PROVE  ContextInv'
<1>1. RouteInv /\ ContextInv /\ run' = run
  BY DEF SelectionInv, SelNext, RunStep, Edit
<1> USE DEF ContextInv, Routes, Ended, End, KeepSelection
<1>2. CASE Select
  BY <1>1, <1>2, ProjectAllowed DEF Select
<1>3. CASE ReadPath \/ Edit
  BY <1>1, <1>3 DEF ReadPath, Edit, Allowed
<1>4. CASE Dispatch \/ QueryStdin \/ BareStdin \/ Resolve \/ Shortcut
  BY <1>1, <1>4 DEF Dispatch, QueryStdin, BareStdin, Resolve, Shortcut, PassStdin, FormatStdin
<1>5. CASE QueryFiles \/ QueryFile \/ List
  BY <1>1, <1>5 DEF QueryFiles, QueryFile, List
<1>6. CASE BuildContext \/ DeliverStdin \/ Deliver
  BY <1>1, <1>6 DEF BuildContext, DeliverStdin, Deliver, FormatStdin
<1> QED
  BY <1>2, <1>3, <1>4, <1>5, <1>6 DEF SelNext, RunStep

LEMMA NamedStep ==
    ASSUME SelectionInv, SelNext
    PROVE  NamedAreRead'
<1>1. RouteInv /\ NamedAreRead /\ run' = run
  BY DEF SelectionInv, SelNext, RunStep, Edit
<1>2. StdinMode' = StdinMode /\ AllSelection' = AllSelection
  BY <1>1 DEF StdinMode, AllSelection
<1> USE DEF NamedAreRead, Routes, Ended, End, KeepSelection
<1>3. CASE Select
  <2>1. ~AllSelection /\ ~StdinMode => Targets = run.paths
    BY <1>1 DEF Targets, AllSelection, StdinMode, RouteInv, InvocationType, Kinds
  <2>2. targets' = Targets /\ stage' # "deliver"
    BY <1>3 DEF Select
  <2>3. stage' = "load" => pending' = Targets \cup Project
    BY <1>3 DEF Select
  <2> QED
    BY <1>1, <1>2, <2>1, <2>2, <2>3
<1>4. CASE ReadPath
  <2>1. stage = "load" /\ targets' = targets
    BY <1>4 DEF ReadPath
  <2>2. PICK p \in pending :
          /\ pending' = pending \ {p}
          /\ IF ~p.source THEN stage' = "usage" /\ loaded' = loaded
             ELSE IF texts[p.file] = Gone
             THEN /\ stage' = IF Explicit(p) THEN "missing" ELSE stage
                  /\ loaded' = loaded
             ELSE /\ loaded' = loaded \cup {[path |-> p, text |-> texts[p.file]]}
                  /\ stage' = stage
    BY <1>4 DEF ReadPath
  <2> SUFFICES ASSUME stage' = "load", ~AllSelection, ~StdinMode
               PROVE  /\ targets' = run.paths
                      /\ \A q \in targets : q \in pending' \/ \E s \in loaded' : s.path = q
    BY <1>1, <1>2, <2>1, <2>2
  <2>3. ASSUME NEW q \in targets
        PROVE  q \in pending' \/ \E s \in loaded' : s.path = q
    <3>1. CASE q = p
      <4>1. [path |-> p, text |-> texts[p.file]] \in loaded'
        BY <2>1, <2>2, <2>3, <3>1 DEF Explicit
      <4>2. [path |-> p, text |-> texts[p.file]].path = p
        OBVIOUS
      <4> QED
        BY <3>1, <4>1, <4>2
    <3>2. CASE q # p
      <4>1. loaded \subseteq loaded'
        BY <2>2
      <4> QED
        BY <1>1, <2>1, <2>2, <2>3, <3>2, <4>1
    <3> QED
      BY <3>1, <3>2
  <2> QED
    BY <1>1, <2>1, <2>3
<1>5. CASE Edit
  BY <1>1, <1>2, <1>5 DEF Edit
<1>6. CASE BuildContext
  BY <1>1, <1>2, <1>6 DEF BuildContext
<1>7. CASE Dispatch \/ QueryStdin \/ BareStdin \/ Resolve \/ Shortcut
  BY <1>1, <1>7 DEF Dispatch, QueryStdin, BareStdin, Resolve, Shortcut, PassStdin, FormatStdin
<1>8. CASE QueryFiles \/ QueryFile \/ List \/ DeliverStdin \/ Deliver
  BY <1>1, <1>8 DEF QueryFiles, QueryFile, List, DeliverStdin, Deliver, FormatStdin
<1> QED
  BY <1>3, <1>4, <1>5, <1>6, <1>7, <1>8 DEF SelNext, RunStep

\* A text of fixed form is passed through on every route.
LEMMA FixedStep ==
    ASSUME SelectionInv, SelNext
    PROVE  FixedPassesThrough'
<1>1. RouteInv /\ FixedPassesThrough /\ run' = run
  BY DEF SelectionInv, SelectionIsRight, SelNext, RunStep, Edit
<1> USE DEF FixedPassesThrough, Emit
<1>2. CASE BareStdin \/ Shortcut \/ DeliverStdin
  <2>1. DeliverStdin => ~SkipsFixedForm
    BY <1>1 DEF DeliverStdin, RouteInv
  <2>2. out' = out \/ PassStdin \/ (FormatStdin /\ ~SkipsFixedForm)
    BY <1>2, <2>1 DEF BareStdin, Shortcut, DeliverStdin
  <2>3. CASE out' = out \/ PassStdin
    BY <1>1, <2>3 DEF PassStdin
  <2>4. CASE FormatStdin /\ ~SkipsFixedForm
    BY <1>1, <2>4 DEF FormatStdin, SkipsFixedForm
  <2> QED
    BY <2>2, <2>3, <2>4
<1>3. CASE Deliver
  BY <1>1, <1>3 DEF Deliver, FormOf
<1>4. CASE Select
  BY <1>1, <1>4 DEF Select
<1>5. CASE QueryStdin \/ QueryFiles \/ QueryFile
  <2>1. out' = out \/ \E input, form : Emit(input, form, "form named")
    BY <1>5 DEF QueryStdin, QueryFiles, QueryFile
  <2>2. CASE out' = out
    BY <1>1, <2>2
  <2>3. CASE \E input, form : Emit(input, form, "form named")
    <3>1. PICK input, form : Emit(input, form, "form named")
      BY <2>3
    <3>2. PICK o : o = [input |-> input, form |-> form, how |-> "form named"]
      OBVIOUS
    <3>3. out' = out \cup {o} /\ o.how # "formatted"
      BY <3>1, <3>2
    <3> QED
      BY <1>1, <3>3
  <2> QED
    BY <2>1, <2>2, <2>3
<1>6. CASE Dispatch \/ Resolve \/ List \/ ReadPath \/ BuildContext \/ Edit
  BY <1>1, <1>6 DEF Dispatch, Resolve, List, ReadPath, BuildContext, Edit
<1> QED
  BY <1>2, <1>3, <1>4, <1>5, <1>6 DEF SelNext, RunStep

LEMMA BoundedStep ==
    ASSUME SelectionInv, SelNext
    PROVE  ProjectIsBounded'
<1>1. RouteInv /\ ContextInv /\ ProjectIsBounded /\ run' = run
  BY DEF SelectionInv, SelectionIsRight, SelNext, RunStep, Edit
<1>2. CASE BuildContext
  <2> SUFFICES ASSUME NEW f \in facts'
               PROVE  /\ ~run.isolated /\ run.normalizes
                      /\ f.text = StdinText \/ FormOf(f.path) = "free"
                      /\ run.contexts => f.path.context
                      /\ f.text # StdinText => Allowed(f.path)
    BY <1>1, <1>2 DEF ProjectIsBounded, Allowed, BuildContext, FormOf, StdinText
  <2>1. f \in Absorbed \/ (StdinAbsorbed /\ \E p \in run.named : f = [path |-> p, text |-> StdinText])
    BY <1>2 DEF BuildContext
  <2>2. CASE f \in Absorbed
    BY <1>1, <1>2, <2>2 DEF BuildContext, Absorbed, FreeForm, ContextInv, Allowed
  <2>3. CASE StdinAbsorbed /\ \E p \in run.named : f = [path |-> p, text |-> StdinText]
    BY <1>1, <1>2, <2>3 DEF BuildContext, StdinAbsorbed, RouteInv
  <2> QED
    BY <2>1, <2>2, <2>3
<1>3. CASE facts' = {}
  BY <1>3 DEF ProjectIsBounded
<1>4. CASE facts' = facts /\ targets' = targets
  BY <1>1, <1>4 DEF ProjectIsBounded, FormOf, StdinText
<1>5. BuildContext \/ facts' = {} \/ (facts' = facts /\ targets' = targets)
  <2>1. CASE QueryFiles \/ QueryFile \/ Select
    BY <1>1, <2>1 DEF QueryFiles, QueryFile, Select, ContextInv, Ended
  <2>2. CASE Dispatch \/ QueryStdin \/ BareStdin \/ Resolve \/ Shortcut \/ List \/ ReadPath
                \/ DeliverStdin \/ Deliver \/ Edit
    BY <2>2 DEF Dispatch, QueryStdin, BareStdin, Resolve, Shortcut, List, ReadPath,
       DeliverStdin, Deliver, Edit, KeepSelection
  <2> QED
    BY <2>1, <2>2 DEF SelNext, RunStep
<1> QED
  BY <1>2, <1>3, <1>4, <1>5

LEMMA MissedStep ==
    ASSUME SelectionInv, SelNext
    PROVE  OnlyNamedFilesAreMissed'
<1>1. RouteInv /\ NamedAreRead /\ OnlyNamedFilesAreMissed /\ run' = run
  BY DEF SelectionInv, SelectionIsRight, SelNext, RunStep, Edit
<1> USE DEF OnlyNamedFilesAreMissed, End
<1>2. CASE Select
  <2>1. run.project => tracked # {}
    BY <1>1, <1>2 DEF Select, RouteInv, Listing
  <2> QED
    BY <1>1, <1>2, <2>1 DEF Select
<1>3. CASE BuildContext
  <2>1. Absorbed \subseteq Analyzed
    BY DEF Absorbed, Analyzed
  <2> QED
    BY <1>1, <1>3, <2>1 DEF BuildContext
<1>4. CASE Deliver
  <2>1. run.normalizes => FreeForm(targets) \subseteq Analyzed
    BY DEF Analyzed
  <2>2. run.action = "Stdout" => {s \in loaded : s.path \in targets} # {}
    <3> SUFFICES ASSUME run.action = "Stdout" PROVE \E s \in loaded : s.path \in targets
      OBVIOUS
    <3>1. run.paths # {} /\ ~AllSelection /\ ~StdinMode
      BY <1>1 DEF RouteInv, AllSelection, StdinMode
    <3>2. targets # {} /\ \A p \in targets : \E s \in loaded : s.path = p
      BY <1>1, <1>4, <3>1 DEF Deliver, NamedAreRead
    <3> QED
      BY <3>2
  <2> QED
    BY <1>1, <1>4, <2>1, <2>2 DEF Deliver
<1>5. CASE ReadPath
  <2>1. PICK p \in pending :
          stage' \in {"usage", "load"} \/ (stage' = "missing" /\ Explicit(p))
    BY <1>5 DEF ReadPath
  <2>2. Explicit(p) => run.kind \in {"Files", "Directory"}
    BY <1>1 DEF Explicit, RouteInv, InvocationType, Kinds, AllSelection, StdinMode
  <2> QED
    BY <1>1, <2>1, <2>2
<1>6. CASE QueryFiles \/ QueryFile
  BY <1>1, <1>6 DEF QueryFiles, QueryFile, RouteInv
<1>7. CASE Dispatch \/ QueryStdin \/ BareStdin \/ Resolve \/ Shortcut \/ List \/ DeliverStdin
  BY <1>1, <1>7 DEF Dispatch, QueryStdin, BareStdin, Resolve, Shortcut, PassStdin, FormatStdin,
     List, DeliverStdin
<1>8. CASE Edit
  BY <1>1, <1>8 DEF Edit
<1> QED
  BY <1>2, <1>3, <1>4, <1>5, <1>6, <1>7, <1>8 DEF SelNext, RunStep

\* On no route is a text of fixed form rewritten; the context is bounded by what
\* was asked for; and only a file the user named is missed.
THEOREM SelectionCorrect == SelSpec => []SelectionIsRight
<1>1. SelectionInv /\ [SelNext]_selVars => SelectionInv'
  <2> SUFFICES ASSUME SelectionInv, [SelNext]_selVars PROVE SelectionInv'
    OBVIOUS
  <2>1. CASE SelNext
    BY <2>1, RouteStep, ContextStep, NamedStep, FixedStep, BoundedStep, MissedStep
       DEF SelectionInv, SelectionIsRight
  <2>2. CASE UNCHANGED selVars
    BY <2>2 DEF selVars, SelectionInv, RouteInv, ContextInv, NamedAreRead, SelectionIsRight,
       FixedPassesThrough, ProjectIsBounded, OnlyNamedFilesAreMissed, StdinMode, AllSelection,
       SkipsFixedForm, Listing, GitListed, Allowed, FormOf
  <2> QED
    BY <2>1, <2>2
<1>2. SelectionInv => SelectionIsRight
  BY DEF SelectionInv
<1> QED
  BY InitSelection, <1>1, <1>2, PTL DEF SelSpec

-----------------------------------------------------------------------------
(* The command line *)

\* What is counted of a command line.
Counted == Options \cup {"word", "bad"}
Counts == [Counted -> Nat]

Selected == [kind : {"Implicit", "Stdin", "ExplicitPaths", "All", "AllFiles"},
             paths : Nat, name : BOOLEAN, project : BOOLEAN, isolated : BOOLEAN]

Drafts == [selection : Selected, actions : SUBSET ActionRequests, contexts : Nat,
           refused : BOOLEAN]

NamesStdin(g) == g["stdin"] > 0 \/ g["stdin-filename"] > 0 \/ g["project-context"] > 0
AsksBulk(g) == g["all"] > 0 \/ g["all-files"] > 0

\* A selection says which of the options that select inputs were given, ...
FieldsFit(s, g) ==
    /\ s.paths = g["word"] /\ (s.isolated <=> g["isolated"] > 0)
    /\ (s.name <=> g["stdin-filename"] > 0) /\ (s.project <=> g["project-context"] > 0)
    /\ g["stdin-filename"] <= 1 /\ g["project-context"] <= 1

\* ... and its kind which of them were not.
KindFits(s, g) ==
    \/ s.kind = "Implicit" /\ ~NamesStdin(g) /\ ~AsksBulk(g) /\ s.paths = 0 /\ ~s.isolated
    \/ /\ s.kind = "ExplicitPaths" /\ ~NamesStdin(g) /\ ~AsksBulk(g)
       /\ s.paths > 0 \/ s.isolated
    \/ /\ s.kind = "Stdin" /\ NamesStdin(g) /\ ~AsksBulk(g) /\ s.paths = 0
       /\ s.isolated => s.name /\ ~s.project
    \/ /\ ~NamesStdin(g) /\ s.paths <= 1 /\ ~s.isolated
       /\ \/ s.kind = "All" /\ g["all"] > 0 /\ g["all-files"] = 0
          \/ s.kind = "AllFiles" /\ g["all-files"] > 0 /\ g["all"] = 0

SelectionOf(s, g) == s \in Selected /\ FieldsFit(s, g) /\ KindFits(s, g)

DraftOf(d, g) ==
    /\ d \in Drafts /\ ~d.refused
    /\ SelectionOf(d.selection, g)
    /\ d.actions = {r \in ActionRequests : g[r] > 0}
    /\ d.contexts = g["context-path"] /\ (d.selection.isolated => d.contexts = 0)
    /\ g["bad"] = 0

\* What the handlers refuse, whatever came first.
Clash(g) ==
    \/ g["stdin"] > 0 /\ g["isolated"] > 0
    \/ NamesStdin(g) /\ (g["word"] > 0 \/ AsksBulk(g))
    \/ g["stdin-filename"] > 1 \/ g["project-context"] > 1
    \/ g["all"] > 0 /\ g["all-files"] > 0
    \/ AsksBulk(g) /\ g["word"] > 1
    \/ g["isolated"] > 0
       /\ (AsksBulk(g) \/ g["project-context"] > 0 \/ g["context-path"] > 0)

AnswerTo(d, g) == IF d.refused THEN Clash(g) ELSE DraftOf(d, g)

\* One more of an option leaves the count of the others alone.
OneMore(g, o, h) ==
    h \in Counts /\ h[o] = g[o] + 1 /\ \A k \in Counted \ {o} : h[k] = g[k]

LEMMA CountOne ==
    ASSUME NEW g \in Counts, NEW o \in Counted
    PROVE  OneMore(g, o, [g EXCEPT ![o] = @ + 1])
  BY DEF Counts, OneMore

Selecting == {"word", "stdin", "stdin-filename", "project-context", "all", "all-files",
              "isolated"}

LEMMA NamesDiffer ==
    /\ Selecting \cup ActionRequests \cup {"context-path", "bad"} \subseteq Counted
    /\ Selecting \cap ActionRequests = {} /\ "bad" \notin Selecting \cup ActionRequests
    /\ "context-path" \notin Selecting \cup ActionRequests /\ "context-path" # "bad"
  BY DEF Selecting, Counted, ActionRequests, Options, Flags, Optional, Required

\* A handler that only replaces the selection keeps what it does not touch.
LEMMA SelectionSuffices ==
    ASSUME NEW d, NEW g \in Counts, DraftOf(d, g), NEW o \in Selecting, NEW h,
           OneMore(g, o, h), NEW s, SelectionOf(s, h), s.isolated => d.contexts = 0
    PROVE  AnswerTo([d EXCEPT !.selection = s], h)
  <1>2. h["bad"] = 0 /\ h["context-path"] = g["context-path"]
    BY NamesDiffer DEF DraftOf, OneMore
  <1>3. {r \in ActionRequests : h[r] > 0} = {r \in ActionRequests : g[r] > 0}
    BY NamesDiffer DEF OneMore
  <1>4. [d EXCEPT !.selection = s] \in Drafts
    BY DEF DraftOf, Drafts, SelectionOf
  <1>5. DraftOf([d EXCEPT !.selection = s], h)
    BY <1>2, <1>3, <1>4 DEF DraftOf, Drafts
  <1> QED BY <1>5 DEF AnswerTo, DraftOf

\* The selections that handlers write down, field by field.
Holds(s, kind, paths, name, context, isolated) ==
    /\ s \in Selected /\ s.kind = kind /\ s.paths = paths
    /\ (s.name <=> name) /\ (s.project <=> context) /\ (s.isolated <=> isolated)

LEMMA WrittenOut ==
    /\ \A n \in Nat, b \in BOOLEAN :
          Holds(ExplicitPaths(n, b), "ExplicitPaths", n, FALSE, FALSE, b)
    /\ \A n, p, b \in BOOLEAN : Holds(Stdin(n, p, b), "Stdin", 0, n, p, b)
    /\ \A k \in BulkKinds, n \in Nat : Holds(Bulk(k, n), k, n, FALSE, FALSE, FALSE)
  <1>1. Implicit \in Selected
    BY Zenon DEF Implicit, Selected
  <1>2. ASSUME NEW n \in Nat, NEW b \in BOOLEAN
        PROVE  Holds(ExplicitPaths(n, b), "ExplicitPaths", n, FALSE, FALSE, b)
    <2>1. \A r \in Selected :
             [r EXCEPT !.kind = "ExplicitPaths", !.paths = n, !.isolated = b] \in Selected
      BY Zenon DEF Selected
    <2>2. ExplicitPaths(n, b) \in Selected
      BY <1>1, <2>1 DEF ExplicitPaths
    <2> QED BY <2>2, SMT DEF ExplicitPaths, Implicit, Holds
  <1>3. ASSUME NEW n \in BOOLEAN, NEW p \in BOOLEAN, NEW b \in BOOLEAN
        PROVE  Holds(Stdin(n, p, b), "Stdin", 0, n, p, b)
    <2>1. \A r \in Selected :
             [r EXCEPT !.kind = "Stdin", !.name = n, !.project = p, !.isolated = b] \in Selected
      BY Zenon DEF Selected
    <2>2. Stdin(n, p, b) \in Selected
      BY <1>1, <2>1 DEF Stdin
    <2> QED BY <2>2, SMT DEF Stdin, Implicit, Holds
  <1>4. ASSUME NEW k \in BulkKinds, NEW n \in Nat
        PROVE  Holds(Bulk(k, n), k, n, FALSE, FALSE, FALSE)
    <2>1. \A r \in Selected : [r EXCEPT !.kind = k, !.paths = n] \in Selected
      BY Zenon DEF Selected, BulkKinds
    <2>2. Bulk(k, n) \in Selected
      BY <1>1, <2>1 DEF Bulk
    <2> QED BY <2>2, SMT DEF Bulk, Implicit, Holds
  <1> QED BY <1>2, <1>3, <1>4

\* The counts that a handler depends on.
LEMMA CountsKnown ==
    ASSUME NEW g \in Counts, NEW o \in Selecting, NEW h, OneMore(g, o, h)
    PROVE  \A k \in Selecting : g[k] \in Nat /\ h[k] = IF k = o THEN g[k] + 1 ELSE g[k]
  BY NamesDiffer DEF OneMore, Counts

\* A handler that changes nothing keeps the draft, if the selection still fits.
LEMMA StaySuffices ==
    ASSUME NEW d, NEW g \in Counts, DraftOf(d, g), NEW o \in Selecting, NEW h,
           OneMore(g, o, h), SelectionOf(d.selection, h)
    PROVE  AnswerTo(d, h)
  <1>1. h["bad"] = 0 /\ h["context-path"] = g["context-path"]
    BY NamesDiffer DEF DraftOf, OneMore
  <1>2. {r \in ActionRequests : h[r] > 0} = {r \in ActionRequests : g[r] > 0}
    BY NamesDiffer DEF OneMore
  <1> QED BY <1>1, <1>2 DEF DraftOf, AnswerTo

LEMMA ClashSuffices ==
    ASSUME NEW d, d \in Drafts, NEW h, Clash(h)
    PROVE  AnswerTo([d EXCEPT !.refused = TRUE], h)
  <1>1. [d EXCEPT !.refused = TRUE].refused
    BY DEF Drafts
  <1> QED BY <1>1 DEF AnswerTo

\* A path: a directory for a bulk selection, one more path otherwise.
LEMMA PushPathAnswers ==
    ASSUME NEW d, NEW g \in Counts, DraftOf(d, g), NEW h, OneMore(g, "word", h)
    PROVE  AnswerTo(PushPath(d), h)
  <1>1. PICK s : s = d.selection
    OBVIOUS
  <1>2. /\ d \in Drafts /\ s \in Selected /\ FieldsFit(s, g) /\ KindFits(s, g) /\ ~d.refused
        /\ s.isolated => d.contexts = 0
    BY <1>1 DEF DraftOf, SelectionOf
  <1>3. /\ "word" \in Selecting /\ h["word"] = g["word"] + 1
        /\ h["stdin"] = g["stdin"] /\ h["stdin-filename"] = g["stdin-filename"]
        /\ h["project-context"] = g["project-context"] /\ h["all"] = g["all"]
        /\ h["all-files"] = g["all-files"] /\ h["isolated"] = g["isolated"]
        /\ g["word"] \in Nat /\ g["stdin"] \in Nat /\ g["stdin-filename"] \in Nat
        /\ g["project-context"] \in Nat /\ g["all"] \in Nat /\ g["all-files"] \in Nat
        /\ g["isolated"] \in Nat
    BY CountsKnown DEF Selecting
  <1>h. /\ NamesStdin(h) <=> NamesStdin(g)
        /\ AsksBulk(h) <=> AsksBulk(g)
    BY <1>3 DEF NamesStdin, AsksBulk
  <1>4. CASE s.kind = "Implicit"
    <2>1. PICK r : r = ExplicitPaths(1, FALSE)
             /\ Holds(r, "ExplicitPaths", 1, FALSE, FALSE, FALSE)
      BY WrittenOut DEF BulkKinds
    <2>2. /\ r \in Selected
          /\ r.kind = "ExplicitPaths" /\ r.paths = 1 /\ ~r.name /\ ~r.project /\ ~r.isolated
      BY <2>1 DEF Holds
    <2>3. PushPath(d) = [d EXCEPT !.selection = ExplicitPaths(1, FALSE)]
      BY <1>1, <1>2, <1>4, SMT DEF PushPath, With, Drafts, Selected, ExplicitPaths, Stdin,
         Bulk, Implicit, Conflicting, BulkKinds
    <2>4. FieldsFit(r, h)
      BY <1>2, <1>3, <1>4, <2>2, SMT DEF FieldsFit, KindFits, NamesStdin, AsksBulk,
         BulkKinds
    <2>5. KindFits(r, h)
      BY <1>2, <1>3, <1>4, <2>2, SMT DEF FieldsFit, KindFits, NamesStdin, AsksBulk,
         BulkKinds
    <2>6. SelectionOf(r, h)
      BY <2>2, <2>4, <2>5 DEF SelectionOf
    <2>7. PushPath(d) = [d EXCEPT !.selection = r]
      BY <2>1, <2>3
    <2>8. r.isolated => d.contexts = 0
      BY <1>2, <2>2, <1>4
    <2> QED BY <1>3, <2>6, <2>7, <2>8, SelectionSuffices
  <1>5. CASE s.kind = "ExplicitPaths"
    <2>1. PICK r : r = [s EXCEPT !.paths = s.paths + 1]
      OBVIOUS
    <2>2. /\ r \in Selected
          /\ r.paths = s.paths + 1 /\ r.kind = s.kind /\ (r.name <=> s.name)
          /\ (r.project <=> s.project) /\ (r.isolated <=> s.isolated)
      <3>1. s.paths + 1 \in Nat
        BY <1>2 DEF Selected
      <3>2. r \in Selected
        BY <1>2, <2>1, <3>1, Zenon DEF Selected
      <3> QED BY <1>2, <1>5, <2>1, <3>2, SMT DEF Selected
    <2>3. PushPath(d) = [d EXCEPT !.selection = [s EXCEPT !.paths = s.paths + 1]]
      BY <1>1, <1>2, <1>5, SMT DEF PushPath, With, Drafts, Selected, ExplicitPaths, Stdin,
         Bulk, Implicit, Conflicting, BulkKinds
    <2>4. FieldsFit(r, h)
      BY <1>2, <1>3, <1>5, <2>2, SMT DEF FieldsFit, KindFits, NamesStdin, AsksBulk,
         BulkKinds
    <2>5. KindFits(r, h)
      BY <1>2, <1>3, <1>5, <2>2, SMT DEF FieldsFit, KindFits, NamesStdin, AsksBulk,
         BulkKinds
    <2>6. SelectionOf(r, h)
      BY <2>2, <2>4, <2>5 DEF SelectionOf
    <2>7. PushPath(d) = [d EXCEPT !.selection = r]
      BY <2>1, <2>3
    <2>8. r.isolated => d.contexts = 0
      BY <1>2, <2>2, <1>5
    <2> QED BY <1>3, <2>6, <2>7, <2>8, SelectionSuffices
  <1>6. CASE s.kind \in BulkKinds /\ s.paths = 0
    <2>1. PICK r : r = [s EXCEPT !.paths = 1]
      OBVIOUS
    <2>2. /\ r \in Selected
          /\ r.paths = 1 /\ r.kind = s.kind /\ (r.name <=> s.name)
          /\ (r.project <=> s.project) /\ (r.isolated <=> s.isolated)
      <3>1. s.paths + 1 \in Nat
        BY <1>2 DEF Selected
      <3>2. r \in Selected
        BY <1>2, <2>1, <3>1, Zenon DEF Selected
      <3> QED BY <1>2, <1>6, <2>1, <3>2, SMT DEF Selected
    <2>3. PushPath(d) = [d EXCEPT !.selection = [s EXCEPT !.paths = 1]]
      BY <1>1, <1>2, <1>6, SMT DEF PushPath, With, Drafts, Selected, ExplicitPaths, Stdin,
         Bulk, Implicit, Conflicting, BulkKinds
    <2>4. FieldsFit(r, h)
      BY <1>2, <1>3, <1>6, <2>2, SMT DEF FieldsFit, KindFits, NamesStdin, AsksBulk,
         BulkKinds
    <2>5. KindFits(r, h)
      BY <1>2, <1>3, <1>6, <2>2, SMT DEF FieldsFit, KindFits, NamesStdin, AsksBulk,
         BulkKinds
    <2>6. SelectionOf(r, h)
      BY <2>2, <2>4, <2>5 DEF SelectionOf
    <2>7. PushPath(d) = [d EXCEPT !.selection = r]
      BY <2>1, <2>3
    <2>8. r.isolated => d.contexts = 0
      BY <1>2, <2>2, <1>6
    <2> QED BY <1>3, <2>6, <2>7, <2>8, SelectionSuffices
  <1>7. CASE s.kind \in BulkKinds /\ s.paths # 0
    <2>1. Clash(h)
      <3>1. AsksBulk(g) /\ g["word"] > 0
        BY <1>2, <1>3, <1>7 DEF FieldsFit, KindFits, BulkKinds, AsksBulk, NamesStdin
      <3>2. AsksBulk(h) /\ h["word"] > 1
        BY <1>3, <1>h, <3>1
      <3> QED BY <3>2, Zenon DEF Clash
    <2>2. PushPath(d) = [d EXCEPT !.refused = TRUE]
      BY <1>1, <1>2, <1>7, SMT DEF PushPath, With, Drafts, Selected, ExplicitPaths, Stdin,
         Bulk, Implicit, Conflicting, BulkKinds
    <2> QED BY <1>2, <2>1, <2>2, ClashSuffices
  <1>8. CASE s.kind = "Stdin"
    <2>1. Clash(h)
      <3>1. NamesStdin(g)
        BY <1>2, <1>3, <1>8 DEF FieldsFit, KindFits, BulkKinds, AsksBulk
      <3>2. NamesStdin(h) /\ h["word"] > 0
        BY <1>3, <1>h, <3>1
      <3> QED BY <3>2, Zenon DEF Clash
    <2>2. PushPath(d) = [d EXCEPT !.refused = TRUE]
      BY <1>1, <1>2, <1>8, SMT DEF PushPath, With, Drafts, Selected, ExplicitPaths, Stdin,
         Bulk, Implicit, Conflicting, BulkKinds
    <2> QED BY <1>2, <2>1, <2>2, ClashSuffices
  <1> QED
    BY <1>2, <1>4, <1>5, <1>6, <1>7, <1>8 DEF KindFits, BulkKinds

\* --stdin.
LEMMA SelectStdinAnswers ==
    ASSUME NEW d, NEW g \in Counts, DraftOf(d, g), NEW h, OneMore(g, "stdin", h)
    PROVE  AnswerTo(SelectStdin(d), h)
  <1>1. PICK s : s = d.selection
    OBVIOUS
  <1>2. /\ d \in Drafts /\ s \in Selected /\ FieldsFit(s, g) /\ KindFits(s, g) /\ ~d.refused
        /\ s.isolated => d.contexts = 0
    BY <1>1 DEF DraftOf, SelectionOf
  <1>3. /\ "stdin" \in Selecting /\ h["stdin"] = g["stdin"] + 1
        /\ h["word"] = g["word"] /\ h["stdin-filename"] = g["stdin-filename"]
        /\ h["project-context"] = g["project-context"] /\ h["all"] = g["all"]
        /\ h["all-files"] = g["all-files"] /\ h["isolated"] = g["isolated"]
        /\ g["word"] \in Nat /\ g["stdin"] \in Nat /\ g["stdin-filename"] \in Nat
        /\ g["project-context"] \in Nat /\ g["all"] \in Nat /\ g["all-files"] \in Nat
        /\ g["isolated"] \in Nat
    BY CountsKnown DEF Selecting
  <1>h. /\ NamesStdin(h)
        /\ AsksBulk(h) <=> AsksBulk(g)
    BY <1>3 DEF NamesStdin, AsksBulk
  <1>4. CASE s.kind = "Implicit"
    <2>1. PICK r : r = Stdin(FALSE, FALSE, FALSE)
             /\ Holds(r, "Stdin", 0, FALSE, FALSE, FALSE)
      BY WrittenOut DEF BulkKinds
    <2>2. /\ r \in Selected
          /\ r.kind = "Stdin" /\ r.paths = 0 /\ ~r.name /\ ~r.project /\ ~r.isolated
      BY <2>1 DEF Holds
    <2>3. SelectStdin(d) = [d EXCEPT !.selection = Stdin(FALSE, FALSE, FALSE)]
      BY <1>1, <1>2, <1>4, SMT DEF SelectStdin, With, Drafts, Selected, ExplicitPaths,
         Stdin, Bulk, Implicit, Conflicting, BulkKinds
    <2>4. FieldsFit(r, h)
      BY <1>2, <1>3, <1>4, <2>2, SMT DEF FieldsFit, KindFits, NamesStdin, AsksBulk,
         BulkKinds
    <2>5. KindFits(r, h)
      BY <1>2, <1>3, <1>4, <2>2, SMT DEF FieldsFit, KindFits, NamesStdin, AsksBulk,
         BulkKinds
    <2>6. SelectionOf(r, h)
      BY <2>2, <2>4, <2>5 DEF SelectionOf
    <2>7. SelectStdin(d) = [d EXCEPT !.selection = r]
      BY <2>1, <2>3
    <2>8. r.isolated => d.contexts = 0
      BY <1>2, <2>2, <1>4
    <2> QED BY <1>3, <2>6, <2>7, <2>8, SelectionSuffices
  <1>5. CASE s.kind = "Stdin"
    <2>1. FieldsFit(s, h)
      BY <1>2, <1>3, <1>5, SMT DEF FieldsFit, KindFits, NamesStdin, AsksBulk, BulkKinds
    <2>2. KindFits(s, h)
      BY <1>2, <1>3, <1>5, SMT DEF FieldsFit, KindFits, NamesStdin, AsksBulk, BulkKinds
    <2>3. SelectStdin(d) = d
      BY <1>1, <1>2, <1>5, SMT DEF SelectStdin, With, Drafts, Selected, ExplicitPaths,
         Stdin, Bulk, Implicit, Conflicting, BulkKinds
    <2>4. SelectionOf(d.selection, h)
      BY <1>1, <1>2, <2>1, <2>2 DEF SelectionOf
    <2> QED BY <1>3, <2>3, <2>4, StaySuffices
  <1>6. CASE s.kind = "ExplicitPaths"
    <2>1. Clash(h)
      <3>1. g["word"] > 0 \/ g["isolated"] > 0
        BY <1>2, <1>3, <1>6 DEF FieldsFit, KindFits, BulkKinds, AsksBulk, NamesStdin
      <3>2. NamesStdin(h) /\ h["stdin"] > 0 /\ (h["word"] > 0 \/ h["isolated"] > 0)
        BY <1>3, <1>h, <3>1
      <3> QED BY <3>2, Zenon DEF Clash
    <2>2. SelectStdin(d) = [d EXCEPT !.refused = TRUE]
      BY <1>1, <1>2, <1>6, SMT DEF SelectStdin, With, Drafts, Selected, ExplicitPaths,
         Stdin, Bulk, Implicit, Conflicting, BulkKinds
    <2> QED BY <1>2, <2>1, <2>2, ClashSuffices
  <1>7. CASE s.kind \in BulkKinds
    <2>1. Clash(h)
      <3>1. AsksBulk(g)
        BY <1>2, <1>3, <1>7 DEF FieldsFit, KindFits, BulkKinds, AsksBulk, NamesStdin
      <3>2. NamesStdin(h) /\ AsksBulk(h)
        BY <1>3, <1>h, <3>1
      <3> QED BY <3>2, Zenon DEF Clash
    <2>2. SelectStdin(d) = [d EXCEPT !.refused = TRUE]
      BY <1>1, <1>2, <1>7, SMT DEF SelectStdin, With, Drafts, Selected, ExplicitPaths,
         Stdin, Bulk, Implicit, Conflicting, BulkKinds
    <2> QED BY <1>2, <2>1, <2>2, ClashSuffices
  <1> QED
    BY <1>2, <1>4, <1>5, <1>6, <1>7 DEF KindFits, BulkKinds

\* --stdin-filename.
LEMMA SelectStdinFilenameAnswers ==
    ASSUME NEW d, NEW g \in Counts, DraftOf(d, g), NEW h, OneMore(g, "stdin-filename", h)
    PROVE  AnswerTo(SelectStdinFilename(d), h)
  <1>1. PICK s : s = d.selection
    OBVIOUS
  <1>2. /\ d \in Drafts /\ s \in Selected /\ FieldsFit(s, g) /\ KindFits(s, g) /\ ~d.refused
        /\ s.isolated => d.contexts = 0
    BY <1>1 DEF DraftOf, SelectionOf
  <1>3. /\ "stdin-filename" \in Selecting /\ h["stdin-filename"] = g["stdin-filename"] + 1
        /\ h["word"] = g["word"] /\ h["stdin"] = g["stdin"]
        /\ h["project-context"] = g["project-context"] /\ h["all"] = g["all"]
        /\ h["all-files"] = g["all-files"] /\ h["isolated"] = g["isolated"]
        /\ g["word"] \in Nat /\ g["stdin"] \in Nat /\ g["stdin-filename"] \in Nat
        /\ g["project-context"] \in Nat /\ g["all"] \in Nat /\ g["all-files"] \in Nat
        /\ g["isolated"] \in Nat
    BY CountsKnown DEF Selecting
  <1>h. /\ NamesStdin(h)
        /\ AsksBulk(h) <=> AsksBulk(g)
    BY <1>3 DEF NamesStdin, AsksBulk
  <1>4. CASE s.kind = "Implicit"
    <2>1. PICK r : r = Stdin(TRUE, FALSE, FALSE)
             /\ Holds(r, "Stdin", 0, TRUE, FALSE, FALSE)
      BY WrittenOut DEF BulkKinds
    <2>2. /\ r \in Selected
          /\ r.kind = "Stdin" /\ r.paths = 0 /\ r.name /\ ~r.project /\ ~r.isolated
      BY <2>1 DEF Holds
    <2>3. SelectStdinFilename(d) = [d EXCEPT !.selection = Stdin(TRUE, FALSE, FALSE)]
      BY <1>1, <1>2, <1>4, SMT DEF SelectStdinFilename, With, Drafts, Selected,
         ExplicitPaths, Stdin, Bulk, Implicit, Conflicting, BulkKinds
    <2>4. FieldsFit(r, h)
      BY <1>2, <1>3, <1>4, <2>2, SMT DEF FieldsFit, KindFits, NamesStdin, AsksBulk,
         BulkKinds
    <2>5. KindFits(r, h)
      BY <1>2, <1>3, <1>4, <2>2, SMT DEF FieldsFit, KindFits, NamesStdin, AsksBulk,
         BulkKinds
    <2>6. SelectionOf(r, h)
      BY <2>2, <2>4, <2>5 DEF SelectionOf
    <2>7. SelectStdinFilename(d) = [d EXCEPT !.selection = r]
      BY <2>1, <2>3
    <2>8. r.isolated => d.contexts = 0
      BY <1>2, <2>2, <1>4
    <2> QED BY <1>3, <2>6, <2>7, <2>8, SelectionSuffices
  <1>5. CASE s.kind = "Stdin" /\ ~s.name
    <2>1. PICK r : r = [s EXCEPT !.name = TRUE]
      OBVIOUS
    <2>2. /\ r \in Selected
          /\ r.name /\ r.kind = s.kind /\ r.paths = s.paths /\ (r.project <=> s.project)
          /\ (r.isolated <=> s.isolated)
      <3>1. r \in Selected
        BY <1>2, <2>1, Zenon DEF Selected
      <3> QED BY <1>2, <1>5, <2>1, <3>1, SMT DEF Selected
    <2>3. SelectStdinFilename(d) = [d EXCEPT !.selection = [s EXCEPT !.name = TRUE]]
      BY <1>1, <1>2, <1>5, SMT DEF SelectStdinFilename, With, Drafts, Selected,
         ExplicitPaths, Stdin, Bulk, Implicit, Conflicting, BulkKinds
    <2>4. FieldsFit(r, h)
      BY <1>2, <1>3, <1>5, <2>2, SMT DEF FieldsFit, KindFits, NamesStdin, AsksBulk,
         BulkKinds
    <2>5. KindFits(r, h)
      BY <1>2, <1>3, <1>5, <2>2, SMT DEF FieldsFit, KindFits, NamesStdin, AsksBulk,
         BulkKinds
    <2>6. SelectionOf(r, h)
      BY <2>2, <2>4, <2>5 DEF SelectionOf
    <2>7. SelectStdinFilename(d) = [d EXCEPT !.selection = r]
      BY <2>1, <2>3
    <2>8. r.isolated => d.contexts = 0
      BY <1>2, <2>2, <1>5
    <2> QED BY <1>3, <2>6, <2>7, <2>8, SelectionSuffices
  <1>6. CASE s.kind = "Stdin" /\ s.name
    <2>1. Clash(h)
      <3>1. g["stdin-filename"] > 0
        BY <1>2, <1>3, <1>6 DEF FieldsFit, KindFits, BulkKinds, AsksBulk, NamesStdin
      <3>2. h["stdin-filename"] > 1
        BY <1>3, <1>h, <3>1
      <3> QED BY <3>2, Zenon DEF Clash
    <2>2. SelectStdinFilename(d) = [d EXCEPT !.refused = TRUE]
      BY <1>1, <1>2, <1>6, SMT DEF SelectStdinFilename, With, Drafts, Selected,
         ExplicitPaths, Stdin, Bulk, Implicit, Conflicting, BulkKinds
    <2> QED BY <1>2, <2>1, <2>2, ClashSuffices
  <1>7. CASE s.kind = "ExplicitPaths" /\ s.paths = 0 /\ s.isolated
    <2>1. PICK r : r = Stdin(TRUE, FALSE, TRUE) /\ Holds(r, "Stdin", 0, TRUE, FALSE, TRUE)
      BY WrittenOut DEF BulkKinds
    <2>2. /\ r \in Selected
          /\ r.kind = "Stdin" /\ r.paths = 0 /\ r.name /\ ~r.project /\ r.isolated
      BY <2>1 DEF Holds
    <2>3. SelectStdinFilename(d) = [d EXCEPT !.selection = Stdin(TRUE, FALSE, TRUE)]
      BY <1>1, <1>2, <1>7, SMT DEF SelectStdinFilename, With, Drafts, Selected,
         ExplicitPaths, Stdin, Bulk, Implicit, Conflicting, BulkKinds
    <2>4. FieldsFit(r, h)
      BY <1>2, <1>3, <1>7, <2>2, SMT DEF FieldsFit, KindFits, NamesStdin, AsksBulk,
         BulkKinds
    <2>5. KindFits(r, h)
      BY <1>2, <1>3, <1>7, <2>2, SMT DEF FieldsFit, KindFits, NamesStdin, AsksBulk,
         BulkKinds
    <2>6. SelectionOf(r, h)
      BY <2>2, <2>4, <2>5 DEF SelectionOf
    <2>7. SelectStdinFilename(d) = [d EXCEPT !.selection = r]
      BY <2>1, <2>3
    <2>8. r.isolated => d.contexts = 0
      BY <1>2, <2>2, <1>7
    <2> QED BY <1>3, <2>6, <2>7, <2>8, SelectionSuffices
  <1>8. CASE s.kind = "ExplicitPaths" /\ ~(s.paths = 0 /\ s.isolated)
    <2>1. Clash(h)
      <3>1. g["word"] > 0
        BY <1>2, <1>3, <1>8 DEF FieldsFit, KindFits, BulkKinds, AsksBulk, NamesStdin
      <3>2. NamesStdin(h) /\ h["word"] > 0
        BY <1>3, <1>h, <3>1
      <3> QED BY <3>2, Zenon DEF Clash
    <2>2. SelectStdinFilename(d) = [d EXCEPT !.refused = TRUE]
      BY <1>1, <1>2, <1>8, SMT DEF SelectStdinFilename, With, Drafts, Selected,
         ExplicitPaths, Stdin, Bulk, Implicit, Conflicting, BulkKinds
    <2> QED BY <1>2, <2>1, <2>2, ClashSuffices
  <1>9. CASE s.kind \in BulkKinds
    <2>1. Clash(h)
      <3>1. AsksBulk(g)
        BY <1>2, <1>3, <1>9 DEF FieldsFit, KindFits, BulkKinds, AsksBulk, NamesStdin
      <3>2. NamesStdin(h) /\ AsksBulk(h)
        BY <1>3, <1>h, <3>1
      <3> QED BY <3>2, Zenon DEF Clash
    <2>2. SelectStdinFilename(d) = [d EXCEPT !.refused = TRUE]
      BY <1>1, <1>2, <1>9, SMT DEF SelectStdinFilename, With, Drafts, Selected,
         ExplicitPaths, Stdin, Bulk, Implicit, Conflicting, BulkKinds
    <2> QED BY <1>2, <2>1, <2>2, ClashSuffices
  <1> QED
    BY <1>2, <1>4, <1>5, <1>6, <1>7, <1>8, <1>9 DEF KindFits, BulkKinds

\* --project-context.
LEMMA SelectProjectContextAnswers ==
    ASSUME NEW d, NEW g \in Counts, DraftOf(d, g), NEW h, OneMore(g, "project-context", h)
    PROVE  AnswerTo(SelectProjectContext(d), h)
  <1>1. PICK s : s = d.selection
    OBVIOUS
  <1>2. /\ d \in Drafts /\ s \in Selected /\ FieldsFit(s, g) /\ KindFits(s, g) /\ ~d.refused
        /\ s.isolated => d.contexts = 0
    BY <1>1 DEF DraftOf, SelectionOf
  <1>3. /\ "project-context" \in Selecting
        /\ h["project-context"] = g["project-context"] + 1
        /\ h["word"] = g["word"] /\ h["stdin"] = g["stdin"]
        /\ h["stdin-filename"] = g["stdin-filename"] /\ h["all"] = g["all"]
        /\ h["all-files"] = g["all-files"] /\ h["isolated"] = g["isolated"]
        /\ g["word"] \in Nat /\ g["stdin"] \in Nat /\ g["stdin-filename"] \in Nat
        /\ g["project-context"] \in Nat /\ g["all"] \in Nat /\ g["all-files"] \in Nat
        /\ g["isolated"] \in Nat
    BY CountsKnown DEF Selecting
  <1>h. /\ NamesStdin(h)
        /\ AsksBulk(h) <=> AsksBulk(g)
    BY <1>3 DEF NamesStdin, AsksBulk
  <1>4. CASE s.kind = "Implicit"
    <2>1. PICK r : r = Stdin(FALSE, TRUE, FALSE)
             /\ Holds(r, "Stdin", 0, FALSE, TRUE, FALSE)
      BY WrittenOut DEF BulkKinds
    <2>2. /\ r \in Selected
          /\ r.kind = "Stdin" /\ r.paths = 0 /\ ~r.name /\ r.project /\ ~r.isolated
      BY <2>1 DEF Holds
    <2>3. SelectProjectContext(d) = [d EXCEPT !.selection = Stdin(FALSE, TRUE, FALSE)]
      BY <1>1, <1>2, <1>4, SMT DEF SelectProjectContext, With, Drafts, Selected,
         ExplicitPaths, Stdin, Bulk, Implicit, Conflicting, BulkKinds
    <2>4. FieldsFit(r, h)
      BY <1>2, <1>3, <1>4, <2>2, SMT DEF FieldsFit, KindFits, NamesStdin, AsksBulk,
         BulkKinds
    <2>5. KindFits(r, h)
      BY <1>2, <1>3, <1>4, <2>2, SMT DEF FieldsFit, KindFits, NamesStdin, AsksBulk,
         BulkKinds
    <2>6. SelectionOf(r, h)
      BY <2>2, <2>4, <2>5 DEF SelectionOf
    <2>7. SelectProjectContext(d) = [d EXCEPT !.selection = r]
      BY <2>1, <2>3
    <2>8. r.isolated => d.contexts = 0
      BY <1>2, <2>2, <1>4
    <2> QED BY <1>3, <2>6, <2>7, <2>8, SelectionSuffices
  <1>5. CASE s.kind = "Stdin" /\ ~s.isolated /\ ~s.project
    <2>1. PICK r : r = [s EXCEPT !.project = TRUE]
      OBVIOUS
    <2>2. /\ r \in Selected
          /\ r.project /\ r.kind = s.kind /\ r.paths = s.paths /\ (r.name <=> s.name)
          /\ (r.isolated <=> s.isolated)
      <3>1. r \in Selected
        BY <1>2, <2>1, Zenon DEF Selected
      <3> QED BY <1>2, <1>5, <2>1, <3>1, SMT DEF Selected
    <2>3. SelectProjectContext(d) = [d EXCEPT !.selection = [s EXCEPT !.project = TRUE]]
      BY <1>1, <1>2, <1>5, SMT DEF SelectProjectContext, With, Drafts, Selected,
         ExplicitPaths, Stdin, Bulk, Implicit, Conflicting, BulkKinds
    <2>4. FieldsFit(r, h)
      BY <1>2, <1>3, <1>5, <2>2, SMT DEF FieldsFit, KindFits, NamesStdin, AsksBulk,
         BulkKinds
    <2>5. KindFits(r, h)
      BY <1>2, <1>3, <1>5, <2>2, SMT DEF FieldsFit, KindFits, NamesStdin, AsksBulk,
         BulkKinds
    <2>6. SelectionOf(r, h)
      BY <2>2, <2>4, <2>5 DEF SelectionOf
    <2>7. SelectProjectContext(d) = [d EXCEPT !.selection = r]
      BY <2>1, <2>3
    <2>8. r.isolated => d.contexts = 0
      BY <1>2, <2>2, <1>5
    <2> QED BY <1>3, <2>6, <2>7, <2>8, SelectionSuffices
  <1>6. CASE s.kind = "Stdin" /\ (s.isolated \/ s.project)
    <2>1. Clash(h)
      <3>1. g["isolated"] > 0 \/ g["project-context"] > 0
        BY <1>2, <1>3, <1>6 DEF FieldsFit, KindFits, BulkKinds, AsksBulk, NamesStdin
      <3>2. h["project-context"] > 1 \/ (h["isolated"] > 0 /\ h["project-context"] > 0)
        BY <1>3, <1>h, <3>1
      <3> QED BY <3>2, Zenon DEF Clash
    <2>2. SelectProjectContext(d) = [d EXCEPT !.refused = TRUE]
      BY <1>1, <1>2, <1>6, SMT DEF SelectProjectContext, With, Drafts, Selected,
         ExplicitPaths, Stdin, Bulk, Implicit, Conflicting, BulkKinds
    <2> QED BY <1>2, <2>1, <2>2, ClashSuffices
  <1>7. CASE s.kind = "ExplicitPaths"
    <2>1. Clash(h)
      <3>1. g["word"] > 0 \/ g["isolated"] > 0
        BY <1>2, <1>3, <1>7 DEF FieldsFit, KindFits, BulkKinds, AsksBulk, NamesStdin
      <3>2. NamesStdin(h) /\ h["project-context"] > 0
               /\ (h["word"] > 0 \/ h["isolated"] > 0)
        BY <1>3, <1>h, <3>1
      <3> QED BY <3>2, Zenon DEF Clash
    <2>2. SelectProjectContext(d) = [d EXCEPT !.refused = TRUE]
      BY <1>1, <1>2, <1>7, SMT DEF SelectProjectContext, With, Drafts, Selected,
         ExplicitPaths, Stdin, Bulk, Implicit, Conflicting, BulkKinds
    <2> QED BY <1>2, <2>1, <2>2, ClashSuffices
  <1>8. CASE s.kind \in BulkKinds
    <2>1. Clash(h)
      <3>1. AsksBulk(g)
        BY <1>2, <1>3, <1>8 DEF FieldsFit, KindFits, BulkKinds, AsksBulk, NamesStdin
      <3>2. NamesStdin(h) /\ AsksBulk(h)
        BY <1>3, <1>h, <3>1
      <3> QED BY <3>2, Zenon DEF Clash
    <2>2. SelectProjectContext(d) = [d EXCEPT !.refused = TRUE]
      BY <1>1, <1>2, <1>8, SMT DEF SelectProjectContext, With, Drafts, Selected,
         ExplicitPaths, Stdin, Bulk, Implicit, Conflicting, BulkKinds
    <2> QED BY <1>2, <2>1, <2>2, ClashSuffices
  <1> QED
    BY <1>2, <1>4, <1>5, <1>6, <1>7, <1>8 DEF KindFits, BulkKinds

\* --all.
LEMMA SelectAllAnswers ==
    ASSUME NEW d, NEW g \in Counts, DraftOf(d, g), NEW h, OneMore(g, "all", h)
    PROVE  AnswerTo(SelectAll(d, "All"), h)
  <1>1. PICK s : s = d.selection
    OBVIOUS
  <1>2. /\ d \in Drafts /\ s \in Selected /\ FieldsFit(s, g) /\ KindFits(s, g) /\ ~d.refused
        /\ s.isolated => d.contexts = 0
    BY <1>1 DEF DraftOf, SelectionOf
  <1>3. /\ "all" \in Selecting /\ h["all"] = g["all"] + 1
        /\ h["word"] = g["word"] /\ h["stdin"] = g["stdin"]
        /\ h["stdin-filename"] = g["stdin-filename"]
        /\ h["project-context"] = g["project-context"]
        /\ h["all-files"] = g["all-files"] /\ h["isolated"] = g["isolated"]
        /\ g["word"] \in Nat /\ g["stdin"] \in Nat /\ g["stdin-filename"] \in Nat
        /\ g["project-context"] \in Nat /\ g["all"] \in Nat /\ g["all-files"] \in Nat
        /\ g["isolated"] \in Nat
    BY CountsKnown DEF Selecting
  <1>h. /\ NamesStdin(h) <=> NamesStdin(g)
        /\ AsksBulk(h)
    BY <1>3 DEF NamesStdin, AsksBulk
  <1>4. CASE s.kind = "Implicit"
    <2>1. PICK r : r = Bulk("All", 0) /\ Holds(r, "All", 0, FALSE, FALSE, FALSE)
      BY WrittenOut DEF BulkKinds
    <2>2. /\ r \in Selected
          /\ r.kind = "All" /\ r.paths = 0 /\ ~r.name /\ ~r.project /\ ~r.isolated
      BY <2>1 DEF Holds
    <2>3. SelectAll(d, "All") = [d EXCEPT !.selection = Bulk("All", 0)]
      BY <1>1, <1>2, <1>4, SMT DEF SelectAll, With, Drafts, Selected, ExplicitPaths,
         Stdin, Bulk, Implicit, Conflicting, BulkKinds
    <2>4. FieldsFit(r, h)
      BY <1>2, <1>3, <1>4, <2>2, SMT DEF FieldsFit, KindFits, NamesStdin, AsksBulk,
         BulkKinds
    <2>5. KindFits(r, h)
      BY <1>2, <1>3, <1>4, <2>2, SMT DEF FieldsFit, KindFits, NamesStdin, AsksBulk,
         BulkKinds
    <2>6. SelectionOf(r, h)
      BY <2>2, <2>4, <2>5 DEF SelectionOf
    <2>7. SelectAll(d, "All") = [d EXCEPT !.selection = r]
      BY <2>1, <2>3
    <2>8. r.isolated => d.contexts = 0
      BY <1>2, <2>2, <1>4
    <2> QED BY <1>3, <2>6, <2>7, <2>8, SelectionSuffices
  <1>5. CASE s.kind = "ExplicitPaths" /\ ~s.isolated /\ s.paths <= 1
    <2>1. PICK r : r = Bulk("All", s.paths)
             /\ Holds(r, "All", s.paths, FALSE, FALSE, FALSE)
      <3>1. s.paths \in Nat /\ "All" \in BulkKinds
        BY <1>2 DEF Selected, BulkKinds
      <3> QED BY <3>1, WrittenOut
    <2>2. /\ r \in Selected
          /\ r.kind = "All" /\ r.paths = s.paths /\ ~r.name /\ ~r.project /\ ~r.isolated
      BY <2>1 DEF Holds
    <2>3. SelectAll(d, "All") = [d EXCEPT !.selection = Bulk("All", s.paths)]
      BY <1>1, <1>2, <1>5, SMT DEF SelectAll, With, Drafts, Selected, ExplicitPaths,
         Stdin, Bulk, Implicit, Conflicting, BulkKinds
    <2>4. FieldsFit(r, h)
      BY <1>2, <1>3, <1>5, <2>2, SMT DEF FieldsFit, KindFits, NamesStdin, AsksBulk,
         BulkKinds
    <2>5. KindFits(r, h)
      BY <1>2, <1>3, <1>5, <2>2, SMT DEF FieldsFit, KindFits, NamesStdin, AsksBulk,
         BulkKinds
    <2>6. SelectionOf(r, h)
      BY <2>2, <2>4, <2>5 DEF SelectionOf
    <2>7. SelectAll(d, "All") = [d EXCEPT !.selection = r]
      BY <2>1, <2>3
    <2>8. r.isolated => d.contexts = 0
      BY <1>2, <2>2, <1>5
    <2> QED BY <1>3, <2>6, <2>7, <2>8, SelectionSuffices
  <1>6. CASE s.kind = "ExplicitPaths" /\ (s.isolated \/ ~(s.paths <= 1))
    <2>1. Clash(h)
      <3>1. g["isolated"] > 0 \/ g["word"] > 1
        BY <1>2, <1>3, <1>6 DEF FieldsFit, KindFits, BulkKinds, AsksBulk, NamesStdin
      <3>2. AsksBulk(h) /\ (h["isolated"] > 0 \/ h["word"] > 1)
        BY <1>3, <1>h, <3>1
      <3> QED BY <3>2, Zenon DEF Clash
    <2>2. SelectAll(d, "All") = [d EXCEPT !.refused = TRUE]
      BY <1>1, <1>2, <1>6, SMT DEF SelectAll, With, Drafts, Selected, ExplicitPaths,
         Stdin, Bulk, Implicit, Conflicting, BulkKinds
    <2> QED BY <1>2, <2>1, <2>2, ClashSuffices
  <1>7. CASE s.kind = "Stdin"
    <2>1. Clash(h)
      <3>1. NamesStdin(g)
        BY <1>2, <1>3, <1>7 DEF FieldsFit, KindFits, BulkKinds, AsksBulk
      <3>2. NamesStdin(h) /\ AsksBulk(h)
        BY <1>3, <1>h, <3>1
      <3> QED BY <3>2, Zenon DEF Clash
    <2>2. SelectAll(d, "All") = [d EXCEPT !.refused = TRUE]
      BY <1>1, <1>2, <1>7, SMT DEF SelectAll, With, Drafts, Selected, ExplicitPaths,
         Stdin, Bulk, Implicit, Conflicting, BulkKinds
    <2> QED BY <1>2, <2>1, <2>2, ClashSuffices
  <1>8. CASE s.kind = "All"
    <2>1. FieldsFit(s, h)
      BY <1>2, <1>3, <1>8, SMT DEF FieldsFit, KindFits, NamesStdin, AsksBulk, BulkKinds
    <2>2. KindFits(s, h)
      BY <1>2, <1>3, <1>8, SMT DEF FieldsFit, KindFits, NamesStdin, AsksBulk, BulkKinds
    <2>3. SelectAll(d, "All") = d
      BY <1>1, <1>2, <1>8, SMT DEF SelectAll, With, Drafts, Selected, ExplicitPaths,
         Stdin, Bulk, Implicit, Conflicting, BulkKinds
    <2>4. SelectionOf(d.selection, h)
      BY <1>1, <1>2, <2>1, <2>2 DEF SelectionOf
    <2> QED BY <1>3, <2>3, <2>4, StaySuffices
  <1>9. CASE s.kind = "AllFiles"
    <2>1. Clash(h)
      <3>1. g["all-files"] > 0
        BY <1>2, <1>3, <1>9 DEF FieldsFit, KindFits, BulkKinds, AsksBulk, NamesStdin
      <3>2. h["all"] > 0 /\ h["all-files"] > 0
        BY <1>3, <1>h, <3>1
      <3> QED BY <3>2, Zenon DEF Clash
    <2>2. SelectAll(d, "All") = [d EXCEPT !.refused = TRUE]
      BY <1>1, <1>2, <1>9, SMT DEF SelectAll, With, Drafts, Selected, ExplicitPaths,
         Stdin, Bulk, Implicit, Conflicting, BulkKinds
    <2> QED BY <1>2, <2>1, <2>2, ClashSuffices
  <1> QED
    BY <1>2, <1>4, <1>5, <1>6, <1>7, <1>8, <1>9 DEF KindFits, BulkKinds

\* --all-files.
LEMMA SelectAllFilesAnswers ==
    ASSUME NEW d, NEW g \in Counts, DraftOf(d, g), NEW h, OneMore(g, "all-files", h)
    PROVE  AnswerTo(SelectAll(d, "AllFiles"), h)
  <1>1. PICK s : s = d.selection
    OBVIOUS
  <1>2. /\ d \in Drafts /\ s \in Selected /\ FieldsFit(s, g) /\ KindFits(s, g) /\ ~d.refused
        /\ s.isolated => d.contexts = 0
    BY <1>1 DEF DraftOf, SelectionOf
  <1>3. /\ "all-files" \in Selecting /\ h["all-files"] = g["all-files"] + 1
        /\ h["word"] = g["word"] /\ h["stdin"] = g["stdin"]
        /\ h["stdin-filename"] = g["stdin-filename"]
        /\ h["project-context"] = g["project-context"]
        /\ h["all"] = g["all"] /\ h["isolated"] = g["isolated"]
        /\ g["word"] \in Nat /\ g["stdin"] \in Nat /\ g["stdin-filename"] \in Nat
        /\ g["project-context"] \in Nat /\ g["all"] \in Nat /\ g["all-files"] \in Nat
        /\ g["isolated"] \in Nat
    BY CountsKnown DEF Selecting
  <1>h. /\ NamesStdin(h) <=> NamesStdin(g)
        /\ AsksBulk(h)
    BY <1>3 DEF NamesStdin, AsksBulk
  <1>4. CASE s.kind = "Implicit"
    <2>1. PICK r : r = Bulk("AllFiles", 0) /\ Holds(r, "AllFiles", 0, FALSE, FALSE, FALSE)
      BY WrittenOut DEF BulkKinds
    <2>2. /\ r \in Selected
          /\ r.kind = "AllFiles" /\ r.paths = 0 /\ ~r.name /\ ~r.project /\ ~r.isolated
      BY <2>1 DEF Holds
    <2>3. SelectAll(d, "AllFiles") = [d EXCEPT !.selection = Bulk("AllFiles", 0)]
      BY <1>1, <1>2, <1>4, SMT DEF SelectAll, With, Drafts, Selected, ExplicitPaths,
         Stdin, Bulk, Implicit, Conflicting, BulkKinds
    <2>4. FieldsFit(r, h)
      BY <1>2, <1>3, <1>4, <2>2, SMT DEF FieldsFit, KindFits, NamesStdin, AsksBulk,
         BulkKinds
    <2>5. KindFits(r, h)
      BY <1>2, <1>3, <1>4, <2>2, SMT DEF FieldsFit, KindFits, NamesStdin, AsksBulk,
         BulkKinds
    <2>6. SelectionOf(r, h)
      BY <2>2, <2>4, <2>5 DEF SelectionOf
    <2>7. SelectAll(d, "AllFiles") = [d EXCEPT !.selection = r]
      BY <2>1, <2>3
    <2>8. r.isolated => d.contexts = 0
      BY <1>2, <2>2, <1>4
    <2> QED BY <1>3, <2>6, <2>7, <2>8, SelectionSuffices
  <1>5. CASE s.kind = "ExplicitPaths" /\ ~s.isolated /\ s.paths <= 1
    <2>1. PICK r : r = Bulk("AllFiles", s.paths)
             /\ Holds(r, "AllFiles", s.paths, FALSE, FALSE, FALSE)
      <3>1. s.paths \in Nat /\ "AllFiles" \in BulkKinds
        BY <1>2 DEF Selected, BulkKinds
      <3> QED BY <3>1, WrittenOut
    <2>2. /\ r \in Selected
          /\ r.kind = "AllFiles" /\ r.paths = s.paths /\ ~r.name /\ ~r.project
          /\ ~r.isolated
      BY <2>1 DEF Holds
    <2>3. SelectAll(d, "AllFiles") = [d EXCEPT !.selection = Bulk("AllFiles", s.paths)]
      BY <1>1, <1>2, <1>5, SMT DEF SelectAll, With, Drafts, Selected, ExplicitPaths,
         Stdin, Bulk, Implicit, Conflicting, BulkKinds
    <2>4. FieldsFit(r, h)
      BY <1>2, <1>3, <1>5, <2>2, SMT DEF FieldsFit, KindFits, NamesStdin, AsksBulk,
         BulkKinds
    <2>5. KindFits(r, h)
      BY <1>2, <1>3, <1>5, <2>2, SMT DEF FieldsFit, KindFits, NamesStdin, AsksBulk,
         BulkKinds
    <2>6. SelectionOf(r, h)
      BY <2>2, <2>4, <2>5 DEF SelectionOf
    <2>7. SelectAll(d, "AllFiles") = [d EXCEPT !.selection = r]
      BY <2>1, <2>3
    <2>8. r.isolated => d.contexts = 0
      BY <1>2, <2>2, <1>5
    <2> QED BY <1>3, <2>6, <2>7, <2>8, SelectionSuffices
  <1>6. CASE s.kind = "ExplicitPaths" /\ (s.isolated \/ ~(s.paths <= 1))
    <2>1. Clash(h)
      <3>1. g["isolated"] > 0 \/ g["word"] > 1
        BY <1>2, <1>3, <1>6 DEF FieldsFit, KindFits, BulkKinds, AsksBulk, NamesStdin
      <3>2. AsksBulk(h) /\ (h["isolated"] > 0 \/ h["word"] > 1)
        BY <1>3, <1>h, <3>1
      <3> QED BY <3>2, Zenon DEF Clash
    <2>2. SelectAll(d, "AllFiles") = [d EXCEPT !.refused = TRUE]
      BY <1>1, <1>2, <1>6, SMT DEF SelectAll, With, Drafts, Selected, ExplicitPaths,
         Stdin, Bulk, Implicit, Conflicting, BulkKinds
    <2> QED BY <1>2, <2>1, <2>2, ClashSuffices
  <1>7. CASE s.kind = "Stdin"
    <2>1. Clash(h)
      <3>1. NamesStdin(g)
        BY <1>2, <1>3, <1>7 DEF FieldsFit, KindFits, BulkKinds, AsksBulk
      <3>2. NamesStdin(h) /\ AsksBulk(h)
        BY <1>3, <1>h, <3>1
      <3> QED BY <3>2, Zenon DEF Clash
    <2>2. SelectAll(d, "AllFiles") = [d EXCEPT !.refused = TRUE]
      BY <1>1, <1>2, <1>7, SMT DEF SelectAll, With, Drafts, Selected, ExplicitPaths,
         Stdin, Bulk, Implicit, Conflicting, BulkKinds
    <2> QED BY <1>2, <2>1, <2>2, ClashSuffices
  <1>8. CASE s.kind = "AllFiles"
    <2>1. FieldsFit(s, h)
      BY <1>2, <1>3, <1>8, SMT DEF FieldsFit, KindFits, NamesStdin, AsksBulk, BulkKinds
    <2>2. KindFits(s, h)
      BY <1>2, <1>3, <1>8, SMT DEF FieldsFit, KindFits, NamesStdin, AsksBulk, BulkKinds
    <2>3. SelectAll(d, "AllFiles") = d
      BY <1>1, <1>2, <1>8, SMT DEF SelectAll, With, Drafts, Selected, ExplicitPaths,
         Stdin, Bulk, Implicit, Conflicting, BulkKinds
    <2>4. SelectionOf(d.selection, h)
      BY <1>1, <1>2, <2>1, <2>2 DEF SelectionOf
    <2> QED BY <1>3, <2>3, <2>4, StaySuffices
  <1>9. CASE s.kind = "All"
    <2>1. Clash(h)
      <3>1. g["all"] > 0
        BY <1>2, <1>3, <1>9 DEF FieldsFit, KindFits, BulkKinds, AsksBulk, NamesStdin
      <3>2. h["all"] > 0 /\ h["all-files"] > 0
        BY <1>3, <1>h, <3>1
      <3> QED BY <3>2, Zenon DEF Clash
    <2>2. SelectAll(d, "AllFiles") = [d EXCEPT !.refused = TRUE]
      BY <1>1, <1>2, <1>9, SMT DEF SelectAll, With, Drafts, Selected, ExplicitPaths,
         Stdin, Bulk, Implicit, Conflicting, BulkKinds
    <2> QED BY <1>2, <2>1, <2>2, ClashSuffices
  <1> QED
    BY <1>2, <1>4, <1>5, <1>6, <1>7, <1>8, <1>9 DEF KindFits, BulkKinds

\* --isolated.
LEMMA SetIsolatedAnswers ==
    ASSUME NEW d, NEW g \in Counts, DraftOf(d, g), NEW h, OneMore(g, "isolated", h)
    PROVE  AnswerTo(SetIsolated(d), h)
  <1>1. PICK s : s = d.selection
    OBVIOUS
  <1>2. /\ d \in Drafts /\ s \in Selected /\ FieldsFit(s, g) /\ KindFits(s, g) /\ ~d.refused
        /\ s.isolated => d.contexts = 0
    BY <1>1 DEF DraftOf, SelectionOf
  <1>3. /\ "isolated" \in Selecting /\ h["isolated"] = g["isolated"] + 1
        /\ h["word"] = g["word"] /\ h["stdin"] = g["stdin"]
        /\ h["stdin-filename"] = g["stdin-filename"]
        /\ h["project-context"] = g["project-context"]
        /\ h["all"] = g["all"] /\ h["all-files"] = g["all-files"]
        /\ g["word"] \in Nat /\ g["stdin"] \in Nat /\ g["stdin-filename"] \in Nat
        /\ g["project-context"] \in Nat /\ g["all"] \in Nat /\ g["all-files"] \in Nat
        /\ g["isolated"] \in Nat
    BY CountsKnown DEF Selecting
  <1>h. /\ NamesStdin(h) <=> NamesStdin(g)
        /\ AsksBulk(h) <=> AsksBulk(g)
    BY <1>3 DEF NamesStdin, AsksBulk
  <1>4. h["context-path"] = d.contexts /\ d.contexts \in Nat
    BY <1>2, NamesDiffer DEF DraftOf, OneMore, Drafts, Selecting
  <1>5. CASE d.contexts > 0
    <2>1. Clash(h)
      <3>1. g["isolated"] \in Nat
        BY <1>2, <1>3, <1>5 DEF FieldsFit, KindFits, BulkKinds, AsksBulk, NamesStdin
      <3>2. h["isolated"] > 0 /\ h["context-path"] > 0
        BY <1>3, <1>h, <1>4, <1>5, <3>1
      <3> QED BY <3>2, Zenon DEF Clash
    <2>2. SetIsolated(d) = [d EXCEPT !.refused = TRUE]
      BY <1>1, <1>2, <1>5, <1>4, SMT DEF SetIsolated, With, Drafts, Selected,
         ExplicitPaths, Stdin, Bulk, Implicit, Conflicting, BulkKinds
    <2> QED BY <1>2, <2>1, <2>2, ClashSuffices
  <1>6. CASE ~(d.contexts > 0) /\ s.kind = "Implicit"
    <2>1. PICK r : r = ExplicitPaths(0, TRUE)
             /\ Holds(r, "ExplicitPaths", 0, FALSE, FALSE, TRUE)
      BY WrittenOut DEF BulkKinds
    <2>2. /\ r \in Selected
          /\ r.kind = "ExplicitPaths" /\ r.paths = 0 /\ ~r.name /\ ~r.project /\ r.isolated
      BY <2>1 DEF Holds
    <2>3. SetIsolated(d) = [d EXCEPT !.selection = ExplicitPaths(0, TRUE)]
      BY <1>1, <1>2, <1>6, <1>4, SMT DEF SetIsolated, With, Drafts, Selected,
         ExplicitPaths, Stdin, Bulk, Implicit, Conflicting, BulkKinds
    <2>4. FieldsFit(r, h)
      BY <1>2, <1>3, <1>6, <2>2, SMT DEF FieldsFit, KindFits, NamesStdin, AsksBulk,
         BulkKinds
    <2>5. KindFits(r, h)
      BY <1>2, <1>3, <1>6, <2>2, SMT DEF FieldsFit, KindFits, NamesStdin, AsksBulk,
         BulkKinds
    <2>6. SelectionOf(r, h)
      BY <2>2, <2>4, <2>5 DEF SelectionOf
    <2>7. SetIsolated(d) = [d EXCEPT !.selection = r]
      BY <2>1, <2>3
    <2>8. r.isolated => d.contexts = 0
      BY <1>2, <2>2, <1>4, <1>6
    <2> QED BY <1>3, <2>6, <2>7, <2>8, SelectionSuffices
  <1>7. CASE ~(d.contexts > 0) /\ s.kind = "Stdin" /\ s.name /\ ~s.project
    <2>1. PICK r : r = [s EXCEPT !.isolated = TRUE]
      OBVIOUS
    <2>2. /\ r \in Selected
          /\ r.isolated /\ r.kind = s.kind /\ r.paths = s.paths /\ (r.name <=> s.name)
          /\ (r.project <=> s.project)
      <3>1. r \in Selected
        BY <1>2, <2>1, Zenon DEF Selected
      <3> QED BY <1>2, <1>7, <2>1, <3>1, SMT DEF Selected
    <2>3. SetIsolated(d) = [d EXCEPT !.selection = [s EXCEPT !.isolated = TRUE]]
      BY <1>1, <1>2, <1>7, <1>4, SMT DEF SetIsolated, With, Drafts, Selected,
         ExplicitPaths, Stdin, Bulk, Implicit, Conflicting, BulkKinds
    <2>4. FieldsFit(r, h)
      BY <1>2, <1>3, <1>7, <2>2, SMT DEF FieldsFit, KindFits, NamesStdin, AsksBulk,
         BulkKinds
    <2>5. KindFits(r, h)
      BY <1>2, <1>3, <1>7, <2>2, SMT DEF FieldsFit, KindFits, NamesStdin, AsksBulk,
         BulkKinds
    <2>6. SelectionOf(r, h)
      BY <2>2, <2>4, <2>5 DEF SelectionOf
    <2>7. SetIsolated(d) = [d EXCEPT !.selection = r]
      BY <2>1, <2>3
    <2>8. r.isolated => d.contexts = 0
      BY <1>2, <2>2, <1>4, <1>7
    <2> QED BY <1>3, <2>6, <2>7, <2>8, SelectionSuffices
  <1>8. CASE ~(d.contexts > 0) /\ s.kind = "Stdin" /\ ~(s.name /\ ~s.project)
    <2>1. Clash(h)
      <3>1. g["stdin"] > 0 \/ g["project-context"] > 0
        BY <1>2, <1>3, <1>8 DEF FieldsFit, KindFits, BulkKinds, AsksBulk, NamesStdin
      <3>2. h["isolated"] > 0 /\ (h["stdin"] > 0 \/ h["project-context"] > 0)
        BY <1>3, <1>h, <1>4, <1>8, <3>1
      <3> QED BY <3>2, Zenon DEF Clash
    <2>2. SetIsolated(d) = [d EXCEPT !.refused = TRUE]
      BY <1>1, <1>2, <1>8, <1>4, SMT DEF SetIsolated, With, Drafts, Selected,
         ExplicitPaths, Stdin, Bulk, Implicit, Conflicting, BulkKinds
    <2> QED BY <1>2, <2>1, <2>2, ClashSuffices
  <1>9. CASE ~(d.contexts > 0) /\ s.kind = "ExplicitPaths"
    <2>1. PICK r : r = [s EXCEPT !.isolated = TRUE]
      OBVIOUS
    <2>2. /\ r \in Selected
          /\ r.isolated /\ r.kind = s.kind /\ r.paths = s.paths /\ (r.name <=> s.name)
          /\ (r.project <=> s.project)
      <3>1. r \in Selected
        BY <1>2, <2>1, Zenon DEF Selected
      <3> QED BY <1>2, <1>9, <2>1, <3>1, SMT DEF Selected
    <2>3. SetIsolated(d) = [d EXCEPT !.selection = [s EXCEPT !.isolated = TRUE]]
      BY <1>1, <1>2, <1>9, <1>4, SMT DEF SetIsolated, With, Drafts, Selected,
         ExplicitPaths, Stdin, Bulk, Implicit, Conflicting, BulkKinds
    <2>4. FieldsFit(r, h)
      BY <1>2, <1>3, <1>9, <2>2, SMT DEF FieldsFit, KindFits, NamesStdin, AsksBulk,
         BulkKinds
    <2>5. KindFits(r, h)
      BY <1>2, <1>3, <1>9, <2>2, SMT DEF FieldsFit, KindFits, NamesStdin, AsksBulk,
         BulkKinds
    <2>6. SelectionOf(r, h)
      BY <2>2, <2>4, <2>5 DEF SelectionOf
    <2>7. SetIsolated(d) = [d EXCEPT !.selection = r]
      BY <2>1, <2>3
    <2>8. r.isolated => d.contexts = 0
      BY <1>2, <2>2, <1>4, <1>9
    <2> QED BY <1>3, <2>6, <2>7, <2>8, SelectionSuffices
  <1>10. CASE ~(d.contexts > 0) /\ s.kind \in BulkKinds
    <2>1. Clash(h)
      <3>1. AsksBulk(g)
        BY <1>2, <1>3, <1>10 DEF FieldsFit, KindFits, BulkKinds, AsksBulk, NamesStdin
      <3>2. h["isolated"] > 0 /\ AsksBulk(h)
        BY <1>3, <1>h, <1>4, <1>10, <3>1
      <3> QED BY <3>2, Zenon DEF Clash
    <2>2. SetIsolated(d) = [d EXCEPT !.refused = TRUE]
      BY <1>1, <1>2, <1>10, <1>4, SMT DEF SetIsolated, With, Drafts, Selected,
         ExplicitPaths, Stdin, Bulk, Implicit, Conflicting, BulkKinds
    <2> QED BY <1>2, <2>1, <2>2, ClashSuffices
  <1> QED
    BY <1>2, <1>5, <1>6, <1>7, <1>8, <1>9, <1>10 DEF KindFits, BulkKinds

\* --context-path.
LEMMA PushContextPathAnswers ==
    ASSUME NEW d, NEW g \in Counts, DraftOf(d, g), NEW h, OneMore(g, "context-path", h)
    PROVE  AnswerTo(PushContextPath(d), h)
  <1>1. PICK s : s = d.selection
    OBVIOUS
  <1>2. /\ d \in Drafts /\ s \in Selected /\ ~d.refused
        /\ s.isolated <=> g["isolated"] > 0
    BY <1>1 DEF DraftOf, SelectionOf, FieldsFit
  <1>3. /\ \A k \in Selecting \cup ActionRequests \cup {"bad"} : h[k] = g[k]
        /\ h["context-path"] = g["context-path"] + 1 /\ g["context-path"] = d.contexts
    BY NamesDiffer DEF OneMore, DraftOf
  <1>4. SelectionOf(s, h)
    <2>1. SelectionOf(s, g)
      BY <1>1 DEF DraftOf
    <2> QED BY <1>3, <2>1 DEF SelectionOf, FieldsFit, KindFits, NamesStdin, AsksBulk,
       Selecting
  <1>5. CASE s.isolated
    <2>1. Clash(h)
      <3>1. g["isolated"] > 0 /\ h["isolated"] = g["isolated"]
        BY <1>2, <1>3, <1>5 DEF Selecting
      <3>2. h["context-path"] > 0
        BY <1>2, <1>3 DEF Drafts
      <3> QED BY <3>1, <3>2 DEF Clash
    <2>2. PushContextPath(d) = [d EXCEPT !.refused = TRUE]
      BY <1>1, <1>5 DEF PushContextPath, Conflicting
    <2> QED BY <1>2, <2>1, <2>2, ClashSuffices
  <1>6. CASE ~s.isolated
    <2> DEFINE e == [d EXCEPT !.contexts = @ + 1]
    <2>1. PushContextPath(d) = e
      BY <1>1, <1>6 DEF PushContextPath
    <2>2. d.contexts + 1 \in Nat
      BY <1>2 DEF Drafts
    <2>3. e \in Drafts
      BY <1>2, <2>2, Zenon DEF Drafts
    <2>4. /\ e.contexts = d.contexts + 1 /\ e.selection = s /\ e.actions = d.actions
          /\ ~e.refused
      BY <1>1, <1>2 DEF Drafts
    <2>5. e.actions = {r \in ActionRequests : h[r] > 0}
      BY <1>3, <2>4 DEF DraftOf
    <2>6. h["bad"] = 0
      BY <1>3 DEF DraftOf
    <2>7. e.contexts = h["context-path"] /\ (e.selection.isolated => e.contexts = 0)
      BY <1>3, <1>6, <2>4
    <2>8. SelectionOf(e.selection, h)
      BY <1>4, <2>4
    <2> HIDE DEF e
    <2>9. DraftOf(e, h)
      BY <2>3, <2>4, <2>5, <2>6, <2>7, <2>8 DEF DraftOf
    <2> QED BY <2>1, <2>4, <2>9 DEF AnswerTo
  <1> QED BY <1>5, <1>6

\* The options that ask for an action.
LEMMA RequestActionAnswers ==
    ASSUME NEW d, NEW g \in Counts, DraftOf(d, g), NEW o \in ActionRequests, NEW h,
           OneMore(g, o, h)
    PROVE  AnswerTo(RequestAction(d, o), h)
  <1> DEFINE e == [d EXCEPT !.actions = @ \cup {o}]
  <1>1. RequestAction(d, o) = e
    BY DEF RequestAction
  <1>2. d \in Drafts /\ ~d.refused /\ SelectionOf(d.selection, g) /\ g["bad"] = 0
        /\ d.contexts = g["context-path"] /\ (d.selection.isolated => d.contexts = 0)
        /\ d.actions = {r \in ActionRequests : g[r] > 0}
    BY DEF DraftOf
  <1>3. /\ \A k \in Selecting \cup {"bad", "context-path"} : h[k] = g[k]
        /\ \A r \in ActionRequests : h[r] = IF r = o THEN g[r] + 1 ELSE g[r]
        /\ \A r \in ActionRequests : g[r] \in Nat
    BY NamesDiffer DEF OneMore, Counts
  <1>4. {r \in ActionRequests : h[r] > 0} = d.actions \cup {o}
    BY <1>2, <1>3
  <1>5. SelectionOf(d.selection, h)
    BY <1>2, <1>3 DEF SelectionOf, FieldsFit, KindFits, NamesStdin, AsksBulk, Selecting
  <1>6. d.actions \cup {o} \in SUBSET ActionRequests
    BY <1>2
  <1>7. e \in Drafts
    BY <1>2, <1>6, Zenon DEF Drafts
  <1>8. /\ e.contexts = d.contexts /\ e.selection = d.selection
        /\ e.actions = d.actions \cup {o} /\ ~e.refused
    BY <1>2 DEF Drafts
  <1> HIDE DEF e
  <1>9. DraftOf(e, h)
    <2>1. SelectionOf(e.selection, h)
      BY <1>5, <1>8
    <2>2. e.actions = {r \in ActionRequests : h[r] > 0}
      BY <1>4, <1>8
    <2>3. /\ e.contexts = h["context-path"] /\ (e.selection.isolated => e.contexts = 0)
          /\ h["bad"] = 0
      BY <1>2, <1>3, <1>8
    <2> QED BY <1>7, <1>8, <2>1, <2>2, <2>3 DEF DraftOf
  <1> QED BY <1>1, <1>8, <1>9 DEF AnswerTo

\* Options no handler acts on (their settings are read elsewhere).
Silent == Options \ (Selecting \cup ActionRequests \cup {"context-path"})

LEMMA SilentAnswers ==
    ASSUME NEW d, NEW g \in Counts, DraftOf(d, g), NEW o \in Silent, NEW h, OneMore(g, o, h)
    PROVE  AnswerTo(d, h)
  <1>1. \A k \in Selecting \cup ActionRequests \cup {"bad", "context-path"} : h[k] = g[k]
    <2>1. o \in Options /\ o # "bad"
      BY DEF Silent, Options, Flags, Optional, Required
    <2> QED BY <2>1, NamesDiffer DEF OneMore, Silent
  <1>2. SelectionOf(d.selection, h)
    <2>1. SelectionOf(d.selection, g)
      BY DEF DraftOf
    <2> QED BY <1>1, <2>1 DEF SelectionOf, FieldsFit, KindFits, NamesStdin, AsksBulk,
       Selecting
  <1>3. {r \in ActionRequests : h[r] > 0} = {r \in ActionRequests : g[r] > 0}
    BY <1>1
  <1> QED BY <1>1, <1>2, <1>3 DEF DraftOf, AnswerTo

\* What the last check of a command line refuses, as the options given.
Invalid(g) ==
    LET changes == g["check"] > 0 \/ g["diff"] > 0
        query   == g["last-indent"] > 0 \/ g["last-usable"] > 0
    IN  \/ NamesStdin(g) /\ (g["stdout"] > 0 \/ changes \/ g["show-files"] > 0)
        \/ /\ g["stdout"] > 0
           /\ \/ g["word"] # 1 \/ AsksBulk(g) \/ NamesStdin(g)
              \/ changes \/ g["show-files"] > 0
        \/ g["isolated"] > 0 /\ g["word"] = 0 /\ ~NamesStdin(g)
        \/ (changes \/ g["show-files"] > 0) /\ g["word"] = 0 /\ ~AsksBulk(g)
        \/ g["show-files"] > 0 /\ (changes \/ query)
        \/ /\ g["query-format"] > 0
           /\ \/ g["stdout"] > 0 \/ changes \/ g["show-files"] > 0 \/ query
              \/ g["project-context"] > 0 \/ g["isolated"] > 0 \/ g["context-path"] > 0
        \/ query /\ (g["word"] > 0 \/ AsksBulk(g) \/ changes)

LEMMA ValidateCounts ==
    ASSUME NEW d, NEW g \in Counts, DraftOf(d, g)
    PROVE  Validate(d) <=> ~Invalid(g)
  <1>1. PICK s : s = d.selection
    OBVIOUS
  <1>2. PICK asked \in SUBSET ActionRequests : asked = d.actions
    BY DEF DraftOf, Drafts
  <1>3. \A r \in ActionRequests : r \in asked <=> g[r] > 0
    BY <1>2 DEF DraftOf
  <1>4. /\ "stdout" \in asked <=> g["stdout"] > 0
        /\ "check" \in asked <=> g["check"] > 0
        /\ "diff" \in asked <=> g["diff"] > 0
        /\ "show-files" \in asked <=> g["show-files"] > 0
        /\ "query-format" \in asked <=> g["query-format"] > 0
        /\ "last-indent" \in asked <=> g["last-indent"] > 0
        /\ "last-usable" \in asked <=> g["last-usable"] > 0
    BY <1>3 DEF ActionRequests
  <1>5. /\ s \in Selected /\ FieldsFit(s, g) /\ KindFits(s, g)
        /\ d.contexts = g["context-path"] /\ (s.isolated => d.contexts = 0)
    BY <1>1 DEF DraftOf, SelectionOf
  <1>6. /\ g["word"] \in Nat /\ g["context-path"] \in Nat
    BY NamesDiffer DEF Counts, Selecting
  <1> DEFINE changes == "check" \in asked \/ "diff" \in asked
             query   == "last-indent" \in asked \/ "last-usable" \in asked
             Flat == \/ /\ s.kind = "Stdin"
                        /\ "stdout" \in asked \/ changes \/ "show-files" \in asked
                     \/ /\ "stdout" \in asked
                        /\ \/ s.kind # "ExplicitPaths" \/ s.paths # 1
                           \/ changes \/ "show-files" \in asked
                     \/ s.kind = "ExplicitPaths" /\ s.paths = 0 /\ s.isolated
                     \/ s.isolated /\ d.contexts > 0
                     \/ (changes \/ "show-files" \in asked) /\ ~HasFileSelection(s)
                     \/ "show-files" \in asked /\ (changes \/ query)
                     \/ /\ "query-format" \in asked
                        /\ \/ "stdout" \in asked \/ changes \/ "show-files" \in asked \/ query
                           \/ s.project \/ s.isolated \/ d.contexts > 0
                     \/ /\ query
                        /\ s.kind \in {"ExplicitPaths"} \cup BulkKinds \/ changes
  <1>7. Validate(d) <=> ~Flat
    <2>1. /\ asked \cap {"stdout", "check", "diff", "show-files"} # {}
                <=> "stdout" \in asked \/ changes \/ "show-files" \in asked
          /\ asked \cap {"stdout"} # {} <=> "stdout" \in asked
          /\ asked \cap {"check", "diff", "show-files"} # {}
                <=> changes \/ "show-files" \in asked
          /\ asked \cap {"diff", "check", "show-files"} # {}
                <=> changes \/ "show-files" \in asked
          /\ asked \cap {"show-files"} # {} <=> "show-files" \in asked
          /\ asked \cap ({"check", "diff"} \cup {"last-indent", "last-usable"}) # {}
                <=> changes \/ query
          /\ asked \cap {"query-format"} # {} <=> "query-format" \in asked
          /\ asked \cap (ActionRequests \ {"query-format"}) # {}
                <=> "stdout" \in asked \/ changes \/ "show-files" \in asked \/ query
          /\ asked \cap {"last-indent", "last-usable"} # {} <=> query
          /\ asked \cap {"check", "diff"} # {} <=> changes
      BY <1>2 DEF ActionRequests
    <2> HIDE DEF changes, query
    <2> QED BY <1>1, <1>2, <2>1 DEF Validate
  <1>8. Flat <=> Invalid(g)
    <2>1. CASE s.kind = "Implicit"
      BY <1>4, <1>5, <1>6, <2>1 DEF Invalid, FieldsFit, KindFits, NamesStdin, AsksBulk,
         HasFileSelection, BulkKinds
    <2>2. CASE s.kind = "ExplicitPaths"
      BY <1>4, <1>5, <1>6, <2>2 DEF Invalid, FieldsFit, KindFits, NamesStdin, AsksBulk,
         HasFileSelection, BulkKinds
    <2>3. CASE s.kind = "Stdin"
      BY <1>4, <1>5, <1>6, <2>3 DEF Invalid, FieldsFit, KindFits, NamesStdin, AsksBulk,
         HasFileSelection, BulkKinds
    <2>4. CASE s.kind \in BulkKinds
      BY <1>4, <1>5, <1>6, <2>4 DEF Invalid, FieldsFit, KindFits, NamesStdin, AsksBulk,
         HasFileSelection, BulkKinds
    <2> QED BY <1>5, <2>1, <2>2, <2>3, <2>4 DEF KindFits, BulkKinds
  <1> QED BY <1>7, <1>8

-----------------------------------------------------------------------------
\* The configuration file selection that resolve refuses, when it is asked.
BadConfig(g, c) ==
    /\ g["help"] = 0 /\ g["version"] = 0
    /\ \/ c.explicit \notin {<<>>, <<"text">>, <<"fixed">>}
       \/ c.no /\ c.explicit # <<>>

\* A refused command line has a reason among its options.
Reason(g, c) == Clash(g) \/ g["bad"] > 0 \/ Invalid(g) \/ BadConfig(g, c)

Asked(g) == {o \in {"help", "version"} : g[o] > 0}

ArgInv ==
    /\ given \in Counts /\ awaiting \in Required \cup {"none"}
    /\ outcome \in {"reading", "refused", "help", "version", "run"}
    /\ config.explicit \in Seq(Values)
    /\ outcome \in {"reading", "run"} => DraftOf(draft, given) /\ switches = Asked(given)
    /\ outcome = "refused" => Reason(given, config)
    /\ outcome = "run" => Validate(draft) /\ switches = {} /\ ConfigResolves

LEMMA InitArguments == ArgInit => ArgInv
  <1> SUFFICES ASSUME ArgInit PROVE ArgInv
    OBVIOUS
  <1>1. given \in Counts /\ \A o \in Counted : given[o] = 0
    BY DEF ArgInit, Counts, Counted
  <1>2. \A o \in Selecting \cup ActionRequests \cup {"context-path", "bad", "help", "version"} :
           given[o] = 0
    BY <1>1, NamesDiffer DEF Counted, Options, Flags
  <1>3. Holds(draft.selection, "Implicit", 0, FALSE, FALSE, FALSE)
    <2>1. Implicit \in Selected
      BY Zenon DEF Implicit, Selected
    <2>2. draft.selection = Implicit
      BY DEF ArgInit
    <2> QED BY <2>1, <2>2 DEF Implicit, Holds
  <1>4. PICK s : s = draft.selection
    OBVIOUS
  <1>5. /\ s \in Selected /\ s.kind = "Implicit" /\ s.paths = 0 /\ ~s.name /\ ~s.project
        /\ ~s.isolated
    BY <1>3, <1>4 DEF Holds
  <1>6. /\ given["word"] = 0 /\ given["stdin"] = 0 /\ given["stdin-filename"] = 0
        /\ given["project-context"] = 0 /\ given["all"] = 0 /\ given["all-files"] = 0
        /\ given["isolated"] = 0 /\ given["context-path"] = 0 /\ given["bad"] = 0
    BY <1>2 DEF Selecting
  <1>7. SelectionOf(s, given)
    BY <1>5, <1>6 DEF SelectionOf, FieldsFit, KindFits, NamesStdin, AsksBulk
  <1>8. /\ draft.actions = {} /\ draft.contexts = 0 /\ ~draft.refused
        /\ draft \in Drafts
    <2>1. Implicit \in Selected
      BY Zenon DEF Implicit, Selected
    <2> QED BY <2>1, Zenon DEF ArgInit, Drafts
  <1>9. {r \in ActionRequests : given[r] > 0} = {} /\ Asked(given) = {}
    BY <1>2 DEF Asked
  <1>10. DraftOf(draft, given)
    BY <1>4, <1>6, <1>7, <1>8, <1>9 DEF DraftOf
  <1> QED BY <1>1, <1>9, <1>10 DEF ArgInit, ArgInv

\* An option and its value, whoever supplied them.
LEMMA ApplyStep ==
    ASSUME ArgInv, outcome = "reading", NEW o \in Options \cup {"word"}, NEW v \in Values,
           Apply(o, v), awaiting' \in Required \cup {"none"}
    PROVE  ArgInv'
  <1>1. /\ given \in Counts /\ DraftOf(draft, given) /\ switches = Asked(given)
        /\ config.explicit \in Seq(Values)
    BY DEF ArgInv
  <1>2. config'.explicit \in Seq(Values)
    BY <1>1 DEF Apply
  <1>3. CASE BadValue(o, v)
    <2>1. "bad" \in Counted /\ given' = [given EXCEPT !["bad"] = @ + 1]
      BY <1>3, NamesDiffer DEF Apply
    <2>2. given' \in Counts /\ given'["bad"] = given["bad"] + 1
      BY <1>1, <2>1, CountOne DEF OneMore
    <2>3. given["bad"] = 0
      BY <1>1 DEF DraftOf
    <2>4. draft' = [draft EXCEPT !.refused = TRUE] /\ draft \in Drafts
      BY <1>1, <1>3 DEF Apply, Handled, Conflicting, DraftOf
    <2>5. outcome' = "refused"
      BY <1>3, <2>4 DEF Apply, Drafts
    <2>6. Reason(given', config')
      BY <2>2, <2>3 DEF Reason
    <2> QED BY <1>2, <2>2, <2>5, <2>6 DEF ArgInv
  <1>4. CASE ~BadValue(o, v)
    <2>1. o \in Counted /\ given' = [given EXCEPT ![o] = @ + 1]
      BY <1>4 DEF Apply, Counted
    <2>2. OneMore(given, o, given') /\ given' \in Counts
      <3>1. OneMore(given, o, [given EXCEPT ![o] = @ + 1])
        BY <1>1, <2>1, CountOne
      <3> QED BY <2>1, <3>1 DEF OneMore
    <2>3. AnswerTo(draft', given')
      <3>1. draft' = Handled(o, v)
        BY DEF Apply
      <3>2. \/ o = "word" /\ Handled(o, v) = PushPath(draft)
            \/ o = "stdin" /\ Handled(o, v) = SelectStdin(draft)
            \/ o = "stdin-filename" /\ Handled(o, v) = SelectStdinFilename(draft)
            \/ o = "project-context" /\ Handled(o, v) = SelectProjectContext(draft)
            \/ o = "context-path" /\ Handled(o, v) = PushContextPath(draft)
            \/ o = "all" /\ Handled(o, v) = SelectAll(draft, "All")
            \/ o = "all-files" /\ Handled(o, v) = SelectAll(draft, "AllFiles")
            \/ o = "isolated" /\ Handled(o, v) = SetIsolated(draft)
            \/ o \in ActionRequests /\ Handled(o, v) = RequestAction(draft, o)
            \/ o \in Silent /\ Handled(o, v) = draft
        BY <1>4 DEF Handled, Silent, Selecting, ActionRequests
      <3>3. CASE o = "word" /\ Handled(o, v) = PushPath(draft)
        BY <1>1, <2>2, <3>1, <3>3, PushPathAnswers
      <3>4. CASE o = "stdin" /\ Handled(o, v) = SelectStdin(draft)
        BY <1>1, <2>2, <3>1, <3>4, SelectStdinAnswers
      <3>5. CASE o = "stdin-filename" /\ Handled(o, v) = SelectStdinFilename(draft)
        BY <1>1, <2>2, <3>1, <3>5, SelectStdinFilenameAnswers
      <3>6. CASE o = "project-context" /\ Handled(o, v) = SelectProjectContext(draft)
        BY <1>1, <2>2, <3>1, <3>6, SelectProjectContextAnswers
      <3>7. CASE o = "context-path" /\ Handled(o, v) = PushContextPath(draft)
        BY <1>1, <2>2, <3>1, <3>7, PushContextPathAnswers
      <3>8. CASE o = "all" /\ Handled(o, v) = SelectAll(draft, "All")
        BY <1>1, <2>2, <3>1, <3>8, SelectAllAnswers
      <3>9. CASE o = "all-files" /\ Handled(o, v) = SelectAll(draft, "AllFiles")
        BY <1>1, <2>2, <3>1, <3>9, SelectAllFilesAnswers
      <3>10. CASE o = "isolated" /\ Handled(o, v) = SetIsolated(draft)
        BY <1>1, <2>2, <3>1, <3>10, SetIsolatedAnswers
      <3>11. CASE o \in ActionRequests /\ Handled(o, v) = RequestAction(draft, o)
        BY <1>1, <2>2, <3>1, <3>11, RequestActionAnswers
      <3>12. CASE o \in Silent /\ Handled(o, v) = draft
        BY <1>1, <2>2, <3>1, <3>12, SilentAnswers
      <3> QED BY <3>2, <3>3, <3>4, <3>5, <3>6, <3>7, <3>8, <3>9, <3>10, <3>11, <3>12
    <2>4. switches' = Asked(given')
      <3>1. {"help", "version"} \subseteq Counted /\ \A k \in Counted : given[k] \in Nat
        BY <1>1 DEF Counts, Counted, Options, Flags
      <3>2. \A k \in Counted : given'[k] = IF k = o THEN given[k] + 1 ELSE given[k]
        BY <2>1, <2>2 DEF OneMore
      <3>3. switches' = switches \cup ({o} \cap {"help", "version"})
        BY DEF Apply
      <3>4. ASSUME NEW k \in {"help", "version"}
            PROVE  given'[k] > 0 <=> k \in switches'
        <4>1. k \in Counted /\ given[k] \in Nat /\ (k \in switches <=> given[k] > 0)
          BY <1>1, <3>1 DEF Asked
        <4>2. k \in switches' <=> k \in switches \/ k = o
          BY <3>3
        <4> QED BY <3>2, <4>1, <4>2
      <3> QED BY <1>1, <3>3, <3>4 DEF Asked
    <2>5. CASE draft'.refused
      <3>1. outcome' = "refused" /\ Clash(given')
        BY <2>3, <2>5 DEF Apply, AnswerTo
      <3> QED BY <1>2, <2>2, <3>1 DEF ArgInv, Reason
    <2>6. CASE ~draft'.refused
      <3>1. outcome' = "reading" /\ DraftOf(draft', given')
        BY <2>3, <2>6 DEF Apply, AnswerTo
      <3> QED BY <1>2, <2>2, <2>4, <3>1 DEF ArgInv
    <2> QED BY <2>5, <2>6
  <1> QED BY <1>3, <1>4

LEMMA RefuseStep ==
    ASSUME ArgInv, outcome = "reading", Refuse, awaiting' = awaiting
    PROVE  ArgInv'
  <1>1. "bad" \in Counted /\ given \in Counts /\ given["bad"] = 0
    BY NamesDiffer DEF ArgInv, DraftOf
  <1>2. given' \in Counts /\ given'["bad"] = given["bad"] + 1
    BY <1>1, CountOne DEF Refuse, OneMore
  <1>3. Reason(given', config')
    BY <1>1, <1>2 DEF Reason
  <1> QED BY <1>2, <1>3 DEF ArgInv, Refuse

LEMMA ArgumentsStep == ArgInv /\ [ArgNext]_argVars => ArgInv'
  <1> SUFFICES ASSUME ArgInv, [ArgNext]_argVars PROVE ArgInv'
    OBVIOUS
  <1>1. ASSUME outcome = "reading", NEW token \in Tokens, TakeValue(token)
        PROVE  ArgInv'
    <2>1. awaiting \in Options \cup {"word"} /\ awaiting' \in Required \cup {"none"}
      BY <1>1 DEF TakeValue, ArgInv, Options
    <2>2. (IF token.name # "word" THEN "dashed" ELSE token.value) \in Values
      BY <1>1, TokensAssumption DEF Values
    <2> QED BY <1>1, <2>1, <2>2, ApplyStep DEF TakeValue
  <1>2. ASSUME outcome = "reading", NEW token \in Tokens, EndOptions(token)
        PROVE  ArgInv'
    BY <1>2 DEF EndOptions, ArgInv
  <1>3. ASSUME outcome = "reading", NEW token \in Tokens, PushWord(token)
        PROVE  ArgInv'
    <2>1. awaiting' \in Required \cup {"none"} /\ "word" \in Options \cup {"word"}
      BY <1>3 DEF PushWord, ArgInv
    <2>2. token.value \in Values
      BY <1>3, TokensAssumption
    <2> QED BY <1>3, <2>1, <2>2, ApplyStep DEF PushWord
  <1>4. ASSUME outcome = "reading", NEW token \in Tokens, RefuseOption(token)
        PROVE  ArgInv'
    BY <1>4, RefuseStep DEF RefuseOption
  <1>5. ASSUME outcome = "reading", NEW token \in Tokens, ReadOption(token)
        PROVE  ArgInv'
    <2>1. CASE token.name \in Required /\ token.value = "absent"
      BY <1>5, <2>1 DEF ReadOption, ArgInv, ConfigResolves
    <2>2. CASE ~(token.name \in Required /\ token.value = "absent")
      <3>1. awaiting' \in Required \cup {"none"} /\ token.name \in Options \cup {"word"}
        BY <1>5, <2>2 DEF ReadOption, ArgInv
      <3>2. token.value \in Values
        BY <1>5, TokensAssumption
      <3>3. Apply(token.name, token.value)
        BY <1>5, <2>2 DEF ReadOption
      <3> QED BY <1>5, <3>1, <3>2, <3>3, ApplyStep
    <2> QED BY <2>1, <2>2
  <1>6. ASSUME outcome = "reading", MissingValue
        PROVE  ArgInv'
    BY <1>6, RefuseStep DEF MissingValue
  <1>7. ASSUME outcome = "reading", Finish
        PROVE  ArgInv'
    <2>1. /\ given \in Counts /\ DraftOf(draft, given) /\ switches = Asked(given)
      BY <1>7 DEF ArgInv
    <2>2. /\ given' = given /\ draft' = draft /\ switches' = switches /\ config' = config
          /\ awaiting' = awaiting
      BY <1>7 DEF Finish
    <2>3. CASE ~Validate(draft)
      <3>1. Invalid(given)
        BY <2>1, <2>3, ValidateCounts
      <3>2. outcome' = "refused" /\ Reason(given', config')
        BY <1>7, <2>2, <2>3, <3>1 DEF Finish, Reason
      <3> QED BY <2>2, <3>2 DEF ArgInv
    <2>4. CASE Validate(draft) /\ (switches # {})
      <3>1. outcome' \in {"help", "version"}
        BY <1>7, <2>1, <2>4 DEF Finish, Asked
      <3> QED BY <2>2, <3>1 DEF ArgInv
    <2>5. CASE Validate(draft) /\ switches = {} /\ ~ConfigResolves
      <3>1. outcome' = "refused"
        BY <1>7, <2>5 DEF Finish
      <3>2. given["help"] = 0 /\ given["version"] = 0
        <4>1. given["help"] \in Nat /\ given["version"] \in Nat
          BY <2>1 DEF Counts, Counted, Options, Flags
        <4>2. ~(given["help"] > 0) /\ ~(given["version"] > 0)
          BY <2>1, <2>5 DEF Asked
        <4> QED BY <4>1, <4>2
      <3>3. Reason(given', config')
        BY <2>2, <2>5, <3>2 DEF Reason, BadConfig, ConfigResolves
      <3> QED BY <2>2, <3>1, <3>3 DEF ArgInv
    <2>6. CASE Validate(draft) /\ switches = {} /\ ConfigResolves
      <3>1. outcome' = "run"
        BY <1>7, <2>6 DEF Finish
      <3>2. Validate(draft') /\ ConfigResolves'
        BY <2>2, <2>6 DEF ConfigResolves
      <3> QED BY <2>1, <2>2, <2>6, <3>1, <3>2 DEF ArgInv
    <2> QED BY <2>3, <2>4, <2>5, <2>6
  <1>8. CASE UNCHANGED argVars
    BY <1>8 DEF argVars, ArgInv, ConfigResolves
  <1> QED BY <1>1, <1>2, <1>3, <1>4, <1>5, <1>6, <1>7, <1>8 DEF ArgNext

\* The groups of options that the property speaks of.
LEMMA HasCounts ==
    /\ Has({"stdin", "stdin-filename", "project-context"}) <=> NamesStdin(given)
    /\ Has({"all", "all-files"}) <=> AsksBulk(given)
    /\ Has({"bad"}) <=> given["bad"] > 0
    /\ Has({"isolated"}) <=> given["isolated"] > 0
    /\ Has({"stdout"}) <=> given["stdout"] > 0
    /\ Has({"show-files"}) <=> given["show-files"] > 0
    /\ Has({"query-format"}) <=> given["query-format"] > 0
    /\ Has({"check", "diff"}) <=> given["check"] > 0 \/ given["diff"] > 0
    /\ Has({"last-indent", "last-usable"})
          <=> given["last-indent"] > 0 \/ given["last-usable"] > 0
    /\ Has({"stdout", "check", "diff", "show-files"})
          <=> \/ given["stdout"] > 0 \/ given["check"] > 0 \/ given["diff"] > 0
              \/ given["show-files"] > 0
    /\ Has({"check", "diff", "show-files"})
          <=> given["check"] > 0 \/ given["diff"] > 0 \/ given["show-files"] > 0
    /\ Has({"check", "diff"} \cup {"last-indent", "last-usable"})
          <=> \/ given["check"] > 0 \/ given["diff"] > 0
              \/ given["last-indent"] > 0 \/ given["last-usable"] > 0
    /\ Has({"project-context", "context-path", "query-format"})
          <=> \/ given["project-context"] > 0 \/ given["context-path"] > 0
              \/ given["query-format"] > 0
    /\ Has((ActionRequests \ {"query-format"}) \cup {"project-context", "context-path"})
          <=> \/ given["stdout"] > 0 \/ given["check"] > 0 \/ given["diff"] > 0
              \/ given["show-files"] > 0 \/ given["last-indent"] > 0
              \/ given["last-usable"] > 0
              \/ given["project-context"] > 0 \/ given["context-path"] > 0
    /\ Has({"help", "version"}) <=> given["help"] > 0 \/ given["version"] > 0
    /\ Has({"stdin"}) <=> given["stdin"] > 0
    /\ Has({"all"}) <=> given["all"] > 0
    /\ Has({"all-files"}) <=> given["all-files"] > 0
    /\ Has({"word"}) <=> given["word"] > 0
    /\ Has({"stdin-filename"}) <=> given["stdin-filename"] > 0
    /\ Has({"project-context"}) <=> given["project-context"] > 0
  BY DEF Has, NamesStdin, AsksBulk, ActionRequests

\* What the invariant says of a command line that was refused, ...
LEMMA RefusedHasReason ==
    ASSUME ArgInv, outcome = "refused", ~(Has({"stdin"}) /\ Has({"isolated"}))
    PROVE  Contradiction \/ Incomplete
  <1>1. given \in Counts /\ Reason(given, config)
    BY DEF ArgInv
  <1>2. ~(given["stdin"] > 0 /\ given["isolated"] > 0)
    BY DEF Has
  <1>3. CASE Clash(given)
    BY <1>2, <1>3 DEF Clash, Contradiction, Has, NamesStdin, AsksBulk
  <1>4. CASE given["bad"] > 0
    BY <1>4 DEF Contradiction, Has
  <1>5. CASE Invalid(given)
    <2>1. given["word"] \in Nat /\ given["stdin-filename"] \in Nat
      BY <1>1, NamesDiffer DEF Counts, Selecting
    <2>2. given["stdin-filename"] > 0 => NamesStdin(given)
      BY DEF NamesStdin
    <2> QED BY <1>5, <2>1, <2>2, HasCounts DEF Invalid, Contradiction, Incomplete
  <1>6. CASE BadConfig(given, config)
    BY <1>6 DEF BadConfig, Incomplete, Has, ConfigResolves
  <1> QED BY <1>1, <1>3, <1>4, <1>5, <1>6 DEF Reason

\* ... and of one that runs.
LEMMA RunHasNone ==
    ASSUME ArgInv, outcome = "run"
    PROVE  ~Contradiction /\ ~Incomplete
  <1>1. /\ given \in Counts /\ DraftOf(draft, given) /\ ~Invalid(given) /\ ConfigResolves
    BY ValidateCounts DEF ArgInv
  <1>2. PICK s : s = draft.selection
    OBVIOUS
  <1>3. /\ FieldsFit(s, given) /\ KindFits(s, given) /\ given["bad"] = 0
        /\ draft.contexts = given["context-path"] /\ (s.isolated => draft.contexts = 0)
    BY <1>1, <1>2 DEF DraftOf, SelectionOf
  <1>4. \A k \in Selecting \cup ActionRequests \cup {"context-path"} : given[k] \in Nat
    BY <1>1, NamesDiffer DEF Counts
  <1>5. /\ given["word"] \in Nat /\ given["stdin-filename"] \in Nat
        /\ given["project-context"] \in Nat /\ given["context-path"] \in Nat
        /\ given["all"] \in Nat /\ given["all-files"] \in Nat
    BY <1>4 DEF Selecting
  <1>6. Len(config.explicit) <= 1 /\ (config.no => config.explicit = <<>>)
    <2>1. config.explicit = <<>> \/ config.explicit = <<"text">> \/ config.explicit = <<"fixed">>
      BY <1>1 DEF ConfigResolves
    <2>2. Len(config.explicit) <= 1
      <3>1. Len(<<>>) = 0 /\ Len(<<"text">>) = 1 /\ Len(<<"fixed">>) = 1
        OBVIOUS
      <3>2. Len(config.explicit) = 0 \/ Len(config.explicit) = 1
        BY <2>1, <3>1, Zenon
      <3>3. 0 <= 1 /\ 1 <= 1
        OBVIOUS
      <3> QED BY <3>2, <3>3, Zenon
    <2> QED BY <1>1, <2>2 DEF ConfigResolves
  <1>7. /\ NamesStdin(given) => given["word"] = 0 /\ ~AsksBulk(given)
        /\ given["stdin-filename"] <= 1 /\ given["project-context"] <= 1
        /\ ~(given["all"] > 0 /\ given["all-files"] > 0)
        /\ AsksBulk(given) => given["word"] <= 1
        /\ given["isolated"] > 0 => /\ ~AsksBulk(given) /\ ~(given["project-context"] > 0)
                                    /\ given["context-path"] = 0
                                    /\ NamesStdin(given) => given["stdin-filename"] > 0
    BY <1>3, <1>5 DEF FieldsFit, KindFits, AsksBulk, NamesStdin
  <1>8. ~Contradiction
    BY <1>1, <1>3, <1>5, <1>6, <1>7, HasCounts DEF Contradiction, Invalid
  <1>9. ~Incomplete
    BY <1>1, <1>5, <1>7, HasCounts DEF Incomplete, Invalid
  <1> QED BY <1>8, <1>9

\* The draft of a run is what the options say.
LEMMA RunReadsOptions ==
    ASSUME ArgInv, outcome = "run"
    PROVE  LET s == draft.selection IN
           /\ s.kind = IF Has({"all"}) THEN "All"
                       ELSE IF Has({"all-files"}) THEN "AllFiles"
                       ELSE IF Has({"stdin", "stdin-filename", "project-context"}) THEN "Stdin"
                       ELSE IF Has({"word"}) THEN "ExplicitPaths" ELSE "Implicit"
           /\ s.paths = given["word"] /\ s.isolated = Has({"isolated"})
           /\ s.name = Has({"stdin-filename"}) /\ s.project = Has({"project-context"})
           /\ draft.contexts = given["context-path"]
           /\ draft.actions = {r \in ActionRequests : given[r] > 0}
  <1>1. /\ given \in Counts /\ DraftOf(draft, given) /\ ~Invalid(given)
    BY ValidateCounts DEF ArgInv
  <1>2. PICK s : s = draft.selection
    OBVIOUS
  <1>3. /\ s \in Selected /\ FieldsFit(s, given) /\ KindFits(s, given)
    BY <1>1, <1>2 DEF DraftOf, SelectionOf
  <1>4. /\ given["all"] \in Nat /\ given["all-files"] \in Nat /\ given["word"] \in Nat
        /\ given["isolated"] \in Nat
    BY <1>1, NamesDiffer DEF Counts, Selecting
  <1>5. s.kind = IF Has({"all"}) THEN "All"
                       ELSE IF Has({"all-files"}) THEN "AllFiles"
                       ELSE IF Has({"stdin", "stdin-filename", "project-context"}) THEN "Stdin"
                       ELSE IF Has({"word"}) THEN "ExplicitPaths" ELSE "Implicit"
    <2>1. s.paths = given["word"] /\ (s.isolated <=> given["isolated"] > 0)
      BY <1>3 DEF FieldsFit
    <2>2. s.kind = "ExplicitPaths" => given["word"] > 0
      BY <1>1, <1>3, <1>4, <2>1 DEF KindFits, Invalid
    <2>3. /\ s.kind = "All" <=> given["all"] > 0
          /\ s.kind = "AllFiles" <=> given["all-files"] > 0
          /\ s.kind = "Stdin" <=> NamesStdin(given)
          /\ s.kind = "Implicit" \/ s.kind = "ExplicitPaths" <=>
                ~(given["all"] > 0) /\ ~(given["all-files"] > 0) /\ ~NamesStdin(given)
          /\ s.kind = "Implicit" => ~(given["word"] > 0)
      BY <1>3, <1>4, <2>1 DEF KindFits, AsksBulk
    <2>4. s.kind \in {"Implicit", "Stdin", "ExplicitPaths", "All", "AllFiles"}
      BY <1>3 DEF KindFits
    <2>5. /\ Has({"all"}) <=> s.kind = "All"
          /\ Has({"all-files"}) <=> s.kind = "AllFiles"
          /\ Has({"stdin", "stdin-filename", "project-context"}) <=> s.kind = "Stdin"
          /\ s.kind = "ExplicitPaths" => Has({"word"})
          /\ s.kind = "Implicit" => ~Has({"word"})
      BY <2>2, <2>3, HasCounts
    <2>6. CASE s.kind \in {"Implicit", "ExplicitPaths"}
      BY <2>5, <2>6
    <2>7. CASE s.kind = "Stdin"
      BY <2>5, <2>7
    <2>8. CASE s.kind \in BulkKinds
      BY <2>5, <2>8 DEF BulkKinds
    <2> QED BY <2>4, <2>6, <2>7, <2>8 DEF BulkKinds
  <1>6. s.paths = given["word"]
    BY <1>3 DEF FieldsFit
  <1>7. /\ s.isolated <=> Has({"isolated"})
        /\ s.name <=> Has({"stdin-filename"})
        /\ s.project <=> Has({"project-context"})
    BY <1>3, HasCounts DEF FieldsFit
  <1>8. s.isolated \in BOOLEAN /\ s.name \in BOOLEAN /\ s.project \in BOOLEAN
    BY <1>3, Zenon DEF Selected
  <1>9. /\ s.isolated = Has({"isolated"}) /\ s.name = Has({"stdin-filename"})
        /\ s.project = Has({"project-context"})
    BY <1>7, <1>8, Zenon DEF Has
  <1>10. /\ draft.contexts = given["context-path"]
         /\ draft.actions = {r \in ActionRequests : given[r] > 0}
    BY <1>1 DEF DraftOf
  <1> QED BY <1>2, <1>5, <1>6, <1>9, <1>10

\* What a command line is refused for, what a run reads and what it does follow
\* from how often each option was given, in whatever order.
THEOREM OrderCorrect == ArgSpec => []OrderDoesNotMatter
  <1>1. ArgInv => OrderDoesNotMatter
    <2> SUFFICES ASSUME ArgInv, outcome \in {"refused", "run"},
                        ~(Has({"stdin"}) /\ Has({"isolated"}))
                 PROVE  OrderDoesNotMatter
      BY DEF OrderDoesNotMatter
    <2>1. CASE outcome = "refused"
      BY <2>1, RefusedHasReason DEF OrderDoesNotMatter
    <2>2. CASE outcome = "run"
      <3>1. outcome # "refused" /\ ~Contradiction /\ ~Incomplete
        BY <2>2, RunHasNone
      <3>2. LET s == draft.selection IN
           /\ s.kind = IF Has({"all"}) THEN "All"
                       ELSE IF Has({"all-files"}) THEN "AllFiles"
                       ELSE IF Has({"stdin", "stdin-filename", "project-context"}) THEN "Stdin"
                       ELSE IF Has({"word"}) THEN "ExplicitPaths" ELSE "Implicit"
           /\ s.paths = given["word"] /\ s.isolated = Has({"isolated"})
           /\ s.name = Has({"stdin-filename"}) /\ s.project = Has({"project-context"})
           /\ draft.contexts = given["context-path"]
           /\ draft.actions = {r \in ActionRequests : given[r] > 0}
        BY <2>2, RunReadsOptions
      <3> QED BY <3>1, <3>2, Zenon DEF OrderDoesNotMatter
    <2> QED BY <2>1, <2>2
  <1> QED BY <1>1, InitArguments, ArgumentsStep, PTL DEF ArgSpec

-----------------------------------------------------------------------------
(* Settings *)

\* Induction over the numbers up to m.
LEMMA Below ==
    ASSUME NEW m \in Nat, NEW S,
           \A n \in 0..m : (\A k \in 0..m : k < n => k \in S) => n \in S
    PROVE  0..m \subseteq S
<1> DEFINE T == {n \in Nat : n \in 0..m /\ n \notin S}
           R == OpToRel(<, Nat)
<1>1. SUFFICES ASSUME T # {} PROVE FALSE
  OBVIOUS
<1>2. PICK x \in T : \A y \in T : ~ (<<y, x>> \in R)
  <2>1. IsWellFoundedOn(R, Nat) /\ T \subseteq Nat
    BY NatLessThanWellFounded
  <2> HIDE DEF R, T
  <2> QED BY <1>1, <2>1, WFMin
<1>3. \A a, b \in Nat : <<b, a>> \in R <=> b < a
  BY DEF OpToRel
<1>4. x \in Nat /\ x \in 0..m /\ x \notin S
  <2> HIDE DEF R
  <2> QED BY Zenon
<1>5. \A y \in T : ~ (y < x)
  BY <1>2, <1>3, <1>4
<1> HIDE DEF R
<1>6. \A k \in 0..m : k < x => k \in S
  <2>1. \A k \in 0..m : k \in Nat
    OBVIOUS
  <2> QED BY <1>5, <2>1, Zenon
<1> QED BY <1>4, <1>6, Zenon

LEMMA UpTo ==
    ASSUME NEW m \in Nat, NEW S, 0 \in S, \A n \in 0..m : n < m /\ n \in S => n + 1 \in S
    PROVE  0..m \subseteq S
<1>1. ASSUME NEW n \in 0..m, \A k \in 0..m : k < n => k \in S PROVE n \in S
  <2>1. CASE n = 0
    BY <2>1
  <2>2. CASE n # 0
    <3>1. n - 1 \in 0..m /\ n - 1 < n /\ n - 1 < m /\ (n - 1) + 1 = n
      BY <2>2
    <3>2. n - 1 \in S
      BY <1>1, <3>1, Zenon
    <3>3. (n - 1) + 1 \in S
      BY <3>1, <3>2, Zenon
    <3> QED BY <3>1, <3>3
  <2> QED BY <2>1, <2>2
<1> QED BY <1>1, Below

Step(settings, chosen, base, conf, n) ==
    IF n = 0 THEN base
    ELSE IF n \in chosen THEN Written(Writes(settings[n]), conf[n - 1])
    ELSE conf[n - 1]

\* conf holds what the loop has after each of the first m settings.
Loop(settings, chosen, base, m, conf) ==
    conf = [n \in 0..m |-> Step(settings, chosen, base, conf, n)]

LEMMA LoopExists ==
    ASSUME NEW settings, NEW chosen, NEW base, NEW m \in Nat
    PROVE  \E conf : Loop(settings, chosen, base, m, conf)
<1> DEFINE L(n, c) == Loop(settings, chosen, base, n, c)
           S == {n \in 0..m : \E c : L(n, c)}
<1>1. 0 \in S
  <2> DEFINE c == [n \in 0..0 |-> base]
  <2>1. c = [n \in 0..0 |-> Step(settings, chosen, base, c, n)]
    BY DEF Step
  <2> QED BY <2>1 DEF Loop
<1>2. ASSUME NEW n \in 0..m, n < m, n \in S PROVE n + 1 \in S
  <2>1. PICK c : c = [k \in 0..n |-> Step(settings, chosen, base, c, k)]
    BY <1>2 DEF Loop
  <2> DEFINE last == IF n + 1 \in chosen THEN Written(Writes(settings[n + 1]), c[n]) ELSE c[n]
             d == [k \in 0..(n + 1) |-> IF k = n + 1 THEN last ELSE c[k]]
  <2>2. \A k \in 0..n : c[k] = Step(settings, chosen, base, c, k)
    BY <2>1
  <2>3. \A k \in 0..n : d[k] = c[k]
    OBVIOUS
  <2>4. \A k \in 0..(n + 1) : d[k] = Step(settings, chosen, base, d, k)
    <3>1. ASSUME NEW k \in 0..n PROVE d[k] = Step(settings, chosen, base, d, k)
      <4>1. k = 0 \/ d[k - 1] = c[k - 1]
        BY <2>3
      <4> HIDE DEF d
      <4> QED BY <2>2, <2>3, <4>1 DEF Step
    <3>2. d[n + 1] = Step(settings, chosen, base, d, n + 1)
      <4>1. d[n + 1] = last /\ d[n] = c[n] /\ n + 1 # 0 /\ (n + 1) - 1 = n
        BY <2>3
      <4> HIDE DEF d
      <4> QED BY <4>1 DEF Step
    <3>3. \A k \in 0..(n + 1) : k \in 0..n \/ k = n + 1
      OBVIOUS
    <3> HIDE DEF d
    <3> QED BY <3>1, <3>2, <3>3
  <2>5. d = [k \in 0..(n + 1) |-> Step(settings, chosen, base, d, k)]
    <3>1. d = [k \in 0..(n + 1) |-> d[k]]
      OBVIOUS
    <3> HIDE DEF d
    <3> QED BY <2>4, <3>1, Zenon
  <2>6. n + 1 \in 0..m
    BY <1>2
  <2> HIDE DEF d
  <2> QED BY <2>5, <2>6 DEF Loop
<1>3. m \in 0..m
  OBVIOUS
<1> HIDE DEF L
<1>4. 0..m \subseteq S
  <2> HIDE DEF S
  <2> QED BY <1>1, <1>2, UpTo
<1>5. m \in S
  BY <1>3, <1>4
<1> QED BY <1>5 DEF L

LEMMA ApplyIsLoop ==
    ASSUME NEW settings, NEW chosen, NEW base, Len(settings) \in Nat
    PROVE  \E conf : /\ Loop(settings, chosen, base, Len(settings), conf)
                     /\ ApplyThose(settings, chosen, base) = conf[Len(settings)]
<1> DEFINE c == CHOOSE conf : conf =
                   [n \in 0..Len(settings) |->
                       IF n = 0 THEN base
                       ELSE IF n \in chosen THEN Written(Writes(settings[n]), conf[n - 1])
                       ELSE conf[n - 1]]
<1>1. \E conf : conf = [n \in 0..Len(settings) |->
                       IF n = 0 THEN base
                       ELSE IF n \in chosen THEN Written(Writes(settings[n]), conf[n - 1])
                       ELSE conf[n - 1]]
  <2>1. PICK conf : Loop(settings, chosen, base, Len(settings), conf)
    BY LoopExists, Zenon
  <2> QED BY <2>1, Zenon DEF Loop, Step
<1>2. c = [n \in 0..Len(settings) |->
                       IF n = 0 THEN base
                       ELSE IF n \in chosen THEN Written(Writes(settings[n]), c[n - 1])
                       ELSE c[n - 1]]
  BY <1>1, Zenon
<1>3. Loop(settings, chosen, base, Len(settings), c)
  <2> HIDE DEF c
  <2> QED BY <1>2, Zenon DEF Loop, Step
<1>4. ApplyThose(settings, chosen, base) = c[Len(settings)]
  BY Zenon DEF ApplyThose
<1> HIDE DEF c
<1> QED BY <1>3, <1>4, Zenon

\* The settings among the first n that are applied and write f.
Writers(settings, chosen, f, n) ==
    {i \in 1..n : i \in chosen /\ f \in DOMAIN Writes(settings[i])}

\* f has what the last of them wrote, or what it had.
LastOf(settings, base, f, W, value) ==
    /\ W = {} => value = base[f]
    /\ \A i \in W : (\A j \in W : j <= i) => value = Writes(settings[i])[f]

LEMMA LoopValues ==
    ASSUME NEW settings, NEW chosen, NEW base, NEW m \in Nat, NEW conf,
           Loop(settings, chosen, base, m, conf)
    PROVE  \A n \in 0..m :
              /\ DOMAIN conf[n] = DOMAIN base
              /\ \A f \in DOMAIN base :
                    LastOf(settings, base, f, Writers(settings, chosen, f, n), conf[n][f])
<1> DEFINE P(n) == /\ DOMAIN conf[n] = DOMAIN base
                   /\ \A f \in DOMAIN base :
                        LastOf(settings, base, f, Writers(settings, chosen, f, n), conf[n][f])
           S == {n \in 0..m : P(n)}
<1>1. \A n \in 0..m : conf[n] = Step(settings, chosen, base, conf, n)
  BY DEF Loop
<1>2. 0 \in S
  <2>1. conf[0] = base
    BY <1>1 DEF Step
  <2>2. \A f : Writers(settings, chosen, f, 0) = {}
    BY DEF Writers
  <2>3. P(0)
    BY <2>1, <2>2, Zenon DEF LastOf
  <2> HIDE DEF P
  <2> QED BY <2>3
<1>3. ASSUME NEW n \in 0..m, n < m, n \in S PROVE n + 1 \in S
  <2>1. P(n) /\ n + 1 \in 0..m /\ n + 1 # 0 /\ (n + 1) - 1 = n
    <3> HIDE DEF P
    <3> QED BY <1>3
  <2>2. CASE n + 1 \notin chosen
    <3>1. conf[n + 1] = conf[n]
      BY <1>1, <2>1, <2>2 DEF Step
    <3>2. ASSUME NEW f
          PROVE  Writers(settings, chosen, f, n + 1) = Writers(settings, chosen, f, n)
      BY <2>1, <2>2 DEF Writers
    <3>3. P(n + 1)
      BY <2>1, <3>1, <3>2, Zenon
    <3> HIDE DEF P
    <3> QED BY <2>1, <3>3
  <2>3. CASE n + 1 \in chosen
    <3> DEFINE w == Writes(settings[n + 1])
    <3>1. conf[n + 1] = Written(w, conf[n])
      BY <1>1, <2>1, <2>3 DEF Step
    <3> HIDE DEF w
    <3>2. /\ DOMAIN conf[n + 1] = DOMAIN base
          /\ \A f \in DOMAIN base :
                conf[n + 1][f] = IF f \in DOMAIN w THEN w[f] ELSE conf[n][f]
      BY <2>1, <3>1, Zenon DEF Written
    <3>3. ASSUME NEW f \in DOMAIN base
          PROVE  LastOf(settings, base, f, Writers(settings, chosen, f, n + 1), conf[n + 1][f])
      <4>1. CASE f \notin DOMAIN w
        <5>1. Writers(settings, chosen, f, n + 1) = Writers(settings, chosen, f, n)
          BY <2>1, <4>1 DEF Writers, w
        <5>2. conf[n + 1][f] = conf[n][f]
          BY <3>2, <4>1, Zenon
        <5> QED BY <2>1, <5>1, <5>2, Zenon
      <4>2. CASE f \in DOMAIN w
        <5> DEFINE W == Writers(settings, chosen, f, n + 1)
        <5>1. n + 1 \in W
          BY <2>1, <2>3, <4>2 DEF Writers, w
        <5>2. \A i \in W : (\A j \in W : j <= i) => i = n + 1
          BY <5>1 DEF Writers
        <5>3. conf[n + 1][f] = w[f]
          BY <3>2, <4>2, Zenon
        <5> HIDE DEF W
        <5>4. LastOf(settings, base, f, W, conf[n + 1][f])
          BY <5>1, <5>2, <5>3, Zenon DEF LastOf, w
        <5> QED BY <5>4 DEF W
      <4> QED BY <4>1, <4>2
    <3>4. P(n + 1)
      BY <3>2, <3>3, Zenon
    <3> HIDE DEF P
    <3> QED BY <2>1, <3>4
  <2> QED BY <2>2, <2>3
<1> HIDE DEF P
<1>4. 0..m \subseteq S
  <2> HIDE DEF S
  <2> QED BY <1>2, <1>3, UpTo
<1>5. \A n \in 0..m : P(n)
  BY <1>4
<1> QED BY <1>5, Zenon DEF P

\* a is what the settings at chosen make of base.
ValuesOf(settings, chosen, base, a) ==
    /\ DOMAIN a = DOMAIN base
    /\ \A f \in DOMAIN base :
          LastOf(settings, base, f, Writers(settings, chosen, f, Len(settings)), a[f])

LEMMA ApplyValues ==
    ASSUME NEW settings, Len(settings) \in Nat, NEW chosen, NEW base
    PROVE  ValuesOf(settings, chosen, base, ApplyThose(settings, chosen, base))
<1>1. PICK conf : /\ Loop(settings, chosen, base, Len(settings), conf)
                  /\ ApplyThose(settings, chosen, base) = conf[Len(settings)]
  BY ApplyIsLoop, Zenon
<1>2. PICK m \in Nat : m = Len(settings)
  OBVIOUS
<1>3. m \in 0..m
  BY <1>2
<1>4. Loop(settings, chosen, base, m, conf)
  BY <1>1, <1>2
<1>5. ValuesOf(settings, chosen, base, conf[m])
  <2>1. /\ DOMAIN conf[m] = DOMAIN base
        /\ \A f \in DOMAIN base :
              LastOf(settings, base, f, Writers(settings, chosen, f, m), conf[m][f])
    BY <1>3, <1>4, LoopValues, Zenon
  <2> QED BY <1>2, <2>1, Zenon DEF ValuesOf
<1> QED BY <1>1, <1>2, <1>5

\* A nonempty set of positions has a last one, and Max is it.
LEMMA LastPosition ==
    ASSUME NEW n \in Nat, NEW W, W \subseteq 1..n, W # {}
    PROVE  Max(W) \in W /\ \A j \in W : j <= Max(W)
<1> DEFINE Free == {k \in 0..n : \A j \in W : j <= n - k} \* nothing above n - k
<1>1. \E top \in W : \A j \in W : j <= top
  <2>1. SUFFICES ASSUME \A top \in W : \E j \in W : ~ (j <= top) PROVE FALSE
    OBVIOUS
  <2>2. 0 \in Free
    OBVIOUS
  <2>3. ASSUME NEW k \in 0..n, k < n, k \in Free PROVE k + 1 \in Free
    <3>1. n - k \notin W
      BY <2>1, <2>3
    <3> QED BY <2>3, <3>1
  <2>4. 0..n \subseteq Free
    <3> HIDE DEF Free
    <3> QED BY <2>2, <2>3, UpTo
  <2>5. n \in Free
    <3>1. n \in 0..n
      OBVIOUS
    <3> HIDE DEF Free
    <3> QED BY <2>4, <3>1
  <2>6. \A j \in W : j <= n - n
    BY <2>5
  <2>7. PICK j \in W : j \in 1..n
    OBVIOUS
  <2>8. j <= n - n /\ j >= 1
    BY <2>6, <2>7
  <2> QED BY <2>8
<1>2. \E top \in W : \A j \in W : top >= j
  BY <1>1
<1> QED BY <1>2 DEF Max

\* The value the last writer leaves.
Latest(settings, base, f, W, value) ==
    value = IF W = {} THEN base[f] ELSE Writes(settings[Max(W)])[f]

LEMMA LastWins ==
    ASSUME NEW settings, Len(settings) \in Nat, NEW chosen, NEW base, NEW a,
           ValuesOf(settings, chosen, base, a), NEW f \in DOMAIN base
    PROVE  Latest(settings, base, f, Writers(settings, chosen, f, Len(settings)), a[f])
<1> DEFINE W == Writers(settings, chosen, f, Len(settings))
<1>1. LastOf(settings, base, f, W, a[f])
  BY Zenon DEF ValuesOf
<1>2. ASSUME W # {} PROVE Max(W) \in W /\ \A j \in W : j <= Max(W)
  <2>1. W \subseteq 1..Len(settings)
    BY DEF Writers
  <2> QED BY <1>2, <2>1, LastPosition
<1> HIDE DEF W
<1>3. Latest(settings, base, f, W, a[f])
  BY <1>1, <1>2, Zenon DEF LastOf, Latest
<1> QED BY <1>3 DEF W

-----------------------------------------------------------------------------
(* The merged settings *)

LEMMA MergedIsLayered ==
    ASSUME cli.format \in Seq(SettingsGiven), FileLayer.format \in Seq(SettingsGiven),
           NEW f \in DOMAIN Default
    PROVE  Merged(FileLayer)[f] = Layered(f)
<1> DEFINE keys == FileLayer.format
           Of(when) == {i \in DOMAIN keys : ConfigPhase(keys[i]) = when}
           a == ApplyThose(keys, Of("Baseline"), Default)
           b == ApplyThose(keys, Of("Specific"), a)
           c == ApplyThose(cli.format, DOMAIN cli.format, b)
           A == Writers(keys, Of("Baseline"), f, Len(keys))
           B == Writers(keys, Of("Specific"), f, Len(keys))
           C == Writers(cli.format, DOMAIN cli.format, f, Len(cli.format))
           all == {i \in 1..Len(keys) : f \in DOMAIN Writes(keys[i])}
<1>1. Merged(FileLayer) = c
  BY Zenon DEF Merged, ApplyCli, ApplyConfig
<1>2. Len(keys) \in Nat /\ DOMAIN keys = 1..Len(keys)
      /\ Len(cli.format) \in Nat /\ DOMAIN cli.format = 1..Len(cli.format)
  OBVIOUS
<1>3. ValuesOf(keys, Of("Baseline"), Default, a)
  BY <1>2, ApplyValues, Zenon
<1>4. ValuesOf(keys, Of("Specific"), a, b)
  BY <1>2, ApplyValues, Zenon
<1>5. ValuesOf(cli.format, DOMAIN cli.format, b, c)
  BY <1>2, ApplyValues, Zenon
<1>6. C = {i \in 1..Len(cli.format) : f \in DOMAIN Writes(cli.format[i])}
  BY <1>2 DEF Writers
<1>7. B = {i \in all : ConfigPhase(keys[i]) = "Specific"}
  BY <1>2 DEF Writers
<1>8. B = {} => A = all
  BY <1>2, <1>7 DEF Writers, ConfigPhase
<1> HIDE DEF a, b, c, A, B, C, all, Of
<1>9. f \in DOMAIN a /\ f \in DOMAIN b
  BY <1>3, <1>4, Zenon DEF ValuesOf
<1>10. Latest(keys, Default, f, A, a[f])
  BY <1>2, <1>3, LastWins, Zenon DEF A
<1>11. Latest(keys, a, f, B, b[f])
  BY <1>2, <1>4, <1>9, LastWins, Zenon DEF B
<1>12. Latest(cli.format, b, f, C, c[f])
  BY <1>2, <1>5, <1>9, LastWins, Zenon DEF C
<1>13. Layered(f) = IF C # {} THEN Writes(cli.format[Max(C)])[f]
                    ELSE IF B # {} THEN Writes(keys[Max(B)])[f]
                    ELSE IF all # {} THEN Writes(keys[Max(all)])[f] ELSE Default[f]
  BY <1>6, <1>7 DEF Layered, all
<1> QED BY <1>1, <1>8, <1>10, <1>11, <1>12, <1>13, Zenon DEF Latest

LEMMA SwitchesOfDefault ==
    /\ "rewrap" \in DOMAIN Default /\ ~Default["rewrap"]
    /\ "mode" \in DOMAIN Default /\ Default["mode"] = "Full"
<1>1. /\ "rewrap" \in DOMAIN DefaultSwitches /\ DefaultSwitches["rewrap"] = FALSE
      /\ "mode" \in DOMAIN DefaultSwitches /\ DefaultSwitches["mode"] = "Full"
  BY DEF DefaultSwitches
<1> QED BY <1>1, Zenon DEF Default

\* What the command line alone cannot have, it cannot have with a file.
LEMMA RefusedAnyway ==
    ASSUME cli.format \in Seq(SettingsGiven), file.format \in Seq(SettingsGiven),
           ~Valid(ApplyCli(Default))
    PROVE  ~Valid(Merged(file))
<1> DEFINE Of(when) == {i \in DOMAIN file.format : ConfigPhase(file.format[i]) = when}
           a == ApplyThose(file.format, Of("Baseline"), Default)
           b == ApplyThose(file.format, Of("Specific"), a)
           c == ApplyThose(cli.format, DOMAIN cli.format, b)
           d == ApplyThose(cli.format, DOMAIN cli.format, Default)
           C(f) == Writers(cli.format, DOMAIN cli.format, f, Len(cli.format))
<1>1. Merged(file) = c /\ ApplyCli(Default) = d
  BY Zenon DEF Merged, ApplyCli, ApplyConfig
<1>2. Len(file.format) \in Nat /\ Len(cli.format) \in Nat
  OBVIOUS
<1>3. /\ ValuesOf(file.format, Of("Baseline"), Default, a)
      /\ ValuesOf(file.format, Of("Specific"), a, b)
      /\ ValuesOf(cli.format, DOMAIN cli.format, b, c)
      /\ ValuesOf(cli.format, DOMAIN cli.format, Default, d)
  BY <1>2, ApplyValues, Zenon
<1> HIDE DEF a, b, c, d, Of, C
<1>4. DOMAIN b = DOMAIN Default
  BY <1>3, Zenon DEF ValuesOf
<1>5. ASSUME NEW f \in DOMAIN Default PROVE d[f] = Default[f] \/ d[f] = c[f]
  <2>1. Latest(cli.format, Default, f, C(f), d[f])
    BY <1>2, <1>3, LastWins, Zenon DEF C
  <2>2. Latest(cli.format, b, f, C(f), c[f])
    BY <1>2, <1>3, <1>4, LastWins, Zenon DEF C
  <2> QED BY <2>1, <2>2, Zenon DEF Latest
<1>6. d["rewrap"] /\ ~Wraps(d["mode"])
  BY <1>1, Zenon DEF Valid
<1>7. Wraps("Full")
  BY DEF Wraps
<1>8. c["rewrap"] /\ ~Wraps(c["mode"])
  BY <1>5, <1>6, <1>7, SwitchesOfDefault, Zenon
<1> QED BY <1>1, <1>8, Zenon DEF Valid

LayersInv ==
    /\ "format" \in DOMAIN cli /\ cli.format \in Seq(SettingsGiven)
    /\ "format" \in DOMAIN file /\ file.format \in Seq(SettingsGiven)
SettingsInv ==
    /\ LayersInv
    /\ phase \in {"run", "refused"} => invocation.format = Merged(FileLayer)
    /\ phase = "refused early" => ~Valid(ApplyCli(Default))

LEMMA FileLayerType == LayersInv => FileLayer.format \in Seq(SettingsGiven)
<1>1. NoLayer.format = <<>> /\ <<>> \in Seq(SettingsGiven)
  BY DEF NoLayer
<1> QED BY <1>1, Zenon DEF FileLayer, LayersInv

LEMMA InitSettings == SetInit => SettingsInv
<1> SUFFICES ASSUME SetInit PROVE SettingsInv
  OBVIOUS
<1>1. /\ "format" \in DOMAIN NoLayer /\ NoLayer.format \in Seq(SettingsGiven)
  BY DEF NoLayer
<1> QED BY <1>1, Zenon DEF SetInit, SettingsInv, LayersInv

\* One setting more.
LEMMA Appended ==
    ASSUME NEW layer, "format" \in DOMAIN layer, layer.format \in Seq(SettingsGiven),
           NEW s \in SettingsGiven, NEW new,
           new = [layer EXCEPT !.format = Append(@, s)]
    PROVE  "format" \in DOMAIN new /\ new.format \in Seq(SettingsGiven)
<1>1. DOMAIN new = DOMAIN layer /\ new.format = Append(layer.format, s)
  OBVIOUS
<1>2. Append(layer.format, s) \in Seq(SettingsGiven)
  OBVIOUS
<1> QED BY <1>1, <1>2

LEMMA WidenedKeeps ==
    ASSUME NEW layer, "format" \in DOMAIN layer, NEW name, NEW new \in Widened(layer, name)
    PROVE  "format" \in DOMAIN new /\ new.format = layer.format
BY DEF Widened

LEMMA NextSettings == SettingsInv /\ [SetNext]_setVars => SettingsInv'
<1> SUFFICES ASSUME SettingsInv, [SetNext]_setVars PROVE SettingsInv'
  OBVIOUS
<1>1. CASE Write
  <2>1. phase = "writing" /\ phase' = "writing"
    BY <1>1 DEF Write
  <2>2. LayersInv'
    <3>1. LayersInv
      BY DEF SettingsInv
    <3>2. CASE GiveCli
      BY <3>1, <3>2, Appended, Zenon DEF GiveCli, LayersInv
    <3>3. CASE GiveKey
      BY <3>1, <3>3, Appended, Zenon DEF GiveKey, LayersInv
    <3>4. CASE GiveOther
      <4>1. CASE cli' \in Widened(cli, "cli") /\ UNCHANGED file
        <5>1. "format" \in DOMAIN cli' /\ cli'.format = cli.format
          BY <3>1, <4>1, WidenedKeeps DEF LayersInv
        <5> QED BY <3>1, <4>1, <5>1, Zenon DEF LayersInv
      <4>2. CASE file' \in Widened(file, "file") /\ UNCHANGED cli
        <5>1. "format" \in DOMAIN file' /\ file'.format = file.format
          BY <3>1, <4>2, WidenedKeeps DEF LayersInv
        <5> QED BY <3>1, <4>2, <5>1, Zenon DEF LayersInv
      <4> QED BY <3>4, <4>1, <4>2 DEF GiveOther
    <3> QED BY <1>1, <3>2, <3>3, <3>4 DEF Write
  <2> QED BY <2>1, <2>2 DEF SettingsInv
<1>2. CASE RefuseEarly
  <2>1. /\ UNCHANGED <<cli, file>> /\ phase' = "refused early" /\ ~Valid(ApplyCli(Default))
    BY <1>2 DEF RefuseEarly
  <2>2. LayersInv' /\ (~Valid(ApplyCli(Default)))'
    BY <2>1 DEF SettingsInv, LayersInv, ApplyCli
  <2> QED BY <2>1, <2>2 DEF SettingsInv
<1>3. CASE Locate
  <2>1. /\ UNCHANGED <<cli, file>> /\ phase' = "located"
    BY <1>3 DEF Locate
  <2>2. LayersInv'
    BY <2>1 DEF SettingsInv, LayersInv
  <2> QED BY <2>1, <2>2 DEF SettingsInv
<1>4. CASE Merge
  <2>1. /\ UNCHANGED <<cli, file, found>> /\ phase' \in {"run", "refused"}
        /\ invocation'.format = Merged(FileLayer)
    BY <1>4 DEF Merge
  <2>2. LayersInv'
    BY <2>1 DEF SettingsInv, LayersInv
  <2>3. Merged(FileLayer)' = Merged(FileLayer)
    BY <2>1 DEF Merged, ApplyCli, ApplyConfig, FileLayer
  <2> QED BY <2>1, <2>2, <2>3 DEF SettingsInv
<1>5. CASE UNCHANGED setVars
  <2>1. UNCHANGED <<cli, file, found, phase, invocation>>
    BY <1>5 DEF setVars
  <2>2. Merged(FileLayer)' = Merged(FileLayer) /\ Valid(ApplyCli(Default))' = Valid(ApplyCli(Default))
    BY <2>1 DEF Merged, ApplyCli, ApplyConfig, FileLayer
  <2> QED BY <2>1, <2>2 DEF SettingsInv, LayersInv
<1> QED BY <1>1, <1>2, <1>3, <1>4, <1>5 DEF SetNext

\* Each field of a run's settings has the value of the last specific setting of
\* the highest layer that speaks of it, however many were given, and a command
\* line refused before the file is read would be refused with any file
\* (apply_cli, apply_config, parse).
THEOREM SettingsCorrect == SetSpec => []SettingsAreRight
<1>1. SettingsInv => SettingsAreRight
  <2> SUFFICES ASSUME SettingsInv PROVE SettingsAreRight
    OBVIOUS
  <2>1. cli.format \in Seq(SettingsGiven) /\ file.format \in Seq(SettingsGiven)
        /\ FileLayer.format \in Seq(SettingsGiven)
    BY FileLayerType, Zenon DEF SettingsInv, LayersInv
  <2>2. SettingsAreLayered
    BY <2>1, MergedIsLayered, Zenon DEF SettingsInv, SettingsAreLayered
  <2>3. EarlyRefusalIsRight
    BY <2>1, RefusedAnyway, Zenon DEF SettingsInv, EarlyRefusalIsRight
  <2> QED BY <2>2, <2>3 DEF SettingsAreRight
<1> QED BY <1>1, InitSettings, NextSettings, PTL DEF SetSpec

-----------------------------------------------------------------------------
(* Exclusion patterns *)

\* The tokens of a glob.

LEMMA NextTokenType ==
    ASSUME NEW glob, Len(glob) \in Nat, NEW g \in 1..Len(glob)
    PROVE  NextToken(glob, g) \in 1..Len(glob) + 1 /\ NextToken(glob, g) > g
BY DEF NextToken, DoubleStar, AfterDoubleStar

ClosedUnder(glob, S) ==
    /\ S \subseteq 1..Len(glob) + 1
    /\ \A j \in S : j <= Len(glob) => NextToken(glob, j) \in S

LEMMA TokensLeast ==
    ASSUME NEW glob, NEW g, NEW S, ClosedUnder(glob, S), g \in S
    PROVE  TokensFrom(glob, g) \subseteq S
BY DEF TokensFrom, ClosedUnder

LEMMA TokensClosed ==
    ASSUME NEW glob, Len(glob) \in Nat, NEW g \in 1..Len(glob) + 1
    PROVE  ClosedUnder(glob, TokensFrom(glob, g)) /\ g \in TokensFrom(glob, g)
<1>1. g \in TokensFrom(glob, g)
  BY Zenon DEF TokensFrom
<1>2. ASSUME NEW j \in TokensFrom(glob, g), j <= Len(glob)
      PROVE  NextToken(glob, j) \in TokensFrom(glob, g)
  <2>1. j \in 1..Len(glob)
    BY <1>2 DEF TokensFrom
  <2>2. NextToken(glob, j) \in 1..Len(glob) + 1
    BY <2>1, NextTokenType
  <2> QED BY <1>2, <2>2, Zenon DEF TokensFrom
<1> QED BY <1>1, <1>2, Zenon DEF ClosedUnder, TokensFrom

\* The tokens from g on are the one at g and those behind it.
LEMMA TokensUnfold ==
    ASSUME NEW glob, Len(glob) \in Nat, NEW g \in 1..Len(glob)
    PROVE  /\ TokensFrom(glob, g) = {g} \cup TokensFrom(glob, NextToken(glob, g))
           /\ g \notin TokensFrom(glob, NextToken(glob, g))
<1> DEFINE next == NextToken(glob, g)
           T == TokensFrom(glob, g)
           U == TokensFrom(glob, next)
<1>1. next \in 1..Len(glob) + 1 /\ next > g
  BY NextTokenType
<1>2. g \in 1..Len(glob) + 1 /\ g <= Len(glob)
  OBVIOUS
<1>3. /\ ClosedUnder(glob, T) /\ g \in T
      /\ ClosedUnder(glob, U) /\ next \in U
  <2> HIDE DEF next
  <2> QED BY <1>1, <1>2, TokensClosed
<1>4. ClosedUnder(glob, {g} \cup U)
  <2> HIDE DEF U
  <2> QED BY <1>2, <1>3 DEF ClosedUnder
<1>5. T \subseteq {g} \cup U
  <2> HIDE DEF U
  <2> QED BY <1>4, TokensLeast
<1>6. next \in T
  <2> HIDE DEF T
  <2> QED BY <1>2, <1>3 DEF ClosedUnder
<1>7. U \subseteq T
  <2> HIDE DEF T, next
  <2> QED BY <1>3, <1>6, TokensLeast
<1>8. g \notin U
  <2> DEFINE V == {k \in 1..Len(glob) + 1 : k > g}
  <2>1. ClosedUnder(glob, V)
    <3>1. ASSUME NEW j \in V, j <= Len(glob) PROVE NextToken(glob, j) \in V
      <4>1. j \in 1..Len(glob)
        BY <3>1
      <4>2. NextToken(glob, j) \in 1..Len(glob) + 1 /\ NextToken(glob, j) > j
        BY <4>1, NextTokenType
      <4> QED BY <3>1, <4>2
    <3> HIDE DEF V
    <3>2. V \subseteq 1..Len(glob) + 1
      BY DEF V
    <3> QED BY <3>1, <3>2 DEF ClosedUnder
  <2>2. next \in V
    BY <1>1
  <2>3. U \subseteq V
    <3> HIDE DEF V, next
    <3> QED BY <2>1, <2>2, TokensLeast
  <2> QED BY <2>3
<1> QED BY <1>3, <1>5, <1>7, <1>8

LEMMA TokensEnd ==
    ASSUME NEW glob, Len(glob) \in Nat
    PROVE  TokensFrom(glob, Len(glob) + 1) = {Len(glob) + 1}
<1>1. ClosedUnder(glob, {Len(glob) + 1}) /\ Len(glob) + 1 \in 1..Len(glob) + 1
  BY DEF ClosedUnder
<1>2. TokensFrom(glob, Len(glob) + 1) \subseteq {Len(glob) + 1}
  BY <1>1, TokensLeast
<1>3. Len(glob) + 1 \in TokensFrom(glob, Len(glob) + 1)
  BY <1>1, TokensClosed
<1> QED BY <1>2, <1>3

\* The tokens run up to the end of the glob.
LEMMA TokensReachEnd ==
    ASSUME NEW glob, Len(glob) \in Nat, NEW g \in 1..Len(glob) + 1
    PROVE  Len(glob) + 1 \in TokensFrom(glob, g)
<1> DEFINE T == TokensFrom(glob, g)
<1>1. ClosedUnder(glob, T) /\ g \in T
  BY TokensClosed
<1> HIDE DEF T
<1>2. PICK n \in Nat : n = Len(glob) + 1
  OBVIOUS
<1>3. T \subseteq 1..n /\ T # {}
  BY <1>1, <1>2 DEF ClosedUnder
<1>4. Max(T) \in T /\ \A j \in T : j <= Max(T)
  BY <1>3, LastPosition
<1>5. PICK top \in T : \A j \in T : j <= top
  BY <1>4, Zenon
<1>6. top \in 1..Len(glob) + 1
  BY <1>2, <1>3
<1>7. ASSUME top <= Len(glob) PROVE FALSE
  <2>1. top \in 1..Len(glob)
    BY <1>6, <1>7
  <2>2. NextToken(glob, top) \in T
    BY <1>1, <1>7, Zenon DEF ClosedUnder
  <2>3. NextToken(glob, top) > top /\ NextToken(glob, top) \in 1..Len(glob) + 1
    BY <2>1, NextTokenType
  <2>4. NextToken(glob, top) <= top
    BY <1>5, <2>2, Zenon
  <2> QED BY <2>1, <2>3, <2>4
<1>8. top = Len(glob) + 1
  BY <1>6, <1>7
<1> QED BY <1>5, <1>8 DEF T

-----------------------------------------------------------------------------
(* What a glob denotes, token by token *)

\* Behind the last token nothing is left to stand for.
LEMMA DenotesAtEnd ==
    ASSUME NEW glob, Len(glob) \in Nat, NEW text, NEW to \in Nat, NEW t \in 1..to
    PROVE  DenotesFrom(glob, Len(glob) + 1, text, t, to) <=> t = to
<1> DEFINE e == Len(glob) + 1
<1>1. TokensFrom(glob, e) = {e}
  BY TokensEnd
<1> HIDE DEF e
<1>2. ASSUME t = to PROVE DenotesFrom(glob, e, text, t, to)
  <2> DEFINE cut == [k \in {e} |-> t]
  <2>1. cut \in [{e} -> 1..to] /\ cut[e] = t
    OBVIOUS
  <2> HIDE DEF cut
  <2> QED BY <1>1, <1>2, <2>1, Zenon DEF DenotesFrom, e
<1>3. ASSUME DenotesFrom(glob, e, text, t, to) PROVE t = to
  BY <1>3, Zenon DEF DenotesFrom, e
<1> QED BY <1>2, <1>3 DEF e

\* The token at g stands for what is in front of some u, the others for the rest.
LEMMA DenotesUnfold ==
    ASSUME NEW glob, Len(glob) \in Nat, NEW g \in 1..Len(glob), NEW text,
           NEW to \in Nat, NEW t \in 1..to
    PROVE  DenotesFrom(glob, g, text, t, to) <=>
              \E u \in t..to : /\ Stands(glob, g, text, t, u)
                              /\ DenotesFrom(glob, NextToken(glob, g), text, u, to)
<1> DEFINE e == Len(glob) + 1
           next == NextToken(glob, g)
           T == TokensFrom(glob, g)
           U == TokensFrom(glob, next)
           Cuts(k, cut) == /\ cut[k] <= cut[NextToken(glob, k)]
                           /\ Stands(glob, k, text, cut[k], cut[NextToken(glob, k)])
<1>1. /\ T = {g} \cup U /\ g \notin U
  BY TokensUnfold
<1>2. next \in 1..Len(glob) + 1 /\ g # e
  BY NextTokenType
<1>3. ClosedUnder(glob, U) /\ next \in U /\ e \in U
  <2> HIDE DEF next
  <2> QED BY <1>2, TokensClosed, TokensReachEnd
<1>4. \A k \in U \ {e} : NextToken(glob, k) \in U
  <2>1. \A k \in U : k \in 1..e
    BY <1>3 DEF ClosedUnder
  <2>2. \A k \in U \ {e} : k <= Len(glob)
    BY <2>1
  <2> HIDE DEF U, e
  <2> QED BY <1>3, <2>2, Zenon DEF ClosedUnder
<1>5. DenotesFrom(glob, g, text, t, to) <=>
         \E cut \in [T -> 1..to] : cut[g] = t /\ cut[e] = to /\ \A k \in T \ {e} : Cuts(k, cut)
  BY Zenon DEF DenotesFrom
<1>6. \A u : DenotesFrom(glob, next, text, u, to) <=>
         \E cut \in [U -> 1..to] : cut[next] = u /\ cut[e] = to /\ \A k \in U \ {e} : Cuts(k, cut)
  BY Zenon DEF DenotesFrom
<1> HIDE DEF e, T, U, next
<1>7. ASSUME NEW cut \in [T -> 1..to], cut[g] = t, cut[e] = to, \A k \in T \ {e} : Cuts(k, cut)
      PROVE  \E u \in t..to : /\ Stands(glob, g, text, t, u)
                             /\ DenotesFrom(glob, next, text, u, to)
  <2> DEFINE rest == [k \in U |-> cut[k]]
             u == cut[next]
  <2>1. rest \in [U -> 1..to] /\ \A k \in U : rest[k] = cut[k]
    BY <1>1, <1>7
  <2>2. \A k \in U \ {e} : Cuts(k, rest)
    <3> HIDE DEF rest
    <3> QED BY <1>1, <1>4, <1>7, <2>1, Zenon
  <2>3. rest[next] = u /\ rest[e] = to
    <3> HIDE DEF rest
    <3> QED BY <1>3, <1>7, <2>1
  <2>4. DenotesFrom(glob, next, text, u, to)
    <3> HIDE DEF rest, u, Cuts
    <3> QED BY <1>6, <2>1, <2>2, <2>3, Zenon
  <2>5. t <= u /\ Stands(glob, g, text, t, u)
    <3>1. Cuts(g, cut)
      <4> HIDE DEF Cuts
      <4> QED BY <1>1, <1>2, <1>7, Zenon
    <3> QED BY <1>7, <3>1 DEF next
  <2>6. u \in 1..to
    <3>1. next \in T
      BY <1>1, <1>3, Zenon
    <3> QED BY <1>7, <3>1
  <2>7. u \in t..to
    <3> HIDE DEF u
    <3> QED BY <2>5, <2>6
  <2> QED BY <2>4, <2>5, <2>7, Zenon
<1>8. ASSUME NEW u \in t..to, Stands(glob, g, text, t, u), NEW rest \in [U -> 1..to],
             rest[next] = u, rest[e] = to, \A k \in U \ {e} : Cuts(k, rest)
      PROVE  DenotesFrom(glob, g, text, t, to)
  <2> DEFINE cut == [k \in T |-> IF k = g THEN t ELSE rest[k]]
  <2>1. /\ cut \in [T -> 1..to] /\ cut[g] = t
        /\ \A k \in U : cut[k] = rest[k]
    BY <1>1, <1>8
  <2> HIDE DEF cut
  <2>2. cut[e] = to /\ cut[next] = u
    BY <1>3, <1>8, <2>1, Zenon
  <2>3. Cuts(g, cut)
    BY <1>8, <2>1, <2>2 DEF next
  <2>4. \A k \in U \ {e} : Cuts(k, cut)
    BY <1>4, <1>8, <2>1, Zenon
  <2> HIDE DEF Cuts
  <2>5. \A k \in T \ {e} : Cuts(k, cut)
    BY <1>1, <2>3, <2>4, Zenon
  <2> QED BY <1>5, <2>1, <2>2, <2>5, Zenon
<1> HIDE DEF Cuts
<1>9. ASSUME DenotesFrom(glob, g, text, t, to)
      PROVE  \E u \in t..to : /\ Stands(glob, g, text, t, u)
                             /\ DenotesFrom(glob, next, text, u, to)
  BY <1>5, <1>7, <1>9, Zenon
<1>10. ASSUME NEW u \in t..to, Stands(glob, g, text, t, u),
              DenotesFrom(glob, next, text, u, to)
       PROVE  DenotesFrom(glob, g, text, t, to)
  BY <1>6, <1>8, <1>10, Zenon
<1> QED BY <1>9, <1>10, Zenon DEF next

-----------------------------------------------------------------------------
(* The search decides it *)

Positions(glob, from, to) == (1..Len(glob) + 1) \X (from..to)

Visit(glob, text, to, v, g, t) ==
    IF g > Len(glob) THEN t = to
    ELSE IF DoubleStar(glob, g)
    THEN v[<<AfterDoubleStar(glob, g), t>>] \/ (t < to /\ v[<<g, t + 1>>])
    ELSE IF glob[g] = "*"
    THEN v[<<g + 1, t>>] \/ (t < to /\ text[t] # "/" /\ v[<<g, t + 1>>])
    ELSE /\ t < to
         /\ glob[g] = text[t] \/ (glob[g] = "?" /\ text[t] # "/")
         /\ v[<<g + 1, t + 1>>]

Search(glob, text, from, to, v) ==
    v = [at \in Positions(glob, from, to) |-> Visit(glob, text, to, v, at[1], at[2])]

\* The recursive search is a solution of its own equation, if there is one.
LEMMA GlobIsSearch ==
    ASSUME NEW glob, NEW text, NEW from, NEW to, \E v : Search(glob, text, from, to, v)
    PROVE  \E v : /\ Search(glob, text, from, to, v)
                  /\ GlobMatches(glob, text, from, to) = v[<<1, from>>]
<1> DEFINE c == CHOOSE v : v =
        [at \in (1..Len(glob) + 1) \X (from..to) |->
            IF at[1] > Len(glob) THEN at[2] = to
            ELSE IF DoubleStar(glob, at[1])
            THEN \/ v[<<AfterDoubleStar(glob, at[1]), at[2]>>]
                 \/ (at[2] < to /\ v[<<at[1], at[2] + 1>>])
            ELSE IF glob[at[1]] = "*"
            THEN \/ v[<<at[1] + 1, at[2]>>]
                 \/ (at[2] < to /\ text[at[2]] # "/" /\ v[<<at[1], at[2] + 1>>])
            ELSE /\ at[2] < to
                 /\ glob[at[1]] = text[at[2]] \/ (glob[at[1]] = "?" /\ text[at[2]] # "/")
                 /\ v[<<at[1] + 1, at[2] + 1>>]]
<1>1. Search(glob, text, from, to, c)
  <2>1. PICK v : Search(glob, text, from, to, v)
    OBVIOUS
  <2> QED BY <2>1, Zenon DEF Search, Visit, Positions
<1>2. GlobMatches(glob, text, from, to) = c[<<1, from>>]
  BY Zenon DEF GlobMatches
<1> HIDE DEF c
<1> QED BY <1>1, <1>2, Zenon

Denoted(glob, text, from, to) ==
    [at \in Positions(glob, from, to) |-> DenotesFrom(glob, at[1], text, at[2], to)]

\* What a "**" asks of the rest, one character of the text at a time.
LEMMA StarsUnfold ==
    ASSUME NEW glob, Len(glob) \in Nat, NEW g \in 1..Len(glob), NEW text,
           NEW to \in Nat, NEW t \in 1..to, DoubleStar(glob, g)
    PROVE  DenotesFrom(glob, g, text, t, to) <=>
              \/ DenotesFrom(glob, AfterDoubleStar(glob, g), text, t, to)
              \/ t < to /\ DenotesFrom(glob, g, text, t + 1, to)
<1> DEFINE D(u) == DenotesFrom(glob, AfterDoubleStar(glob, g), text, u, to)
           E(u) == DenotesFrom(glob, g, text, u, to)
<1>1. ASSUME NEW s \in 1..to PROVE E(s) <=> \E u \in s..to : D(u)
  <2>1. NextToken(glob, g) = AfterDoubleStar(glob, g)
    BY DEF NextToken
  <2>2. \A u : Stands(glob, g, text, s, u)
    BY Zenon DEF Stands
  <2>3. E(s) <=> \E u \in s..to : /\ Stands(glob, g, text, s, u)
                                  /\ DenotesFrom(glob, NextToken(glob, g), text, u, to)
    BY <1>1, DenotesUnfold, Zenon
  <2> QED BY <2>1, <2>2, <2>3, Zenon
<1> HIDE DEF D, E
<1>2. E(t) <=> \E u \in t..to : D(u)
  BY <1>1, Zenon
<1>3. ASSUME t < to PROVE E(t + 1) <=> \E u \in (t + 1)..to : D(u)
  <2>1. t + 1 \in 1..to
    BY <1>3
  <2> QED BY <1>1, <2>1, Zenon
<1>4. \A u : u \in t..to <=> u = t \/ (t < to /\ u \in (t + 1)..to)
  OBVIOUS
<1>5. E(t) <=> D(t) \/ (t < to /\ E(t + 1))
  BY <1>2, <1>3, <1>4, Zenon
<1> QED BY <1>5 DEF D, E

\* The same for a "*".
LEMMA StarUnfold ==
    ASSUME NEW glob, Len(glob) \in Nat, NEW g \in 1..Len(glob), NEW text,
           NEW to \in Nat, NEW t \in 1..to, ~DoubleStar(glob, g), glob[g] = "*"
    PROVE  DenotesFrom(glob, g, text, t, to) <=>
              \/ DenotesFrom(glob, g + 1, text, t, to)
              \/ t < to /\ text[t] # "/" /\ DenotesFrom(glob, g, text, t + 1, to)
<1> DEFINE D(u) == DenotesFrom(glob, g + 1, text, u, to)
           E(u) == DenotesFrom(glob, g, text, u, to)
           Clear(s, u) == \A i \in s..(u - 1) : text[i] # "/"
<1>1. ASSUME NEW s \in 1..to PROVE E(s) <=> \E u \in s..to : Clear(s, u) /\ D(u)
  <2>1. NextToken(glob, g) = g + 1
    BY DEF NextToken
  <2>2. \A u : Stands(glob, g, text, s, u) <=> Clear(s, u)
    BY Zenon DEF Stands
  <2>3. E(s) <=> \E u \in s..to : /\ Stands(glob, g, text, s, u)
                                  /\ DenotesFrom(glob, NextToken(glob, g), text, u, to)
    BY <1>1, DenotesUnfold, Zenon
  <2> HIDE DEF Clear
  <2> QED BY <2>1, <2>2, <2>3, Zenon
<1>2. ASSUME t < to PROVE E(t + 1) <=> \E u \in (t + 1)..to : Clear(t + 1, u) /\ D(u)
  <2>1. t + 1 \in 1..to
    BY <1>2
  <2> HIDE DEF Clear, D, E
  <2> QED BY <1>1, <2>1, Zenon
<1>3. E(t) <=> \E u \in t..to : Clear(t, u) /\ D(u)
  BY <1>1, Zenon
<1>4. Clear(t, t)
  OBVIOUS
<1>5. ASSUME t < to, NEW u \in (t + 1)..to
      PROVE  Clear(t, u) <=> text[t] # "/" /\ Clear(t + 1, u)
  <2>1. \A i : i \in t..(u - 1) <=> i = t \/ i \in (t + 1)..(u - 1)
    BY <1>5
  <2> QED BY <2>1, Zenon
<1>6. \A u : u \in t..to <=> u = t \/ (t < to /\ u \in (t + 1)..to)
  OBVIOUS
<1> HIDE DEF D, E, Clear
<1>7. E(t) <=> D(t) \/ (t < to /\ text[t] # "/" /\ E(t + 1))
  BY <1>2, <1>3, <1>4, <1>5, <1>6, Zenon
<1> QED BY <1>7 DEF D, E

CharFits(glob, g, text, t, to, rest) ==
    t < to /\ (glob[g] = text[t] \/ (glob[g] = "?" /\ text[t] # "/")) /\ rest

\* The same for a character or a "?".
LEMMA CharUnfold ==
    ASSUME NEW glob, Len(glob) \in Nat, NEW g \in 1..Len(glob), NEW text,
           NEW to \in Nat, NEW t \in 1..to, ~DoubleStar(glob, g), glob[g] # "*"
    PROVE  DenotesFrom(glob, g, text, t, to) <=>
              CharFits(glob, g, text, t, to, DenotesFrom(glob, g + 1, text, t + 1, to))
<1> DEFINE D(u) == DenotesFrom(glob, g + 1, text, u, to)
           fits == glob[g] = text[t] \/ (glob[g] = "?" /\ text[t] # "/")
<1>1. DenotesFrom(glob, g, text, t, to) <=>
         \E u \in t..to : /\ Stands(glob, g, text, t, u)
                         /\ DenotesFrom(glob, NextToken(glob, g), text, u, to)
  BY DenotesUnfold, Zenon
<1>2. NextToken(glob, g) = g + 1
  BY DEF NextToken
<1>3. \A u : Stands(glob, g, text, t, u) <=> (u = t + 1 /\ fits)
  BY Zenon DEF Stands
<1>4. t + 1 \in t..to <=> t < to
  OBVIOUS
<1> HIDE DEF fits
<1>5. DenotesFrom(glob, g, text, t, to) <=> t < to /\ fits /\ D(t + 1)
  BY <1>1, <1>2, <1>3, <1>4, Zenon
<1> QED BY <1>5, Zenon DEF fits, CharFits

LEMMA DenotedIsVisited ==
    ASSUME NEW glob, Len(glob) \in Nat, NEW text, NEW to \in Nat, NEW from \in 1..to,
           NEW g \in 1..Len(glob) + 1, NEW t \in from..to
    PROVE  DenotesFrom(glob, g, text, t, to) <=>
              Visit(glob, text, to, Denoted(glob, text, from, to), g, t)
<1> DEFINE v == Denoted(glob, text, from, to)
           D(k, u) == DenotesFrom(glob, k, text, u, to)
<1>0. t \in 1..to
  OBVIOUS
<1>1. ASSUME NEW k \in 1..Len(glob) + 1, NEW u \in from..to PROVE v[<<k, u>>] = D(k, u)
  <2>1. <<k, u>> \in Positions(glob, from, to) /\ <<k, u>>[1] = k /\ <<k, u>>[2] = u
    BY Zenon DEF Positions
  <2> QED BY <2>1, Zenon DEF Denoted
<1> HIDE DEF v
<1>2. CASE g > Len(glob)
  <2>1. g = Len(glob) + 1
    BY <1>2
  <2>2. D(Len(glob) + 1, t) <=> t = to
    BY <1>0, DenotesAtEnd, Zenon
  <2> QED BY <1>2, <2>1, <2>2, Zenon DEF Visit
<1>3. CASE ~ (g > Len(glob))
  <2>1. g \in 1..Len(glob) /\ g + 1 \in 1..Len(glob) + 1
    BY <1>3
  <2>2. t < to => t + 1 \in from..to
    OBVIOUS
  <2>3. CASE DoubleStar(glob, g)
    <3>1. AfterDoubleStar(glob, g) \in 1..Len(glob) + 1
      BY <2>1, <2>3 DEF DoubleStar, AfterDoubleStar
    <3>2. D(g, t) <=> D(AfterDoubleStar(glob, g), t) \/ (t < to /\ D(g, t + 1))
      BY <1>0, <2>1, <2>3, StarsUnfold, Zenon
    <3>3. v[<<AfterDoubleStar(glob, g), t>>] = D(AfterDoubleStar(glob, g), t)
      BY <1>1, <3>1, Zenon
    <3>4. t < to => v[<<g, t + 1>>] = D(g, t + 1)
      BY <1>1, <2>2, Zenon
    <3> HIDE DEF D
    <3>5. Visit(glob, text, to, v, g, t) <=>
             v[<<AfterDoubleStar(glob, g), t>>] \/ (t < to /\ v[<<g, t + 1>>])
      BY <1>3, <2>3, Zenon DEF Visit
    <3>6. D(g, t) <=> Visit(glob, text, to, v, g, t)
      BY <3>2, <3>3, <3>4, <3>5, Zenon
    <3> QED BY <3>6 DEF D, v
  <2>4. CASE ~DoubleStar(glob, g) /\ glob[g] = "*"
    <3>1. D(g, t) <=> D(g + 1, t) \/ (t < to /\ text[t] # "/" /\ D(g, t + 1))
      BY <1>0, <2>1, <2>4, StarUnfold, Zenon
    <3>2. v[<<g + 1, t>>] = D(g + 1, t)
      BY <1>1, <2>1, Zenon
    <3>3. t < to => v[<<g, t + 1>>] = D(g, t + 1)
      BY <1>1, <2>2, Zenon
    <3> HIDE DEF D
    <3>4. Visit(glob, text, to, v, g, t) <=>
             v[<<g + 1, t>>] \/ (t < to /\ text[t] # "/" /\ v[<<g, t + 1>>])
      BY <1>3, <2>4, Zenon DEF Visit
    <3>5. D(g, t) <=> Visit(glob, text, to, v, g, t)
      BY <3>1, <3>2, <3>3, <3>4, Zenon
    <3> QED BY <3>5 DEF D, v
  <2>5. CASE ~DoubleStar(glob, g) /\ glob[g] # "*"
    <3> DEFINE fits == glob[g] = text[t] \/ (glob[g] = "?" /\ text[t] # "/")
    <3>0. DenotesFrom(glob, g, text, t, to) <=>
              CharFits(glob, g, text, t, to, DenotesFrom(glob, g + 1, text, t + 1, to))
      BY <1>0, <2>1, <2>5, CharUnfold, Zenon
    <3>1. D(g, t) <=> t < to /\ fits /\ D(g + 1, t + 1)
      BY <3>0, Zenon DEF CharFits
    <3>2. t < to => v[<<g + 1, t + 1>>] = D(g + 1, t + 1)
      BY <1>1, <2>1, <2>2, Zenon
    <3>3. Visit(glob, text, to, v, g, t) <=> t < to /\ fits /\ v[<<g + 1, t + 1>>]
      BY <1>3, <2>5, Zenon DEF Visit
    <3> HIDE DEF D, fits
    <3>4. D(g, t) <=> Visit(glob, text, to, v, g, t)
      BY <3>1, <3>2, <3>3, Zenon
    <3> QED BY <3>4 DEF D, v
  <2> QED BY <2>3, <2>4, <2>5, Zenon
<1> QED BY <1>2, <1>3, Zenon

LEMMA Same ==
    ASSUME NEW a \in BOOLEAN, NEW b \in BOOLEAN, a <=> b
    PROVE  a = b
OBVIOUS

\* What the glob denotes is a solution.
LEMMA SearchExists ==
    ASSUME NEW glob, Len(glob) \in Nat, NEW text, NEW to \in Nat, NEW from \in 1..to
    PROVE  Search(glob, text, from, to, Denoted(glob, text, from, to))
<1> DEFINE v == Denoted(glob, text, from, to)
<1>1. ASSUME NEW at \in Positions(glob, from, to)
      PROVE  DenotesFrom(glob, at[1], text, at[2], to) =
                Visit(glob, text, to, v, at[1], at[2])
  <2>1. at[1] \in 1..Len(glob) + 1 /\ at[2] \in from..to
    BY Zenon DEF Positions
  <2>2. DenotesFrom(glob, at[1], text, at[2], to) <=> Visit(glob, text, to, v, at[1], at[2])
    BY <2>1, DenotedIsVisited, Zenon
  <2>3. DenotesFrom(glob, at[1], text, at[2], to) \in BOOLEAN
    BY Zenon DEF DenotesFrom
  <2>4. Visit(glob, text, to, v, at[1], at[2]) \in BOOLEAN
    BY Zenon DEF Visit
  <2> HIDE DEF v
  <2> QED BY <2>2, <2>3, <2>4, Same, Zenon
<1>2. v = [at \in Positions(glob, from, to) |-> DenotesFrom(glob, at[1], text, at[2], to)]
  BY Zenon DEF Denoted
<1> HIDE DEF v
<1>3. Search(glob, text, from, to, v)
  BY <1>1, <1>2, Zenon DEF Search
<1> QED BY <1>3 DEF v

\* The search is of what a glob denotes.
LEMMA SearchDecides ==
    ASSUME NEW glob, Len(glob) \in Nat, NEW text, NEW to \in Nat, NEW from \in 1..to
    PROVE  GlobMatches(glob, text, from, to) <=> DenotesFrom(glob, 1, text, from, to)
<1>1. PICK v : /\ Search(glob, text, from, to, v)
               /\ GlobMatches(glob, text, from, to) = v[<<1, from>>]
  BY SearchExists, GlobIsSearch, Zenon
<1> DEFINE w == Denoted(glob, text, from, to)
           G == 1..Len(glob) + 1
           P == from..to
           m == (Len(glob) + to) - from
           Rest(g, t) == (Len(glob) + 1 - g) + (to - t)
           S == {n \in 0..m : \A g \in G, t \in P :
                    Rest(g, t) = n => (v[<<g, t>>] <=> w[<<g, t>>])}
<1>2. Search(glob, text, from, to, w)
  BY SearchExists, Zenon
<1>3. ASSUME NEW u, Search(glob, text, from, to, u), NEW g \in G, NEW t \in P
      PROVE  u[<<g, t>>] = Visit(glob, text, to, u, g, t)
  <2>1. <<g, t>> \in Positions(glob, from, to) /\ <<g, t>>[1] = g /\ <<g, t>>[2] = t
    BY Zenon DEF Positions
  <2> QED BY <1>3, <2>1, Zenon DEF Search
<1> HIDE DEF w
<1>4. ASSUME NEW n \in 0..m, \A k \in 0..m : k < n => k \in S, NEW g \in G, NEW t \in P,
             Rest(g, t) = n
      PROVE  v[<<g, t>>] <=> w[<<g, t>>]
  <2>1. ASSUME NEW h \in G, NEW s \in P, Rest(h, s) < n PROVE v[<<h, s>>] <=> w[<<h, s>>]
    <3>1. Rest(h, s) \in 0..m
      OBVIOUS
    <3> HIDE DEF G, P, m, Rest
    <3> QED BY <1>4, <2>1, <3>1, Zenon
  <2>2. g <= Len(glob) => g + 1 \in G /\ Rest(g + 1, t) < n
    BY <1>4
  <2>3. t < to => t + 1 \in P /\ Rest(g, t + 1) < n
    BY <1>4
  <2>4. g <= Len(glob) /\ t < to => Rest(g + 1, t + 1) < n
    BY <1>4
  <2>5. DoubleStar(glob, g) => AfterDoubleStar(glob, g) \in G /\ Rest(AfterDoubleStar(glob, g), t) < n
    BY <1>4 DEF DoubleStar, AfterDoubleStar
  <2>6. ~ (g > Len(glob)) => g <= Len(glob)
    OBVIOUS
  <2>7. g > Len(glob) \/ t < to \/ ~ (t < to)
    OBVIOUS
  <2> HIDE DEF G, P, Rest
  <2>8. Visit(glob, text, to, v, g, t) <=> Visit(glob, text, to, w, g, t)
    <3>1. DoubleStar(glob, g) =>
             (v[<<AfterDoubleStar(glob, g), t>>] <=> w[<<AfterDoubleStar(glob, g), t>>])
      BY <2>1, <2>5, Zenon
    <3>2. t < to => (v[<<g, t + 1>>] <=> w[<<g, t + 1>>])
      BY <2>1, <2>3, Zenon
    <3>3. ~ (g > Len(glob)) => (v[<<g + 1, t>>] <=> w[<<g + 1, t>>])
      BY <2>1, <2>2, <2>6, Zenon
    <3>4. ~ (g > Len(glob)) /\ t < to => (v[<<g + 1, t + 1>>] <=> w[<<g + 1, t + 1>>])
      BY <2>1, <2>2, <2>3, <2>4, <2>6, Zenon
    <3> QED BY <3>1, <3>2, <3>3, <3>4, Zenon DEF Visit
  <2> QED BY <1>1, <1>2, <1>3, <2>8, Zenon
<1>5. m \in Nat /\ 1 \in G /\ from \in P /\ Rest(1, from) = m /\ m \in 0..m
  OBVIOUS
<1>6. \A n \in 0..m : (\A k \in 0..m : k < n => k \in S) => n \in S
  <2> HIDE DEF G, P, m, Rest
  <2> QED BY <1>4, Zenon
<1>7. m \in S
  <2>1. 0..m \subseteq S
    <3> HIDE DEF S, m
    <3> QED BY <1>5, <1>6, Below
  <2> HIDE DEF S, m
  <2> QED BY <1>5, <2>1
<1>8. v[<<1, from>>] <=> w[<<1, from>>]
  <2> HIDE DEF G, P, m, Rest
  <2> QED BY <1>5, <1>7, Zenon
<1>9. w[<<1, from>>] = DenotesFrom(glob, 1, text, from, to)
  <2>1. <<1, from>> \in Positions(glob, from, to) /\ <<1, from>>[1] = 1 /\ <<1, from>>[2] = from
    BY <1>5, Zenon DEF Positions
  <2> QED BY <2>1, Zenon DEF Denoted, w
<1> QED BY <1>1, <1>8, <1>9, Zenon

-----------------------------------------------------------------------------
(* The starts of a candidate *)

LEMMA FirstPosition ==
    ASSUME NEW m \in Nat, NEW W, W \subseteq 0..m, W # {}
    PROVE  \E i \in W : \A j \in W : ~ (j < i)
<1>1. SUFFICES ASSUME \A i \in W : \E j \in W : j < i PROVE FALSE
  BY Zenon
<1> DEFINE S == {n \in 0..m : n \notin W}
<1>2. \A n \in 0..m : (\A k \in 0..m : k < n => k \in S) => n \in S
  BY <1>1, Zenon
<1>3. 0..m \subseteq S
  <2> HIDE DEF S
  <2> QED BY <1>2, Below
<1> QED BY <1>3, Zenon

\* Some part of text from start on, behind a separator if not from start, is denoted.
Found(p, text, to, start) ==
    \E i \in start..to : /\ i = start \/ (~Anchored(p) /\ text[i - 1] = "/")
                        /\ DenotesFrom(Body(p), 1, text, i, to)

FoundBehind(p, text, to, start, v) ==
    \E i \in start..(to - 1) : /\ text[i] = "/" /\ \A j \in start..(i - 1) : text[j] # "/"
                              /\ v[i + 1]

TryAt(p, text, to, v, start) ==
    \/ GlobMatches(Body(p), text, start, to)
    \/ ~Anchored(p) /\ FoundBehind(p, text, to, start, v)

Tries(p, text, to, v) == v = [start \in 1..to |-> TryAt(p, text, to, v, start)]

\* The first separator splits the starts into this one and those behind it.
LEMMA FoundUnfold ==
    ASSUME NEW p, NEW text, NEW to \in Nat, NEW s \in 1..to,
           NEW v, \A i \in s..(to - 1) : v[i + 1] <=> Found(p, text, to, i + 1)
    PROVE  Found(p, text, to, s) <=>
              \/ DenotesFrom(Body(p), 1, text, s, to)
              \/ ~Anchored(p) /\ FoundBehind(p, text, to, s, v)
<1> DEFINE D(i) == DenotesFrom(Body(p), 1, text, i, to)
           A == Anchored(p)
<1>1. \A k : Found(p, text, to, k) <=> \E i \in k..to : (i = k \/ (~A /\ text[i - 1] = "/")) /\ D(i)
  BY Zenon DEF Found
<1> HIDE DEF D, A
<1>2. ASSUME D(s) PROVE Found(p, text, to, s)
  BY <1>1, <1>2
<1>3. ASSUME ~A, FoundBehind(p, text, to, s, v) PROVE Found(p, text, to, s)
  <2>1. PICK i \in s..(to - 1) : text[i] = "/" /\ v[i + 1]
    BY <1>3, Zenon DEF FoundBehind
  <2>2. Found(p, text, to, i + 1)
    BY <2>1
  <2>3. PICK k \in (i + 1)..to : (k = i + 1 \/ text[k - 1] = "/") /\ D(k)
    BY <1>1, <2>2, Zenon
  <2>4. k \in s..to
    OBVIOUS
  <2>5. text[k - 1] = "/"
    <3>1. CASE k = i + 1
      <4>1. k - 1 = i
        BY <3>1
      <4> QED BY <2>1, <4>1
    <3>2. CASE k # i + 1
      BY <2>3, <3>2
    <3> QED BY <3>1, <3>2
  <2> QED BY <1>1, <1>3, <2>3, <2>4, <2>5, Zenon
<1>4. ASSUME Found(p, text, to, s), ~D(s) PROVE ~A /\ FoundBehind(p, text, to, s, v)
  <2>1. PICK k \in s..to : (k = s \/ (~A /\ text[k - 1] = "/")) /\ D(k)
    BY <1>1, <1>4, Zenon
  <2>2. ~A /\ text[k - 1] = "/" /\ k - 1 \in s..(to - 1) /\ k \in 1..to
    BY <1>4, <2>1
  <2> DEFINE W == {j \in s..(to - 1) : text[j] = "/"}
  <2>3. PICK i \in W : \A j \in W : ~ (j < i)
    <3>1. W \subseteq 0..to /\ k - 1 \in W
      BY <2>2
    <3> HIDE DEF W
    <3> QED BY <3>1, FirstPosition, Zenon
  <2>4. i \in s..(to - 1) /\ text[i] = "/"
    BY Zenon
  <2>5. \A j \in s..(i - 1) : text[j] # "/"
    <3>1. \A j \in s..(i - 1) : j \in s..(to - 1) /\ j < i
      BY <2>4
    <3> QED BY <2>3, <3>1, Zenon
  <2>6. ~ (k - 1 < i)
    BY <2>2, <2>3, Zenon
  <2>7. k \in (i + 1)..to
    BY <2>2, <2>4, <2>6
  <2>8. Found(p, text, to, i + 1)
    BY <1>1, <2>1, <2>2, <2>7, Zenon
  <2>9. v[i + 1]
    BY <2>4, <2>8
  <2> QED BY <2>2, <2>4, <2>5, <2>9, Zenon DEF FoundBehind
<1>5. Found(p, text, to, s) <=> D(s) \/ (~A /\ FoundBehind(p, text, to, s, v))
  BY <1>2, <1>3, <1>4, Zenon
<1> QED BY <1>5 DEF D, A

LEMMA TriesUnfold ==
    ASSUME NEW p, Len(Body(p)) \in Nat, NEW text, NEW to \in Nat, NEW s \in 1..to,
           NEW v, \A i \in s..(to - 1) : v[i + 1] <=> Found(p, text, to, i + 1)
    PROVE  TryAt(p, text, to, v, s) <=> Found(p, text, to, s)
<1>1. GlobMatches(Body(p), text, s, to) <=> DenotesFrom(Body(p), 1, text, s, to)
  BY SearchDecides, Zenon
<1>2. Found(p, text, to, s) <=>
              \/ DenotesFrom(Body(p), 1, text, s, to)
              \/ ~Anchored(p) /\ FoundBehind(p, text, to, s, v)
  BY FoundUnfold, Zenon
<1> QED BY <1>1, <1>2, Zenon DEF TryAt

LEMMA TriesExist ==
    ASSUME NEW p, Len(Body(p)) \in Nat, NEW text, NEW to \in Nat
    PROVE  \E v : Tries(p, text, to, v)
<1> DEFINE v == [s \in 1..to |-> Found(p, text, to, s)]
<1>1. ASSUME NEW s \in 1..to PROVE Found(p, text, to, s) = TryAt(p, text, to, v, s)
  <2>1. \A i \in s..(to - 1) : v[i + 1] <=> Found(p, text, to, i + 1)
    <3>1. \A i \in s..(to - 1) : i + 1 \in 1..to
      OBVIOUS
    <3> QED BY <3>1, Zenon
  <2> HIDE DEF v
  <2>2. TryAt(p, text, to, v, s) <=> Found(p, text, to, s)
    BY <2>1, TriesUnfold, Zenon
  <2>3. Found(p, text, to, s) \in BOOLEAN /\ TryAt(p, text, to, v, s) \in BOOLEAN
    BY Zenon DEF Found, TryAt
  <2> QED BY <2>2, <2>3, Same, Zenon
<1>2. v = [s \in 1..to |-> Found(p, text, to, s)]
  OBVIOUS
<1> HIDE DEF v
<1>3. Tries(p, text, to, v)
  BY <1>1, <1>2, Zenon DEF Tries
<1> QED BY <1>3

LEMMA CandidateIsTried ==
    ASSUME NEW p, NEW text, NEW to, \E v : Tries(p, text, to, v)
    PROVE  \E v : Tries(p, text, to, v) /\ MatchesCandidate(p, text, to) = v[1]
<1> DEFINE c == CHOOSE v : v =
        [start \in 1..to |->
            \/ GlobMatches(Body(p), text, start, to)
            \/ /\ ~Anchored(p)
               /\ \E i \in start..(to - 1) :
                     /\ text[i] = "/" /\ \A j \in start..(i - 1) : text[j] # "/"
                     /\ v[i + 1]]
<1>1. Tries(p, text, to, c)
  <2>1. PICK v : Tries(p, text, to, v)
    OBVIOUS
  <2> QED BY <2>1, Zenon DEF Tries, TryAt, FoundBehind
<1>2. MatchesCandidate(p, text, to) = c[1]
  BY Zenon DEF MatchesCandidate
<1> HIDE DEF c
<1> QED BY <1>1, <1>2, Zenon

\* The candidate is tried from every start, and from no other position.
LEMMA CandidateDecides ==
    ASSUME NEW p, Len(Body(p)) \in Nat, NEW text, NEW to \in Nat, 1 <= to
    PROVE  MatchesCandidate(p, text, to) <=> Found(p, text, to, 1)
<1>1. PICK v : Tries(p, text, to, v) /\ MatchesCandidate(p, text, to) = v[1]
  BY TriesExist, CandidateIsTried, Zenon
<1>2. \A s \in 1..to : v[s] = TryAt(p, text, to, v, s)
  BY <1>1, Zenon DEF Tries
<1> DEFINE S == {n \in 0..to : \A s \in 1..to : to - s = n => (v[s] <=> Found(p, text, to, s))}
<1>3. ASSUME NEW n \in 0..to, \A k \in 0..to : k < n => k \in S, NEW s \in 1..to, to - s = n
      PROVE  v[s] <=> Found(p, text, to, s)
  <2>1. ASSUME NEW i \in s..(to - 1) PROVE v[i + 1] <=> Found(p, text, to, i + 1)
    <3>1. i + 1 \in 1..to /\ to - (i + 1) \in 0..to /\ to - (i + 1) < n
      BY <1>3
    <3> QED BY <1>3, <3>1, Zenon
  <2>2. TryAt(p, text, to, v, s) <=> Found(p, text, to, s)
    BY <2>1, TriesUnfold, Zenon
  <2> QED BY <1>2, <2>2, Zenon
<1>4. \A n \in 0..to : (\A k \in 0..to : k < n => k \in S) => n \in S
  BY <1>3, Zenon
<1>5. 0..to \subseteq S
  <2> HIDE DEF S
  <2> QED BY <1>4, Below
<1>6. to - 1 \in 0..to /\ 1 \in 1..to
  OBVIOUS
<1> QED BY <1>1, <1>5, <1>6, Zenon

-----------------------------------------------------------------------------
(* Patterns *)

LEMMA BodyIsFinite ==
    ASSUME NEW p \in Seq(STRING), p # <<>>
    PROVE  Len(Body(p)) \in Nat
<1>1. Tail(p) \in Seq(STRING)
  OBVIOUS
<1>2. Stripped(p) \in Seq(STRING)
  BY <1>1, Zenon DEF Stripped
<1>3. ASSUME NEW s \in Seq(STRING), s # <<>> PROVE Len(Front(s)) \in Nat
  <2>1. Len(s) - 1 \in Nat
    BY <1>3
  <2>2. Front(s) \in Seq(STRING)
    BY <2>1 DEF Front
  <2> QED BY <2>2
<1> QED BY <1>2, <1>3 DEF Body, DirectoryPattern

Starts(p, text) == {i \in 1..Len(text) : i = 1 \/ (~Anchored(p) /\ text[i - 1] = "/")}

Stops(p, text) == IF DirectoryPattern(p) THEN {i \in 1..Len(text) : text[i] = "/"}
                  ELSE {Len(text) + 1}

\* p denotes a part of text.
Part(p, text) ==
    \E i \in Starts(p, text), j \in Stops(p, text) :
        i <= j /\ DenotesFrom(Body(p), 1, text, i, j)

LEMMA StartsWithin ==
    ASSUME NEW p, NEW text \in Seq(STRING), text # <<>>, Last(text) # "/",
           NEW j \in 1..Len(text) + 1
    PROVE  Found(p, text, j, 1) <=>
              \E i \in Starts(p, text) : i <= j /\ DenotesFrom(Body(p), 1, text, i, j)
<1> DEFINE D(i) == DenotesFrom(Body(p), 1, text, i, j)
           Begins(i) == i = 1 \/ (~Anchored(p) /\ text[i - 1] = "/")
<1>1. Len(text) \in Nat /\ Len(text) # 0 /\ text[Len(text)] # "/"
  BY DEF Last
<1>2. ASSUME NEW i \in 1..j, Begins(i) PROVE i \in 1..Len(text) /\ i <= j
  <2>1. CASE i = Len(text) + 1
    <3>1. i - 1 = Len(text) /\ i # 1
      BY <1>1, <2>1
    <3> QED BY <1>1, <1>2, <3>1
  <2>2. CASE i # Len(text) + 1
    BY <1>1, <2>2
  <2> QED BY <2>1, <2>2
<1>3. \A i \in 1..Len(text) : i <= j => i \in 1..j
  BY <1>1
<1>4. Found(p, text, j, 1) <=> \E i \in 1..j : Begins(i) /\ D(i)
  BY Zenon DEF Found
<1>5. \A i : i \in Starts(p, text) <=> i \in 1..Len(text) /\ Begins(i)
  BY Zenon DEF Starts
<1> HIDE DEF D, Begins
<1>6. Found(p, text, j, 1) <=> \E i \in Starts(p, text) : i <= j /\ D(i)
  BY <1>2, <1>3, <1>4, <1>5, Zenon
<1> QED BY <1>6 DEF D

\* A pattern matches exactly the paths with a part that it denotes.
LEMMA PatternDecides ==
    ASSUME NEW p \in Seq(STRING), p # <<>>,
           NEW text \in Seq(STRING), text # <<>>, Last(text) # "/"
    PROVE  PatternMatches(p, text) <=> Part(p, text)
<1> DEFINE M(j) == MatchesCandidate(p, text, j)
           E(j) == \E i \in Starts(p, text) : i <= j /\ DenotesFrom(Body(p), 1, text, i, j)
<1>1. Len(text) \in Nat
  OBVIOUS
<1>2. ASSUME NEW j \in 1..Len(text) + 1 PROVE M(j) <=> E(j)
  <2>1. Found(p, text, j, 1) <=> E(j)
    BY StartsWithin, Zenon
  <2>2. j \in Nat /\ 1 <= j /\ Len(Body(p)) \in Nat
    BY <1>1, BodyIsFinite
  <2>3. M(j) <=> Found(p, text, j, 1)
    BY <2>2, CandidateDecides, Zenon
  <2> QED BY <2>1, <2>3, Zenon
<1>3. Part(p, text) <=> \E j \in Stops(p, text) : E(j)
  BY Zenon DEF Part
<1>4. /\ \A j \in 1..Len(text) : j \in 1..Len(text) + 1
      /\ Len(text) + 1 \in 1..Len(text) + 1
  BY <1>1
<1> HIDE DEF E
<1>5. CASE DirectoryPattern(p)
  <2>1. PatternMatches(p, text) <=> \E i \in 1..Len(text) : text[i] = "/" /\ M(i)
    BY <1>5, Zenon DEF PatternMatches
  <2>2. Stops(p, text) = {i \in 1..Len(text) : text[i] = "/"}
    BY <1>5, Zenon DEF Stops
  <2> HIDE DEF M
  <2> QED BY <1>2, <1>3, <1>4, <2>1, <2>2, Zenon
<1>6. CASE ~DirectoryPattern(p)
  <2>1. PatternMatches(p, text) <=> M(Len(text) + 1)
    BY <1>6, Zenon DEF PatternMatches
  <2>2. Stops(p, text) = {Len(text) + 1}
    BY <1>6, Zenon DEF Stops
  <2> HIDE DEF M
  <2> QED BY <1>2, <1>3, <1>4, <2>1, <2>2, Zenon
<1> QED BY <1>5, <1>6

-----------------------------------------------------------------------------

\* The verdict is of the pattern and the path.
Judged ==
    /\ pattern \in Patterns /\ path \in SourcePaths
    /\ \/ excluded = "unknown"
       \/ excluded = "yes" /\ PatternMatches(pattern, path)
       \/ excluded = "no" /\ ~PatternMatches(pattern, path)

LEMMA JudgedInit == ExcludeInit => Judged
BY Zenon DEF ExcludeInit, Judged

LEMMA JudgedStep ==
    ASSUME Judged, [IsExcluded]_excludeVars
    PROVE  Judged'
<1>1. CASE IsExcluded
  <2>1. pattern' = pattern /\ path' = path
    BY <1>1 DEF IsExcluded
  <2>2. PatternMatches(pattern', path') <=> PatternMatches(pattern, path)
    BY <2>1
  <2>3. excluded' = IF PatternMatches(pattern, path) THEN "yes" ELSE "no"
    BY <1>1, Zenon DEF IsExcluded
  <2> QED BY <2>1, <2>2, <2>3, Zenon DEF Judged
<1>2. CASE UNCHANGED excludeVars
  <2>1. pattern' = pattern /\ path' = path /\ excluded' = excluded
    BY <1>2 DEF excludeVars
  <2> QED BY <2>1, Zenon DEF Judged
<1> QED BY <1>1, <1>2

LEMMA JudgedIsExact == Judged => ExclusionIsExact
<1> SUFFICES ASSUME Judged PROVE ExclusionIsExact
  OBVIOUS
<1>1. /\ pattern \in Seq(STRING) /\ pattern # <<>>
      /\ path \in Seq(STRING) /\ path # <<>> /\ Last(path) # "/"
  BY ExcludeAssumption, Zenon DEF Judged
<1>2. PatternMatches(pattern, path) <=> Part(pattern, path)
  BY <1>1, PatternDecides, Zenon
<1>3. excluded # "unknown" => (excluded = "yes" <=> PatternMatches(pattern, path))
  <2>1. "yes" # "no" /\ "yes" # "unknown" /\ "no" # "unknown"
    OBVIOUS
  <2> QED BY <2>1, Zenon DEF Judged
<1>4. excluded # "unknown" => (excluded = "yes" <=> Part(pattern, path))
  BY <1>2, <1>3, Zenon
<1> QED BY <1>4, Zenon DEF ExclusionIsExact, Part, Starts, Stops

\* For all patterns and paths: a verdict of is_excluded is a yes exactly if a part
\* of the path that starts it or a name in it, and ends with it or a directory of
\* it, can be cut into parts the pattern's tokens stand for.
THEOREM ExclusionCorrect == ExcludeSpec => []ExclusionIsExact
<1>1. Judged /\ [IsExcluded]_excludeVars => Judged'
  BY JudgedStep
<1> QED BY JudgedInit, JudgedIsExact, <1>1, PTL DEF ExcludeSpec

-----------------------------------------------------------------------------
(* The form of a file.  The argument joins three facts: the frames agree    *)
(* with the list of all conditions, code that may be compiled has an answer *)
(* to "is a continuation open here?", and in code that is compiled the      *)
(* detector's own answer (the last ending of the track) is that one.        *)


Activities == {"Active", "Inactive", "Unknown"}
Frames     == [parent : Activities, taken : Literal, condition : Literal]
Residues   == [rest : SUBSET BOOLEAN, exits : SUBSET BOOLEAN]
History    == [free : BOOLEAN, fixed : BOOLEAN, pending : SUBSET BOOLEAN,
               split : BOOLEAN, open : Seq(Residues)]
Evidence   == [free : BOOLEAN, fixed : BOOLEAN]

\* What each variable may hold.
DetectTypeOK ==
    /\ directive \in BOOLEAN
    /\ evidence \in [Tracks -> Evidence]
    /\ previous \in [Tracks -> Endings \cup {"none"}]
    /\ stack \in Seq(Frames)
    /\ branches \in Seq(Seq(Literal))
    /\ legal \in History

Taken(conditions) ==
    /\ conditions[Len(conditions)] = "true"
    /\ \A i \in 1..(Len(conditions) - 1) : conditions[i] = "false"
Dead(conditions) ==
    \/ conditions[Len(conditions)] = "false"
    \/ \E i \in 1..(Len(conditions) - 1) : conditions[i] = "true"

\* The activity of the code i conditionals deep.
Depth(frames, i) == IF i = 0 THEN "Active" ELSE FrameActivity(frames[i])

\* A frame keeps of its conditions the last one and what those before it say.
Summarizes(frame, conditions) ==
    /\ frame.condition = conditions[Len(conditions)]
    /\ frame.taken = "true" <=>
          \E i \in 1..(Len(conditions) - 1) : conditions[i] = "true"
    /\ frame.taken = "false" <=>
          \A i \in 1..(Len(conditions) - 1) : conditions[i] = "false"

Exact(frames, lists, i) ==
    /\ Depth(frames, i) = "Active" <=> \A j \in 1..i : Taken(lists[j])
    /\ Depth(frames, i) = "Inactive" <=> \E j \in 1..i : Dead(lists[j])

Agree(frames, lists) ==
    /\ Len(lists) = Len(frames)
    /\ \A i \in 1..Len(frames) :
          /\ Len(lists[i]) > 0
          /\ Summarizes(frames[i], lists[i])
          /\ frames[i].parent = Depth(frames, i - 1)
    /\ \A i \in 0..Len(frames) : Exact(frames, lists, i)

\* An open conditional that may be compiled has an answer for the ways no branch
\* has taken, if there are any, and one from the branches before a taken one.
Answered(frame, residue) ==
    frame.parent # "Inactive" =>
        /\ frame.taken # "true" /\ frame.condition # "true" => residue.rest # {}
        /\ frame.taken = "true" => residue.exits # {}

Answers(frames, open, owed) ==
    /\ Len(open) = Len(frames)
    /\ \A i \in 1..Len(frames) : Answered(frames[i], open[i])
    /\ CppActivity(frames) # "Inactive" => owed # {}

\* While no statement is continued over a directive, the detector knows whether
\* one is continued here.
Closing(residue) == TRUE \notin residue.rest /\ TRUE \notin residue.exits

ContinuationKnown ==
    ~legal.split =>
        /\ \A i \in 1..Len(legal.open) : Closing(legal.open[i])
        /\ CppActivity(stack) = "Active" =>
              /\ TRUE \in legal.pending => previous["active"] = "amp"
              /\ FALSE \in legal.pending => previous["active"] # "amp"
        /\ CppActivity(stack) # "Active" => previous["active"] # "amp"

\* Fixed evidence never comes from free form.
FreeShown ==
    legal.free /\ ~legal.split =>
        ~evidence["active"].fixed /\ previous["active"] # "operator"

\* On the lines of a fixed-form file free evidence never comes alone.
FixedShown ==
    legal.fixed => \A t \in Tracks :
        evidence[t].free \/ previous[t] = "amp" => evidence[t].fixed

DetectInv ==
    /\ DetectTypeOK
    /\ Agree(stack, branches)
    /\ Answers(stack, legal.open, legal.pending)
    /\ ContinuationKnown /\ FreeShown /\ FixedShown
-----------------------------------------------------------------------------
(* The frames and the list of all conditions *)

LEMMA ActivityRules ==
    ASSUME NEW frame \in Frames
    PROVE  /\ FrameActivity(frame) \in Activities
           /\ FrameActivity(frame) = "Active" <=>
                 frame.parent = "Active" /\ frame.taken = "false" /\ frame.condition = "true"
           /\ FrameActivity(frame) = "Inactive" <=>
                 frame.parent = "Inactive" \/ frame.taken = "true" \/ frame.condition = "false"
<1> QED BY DEF Frames, Activities, Literal, FrameActivity

LEMMA TopActivity ==
    ASSUME NEW frames \in Seq(Frames)
    PROVE  /\ CppActivity(frames) = Depth(frames, Len(frames))
           /\ CppActivity(frames) \in Activities
<1>1. CppActivity(frames) = Depth(frames, Len(frames))
  BY DEF CppActivity, Depth, Last
<1>2. CASE Len(frames) = 0
  BY <1>1, <1>2 DEF Depth, Activities
<1>3. CASE Len(frames) # 0
  <2>1. frames[Len(frames)] \in Frames /\ Len(frames) # 0
    BY <1>3
  <2> QED BY <1>1, <2>1, ActivityRules DEF Depth
<1> QED BY <1>1, <1>2, <1>3

LEMMA AdvanceRules ==
    ASSUME NEW frame \in Frames, NEW condition \in Literal
    PROVE  LET next == Advance(frame, condition) IN
           /\ next \in Frames /\ next.parent = frame.parent /\ next.condition = condition
           /\ next.taken = "true" <=> frame.taken = "true" \/ frame.condition = "true"
           /\ next.taken = "false" <=> frame.taken = "false" /\ frame.condition = "false"
<1> QED BY DEF Frames, Literal, Advance

LEMMA AdvanceSummarizes ==
    ASSUME NEW frame \in Frames, NEW conditions \in Seq(Literal), Len(conditions) > 0,
           NEW condition \in Literal, Summarizes(frame, conditions)
    PROVE  Summarizes(Advance(frame, condition), Append(conditions, condition))
<1> DEFINE longer == Append(conditions, condition)
<1>1. /\ Len(longer) = Len(conditions) + 1 /\ longer[Len(conditions) + 1] = condition
      /\ \A i \in 1..Len(conditions) : longer[i] = conditions[i]
  OBVIOUS
<1>2. 1..Len(conditions) = (1..(Len(conditions) - 1)) \cup {Len(conditions)}
  OBVIOUS
<1>3. /\ (\E i \in 1..Len(conditions) : longer[i] = "true") <=>
            (\E i \in 1..(Len(conditions) - 1) : conditions[i] = "true")
            \/ conditions[Len(conditions)] = "true"
      /\ (\A i \in 1..Len(conditions) : longer[i] = "false") <=>
            (\A i \in 1..(Len(conditions) - 1) : conditions[i] = "false")
            /\ conditions[Len(conditions)] = "false"
  BY <1>1, <1>2
<1>4. PICK next : next = Advance(frame, condition)
  OBVIOUS
<1>5. /\ next.condition = condition
      /\ next.taken = "true" <=> frame.taken = "true" \/ frame.condition = "true"
      /\ next.taken = "false" <=> frame.taken = "false" /\ frame.condition = "false"
  BY <1>4, AdvanceRules
<1>6. Len(longer) - 1 = Len(conditions)
  BY <1>1
<1> HIDE DEF longer
<1>7. Summarizes(next, longer)
  BY <1>1, <1>3, <1>5, <1>6 DEF Summarizes
<1> QED BY <1>4, <1>7 DEF longer

LEMMA SummaryRules ==
    ASSUME NEW frame, NEW conditions, Summarizes(frame, conditions)
    PROVE  /\ frame.taken = "false" /\ frame.condition = "true" <=> Taken(conditions)
           /\ frame.taken = "true" \/ frame.condition = "false" <=> Dead(conditions)
<1> QED BY DEF Summarizes, Taken, Dead

\* One conditional deeper the activity is exact if it was exact outside.
LEMMA ExactDeeper ==
    ASSUME NEW frames \in Seq(Frames), NEW lists \in Seq(Seq(Literal)),
           NEW n \in 1..Len(frames), frames[n].parent = Depth(frames, n - 1),
           Summarizes(frames[n], lists[n]), Exact(frames, lists, n - 1)
    PROVE  Exact(frames, lists, n)
<1>1. /\ frames[n] \in Frames /\ Depth(frames, n) = FrameActivity(frames[n])
      /\ 1..n = (1..(n - 1)) \cup {n}
  BY DEF Depth
<1> QED BY <1>1, ActivityRules, SummaryRules DEF Exact

SameTo(i, one, other) == \A j \in 1..i : one[j] = other[j]

\* What is exact i deep depends only on the conditionals up to there.
LEMMA ExactPrefix ==
    ASSUME NEW frames, NEW lists, NEW other, NEW others, NEW i \in Nat,
           Exact(frames, lists, i), SameTo(i, other, frames), SameTo(i, others, lists)
    PROVE  Exact(other, others, i) /\ Depth(other, i) = Depth(frames, i)
<1>1. Depth(other, i) = Depth(frames, i)
  BY DEF Depth, SameTo
<1>2. \A j \in 1..i : Taken(others[j]) = Taken(lists[j]) /\ Dead(others[j]) = Dead(lists[j])
  BY DEF SameTo
<1> QED BY <1>1, <1>2 DEF Exact

\* The n outer conditionals are kept and one is put inside them.
LEMMA AgreeOnTop ==
    ASSUME NEW frames \in Seq(Frames), NEW lists \in Seq(Seq(Literal)), Agree(frames, lists),
           NEW n \in 0..Len(frames),
           NEW next \in Seq(Frames), NEW nexts \in Seq(Seq(Literal)),
           Len(next) = n + 1, Len(nexts) = n + 1,
           \A j \in 1..n : next[j] = frames[j] /\ nexts[j] = lists[j],
           Len(nexts[n + 1]) > 0, Summarizes(next[n + 1], nexts[n + 1]),
           next[n + 1].parent = Depth(frames, n)
    PROVE  Agree(next, nexts)
<1>1. \A i \in 0..n : Exact(next, nexts, i) /\ Depth(next, i) = Depth(frames, i)
  <2> SUFFICES ASSUME NEW i \in 0..n
               PROVE  Exact(next, nexts, i) /\ Depth(next, i) = Depth(frames, i)
    OBVIOUS
  <2>1. i \in Nat /\ Exact(frames, lists, i)
    BY DEF Agree
  <2>2. SameTo(i, next, frames) /\ SameTo(i, nexts, lists)
    BY <2>1 DEF SameTo
  <2> QED BY <2>1, <2>2, ExactPrefix
<1>2. \A i \in 1..(n + 1) : /\ Len(nexts[i]) > 0
                            /\ Summarizes(next[i], nexts[i])
                            /\ next[i].parent = Depth(next, i - 1)
  <2> SUFFICES ASSUME NEW i \in 1..(n + 1)
               PROVE  /\ Len(nexts[i]) > 0
                      /\ Summarizes(next[i], nexts[i])
                      /\ next[i].parent = Depth(next, i - 1)
    OBVIOUS
  <2>1. CASE i = n + 1
    <3>1. Depth(next, n) = Depth(frames, n) /\ i - 1 = n
      BY <1>1, <2>1
    <3> QED BY <2>1, <3>1
  <2>2. CASE i # n + 1
    <3>1. i \in 1..n /\ i \in 1..Len(frames) /\ i - 1 \in 0..n
      BY <2>2
    <3>2. Depth(next, i - 1) = Depth(frames, i - 1)
      BY <1>1, <3>1
    <3> QED BY <3>1, <3>2 DEF Agree
  <2> QED BY <2>1, <2>2
<1>3. Exact(next, nexts, n + 1)
  <2>1. n + 1 \in 1..Len(next) /\ (n + 1) - 1 = n
    OBVIOUS
  <2>2. Exact(next, nexts, n) /\ Depth(next, n) = Depth(frames, n)
    BY <1>1
  <2> QED BY <2>1, <2>2, ExactDeeper
<1> QED BY <1>1, <1>2, <1>3 DEF Agree

\* The innermost conditional is closed.
LEMMA AgreeBelow ==
    ASSUME NEW frames \in Seq(Frames), NEW lists \in Seq(Seq(Literal)), Agree(frames, lists),
           Len(frames) > 0
    PROVE  Agree(Front(frames), Front(lists))
<1> DEFINE n == Len(frames) - 1
           other == Front(frames)
           others == Front(lists)
<1>1. /\ n \in Nat /\ Len(other) = n /\ Len(others) = n
      /\ \A j \in 1..n : other[j] = frames[j] /\ others[j] = lists[j]
  BY DEF Agree, Front
<1>2. \A i \in 0..n : Exact(other, others, i) /\ Depth(other, i) = Depth(frames, i)
  <2> SUFFICES ASSUME NEW i \in 0..n
               PROVE  Exact(other, others, i) /\ Depth(other, i) = Depth(frames, i)
    OBVIOUS
  <2>1. i \in Nat /\ Exact(frames, lists, i) /\ \A j \in 1..i : j \in 1..n
    BY DEF Agree
  <2>2. SameTo(i, other, frames) /\ SameTo(i, others, lists)
    BY <2>1, <1>1 DEF SameTo
  <2> HIDE DEF other, others, n
  <2> QED BY <2>1, <2>2, ExactPrefix
<1>3. ASSUME NEW i \in 1..n
      PROVE  /\ Len(others[i]) > 0 /\ Summarizes(other[i], others[i])
             /\ other[i].parent = Depth(other, i - 1)
  <2>1. i \in 1..Len(frames) /\ i - 1 \in 0..n
    BY <1>1
  <2>2. Depth(other, i - 1) = Depth(frames, i - 1)
    BY <2>1, <1>2
  <2>3. other[i] = frames[i] /\ others[i] = lists[i]
    BY <1>1
  <2> HIDE DEF other, others, n
  <2> QED BY <2>1, <2>2, <2>3 DEF Agree
<1> HIDE DEF other, others, n
<1>4. Agree(other, others)
  BY <1>1, <1>2, <1>3 DEF Agree
<1> QED BY <1>4 DEF other, others
-----------------------------------------------------------------------------
(* The answers to "is a continuation open here?" over a directive *)

NewFrame(frames, condition) ==
    [parent |-> CppActivity(frames), taken |-> "false", condition |-> condition]

LEMMA AnswersOpened ==
    ASSUME NEW frames \in Seq(Frames), NEW open \in Seq(Residues),
           NEW owed \in SUBSET BOOLEAN, NEW condition \in Literal,
           Answers(frames, open, owed)
    PROVE  Answers(Append(frames, NewFrame(frames, condition)),
                   Append(open, [rest |-> Remaining(condition, owed), exits |-> {}]),
                   Possible(condition, owed))
<1> DEFINE frame == NewFrame(frames, condition)
           residue == [rest |-> Remaining(condition, owed), exits |-> {}]
           n == Len(frames)
<1>1. CppActivity(frames) \in Activities
  BY TopActivity
<1>2. /\ frame \in Frames /\ frame.parent = CppActivity(frames)
      /\ frame.taken = "false" /\ frame.condition = condition
  BY <1>1 DEF NewFrame, Frames, Literal
<1>3. Answered(frame, residue)
  BY <1>2 DEF Answered, Answers, Remaining
<1> HIDE DEF frame, residue
<1>4. /\ Append(frames, frame) \in Seq(Frames) /\ Len(Append(frames, frame)) = n + 1
      /\ Append(frames, frame)[n + 1] = frame /\ Append(open, residue)[n + 1] = residue
      /\ Len(open) = n /\ Len(Append(open, residue)) = n + 1
      /\ \A i \in 1..n : /\ Append(frames, frame)[i] = frames[i]
                        /\ Append(open, residue)[i] = open[i]
  BY <1>2 DEF Answers
<1>5. CppActivity(Append(frames, frame)) = FrameActivity(frame)
  <2>1. CppActivity(Append(frames, frame)) = Depth(Append(frames, frame), n + 1)
    BY <1>4, TopActivity
  <2> QED BY <1>4, <2>1 DEF Depth
<1>6. FrameActivity(frame) # "Inactive" => Possible(condition, owed) # {}
  BY <1>2, ActivityRules DEF Answers, Possible
<1>7. Answers(Append(frames, frame), Append(open, residue), Possible(condition, owed))
  BY <1>3, <1>4, <1>5, <1>6 DEF Answers
<1> QED BY <1>7 DEF frame, residue

LEMMA Replacing ==
    ASSUME NEW S, NEW list \in Seq(S), NEW entry \in S, NEW n \in 1..Len(list),
           NEW other, other = [list EXCEPT ![n] = entry]
    PROVE  /\ other \in Seq(S) /\ Len(other) = Len(list) /\ other[n] = entry
           /\ \A i \in 1..Len(list) : i # n => other[i] = list[i]
<1> QED OBVIOUS

LEMMA AnswersSwitched ==
    ASSUME NEW frames \in Seq(Frames), NEW open \in Seq(Residues),
           NEW owed \in SUBSET BOOLEAN, NEW condition \in Literal,
           Answers(frames, open, owed), NEW n \in Nat, n = Len(frames), n > 0,
           NEW residue, residue = [rest |-> Remaining(condition, open[n].rest),
                                   exits |-> open[n].exits \cup owed]
    PROVE  Answers([frames EXCEPT ![n] = Advance(frames[n], condition)],
                   [open EXCEPT ![n] = residue], Possible(condition, open[n].rest))
<1>1. PICK frame : frame = Advance(frames[n], condition)
  OBVIOUS
<1>2. /\ frames[n] \in Frames
      /\ frame \in Frames /\ frame.parent = frames[n].parent /\ frame.condition = condition
      /\ frame.taken = "true" <=> frames[n].taken = "true" \/ frames[n].condition = "true"
      /\ frame.taken = "false" <=> frames[n].taken = "false" /\ frames[n].condition = "false"
  BY <1>1, AdvanceRules
<1>3. PICK next : next = [frames EXCEPT ![n] = frame]
  OBVIOUS
<1>4. PICK nexts : nexts = [open EXCEPT ![n] = residue]
  OBVIOUS
<1>5. /\ next \in Seq(Frames) /\ Len(next) = n /\ Len(open) = n /\ Len(nexts) = n
      /\ next[n] = frame /\ nexts[n] = residue
      /\ \A i \in 1..n : i # n => next[i] = frames[i] /\ nexts[i] = open[i]
  <2>1. open \in Seq(Residues) /\ Len(open) = n /\ open[n] \in Residues /\ n \in 1..Len(open)
    BY DEF Answers
  <2>2. residue \in Residues
    BY <2>1 DEF Residues, Remaining
  <2>3. /\ next \in Seq(Frames) /\ Len(next) = n /\ next[n] = frame
        /\ \A i \in 1..n : i # n => next[i] = frames[i]
    BY <1>2, <1>3
  <2>4. /\ Len(nexts) = n /\ nexts[n] = residue
        /\ \A i \in 1..n : i # n => nexts[i] = open[i]
    BY ONLY <1>4, <2>1, <2>2, Replacing
  <2> QED BY <2>1, <2>3, <2>4
<1>6. /\ Answered(frames[n], open[n])
      /\ FrameActivity(frames[n]) # "Inactive" => owed # {}
  BY TopActivity DEF Answers, Depth
<1>7. frames[n].taken \in Literal /\ frames[n].condition \in Literal
  BY <1>2 DEF Frames
<1>8. Answered(frame, residue)
  BY <1>2, <1>6, <1>7, ActivityRules DEF Answered, Remaining, Literal
<1>9. FrameActivity(frame) # "Inactive" => Possible(condition, open[n].rest) # {}
  BY <1>2, <1>6, <1>7, ActivityRules DEF Answered, Possible, Literal
<1>10. CppActivity(next) = FrameActivity(frame)
  BY <1>5, TopActivity DEF Depth
<1>11. Answers(next, nexts, Possible(condition, open[n].rest))
  BY <1>5, <1>8, <1>9, <1>10 DEF Answers
<1> QED BY <1>1, <1>3, <1>4, <1>11

LEMMA AnswersClosed ==
    ASSUME NEW frames \in Seq(Frames), NEW lists, NEW open \in Seq(Residues),
           NEW owed \in SUBSET BOOLEAN, Agree(frames, lists),
           Answers(frames, open, owed), NEW n \in Nat, n = Len(frames), n > 0
    PROVE  Answers(Front(frames), Front(open), owed \cup open[n].rest \cup open[n].exits)
<1>1. /\ Front(frames) \in Seq(Frames) /\ Len(Front(frames)) = n - 1
      /\ Len(Front(open)) = n - 1
      /\ \A i \in 1..(n - 1) : Front(frames)[i] = frames[i] /\ Front(open)[i] = open[i]
  BY DEF Front, Answers
<1>2. frames[n] \in Frames /\ frames[n].parent = Depth(frames, n - 1)
  BY DEF Agree
<1>3. CppActivity(Front(frames)) = frames[n].parent
  BY <1>1, <1>2, TopActivity DEF Depth
<1>4. /\ Answered(frames[n], open[n])
      /\ FrameActivity(frames[n]) # "Inactive" => owed # {}
  BY TopActivity DEF Answers, Depth
<1>5. frames[n].taken \in Literal /\ frames[n].condition \in Literal
  BY <1>2 DEF Frames
<1>6. frames[n].parent # "Inactive" => owed \cup open[n].rest \cup open[n].exits # {}
  BY <1>2, <1>4, <1>5, ActivityRules DEF Answered, Literal
<1> QED BY <1>1, <1>3, <1>6 DEF Answers
-----------------------------------------------------------------------------
(* Lines of code *)

\* A line that is legal in free form shows no fixed evidence.
LEMMA FreeLine ==
    ASSUME NEW line \in CodeLine, NEW ending \in Endings \cup {"none"},
           ending # "operator", NEW open \in BOOLEAN, open <=> ending = "amp",
           FreeLegal(line, open)
    PROVE  /\ ~FixedEvidence(line, ending)
           /\ ~FreeComment(line) => line.ending # "operator"
<1> USE DEF FixedEvidence, FixedCommentSignature, LineContinues, RequiresContinuation,
            FixedContinuationSignature, Extends, CodeLine, Gutters, Marks, Fields, Endings
<1>1. CASE FreeComment(line)
  BY <1>1 DEF FreeComment
<1>2. CASE ~FreeComment(line) /\ open
  BY <1>2 DEF FreeLegal
<1>3. CASE ~FreeComment(line) /\ ~open
  BY <1>3 DEF FreeLegal
<1> QED BY <1>1, <1>2, <1>3

\* A line that is legal in fixed form shows free evidence, or ends as free-form
\* lines do, only with fixed evidence.
LEMMA FixedLine ==
    ASSUME NEW line \in CodeLine, NEW ending, ending # "amp", FixedLegal(line),
           ~FreeComment(line), StrongFreeSignature(line) \/ line.ending = "amp"
    PROVE  FixedEvidence(line, ending)
<1> QED BY DEF FixedEvidence, FixedCommentSignature, LineContinues, FixedLegal,
               StrongFreeSignature

LEMMA ReadPending ==
    ASSUME NEW line \in CodeLine, NEW owed \in SUBSET BOOLEAN, ~FreeComment(line),
           NEW next, next = {LineContinues(line.ending) : open \in owed}
    PROVE  /\ next \in SUBSET BOOLEAN
           /\ TRUE \in next => line.ending = "amp"
           /\ FALSE \in next => line.ending # "amp"
           /\ owed # {} => next # {}
<1> QED BY DEF LineContinues

\* What ReadLegal does to the history.
LEMMA ReadHistory ==
    ASSUME DetectInv, NEW line \in CodeLine, legal' = ReadLegal(line)
    PROVE  /\ legal' \in History
           /\ legal'.split = legal.split /\ legal'.open = legal.open
           /\ legal'.free => legal.free /\ \A open \in legal.pending : FreeLegal(line, open)
           /\ legal'.fixed => legal.fixed /\ (legal.pending # {} => FixedLegal(line))
           /\ legal.pending # {} => legal'.pending # {}
           /\ FreeComment(line) => legal'.pending = legal.pending
           /\ ~FreeComment(line) /\ TRUE \in legal'.pending => line.ending = "amp"
           /\ ~FreeComment(line) /\ FALSE \in legal'.pending => line.ending # "amp"
<1> DEFINE answers == {LineContinues(line.ending) : open \in legal.pending}
           free == legal.free /\ \A open \in legal.pending : FreeLegal(line, open)
           fixed == legal.fixed /\ (legal.pending # {} => FixedLegal(line))
<1>1. legal \in History /\ legal.pending \in SUBSET BOOLEAN
  BY DEF DetectInv, DetectTypeOK, History
<1>2. PICK owed : owed = IF FreeComment(line) THEN legal.pending ELSE answers
  OBVIOUS
<1>3. /\ owed \in SUBSET BOOLEAN /\ (legal.pending # {} => owed # {})
      /\ FreeComment(line) => owed = legal.pending
      /\ ~FreeComment(line) /\ TRUE \in owed => line.ending = "amp"
      /\ ~FreeComment(line) /\ FALSE \in owed => line.ending # "amp"
  BY <1>1, <1>2, ReadPending
<1>4. legal' = [legal EXCEPT !.free = free, !.fixed = fixed, !.pending = owed]
  BY <1>2 DEF ReadLegal
<1>5. free \in BOOLEAN /\ fixed \in BOOLEAN
  BY <1>1 DEF History
<1>6. /\ legal' \in History /\ legal'.split = legal.split /\ legal'.open = legal.open
      /\ legal'.free = free /\ legal'.fixed = fixed /\ legal'.pending = owed
  <2> HIDE DEF free, fixed
  <2> QED BY <1>1, <1>3, <1>4, <1>5 DEF History
<1> QED BY <1>3, <1>6

LEMMA InactiveStep ==
    ASSUME DetectInv, NEW line \in SourceLines, SkipInactive(line)
    PROVE  DetectInv'
<1>1. line \in CodeLine
  BY DetectAssumption DEF SkipInactive, CodeLine, DirectiveLine
<1>2. /\ stack' = stack /\ branches' = branches /\ evidence' = evidence
      /\ previous' = previous /\ directive' = directive /\ legal' = ReadLegal(line)
      /\ CppActivity(stack) = "Inactive"
  BY DEF SkipInactive
<1>3. /\ legal' \in History /\ legal'.split = legal.split /\ legal'.open = legal.open
      /\ legal'.free => legal.free
      /\ legal'.fixed => legal.fixed
  BY <1>1, <1>2, ReadHistory
<1>4. DetectTypeOK' /\ Agree(stack, branches)'
  BY <1>2, <1>3 DEF DetectInv, DetectTypeOK
<1>5. Answers(stack, legal.open, legal.pending)'
  BY <1>2, <1>3 DEF DetectInv, Answers
<1>6. ContinuationKnown' /\ FreeShown' /\ FixedShown'
  BY <1>2, <1>3 DEF DetectInv, ContinuationKnown, FreeShown, FixedShown
<1> QED BY <1>4, <1>5, <1>6 DEF DetectInv

LEMMA CodeStep ==
    ASSUME DetectInv, NEW line \in SourceLines, ReadCode(line)
    PROVE  DetectInv'
<1>1. line \in CodeLine
  BY DetectAssumption DEF ReadCode, CodeLine, DirectiveLine
<1>2. PICK track \in Tracks :
        track = IF CppActivity(stack) = "Active" THEN "active" ELSE "tentative"
  BY DEF Tracks
<1> DEFINE fixed == evidence[track].fixed \/ FixedEvidence(line, previous[track])
           free == evidence[track].free \/ (~FreeComment(line) /\ StrongFreeSignature(line))
<1>3. /\ stack' = stack /\ branches' = branches /\ directive' = directive
      /\ legal' = ReadLegal(line) /\ CppActivity(stack) # "Inactive"
      /\ evidence' = [evidence EXCEPT ![track].fixed = fixed, ![track].free = free]
      /\ previous' = IF FreeComment(line) THEN previous
                     ELSE [previous EXCEPT ![track] = line.ending]
  BY <1>2 DEF ReadCode
<1>4. /\ legal' \in History /\ legal'.split = legal.split /\ legal'.open = legal.open
      /\ legal'.free => legal.free /\ \A open \in legal.pending : FreeLegal(line, open)
      /\ legal'.fixed => legal.fixed /\ (legal.pending # {} => FixedLegal(line))
      /\ legal.pending # {} => legal'.pending # {}
      /\ FreeComment(line) => legal'.pending = legal.pending
      /\ ~FreeComment(line) /\ TRUE \in legal'.pending => line.ending = "amp"
      /\ ~FreeComment(line) /\ FALSE \in legal'.pending => line.ending # "amp"
  BY <1>1, <1>3, ReadHistory
<1>5. /\ evidence \in [Tracks -> Evidence] /\ previous \in [Tracks -> Endings \cup {"none"}]
      /\ line.ending \in Endings
  BY <1>1 DEF DetectInv, DetectTypeOK, CodeLine
<1>6. fixed \in BOOLEAN /\ free \in BOOLEAN
  BY <1>5 DEF Evidence, FixedEvidence, FreeComment, StrongFreeSignature
<1>7. /\ evidence' \in [Tracks -> Evidence]
      /\ evidence'[track].fixed = fixed /\ evidence'[track].free = free
      /\ \A t \in Tracks : t # track => evidence'[t] = evidence[t]
  <2> HIDE DEF fixed, free
  <2> QED BY <1>3, <1>5, <1>6 DEF Evidence
<1>8. /\ previous' \in [Tracks -> Endings \cup {"none"}]
      /\ previous'[track] = IF FreeComment(line) THEN previous[track] ELSE line.ending
      /\ \A t \in Tracks : t # track => previous'[t] = previous[t]
  BY <1>3, <1>5
<1>9. legal.pending # {}
  BY <1>3 DEF DetectInv, Answers
<1>10. DetectTypeOK' /\ Agree(stack, branches)'
  BY <1>3, <1>4, <1>7, <1>8 DEF DetectInv, DetectTypeOK
<1>11. Answers(stack, legal.open, legal.pending)'
  BY <1>3, <1>4 DEF DetectInv, Answers
<1>12. ContinuationKnown'
  <2>1. CASE CppActivity(stack) = "Active"
    <3>1. track = "active"
      BY <2>1, <1>2
    <3> QED BY <2>1, <3>1, <1>3, <1>4, <1>8 DEF DetectInv, ContinuationKnown
  <2>2. CASE CppActivity(stack) # "Active"
    <3>1. previous'["active"] = previous["active"]
      BY <2>2, <1>2, <1>8 DEF Tracks
    <3> QED BY <2>2, <3>1, <1>3, <1>4 DEF DetectInv, ContinuationKnown
  <2> QED BY <2>1, <2>2
<1>13. FreeShown'
  <2> SUFFICES ASSUME legal'.free, ~legal'.split
               PROVE  ~evidence'["active"].fixed /\ previous'["active"] # "operator"
    BY DEF FreeShown
  <2>1. ~evidence["active"].fixed /\ previous["active"] # "operator"
    BY <1>4 DEF DetectInv, FreeShown
  <2>2. CASE CppActivity(stack) # "Active"
    <3>1. track # "active" /\ "active" \in Tracks
      BY <2>2, <1>2 DEF Tracks
    <3> QED BY <2>1, <3>1, <1>7, <1>8
  <2>3. CASE CppActivity(stack) = "Active"
    <3>1. track = "active"
      BY <2>3, <1>2
    <3>2. PICK open \in legal.pending : TRUE
      BY <1>9
    <3>3. open \in BOOLEAN /\ FreeLegal(line, open)
      BY <3>2, <1>4 DEF DetectInv, DetectTypeOK, History
    <3>4. open <=> previous["active"] = "amp"
      BY <2>3, <3>2, <3>3, <1>4 DEF DetectInv, ContinuationKnown
    <3>5. previous["active"] \in Endings \cup {"none"}
      BY <1>5 DEF Tracks
    <3>6. /\ ~FixedEvidence(line, previous["active"])
          /\ ~FreeComment(line) => line.ending # "operator"
      BY <1>1, <2>1, <3>3, <3>4, <3>5, FreeLine
    <3> QED BY <2>1, <3>1, <3>6, <1>7, <1>8
  <2> QED BY <2>2, <2>3
<1>14. FixedShown'
  <2> SUFFICES ASSUME legal'.fixed, NEW t \in Tracks,
                      evidence'[t].free \/ previous'[t] = "amp"
               PROVE  evidence'[t].fixed
    BY DEF FixedShown
  <2>1. FixedLegal(line) /\ (evidence[t].free \/ previous[t] = "amp" => evidence[t].fixed)
    BY <1>4, <1>9 DEF DetectInv, FixedShown
  <2>2. CASE t # track
    BY <2>1, <2>2, <1>7, <1>8
  <2>3. CASE t = track
    <3>1. CASE evidence[t].free \/ previous[t] = "amp"
      BY <2>1, <2>3, <3>1, <1>7
    <3>2. CASE ~evidence[t].free /\ previous[t] # "amp"
      <4>1. ~FreeComment(line) /\ (StrongFreeSignature(line) \/ line.ending = "amp")
        BY <2>3, <3>2, <1>7, <1>8
      <4>2. FixedEvidence(line, previous[t])
        BY <1>1, <2>1, <3>2, <4>1, FixedLine
      <4> QED BY <2>3, <4>2, <1>7
    <3> QED BY <3>1, <3>2
  <2> QED BY <2>2, <2>3
<1> QED BY <1>10, <1>11, <1>12, <1>13, <1>14 DEF DetectInv
-----------------------------------------------------------------------------
(* Directives *)

\* What a directive leaves alone, whichever it is.
OverDirective(owed) ==
    /\ directive' \in BOOLEAN /\ evidence' = evidence /\ previous' = previous
    /\ legal' \in History
    /\ legal'.free = legal.free /\ legal'.fixed = legal.fixed
    /\ legal'.split = (legal.split \/ TRUE \in legal.pending)
    /\ legal'.pending = owed

\* Nothing is continued over the directive, so nothing is after it.
LEMMA AfterDirective ==
    ASSUME DetectInv, NEW owed, OverDirective(owed),
           ~legal.split /\ TRUE \notin legal.pending =>
               TRUE \notin owed /\ \A i \in 1..Len(legal'.open) : Closing(legal'.open[i])
    PROVE  ContinuationKnown' /\ FreeShown' /\ FixedShown'
<1>1. FreeShown' /\ FixedShown'
  BY DEF OverDirective, DetectInv, FreeShown, FixedShown
<1>2. ASSUME ~legal'.split
      PROVE  /\ TRUE \notin legal'.pending /\ previous'["active"] # "amp"
             /\ \A i \in 1..Len(legal'.open) : Closing(legal'.open[i])
  <2>1. ~legal.split /\ TRUE \notin legal.pending
    BY <1>2 DEF OverDirective
  <2>2. TRUE \notin owed /\ \A i \in 1..Len(legal'.open) : Closing(legal'.open[i])
    BY <2>1
  <2>3. previous["active"] # "amp"
    <3>1. CASE CppActivity(stack) = "Active"
      <4>1. legal.pending # {} /\ legal.pending \in SUBSET BOOLEAN
        BY <3>1 DEF DetectInv, Answers, DetectTypeOK, History
      <4>2. FALSE \in legal.pending
        BY <2>1, <4>1
      <4> QED BY <2>1, <3>1, <4>2 DEF DetectInv, ContinuationKnown
    <3>2. CASE CppActivity(stack) # "Active"
      BY <2>1, <3>2 DEF DetectInv, ContinuationKnown
    <3> QED BY <3>1, <3>2
  <2> QED BY <2>2, <2>3 DEF OverDirective
<1>3. ContinuationKnown'
  BY <1>2 DEF ContinuationKnown
<1> QED BY <1>1, <1>3

LEMMA OpenedStep ==
    ASSUME DetectInv, NEW condition \in Literal,
           directive' \in BOOLEAN, evidence' = evidence, previous' = previous,
           stack' = Append(stack, NewFrame(stack, condition)),
           branches' = Append(branches, <<condition>>),
           legal' = [Opened(condition) EXCEPT !.split = @ \/ TRUE \in legal.pending]
    PROVE  DetectInv'
<1> DEFINE residue == [rest |-> Remaining(condition, legal.pending), exits |-> {}]
           owed == Possible(condition, legal.pending)
           frame == NewFrame(stack, condition)
           n == Len(stack)
<1>1. /\ legal \in History /\ legal.pending \in SUBSET BOOLEAN /\ legal.open \in Seq(Residues)
      /\ stack \in Seq(Frames) /\ branches \in Seq(Seq(Literal))
      /\ Len(branches) = n /\ Len(legal.open) = n
  BY DEF DetectInv, DetectTypeOK, History, Agree, Answers
<1>2. CppActivity(stack) = Depth(stack, n) /\ CppActivity(stack) \in Activities
  BY <1>1, TopActivity
<1>3. /\ frame \in Frames /\ frame.parent = Depth(stack, n) /\ frame.taken = "false"
      /\ frame.condition = condition
  BY <1>2 DEF NewFrame, Frames, Literal
<1>4. residue \in Residues /\ owed \in SUBSET BOOLEAN
  BY <1>1 DEF Residues, Remaining, Possible
<1>5. /\ legal' \in History /\ legal'.free = legal.free /\ legal'.fixed = legal.fixed
      /\ legal'.split = (legal.split \/ TRUE \in legal.pending)
      /\ legal'.pending = owed /\ legal'.open = Append(legal.open, residue)
  <2>1. Append(legal.open, residue) \in Seq(Residues)
    BY <1>1, <1>4
  <2>2. Opened(condition) =
           [legal EXCEPT !.pending = owed, !.open = Append(legal.open, residue)]
    BY <1>1 DEF Opened, History
  <2> HIDE DEF residue, owed
  <2> QED BY <1>1, <1>4, <2>1, <2>2 DEF History
<1>6. PICK next, nexts : next = Append(stack, frame) /\ nexts = Append(branches, <<condition>>)
  OBVIOUS
<1> HIDE DEF frame, residue, owed
<1>7. /\ next \in Seq(Frames) /\ Len(next) = n + 1 /\ next[n + 1] = frame
      /\ \A i \in 1..n : next[i] = stack[i]
  BY <1>1, <1>3, <1>6
<1>8. /\ nexts \in Seq(Seq(Literal)) /\ Len(nexts) = n + 1 /\ nexts[n + 1] = <<condition>>
      /\ \A i \in 1..n : nexts[i] = branches[i]
  BY <1>1, <1>6
<1>9. Len(<<condition>>) > 0 /\ Summarizes(frame, <<condition>>)
  BY <1>3 DEF Summarizes
<1>10. Agree(next, nexts)
  <2>1. /\ Agree(stack, branches) /\ n \in 0..Len(stack)
        /\ \A i \in 1..n : next[i] = stack[i] /\ nexts[i] = branches[i]
        /\ Len(nexts[n + 1]) > 0 /\ Summarizes(next[n + 1], nexts[n + 1])
        /\ next[n + 1].parent = Depth(stack, n)
    BY <1>1, <1>3, <1>7, <1>8, <1>9 DEF DetectInv
  <2> HIDE DEF n
  <2> QED BY <2>1, <1>1, <1>7, <1>8, AgreeOnTop
<1>11. stack' = next /\ branches' = nexts
  BY <1>6 DEF frame
<1>12. DetectTypeOK' /\ Agree(stack, branches)'
  BY <1>5, <1>7, <1>8, <1>10, <1>11 DEF DetectInv, DetectTypeOK
<1>13. Answers(stack, legal.open, legal.pending)'
  <2>1. Answers(next, Append(legal.open, residue), owed)
    BY <1>1, <1>6, AnswersOpened DEF DetectInv, frame, residue, owed
  <2> QED BY <2>1, <1>5, <1>11
<1>14. ContinuationKnown' /\ FreeShown' /\ FixedShown'
  <2>1. OverDirective(owed)
    BY <1>5 DEF OverDirective
  <2>2. ASSUME ~legal.split, TRUE \notin legal.pending
        PROVE  TRUE \notin owed /\ \A i \in 1..Len(legal'.open) : Closing(legal'.open[i])
    <3>1. TRUE \notin owed /\ Closing(residue)
      BY <2>2 DEF owed, residue, Possible, Remaining, Closing
    <3>2. /\ Len(legal'.open) = n + 1 /\ legal'.open[n + 1] = residue
          /\ \A i \in 1..n : legal'.open[i] = legal.open[i]
      BY <1>1, <1>4, <1>5
    <3>3. \A i \in 1..n : Closing(legal.open[i])
      BY <2>2, <1>1 DEF DetectInv, ContinuationKnown
    <3>4. 1..(n + 1) = (1..n) \cup {n + 1}
      OBVIOUS
    <3> QED BY <3>1, <3>2, <3>3, <3>4
  <2> QED BY <2>1, <2>2, AfterDirective
<1> QED BY <1>12, <1>13, <1>14 DEF DetectInv

LEMMA SwitchedStep ==
    ASSUME DetectInv, NEW condition \in Literal, branches # <<>>,
           directive' \in BOOLEAN, evidence' = evidence, previous' = previous,
           stack' = [stack EXCEPT ![Len(stack)] = Advance(@, condition)],
           branches' = [branches EXCEPT ![Len(branches)] = Append(@, condition)],
           legal' = [Switched(condition) EXCEPT !.split = @ \/ TRUE \in legal.pending]
    PROVE  DetectInv'
<1>1. PICK n \in Nat : n = Len(stack)
  <2>1. stack \in Seq(Frames)
    BY DEF DetectInv, DetectTypeOK
  <2> QED BY <2>1
<1>2. /\ legal \in History /\ legal.pending \in SUBSET BOOLEAN /\ legal.open \in Seq(Residues)
      /\ stack \in Seq(Frames) /\ branches \in Seq(Seq(Literal))
      /\ Len(branches) = n /\ Len(legal.open) = n
  BY <1>1 DEF DetectInv, DetectTypeOK, History, Agree, Answers
<1>3. n > 0 /\ n \in 1..n /\ n - 1 \in 0..n
  BY <1>1, <1>2
<1>4. stack[n] \in Frames /\ branches[n] \in Seq(Literal) /\ legal.open[n] \in Residues
  BY <1>1, <1>2, <1>3
<1>5. /\ Len(branches[n]) > 0 /\ Summarizes(stack[n], branches[n])
      /\ stack[n].parent = Depth(stack, n - 1)
  BY <1>1, <1>3 DEF DetectInv, Agree
<1>6. PICK frame, conditions : /\ frame = Advance(stack[n], condition)
                               /\ conditions = Append(branches[n], condition)
  OBVIOUS
<1>7. /\ frame \in Frames /\ frame.parent = stack[n].parent
      /\ conditions \in Seq(Literal) /\ Len(conditions) > 0 /\ Summarizes(frame, conditions)
  <2>1. frame \in Frames /\ frame.parent = stack[n].parent
    BY <1>4, <1>6, AdvanceRules
  <2>2. Summarizes(frame, conditions)
    BY <1>4, <1>5, <1>6, AdvanceSummarizes
  <2>3. conditions \in Seq(Literal) /\ Len(conditions) > 0
    BY <1>4, <1>6
  <2> QED BY <2>1, <2>2, <2>3
<1> DEFINE residue == [rest |-> Remaining(condition, legal.open[n].rest),
                       exits |-> legal.open[n].exits \cup legal.pending]
           owed == Possible(condition, legal.open[n].rest)
<1>8. residue \in Residues /\ owed \in SUBSET BOOLEAN
  BY <1>2, <1>4 DEF Residues, Remaining, Possible
<1>9. PICK open : open = [legal.open EXCEPT ![n] = residue]
  OBVIOUS
<1>10. /\ open \in Seq(Residues) /\ Len(open) = n /\ open[n] = residue
       /\ \A i \in 1..n : i # n => open[i] = legal.open[i]
  <2> HIDE DEF residue
  <2> QED BY <1>2, <1>3, <1>8, <1>9, Replacing
<1>11. /\ legal' \in History /\ legal'.free = legal.free /\ legal'.fixed = legal.fixed
       /\ legal'.split = (legal.split \/ TRUE \in legal.pending)
       /\ legal'.pending = owed /\ legal'.open = open
  <2>1. Last(legal.open) = legal.open[n]
    BY <1>2, <1>3 DEF Last
  <2>2. Switched(condition) = [legal EXCEPT !.pending = owed, !.open = open]
    BY <1>2, <1>9, <2>1 DEF Switched, History
  <2> HIDE DEF residue, owed
  <2> QED BY <1>2, <1>8, <1>10, <2>2 DEF History
<1>12. /\ stack' \in Seq(Frames) /\ Len(stack') = n /\ stack'[n] = frame
       /\ \A i \in 1..n : i # n => stack'[i] = stack[i]
  BY <1>1, <1>2, <1>3, <1>6, <1>7, Replacing
<1>13. /\ branches' \in Seq(Seq(Literal)) /\ Len(branches') = n /\ branches'[n] = conditions
       /\ \A i \in 1..n : i # n => branches'[i] = branches[i]
  BY <1>2, <1>3, <1>6, <1>7, Replacing
<1> HIDE DEF residue, owed
<1>14. Agree(stack', branches')
  <2>1. PICK m \in Nat : m = n - 1
    BY <1>3
  <2>2. /\ Agree(stack, branches) /\ m \in 0..Len(stack)
        /\ Len(stack') = m + 1 /\ Len(branches') = m + 1
        /\ \A i \in 1..m : stack'[i] = stack[i] /\ branches'[i] = branches[i]
        /\ Len(branches'[m + 1]) > 0 /\ Summarizes(stack'[m + 1], branches'[m + 1])
        /\ stack'[m + 1].parent = Depth(stack, m)
    <3>1. n = m + 1 /\ \A i \in 1..m : i \in 1..n /\ i # n
      BY <1>3, <2>1
    <3>2. Agree(stack, branches) /\ m \in 0..Len(stack)
      BY <1>1, <2>1, <3>1 DEF DetectInv
    <3>3. \A i \in 1..m : stack'[i] = stack[i] /\ branches'[i] = branches[i]
      BY <1>12, <1>13, <3>1
    <3>4. stack'[n].parent = Depth(stack, m)
      BY <1>5, <1>7, <1>12, <2>1
    <3> QED BY <1>7, <1>12, <1>13, <3>1, <3>2, <3>3, <3>4
  <2>3. stack' \in Seq(Frames) /\ branches' \in Seq(Seq(Literal))
    BY <1>12, <1>13
  <2>4. PICK next, nexts : next = stack' /\ nexts = branches'
    OBVIOUS
  <2>5. /\ next \in Seq(Frames) /\ nexts \in Seq(Seq(Literal))
        /\ Len(next) = m + 1 /\ Len(nexts) = m + 1
        /\ \A i \in 1..m : next[i] = stack[i] /\ nexts[i] = branches[i]
        /\ Len(nexts[m + 1]) > 0 /\ Summarizes(next[m + 1], nexts[m + 1])
        /\ next[m + 1].parent = Depth(stack, m)
    BY <2>2, <2>3, <2>4
  <2>6. Agree(next, nexts)
    BY ONLY <2>1, <2>2, <2>5, <1>2, AgreeOnTop
  <2> QED BY <2>4, <2>6
<1>15. DetectTypeOK' /\ Agree(stack, branches)'
  BY <1>11, <1>12, <1>13, <1>14 DEF DetectInv, DetectTypeOK
<1>16. Answers(stack, legal.open, legal.pending)'
  <2>1. stack' = [stack EXCEPT ![n] = Advance(stack[n], condition)]
    BY <1>1
  <2>2. Answers([stack EXCEPT ![n] = Advance(stack[n], condition)],
                [legal.open EXCEPT ![n] = residue], Possible(condition, legal.open[n].rest))
    BY <1>1, <1>2, <1>3, AnswersSwitched DEF DetectInv, residue
  <2> QED BY <2>1, <2>2, <1>9, <1>11 DEF owed
<1>17. ContinuationKnown' /\ FreeShown' /\ FixedShown'
  <2>1. OverDirective(owed)
    BY <1>11 DEF OverDirective
  <2>2. ASSUME ~legal.split, TRUE \notin legal.pending
        PROVE  TRUE \notin owed /\ \A i \in 1..Len(legal'.open) : Closing(legal'.open[i])
    <3>1. \A i \in 1..n : Closing(legal.open[i])
      BY <2>2, <1>2 DEF DetectInv, ContinuationKnown
    <3>2. TRUE \notin owed /\ Closing(residue)
      BY <2>2, <3>1, <1>3 DEF owed, residue, Possible, Remaining, Closing
    <3> QED BY <3>1, <3>2, <1>10, <1>11
  <2> QED BY <2>1, <2>2, AfterDirective
<1> QED BY <1>15, <1>16, <1>17 DEF DetectInv

LEMMA ClosedStep ==
    ASSUME DetectInv, branches # <<>>,
           directive' \in BOOLEAN, evidence' = evidence, previous' = previous,
           stack' = Front(stack), branches' = Front(branches),
           legal' = [Closed EXCEPT !.split = @ \/ TRUE \in legal.pending]
    PROVE  DetectInv'
<1>1. PICK n \in Nat : n = Len(stack)
  <2>1. stack \in Seq(Frames)
    BY DEF DetectInv, DetectTypeOK
  <2> QED BY <2>1
<1>2. /\ legal \in History /\ legal.pending \in SUBSET BOOLEAN /\ legal.open \in Seq(Residues)
      /\ stack \in Seq(Frames) /\ branches \in Seq(Seq(Literal))
      /\ Len(branches) = n /\ Len(legal.open) = n
  BY <1>1 DEF DetectInv, DetectTypeOK, History, Agree, Answers
<1>3. n > 0 /\ n \in 1..n
  BY <1>1, <1>2
<1>4. legal.open[n] \in Residues
  BY <1>2, <1>3
<1> DEFINE owed == legal.pending \cup legal.open[n].rest \cup legal.open[n].exits
<1>5. owed \in SUBSET BOOLEAN
  BY <1>2, <1>4 DEF Residues
<1>6. PICK open : open = Front(legal.open)
  OBVIOUS
<1>7. /\ open \in Seq(Residues) /\ Len(open) = n - 1
      /\ \A i \in 1..(n - 1) : open[i] = legal.open[i]
  BY <1>2, <1>3, <1>6 DEF Front
<1>8. /\ legal' \in History /\ legal'.free = legal.free /\ legal'.fixed = legal.fixed
      /\ legal'.split = (legal.split \/ TRUE \in legal.pending)
      /\ legal'.pending = owed /\ legal'.open = open
  <2>1. Last(legal.open) = legal.open[n]
    BY <1>2, <1>3 DEF Last
  <2>2. Closed = [legal EXCEPT !.pending = owed, !.open = open]
    BY <1>2, <1>6, <2>1 DEF Closed, History
  <2> HIDE DEF owed
  <2> QED BY <1>2, <1>5, <1>7, <2>2 DEF History
<1> HIDE DEF owed
<1>9. stack' \in Seq(Frames) /\ branches' \in Seq(Seq(Literal))
  BY <1>1, <1>2, <1>3 DEF Front
<1>10. Agree(stack', branches')
  BY <1>1, <1>2, <1>3, AgreeBelow DEF DetectInv
<1>11. DetectTypeOK' /\ Agree(stack, branches)'
  BY <1>8, <1>9, <1>10 DEF DetectInv, DetectTypeOK
<1>12. Answers(stack, legal.open, legal.pending)'
  <2>1. Answers(Front(stack), Front(legal.open), owed)
    BY <1>1, <1>2, <1>3, AnswersClosed DEF DetectInv, owed
  <2> QED BY <2>1, <1>6, <1>8
<1>13. ContinuationKnown' /\ FreeShown' /\ FixedShown'
  <2>1. OverDirective(owed)
    BY <1>8 DEF OverDirective
  <2>2. ASSUME ~legal.split, TRUE \notin legal.pending
        PROVE  TRUE \notin owed /\ \A i \in 1..Len(legal'.open) : Closing(legal'.open[i])
    <3>1. \A i \in 1..n : Closing(legal.open[i])
      BY <2>2, <1>2 DEF DetectInv, ContinuationKnown
    <3>2. TRUE \notin owed
      BY <2>2, <3>1, <1>3 DEF owed, Closing
    <3>3. Len(legal'.open) = n - 1 /\ \A i \in 1..(n - 1) : i \in 1..n
      BY <1>3, <1>7, <1>8
    <3> QED BY <3>1, <3>2, <3>3, <1>7, <1>8
  <2> QED BY <2>1, <2>2, AfterDirective
<1> QED BY <1>11, <1>12, <1>13 DEF DetectInv

LEMMA DirectiveStep ==
    ASSUME DetectInv, NEW line \in SourceLines, Directive(line)
    PROVE  DetectInv'
<1>1. line \in DirectiveLine
  BY DetectAssumption DEF Directive, CodeLine, DirectiveLine
<1>2. /\ line.word \in Words /\ line.continues \in BOOLEAN /\ Condition(line) \in Literal
      /\ "unknown" \in Literal /\ "true" \in Literal
  BY <1>1 DEF DirectiveLine, Condition, Literal
<1>3. /\ directive' \in BOOLEAN /\ evidence' = evidence /\ previous' = previous
      /\ line.word \in {"else", "elif", "elifdef", "endif"} => branches # <<>>
  BY <1>2 DEF Directive
<1>4. CASE line.kind # "cpp"
  <2>1. UNCHANGED <<stack, branches, legal>>
    BY <1>4 DEF Directive
  <2> QED BY <1>3, <2>1 DEF DetectInv, DetectTypeOK, ContinuationKnown, FreeShown, FixedShown
<1>5. CASE line.kind = "cpp"
  <2>1. /\ stack' = UpdateCppActivity(line, stack) /\ branches' = BranchesWith(line)
        /\ legal' = [DirectiveLegal(line) EXCEPT !.split = @ \/ Splits(line)]
    BY <1>5 DEF Directive
  <2>2. Splits(line) <=> TRUE \in legal.pending /\ line.word # "include"
    BY <1>5 DEF Splits
  <2>3. ASSUME NEW condition \in Literal,
               \/ line.word = "if" /\ condition = Condition(line)
               \/ line.word = "ifdef" /\ condition = "unknown"
        PROVE  DetectInv'
    <3>1. stack' = Append(stack, NewFrame(stack, condition))
      BY <2>1, <2>3 DEF UpdateCppActivity, NewFrame
    <3>2. branches' = Append(branches, <<condition>>)
      BY <2>1, <2>3 DEF BranchesWith
    <3>3. legal' = [Opened(condition) EXCEPT !.split = @ \/ TRUE \in legal.pending]
      BY <2>1, <2>2, <2>3 DEF DirectiveLegal
    <3> QED BY <1>3, <3>1, <3>2, <3>3, OpenedStep
  <2>4. ASSUME NEW condition \in Literal,
               \/ line.word = "else" /\ condition = "true"
               \/ line.word = "elif" /\ condition = Condition(line)
               \/ line.word = "elifdef" /\ condition = "unknown"
        PROVE  DetectInv'
    <3>1. branches # <<>> /\ Len(stack) # 0
      BY <1>3, <2>4 DEF DetectInv, Agree, DetectTypeOK
    <3>2. stack' = [stack EXCEPT ![Len(stack)] = Advance(@, condition)]
      BY <2>1, <2>4, <3>1 DEF UpdateCppActivity
    <3>3. branches' = [branches EXCEPT ![Len(branches)] = Append(@, condition)]
      BY <2>1, <2>4 DEF BranchesWith
    <3>4. legal' = [Switched(condition) EXCEPT !.split = @ \/ TRUE \in legal.pending]
      BY <2>1, <2>2, <2>4 DEF DirectiveLegal
    <3> QED BY <1>3, <3>1, <3>2, <3>3, <3>4, SwitchedStep
  <2>5. CASE line.word = "endif"
    <3>1. branches # <<>> /\ Len(stack) # 0
      BY <1>3, <2>5 DEF DetectInv, Agree, DetectTypeOK
    <3>2. stack' = Front(stack) /\ branches' = Front(branches)
      BY <2>1, <2>5, <3>1 DEF UpdateCppActivity, BranchesWith
    <3>3. legal' = [Closed EXCEPT !.split = @ \/ TRUE \in legal.pending]
      BY <2>1, <2>2, <2>5 DEF DirectiveLegal
    <3> QED BY <1>3, <3>1, <3>2, <3>3, ClosedStep
  <2>6. CASE line.word = "include"
    <3>1. stack' = stack /\ branches' = branches
      BY <2>1, <2>6 DEF UpdateCppActivity, BranchesWith
    <3>2. legal' = [legal EXCEPT !.split = legal.split \/ FALSE]
      BY <2>1, <2>2, <2>6 DEF DirectiveLegal
    <3>3. legal' = legal
      BY <3>2 DEF DetectInv, DetectTypeOK, History
    <3> QED BY <1>3, <3>1, <3>3
          DEF DetectInv, DetectTypeOK, ContinuationKnown, FreeShown, FixedShown
  <2> QED BY <1>2, <2>3, <2>4, <2>5, <2>6 DEF Words
<1> QED BY <1>4, <1>5
-----------------------------------------------------------------------------
LEMMA InitDetect == DetectInit => DetectInv
<1> SUFFICES ASSUME DetectInit PROVE DetectInv
  OBVIOUS
<1> USE DEF DetectInit
<1>1. DetectTypeOK
  <2>1. evidence \in [Tracks -> Evidence]
    BY DEF Evidence, NoEvidence
  <2>2. previous \in [Tracks -> Endings \cup {"none"}]
    OBVIOUS
  <2>3. legal \in History
    <3>1. <<>> \in Seq(Residues) /\ {FALSE} \in SUBSET BOOLEAN
      OBVIOUS
    <3> QED BY <3>1 DEF History
  <2>4. stack \in Seq(Frames) /\ branches \in Seq(Seq(Literal)) /\ directive \in BOOLEAN
    <3>1. <<>> \in Seq(Frames) /\ <<>> \in Seq(Seq(Literal))
      OBVIOUS
    <3> QED BY <3>1
  <2> QED BY <2>1, <2>2, <2>3, <2>4 DEF DetectTypeOK
<1>2. Agree(stack, branches)
  <2>1. Len(stack) = 0 /\ Len(branches) = 0 /\ 0..0 = {0} /\ 1..0 = {}
    OBVIOUS
  <2>2. Exact(stack, branches, 0)
    BY <2>1 DEF Exact, Depth
  <2> QED BY <2>1, <2>2 DEF Agree
<1>3. Answers(stack, legal.open, legal.pending)
  <2>1. Len(legal.open) = 0 /\ Len(stack) = 0 /\ 1..0 = {}
    OBVIOUS
  <2>2. FALSE \in legal.pending
    OBVIOUS
  <2> QED BY ONLY <2>1, <2>2 DEF Answers
<1>4. ContinuationKnown /\ FreeShown /\ FixedShown
  BY DEF ContinuationKnown, FreeShown, FixedShown, NoEvidence, Tracks
<1> QED BY <1>1, <1>2, <1>3, <1>4 DEF DetectInv

LEMMA NextDetect == DetectInv /\ [DetectNext]_detectVars => DetectInv'
<1> SUFFICES ASSUME DetectInv, [DetectNext]_detectVars PROVE DetectInv'
  OBVIOUS
<1>1. CASE UNCHANGED detectVars
  BY <1>1 DEF detectVars, DetectInv, DetectTypeOK, ContinuationKnown, FreeShown, FixedShown
<1>2. CASE SkipContinued
  BY <1>2 DEF SkipContinued, DetectInv, DetectTypeOK, ContinuationKnown, FreeShown, FixedShown
<1>3. ASSUME NEW line \in SourceLines, Directive(line) \/ SkipInactive(line) \/ ReadCode(line)
      PROVE  DetectInv'
  BY <1>3, DirectiveStep, InactiveStep, CodeStep
<1> QED BY <1>1, <1>2, <1>3 DEF DetectNext

LEMMA InvRecognises == DetectInv => FormIsRecognised
<1> SUFFICES ASSUME DetectInv PROVE FormIsRecognised
  OBVIOUS
<1>1. ActivityExact
  <2>1. Exact(stack, branches, Len(stack)) /\ Len(branches) = Len(stack)
    BY DEF DetectInv, DetectTypeOK, Agree
  <2>2. CppActivity(stack) = Depth(stack, Len(stack))
    BY TopActivity DEF DetectInv, DetectTypeOK
  <2> QED BY <2>1, <2>2 DEF ActivityExact, Exact, Taken, Dead
<1>2. EvidenceIsTruthful
  <2>1. legal.free /\ ~legal.split => DetectPath(TRUE) = "Free"
    BY DEF DetectInv, FreeShown, DetectPath, StrongFixed
  <2>2. legal.fixed => Detect = "Fixed"
    BY DEF DetectInv, FixedShown, Detect, StrongFixed, StrongFree, Tracks
  <2> QED BY <2>1, <2>2 DEF EvidenceIsTruthful
<1> QED BY <1>1, <1>2 DEF FormIsRecognised

\* Whatever the lines of a file, code counts as compiled exactly when every way
\* to resolve the conditions compiles it and as dropped exactly when none does,
\* and a file that is of one form whatever the conditions is not taken for the
\* other (detect, detect_path, update_cpp_activity).
THEOREM FormRecognised == DetectSpec => []FormIsRecognised
<1>1. DetectInit => DetectInv
  BY InitDetect
<1>2. DetectInv /\ [DetectNext]_detectVars => DetectInv'
  BY NextDetect
<1>3. DetectInv => FormIsRecognised
  BY InvRecognises
<1> QED BY <1>1, <1>2, <1>3, PTL DEF DetectSpec
=============================================================================
