------------------------------- MODULE Project -------------------------------
(***************************************************************************)
(* The context of a project (src/src/analysis/project: context.rs,         *)
(* includes.rs): files are analyzed, the fragments they INCLUDE are folded *)
(* into them, and the result is absorbed into tables that every query asks.*)
(*                                                                         *)
(* A path is a sequence of components, "/" first when it is rooted.  Files *)
(* change on disk, and buffers in an editor, while a context is built.     *)
(***************************************************************************)
EXTENDS Declarations

CONSTANTS Contents,   \* the groups of each source text, by the name of the text
          Unreadable, \* the texts that analysis refuses
          Projects    \* the projects: what is on disk, and how it is absorbed

ASSUME ProjectAssumption == Unreadable \subseteq DOMAIN Contents

\* normalize_path
Normalize(path) ==
    FoldLeft(LAMBDA done, c :
                IF c = "." THEN done
                ELSE IF c # ".." \/ done = <<>> \/ Last(done) = ".." THEN Append(done, c)
                ELSE IF Last(done) = "/" THEN done
                ELSE Front(done),
             <<>>, path)

\* analyze_file_at; the text's name stands for its fingerprint.
Analyses == [text \in DOMAIN Contents |-> Extract(Contents[text])]

AnalyzeFileAt(path, text) ==
    IF text \in Unreadable THEN {}
    ELSE {[Analyses[text] EXCEPT !.id = text, !.path = Normalize(path)]}

\* What a lookup over files finds at a path.
Load(files, path) ==
    IF path \in DOMAIN files THEN AnalyzeFileAt(path, files[path]) ELSE {}

Candidate(path, include) ==
    Normalize(IF include.path[1] = "/" THEN include.path ELSE Front(path) \o include.path)

\* expand_includes_with: a file being expanded is not included into itself.
RECURSIVE Expand(_, _, _, _)
Expand(path, facts, files, stack) ==
    FoldLeft(LAMBDA done, include :
                LET at    == Candidate(path, include)
                    found == IF at \in stack THEN {} ELSE Load(files, at) IN
                IF found = {} THEN done
                ELSE MergeIncludeAt(done, include.line,
                         Expand(at, CHOOSE f \in found : TRUE, files, stack \cup {at})),
             facts, facts.includes)

ExpandIncludes(path, facts, files) == Expand(Normalize(path), facts, files, {Normalize(path)})

\* The candidates an expansion asks for, found or not.
RECURSIVE Asked(_, _, _, _)
Asked(path, facts, files, stack) ==
    LET ats == {Candidate(path, facts.includes[i]) : i \in 1..Len(facts.includes)} \ stack IN
    ats \cup UNION {Asked(at, f, files, stack \cup {at}) : <<at, f>> \in
                        UNION {{at} \X Load(files, at) : at \in ats}}
-----------------------------------------------------------------------------
(* the context *)
NoContext ==
    [cases |-> NoTables, files |-> EmptyMap, externals |-> EmptyMap, generics |-> EmptyMap,
     generic |-> EmptyMap, declared_types |-> EmptyMap, macros |-> EmptyMap, types |-> NoTypes,
     hosts |-> EmptyMap, expanded |-> EmptyMap, by_id |-> EmptyMap, sources |-> <<>>]

\* module_units and host_units, in registration order.
HostUnits(context, host) == IF host \in DOMAIN context.hosts THEN context.hosts[host] ELSE <<>>

RegisterUnit(hosts, unit) ==
    LET host == unit.project_host
        held == IF host \in DOMAIN hosts THEN hosts[host] ELSE <<>> IN
    IF host = <<>> \/ unit \in Range(held) THEN hosts
    ELSE (host :> Append(held, unit)) @@ hosts

RegisterModules(hosts, facts) ==
    LET scopes == SetToSortSeq(DOMAIN facts.units, LAMBDA s, t : s < t) IN
    FoldLeft(RegisterUnit, hosts, [i \in 1..Len(scopes) |-> facts.units[scopes[i]]]
                                  \o facts.included)

\* A fingerprint answers for a path only while no other path has shown it.
RegisterSource(context, path, id) ==
    LET stale == IF path \in DOMAIN context.expanded /\ context.expanded[path].id # id
                 THEN (context.expanded[path].id :> <<>>) @@ context.by_id
                 ELSE context.by_id IN
    IF id \notin DOMAIN stale THEN (id :> path) @@ stale
    ELSE IF stale[id] = path THEN stale
    ELSE (id :> <<>>) @@ stale

AbsorbExpanded(context, path, facts, expanded) ==
    LET at == Normalize(path) IN
    [context EXCEPT
        !.cases = [MergeTables(@, facts.cases) EXCEPT
            !.components = Merge(@, expanded.cases.components),
            !.bound = Merge(@, expanded.cases.bound)],
        !.files = Merge(@, facts.files),
        !.externals = Merge(@, facts.externals),
        !.generics = Merge(@, facts.generics),
        !.generic = Merge(@, expanded.generic),
        !.declared_types = Merge(@, facts.declared_types),
        !.macros = Merge(@, expanded.macros),
        !.types = MergeNonRoots(MergeTypes(@, facts.types), expanded.types),
        !.hosts = RegisterModules(@, expanded),
        !.by_id = RegisterSource(context, at, facts.id),
        !.expanded = (at :> [id |-> facts.id, facts |-> expanded]) @@ @,
        !.sources = Append(@, at)]

Absorb(context, path, facts, files) ==
    AbsorbExpanded(context, path, facts, ExpandIncludes(path, facts, files))

HoldsExpansionOf(context, facts) ==
    /\ facts.path \in DOMAIN context.expanded
    /\ context.expanded[facts.path].id = facts.id

\* Mutant: an edited buffer is taken as it is.
ExpandUncached_Never(context, path, facts, files) == facts

ExpandUncached(context, path, facts, files) ==
    IF facts.includes = <<>> \/ HoldsExpansionOf(context, facts) THEN facts
    ELSE ExpandIncludes(path, facts, files)

\* The facts a query reads: the stored expansion of this very text, if any.
Expanded(context, local) ==
    LET path == IF local.path # <<>> THEN local.path
                ELSE IF local.id \in DOMAIN context.by_id THEN context.by_id[local.id] ELSE <<>>
    IN  IF path \in DOMAIN context.expanded /\ context.expanded[path].id = local.id
        THEN context.expanded[path].facts ELSE local

ResolverFor(context, local) ==
    [local |-> local.cases, project |-> context.cases, macros |-> context.macros]
-----------------------------------------------------------------------------
VARIABLES
    project,   \* the project of this behaviour
    disk,      \* the text at each path
    context,   \* ProjectContext
    batch,     \* the roots still to absorb, the lookups and the fragments kept
    absorbed   \* what was absorbed: [path, facts, expanded]

projectVars == <<project, disk, context, batch, absorbed>>

NoBatch == [roots |-> <<>>, lookup |-> EmptyMap, fragments |-> EmptyMap]

ProjectInit ==
    /\ project \in Projects
    /\ disk = project.disk /\ context = NoContext /\ batch = NoBatch /\ absorbed = {}

\* analyze_project_with_includes: roots win over resources, both over the disk.
StartBatch ==
    /\ context = NoContext /\ batch.roots = <<>>
    /\ \E order \in project.batches :
        /\ \A i \in 1..Len(order) : Load(disk, order[i]) # {}
        /\ \A p \in DOMAIN project.resources : Load(project.resources, p) # {}
        /\ batch' = [roots  |-> [i \in 1..Len(order) |->
                                    [path |-> order[i], text |-> disk[order[i]]]],
                     lookup |-> [p \in Range(order) |-> disk[p]] @@ project.resources,
                     fragments |-> EmptyMap]
    /\ UNCHANGED <<project, disk, context, absorbed>>

\* Each fragment is read once in a batch, whatever happens on disk meanwhile.
\* Mutant: fragments are read for every root.
FragmentsAfter_None(fragments, asked, files) == EmptyMap

FragmentsAfter(fragments, asked, files) ==
    fragments @@ [p \in asked |-> IF p \in DOMAIN files THEN files[p] ELSE ""]

AbsorbRoot ==
    /\ batch.roots # <<>>
    /\ LET root  == Head(batch.roots)
           facts == CHOOSE f \in AnalyzeFileAt(root.path, root.text) : TRUE
           kept  == {p \in DOMAIN batch.fragments : batch.fragments[p] # ""}
           lost  == DOMAIN batch.fragments \ kept
           now   == [p \in kept |-> batch.fragments[p]] @@ batch.lookup @@ disk
           files == [p \in DOMAIN now \ lost |-> now[p]]
           expanded == ExpandIncludes(root.path, facts, files) IN
       /\ context' = AbsorbExpanded(context, root.path, facts, expanded)
       /\ absorbed' = absorbed \cup {[path |-> root.path, facts |-> facts, expanded |-> expanded]}
       /\ batch' = [batch EXCEPT
              !.roots = Tail(@),
              !.fragments = FragmentsAfter(@, Asked(Normalize(root.path), facts, files,
                                                    {Normalize(root.path)}), files)]
    /\ UNCHANGED <<project, disk>>

\* ProjectContext::absorb and add_source, for a source outside a batch.
AddSource ==
    /\ batch.roots = <<>> /\ Len(context.sources) < project.absorbs
    /\ \E path \in project.added \cap DOMAIN disk : \E facts \in Load(disk, path) :
        LET expanded == ExpandIncludes(path, facts, disk) IN
        /\ context' = AbsorbExpanded(context, path, facts, expanded)
        /\ absorbed' = absorbed \cup {[path |-> path, facts |-> facts, expanded |-> expanded]}
    /\ UNCHANGED <<project, disk, batch>>

\* -D names and #define outrank every declaration.
Define ==
    /\ batch.roots = <<>>
    /\ \E name \in project.defines :
        context' = [context EXCEPT !.macros = InsertName(@, name)]
    /\ UNCHANGED <<project, disk, batch, absorbed>>

\* Somebody saves another text.
EditFile ==
    /\ \E path \in DOMAIN project.edits :
        /\ disk[path] # project.edits[path]
        /\ disk' = [disk EXCEPT ![path] = project.edits[path]]
    /\ UNCHANGED <<project, context, batch, absorbed>>

ProjectNext == StartBatch \/ AbsorbRoot \/ AddSource \/ Define \/ EditFile
ProjectSpec == ProjectInit /\ [][ProjectNext]_projectVars
=============================================================================
