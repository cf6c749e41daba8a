----------------------------- MODULE ProjectFacts -----------------------------
(***************************************************************************)
(* What one file declares (src/src/analysis/declarations: units.rs,        *)
(* types.rs, facts.rs).  A unit is a scope that owns declarations; the     *)
(* facts of a file hold its units by scope, its file-wide tables and the   *)
(* INCLUDE directives still to expand.                                     *)
(***************************************************************************)
EXTENDS CaseNames

(* accessibility *)
NoAccess == [default |-> "public", private |-> {}, public |-> {}]

SetDefault(access, to) == [access EXCEPT !.default = to]

Mark(access, keys, to) ==
    IF to = "private"
    THEN [access EXCEPT !.private = @ \cup keys, !.public = @ \ keys]
    ELSE [access EXCEPT !.public = @ \cup keys, !.private = @ \ keys]

Explicit(access, key) ==
    IF key \in access.private THEN {"private"}
    ELSE IF key \in access.public THEN {"public"} ELSE {}

DefaultIsPublic(access) == access.default = "public"

IsPublic(access, key) ==
    IF Explicit(access, key) # {} THEN Explicit(access, key) = {"public"}
    ELSE DefaultIsPublic(access)

MergeAccess(mine, theirs) ==
    LET default == IF theirs.default = "private" THEN "private" ELSE mine.default IN
    Mark(Mark(SetDefault(mine, default), theirs.private, "private"), theirs.public, "public")

(* IMPORT *)
DefaultHostAccess == [mode |-> "all", names |-> {}, explicit |-> FALSE]
NoneByDefault     == [DefaultHostAccess EXCEPT !.mode = "none"]

SetDefaultAll(host) == IF host.explicit THEN host ELSE [host EXCEPT !.mode = "all"]

Allows(host, key) == host.mode = "all" \/ (host.mode = "only" /\ key \in host.names)

ImportAll  == [mode |-> "all", names |-> {}, explicit |-> TRUE]
ImportNone == [mode |-> "none", names |-> {}, explicit |-> TRUE]

ImportOnly(host, keys) ==
    [mode |-> "only", explicit |-> TRUE,
     names |-> keys \cup IF host.explicit /\ host.mode = "only" THEN host.names ELSE {}]

MergeHostAccess(mine, theirs) ==
    IF ~theirs.explicit THEN mine
    ELSE IF theirs.mode = "only" THEN ImportOnly(mine, theirs.names)
    ELSE theirs

(* USE: an association renames or admits; `alias` is the spelling a rename gives. *)
Targets(association, key) ==
    LET named == SelectSeq(association.names, LAMBDA item : Key(item.local) = key)
        renamed == \E i \in 1..Len(association.names) :
            /\ association.names[i].remote = key
            /\ Key(association.names[i].local) # key
        Target(item) == [remote |-> item.remote,
                         alias |-> IF Key(item.local) = item.remote THEN {} ELSE {item.local}]
    IN  IF named # <<>> THEN [i \in 1..Len(named) |-> Target(named[i])]
        ELSE IF association.only \/ renamed THEN <<>>
        ELSE <<[remote |-> key, alias |-> {}]>>

(* types.rs: agreed maps, pooled by whether they are rooted in a scope *)
RootTypes    == {"procedure_locals", "variables", "module_variables"}
NonRootTypes == {"components", "parents"}
NoTypes == [procedure_locals |-> EmptyMap, variables |-> EmptyMap, module_variables |-> EmptyMap,
            components |-> EmptyMap, parents |-> EmptyMap]

MergeTypes(mine, theirs) == [m \in DOMAIN mine |-> Merge(mine[m], theirs[m])]

MergeNonRoots(mine, theirs) ==
    [m \in DOMAIN mine |-> IF m \in RootTypes THEN mine[m] ELSE Merge(mine[m], theirs[m])]

InsertType(types, map, key, type) == [types EXCEPT ![map] = Insert(@, key, type)]

\* TypeMaps::component_type: along EXTENDS, until a cycle or a contradiction.
RECURSIVE InheritedType(_, _, _, _)
InheritedType(types, owner, name, visited) ==
    LET own    == EntryOf(types.components, <<owner, name>>)
        parent == Get(types.parents, owner) IN
    IF owner \in visited \/ own = Ambiguous THEN {}
    ELSE IF own # Absent THEN Option(own)
    ELSE UNION {InheritedType(types, p, name, visited \cup {owner}) : p \in parent}

ComponentType(types, owner, name) == InheritedType(types, owner, name, {})

\* resolve_chain_with_locals: a procedure's own variables first.  (local_types, looked
\* at behind the variables, is always empty: nothing calls insert_local.)
RootType(types, procedure, root) ==
    LET local == EntryOf(types.procedure_locals, <<procedure, root>>) IN
    IF local = Absent THEN Get(types.variables, root) ELSE Option(local)

ResolveChain(types, procedure, root, links) ==
    FoldLeft(LAMBDA owners, link : UNION {ComponentType(types, o, link) : o \in owners},
             RootType(types, procedure, root), links)
-----------------------------------------------------------------------------
(* units.rs *)
MemberTables == {"components", "bound", "generic"}

NewUnit(scope, kind, name, parent, lines) ==
    [scope |-> scope, kind |-> kind, name |-> name, parent |-> parent, lines |-> lines,
     project_host |-> IF kind = "Module" THEN <<name>> ELSE <<>>,
     semantic_host |-> <<>>, host_access |-> DefaultHostAccess,
     symbols |-> EmptyMap, types |-> EmptyMap, variable_types |-> EmptyMap,
     components |-> EmptyMap, bound |-> EmptyMap, generic |-> EmptyMap,
     member_access |-> EmptyMap, type_graph |-> NoTypes, imports |-> <<>>, access |-> NoAccess]

MemberAccess(unit, owner) ==
    IF owner \in DOMAIN unit.member_access THEN unit.member_access[owner] ELSE NoAccess

MergeMemberAccess(unit, other) ==
    [owner \in DOMAIN unit.member_access \cup DOMAIN other.member_access |->
        IF owner \in DOMAIN other.member_access
        THEN MergeAccess(MemberAccess(unit, owner), other.member_access[owner])
        ELSE unit.member_access[owner]]

MergeFragment(unit, other) ==
    [unit EXCEPT
        !.symbols = Merge(@, other.symbols), !.types = Merge(@, other.types),
        !.variable_types = Merge(@, other.variable_types),
        !.components = MergeMembers(@, other.components),
        !.bound = MergeMembers(@, other.bound), !.generic = MergeMembers(@, other.generic),
        !.member_access = MergeMemberAccess(unit, other),
        !.type_graph = MergeNonRoots(@, other.type_graph),
        !.imports = @ \o other.imports,
        !.access = MergeAccess(@, other.access),
        !.host_access = MergeHostAccess(@, other.host_access)]

(* facts.rs *)
NoFacts == [units |-> EmptyMap, included |-> <<>>, includes |-> <<>>, cases |-> NoTables,
            files |-> EmptyMap, externals |-> EmptyMap, generics |-> EmptyMap,
            generic |-> EmptyMap, declared_types |-> EmptyMap, macros |-> EmptyMap,
            types |-> NoTypes, id |-> "", path |-> <<>>]

\* active_unit: the narrowest unit over the line, the inner of two alike.
ActiveUnit(facts, line) ==
    LET over == {s \in DOMAIN facts.units : /\ facts.units[s].lines[1] <= line
                                            /\ line < facts.units[s].lines[2]}
        Width(s) == facts.units[s].lines[2] - facts.units[s].lines[1] IN
    {s \in over : \A t \in over : Width(s) < Width(t) \/ (Width(s) = Width(t) /\ s >= t)}

FileScope == 1

\* merge_include_at: the fragment's file scope becomes the scope of the INCLUDE.
MergeIncludeAt(facts, line, fragment) ==
    LET host   == IF ActiveUnit(facts, line) = {} THEN FileScope
                  ELSE CHOOSE s \in ActiveUnit(facts, line) : TRUE
        nested == SetToSortSeq(DOMAIN fragment.units \ {FileScope}, LAMBDA s, t : s < t)
        wide   == facts.units[host].kind = "File"
        Wide(mine, theirs) == IF wide THEN Merge(mine, theirs) ELSE mine
        global == {"components", "bound", "procedures"} IN
    [facts EXCEPT
        !.units[host] = MergeFragment(@, fragment.units[FileScope]),
        !.included = @ \o [i \in 1..Len(nested) |-> fragment.units[nested[i]]]
                       \o fragment.included,
        !.cases = [t \in TableNames |->
            IF t \in global THEN Merge(@[t], fragment.cases[t])
            ELSE IF t \in {"symbols", "types"} THEN Wide(@[t], fragment.cases[t]) ELSE @[t]],
        !.generics = Merge(@, fragment.generics), !.generic = Merge(@, fragment.generic),
        !.types = IF wide THEN MergeTypes(@, fragment.types)
                  ELSE MergeNonRoots(@, fragment.types),
        !.macros = Merge(@, fragment.macros),
        !.files = Wide(@, fragment.files), !.externals = Wide(@, fragment.externals),
        !.declared_types = Wide(@, fragment.declared_types)]
=============================================================================
